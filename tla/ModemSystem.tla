------------------------------ MODULE ModemSystem ------------------------------
(***************************************************************************)
(* What surrounds a driver of an AT modem: the application above it, the   *)
(* UART, the network, and what the modems have in common.  A modem is      *)
(* external: it answers each command with the replies the driver waits for *)
(* or with an error, and reports what happens on the network in between.   *)
(* Its answers travel through a queue (line) and the UART into rx.  Bytes  *)
(* are numbered in the order the application writes them or the peer sends *)
(* them.                                                                   *)
(***************************************************************************)
EXTENDS ATDriver

CONSTANT Scenarios  \* what the application, the modem and the network may do in a behaviour

(* A scenario bounds the events of a behaviour and says which may happen:     *)
(*   modem            the driver and the modem                               *)
(*   type             of the connection, _type                               *)
(*   program          what the application does: one of the examples, or     *)
(*                    "any": calls in any order, on a driver that is there   *)
(*   maxUp, maxDown   bytes written by the application, sent by the peer      *)
(*   maxConnects      calls of connect()                                      *)
(*   maxErrors        commands refused and contexts deactivated               *)
(*   maxRequests      calls of requestRSSI(), requestIDString(), requestMac() *)
(*                    and, on a locked port, serialWrite()                    *)
(*   maxRestarts      hardware resets of the modem                            *)
(*   mayDisconnect, mayLock   the application calls disconnect(), serialLock() *)
(*   mayClose         the peer closes connections                             *)
(*   openAtStart      the serial port is open at the start                    *)
Drivers == {"sim800", "sim7x00", "espressif", "cc1352p7"}
ASSUME ScenariosAssumption ==
  Scenarios \subseteq
    [modem : Drivers, type : {"TCP", "UDP"},
     program : {"any", "http", "events", "ntp", "autodetect"},
     maxUp : Nat, maxDown : Nat, maxConnects : Nat, maxErrors : Nat,
     maxRequests : Nat, maxRestarts : Nat, mayDisconnect : BOOLEAN,
     mayLock : BOOLEAN, mayClose : BOOLEAN, openAtStart : BOOLEAN]

VARIABLES
  scenario,  \* the one of this behaviour
  link,      \* "down" without a network, "none", "opening", "open", "closed" by the
             \* peer (and "attaching" of the SIM7x00)
  inbox,     \* bytes from the peer the modem keeps until they are fetched
  prompt,    \* data bytes the modem waits for after its prompt
  line,      \* tokens on their way from the modem
  connects, errors, requests, restarts,  \* bounded counters
  up,        \* how many bytes write() accepted so far
  down,      \* how many bytes the peer sent so far
  got,       \* history: what read() returned so far
  peerGot,   \* history: what the peer received so far
  discarded, \* history: payload was given up (disconnect, reset, new connection)
  detector,  \* _detectState of ModemDetect; "none" once the driver runs
  pc         \* where the example program is

modem == <<link, inbox, prompt, line>>
app == <<connects, requests, restarts, up, got>>
program == <<detector, pc>>
vars == <<scenario, driver, modem, app, errors, down, peerGot, discarded, program>>

SystemInit ==
  /\ scenario \in Scenarios
  /\ DriverInit /\ serialOpen = scenario.openAtStart
  /\ link = "down" /\ inbox = <<>> /\ prompt = 0 /\ line = <<>>
  /\ connects = 0 /\ errors = 0 /\ requests = 0 /\ restarts = 0
  /\ up = 0 /\ down = 0 /\ got = <<>> /\ peerGot = <<>>
  /\ discarded = FALSE
  /\ detector = IF scenario.program = "any" THEN "none" ELSE "noState"
  /\ pc = "start"

-----------------------------------------------------------------------------
(* The application calls the driver between two executions of run().         *)

CallDriver(d) == step = "off" /\ dev' = d /\ UNCHANGED <<step, tx, serialOpen>>

Connect ==
  /\ connects < scenario.maxConnects
  /\ CallDriver(Connected(dev)) /\ UNCHANGED rx
  /\ connects' = connects + 1
  /\ UNCHANGED <<requests, restarts, up, got, modem, errors, down, peerGot, discarded>>

Disconnect ==
  /\ scenario.mayDisconnect
  /\ CallDriver(Disconnected(dev)) /\ UNCHANGED rx
  /\ discarded' = (discarded \/ ~IsIdle(dev))
  /\ UNCHANGED <<connects, requests, restarts, up, got, modem, errors, down, peerGot>>

(* The application hands the driver what it accepts of its next n bytes.     *)
Write(n) ==
  /\ up < scenario.maxUp /\ SpaceFor(dev) > 0
  /\ CallDriver(Written(dev, [k \in 1 .. n |-> up + k])) /\ UNCHANGED rx
  /\ up' = up + Len(dev'.writeBuffer) - Len(dev.writeBuffer)
  /\ UNCHANGED <<connects, requests, restarts, got, modem, errors, down, peerGot, discarded>>

Read(n) ==
  /\ dev.readBuffer # <<>>
  /\ CallDriver(AfterRead(dev, n)) /\ UNCHANGED rx
  /\ got' = got \o ReadData(dev, n)
  /\ UNCHANGED <<connects, requests, restarts, up, modem, errors, down, peerGot, discarded>>

RequestSignal ==
  /\ requests < scenario.maxRequests /\ requests' = requests + 1
  /\ CallDriver(RequestRSSI(dev))
  /\ UNCHANGED <<rx, connects, restarts, up, got, modem, errors, down, peerGot, discarded>>

(* requestIDString() and requestMac().                                       *)
RequestID(types) ==
  /\ requests < scenario.maxRequests /\ requests' = requests + 1
  /\ \E type \in types : CallDriver(RequestIDString(dev, type))
  /\ UNCHANGED <<rx, connects, restarts, up, got, modem, errors, down, peerGot, discarded>>

(* The application resets the modem and calls resetStates(): the driver is as *)
(* new, but for what the serial port still has to send.                      *)
ResetStates(newDevice) ==
  /\ restarts < scenario.maxRestarts
  /\ CallDriver(newDevice) /\ rx' = <<>>
  /\ restarts' = restarts + 1
  /\ link' = "down" /\ inbox' = <<>> /\ prompt' = 0 /\ line' = <<>>
  /\ discarded' = TRUE
  /\ UNCHANGED <<connects, requests, up, got, errors, down, peerGot>>

Calls(types, newDevice) ==
  \/ Connect \/ Disconnect \/ RequestSignal \/ RequestID(types)
  \/ \E n \in 1 .. 2 : Write(n) \/ Read(n)
  \/ ResetStates(newDevice)

ApplicationOnly == scenario.program = "any" /\ UNCHANGED <<scenario, program>>

-----------------------------------------------------------------------------
(* What all modems do.                                                       *)

Quiet == line = <<>>   \* it is not in the middle of an answer
Answer(tokens) == line' = line \o tokens
Replies(texts) == [k \in DOMAIN texts |-> Line(texts[k], 0)]

(* A command at the head of tx is executed, or refused.                      *)
Executes(text) == Quiet /\ tx # <<>> /\ prompt = 0 /\ Head(tx).text = text /\ tx' = Tail(tx)

Acknowledges(text, texts) ==
  /\ Executes(text) /\ Answer(Replies(texts))
  /\ UNCHANGED <<link, inbox, prompt, errors, peerGot>>

(* Never refused are the commands that end every connection.                 *)
Refuse(never) ==
  /\ Quiet /\ errors < scenario.maxErrors /\ tx # <<>> /\ prompt = 0
  /\ Head(tx).kind = "line" /\ Head(tx).text \notin never
  /\ tx' = Tail(tx) /\ errors' = errors + 1
  /\ Answer(Replies(<<"ERROR">>))
  /\ UNCHANGED <<link, inbox, prompt, peerGot>>

StartSending(accepts, texts) ==
  /\ Executes("AT+CIPSEND")
  /\ IF link \in accepts THEN prompt' = Head(tx).n /\ Answer(Replies(texts))
                         ELSE prompt' = 0 /\ Answer(Replies(<<"ERROR">>))
  /\ UNCHANGED <<link, inbox, errors, peerGot>>

TakeByte(sent, failed) ==
  /\ Quiet /\ prompt > 0 /\ tx # <<>>
  /\ tx' = Tail(tx) /\ prompt' = prompt - 1
  /\ peerGot' = IF link = "open" THEN Append(peerGot, PayloadByte(Head(tx))) ELSE peerGot
  /\ IF prompt' > 0 THEN UNCHANGED line
     ELSE Answer(Replies(IF link = "open" THEN sent ELSE failed))
  /\ UNCHANGED <<link, inbox, errors>>

(* A byte that comes without a prompt is rubbish on the command line.        *)
DropByte ==
  /\ Quiet /\ prompt = 0 /\ tx # <<>> /\ Head(tx).kind = "byte"
  /\ tx' = Tail(tx)
  /\ UNCHANGED <<modem, errors, peerGot>>

Bytes(s) == [k \in DOMAIN s |-> Byte(s[k])]

(* The answer to a request of Head(tx).n bytes: a header, payload, OK.        *)
Deliverable == Lower(Head(tx).n, Len(inbox))
DeliverPayload(header) ==
  /\ Answer(<<header>> \o Bytes(SubSeq(inbox, 1, Deliverable)) \o Replies(<<"OK">>))
  /\ inbox' = Drop(inbox, Deliverable)
  /\ UNCHANGED <<link, prompt, errors, peerGot>>

ModemOnly == UNCHANGED <<scenario, dev, step, rx, serialOpen, app, down, discarded, program>>

-----------------------------------------------------------------------------
(* What happens on the network, announced between two answers.  The server   *)
(* an example talks to answers after the whole request, and closes a TCP     *)
(* connection after the answer.                                              *)

Requested == scenario.program = "any" \/ Len(peerGot) = scenario.maxUp
Answered == scenario.program = "any" \/ down = scenario.maxDown

DataArrives(notices) ==
  /\ Quiet /\ link = "open" /\ down < scenario.maxDown /\ Requested
  /\ down' = down + 1 /\ inbox' = Append(inbox, down + 1)
  /\ Answer(notices)
  /\ UNCHANGED <<link, prompt, errors, discarded>>

PeerCloses(notice) ==
  /\ Quiet /\ link = "open" /\ scenario.mayClose /\ Answered
  /\ link' = "closed" /\ Answer(Replies(<<notice>>))
  /\ UNCHANGED <<inbox, prompt, errors, down, discarded>>

ContextLost(links, notices) ==
  /\ Quiet /\ link \in links /\ errors < scenario.maxErrors
  /\ errors' = errors + 1 /\ link' = "down" /\ inbox' = <<>> /\ prompt' = 0
  /\ Answer(Replies(notices))
  /\ discarded' = TRUE
  /\ UNCHANGED down

NetworkOnly == UNCHANGED <<scenario, driver, app, peerGot, program>>

(* The UART: the driver is polled often enough for rx not to overflow.       *)
Uart ==
  /\ line # <<>> /\ Len(rx) < SerialSize
  /\ rx' = Append(rx, Head(line)) /\ line' = Tail(line)
  /\ UNCHANGED <<scenario, dev, step, tx, serialOpen, link, inbox, prompt, app,
                 errors, down, peerGot, discarded, program>>

DriverOnly ==
  detector = "none" /\ UNCHANGED <<scenario, modem, app, errors, down, peerGot, discarded, program>>

-----------------------------------------------------------------------------
DriverTypeOK(sendStates, replyStates) ==
  /\ dev.stateBooleans \subseteq StateBooleans
  /\ dev.connectState \in ConnectStates
  /\ dev.sendState \in sendStates /\ dev.replyState \in replyStates
  /\ Len(dev.readBuffer) <= ReadBufferSize /\ Len(dev.writeBuffer) <= WriteBufferSize
  /\ dev.bytesToReceive \in Nat /\ dev.bytesToRead \in Nat
  /\ dev.bytesToWrite \in Nat \cup {-1}
  /\ step \in Steps

IsPrefixOf(s, t) == Len(s) <= Len(t) /\ s = SubSeq(t, 1, Len(s))
Count(n) == [k \in 1 .. n |-> k]

(* Until a connection is given up, what the application reads is what the     *)
(* peer sent: no byte lost, repeated or swapped, and no text of the modem     *)
(* mixed in, across LINE_READ switching between lines and payload.            *)
DownlinkIntact == discarded \/ IsPrefixOf(got \o dev.readBuffer, Count(down))

(* The peer gets the bytes the application wrote in order and without gaps or *)
(* repetition, though the driver splits them into several CIPSENDs.           *)
UplinkIntact == discarded \/ IsPrefixOf(peerGot, Count(up))

(* While the driver reads lines, payload is never at the head of the serial   *)
(* buffer, where a peer's bytes would be taken for a reply of the modem.      *)
PayloadNotParsed ==
  ~discarded /\ step = "off" /\ Has(dev, "LINE_READ") /\ rx # <<>> => Head(rx).kind # "byte"

(* istatefuldevice.h:62 "Idle means all services are disconnected": no        *)
(* connection is up when isIdle() is true, unless the command that closes it  *)
(* is on its way (in the CC1352P7 driver a late OK passes for its answer).    *)
(* Not so after resetStates() of that driver, when an AT+CIPSTART is left in  *)
(* the serial write buffer.                                                  *)
LeftOver == scenario.modem = "cc1352p7" /\ restarts > 0
CloseIsSent == \E k \in DOMAIN tx : tx[k].text = "AT+CIPCLOSE"
IdleIsDisconnected == IsIdle(dev) => link # "open" \/ CloseIsSent \/ LeftOver

(* istatefuldevice.h:54 "true if the device is fully connected": when         *)
(* isConnected() begins to tell so, the modem has opened the connection.      *)
ConnectedIsOpen ==
  [][~IsConnected(dev) /\ IsConnected(dev)' => discarded \/ link \in {"open", "closed"}]_vars

(* After a modem error the driver comes back to idle, when it carries out the *)
(* reset it has noted: the CC1352P7 driver does so only with nothing to send. *)
ResetBlocked == scenario.modem = "cc1352p7" /\ dev.bytesToWrite # 0
ErrorRecovers == dev.connectState = "generalError" /\ ~ResetBlocked ~> IsIdle(dev)

(* disconnect(), istatefuldevice.h:49 "Disconnects the device": the driver    *)
(* becomes idle, unless connect() withdraws the request.                      *)
DisconnectCompletes ==
  Has(dev, "DISCONNECT_PENDING") ~> IsIdle(dev) \/ Has(dev, "CONNECT_PENDING")

(* What the peer has sent is fetched from the modem and from the serial port, *)
(* also when the peer has closed since, as long as the driver has room for it *)
(* and the modem refuses nothing (a refused AT+CIPRXGET=2 goes unnoticed in   *)
(* the SIM7x00 driver).                                                      *)
Unfetched == inbox # <<>> \/ dev.bytesToRead > 0
DataFetched == Unfetched ~> ~Unfetched \/ errors > 0

(* When the peer has closed, isConnected() eventually tells: not so in the    *)
(* SIM7x00 driver (see the README).                                           *)
CloseNoticed == link = "closed" /\ scenario.modem # "sim7x00" ~> ~IsConnected(dev)

(* The examples come to their end: the modem is detected, the connection made *)
(* and used, and the driver idle again; the one with timeouts ends in any     *)
(* case, also when a command is refused or the context lost.                  *)
Ended == pc = "done" \/ (pc = "failed" /\ scenario.program = "autodetect")
SessionEnds == <>(scenario.program = "any" \/ Ended)
=============================================================================
