------------------------------ MODULE RakSystem -------------------------------
(***************************************************************************)
(* The RUI3 driver with an application above and a LoRaWAN module below.   *)
(* The module sends a packet with a request for a confirmation; when none  *)
(* comes the packet may or may not have got through.  The application      *)
(* writes at any time, also over the bytes of the packet under way, whose  *)
(* space the driver offers as free.  A history variable tells whether it   *)
(* may have done so: whether more bytes were accepted than the buffer      *)
(* holds since writeBufferProcessed() was last true.  The application of   *)
(* examples/linux/simplesend.cpp writes Message bytes at a time and waits  *)
(* until they have been processed.                                         *)
(***************************************************************************)
EXTENDS RakRui3

CONSTANTS Message,    \* length of m_str
          Scenarios   \* what may happen in a behaviour: the application and its
                      \* bounds; failures are packets, joins and openings of the
                      \* port that fail, restarts hardware resets of the module

ASSUME RakSystemAssumption ==
  /\ Message \in Nat \ {0}
  /\ Scenarios \subseteq
       [program : {"any", "simplesend"}, maxConnects : Nat, maxUp : Nat, maxDown : Nat,
        maxFailures : Nat, maxRestarts : Nat, mayDisconnect : BOOLEAN]

VARIABLES scenario,                  \* the one of this behaviour
          pc,                        \* where simplesend.cpp is
          joining,                   \* the module: "no", "trying", "joined", "failed"
          air,                       \* the packet that waits for its confirmation
          connects, up, down, failures, restarts,  \* bounded counters
          outstanding,               \* history: bytes accepted since writeBufferProcessed()
                                     \* was last true at a write, once too many for good
          heard,                     \* history: the packets that got through
          discarded                  \* history: the module was reset

environment == <<joining, air, failures, heard, discarded>>
counters == <<connects, up, outstanding, down, restarts>>
vars == <<dev, serialOpen, rx, tx, scenario, pc, environment, counters>>

Init ==
  /\ scenario \in Scenarios /\ pc = "start"
  /\ \E flags \in SUBSET {"CONNECT_PENDING", "LINE_READ"}, hasEUI \in BOOLEAN :
       dev = NewRak(flags, hasEUI)
  /\ serialOpen = FALSE /\ rx = <<>> /\ tx = <<>>
  /\ joining = "no" /\ air = <<>> /\ heard = <<>> /\ discarded = FALSE
  /\ connects = 0 /\ up = 0 /\ down = 0 /\ failures = 0 /\ restarts = 0
  /\ outstanding = 0

Driver ==
  /\ Run
  /\ failures' = failures + (IF serialOpen' THEN 0 ELSE 1)
  /\ failures' <= scenario.maxFailures
  /\ UNCHANGED <<scenario, pc, joining, air, heard, discarded, counters>>

-----------------------------------------------------------------------------
(* The application.                                                          *)

Calls == UNCHANGED <<serialOpen, rx, tx, scenario, joining, air, failures, heard>>

Connect ==
  /\ connects < scenario.maxConnects /\ connects' = connects + 1
  /\ dev' = Connected(dev)
  /\ Calls /\ UNCHANGED <<up, outstanding, down, restarts, discarded>>

Disconnect ==
  /\ scenario.mayDisconnect /\ dev' = Disconnected(dev)
  /\ Calls /\ UNCHANGED <<counters, discarded>>

(* Some bytes may have been written over others that can still be needed.    *)
Overfilled == outstanding > BufferSize

Write(n) ==
  /\ up + n <= scenario.maxUp
  /\ LET data == [k \in 1 .. n |-> up + k]
         accepted == Accepted(dev, data)
         before == IF WriteBufferProcessed(dev) THEN 0 ELSE outstanding
     IN  /\ dev' = Written(dev, data) /\ up' = up + accepted
         /\ outstanding' = IF Overfilled THEN outstanding
                           ELSE Buf!Lesser(before + accepted, BufferSize + 1)
  /\ Calls /\ UNCHANGED <<connects, down, restarts, discarded>>

Read ==
  /\ dev.readBuffer # <<>> /\ dev' = [dev EXCEPT !.readBuffer = <<>>]
  /\ Calls /\ UNCHANGED <<counters, discarded>>

(* A hardware reset of the module, which forgets everything, and             *)
(* resetStates(); the serial buffers stay as they are.                       *)
Restart ==
  /\ restarts < scenario.maxRestarts /\ restarts' = restarts + 1
  /\ dev' = ResetStates(dev) /\ joining' = "no" /\ air' = <<>> /\ discarded' = TRUE
  /\ UNCHANGED <<serialOpen, rx, tx, scenario, failures, heard, connects, up, outstanding,
                 down>>

AnyApplication ==
  /\ scenario.program = "any" /\ UNCHANGED pc
  /\ Connect \/ Disconnect \/ Read \/ Restart \/ \E n \in 1 .. BufferSize + 1 : Write(n)

(* Slip: the next message is written as soon as there is room for it.        *)
MessageFits == pc = "write" /\ Message <= Buf!SpaceAvailable(dev.writeBuffer)

MessageProcessed == pc = "write" /\ WriteBufferProcessed(dev)

SimpleSend ==
  /\ scenario.program = "simplesend"
  /\ \/ pc = "start" /\ pc' = "connect" /\ Connect
     \/ /\ pc = "connect" /\ IsConnected(dev)
        /\ pc' = "write" /\ Write(Message)
     \/ MessageProcessed /\ pc' = pc /\ Write(Message)
     \/ /\ MessageProcessed /\ up + Message > scenario.maxUp
        /\ pc' = "read" /\ dev' = dev /\ Calls /\ UNCHANGED <<counters, discarded>>
     \/ pc = "read" /\ pc' = "done" /\ Read

-----------------------------------------------------------------------------
(* The module.                                                               *)

Executes(text) == tx # <<>> /\ Head(tx).text = text /\ tx' = Tail(tx)
Answer(texts) == rx' = rx \o [k \in DOMAIN texts |-> Line(texts[k], <<>>)]
Fails == failures < scenario.maxFailures /\ failures' = failures + 1

Acknowledge ==
  /\ \E text \in {"AT+DEVEUI", "AT+APPEUI", "AT+APPKEY", "AT+CLASS=C", "AT+DR=0"} :
       Executes(text)
  /\ Answer(<<"OK">>) /\ UNCHANGED environment

StartJoining ==
  /\ Executes("AT+JOIN") /\ Answer(<<"OK">>) /\ joining' = "trying"
  /\ UNCHANGED <<air, failures, heard, discarded>>

Joined ==
  /\ joining = "trying" /\ UNCHANGED tx
  /\ \/ joining' = "joined" /\ Answer(<<"+EVT:JOINED">>) /\ UNCHANGED failures
     \/ joining' = "failed" /\ Answer(<<"+EVT:JOIN FAILED">>) /\ Fails
  /\ UNCHANGED <<air, heard, discarded>>

(* Rate 0 has the packet size of a rate beyond the table.                    *)
TellDataRate ==
  /\ Executes("AT+DR=?")
  /\ \E rate \in 1 .. Len(PacketSizes) :
       rx' = rx \o <<Line("AT+DR=", <<rate>>), Line("OK", <<>>)>>
  /\ UNCHANGED environment

StartSending ==
  /\ Executes("AT+SEND")
  /\ \/ /\ joining = "joined" /\ Answer(<<"OK">>)
        /\ air' = Head(tx).data /\ UNCHANGED failures
     \/ joining = "joined" /\ Answer(<<"AT_BUSY_ERROR">>) /\ air' = air /\ Fails
     \/ joining # "joined" /\ Answer(<<"AT_NO_NETWORK">>) /\ UNCHANGED <<air, failures>>
  /\ UNCHANGED <<joining, heard, discarded>>

Sent ==
  /\ air # <<>> /\ air' = <<>> /\ UNCHANGED <<tx, joining, discarded>>
  /\ \/ heard' = Append(heard, air) /\ Answer(<<"+EVT:SEND_CONFIRMED_OK">>)
        /\ UNCHANGED failures
     \/ /\ heard' \in {heard, Append(heard, air)}
        /\ Answer(<<"+EVT:SEND_CONFIRMED_FAILED">>) /\ Fails

Module ==
  /\ Acknowledge \/ StartJoining \/ Joined \/ TellDataRate \/ StartSending \/ Sent
  /\ UNCHANGED <<dev, serialOpen, scenario, pc, counters>>

Receives ==
  /\ down < scenario.maxDown /\ down' = down + 1 /\ IsConnected(dev)
  /\ rx' = Append(rx, Line("+EVT:RX", <<down + 1>>))
  /\ UNCHANGED <<dev, serialOpen, tx, scenario, pc, environment, connects, up, outstanding,
                 restarts>>

Next == Driver \/ AnyApplication \/ SimpleSend \/ Module \/ Receives
Spec == Init /\ [][Next]_vars
FairSpec ==
  Spec /\ WF_vars(Driver) /\ WF_vars(Module) /\ WF_vars(SimpleSend) /\ WF_vars(Receives)

-----------------------------------------------------------------------------
Unconfirmed == IF dev.sendState = "waitForSend" THEN dev.bytesToResend ELSE 0

(* The application of the example, which waits for writeBufferProcessed()    *)
(* before each write, or any other as long as it has not written more than   *)
(* the buffer holds between two times at which writeBufferProcessed() is     *)
(* true; and the module was not reset.                                       *)
Restrained == ~discarded /\ (scenario.program = "simplesend" \/ ~Overfilled)

(* With such an application the driver does not give away the slots of a     *)
(* packet that it may have to send again: they and what waits to be sent are *)
(* no more than the buffer holds.                                            *)
ResendHasRoom == Restrained => dev.writeBuffer.availableData + Unconfirmed <= BufferSize

Bytes(packet) == {packet[k] : k \in DOMAIN packet}
HeardBefore(k) == UNION {Bytes(heard[j]) : j \in 1 .. k - 1}

(* With such an application packets get through in the order of their bytes:    *)
(* one may be repeated, in full or in part, but no byte arrives before all    *)
(* earlier ones have.                                                         *)
NoGap ==
  Restrained =>
    \A k \in DOMAIN heard : \A b \in 1 .. heard[k][Len(heard[k])] :
      b \in HeardBefore(k) \cup Bytes(heard[k])

(* What icommdevice.h says of writeBufferProcessed(): when it is true, all    *)
(* that was written has been sent to the peer.                                *)
WrittenReachesPeer ==
  ~discarded /\ WriteBufferProcessed(dev) => HeardBefore(Len(heard) + 1) = 1 .. up

(* That holds with such an application, though packets fail and are repeated. *)
ProcessedIsHeard == Restrained => WrittenReachesPeer

(* connect() joins the network, unless the module gives up or the port could  *)
(* not be opened: the driver does not recover from either.                   *)
ConnectJoins ==
  {"CONNECT_PENDING", "LINE_READ"} \subseteq dev.flags /\ IsIdle(dev) ~>
    IsConnected(dev) \/ joining = "failed" \/ dev.sendState = "serialError" \/ discarded

(* What is written is processed in the end, though packets fail in between.  *)
WrittenIsProcessed ==
  ~Buf!IsEmpty(dev.writeBuffer) ~> WriteBufferProcessed(dev) \/ discarded
=============================================================================
