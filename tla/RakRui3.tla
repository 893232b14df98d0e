------------------------------- MODULE RakRui3 --------------------------------
(***************************************************************************)
(* cicada/commdevices/rakrui3.cpp: the driver of the LoRaWAN modules with  *)
(* RUI3.  A packet is pulled from the write buffer when it is sent; when   *)
(* the module reports that it was not confirmed, the read head of the      *)
(* buffer is wound back and the bytes are sent again.  The object is the   *)
(* record dev; run() reads at most one line and is one step.  The serial   *)
(* buffer is taken to hold any fixed command (AT+APPKEY, the longest, has  *)
(* 44 characters), but not any packet.  The closed forms of CircularBuffer *)
(* are those of the loops also when the ring is overfilled, as long as no  *)
(* packet is larger than the ring.                                         *)
(***************************************************************************)
EXTENDS Integers, Sequences

CONSTANTS BufferSize,    \* writeBufferSize of the constructor
          SizeModulus,   \* values of the type Size
          PacketSizes,   \* _packetSizes by data rate, from rate 0 on
          SerialRoom     \* bytes of a packet that the serial write buffer has room for

ASSUME RakAssumption ==
  /\ SizeModulus \in Nat /\ BufferSize \in 1 .. SizeModulus - 1
  /\ PacketSizes \in Seq(Nat \ {0}) /\ PacketSizes # <<>> /\ SerialRoom \in Nat

VARIABLES dev,         \* the driver object
          serialOpen,  \* _serial.isOpen()
          rx, tx       \* lines in the serial buffers

Buf == INSTANCE CircularBuffer WITH LinesModulus <- 1, NewLine <- 0

SendStates == {"notConnected", "serialError", "sendDevEUI", "sendAppEUI", "sendAppKey",
               "sendClass", "sendDR", "join", "finalizeJoin", "joined", "sendPacket",
               "waitForSend"}
FromJoined == {"joined", "sendPacket", "waitForSend"}
Flags == {"CONNECT_PENDING", "DISCONNECT_PENDING", "NETWORK_JOINED", "LINE_READ"}
NULL == "NULL"

(* resetStates(): neither the flags nor the buffers are touched.             *)
ResetStates(d) ==
  [d EXCEPT !.sendState = "notConnected", !.replyState = "okReply",
            !.waitForReply = NULL, !.packetSize = PacketSizes[1]]

(* The constructor leaves _stateBooleans as it was.                          *)
NewRak(flags, hasEUI) ==
  [sendState |-> "notConnected", replyState |-> "okReply", waitForReply |-> NULL,
   packetSize |-> PacketSizes[1], bytesToResend |-> 0, flags |-> flags, hasEUI |-> hasEUI,
   writeBuffer |-> Buf!New([i \in 0 .. BufferSize - 1 |-> 0], BufferSize),
   readBuffer |-> <<>>]

IsConnected(d) == d.sendState \in FromJoined
IsIdle(d) == d.sendState = "notConnected"
Connected(d) == [d EXCEPT !.flags = @ \cup {"CONNECT_PENDING", "LINE_READ"}]
Disconnected(d) == IF IsIdle(d) THEN d
                   ELSE [d EXCEPT !.flags = @ \cup {"DISCONNECT_PENDING"}]
Accepted(d, data) == IF IsConnected(d) THEN Buf!Accepted(d.writeBuffer, data) ELSE 0
Written(d, data) == IF ~IsConnected(d) THEN d
                    ELSE [d EXCEPT !.writeBuffer = Buf!PushMany(@, data)]
(* Slip: a packet that is not confirmed yet counts as processed.             *)
BufferEmpty(d) == Buf!IsEmpty(d.writeBuffer)

WriteBufferProcessed(d) == Buf!IsEmpty(d.writeBuffer) /\ d.sendState # "waitForSend"

-----------------------------------------------------------------------------
(* The line that was read.  A line is a text with data: a rate or bytes.     *)

Line(text, data) == [text |-> text, data |-> data]
Await(d, reply) == [d EXCEPT !.waitForReply = reply]
MatchReply(d, line) == IF line.text = d.waitForReply THEN Await(d, NULL) ELSE d

ParseDataRate(d, line) ==
  IF line.text = "AT+DR=" /\ d.replyState = "dataRate"
  THEN [d EXCEPT !.replyState = "okReply",
                 !.packetSize = PacketSizes[IF line.data[1] < Len(PacketSizes)
                                            THEN line.data[1] + 1 ELSE 1]]
  ELSE d

NotSent(d, line) ==
  d.replyState = "sendConfirm" /\ line.text \in {"+EVT:SEND_CONFIRMED_FAILED", "AT_BUSY_ERROR"}
(* Slips: the bytes are not sent again; the confirmation is still awaited.   *)
GiveUp(d, line) ==
  IF NotSent(d, line) THEN [Await(d, NULL) EXCEPT !.replyState = "okReply"] ELSE d
StillAwaits(d, line) ==
  IF NotSent(d, line)
  THEN [d EXCEPT !.replyState = "okReply",
                 !.writeBuffer = Buf!RewindReadHead(@, d.bytesToResend)]
  ELSE d

ParseSendConfirm(d, line) ==
  IF NotSent(d, line)
  THEN [Await(d, NULL) EXCEPT !.replyState = "okReply",
                              !.writeBuffer = Buf!RewindReadHead(@, d.bytesToResend)]
  ELSE d

ParseReceived(d, line) ==
  IF IsConnected(d) /\ line.text = "+EVT:RX"
  THEN [d EXCEPT !.readBuffer = @ \o line.data] ELSE d

Reads == "LINE_READ" \in dev.flags /\ rx # <<>>
Parsed == IF ~Reads THEN dev
          ELSE LET line == Head(rx)
               IN  ParseReceived(ParseSendConfirm(ParseDataRate(MatchReply(dev, line), line),
                                                  line), line)

-----------------------------------------------------------------------------
(* run(): the line, the gates, one case of the state machine.                *)

OpenSerial ==
  /\ ~serialOpen
  /\ \/ serialOpen' = TRUE /\ dev' = dev
     \/ serialOpen' = FALSE /\ dev' = [dev EXCEPT !.sendState = "serialError"]
  /\ UNCHANGED <<rx, tx>>

Runs(state) ==
  /\ serialOpen /\ UNCHANGED serialOpen
  /\ rx' = IF Reads THEN Tail(rx) ELSE rx
  /\ Parsed.waitForReply = NULL /\ Parsed.sendState = state

Waits ==
  /\ serialOpen /\ UNCHANGED serialOpen
  /\ rx' = IF Reads THEN Tail(rx) ELSE rx
  /\ Parsed.waitForReply # NULL
  /\ dev' = Parsed /\ UNCHANGED tx

Goto(d, state) == [d EXCEPT !.sendState = state]
Send(text, data) == tx' = Append(tx, Line(text, data))

NotConnected ==
  /\ Runs("notConnected")
  /\ dev' = IF "CONNECT_PENDING" \in Parsed.flags
            THEN Goto([Parsed EXCEPT !.flags = @ \ {"CONNECT_PENDING"}], "sendDevEUI")
            ELSE Parsed
  /\ UNCHANGED tx

(* An identifier that was not set is not sent.                               *)
(* Slip: an answer is awaited all the same.                                  *)
SendEUIAwaits(state, text, next) ==
  /\ Runs(state)
  /\ dev' = Goto(Await(Parsed, "OK"), next)
  /\ IF dev.hasEUI THEN Send(text, <<>>) ELSE UNCHANGED tx

SendEUI(state, text, next) ==
  /\ Runs(state)
  /\ IF dev.hasEUI THEN dev' = Goto(Await(Parsed, "OK"), next) /\ Send(text, <<>>)
                   ELSE dev' = Goto(Parsed, next) /\ UNCHANGED tx

SimpleCommand(state, text, reply, next) ==
  /\ Runs(state)
  /\ dev' = Goto(Await(Parsed, reply), next) /\ Send(text, <<>>)

FinalizeJoin ==
  /\ Runs("finalizeJoin")
  /\ dev' = Goto([Parsed EXCEPT !.flags = @ \cup {"NETWORK_JOINED"}], "joined")
  /\ UNCHANGED tx

(* The data rate, which the network may change, decides the packet size.     *)
AskDataRate ==
  /\ Runs("joined")
  /\ IF Buf!IsEmpty(Parsed.writeBuffer) THEN dev' = Parsed /\ UNCHANGED tx
     ELSE /\ dev' = [Goto(Await(Parsed, "OK"), "sendPacket") EXCEPT !.replyState = "dataRate"]
          /\ Send("AT+DR=?", <<>>)

(* The loop of pull(): up to packetSize bytes, as long as there are any.     *)
NextPacket(d) ==
  [k \in 1 .. Buf!Lesser(d.packetSize, Buf!BytesAvailable(d.writeBuffer)) |->
     d.writeBuffer.buffer[Buf!Slot(d.writeBuffer, k)]]

(* What write() returns is not looked at: of a packet that the serial buffer *)
(* has no room for any byte behind may be missing (one that lost a digit     *)
(* counts as missing), and so may the end of the line, depending on how much *)
(* the UART has sent meanwhile.  The module does not see a command then.     *)
Cut(packet) ==
  {Line(text, SelectSeq(packet, LAMBDA b : b \in kept)) :
     text \in {"AT+SEND", "AT+SEND without end"},
     kept \in {bytes \in SUBSET {packet[k] : k \in DOMAIN packet} :
                 {packet[k] : k \in 1 .. SerialRoom} \subseteq bytes}}
Transmitted(packet) ==
  IF Len(packet) <= SerialRoom THEN {Line("AT+SEND", packet)} ELSE Cut(packet)

SendPacket ==
  /\ Runs("sendPacket")
  /\ LET packet == NextPacket(Parsed)
     IN  /\ dev' = [Goto(Await(Parsed, "+EVT:SEND_CONFIRMED_OK"), "waitForSend") EXCEPT
                      !.replyState = "sendConfirm", !.bytesToResend = Len(packet),
                      !.writeBuffer = Buf!PullMany(@, Parsed.packetSize)]
         /\ \E line \in Transmitted(packet) : tx' = Append(tx, line)

WaitForSend == Runs("waitForSend") /\ dev' = Goto(Parsed, "joined") /\ UNCHANGED tx
SerialError == Runs("serialError") /\ dev' = Parsed /\ UNCHANGED tx

Run ==
  \/ OpenSerial \/ Waits \/ NotConnected
  \/ SendEUI("sendDevEUI", "AT+DEVEUI", "sendAppEUI")
  \/ SendEUI("sendAppEUI", "AT+APPEUI", "sendAppKey")
  \/ SimpleCommand("sendAppKey", "AT+APPKEY", "OK", "sendClass")
  \/ SimpleCommand("sendClass", "AT+CLASS=C", "OK", "sendDR")
  \/ SimpleCommand("sendDR", "AT+DR=0", "OK", "join")
  \/ SimpleCommand("join", "AT+JOIN", "+EVT:JOINED", "finalizeJoin")
  \/ FinalizeJoin \/ AskDataRate \/ SendPacket \/ WaitForSend \/ SerialError
=============================================================================
