------------------------------- MODULE ATDriver -------------------------------
(***************************************************************************)
(* What the run() functions of the four drivers of AT modems (sim800.cpp,  *)
(* sim7x00.cpp, espressif.cpp, cc1352p7.cpp) have in common, line by line. *)
(* One call of run() takes two steps, between which the UART and the modem *)
(* go on: from "off" it resets or reads the serial buffer and parses the   *)
(* line; at "send" it comes to the gates and to the switch over _sendState *)
(* and ends.  The application calls the driver while run() is off.         *)
(***************************************************************************)
EXTENDS ATCommDevice

VARIABLES step,        \* where run() is
          serialOpen   \* _serial.isOpen()

driver == <<dev, step, rx, tx, serialOpen>>
Steps == {"off", "send"}

DriverInit == step = "off" /\ rx = <<>> /\ tx = <<>>

-----------------------------------------------------------------------------
(* The first part of run().                                                  *)

OpenSerial ==
  /\ step = "off" /\ ~serialOpen
  /\ \/ serialOpen' = TRUE /\ dev' = dev
     \/ serialOpen' = FALSE /\ dev' = Goto(dev, "serialError")
  /\ UNCHANGED <<step, rx, tx>>

Starts == step = "off" /\ serialOpen

(* A line ends and is taken from the serial buffer.                          *)
TakeLine(kinds) ==
  /\ Starts /\ FillsLine(dev, kinds)
  /\ rx' = RestAfterFill(dev, kinds)
  /\ UNCHANGED <<tx, serialOpen>>

MatchReply(d, line) == IF line.text = d.waitForReply THEN Await(d, NULL) ELSE d
Failed(d) == Await(Report(Raise(d, "RESET_PENDING"), "generalError"), NULL)

(* No complete line: a disconnect request flushes the payload.               *)
(* Slip: the payload is flushed without a request.                           *)
FlushesAlways(d) == d.sendState = "receiving"

Flushes(d) == Has(d, "DISCONNECT_PENDING") /\ d.sendState = "receiving"

FillNothing(kinds) ==
  /\ Starts /\ ~FillsLine(dev, kinds)
  /\ dev' = IF Flushes(dev) THEN FlushReadBuffer(FillLineBuffer(dev, kinds))
            ELSE FillLineBuffer(dev, kinds)
  /\ rx' = IF Flushes(dev) THEN Drop(RestAfterFill(dev, kinds), Flushable(dev))
           ELSE RestAfterFill(dev, kinds)
  /\ step' = "send"
  /\ UNCHANGED <<tx, serialOpen>>

-----------------------------------------------------------------------------
(* The gates, the requests and the connection state machine.                 *)

MaySend == dev.waitForReply = NULL /\ dev.replyState = "okReply"
WantsRSSI(d) == d.rssi = "requested" /\ Has(d, "LINE_READ")
(* The type is sent once, if no string is stored yet.                        *)
WantsID(d) == d.idRequest # "noRequest" /\ d.idString = "" /\ Has(d, "LINE_READ")

Wait ==
  /\ step = "send" /\ ~MaySend
  /\ step' = "off"
  /\ UNCHANGED <<dev, rx, tx, serialOpen>>

(* Every step below ends run(); those that send append to tx.                *)
EndRun == step = "send" /\ MaySend /\ step' = "off" /\ UNCHANGED serialOpen
Send(tokens) == tx' = tx \o tokens
Command(text) == Send(<<Line(text, 0)>>)

SendRSSIRequest(text, reply) ==
  /\ EndRun /\ WantsRSSI(dev)
  /\ dev' = Await(Expect(dev, reply), "OK")
  /\ Command(text) /\ UNCHANGED rx

SendIDRequest(text, reply) ==
  /\ EndRun /\ ~WantsRSSI(dev) /\ WantsID(dev)
  /\ dev' = Await(Expect([dev EXCEPT !.idRequest = "noRequest"], reply), "OK")
  /\ Command(text) /\ UNCHANGED rx

Case(state) ==
  EndRun /\ ~WantsRSSI(dev) /\ ~WantsID(dev) /\ dev.sendState = state

NotConnected ==
  /\ Case("notConnected")
  /\ dev' = HandleConnect(Report(dev, "notConnected"), "connecting")
  /\ UNCHANGED <<rx, tx>>

Connecting(next) ==
  /\ Case("connecting")
  /\ IF Has(dev, "DISCONNECT_PENDING")
     THEN dev' = Leave(dev, "notConnected") /\ UNCHANGED tx
     ELSE /\ dev' = Goto(Await(Raise(Report(dev, "intermediate"), "LINE_READ"), "OK"),
                         next)
          /\ Command("ATE0")
  /\ UNCHANGED rx

SimpleCommand(state, text, reply, next) ==
  /\ Case(state)
  /\ dev' = Goto(Await(dev, reply), next)
  /\ Command(text) /\ UNCHANGED rx

FinalizeConnect ==
  /\ Case("finalizeConnect")
  /\ dev' = Raise(Goto(Report(dev, "connected"), "connected"), "IP_CONNECTED")
  /\ UNCHANGED <<rx, tx>>

ConnectedSends(next) ==
  /\ Case("connected") /\ dev.writeBuffer # <<>>
  /\ dev' = Goto(Report(PrepareSending(dev), "transmitting"), next)
  /\ Send(<<Line("AT+CIPSEND", SendSize(dev))>>) /\ UNCHANGED rx

ConnectedReceives(next) ==
  /\ Case("connected") /\ dev.writeBuffer = <<>> /\ Has(dev, "DATA_PENDING")
  /\ dev' = Goto(Report(Lift(dev, "DATA_PENDING"), "receiving"), next)
  /\ UNCHANGED <<rx, tx>>

(* Nothing to send or to receive: without a connection the driver goes to     *)
(* lost, at a request to disconnect to closing.                              *)
CloseOrStay(d, lost, closing) ==
  IF Has(d, "IP_CONNECTED") THEN HandleDisconnect(d, closing) ELSE Leave(d, lost)

ConnectedIdle(rested) ==
  /\ Case("connected") /\ dev.writeBuffer = <<>> /\ ~Has(dev, "DATA_PENDING")
  /\ dev' = rested
  /\ UNCHANGED <<rx, tx>>

SendDataBytes(state, reply) ==
  /\ Case(state)
  /\ dev' = Goto(Await(SendData(dev), reply), "connected")
  /\ Send(DataToSend(dev)) /\ UNCHANGED rx

(* Ask the modem for the payload it has announced, or go on.                 *)
RequestPayload(state, command, reply) ==
  /\ Case(state) /\ ~Has(dev, "DISCONNECT_PENDING") /\ dev.bytesToReceive > 0
  /\ IF CanRequest(dev)
     THEN /\ dev' = Expect(Goto(dev, "waitReceive"), reply)
          /\ Send(<<Line(command, Requestable(dev))>>)
     ELSE UNCHANGED <<dev, tx>>
  /\ UNCHANGED rx

EndRequests(state, closing, done) ==
  /\ Case(state)
  /\ Has(dev, "DISCONNECT_PENDING") \/ dev.bytesToReceive <= 0
  /\ dev' = IF Has(dev, "DISCONNECT_PENDING") THEN Leave(dev, closing) ELSE Goto(dev, done)
  /\ UNCHANGED <<rx, tx>>

(* States without a case of their own, and the empty case waitReceive.       *)
OtherState ==
  /\ \E state \in {"serialError", "waitReceive"} : Case(state)
  /\ UNCHANGED <<dev, rx, tx>>

ReceivePayload(reply) ==
  /\ Case("receiving") /\ dev.bytesToRead > 0
  /\ IF CanReceive(dev)
     THEN /\ dev' = Await(Receive(dev), reply)
          /\ rx' = Drop(rx, dev.bytesToRead)
     ELSE UNCHANGED <<dev, rx>>
  /\ UNCHANGED tx

ReceivedPayload(more, done) ==
  /\ Case("receiving") /\ dev.bytesToRead = 0
  /\ dev' = Goto(dev, IF dev.bytesToReceive > 0 THEN more ELSE done)
  /\ UNCHANGED <<rx, tx>>

FinalizeDisconnect ==
  /\ Case("finalizeDisconnect")
  /\ dev' = Goto(Report(Lift(dev, "IP_CONNECTED"), "notConnected"), "notConnected")
  /\ UNCHANGED <<rx, tx>>
=============================================================================
