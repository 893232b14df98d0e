------------------------------- MODULE CC1352P7 -------------------------------
(***************************************************************************)
(* cicada/commdevices/cc1352p7.cpp: the driver of the CC1352P7 modems.     *)
(***************************************************************************)
EXTENDS CiprecvdataDriver

SendStates == {"notConnected", "serialError", "connecting", "sendCipstart",
  "finalizeConnect", "connected", "sendDataState", "sendCiprecvdata", "waitReceive",
  "receiving", "sendCipclose", "finalizeDisconnect"}
ReplyStates == {"okReply", "parseStateCiprecvdata", "reqMac", "csq"}

FromConnected == {"connected", "sendDataState", "sendCiprecvdata", "waitReceive",
                  "receiving", "sendCipclose", "finalizeDisconnect"}

LineEnds == {"line"}
TheLine == FilledLine(dev, LineEnds)
Filled == FillLineBuffer(dev, LineEnds)

-----------------------------------------------------------------------------
(* No command restarts the modem: the connection is closed.  With bytes to   *)
(* send, or once some were sent (bytesToWrite is -1 then), nothing happens.  *)
ResetDue == Has(dev, "RESET_PENDING") /\ dev.bytesToWrite = 0

(* Slip: the connection is taken for closed.                                 *)
ResetForgets(d) ==
  Await(Expect(Goto(Lift([d EXCEPT !.bytesToRead = 0, !.bytesToReceive = 0],
                         "RESET_PENDING"), "notConnected"), "okReply"), NULL)

Reset(d) ==
  Await(Expect(Goto(Lift([d EXCEPT !.bytesToRead = 0, !.bytesToReceive = 0],
                         "RESET_PENDING"), "sendCipclose"), "okReply"), NULL)

RunWithReset ==
  /\ Starts /\ ResetDue
  /\ rx' = <<>>
  /\ dev' = Reset(dev)
  /\ step' = "send"
  /\ UNCHANGED <<tx, serialOpen>>

Reads == ~ResetDue

HandleError ==
  /\ Reads /\ TakeLine(LineEnds) /\ TheLine.text = "ERROR"
  /\ dev' = Failed(Filled)
  /\ step' = "off"

ParseCsq(d, line) ==
  IF line.text = "+CSQ" THEN Expect([d EXCEPT !.rssi = "known"], "okReply") ELSE d

(* The case csq has no break, which makes no difference for a line of its own. *)
HandleReply(d, line) ==
  CASE d.replyState = "parseStateCiprecvdata" -> ParseCiprecvdata(d, line)
    [] d.replyState = "csq" -> ParseMac(ParseCsq(d, line), line)
    [] d.replyState = "reqMac" -> ParseMac(d, line)
    [] OTHER -> d

CheckConnection(d, line) ==
  IF d.sendState \notin FromConnected THEN d
  ELSE CASE line.text = "+IPD" -> Raise([d EXCEPT !.bytesToReceive = line.n], "DATA_PENDING")
         [] line.text \in {"CLOSED", "SEND FAIL"} -> Lift(d, "IP_CONNECTED")
         [] OTHER -> d

ParseLine ==
  /\ Reads /\ TakeLine(LineEnds) /\ TheLine.text # "ERROR"
  /\ dev' = CheckConnection(HandleReply(MatchReply(Filled, TheLine), TheLine), TheLine)
  /\ step' = "send"

-----------------------------------------------------------------------------
(* The cases of the state machine.                                           *)

Rest(d) == CloseOrStay(d, "finalizeDisconnect", "sendCipclose")

SendCipclose ==
  /\ Case("sendCipclose")
  /\ dev' = Goto(Await(Report(dev, "intermediate"), "OK"), "finalizeDisconnect")
  /\ Command("AT+CIPCLOSE") /\ UNCHANGED rx

(* The serial port, the reset and the parser.                                *)
Parses ==
  \/ OpenSerial \/ RunWithReset \/ HandleError \/ ParseLine
  \/ Reads /\ FillNothing(LineEnds)

(* The gates and the requests, and the states up to a connection.            *)
Connects ==
  \/ Wait \/ SendRSSIRequest("AT+CSQ", "csq") \/ SendMacRequest \/ OtherState
  \/ NotConnected \/ Connecting("sendCipstart") \/ SendCipstart \/ FinalizeConnect

(* The states from a connection on.                                          *)
Transfers ==
  \/ ConnectedSends("sendDataState") \/ ConnectedReceives("sendCiprecvdata")
  \/ ConnectedIdle(Rest(Report(dev, "connected"))) \/ SendDataBytes("sendDataState", "OK")
  \/ SendCiprecvdata("parseStateCiprecvdata") \/ EndCiprecvdata
  \/ ReceivePayload("OK") \/ ReceivedPayload("sendCiprecvdata", "connected")
  \/ SendCipclose \/ FinalizeDisconnect

Run == Parses \/ Connects \/ Transfers
=============================================================================
