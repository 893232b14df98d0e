------------------------------- MODULE Sim800 --------------------------------
(***************************************************************************)
(* cicada/commdevices/sim800.cpp: the driver of the SIM800 modems, as far  *)
(* as it is not the same as that of the SIM7x00 ones.                      *)
(***************************************************************************)
EXTENDS SimDriver

SendStates == {"notConnected", "serialError", "connecting", "sendCiprxget",
  "sendCipmux", "sendCstt", "sendCiicr", "sendCifsr", "sendDnsQuery", "sendCipstart",
  "finalizeConnect", "connected", "sendData", "sendCiprxget4", "sendCiprxget2",
  "waitReceive", "receiving", "ipUnconnected", "sendCipclose", "sendCipshut",
  "finalizeDisconnect"}
ReplyStates == {"okReply", "csq", "requestID", "cifsr", "cdnsgip", "cipstart",
                "ciprxget4", "ciprxget2"}

(* _sendState < sendCiicr || _sendState > sendCipshut, and >= connected.     *)
OutsideContext == {"notConnected", "serialError", "connecting", "sendCiprxget",
                   "sendCipmux", "sendCstt", "finalizeDisconnect"}
(* Slip: a close is noticed in the state connected alone.                    *)
ConnectedAlone == {"connected"}

FromConnected == {"connected", "sendData", "sendCiprxget4", "sendCiprxget2",
                  "waitReceive", "receiving", "ipUnconnected", "sendCipclose",
                  "sendCipshut", "finalizeDisconnect"}

-----------------------------------------------------------------------------
(* Only the states from AT+CIICR on have a context to shut down.             *)
Reset(d) ==
  [Lift(d, "RESET_PENDING") EXCEPT
     !.bytesToRead = 0, !.bytesToReceive = 0, !.bytesToWrite = 0,
     !.sendState = IF @ \in OutsideContext THEN "notConnected" ELSE "sendCipshut",
     !.replyState = "okReply", !.waitForReply = NULL]

RunWithReset ==
  /\ Starts /\ Unlocked /\ Has(dev, "RESET_PENDING")
  /\ rx' = <<>>
  /\ dev' = Reset(dev)
  /\ step' = "send"
  /\ UNCHANGED <<tx, serialOpen>>

-----------------------------------------------------------------------------
(* The line that was read.                                                   *)

IsError(line) == line.text \in {"+PDP: DEACT", "ERROR"}

HandleError ==
  /\ Reads /\ TakeLine(Lines) /\ IsError(TheLine)
  /\ dev' = Failed(Filled)
  /\ step' = "off"

ParseCifsr(d, line) == IF line.text = "ip" THEN Expect(d, "okReply") ELSE d

ParseCipstart(d, line) ==
  IF Has(d, "DISCONNECT_PENDING") THEN Expect(Leave(d, "sendCipshut"), "okReply")
  ELSE IF d.waitForReply = NULL THEN Expect(d, "okReply")
  ELSE IF line.text = "0, CONNECT FAIL" THEN Report(Raise(d, "RESET_PENDING"), "generalError")
  ELSE d

HandleCiprxget2(d, line) ==
  IF IsCiprxget2(line) THEN Goto(Expect(ParseCiprxget2(d, line), "okReply"), "receiving")
  ELSE d

(* The case csq has no break: an identification may be parsed from it.       *)
HandleReply(d, line) ==
  CASE d.replyState = "cifsr" -> ParseCifsr(d, line)
    [] d.replyState = "cdnsgip" -> ParseDnsReply(d, line)
    [] d.replyState = "cipstart" -> ParseCipstart(d, line)
    [] d.replyState = "ciprxget4" -> ParseCiprxget4(d, line)
    [] d.replyState = "ciprxget2" -> HandleCiprxget2(d, line)
    [] d.replyState = "csq" -> ParseIDReply(ParseCsq(d, line), line)
    [] d.replyState = "requestID" -> ParseIDReply(d, line)
    [] OTHER -> d

CheckConnection(d, line) ==
  IF d.sendState \in FromConnected THEN CheckConnectionState(d, line, "0, CLOSED") ELSE d

ParseLine ==
  /\ Reads /\ TakeLine(Lines) /\ ~IsError(TheLine)
  /\ dev' = CheckConnection(HandleReply(MatchReply(Filled, TheLine), TheLine), TheLine)
  /\ step' = "send"

-----------------------------------------------------------------------------
IDCommand(type) == IF type = "iccid" THEN "AT+CCID" ELSE "AT+CGSN"

(* The cases of the state machine.                                           *)

SendCiprxget == SimpleCommand("sendCiprxget", "AT+CIPRXGET=1", "OK", "sendCipmux")
SendCipmux == SimpleCommand("sendCipmux", "AT+CIPMUX=1", "OK", "sendCstt")
SendCstt == SimpleCommand("sendCstt", "AT+CSTT", "OK", "sendCiicr")
SendCiicr == SimpleCommand("sendCiicr", "AT+CIICR", "OK", "sendCifsr")

SendCifsr ==
  /\ Case("sendCifsr")
  /\ IF Has(dev, "DISCONNECT_PENDING")
     THEN dev' = Leave(dev, "sendCipshut") /\ UNCHANGED tx
     ELSE dev' = Goto(Expect(dev, "cifsr"), "sendDnsQuery") /\ Command("AT+CIFSR")
  /\ UNCHANGED rx

SendCipstart ==
  /\ Case("sendCipstart")
  /\ dev' = Goto(Await(Expect(dev, "cipstart"), "0, CONNECT OK"), "finalizeConnect")
  /\ Command("AT+CIPSTART") /\ UNCHANGED rx

Rest(d) == CloseOrStay(d, "sendCipshut", "sendCipclose")

SendCipclose ==
  /\ Case("sendCipclose")
  /\ LET d == Goto(Report(dev, "intermediate"), "sendCipshut")
     IN  IF Has(d, "IP_CONNECTED")
         THEN dev' = Await(d, "0, CLOSE OK") /\ Command("AT+CIPCLOSE")
         ELSE dev' = d /\ UNCHANGED tx
  /\ UNCHANGED rx

SendCipshut ==
  /\ Case("sendCipshut")
  /\ dev' = Goto(Await(Report(dev, "intermediate"), "SHUT OK"), "finalizeDisconnect")
  /\ Command("AT+CIPSHUT") /\ UNCHANGED rx

(* The serial port, the reset and the parser.                                *)
Parses ==
  \/ OpenSerial \/ RunWithReset \/ HandleError \/ ParseLine
  \/ Reads /\ FillNothing(Lines)

(* The gates and the requests, and the states up to a connection.            *)
Connects ==
  \/ Wait \/ SendCsq \/ SendIDRequest(IDCommand(dev.idRequest), "requestID") \/ OtherState
  \/ NotConnected \/ Connecting("sendCiprxget")
  \/ SendCiprxget \/ SendCipmux \/ SendCstt \/ SendCiicr \/ SendCifsr
  \/ SendDnsQuery("sendCipstart") \/ SendCipstart \/ FinalizeConnect

(* The states from a connection on.                                          *)
Transfers ==
  \/ ConnectedSends("sendData") \/ ConnectedReceives("sendCiprxget4") \/ ConnectedIdle(Rest(Report(dev, "connected")))
  \/ SendDataBytes("sendData", "0, SEND OK")
  \/ SendCiprxget4 \/ SendCiprxget2 \/ EndCiprxget2("sendCipclose")
  \/ ReceivePayload("OK") \/ ReceivedPayload("sendCiprxget2", "sendCiprxget4")
  \/ IpUnconnected("finalizeDisconnect", "sendCipstart")
  \/ SendCipclose \/ SendCipshut \/ FinalizeDisconnect

Run == Parses \/ Connects \/ Transfers
=============================================================================
