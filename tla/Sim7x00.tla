------------------------------- MODULE Sim7x00 -------------------------------
(***************************************************************************)
(* cicada/commdevices/sim7x00.cpp: the driver of the SIM7x00 modems, as    *)
(* far as it is not the same as that of the SIM800 ones.                   *)
(***************************************************************************)
EXTENDS SimDriver

SendStates == {"notConnected", "serialError", "connecting", "sendCgsockcont",
  "sendCsocksetpn", "sendCipmode", "sendNetopen", "sendCiprxget", "sendDnsQuery",
  "sendCipopen", "finalizeConnect", "connected", "sendData", "sendCiprxget4",
  "sendCiprxget2", "waitReceive", "receiving", "ipUnconnected", "sendNetclose",
  "finalizeDisconnect"}
ReplyStates == {"okReply", "csq", "requestID", "netopen", "cdnsgip", "cipopen",
                "ciprxget4", "ciprxget2"}
FromConnected == {"connected", "sendData", "sendCiprxget4", "sendCiprxget2",
                  "waitReceive", "receiving", "ipUnconnected", "sendNetclose",
                  "finalizeDisconnect"}

-----------------------------------------------------------------------------
(* All flags are given up, requests to connect or disconnect included.       *)
Reset(d) ==
  Await(Expect(Goto([d EXCEPT !.stateBooleans = {"LINE_READ"}, !.bytesToRead = 0,
                              !.bytesToReceive = 0, !.bytesToWrite = 0],
                    "notConnected"), "okReply"), "RDY")

RunWithReset ==
  /\ Starts /\ Unlocked /\ Has(dev, "RESET_PENDING")
  /\ rx' = <<>>
  /\ dev' = Reset(dev)
  /\ Command("AT+CRESET")
  /\ UNCHANGED <<step, serialOpen>>

-----------------------------------------------------------------------------
(* The line that was read.  An error is one only while a reply is awaited.   *)

IsError(line) == dev.waitForReply # NULL /\ line.text = "ERROR"

HandleError ==
  /\ Reads /\ TakeLine(Lines) /\ IsError(TheLine)
  /\ dev' = Failed(Filled)
  /\ step' = "off"

NetopenFails ==
  dev.replyState = "netopen" /\ dev.waitForReply # NULL /\ TheLine.text = "+NETOPEN: 1"

(* The network could not be opened: the command is sent again.               *)
RetryNetopen ==
  /\ Reads /\ TakeLine(Lines) /\ NetopenFails
  /\ dev' = Await(Expect(Goto(Filled, "sendNetopen"), "okReply"), NULL)
  /\ step' = "off"

ParseNetopen(d) == IF d.waitForReply = NULL THEN Expect(d, "okReply") ELSE d

ParseCipopen(d, line) ==
  IF d.waitForReply = NULL THEN Expect(d, "okReply")
  ELSE IF line.text = "+CIPOPEN: 0,1" THEN Report(Raise(d, "RESET_PENDING"), "generalError")
  ELSE d

HandleCiprxget2(d, line) ==
  IF IsCiprxget2(line) THEN Goto(Expect(ParseCiprxget2(d, line), "okReply"), "receiving")
  ELSE d

HandleReply(d, line) ==
  CASE d.replyState = "netopen" -> ParseNetopen(d)
    [] d.replyState = "cdnsgip" -> ParseDnsReply(d, line)
    [] d.replyState = "cipopen" -> ParseCipopen(d, line)
    [] d.replyState = "ciprxget4" -> ParseCiprxget4(d, line)
    [] d.replyState = "ciprxget2" -> HandleCiprxget2(d, line)
    [] d.replyState = "csq" -> ParseCsq(d, line)
    [] d.replyState = "requestID" -> ParseIDReply(d, line)
    [] OTHER -> d

CheckConnection(d, line) ==
  IF d.sendState \in FromConnected THEN CheckConnectionState(d, line, "+IPCLOSE: 0,") ELSE d

ParseLine ==
  /\ Reads /\ TakeLine(Lines) /\ ~IsError(TheLine) /\ ~NetopenFails
  /\ dev' = CheckConnection(HandleReply(MatchReply(Filled, TheLine), TheLine), TheLine)
  /\ step' = "send"

-----------------------------------------------------------------------------
IDCommand(type) == IF type = "iccid" THEN "AT+CICCID" ELSE "AT+CGSN"

(* The cases of the state machine.                                           *)

SendCgsockcont == SimpleCommand("sendCgsockcont", "AT+CGSOCKCONT", "OK", "sendCsocksetpn")
SendCsocksetpn == SimpleCommand("sendCsocksetpn", "AT+CSOCKSETPN=1", "OK", "sendCipmode")
SendCipmode == SimpleCommand("sendCipmode", "AT+CIPMODE=0", "OK", "sendNetopen")
SendCiprxget == SimpleCommand("sendCiprxget", "AT+CIPRXGET=1", "OK", "sendDnsQuery")

SendNetopen ==
  /\ Case("sendNetopen")
  /\ IF Has(dev, "DISCONNECT_PENDING")
     THEN dev' = Leave(dev, "finalizeDisconnect") /\ UNCHANGED tx
     ELSE /\ dev' = Expect(Goto(Await(dev, "+NETOPEN: 0"), "sendCiprxget"), "netopen")
          /\ Command("AT+NETOPEN")
  /\ UNCHANGED rx

SendCipopen ==
  /\ Case("sendCipopen")
  /\ dev' = Goto(Await(Expect(dev, "cipopen"), "+CIPOPEN: 0,0"), "finalizeConnect")
  /\ Command("AT+CIPOPEN") /\ UNCHANGED rx

(* Slip: a request to disconnect is not looked at between two transfers.     *)
ConnectedStays(d) == d

(* Whether the connection is still there makes no difference.                *)
ConnectedRests(d) == HandleDisconnect(d, "sendNetclose")

SendNetclose ==
  /\ Case("sendNetclose")
  /\ dev' = Goto(Await(Report(dev, "intermediate"), "+NETCLOSE: 0"), "finalizeDisconnect")
  /\ Command("AT+NETCLOSE") /\ UNCHANGED rx

(* The serial port, the reset and the parser.                                *)
Parses ==
  \/ OpenSerial \/ RunWithReset \/ HandleError \/ RetryNetopen \/ ParseLine
  \/ Reads /\ FillNothing(Lines)

(* The gates and the requests, and the states up to a connection.            *)
Connects ==
  \/ Wait \/ SendCsq \/ SendIDRequest(IDCommand(dev.idRequest), "requestID") \/ OtherState
  \/ NotConnected \/ Connecting("sendCgsockcont")
  \/ SendCgsockcont \/ SendCsocksetpn \/ SendCipmode \/ SendNetopen \/ SendCiprxget
  \/ SendDnsQuery("sendCipopen") \/ SendCipopen \/ FinalizeConnect

(* The states from a connection on.                                          *)
Transfers ==
  \/ ConnectedSends("sendData") \/ ConnectedReceives("sendCiprxget4")
  \/ ConnectedIdle(ConnectedRests(Report(dev, "connected"))) \/ SendDataBytes("sendData", "OK")
  \/ SendCiprxget4 \/ SendCiprxget2 \/ EndCiprxget2("sendNetclose")
  \/ ReceivePayload("OK") \/ ReceivedPayload("sendCiprxget2", "sendCiprxget4")
  \/ IpUnconnected("sendNetclose", "sendCipopen")
  \/ SendNetclose \/ FinalizeDisconnect

Run == Parses \/ Connects \/ Transfers
=============================================================================
