------------------------------ MODULE Espressif ------------------------------
(***************************************************************************)
(* cicada/commdevices/espressif.cpp: the driver of the Espressif WiFi      *)
(* modules.  A TCP connection keeps its payload in the modem until it is   *)
(* fetched; a UDP connection delivers it at once, after a header +IPD.     *)
(***************************************************************************)
EXTENDS CiprecvdataDriver

SendStates == {"notConnected", "serialError", "connecting", "sendCwmode", "sendCwjap",
  "sendCiprecvmode", "sendCipmux", "sendCipmode", "sendCipstart", "finalizeConnect",
  "connected", "sendDataState", "sendCiprecvdata", "waitReceive", "receiving",
  "sendCipclose", "sendCwqap", "finalizeDisconnect"}
ReplyStates == {"okReply", "waitCiprecvdata", "parseStateCiprecvdata", "reqMac", "rssi"}

FromConnected == {"connected", "sendDataState", "sendCiprecvdata", "waitReceive",
                  "receiving", "sendCipclose", "sendCwqap", "finalizeDisconnect"}

(* A ':' ends a line in the header of a datagram and of fetched payload.     *)
LineEnds(d) ==
  {"line"} \cup
  (IF \/ d.replyState = "waitCiprecvdata"
      \/ d.type # "TCP" /\ d.replyState \notin {"reqMac", "rssi"}
   THEN {"header"} ELSE {})

TheLine == FilledLine(dev, LineEnds(dev))
Filled ==
  LET d == FillLineBuffer(dev, LineEnds(dev))
  IN  IF d.replyState = "waitCiprecvdata" /\ TheLine.kind = "header"
      THEN Expect(d, "parseStateCiprecvdata") ELSE d

-----------------------------------------------------------------------------
(* Slip: the reply that was expected before the reset still is.              *)
ResetKeepsReply(d) ==
  Await(Goto([d EXCEPT !.stateBooleans = {"LINE_READ"}, !.bytesToRead = 0,
                       !.bytesToReceive = 0, !.bytesToWrite = 0],
             "notConnected"), "ready")

Reset(d) ==
  Await(Expect(Goto([d EXCEPT !.stateBooleans = {"LINE_READ"}, !.bytesToRead = 0,
                              !.bytesToReceive = 0, !.bytesToWrite = 0],
                    "notConnected"), "okReply"), "ready")

RunWithReset ==
  /\ Starts /\ Has(dev, "RESET_PENDING")
  /\ rx' = <<>>
  /\ dev' = Reset(dev)
  /\ Command("AT+RST")
  /\ UNCHANGED <<step, serialOpen>>

Reads == ~Has(dev, "RESET_PENDING")

IsError(line) == line.text \in {"ERROR", "FAIL"}

HandleError ==
  /\ Reads /\ TakeLine(LineEnds(dev)) /\ IsError(TheLine)
  /\ dev' = Failed(Filled)
  /\ step' = "off"

HandleSendFail(d, line) ==
  IF d.sendState = "connected" /\ line.text = "SEND FAIL"
  THEN Await(Report(d, "generalError"), NULL) ELSE d

HandleReply(d, line) ==
  CASE d.replyState = "parseStateCiprecvdata" -> ParseCiprecvdata(d, line)
    [] d.replyState = "reqMac" -> ParseMac(d, line)
    [] d.replyState = "rssi" /\ line.text \in {"+CWJAP", "No AP"} ->
         Expect([d EXCEPT !.rssi = "known"], "okReply")
    [] OTHER -> d

(* Data that is announced: its size for TCP, for UDP the data itself follows. *)
HandleIPD(d, line) ==
  Raise(IF d.type = "TCP" THEN [d EXCEPT !.bytesToReceive = line.n]
        ELSE Lift([d EXCEPT !.bytesToRead = @ + line.n], "LINE_READ"),
        "DATA_PENDING")

(* Slip: the loss of the connection is not looked at.                        *)
CheckConnectionNotClosed(d, line) ==
  IF d.sendState \notin FromConnected THEN d
  ELSE CASE line.text = "+IPD" -> HandleIPD(d, line)
         [] line.text = "WIFI DISCONNECT" -> Await(Goto(d, "finalizeDisconnect"), NULL)
         [] OTHER -> d

CheckConnection(d, line) ==
  IF d.sendState \notin FromConnected THEN d
  ELSE CASE line.text = "+IPD" -> HandleIPD(d, line)
         [] line.text = "CLOSED" -> Lift(d, "IP_CONNECTED")
         [] line.text = "WIFI DISCONNECT" -> Await(Goto(d, "finalizeDisconnect"), NULL)
         [] OTHER -> d

ParseLine ==
  /\ Reads /\ TakeLine(LineEnds(dev)) /\ ~IsError(TheLine)
  /\ LET d == MatchReply(HandleSendFail(Filled, TheLine), TheLine)
     IN  dev' = CheckConnection(HandleReply(d, TheLine), TheLine)
  /\ step' = "send"

-----------------------------------------------------------------------------
(* The cases of the state machine.                                           *)

SendCwmode == SimpleCommand("sendCwmode", "AT+CWMODE=1", "OK", "sendCwjap")
SendCwjap == SimpleCommand("sendCwjap", "AT+CWJAP", "OK", "sendCipmux")
SendCipmux == SimpleCommand("sendCipmux", "AT+CIPMUX=0", "OK", "sendCiprecvmode")
SendCiprecvmode == SimpleCommand("sendCiprecvmode", "AT+CIPRECVMODE", "OK", "sendCipmode")
SendCipmode == SimpleCommand("sendCipmode", "AT+CIPMODE=0", "OK", "sendCipstart")

Rest(d) == CloseOrStay(d, "sendCwqap", "sendCipclose")

SendCipclose ==
  /\ Case("sendCipclose")
  /\ LET d == Goto(Report(dev, "intermediate"), "sendCwqap")
     IN  IF Has(d, "IP_CONNECTED")
         THEN dev' = Await(d, "OK") /\ Command("AT+CIPCLOSE")
         ELSE dev' = d /\ UNCHANGED tx
  /\ UNCHANGED rx

SendCwqap ==
  /\ Case("sendCwqap")
  /\ dev' = Goto(Await(Report(dev, "intermediate"), "WIFI DISCONNECT"), "finalizeDisconnect")
  /\ Command("AT+CWQAP") /\ UNCHANGED rx

IsTCP == dev.type = "TCP"

(* The serial port, the reset and the parser.                                *)
Parses ==
  \/ OpenSerial \/ RunWithReset \/ HandleError \/ ParseLine
  \/ Reads /\ FillNothing(LineEnds(dev))

(* The gates and the requests, and the states up to a connection.            *)
Connects ==
  \/ Wait \/ SendRSSIRequest("AT+CWJAP?", "rssi") \/ SendMacRequest \/ OtherState
  \/ NotConnected \/ Connecting("sendCwmode")
  \/ SendCwmode \/ SendCwjap \/ SendCipmux \/ SendCiprecvmode \/ SendCipmode
  \/ SendCipstart \/ FinalizeConnect

(* The states from a connection on.                                          *)
Transfers ==
  \/ ConnectedSends("sendDataState")
  \/ ConnectedReceives(IF IsTCP THEN "sendCiprecvdata" ELSE "receiving")
  \/ ConnectedIdle(Rest(Report(dev, "connected"))) \/ SendDataBytes("sendDataState", "SEND OK")
  \/ SendCiprecvdata("waitCiprecvdata") \/ EndCiprecvdata
  \/ ReceivePayload(IF IsTCP THEN "OK" ELSE NULL)
  \/ ReceivedPayload("sendCiprecvdata", "connected")
  \/ SendCipclose \/ SendCwqap \/ FinalizeDisconnect

Run == Parses \/ Connects \/ Transfers
=============================================================================
