--------------------------- MODULE EspressifSystem ---------------------------
(***************************************************************************)
(* The Espressif driver with its surroundings and an Espressif module.     *)
(* link is "down" without a WiFi network.                                  *)
(***************************************************************************)
EXTENDS Espressif, CiprecvdataSystem

Acknowledge ==
  \/ \E text \in {"ATE0", "AT+CWMODE=1", "AT+CIPMUX=0", "AT+CIPRECVMODE", "AT+CIPMODE=0"} :
       Acknowledges(text, <<"OK">>)
  \/ Acknowledges("AT+CWJAP?", <<IF link = "down" THEN "No AP" ELSE "+CWJAP", "OK">>)
  \/ Acknowledges("AT+CIPSTAMAC", <<"+CIPSTAMAC", "OK">>)
  \/ Acknowledges("AT+CGMM", <<"ERROR">>)
  \/ Acknowledges("AT+GMR", <<"AT version", "OK">>)

JoinNetwork ==
  /\ Executes("AT+CWJAP")
  /\ \/ link' = (IF link = "down" THEN "none" ELSE link)
        /\ Answer(Replies(<<"OK">>)) /\ UNCHANGED errors
     \/ /\ errors < scenario.maxErrors /\ errors' = errors + 1
        /\ link' = "down" /\ Answer(Replies(<<"FAIL">>))
  /\ UNCHANGED <<inbox, prompt, peerGot>>

Close ==
  /\ Executes("AT+CIPCLOSE")
  /\ IF link = "open" THEN link' = "none" /\ Answer(Replies(<<"CLOSED", "OK">>))
                      ELSE link' = link /\ Answer(Replies(<<"ERROR">>))
  /\ UNCHANGED <<inbox, prompt, errors, peerGot>>

LeaveNetwork ==
  /\ Executes("AT+CWQAP") /\ link' = "down" /\ inbox' = <<>>
  /\ Answer(Replies(IF link = "down" THEN <<"OK">> ELSE <<"OK", "WIFI DISCONNECT">>))
  /\ UNCHANGED <<prompt, errors, peerGot>>

Restart ==
  /\ Executes("AT+RST") /\ Answer(Replies(<<"OK", "ready">>))
  /\ link' = "down" /\ inbox' = <<>>
  /\ UNCHANGED <<prompt, errors, peerGot>>

PayloadHeader == Header("+CIPRECVDATA", Deliverable)

Modem ==
  /\ \/ Refuse({"AT+RST", "AT+CWQAP", "AT+CGMM", "AT+GMR"}) \/ Acknowledge \/ JoinNetwork
     \/ OpenFrom({"none", "closed"}) \/ Close \/ LeaveNetwork \/ Restart
     \/ StartSending({"open"}, <<"OK", ">">>) \/ TakeByte(<<"SEND OK">>, <<"SEND FAIL">>)
     \/ DropByte \/ Fetch(PayloadHeader)
  /\ ModemOnly

(* A datagram is not kept in the modem.                                      *)
DatagramArrives ==
  /\ Quiet /\ link = "open" /\ down < scenario.maxDown /\ Requested
  /\ down' = down + 1 /\ Answer(<<Header("+IPD", 1), Byte(down + 1)>>)
  /\ UNCHANGED <<link, inbox, prompt, errors, discarded>>

Network ==
  /\ \/ scenario.type = "TCP" /\ DataArrives(Notice(inbox'))
     \/ scenario.type = "UDP" /\ DatagramArrives
     \/ PeerCloses("CLOSED")
     \/ ContextLost({"none"}, <<"WIFI DISCONNECT">>)
     \/ ContextLost({"open"}, <<"CLOSED", "WIFI DISCONNECT">>)
  /\ NetworkOnly

Driver == Run /\ DriverOnly
TypeOK == DriverTypeOK(SendStates, ReplyStates)
=============================================================================
