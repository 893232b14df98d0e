---------------------------- MODULE Sim7x00System ----------------------------
(***************************************************************************)
(* The SIM7x00 driver with its surroundings and a SIM7x00 modem.  link is   *)
(* "attaching" while AT+NETOPEN is being executed.                          *)
(***************************************************************************)
EXTENDS Sim7x00, SimSystem

SimpleCommands == {"ATE0", "AT+CGSOCKCONT", "AT+CSOCKSETPN=1", "AT+CIPMODE=0",
                   "AT+CIPRXGET=1"}

OpenNetwork ==
  /\ Executes("AT+NETOPEN")
  /\ IF link = "down" THEN link' = "attaching" /\ Answer(Replies(<<"OK">>))
                      ELSE link' = link /\ Answer(Replies(<<"ERROR">>))
  /\ UNCHANGED <<inbox, prompt, errors, peerGot>>

NetworkOpened ==
  /\ Quiet /\ link = "attaching"
  /\ \/ link' = "none" /\ Answer(Replies(<<"+NETOPEN: 0">>)) /\ UNCHANGED errors
     \/ /\ errors < scenario.maxErrors /\ errors' = errors + 1
        /\ link' = "down" /\ Answer(Replies(<<"+NETOPEN: 1">>))
  /\ UNCHANGED <<inbox, prompt, peerGot, tx>>

CloseNetwork ==
  /\ Executes("AT+NETCLOSE")
  /\ IF link = "down" THEN UNCHANGED <<link, inbox>> /\ Answer(Replies(<<"ERROR">>))
     ELSE link' = "down" /\ inbox' = <<>> /\ Answer(Replies(<<"OK", "+NETCLOSE: 0">>))
  /\ UNCHANGED <<prompt, errors, peerGot>>

(* A restart of the modem, which then reports ready.                         *)
Restart ==
  /\ Executes("AT+CRESET") /\ Answer(Replies(<<"OK", "RDY">>))
  /\ link' = "down" /\ inbox' = <<>>
  /\ UNCHANGED <<prompt, errors, peerGot>>

Modem ==
  /\ \/ Refuse({"AT+CRESET", "AT+CGMM"})
     \/ Acknowledge(SimpleCommands, "AT+CICCID", "SIMCOM_SIM7600")
     \/ OpenNetwork \/ NetworkOpened
     \/ StartOpening("AT+CIPOPEN") \/ Opened("+CIPOPEN: 0,0", "+CIPOPEN: 0,1")
     \/ CloseNetwork \/ Restart \/ CommonModem("OK")
  /\ ModemOnly

(* The driver does not know the notice of a network that is lost.            *)
Network == SimNetwork("+IPCLOSE: 0,", {"open"}, "+CIPEVENT")

Driver == Run /\ DriverOnly
TypeOK == DriverTypeOK(SendStates, ReplyStates)
=============================================================================
