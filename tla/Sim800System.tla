---------------------------- MODULE Sim800System -----------------------------
(***************************************************************************)
(* The SIM800 driver with its surroundings and a SIM800 modem.             *)
(***************************************************************************)
EXTENDS Sim800, SimSystem

SimpleCommands == {"ATE0", "AT+CIPRXGET=1", "AT+CIPMUX=1", "AT+CSTT"}

ShowAddress ==
  /\ Executes("AT+CIFSR") /\ Answer(Replies(<<IF link = "down" THEN "ERROR" ELSE "ip">>))
  /\ UNCHANGED <<link, inbox, prompt, errors, peerGot>>

BringUp ==
  /\ Executes("AT+CIICR")
  /\ link' = IF link = "down" THEN "none" ELSE link
  /\ Answer(Replies(<<IF link = "down" THEN "OK" ELSE "ERROR">>))
  /\ UNCHANGED <<inbox, prompt, errors, peerGot>>

Close ==
  /\ Executes("AT+CIPCLOSE")
  /\ IF link = "open" THEN link' = "none" /\ Answer(Replies(<<"0, CLOSE OK">>))
                      ELSE link' = link /\ Answer(Replies(<<"ERROR">>))
  /\ UNCHANGED <<inbox, prompt, errors, peerGot>>

Shut ==
  /\ Executes("AT+CIPSHUT") /\ Answer(Replies(<<"SHUT OK">>))
  /\ link' = "down" /\ inbox' = <<>>
  /\ UNCHANGED <<prompt, errors, peerGot>>

Modem ==
  /\ \/ Refuse({"AT+CIPSHUT", "AT+CGMM"})
     \/ Acknowledge(SimpleCommands, "AT+CCID", "SIMCOM_SIM800") \/ ShowAddress \/ BringUp
     \/ StartOpening("AT+CIPSTART") \/ Opened("0, CONNECT OK", "0, CONNECT FAIL")
     \/ Close \/ Shut \/ CommonModem("0, SEND OK")
  /\ ModemOnly

Network == SimNetwork("0, CLOSED", {"opening", "open"}, "+PDP: DEACT")

Driver == Run /\ DriverOnly
TypeOK == DriverTypeOK(SendStates, ReplyStates)
=============================================================================
