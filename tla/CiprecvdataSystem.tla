-------------------------- MODULE CiprecvdataSystem --------------------------
(***************************************************************************)
(* The surroundings of the drivers of modems with AT+CIPRECVDATA, and what *)
(* these modems have in common.                                            *)
(***************************************************************************)
EXTENDS CiprecvdataDriver, ModemSystem

Application == Calls({"mac"}, AfterResetStates(dev)) /\ ApplicationOnly

OpenFrom(links) ==
  /\ Executes("AT+CIPSTART")
  /\ IF link \in links THEN link' = "open" /\ inbox' = <<>> /\ Answer(Replies(<<"OK">>))
                       ELSE UNCHANGED <<link, inbox>> /\ Answer(Replies(<<"ERROR">>))
  /\ UNCHANGED <<prompt, errors, peerGot>>

Fetch(header) ==
  /\ Executes("AT+CIPRECVDATA")
  /\ IF inbox # <<>> THEN DeliverPayload(header)
     ELSE Answer(Replies(<<"ERROR">>)) /\ UNCHANGED <<link, inbox, prompt, errors, peerGot>>

(* The size of what can be fetched is announced at each arrival.             *)
Notice(data) == <<Line("+IPD", Len(data))>>
=============================================================================
