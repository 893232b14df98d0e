--------------------------- MODULE CC1352P7System ----------------------------
(***************************************************************************)
(* The CC1352P7 driver with its surroundings and such a modem, which takes *)
(* AT+CIPCLOSE and AT+CIPSEND with or without a connection: the driver      *)
(* closes whatever there may be, and waits for SEND FAIL.                  *)
(***************************************************************************)
EXTENDS CC1352P7, CiprecvdataSystem

Acknowledge ==
  \/ Acknowledges("ATE0", <<"OK">>)
  \/ Acknowledges("AT+CSQ", <<"+CSQ", "OK">>)
  \/ Acknowledges("AT+CIPSTAMAC", <<"+CIPSTAMAC", "OK">>)
  \/ Acknowledges("AT+CGMM", <<"CC1352P7", "OK">>)

Close ==
  /\ Executes("AT+CIPCLOSE") /\ link' = "none" /\ inbox' = <<>>
  /\ Answer(Replies(<<"OK">>))
  /\ UNCHANGED <<prompt, errors, peerGot>>

Links == {"down", "none", "open", "closed"}
PayloadHeader == Line("+CIPRECVDATA", Deliverable)

Modem ==
  /\ \/ Refuse({"AT+CIPCLOSE", "AT+CGMM"}) \/ Acknowledge \/ OpenFrom(Links \ {"open"}) \/ Close
     \/ StartSending(Links, <<">">>) \/ TakeByte(<<"OK">>, <<"SEND FAIL", "OK">>)
     \/ DropByte \/ Fetch(PayloadHeader)
  /\ ModemOnly

Network == (DataArrives(Notice(inbox')) \/ PeerCloses("CLOSED")) /\ NetworkOnly

Driver == Run /\ DriverOnly
TypeOK == DriverTypeOK(SendStates, ReplyStates)
=============================================================================
