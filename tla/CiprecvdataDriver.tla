-------------------------- MODULE CiprecvdataDriver --------------------------
(***************************************************************************)
(* What EspressifDevice (espressif.cpp) and CC1352P7CommDevice             *)
(* (cc1352p7.cpp) have in common with each other only: the payload is      *)
(* fetched with AT+CIPRECVDATA, and the MAC address can be asked for.  A   *)
(* request is kept as the value 0xFF of a char, where char is unsigned (as *)
(* on ARM); where it is signed the command is never sent.                  *)
(***************************************************************************)
EXTENDS ATDriver

(* resetStates() leaves the MAC address and the request for it.              *)
AfterResetStates(d) ==
  [NewDevice EXCEPT !.type = d.type, !.idRequest = d.idRequest, !.idType = d.idType,
                    !.idString = d.idString]

ParseCiprecvdata(d, line) ==
  IF line.text = "+CIPRECVDATA"
  THEN Goto(Expect(Lift([d EXCEPT !.bytesToReceive = @ - line.n, !.bytesToRead = @ + line.n],
                        "LINE_READ"), "okReply"), "receiving")
  ELSE d

ParseMac(d, line) ==
  IF line.text = "+CIPSTAMAC" THEN Expect([d EXCEPT !.idString = "mac"], "okReply") ELSE d

SendMacRequest == SendIDRequest("AT+CIPSTAMAC", "reqMac")

SendCipstart == SimpleCommand("sendCipstart", "AT+CIPSTART", "OK", "finalizeConnect")
SendCiprecvdata(reply) == RequestPayload("sendCiprecvdata", "AT+CIPRECVDATA", reply)
EndCiprecvdata == EndRequests("sendCiprecvdata", "sendCipclose", "connected")
=============================================================================
