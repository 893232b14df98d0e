--------------------------- MODULE SimCommDevice ----------------------------
(***************************************************************************)
(* cicada/commdevices/simcommdevice.cpp: what the drivers of the SIMCom    *)
(* modems share.                                                           *)
(***************************************************************************)
EXTENDS ATDriver

IDTypes == {"imei", "iccid"}  \* the types that are not validated, the one that is

(* resetStates(): as new, but for what setHostPort() has set.                *)
AfterResetStates(d) == [NewDevice EXCEPT !.type = d.type, !.idType = d.idType]

CanSerialLock(d) == d.waitForReply = NULL /\ d.replyState = "okReply"

(* The parsers: given the line, is it the reply, and what is left of dev.     *)
IsDnsReply(line) == line.text = "+CDNSGIP: 1"
ParseDnsReply(d, line) ==
  IF IsDnsReply(line) THEN Expect(d, "okReply")
  ELSE IF line.text = "+CDNSGIP: 0" THEN Raise(d, "RESET_PENDING") ELSE d

ParseCiprxget4(d, line) ==
  IF line.text = "+CIPRXGET: 4,0"
  THEN Expect([d EXCEPT !.bytesToReceive = @ + line.n], "okReply") ELSE d

IsCiprxget2(line) == line.text = "+CIPRXGET: 2,0"
(* Slip: lines are still read.                                               *)
ParseCiprxget2AsLines(d, line) ==
  [d EXCEPT !.bytesToReceive = @ - line.n, !.bytesToRead = @ + line.n]

ParseCiprxget2(d, line) ==
  Lift([d EXCEPT !.bytesToReceive = @ - line.n, !.bytesToRead = @ + line.n], "LINE_READ")

ParseCsq(d, line) ==
  IF line.text = "+CSQ" THEN Expect([d EXCEPT !.rssi = "known"], "okReply") ELSE d

(* Any line that is no echo, not empty and does not begin with '+' is taken   *)
(* for the identification, except that an ICCID must have the right digits.   *)
PlusLines == {"+CIPRXGET: 1,0", "+CIPRXGET: 2,0", "+CIPRXGET: 4,0", "+CSQ",
              "+CDNSGIP: 0", "+CDNSGIP: 1", "+PDP: DEACT", "+NETOPEN: 0", "+NETOPEN: 1",
              "+CIPOPEN: 0,0", "+CIPOPEN: 0,1", "+IPCLOSE: 0,", "+NETCLOSE: 0", "+CIPEVENT"}
IsIDReply(d, line) ==
  IF d.idType = "iccid" THEN line.text = "iccid"
                        ELSE line # Garbled /\ line.text \notin PlusLines
ParseIDReply(d, line) ==
  IF IsIDReply(d, line) THEN Expect([d EXCEPT !.idString = line.text], "okReply") ELSE d

CheckConnectionState(d, line, closeVariant) ==
  IF line.text = "+CIPRXGET: 1,0" THEN Raise(d, "DATA_PENDING")
  ELSE IF line.text = closeVariant THEN Await(Lift(d, "IP_CONNECTED"), NULL) ELSE d

=============================================================================
