------------------------------ MODULE SimDriver ------------------------------
(***************************************************************************)
(* What the run() functions of Sim800CommDevice (sim800.cpp) and           *)
(* Sim7x00CommDevice (sim7x00.cpp) have in common with each other only.    *)
(***************************************************************************)
EXTENDS SimCommDevice

Lines == {"line"}
TheLine == FilledLine(dev, Lines)
Filled == FillLineBuffer(dev, Lines)

Unlocked == ~Has(dev, "SERIAL_LOCKED")
Reads == Unlocked /\ ~Has(dev, "RESET_PENDING")

SendCsq == SendRSSIRequest("AT+CSQ", "csq")

SendDnsQuery(next) ==
  /\ Case("sendDnsQuery")
  /\ dev' = Goto(Await(Expect(dev, "cdnsgip"), "OK"), next)
  /\ Command("AT+CDNSGIP") /\ UNCHANGED rx

SendCiprxget4 ==
  /\ Case("sendCiprxget4")
  /\ dev' = Goto(Expect(Await(dev, "OK"), "ciprxget4"), "sendCiprxget2")
  /\ Command("AT+CIPRXGET=4") /\ UNCHANGED rx

SendCiprxget2 == RequestPayload("sendCiprxget2", "AT+CIPRXGET=2", "ciprxget2")
EndCiprxget2(closing) ==
  EndRequests("sendCiprxget2", closing,
              IF Has(dev, "IP_CONNECTED") THEN "connected" ELSE "ipUnconnected")

IpUnconnected(closing, opening) ==
  /\ Case("ipUnconnected")
  /\ LET d == Report(dev, "intermediate")
     IN  dev' = IF Has(d, "DISCONNECT_PENDING")
                THEN Leave(d, closing)
                ELSE HandleConnect(d, opening)
  /\ UNCHANGED <<rx, tx>>
=============================================================================
