------------------------------ MODULE SimSystem -------------------------------
(***************************************************************************)
(* The surroundings of the drivers of SIMCom modems: the calls that only   *)
(* these drivers have, and what their modems have in common.               *)
(***************************************************************************)
EXTENDS SimDriver, ModemSystem

SerialLock ==
  /\ scenario.mayLock /\ CanSerialLock(dev)
  /\ CallDriver(Raise(dev, "SERIAL_LOCKED")) /\ UNCHANGED rx
  /\ UNCHANGED <<app, modem, errors, down, peerGot, discarded>>

(* serialRead() of the one token that is there.                              *)
SerialRead ==
  /\ Has(dev, "SERIAL_LOCKED") /\ rx # <<>>
  /\ CallDriver(dev) /\ rx' = Tail(rx)
  /\ UNCHANGED <<app, modem, errors, down, peerGot, discarded>>

(* serialWrite() of a command of the application's own.                      *)
SerialWrite ==
  /\ Has(dev, "SERIAL_LOCKED") /\ requests < scenario.maxRequests
  /\ step = "off" /\ Command("AT+CSQ") /\ requests' = requests + 1
  /\ UNCHANGED <<dev, step, rx, serialOpen, connects, restarts, up, got,
                 modem, errors, down, peerGot, discarded>>

SerialUnlock ==
  /\ Has(dev, "SERIAL_LOCKED")
  /\ CallDriver(Lift(dev, "SERIAL_LOCKED")) /\ UNCHANGED rx
  /\ UNCHANGED <<app, modem, errors, down, peerGot, discarded>>

Application ==
  /\ \/ Calls(IDTypes, AfterResetStates(dev))
     \/ SerialLock \/ SerialRead \/ SerialWrite \/ SerialUnlock
  /\ ApplicationOnly

-----------------------------------------------------------------------------
Acknowledge(simpleCommands, iccidCommand, model) ==
  \/ \E text \in simpleCommands : Acknowledges(text, <<"OK">>)
  \/ Acknowledges("AT+CSQ", <<"+CSQ", "OK">>)
  \/ Acknowledges("AT+CGSN", <<"imei", "OK">>)
  \/ Acknowledges(iccidCommand, <<"iccid", "OK">>)
  \/ Acknowledges("AT+CDNSGIP", <<"OK", "+CDNSGIP: 1">>)
  \/ Acknowledges("AT+CGMM", <<model, "OK">>)

DnsFails ==
  /\ errors < scenario.maxErrors /\ errors' = errors + 1
  /\ Executes("AT+CDNSGIP") /\ Answer(Replies(<<"OK", "+CDNSGIP: 0">>))
  /\ UNCHANGED <<link, inbox, prompt, peerGot>>

StartOpening(command) ==
  /\ Executes(command)
  /\ IF link \in {"none", "closed"}
     THEN link' = "opening" /\ inbox' = <<>> /\ Answer(Replies(<<"OK">>))
     ELSE UNCHANGED <<link, inbox>> /\ Answer(Replies(<<"ERROR">>))
  /\ UNCHANGED <<prompt, errors, peerGot>>

Opened(success, failure) ==
  /\ Quiet /\ link = "opening"
  /\ \/ link' = "open" /\ Answer(Replies(<<success>>)) /\ UNCHANGED errors
     \/ /\ errors < scenario.maxErrors /\ errors' = errors + 1
        /\ link' = "none" /\ Answer(Replies(<<failure>>))
  /\ UNCHANGED <<inbox, prompt, peerGot, tx>>

Report4 ==
  /\ Executes("AT+CIPRXGET=4")
  /\ Answer(<<Line("+CIPRXGET: 4,0", Len(inbox)), Line("OK", 0)>>)
  /\ UNCHANGED <<link, inbox, prompt, errors, peerGot>>

Ciprxget2 == Line("+CIPRXGET: 2,0", Deliverable)
Deliver2 == Executes("AT+CIPRXGET=2") /\ DeliverPayload(Ciprxget2)

CommonModem(sent) ==
  DnsFails \/ StartSending({"open"}, <<">">>) \/ TakeByte(<<sent>>, <<"ERROR">>)
  \/ DropByte \/ Report4 \/ Deliver2

(* New data is announced when there was none.                                *)
Notice(data) == IF Len(data) = 1 THEN Replies(<<"+CIPRXGET: 1,0">>) ELSE <<>>
SimNetwork(closed, links, lost) ==
  /\ \/ DataArrives(Notice(inbox')) \/ PeerCloses(closed) \/ ContextLost(links, <<lost>>)
  /\ NetworkOnly
=============================================================================
