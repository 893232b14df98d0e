--------------------------- MODULE ExamplePrograms ---------------------------
(***************************************************************************)
(* Four of the programs in examples/: each detects the modem, connects,    *)
(* sends a request, reads the answer and comes to its end when the driver  *)
(* is idle again.  ipcommdevice.cpp ("http") reads until the connection is *)
(* closed, then disconnects; eventloop.cpp ("events") reads whenever there *)
(* is something; ntp.cpp ("ntp") reads one datagram and disconnects; these *)
(* wait as long as they must.  autodetectntp.cpp ("autodetect") does what  *)
(* ntp.cpp does and gives up when one of its waits times out.  No program  *)
(* reads more than Chunk bytes at once.  What the driver does after the    *)
(* end of a program, where the process goes on, is left in the model.      *)
(***************************************************************************)
EXTENDS ModemDetect

CONSTANT Chunk  \* size of the buffer the program reads into

ASSUME ChunkAssumption == Chunk \in Nat \ {0}

Places == {"start", "detect", "connecting", "reply", "reading", "closing", "done", "failed"}

(* The program calls the driver and goes on to the next place.               *)
Goes(from, to) == pc = from /\ pc' = to

StartDetection ==
  /\ Goes("start", "detect")
  /\ UNCHANGED <<dev, step, rx, tx, serialOpen, connects, detector, up, got, discarded>>

(* getDetectedModem(), whose constructor flushes the serial buffer,          *)
(* setHostPort() and connect().                                              *)
Attach ==
  /\ detector \in Detected /\ Goes("detect", "connecting")
  /\ CallDriver(Connected([NewDevice EXCEPT !.type = scenario.type])) /\ rx' = <<>>
  /\ detector' = "none" /\ connects' = connects + 1
  /\ UNCHANGED <<up, got, discarded>>

Requests ==
  /\ Goes("connecting", "reply") /\ IsConnected(dev)
  /\ CallDriver(Written(dev, Count(scenario.maxUp)))
  /\ up' = up + Len(dev'.writeBuffer) - Len(dev.writeBuffer)
  /\ UNCHANGED <<rx, connects, detector, got, discarded>>

AfterReading(from) ==
  /\ Goes(from, "closing") /\ ~IsConnected(dev)
  /\ CallDriver(Disconnected(dev))
  /\ discarded' = (discarded \/ ~IsIdle(dev))
  /\ UNCHANGED <<rx, connects, detector, up, got>>

Idle(from) ==
  /\ Goes(from, "done") /\ IsIdle(dev) /\ step = "off"
  /\ UNCHANGED <<driver, connects, detector, up, got, discarded>>

(* ipcommdevice.cpp                                                          *)
FirstData ==
  /\ Goes("reply", "reading") /\ dev.readBuffer # <<>> /\ step = "off"
  /\ UNCHANGED <<driver, connects, detector, up, got, discarded>>
ReadWhileConnected ==
  /\ Goes("reading", "reading") /\ IsConnected(dev) /\ dev.readBuffer # <<>>
  /\ CallDriver(AfterRead(dev, Chunk)) /\ got' = got \o ReadData(dev, Chunk)
  /\ UNCHANGED <<rx, connects, detector, up, discarded>>
Http == FirstData \/ ReadWhileConnected \/ AfterReading("reading") \/ Idle("closing")

(* eventloop.cpp: two events of one round of the loop.                       *)
RoundOfEvents ==
  /\ pc = "reply" /\ (dev.readBuffer # <<>> \/ IsIdle(dev))
  /\ CallDriver(AfterRead(dev, Chunk)) /\ got' = got \o ReadData(dev, Chunk)
  /\ pc' = IF IsIdle(dev) THEN "done" ELSE pc
  /\ UNCHANGED <<rx, connects, detector, up, discarded>>

(* ntp.cpp                                                                   *)
ReadDatagram ==
  /\ Goes("reply", "closing") /\ dev.readBuffer # <<>>
  /\ CallDriver(Disconnected(AfterRead(dev, Chunk))) /\ got' = got \o ReadData(dev, Chunk)
  /\ discarded' = TRUE
  /\ UNCHANGED <<rx, connects, detector, up>>

(* autodetectntp.cpp: E_REENTER_COND_TIMEOUT and checkExitEol(); the answer   *)
(* may also be no time.                                                      *)
WaitedFor ==
  CASE pc = "detect" -> detector \in Detected
    [] pc = "connecting" -> IsConnected(dev)
    [] pc = "reply" -> dev.readBuffer # <<>>
    [] pc = "closing" -> IsIdle(dev)
    [] OTHER -> TRUE

TimesOut ==
  /\ ~WaitedFor /\ step = "off" /\ pc' = "failed"
  /\ UNCHANGED <<driver, connects, detector, up, got, discarded>>

NoTime ==
  /\ Goes("reply", "failed") /\ dev.readBuffer # <<>>
  /\ CallDriver(AfterRead(dev, Chunk)) /\ got' = got \o ReadData(dev, Chunk)
  /\ UNCHANGED <<rx, connects, detector, up, discarded>>

AutodetectNtp == ReadDatagram \/ Idle("closing") \/ TimesOut \/ NoTime

Program ==
  /\ \/ StartDetection \/ Attach \/ Requests
     \/ scenario.program = "http" /\ Http
     \/ scenario.program = "events" /\ RoundOfEvents
     \/ scenario.program = "ntp" /\ (ReadDatagram \/ Idle("closing"))
     \/ scenario.program = "autodetect" /\ AutodetectNtp
  /\ scenario.program # "any"
  /\ UNCHANGED <<scenario, modem, requests, restarts, errors, down, peerGot>>
=============================================================================
