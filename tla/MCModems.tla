------------------------------- MODULE MCModems -------------------------------
(* The scenarios of Modems that TLC checks.                                  *)
EXTENDS Modems

(* One TCP connection, nothing else.                                         *)
Session(name) ==
  [modem |-> name, type |-> "TCP", program |-> "any", maxUp |-> 0, maxDown |-> 0,
   maxConnects |-> 1, maxErrors |-> 0, maxRequests |-> 0, maxRestarts |-> 0,
   mayDisconnect |-> FALSE, mayLock |-> FALSE, mayClose |-> FALSE, openAtStart |-> TRUE]
Sims == {Session("sim800"), Session("sim7x00")}
Wifis == {Session("espressif"), Session("cc1352p7")}
All == Sims \cup Wifis

(* Traffic both ways with every way of ending a connection.                  *)
Traffic(s) == [s EXCEPT !.maxUp = 3, !.maxDown = 3, !.mayDisconnect = TRUE, !.mayClose = TRUE]
(* Requests for RSSI and identification in the middle of a download.         *)
Asking(s) == [s EXCEPT !.maxDown = 2, !.maxRequests = 1, !.mayClose = TRUE]
(* Two connections with errors, a hardware reset and a port that opens late. *)
Faults(s) == [s EXCEPT !.maxUp = 1, !.maxDown = 1, !.maxConnects = 2, !.maxErrors = 1,
                       !.maxRestarts = 1, !.mayDisconnect = TRUE, !.openAtStart = FALSE]
(* The application takes the serial port in between.                         *)
Locking(s) == [s EXCEPT !.maxConnects = 2, !.maxErrors = 1, !.maxRequests = 1,
                        !.maxRestarts = 1, !.mayDisconnect = TRUE, !.mayLock = TRUE,
                        !.openAtStart = FALSE]
(* A datagram connection.                                                    *)
Datagrams(s) == [s EXCEPT !.type = "UDP", !.maxUp = 1, !.maxDown = 2,
                          !.mayDisconnect = TRUE, !.mayClose = TRUE]
(* An example, with a modem that has to be detected first.                   *)
Ntp == {"ntp", "autodetect"}
Example(s, name) ==
  [s EXCEPT !.program = name, !.type = IF name \in Ntp THEN "UDP" ELSE "TCP",
            !.maxUp = 2, !.maxDown = IF name \in Ntp THEN 1 ELSE 2,
            !.mayClose = (name \notin Ntp), !.openAtStart = FALSE]
Undetected(s) == [Example(s, "events") EXCEPT !.maxErrors = 1]

Each(variant(_), sessions) == {variant(s) : s \in sessions}

SafetyScenarios ==
  Each(Traffic, All) \cup Each(Asking, All) \cup Each(Faults, All)
  \cup Each(Locking, Sims) \cup Each(Datagrams, Wifis)
  \cup Each(Undetected, All \ {Session("cc1352p7")})

(* Errors without a disconnect; a disconnect without errors.                 *)
Errors(s) == [s EXCEPT !.maxUp = 1, !.maxDown = 1, !.maxErrors = 2, !.mayClose = TRUE]
Endings(s) == [s EXCEPT !.maxUp = 1, !.maxDown = 1, !.mayDisconnect = TRUE, !.mayClose = TRUE]
Uploads(s) == [s EXCEPT !.type = "UDP", !.maxUp = 1, !.mayDisconnect = TRUE, !.mayClose = TRUE]
ByHttp(s) == Example(s, "http")
ByEvents(s) == Example(s, "events")
ByNtp(s) == Example(s, "ntp")
ByAutodetect(s) == [Example(s, "autodetect") EXCEPT !.maxErrors = 1]

LiveScenarios ==
  Each(Errors, All) \cup Each(Endings, All) \cup Each(Uploads, Wifis)
  \cup Each(ByHttp, All \ {Session("sim7x00")})
  \cup Each(ByEvents, Wifis)
  \cup Each(ByNtp, All) \cup Each(ByAutodetect, All)
(* Each of the disagreements between the code and its documentation.         *)
CsqWhileSending == {[Session("sim800") EXCEPT !.maxUp = 1, !.maxRequests = 1]}
HttpOnSim7x00 == {ByHttp(Session("sim7x00"))}
DetectedEarly == {ByEvents(Session("cc1352p7"))}
DatagramWhileWaiting ==
  {[Session("espressif") EXCEPT !.type = "UDP", !.maxUp = 1, !.maxDown = 1,
                                !.mayDisconnect = TRUE]}
=============================================================================
