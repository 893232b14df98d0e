----------------------------- MODULE ModemDetect -----------------------------
(***************************************************************************)
(* cicada/commdevices/modemdetect.cpp: the task that finds out which modem *)
(* is attached, and then runs the driver in its stead.  Until the driver   *)
(* exists the detector is the only one to use the serial port.             *)
(***************************************************************************)
EXTENDS ModemSystem

DetectStates == {"none", "noState", "beginState", "errorState", "cgmmSent", "gmrSent",
                 "espressifWaitOk", "detectedSim800", "detectedSim7x00",
                 "detectedEspressif", "detectedCC1352P7"}
Detected == {"detectedSim800", "detectedSim7x00", "detectedEspressif", "detectedCC1352P7"}

Model == [text \in {"SIMCOM_SIM800", "SIMCOM_SIM7600", "CC1352P7", "ERROR"} |->
            CASE text = "SIMCOM_SIM800" -> "detectedSim800"
              [] text = "SIMCOM_SIM7600" -> "detectedSim7x00"
              [] text = "CC1352P7" -> "detectedCC1352P7"
              [] text = "ERROR" -> "gmrSent"]

(* What the line means in a state; any other line is dropped.                *)
(* Slip: the OK that ends the answer to AT+GMR is not waited for.             *)
AfterLineAtOnce(state, text) ==
  CASE state = "cgmmSent" /\ text \in DOMAIN Model -> Model[text]
    [] state = "gmrSent" /\ text = "AT version" -> "detectedEspressif"
    [] OTHER -> state
(* Slip: an error is the answer of no modem.                                 *)
AfterLineNoError(state, text) ==
  CASE state = "cgmmSent" /\ text \in DOMAIN Model \ {"ERROR"} -> Model[text]
    [] OTHER -> state

AfterLine(state, text) ==
  CASE state = "cgmmSent" /\ text \in DOMAIN Model -> Model[text]
    [] state = "gmrSent" /\ text = "AT version" -> "espressifWaitOk"
    [] state = "espressifWaitOk" /\ text = "OK" -> "detectedEspressif"
    [] OTHER -> state

(* run() without a driver.  startDetection() is the first that the programs   *)
(* do, so it has been called unless pc is "start".                           *)
OpenPort ==
  /\ detector # "none" /\ ~serialOpen
  /\ \/ serialOpen' = TRUE /\ detector' = detector
     \/ serialOpen' = FALSE /\ detector' = "errorState" /\ errors < scenario.maxErrors
  /\ errors' = IF serialOpen' THEN errors ELSE errors + 1
  /\ UNCHANGED <<rx, tx>>

SendCgmm ==
  /\ serialOpen /\ detector = "beginState"
  /\ rx' = <<>> /\ Command("AT+CGMM") /\ detector' = "cgmmSent"
  /\ UNCHANGED <<serialOpen, errors>>

Begin(state) == IF state = "noState" /\ pc # "start" THEN "beginState" ELSE state

ReadDetectLine ==
  /\ serialOpen /\ detector \notin {"none", "beginState"}
  /\ IF rx = <<>> THEN detector' = Begin(detector) /\ UNCHANGED <<rx, tx>>
     ELSE /\ detector' = AfterLine(Begin(detector), Head(rx).text)
          /\ rx' = Tail(rx)
          /\ IF detector = "cgmmSent" /\ detector' = "gmrSent" THEN Command("AT+GMR")
                                                             ELSE UNCHANGED tx
  /\ UNCHANGED <<serialOpen, errors>>

Detector ==
  /\ OpenPort \/ SendCgmm \/ ReadDetectLine
  /\ UNCHANGED <<scenario, dev, step, modem, app, down, peerGot, discarded, pc>>
=============================================================================
