-------------------------------- MODULE Modems --------------------------------
(***************************************************************************)
(* The whole: any of the four drivers with its modem, the application or   *)
(* one of the example programs, the modem detection, the UART and the      *)
(* network.  The scenario says which of them a behaviour is about.         *)
(***************************************************************************)
EXTENDS ExamplePrograms

S8 == INSTANCE Sim800System
S7 == INSTANCE Sim7x00System
ES == INSTANCE EspressifSystem
CC == INSTANCE CC1352P7System

Is(name) == scenario.modem = name
IsWifi == Is("espressif") \/ Is("cc1352p7")

(* The constructors of the WiFi drivers leave the buffer of the MAC address  *)
(* as it was, which may look like a request.                                 *)
Init ==
  /\ SystemInit
  /\ \E request \in {"noRequest"} \cup
                    (IF IsWifi /\ scenario.maxRequests > 0 THEN {"mac"} ELSE {}) :
       dev = [NewDevice EXCEPT !.type = scenario.type, !.idRequest = request]

Driver ==
  \/ Is("sim800") /\ S8!Driver
  \/ Is("sim7x00") /\ S7!Driver
  \/ Is("espressif") /\ ES!Driver
  \/ Is("cc1352p7") /\ CC!Driver

Application ==
  \/ Is("sim800") /\ S8!Application
  \/ Is("sim7x00") /\ S7!Application
  \/ Is("espressif") /\ ES!Application
  \/ Is("cc1352p7") /\ CC!Application

Modem ==
  \/ Is("sim800") /\ S8!Modem
  \/ Is("sim7x00") /\ S7!Modem
  \/ Is("espressif") /\ ES!Modem
  \/ Is("cc1352p7") /\ CC!Modem

Network ==
  \/ Is("sim800") /\ S8!Network
  \/ Is("sim7x00") /\ S7!Network
  \/ Is("espressif") /\ ES!Network
  \/ Is("cc1352p7") /\ CC!Network

Next == Driver \/ Application \/ Modem \/ Network \/ Uart \/ Detector \/ Program

Spec == Init /\ [][Next]_vars

(* The server that an example talks to answers and closes.                   *)
Server == scenario.program # "any" /\ Network

FairSpec ==
  /\ Spec
  /\ WF_vars(Driver) /\ WF_vars(Modem) /\ WF_vars(Uart)
  /\ WF_vars(Detector) /\ SF_vars(Program) /\ WF_vars(Server)

-----------------------------------------------------------------------------
(* Every variable of the driver has its type.                                *)
TypeOK ==
  /\ CASE Is("sim800") -> S8!TypeOK
       [] Is("sim7x00") -> S7!TypeOK
       [] Is("espressif") -> ES!TypeOK
       [] Is("cc1352p7") -> CC!TypeOK
  /\ detector \in DetectStates /\ pc \in Places
=============================================================================
