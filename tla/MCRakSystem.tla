----------------------------- MODULE MCRakSystem ------------------------------
(* The scenarios of RakSystem that TLC checks.                               *)
EXTENDS RakSystem

(* Two data rates, as in _packetSizes the slower one with smaller packets.   *)
Sizes == <<1, 2>>

(* Uploads that fail, through the wrap of the write buffer and over what is  *)
(* not confirmed; the same in the example; everything else, with one byte.   *)
Uploads == [program |-> "any", maxConnects |-> 1, maxUp |-> 4, maxDown |-> 0,
            maxFailures |-> 2, maxRestarts |-> 0, mayDisconnect |-> FALSE]
Example == [Uploads EXCEPT !.program = "simplesend", !.maxDown = 1]
Restarts == [Uploads EXCEPT !.maxConnects = 2, !.maxUp = 1, !.maxDown = 1,
                            !.maxFailures = 1, !.maxRestarts = 1, !.mayDisconnect = TRUE]
(* One packet fails while the application fills the space that is offered.   *)
Refill == {[Uploads EXCEPT !.maxUp = 5, !.maxFailures = 1]}
AllScenarios == {Uploads, Example, Restarts} \cup Refill
=============================================================================
