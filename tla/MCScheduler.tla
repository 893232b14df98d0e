----------------------------- MODULE MCScheduler -----------------------------
(* Two tasks, each of a class of its own.                                     *)
EXTENDS Scheduler, TLC

CONSTANTS t1, t2, c1, c2

MCTaskList == <<t1, t2>>
MCClasses == {c1, c2}
MCClassOf == t1 :> c1 @@ t2 :> c2
MCWaitDelay == t1 :> 0 @@ t2 :> 2
=============================================================================
