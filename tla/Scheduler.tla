----------------------------- MODULE Scheduler ------------------------------
(***************************************************************************)
(* cicada/scheduler.cpp and the coroutines of cicada/task.h.  runTask      *)
(* samples the tick, compares it with the task's last run, runs the task   *)
(* and goes on to the next one; time passes meanwhile.  The tick is an     *)
(* unsigned counter that wraps.  Every task has the body                   *)
(*    E_BEGIN_TASK  E_REENTER_DELAY(d)                                     *)
(*    E_REENTER_COND_TIMEOUT_DELAY(cond, T, w)                             *)
(*    E_REENTER_COND_DELAY(cond, w)  E_REENTER_YIELD()  E_END_TASK         *)
(* with a d it chooses and its own w (0 gives the macros without DELAY),   *)
(* and the entry point where it resumes is a static of its run() function, *)
(* one for all instances of a class.                                       *)
(***************************************************************************)
EXTENDS Integers, Sequences

CONSTANTS TaskList,     \* the array of tasks, without its closing NULL
          Classes,      \* the classes whose run() the tasks execute
          ClassOf,      \* class of each task
          Delays,       \* delays tasks ask for, 0 among them
          WaitDelay,    \* w of each task
          Timeout,      \* T
          TickModulus,  \* values of E_TICK_TYPE (2^32 in the builds)
          MaxLag        \* bound: ticks that pass between two calls of runTask

Tasks == {TaskList[i] : i \in DOMAIN TaskList}
(* From one look at a task to the next: a call of runTask for each task.     *)
Round == (Len(TaskList) + 1) * MaxLag

ASSUME SchedulerAssumption ==
  /\ TaskList \in Seq(Tasks) /\ TaskList # <<>>
  /\ ClassOf \in [Tasks -> Classes]
  /\ Delays \subseteq Nat /\ 0 \in Delays
  /\ WaitDelay \in [Tasks -> Delays]
  /\ Timeout \in Nat
  /\ MaxLag \in Nat
  /\ TickModulus \in Nat
  /\ \A d \in Delays : Timeout + d + Round < TickModulus
     \* a timeout, 65535 ms and the loop against 49 days

VARIABLES
  tick,      \* the system tick
  current,   \* _currentTask, an index into TaskList
  pc,        \* "sample", "run" or "next" inside runTask
  sampled,   \* the local variable tick
  lag,       \* ticks since the last call of runTask
  delay, lastRun,          \* members of each Task
  timeoutStart, timeoutOn, \* _timeout, _isTimeoutRunning
  entrypoint,  \* per class: where run() resumes
  cond,        \* the condition the tasks wait for
  age,         \* history: real ticks since lastRun was sampled
  waited,      \* history: real ticks since the task reached the condition
  place,       \* history: where this task itself was suspended
  turns        \* history: turns a due task has been passed over

vars == <<tick, current, pc, sampled, lag, delay, lastRun, timeoutStart,
          timeoutOn, entrypoint, cond, age, waited, place, turns>>

Entries == {"first", "delayed", "wait", "cond", "yielded", "last"}

Minus(a, b) == IF b <= a THEN a - b ELSE TickModulus + a - b

Current == TaskList[current]

Init ==
  /\ tick = 0 /\ sampled = 0 /\ lag = 0
  /\ current = 1 /\ pc = "sample"
  /\ delay \in [Tasks -> Delays]       \* initialDelay of the constructor
  /\ lastRun = [t \in Tasks |-> 0]
  /\ timeoutStart \in [Tasks -> {0, TickModulus - 1}]  \* not initialised
  /\ timeoutOn = [t \in Tasks |-> FALSE]
  /\ entrypoint = [c \in Classes |-> "first"]
  /\ cond = FALSE
  /\ age = [t \in Tasks |-> 0] /\ waited = [t \in Tasks |-> 0]
  /\ place = [t \in Tasks |-> "first"] /\ turns = [t \in Tasks |-> 0]

(* The system tick interrupt.                                               *)
Tick ==
  /\ lag < MaxLag
  /\ lag' = lag + 1
  /\ tick' = (tick + 1) % TickModulus
  /\ age' = [t \in Tasks |-> IF age[t] < TickModulus THEN age[t] + 1 ELSE age[t]]
  /\ waited' = [t \in Tasks |->
       IF place[t] = "cond" /\ waited[t] < TickModulus THEN waited[t] + 1 ELSE waited[t]]
  /\ UNCHANGED <<current, pc, sampled, delay, lastRun, timeoutStart, timeoutOn,
                 entrypoint, cond, place, turns>>

(* What the tasks wait for comes and goes.                                  *)
Toggle ==
  /\ cond' = ~cond
  /\ UNCHANGED <<tick, current, pc, sampled, lag, delay, lastRun, timeoutStart,
                 timeoutOn, entrypoint, age, waited, place, turns>>

Sample ==
  /\ pc = "sample"
  /\ sampled' = tick
  /\ lag' = 0
  /\ pc' = "run"
  /\ UNCHANGED <<tick, current, delay, lastRun, timeoutStart, timeoutOn,
                 entrypoint, cond, age, waited, place, turns>>

(* Slips: the comparison does not survive the wrap of the tick; the delay is *)
(* cut short by one tick.                                                    *)
IsDueUntilWrap(t) == sampled >= lastRun[t] + delay[t]
IsDueEarly(t) == delay[t] = 0 \/ Minus(sampled, lastRun[t]) + 1 >= delay[t]

IsDue(t) == delay[t] = 0 \/ Minus(sampled, lastRun[t]) >= delay[t]

SkipTask ==
  /\ pc = "run" /\ ~IsDue(Current)
  /\ pc' = "next"
  /\ turns' = [turns EXCEPT ![Current] = IF age[Current] - lag >= delay[Current]
                                         THEN @ + 1 ELSE @]
  /\ UNCHANGED <<tick, current, sampled, lag, delay, lastRun, timeoutStart,
                 timeoutOn, entrypoint, cond, age, waited, place>>

-----------------------------------------------------------------------------
(* The body of a task, from the entry point to the next return.              *)

StartTask ==
  /\ pc = "run" /\ IsDue(Current)
  /\ pc' = "next"
  /\ lastRun' = [lastRun EXCEPT ![Current] = sampled]
  /\ age' = [age EXCEPT ![Current] = lag]
  /\ turns' = [turns EXCEPT ![Current] = 0]
  /\ UNCHANGED <<tick, current, sampled, lag, cond>>

Suspend(e) ==
  /\ entrypoint' = [entrypoint EXCEPT ![ClassOf[Current]] = e]
  /\ place' = [place EXCEPT ![Current] = e]

Entered(e) == entrypoint[ClassOf[Current]] = e

SetDelay(d) == delay' = [delay EXCEPT ![Current] = d]

(* Slip: the difference is signed.                                           *)
IsTimeoutSigned(start) == sampled - start > Timeout

(* isTimeout: _lastRun - _timeout > timeout, both as they are in this run.   *)
IsTimeout(start) == Minus(sampled, start) > Timeout

RunToDelay ==
  /\ StartTask /\ Entered("first")
  /\ \E d \in Delays : SetDelay(d)
  /\ Suspend("delayed")
  /\ UNCHANGED <<timeoutStart, timeoutOn, waited>>

(* E_REENTER_COND_DELAY when it is reached, within the same call of run(): a  *)
(* condition that holds is passed at once.                                   *)
ReachWait == SetDelay(WaitDelay[Current]) /\ Suspend(IF cond THEN "yielded" ELSE "wait")

(* resetTimeout() once the condition or the timeout lets the task go on.     *)
PassCondition == timeoutOn' = [timeoutOn EXCEPT ![Current] = FALSE] /\ ReachWait

(* Slip: startTimeout() takes every timeout for a running one.               *)
TimeoutNotStarted == timeoutStart[Current]

(* startTimeout() leaves a timeout that is already running alone.            *)
TimeoutStarted == IF timeoutOn[Current] THEN timeoutStart[Current] ELSE sampled

RunToCondition ==
  /\ StartTask /\ Entered("delayed")
  /\ timeoutStart' = [timeoutStart EXCEPT ![Current] = TimeoutStarted]
  /\ IF IsTimeout(TimeoutStarted) \/ cond
     THEN PassCondition /\ UNCHANGED waited
     ELSE /\ waited' = [waited EXCEPT ![Current] = lag]
          /\ timeoutOn' = [timeoutOn EXCEPT ![Current] = TRUE]
          /\ SetDelay(WaitDelay[Current])
          /\ Suspend("cond")

RunAtCondition ==
  /\ StartTask /\ Entered("cond")
  /\ UNCHANGED timeoutStart
  /\ IF IsTimeout(timeoutStart[Current]) \/ cond
     THEN PassCondition /\ waited' = [waited EXCEPT ![Current] = 0]
     ELSE UNCHANGED <<timeoutOn, delay, entrypoint, place, waited>>

RunAtWait ==
  /\ StartTask /\ Entered("wait")
  /\ IF cond THEN Suspend("yielded") ELSE UNCHANGED <<entrypoint, place>>
  /\ UNCHANGED <<delay, timeoutStart, timeoutOn, waited>>

RunToEnd ==
  /\ StartTask /\ Entered("yielded")
  /\ Suspend("last")
  /\ UNCHANGED <<delay, timeoutStart, timeoutOn, waited>>

(* No case of the switch is the last entry point: run() just returns.        *)
RunEnded ==
  /\ StartTask /\ Entered("last")
  /\ UNCHANGED <<delay, timeoutStart, timeoutOn, waited, entrypoint, place>>

Run ==
  \/ RunToDelay \/ RunToCondition \/ RunAtCondition \/ RunAtWait \/ RunToEnd \/ RunEnded

(* Slips: the list is not closed; it is closed one task early.               *)
FollowingOpen == current + 1
FollowingShort == IF current + 1 >= Len(TaskList) THEN 1 ELSE current + 1

Following == IF current = Len(TaskList) THEN 1 ELSE current + 1

NextTask ==
  /\ pc = "next"
  /\ current' = Following
  /\ pc' = "sample"
  /\ UNCHANGED <<tick, sampled, lag, delay, lastRun, timeoutStart, timeoutOn,
                 entrypoint, cond, age, waited, place, turns>>

RunTask == Sample \/ SkipTask \/ Run \/ NextTask

Next == Tick \/ Toggle \/ RunTask

Spec == Init /\ [][Next]_vars

(* start() loops for ever and the tick interrupt keeps coming.               *)
FairSpec == Spec /\ WF_vars(RunTask) /\ WF_vars(Tick)

-----------------------------------------------------------------------------
TypeOK ==
  /\ tick \in 0 .. TickModulus - 1 /\ sampled \in 0 .. TickModulus - 1
  /\ lag \in 0 .. MaxLag
  /\ current \in DOMAIN TaskList
  /\ pc \in {"sample", "run", "next"}
  /\ delay \in [Tasks -> Delays]
  /\ lastRun \in [Tasks -> 0 .. TickModulus - 1]
  /\ timeoutStart \in [Tasks -> 0 .. TickModulus - 1]
  /\ timeoutOn \in [Tasks -> BOOLEAN]
  /\ entrypoint \in [Classes -> Entries]
  /\ place \in [Tasks -> Entries]

(* task.h:202 "Minimum delay before the task will run again": a task that was *)
(* suspended by E_REENTER_DELAY(d) runs again no earlier than d ticks after   *)
(* its last run, also when the tick counter wrapped in between.               *)
NeverEarly ==
  [][\A t \in Tasks : (lastRun'[t] # lastRun[t] \/ place'[t] # place[t])
                         => age[t] >= delay[t]]_vars

(* A due task is never passed over: each round of the list runs it.           *)
NotPassedOver == \A t \in Tasks : turns[t] = 0

(* A task goes on without the condition it waits for only after more than     *)
(* Timeout ticks, and waits no longer than the timeout, its delay and one     *)
(* round of the list.                                                         *)
TimeoutNotEarly ==
  [][\A t \in Tasks :
       place[t] \in {"delayed", "cond"} /\ place'[t] \in {"wait", "yielded"} =>
         cond \/ (place[t] = "cond" /\ waited[t] > Timeout)]_vars
TimeoutNotLate ==
  \A t \in Tasks : place[t] = "cond" => waited[t] <= Timeout + delay[t] + Round

(* Whatever the condition does, a task leaves the wait with a timeout; and    *)
(* every task gets to its end if the condition comes to hold for good.        *)
TasksFinish ==
  \A t \in Tasks : /\ place[t] = "cond" ~> place[t] # "cond"
                   /\ <>[]cond => <>(place[t] = "last")
=============================================================================
