-------------------------- MODULE Scheduler_proofs --------------------------
(***************************************************************************)
(* Theorems about the scheduler, for every list of tasks, every delay and  *)
(* every width of the tick.  The comparisons of runTask and isTimeout are  *)
(* differences modulo TickModulus: the invariant says that each of them is *)
(* the number of ticks that really went by, which needs a bound on what    *)
(* one round of the list takes, and the assumption that a delay, a timeout *)
(* and such a round together are shorter than the period of the tick.      *)
(***************************************************************************)
EXTENDS Scheduler, TLAPS

N == Len(TaskList)

(* Calls of runTask that have sampled the tick since task i had its turn.    *)
Calls(i) == (IF current > i \/ (current = i /\ pc = "next")
             THEN current - i ELSE current - i + N)
            - (IF pc = "sample" THEN 1 ELSE 0)

Typed ==
  /\ TypeOK
  /\ cond \in BOOLEAN
  /\ age \in [Tasks -> Nat] /\ waited \in [Tasks -> Nat] /\ turns \in [Tasks -> Nat]

(* The differences of the tick are the time that went by.                    *)
ClockedAt(t) == lag <= age[t] /\ age[t] < TickModulus /\ Minus(tick, lastRun[t]) = age[t]
Clocked == Minus(tick, sampled) = lag /\ \A t \in Tasks : ClockedAt(t)

(* What task i has waited beyond its delay is due to the calls since.        *)
InRound == \A i \in DOMAIN TaskList :
             age[TaskList[i]] <= delay[TaskList[i]] + lag + MaxLag * Calls(i)

IInv == Typed /\ Clocked /\ InRound /\ NotPassedOver

-----------------------------------------------------------------------------
(* Arithmetic.                                                               *)

LEMMA Wrap ==
  ASSUME NEW M \in Nat \ {0}, NEW x \in 0 .. M - 1
  PROVE  (x + 1) % M = (IF x = M - 1 THEN 0 ELSE x + 1)
<1>1. M % M = 0
  OBVIOUS
<1>2. x + 1 < M => (x + 1) % M = x + 1
  OBVIOUS
<1> QED
  BY <1>1, <1>2

LEMMA Product == ASSUME NEW m \in Nat, NEW k \in Nat
                 PROVE  m * k \in Nat /\ m * (k + 1) = m * k + m
OBVIOUS

LEMMA ProductMonotone == ASSUME NEW m \in Nat, NEW k \in Nat, NEW j \in 0 .. k
                         PROVE  m * j <= m * k
OBVIOUS

LEMMA Constants ==
  /\ N \in Nat \ {0} /\ DOMAIN TaskList = 1 .. N
  /\ \A i \in 1 .. N : TaskList[i] \in Tasks
  /\ \A t \in Tasks : \E i \in 1 .. N : t = TaskList[i]
  /\ TickModulus \in Nat \ {0} /\ MaxLag \in Nat /\ Timeout \in Nat
  /\ Round \in Nat /\ Round = MaxLag * N + MaxLag
  /\ \A d \in Delays : d \in Nat /\ Timeout + d + Round < TickModulus
  /\ WaitDelay \in [Tasks -> Delays] /\ ClassOf \in [Tasks -> Classes] /\ 0 \in Delays
<1>1. N \in Nat \ {0} /\ DOMAIN TaskList = 1 .. N
  BY SchedulerAssumption DEF N
<1>2. MaxLag \in Nat /\ Timeout \in Nat /\ TickModulus \in Nat /\ 0 \in Delays
      /\ WaitDelay \in [Tasks -> Delays] /\ ClassOf \in [Tasks -> Classes]
      /\ \A d \in Delays : d \in Nat /\ Timeout + d + Round < TickModulus
  BY SchedulerAssumption
<1>3. Round = (N + 1) * MaxLag
  BY DEF Round, N
<1>4. MaxLag * N \in Nat /\ MaxLag * (N + 1) = MaxLag * N + MaxLag
  BY <1>1, <1>2, Product
<1>5. (N + 1) * MaxLag = MaxLag * (N + 1)
  BY <1>1, <1>2
<1>6. Round \in Nat /\ Round = MaxLag * N + MaxLag
  BY <1>2, <1>3, <1>4, <1>5
<1>7. TickModulus # 0
  BY <1>2, <1>6
<1>8. /\ \A i \in 1 .. N : TaskList[i] \in Tasks
      /\ \A t \in Tasks : \E i \in 1 .. N : t = TaskList[i]
  BY <1>1 DEF Tasks
<1> QED
  BY <1>1, <1>2, <1>6, <1>7, <1>8

LEMMA Sizes == /\ N \in Nat \ {0} /\ MaxLag \in Nat /\ TickModulus \in Nat \ {0}
               /\ MaxLag * N \in Nat /\ Timeout \in Nat /\ Round = MaxLag * N + MaxLag
BY Constants, Product

(* Minus of two readings of the tick, and after one tick more.               *)
LEMMA MinusTicks ==
  ASSUME NEW a \in 0 .. TickModulus - 1, NEW b \in 0 .. TickModulus - 1
  PROVE  /\ Minus(a, b) \in 0 .. TickModulus - 1
         /\ Minus(a, a) = 0
         /\ Minus(a, b) + 1 < TickModulus =>
              Minus((a + 1) % TickModulus, b) = Minus(a, b) + 1
<1>1. TickModulus \in Nat \ {0}
  BY Constants
<1>2. (a + 1) % TickModulus = (IF a = TickModulus - 1 THEN 0 ELSE a + 1)
  BY <1>1, Wrap
<1> QED
  BY <1>1, <1>2 DEF Minus

(* The time between two readings is the difference of their ages.            *)
LEMMA MinusBetween ==
  ASSUME NEW a \in 0 .. TickModulus - 1, NEW b \in 0 .. TickModulus - 1,
         NEW c \in 0 .. TickModulus - 1, Minus(a, b) <= Minus(a, c)
  PROVE  Minus(b, c) = Minus(a, c) - Minus(a, b)
BY Constants DEF Minus

-----------------------------------------------------------------------------
(* How long a task can have waited.                                          *)

LEMMA CallsRange ==
  ASSUME TypeOK, NEW i \in 1 .. N
  PROVE  Calls(i) \in 0 .. N
<1>1. N \in Nat \ {0} /\ current \in 1 .. N
  BY Constants DEF TypeOK
<1> QED
  BY <1>1 DEF Calls

(* Every delay is a number, and so is every reading of the tick.             *)
LEMMA Numbers ==
  ASSUME Typed, NEW t \in Tasks
  PROVE  /\ age[t] \in Nat /\ waited[t] \in Nat /\ turns[t] \in Nat /\ lag \in 0 .. MaxLag
         /\ delay[t] \in Delays /\ delay[t] \in Nat
         /\ Timeout + delay[t] + Round < TickModulus
         /\ tick \in 0 .. TickModulus - 1 /\ sampled \in 0 .. TickModulus - 1
         /\ lastRun[t] \in 0 .. TickModulus - 1 /\ timeoutStart[t] \in 0 .. TickModulus - 1
BY Constants DEF Typed, TypeOK

LEMMA CallsTime ==
  ASSUME TypeOK, NEW i \in 1 .. N
  PROVE  MaxLag * Calls(i) \in Nat /\ MaxLag * Calls(i) <= MaxLag * N
<1> DEFINE k == Calls(i)
<1>1. k \in 0 .. N /\ MaxLag \in Nat /\ N \in Nat
  BY CallsRange, Sizes
<1> HIDE DEF k
<1>2. k \in Nat
  BY <1>1
<1>3. MaxLag * k \in Nat
  BY <1>1, <1>2, Product
<1>4. MaxLag * k <= MaxLag * N
  BY <1>1, ProductMonotone
<1> QED
  BY <1>3, <1>4 DEF k

LEMMA AgeBound ==
  ASSUME Typed, InRound, NEW t \in Tasks
  PROVE  age[t] <= delay[t] + lag + MaxLag * N /\ age[t] <= delay[t] + Round
<1>1. PICK i \in 1 .. N : t = TaskList[i]
  BY Constants
<1>2. age[t] <= delay[t] + lag + MaxLag * Calls(i)
  BY <1>1, Constants DEF InRound
<1>3. MaxLag * Calls(i) <= MaxLag * N /\ MaxLag * Calls(i) \in Nat
  BY CallsTime DEF Typed
<1>4. lag \in 0 .. MaxLag /\ age[t] \in Nat /\ delay[t] \in Nat
  BY Numbers
<1>5. MaxLag * N \in Nat /\ Round = MaxLag * N + MaxLag /\ MaxLag \in Nat
  BY Sizes
<1> HIDE DEF N, Round
<1> QED
  BY <1>2, <1>3, <1>4, <1>5

(* runTask compares the time that went by until it sampled the tick.         *)
LEMMA SampledAge ==
  ASSUME Typed, Clocked, NEW t \in Tasks
  PROVE  Minus(sampled, lastRun[t]) = age[t] - lag
<1>1. Minus(tick, sampled) = lag /\ Minus(tick, lastRun[t]) = age[t] /\ lag <= age[t]
  BY DEF Clocked, ClockedAt
<1> QED
  BY <1>1, Numbers, MinusBetween

LEMMA DueMeans ==
  ASSUME Typed, Clocked, NEW t \in Tasks
  PROVE  IsDue(t) <=> age[t] - lag >= delay[t]
<1>1. Minus(sampled, lastRun[t]) = age[t] - lag
  BY SampledAge
<1>2. lag <= age[t] /\ age[t] \in Nat /\ lag \in Nat /\ delay[t] \in Nat
  BY Numbers, Sizes DEF Clocked, ClockedAt
<1> QED
  BY <1>1, <1>2 DEF IsDue

LEMMA CurrentIsTask == ASSUME TypeOK PROVE Current \in Tasks
BY Constants DEF TypeOK, Current

-----------------------------------------------------------------------------
(* The steps.                                                                *)

LEMMA InitIInv == ASSUME Init PROVE IInv
<1>1. Typed
  <2>1. 0 \in 0 .. TickModulus - 1 /\ TickModulus - 1 \in 0 .. TickModulus - 1
        /\ 0 \in 0 .. MaxLag /\ 1 \in 1 .. N
    BY Sizes
  <2>2. current \in DOMAIN TaskList
    BY <2>1, Constants DEF Init
  <2>3. timeoutStart \in [Tasks -> 0 .. TickModulus - 1]
    BY <2>1 DEF Init
  <2> QED
    BY <2>1, <2>2, <2>3 DEF Init, Typed, TypeOK, Entries
<1>2. Clocked
  BY Constants DEF Init, Clocked, ClockedAt, Minus
<1>3. InRound
  <2> SUFFICES ASSUME NEW i \in 1 .. N
               PROVE  age[TaskList[i]] <= delay[TaskList[i]] + lag + MaxLag * Calls(i)
    BY Constants DEF InRound
  <2>2. MaxLag * Calls(i) \in Nat
    BY <1>1, CallsTime DEF Typed
  <2>3. TaskList[i] \in Tasks
    BY Constants
  <2>4. delay[TaskList[i]] \in Nat /\ age[TaskList[i]] = 0 /\ lag = 0
    BY <1>1, <2>3, Numbers DEF Init
  <2> QED
    BY <2>2, <2>4
<1>4. NotPassedOver
  BY DEF Init, NotPassedOver
<1> QED
  BY <1>1, <1>2, <1>3, <1>4 DEF IInv

LEMMA TickStep == ASSUME IInv, Tick PROVE IInv'
<1> USE DEF IInv
<1>1. Typed'
  <2>1. tick \in 0 .. TickModulus - 1 /\ lag \in 0 .. MaxLag
    BY DEF Typed, TypeOK
  <2>2. tick' \in 0 .. TickModulus - 1
    BY <2>1, Wrap, Constants DEF Tick
  <2>3. lag' \in 0 .. MaxLag
    BY <2>1, Constants DEF Tick
  <2>4. age' \in [Tasks -> Nat] /\ waited' \in [Tasks -> Nat]
    BY DEF Tick, Typed
  <2> QED
    BY <2>2, <2>3, <2>4 DEF Tick, Typed, TypeOK
<1>2. ASSUME NEW t \in Tasks
      PROVE  age[t] + 1 < TickModulus /\ age'[t] = age[t] + 1
  <2>1. age[t] <= delay[t] + lag + MaxLag * N
    BY AgeBound
  <2>2. age[t] \in Nat /\ delay[t] \in Nat /\ Timeout + delay[t] + Round < TickModulus
    BY Numbers
  <2>3. lag + 1 <= MaxLag /\ lag \in Nat
    BY Sizes DEF Tick, Typed, TypeOK
  <2>4. age[t] + 1 < TickModulus
    BY <2>1, <2>2, <2>3, Sizes
  <2>5. age'[t] = age[t] + 1
    BY <2>2, <2>4, Sizes DEF Tick
  <2> QED
    BY <2>4, <2>5
<1>3. Clocked'
  <2>1. tick' = (tick + 1) % TickModulus /\ lag' = lag + 1 /\ sampled' = sampled
        /\ lastRun' = lastRun
    BY DEF Tick
  <2>2. Minus(tick', sampled) = lag'
    <3>1. Minus(tick, sampled) = lag
      BY DEF Clocked
    <3>2. PICK t \in Tasks : TRUE
      BY Constants
    <3>3. lag + 1 < TickModulus
      <4>1. age[t] + 1 < TickModulus /\ lag <= age[t]
        BY <1>2 DEF Clocked, ClockedAt
      <4>2. lag \in Nat /\ age[t] \in Nat
        BY Numbers, Sizes
      <4> QED
        BY <4>1, <4>2, Sizes
    <3>4. tick \in 0 .. TickModulus - 1 /\ sampled \in 0 .. TickModulus - 1
      BY <3>2, Numbers
    <3> QED
      BY <2>1, <3>1, <3>3, <3>4, MinusTicks
  <2>3. ASSUME NEW t \in Tasks
        PROVE  lag' <= age'[t] /\ age'[t] < TickModulus /\ Minus(tick', lastRun[t]) = age'[t]
    <3>1. tick \in 0 .. TickModulus - 1 /\ lastRun[t] \in 0 .. TickModulus - 1
          /\ age[t] \in Nat /\ lag \in Nat
      BY Numbers, Constants
    <3>2. lag <= age[t] /\ Minus(tick, lastRun[t]) = age[t]
      BY DEF Clocked, ClockedAt
    <3>3. age[t] + 1 < TickModulus /\ age'[t] = age[t] + 1
      BY <1>2
    <3>4. Minus(tick', lastRun[t]) = age[t] + 1
      BY <2>1, <3>1, <3>2, <3>3, MinusTicks
    <3> QED
      BY <2>1, <3>1, <3>2, <3>3, <3>4
  <2> QED
    BY <2>1, <2>2, <2>3 DEF Clocked, ClockedAt, Minus
<1>4. InRound'
  <2> SUFFICES ASSUME NEW i \in 1 .. N
               PROVE  (age[TaskList[i]] <= delay[TaskList[i]] + lag + MaxLag * Calls(i))'
    BY Constants DEF InRound
  <2>1. Calls(i)' = Calls(i) /\ delay' = delay /\ lag' = lag + 1
    BY DEF Tick, Calls
  <2>2. TaskList[i] \in Tasks
    BY Constants
  <2>3. age'[TaskList[i]] = age[TaskList[i]] + 1
    BY <1>2, <2>2
  <2>4. age[TaskList[i]] <= delay[TaskList[i]] + lag + MaxLag * Calls(i)
    BY Constants DEF InRound
  <2>5. MaxLag * Calls(i) \in Nat
    BY CallsTime DEF Typed
  <2>6. age[TaskList[i]] \in Nat /\ delay[TaskList[i]] \in Nat /\ lag \in Nat
    BY <2>2, Numbers, Constants
  <2> QED
    BY <2>1, <2>3, <2>4, <2>5, <2>6
<1>5. NotPassedOver'
  BY DEF Tick, NotPassedOver
<1> QED
  BY <1>1, <1>3, <1>4, <1>5

LEMMA SampleStep == ASSUME IInv, Sample PROVE IInv'
<1> USE DEF IInv
<1>1. Typed'
  BY Sizes DEF Sample, Typed, TypeOK
<1>2. Clocked'
  <2>1. Minus(tick, tick) = 0
    BY MinusTicks DEF Typed, TypeOK
  <2>2. ASSUME NEW t \in Tasks
        PROVE  0 <= age[t] /\ age[t] < TickModulus /\ Minus(tick, lastRun[t]) = age[t]
    BY Numbers DEF Clocked, ClockedAt
  <2> QED
    BY <2>1, <2>2 DEF Sample, Clocked, ClockedAt, Minus
<1>3. InRound'
  <2> SUFFICES ASSUME NEW i \in 1 .. N
               PROVE  (age[TaskList[i]] <= delay[TaskList[i]] + lag + MaxLag * Calls(i))'
    BY Constants DEF InRound
  <2> DEFINE k == Calls(i)
  <2>1. k' = k + 1 /\ k \in Nat
    <3>1. k \in Nat
      BY CallsRange, Sizes DEF Typed
    <3>2. current \in 1 .. N /\ N \in Nat
      BY Sizes, Constants DEF Typed, TypeOK
    <3> QED
      BY <3>1, <3>2 DEF Sample, Calls
  <2>2. age[TaskList[i]] <= delay[TaskList[i]] + lag + MaxLag * k
    BY Constants DEF InRound
  <2>3. TaskList[i] \in Tasks
    BY Constants
  <2>4. age[TaskList[i]] \in Nat /\ delay[TaskList[i]] \in Nat /\ lag \in 0 .. MaxLag
    BY <2>3, Numbers
  <2>5. age' = age /\ delay' = delay /\ lag' = 0
    BY DEF Sample
  <2> HIDE DEF k
  <2>6. MaxLag * (k + 1) = MaxLag * k + MaxLag /\ MaxLag * k \in Nat
    BY <2>1, Sizes, Product
  <2>7. age[TaskList[i]] <= delay[TaskList[i]] + 0 + MaxLag * (k + 1)
    BY <2>2, <2>4, <2>6, Sizes
  <2> QED
    BY <2>1, <2>5, <2>7 DEF k
<1>4. NotPassedOver'
  BY DEF Sample, NotPassedOver
<1> QED
  BY <1>1, <1>2, <1>3, <1>4

LEMMA SkipStep == ASSUME IInv, SkipTask PROVE IInv'
<1> USE DEF IInv
<1>1. Current \in Tasks
  BY CurrentIsTask DEF Typed
<1>2. ~(age[Current] - lag >= delay[Current])
  BY <1>1, DueMeans DEF SkipTask
<1>3. turns' = turns
  BY <1>1, <1>2 DEF SkipTask, Typed
<1>4. Typed'
  BY <1>3 DEF SkipTask, Typed, TypeOK
<1>5. Clocked'
  BY DEF SkipTask, Clocked, ClockedAt, Minus
<1>6. InRound'
  <2> SUFFICES ASSUME NEW i \in 1 .. N
               PROVE  (age[TaskList[i]] <= delay[TaskList[i]] + lag + MaxLag * Calls(i))'
    BY Constants DEF InRound
  <2>1. age' = age /\ delay' = delay /\ lag' = lag
    BY DEF SkipTask
  <2>2. CASE i = current
    <3>1. age[TaskList[i]] < delay[TaskList[i]] + lag
      BY <1>1, <1>2, <2>2, Numbers DEF Current
    <3>2. MaxLag * Calls(i)' \in Nat
      <4>1. TypeOK'
        BY <1>4 DEF Typed
      <4>2. Calls(i)' = 0
        BY <2>2, Sizes DEF SkipTask, Calls, Typed, TypeOK
      <4> QED
        BY <4>2, Sizes
    <3>3. age[TaskList[i]] \in Nat /\ delay[TaskList[i]] \in Nat /\ lag \in Nat
      BY <1>1, <2>2, Numbers, Sizes DEF Current
    <3> QED
      BY <2>1, <3>1, <3>2, <3>3
  <2>3. CASE i # current
    <3>1. Calls(i)' = Calls(i)
      BY <2>3 DEF SkipTask, Calls
    <3> QED
      BY <2>1, <3>1, Constants DEF InRound
  <2> QED
    BY <2>2, <2>3
<1>7. NotPassedOver'
  BY <1>3 DEF NotPassedOver
<1> QED
  BY <1>4, <1>5, <1>6, <1>7

(* The tasks pass their turn to one another in the order of the list.        *)
LEMMA NextStep == ASSUME IInv, NextTask PROVE IInv'
<1> USE DEF IInv
<1>1. current \in 1 .. N /\ current' \in 1 .. N /\ current' = Following
  <2>1. current \in 1 .. N /\ current' = (IF current = N THEN 1 ELSE current + 1)
        /\ current' = Following
    BY Constants DEF NextTask, Following, Typed, TypeOK, N
  <2> QED
    BY <2>1, Sizes
<1>2. Typed'
  BY <1>1, Constants DEF NextTask, Typed, TypeOK
<1>3. Clocked'
  BY DEF NextTask, Clocked, ClockedAt, Minus
<1>4. InRound'
  <2>1. ASSUME NEW i \in 1 .. N PROVE Calls(i)' = Calls(i)
    BY <1>1, Sizes DEF NextTask, Following, Calls, N
  <2> QED
    BY <2>1, Constants DEF NextTask, InRound
<1>5. NotPassedOver'
  BY DEF NextTask, NotPassedOver
<1> QED
  BY <1>2, <1>3, <1>4, <1>5

-----------------------------------------------------------------------------
(* A task that runs.                                                         *)

(* Whatever the body does, it changes the task that runs and no other.       *)
LEMMA RunFrame ==
  ASSUME TypeOK, Run
  PROVE  /\ StartTask
         /\ TypeOK'
         /\ waited \in [Tasks -> Nat] => waited' \in [Tasks -> Nat]
         /\ \A t \in Tasks : t # Current =>
              /\ delay'[t] = delay[t] /\ place'[t] = place[t]
              /\ timeoutStart'[t] = timeoutStart[t] /\ timeoutOn'[t] = timeoutOn[t]
              /\ waited'[t] = waited[t]
<1>1. Current \in Tasks /\ ClassOf[Current] \in Classes
  BY CurrentIsTask, Constants
<1>2. WaitDelay[Current] \in Delays
  BY <1>1, Constants
<1>3. sampled \in 0 .. TickModulus - 1 /\ lag \in Nat
  BY Sizes DEF TypeOK
<1>4. CASE RunToDelay
  BY <1>1, <1>4 DEF RunToDelay, StartTask, SetDelay, Suspend, TypeOK, Entries
<1>5. CASE RunToCondition
  <2>1. TimeoutStarted \in 0 .. TickModulus - 1
    BY <1>1 DEF TimeoutStarted, TypeOK
  <2>2. CASE IsTimeout(TimeoutStarted) \/ cond
    BY <1>1, <1>2, <1>3, <1>5, <2>1, <2>2
       DEF RunToCondition, PassCondition, ReachWait, StartTask, SetDelay, Suspend, TypeOK, Entries
  <2>3. CASE ~(IsTimeout(TimeoutStarted) \/ cond)
    <3>1. /\ StartTask
          /\ timeoutStart' = [timeoutStart EXCEPT ![Current] = TimeoutStarted]
          /\ waited' = [waited EXCEPT ![Current] = lag]
          /\ timeoutOn' = [timeoutOn EXCEPT ![Current] = TRUE]
          /\ delay' = [delay EXCEPT ![Current] = WaitDelay[Current]]
          /\ entrypoint' = [entrypoint EXCEPT ![ClassOf[Current]] = "cond"]
          /\ place' = [place EXCEPT ![Current] = "cond"]
      BY <1>5, <2>3 DEF RunToCondition, SetDelay, Suspend
    <3>2. TypeOK'
      BY <1>1, <1>2, <1>3, <2>1, <3>1 DEF StartTask, TypeOK, Entries
    <3> QED
      BY <1>3, <3>1, <3>2 DEF TypeOK
  <2> QED
    BY <2>2, <2>3
<1>6. CASE RunAtCondition
  <2>1. CASE IsTimeout(timeoutStart[Current]) \/ cond
    <3>1. /\ StartTask
          /\ timeoutStart' = timeoutStart
          /\ waited' = [waited EXCEPT ![Current] = 0]
          /\ timeoutOn' = [timeoutOn EXCEPT ![Current] = FALSE]
          /\ delay' = [delay EXCEPT ![Current] = WaitDelay[Current]]
          /\ \E e \in Entries : /\ entrypoint' = [entrypoint EXCEPT ![ClassOf[Current]] = e]
                              /\ place' = [place EXCEPT ![Current] = e]
      BY <1>6, <2>1 DEF RunAtCondition, PassCondition, ReachWait, SetDelay, Suspend, Entries
    <3>2. TypeOK'
      BY <1>1, <1>2, <1>3, <3>1 DEF StartTask, TypeOK
    <3> QED
      BY <1>3, <3>1, <3>2 DEF TypeOK
  <2>2. CASE ~(IsTimeout(timeoutStart[Current]) \/ cond)
    <3>1. /\ StartTask
          /\ UNCHANGED <<timeoutStart, timeoutOn, delay, entrypoint, place, waited>>
      BY <1>6, <2>2 DEF RunAtCondition
    <3>2. TypeOK'
      BY <1>1, <1>3, <3>1 DEF StartTask, TypeOK
    <3> QED
      BY <3>1, <3>2
  <2> QED
    BY <2>1, <2>2
<1>7. CASE RunAtWait
  BY <1>1, <1>3, <1>7 DEF RunAtWait, StartTask, Suspend, TypeOK, Entries
<1>8. CASE RunToEnd
  BY <1>1, <1>3, <1>8 DEF RunToEnd, StartTask, Suspend, TypeOK, Entries
<1>9. CASE RunEnded
  BY <1>1, <1>3, <1>9 DEF RunEnded, StartTask, TypeOK, Entries
<1> QED
  BY <1>4, <1>5, <1>6, <1>7, <1>8, <1>9 DEF Run

LEMMA RunStep == ASSUME IInv, Run PROVE IInv'
<1> USE DEF IInv
<1>1. Current \in Tasks
  BY CurrentIsTask DEF Typed
<1>2. /\ StartTask /\ TypeOK' /\ waited' \in [Tasks -> Nat]
      /\ \A t \in Tasks : t # Current => delay'[t] = delay[t]
  BY RunFrame DEF Typed
<1>3. /\ lag' = lag /\ tick' = tick /\ sampled' = sampled /\ current' = current
      /\ cond' = cond /\ pc = "run" /\ pc' = "next"
      /\ lastRun' = [lastRun EXCEPT ![Current] = sampled]
      /\ age' = [age EXCEPT ![Current] = lag]
      /\ turns' = [turns EXCEPT ![Current] = 0]
  BY <1>2 DEF StartTask
<1>4. Typed'
  BY <1>2, <1>3, Sizes DEF Typed, TypeOK
<1>5. Clocked'
  <2>1. Minus(tick, sampled) = lag /\ lag \in Nat
    BY Sizes DEF Clocked, Typed, TypeOK
  <2>2. lag < TickModulus
    BY <1>1, Numbers, Sizes DEF Clocked, ClockedAt
  <2>3. ASSUME NEW t \in Tasks
        PROVE  lag <= age'[t] /\ age'[t] < TickModulus /\ Minus(tick, lastRun'[t]) = age'[t]
    <3>1. CASE t = Current
      BY <1>3, <2>1, <2>2, <3>1 DEF Typed, TypeOK
    <3>2. CASE t # Current
      BY <1>3, <3>2 DEF Clocked, ClockedAt, Typed, TypeOK
    <3> QED
      BY <3>1, <3>2
  <2> QED
    BY <1>3, <2>1, <2>3 DEF Clocked, ClockedAt, Minus
<1>6. InRound'
  <2> SUFFICES ASSUME NEW i \in 1 .. N
               PROVE  (age[TaskList[i]] <= delay[TaskList[i]] + lag + MaxLag * Calls(i))'
    BY Constants DEF InRound
  <2>1. TaskList[i] \in Tasks
    BY Constants
  <2>2. CASE TaskList[i] = Current
    <3>1. age'[TaskList[i]] = lag
      BY <1>3, <2>1, <2>2 DEF Typed
    <3>2. MaxLag * Calls(i)' \in Nat
      <4>1. CASE i = current
        <5>1. Calls(i)' = 0
          BY <1>3, <4>1, Sizes DEF Calls, Typed, TypeOK
        <5> QED
          BY <5>1, Sizes
      <4>2. CASE i # current
        <5>1. Calls(i)' = Calls(i)
          BY <1>3, <4>2 DEF Calls
        <5>2. MaxLag * Calls(i) \in Nat
          BY CallsTime DEF Typed
        <5> QED
          BY <5>1, <5>2
      <4> QED
        BY <4>1, <4>2
    <3>3. delay'[TaskList[i]] \in Nat /\ lag \in Nat
      BY <1>4, <2>1, Constants, Sizes DEF Typed, TypeOK
    <3> QED
      BY <1>3, <3>1, <3>2, <3>3
  <2>3. CASE TaskList[i] # Current
    <3>1. age'[TaskList[i]] = age[TaskList[i]] /\ delay'[TaskList[i]] = delay[TaskList[i]]
      BY <1>2, <1>3, <2>1, <2>3 DEF Typed
    <3>2. i # current
      BY <2>3 DEF Current
    <3>3. Calls(i)' = Calls(i)
      BY <1>3, <3>2 DEF Calls
    <3> QED
      BY <1>3, <3>1, <3>3, Constants DEF InRound
  <2> QED
    BY <2>2, <2>3
<1>7. NotPassedOver'
  BY <1>1, <1>3 DEF NotPassedOver, Typed
<1> QED
  BY <1>4, <1>5, <1>6, <1>7

LEMMA IInvStep == ASSUME IInv, [Next]_vars PROVE IInv'
<1>1. CASE Tick
  BY <1>1, TickStep
<1>2. CASE Toggle
  BY <1>2, Constants DEF Toggle, IInv, Typed, TypeOK, Clocked, ClockedAt, InRound,
                         NotPassedOver, Minus, Calls
<1>3. CASE Sample
  BY <1>3, SampleStep
<1>4. CASE SkipTask
  BY <1>4, SkipStep
<1>5. CASE Run
  BY <1>5, RunStep
<1>6. CASE NextTask
  BY <1>6, NextStep
<1>7. CASE UNCHANGED vars
  BY <1>7 DEF vars, IInv, Typed, TypeOK, Clocked, ClockedAt, InRound,
              NotPassedOver, Minus, Calls
<1> QED
  BY <1>1, <1>2, <1>3, <1>4, <1>5, <1>6, <1>7 DEF Next, RunTask

LEMMA Invariance == Spec => []IInv
BY InitIInv, IInvStep, PTL DEF Spec

(* Every variable of the scheduler and of its tasks keeps its type.           *)
THEOREM SchedulerTypeOK == Spec => []TypeOK
<1>1. IInv => TypeOK
  BY DEF IInv, Typed
<1> QED
  BY <1>1, Invariance, PTL

(* A task whose delay is over is run at its turn, also when the tick wrapped. *)
THEOREM DueTasksRun == Spec => []NotPassedOver
<1>1. IInv => NotPassedOver
  BY DEF IInv
<1> QED
  BY <1>1, Invariance, PTL

(* A task runs no earlier than its delay allows, also when the tick wrapped.  *)
THEOREM DelaysKept == Spec => NeverEarly
<1>1. ASSUME IInv, [Next]_vars,
             NEW t \in Tasks, lastRun'[t] # lastRun[t] \/ place'[t] # place[t]
      PROVE  age[t] >= delay[t]
  <2>1. Typed /\ Clocked /\ TypeOK
    BY <1>1 DEF IInv, Typed
  <2>2. CASE Run
    <3>1. StartTask /\ \A u \in Tasks : u # Current => place'[u] = place[u]
      BY <2>1, <2>2, RunFrame
    <3>2. IsDue(Current) /\ lastRun' = [lastRun EXCEPT ![Current] = sampled]
      BY <3>1 DEF StartTask
    <3>3. t = Current
      BY <1>1, <2>1, <3>1, <3>2 DEF TypeOK
    <3>4. age[t] - lag >= delay[t]
      BY <2>1, <3>2, <3>3, DueMeans
    <3> QED
      BY <2>1, <3>4, Numbers, Sizes
  <2>3. CASE ~Run
    <3>1. UNCHANGED <<lastRun, place>>
      BY <1>1, <2>3 DEF Next, RunTask, Tick, Toggle, Sample, SkipTask, NextTask, vars
    <3> QED
      BY <1>1, <3>1
  <2> QED
    BY <2>2, <2>3
<1>2. IInv /\ [Next]_vars =>
        [\A t \in Tasks : (lastRun'[t] # lastRun[t] \/ place'[t] # place[t])
                              => age[t] >= delay[t]]_vars
  BY <1>1
<1> QED
  BY <1>2, Invariance, PTL DEF Spec, NeverEarly

-----------------------------------------------------------------------------
(* The timeouts, when no two tasks share the static entry point of a class.  *)

OneTaskPerClass == \A t, u \in Tasks : ClassOf[t] = ClassOf[u] => t = u

(* A timeout runs only while its task waits; from then on the difference     *)
(* that isTimeout looks at is the time the task has waited.                  *)
TimedAt(t) ==
  /\ place[t] = entrypoint[ClassOf[t]]
  /\ place[t] # "cond" => ~timeoutOn[t]
  /\ place[t] = "cond" => /\ lag <= waited[t] /\ waited[t] <= Timeout + age[t]
                          /\ Minus(tick, timeoutStart[t]) = waited[t]

Timed == \A t \in Tasks : TimedAt(t)

LEMMA WaitBound ==
  ASSUME IInv, Timed, NEW t \in Tasks, place[t] = "cond"
  PROVE  waited[t] <= Timeout + delay[t] + Round /\ waited[t] < TickModulus
<1>1. waited[t] <= Timeout + age[t]
  BY DEF Timed, TimedAt
<1>2. age[t] <= delay[t] + Round
  BY AgeBound DEF IInv
<1>3. /\ age[t] \in Nat /\ waited[t] \in Nat /\ delay[t] \in Nat
      /\ Timeout + delay[t] + Round < TickModulus
  BY Numbers DEF IInv
<1>4. Timeout \in Nat /\ TickModulus \in Nat /\ Round \in Nat
  BY Sizes, Constants
<1> HIDE DEF Round
<1> QED
  BY <1>1, <1>2, <1>3, <1>4

(* isTimeout tells whether the task has waited for longer than the timeout.  *)
LEMMA TimeoutMeans ==
  ASSUME IInv, Timed, NEW t \in Tasks, place[t] = "cond"
  PROVE  IsTimeout(timeoutStart[t]) <=> waited[t] - lag > Timeout
<1>1. Minus(tick, sampled) = lag /\ Minus(tick, timeoutStart[t]) = waited[t] /\ lag <= waited[t]
  BY DEF IInv, Clocked, Timed, TimedAt
<1>2. Minus(sampled, timeoutStart[t]) = waited[t] - lag
  BY <1>1, Numbers, MinusBetween DEF IInv
<1> QED
  BY <1>2 DEF IsTimeout

(* The tick may advance only while the round is not over.                    *)
LEMMA TickBound ==
  ASSUME IInv, Tick, NEW t \in Tasks
  PROVE  age'[t] = age[t] + 1 /\ age[t] + 1 <= delay[t] + Round
<1>1. age[t] <= delay[t] + lag + MaxLag * N
  BY AgeBound DEF IInv
<1>2. age[t] \in Nat /\ delay[t] \in Nat /\ Timeout + delay[t] + Round < TickModulus
  BY Numbers DEF IInv
<1>3. lag + 1 <= MaxLag /\ lag \in Nat
  BY Sizes DEF Tick, IInv, Typed, TypeOK
<1>4. age[t] + 1 <= delay[t] + Round
  BY <1>1, <1>2, <1>3, Sizes
<1>5. age[t] < TickModulus
  <2>1. Timeout \in Nat /\ TickModulus \in Nat /\ Round \in Nat
    BY Sizes, Constants
  <2> HIDE DEF Round
  <2> QED
    BY <1>2, <1>4, <2>1
<1> QED
  BY <1>4, <1>5 DEF Tick

LEMMA TickTimed == ASSUME IInv, Timed, Tick PROVE Timed'
<1> SUFFICES ASSUME NEW t \in Tasks PROVE TimedAt(t)'
  BY DEF Timed
<1>1. /\ place' = place /\ entrypoint' = entrypoint /\ timeoutOn' = timeoutOn
      /\ timeoutStart' = timeoutStart /\ lag' = lag + 1 /\ tick' = (tick + 1) % TickModulus
  BY DEF Tick
<1>2. CASE place[t] = "cond"
  <2>1. /\ lag <= waited[t] /\ waited[t] <= Timeout + age[t]
        /\ Minus(tick, timeoutStart[t]) = waited[t]
    BY <1>2 DEF Timed, TimedAt
  <2>2. age'[t] = age[t] + 1 /\ age[t] + 1 <= delay[t] + Round
    BY TickBound
  <2>3. /\ age[t] \in Nat /\ waited[t] \in Nat /\ delay[t] \in Nat /\ lag \in Nat
        /\ Timeout + delay[t] + Round < TickModulus
        /\ tick \in 0 .. TickModulus - 1 /\ timeoutStart[t] \in 0 .. TickModulus - 1
    BY Numbers, Sizes DEF IInv
  <2>4. waited[t] + 1 < TickModulus
    <3>1. Timeout \in Nat /\ TickModulus \in Nat /\ Round \in Nat
      BY Sizes, Constants
    <3> HIDE DEF Round
    <3> QED
      BY <2>1, <2>2, <2>3, <3>1
  <2>5. waited'[t] = waited[t] + 1
    BY <1>2, <2>3, <2>4, Sizes DEF Tick
  <2>6. Minus(tick', timeoutStart[t]) = waited[t] + 1
    BY <1>1, <2>1, <2>3, <2>4, MinusTicks
  <2>7. waited'[t] <= Timeout + age'[t] /\ lag' <= waited'[t]
    BY <1>1, <2>1, <2>2, <2>3, <2>5, Sizes
  <2> QED
    BY <1>1, <1>2, <2>5, <2>6, <2>7 DEF Timed, TimedAt, Minus
<1>3. CASE place[t] # "cond"
  BY <1>1, <1>3 DEF Timed, TimedAt
<1> QED
  BY <1>2, <1>3

(* Steps that run no task and leave the tick alone.                          *)
LEMMA IdleTimed ==
  ASSUME IInv, Timed, Toggle \/ Sample \/ SkipTask \/ NextTask \/ UNCHANGED vars
  PROVE  Timed'
<1> SUFFICES ASSUME NEW t \in Tasks PROVE TimedAt(t)'
  BY DEF Timed
<1>1. /\ UNCHANGED <<place, entrypoint, timeoutOn, timeoutStart, waited, age, tick>>
      /\ lag' = lag \/ lag' = 0
  BY DEF Toggle, Sample, SkipTask, NextTask, vars
<1>2. waited[t] \in Nat
  BY Numbers DEF IInv
<1> QED
  BY <1>1, <1>2 DEF Timed, TimedAt, Minus

(* A task that runs alone decides about its wait.                            *)
LEMMA RunTimed ==
  ASSUME IInv, Timed, OneTaskPerClass, Run
  PROVE  Timed'
<1> USE DEF IInv
<1>1. Current \in Tasks /\ ClassOf \in [Tasks -> Classes] /\ Typed /\ TypeOK
  BY CurrentIsTask, Constants DEF Typed
<1>2. /\ StartTask
      /\ \A t \in Tasks : t # Current =>
           /\ place'[t] = place[t] /\ timeoutOn'[t] = timeoutOn[t]
           /\ timeoutStart'[t] = timeoutStart[t] /\ waited'[t] = waited[t]
  BY <1>1, RunFrame
<1>3. lag' = lag /\ tick' = tick /\ age' = [age EXCEPT ![Current] = lag]
  BY <1>2 DEF StartTask
<1>4. ASSUME NEW t \in Tasks, t # Current PROVE TimedAt(t)'
  <2>1. ClassOf[t] # ClassOf[Current] /\ ClassOf[t] \in Classes
    BY <1>1, <1>4 DEF OneTaskPerClass
  <2>2. entrypoint'[ClassOf[t]] = entrypoint[ClassOf[t]]
    BY <1>1, <2>1 DEF Run, RunToDelay, RunToCondition, RunAtCondition, RunAtWait, RunToEnd,
                      RunEnded, PassCondition, ReachWait, Suspend, TypeOK
  <2>3. age'[t] = age[t]
    BY <1>1, <1>3, <1>4 DEF Typed
  <2> QED
    BY <1>2, <1>3, <1>4, <2>2, <2>3 DEF Timed, TimedAt, Minus
<1>5. ASSUME NEW t \in Tasks, t = Current PROVE TimedAt(t)'
  <2>1. /\ place[Current] = entrypoint[ClassOf[Current]] /\ lag \in Nat
        /\ place \in [Tasks -> Entries] /\ entrypoint \in [Classes -> Entries]
        /\ ClassOf[Current] \in Classes /\ age'[Current] = lag
        /\ timeoutOn \in [Tasks -> BOOLEAN]
        /\ timeoutStart \in [Tasks -> 0 .. TickModulus - 1] /\ waited \in [Tasks -> Nat]
    BY <1>1, <1>3, Sizes DEF Timed, TimedAt, Typed, TypeOK
  <2>2. ASSUME NEW e, e # "cond", Suspend(e), timeoutOn'[Current] = FALSE
        PROVE  TimedAt(t)'
    BY <1>5, <1>1, <2>1, <2>2 DEF Suspend, TimedAt
  <2>3. place[Current] # "cond" => timeoutOn[Current] = FALSE
    BY <1>1, <2>1 DEF Timed, TimedAt
  <2>4. CASE RunToDelay
    BY <1>1, <2>1, <2>2, <2>3, <2>4 DEF RunToDelay, Entered
  <2>5. CASE RunToCondition
    <3>1. place[Current] = "delayed" /\ timeoutOn[Current] = FALSE
      BY <2>1, <2>3, <2>5 DEF RunToCondition, Entered
    <3>2. CASE IsTimeout(TimeoutStarted) \/ cond
      <4>1. timeoutOn'[Current] = FALSE /\ Suspend(IF cond THEN "yielded" ELSE "wait")
        BY <1>1, <2>1, <2>5, <3>2 DEF RunToCondition, PassCondition, ReachWait
      <4> QED
        BY <2>2, <4>1
    <3>3. CASE ~(IsTimeout(TimeoutStarted) \/ cond)
      <4>1. /\ timeoutStart'[Current] = sampled /\ waited'[Current] = lag
            /\ place'[Current] = "cond" /\ entrypoint'[ClassOf[Current]] = "cond"
        BY <1>1, <2>1, <2>5, <3>1, <3>3 DEF RunToCondition, TimeoutStarted, Suspend
      <4>2. Minus(tick, sampled) = lag
        BY DEF Clocked
      <4> QED
        BY <1>5, <1>3, <2>1, <4>1, <4>2, Sizes DEF TimedAt, Minus
    <3> QED
      BY <3>2, <3>3
  <2>6. CASE RunAtCondition
    <3>1. place[Current] = "cond"
      BY <2>1, <2>6 DEF RunAtCondition, Entered
    <3>2. CASE IsTimeout(timeoutStart[Current]) \/ cond
      <4>1. timeoutOn'[Current] = FALSE /\ Suspend(IF cond THEN "yielded" ELSE "wait")
        BY <1>1, <2>1, <2>6, <3>2 DEF RunAtCondition, PassCondition, ReachWait
      <4> QED
        BY <2>2, <4>1
    <3>3. CASE ~(IsTimeout(timeoutStart[Current]) \/ cond)
      <4>1. UNCHANGED <<timeoutStart, timeoutOn, entrypoint, place, waited>>
        BY <2>6, <3>3 DEF RunAtCondition
      <4>2. ~(waited[Current] - lag > Timeout)
        BY <1>1, <3>1, <3>3, TimeoutMeans
      <4>3. waited[Current] <= Timeout + lag /\ lag <= waited[Current]
            /\ Minus(tick, timeoutStart[Current]) = waited[Current]
        BY <1>1, <2>1, <3>1, <4>2, Sizes DEF Timed, TimedAt
      <4> QED
        BY <1>5, <1>3, <2>1, <3>1, <4>1, <4>3 DEF TimedAt, Minus
    <3> QED
      BY <3>2, <3>3
  <2>7. CASE RunAtWait
    <3>1. place[Current] = "wait" /\ timeoutOn' = timeoutOn
      BY <2>1, <2>7 DEF RunAtWait, Entered
    <3>2. CASE cond
      BY <2>2, <2>3, <2>7, <3>1, <3>2 DEF RunAtWait
    <3>3. CASE ~cond
      BY <1>5, <2>1, <2>3, <2>7, <3>1, <3>3 DEF RunAtWait, TimedAt
    <3> QED
      BY <3>2, <3>3
  <2>8. CASE RunToEnd
    BY <1>1, <2>1, <2>2, <2>3, <2>8 DEF RunToEnd, Entered
  <2>9. CASE RunEnded
    <3>1. place[Current] = "last" /\ UNCHANGED <<timeoutOn, entrypoint, place>>
      BY <2>1, <2>9 DEF RunEnded, Entered
    <3> QED
      BY <1>5, <2>1, <2>3, <3>1 DEF TimedAt
  <2> QED
    BY <2>4, <2>5, <2>6, <2>7, <2>8, <2>9 DEF Run
<1> QED
  BY <1>4, <1>5 DEF Timed

LEMMA TimedInvariance == OneTaskPerClass /\ Spec => [](IInv /\ Timed)
<1>1. Init => Timed
  BY Constants DEF Init, Timed, TimedAt
<1>2. OneTaskPerClass /\ IInv /\ Timed /\ [Next]_vars => Timed'
  BY TickTimed, IdleTimed, RunTimed DEF Next, RunTask
<1>3. ASSUME OneTaskPerClass PROVE Spec => [](IInv /\ Timed)
  <2>1. IInv /\ Timed /\ [Next]_vars => Timed'
    BY <1>2, <1>3
  <2> QED
    BY <1>1, <2>1, Invariance, PTL DEF Spec
<1> QED
  BY <1>3

(* A wait ends with the timeout, one delay and one round after it, at most.   *)
THEOREM WaitsEndInTime == ASSUME OneTaskPerClass PROVE Spec => []TimeoutNotLate
<1>1. IInv /\ Timed => TimeoutNotLate
  BY WaitBound DEF TimeoutNotLate
<1> QED
  BY <1>1, TimedInvariance, PTL

(* A task gives a condition up only when it waited for longer than Timeout.   *)
THEOREM TimeoutsKept == ASSUME OneTaskPerClass PROVE Spec => TimeoutNotEarly
<1> DEFINE A == \A t \in Tasks :
       place[t] \in {"delayed", "cond"} /\ place'[t] \in {"wait", "yielded"} =>
         cond \/ (place[t] = "cond" /\ waited[t] > Timeout)
<1>1. ASSUME IInv, Timed, [Next]_vars, NEW t \in Tasks,
             place[t] \in {"delayed", "cond"}, place'[t] \in {"wait", "yielded"}
      PROVE  cond \/ (place[t] = "cond" /\ waited[t] > Timeout)
  <2>1. Typed /\ TypeOK /\ Clocked /\ ClassOf[t] \in Classes
    BY <1>1, Constants DEF IInv, Typed
  <2>2. Run
    BY <1>1 DEF Next, RunTask, Tick, Toggle, Sample, SkipTask, NextTask, vars
  <2>3. StartTask /\ t = Current
    BY <1>1, <2>1, <2>2, RunFrame
  <2>4. entrypoint[ClassOf[Current]] = place[t] /\ (place[t] # "cond" => ~timeoutOn[t])
    BY <1>1, <2>3 DEF Timed, TimedAt
  <2>5. CASE place[t] = "cond"
    <3>1. RunAtCondition
      BY <2>2, <2>4, <2>5 DEF Run, RunToDelay, RunToCondition, RunAtCondition, RunAtWait,
                              RunToEnd, RunEnded, Entered
    <3>2. IsTimeout(timeoutStart[t]) \/ cond
      BY <1>1, <2>3, <2>5, <3>1 DEF RunAtCondition
    <3>3. IsTimeout(timeoutStart[t]) => waited[t] - lag > Timeout
      BY <1>1, <2>5, TimeoutMeans
    <3> QED
      BY <1>1, <2>1, <2>5, <3>2, <3>3, Numbers, Sizes
  <2>6. CASE place[t] = "delayed"
    <3>1. RunToCondition
      BY <2>2, <2>4, <2>6 DEF Run, RunToDelay, RunToCondition, RunAtCondition, RunAtWait,
                              RunToEnd, RunEnded, Entered
    <3>2. TimeoutStarted = sampled
      BY <2>3, <2>4, <2>6 DEF TimeoutStarted
    <3>3. ~IsTimeout(TimeoutStarted)
      BY <2>1, <3>2, MinusTicks, Sizes DEF IsTimeout, TypeOK
    <3>4. cond
      BY <1>1, <2>1, <2>3, <3>1, <3>3 DEF RunToCondition, Suspend, TypeOK
    <3> QED
      BY <3>4
  <2> QED
    BY <1>1, <2>5, <2>6
<1>2. IInv /\ Timed /\ [Next]_vars => [A]_vars
  BY <1>1
<1> QED
  BY <1>2, TimedInvariance, PTL DEF Spec, TimeoutNotEarly
=============================================================================
