-------------------------- MODULE BlockingCommDevice --------------------------
(***************************************************************************)
(* cicada/commdevices/blockingcommdev.cpp and cicada/mqttcountdown.cpp:    *)
(* reads and writes that wait, given a timeout by the example              *)
(* examples/linux/blocking.cpp or, as what is left of a countdown, by an   *)
(* MQTT client.  While they wait they yield: one task of the scheduler     *)
(* runs, here the driver, of which only the effect on its two buffers and  *)
(* on its connectState is kept.  The tick is the real one, that wraps.     *)
(***************************************************************************)
EXTENDS IPCommDevice

CONSTANTS TickModulus,  \* 2^32: values of an E_TICK_TYPE
          MaxStep,      \* most ticks that pass while the scheduler runs one task
          Timeouts,     \* the timeouts and countdowns that are asked for
          MaxUp, MaxDown,  \* bounds of the bytes written and arriving
          Programs      \* who calls: "blocking" and "mqtt"

ASSUME BlockingAssumption ==
  /\ TickModulus \in Nat /\ MaxStep \in 1 .. TickModulus - 1
  /\ Timeouts \subseteq 0 .. TickModulus - 1
  /\ MaxUp \in Nat /\ MaxDown \in Nat /\ Programs \subseteq {"blocking", "mqtt"}

VARIABLES tick,      \* _tickFunction()
          pc,        \* "app", "round" of a loop in a call, "yield"
          call,      \* the variables of read() or write()
          endTime,   \* _endTime of the MQTTCountdown
          program, place,        \* who calls, and where blocking.cpp is
          elapsed,   \* history: the ticks since the call began, at most TickModulus
          since,     \* history: the ticks since the countdown was set, ditto
          setting,   \* history: when the countdown was set, and for how long
          up, sent, down, got, reset   \* history: bytes written, taken by the driver,
                         \* arrived and read; whether there was a reset

clock == <<tick, elapsed, since>>
countdown == <<endTime, setting>>
vars == <<dev, pc, call, program, place, clock, countdown, up, sent, down, got, reset>>

Plus(a, b) == (a + b) % TickModulus
Minus(a, b) == (a - b) % TickModulus
Count(n) == [k \in 1 .. n |-> k]

(* The buffer of the caller holds what has been read so far.                 *)
NoCall == [op |-> "none", start |-> 0, timeout |-> 0, len |-> 0, buffer |-> <<>>,
           written |-> 0, timed |-> FALSE, began |-> 0]

Init ==
  /\ dev = Connected(NewIPCommDevice)
  /\ tick \in 0 .. TickModulus - 1 /\ pc = "app" /\ call = NoCall
  /\ endTime = tick /\ setting = [at |-> tick, ms |-> 0] /\ elapsed = 0 /\ since = 0
  /\ program \in Programs /\ place = "connecting"
  /\ up = 0 /\ sent = 0 /\ down = 0 /\ got = <<>> /\ reset = FALSE

-----------------------------------------------------------------------------
(* MQTTCountdown.  The difference is taken in 64 bits, of two ticks of 32.   *)

(* Slips: the difference is taken in the width of the tick; it is not limited *)
(* to what is positive.                                                      *)
LeftMsUnsigned(end, now) == Minus(end, now)
LeftMsNegative(end, now) == end - now

LeftMs(end, now) == IF end < now THEN 0 ELSE end - now

(* The MQTT client sets its timer before the calls of one request.           *)
CountdownMs ==
  /\ pc = "app" /\ program = "mqtt" /\ IsConnected(dev)
  /\ \E ms \in Timeouts : endTime' = Plus(tick, ms) /\ setting' = [at |-> tick, ms |-> ms]
  /\ since' = 0
  /\ UNCHANGED <<dev, pc, call, program, place, tick, elapsed, up, sent, down, got, reset>>

-----------------------------------------------------------------------------
(* A read that takes len bytes, a write of len.                              *)

Begin(op, len, timeout, timed) ==
  /\ pc = "app" /\ pc' = "round" /\ elapsed' = 0
  /\ call' = [NoCall EXCEPT !.op = op, !.start = tick, !.timeout = timeout, !.len = len,
                            !.timed = timed, !.began = since]
  /\ UNCHANGED <<dev, program, tick, since, countdown, up, sent, down, got, reset>>

(* Slip: the time of the end is computed first, and compared with the tick.  *)
IsTimeoutAtEnd(c) == tick > c.start + c.timeout

IsTimeout(c) == Minus(tick, c.start) > c.timeout

(* Slip: every read() puts its bytes at the start of the buffer.             *)
FilledAnew(buffer, data) == data

Filled(buffer, data) == buffer \o data

InCall(op) == pc = "round" /\ call.op = op
Yields == pc' = "yield"
Returns(value) ==
  pc' = "app" /\ call' = [NoCall EXCEPT !.buffer = call.buffer, !.written = value,
                                      !.len = call.len]

ReadReturns ==
  /\ InCall("read") /\ (Len(call.buffer) = call.len \/ IsTimeout(call))
  /\ Returns(0) /\ got' = got \o call.buffer
  /\ UNCHANGED <<dev, up>>

Missing(c) == c.len - Len(c.buffer)

ReadRound ==
  /\ InCall("read") /\ Len(call.buffer) < call.len /\ ~IsTimeout(call)
  /\ dev' = AfterRead(dev, Missing(call))
  /\ call' = [call EXCEPT !.buffer = Filled(@, ReadData(dev, Missing(call)))]
  /\ Yields /\ UNCHANGED <<up, got>>

Fits(d, len) == len <= SpaceFor(d)

WaitForSpace ==
  /\ InCall("write") /\ ~Fits(dev, call.len)
  /\ \/ IsTimeout(call) /\ Returns(0)
     \/ ~IsTimeout(call) /\ Yields /\ UNCHANGED call
  /\ UNCHANGED <<dev, up, got>>

Queue ==
  /\ InCall("write") /\ Fits(dev, call.len)
  /\ LET data == [k \in 1 .. call.len |-> up + k]
         queued == Lower(call.len, SpaceFor(dev))
     IN /\ dev' = Written(dev, data) /\ up' = up + queued
        /\ call' = [call EXCEPT !.op = "drain", !.written = queued]
  /\ pc' = pc /\ UNCHANGED got

(* Slip: the connection shows that the data is gone.                         *)
ProcessedIfConnected(d) == IsConnected(d)

Processed(d) == WriteBufferProcessed(d)

Drain ==
  /\ InCall("drain")
  /\ \/ Processed(dev) /\ Returns(call.written)
     \/ ~Processed(dev) /\ IsTimeout(call) /\ Returns(0)
     \/ ~Processed(dev) /\ ~IsTimeout(call) /\ Yields /\ UNCHANGED call
  /\ UNCHANGED <<dev, up, got>>

Round ==
  /\ ReadReturns \/ ReadRound \/ WaitForSpace \/ Queue \/ Drain
  /\ elapsed' = IF pc' = "app" THEN 0 ELSE elapsed
  /\ UNCHANGED <<program, place, tick, since, countdown, sent, down, reset>>

-----------------------------------------------------------------------------
(* The callers.  The MQTT client reads and writes what it likes.             *)

AskYield == pc = "app" /\ Yields
            /\ UNCHANGED <<dev, call, program, clock, countdown, up, sent, down, got, reset>>

Mqtt ==
  /\ program = "mqtt" /\ place' = "mqtt"
  /\ \/ place = "connecting" /\ ~IsConnected(dev) /\ AskYield
     \/ /\ place = "mqtt" \/ IsConnected(dev)
        /\ \E op \in {"read", "write"}, len \in 1 .. WriteBufferSize :
             /\ op = "write" => up + len <= MaxUp
             /\ Begin(op, len, LeftMs(endTime, tick), TRUE)

Blocking ==
  /\ program = "blocking"
  /\ \E timeout \in Timeouts :
     \/ place = "connecting" /\ ~IsConnected(dev) /\ place' = place /\ AskYield
     \/ /\ place = "connecting" /\ IsConnected(dev) /\ place' = "writing"
        /\ Begin("write", Lower(MaxUp, WriteBufferSize), timeout, FALSE)
     \/ /\ place = "writing" \/ (place = "reading" /\ call.buffer # <<>>)
        /\ place' = "reading" /\ Begin("read", ReadBufferSize, timeout, FALSE)
     \/ /\ pc = "app" /\ place = "reading" /\ call.buffer = <<>> /\ place' = "closing"
        /\ dev' = Disconnected(dev)
        /\ UNCHANGED <<pc, call, program, clock, countdown, up, sent, down, got, reset>>
     \/ place = "closing" /\ ~IsIdle(dev) /\ place' = place /\ AskYield
     \/ /\ pc = "app" /\ place = "closing" /\ IsIdle(dev) /\ place' = "done"
        /\ UNCHANGED <<dev, pc, call, program, clock, countdown, up, sent, down, got, reset>>

-----------------------------------------------------------------------------
(* What one run() of a driver can do to its buffers.                         *)

Connects == Has(dev, "CONNECT_PENDING") /\ IsIdle(dev)
            /\ dev' = [Lift(dev, "CONNECT_PENDING") EXCEPT !.connectState = "connected"]
            /\ UNCHANGED <<sent, down, reset>>
Disconnects == Has(dev, "DISCONNECT_PENDING")
               /\ dev' = [Lift(dev, "DISCONNECT_PENDING") EXCEPT !.connectState = "notConnected"]
               /\ UNCHANGED <<sent, down, reset>>
Prepares == IsConnected(dev) /\ dev.writeBuffer # <<>>
            /\ dev' = [dev EXCEPT !.connectState = "transmitting"]
            /\ UNCHANGED <<sent, down, reset>>
Sends == /\ dev.connectState = "transmitting"
         /\ \E n \in 1 .. Len(dev.writeBuffer) :
              dev' = [dev EXCEPT !.writeBuffer = Drop(@, n)] /\ sent' = sent + n
         /\ UNCHANGED <<down, reset>>
Receives == /\ IsConnected(dev) /\ dev.writeBuffer = <<>>
            /\ down < MaxDown /\ Len(dev.readBuffer) < ReadBufferSize
            /\ down' = down + 1
            /\ dev' = [dev EXCEPT !.connectState = "receiving",
                                  !.readBuffer = Append(@, down + 1)]
            /\ UNCHANGED <<sent, reset>>
Rests == /\ IsConnected(dev) /\ dev.writeBuffer = <<>>
         /\ dev' = [dev EXCEPT !.connectState = "connected"]
         /\ UNCHANGED <<sent, down, reset>>
Resets == /\ IsConnected(dev) /\ reset' = TRUE /\ dev' = NewIPCommDevice
          /\ UNCHANGED <<sent, down>>
Nothing == UNCHANGED <<dev, sent, down, reset>>

RunTask ==
  Connects \/ Disconnects \/ Prepares \/ Sends \/ Receives \/ Rests \/ Resets \/ Nothing

Yield(ticks) ==
  /\ pc = "yield" /\ pc' = IF call.op = "none" THEN "app" ELSE "round"
  /\ RunTask
  /\ tick' = Plus(tick, ticks)
  /\ elapsed' = IF pc' = "app" THEN 0 ELSE Lower(elapsed + ticks, TickModulus)
  /\ since' = Lower(since + ticks, TickModulus)
  /\ UNCHANGED <<call, program, place, countdown, up, got>>

Next == \/ CountdownMs \/ Round \/ Mqtt \/ Blocking
        \/ \E ticks \in 0 .. MaxStep : Yield(ticks)
Spec == Init /\ [][Next]_vars

(* The caller goes on, the scheduler returns, and time passes.               *)
FairSpec == /\ Spec /\ WF_vars(Round) /\ WF_vars(\E ticks \in 0 .. MaxStep : Yield(ticks))
            /\ SF_vars(\E ticks \in 1 .. MaxStep : Yield(ticks))

-----------------------------------------------------------------------------
(* The variables of the two classes have the types of the code.              *)
TypeOK ==
  /\ tick \in 0 .. TickModulus - 1 /\ endTime \in 0 .. TickModulus - 1
  /\ pc \in {"app", "round", "yield"} /\ call.op \in {"none", "read", "write", "drain"}
  /\ call.timeout \in 0 .. TickModulus - 1 /\ Len(call.buffer) <= call.len
  /\ Len(dev.readBuffer) <= ReadBufferSize /\ Len(dev.writeBuffer) <= WriteBufferSize
  /\ dev.connectState \in ConnectStates

(* What read() returned over all calls, those that timed out with a part     *)
(* included, is what arrived, in order, until the driver is reset.           *)
StreamIntact ==
  ~reset => got \o (IF call.op = "read" THEN call.buffer ELSE <<>>) \o dev.readBuffer
            = Count(down)

(* write() returns the length it was given only when the driver has taken    *)
(* all that was ever written, unless a reset of the driver threw it away;    *)
(* otherwise it returns 0, though the bytes may be in the buffer.            *)
FullMeansSent ==
  [][call.op \in {"write", "drain"} /\ call'.op = "none" /\ call'.written > 0
       => call'.written = call.len /\ (sent = up \/ reset)]_vars

(* No call outlasts its timeout by more than one task of the scheduler,      *)
(* whatever the tick is when it begins and whatever the device does; a wait  *)
(* as long as the tick has values cannot be seen to end.                     *)
InTime ==
  call.op # "none" /\ call.timeout + MaxStep < TickModulus
    => elapsed <= call.timeout + MaxStep

(* Calls that are given what is left of a countdown end with it, and one     *)
(* that begins later ends with the first tick, as long as the tick has not   *)
(* wrapped since the countdown was set.                                      *)
DeadlineKept ==
  call.op # "none" /\ call.timed /\ setting.at + since < TickModulus
    => since <= (IF call.began > setting.ms THEN call.began ELSE setting.ms) + MaxStep

(* Every call returns, even when the device is never connected again.        *)
CallsReturn ==
  call.op # "none" /\ call.timeout + MaxStep < TickModulus ~> pc = "app"
=============================================================================
