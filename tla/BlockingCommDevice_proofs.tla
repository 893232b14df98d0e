---------------------- MODULE BlockingCommDevice_proofs ----------------------
(***************************************************************************)
(* Theorems about the blocking calls and the MQTT countdown, for every     *)
(* width of the tick, every timeout and every size of the buffers.  The    *)
(* loops compare a difference modulo TickModulus: the invariant says when  *)
(* that is the time the call has taken, and what of the timeout is left.   *)
(***************************************************************************)
EXTENDS BlockingCommDevice, SequenceTheorems, TLAPS

M == TickModulus

Devices ==
  [readBuffer : Seq(Nat), writeBuffer : Seq(Nat), stateBooleans : SUBSET StateBooleans,
   connectState : ConnectStates, waitForReply : {NULL}, type : {"TCP"}]

Shaped(d) ==
  /\ d \in Devices
  /\ Len(d.readBuffer) <= ReadBufferSize /\ Len(d.writeBuffer) <= WriteBufferSize

Calls ==
  [op : {"none", "read", "write", "drain"}, start : 0 .. M - 1, timeout : 0 .. M - 1,
   len : Nat, buffer : Seq(Nat), written : Nat, timed : BOOLEAN, began : 0 .. M]

Typed ==
  /\ Shaped(dev)
  /\ call \in Calls /\ Len(call.buffer) <= call.len
  /\ tick \in 0 .. M - 1 /\ endTime \in 0 .. M - 1
  /\ setting \in [at : 0 .. M - 1, ms : 0 .. M - 1]
  /\ elapsed \in 0 .. M /\ since \in 0 .. M
  /\ pc \in {"app", "round", "yield"}
  /\ up \in Nat /\ sent \in Nat /\ down \in Nat /\ got \in Seq(Nat) /\ reset \in BOOLEAN

(* A loop runs within a call, and the application outside of one.            *)
InStep == (pc = "app" => call.op = "none") /\ (pc = "round" => call.op # "none")

(* StreamIntact, with a name for what has been read and is left to read.     *)
Part == IF call.op = "read" THEN call.buffer ELSE <<>>
Stream == got \o Part \o dev.readBuffer
StreamKept == ~reset => Stream = Count(down)

(* What is queued and what the driver took add up to what was written.       *)
Accounted ==
  /\ ~reset => up = sent + Len(dev.writeBuffer)
  /\ call.op = "drain" => call.written = call.len

(* Since when the countdown runs, as the tick shows it until it wraps.       *)
CountingDown ==
  /\ endTime = Plus(setting.at, setting.ms)
  /\ setting.at + since < M => tick = setting.at + since

(* The time of a call, what its loop sees of it, and what it may still take. *)
InCallTime ==
  call.op # "none" =>
    /\ elapsed < M => /\ Minus(tick, call.start) = elapsed
                      /\ elapsed <= call.timeout + (IF pc = "yield" THEN 0 ELSE MaxStep)
    /\ call.timeout + MaxStep < M => elapsed < M
    /\ since < M => call.began + elapsed = since

(* A call that is given what is left of the countdown may take no more.      *)
Deadline ==
  call.op # "none" /\ call.timed /\ setting.at + call.began < M =>
    call.began + call.timeout <= IF call.began > setting.ms THEN call.began ELSE setting.ms

IInv == /\ Typed /\ InStep /\ StreamKept /\ Accounted
        /\ CountingDown /\ InCallTime /\ Deadline

-----------------------------------------------------------------------------
(* Arithmetic.                                                               *)

LEMMA Constants ==
  /\ M \in Nat \ {0} /\ MaxStep \in 1 .. M - 1 /\ Timeouts \subseteq 0 .. M - 1
  /\ MaxUp \in Nat /\ ReadBufferSize \in Nat \ {0} /\ WriteBufferSize \in Nat \ {0}
BY BlockingAssumption, BufferSizesAssumption DEF M

LEMMA Modulo ==
  ASSUME NEW m \in Nat \ {0}
  PROVE  /\ \A x \in 0 .. m - 1 : x % m = x /\ (x + m) % m = x /\ (x - m) % m = x
         /\ \A x \in Int : x % m \in 0 .. m - 1
<1>1. \A x \in 0 .. m - 1 : x % m = x
  OBVIOUS
<1>2. \A x \in 0 .. m - 1 : (x + m) % m = x
  OBVIOUS
<1>3. \A x \in 0 .. m - 1 : (x - m) % m = x
  OBVIOUS
<1>4. \A x \in Int : x % m \in 0 .. m - 1
  OBVIOUS
<1> QED
  BY <1>1, <1>2, <1>3, <1>4

LEMMA Sums ==
  ASSUME NEW a \in 0 .. M - 1, NEW b \in 0 .. M - 1
  PROVE  /\ Plus(a, b) \in 0 .. M - 1
         /\ Plus(a, b) = (IF a + b < M THEN a + b ELSE a + b - M)
         /\ Minus(a, b) \in 0 .. M - 1
         /\ Minus(a, b) = (IF b <= a THEN a - b ELSE a - b + M)
<1>1. M \in Nat \ {0} /\ TickModulus = M
  BY Constants DEF M
<1> HIDE DEF M
<1>2. Plus(a, b) = (IF a + b < M THEN a + b ELSE a + b - M)
  <2>1. CASE a + b < M
    <3>1. a + b \in 0 .. M - 1
      BY <1>1, <2>1
    <3> QED
      BY <1>1, <2>1, <3>1, Modulo DEF Plus
  <2>2. CASE ~(a + b < M)
    <3> DEFINE x == a + b - M
    <3>1. x \in 0 .. M - 1 /\ a + b = x + M
      BY <1>1, <2>2
    <3> HIDE DEF x
    <3>2. (x + M) % M = x
      BY <1>1, <3>1, Modulo
    <3> QED
      BY <1>1, <2>2, <3>1, <3>2 DEF Plus, x
  <2> QED
    BY <2>1, <2>2
<1>3. Minus(a, b) = (IF b <= a THEN a - b ELSE a - b + M)
  <2>1. CASE b <= a
    <3>1. a - b \in 0 .. M - 1
      BY <1>1, <2>1
    <3> QED
      BY <1>1, <2>1, <3>1, Modulo DEF Minus
  <2>2. CASE ~(b <= a)
    <3> DEFINE x == a - b + M
    <3>1. x \in 0 .. M - 1 /\ a - b = x - M
      BY <1>1, <2>2
    <3> HIDE DEF x
    <3>2. (x - M) % M = x
      BY <1>1, <3>1, Modulo
    <3> QED
      BY <1>1, <2>2, <3>1, <3>2 DEF Minus, x
  <2> QED
    BY <2>1, <2>2
<1> QED
  BY <1>1, <1>2, <1>3

(* A reading of the tick, some ticks later.                                  *)
LEMMA MinusLater ==
  ASSUME NEW a \in 0 .. M - 1, NEW b \in 0 .. M - 1, NEW n \in 0 .. M - 1,
         Minus(a, b) + n < M
  PROVE  Minus(Plus(a, n), b) = Minus(a, b) + n
<1> DEFINE p == Plus(a, n)
<1>1. p \in 0 .. M - 1 /\ p = (IF a + n < M THEN a + n ELSE a + n - M)
  BY Sums
<1>2. Minus(a, b) = (IF b <= a THEN a - b ELSE a - b + M)
  BY Sums
<1> HIDE DEF p
<1>3. Minus(p, b) = (IF b <= p THEN p - b ELSE p - b + M)
  BY <1>1, Sums
<1>4. M \in Nat
  BY Constants
<1> HIDE DEF M
<1>5. Minus(p, b) = Minus(a, b) + n
  BY <1>1, <1>2, <1>3, <1>4
<1> QED
  BY <1>5 DEF p

-----------------------------------------------------------------------------
(* The device.                                                               *)

LEMMA CountGrows ==
  ASSUME NEW n \in Nat
  PROVE  Count(n) \in Seq(Nat) /\ Append(Count(n), n + 1) = Count(n + 1)
<1>1. Count(n) \in Seq(Nat) /\ Len(Count(n)) = n /\ Count(n + 1) \in Seq(Nat)
      /\ Len(Count(n + 1)) = n + 1
  BY DEF Count
<1>2. /\ Append(Count(n), n + 1) \in Seq(Nat) /\ Len(Append(Count(n), n + 1)) = n + 1
      /\ \A k \in 1 .. n + 1 : Append(Count(n), n + 1)[k] = k
  BY <1>1 DEF Count
<1>3. \A k \in 1 .. n + 1 : Count(n + 1)[k] = k
  BY DEF Count
<1> QED
  BY <1>1, <1>2, <1>3, SeqEqual

(* Bytes taken from a buffer and added to what has been read.                *)
LEMMA Regroup ==
  ASSUME NEW g \in Seq(Nat), NEW c \in Seq(Nat), NEW x \in Seq(Nat), NEW y \in Seq(Nat)
  PROVE  g \o (c \o x) \o y = g \o c \o (x \o y)
<1>1. g \o c \in Seq(Nat)
  BY ConcatProperties
<1>2. g \o (c \o x) = g \o c \o x
  BY ConcatAssociative, SMTT(40)
<1>3. g \o c \o x \o y = g \o c \o (x \o y)
  BY <1>1, ConcatAssociative, SMTT(40)
<1> QED
  BY <1>2, <1>3

LEMMA NewDevice ==
  /\ Shaped(NewIPCommDevice)
  /\ NewIPCommDevice.readBuffer = <<>> /\ NewIPCommDevice.writeBuffer = <<>>
<1>1. <<>> \in Seq(Nat) /\ Len(<<>>) = 0
  OBVIOUS
<1> QED
  BY <1>1, Constants DEF NewIPCommDevice, Shaped, Devices, StateBooleans, ConnectStates

(* Raising and lifting flags leaves the buffers alone.                       *)
LEMMA FlagsOnly ==
  ASSUME NEW d, Shaped(d), NEW f \in StateBooleans, NEW s \in ConnectStates
  PROVE  /\ Shaped(Raise(d, f)) /\ Shaped(Lift(d, f))
         /\ Raise(d, f).readBuffer = d.readBuffer /\ Raise(d, f).writeBuffer = d.writeBuffer
         /\ Lift(d, f).readBuffer = d.readBuffer /\ Lift(d, f).writeBuffer = d.writeBuffer
         /\ Shaped([d EXCEPT !.connectState = s])
         /\ [d EXCEPT !.connectState = s].readBuffer = d.readBuffer
         /\ [d EXCEPT !.connectState = s].writeBuffer = d.writeBuffer
BY DEF Raise, Lift, Shaped, Devices

LEMMA ConnectsOnly ==
  ASSUME NEW d, Shaped(d)
  PROVE  /\ Shaped(Connected(d)) /\ Shaped(Disconnected(d))
         /\ Connected(d).readBuffer = d.readBuffer /\ Connected(d).writeBuffer = d.writeBuffer
         /\ Disconnected(d).readBuffer = d.readBuffer
         /\ Disconnected(d).writeBuffer = d.writeBuffer
BY DEF Connected, Disconnected, Raise, Lift, Shaped, Devices, StateBooleans

LEMMA ReadTakes ==
  ASSUME NEW d, Shaped(d), NEW size \in Nat
  PROVE  /\ Shaped(AfterRead(d, size)) /\ ReadData(d, size) \in Seq(Nat)
         /\ Len(ReadData(d, size)) <= size
         /\ AfterRead(d, size).writeBuffer = d.writeBuffer
         /\ d.readBuffer = ReadData(d, size) \o AfterRead(d, size).readBuffer
<1> DEFINE s == d.readBuffer
           n == Lower(size, Len(s))
           x == SubSeq(s, 1, n)
           y == SubSeq(s, n + 1, Len(s))
<1>1. s \in Seq(Nat) /\ Len(s) \in Nat /\ Len(s) <= ReadBufferSize /\ d \in Devices
  BY DEF Shaped, Devices
<1>2. n \in 0 .. Len(s) /\ n <= size
  BY <1>1 DEF Lower
<1>3. AfterRead(d, size) = [d EXCEPT !.readBuffer = y]
  BY DEF AfterRead, Drop
<1>4. ReadData(d, size) = x
  BY DEF ReadData
<1> HIDE DEF s, n
<1>5. /\ x \in Seq(Nat) /\ Len(x) = n /\ y \in Seq(Nat) /\ Len(y) = Len(s) - n
      /\ \A k \in 1 .. n : x[k] = s[k]
      /\ \A k \in 1 .. Len(s) - n : y[k] = s[n + k]
  BY <1>1, <1>2
<1>6. s = x \o y
  <2>1. SubSeq(s, 1, n) \o SubSeq(s, n + 1, Len(s)) = SubSeq(s, 1, Len(s))
    <3>1. 1 \in 1 .. Len(s) + 1 /\ n \in 1 - 1 .. Len(s) /\ Len(s) \in n .. Len(s)
      BY <1>1, <1>2
    <3> QED
      BY <1>1, <3>1, ConcatAdjacentSubSeq
  <2> QED
    BY <1>1, <2>1, SubSeqFull
<1> HIDE DEF x, y
<1>7. /\ AfterRead(d, size) \in Devices /\ AfterRead(d, size).readBuffer = y
      /\ AfterRead(d, size).writeBuffer = d.writeBuffer
  BY <1>1, <1>3, <1>5 DEF Devices
<1>8. Shaped(AfterRead(d, size))
  <2>1. Len(y) <= ReadBufferSize /\ Len(d.writeBuffer) <= WriteBufferSize
    BY <1>1, <1>2, <1>5, Constants DEF Shaped
  <2> QED
    BY <1>7, <2>1 DEF Shaped
<1> QED
  BY <1>2, <1>4, <1>5, <1>6, <1>7, <1>8 DEF s

LEMMA WriteAdds ==
  ASSUME NEW d, Shaped(d), NEW data \in Seq(Nat), Len(data) <= SpaceFor(d)
  PROVE  /\ Shaped(Written(d, data)) /\ Lower(Len(data), SpaceFor(d)) = Len(data)
         /\ Written(d, data).readBuffer = d.readBuffer
         /\ Len(Written(d, data).writeBuffer) = Len(d.writeBuffer) + Len(data)
<1>1. /\ d \in Devices /\ d.writeBuffer \in Seq(Nat) /\ Len(d.writeBuffer) <= WriteBufferSize
      /\ Len(d.writeBuffer) \in Nat /\ Len(data) \in Nat
  BY DEF Shaped, Devices
<1>2. SpaceFor(d) \in Nat /\ Len(d.writeBuffer) + Len(data) <= WriteBufferSize
  BY <1>1, Constants DEF SpaceFor
<1>3. Lower(Len(data), SpaceFor(d)) = Len(data)
  BY <1>1, <1>2 DEF Lower
<1>4. Written(d, data) = [d EXCEPT !.writeBuffer = d.writeBuffer \o data]
  BY <1>3, SubSeqFull DEF Written
<1>5. d.writeBuffer \o data \in Seq(Nat)
      /\ Len(d.writeBuffer \o data) = Len(d.writeBuffer) + Len(data)
  BY <1>1
<1>6. /\ Written(d, data) \in Devices /\ Written(d, data).readBuffer = d.readBuffer
      /\ Written(d, data).writeBuffer = d.writeBuffer \o data
  BY <1>1, <1>4, <1>5 DEF Devices
<1>7. Shaped(Written(d, data))
  BY <1>1, <1>2, <1>5, <1>6 DEF Shaped
<1> QED
  BY <1>3, <1>5, <1>6, <1>7

(* What one task of the scheduler may do to the buffers.                     *)
LEMMA TaskSteps ==
  ASSUME Shaped(dev), sent \in Nat, down \in Nat, reset \in BOOLEAN, RunTask
  PROVE  /\ Shaped(dev') /\ sent' \in Nat /\ down' \in Nat /\ reset' \in BOOLEAN
         /\ reset => reset'
         /\ ~reset' => /\ sent' + Len(dev'.writeBuffer) = sent + Len(dev.writeBuffer)
                       /\ \/ dev'.readBuffer = dev.readBuffer /\ down' = down
                          \/ dev'.readBuffer = Append(dev.readBuffer, down') /\ down' = down + 1
<1>0. /\ dev \in Devices /\ dev.readBuffer \in Seq(Nat) /\ dev.writeBuffer \in Seq(Nat)
      /\ Len(dev.readBuffer) <= ReadBufferSize /\ Len(dev.writeBuffer) <= WriteBufferSize
  BY DEF Shaped, Devices
<1>1. CASE Connects
  BY <1>0, <1>1 DEF Connects, Lift, Shaped, Devices, ConnectStates
<1>2. CASE Disconnects
  BY <1>0, <1>2 DEF Disconnects, Lift, Shaped, Devices, ConnectStates
<1>3. CASE Prepares
  BY <1>0, <1>3 DEF Prepares, Shaped, Devices, ConnectStates
<1>4. CASE Sends
  <2>1. PICK n \in 1 .. Len(dev.writeBuffer) :
          dev' = [dev EXCEPT !.writeBuffer = Drop(@, n)] /\ sent' = sent + n
    BY <1>4 DEF Sends
  <2> DEFINE y == SubSeq(dev.writeBuffer, n + 1, Len(dev.writeBuffer))
  <2>2. y \in Seq(Nat) /\ Len(y) = Len(dev.writeBuffer) - n
    BY <1>0
  <2>3. dev' = [dev EXCEPT !.writeBuffer = y]
    BY <2>1 DEF Drop
  <2> HIDE DEF y
  <2>4. dev' \in Devices /\ dev'.writeBuffer = y /\ dev'.readBuffer = dev.readBuffer
    BY <1>0, <2>2, <2>3 DEF Devices
  <2>5. Shaped(dev')
    BY <1>0, <2>2, <2>4, Constants DEF Shaped
  <2>6. down' = down /\ reset' = reset
    BY <1>4 DEF Sends
  <2>7. sent' \in Nat /\ sent' + Len(dev'.writeBuffer) = sent + Len(dev.writeBuffer)
    <3>1. Len(dev.writeBuffer) \in Nat
      BY <1>0
    <3> QED
      BY <2>1, <2>2, <2>4, <3>1
  <2> QED
    BY <2>4, <2>5, <2>6, <2>7
<1>5. CASE Receives
  <2> DEFINE x == Append(dev.readBuffer, down + 1)
  <2>1. x \in Seq(Nat) /\ Len(x) = Len(dev.readBuffer) + 1
    BY <1>0
  <2>2. dev' = [dev EXCEPT !.connectState = "receiving", !.readBuffer = x]
        /\ down' = down + 1 /\ Len(dev.readBuffer) < ReadBufferSize
        /\ sent' = sent /\ reset' = reset
    BY <1>5 DEF Receives
  <2> HIDE DEF x
  <2>3. dev' \in Devices /\ dev'.readBuffer = x /\ dev'.writeBuffer = dev.writeBuffer
    BY <1>0, <2>1, <2>2 DEF Devices, ConnectStates
  <2>4. Shaped(dev')
    BY <1>0, <2>1, <2>2, <2>3, Constants DEF Shaped
  <2> QED
    BY <1>0, <2>2, <2>3, <2>4 DEF x
<1>6. CASE Rests
  BY <1>0, <1>6 DEF Rests, Shaped, Devices, ConnectStates
<1>7. CASE Resets
  BY <1>7, NewDevice DEF Resets
<1>8. CASE Nothing
  BY <1>0, <1>8 DEF Nothing
<1> QED
  BY <1>1, <1>2, <1>3, <1>4, <1>5, <1>6, <1>7, <1>8 DEF RunTask

-----------------------------------------------------------------------------
(* The calls.                                                                *)

LEMMA InitIInv == ASSUME Init PROVE IInv
<1>1. M \in Nat \ {0} /\ 0 \in 0 .. M - 1 /\ 0 \in 0 .. M /\ <<>> \in Seq(Nat) /\ Len(<<>>) = 0
  BY Constants
<1>2. Shaped(dev) /\ dev.readBuffer = <<>> /\ dev.writeBuffer = <<>>
  BY NewDevice, ConnectsOnly DEF Init
<1>3. call \in Calls /\ call.op = "none" /\ Len(call.buffer) = 0 /\ call.len = 0
  BY <1>1 DEF Init, NoCall, Calls
<1>4. tick \in 0 .. M - 1 /\ endTime = tick /\ setting = [at |-> tick, ms |-> 0]
      /\ elapsed = 0 /\ since = 0 /\ pc = "app"
      /\ up = 0 /\ sent = 0 /\ down = 0 /\ got = <<>> /\ reset = FALSE
  BY DEF Init, M
<1>5. setting \in [at : 0 .. M - 1, ms : 0 .. M - 1] /\ setting.at = tick /\ setting.ms = 0
  BY <1>1, <1>4
<1>6. Typed
  <2>1. Len(call.buffer) <= call.len /\ endTime \in 0 .. M - 1
    BY <1>3, <1>4
  <2>2. up \in Nat /\ sent \in Nat /\ down \in Nat /\ reset \in BOOLEAN
        /\ elapsed \in 0 .. M /\ since \in 0 .. M /\ got \in Seq(Nat)
    BY <1>1, <1>4
  <2> QED
    BY <1>2, <1>3, <1>4, <1>5, <2>1, <2>2 DEF Typed
<1>7. StreamKept
  <2>1. Count(0) = <<>>
    BY DEF Count
  <2>2. <<>> \o <<>> = <<>>
    BY ConcatEmptySeq, <1>1
  <2>3. Part = <<>>
    BY <1>3 DEF Part
  <2> QED
    BY <1>2, <1>4, <2>1, <2>2, <2>3 DEF StreamKept, Stream
<1>8. CountingDown
  <2>1. Plus(tick, 0) = tick
    BY <1>1, <1>4, Sums
  <2> QED
    BY <1>4, <1>5, <2>1 DEF CountingDown
<1> QED
  BY <1>1, <1>2, <1>3, <1>4, <1>6, <1>7, <1>8
     DEF IInv, InStep, Accounted, InCallTime, Deadline

LEMMA CountdownStep == ASSUME IInv, CountdownMs PROVE IInv'
<1>1. PICK ms \in Timeouts : endTime' = Plus(tick, ms) /\ setting' = [at |-> tick, ms |-> ms]
  BY DEF CountdownMs
<1>2. /\ since' = 0 /\ pc = "app"
      /\ UNCHANGED <<dev, pc, call, tick, elapsed, up, sent, down, got, reset>>
  BY DEF CountdownMs
<1>3. ms \in 0 .. M - 1 /\ 0 \in 0 .. M /\ tick \in 0 .. M - 1 /\ M \in Nat
  BY Constants DEF IInv, Typed
<1>4. endTime' \in 0 .. M - 1
  BY <1>1, <1>3, Sums
<1>5. setting' \in [at : 0 .. M - 1, ms : 0 .. M - 1] /\ setting'.at = tick /\ setting'.ms = ms
  BY <1>1, <1>3
<1>6. Typed'
  BY <1>2, <1>3, <1>4, <1>5 DEF IInv, Typed
<1>7. CountingDown'
  BY <1>1, <1>2, <1>3, <1>5 DEF CountingDown, Plus
<1>8. call.op = "none"
  BY <1>2 DEF IInv, InStep
<1> QED
  BY <1>2, <1>6, <1>7, <1>8 DEF IInv, InStep, StreamKept, Stream, Part, Accounted, InCallTime, Deadline

(* What the timeout of a timed call leaves of the countdown.                 *)
LEMMA LeftOver ==
  ASSUME IInv
  PROVE  /\ LeftMs(endTime, tick) \in 0 .. M - 1
         /\ setting.at + since < M =>
              since + LeftMs(endTime, tick) <= IF since > setting.ms THEN since ELSE setting.ms
<1> DEFINE a == setting.at
           ms == setting.ms
           left == LeftMs(endTime, tick)
<1>1. /\ a \in 0 .. M - 1 /\ ms \in 0 .. M - 1 /\ tick \in 0 .. M - 1
      /\ endTime \in 0 .. M - 1 /\ since \in 0 .. M /\ M \in Nat
  BY Constants DEF IInv, Typed
<1>2. endTime = (IF a + ms < M THEN a + ms ELSE a + ms - M)
  BY <1>1, Sums DEF IInv, CountingDown
<1>3. a + since < M => tick = a + since
  BY DEF IInv, CountingDown
<1>4. left = IF endTime < tick THEN 0 ELSE endTime - tick
  BY DEF LeftMs
<1> HIDE DEF a, ms, left, M
<1>5. /\ left \in 0 .. M - 1
      /\ a + since < M => since + left <= IF since > ms THEN since ELSE ms
  BY <1>1, <1>2, <1>3, <1>4
<1> QED
  BY <1>5 DEF a, ms, left

LEMMA BeginStep ==
  ASSUME IInv, NEW op \in {"read", "write"}, NEW len \in Nat, NEW timeout \in 0 .. M - 1,
         NEW timed \in BOOLEAN, timed => timeout = LeftMs(endTime, tick),
         Begin(op, len, timeout, timed)
  PROVE  IInv'
<1>1. /\ pc = "app" /\ pc' = "round" /\ elapsed' = 0
      /\ UNCHANGED <<dev, tick, since, endTime, setting, up, sent, down, got, reset>>
  BY DEF Begin, countdown
<1>2. call' = [op |-> op, start |-> tick, timeout |-> timeout, len |-> len, buffer |-> <<>>,
               written |-> 0, timed |-> timed, began |-> since]
  BY DEF Begin, NoCall
<1>3. /\ tick \in 0 .. M - 1 /\ since \in 0 .. M /\ MaxStep \in Nat /\ M \in Nat \ {0}
      /\ <<>> \in Seq(Nat) /\ Len(<<>>) = 0
  BY Constants DEF IInv, Typed
<1>4. /\ call' \in Calls /\ call'.op = op /\ call'.start = tick /\ call'.timeout = timeout
      /\ call'.len = len /\ call'.buffer = <<>> /\ call'.timed = timed /\ call'.began = since
  BY <1>2, <1>3 DEF Calls
<1>5. call.op = "none"
  BY <1>1 DEF IInv, InStep
<1>6. Typed'
  BY <1>1, <1>3, <1>4 DEF IInv, Typed
<1>7. StreamKept'
  BY <1>1, <1>4, <1>5 DEF IInv, StreamKept, Stream, Part
<1>8. InCallTime'
  <2>1. Minus(tick, tick) = 0
    BY <1>3, Sums
  <2> QED
    BY <1>1, <1>3, <1>4, <2>1 DEF InCallTime, Minus
<1>9. Deadline'
  BY <1>1, <1>4, LeftOver DEF Deadline
<1> QED
  BY <1>1, <1>4, <1>6, <1>7, <1>8, <1>9 DEF IInv, InStep, Accounted, CountingDown

(* The application: it begins a call, yields, or asks to disconnect.         *)
LEMMA AppSteps ==
  ASSUME IInv, Mqtt \/ Blocking
  PROVE  IInv'
<1>0. /\ Timeouts \subseteq 0 .. M - 1 /\ MaxUp \in Nat
      /\ ReadBufferSize \in Nat /\ WriteBufferSize \in Nat
  BY Constants
<1>1. CASE AskYield
  <2>1. /\ pc = "app" /\ pc' = "yield"
        /\ UNCHANGED <<dev, call, tick, elapsed, since, endTime, setting,
                       up, sent, down, got, reset>>
    BY <1>1 DEF AskYield, Yields, clock, countdown
  <2>2. call.op = "none"
    BY <2>1 DEF IInv, InStep
  <2> QED
    BY <2>1, <2>2 DEF IInv, Typed, InStep, StreamKept, Stream, Part, Accounted, CountingDown,
                      InCallTime, Deadline, Plus, Minus
<1>2. ASSUME pc = "app", dev' = dev \/ dev' = Disconnected(dev),
             UNCHANGED <<pc, call, program, clock, countdown, up, sent, down, got, reset>>
      PROVE  IInv'
  <2>1. UNCHANGED <<pc, call, tick, elapsed, since, endTime, setting,
                    up, sent, down, got, reset>>
    BY <1>2 DEF clock, countdown
  <2>2. Shaped(dev') /\ dev'.readBuffer = dev.readBuffer /\ dev'.writeBuffer = dev.writeBuffer
    BY <1>2, ConnectsOnly DEF IInv, Typed
  <2> QED
    BY <2>1, <2>2 DEF IInv, Typed, InStep, StreamKept, Stream, Part, Accounted, CountingDown,
                      InCallTime, Deadline, Plus, Minus
<1>3. CASE Mqtt
  <2>1. CASE AskYield
    BY <1>1, <2>1
  <2>2. CASE ~AskYield
    <3>1. PICK op \in {"read", "write"}, len \in 1 .. WriteBufferSize :
            Begin(op, len, LeftMs(endTime, tick), TRUE)
      BY <1>3, <2>2 DEF Mqtt
    <3>2. len \in Nat /\ LeftMs(endTime, tick) \in 0 .. M - 1
      BY <1>0, LeftOver
    <3> QED
      BY <3>1, <3>2, BeginStep
  <2> QED
    BY <2>1, <2>2
<1>4. CASE Blocking
  <2>1. PICK timeout \in Timeouts :
          \/ AskYield
          \/ Begin("write", Lower(MaxUp, WriteBufferSize), timeout, FALSE)
          \/ Begin("read", ReadBufferSize, timeout, FALSE)
          \/ /\ pc = "app" /\ (dev' = dev \/ dev' = Disconnected(dev))
             /\ UNCHANGED <<pc, call, program, clock, countdown, up, sent, down, got, reset>>
    BY <1>4 DEF Blocking
  <2>2. timeout \in 0 .. M - 1 /\ Lower(MaxUp, WriteBufferSize) \in Nat
    BY <1>0 DEF Lower
  <2>3. CASE Begin("write", Lower(MaxUp, WriteBufferSize), timeout, FALSE)
    BY <2>2, <2>3, BeginStep
  <2>4. CASE Begin("read", ReadBufferSize, timeout, FALSE)
    BY <1>0, <2>2, <2>4, BeginStep
  <2> QED
    BY <1>1, <1>2, <2>1, <2>3, <2>4
<1> QED
  BY <1>3, <1>4

(* A call that ends, whatever it returns.                                    *)
LEMMA ReturnKeeps ==
  ASSUME IInv, NEW value \in Nat, Returns(value), elapsed' = 0,
         UNCHANGED <<dev, tick, since, countdown, up, sent, down, reset>>,
         got' = got \o (IF call.op = "read" THEN call.buffer ELSE <<>>)
  PROVE  IInv' /\ call'.op = "none" /\ call'.written = value /\ call'.len = call.len
<1>1. /\ pc' = "app"
      /\ call' = [op |-> "none", start |-> 0, timeout |-> 0, len |-> call.len,
                  buffer |-> call.buffer, written |-> value, timed |-> FALSE, began |-> 0]
      /\ UNCHANGED <<dev, tick, since, endTime, setting, up, sent, down, reset>>
  BY DEF Returns, NoCall, countdown
<1>2. M \in Nat \ {0} /\ 0 \in 0 .. M - 1 /\ 0 \in 0 .. M
  BY Constants
<1>3. /\ call.buffer \in Seq(Nat) /\ call.len \in Nat /\ Len(call.buffer) <= call.len
      /\ dev.readBuffer \in Seq(Nat) /\ got \in Seq(Nat)
  BY DEF IInv, Typed, Calls, Shaped, Devices
<1>4. /\ call' \in Calls /\ call'.op = "none" /\ call'.written = value
      /\ call'.len = call.len /\ call'.buffer = call.buffer
  BY <1>1, <1>2, <1>3 DEF Calls
<1>5. got' \in Seq(Nat) /\ got' \o <<>> = got'
  <2>1. got' \in Seq(Nat)
    <3>1. (IF call.op = "read" THEN call.buffer ELSE <<>>) \in Seq(Nat)
      BY <1>3
    <3> QED
      BY <1>3, <3>1, ConcatProperties
  <2> QED
    BY <2>1, ConcatEmptySeq
<1>6. Typed'
  BY <1>1, <1>2, <1>3, <1>4, <1>5 DEF IInv, Typed
<1>7. StreamKept'
  <2>1. Part' = <<>> /\ got' = got \o Part
    BY <1>4 DEF Part
  <2>2. Stream' = Stream
    <3>1. got' \o Part' = got \o Part
      BY <1>5, <2>1
    <3>2. dev' = dev
      BY <1>1
    <3> QED
      BY <3>1, <3>2, Zenon DEF Stream
  <2>3. Count(down)' = Count(down) /\ reset' = reset
    BY <1>1 DEF Count
  <2> QED
    BY <2>2, <2>3 DEF IInv, StreamKept
<1> QED
  BY <1>1, <1>4, <1>6, <1>7
     DEF IInv, InStep, Accounted, CountingDown, InCallTime, Deadline, Plus

(* isTimeout of the loops, while the clock of the call is not over its range. *)
LEMMA TimeoutMeans ==
  ASSUME IInv, call.op # "none", elapsed < M
  PROVE  IsTimeout(call) <=> elapsed > call.timeout
BY DEF IInv, InCallTime, IsTimeout

(* A round of a loop that yields.                                            *)
LEMMA YieldsInTime ==
  ASSUME IInv, call.op # "none", ~IsTimeout(call), pc' = "yield", elapsed' = elapsed,
         UNCHANGED <<tick, since, countdown>>,
         call'.op = call.op, call'.start = call.start, call'.timeout = call.timeout,
         call'.began = call.began, call'.timed = call.timed
  PROVE  InCallTime' /\ Deadline' /\ CountingDown' /\ InStep'
<1>1. elapsed < M => elapsed <= call.timeout
  BY TimeoutMeans, Constants DEF IInv, Typed, Calls
<1>2. endTime' = endTime /\ setting' = setting
  BY DEF countdown
<1>3. call.timeout \in Nat
  BY Constants DEF IInv, Typed, Calls
<1> QED
  BY <1>1, <1>2, <1>3 DEF IInv, InCallTime, Deadline, CountingDown, InStep, Minus, Plus

LEMMA ReadRoundStep ==
  ASSUME IInv, ReadRound, elapsed' = elapsed,
         UNCHANGED <<tick, since, countdown, sent, down, reset>>
  PROVE  IInv'
<1> DEFINE m == call.len - Len(call.buffer)
           x == ReadData(dev, m)
           b == call.buffer \o x
<1>1. /\ call \in Calls /\ call.op = "read" /\ Len(call.buffer) < call.len
      /\ ~IsTimeout(call) /\ pc' = "yield" /\ up' = up /\ got' = got
  BY DEF ReadRound, InCall, Yields, IInv, Typed
<1>2. /\ call.buffer \in Seq(Nat) /\ call.len \in Nat /\ m \in Nat /\ Shaped(dev)
      /\ got \in Seq(Nat) /\ dev.readBuffer \in Seq(Nat)
  BY <1>1 DEF IInv, Typed, Calls, Shaped, Devices
<1>3. dev' = AfterRead(dev, m) /\ call' = [call EXCEPT !.buffer = b]
  BY DEF ReadRound, Missing, Filled
<1>4. Len(call.buffer) + m = call.len
  BY <1>2
<1> HIDE DEF m
<1>5. /\ Shaped(dev') /\ x \in Seq(Nat) /\ Len(x) <= m
      /\ dev'.writeBuffer = dev.writeBuffer /\ dev.readBuffer = x \o dev'.readBuffer
  BY <1>2, <1>3, ReadTakes
<1> HIDE DEF x
<1>6. b \in Seq(Nat) /\ Len(b) <= call.len
  BY <1>2, <1>4, <1>5
<1>7. dev'.readBuffer \in Seq(Nat)
  BY <1>5 DEF Shaped, Devices
<1>8. got \o b \o dev'.readBuffer = got \o call.buffer \o dev.readBuffer
  <2>1. got \o (call.buffer \o x) \o dev'.readBuffer
        = got \o call.buffer \o (x \o dev'.readBuffer)
    <3>1. \A g \in Seq(Nat) : \A c \in Seq(Nat) : \A d \in Seq(Nat) : \A y \in Seq(Nat) :
            g \o (c \o d) \o y = g \o c \o (d \o y)
      BY Regroup, Zenon
    <3>2. got \in Seq(Nat) /\ call.buffer \in Seq(Nat) /\ x \in Seq(Nat)
      BY <1>2, <1>5
    <3>3. \A c \in Seq(Nat) : \A d \in Seq(Nat) : \A y \in Seq(Nat) :
            got \o (c \o d) \o y = got \o c \o (d \o y)
      BY <3>1, <3>2, Zenon
    <3>4. \A d \in Seq(Nat) : \A y \in Seq(Nat) :
            got \o (call.buffer \o d) \o y = got \o call.buffer \o (d \o y)
      BY <3>2, <3>3, Zenon
    <3>5. \A y \in Seq(Nat) : got \o (call.buffer \o x) \o y = got \o call.buffer \o (x \o y)
      BY <3>2, <3>4, Zenon
    <3> QED
      BY <1>7, <3>5, Zenon
  <2> QED
    BY <1>5, <2>1, Zenon
<1> HIDE DEF b
<1>9. /\ call' \in Calls /\ call'.buffer = b /\ call'.op = "read"
      /\ call'.start = call.start /\ call'.timeout = call.timeout /\ call'.len = call.len
      /\ call'.began = call.began /\ call'.timed = call.timed
  BY <1>1, <1>3, <1>6 DEF Calls
<1>10. Typed'
  BY <1>1, <1>5, <1>6, <1>9 DEF IInv, Typed, countdown
<1>11. StreamKept'
  <2>1. Part = call.buffer /\ Part' = b
    BY <1>1, <1>9 DEF Part
  <2>2. Stream' = Stream
    BY <1>1, <1>8, <2>1, Zenon DEF Stream
  <2>3. Count(down)' = Count(down)
    BY DEF Count
  <2> QED
    BY <2>2, <2>3 DEF IInv, StreamKept
<1>12. Accounted'
  BY <1>1, <1>5, <1>9 DEF IInv, Accounted
<1>13. InCallTime' /\ Deadline' /\ CountingDown' /\ InStep'
  <2>1. call.op # "none" /\ call'.op = call.op
    BY <1>1, <1>9
  <2> QED
    BY <1>1, <1>9, <2>1, YieldsInTime
<1> QED
  BY <1>10, <1>11, <1>12, <1>13 DEF IInv

(* A round that neither writes nor returns.                                  *)
LEMMA WaitStep ==
  ASSUME IInv, call.op # "none", ~IsTimeout(call), Yields, elapsed' = elapsed,
         UNCHANGED <<call, dev, up, got, tick, since, countdown, sent, down, reset>>
  PROVE  IInv'
<1>1. InCallTime' /\ Deadline' /\ CountingDown' /\ InStep'
  BY YieldsInTime DEF Yields
<1> QED
  BY <1>1 DEF IInv, Typed, StreamKept, Stream, Part, Accounted, Yields, countdown

LEMMA QueueStep ==
  ASSUME IInv, Queue, elapsed' = elapsed,
         UNCHANGED <<tick, since, countdown, sent, down, reset>>
  PROVE  IInv'
<1> DEFINE data == [k \in 1 .. call.len |-> up + k]
           n == call.len
<1>1. /\ call \in Calls /\ call.op = "write" /\ pc = "round" /\ n <= SpaceFor(dev)
      /\ dev' = Written(dev, data) /\ up' = up + Lower(n, SpaceFor(dev))
      /\ call' = [call EXCEPT !.op = "drain", !.written = Lower(n, SpaceFor(dev))]
      /\ pc' = pc /\ got' = got
  BY DEF Queue, InCall, Fits, IInv, Typed
<1>2. n \in Nat /\ up \in Nat /\ Shaped(dev) /\ data \in Seq(Nat) /\ Len(data) = n
  <2>1. n \in Nat /\ up \in Nat /\ Shaped(dev)
    BY <1>1 DEF IInv, Typed, Calls
  <2>2. \A l \in Nat, u \in Nat :
          [k \in 1 .. l |-> u + k] \in Seq(Nat) /\ Len([k \in 1 .. l |-> u + k]) = l
    OBVIOUS
  <2> QED
    BY <2>1, <2>2
<1> HIDE DEF data, n
<1>3. /\ Shaped(dev') /\ Lower(n, SpaceFor(dev)) = n
      /\ dev'.readBuffer = dev.readBuffer
      /\ Len(dev'.writeBuffer) = Len(dev.writeBuffer) + n
  BY <1>1, <1>2, WriteAdds
<1>4. /\ call' \in Calls /\ call'.op = "drain" /\ call'.written = n /\ call'.len = n
      /\ call'.buffer = call.buffer /\ call'.start = call.start
      /\ call'.timeout = call.timeout /\ call'.began = call.began
      /\ call'.timed = call.timed
  BY <1>1, <1>2, <1>3 DEF Calls, n
<1>5. up' = up + n /\ Len(dev.writeBuffer) \in Nat
  BY <1>1, <1>3 DEF IInv, Typed, Shaped, Devices
<1>6. Typed'
  BY <1>1, <1>2, <1>3, <1>4, <1>5 DEF IInv, Typed, countdown, n
<1>7. StreamKept'
  BY <1>1, <1>3, <1>4 DEF IInv, StreamKept, Stream, Part, Count
<1>8. Accounted'
  <2>1. sent \in Nat /\ (~reset => up = sent + Len(dev.writeBuffer))
    BY DEF IInv, Typed, Accounted
  <2>2. ~reset => up' = sent + Len(dev'.writeBuffer)
    BY <1>2, <1>3, <1>5, <2>1
  <2> QED
    BY <1>4, <2>2 DEF Accounted
<1>9. InCallTime' /\ Deadline' /\ CountingDown' /\ InStep'
  BY <1>1, <1>4 DEF IInv, InCallTime, Deadline, CountingDown, InStep, Minus, Plus, countdown
<1> QED
  BY <1>6, <1>7, <1>8, <1>9 DEF IInv

(* What the rounds of a call do, and what a write that reports its length    *)
(* has done: the driver has taken all that was ever written.                 *)
LEMMA RoundStep ==
  ASSUME IInv, Round
  PROVE  /\ IInv'
         /\ call.op \in {"write", "drain"} /\ call'.op = "none" /\ call'.written > 0 =>
              call'.written = call.len /\ (sent = up \/ reset) /\ call'.len = call.len
<1>0. UNCHANGED <<tick, since, countdown, sent, down, reset>>
      /\ elapsed' = IF pc' = "app" THEN 0 ELSE elapsed
  BY DEF Round
<1>1. got \in Seq(Nat) /\ got \o <<>> = got /\ 0 \in Nat
  BY ConcatEmptySeq DEF IInv, Typed
<1>2. CASE ReadReturns
  <2>1. Returns(0) /\ call.op = "read" /\ elapsed' = 0 /\ got' = got \o call.buffer
        /\ dev' = dev /\ up' = up
    BY <1>0, <1>2 DEF ReadReturns, InCall, Returns
  <2> QED
    BY <1>0, <1>1, <2>1, ReturnKeeps
<1>3. CASE ReadRound
  <2>1. call.op = "read" /\ elapsed' = elapsed
    BY <1>0, <1>3 DEF ReadRound, InCall, Yields
  <2> QED
    BY <1>0, <1>3, <2>1, ReadRoundStep
<1>waits. ASSUME call.op \in {"write", "drain"}, ~IsTimeout(call), Yields,
                 UNCHANGED <<call, dev, up, got>>
          PROVE  IInv'
  <2>1. elapsed' = elapsed /\ call.op # "none"
    BY <1>0, <1>waits DEF Yields
  <2> QED
    BY <1>0, <1>waits, <2>1, WaitStep
<1>ends. ASSUME call.op \in {"write", "drain"}, NEW value \in Nat, Returns(value),
                UNCHANGED <<dev, up, got>>
         PROVE  IInv' /\ call'.op = "none" /\ call'.written = value /\ call'.len = call.len
  <2>1. elapsed' = 0 /\ got' = got \o (IF call.op = "read" THEN call.buffer ELSE <<>>)
    BY <1>0, <1>1, <1>ends DEF Returns
  <2> QED
    BY <1>0, <1>ends, <2>1, ReturnKeeps
<1>4. CASE WaitForSpace
  <2>1. call.op = "write" /\ UNCHANGED <<dev, up, got>>
    BY <1>4 DEF WaitForSpace, InCall
  <2>2. CASE Returns(0)
    BY <1>1, <1>ends, <2>1, <2>2
  <2>3. CASE ~IsTimeout(call) /\ Yields /\ UNCHANGED call
    BY <1>waits, <2>1, <2>3
  <2> QED
    BY <1>4, <2>1, <2>2, <2>3 DEF WaitForSpace
<1>5. CASE Queue
  <2>1. pc' = "round" /\ call'.op = "drain"
    BY <1>5 DEF Queue, InCall, IInv, Typed, Calls
  <2>2. elapsed' = elapsed
    BY <1>0, <2>1
  <2> QED
    BY <1>0, <1>5, <2>1, <2>2, QueueStep
<1>6. CASE Drain
  <2>1. call.op = "drain" /\ UNCHANGED <<dev, up, got>>
    BY <1>6 DEF Drain, InCall
  <2>2. CASE Processed(dev) /\ Returns(call.written)
    <3>1. call.written = call.len /\ call.written \in Nat /\ call.len \in Nat
      BY <2>1 DEF IInv, Typed, Calls, Accounted
    <3>2. dev.writeBuffer = <<>>
      BY <2>2 DEF Processed, WriteBufferProcessed
    <3>3. sent = up \/ reset
      BY <3>2 DEF IInv, Typed, Accounted
    <3> QED
      BY <1>ends, <2>1, <2>2, <3>1, <3>3
  <2>3. CASE Returns(0)
    BY <1>1, <1>ends, <2>1, <2>3
  <2>4. CASE ~IsTimeout(call) /\ Yields /\ UNCHANGED call
    BY <1>waits, <2>1, <2>4
  <2> QED
    BY <1>6, <2>1, <2>2, <2>3, <2>4 DEF Drain
<1> QED
  BY <1>2, <1>3, <1>4, <1>5, <1>6 DEF Round

-----------------------------------------------------------------------------
(* Time passes while the scheduler runs a task.                              *)

LEMMA AppendLast ==
  ASSUME NEW a \in Seq(Nat), NEW b \in Seq(Nat), NEW e \in Nat
  PROVE  a \o Append(b, e) = Append(a \o b, e)
<1>1. /\ a \o Append(b, e) \in Seq(Nat) /\ Append(a \o b, e) \in Seq(Nat)
      /\ Len(a \o Append(b, e)) = Len(a) + Len(b) + 1
      /\ Len(Append(a \o b, e)) = Len(a) + Len(b) + 1
  OBVIOUS
<1>2. \A k \in 1 .. Len(a) + Len(b) + 1 : (a \o Append(b, e))[k] = Append(a \o b, e)[k]
  OBVIOUS
<1> QED
  BY <1>1, <1>2, SeqEqual

LEMMA YieldStep ==
  ASSUME IInv, NEW ticks \in 0 .. MaxStep, Yield(ticks)
  PROVE  IInv'
<1>1. /\ pc = "yield" /\ pc' = (IF call.op = "none" THEN "app" ELSE "round") /\ RunTask
      /\ tick' = Plus(tick, ticks)
      /\ elapsed' = (IF pc' = "app" THEN 0 ELSE Lower(elapsed + ticks, M))
      /\ since' = Lower(since + ticks, M)
      /\ call' = call /\ endTime' = endTime /\ setting' = setting /\ up' = up /\ got' = got
  BY DEF Yield, countdown, M
<1>2. /\ M \in Nat \ {0} /\ MaxStep \in 0 .. M - 1 /\ ticks \in 0 .. M - 1
      /\ tick \in 0 .. M - 1 /\ elapsed \in 0 .. M /\ since \in 0 .. M
      /\ call.start \in 0 .. M - 1 /\ call.timeout \in 0 .. M - 1 /\ call.began \in 0 .. M
      /\ setting.at \in 0 .. M - 1
  BY Constants DEF IInv, Typed, Calls
<1>3. /\ Shaped(dev') /\ sent' \in Nat /\ down' \in Nat /\ reset' \in BOOLEAN
      /\ reset => reset'
      /\ ~reset' => /\ sent' + Len(dev'.writeBuffer) = sent + Len(dev.writeBuffer)
                    /\ \/ dev'.readBuffer = dev.readBuffer /\ down' = down
                       \/ dev'.readBuffer = Append(dev.readBuffer, down') /\ down' = down + 1
  BY <1>1, TaskSteps DEF IInv, Typed
<1>4. /\ tick' \in 0 .. M - 1
      /\ tick' = (IF tick + ticks < M THEN tick + ticks ELSE tick + ticks - M)
  BY <1>1, <1>2, Sums
<1>5. /\ since' \in 0 .. M /\ (since' < M => since' = since + ticks)
      /\ elapsed' \in 0 .. M
      /\ call.op # "none" => /\ elapsed' < M => elapsed' = elapsed + ticks
                             /\ elapsed + ticks < M => elapsed' < M
  <2> HIDE DEF M
  <2> QED
    BY <1>1, <1>2 DEF Lower
<1>6. Typed'
  BY <1>1, <1>3, <1>4, <1>5 DEF IInv, Typed
<1>7. StreamKept'
  <2> SUFFICES ASSUME ~reset' PROVE Stream' = Count(down)'
    BY DEF StreamKept
  <2>1. Stream = Count(down) /\ down \in Nat
    BY <1>3 DEF IInv, Typed, StreamKept
  <2>2. Part' = Part /\ got' = got
    BY <1>1 DEF Part
  <2>3. CASE dev'.readBuffer = dev.readBuffer /\ down' = down
    <3>1. Stream' = Stream
      BY <2>2, <2>3, Zenon DEF Stream
    <3>2. Count(down)' = Count(down)
      BY <2>3 DEF Count
    <3> QED
      BY <2>1, <3>1, <3>2
  <2>4. CASE dev'.readBuffer = Append(dev.readBuffer, down') /\ down' = down + 1
    <3> DEFINE a == got \o Part
    <3>1. got \in Seq(Nat) /\ Part \in Seq(Nat) /\ dev.readBuffer \in Seq(Nat) /\ down' \in Nat
      BY <1>3 DEF IInv, Typed, Part, Calls, Shaped, Devices
    <3>2. a \in Seq(Nat)
      BY <3>1, ConcatProperties
    <3>3. Stream' = a \o Append(dev.readBuffer, down') /\ Stream = a \o dev.readBuffer
      BY <2>2, <2>4, Zenon DEF Stream
    <3> HIDE DEF a
    <3>4. Stream' = Append(Stream, down')
      BY <3>1, <3>2, <3>3, AppendLast
    <3>5. Append(Count(down), down + 1) = Count(down + 1)
      BY <2>1, CountGrows
    <3>6. Count(down)' = Count(down + 1)
      BY <2>4 DEF Count
    <3> QED
      BY <2>1, <2>4, <3>4, <3>5, <3>6, Zenon
  <2> QED
    BY <1>3, <2>3, <2>4
<1>8. Accounted'
  <2>1. sent \in Nat /\ (~reset => up = sent + Len(dev.writeBuffer))
        /\ (call.op = "drain" => call.written = call.len)
    BY DEF IInv, Typed, Accounted
  <2>2. ~reset' => up' = sent' + Len(dev'.writeBuffer)
    BY <1>1, <1>3, <2>1
  <2> QED
    BY <1>1, <2>1, <2>2 DEF Accounted
<1>9. CountingDown'
  <2>1. endTime' = Plus(setting'.at, setting'.ms)
    BY <1>1 DEF IInv, CountingDown
  <2>2. setting.at + since' < M => tick' = setting.at + since'
    <3>1. setting.at + since < M => tick = setting.at + since
      BY DEF IInv, CountingDown
    <3> HIDE DEF M
    <3> QED
      BY <1>2, <1>4, <1>5, <3>1
  <2> QED
    BY <1>1, <2>1, <2>2, Zenon DEF CountingDown, Plus
<1>10. InCallTime'
  <2> SUFFICES ASSUME call.op # "none"
               PROVE  /\ elapsed' < M => /\ Minus(tick', call.start) = elapsed'
                                         /\ elapsed' <= call.timeout + MaxStep
                      /\ call.timeout + MaxStep < M => elapsed' < M
                      /\ since' < M => call.began + elapsed' = since'
    BY <1>1 DEF InCallTime, Minus
  <2>1. /\ elapsed < M => Minus(tick, call.start) = elapsed /\ elapsed <= call.timeout
        /\ call.timeout + MaxStep < M => elapsed < M
        /\ since < M => call.began + elapsed = since
    BY <1>1, <1>2 DEF IInv, InCallTime
  <2>2. /\ elapsed' < M => elapsed' = elapsed + ticks /\ elapsed < M
        /\ elapsed + ticks < M => elapsed' < M
        /\ since' < M => since' = since + ticks /\ since < M
    <3> HIDE DEF M
    <3> QED
      BY <1>2, <1>5
  <2>3. ASSUME elapsed' < M PROVE Minus(tick', call.start) = elapsed'
    BY <1>1, <1>2, <2>1, <2>2, <2>3, MinusLater
  <2> HIDE DEF M
  <2>4. /\ elapsed' < M => elapsed' <= call.timeout + MaxStep
        /\ call.timeout + MaxStep < M => elapsed' < M
        /\ since' < M => call.began + elapsed' = since'
    BY <1>2, <2>1, <2>2
  <2> QED
    BY <2>3, <2>4
<1>11. Deadline' /\ InStep'
  BY <1>1 DEF IInv, Deadline, InStep
<1> QED
  BY <1>6, <1>7, <1>8, <1>9, <1>10, <1>11 DEF IInv

-----------------------------------------------------------------------------
LEMMA IInvStep == ASSUME IInv, [Next]_vars PROVE IInv'
<1>1. CASE CountdownMs
  BY <1>1, CountdownStep
<1>2. CASE Round
  BY <1>2, RoundStep
<1>3. CASE Mqtt \/ Blocking
  BY <1>3, AppSteps
<1>4. ASSUME NEW ticks \in 0 .. MaxStep, Yield(ticks) PROVE IInv'
  BY <1>4, YieldStep
<1>5. CASE UNCHANGED vars
  <2>1. UNCHANGED <<dev, pc, call, tick, elapsed, since, endTime, setting,
                    up, sent, down, got, reset>>
    BY <1>5 DEF vars, clock, countdown
  <2> QED
    BY <2>1 DEF IInv, Typed, InStep, StreamKept, Stream, Part, Count, Accounted,
                CountingDown, InCallTime, Deadline, Plus, Minus
<1> QED
  BY <1>1, <1>2, <1>3, <1>4, <1>5 DEF Next

LEMMA Invariance == Spec => []IInv
<1>1. Init => IInv
  BY InitIInv
<1>2. IInv /\ [Next]_vars => IInv'
  BY IInvStep
<1> QED
  BY <1>1, <1>2, PTL DEF Spec

(* The tick, the end of the countdown and the timeouts keep the width of an  *)
(* E_TICK_TYPE, and read() never fills its buffer past what was asked for.   *)
THEOREM BlockingTypeOK == Spec => []TypeOK
<1>1. IInv => TypeOK
  BY Constants DEF IInv, Typed, Shaped, Devices, Calls, TypeOK, M
<1> QED
  BY <1>1, Invariance, PTL

(* What all reads returned, those that timed out with a part included, is    *)
(* what arrived, in order, for every size of the buffers.                    *)
THEOREM ReadsLoseNothing == Spec => []StreamIntact
<1>1. IInv => StreamIntact
  BY DEF IInv, StreamKept, Stream, Part, StreamIntact
<1> QED
  BY <1>1, Invariance, PTL

(* No call of the device takes longer than its timeout and one task, from    *)
(* every value of the tick, those included from which it wraps.              *)
THEOREM CallsEndInTime == Spec => []InTime
<1>1. ASSUME IInv PROVE InTime
  <2> SUFFICES ASSUME call.op # "none", call.timeout + MaxStep < M
               PROVE  elapsed <= call.timeout + MaxStep
    BY DEF InTime, M
  <2>1. elapsed <= call.timeout + (IF pc = "yield" THEN 0 ELSE MaxStep)
    BY <1>1 DEF IInv, InCallTime
  <2> QED
    BY <1>1, <2>1, Constants DEF IInv, Typed, Calls
<1> QED
  BY <1>1, Invariance, PTL

(* The calls that are given what is left of a countdown do not outlast it by *)
(* more than one task, however many they are, as long as the tick has not    *)
(* wrapped since the countdown was set.                                      *)
THEOREM CountdownKept == Spec => []DeadlineKept
<1>1. ASSUME IInv PROVE DeadlineKept
  <2> DEFINE longer == IF call.began > setting.ms THEN call.began ELSE setting.ms
  <2> SUFFICES ASSUME call.op # "none", call.timed, setting.at + since < M
               PROVE  since <= longer + MaxStep
    BY DEF DeadlineKept, M
  <2>1. /\ M \in Nat \ {0} /\ MaxStep \in Nat /\ elapsed \in 0 .. M /\ since \in 0 .. M
        /\ call.timeout \in 0 .. M - 1 /\ call.began \in 0 .. M
        /\ setting.at \in Nat /\ setting.ms \in Nat
    BY <1>1, Constants DEF IInv, Typed, Calls
  <2>2. /\ elapsed < M => elapsed <= call.timeout + (IF pc = "yield" THEN 0 ELSE MaxStep)
        /\ since < M => call.began + elapsed = since
    BY <1>1 DEF IInv, InCallTime
  <2>3. setting.at + call.began < M => call.began + call.timeout <= longer
    BY <1>1 DEF IInv, Deadline
  <2> HIDE DEF M
  <2>4. longer \in Nat
    BY <2>1
  <2> HIDE DEF longer
  <2> QED
    BY <2>1, <2>2, <2>3, <2>4
<1> QED
  BY <1>1, Invariance, PTL

(* write() reports the length it was given only when the driver has taken    *)
(* all that was ever written, or a reset threw it away.                      *)
THEOREM FullWritesAreSent == Spec => FullMeansSent
<1> DEFINE Full == call.op \in {"write", "drain"} /\ call'.op = "none" /\ call'.written > 0
                   => call'.written = call.len /\ (sent = up \/ reset)
<1>1. IInv /\ [Next]_vars => [Full]_vars
  <2> SUFFICES ASSUME IInv, [Next]_vars, call.op # "none", call'.op = "none"
               PROVE  Full \/ UNCHANGED vars
    OBVIOUS
  <2>1. CASE Round
    BY <2>1, RoundStep
  <2>2. CASE CountdownMs
    BY <2>2 DEF CountdownMs
  <2>3. CASE Mqtt \/ Blocking
    <3>1. pc = "app" \/ call' = call
      BY <2>3 DEF Mqtt, Blocking, AskYield, Begin
    <3> QED
      BY <3>1 DEF IInv, InStep
  <2>4. ASSUME NEW ticks \in 0 .. MaxStep, Yield(ticks) PROVE FALSE
    BY <2>4 DEF Yield
  <2> QED
    BY <2>1, <2>2, <2>3, <2>4 DEF Next
<1> QED
  BY <1>1, Invariance, PTL DEF Spec, FullMeansSent
=============================================================================
