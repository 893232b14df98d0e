---------------------- MODULE LineCircularBuffer_proofs ----------------------
(***************************************************************************)
(* The invariants of LineCircularBuffer for every buffer size, every set   *)
(* of characters and every length of array.                                *)
(***************************************************************************)
EXTENDS LineCircularBuffer, CircularBuffer_proofs

(* A line is no longer than what is buffered.                               *)
LEMMA LineLengthBound ==
  ASSUME NEW b, b.availableData \in Nat
  PROVE  LineLength(b) \in 0 .. b.availableData
<1> DEFINE n == b.availableData
           L == {k \in 1 .. n : \A j \in 1 .. k - 1 : Contents(b)[j] # NewLine}
<1>1. IsFiniteSet(1 .. n) /\ Cardinality(1 .. n) = n
  BY FS_Interval
<1>2. Cardinality(L) \in Nat /\ Cardinality(L) <= n
  BY <1>1, FS_Subset, FS_CardinalityType
<1> QED BY <1>2 DEF LineLength

(* rewindReadHead over elements whose slots are untouched.                   *)
LEMMA RewindStaysRing ==
  ASSUME NEW b \in Rings(Char, BufferSize),
         NEW num \in 1 .. BufferSize - b.availableData
  PROVE  /\ RewindReadHead(b, num) \in Rings(Char, BufferSize)
         /\ RewindReadHead(b, num).availableData = b.availableData + num
<1> DEFINE q == RewindReadHead(b, num)
           r == IF num <= b.readHead THEN b.readHead - num
                ELSE BufferSize + b.readHead - num
           n == b.availableData + num
<1>1. b \in LineBuffers(Char, BufferSize) /\ HeadsApart(b)
  BY DEF Rings
<1>2. /\ b.bufferSize = BufferSize /\ b.readHead \in 0 .. BufferSize - 1
      /\ b.availableData \in 0 .. BufferSize /\ b.writeHead \in 0 .. BufferSize - 1
  BY <1>1 DEF LineBuffers
<1>3. SizeModulus \in Nat /\ BufferSize \in Nat /\ 2 * BufferSize < SizeModulus
  BY BufferAssumption, ModuliAssumption
<1>4. r \in 0 .. BufferSize - 1 /\ n \in 0 .. BufferSize
  BY <1>2, <1>3
<1>5. WrapAdd(b.availableData, num, SizeModulus) = n
  BY <1>2, <1>3, <1>4 DEF WrapAdd
<1>6. b.writeHead = Advance(r, n, BufferSize)
  BY <1>1, <1>2, <1>3 DEF HeadsApart, Advance
<1>7. q = [b EXCEPT !.readHead = r, !.availableData = n]
  BY <1>2, <1>5, Zenon DEF RewindReadHead
<1> HIDE DEF q, r, n
<1>8. /\ q \in LineBuffers(Char, BufferSize) /\ q.readHead = r /\ q.availableData = n
      /\ q.writeHead = b.writeHead /\ q.bufferSize = BufferSize
  BY <1>1, <1>4, <1>7 DEF LineBuffers
<1>9. HeadsApart(q)
  BY <1>6, <1>8 DEF HeadsApart
<1> QED BY <1>8, <1>9 DEF Rings, q, n

-----------------------------------------------------------------------------
(* TypeOK as a statement about one object and its history.                  *)
Held(b, r) == b \in Rings(Char, BufferSize) /\ r \in 0 .. BufferSize - b.availableData

LEMMA TypeOKIsHeld == TypeOK <=> Held(lb, retained) /\ rewound \in BOOLEAN
BY DEF TypeOK, Held, Rings

LEMMA Sizes ==
  /\ BufferSize \in Nat \ {0} /\ BufferSize < LinesModulus
  /\ \A b \in Rings(Char, BufferSize) : b.availableData \in 0 .. BufferSize
BY BufferAssumption DEF Rings, LineBuffers

(* Every method but rewind keeps the object a ring, leaves room for the      *)
(* history, and keeps a right line counter right.                            *)
LEMMA LineNextStep ==
  ASSUME Held(lb, retained), LineNext
  PROVE  Held(lb', retained') /\ (Counted(lb) => Counted(lb'))
<1> USE Sizes
<1>0. /\ lb \in Rings(Char, BufferSize) /\ lb.availableData \in 0 .. BufferSize
      /\ retained \in 0 .. BufferSize - lb.availableData
  BY DEF Held
<1>1. ASSUME NEW data \in Chunks, PushArray(data)
      PROVE  Held(lb', retained') /\ (Counted(lb) => Counted(lb'))
  <2> DEFINE n == Lesser(Len(data), BufferSize - lb.availableData)
             q == LinePushMany(lb, data)
  <2>1. data \in Seq(Char)
    BY <1>1 DEF Chunks
  <2>2. q \in Rings(Char, BufferSize) /\ (Counted(lb) => Counted(q))
    BY <1>0, <2>1, LinePushManyAppends
  <2>3. lb' = q /\ retained' = Lesser(retained, BufferSize - q.availableData)
    BY <1>1 DEF PushArray, Retain
  <2> HIDE DEF q
  <2>4. q.availableData \in 0 .. BufferSize
    BY <2>2
  <2>5. retained' \in 0 .. BufferSize - q.availableData
    BY <1>0, <2>3, <2>4 DEF Lesser
  <2> QED BY <2>2, <2>3, <2>5, Zenon DEF Held
<1>2. ASSUME NEW c \in Char, PushChar(c)
      PROVE  Held(lb', retained') /\ (Counted(lb) => Counted(lb'))
  <2> DEFINE q == LinePush(lb, c)
  <2>1. q \in Rings(Char, BufferSize) /\ (Counted(lb) => Counted(q))
    BY <1>0, <1>2, LinePushAppends DEF PushChar
  <2>2. lb' = q /\ retained' = Lesser(retained, BufferSize - q.availableData)
    BY <1>2 DEF PushChar, Retain
  <2> HIDE DEF q
  <2>3. q.availableData \in 0 .. BufferSize
    BY <2>1
  <2>4. retained' \in 0 .. BufferSize - q.availableData
    BY <1>0, <2>2, <2>3 DEF Lesser
  <2> QED BY <2>1, <2>2, <2>4, Zenon DEF Held
<1>pull. ASSUME NEW m \in Nat, lb' = LinePullMany(lb, m),
                retained' = retained + Len(Pulled(lb, m))
         PROVE  Held(lb', retained') /\ (Counted(lb) => Counted(lb'))
  <2> DEFINE q == LinePullMany(lb, m)
             n == Lesser(m, lb.availableData)
             s == Contents(lb)
  <2>1. n \in Nat /\ n \in 0 .. lb.availableData
    BY <1>0 DEF Lesser
  <2>2. s \in Seq(Char) /\ Len(s) = lb.availableData
    BY <1>0, ContentsType DEF Rings
  <2> HIDE DEF n, s
  <2>3. /\ q \in Rings(Char, BufferSize) /\ q.availableData = lb.availableData - n
        /\ Pulled(lb, m) = SubSeq(s, 1, n)
        /\ (Counted(lb) => Counted(q))
    BY <1>0, <2>1, LinePullManyTakes DEF n, s
  <2>4. Len(SubSeq(s, 1, n)) = n
    BY <2>1, <2>2
  <2> HIDE DEF q
  <2>5. retained' \in 0 .. BufferSize - q.availableData
    BY <1>0, <1>pull, <2>1, <2>3, <2>4
  <2>6. lb' = q
    BY <1>pull DEF q
  <2> QED BY <2>3, <2>5, <2>6, Zenon DEF Held
<1>3. ASSUME NEW size \in 0 .. BufferSize, PullArray(size)
      PROVE  Held(lb', retained') /\ (Counted(lb) => Counted(lb'))
  BY <1>3, <1>pull DEF PullArray
<1>4. ASSUME PullChar
      PROVE  Held(lb', retained') /\ (Counted(lb) => Counted(lb'))
  <2> DEFINE q == LinePull(lb)
  <2>1. /\ q \in Rings(Char, BufferSize) /\ q.availableData = lb.availableData - 1
        /\ (Counted(lb) => Counted(q))
    BY <1>0, <1>4, LinePullTakes DEF PullChar
  <2>2. lb' = q /\ retained' = retained + 1 /\ lb.availableData # 0
    BY <1>4 DEF PullChar, IsEmpty
  <2> HIDE DEF q
  <2>3. retained' \in 0 .. BufferSize - q.availableData
    BY <1>0, <2>1, <2>2
  <2> QED BY <2>1, <2>2, <2>3, Zenon DEF Held
<1>5. ASSUME NEW size \in 0 .. BufferSize, ReadLine(size)
      PROVE  Held(lb', retained') /\ (Counted(lb) => Counted(lb'))
  <2> DEFINE m == LineLength(lb)
             s == Contents(lb)
  <2>1. m \in 0 .. lb.availableData
    BY <1>0, LineLengthBound
  <2>2. s \in Seq(Char) /\ Len(s) = lb.availableData
    BY <1>0, ContentsType DEF Rings
  <2>3. lb' = LinePullMany(lb, m) /\ retained' = retained + m
    BY <1>5 DEF ReadLine
  <2>4. Len(Pulled(lb, m)) = m
    <3> HIDE DEF m
    <3>1. Lesser(m, lb.availableData) = m
      BY <1>0, <2>1 DEF Lesser
    <3>2. Pulled(lb, m) = SubSeq(s, 1, m)
      BY <3>1 DEF Pulled
    <3> HIDE DEF s
    <3> QED BY <1>0, <2>1, <2>2, <3>2
  <2> HIDE DEF m
  <2>5. m \in Nat /\ lb' = LinePullMany(lb, m)
    BY <1>0, <2>1, <2>3
  <2>6. retained' = retained + Len(Pulled(lb, m))
    BY <2>3, <2>4, Zenon
  <2> QED BY <2>5, <2>6, <1>pull
<1>6. ASSUME FlushAll
      PROVE  Held(lb', retained') /\ (Counted(lb) => Counted(lb'))
  <2> DEFINE q == LineFlush(lb)
  <2>1. q \in Rings(Char, BufferSize) /\ q.availableData = 0 /\ Counted(q)
    BY <1>0, LineFlushEmpties
  <2>2. lb' = q /\ retained' = 0
    BY <1>6 DEF FlushAll
  <2> HIDE DEF q
  <2>3. retained' \in 0 .. BufferSize - q.availableData
    BY <2>1, <2>2
  <2> QED BY <2>1, <2>2, <2>3, Zenon DEF Held
<1> QED BY <1>1, <1>2, <1>3, <1>4, <1>5, <1>6, Zenon DEF LineNext

LEMMA RewindStep ==
  ASSUME Held(lb, retained), NEW num \in 1 .. BufferSize, Rewind(num)
  PROVE  Held(lb', retained')
<1>0. /\ lb \in Rings(Char, BufferSize) /\ lb.availableData \in 0 .. BufferSize
      /\ retained \in 0 .. BufferSize - lb.availableData /\ BufferSize \in Nat
  BY Sizes DEF Held
<1>1. num \in 1 .. BufferSize - lb.availableData /\ num <= retained
  BY <1>0 DEF Rewind
<1> DEFINE q == RewindReadHead(lb, num)
<1>2. q \in Rings(Char, BufferSize) /\ q.availableData = lb.availableData + num
  BY <1>0, <1>1, RewindStaysRing
<1>3. lb' = q /\ retained' = retained - num
  BY DEF Rewind
<1> HIDE DEF q
<1>4. retained' \in 0 .. BufferSize - q.availableData
  BY <1>0, <1>1, <1>2, <1>3
<1> QED BY <1>2, <1>3, <1>4, Zenon DEF Held

(* A rewind is remembered until the next flush, which makes the count right.  *)
LEMMA FlushCounts ==
  ASSUME Held(lb, retained), FlushAll
  PROVE  Counted(lb')
<1>1. lb \in Rings(Char, BufferSize) /\ BufferSize \in Nat \ {0} /\ BufferSize < LinesModulus
  BY Sizes DEF Held
<1>2. Counted(LineFlush(lb))
  BY <1>1, LineFlushEmpties
<1> QED BY <1>2 DEF FlushAll

LEMMA RewoundStays == LineNext => FlushAll \/ rewound' = rewound
BY DEF LineNext, PushArray, PushChar, PullArray, PullChar, ReadLine

LEMMA InitHeld == Init => Held(lb, retained) /\ Counted(lb)
<1> SUFFICES ASSUME Init PROVE Held(lb, retained) /\ Counted(lb)
  OBVIOUS
<1>1. PICK memory \in [Slots -> Char] : lb = NewLineBuffer(memory, BufferSize)
  BY DEF Init
<1>2. lb \in Rings(Char, BufferSize) /\ lb.availableData = 0 /\ Counted(lb)
  BY <1>1, NewLineBufferIsRing, Sizes DEF Slots
<1>3. retained \in 0 .. BufferSize - lb.availableData
  BY <1>2, Sizes DEF Init
<1> QED BY <1>2, <1>3, Zenon DEF Held

-----------------------------------------------------------------------------
(* Whatever sequence of the checked methods a client calls, with rewinds     *)
(* over untouched slots among them, circularbuffer.h keeps both heads, the   *)
(* element count and the room for rewinding consistent, for every size.      *)
THEOREM BufferTypeOK == Spec => []TypeOK
<1>1. Init => TypeOK
  BY InitHeld, TypeOKIsHeld DEF Init
<1>2. TypeOK /\ [Next]_vars => TypeOK'
  <2> SUFFICES ASSUME TypeOK, [Next]_vars PROVE TypeOK'
    OBVIOUS
  <2>1. Held(lb, retained) /\ rewound \in BOOLEAN
    BY TypeOKIsHeld DEF TypeOK
  <2>2. Held(lb', retained')
    BY <2>1, LineNextStep, RewindStep DEF Next, vars
  <2>3. rewound' \in BOOLEAN
    BY <2>1, RewoundStays DEF Next, vars, FlushAll, Rewind
  <2> QED BY <2>2, <2>3 DEF TypeOK, Held, Rings
<1> QED BY <1>1, <1>2, PTL DEF Spec

(* Without a rewind the count of buffered lines that the modem drivers wait  *)
(* on (linecircularbuffer.h:94) is exact, for every buffer shorter than      *)
(* uint16_t counts.                                                          *)
THEOREM LinesAreCounted == Spec => []LinesCounted
<1> DEFINE IInv == Held(lb, retained) /\ (rewound \/ Counted(lb))
<1>1. Init => IInv
  BY InitHeld
<1>2. IInv /\ [Next]_vars => IInv'
  <2> SUFFICES ASSUME IInv, [Next]_vars PROVE IInv'
    OBVIOUS
  <2>1. CASE LineNext
    BY <2>1, LineNextStep, FlushCounts, RewoundStays
  <2>2. ASSUME NEW num \in 1 .. BufferSize, Rewind(num) PROVE IInv'
    BY <2>2, RewindStep DEF Rewind
  <2>3. CASE UNCHANGED vars
    BY <2>3 DEF vars
  <2> QED BY <2>1, <2>2, <2>3 DEF Next
<1>3. IInv => LinesCounted
  BY DEF Counted, LinesCounted
<1> QED BY <1>1, <1>2, <1>3, PTL DEF Spec

-----------------------------------------------------------------------------
(* The refinement.  The elements pulled last, as a function of the object.   *)

TakenOf(b, r) ==
  [k \in 1 .. r |-> b.buffer[IF b.readHead - r + k - 1 < 0
                             THEN b.readHead - r + k - 1 + BufferSize
                             ELSE b.readHead - r + k - 1]]

LEMMA TakenIsTakenOf == Taken = TakenOf(lb, retained)
BY DEF Taken, TakenSlot, TakenOf

LEMMA RingParts ==
  ASSUME NEW b \in Rings(Char, BufferSize)
  PROVE  /\ BufferSize \in Nat \ {0} /\ b.bufferSize = BufferSize
         /\ b.buffer \in [0 .. BufferSize - 1 -> Char]
         /\ b.readHead \in 0 .. BufferSize - 1 /\ b.writeHead \in 0 .. BufferSize - 1
         /\ b.availableData \in 0 .. BufferSize
         /\ b.writeHead = Advance(b.readHead, b.availableData, BufferSize)
         /\ Contents(b) \in Seq(Char) /\ Len(Contents(b)) = b.availableData
BY BufferAssumption, ContentsType DEF Rings, LineBuffers, HeadsApart

LEMMA TakenType ==
  ASSUME NEW b, NEW r, Held(b, r)
  PROVE  TakenOf(b, r) \in Seq(Char) /\ Len(TakenOf(b, r)) = r
<1>1. /\ r \in Nat /\ r <= BufferSize /\ BufferSize \in Nat
      /\ b.readHead \in 0 .. BufferSize - 1 /\ b.buffer \in [0 .. BufferSize - 1 -> Char]
  BY RingParts DEF Held
<1>2. TakenOf(b, r) \in [1 .. r -> Char]
  BY <1>1 DEF TakenOf
<1> QED
  BY <1>1, <1>2 DEF TakenOf

(* The last elements of a sequence, one by one.                              *)
LEMMA LastOfElements ==
  ASSUME NEW S, NEW s \in Seq(S), NEW m \in Nat, NEW n \in Nat, n = Lesser(Len(s), m)
  PROVE  /\ Fifo!LastOf(s, m) \in Seq(S) /\ Len(Fifo!LastOf(s, m)) = n
         /\ \A k \in 1 .. n : Fifo!LastOf(s, m)[k] = s[Len(s) - n + k]
<1>1. Len(s) \in Nat /\ n \in 0 .. Len(s)
  BY DEF Lesser
<1>2. Fifo!LastOf(s, m) = SubSeq(s, Len(s) - n + 1, Len(s))
  <2>1. Fifo!Least(m, Len(s)) = n
    BY <1>1 DEF Lesser, Fifo!Least
  <2> QED
    BY <2>1 DEF Fifo!LastOf
<1> QED
  BY <1>1, <1>2

(* Pulled elements become the youngest of those that can be put back.        *)
LEMMA TakenAfterPull ==
  ASSUME NEW b, NEW r, Held(b, r), NEW n \in 0 .. b.availableData,
         NEW p, p.buffer = b.buffer, p.readHead = Advance(b.readHead, n, BufferSize),
         Held(p, r + n)
  PROVE  TakenOf(p, r + n) = TakenOf(b, r) \o SubSeq(Contents(b), 1, n)
<1> DEFINE s == TakenOf(b, r)
           t == SubSeq(Contents(b), 1, n)
           u == TakenOf(p, r + n)
<1>1. /\ BufferSize \in Nat \ {0} /\ b.bufferSize = BufferSize
      /\ b.readHead \in 0 .. BufferSize - 1 /\ b.availableData \in 0 .. BufferSize
      /\ r \in 0 .. BufferSize - b.availableData
      /\ Contents(b) \in Seq(Char) /\ Len(Contents(b)) = b.availableData
  BY RingParts DEF Held
<1>2. s \in Seq(Char) /\ Len(s) = r /\ u \in Seq(Char) /\ Len(u) = r + n
  BY TakenType
<1>3. t \in Seq(Char) /\ Len(t) = n
  BY <1>1
<1>4. ASSUME NEW k \in 1 .. r + n
      PROVE  u[k] = IF k <= r THEN s[k] ELSE t[k - r]
  <2>1. u[k] = b.buffer[IF p.readHead - (r + n) + k - 1 < 0
                        THEN p.readHead - (r + n) + k - 1 + BufferSize
                        ELSE p.readHead - (r + n) + k - 1]
    BY <1>4 DEF TakenOf
  <2>2. CASE k <= r
    <3>1. s[k] = b.buffer[IF b.readHead - r + k - 1 < 0
                          THEN b.readHead - r + k - 1 + BufferSize
                          ELSE b.readHead - r + k - 1]
      BY <1>1, <1>4, <2>2 DEF TakenOf
    <3>2. (IF p.readHead - (r + n) + k - 1 < 0
           THEN p.readHead - (r + n) + k - 1 + BufferSize
           ELSE p.readHead - (r + n) + k - 1)
          = (IF b.readHead - r + k - 1 < 0
             THEN b.readHead - r + k - 1 + BufferSize
             ELSE b.readHead - r + k - 1)
      BY <1>1, <1>4, <2>2, SMTT(40) DEF Advance
    <3> QED
      BY <2>1, <2>2, <3>1, <3>2
  <2>3. CASE k > r
    <3>1. t[k - r] = Contents(b)[k - r] /\ k - r \in 1 .. b.availableData
      BY <1>1, <1>4, <2>3
    <3>2. Contents(b)[k - r] = b.buffer[Advance(b.readHead, k - r - 1, BufferSize)]
      BY <1>1, <3>1 DEF Contents, Slot
    <3>3. (IF p.readHead - (r + n) + k - 1 < 0
           THEN p.readHead - (r + n) + k - 1 + BufferSize
           ELSE p.readHead - (r + n) + k - 1)
          = Advance(b.readHead, k - r - 1, BufferSize)
      <4> DEFINE h == b.readHead
                 j == k - r - 1
      <4>1. /\ BufferSize \in Nat /\ h \in Int /\ 0 <= h /\ h < BufferSize
            /\ n \in Int /\ r \in Int /\ k \in Int /\ n <= BufferSize /\ 0 <= n
            /\ j \in Int /\ 0 <= j /\ j < n /\ k = j + r + 1
        BY <1>1, <1>4, <2>3
      <4>2. p.readHead = Advance(h, n, BufferSize)
        OBVIOUS
      <4>3. p.readHead - (r + n) + k - 1 = p.readHead - n + j
        BY <4>1, <4>2 DEF Advance
      <4> HIDE DEF h, j
      <4>4. (IF p.readHead - n + j < 0 THEN p.readHead - n + j + BufferSize
             ELSE p.readHead - n + j) = Advance(h, j, BufferSize)
        <5> DEFINE g == p.readHead
        <5>1. g = IF h + n >= BufferSize THEN h + n - BufferSize ELSE h + n
          BY <4>2 DEF Advance
        <5>2. h + j < BufferSize => Advance(h, j, BufferSize) = h + j
          BY <4>1 DEF Advance
        <5>3. h + j >= BufferSize => Advance(h, j, BufferSize) = h + j - BufferSize
          BY <4>1 DEF Advance
        <5> HIDE DEF g
        <5> SUFFICES (IF g - n + j < 0 THEN g - n + j + BufferSize ELSE g - n + j)
                     = Advance(h, j, BufferSize)
          BY DEF g
        <5>4. CASE h + n >= BufferSize
          BY <4>1, <5>1, <5>2, <5>3, <5>4
        <5>5. CASE h + n < BufferSize
          BY <4>1, <5>1, <5>2, <5>3, <5>5
        <5> QED
          BY <4>1, <5>4, <5>5
      <4> QED
        BY <4>3, <4>4 DEF h, j
    <3> QED
      BY <1>1, <1>4, <2>1, <2>3, <3>1, <3>2, <3>3
  <2> QED
    BY <1>1, <1>4, <2>2, <2>3
<1> HIDE DEF s, t, u
<1>5. Len(u) = Len(s) + Len(t)
  BY <1>2, <1>3
<1>6. \A k \in 1 .. Len(u) : u[k] = IF k <= Len(s) THEN s[k] ELSE t[k - Len(s)]
  BY <1>2, <1>4
<1>7. u = s \o t
  BY <1>2, <1>3, <1>5, <1>6, AppendedPointwise
<1> QED
  BY <1>7 DEF s, t, u

(* A slot behind the read head is only reached by a push of more elements    *)
(* than there is room for between the write head and it.                     *)
LEMMA SlotBehind ==
  ASSUME NEW h \in 0 .. BufferSize - 1, NEW a \in 0 .. BufferSize,
         NEW d \in 1 .. BufferSize - a, NEW w, w = Advance(h, a, BufferSize),
         NEW i, i = (IF h - d < 0 THEN h - d + BufferSize ELSE h - d)
  PROVE  /\ i \in 0 .. BufferSize - 1
         /\ (IF i >= w THEN i - w ELSE i - w + BufferSize) = BufferSize - a - d
<1>1. BufferSize \in Nat \ {0}
  BY Sizes
<1>2. w = IF h + a >= BufferSize THEN h + a - BufferSize ELSE h + a
  BY DEF Advance
<1> QED
  BY <1>1, <1>2

(* A push of n elements leaves the pulled ones that still find room.         *)
LEMMA TakenAfterPush ==
  ASSUME NEW b, NEW r, Held(b, r), NEW n \in 0 .. BufferSize - b.availableData,
         NEW p \in Rings(Char, BufferSize), p.readHead = b.readHead,
         \A i \in 0 .. BufferSize - 1 : Offset(b, i) >= n => p.buffer[i] = b.buffer[i],
         NEW m, m = Lesser(r, BufferSize - b.availableData - n), Held(p, m)
  PROVE  TakenOf(p, m) = Fifo!LastOf(TakenOf(b, r), BufferSize - b.availableData - n)
<1> DEFINE s == TakenOf(b, r)
           u == TakenOf(p, m)
           free == BufferSize - b.availableData - n
           v == Fifo!LastOf(s, free)
<1>1. /\ BufferSize \in Nat \ {0} /\ b.bufferSize = BufferSize
      /\ b.readHead \in 0 .. BufferSize - 1 /\ b.availableData \in 0 .. BufferSize
      /\ b.writeHead = Advance(b.readHead, b.availableData, BufferSize)
      /\ r \in 0 .. BufferSize - b.availableData
  BY RingParts DEF Held
<1>2. s \in Seq(Char) /\ Len(s) = r /\ u \in Seq(Char) /\ Len(u) = m
  BY TakenType
<1>3. free \in Nat /\ m = Lesser(Len(s), free) /\ m \in 0 .. r /\ m <= free
  BY <1>1, <1>2 DEF Lesser
<1>4. v \in Seq(Char) /\ Len(v) = m /\ \A k \in 1 .. m : v[k] = s[r - m + k]
  <2> HIDE DEF s, free
  <2>1. m \in Nat /\ free \in Nat /\ s \in Seq(Char) /\ m = Lesser(Len(s), free)
    BY <1>1, <1>2, <1>3
  <2>2. Fifo!LastOf(s, free) \in Seq(Char)
    BY <2>1, LastOfElements
  <2>3. Len(Fifo!LastOf(s, free)) = m
    BY <2>1, LastOfElements
  <2>4. \A k \in 1 .. m : Fifo!LastOf(s, free)[k] = s[Len(s) - m + k]
    BY <2>1, LastOfElements
  <2> QED
    BY <1>2, <2>2, <2>3, <2>4
<1>5. ASSUME NEW k \in 1 .. m PROVE u[k] = v[k]
  <2> DEFINE d == m - k + 1
             i == IF b.readHead - d < 0 THEN b.readHead - d + BufferSize ELSE b.readHead - d
  <2>1. u[k] = p.buffer[i]
    <3>1. u[k] = p.buffer[IF b.readHead - m + k - 1 < 0
                          THEN b.readHead - m + k - 1 + BufferSize
                          ELSE b.readHead - m + k - 1]
      BY <1>5 DEF TakenOf
    <3>2. b.readHead - m + k - 1 = b.readHead - d
      BY <1>1, <1>3, <1>5
    <3> QED
      BY <3>1, <3>2
  <2>2. s[r - m + k] = b.buffer[i]
    <3>1. r - m + k \in 1 .. r
      BY <1>1, <1>3, <1>5
    <3>2. s[r - m + k] = b.buffer[IF b.readHead - r + (r - m + k) - 1 < 0
                                  THEN b.readHead - r + (r - m + k) - 1 + BufferSize
                                  ELSE b.readHead - r + (r - m + k) - 1]
      BY <3>1 DEF TakenOf
    <3>3. b.readHead - r + (r - m + k) - 1 = b.readHead - d
      <4>1. b.readHead \in Int /\ r \in Int /\ m \in Int /\ k \in Int
        BY <1>1, <1>3, <1>5
      <4> QED
        BY <4>1
    <3> QED
      BY <3>2, <3>3
  <2>3. d \in 1 .. BufferSize - b.availableData /\ d <= m /\ d \in Int
    BY <1>1, <1>3, <1>5, SMTT(40)
  <2>4. i \in 0 .. BufferSize - 1 /\ Offset(b, i) = BufferSize - b.availableData - d
    <3>1. i = IF b.readHead - d < 0 THEN b.readHead - d + BufferSize ELSE b.readHead - d
      OBVIOUS
    <3> HIDE DEF d, i
    <3>2. /\ i \in 0 .. BufferSize - 1
          /\ (IF i >= b.writeHead THEN i - b.writeHead ELSE i - b.writeHead + BufferSize)
             = BufferSize - b.availableData - d
      <4> DEFINE w == b.writeHead
                 h == b.readHead
                 a == b.availableData
      <4>1. /\ h \in 0 .. BufferSize - 1 /\ a \in 0 .. BufferSize
            /\ d \in 1 .. BufferSize - a /\ w = Advance(h, a, BufferSize)
            /\ i = IF h - d < 0 THEN h - d + BufferSize ELSE h - d
        BY <1>1, <2>3, <3>1
      <4> HIDE DEF w, h, a
      <4>2. i \in 0 .. BufferSize - 1
        BY <4>1, SlotBehind
      <4>3. (IF i >= w THEN i - w ELSE i - w + BufferSize) = BufferSize - a - d
        BY <4>1, SlotBehind
      <4> QED
        BY <4>2, <4>3 DEF w, a
    <3> QED
      BY <1>1, <3>2 DEF Offset
  <2>5. Offset(b, i) >= n
    <3> HIDE DEF i, d
    <3> QED
      BY <1>1, <1>3, <2>3, <2>4
  <2>6. p.buffer[i] = b.buffer[i]
    <3> HIDE DEF i
    <3> QED
      BY <2>4, <2>5
  <2> HIDE DEF u, v, i, d, s
  <2> QED
    BY <1>4, <1>5, <2>1, <2>2, <2>6
<1> HIDE DEF s, u, v
<1>6. u = v
  BY <1>2, <1>4, <1>5, SeqEqual
<1> QED
  BY <1>6 DEF s, u, v

(* A rewind puts the elements pulled last back in front of the others.       *)
LEMMA AfterRewind ==
  ASSUME NEW b, NEW r, Held(b, r), NEW num \in 1 .. r, NEW q, q = RewindReadHead(b, num)
  PROVE  /\ Contents(q) = Fifo!LastOf(TakenOf(b, r), num) \o Contents(b)
         /\ TakenOf(q, r - num) = SubSeq(TakenOf(b, r), 1, r - num)
<1>1. /\ BufferSize \in Nat \ {0} /\ b.bufferSize = BufferSize
      /\ b.readHead \in 0 .. BufferSize - 1 /\ b.availableData \in 0 .. BufferSize
      /\ r \in 0 .. BufferSize - b.availableData /\ b \in Rings(Char, BufferSize)
      /\ Contents(b) \in Seq(Char) /\ Len(Contents(b)) = b.availableData
  BY RingParts DEF Held
<1>2. num \in 1 .. BufferSize - b.availableData /\ num \in Nat
  BY <1>1
<1>3. q \in Rings(Char, BufferSize) /\ q.availableData = b.availableData + num
  BY <1>1, <1>2, RewindStaysRing
<1>4. /\ q.buffer = b.buffer /\ q.bufferSize = BufferSize
      /\ q.readHead = IF num <= b.readHead THEN b.readHead - num
                      ELSE BufferSize + b.readHead - num
  BY <1>1 DEF RewindReadHead, Rings, LineBuffers
<1>5. Contents(q) \in Seq(Char) /\ Len(Contents(q)) = b.availableData + num
      /\ q.readHead \in 0 .. BufferSize - 1
  BY <1>3, RingParts
<1>6. b.readHead = Advance(q.readHead, num, BufferSize)
  BY <1>1, <1>2, <1>4 DEF Advance
<1>7. Held(q, r - num)
  BY <1>1, <1>3 DEF Held
<1> DEFINE X == TakenOf(q, r - num)
           Y == SubSeq(Contents(q), 1, num)
           Z == TakenOf(b, r)
<1>8. Z = X \o Y
  <2>1. (r - num) + num = r /\ num \in 0 .. q.availableData
    BY <1>1, <1>2, <1>3
  <2>2. Held(b, (r - num) + num)
    BY <2>1
  <2>3. TakenOf(b, (r - num) + num) = X \o Y
    BY <1>4, <1>6, <1>7, <2>1, <2>2, TakenAfterPull
  <2> QED
    BY <2>1, <2>3
<1>9. /\ X \in Seq(Char) /\ Len(X) = r - num /\ Z \in Seq(Char) /\ Len(Z) = r
      /\ Y \in Seq(Char) /\ Len(Y) = num
  <2>1. Y \in Seq(Char) /\ Len(Y) = num
    BY <1>1, <1>2, <1>5
  <2>2. X \in Seq(Char) /\ Len(X) = r - num
    BY <1>7, TakenType
  <2>3. Z \in Seq(Char) /\ Len(Z) = r
    BY TakenType
  <2> QED
    BY <2>1, <2>2, <2>3
<1>10. Contents(q) = Y \o Contents(b)
  <2>1. ASSUME NEW k \in 1 .. Len(Contents(q))
        PROVE  Contents(q)[k] = IF k <= Len(Y) THEN Y[k] ELSE Contents(b)[k - Len(Y)]
    <3>1. CASE k <= num
      BY <1>1, <1>2, <1>5, <1>9, <3>1
    <3>2. CASE k > num
      <4>1. k - num \in 1 .. b.availableData /\ k \in 1 .. q.availableData
        BY <1>1, <1>2, <1>3, <1>5, <2>1, <3>2
      <4>2. Contents(b)[k - num] = b.buffer[Advance(b.readHead, k - num - 1, BufferSize)]
        BY <1>1, <4>1 DEF Contents, Slot
      <4>3. Contents(q)[k] = b.buffer[Advance(q.readHead, k - 1, BufferSize)]
        BY <1>4, <4>1 DEF Contents, Slot
      <4>4. Advance(b.readHead, k - num - 1, BufferSize) = Advance(q.readHead, k - 1, BufferSize)
        <5>1. num \in 0 .. BufferSize /\ k - num - 1 \in 0 .. BufferSize - num
              /\ num + (k - num - 1) = k - 1
          BY <1>1, <1>2, <4>1
        <5> QED
          <6> DEFINE j == k - num - 1
                     g == q.readHead
          <6>1. j \in 0 .. BufferSize - num /\ num \in 0 .. BufferSize
                /\ g \in 0 .. BufferSize - 1 /\ num + j = k - 1
            BY <1>1, <1>5, <5>1
          <6>2. Advance(b.readHead, j, BufferSize)
                = Advance(Advance(g, num, BufferSize), j, BufferSize)
            BY <1>6
          <6> HIDE DEF j, g
          <6>3. Advance(Advance(g, num, BufferSize), j, BufferSize)
                = Advance(g, num + j, BufferSize)
            BY <1>1, <6>1, AdvanceAdds
          <6> QED
            BY <6>1, <6>2, <6>3 DEF j, g
      <4> QED
        BY <1>1, <1>2, <1>9, <3>2, <4>1, <4>2, <4>3, <4>4
    <3> QED
      BY <1>1, <1>2, <1>5, <2>1, <3>1, <3>2
  <2> DEFINE u == Contents(q)
             t == Contents(b)
  <2>2. /\ u \in Seq(Char) /\ t \in Seq(Char) /\ Y \in Seq(Char)
        /\ Len(u) = Len(Y) + Len(t)
    BY <1>1, <1>2, <1>5, <1>9
  <2>3. \A k \in 1 .. Len(u) : u[k] = IF k <= Len(Y) THEN Y[k] ELSE t[k - Len(Y)]
    BY <2>1
  <2> HIDE DEF Y, u, t
  <2>4. u = Y \o t
    BY <2>2, <2>3, AppendedPointwise
  <2> QED
    BY <2>4 DEF u, t
<1>11. Fifo!LastOf(Z, num) = Y
  <2> DEFINE L == Fifo!LastOf(Z, num)
  <2>1. num = Lesser(Len(Z), num)
    BY <1>1, <1>2, <1>9 DEF Lesser
  <2>2. L \in Seq(Char) /\ Len(L) = num /\ \A k \in 1 .. num : L[k] = Z[r - num + k]
    <3> HIDE DEF Z
    <3>1. num \in Nat /\ Z \in Seq(Char) /\ num = Lesser(Len(Z), num)
      BY <1>2, <1>9, <2>1
    <3>2. Fifo!LastOf(Z, num) \in Seq(Char)
      BY <3>1, LastOfElements
    <3>3. Len(Fifo!LastOf(Z, num)) = num
      BY <3>1, LastOfElements
    <3>4. \A k \in 1 .. num : Fifo!LastOf(Z, num)[k] = Z[Len(Z) - num + k]
      BY <3>1, LastOfElements
    <3> QED
      BY <1>9, <3>2, <3>3, <3>4
  <2> HIDE DEF X, Y, Z, L
  <2>3. ASSUME NEW k \in 1 .. num PROVE L[k] = Y[k]
    <3>1. r - num + k \in 1 .. r /\ r - num + k > Len(X) /\ r - num + k - Len(X) = k
      BY <1>1, <1>2, <1>9, <2>3
    <3> DEFINE j == r - num + k
    <3>j. j \in 1 .. Len(X) + Len(Y) /\ ~(j <= Len(X)) /\ j - Len(X) = k
      BY <1>1, <1>2, <1>9, <3>1
    <3> HIDE DEF j
    <3>2. (X \o Y)[j] = Y[k]
      BY <1>9, <3>j, ConcatProperties
    <3> QED
      BY <1>8, <2>2, <3>2 DEF j
  <2> QED
    BY <1>9, <2>2, <2>3, SeqEqual DEF L
<1>12. SubSeq(Z, 1, r - num) = X
  <2> HIDE DEF X, Y, Z
  <2>1. /\ SubSeq(Z, 1, r - num) \in Seq(Char) /\ Len(SubSeq(Z, 1, r - num)) = r - num
        /\ \A k \in 1 .. r - num : SubSeq(Z, 1, r - num)[k] = X[k]
    BY <1>1, <1>2, <1>8, <1>9
  <2> QED
    BY <1>9, <2>1, SeqEqual
<1> QED
  BY <1>10, <1>11, <1>12

-----------------------------------------------------------------------------
(* Each method is a step of the queue.                                       *)

LEMMA ArrayIsPut ==
  ASSUME Held(lb, retained), Held(lb', retained'), NEW data \in Chunks, PushArray(data)
  PROVE  Fifo!Put(data)
<1> DEFINE n == Lesser(Len(data), BufferSize - lb.availableData)
           p == LinePushMany(lb, data)
           free == BufferSize - lb.availableData - n
<1>1. lb \in Rings(Char, BufferSize) /\ data \in Seq(Char)
  BY DEF Held, Chunks
<1>2. /\ BufferSize \in Nat \ {0} /\ lb.availableData \in 0 .. BufferSize
      /\ lb.bufferSize = BufferSize /\ retained \in 0 .. BufferSize - lb.availableData
      /\ Contents(lb) \in Seq(Char) /\ Len(Contents(lb)) = lb.availableData
      /\ lb.buffer \in [0 .. BufferSize - 1 -> Char]
  BY <1>1, RingParts DEF Held
<1>3. n \in 0 .. BufferSize - lb.availableData /\ n \in Nat
  BY <1>1, <1>2 DEF Lesser
<1>4. /\ p \in Rings(Char, BufferSize) /\ p.availableData = lb.availableData + n
      /\ Contents(p) = Contents(lb) \o SubSeq(data, 1, n)
  <2>1. n = Lesser(Len(data), BufferSize - lb.availableData)
    OBVIOUS
  <2>2. BufferSize < LinesModulus
    BY Sizes
  <2> HIDE DEF n
  <2>3. BufferSize \in Nat \ {0}
    BY <1>2
  <2>4. p \in Rings(Char, BufferSize)
    BY <1>1, <2>1, <2>2, <2>3, LinePushManyAppends
  <2>5. p.availableData = lb.availableData + n
    BY <1>1, <2>1, <2>2, <2>3, LinePushManyAppends
  <2>6. Contents(p) = Contents(lb) \o SubSeq(data, 1, n)
    <3> DEFINE x == SubSeq(data, 1, n)
    <3>1. x = SubSeq(data, 1, n) /\ n \in Nat
      BY <1>3
    <3> HIDE DEF x
    <3> SUFFICES Contents(LinePushMany(lb, data)) = Contents(lb) \o x
      BY <3>1
    <3> QED
      BY <1>1, <2>1, <2>2, <2>3, <3>1, LinePushManyAppends
  <2> QED
    BY <2>4, <2>5, <2>6
<1>5. Accepted(lb, data) = n
  BY <1>1, <1>2, PushManyAppends
<1>6. /\ p.readHead = lb.readHead
      /\ p.buffer = [i \in DOMAIN lb.buffer |->
                       IF Offset(lb, i) < n THEN data[Offset(lb, i) + 1] ELSE lb.buffer[i]]
  BY <1>1, <1>5 DEF LinePushMany, PushMany, Rings, LineBuffers
<1>7. \A i \in 0 .. BufferSize - 1 : Offset(lb, i) >= n => p.buffer[i] = lb.buffer[i]
  <2>1. \A i \in 0 .. BufferSize - 1 : Offset(lb, i) \in Int
    BY <1>1, RingParts DEF Offset
  <2> HIDE DEF n, p
  <2> QED
    BY <1>2, <1>3, <1>6, <2>1
<1>8. lb' = p /\ retained' = Lesser(retained, BufferSize - p.availableData) /\ out' = <<>>
  BY DEF PushArray, Retain
<1>9. BufferSize - p.availableData = free /\ free \in Nat
  BY <1>2, <1>3, <1>4
<1> HIDE DEF n, p
<1>10. TakenOf(lb', retained') = Fifo!LastOf(TakenOf(lb, retained), free)
  <2>1. Held(p, retained') /\ retained' = Lesser(retained, free)
    BY <1>8, <1>9
  <2>2. p \in Rings(Char, BufferSize) /\ p.readHead = lb.readHead
    BY <1>4, <1>6
  <2>3. TakenOf(p, retained') = Fifo!LastOf(TakenOf(lb, retained), free)
    BY <1>3, <1>7, <2>1, <2>2, TakenAfterPush
  <2> QED
    BY <1>8, <2>3
<1>11. Taken' = Fifo!LastOf(Taken, free)
  <2>1. Taken' = TakenOf(lb', retained')
    BY DEF Taken, TakenSlot, TakenOf
  <2> QED
    BY <1>10, <2>1, TakenIsTakenOf
<1>12. Fifo!Least(Len(data), BufferSize - Len(Contents(lb))) = n
  BY <1>2 DEF n, Lesser, Fifo!Least
<1>13. Contents(lb)' = Contents(lb) \o SubSeq(data, 1, n)
  BY <1>4, <1>8 DEF Contents, Slot
<1> QED
  BY <1>2, <1>8, <1>11, <1>12, <1>13 DEF Fifo!Put

LEMMA CharIsPut ==
  ASSUME Held(lb, retained), Held(lb', retained'), NEW c \in Char, PushChar(c)
  PROVE  Fifo!Put(<<c>>)
<1> DEFINE p == LinePush(lb, c)
           free == BufferSize - lb.availableData - 1
<1>1. lb \in Rings(Char, BufferSize) /\ ~IsFull(lb) /\ <<c>> \in Seq(Char) /\ Len(<<c>>) = 1
  BY DEF Held, PushChar
<1>2. /\ BufferSize \in Nat \ {0} /\ lb.availableData \in 0 .. BufferSize - 1
      /\ lb.bufferSize = BufferSize /\ retained \in 0 .. BufferSize - lb.availableData
      /\ Contents(lb) \in Seq(Char) /\ Len(Contents(lb)) = lb.availableData
      /\ lb.buffer \in [0 .. BufferSize - 1 -> Char] /\ lb.writeHead \in 0 .. BufferSize - 1
  BY <1>1, RingParts DEF Held, IsFull
<1>3. /\ p \in Rings(Char, BufferSize) /\ p.availableData = lb.availableData + 1
      /\ Contents(p) = Append(Contents(lb), c)
  BY <1>1, <1>2, LinePushAppends, Sizes
<1>4. p.readHead = lb.readHead /\ p.buffer = [lb.buffer EXCEPT ![lb.writeHead] = c]
  BY <1>1 DEF LinePush, Push, Rings, LineBuffers
<1>5. \A i \in 0 .. BufferSize - 1 : Offset(lb, i) >= 1 => p.buffer[i] = lb.buffer[i]
  <2>1. \A i \in 0 .. BufferSize - 1 : Offset(lb, i) >= 1 => i # lb.writeHead
    BY <1>2 DEF Offset
  <2> HIDE DEF p
  <2> QED
    BY <1>2, <1>4, <2>1
<1>6. lb' = p /\ retained' = Lesser(retained, BufferSize - p.availableData) /\ out' = <<>>
  BY DEF PushChar, Retain
<1>7. BufferSize - p.availableData = free /\ free \in Nat
      /\ 1 \in 0 .. BufferSize - lb.availableData
  BY <1>2, <1>3
<1> HIDE DEF p
<1>8. TakenOf(lb', retained') = Fifo!LastOf(TakenOf(lb, retained), free)
  <2> DEFINE n == 1
  <2>1. /\ Held(p, retained') /\ n \in 0 .. BufferSize - lb.availableData
        /\ retained' = Lesser(retained, BufferSize - lb.availableData - n)
        /\ \A i \in 0 .. BufferSize - 1 : Offset(lb, i) >= n => p.buffer[i] = lb.buffer[i]
        /\ free = BufferSize - lb.availableData - n
    BY <1>5, <1>6, <1>7
  <2> HIDE DEF n, free
  <2>2. TakenOf(p, retained')
        = Fifo!LastOf(TakenOf(lb, retained), BufferSize - lb.availableData - n)
    <3>1. p \in Rings(Char, BufferSize) /\ p.readHead = lb.readHead
      BY <1>3, <1>4
    <3> QED
      BY <2>1, <3>1, TakenAfterPush
  <2> QED
    BY <1>6, <2>1, <2>2
<1>9. Taken' = Fifo!LastOf(Taken, free)
  <2>1. Taken' = TakenOf(lb', retained')
    BY DEF Taken, TakenSlot, TakenOf
  <2> QED
    BY <1>8, <2>1, TakenIsTakenOf
<1>10. Fifo!Least(Len(<<c>>), BufferSize - Len(Contents(lb))) = 1
  BY <1>1, <1>2 DEF Fifo!Least
<1>11. Contents(lb)' = Contents(lb) \o SubSeq(<<c>>, 1, 1)
  <2>1. SubSeq(<<c>>, 1, 1) = <<c>>
    BY <1>1, SubSeqFull
  <2>2. Append(Contents(lb), c) = Contents(lb) \o <<c>>
    BY <1>2, AppendIsConcat
  <2>3. Contents(lb)' = Contents(p)
    BY <1>6 DEF Contents, Slot
  <2> QED
    BY <1>3, <2>1, <2>2, <2>3
<1> QED
  BY <1>2, <1>6, <1>9, <1>10, <1>11 DEF Fifo!Put

(* Pulling n elements, of which the caller is shown some.                    *)
LEMMA PullIsTake ==
  ASSUME Held(lb, retained), Held(lb', retained'),
         NEW n \in 0 .. lb.availableData, NEW shown \in 0 .. n,
         lb'.buffer = lb.buffer, lb'.readHead = Advance(lb.readHead, n, BufferSize),
         Contents(lb)' = SubSeq(Contents(lb), n + 1, Len(Contents(lb))),
         retained' = retained + n, out' = SubSeq(Contents(lb), 1, shown)
  PROVE  Fifo!Take(n, shown)
<1>1. Len(Contents(lb)) = lb.availableData
  BY RingParts DEF Held
<1>2. TakenOf(lb', retained') = TakenOf(lb, retained) \o SubSeq(Contents(lb), 1, n)
  BY TakenAfterPull
<1>3. Taken' = TakenOf(lb', retained')
  BY DEF Taken, TakenSlot, TakenOf
<1> QED
  BY <1>1, <1>2, <1>3, TakenIsTakenOf DEF Fifo!Take

LEMMA ArrayIsTake ==
  ASSUME Held(lb, retained), Held(lb', retained'),
         NEW m \in Nat, NEW n \in Nat, n = Lesser(m, lb.availableData),
         NEW shown \in 0 .. n, lb' = LinePullMany(lb, m),
         retained' = retained + Len(Pulled(lb, m)), out' = SubSeq(Pulled(lb, m), 1, shown)
  PROVE  n \in 0 .. lb.availableData /\ Fifo!Take(n, shown)
<1> DEFINE s == Contents(lb)
<1>1. /\ lb \in Rings(Char, BufferSize) /\ lb.availableData \in 0 .. BufferSize
      /\ s \in Seq(Char) /\ Len(s) = lb.availableData /\ BufferSize \in Nat \ {0}
      /\ lb.bufferSize = BufferSize
  BY RingParts DEF Held
<1>2. n \in 0 .. lb.availableData
  BY <1>1 DEF Lesser
<1>3. lb'.buffer = lb.buffer /\ lb'.readHead = Advance(lb.readHead, n, BufferSize)
  BY <1>1 DEF LinePullMany, PullMany, Rings, LineBuffers
<1>4. Pulled(lb, m) = SubSeq(s, 1, n)
  BY DEF Pulled
<1>5. Contents(LinePullMany(lb, m)) = SubSeq(s, n + 1, Len(s))
  <2> DEFINE x == SubSeq(s, n + 1, Len(s))
  <2>1. x = SubSeq(Contents(lb), n + 1, Len(Contents(lb))) /\ BufferSize < LinesModulus
    BY Sizes
  <2> HIDE DEF x
  <2> SUFFICES Contents(LinePullMany(lb, m)) = x
    BY DEF x
  <2> HIDE DEF s
  <2> QED
    BY <1>1, <2>1, LinePullManyTakes, SMTT(40)
<1>6. Contents(lb)' = SubSeq(s, n + 1, Len(s))
  BY <1>5 DEF Contents, Slot
<1> HIDE DEF s
<1>7. Len(SubSeq(s, 1, n)) = n /\ SubSeq(SubSeq(s, 1, n), 1, shown) = SubSeq(s, 1, shown)
  <2>1. SubSeq(s, 1, n) \in Seq(Char) /\ Len(SubSeq(s, 1, n)) = n
    BY <1>1, <1>2
  <2>2. CASE shown = 0
    BY <2>1, <2>2, SubSeqEmpty
  <2>3. CASE shown # 0
    <3>1. 1 \in 1 .. Len(s) /\ n \in 1 .. Len(s) /\ shown \in 1 .. n - 1 + 1 /\ 1 \in 1 .. n - 1 + 1
      BY <1>1, <1>2, <2>3
    <3>2. SubSeq(SubSeq(s, 1, n), 1, shown) = SubSeq(s, 1 + 1 - 1, 1 + shown - 1)
      BY <1>1, <3>1, SubSeqOfSubSeq
    <3> QED
      BY <2>1, <3>2
  <2> QED
    BY <2>1, <2>2, <2>3
<1>8. retained' = retained + n /\ out' = SubSeq(s, 1, shown)
  BY <1>4, <1>7
<1> QED
  BY <1>2, <1>3, <1>6, <1>8, PullIsTake DEF s

LEMMA CharIsTake ==
  ASSUME Held(lb, retained), Held(lb', retained'), PullChar
  PROVE  Fifo!Take(1, 1) /\ lb.availableData # 0
<1> DEFINE s == Contents(lb)
           q == LinePull(lb)
           t == Contents(q)
           c == Read(lb)
<1>1. /\ lb \in Rings(Char, BufferSize) /\ lb.availableData \in 1 .. BufferSize
      /\ s \in Seq(Char) /\ Len(s) = lb.availableData /\ BufferSize \in Nat \ {0}
      /\ lb.bufferSize = BufferSize /\ ~IsEmpty(lb)
  BY RingParts DEF Held, PullChar, IsEmpty
<1>2. lb'.buffer = lb.buffer /\ lb'.readHead = Advance(lb.readHead, 1, BufferSize)
  BY <1>1 DEF PullChar, LinePull, Pull, Rings, LineBuffers
<1>3. q \in Rings(Char, BufferSize) /\ c \in Char /\ s = <<c>> \o t
  <2>1. BufferSize < LinesModulus
    BY Sizes
  <2> QED
    BY <1>1, <2>1, LinePullTakes
<1>4. t \in Seq(Char)
  BY <1>3, RingParts
<1>5. Contents(lb)' = t /\ retained' = retained + 1 /\ out' = <<c>>
  BY DEF PullChar, Contents, Slot
<1> HIDE DEF s, q, t, c
<1>6. t = SubSeq(s, 2, Len(s)) /\ <<c>> = SubSeq(s, 1, 1)
  <2>1. s # <<>> /\ s[1] = c
    BY <1>1, <1>3, <1>4
  <2>2. SubSeq(s, 1, 1) = <<s[1]>> /\ s = <<s[1]>> \o SubSeq(s, 2, Len(s))
    BY <1>1, <2>1, FirstAndRest
  <2>3. Len(t) = Len(s) - 1 /\ \A k \in 1 .. Len(t) : t[k] = s[k + 1]
    BY <1>3, <1>4
  <2>4. /\ SubSeq(s, 2, Len(s)) \in Seq(Char) /\ Len(SubSeq(s, 2, Len(s))) = Len(s) - 1
        /\ \A k \in 1 .. Len(s) - 1 : SubSeq(s, 2, Len(s))[k] = s[k + 1]
    BY <1>1
  <2>5. t = SubSeq(s, 2, Len(s))
    BY <1>4, <2>3, <2>4, SeqEqual
  <2> QED
    BY <2>1, <2>2, <2>5
<1>7. 1 \in 0 .. lb.availableData /\ 1 \in 0 .. 1 /\ 1 + 1 = 2
  BY <1>1
<1> QED
  BY <1>1, <1>2, <1>5, <1>6, <1>7, PullIsTake DEF s

LEMMA RewindIsPutBack ==
  ASSUME Held(lb, retained), NEW num \in 1 .. BufferSize, Rewind(num)
  PROVE  Fifo!PutBack(num)
<1>1. num \in 1 .. retained /\ retained \in Nat
  BY RingParts DEF Held, Rewind
<1>2. /\ Contents(RewindReadHead(lb, num)) = Fifo!LastOf(TakenOf(lb, retained), num) \o Contents(lb)
      /\ TakenOf(RewindReadHead(lb, num), retained - num)
         = SubSeq(TakenOf(lb, retained), 1, retained - num)
  BY <1>1, AfterRewind
<1>3. lb' = RewindReadHead(lb, num) /\ retained' = retained - num /\ out' = <<>>
  BY DEF Rewind
<1>4. Contents(lb)' = Contents(RewindReadHead(lb, num))
  BY <1>3 DEF Contents, Slot
<1>5. Taken' = TakenOf(RewindReadHead(lb, num), retained - num)
  BY <1>3 DEF Taken, TakenSlot, TakenOf
<1>6. Len(TakenOf(lb, retained)) = retained
  BY TakenType
<1> QED
  BY <1>1, <1>2, <1>3, <1>4, <1>5, <1>6, TakenIsTakenOf DEF Fifo!PutBack

LEMMA FlushIsClear ==
  ASSUME Held(lb, retained), FlushAll
  PROVE  Fifo!Clear
<1>1. Contents(LineFlush(lb)) = <<>>
  BY LineFlushEmpties, Sizes DEF Held
<1>2. lb' = LineFlush(lb) /\ retained' = 0 /\ out' = <<>>
  BY DEF FlushAll
<1>3. Contents(lb)' = <<>>
  BY <1>1, <1>2 DEF Contents, Slot
<1>4. Taken' = <<>>
  BY <1>2 DEF Taken, TakenSlot
<1> QED
  BY <1>2, <1>3, <1>4 DEF Fifo!Clear

LEMMA StepIsFifo ==
  ASSUME Held(lb, retained), Held(lb', retained'), Next
  PROVE  Fifo!Next
<1>1. /\ lb \in Rings(Char, BufferSize) /\ lb.availableData \in 0 .. BufferSize
      /\ BufferSize \in Nat \ {0}
  BY RingParts DEF Held
<1>2. ASSUME NEW data \in Chunks, PushArray(data) PROVE Fifo!Next
  <2>1. data \in Fifo!Chunks
    BY DEF Chunks, Fifo!Chunks
  <2> QED
    BY <1>2, <2>1, ArrayIsPut DEF Fifo!Next
<1>3. ASSUME NEW c \in Char, PushChar(c) PROVE Fifo!Next
  <2>1. <<c>> \in [1 .. 1 -> Char]
    OBVIOUS
  <2>2. 1 \in 0 .. MaxChunk
    BY BufferAssumption
  <2>3. <<c>> \in Fifo!Chunks
    BY <2>1, <2>2 DEF Fifo!Chunks
  <2> QED
    BY <1>3, <2>3, CharIsPut DEF Fifo!Next
<1>take. ASSUME NEW m \in Nat, NEW n \in Nat, n = Lesser(m, lb.availableData),
                NEW shown \in 0 .. n, lb' = LinePullMany(lb, m),
                retained' = retained + Len(Pulled(lb, m)),
                out' = SubSeq(Pulled(lb, m), 1, shown)
         PROVE  Fifo!Next
  <2>1. n \in 0 .. lb.availableData /\ Fifo!Take(n, shown)
    BY <1>take, ArrayIsTake
  <2>2. n \in 0 .. BufferSize
    BY <1>1, <2>1
  <2> QED
    BY <2>1, <2>2 DEF Fifo!Next
<1>pulled. ASSUME NEW m \in Nat, NEW n \in Nat, n = Lesser(m, lb.availableData)
           PROVE  /\ Pulled(lb, m) \in Seq(Char) /\ Len(Pulled(lb, m)) = n
                  /\ SubSeq(Pulled(lb, m), 1, n) = Pulled(lb, m)
  <2>1. Contents(lb) \in Seq(Char) /\ Len(Contents(lb)) = lb.availableData
    BY <1>1, RingParts
  <2>2. Pulled(lb, m) = SubSeq(Contents(lb), 1, n) /\ n \in 0 .. lb.availableData
    BY <1>1, <1>pulled DEF Pulled, Lesser
  <2>3. Pulled(lb, m) \in Seq(Char) /\ Len(Pulled(lb, m)) = n
    BY <1>1, <2>1, <2>2
  <2> QED
    BY <2>3, SubSeqFull
<1>4. ASSUME NEW size \in 0 .. BufferSize, PullArray(size) PROVE Fifo!Next
  <2> DEFINE n == Lesser(size, lb.availableData)
  <2>1. size \in Nat /\ n \in Nat /\ n \in 0 .. n
    BY <1>1 DEF Lesser
  <2>2. n = Lesser(size, lb.availableData)
    OBVIOUS
  <2> HIDE DEF n
  <2>3. SubSeq(Pulled(lb, size), 1, n) = Pulled(lb, size)
    BY <1>pulled, <2>1, <2>2
  <2>4. /\ lb' = LinePullMany(lb, size) /\ retained' = retained + Len(Pulled(lb, size))
        /\ out' = SubSeq(Pulled(lb, size), 1, n)
    BY <1>4, <2>3 DEF PullArray
  <2> QED
    BY <1>take, <2>1, <2>2, <2>4
<1>5. ASSUME PullChar PROVE Fifo!Next
  <2>1. Fifo!Take(1, 1)
    BY <1>5, CharIsTake
  <2>2. 1 \in 0 .. BufferSize /\ 1 \in 0 .. 1
    BY <1>1
  <2> QED
    BY <2>1, <2>2 DEF Fifo!Next
<1>6. ASSUME NEW size \in 0 .. BufferSize, ReadLine(size) PROVE Fifo!Next
  <2> DEFINE n == LineLength(lb)
             shown == Lesser(size, n)
  <2>1. n \in 0 .. lb.availableData
    BY <1>1, LineLengthBound
  <2>2. /\ lb' = LinePullMany(lb, n) /\ retained' = retained + n
        /\ out' = SubSeq(Pulled(lb, n), 1, shown)
    BY <1>6 DEF ReadLine
  <2> HIDE DEF n
  <2>3. n \in Nat /\ n = Lesser(n, lb.availableData) /\ shown \in 0 .. n
    BY <1>1, <2>1 DEF Lesser
  <2> HIDE DEF shown
  <2>4. Len(Pulled(lb, n)) = n
    BY <1>pulled, <2>3
  <2>5. retained' = retained + Len(Pulled(lb, n))
    BY <2>2, <2>4
  <2> QED
    BY <1>take, <2>2, <2>3, <2>5
<1>7. ASSUME FlushAll PROVE Fifo!Next
  BY <1>7, FlushIsClear DEF Fifo!Next
<1>8. ASSUME NEW num \in 1 .. BufferSize, Rewind(num) PROVE Fifo!Next
  BY <1>1, <1>8, RewindIsPutBack DEF Fifo!Next
<1> QED
  BY <1>2, <1>3, <1>4, <1>5, <1>6, <1>7, <1>8 DEF Next, LineNext

(* The ring of slots of circularbuffer.h implements the queue of FifoBuffer, *)
(* for every size, content and sequence of calls: what is pushed comes out   *)
(* once and in order however the heads wrap, and a rewind delivers again     *)
(* exactly the elements pulled last.                                         *)
THEOREM BufferIsFifo == Spec => ImplementsFifo
<1> DEFINE H == Held(lb, retained)
<1>1. Init => H /\ Fifo!Init
  <2> SUFFICES ASSUME Init PROVE H /\ Fifo!Init
    OBVIOUS
  <2>1. H
    BY InitHeld
  <2>2. Contents(lb) = <<>>
    BY NewLineBufferIsRing, Sizes DEF Init, Slots
  <2>3. Taken = <<>>
    BY DEF Init, Taken
  <2> QED
    BY <2>1, <2>2, <2>3 DEF Init, Fifo!Init
<1>2. H /\ [Next]_vars => H' /\ [Fifo!Next]_<<Contents(lb), Taken, out>>
  <2> SUFFICES ASSUME H, [Next]_vars
               PROVE  H' /\ [Fifo!Next]_<<Contents(lb), Taken, out>>
    OBVIOUS
  <2>1. CASE Next
    <3>1. H'
      BY <2>1, LineNextStep, RewindStep DEF Next
    <3> QED
      BY <2>1, <3>1, StepIsFifo
  <2>2. CASE UNCHANGED vars
    BY <2>2 DEF vars, Held, Contents, Slot, Taken, TakenSlot
  <2> QED
    BY <2>1, <2>2
<1> HIDE DEF H
<1> QED
  BY <1>1, <1>2, PTL DEF Spec, ImplementsFifo, Fifo!Spec
=============================================================================
