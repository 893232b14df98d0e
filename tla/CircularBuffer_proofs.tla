------------------------ MODULE CircularBuffer_proofs ------------------------
(***************************************************************************)
(* What the methods of CircularBuffer and LineCircularBuffer do to the     *)
(* sequence of elements that can be pulled, for every size and every       *)
(* content.                                                                *)
(***************************************************************************)
EXTENDS CircularBuffer, FiniteSetTheorems, SequenceTheorems, TLAPS

Rings(C, size) == {b \in LineBuffers(C, size) : HeadsApart(b)}

(* Counting newlines gives a natural number no larger than the length.      *)
LEMMA NewLinesBound ==
  ASSUME NEW S, NEW s \in Seq(S)
  PROVE  NewLinesIn(s) \in 0 .. Len(s)
<1> DEFINE Ends == {k \in DOMAIN s : s[k] = NewLine}
<1>0. Len(s) \in Nat
  OBVIOUS
<1>1. IsFiniteSet(1 .. Len(s)) /\ Cardinality(1 .. Len(s)) = Len(s)
  <2>1. /\ IsFiniteSet(1 .. Len(s))
        /\ Cardinality(1 .. Len(s)) = IF 1 > Len(s) THEN 0 ELSE Len(s) - 1 + 1
    BY <1>0, FS_Interval
  <2> QED BY <1>0, <2>1
<1>2. Ends \subseteq 1 .. Len(s)
  OBVIOUS
<1>3. Cardinality(Ends) \in Nat /\ Cardinality(Ends) <= Len(s)
  BY <1>1, <1>2, FS_Subset, FS_CardinalityType
<1> QED BY <1>3 DEF NewLinesIn

(* A sequence that agrees with s and then with t is s \o t.                  *)
LEMMA AppendedPointwise ==
  ASSUME NEW S, NEW s \in Seq(S), NEW t \in Seq(S), NEW u \in Seq(S),
         Len(u) = Len(s) + Len(t),
         \A k \in 1 .. Len(u) : u[k] = IF k <= Len(s) THEN s[k] ELSE t[k - Len(s)]
  PROVE  u = s \o t
<1>1. s \o t \in Seq(S) /\ Len(s \o t) = Len(s) + Len(t)
  OBVIOUS
<1>2. \A k \in 1 .. Len(u) : (s \o t)[k] = u[k]
  OBVIOUS
<1> QED BY <1>1, <1>2, SeqEqual

(* What can be pulled is a sequence of availableData characters.            *)
LEMMA ContentsType ==
  ASSUME NEW C, NEW size \in Nat \ {0}, NEW b \in LineBuffers(C, size)
  PROVE  Contents(b) \in Seq(C) /\ Len(Contents(b)) = b.availableData
<1>1. \A k \in 1 .. b.availableData : Slot(b, k) \in 0 .. size - 1
  BY DEF LineBuffers, Slot, Advance
<1>2. Contents(b) \in [1 .. b.availableData -> C]
  BY <1>1 DEF LineBuffers, Contents
<1> QED BY <1>2 DEF LineBuffers, Contents

(* Heads that advance twice.                                                *)
LEMMA AdvanceAdds ==
  ASSUME NEW size \in Nat \ {0}, NEW r \in 0 .. size - 1,
         NEW i \in 0 .. size, NEW j \in 0 .. size - i
  PROVE  /\ Advance(r, i, size) \in 0 .. size - 1
         /\ Advance(Advance(r, i, size), j, size) = Advance(r, i + j, size)
BY DEF Advance

(* The first element of a sequence and the others.                          *)
LEMMA FirstAndRest ==
  ASSUME NEW S, NEW s \in Seq(S), s # <<>>
  PROVE  /\ SubSeq(s, 1, 1) = <<s[1]>>
         /\ s = <<s[1]>> \o SubSeq(s, 2, Len(s))
<1>1. Len(s) \in Nat /\ 1 \in 1 .. Len(s) /\ Len(s) \in 1 .. Len(s)
  BY EmptySeq
<1>2. s[1] \in S
  BY <1>1, ElementOfSeq
<1>3. SubSeq(s, 1, 1) = <<s[1]>> \o SubSeq(s, 2, 1)
  BY <1>1, SubSeqRecursiveFirst
<1>4. SubSeq(s, 2, 1) = <<>> /\ <<s[1]>> \o <<>> = <<s[1]>>
  BY <1>2, SubSeqEmpty
<1>5. SubSeq(s, 1, Len(s)) = <<s[1]>> \o SubSeq(s, 2, Len(s))
  BY <1>1, SubSeqRecursiveFirst
<1>6. SubSeq(s, 1, Len(s)) = s
  BY SubSeqFull
<1> QED BY <1>3, <1>4, <1>5, <1>6

(* How far the slots of the elements held, and of those pushed next, are     *)
(* from the write head.                                                      *)
LEMMA SlotOffsets ==
  ASSUME NEW size \in Nat \ {0}, NEW r \in 0 .. size - 1, NEW a \in 0 .. size,
         NEW n \in 0 .. size - a, NEW k \in 1 .. a + n,
         NEW w, w = Advance(r, a, size),
         NEW i, i = Advance(r, k - 1, size),
         NEW offset, offset = IF i >= w THEN i - w ELSE i - w + size
  PROVE  /\ i \in 0 .. size - 1
         /\ k <= a => ~(offset < n)
         /\ k > a => offset = k - a - 1
<1>1. r \in Int /\ a \in Int /\ n \in Int /\ k \in Int /\ size \in Int
  OBVIOUS
<1>2. /\ 0 <= r /\ r < size /\ 0 <= a /\ a <= size /\ 0 <= n /\ n <= size - a
      /\ 1 <= k /\ k <= a + n
  OBVIOUS
<1>3. w = (IF r + a >= size THEN r + a - size ELSE r + a)
  BY DEF Advance
<1>4. i = (IF r + k - 1 >= size THEN r + k - 1 - size ELSE r + k - 1)
  BY <1>1 DEF Advance
<1> QED BY ONLY <1>1, <1>2, <1>3, <1>4, offset = (IF i >= w THEN i - w ELSE i - w + size)

(* push(data, size): as many elements as there is room for are appended.    *)
LEMMA PushManyAppends ==
  ASSUME NEW C, NEW size \in Nat \ {0}, NEW b \in Rings(C, size), NEW data \in Seq(C)
  PROVE  LET n == Lesser(Len(data), size - b.availableData)
             p == PushMany(b, data)
         IN  /\ Accepted(b, data) = n
             /\ p \in Rings(C, size)
             /\ p.availableData = b.availableData + n
             /\ p.bufferedLines = b.bufferedLines
             /\ Contents(p) = Contents(b) \o SubSeq(data, 1, n)
<1> DEFINE n == Lesser(Len(data), size - b.availableData)
           p == PushMany(b, data)
           w == b.writeHead
           r == b.readHead
           a == b.availableData
<1>1. /\ b \in LineBuffers(C, size)
      /\ w \in 0 .. size - 1 /\ r \in 0 .. size - 1 /\ a \in 0 .. size
      /\ b.bufferSize = size /\ w = Advance(r, a, size)
      /\ b.buffer \in [0 .. size - 1 -> C]
  BY DEF Rings, LineBuffers, HeadsApart
<1>2. Accepted(b, data) = n /\ n \in 0 .. size - a /\ n \in 0 .. Len(data)
  BY <1>1 DEF Accepted, SpaceAvailable, WrapSub, Lesser
<1> DEFINE buf == [i \in 0 .. size - 1 |->
                     IF Offset(b, i) < n THEN data[Offset(b, i) + 1] ELSE b.buffer[i]]
<1>3. p = [b EXCEPT !.buffer = buf, !.writeHead = Advance(w, n, size),
                    !.availableData = a + n]
  BY <1>1, <1>2 DEF PushMany
<1>4. \A i \in 0 .. size - 1 : Offset(b, i) \in 0 .. size - 1
  BY <1>1 DEF Offset
<1>5. buf \in [0 .. size - 1 -> C]
  BY <1>1, <1>2, <1>4, SMTT(40)
<1>6. Advance(w, n, size) \in 0 .. size - 1
  <2> HIDE DEF w
  <2>1. n \in 0 .. size
    BY <1>1, <1>2
  <2> QED BY <1>1, <2>1, SMTT(40) DEF Advance
<1> HIDE DEF n, buf, p
<1>7. /\ p \in LineBuffers(C, size)
      /\ p.buffer = buf /\ p.writeHead = Advance(w, n, size) /\ p.readHead = r
      /\ p.availableData = a + n /\ p.bufferSize = size
      /\ p.bufferedLines = b.bufferedLines
  <2>1. a + n \in 0 .. size
    BY <1>1, <1>2
  <2> QED BY <1>1, <1>3, <1>5, <1>6, <2>1 DEF LineBuffers
<1>8. HeadsApart(p)
  BY <1>1, <1>2, <1>7, SMTT(40) DEF HeadsApart, Advance
<1>9. Contents(p) = Contents(b) \o SubSeq(data, 1, n)
  <2>1. ASSUME NEW k \in 1 .. a + n
        PROVE  Contents(p)[k] = IF k <= a THEN Contents(b)[k] ELSE data[k - a]
    <3> DEFINE i == Advance(r, k - 1, size)
    <3>1. /\ i \in 0 .. size - 1
          /\ k <= a => ~(Offset(b, i) < n)
          /\ k > a => Offset(b, i) = k - a - 1
      BY <1>1, <1>2, SlotOffsets DEF Offset
    <3>2. Contents(p)[k] = buf[i]
      BY <1>7 DEF Contents, Slot
    <3>3. k <= a => Contents(b)[k] = b.buffer[i]
      BY <1>1 DEF Contents, Slot
    <3>4. k > a => Offset(b, i) < n /\ Offset(b, i) + 1 = k - a
      BY <1>1, <1>2, <3>1
    <3> HIDE DEF i
    <3> QED BY <1>1, <1>2, <3>1, <3>2, <3>3, <3>4 DEF buf
  <2>2. /\ Contents(p) \in Seq(C) /\ Len(Contents(p)) = a + n
        /\ Contents(b) \in Seq(C) /\ Len(Contents(b)) = a
    BY <1>1, <1>7, ContentsType
  <2>3. /\ SubSeq(data, 1, n) \in Seq(C) /\ Len(SubSeq(data, 1, n)) = n
        /\ \A k \in 1 .. n : SubSeq(data, 1, n)[k] = data[k]
    BY <1>2
  <2>4. /\ Len(Contents(p)) = Len(Contents(b)) + Len(SubSeq(data, 1, n))
        /\ \A k \in 1 .. Len(Contents(p)) : Contents(p)[k] =
             IF k <= Len(Contents(b)) THEN Contents(b)[k]
                                      ELSE SubSeq(data, 1, n)[k - Len(Contents(b))]
    <3>1. a \in Nat /\ n \in Nat
      BY <1>1, <1>2
    <3>2. \A k \in 1 .. a + n : k > a => k - a \in 1 .. n
      BY <3>1
    <3> QED BY <2>1, <2>2, <2>3, <3>1, <3>2
  <2> QED BY <2>2, <2>3, <2>4, AppendedPointwise
<1> QED BY <1>2, <1>7, <1>8, <1>9 DEF Rings, p, n

WithLines(b, v) == [b EXCEPT !.bufferedLines = v]

(* The line counter is apart from everything else.                          *)
LEMMA CounterApart ==
  ASSUME NEW C, NEW size \in Nat \ {0}, NEW b \in Rings(C, size),
         NEW v \in 0 .. LinesModulus - 1
  PROVE  /\ WithLines(b, v) \in Rings(C, size)
         /\ WithLines(b, v).bufferedLines = v
         /\ WithLines(b, v).availableData = b.availableData
         /\ Contents(WithLines(b, v)) = Contents(b)
<1>1. b \in LineBuffers(C, size) /\ HeadsApart(b)
  BY DEF Rings
<1> DEFINE q == WithLines(b, v)
<1>2. /\ q \in LineBuffers(C, size)
      /\ q.buffer = b.buffer /\ q.writeHead = b.writeHead /\ q.readHead = b.readHead
      /\ q.availableData = b.availableData /\ q.bufferSize = b.bufferSize
      /\ q.bufferedLines = v
  BY <1>1 DEF LineBuffers, WithLines
<1> HIDE DEF q
<1>3. HeadsApart(q) /\ Contents(q) = Contents(b)
  BY <1>1, <1>2 DEF HeadsApart, Contents, Slot
<1> QED BY <1>2, <1>3 DEF Rings, q

(* push(char) with room left: the character is appended.                    *)
LEMMA PushAppends ==
  ASSUME NEW C, NEW size \in Nat \ {0}, NEW b \in Rings(C, size), NEW c \in C,
         ~IsFull(b)
  PROVE  /\ Push(b, c) \in Rings(C, size)
         /\ Push(b, c).availableData = b.availableData + 1
         /\ Push(b, c).bufferedLines = b.bufferedLines
         /\ Contents(Push(b, c)) = Append(Contents(b), c)
<1> DEFINE w == b.writeHead
           r == b.readHead
           a == b.availableData
           buf == [b.buffer EXCEPT ![w] = c]
           p == Push(b, c)
<1>1. /\ b \in LineBuffers(C, size)
      /\ w \in 0 .. size - 1 /\ r \in 0 .. size - 1 /\ a \in 0 .. size - 1
      /\ b.bufferSize = size /\ w = Advance(r, a, size)
      /\ b.buffer \in [0 .. size - 1 -> C]
  BY DEF Rings, LineBuffers, HeadsApart, IsFull
<1>2. buf \in [0 .. size - 1 -> C] /\ Advance(w, 1, size) \in 0 .. size - 1
  <2>1. Advance(w, 1, size) \in 0 .. size - 1
    BY <1>1 DEF Advance
  <2> QED BY <1>1, <2>1
<1>3. a + 1 \in 0 .. size /\ a < size
  BY <1>1
<1>4. p = [b EXCEPT !.buffer = buf, !.writeHead = Advance(w, 1, b.bufferSize),
                    !.availableData = a + 1]
  BY <1>1, <1>3, Zenon DEF Push
<1> HIDE DEF buf, p
<1>5. /\ p \in LineBuffers(C, size)
      /\ p.buffer = buf /\ p.writeHead = Advance(w, 1, size) /\ p.readHead = r
      /\ p.availableData = a + 1 /\ p.bufferSize = size
      /\ p.bufferedLines = b.bufferedLines
  BY <1>1, <1>2, <1>3, <1>4 DEF LineBuffers
<1>6. HeadsApart(p)
  <2>1. a \in 0 .. size /\ 1 \in 0 .. size - a
    BY <1>1
  <2>2. Advance(Advance(r, a, size), 1, size) = Advance(r, a + 1, size)
    BY <1>1, <2>1 DEF Advance
  <2> QED BY <1>1, <1>5, <2>2 DEF HeadsApart
<1>7. Contents(p) = Append(Contents(b), c)
  <2>1. /\ Contents(p) \in Seq(C) /\ Len(Contents(p)) = a + 1
        /\ Contents(b) \in Seq(C) /\ Len(Contents(b)) = a
    BY <1>1, <1>5, ContentsType
  <2>2. ASSUME NEW k \in 1 .. a + 1
        PROVE  Contents(p)[k] = IF k = a + 1 THEN c ELSE Contents(b)[k]
    <3> DEFINE i == Advance(r, k - 1, size)
    <3>1. i \in 0 .. size - 1 /\ (i = w <=> k = a + 1)
      <4>1. /\ r \in Int /\ a \in Int /\ k \in Int /\ size \in Int
            /\ 0 <= r /\ r < size /\ 0 <= a /\ a < size /\ 1 <= k /\ k <= a + 1
        BY <1>1
      <4>2. w = IF r + a >= size THEN r + a - size ELSE r + a
        BY <1>1 DEF Advance
      <4>3. i = IF r + k - 1 >= size THEN r + k - 1 - size ELSE r + k - 1
        BY <4>1 DEF Advance
      <4> HIDE DEF i, w, r, a
      <4> QED BY <4>1, <4>2, <4>3
    <3>2. Contents(p)[k] = buf[i]
      BY <1>5 DEF Contents, Slot
    <3>3. k <= a => Contents(b)[k] = b.buffer[i]
      BY <1>1 DEF Contents, Slot
    <3> HIDE DEF i
    <3>4. buf[i] = IF i = w THEN c ELSE b.buffer[i]
      BY <1>1, <3>1 DEF buf
    <3> QED BY <1>1, <3>1, <3>2, <3>3, <3>4
  <2>3. /\ Append(Contents(b), c) \in Seq(C) /\ Len(Append(Contents(b), c)) = a + 1
        /\ \A k \in 1 .. a + 1 : Append(Contents(b), c)[k] =
             IF k = a + 1 THEN c ELSE Contents(b)[k]
    <3> DEFINE s == Contents(b)
    <3> HIDE DEF s
    <3>1. /\ Append(s, c) \in Seq(C) /\ Len(Append(s, c)) = Len(s) + 1
          /\ \A k \in 1 .. Len(s) + 1 : Append(s, c)[k] =
               IF k = Len(s) + 1 THEN c ELSE s[k]
      BY <2>1 DEF s
    <3> QED BY <2>1, <3>1 DEF s
  <2> DEFINE s == Contents(p)
             t == Append(Contents(b), c)
  <2>4. /\ s \in Seq(C) /\ t \in Seq(C) /\ Len(s) = Len(t)
        /\ \A k \in 1 .. Len(s) : s[k] = t[k]
    BY <2>1, <2>2, <2>3, Zenon
  <2> HIDE DEF s, t
  <2>5. s = t
    BY <2>4, SeqEqual, Zenon
  <2> QED BY <2>5 DEF s, t
<1> QED BY <1>5, <1>6, <1>7 DEF Rings, p

(* pull(data, size): the oldest elements, as many as there are, are taken.   *)
LEMMA PullManyTakes ==
  ASSUME NEW C, NEW size \in Nat \ {0}, NEW b \in Rings(C, size), NEW m \in Nat,
         NEW n \in Nat, n = Lesser(m, b.availableData)
  PROVE  /\ n \in 0 .. b.availableData
         /\ PullMany(b, m) \in Rings(C, size)
         /\ PullMany(b, m).availableData = b.availableData - n
         /\ PullMany(b, m).bufferedLines = b.bufferedLines
         /\ Pulled(b, m) = SubSeq(Contents(b), 1, n)
         /\ Contents(PullMany(b, m)) = SubSeq(Contents(b), n + 1, Len(Contents(b)))
<1> DEFINE w == b.writeHead
           r == b.readHead
           a == b.availableData
           p == PullMany(b, m)
<1>1. /\ b \in LineBuffers(C, size)
      /\ w \in 0 .. size - 1 /\ r \in 0 .. size - 1 /\ a \in 0 .. size
      /\ b.bufferSize = size /\ w = Advance(r, a, size)
      /\ b.buffer \in [0 .. size - 1 -> C]
  BY DEF Rings, LineBuffers, HeadsApart
<1>2. n \in 0 .. a
  BY <1>1 DEF Lesser
<1>3. p = [b EXCEPT !.readHead = Advance(r, n, size), !.availableData = a - n]
  BY <1>1 DEF PullMany
<1>4. Advance(r, n, size) \in 0 .. size - 1 /\ a - n \in 0 .. size
  <2> HIDE DEF r, a
  <2>1. n \in 0 .. size
    BY <1>1, <1>2
  <2> QED BY <1>1, <1>2, <2>1, SMTT(40) DEF Advance
<1> HIDE DEF p
<1>5. /\ p \in LineBuffers(C, size)
      /\ p.buffer = b.buffer /\ p.writeHead = w /\ p.readHead = Advance(r, n, size)
      /\ p.availableData = a - n /\ p.bufferSize = size
      /\ p.bufferedLines = b.bufferedLines
  BY <1>1, <1>3, <1>4 DEF LineBuffers
<1>6. HeadsApart(p)
  <2>1. n \in 0 .. size /\ a - n \in 0 .. size - n /\ n + (a - n) = a
    BY <1>1, <1>2
  <2>2. Advance(Advance(r, n, size), a - n, size) = Advance(r, n + (a - n), size)
    <3>1. r \in 0 .. size - 1
      BY <1>1
    <3> HIDE DEF r, a, w
    <3> QED BY <2>1, <3>1, AdvanceAdds
  <2> QED BY <1>1, <1>5, <2>1, <2>2 DEF HeadsApart
<1>7. Contents(p) = SubSeq(Contents(b), n + 1, Len(Contents(b)))
  <2>1. /\ Contents(p) \in Seq(C) /\ Len(Contents(p)) = a - n
        /\ Contents(b) \in Seq(C) /\ Len(Contents(b)) = a
    BY <1>1, <1>5, ContentsType
  <2>2. ASSUME NEW k \in 1 .. a - n
        PROVE  Contents(p)[k] = Contents(b)[n + k]
    <3>1. Advance(Advance(r, n, size), k - 1, size) = Advance(r, n + k - 1, size)
      <4>1. n \in 0 .. size /\ k - 1 \in 0 .. size - n /\ r \in 0 .. size - 1
        BY <1>1, <1>2
      <4> HIDE DEF r, a, w
      <4> QED BY <4>1, AdvanceAdds
    <3>2. k \in 1 .. p.availableData /\ n + k \in 1 .. a
      BY <1>1, <1>2, <1>5
    <3>3. Contents(p)[k] = b.buffer[Advance(Advance(r, n, size), k - 1, size)]
      BY <1>5, <3>2, Zenon DEF Contents, Slot
    <3>4. Contents(b)[n + k] = b.buffer[Advance(r, n + k - 1, size)]
      <4>1. b.bufferSize = size
        BY <1>1
      <4> DEFINE j == n + k
      <4>2. j \in 1 .. a
        BY <3>2
      <4> HIDE DEF j
      <4>3. Contents(b)[j] = b.buffer[Advance(r, j - 1, size)]
        BY <4>1, <4>2, Zenon DEF Contents, Slot
      <4>4. j - 1 = n + k - 1
        BY DEF j
      <4> QED BY <4>3, <4>4 DEF j
    <3> QED BY <3>1, <3>3, <3>4
  <2>3. a \in Nat /\ n \in Nat /\ a - n \in Nat
    BY <1>1, <1>2
  <2> DEFINE s == Contents(b)
             t == Contents(p)
  <2> HIDE DEF s, t
  <2>4. /\ SubSeq(s, n + 1, a) \in Seq(C) /\ Len(SubSeq(s, n + 1, a)) = a - n
        /\ \A k \in 1 .. a - n : SubSeq(s, n + 1, a)[k] = s[n + k]
    BY <2>1, <2>3 DEF s
  <2> DEFINE u == SubSeq(s, n + 1, a)
  <2>5. /\ t \in Seq(C) /\ u \in Seq(C) /\ Len(t) = Len(u)
        /\ \A k \in 1 .. Len(t) : t[k] = u[k]
    BY <2>1, <2>2, <2>4, Zenon DEF s, t
  <2> HIDE DEF u
  <2>6. t = u
    BY <2>5, SeqEqual, Zenon
  <2> QED BY <2>1, <2>6 DEF s, t, u
<1> QED BY <1>1, <1>2, <1>5, <1>6, <1>7 DEF Rings, Pulled, p

(* pull() with something to pull: it returns and takes the oldest element.   *)
LEMMA PullTakes ==
  ASSUME NEW C, NEW size \in Nat \ {0}, NEW b \in Rings(C, size), ~IsEmpty(b)
  PROVE  /\ Pull(b) = PullMany(b, 1)
         /\ Pull(b) \in Rings(C, size)
         /\ Pull(b).availableData = b.availableData - 1
         /\ Pull(b).bufferedLines = b.bufferedLines
         /\ Read(b) \in C
         /\ Contents(b) = <<Read(b)>> \o Contents(Pull(b))
         /\ Pulled(b, 1) = <<Read(b)>>
<1>1. /\ b \in LineBuffers(C, size) /\ b.availableData \in 1 .. size
      /\ b.readHead \in 0 .. size - 1 /\ b.buffer \in [0 .. size - 1 -> C]
      /\ b.bufferSize = size
  BY DEF Rings, LineBuffers, IsEmpty
<1>2. Lesser(1, b.availableData) = 1
  BY <1>1 DEF Lesser
<1>3. Pull(b) = PullMany(b, 1)
  <2>1. b.availableData > 0
    BY <1>1
  <2> QED BY <1>2, <2>1, Zenon DEF Pull, PullMany
<1>4. /\ Pull(b) \in Rings(C, size) /\ Pull(b).availableData = b.availableData - 1
      /\ Pull(b).bufferedLines = b.bufferedLines
      /\ Contents(Pull(b)) = SubSeq(Contents(b), 2, Len(Contents(b)))
      /\ Pulled(b, 1) = SubSeq(Contents(b), 1, 1)
  <2>1. 1 \in Nat /\ 1 + 1 = 2
    OBVIOUS
  <2> DEFINE n == Lesser(1, b.availableData)
  <2>3. n = Lesser(1, b.availableData) /\ n \in Nat
    BY <1>2
  <2> HIDE DEF n
  <2>2. /\ PullMany(b, 1) \in Rings(C, size)
        /\ PullMany(b, 1).availableData = b.availableData - n
        /\ PullMany(b, 1).bufferedLines = b.bufferedLines
        /\ Pulled(b, 1) = SubSeq(Contents(b), 1, n)
        /\ Contents(PullMany(b, 1)) = SubSeq(Contents(b), n + 1, Len(Contents(b)))
    BY <2>1, <2>3, PullManyTakes
  <2> QED BY <1>2, <1>3, <2>1, <2>2, <2>3, Zenon
<1>5. Contents(b) \in Seq(C) /\ Len(Contents(b)) = b.availableData
  BY <1>1, ContentsType
<1>6. Contents(b)[1] = Read(b) /\ Read(b) \in C
  BY <1>1 DEF Contents, Slot, Read, Advance
<1>7. Contents(b) # <<>>
  BY <1>1, <1>5, EmptySeq
<1>8. /\ SubSeq(Contents(b), 1, 1) = <<Read(b)>>
      /\ Contents(b) = <<Read(b)>> \o SubSeq(Contents(b), 2, Len(Contents(b)))
  BY <1>5, <1>6, <1>7, FirstAndRest, Zenon
<1> QED BY <1>3, <1>4, <1>6, <1>8

(* Newlines of one element, of a concatenation.                             *)
LEMMA NewLinesOne ==
  ASSUME NEW c
  PROVE  NewLinesIn(<<c>>) = IF c = NewLine THEN 1 ELSE 0
<1>1. {k \in DOMAIN <<c>> : <<c>>[k] = NewLine} = IF c = NewLine THEN {1} ELSE {}
  OBVIOUS
<1>2. Cardinality({1}) = 1 /\ Cardinality({}) = 0
  BY FS_Singleton, FS_EmptySet
<1> QED BY <1>1, <1>2 DEF NewLinesIn

LEMMA NewLinesConcat ==
  ASSUME NEW S, NEW s \in Seq(S), NEW t \in Seq(S)
  PROVE  NewLinesIn(s \o t) = NewLinesIn(s) + NewLinesIn(t)
<1> DEFINE Ends(q) == {k \in DOMAIN q : q[k] = NewLine}
           Shifted == {k \in 1 .. Len(s) + Len(t) : k > Len(s) /\ t[k - Len(s)] = NewLine}
<1>1. /\ Len(s) \in Nat /\ Len(t) \in Nat
      /\ DOMAIN s = 1 .. Len(s) /\ DOMAIN t = 1 .. Len(t)
      /\ DOMAIN (s \o t) = 1 .. Len(s) + Len(t)
      /\ \A k \in 1 .. Len(s) + Len(t) :
           (s \o t)[k] = IF k <= Len(s) THEN s[k] ELSE t[k - Len(s)]
  OBVIOUS
<1>2. Ends(s \o t) = Ends(s) \cup Shifted /\ Ends(s) \cap Shifted = {}
  BY <1>1
<1>3. IsFiniteSet(1 .. Len(s)) /\ IsFiniteSet(1 .. Len(t))
  BY <1>1, FS_Interval
<1>4. IsFiniteSet(Ends(s)) /\ IsFiniteSet(Ends(t))
  <2>1. Ends(s) \subseteq 1 .. Len(s) /\ Ends(t) \subseteq 1 .. Len(t)
    BY <1>1
  <2> QED BY <1>3, <2>1, FS_Subset
<1>5. ExistsBijection(Ends(t), Shifted)
  <2> DEFINE f == [k \in Ends(t) |-> k + Len(s)]
  <2>1. f \in [Ends(t) -> Shifted]
    BY <1>1
  <2>2. \A j, k \in Ends(t) : f[j] = f[k] => j = k
    BY <1>1
  <2>3. \A k \in Shifted : k - Len(s) \in Ends(t) /\ f[k - Len(s)] = k
    BY <1>1
  <2>4. f \in Bijection(Ends(t), Shifted)
    BY <2>1, <2>2, <2>3 DEF Bijection, Injection, Surjection, IsInjective
  <2> QED BY <2>4 DEF ExistsBijection
<1>6. IsFiniteSet(Shifted) /\ Cardinality(Shifted) = Cardinality(Ends(t))
  BY <1>4, <1>5, FS_Bijection
<1> HIDE DEF Ends, Shifted
<1>7. Cardinality(Ends(s) \cup Shifted) =
        Cardinality(Ends(s)) + Cardinality(Shifted) - Cardinality(Ends(s) \cap Shifted)
  BY <1>4, <1>6, FS_Union
<1>8. /\ Cardinality({}) = 0
      /\ Cardinality(Ends(s)) \in Nat /\ Cardinality(Ends(t)) \in Nat
  BY <1>4, FS_EmptySet, FS_CardinalityType
<1>9. Cardinality(Ends(s \o t)) = Cardinality(Ends(s)) + Cardinality(Ends(t))
  <2>1. Cardinality(Ends(s) \cap Shifted) = 0
    BY <1>2, <1>8, Zenon
  <2>2. Cardinality(Ends(s \o t)) = Cardinality(Ends(s) \cup Shifted)
    BY <1>2, Zenon
  <2> QED BY <1>6, <1>7, <1>8, <2>1, <2>2
<1> QED BY <1>9 DEF NewLinesIn, Ends

-----------------------------------------------------------------------------
(* The counting overrides of LineCircularBuffer.                            *)

Counted(b) == b.bufferedLines = NewLinesIn(Contents(b))

(* Whether or not the counter l is right before, adding the newlines of what  *)
(* is appended keeps it in its range, and right if it was right; the same for *)
(* taking away the newlines of what is pulled.                                *)
LEMMA CountingAppends ==
  ASSUME NEW S, NEW s \in Seq(S), NEW data \in Seq(S), NEW l \in 0 .. LinesModulus - 1,
         Len(s) + Len(data) < LinesModulus
  PROVE  /\ WrapAdd(l, NewLinesIn(data), LinesModulus) \in 0 .. LinesModulus - 1
         /\ l = NewLinesIn(s)
              => WrapAdd(l, NewLinesIn(data), LinesModulus) = NewLinesIn(s \o data)
<1>1. NewLinesIn(s) \in 0 .. Len(s) /\ NewLinesIn(data) \in 0 .. Len(data)
  BY NewLinesBound
<1>2. NewLinesIn(s \o data) = NewLinesIn(s) + NewLinesIn(data)
  BY NewLinesConcat
<1>3. Len(s) \in Nat /\ Len(data) \in Nat /\ LinesModulus \in Nat
  BY ModuliAssumption
<1> QED BY <1>1, <1>2, <1>3 DEF WrapAdd

LEMMA CountingTakes ==
  ASSUME NEW S, NEW s \in Seq(S), NEW taken \in Seq(S), NEW l \in 0 .. LinesModulus - 1,
         Len(taken) + Len(s) < LinesModulus
  PROVE  /\ WrapSub(l, NewLinesIn(taken), LinesModulus) \in 0 .. LinesModulus - 1
         /\ l = NewLinesIn(taken \o s)
              => WrapSub(l, NewLinesIn(taken), LinesModulus) = NewLinesIn(s)
<1>1. NewLinesIn(s) \in 0 .. Len(s) /\ NewLinesIn(taken) \in 0 .. Len(taken)
  BY NewLinesBound
<1>2. NewLinesIn(taken \o s) = NewLinesIn(taken) + NewLinesIn(s)
  BY NewLinesConcat
<1>3. Len(s) \in Nat /\ Len(taken) \in Nat /\ LinesModulus \in Nat
  BY ModuliAssumption
<1> QED BY <1>1, <1>2, <1>3 DEF WrapSub

(* The counter written after an operation of the base class.                 *)
LEMMA CountedAfterPush ==
  ASSUME NEW C, NEW size \in Nat \ {0}, size < LinesModulus,
         NEW b \in Rings(C, size), NEW p \in Rings(C, size), NEW data \in Seq(C),
         Contents(p) = Contents(b) \o data
  PROVE  /\ WrapAdd(b.bufferedLines, NewLinesIn(data), LinesModulus) \in 0 .. LinesModulus - 1
         /\ Counted(b) =>
              Counted(WithLines(p, WrapAdd(b.bufferedLines, NewLinesIn(data), LinesModulus)))
<1> DEFINE s == Contents(b)
           l == b.bufferedLines
           v == WrapAdd(l, NewLinesIn(data), LinesModulus)
           q == WithLines(p, v)
<1>1. /\ s \in Seq(C) /\ Contents(p) \in Seq(C) /\ Len(Contents(p)) \in 0 .. size
      /\ l \in 0 .. LinesModulus - 1 /\ LinesModulus \in Nat
  <2>1. p \in LineBuffers(C, size) /\ b \in LineBuffers(C, size)
    BY DEF Rings
  <2>2. p.availableData \in 0 .. size /\ b.bufferedLines \in 0 .. LinesModulus - 1
    BY <2>1 DEF LineBuffers
  <2> QED BY <2>1, <2>2, ContentsType, ModuliAssumption
<1>2. Len(s) + Len(data) < LinesModulus
  BY <1>1
<1> HIDE DEF s, l
<1>3. v \in 0 .. LinesModulus - 1 /\ (l = NewLinesIn(s) => v = NewLinesIn(s \o data))
  BY <1>1, <1>2, CountingAppends
<1> HIDE DEF v
<1>4. /\ q \in Rings(C, size) /\ q.bufferedLines = v
      /\ q.availableData = p.availableData /\ Contents(q) = Contents(p)
  BY <1>3, CounterApart
<1>5. Counted(b) => Counted(q)
  BY <1>3, <1>4, Zenon DEF Counted, s, l
<1> QED BY <1>3, <1>5, Zenon DEF q, v, l

LEMMA CountedAfterPull ==
  ASSUME NEW C, NEW size \in Nat \ {0}, size < LinesModulus,
         NEW b \in Rings(C, size), NEW p \in Rings(C, size), NEW taken \in Seq(C),
         Contents(b) = taken \o Contents(p)
  PROVE  /\ WrapSub(b.bufferedLines, NewLinesIn(taken), LinesModulus) \in 0 .. LinesModulus - 1
         /\ Counted(b) =>
              Counted(WithLines(p, WrapSub(b.bufferedLines, NewLinesIn(taken), LinesModulus)))
<1> DEFINE s == Contents(p)
           l == b.bufferedLines
           v == WrapSub(l, NewLinesIn(taken), LinesModulus)
           q == WithLines(p, v)
<1>1. /\ s \in Seq(C) /\ Contents(b) \in Seq(C) /\ Len(Contents(b)) \in 0 .. size
      /\ l \in 0 .. LinesModulus - 1 /\ LinesModulus \in Nat
  <2>1. p \in LineBuffers(C, size) /\ b \in LineBuffers(C, size)
    BY DEF Rings
  <2>2. b.availableData \in 0 .. size /\ b.bufferedLines \in 0 .. LinesModulus - 1
    BY <2>1 DEF LineBuffers
  <2> QED BY <2>1, <2>2, ContentsType, ModuliAssumption
<1>2. Len(taken) + Len(s) < LinesModulus
  BY <1>1
<1> HIDE DEF s, l
<1>3. v \in 0 .. LinesModulus - 1 /\ (l = NewLinesIn(taken \o s) => v = NewLinesIn(s))
  BY <1>1, <1>2, CountingTakes
<1> HIDE DEF v
<1>4. /\ q \in Rings(C, size) /\ q.bufferedLines = v
      /\ q.availableData = p.availableData /\ Contents(q) = Contents(p)
  BY <1>3, CounterApart
<1>5. Counted(b) => Counted(q)
  BY <1>3, <1>4, Zenon DEF Counted, s, l
<1> QED BY <1>3, <1>5, Zenon DEF q, v, l

(* LineCircularBuffer::push(data, size).                                     *)
LEMMA LinePushManyAppends ==
  ASSUME NEW C, NEW size \in Nat \ {0}, size < LinesModulus,
         NEW b \in Rings(C, size), NEW data \in Seq(C),
         NEW n, n = Lesser(Len(data), size - b.availableData)
  PROVE  /\ LinePushMany(b, data) \in Rings(C, size)
         /\ LinePushMany(b, data).availableData = b.availableData + n
         /\ Contents(LinePushMany(b, data)) = Contents(b) \o SubSeq(data, 1, n)
         /\ Counted(b) => Counted(LinePushMany(b, data))
<1> DEFINE p == PushMany(b, data)
           q == LinePushMany(b, data)
           d == SubSeq(data, 1, n)
<1>1. /\ Accepted(b, data) = n
      /\ p \in Rings(C, size)
      /\ p.availableData = b.availableData + n
      /\ Contents(p) = Contents(b) \o d
  BY PushManyAppends
<1>2. d \in Seq(C)
  <2>1. b.availableData \in 0 .. size
    BY DEF Rings, LineBuffers
  <2>2. n \in 0 .. Len(data)
    BY <2>1 DEF Lesser
  <2> QED BY <2>2
<1>3. q = WithLines(p, WrapAdd(b.bufferedLines, NewLinesIn(d), LinesModulus))
  BY <1>1, Zenon DEF LinePushMany, WithLines
<1> HIDE DEF p, q, d
<1>4. /\ q \in Rings(C, size) /\ q.availableData = p.availableData
      /\ Contents(q) = Contents(p) /\ (Counted(b) => Counted(q))
  <2> DEFINE v == WrapAdd(b.bufferedLines, NewLinesIn(d), LinesModulus)
             x == WithLines(p, v)
  <2>1. v \in 0 .. LinesModulus - 1 /\ (Counted(b) => Counted(x))
    BY <1>1, <1>2, CountedAfterPush
  <2>2. q = x
    BY <1>3
  <2> HIDE DEF v
  <2>3. /\ x \in Rings(C, size) /\ x.availableData = p.availableData
        /\ Contents(x) = Contents(p)
    BY <1>1, <2>1, CounterApart
  <2> HIDE DEF x
  <2> QED BY <2>1, <2>2, <2>3, Zenon
<1> QED BY <1>1, <1>4 DEF q, d

(* LineCircularBuffer::push(char) with room left.                            *)
LEMMA LinePushAppends ==
  ASSUME NEW C, NEW size \in Nat \ {0}, size < LinesModulus,
         NEW b \in Rings(C, size), NEW c \in C, ~IsFull(b)
  PROVE  /\ LinePush(b, c) \in Rings(C, size)
         /\ LinePush(b, c).availableData = b.availableData + 1
         /\ Contents(LinePush(b, c)) = Append(Contents(b), c)
         /\ Counted(b) => Counted(LinePush(b, c))
<1> DEFINE p == Push(b, c)
           q == LinePush(b, c)
<1>1. /\ p \in Rings(C, size)
      /\ p.availableData = b.availableData + 1
      /\ Contents(p) = Append(Contents(b), c)
  BY PushAppends
<1>2. b \in LineBuffers(C, size)
  BY DEF Rings
<1>3. <<c>> \in Seq(C) /\ Contents(p) = Contents(b) \o <<c>>
  BY <1>1, <1>2, ContentsType
<1>4. b.bufferedLines \in 0 .. LinesModulus - 1 /\ LinesModulus \in Nat
  BY <1>2, ModuliAssumption DEF LineBuffers
<1>5. (IF c = NewLine THEN WrapAdd(b.bufferedLines, 1, LinesModulus) ELSE b.bufferedLines)
        = WrapAdd(b.bufferedLines, NewLinesIn(<<c>>), LinesModulus)
  BY <1>4, NewLinesOne DEF WrapAdd
<1>6. q = WithLines(p, WrapAdd(b.bufferedLines, NewLinesIn(<<c>>), LinesModulus))
  BY <1>5, Zenon DEF LinePush, WithLines
<1> HIDE DEF p, q
<1>7. /\ q \in Rings(C, size) /\ q.availableData = p.availableData
      /\ Contents(q) = Contents(p) /\ (Counted(b) => Counted(q))
  <2> DEFINE v == WrapAdd(b.bufferedLines, NewLinesIn(<<c>>), LinesModulus)
             x == WithLines(p, v)
  <2>1. v \in 0 .. LinesModulus - 1 /\ (Counted(b) => Counted(x))
    BY <1>1, <1>3, CountedAfterPush
  <2>2. q = x
    BY <1>6
  <2> HIDE DEF v
  <2>3. /\ x \in Rings(C, size) /\ x.availableData = p.availableData
        /\ Contents(x) = Contents(p)
    BY <1>1, <2>1, CounterApart
  <2> HIDE DEF x
  <2> QED BY <2>1, <2>2, <2>3, Zenon
<1> QED BY <1>1, <1>7 DEF q

(* LineCircularBuffer::pull(data, size), and readLine, which pulls a line.   *)
LEMMA LinePullManyTakes ==
  ASSUME NEW C, NEW size \in Nat \ {0}, size < LinesModulus,
         NEW b \in Rings(C, size), NEW m \in Nat,
         NEW n \in Nat, n = Lesser(m, b.availableData)
  PROVE  /\ n \in 0 .. b.availableData
         /\ LinePullMany(b, m) \in Rings(C, size)
         /\ LinePullMany(b, m).availableData = b.availableData - n
         /\ Pulled(b, m) = SubSeq(Contents(b), 1, n)
         /\ Contents(LinePullMany(b, m)) = SubSeq(Contents(b), n + 1, Len(Contents(b)))
         /\ Counted(b) => Counted(LinePullMany(b, m))
<1> DEFINE p == PullMany(b, m)
           q == LinePullMany(b, m)
           d == Pulled(b, m)
<1>1. /\ n \in 0 .. b.availableData
      /\ p \in Rings(C, size)
      /\ p.availableData = b.availableData - n
      /\ d = SubSeq(Contents(b), 1, n)
      /\ Contents(p) = SubSeq(Contents(b), n + 1, Len(Contents(b)))
  BY PullManyTakes
<1>2. Contents(b) \in Seq(C) /\ Len(Contents(b)) = b.availableData
      /\ b.availableData \in Nat
  <2>1. b \in LineBuffers(C, size)
    BY DEF Rings
  <2> QED BY <2>1, ContentsType DEF LineBuffers
<1>3. q = WithLines(p, WrapSub(b.bufferedLines, NewLinesIn(d), LinesModulus))
  BY Zenon DEF LinePullMany, WithLines
<1> HIDE DEF p, q, d
<1>4. d \in Seq(C) /\ Contents(b) = d \o Contents(p)
  <2> DEFINE s == Contents(b)
  <2> HIDE DEF s
  <2>1. /\ s \in Seq(C) /\ n \in 0 .. Len(s) /\ Len(s) \in 0 .. Len(s)
        /\ 1 \in 1 .. Len(s) + 1 /\ n \in 1 - 1 .. Len(s) /\ Len(s) \in n .. Len(s)
    BY <1>1, <1>2 DEF s
  <2>2. SubSeq(s, 1, n) \o SubSeq(s, n + 1, Len(s)) = SubSeq(s, 1, Len(s))
    BY <2>1, ConcatAdjacentSubSeq
  <2>3. SubSeq(s, 1, Len(s)) = s /\ SubSeq(s, 1, n) \in Seq(C)
    BY <2>1
  <2> QED BY <1>1, <2>2, <2>3 DEF s
<1>5. /\ q \in Rings(C, size) /\ q.availableData = p.availableData
      /\ Contents(q) = Contents(p) /\ (Counted(b) => Counted(q))
  <2> DEFINE v == WrapSub(b.bufferedLines, NewLinesIn(d), LinesModulus)
             x == WithLines(p, v)
  <2>0. p \in Rings(C, size)
    BY <1>1
  <2>1. v \in 0 .. LinesModulus - 1 /\ (Counted(b) => Counted(x))
    BY <1>4, <2>0, CountedAfterPull
  <2>2. q = x
    BY <1>3
  <2> HIDE DEF v
  <2>3. /\ x \in Rings(C, size) /\ x.availableData = p.availableData
        /\ Contents(x) = Contents(p)
    BY <2>0, <2>1, CounterApart
  <2> HIDE DEF x
  <2> QED BY <2>1, <2>2, <2>3, Zenon
<1> QED BY <1>1, <1>5 DEF q, d

(* LineCircularBuffer::pull() with something to pull.                        *)
LEMMA LinePullTakes ==
  ASSUME NEW C, NEW size \in Nat \ {0}, size < LinesModulus,
         NEW b \in Rings(C, size), ~IsEmpty(b)
  PROVE  /\ LinePull(b) \in Rings(C, size)
         /\ LinePull(b).availableData = b.availableData - 1
         /\ Read(b) \in C
         /\ Contents(b) = <<Read(b)>> \o Contents(LinePull(b))
         /\ Counted(b) => Counted(LinePull(b))
<1> DEFINE p == Pull(b)
           q == LinePull(b)
<1>1. /\ p \in Rings(C, size)
      /\ p.availableData = b.availableData - 1
      /\ Read(b) \in C
      /\ Contents(b) = <<Read(b)>> \o Contents(p)
  BY PullTakes
<1>2. b.bufferedLines \in 0 .. LinesModulus - 1 /\ LinesModulus \in Nat
  BY ModuliAssumption DEF Rings, LineBuffers
<1>3. (IF Read(b) = NewLine THEN WrapSub(b.bufferedLines, 1, LinesModulus)
                            ELSE b.bufferedLines)
        = WrapSub(b.bufferedLines, NewLinesIn(<<Read(b)>>), LinesModulus)
  BY <1>2, NewLinesOne DEF WrapSub
<1>4. q = WithLines(p, WrapSub(b.bufferedLines, NewLinesIn(<<Read(b)>>), LinesModulus))
  BY <1>3, Zenon DEF LinePull, WithLines
<1> HIDE DEF p, q
<1>5. <<Read(b)>> \in Seq(C)
  BY <1>1
<1>6. /\ q \in Rings(C, size) /\ q.availableData = p.availableData
      /\ Contents(q) = Contents(p) /\ (Counted(b) => Counted(q))
  <2> DEFINE v == WrapSub(b.bufferedLines, NewLinesIn(<<Read(b)>>), LinesModulus)
             x == WithLines(p, v)
  <2>1. v \in 0 .. LinesModulus - 1 /\ (Counted(b) => Counted(x))
    BY <1>1, <1>5, CountedAfterPull
  <2>2. q = x
    BY <1>4
  <2> HIDE DEF v
  <2>3. /\ x \in Rings(C, size) /\ x.availableData = p.availableData
        /\ Contents(x) = Contents(p)
    BY <1>1, <2>1, CounterApart
  <2> HIDE DEF x
  <2> QED BY <2>1, <2>2, <2>3, Zenon
<1> QED BY <1>1, <1>6 DEF q

(* flush(): nothing is left, neither elements nor lines.                     *)
LEMMA LineFlushEmpties ==
  ASSUME NEW C, NEW size \in Nat \ {0}, NEW b \in Rings(C, size)
  PROVE  /\ LineFlush(b) \in Rings(C, size)
         /\ LineFlush(b).availableData = 0
         /\ Contents(LineFlush(b)) = <<>>
         /\ Counted(LineFlush(b))
<1> DEFINE q == LineFlush(b)
<1>1. b \in LineBuffers(C, size)
  BY DEF Rings
<1> DEFINE f == Flush(b)
<1>f. /\ f \in LineBuffers(C, size) /\ f.writeHead = 0 /\ f.readHead = 0
      /\ f.availableData = 0 /\ f.bufferSize = size
  <2>1. 0 \in 0 .. size - 1 /\ 0 \in 0 .. size
    OBVIOUS
  <2>2. f = [b EXCEPT !.writeHead = 0, !.readHead = 0, !.availableData = 0]
    BY DEF Flush
  <2> HIDE DEF f
  <2> QED BY <1>1, <2>1, <2>2 DEF LineBuffers
<1>2. /\ q \in LineBuffers(C, size) /\ q.writeHead = 0 /\ q.readHead = 0
      /\ q.availableData = 0 /\ q.bufferSize = size /\ q.bufferedLines = 0
  <2> HIDE DEF f
  <2>1. q = [f EXCEPT !.bufferedLines = 0]
    BY DEF LineFlush, f
  <2> HIDE DEF q
  <2> QED BY <1>f, <2>1, ModuliAssumption DEF LineBuffers
<1> HIDE DEF q
<1>3. HeadsApart(q)
  BY <1>2 DEF HeadsApart, Advance
<1>4. Contents(q) = <<>>
  BY <1>2, ContentsType, EmptySeq
<1>5. NewLinesIn(<<>>) = 0
  <2>1. {k \in DOMAIN <<>> : <<>>[k] = NewLine} = {}
    OBVIOUS
  <2> QED BY <2>1, FS_EmptySet DEF NewLinesIn
<1> QED BY <1>2, <1>3, <1>4, <1>5 DEF Rings, Counted, q

(* The constructor: an empty ring without lines.                             *)
LEMMA NewLineBufferIsRing ==
  ASSUME NEW C, NEW size \in Nat \ {0}, NEW memory \in [0 .. size - 1 -> C]
  PROVE  /\ NewLineBuffer(memory, size) \in Rings(C, size)
         /\ NewLineBuffer(memory, size).availableData = 0
         /\ Contents(NewLineBuffer(memory, size)) = <<>>
         /\ Counted(NewLineBuffer(memory, size))
<1> DEFINE q == NewLineBuffer(memory, size)
<1>1. /\ q \in LineBuffers(C, size) /\ q.writeHead = 0 /\ q.readHead = 0
      /\ q.availableData = 0 /\ q.bufferSize = size /\ q.bufferedLines = 0
  <2>1. 0 \in 0 .. size - 1 /\ 0 \in 0 .. size /\ 0 \in 0 .. LinesModulus - 1
    BY ModuliAssumption
  <2> QED BY <2>1 DEF NewLineBuffer, LineBuffers
<1> HIDE DEF q
<1>2. HeadsApart(q)
  BY <1>1 DEF HeadsApart, Advance
<1>3. Contents(q) = <<>>
  BY <1>1, ContentsType, EmptySeq
<1>4. NewLinesIn(<<>>) = 0
  <2>1. {k \in DOMAIN <<>> : <<>>[k] = NewLine} = {}
    OBVIOUS
  <2> QED BY <2>1, FS_EmptySet DEF NewLinesIn
<1> QED BY <1>1, <1>2, <1>3, <1>4 DEF Rings, Counted, q
=============================================================================
