--------------------------- MODULE RakSystem_proofs ---------------------------
(***************************************************************************)
(* Theorems about the RUI3 driver, for every size of its buffer and of its *)
(* packets that the serial buffer has room for.  The application may call  *)
(* at any time and write anything; but only as long as it has not written  *)
(* more than the ring holds since writeBufferProcessed() was last true,    *)
(* and the module was not reset, is it promised that no packet gets ahead  *)
(* of an earlier byte, and that what is reported as processed has got      *)
(* through.                                                                *)
(***************************************************************************)
EXTENDS RakSystem, SequenceTheorems, TLAPS

Rings ==
  [buffer : [0 .. BufferSize - 1 -> Nat], writeHead : 0 .. BufferSize - 1,
   readHead : 0 .. BufferSize - 1, availableData : 0 .. BufferSize,
   bufferSize : {BufferSize}]

Sizes == {PacketSizes[k] : k \in DOMAIN PacketSizes}

(* Every packet fits into the serial buffer.                                 *)
PacketsFit == \A size \in Sizes : size <= SerialRoom

Replies == {NULL, "OK", "+EVT:JOINED", "+EVT:SEND_CONFIRMED_OK"}

Devices ==
  [sendState : SendStates, replyState : {"okReply", "dataRate", "sendConfirm"},
   waitForReply : Replies, packetSize : Sizes, bytesToResend : Nat, flags : SUBSET Flags,
   hasEUI : BOOLEAN, writeBuffer : Rings, readBuffer : Seq(Nat)]

Commands == {"AT+DEVEUI", "AT+APPEUI", "AT+APPKEY", "AT+CLASS=C", "AT+DR=0", "AT+JOIN",
             "AT+DR=?", "AT+SEND"}
Texts ==
  Commands \cup
  {"OK", "AT+DR=", "AT_BUSY_ERROR", "AT_NO_NETWORK", "+EVT:JOINED", "+EVT:JOIN FAILED",
   "+EVT:SEND_CONFIRMED_OK", "+EVT:SEND_CONFIRMED_FAILED", "+EVT:RX"}
Lines == [text : Texts, data : Seq(Nat)]
Answers == {line \in Lines : line.text = "AT+DR=" => line.data # <<>>}

Typed ==
  /\ dev \in Devices /\ rx \in Seq(Answers) /\ tx \in Seq(Lines)
  /\ up \in Nat /\ outstanding \in Nat /\ down \in Nat /\ air \in Seq(Nat) /\ heard \in Seq(Seq(Nat))

-----------------------------------------------------------------------------
(* The write buffer.  The slot j before the write head holds byte up + 1 - j *)
(* for those that can be pulled and, before them, those that can be put      *)
(* back: the packet that is not confirmed.                                   *)
Back(head, j) == IF j <= head THEN head - j ELSE head - j + BufferSize

Holds(b, n, last) == \A j \in 1 .. n : b.buffer[Back(b.writeHead, j)] = last + 1 - j

Buffered ==
  /\ Buf!HeadsApart(dev.writeBuffer)
  /\ dev.writeBuffer.availableData + Unconfirmed <= outstanding
  /\ outstanding <= BufferSize
  /\ dev.writeBuffer.availableData + Unconfirmed <= up
  /\ Holds(dev.writeBuffer, dev.writeBuffer.availableData + Unconfirmed, up)

(* The bytes that have been confirmed, and the packet that has not.          *)
Confirmed == up - dev.writeBuffer.availableData - Unconfirmed
Packet == [k \in 1 .. dev.bytesToResend |-> Confirmed + k]

(* The states in which the driver has a packet to send, or has sent one.     *)
Sending ==
  /\ ~serialOpen => dev.sendState \notin FromJoined
  /\ dev.sendState = "sendPacket" => ~Buf!IsEmpty(dev.writeBuffer)
  /\ dev.sendState = "waitForSend" =>
       /\ dev.waitForReply = "+EVT:SEND_CONFIRMED_OK" /\ dev.replyState = "sendConfirm"
       /\ dev.bytesToResend # 0

-----------------------------------------------------------------------------
(* A packet is in one place between the driver and the air, or its outcome   *)
(* is on the way back.                                                       *)
SendCommand == {"AT+SEND"}
Success == {"+EVT:SEND_CONFIRMED_OK"}
Outcomes == {"+EVT:SEND_CONFIRMED_OK", "+EVT:SEND_CONFIRMED_FAILED", "AT_BUSY_ERROR"}

None(lines, texts) == \A k \in DOMAIN lines : lines[k].text \notin texts
Single(lines, texts) ==
  \A j, k \in DOMAIN lines : lines[j].text \in texts /\ lines[k].text \in texts => j = k

OnePlace ==
  /\ Single(tx, SendCommand) /\ Single(rx, Outcomes)
  /\ None(tx, SendCommand) \/ air = <<>>
  /\ None(tx, SendCommand) \/ None(rx, Outcomes)
  /\ None(rx, Outcomes) \/ air = <<>>
  /\ dev.sendState # "waitForSend" =>
       None(tx, SendCommand) /\ None(rx, Outcomes) /\ air = <<>>

Carriers(packet) == {line \in Lines : line.text \in SendCommand => line.data = packet}
SamePacket == tx \in Seq(Carriers(Packet)) /\ (air # <<>> => air = Packet)

-----------------------------------------------------------------------------
(* What got through: all that is confirmed, and nothing that is not written. *)
UpTo(packets, n) == {x \in Nat : \E j \in 1 .. n : x \in Bytes(packets[j])}
HeardAll == UpTo(heard, Len(heard))

Arrived ==
  /\ 1 .. Confirmed \subseteq HeardAll /\ HeardAll \subseteq 1 .. up
  /\ None(rx, Success) \/ 1 .. Confirmed + Unconfirmed \subseteq HeardAll

Gapless(packets) ==
  \A k \in DOMAIN packets : \A b \in 1 .. packets[k][Len(packets[k])] :
    b \in UpTo(packets, k - 1) \cup Bytes(packets[k])

Good == Typed /\ Buffered /\ Sending /\ OnePlace /\ SamePacket /\ Arrived /\ Gapless(heard)

IInv == PacketsFit /\ ~discarded /\ ~Overfilled => Good

-----------------------------------------------------------------------------
(* The ring.                                                                 *)

LEMMA Constants ==
  /\ BufferSize \in Nat \ {0} /\ SizeModulus \in Nat /\ BufferSize < SizeModulus
  /\ PacketSizes \in Seq(Nat \ {0}) /\ Len(PacketSizes) \in Nat \ {0}
  /\ PacketSizes[1] \in Sizes /\ Sizes \subseteq Nat \ {0} /\ SerialRoom \in Nat
<1>1. Len(PacketSizes) # 0
  BY EmptySeq, RakAssumption
<1>2. DOMAIN PacketSizes = 1 .. Len(PacketSizes) /\ 1 \in DOMAIN PacketSizes
  BY <1>1, RakAssumption
<1> QED
  BY <1>1, <1>2, RakAssumption DEF Sizes

(* The k-th element to pull is counted back from the write head.             *)
LEMMA SlotIsBack ==
  ASSUME NEW b \in Rings, Buf!HeadsApart(b), NEW k \in 1 .. b.availableData
  PROVE  Buf!Slot(b, k) = Back(b.writeHead, b.availableData + 1 - k)
<1> DEFINE a == b.availableData
           w == b.writeHead
           h == b.readHead
<1>1. /\ a \in 0 .. BufferSize /\ BufferSize \in Nat \ {0} /\ b.bufferSize = BufferSize
      /\ h \in 0 .. BufferSize - 1 /\ w \in 0 .. BufferSize - 1 /\ k \in 1 .. a
  BY Constants DEF Rings
<1>2. w = (IF h + a >= BufferSize THEN h + a - BufferSize ELSE h + a)
  BY <1>1 DEF Buf!HeadsApart, Buf!Advance
<1>3. Buf!Slot(b, k) = (IF h + (k - 1) >= BufferSize THEN h + (k - 1) - BufferSize
                                                     ELSE h + (k - 1))
  BY <1>1 DEF Buf!Slot, Buf!Advance
<1> HIDE DEF a, w, h
<1>4. Buf!Slot(b, k) = Back(w, a + 1 - k)
  BY <1>1, <1>2, <1>3 DEF Back
<1> QED
  BY <1>4 DEF a, w

LEMMA PullSteps ==
  ASSUME NEW b \in Rings, Buf!HeadsApart(b), NEW last \in Nat, NEW size \in Nat,
         b.availableData <= last, Holds(b, b.availableData, last)
  PROVE  /\ Buf!Lesser(size, b.availableData) \in 0 .. b.availableData
         /\ Buf!PullMany(b, size) \in Rings /\ Buf!HeadsApart(Buf!PullMany(b, size))
         /\ Buf!PullMany(b, size).availableData
              = b.availableData - Buf!Lesser(size, b.availableData)
         /\ Buf!PullMany(b, size).writeHead = b.writeHead
         /\ Buf!PullMany(b, size).buffer = b.buffer
         /\ [k \in 1 .. Buf!Lesser(size, b.availableData) |-> b.buffer[Buf!Slot(b, k)]]
              = [k \in 1 .. Buf!Lesser(size, b.availableData) |-> last - b.availableData + k]
<1> DEFINE a == b.availableData
           n == Buf!Lesser(size, b.availableData)
           q == Buf!PullMany(b, size)
           r == Buf!Advance(b.readHead, n, BufferSize)
<1>1. /\ a \in 0 .. BufferSize /\ BufferSize \in Nat \ {0} /\ b.bufferSize = BufferSize
      /\ b.readHead \in 0 .. BufferSize - 1 /\ b.writeHead \in 0 .. BufferSize - 1
  BY Constants DEF Rings
<1>2. n \in 0 .. a
  BY <1>1 DEF Buf!Lesser
<1>3. q = [b EXCEPT !.readHead = r, !.availableData = a - n]
  BY <1>1 DEF Buf!PullMany
<1> HIDE DEF n, q
<1>4. r \in 0 .. BufferSize - 1 /\ a - n \in 0 .. BufferSize
  BY <1>1, <1>2 DEF Buf!Advance
<1>5. b.writeHead = Buf!Advance(b.readHead, a, BufferSize)
  BY <1>1 DEF Buf!HeadsApart
<1>6. b.writeHead = Buf!Advance(r, a - n, BufferSize)
  <2> HIDE DEF a
  <2> QED
    BY <1>1, <1>2, <1>5 DEF Buf!Advance
<1> HIDE DEF r
<1>7. /\ q \in Rings /\ q.availableData = a - n /\ q.writeHead = b.writeHead
      /\ q.buffer = b.buffer /\ q.readHead = r /\ q.bufferSize = BufferSize
  BY <1>1, <1>3, <1>4 DEF Rings
<1>8. Buf!HeadsApart(q)
  BY <1>6, <1>7 DEF Buf!HeadsApart
<1>9. \A k \in 1 .. n : b.buffer[Buf!Slot(b, k)] = last - a + k
  <2> TAKE k \in 1 .. n
  <2>1. k \in 1 .. a
    BY <1>1, <1>2
  <2>2. Buf!Slot(b, k) = Back(b.writeHead, a + 1 - k) /\ a + 1 - k \in 1 .. a
    BY <1>1, <2>1, SlotIsBack
  <2> QED
    BY <1>1, <2>1, <2>2 DEF Holds
<1>10. [k \in 1 .. n |-> b.buffer[Buf!Slot(b, k)]] = [k \in 1 .. n |-> last - a + k]
  BY <1>9, Zenon
<1> QED
  BY <1>2, <1>7, <1>8, <1>10 DEF n, q

LEMMA RewindSteps ==
  ASSUME NEW b \in Rings, Buf!HeadsApart(b), NEW n \in Nat, b.availableData + n <= BufferSize,
         NEW q, q = Buf!RewindReadHead(b, n)
  PROVE  /\ q \in Rings /\ Buf!HeadsApart(q) /\ q.availableData = b.availableData + n
         /\ q.writeHead = b.writeHead /\ q.buffer = b.buffer
<1> DEFINE a == b.availableData
           r == IF n <= b.readHead THEN b.readHead - n ELSE BufferSize + b.readHead - n
<1>1. /\ a \in 0 .. BufferSize /\ BufferSize \in Nat \ {0} /\ b.bufferSize = BufferSize
      /\ b.readHead \in 0 .. BufferSize - 1 /\ b.writeHead \in 0 .. BufferSize - 1
      /\ SizeModulus \in Nat /\ BufferSize < SizeModulus
  BY Constants DEF Rings
<1>2. Buf!WrapAdd(a, n, SizeModulus) = a + n
  BY <1>1 DEF Buf!WrapAdd
<1>3. q = [b EXCEPT !.readHead = r, !.availableData = a + n]
  BY <1>1, <1>2 DEF Buf!RewindReadHead
<1>4. r \in 0 .. BufferSize - 1 /\ a + n \in 0 .. BufferSize
  BY <1>1
<1>5. b.writeHead = Buf!Advance(b.readHead, a, BufferSize)
  BY <1>1 DEF Buf!HeadsApart
<1>6. b.writeHead = Buf!Advance(r, a + n, BufferSize)
  <2> HIDE DEF a
  <2> QED
    BY <1>1, <1>4, <1>5 DEF Buf!Advance
<1> HIDE DEF r
<1>7. /\ q \in Rings /\ q.availableData = a + n /\ q.writeHead = b.writeHead
      /\ q.buffer = b.buffer /\ q.readHead = r /\ q.bufferSize = BufferSize
  BY <1>1, <1>3, <1>4 DEF Rings
<1> QED
  BY <1>6, <1>7 DEF Buf!HeadsApart

LEMMA TurnOnce ==
  ASSUME NEW size \in Nat \ {0}, NEW head \in 0 .. size - 1, NEW a \in 0 .. size
  PROVE  Buf!Advance(head, a, size) \in 0 .. size - 1
BY DEF Buf!Advance

LEMMA TurnTwice ==
  ASSUME NEW size \in Nat \ {0}, NEW head \in 0 .. size - 1, NEW a \in 0 .. size,
         NEW m \in 0 .. size - a
  PROVE  Buf!Advance(Buf!Advance(head, a, size), m, size) = Buf!Advance(head, a + m, size)
BY DEF Buf!Advance

(* How many slots lead from the write head to slot i.                        *)
Gap(head, i) == IF i >= head THEN i - head ELSE i - head + BufferSize

(* The slots behind a write head that advanced by m: those that it passed,   *)
(* and those that were behind it before.                                     *)
LEMMA BehindAdvanced ==
  ASSUME NEW w \in 0 .. BufferSize - 1, NEW m \in 0 .. BufferSize, NEW j \in 1 .. BufferSize
  PROVE  /\ Back(Buf!Advance(w, m, BufferSize), j) \in 0 .. BufferSize - 1
         /\ j <= m => Gap(w, Back(Buf!Advance(w, m, BufferSize), j)) = m - j
         /\ j > m => /\ Back(Buf!Advance(w, m, BufferSize), j) = Back(w, j - m)
                     /\ Gap(w, Back(Buf!Advance(w, m, BufferSize), j)) = BufferSize - (j - m)
BY Constants DEF Buf!Advance, Back, Gap

(* A write of which m bytes are accepted, beside the n that are kept.        *)
LEMMA PushSteps ==
  ASSUME NEW b \in Rings, Buf!HeadsApart(b), NEW last \in Nat, NEW n \in Nat, NEW m \in Nat,
         b.availableData <= n, n <= last, n + m <= BufferSize, Holds(b, n, last),
         NEW data, m = Buf!Accepted(b, data), \A k \in 1 .. m : data[k] = last + k
  PROVE  /\ Buf!PushMany(b, data) \in Rings /\ Buf!HeadsApart(Buf!PushMany(b, data))
         /\ Buf!PushMany(b, data).availableData = b.availableData + m
         /\ Holds(Buf!PushMany(b, data), n + m, last + m)
<1> DEFINE a == b.availableData
           w == b.writeHead
           w2 == Buf!Advance(w, m, BufferSize)
           q == Buf!PushMany(b, data)
<1>1. /\ a \in 0 .. BufferSize /\ BufferSize \in Nat \ {0} /\ b.bufferSize = BufferSize
      /\ b.readHead \in 0 .. BufferSize - 1 /\ w \in 0 .. BufferSize - 1
      /\ SizeModulus \in Nat /\ BufferSize < SizeModulus
      /\ b.buffer \in [0 .. BufferSize - 1 -> Nat]
      /\ m \in 0 .. BufferSize - a
  BY Constants DEF Rings
<1>3. Buf!Accepted(b, data) = m
  OBVIOUS
<1> DEFINE offset(i) == Gap(w, i)
           memory == [i \in 0 .. BufferSize - 1 |->
                        IF offset(i) < m THEN data[offset(i) + 1] ELSE b.buffer[i]]
<1>4. q = [b EXCEPT !.buffer = memory, !.writeHead = w2, !.availableData = a + m]
  <2>1. DOMAIN b.buffer = 0 .. BufferSize - 1
    BY <1>1
  <2>2. q = [b EXCEPT !.buffer = [i \in DOMAIN b.buffer |->
                                    IF Buf!Offset(b, i) < m THEN data[Buf!Offset(b, i) + 1]
                                                            ELSE b.buffer[i]],
                      !.writeHead = w2, !.availableData = a + m]
    BY <1>1, <1>3, Zenon DEF Buf!PushMany
  <2>3. \A i \in 0 .. BufferSize - 1 : Buf!Offset(b, i) = offset(i)
    BY <1>1 DEF Buf!Offset, Gap
  <2>4. [i \in DOMAIN b.buffer |-> IF Buf!Offset(b, i) < m THEN data[Buf!Offset(b, i) + 1]
                                                            ELSE b.buffer[i]] = memory
    <3> HIDE DEF offset
    <3> QED
      BY <2>1, <2>3, Zenon
  <2> HIDE DEF memory, w2
  <2> QED
    BY <2>2, <2>4, Zenon
<1>5. \A i \in 0 .. BufferSize - 1 : offset(i) \in Nat
  <2> HIDE DEF w
  <2> QED
    BY <1>1 DEF Gap
<1>6. /\ memory \in [0 .. BufferSize - 1 -> Nat]
      /\ \A i \in 0 .. BufferSize - 1 :
           memory[i] = IF offset(i) < m THEN last + offset(i) + 1 ELSE b.buffer[i]
  <2> HIDE DEF offset
  <2>1. \A i \in 0 .. BufferSize - 1 : offset(i) < m => offset(i) + 1 \in 1 .. m
    <3> SUFFICES ASSUME NEW i \in 0 .. BufferSize - 1, offset(i) < m
                 PROVE  offset(i) + 1 \in 1 .. m
      OBVIOUS
    <3>1. offset(i) \in Nat
      BY <1>5
    <3> QED
      BY <3>1
  <2>2. \A i \in 0 .. BufferSize - 1 : offset(i) < m =>
          data[offset(i) + 1] = last + offset(i) + 1 /\ data[offset(i) + 1] \in Nat
    BY <1>5, <2>1
  <2> QED
    BY <1>1, <2>2
<1> HIDE DEF memory, offset
<1>7. w2 \in 0 .. BufferSize - 1 /\ a + m \in 0 .. BufferSize
      /\ w2 = Buf!Advance(b.readHead, a + m, BufferSize)
  <2>1. w = Buf!Advance(b.readHead, a, BufferSize)
    BY <1>1 DEF Buf!HeadsApart
  <2>2. m \in 0 .. BufferSize
    BY <1>1
  <2>3. w2 \in 0 .. BufferSize - 1
    BY <1>1, <2>2, TurnOnce
  <2> HIDE DEF a, w
  <2>4. a + m \in 0 .. BufferSize
    BY <1>1
  <2> QED
    BY <1>1, <2>1, <2>3, <2>4, TurnTwice DEF w2
<1> HIDE DEF w2
<1>8. /\ q \in Rings /\ q.availableData = a + m /\ q.writeHead = w2
      /\ q.buffer = memory /\ q.readHead = b.readHead /\ q.bufferSize = BufferSize
  BY <1>1, <1>4, <1>6, <1>7 DEF Rings
<1>9. \A j \in 1 .. n + m : memory[Back(w2, j)] = last + m + 1 - j
  <2> TAKE j \in 1 .. n + m
  <2> DEFINE i == Back(w2, j)
  <2>1. j \in 1 .. BufferSize /\ m \in 0 .. BufferSize
    BY <1>1
  <2>2. /\ i \in 0 .. BufferSize - 1
        /\ j <= m => offset(i) = m - j
        /\ j > m => i = Back(w, j - m) /\ offset(i) = BufferSize - (j - m)
    <3> HIDE DEF w
    <3>1. w \in 0 .. BufferSize - 1
      BY <1>1
    <3>2. /\ Back(Buf!Advance(w, m, BufferSize), j) \in 0 .. BufferSize - 1
          /\ j <= m => Gap(w, Back(Buf!Advance(w, m, BufferSize), j)) = m - j
          /\ j > m => /\ Back(Buf!Advance(w, m, BufferSize), j) = Back(w, j - m)
                      /\ Gap(w, Back(Buf!Advance(w, m, BufferSize), j)) = BufferSize - (j - m)
      BY <2>1, <3>1, BehindAdvanced
    <3> QED
      BY <3>2, Zenon DEF offset, w2
  <2> HIDE DEF i
  <2>3. CASE j <= m
    <3>1. offset(i) = m - j /\ offset(i) < m
      BY <2>1, <2>2, <2>3
    <3>2. memory[i] = last + (m - j) + 1
      BY <1>6, <2>2, <3>1
    <3> QED
      BY <2>1, <3>2 DEF i
  <2>4. CASE j > m
    <3>1. offset(i) = BufferSize - (j - m) /\ ~(offset(i) < m) /\ j - m \in 1 .. n
      BY <1>1, <2>1, <2>2, <2>4
    <3>2. memory[i] = b.buffer[Back(w, j - m)]
      BY <1>6, <2>2, <2>4, <3>1
    <3> QED
      BY <2>1, <3>1, <3>2 DEF Holds, i
  <2> QED
    BY <2>1, <2>3, <2>4
<1>10. Holds(q, n + m, last + m)
  BY <1>8, <1>9 DEF Holds
<1> QED
  BY <1>7, <1>8, <1>10 DEF Buf!HeadsApart

-----------------------------------------------------------------------------
(* Lines and packets on their way.                                           *)

LEMMA TailLines ==
  ASSUME NEW s \in Seq(Lines), s # <<>>, NEW T
  PROVE  /\ None(s, T) => None(Tail(s), T) /\ Head(s).text \notin T
         /\ Single(s, T) => Single(Tail(s), T) /\ (Head(s).text \in T => None(Tail(s), T))
<1>1. /\ Len(s) \in Nat \ {0} /\ DOMAIN s = 1 .. Len(s) /\ Head(s) = s[1]
      /\ DOMAIN Tail(s) = 1 .. Len(s) - 1
      /\ \A k \in 1 .. Len(s) - 1 : Tail(s)[k] = s[k + 1] /\ k + 1 \in 1 .. Len(s)
  BY EmptySeq
<1>2. 1 \in DOMAIN s
  BY <1>1
<1>3. ASSUME None(s, T) PROVE None(Tail(s), T) /\ Head(s).text \notin T
  BY <1>1, <1>2, <1>3 DEF None
<1>4. ASSUME Single(s, T) PROVE Single(Tail(s), T)
  <2> SUFFICES ASSUME NEW j \in 1 .. Len(s) - 1, NEW k \in 1 .. Len(s) - 1,
                      Tail(s)[j].text \in T, Tail(s)[k].text \in T
               PROVE  j = k
    BY <1>1 DEF Single
  <2>1. s[j + 1].text \in T /\ s[k + 1].text \in T /\ j + 1 \in DOMAIN s /\ k + 1 \in DOMAIN s
    BY <1>1
  <2>2. j + 1 = k + 1
    BY <1>4, <2>1 DEF Single
  <2> QED
    BY <2>2
<1>5. ASSUME Single(s, T), Head(s).text \in T PROVE None(Tail(s), T)
  <2> SUFFICES ASSUME NEW k \in 1 .. Len(s) - 1, Tail(s)[k].text \in T PROVE FALSE
    BY <1>1 DEF None
  <2>1. s[k + 1].text \in T /\ k + 1 \in DOMAIN s /\ s[1].text \in T
    BY <1>1, <1>5
  <2>2. 1 = k + 1
    BY <1>2, <1>5, <2>1 DEF Single
  <2> QED
    BY <2>2
<1> QED
  BY <1>3, <1>4, <1>5

LEMMA AppendLine ==
  ASSUME NEW s \in Seq(Lines), NEW e \in Lines, NEW T
  PROVE  /\ None(s, T) => Single(Append(s, e), T)
         /\ e.text \notin T /\ None(s, T) => None(Append(s, e), T)
         /\ e.text \notin T /\ Single(s, T) => Single(Append(s, e), T)
<1> DEFINE l == Len(s)
           q == Append(s, e)
<1>1. /\ l \in Nat /\ DOMAIN s = 1 .. l /\ DOMAIN q = 1 .. l + 1
      /\ q[l + 1] = e /\ \A k \in 1 .. l : q[k] = s[k]
  OBVIOUS
<1> HIDE DEF l, q
<1>2. \A k \in 1 .. l + 1 : k \in 1 .. l \/ k = l + 1
  BY <1>1
<1> QED
  BY <1>1, <1>2 DEF None, Single, q

(* No line of some texts, and so of no part of them.                         *)
LEMMA NoneOfPart ==
  ASSUME NEW s, NEW T, NEW U, U \subseteq T, None(s, T) PROVE None(s, U)
BY DEF None

LEMMA CarriersAny ==
  ASSUME NEW s \in Seq(Lines), None(s, SendCommand), NEW packet
  PROVE  s \in Seq(Carriers(packet))
<1>1. \A k \in 1 .. Len(s) : s[k] \in Carriers(packet)
  <2> TAKE k \in 1 .. Len(s)
  <2>1. s[k] \in Lines /\ k \in DOMAIN s
    OBVIOUS
  <2> QED
    BY <2>1 DEF None, Carriers
<1> QED
  BY <1>1

LEMMA HeardMore ==
  ASSUME NEW packets \in Seq(Seq(Nat)), NEW p \in Seq(Nat),
         NEW more, more = Append(packets, p)
  PROVE  /\ more \in Seq(Seq(Nat))
         /\ UpTo(more, Len(more)) = UpTo(packets, Len(packets)) \cup Bytes(p)
         /\ Gapless(packets)
            /\ (\A b \in 1 .. p[Len(p)] : b \in UpTo(packets, Len(packets)) \cup Bytes(p))
              => Gapless(more)
<1> DEFINE l == Len(packets)
<1>1. /\ l \in Nat /\ DOMAIN packets = 1 .. l /\ Len(more) = l + 1 /\ DOMAIN more = 1 .. l + 1
      /\ more[l + 1] = p /\ \A k \in 1 .. l : more[k] = packets[k]
      /\ more \in Seq(Seq(Nat))
  OBVIOUS
<1> HIDE DEF l
<1>2. \A k \in 0 .. l : UpTo(more, k) = UpTo(packets, k)
  <2> TAKE k \in 0 .. l
  <2>1. \A j \in 1 .. k : more[j] = packets[j]
    BY <1>1
  <2> QED
    BY <2>1 DEF UpTo
<1>3. UpTo(more, l + 1) = UpTo(packets, l) \cup Bytes(p)
  <2>1. Bytes(p) \subseteq Nat
    BY DEF Bytes
  <2>2. \A j \in 1 .. l + 1 : j \in 1 .. l \/ j = l + 1
    BY <1>1
  <2>3. \A j \in 1 .. l : more[j] = packets[j] /\ j \in 1 .. l + 1
    BY <1>1
  <2>4. more[l + 1] = p /\ l + 1 \in 1 .. l + 1
    BY <1>1
  <2> DEFINE m == l + 1
  <2> HIDE DEF m
  <2>5. \A x \in Nat : x \in UpTo(more, m) <=> x \in UpTo(packets, l) \/ x \in Bytes(p)
    <3> TAKE x \in Nat
    <3>1. x \in UpTo(more, m) <=> \E j \in 1 .. m : x \in Bytes(more[j])
      BY DEF UpTo
    <3>2. x \in UpTo(packets, l) <=> \E j \in 1 .. l : x \in Bytes(packets[j])
      BY DEF UpTo
    <3>3. (\E j \in 1 .. l + 1 : x \in Bytes(more[j]))
          <=> (\E j \in 1 .. l : x \in Bytes(packets[j])) \/ x \in Bytes(p)
      BY <2>2, <2>3, <2>4, Zenon
    <3> QED
      BY <3>1, <3>2, <3>3 DEF m
  <2>6. UpTo(more, m) \subseteq Nat /\ UpTo(packets, l) \subseteq Nat
    BY DEF UpTo
  <2>7. UpTo(more, m) = UpTo(packets, l) \cup Bytes(p)
    BY <2>1, <2>5, <2>6
  <2> QED
    BY <2>7 DEF m
<1>4. ASSUME Gapless(packets), \A b \in 1 .. p[Len(p)] : b \in UpTo(packets, l) \cup Bytes(p)
      PROVE  Gapless(more)
  <2> SUFFICES ASSUME NEW k \in 1 .. l + 1, NEW b \in 1 .. more[k][Len(more[k])]
               PROVE  b \in UpTo(more, k - 1) \cup Bytes(more[k])
    BY <1>1 DEF Gapless
  <2>1. CASE k = l + 1
    <3>1. k - 1 = l /\ l \in 0 .. l
      BY <1>1, <2>1
    <3> QED
      BY <1>1, <1>2, <1>4, <2>1, <3>1
  <2>2. CASE k \in 1 .. l
    <3>1. k - 1 \in 0 .. l
      BY <1>1, <2>2
    <3> QED
      BY <1>1, <1>2, <1>4, <2>2, <3>1 DEF Gapless
  <2> QED
    BY <1>1, <2>1, <2>2
<1> QED
  BY <1>1, <1>3, <1>4 DEF l

LEMMA AnswersAreLines == ASSUME NEW s \in Seq(Answers) PROVE s \in Seq(Lines)
<1>1. Answers \subseteq Lines
  BY DEF Answers
<1> QED
  BY <1>1

-----------------------------------------------------------------------------
(* The line that is read.                                                    *)

LEMMA Matching ==
  ASSUME NEW d \in Devices, NEW line \in Answers,
         NEW e, e = ParseDataRate(MatchReply(d, line), line)
  PROVE  /\ e \in Devices /\ e.sendState = d.sendState /\ e.bytesToResend = d.bytesToResend
         /\ e.writeBuffer = d.writeBuffer
         /\ e.waitForReply = IF line.text = d.waitForReply THEN NULL ELSE d.waitForReply
         /\ e.replyState # "sendConfirm" => d.replyState # "sendConfirm"
         /\ e.replyState = "sendConfirm" => d.replyState = "sendConfirm"
<1> DEFINE c == MatchReply(d, line)
<1>1. /\ c \in Devices /\ c.sendState = d.sendState /\ c.bytesToResend = d.bytesToResend
      /\ c.writeBuffer = d.writeBuffer /\ c.replyState = d.replyState
      /\ c.waitForReply = IF line.text = d.waitForReply THEN NULL ELSE d.waitForReply
  <2>1. NULL \in Replies
    BY DEF Replies
  <2>2. CASE line.text = d.waitForReply
    <3>1. c = [d EXCEPT !.waitForReply = NULL]
      BY <2>2 DEF MatchReply, Await
    <3> QED
      BY <2>1, <2>2, <3>1 DEF Devices
  <2>3. CASE line.text # d.waitForReply
    <3>1. c = d
      BY <2>3 DEF MatchReply
    <3> QED
      BY <2>3, <3>1
  <2> QED
    BY <2>2, <2>3
<1> HIDE DEF c
<1>2. CASE line.text = "AT+DR=" /\ c.replyState = "dataRate"
  <2> DEFINE size == PacketSizes[IF line.data[1] < Len(PacketSizes) THEN line.data[1] + 1 ELSE 1]
  <2>1. line.data[1] \in Nat
    BY <1>2 DEF Answers, Lines
  <2>2. size \in Sizes
    BY <2>1, Constants DEF Sizes
  <2>3. e = [c EXCEPT !.replyState = "okReply", !.packetSize = size]
    BY <1>2 DEF ParseDataRate, c
  <2> HIDE DEF size
  <2> QED
    BY <1>1, <1>2, <2>2, <2>3 DEF Devices
<1>3. CASE ~(line.text = "AT+DR=" /\ c.replyState = "dataRate")
  <2>1. e = c
    BY <1>3 DEF ParseDataRate, c
  <2> QED
    BY <1>1, <2>1
<1> QED
  BY <1>2, <1>3

LEMMA Receiving ==
  ASSUME NEW d \in Devices, NEW line \in Answers, NEW e, e = ParseReceived(d, line)
  PROVE  /\ e \in Devices /\ e.sendState = d.sendState /\ e.bytesToResend = d.bytesToResend
         /\ e.writeBuffer = d.writeBuffer /\ e.waitForReply = d.waitForReply
         /\ e.replyState = d.replyState
<1>1. d.readBuffer \o line.data \in Seq(Nat)
  BY DEF Devices, Answers, Lines
<1> QED
  BY <1>1 DEF ParseReceived, Devices

LEMMA NotConfirmed ==
  ASSUME NEW d \in Devices, NEW line \in Answers, NEW e, e = ParseSendConfirm(d, line),
         NotSent(d, line),
         Buf!HeadsApart(d.writeBuffer),
         d.writeBuffer.availableData + d.bytesToResend <= BufferSize
  PROVE  /\ e \in Devices /\ e.sendState = d.sendState /\ e.bytesToResend = d.bytesToResend
         /\ e.waitForReply = NULL
         /\ e.writeBuffer = Buf!RewindReadHead(d.writeBuffer, d.bytesToResend)
<1> DEFINE q == Buf!RewindReadHead(d.writeBuffer, d.bytesToResend)
<1>1. d.writeBuffer \in Rings /\ d.bytesToResend \in Nat
  BY DEF Devices
<1>2. q \in Rings
  BY <1>1, RewindSteps
<1>3. e = [Await(d, NULL) EXCEPT !.replyState = "okReply", !.writeBuffer = q]
  BY DEF ParseSendConfirm, Await
<1> HIDE DEF q
<1>4. /\ e \in Devices /\ e.sendState = d.sendState /\ e.bytesToResend = d.bytesToResend
      /\ e.waitForReply = NULL /\ e.writeBuffer = q
  <2>1. NULL \in Replies
    BY DEF Replies
  <2>2. e = [d EXCEPT !.waitForReply = NULL, !.replyState = "okReply", !.writeBuffer = q]
    BY <1>3 DEF Await, Devices
  <2> QED
    BY <1>2, <2>1, <2>2 DEF Devices
<1> QED
  BY <1>4 DEF q

LEMMA Parsing ==
  ASSUME Good, NEW p, p = Parsed
  PROVE  /\ p \in Devices /\ p.sendState = dev.sendState /\ p.bytesToResend = dev.bytesToResend
         /\ dev.sendState # "waitForSend" => p.writeBuffer = dev.writeBuffer
         /\ dev.sendState = "waitForSend" =>
              \/ /\ p.waitForReply = "+EVT:SEND_CONFIRMED_OK" /\ p.replyState = "sendConfirm"
                 /\ p.writeBuffer = dev.writeBuffer
              \/ /\ Reads /\ p.waitForReply = NULL
                 /\ \/ Head(rx).text \in Success /\ p.writeBuffer = dev.writeBuffer
                    \/ /\ Head(rx).text \in Outcomes
                       /\ p.writeBuffer = Buf!RewindReadHead(dev.writeBuffer, dev.bytesToResend)
<1>1. dev \in Devices /\ rx \in Seq(Answers) /\ rx \in Seq(Lines)
  BY AnswersAreLines DEF Good, Typed
<1>2. CASE ~Reads
  <2>1. p = dev
    BY <1>2 DEF Parsed
  <2> QED
    BY <1>1, <2>1 DEF Good, Sending
<1>3. CASE Reads
  <2> DEFINE line == Head(rx)
             d == ParseDataRate(MatchReply(dev, line), line)
             e == ParseSendConfirm(d, line)
  <2>1. rx # <<>> /\ line \in Answers
    BY <1>1, <1>3, EmptySeq DEF Reads
  <2>2. p = ParseReceived(e, line)
    BY <1>3 DEF Parsed
  <2>3. dev.sendState # "waitForSend" => line.text \notin Outcomes
    BY <1>1, <2>1, TailLines DEF Good, OnePlace
  <2> HIDE DEF line
  <2>4. /\ d \in Devices /\ d.sendState = dev.sendState /\ d.bytesToResend = dev.bytesToResend
        /\ d.writeBuffer = dev.writeBuffer
        /\ d.waitForReply = IF line.text = dev.waitForReply THEN NULL ELSE dev.waitForReply
        /\ d.replyState # "sendConfirm" => dev.replyState # "sendConfirm"
        /\ d.replyState = "sendConfirm" => dev.replyState = "sendConfirm"
    BY <1>1, <2>1, Matching
  <2> HIDE DEF d
  <2>5. CASE ~NotSent(d, line)
    <3>1. e = d
      BY <2>5 DEF ParseSendConfirm
    <3> HIDE DEF e
    <3>2. /\ p \in Devices /\ p.sendState = d.sendState /\ p.bytesToResend = d.bytesToResend
          /\ p.writeBuffer = d.writeBuffer /\ p.waitForReply = d.waitForReply
          /\ p.replyState = d.replyState
      BY <2>1, <2>2, <2>4, <3>1, Receiving
    <3>3. dev.sendState = "waitForSend" => /\ dev.waitForReply = "+EVT:SEND_CONFIRMED_OK"
                                          /\ dev.replyState = "sendConfirm"
      BY DEF Good, Sending
    <3>4. d.replyState \in {"okReply", "dataRate", "sendConfirm"}
      BY <2>4 DEF Devices
    <3>5. CASE line.text = dev.waitForReply
      BY <1>3, <2>4, <3>2, <3>3, <3>5 DEF Success, line
    <3>6. CASE line.text # dev.waitForReply
      BY <2>4, <3>2, <3>3, <3>4, <3>6
    <3> QED
      BY <3>5, <3>6
  <2>6. CASE NotSent(d, line)
    <3>1. line.text \in Outcomes
      BY <2>6 DEF NotSent, Outcomes
    <3>2. dev.sendState = "waitForSend"
      BY <2>3, <3>1
    <3>3. /\ Buf!HeadsApart(d.writeBuffer)
          /\ d.writeBuffer.availableData + d.bytesToResend <= BufferSize
      BY <2>4, <3>2, Constants DEF Good, Typed, Buffered, Devices, Rings, Unconfirmed
    <3>4. /\ e \in Devices /\ e.sendState = d.sendState /\ e.bytesToResend = d.bytesToResend
          /\ e.waitForReply = NULL
          /\ e.writeBuffer = Buf!RewindReadHead(d.writeBuffer, d.bytesToResend)
      BY <2>1, <2>4, <2>6, <3>3, NotConfirmed
    <3> HIDE DEF e
    <3>5. /\ p \in Devices /\ p.sendState = e.sendState /\ p.bytesToResend = e.bytesToResend
          /\ p.writeBuffer = e.writeBuffer /\ p.waitForReply = e.waitForReply
      BY <2>1, <2>2, <3>4, Receiving
    <3> QED
      BY <1>3, <2>4, <3>1, <3>2, <3>4, <3>5 DEF line
  <2> QED
    BY <2>5, <2>6
<1> QED
  BY <1>2, <1>3

(* What is left of the lines when one has been read, or none.                *)
LEMMA LinesLeft ==
  ASSUME Good, NEW rest, rest = IF Reads THEN Tail(rx) ELSE rx
  PROVE  /\ rest \in Seq(Answers) /\ Single(rest, Outcomes)
         /\ None(rx, Outcomes) => None(rest, Outcomes)
         /\ None(rx, Success) => None(rest, Success)
         /\ Reads /\ Head(rx).text \in Outcomes => None(rest, Outcomes) /\ ~None(rx, Outcomes)
         /\ Reads /\ Head(rx).text \in Success => ~None(rx, Success)
<1>1. rx \in Seq(Answers) /\ rx \in Seq(Lines) /\ Single(rx, Outcomes)
  BY AnswersAreLines DEF Good, Typed, OnePlace
<1>2. CASE ~Reads
  BY <1>1, <1>2
<1>3. CASE Reads
  <2>1. rx # <<>> /\ rest = Tail(rx)
    BY <1>3 DEF Reads
  <2>2. rest \in Seq(Answers)
    BY <1>1, <2>1, EmptySeq
  <2>3. \A T : /\ None(rx, T) => None(Tail(rx), T) /\ Head(rx).text \notin T
               /\ Single(rx, T) => Single(Tail(rx), T)
                                   /\ (Head(rx).text \in T => None(Tail(rx), T))
    BY <1>1, <2>1, TailLines
  <2> QED
    BY <1>1, <2>1, <2>2, <2>3
<1> QED
  BY <1>2, <1>3

-----------------------------------------------------------------------------
(* What a step leaves alone.                                                 *)

(* The driver may go from one state to another when nothing is on its way.   *)
LEMMA Moves ==
  ASSUME Good, dev.sendState # "waitForSend",
         dev' \in Devices, dev'.writeBuffer = dev.writeBuffer, dev'.sendState # "waitForSend",
         ~serialOpen' => dev'.sendState \notin FromJoined,
         dev'.sendState = "sendPacket" => ~Buf!IsEmpty(dev.writeBuffer),
         rx' \in Seq(Answers), None(rx', Outcomes),
         tx' \in Seq(Lines), None(tx', SendCommand),
         UNCHANGED <<up, outstanding, down, air, heard>>
  PROVE  Good'
<1>1. Typed'
  BY DEF Good, Typed
<1>2. Unconfirmed = 0 /\ Unconfirmed' = 0
  BY DEF Unconfirmed
<1>3. Buffered' /\ Confirmed' = Confirmed
  BY <1>2 DEF Good, Buffered, Holds, Confirmed, Buf!HeadsApart, Buf!Advance
<1>4. Sending'
  BY DEF Sending, Buf!IsEmpty
<1>5. Single(rx, Outcomes)' /\ Single(tx, SendCommand)'
  BY DEF None, Single
<1>6. OnePlace'
  BY <1>5 DEF Good, OnePlace, None
<1>7. SamePacket'
  <2>1. air' = <<>>
    BY DEF Good, OnePlace
  <2>2. ASSUME NEW packet PROVE tx' \in Seq(Carriers(packet))
    BY CarriersAny
  <2> QED
    BY <2>1, <2>2 DEF SamePacket, Carriers
<1>8. None(rx', Success)
  BY DEF None, Outcomes, Success
<1>9. Arrived'
  BY <1>3, <1>8 DEF Good, Arrived, HeardAll, UpTo, Bytes, None
<1>10. Gapless(heard)'
  BY SMTT(40) DEF Good, Gapless, UpTo, Bytes
<1> QED
  BY <1>1, <1>3, <1>4, <1>6, <1>7, <1>9, <1>10 DEF Good

(* The packet and its outcome may stay where they are.                       *)
LEMMA Stays ==
  ASSUME Good, dev' \in Devices, dev'.writeBuffer = dev.writeBuffer,
         dev'.sendState = dev.sendState, dev'.bytesToResend = dev.bytesToResend,
         dev.sendState = "waitForSend" =>
           dev'.waitForReply = dev.waitForReply /\ dev'.replyState = dev.replyState,
         rx' \in Seq(Answers), Single(rx', Outcomes),
         None(rx, Outcomes) => None(rx', Outcomes), None(rx, Success) => None(rx', Success),
         tx' \in Seq(Lines), tx' \in Seq(Carriers(Packet)), Single(tx', SendCommand),
         None(tx, SendCommand) => None(tx', SendCommand),
         UNCHANGED <<serialOpen, up, outstanding, air, heard>>, down' \in Nat
  PROVE  Good'
<1>1. Typed'
  BY DEF Good, Typed
<1>2. Unconfirmed' = Unconfirmed
  BY DEF Unconfirmed
<1>3. Buffered' /\ Confirmed' = Confirmed
  BY <1>2 DEF Good, Buffered, Holds, Confirmed, Buf!HeadsApart, Buf!Advance
<1>4. Sending'
  BY DEF Good, Sending, Buf!IsEmpty
<1>5. OnePlace'
  BY DEF Good, OnePlace, None, Single
<1>6. Packet' = Packet
  BY <1>3 DEF Packet
<1>7. SamePacket'
  BY <1>6 DEF Good, SamePacket, Carriers
<1>8. Arrived'
  BY <1>2, <1>3 DEF Good, Arrived, HeardAll, UpTo, Bytes, None
<1>9. Gapless(heard)'
  BY DEF Good, Gapless, UpTo, Bytes
<1> QED
  BY <1>1, <1>3, <1>4, <1>5, <1>7, <1>8, <1>9 DEF Good

LEMMA InitGood == ASSUME Init PROVE Good
<1>1. PICK flags \in SUBSET {"CONNECT_PENDING", "LINE_READ"}, hasEUI \in BOOLEAN :
        dev = NewRak(flags, hasEUI)
  BY DEF Init
<1> DEFINE memory == [i \in 0 .. BufferSize - 1 |-> 0]
<1>2. /\ memory \in [0 .. BufferSize - 1 -> Nat] /\ 0 \in 0 .. BufferSize - 1
      /\ BufferSize \in Nat /\ 0 \in 0 .. BufferSize
  BY Constants
<1>3. dev.writeBuffer = [buffer |-> memory, writeHead |-> 0, readHead |-> 0,
                         availableData |-> 0, bufferSize |-> BufferSize]
  BY <1>1 DEF NewRak, Buf!New
<1> HIDE DEF memory
<1>4. dev.writeBuffer \in Rings /\ dev.writeBuffer.availableData = 0
      /\ Buf!HeadsApart(dev.writeBuffer)
  BY <1>2, <1>3, Constants DEF Rings, Buf!HeadsApart, Buf!Advance
<1>5. dev \in Devices /\ dev.sendState = "notConnected"
  <2>1. PacketSizes[1] \in Sizes
    BY Constants
  <2>2. flags \in SUBSET Flags /\ <<>> \in Seq(Nat)
    BY DEF Flags
  <2> QED
    BY <1>1, <1>4, <2>1, <2>2 DEF NewRak, Devices, SendStates, Replies
<1>6. rx = <<>> /\ tx = <<>> /\ air = <<>> /\ heard = <<>> /\ up = 0 /\ down = 0
      /\ outstanding = 0
  BY DEF Init
<1>7. Typed
  BY <1>5, <1>6 DEF Typed
<1>8. Unconfirmed = 0 /\ Confirmed = 0 /\ Len(<<>>) = 0 /\ 1 .. 0 = {}
  BY <1>4, <1>5, <1>6 DEF Unconfirmed, Confirmed
<1>9. Buffered
  BY <1>2, <1>4, <1>6, <1>8 DEF Buffered, Holds
<1>10. Sending
  BY <1>5 DEF Sending, FromJoined
<1>11. \A T : None(<<>>, T) /\ Single(<<>>, T)
  BY DEF None, Single
<1>12. OnePlace
  BY <1>5, <1>6, <1>11 DEF OnePlace
<1>13. SamePacket
  BY <1>6 DEF SamePacket
<1>14. Arrived
  BY <1>6, <1>8, <1>11 DEF Arrived, HeardAll, UpTo
<1>15. Gapless(heard)
  BY <1>6 DEF Gapless
<1> QED
  BY <1>7, <1>9, <1>10, <1>12, <1>13, <1>14, <1>15 DEF Good

-----------------------------------------------------------------------------
(* The driver.                                                               *)

(* A run in a state that leaves the packets alone, with a command or none.   *)
LEMMA RunMoves ==
  ASSUME Good, dev.sendState # "waitForSend", serialOpen',
         rx' = IF Reads THEN Tail(rx) ELSE rx,
         dev' \in Devices, dev'.writeBuffer = dev.writeBuffer, dev'.sendState # "waitForSend",
         dev'.sendState = "sendPacket" => ~Buf!IsEmpty(dev.writeBuffer),
         tx' = tx \/ \E text \in Commands \ SendCommand : tx' = Append(tx, Line(text, <<>>)),
         UNCHANGED <<up, outstanding, down, air, heard>>
  PROVE  Good'
<1>1. None(rx, Outcomes) /\ None(tx, SendCommand) /\ tx \in Seq(Lines)
  BY DEF Good, OnePlace, Typed
<1>2. rx' \in Seq(Answers) /\ None(rx', Outcomes)
  BY <1>1, LinesLeft
<1>3. tx' \in Seq(Lines) /\ None(tx', SendCommand)
  <2>1. ASSUME NEW text \in Commands \ SendCommand, tx' = Append(tx, Line(text, <<>>))
        PROVE  tx' \in Seq(Lines) /\ None(tx', SendCommand)
    <3> DEFINE e == Line(text, <<>>)
    <3>1. <<>> \in Seq(Nat)
      OBVIOUS
    <3>2. e \in Lines /\ e.text \notin SendCommand
      BY <2>1, <3>1 DEF Line, Lines, Texts
    <3> HIDE DEF e
    <3>3. tx' = Append(tx, e)
      BY <2>1 DEF e
    <3> QED
      BY <1>1, <3>2, <3>3, AppendLine
  <2> QED
    BY <1>1, <2>1
<1> QED
  BY <1>2, <1>3, Moves

LEMMA WaitsStep ==
  ASSUME Good, Waits, UNCHANGED <<up, outstanding, down, air, heard>>
  PROVE  Good'
<1> DEFINE p == Parsed
<1>1. /\ serialOpen /\ serialOpen' = serialOpen /\ rx' = (IF Reads THEN Tail(rx) ELSE rx)
      /\ p.waitForReply # NULL /\ dev' = p /\ tx' = tx
  BY DEF Waits
<1> HIDE DEF p
<1>2. /\ p \in Devices /\ p.sendState = dev.sendState /\ p.bytesToResend = dev.bytesToResend
      /\ dev.sendState # "waitForSend" => p.writeBuffer = dev.writeBuffer
      /\ dev.sendState = "waitForSend" =>
              \/ /\ p.waitForReply = "+EVT:SEND_CONFIRMED_OK" /\ p.replyState = "sendConfirm"
                 /\ p.writeBuffer = dev.writeBuffer
              \/ p.waitForReply = NULL
  BY Parsing DEF p
<1>3. CASE dev.sendState # "waitForSend"
  <2>1. dev.sendState = "sendPacket" => ~Buf!IsEmpty(dev.writeBuffer)
    BY DEF Good, Sending
  <2> QED
    BY <1>1, <1>2, <1>3, <2>1, RunMoves
<1>4. CASE dev.sendState = "waitForSend"
  <2>1. /\ rx' \in Seq(Answers) /\ Single(rx', Outcomes)
        /\ None(rx, Outcomes) => None(rx', Outcomes)
        /\ None(rx, Success) => None(rx', Success)
    BY <1>1, LinesLeft
  <2>2. dev.waitForReply = "+EVT:SEND_CONFIRMED_OK" /\ dev.replyState = "sendConfirm"
    BY <1>4 DEF Good, Sending
  <2>3. /\ tx' \in Seq(Lines) /\ tx' \in Seq(Carriers(Packet)) /\ Single(tx', SendCommand)
        /\ None(tx, SendCommand) => None(tx', SendCommand)
        /\ down' \in Nat
    BY <1>1 DEF Good, Typed, SamePacket, OnePlace
  <2> QED
    BY <1>1, <1>2, <1>4, <2>1, <2>2, <2>3, Stays
<1> QED
  BY <1>3, <1>4

LEMMA SendPacketStep ==
  ASSUME PacketsFit, Good, SendPacket, UNCHANGED <<up, outstanding, down, air, heard>>
  PROVE  Good'
<1> DEFINE p == Parsed
           b == dev.writeBuffer
           a == b.availableData
           size == p.packetSize
           packet == [k \in 1 .. Buf!Lesser(size, a) |-> b.buffer[Buf!Slot(b, k)]]
           n == Buf!Lesser(size, a)
           q == Buf!PullMany(b, size)
<1>1. /\ serialOpen /\ serialOpen' = serialOpen /\ rx' = (IF Reads THEN Tail(rx) ELSE rx)
      /\ p.sendState = "sendPacket"
      /\ dev' = [Goto(Await(p, "+EVT:SEND_CONFIRMED_OK"), "waitForSend") EXCEPT
                   !.replyState = "sendConfirm",
                   !.bytesToResend = Len(NextPacket(p)),
                   !.writeBuffer = Buf!PullMany(@, size)]
      /\ \E line \in Transmitted(NextPacket(p)) : tx' = Append(tx, line)
  BY DEF SendPacket, Runs
<1>2. p \in Devices /\ dev.sendState = "sendPacket" /\ p.writeBuffer = b
  BY <1>1, Parsing
<1>3. size \in Nat \ {0} /\ size <= SerialRoom /\ b \in Rings /\ up \in Nat
  BY <1>2, Constants DEF PacketsFit, Devices, Good, Typed
<1>4. Unconfirmed = 0 /\ Confirmed = up - a
  BY <1>2, <1>3 DEF Unconfirmed, Confirmed, Rings
<1>5. /\ a \in Nat /\ a # 0 /\ a <= up /\ a <= BufferSize /\ a <= outstanding
      /\ outstanding <= BufferSize
      /\ Buf!HeadsApart(b) /\ Holds(b, a, up)
  BY <1>2, <1>3, <1>4 DEF Good, Buffered, Sending, Buf!IsEmpty, Rings
<1>6. /\ n \in 0 .. a /\ q \in Rings /\ Buf!HeadsApart(q) /\ q.availableData = a - n
      /\ q.writeHead = b.writeHead /\ q.buffer = b.buffer
      /\ packet = [k \in 1 .. n |-> up - a + k]
  <2> HIDE DEF size, b
  <2>1. size \in Nat
    BY <1>3
  <2> QED
    BY <1>3, <1>5, <2>1, PullSteps
<1>7. n # 0 /\ n <= SerialRoom /\ NextPacket(p) = packet
  <2>1. NextPacket(p) = packet
    BY <1>2, Zenon DEF NextPacket, Buf!BytesAvailable
  <2> HIDE DEF a, size
  <2> QED
    BY <1>3, <1>5, <2>1, Constants DEF Buf!Lesser
<1> HIDE DEF p, b, a, size, n, q, packet
<1>8. packet \in Seq(Nat) /\ Len(packet) = n
  <2>1. \A k \in 1 .. n : up - a + k \in Nat
    BY <1>3, <1>5, <1>6
  <2> QED
    BY <1>5, <1>6, <2>1
<1>9. /\ dev' \in Devices /\ dev'.sendState = "waitForSend"
      /\ dev'.waitForReply = "+EVT:SEND_CONFIRMED_OK" /\ dev'.replyState = "sendConfirm"
      /\ dev'.bytesToResend = n /\ dev'.writeBuffer = q
  <2>1. dev' = [p EXCEPT !.waitForReply = "+EVT:SEND_CONFIRMED_OK", !.sendState = "waitForSend",
                         !.replyState = "sendConfirm", !.bytesToResend = n, !.writeBuffer = q]
    BY <1>1, <1>2, <1>7, <1>8 DEF Goto, Await, Devices, q
  <2> QED
    <3>1. /\ "waitForSend" \in SendStates /\ "+EVT:SEND_CONFIRMED_OK" \in Replies
          /\ n \in Nat
      BY <1>5, <1>6 DEF SendStates, Replies
    <3> QED
      BY <1>2, <1>6, <2>1, <3>1 DEF Devices
<1>10. Unconfirmed' = n /\ Confirmed' = Confirmed /\ up' = up
  <2>1. Unconfirmed' = n
    BY <1>9 DEF Unconfirmed
  <2>2. Confirmed' = up - (a - n) - n
    BY <1>6, <1>9, <2>1 DEF Confirmed
  <2> QED
    BY <1>3, <1>4, <1>5, <1>6, <2>1, <2>2
<1>11. /\ rx' \in Seq(Answers) /\ None(rx', Outcomes) /\ Single(rx', Outcomes)
       /\ None(tx, SendCommand) /\ tx \in Seq(Lines) /\ air' = <<>>
  BY <1>1, <1>2, LinesLeft DEF Good, OnePlace, Typed
<1> DEFINE e == Line("AT+SEND", packet)
<1>12. e \in Lines /\ e.text = "AT+SEND" /\ e.data = packet
  BY <1>8 DEF Line, Lines, Texts, Commands
<1>13. tx' = Append(tx, e)
  <2>1. Transmitted(packet) = {e}
    BY <1>7, <1>8, Zenon DEF Transmitted
  <2> QED
    BY <1>1, <1>7, <2>1
<1> HIDE DEF e
<1>14. tx' \in Seq(Lines) /\ Single(tx', SendCommand)
  BY <1>11, <1>12, <1>13, AppendLine
<1>15. Typed'
  BY <1>9, <1>11, <1>14 DEF Good, Typed
<1>16. Buffered'
  <2>1. a - n + n = a
    BY <1>5, <1>6
  <2>2. Holds(q, a, up)
    BY <1>5, <1>6 DEF Holds
  <2> QED
    BY <1>5, <1>6, <1>9, <1>10, <2>1, <2>2 DEF Buffered, Holds, Buf!HeadsApart, Buf!Advance
<1>17. Sending'
  BY <1>1, <1>7, <1>9 DEF Sending
<1>18. OnePlace'
  BY <1>9, <1>11, <1>14 DEF OnePlace, Single, None
<1>19. SamePacket'
  <2>1. Packet' = packet
    BY <1>4, <1>6, <1>9, <1>10 DEF Packet
  <2>2. tx \in Seq(Carriers(packet)) /\ e \in Carriers(packet)
    BY <1>11, <1>12, CarriersAny DEF Carriers
  <2> QED
    BY <1>11, <1>13, <2>1, <2>2 DEF SamePacket, Carriers
<1>20. None(rx', Success)
  BY <1>11 DEF None, Outcomes, Success
<1>21. Arrived'
  BY <1>10, <1>20 DEF Good, Arrived, HeardAll, UpTo, Bytes, None
<1>22. Gapless(heard)'
  BY DEF Good, Gapless, UpTo, Bytes
<1> QED
  BY <1>15, <1>16, <1>17, <1>18, <1>19, <1>21, <1>22 DEF Good

(* The outcome of a packet: it is confirmed, or its bytes are put back.      *)
LEMMA WaitForSendStep ==
  ASSUME Good, WaitForSend, UNCHANGED <<up, outstanding, down, air, heard>>
  PROVE  Good'
<1> DEFINE p == Parsed
           b == dev.writeBuffer
           a == b.availableData
           r == dev.bytesToResend
<1>1. /\ serialOpen /\ serialOpen' = serialOpen /\ rx' = (IF Reads THEN Tail(rx) ELSE rx)
      /\ p.sendState = "waitForSend" /\ p.waitForReply = NULL
      /\ dev' = Goto(p, "joined") /\ tx' = tx
  BY DEF WaitForSend, Runs
<1>2. NULL # "+EVT:SEND_CONFIRMED_OK"
  BY DEF NULL
<1>3. /\ p \in Devices /\ dev.sendState = "waitForSend"
      /\ Reads
      /\ \/ Head(rx).text \in Success /\ p.writeBuffer = b
         \/ Head(rx).text \in Outcomes /\ p.writeBuffer = Buf!RewindReadHead(b, r)
  BY <1>1, <1>2, Parsing
<1> HIDE DEF p
<1>4. /\ dev' \in Devices /\ dev'.sendState = "joined" /\ dev'.writeBuffer = p.writeBuffer
  BY <1>1, <1>3 DEF Goto, Devices, SendStates
<1>5. Head(rx).text \in Outcomes
  BY <1>3 DEF Success, Outcomes
<1>6. /\ rx' \in Seq(Answers) /\ None(rx', Outcomes) /\ ~None(rx, Outcomes)
      /\ Single(rx', Outcomes)
      /\ Head(rx).text \in Success => ~None(rx, Success)
  BY <1>1, <1>3, <1>5, LinesLeft
<1>7. None(tx, SendCommand) /\ air = <<>> /\ tx \in Seq(Lines) /\ Single(tx, SendCommand)
  BY <1>6 DEF Good, OnePlace, Typed
<1>8. Unconfirmed = r /\ Unconfirmed' = 0 /\ Confirmed = up - a - r
  BY <1>3, <1>4 DEF Unconfirmed, Confirmed
<1>9. b \in Rings /\ a \in Nat /\ r \in Nat /\ up \in Nat
  BY DEF Good, Typed, Devices, Rings
<1>10. /\ Buf!HeadsApart(b) /\ a + r <= BufferSize /\ a + r <= up /\ Holds(b, a + r, up)
       /\ a + r <= outstanding /\ outstanding <= BufferSize /\ outstanding \in Nat
       /\ 1 .. Confirmed \subseteq HeardAll /\ HeardAll \subseteq 1 .. up
       /\ None(rx, Success) \/ 1 .. Confirmed + r \subseteq HeardAll
  BY <1>8, <1>9, Constants DEF Good, Typed, Buffered, Arrived
<1>11. Buffered' /\ 1 .. Confirmed' \subseteq HeardAll
  <2> HIDE DEF a, b, r
  <2>1. CASE Head(rx).text \in Success /\ p.writeBuffer = b
    <3>1. Confirmed' = up - a
      BY <1>4, <1>8, <1>9, <2>1 DEF Confirmed, a
    <3>2. 1 .. Confirmed' \subseteq HeardAll
      BY <1>6, <1>8, <1>9, <1>10, <2>1, <3>1
    <3>3. Holds(b, a, up)
      BY <1>9, <1>10 DEF Holds
    <3>4. /\ dev'.writeBuffer = b /\ dev'.writeBuffer.availableData + Unconfirmed' = a
          /\ a <= BufferSize /\ a <= up /\ up' = up /\ a <= outstanding
      BY <1>4, <1>8, <1>9, <1>10, <2>1, Constants DEF a
    <3>5. Buffered'
      BY <1>10, <3>3, <3>4 DEF Buffered, Holds, Buf!HeadsApart, Buf!Advance
    <3> QED
      BY <3>2, <3>5
  <2>2. CASE p.writeBuffer = Buf!RewindReadHead(b, r)
    <3> DEFINE q == Buf!RewindReadHead(b, r)
    <3>1. /\ q \in Rings /\ Buf!HeadsApart(q) /\ q.availableData = a + r
          /\ q.writeHead = b.writeHead /\ q.buffer = b.buffer
      BY <1>9, <1>10, RewindSteps DEF a
    <3> HIDE DEF q
    <3>2. dev'.writeBuffer = q
      BY <1>4, <2>2 DEF q
    <3>3. Confirmed' = Confirmed
      BY <1>8, <1>9, <3>1, <3>2 DEF Confirmed
    <3>4. Holds(q, a + r, up)
      BY <1>10, <3>1 DEF Holds
    <3>5. dev'.writeBuffer.availableData + Unconfirmed' = a + r /\ up' = up
      BY <1>8, <1>9, <3>1, <3>2
    <3>6. Buffered'
      BY <1>10, <3>1, <3>2, <3>4, <3>5 DEF Buffered, Holds, Buf!HeadsApart, Buf!Advance
    <3> QED
      BY <1>10, <3>3, <3>6
  <2> QED
    BY <1>3, <2>1, <2>2
<1>12. Typed'
  BY <1>1, <1>4, <1>6 DEF Good, Typed
<1>13. Sending'
  BY <1>1, <1>4 DEF Sending
<1>14. OnePlace'
  BY <1>1, <1>4, <1>6, <1>7 DEF OnePlace, None, Single
<1>15. SamePacket'
  <2>1. ASSUME NEW packet PROVE tx' \in Seq(Carriers(packet))
    BY <1>1, <1>7, CarriersAny
  <2> QED
    BY <1>7, <2>1 DEF SamePacket, Carriers
<1>16. None(rx', Success)
  BY <1>6 DEF None, Outcomes, Success
<1>17. Arrived'
  BY <1>10, <1>11, <1>16 DEF Arrived, HeardAll, UpTo, Bytes, None
<1>18. Gapless(heard)'
  BY DEF Good, Gapless, UpTo, Bytes
<1> QED
  BY <1>11, <1>12, <1>13, <1>14, <1>15, <1>17, <1>18 DEF Good

(* A state other than waitForSend: the device d goes to the state next.      *)
LEMMA Goes ==
  ASSUME Good, NEW state, state # "waitForSend", Runs(state),
         NEW d \in Devices, d.writeBuffer = Parsed.writeBuffer,
         NEW next \in SendStates, next # "waitForSend",
         next = "sendPacket" => ~Buf!IsEmpty(Parsed.writeBuffer),
         dev' = Goto(d, next),
         tx' = tx \/ \E text \in Commands \ SendCommand : tx' = Append(tx, Line(text, <<>>)),
         UNCHANGED <<up, outstanding, down, air, heard>>
  PROVE  Good'
<1>1. /\ serialOpen' /\ rx' = (IF Reads THEN Tail(rx) ELSE rx)
      /\ dev.sendState = state /\ Parsed.writeBuffer = dev.writeBuffer
  BY Parsing DEF Runs
<1>2. dev' \in Devices /\ dev'.sendState = next /\ dev'.writeBuffer = d.writeBuffer
  BY DEF Goto, Devices
<1> QED
  BY <1>1, <1>2, RunMoves

LEMMA Commanding ==
  ASSUME Good, NEW state, state # "waitForSend", Runs(state),
         NEW reply \in Replies, NEW next \in SendStates \ {"waitForSend", "sendPacket"},
         dev' = Goto(Await(Parsed, reply), next),
         tx' = tx \/ \E text \in Commands \ SendCommand : tx' = Append(tx, Line(text, <<>>)),
         UNCHANGED <<up, outstanding, down, air, heard>>
  PROVE  Good'
<1> DEFINE d == Await(Parsed, reply)
<1>1. Parsed \in Devices
  BY Parsing
<1>2. d \in Devices /\ d.writeBuffer = Parsed.writeBuffer
  BY <1>1 DEF Await, Devices
<1>3. dev' = Goto(d, next)
  OBVIOUS
<1> HIDE DEF d
<1> QED
  BY <1>2, <1>3, Goes

LEMMA RunStep ==
  ASSUME PacketsFit, Good, Run, UNCHANGED <<up, outstanding, down, air, heard>>
  PROVE  Good'
<1> DEFINE Says == \E text \in Commands \ SendCommand : tx' = Append(tx, Line(text, <<>>))
<1>0. Parsed \in Devices
  BY Parsing
<1>1. CASE OpenSerial
  <2>1. /\ dev \in Devices /\ dev.sendState # "waitForSend" /\ dev.sendState # "sendPacket"
        /\ ~serialOpen /\ dev.sendState \notin FromJoined
    BY <1>1 DEF OpenSerial, Good, Typed, Sending, FromJoined
  <2>2. /\ dev' \in Devices /\ dev'.writeBuffer = dev.writeBuffer
        /\ dev'.sendState \in {dev.sendState, "serialError"}
    BY <1>1, <2>1 DEF OpenSerial, Devices, SendStates
  <2>3. rx' = rx /\ tx' = tx
    BY <1>1 DEF OpenSerial
  <2>4. /\ rx' \in Seq(Answers) /\ None(rx', Outcomes)
        /\ tx' \in Seq(Lines) /\ None(tx', SendCommand)
    BY <2>1, <2>3 DEF Good, OnePlace, Typed
  <2>5. /\ dev'.sendState # "waitForSend" /\ dev'.sendState # "sendPacket"
        /\ dev'.sendState \notin FromJoined
    BY <2>1, <2>2 DEF FromJoined
  <2> QED
    BY <2>1, <2>2, <2>4, <2>5, Moves
<1>2. CASE Waits
  BY <1>2, WaitsStep
<1>3. CASE NotConnected
  <2> DEFINE d == [Parsed EXCEPT !.flags = @ \ {"CONNECT_PENDING"}]
  <2>1. Runs("notConnected") /\ tx' = tx
        /\ dev' = IF "CONNECT_PENDING" \in Parsed.flags THEN Goto(d, "sendDevEUI") ELSE Parsed
    BY <1>3 DEF NotConnected
  <2>2. d \in Devices /\ d.writeBuffer = Parsed.writeBuffer
    BY <1>0 DEF Devices
  <2> HIDE DEF d
  <2>3. Goto(Parsed, "notConnected") = Parsed /\ "notConnected" \in SendStates
        /\ "sendDevEUI" \in SendStates
    BY <1>0, <2>1 DEF Runs, Goto, Devices, SendStates
  <2>4. CASE dev' = Goto(d, "sendDevEUI")
    BY <2>1, <2>2, <2>3, <2>4, Goes
  <2>5. CASE dev' = Parsed
    BY <1>0, <2>1, <2>3, <2>5, Goes
  <2> QED
    BY <2>1, <2>4, <2>5
<1>eui. ASSUME NEW state, state # "waitForSend", NEW text \in Commands \ SendCommand,
               NEW next \in SendStates \ {"waitForSend", "sendPacket"},
               SendEUI(state, text, next)
        PROVE  Good'
  <2>1. /\ Runs(state)
        /\ \/ dev' = Goto(Await(Parsed, "OK"), next) /\ tx' = Append(tx, Line(text, <<>>))
           \/ dev' = Goto(Parsed, next) /\ tx' = tx
    BY <1>eui DEF SendEUI, Send
  <2>2. "OK" \in Replies
    BY DEF Replies
  <2>3. CASE dev' = Goto(Parsed, next) /\ tx' = tx
    BY <1>0, <1>eui, <2>1, <2>3, Goes
  <2>4. CASE dev' = Goto(Await(Parsed, "OK"), next) /\ tx' = Append(tx, Line(text, <<>>))
    BY <1>eui, <2>1, <2>2, <2>4, Commanding
  <2> QED
    BY <2>1, <2>3, <2>4
<1>simple. ASSUME NEW state, state # "waitForSend", NEW text \in Commands \ SendCommand,
                  NEW reply \in Replies,
                  NEW next \in SendStates \ {"waitForSend", "sendPacket"},
                  SimpleCommand(state, text, reply, next)
           PROVE  Good'
  <2>1. /\ Runs(state) /\ dev' = Goto(Await(Parsed, reply), next)
        /\ tx' = Append(tx, Line(text, <<>>))
    BY <1>simple DEF SimpleCommand, Send
  <2> QED
    BY <1>simple, <2>1, Commanding
<1>names. /\ {"sendAppEUI", "sendAppKey", "sendClass", "sendDR", "join", "finalizeJoin", "joined",
              "serialError"} \subseteq SendStates \ {"waitForSend", "sendPacket"}
          /\ {"AT+DEVEUI", "AT+APPEUI", "AT+APPKEY", "AT+CLASS=C", "AT+DR=0", "AT+JOIN",
              "AT+DR=?"} \subseteq Commands \ SendCommand
          /\ {"OK", "+EVT:JOINED"} \subseteq Replies
  BY DEF SendStates, Commands, SendCommand, Replies
<1>4. CASE SendEUI("sendDevEUI", "AT+DEVEUI", "sendAppEUI")
  BY <1>4, <1>eui, <1>names
<1>5. CASE SendEUI("sendAppEUI", "AT+APPEUI", "sendAppKey")
  BY <1>5, <1>eui, <1>names
<1>6. CASE SimpleCommand("sendAppKey", "AT+APPKEY", "OK", "sendClass")
  BY <1>6, <1>simple, <1>names
<1>7. CASE SimpleCommand("sendClass", "AT+CLASS=C", "OK", "sendDR")
  BY <1>7, <1>simple, <1>names
<1>8. CASE SimpleCommand("sendDR", "AT+DR=0", "OK", "join")
  BY <1>8, <1>simple, <1>names
<1>9. CASE SimpleCommand("join", "AT+JOIN", "+EVT:JOINED", "finalizeJoin")
  BY <1>9, <1>simple, <1>names
<1>10. CASE FinalizeJoin
  <2> DEFINE d == [Parsed EXCEPT !.flags = @ \cup {"NETWORK_JOINED"}]
  <2>1. Runs("finalizeJoin") /\ tx' = tx /\ dev' = Goto(d, "joined")
    BY <1>10 DEF FinalizeJoin
  <2>2. d \in Devices /\ d.writeBuffer = Parsed.writeBuffer
    BY <1>0 DEF Devices, Flags
  <2> HIDE DEF d
  <2> QED
    BY <1>names, <2>1, <2>2, Goes
<1>11. CASE AskDataRate
  <2> DEFINE d == [Await(Parsed, "OK") EXCEPT !.replyState = "dataRate"]
  <2>1. /\ Runs("joined")
        /\ \/ dev' = Parsed /\ tx' = tx
           \/ /\ ~Buf!IsEmpty(Parsed.writeBuffer)
              /\ dev' = [Goto(Await(Parsed, "OK"), "sendPacket") EXCEPT !.replyState = "dataRate"]
              /\ tx' = Append(tx, Line("AT+DR=?", <<>>))
    BY <1>11 DEF AskDataRate, Send
  <2>2. CASE dev' = Parsed /\ tx' = tx
    <3>1. Parsed = Goto(Parsed, "joined")
      BY <1>0, <2>1 DEF Runs, Goto, Devices
    <3> QED
      BY <1>0, <1>names, <2>1, <2>2, <3>1, Goes
  <2>3. CASE /\ ~Buf!IsEmpty(Parsed.writeBuffer)
             /\ dev' = [Goto(Await(Parsed, "OK"), "sendPacket") EXCEPT !.replyState = "dataRate"]
             /\ tx' = Append(tx, Line("AT+DR=?", <<>>))
    <3>1. d \in Devices /\ d.writeBuffer = Parsed.writeBuffer
      BY <1>0, <1>names DEF Await, Devices
    <3>2. dev' = Goto(d, "sendPacket")
      BY <1>0, <2>3 DEF Goto, Await, Devices
    <3> HIDE DEF d
    <3>3. "sendPacket" \in SendStates
      BY DEF SendStates
    <3> QED
      BY <1>names, <2>1, <2>3, <3>1, <3>2, <3>3, Goes
  <2> QED
    BY <2>1, <2>2, <2>3
<1>12. CASE SendPacket
  BY <1>12, SendPacketStep
<1>13. CASE WaitForSend
  BY <1>13, WaitForSendStep
<1>14. CASE SerialError
  <2>1. Runs("serialError") /\ dev' = Parsed /\ tx' = tx
    BY <1>14 DEF SerialError
  <2>2. Parsed = Goto(Parsed, "serialError")
    BY <1>0, <2>1 DEF Runs, Goto, Devices
  <2> QED
    BY <1>0, <1>names, <2>1, <2>2, Goes
<1> QED
  BY <1>1, <1>2, <1>3, <1>4, <1>5, <1>6, <1>7, <1>8, <1>9, <1>10, <1>11, <1>12, <1>13, <1>14
     DEF Run

-----------------------------------------------------------------------------
(* The application.                                                          *)

(* A call that leaves the ring and the state of the driver alone.            *)
LEMMA CallStays ==
  ASSUME Good, dev' \in Devices, dev'.writeBuffer = dev.writeBuffer,
         dev'.sendState = dev.sendState, dev'.bytesToResend = dev.bytesToResend,
         dev'.waitForReply = dev.waitForReply, dev'.replyState = dev.replyState,
         UNCHANGED <<serialOpen, rx, tx, up, outstanding, down, air, heard>>
  PROVE  Good'
<1>1. /\ rx' \in Seq(Answers) /\ Single(rx', Outcomes)
      /\ None(rx, Outcomes) => None(rx', Outcomes)
      /\ None(rx, Success) => None(rx', Success)
      /\ tx' \in Seq(Lines) /\ Single(tx', SendCommand)
      /\ None(tx, SendCommand) => None(tx', SendCommand)
      /\ down' \in Nat
  BY DEF Good, Typed, OnePlace
<1>2. tx' \in Seq(Carriers(Packet))
  BY DEF Good, SamePacket
<1> QED
  BY <1>1, <1>2, Stays

LEMMA FlagsStep ==
  ASSUME Good, Connect \/ Disconnect \/ Read, ~discarded'
  PROVE  Good'
<1>1. dev \in Devices /\ UNCHANGED <<serialOpen, rx, tx, air, heard, up, outstanding, down>>
  BY DEF Good, Typed, Connect, Disconnect, Read, Calls, counters
<1>2. /\ dev' \in Devices /\ dev'.writeBuffer = dev.writeBuffer
      /\ dev'.sendState = dev.sendState /\ dev'.bytesToResend = dev.bytesToResend
      /\ dev'.waitForReply = dev.waitForReply /\ dev'.replyState = dev.replyState
  <2>1. CASE Connect
    <3>1. dev' = [dev EXCEPT !.flags = @ \cup {"CONNECT_PENDING", "LINE_READ"}]
      BY <2>1 DEF Connect, Connected
    <3> QED
      BY <1>1, <3>1 DEF Devices, Flags
  <2>2. CASE Disconnect
    <3>1. \/ dev' = dev
          \/ dev' = [dev EXCEPT !.flags = @ \cup {"DISCONNECT_PENDING"}]
      BY <2>2 DEF Disconnect, Disconnected
    <3> QED
      BY <1>1, <3>1 DEF Devices, Flags
  <2>3. CASE Read
    <3>1. dev' = [dev EXCEPT !.readBuffer = <<>>] /\ <<>> \in Seq(Nat)
      BY <2>3 DEF Read
    <3> QED
      BY <1>1, <3>1 DEF Devices
  <2> QED
    BY <2>1, <2>2, <2>3
<1> QED
  BY <1>1, <1>2, CallStays

(* A write that nothing is accepted of.                                      *)
LEMMA NothingWritten ==
  ASSUME Good, outstanding' \in 0 .. BufferSize,
         dev.writeBuffer.availableData + Unconfirmed <= outstanding',
         UNCHANGED <<dev, serialOpen, rx, tx, up, down, air, heard>>
  PROVE  Good'
<1>1. Typed'
  BY Constants DEF Good, Typed
<1>2. Unconfirmed' = Unconfirmed /\ Confirmed' = Confirmed
  BY DEF Unconfirmed, Confirmed
<1>3. Buffered'
  BY <1>2, Constants DEF Good, Buffered, Holds, Buf!HeadsApart, Buf!Advance
<1>4. Sending' /\ OnePlace'
  BY DEF Good, Sending, OnePlace, None, Single, Buf!IsEmpty
<1>5. Packet' = Packet
  BY <1>2 DEF Packet
<1>6. SamePacket'
  BY <1>5 DEF Good, SamePacket, Carriers
<1>7. Arrived'
  BY <1>2 DEF Good, Arrived, HeardAll, UpTo, Bytes, None
<1>8. Gapless(heard)'
  BY DEF Good, Gapless, UpTo, Bytes
<1> QED
  BY <1>1, <1>3, <1>4, <1>6, <1>7, <1>8 DEF Good

(* What is accepted goes in behind the bytes that are kept, and the packet   *)
(* that is not confirmed stays the same, as long as the ring is not          *)
(* overfilled.                                                               *)
LEMMA WriteStep ==
  ASSUME Good, NEW size \in Nat, Write(size), ~discarded', ~Overfilled'
  PROVE  Good'
<1> DEFINE b == dev.writeBuffer
           a == b.availableData
           u == Unconfirmed
           data == [k \in 1 .. size |-> up + k]
           m == Accepted(dev, data)
           before == IF WriteBufferProcessed(dev) THEN 0 ELSE outstanding
           q == Buf!PushMany(b, data)
<1>1. /\ dev \in Devices /\ b \in Rings /\ up \in Nat /\ down \in Nat
      /\ a \in 0 .. BufferSize /\ b.bufferSize = BufferSize
      /\ u \in Nat /\ BufferSize \in Nat /\ SizeModulus \in Nat
  BY Constants DEF Good, Typed, Devices, Rings, Unconfirmed
<1>2. /\ Buf!HeadsApart(b) /\ a + u <= outstanding /\ a + u <= up /\ Holds(b, a + u, up)
      /\ outstanding \in Nat /\ outstanding <= BufferSize
  BY DEF Good, Typed, Buffered
<1>3. Buf!SpaceAvailable(b) = BufferSize - a
  BY <1>1 DEF Buf!SpaceAvailable, Buf!WrapSub
<1>4. /\ m \in 0 .. size /\ (~IsConnected(dev) => m = 0)
      /\ IsConnected(dev) => m = Buf!Accepted(b, data)
  <2>1. Len(data) = size
    BY <1>1
  <2> HIDE DEF data, a
  <2>2. Buf!Accepted(b, data) \in 0 .. size
    BY <1>1, <1>3, <2>1 DEF Buf!Accepted, Buf!Lesser, a
  <2> QED
    BY <2>2 DEF Accepted
<1>5. \A k \in 1 .. m : data[k] = up + k
  BY <1>4
<1>6. /\ dev' = Written(dev, data) /\ up' = up + m
      /\ outstanding' = Buf!Lesser(before + m, BufferSize + 1)
      /\ UNCHANGED <<serialOpen, rx, tx, air, heard, down>>
  <2>1. ~Overfilled
    BY <1>1, <1>2 DEF Overfilled
  <2> QED
    BY <2>1, Zenon DEF Write, Calls
<1>kept. before \in Nat /\ a + u <= before
  <2>1. CASE WriteBufferProcessed(dev)
    BY <1>1, <2>1 DEF WriteBufferProcessed, Buf!IsEmpty, Unconfirmed
  <2>2. CASE ~WriteBufferProcessed(dev)
    BY <1>2, <2>2
  <2> QED
    BY <2>1, <2>2
<1> HIDE DEF data, u, m, before
<1>room. /\ outstanding' = before + m /\ outstanding' \in Nat /\ outstanding' <= BufferSize
         /\ a + u + m <= outstanding'
  <2> HIDE DEF a
  <2>1. ~(outstanding' > BufferSize)
    BY DEF Overfilled
  <2> QED
    BY <1>1, <1>4, <1>6, <1>kept, <2>1 DEF Buf!Lesser
<1>more. outstanding' \in 0 .. BufferSize /\ a + Unconfirmed <= outstanding'
  <2> HIDE DEF a
  <2> QED
    BY <1>1, <1>4, <1>room DEF u
<1>7. CASE ~IsConnected(dev)
  <2>1. dev' = dev /\ up' = up
    BY <1>1, <1>4, <1>6, <1>7 DEF Written
  <2> QED
    BY <1>1, <1>6, <1>more, <2>1, NothingWritten
<1>8. CASE IsConnected(dev)
  <2>1. /\ q \in Rings /\ Buf!HeadsApart(q)
        /\ q.availableData = a + m /\ Holds(q, a + u + m, up + m)
    <3> DEFINE n == a + u
    <3>1. b.availableData <= n /\ n + m <= BufferSize /\ n \in Nat
      BY <1>1, <1>4, <1>room
    <3>2. n <= up /\ Holds(b, n, up) /\ m \in Nat /\ m = Buf!Accepted(b, data)
      BY <1>2, <1>4, <1>8
    <3> HIDE DEF n
    <3>3. /\ q \in Rings /\ Buf!HeadsApart(q)
          /\ q.availableData = b.availableData + m /\ Holds(q, n + m, up + m)
      BY <1>1, <1>2, <1>5, <3>1, <3>2, PushSteps
    <3> QED
      BY <3>3 DEF n
  <2> HIDE DEF q
  <2>2. dev' = [dev EXCEPT !.writeBuffer = q] /\ up' = up + m
    BY <1>6, <1>8 DEF Written, q
  <2>3. /\ dev' \in Devices /\ dev'.writeBuffer = q
        /\ dev'.sendState = dev.sendState /\ dev'.bytesToResend = dev.bytesToResend
        /\ dev'.waitForReply = dev.waitForReply /\ dev'.replyState = dev.replyState
    BY <1>1, <2>1, <2>2 DEF Devices
  <2>4. Unconfirmed' = u
    BY <2>3 DEF Unconfirmed, u
  <2>5. Confirmed' = Confirmed /\ Confirmed \in Int
    BY <1>1, <1>4, <2>1, <2>2, <2>3, <2>4 DEF Confirmed, u
  <2>6. Typed'
    BY <1>1, <1>4, <1>6, <1>room, <2>2, <2>3 DEF Good, Typed
  <2>7. Buffered'
    <3>1. a + m + u = a + u + m /\ a + u + m <= up + m
      BY <1>1, <1>2, <1>4
    <3> QED
      BY <1>room, <2>1, <2>2, <2>3, <2>4, <3>1 DEF Buffered, Holds, Buf!HeadsApart, Buf!Advance
  <2>8. Sending'
    <3>1. Buf!IsEmpty(q) => Buf!IsEmpty(b)
      BY <1>1, <1>4, <2>1 DEF Buf!IsEmpty
    <3> QED
      BY <1>6, <2>3, <3>1 DEF Good, Sending, Buf!IsEmpty
  <2>9. OnePlace'
    BY <1>6, <2>3 DEF Good, OnePlace, None, Single
  <2>10. SamePacket'
    <3>1. Packet' = Packet
      BY <2>3, <2>5 DEF Packet
    <3> QED
      BY <1>6, <3>1 DEF Good, SamePacket, Carriers
  <2>11. Arrived'
    <3>1. HeardAll' = HeardAll /\ (None(rx, Success))' = None(rx, Success)
      BY <1>6 DEF HeardAll, UpTo, Bytes, None
    <3>2. 1 .. up \subseteq 1 .. up'
      BY <1>1, <1>4, <2>2
    <3> QED
      BY <2>4, <2>5, <3>1, <3>2 DEF Good, Arrived, u
  <2>12. Gapless(heard)'
    BY <1>6 DEF Good, Gapless, UpTo, Bytes
  <2> QED
    BY <2>6, <2>7, <2>8, <2>9, <2>10, <2>11, <2>12 DEF Good
<1> QED
  BY <1>7, <1>8

LEMMA ApplicationStep ==
  ASSUME Good, AnyApplication \/ SimpleSend, ~discarded', ~Overfilled'
  PROVE  Good'
<1>1. CASE Connect \/ Disconnect \/ Read
  BY <1>1, FlagsStep
<1>2. CASE \E n \in 1 .. BufferSize + 1 : Write(n)
  BY <1>2, WriteStep
<1>3. CASE Write(Message)
  BY <1>3, WriteStep, RakSystemAssumption
<1>4. CASE dev' = dev /\ Calls /\ UNCHANGED <<counters, discarded>>
  <2>1. dev \in Devices /\ UNCHANGED <<serialOpen, rx, tx, up, outstanding, down, air, heard>>
    BY <1>4 DEF Good, Typed, Calls, counters
  <2> QED
    BY <1>4, <2>1, CallStays
<1>5. ~Restart
  BY DEF Restart
<1> QED
  BY <1>1, <1>2, <1>3, <1>4, <1>5 DEF AnyApplication, SimpleSend, MessageProcessed

-----------------------------------------------------------------------------
(* The module.                                                               *)

(* The device keeps its state while lines come and go.                       *)
LEMMA LinesMove ==
  ASSUME Good, dev' = dev, UNCHANGED <<serialOpen, up, outstanding, air, heard>>, down' \in Nat,
         rx' \in Seq(Answers), Single(rx', Outcomes),
         None(rx, Outcomes) => None(rx', Outcomes), None(rx, Success) => None(rx', Success),
         tx' = tx \/ (tx # <<>> /\ tx' = Tail(tx))
  PROVE  Good'
<1>1. dev \in Devices /\ tx \in Seq(Lines) /\ tx \in Seq(Carriers(Packet))
      /\ Single(tx, SendCommand)
  BY DEF Good, Typed, SamePacket, OnePlace
<1>2. /\ tx' \in Seq(Lines) /\ tx' \in Seq(Carriers(Packet)) /\ Single(tx', SendCommand)
      /\ None(tx, SendCommand) => None(tx', SendCommand)
  <2>1. CASE tx # <<>> /\ tx' = Tail(tx)
    <3>1. tx' \in Seq(Lines)
      BY <1>1, <2>1, EmptySeq
    <3>2. tx' \in Seq(Carriers(Packet))
      <4> DEFINE S == Carriers(Packet)
      <4>1. tx \in Seq(S)
        BY <1>1
      <4> HIDE DEF S
      <4>2. Tail(tx) \in Seq(S)
        BY <2>1, <4>1, EmptySeq
      <4> QED
        BY <2>1, <4>2 DEF S
    <3> QED
      BY <1>1, <2>1, <3>1, <3>2, TailLines
  <2> QED
    BY <1>1, <2>1
<1> QED
  BY <1>1, <1>2, Stays

(* An answer that is no outcome.                                             *)
LEMMA Answering ==
  ASSUME Good, NEW text \in Texts \ Outcomes, NEW data \in Seq(Nat),
         text = "AT+DR=" => data # <<>>
  PROVE  /\ Append(rx, Line(text, data)) \in Seq(Answers)
         /\ Single(Append(rx, Line(text, data)), Outcomes)
         /\ None(rx, Outcomes) => None(Append(rx, Line(text, data)), Outcomes)
         /\ None(rx, Success) => None(Append(rx, Line(text, data)), Success)
<1> DEFINE e == Line(text, data)
<1>1. e \in Answers /\ e \in Lines /\ e.text \notin Outcomes /\ e.text \notin Success
  BY DEF Line, Answers, Lines, Success, Outcomes
<1>2. rx \in Seq(Answers) /\ rx \in Seq(Lines) /\ Single(rx, Outcomes)
  BY AnswersAreLines DEF Good, Typed, OnePlace
<1> HIDE DEF e
<1>3. Append(rx, e) \in Seq(Answers)
  BY <1>1, <1>2
<1>4. /\ Single(Append(rx, e), Outcomes)
      /\ None(rx, Outcomes) => None(Append(rx, e), Outcomes)
      /\ None(rx, Success) => None(Append(rx, e), Success)
  BY <1>1, <1>2, AppendLine
<1> QED
  BY <1>3, <1>4 DEF e

LEMMA AnswerOne ==
  ASSUME NEW text, Answer(<<text>>), NEW D, rx \in Seq(D), Line(text, <<>>) \in D
  PROVE  rx' = Append(rx, Line(text, <<>>))
<1> DEFINE s == [k \in DOMAIN <<text>> |-> Line(<<text>>[k], <<>>)]
           e == Line(text, <<>>)
<1>1. rx' = rx \o s
  BY DEF Answer
<1>2. s = <<e>>
  <2>1. DOMAIN <<text>> = 1 .. 1 /\ <<text>>[1] = text
    OBVIOUS
  <2>2. s = [k \in 1 .. 1 |-> e]
    <3>1. \A k \in 1 .. 1 : <<text>>[k] = text
      BY <2>1
    <3> QED
      BY <2>1, <3>1
  <2> HIDE DEF s, e
  <2> QED
    BY <2>2
<1> HIDE DEF s, e
<1>3. rx \o <<e>> = Append(rx, e)
  BY DEF e
<1> QED
  BY <1>1, <1>2, <1>3 DEF e

(* A line that the module sends on its own, or for a command that it takes.  *)
LEMMA Says ==
  ASSUME Good, dev' = dev, UNCHANGED <<serialOpen, up, outstanding, air, heard>>, down' \in Nat,
         NEW text \in Texts \ (Outcomes \cup {"AT+DR="}), Answer(<<text>>),
         tx' = tx \/ (tx # <<>> /\ tx' = Tail(tx))
  PROVE  Good'
<1>1. <<>> \in Seq(Nat) /\ text \in Texts \ Outcomes /\ text # "AT+DR="
  OBVIOUS
<1>2. Line(text, <<>>) \in Lines /\ rx \in Seq(Lines)
  BY <1>1, AnswersAreLines DEF Line, Lines, Good, Typed
<1>3. rx' = Append(rx, Line(text, <<>>))
  BY <1>2, AnswerOne
<1>4. /\ rx' \in Seq(Answers) /\ Single(rx', Outcomes)
      /\ None(rx, Outcomes) => None(rx', Outcomes)
      /\ None(rx, Success) => None(rx', Success)
  BY <1>1, <1>3, Answering
<1> QED
  BY <1>4, LinesMove

LEMMA TellDataRateStep ==
  ASSUME Good, TellDataRate, dev' = dev, UNCHANGED <<serialOpen, up, outstanding, down>>
  PROVE  Good'
<1>1. PICK rate \in 1 .. Len(PacketSizes) :
        rx' = rx \o <<Line("AT+DR=", <<rate>>), Line("OK", <<>>)>>
  BY DEF TellDataRate
<1>2. /\ tx # <<>> /\ tx' = Tail(tx) /\ UNCHANGED <<air, heard>> /\ down' \in Nat
  BY DEF TellDataRate, Executes, environment, Good, Typed
<1> DEFINE first == Line("AT+DR=", <<rate>>)
           second == Line("OK", <<>>)
<1>3. <<rate>> \in Seq(Nat) /\ <<>> \in Seq(Nat) /\ <<rate>> # <<>>
  <2>1. rate \in Nat
    BY Constants
  <2> QED
    BY <2>1
<1>4. /\ first \in Answers /\ first \in Lines /\ first.text \notin Outcomes
      /\ second \in Answers /\ second \in Lines /\ second.text \notin Outcomes
  BY <1>3 DEF Line, Answers, Lines, Texts, Outcomes
<1>5. first.text \notin Success /\ second.text \notin Success
  BY <1>4 DEF Success, Outcomes
<1>6. rx \in Seq(Answers) /\ rx \in Seq(Lines) /\ Single(rx, Outcomes)
  BY AnswersAreLines DEF Good, Typed, OnePlace
<1> HIDE DEF first, second
<1> DEFINE one == Append(rx, first)
<1>7. one \in Seq(Answers) /\ one \in Seq(Lines)
  BY <1>4, <1>6
<1>8. /\ Single(one, Outcomes)
      /\ None(rx, Outcomes) => None(one, Outcomes)
      /\ None(rx, Success) => None(one, Success)
  BY <1>4, <1>5, <1>6, AppendLine
<1>9. rx' = Append(one, second)
  <2>1. rx' = rx \o <<first, second>>
    BY <1>1 DEF first, second
  <2> QED
    BY <1>4, <1>6, <2>1
<1> HIDE DEF one
<1>10. rx' \in Seq(Answers)
  BY <1>4, <1>7, <1>9
<1>11. /\ Single(rx', Outcomes)
       /\ None(one, Outcomes) => None(rx', Outcomes)
       /\ None(one, Success) => None(rx', Success)
  BY <1>4, <1>5, <1>7, <1>8, <1>9, AppendLine
<1> QED
  BY <1>2, <1>8, <1>10, <1>11, LinesMove

(* The command with the packet is taken: the packet is in the air, or was    *)
(* refused, which is its outcome, or the command is lost.                    *)
LEMMA StartSendingStep ==
  ASSUME Good, StartSending, dev' = dev, UNCHANGED <<serialOpen, up, outstanding, down>>
  PROVE  Good'
<1>1. /\ tx # <<>> /\ Head(tx).text = "AT+SEND" /\ tx' = Tail(tx) /\ heard' = heard
  BY DEF StartSending, Executes
<1>2. /\ tx \in Seq(Lines) /\ tx \in Seq(Carriers(Packet)) /\ Single(tx, SendCommand)
      /\ rx \in Seq(Answers) /\ rx \in Seq(Lines) /\ Single(rx, Outcomes)
      /\ dev \in Devices /\ down' \in Nat /\ up \in Nat
  BY AnswersAreLines DEF Good, Typed, SamePacket, OnePlace
<1>3. Head(tx).text \in SendCommand /\ Head(tx) \in Carriers(Packet) /\ Head(tx) \in Lines
  <2> DEFINE S == Carriers(Packet)
  <2>1. tx \in Seq(S) /\ S \subseteq Lines
    BY <1>2 DEF Carriers
  <2> HIDE DEF S
  <2>2. Head(tx) \in S
    BY <1>1, <2>1, EmptySeq
  <2> QED
    BY <1>1, <2>1, <2>2 DEF S, SendCommand
<1>4. tx' \in Seq(Lines) /\ None(tx', SendCommand) /\ ~None(tx, SendCommand)
  <2>1. tx' \in Seq(Lines)
    BY <1>1, <1>2, EmptySeq
  <2> QED
    BY <1>1, <1>2, <1>3, <2>1, TailLines
<1>5. /\ None(rx, Outcomes) /\ air = <<>> /\ dev.sendState = "waitForSend"
      /\ None(rx, Success)
  BY <1>4 DEF Good, OnePlace, None, Outcomes, Success
<1>6. Head(tx).data = Packet /\ Packet \in Seq(Nat)
  BY <1>3 DEF Carriers, Lines
<1>7. Single(tx', SendCommand) /\ tx' \in Seq(Carriers(Packet))
  BY <1>4, CarriersAny DEF None, Single
<1>8. ASSUME NEW text \in Texts \ {"AT+DR="}, Answer(<<text>>), text \notin Success
      PROVE  /\ rx' \in Seq(Answers) /\ Single(rx', Outcomes) /\ None(rx', Success)
             /\ text \notin Outcomes => None(rx', Outcomes)
  <2> DEFINE e == Line(text, <<>>)
  <2>1. <<>> \in Seq(Nat)
    OBVIOUS
  <2>2. e \in Lines /\ e \in Answers /\ e.text = text
    BY <1>8, <2>1 DEF Line, Lines, Answers
  <2>3. rx' = Append(rx, e)
    BY <1>2, <1>8, <2>2, AnswerOne
  <2> HIDE DEF e
  <2>4. rx' \in Seq(Answers)
    BY <1>2, <2>2, <2>3
  <2> QED
    BY <1>2, <1>5, <1>8, <2>2, <2>3, <2>4, AppendLine
<1> DEFINE unchanged ==
      /\ Unconfirmed' = Unconfirmed /\ Buffered' /\ Confirmed' = Confirmed /\ Sending'
      /\ Packet' = Packet /\ HeardAll' = HeardAll /\ Gapless(heard)'
<1>9. unchanged
  <2>1. Unconfirmed' = Unconfirmed
    BY DEF Unconfirmed
  <2>2. Buffered' /\ Confirmed' = Confirmed
    BY <2>1 DEF Good, Buffered, Holds, Confirmed, Buf!HeadsApart, Buf!Advance
  <2>3. Sending'
    BY DEF Good, Sending, Buf!IsEmpty
  <2>4. Packet' = Packet
    BY <2>2 DEF Packet
  <2>5. HeardAll' = HeardAll /\ Gapless(heard)'
    BY <1>1 DEF HeardAll, UpTo, Bytes, Good, Gapless
  <2> QED
    BY <2>1, <2>2, <2>3, <2>4, <2>5
<1>10. ASSUME rx' \in Seq(Answers), Single(rx', Outcomes), None(rx', Success),
              None(rx', Outcomes) \/ air' = <<>>, air' \in {<<>>, Packet}
       PROVE  Good'
  <2>0. air' \in Seq(Nat)
    <3>1. <<>> \in Seq(Nat)
      OBVIOUS
    <3>2. CASE air' = <<>>
      BY <3>1, <3>2
    <3>3. CASE air' = Packet
      BY <1>6, <3>3
    <3> QED
      BY <1>10, <3>2, <3>3
  <2>1. Typed'
    BY <1>1, <1>2, <1>4, <1>10, <2>0 DEF Good, Typed
  <2>2. OnePlace'
    BY <1>4, <1>5, <1>7, <1>10 DEF OnePlace, None, Single
  <2>3. SamePacket'
    BY <1>7, <1>9, <1>10 DEF SamePacket, Carriers
  <2>4. Arrived'
    BY <1>9, <1>10 DEF Good, Arrived, None
  <2> QED
    BY <1>9, <2>1, <2>2, <2>3, <2>4 DEF Good
<1>11. CASE Answer(<<"OK">>) /\ air' = Head(tx).data
  <2>1. "OK" \in Texts \ {"AT+DR="} /\ "OK" \notin Success /\ "OK" \notin Outcomes
    BY DEF Texts, Success, Outcomes
  <2> QED
    BY <1>6, <1>8, <1>10, <1>11, <2>1
<1>12. CASE Answer(<<"AT_BUSY_ERROR">>) /\ air' = air
  <2>1. "AT_BUSY_ERROR" \in Texts \ {"AT+DR="} /\ "AT_BUSY_ERROR" \notin Success
    BY DEF Texts, Success
  <2> QED
    BY <1>5, <1>8, <1>10, <1>12, <2>1
<1>13. CASE Answer(<<"AT_NO_NETWORK">>) /\ UNCHANGED air
  <2>1. "AT_NO_NETWORK" \in Texts \ {"AT+DR="} /\ "AT_NO_NETWORK" \notin Success
        /\ "AT_NO_NETWORK" \notin Outcomes
    BY DEF Texts, Success, Outcomes
  <2> QED
    BY <1>5, <1>8, <1>10, <1>13, <2>1
<1> QED
  BY <1>11, <1>12, <1>13 DEF StartSending

(* The bytes of the packet that is not confirmed.                            *)
LEMMA PacketBytes ==
  ASSUME Good, dev.sendState = "waitForSend"
  PROVE  /\ Packet \in Seq(Nat) /\ Confirmed \in Nat /\ Unconfirmed \in Nat \ {0}
         /\ Confirmed + Unconfirmed <= up /\ up \in Nat
         /\ Bytes(Packet) = (Confirmed + 1) .. (Confirmed + Unconfirmed)
         /\ Packet[Len(Packet)] = Confirmed + Unconfirmed
<1> DEFINE c == Confirmed
           r == Unconfirmed
           p == Packet
           a == dev.writeBuffer.availableData
<1>1. /\ r = dev.bytesToResend /\ r \in Nat \ {0} /\ a \in Nat /\ up \in Nat
      /\ a + r <= up /\ c = up - a - r
  BY DEF Good, Typed, Devices, Rings, Sending, Buffered, Unconfirmed, Confirmed
<1>2. p = [k \in 1 .. r |-> c + k]
  BY <1>1 DEF Packet
<1> HIDE DEF c, r, p, a
<1>3. c \in Nat /\ c + r <= up
  BY <1>1
<1>4. /\ p \in Seq(Nat) /\ DOMAIN p = 1 .. r /\ Len(p) = r
      /\ \A k \in 1 .. r : p[k] = c + k
  <2>1. r \in Nat /\ \A k \in 1 .. r : c + k \in Nat
    BY <1>1, <1>3
  <2>2. p \in Seq(Nat) /\ Len(p) = r
    BY <1>2, <2>1
  <2> QED
    BY <1>2, <2>1, <2>2
<1>5. Bytes(p) = (c + 1) .. (c + r)
  <2>1. ASSUME NEW x \in Bytes(p) PROVE x \in (c + 1) .. (c + r)
    <3>1. PICK k \in 1 .. r : x = c + k
      BY <1>4 DEF Bytes
    <3> QED
      BY <1>1, <1>3, <3>1
  <2>2. ASSUME NEW x \in (c + 1) .. (c + r) PROVE x \in Bytes(p)
    <3>0. x - c \in 1 .. r /\ c + (x - c) = x
      BY <1>1, <1>3
    <3>1. x - c \in 1 .. r /\ p[x - c] = x
      BY <1>4, <3>0
    <3> QED
      BY <1>4, <3>1 DEF Bytes
  <2> QED
    BY <2>1, <2>2
<1>6. p[Len(p)] = c + r
  BY <1>1, <1>4, SMTT(40)
<1> QED
  BY <1>1, <1>3, <1>4, <1>5, <1>6 DEF c, r, p

(* The fate of a packet in the air: it gets through and is confirmed, or is  *)
(* reported as failed whether it got through or not.                         *)
LEMMA SentStep ==
  ASSUME Good, Sent, dev' = dev, UNCHANGED <<serialOpen, up, outstanding, down>>
  PROVE  Good'
<1>1. /\ air # <<>> /\ air' = <<>> /\ tx' = tx
      /\ \/ heard' = Append(heard, air) /\ Answer(<<"+EVT:SEND_CONFIRMED_OK">>)
         \/ heard' \in {heard, Append(heard, air)} /\ Answer(<<"+EVT:SEND_CONFIRMED_FAILED">>)
  BY DEF Sent
<1>2. /\ dev \in Devices /\ dev.sendState = "waitForSend" /\ air = Packet
      /\ None(tx, SendCommand) /\ tx \in Seq(Lines) /\ None(rx, Outcomes)
      /\ rx \in Seq(Answers) /\ rx \in Seq(Lines) /\ down' \in Nat /\ up \in Nat
      /\ heard \in Seq(Seq(Nat)) /\ Gapless(heard)
  BY <1>1, AnswersAreLines DEF Good, Typed, OnePlace, SamePacket
<1>3. /\ Packet \in Seq(Nat) /\ Confirmed \in Nat /\ Unconfirmed \in Nat \ {0}
      /\ Confirmed + Unconfirmed <= up
      /\ Bytes(Packet) = (Confirmed + 1) .. (Confirmed + Unconfirmed)
      /\ Packet[Len(Packet)] = Confirmed + Unconfirmed
  BY <1>2, PacketBytes
<1>4. 1 .. Confirmed \subseteq HeardAll /\ HeardAll \subseteq 1 .. up
  BY DEF Good, Arrived
<1> DEFINE c == Confirmed
           r == Unconfirmed
           p == Packet
<1>5. Unconfirmed' = r /\ Buffered' /\ Confirmed' = c /\ Sending' /\ Packet' = p
  <2>1. Unconfirmed' = r
    BY DEF Unconfirmed
  <2>2. Buffered' /\ Confirmed' = c
    BY <2>1 DEF Good, Buffered, Holds, Confirmed, Buf!HeadsApart, Buf!Advance
  <2>3. Sending'
    BY DEF Good, Sending, Buf!IsEmpty
  <2>4. Packet' = p
    BY <2>2 DEF Packet
  <2> QED
    BY <2>1, <2>2, <2>3, <2>4
<1> HIDE DEF c, r, p
<1>6. c \in Nat /\ r \in Nat \ {0} /\ c + r <= up /\ Bytes(p) = (c + 1) .. (c + r)
      /\ p[Len(p)] = c + r /\ p \in Seq(Nat) /\ air = p /\ 1 .. c \subseteq HeardAll
  BY <1>2, <1>3, <1>4 DEF c, r, p
<1>7. ASSUME NEW text \in Outcomes, Answer(<<text>>)
      PROVE  /\ rx' \in Seq(Answers) /\ Single(rx', Outcomes)
             /\ text \notin Success => None(rx', Success)
  <2> DEFINE e == Line(text, <<>>)
  <2>0. <<>> \in Seq(Nat)
    OBVIOUS
  <2>1. <<>> \in Seq(Nat) /\ text \in Texts \ {"AT+DR="}
    BY <2>0 DEF Outcomes, Texts
  <2>2. e \in Lines /\ e \in Answers /\ e.text = text
    BY <2>1 DEF Line, Lines, Answers
  <2>3. rx' = Append(rx, e)
    BY <1>2, <1>7, <2>2, AnswerOne
  <2> HIDE DEF e
  <2>4. rx' \in Seq(Answers)
    BY <1>2, <2>2, <2>3
  <2>5. None(rx, Success)
    BY <1>2 DEF None, Success, Outcomes
  <2> QED
    BY <1>2, <2>2, <2>3, <2>4, <2>5, AppendLine
<1>8. CASE heard' = Append(heard, air)
  <2>1. /\ heard' \in Seq(Seq(Nat)) /\ HeardAll' = HeardAll \cup Bytes(p)
        /\ (\A b \in 1 .. p[Len(p)] : b \in HeardAll \cup Bytes(p)) => Gapless(heard')
    BY <1>2, <1>6, <1>8, HeardMore DEF HeardAll
  <2>2. \A b \in 1 .. c + r : b \in 1 .. c \/ b \in (c + 1) .. (c + r)
    BY <1>6
  <2>3. 1 .. c + r \subseteq HeardAll \cup Bytes(p)
    BY <1>6, <2>2
  <2>4. Gapless(heard')
    BY <1>6, <2>1, <2>3
  <2>5. Gapless(heard)'
    BY <2>4 DEF Gapless, UpTo, Bytes
  <2>6. /\ 1 .. c + r \subseteq HeardAll' /\ 1 .. c \subseteq HeardAll'
        /\ HeardAll' \subseteq 1 .. up
    <3>1. Bytes(p) \subseteq 1 .. up
      BY <1>2, <1>6
    <3> QED
      BY <1>4, <1>6, <2>1, <2>3, <3>1
  <2>7. /\ rx' \in Seq(Answers) /\ Single(rx', Outcomes)
    <3>1. "+EVT:SEND_CONFIRMED_OK" \in Outcomes /\ "+EVT:SEND_CONFIRMED_FAILED" \in Outcomes
      BY DEF Outcomes
    <3> QED
      BY <1>1, <1>7, <3>1
  <2>8. Typed'
    BY <1>1, <1>2, <2>1, <2>7 DEF Good, Typed
  <2>9. OnePlace'
    BY <1>1, <1>2, <2>7 DEF OnePlace, None, Single
  <2>10. SamePacket'
    BY <1>1, <1>5 DEF Good, SamePacket, Carriers, p
  <2>11. Arrived'
    BY <1>5, <2>6 DEF Arrived
  <2> QED
    BY <1>5, <2>5, <2>8, <2>9, <2>10, <2>11 DEF Good
<1>9. CASE heard' = heard /\ Answer(<<"+EVT:SEND_CONFIRMED_FAILED">>)
  <2>1. "+EVT:SEND_CONFIRMED_FAILED" \in Outcomes
        /\ "+EVT:SEND_CONFIRMED_FAILED" \notin Success
    BY DEF Outcomes, Success
  <2>2. rx' \in Seq(Answers) /\ Single(rx', Outcomes) /\ None(rx', Success)
    BY <1>7, <1>9, <2>1
  <2>3. Typed'
    BY <1>1, <1>2, <1>9, <2>2 DEF Good, Typed
  <2>4. OnePlace'
    BY <1>1, <1>2, <2>2 DEF OnePlace, None, Single
  <2>5. SamePacket'
    BY <1>1, <1>5 DEF Good, SamePacket, Carriers, p
  <2>6. HeardAll' = HeardAll /\ Gapless(heard)'
    BY <1>2, <1>9 DEF HeardAll, UpTo, Bytes, Gapless
  <2>7. Arrived'
    BY <1>4, <1>5, <2>2, <2>6 DEF Arrived, None, c
  <2> QED
    BY <1>5, <2>3, <2>4, <2>5, <2>6, <2>7 DEF Good
<1> QED
  BY <1>1, <1>8, <1>9

LEMMA ModuleStep ==
  ASSUME Good, Module
  PROVE  Good'
<1>1. dev' = dev /\ UNCHANGED <<serialOpen, up, outstanding, down>> /\ down' \in Nat
  BY DEF Module, counters, Good, Typed
<1>names. {"OK", "+EVT:JOINED", "+EVT:JOIN FAILED"} \subseteq Texts \ (Outcomes \cup {"AT+DR="})
  BY DEF Texts, Outcomes
<1>2. CASE Acknowledge
  <2>1. /\ tx # <<>> /\ tx' = Tail(tx) /\ Answer(<<"OK">>) /\ UNCHANGED <<air, heard>>
    BY <1>2 DEF Acknowledge, Executes, environment
  <2> QED
    BY <1>1, <1>names, <2>1, Says
<1>3. CASE StartJoining
  <2>1. /\ tx # <<>> /\ tx' = Tail(tx) /\ Answer(<<"OK">>) /\ UNCHANGED <<air, heard>>
    BY <1>3 DEF StartJoining, Executes
  <2> QED
    BY <1>1, <1>names, <2>1, Says
<1>4. CASE Joined
  <2>1. /\ tx' = tx /\ UNCHANGED <<air, heard>>
        /\ Answer(<<"+EVT:JOINED">>) \/ Answer(<<"+EVT:JOIN FAILED">>)
    BY <1>4 DEF Joined
  <2> QED
    BY <1>1, <1>names, <2>1, Says
<1>5. CASE TellDataRate
  BY <1>1, <1>5, TellDataRateStep
<1>6. CASE StartSending
  BY <1>1, <1>6, StartSendingStep
<1>7. CASE Sent
  BY <1>1, <1>7, SentStep
<1> QED
  BY <1>2, <1>3, <1>4, <1>5, <1>6, <1>7 DEF Module

LEMMA ReceivesStep ==
  ASSUME Good, Receives
  PROVE  Good'
<1> DEFINE data == <<down + 1>>
<1>1. /\ dev' = dev /\ UNCHANGED <<serialOpen, tx, up, outstanding, air, heard>>
      /\ rx' = Append(rx, Line("+EVT:RX", data)) /\ down' = down + 1
  BY DEF Receives, environment
<1>2. down' \in Nat /\ data \in Seq(Nat)
  <2>1. down \in Nat /\ down + 1 \in Nat
    BY DEF Good, Typed
  <2> QED
    BY <1>1, <2>1
<1> HIDE DEF data
<1>3. "+EVT:RX" \in Texts \ Outcomes /\ "+EVT:RX" # "AT+DR="
  BY DEF Texts, Outcomes
<1>4. /\ rx' \in Seq(Answers) /\ Single(rx', Outcomes)
      /\ None(rx, Outcomes) => None(rx', Outcomes)
      /\ None(rx, Success) => None(rx', Success)
  BY <1>1, <1>2, <1>3, Answering
<1> QED
  BY <1>1, <1>2, <1>4, LinesMove

-----------------------------------------------------------------------------
(* The invariant.                                                            *)

LEMMA IInvStep == IInv /\ [Next]_vars => IInv'
<1> SUFFICES ASSUME PacketsFit, IInv, [Next]_vars, ~discarded', ~Overfilled' PROVE Good'
  BY DEF IInv
<1>1. ~discarded
  BY DEF Next, vars, Driver, AnyApplication, SimpleSend, Module, Receives, Connect, Disconnect,
         Read, Restart, Write, Acknowledge, StartJoining, Joined, TellDataRate, StartSending,
         Sent, environment
<1>over. ~Overfilled
  BY DEF Next, vars, Driver, AnyApplication, SimpleSend, Module, Receives, Connect, Disconnect,
         Read, Restart, Write, Calls, counters, Overfilled, MessageProcessed
<1>2. Good
  BY <1>1, <1>over DEF IInv
<1>3. CASE Driver
  <2>1. Run /\ UNCHANGED <<up, outstanding, down, air, heard>>
    BY <1>3 DEF Driver, counters
  <2> QED
    BY <1>2, <2>1, RunStep
<1>4. CASE AnyApplication \/ SimpleSend
  BY <1>2, <1>4, ApplicationStep
<1>5. CASE Module
  BY <1>2, <1>5, ModuleStep
<1>6. CASE Receives
  BY <1>2, <1>6, ReceivesStep
<1>7. CASE UNCHANGED vars
  <2>1. dev \in Devices /\ UNCHANGED <<dev, serialOpen, rx, tx, up, outstanding, down, air, heard>>
    BY <1>2, <1>7 DEF vars, environment, counters, Good, Typed
  <2> QED
    BY <1>2, <2>1, CallStays
<1> QED
  BY <1>3, <1>4, <1>5, <1>6, <1>7 DEF Next

LEMMA Invariance == Spec => []IInv
<1>1. Init => IInv
  BY InitGood DEF IInv
<1> QED
  BY <1>1, IInvStep, PTL DEF Spec

(* What simplesend.cpp does never overfills the ring, and it writes nothing  *)
(* before it is connected.                                                   *)
Keeps ==
  scenario.program = "simplesend" =>
    ~discarded /\ ~Overfilled /\ (pc \in {"start", "connect"} => up = 0)

(* What is written to a ring with nothing to be sent or confirmed fits.      *)
LEMMA ProcessedFits ==
  ASSUME Good, NEW size \in Nat, Write(size), WriteBufferProcessed(dev)
  PROVE  ~Overfilled'
<1> DEFINE b == dev.writeBuffer
           data == [k \in 1 .. size |-> up + k]
           m == Accepted(dev, data)
<1>1. /\ b.availableData = 0 /\ b.bufferSize = BufferSize /\ BufferSize \in Nat
      /\ SizeModulus \in Nat /\ BufferSize < SizeModulus
  BY Constants DEF Good, Typed, Devices, Rings, WriteBufferProcessed, Buf!IsEmpty
<1>2. Buf!SpaceAvailable(b) = BufferSize
  BY <1>1 DEF Buf!SpaceAvailable, Buf!WrapSub
<1>3. m \in 0 .. BufferSize
  <2>1. Len(data) = size
    OBVIOUS
  <2> HIDE DEF data
  <2>2. Buf!Accepted(b, data) \in 0 .. BufferSize
    BY <1>1, <1>2, <2>1 DEF Buf!Accepted, Buf!Lesser
  <2> QED
    BY <1>1, <2>2 DEF Accepted
<1>4. ~Overfilled
  BY <1>1 DEF Good, Typed, Buffered, Overfilled
<1>5. outstanding' = Buf!Lesser(0 + m, BufferSize + 1)
  BY <1>4, Zenon DEF Write
<1> HIDE DEF m
<1> QED
  BY <1>1, <1>3, <1>5 DEF Overfilled, Buf!Lesser

LEMMA KeepsStep == PacketsFit /\ IInv /\ Keeps /\ [Next]_vars => Keeps'
<1> SUFFICES ASSUME PacketsFit, IInv, Keeps, [Next]_vars, scenario'.program = "simplesend"
             PROVE  ~discarded' /\ ~Overfilled' /\ (pc' \in {"start", "connect"} => up' = 0)
  BY DEF Keeps
<1>1. scenario' = scenario
  BY DEF Next, vars, Driver, AnyApplication, SimpleSend, Module, Receives, Connect, Disconnect,
         Read, Restart, Write, Calls, MessageProcessed
<1>2. /\ scenario.program = "simplesend" /\ ~discarded /\ ~Overfilled /\ Good
      /\ pc \in {"start", "connect"} => up = 0
  BY <1>1 DEF Keeps, IInv
<1>3. ~AnyApplication
  BY <1>2 DEF AnyApplication
<1>4. CASE SimpleSend
  <2>1. CASE pc = "start" /\ Connect
    BY <1>2, <2>1 DEF Connect, Overfilled
  <2>2. CASE pc = "connect" /\ pc' = "write" /\ Write(Message)
    <3>1. up = 0
      BY <1>2, <2>2
    <3>2. WriteBufferProcessed(dev)
      <4>1. /\ dev.writeBuffer.availableData \in Nat /\ Unconfirmed \in Nat
            /\ dev.bytesToResend \in Nat
        BY <1>2, Constants DEF Good, Typed, Devices, Rings, Unconfirmed
      <4>2. dev.writeBuffer.availableData + Unconfirmed <= 0
        BY <1>2, <3>1 DEF Good, Buffered
      <4>3. dev.writeBuffer.availableData = 0 /\ Unconfirmed = 0
        BY <4>1, <4>2
      <4> QED
        BY <1>2, <4>1, <4>3 DEF Good, Sending, Unconfirmed, WriteBufferProcessed, Buf!IsEmpty
    <3>3. ~Overfilled'
      BY <1>2, <2>2, <3>2, ProcessedFits, RakSystemAssumption
    <3> QED
      BY <1>2, <2>2, <3>3 DEF Write
  <2>3. CASE MessageProcessed /\ pc' = pc /\ Write(Message)
    <3>1. ~Overfilled'
      BY <1>2, <2>3, ProcessedFits, RakSystemAssumption DEF MessageProcessed
    <3> QED
      BY <1>2, <2>3, <3>1 DEF Write, MessageProcessed
  <2>4. CASE pc' \in {"read", "done"} /\ UNCHANGED <<outstanding, discarded>>
    BY <1>2, <2>4 DEF Overfilled
  <2> QED
    BY <1>4, <2>1, <2>2, <2>3, <2>4 DEF SimpleSend, Read, counters
<1>5. CASE Driver \/ Module \/ Receives \/ UNCHANGED vars
  <2>1. CASE Module
    <3>1. UNCHANGED discarded
      BY <2>1, Zenon DEF Module, environment, Acknowledge, StartJoining, Joined, TellDataRate,
                        StartSending, Sent
    <3>2. UNCHANGED <<pc, up, outstanding>>
      BY <2>1 DEF Module, counters
    <3> QED
      BY <1>2, <3>1, <3>2 DEF Overfilled
  <2>2. CASE Driver \/ Receives \/ UNCHANGED vars
    <3>1. UNCHANGED <<pc, up, outstanding, discarded>>
      BY <2>2 DEF Driver, Receives, vars, counters, environment
    <3> QED
      BY <1>2, <3>1 DEF Overfilled
  <2> QED
    BY <1>5, <2>1, <2>2
<1> QED
  BY <1>3, <1>4, <1>5 DEF Next

LEMMA KeepsAlways == ASSUME PacketsFit PROVE Spec => []Keeps
<1>1. Init => Keeps
  BY Constants DEF Init, Keeps, Overfilled
<1>3. PacketsFit
  OBVIOUS
<1>4. IInv /\ Keeps /\ [Next]_vars => Keeps'
  BY <1>3, KeepsStep
<1> QED
  BY <1>1, <1>4, Invariance, PTL DEF Spec

LEMMA RestrainedGood == ASSUME PacketsFit, IInv, Keeps, Restrained PROVE Good
BY DEF IInv, Keeps, Restrained

(* The example, whatever the length of its message and of the ring, never    *)
(* writes more than the ring holds between two times at which                *)
(* writeBufferProcessed() is true: it waits for that before each write, and  *)
(* writes nothing before it is connected.  Packets fit into the serial       *)
(* buffer.                                                                   *)
THEOREM ExampleFits ==
  ASSUME PacketsFit PROVE Spec => [](scenario.program = "simplesend" => ~Overfilled)
<1>1. Keeps => (scenario.program = "simplesend" => ~Overfilled)
  BY DEF Keeps
<1> QED
  BY <1>1, KeepsAlways, PTL

(* With the application of the example, or any other as long as it has not   *)
(* written more than the ring holds between two times at which               *)
(* writeBufferProcessed() is true, and with packets that fit into the serial *)
(* buffer: as long as the module is not reset, packets get through in the    *)
(* order of their bytes; one may be repeated, in full or in part, but no     *)
(* byte arrives before all earlier ones have (NoGap).  Any packet may fail,  *)
(* and the application may call between any two runs of the driver.  Without *)
(* the restriction the driver does not keep this.                            *)
THEOREM PacketsInOrder == ASSUME PacketsFit PROVE Spec => []NoGap
<1>1. PacketsFit /\ IInv /\ Keeps => NoGap
  <2> SUFFICES ASSUME Good, NEW k \in DOMAIN heard, NEW b \in 1 .. heard[k][Len(heard[k])]
               PROVE  b \in HeardBefore(k) \cup Bytes(heard[k])
    BY RestrainedGood DEF NoGap
  <2>1. b \in UpTo(heard, k - 1) \/ b \in Bytes(heard[k])
    BY DEF Good, Gapless
  <2>2. CASE b \in UpTo(heard, k - 1)
    <3>1. PICK j \in 1 .. k - 1 : b \in Bytes(heard[j])
      BY <2>2 DEF UpTo
    <3>2. b \in HeardBefore(k)
      BY <3>1 DEF HeardBefore
    <3> QED
      BY <3>2
  <2> QED
    BY <2>1, <2>2
<1>2. PacketsFit
  OBVIOUS
<1>3. IInv /\ Keeps => NoGap
  BY <1>1, <1>2
<1> QED
  BY <1>3, Invariance, KeepsAlways, PTL

(* With such an application and such packets: when writeBufferProcessed()    *)
(* tells that nothing is left to do, exactly what was written has got        *)
(* through, as long as the module is not reset (ProcessedIsHeard).           *)
THEOREM ProcessedHasArrived == ASSUME PacketsFit PROVE Spec => []ProcessedIsHeard
<1>1. PacketsFit /\ IInv /\ Keeps => ProcessedIsHeard
  <2> SUFFICES ASSUME Good, WriteBufferProcessed(dev)
               PROVE  HeardBefore(Len(heard) + 1) = 1 .. up
    BY RestrainedGood DEF ProcessedIsHeard, WrittenReachesPeer
  <2>1. /\ dev.writeBuffer.availableData = 0 /\ dev.sendState # "waitForSend"
        /\ up \in Nat /\ heard \in Seq(Seq(Nat))
    BY DEF WriteBufferProcessed, Buf!IsEmpty, Good, Typed
  <2>2. Confirmed = up
    BY <2>1 DEF Confirmed, Unconfirmed
  <2>3. HeardAll = 1 .. up
    BY <2>2 DEF Good, Arrived
  <2>4. Len(heard) + 1 - 1 = Len(heard)
    BY <2>1
  <2>5. \A x : x \in HeardBefore(Len(heard) + 1)
               <=> \E j \in 1 .. Len(heard) : x \in Bytes(heard[j])
    <3>1. HeardBefore(Len(heard) + 1) = UNION {Bytes(heard[j]) : j \in 1 .. Len(heard)}
      BY <2>4 DEF HeardBefore
    <3> QED
      BY <3>1
  <2>6. \A j \in 1 .. Len(heard) : Bytes(heard[j]) \subseteq Nat
    <3> TAKE j \in 1 .. Len(heard)
    <3>1. heard[j] \in Seq(Nat)
      BY <2>1
    <3> QED
      BY <3>1 DEF Bytes
  <2>7. \A x : x \in HeardBefore(Len(heard) + 1) <=> x \in HeardAll
    BY <2>5, <2>6 DEF HeardAll, UpTo
  <2> QED
    BY <2>3, <2>7
<1>2. PacketsFit
  OBVIOUS
<1>3. IInv /\ Keeps => ProcessedIsHeard
  BY <1>1, <1>2
<1> QED
  BY <1>3, Invariance, KeepsAlways, PTL

(* With such an application and such packets: the slots of a packet that may *)
(* have to be sent again are not given away (ResendHasRoom), so rewinding    *)
(* the read head restores the packet as it was.                              *)
THEOREM ResendFits == ASSUME PacketsFit PROVE Spec => []ResendHasRoom
<1>1. PacketsFit /\ IInv /\ Keeps => ResendHasRoom
  <2> SUFFICES ASSUME Good
               PROVE  dev.writeBuffer.availableData + Unconfirmed <= BufferSize
    BY RestrainedGood DEF ResendHasRoom
  <2> DEFINE kept == dev.writeBuffer.availableData + Unconfirmed
  <2>1. /\ kept <= outstanding /\ outstanding <= BufferSize
        /\ outstanding \in Nat /\ kept \in Nat /\ BufferSize \in Nat
    <3>1. dev.writeBuffer.availableData \in Nat /\ Unconfirmed \in Nat
      BY Constants DEF Good, Typed, Devices, Rings, Unconfirmed
    <3> QED
      BY <3>1, Constants DEF Good, Buffered, Typed
  <2> HIDE DEF kept
  <2>2. kept <= BufferSize
    BY <2>1
  <2> QED
    BY <2>2 DEF kept
<1>2. PacketsFit
  OBVIOUS
<1>3. IInv /\ Keeps => ResendHasRoom
  BY <1>1, <1>2
<1> QED
  BY <1>3, Invariance, KeepsAlways, PTL

=============================================================================
