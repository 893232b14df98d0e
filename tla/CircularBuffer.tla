--------------------------- MODULE CircularBuffer ---------------------------
(***************************************************************************)
(* The objects of cicada/circularbuffer.h and cicada/linecircularbuffer.h  *)
(* as records, and their methods as operators on such a record.  A plain   *)
(* CircularBuffer has the fields                                           *)
(*   buffer, writeHead, readHead, availableData, bufferSize                *)
(* and a LineCircularBuffer has bufferedLines besides.  Slots are numbered *)
(* from 0 as in the code.  The loops over the elements of a push or pull   *)
(* are closed forms: what the whole loop leaves in the object.             *)
(***************************************************************************)
EXTENDS Integers, Sequences, FiniteSets

CONSTANTS SizeModulus,   \* values of the type Size (2^64 in the builds, small here)
          LinesModulus,  \* values of uint16_t, the type of _bufferedLines
          NewLine        \* the character '\n'

ASSUME ModuliAssumption ==
  /\ SizeModulus \in Nat \ {0}
  /\ LinesModulus \in Nat \ {0}

Lesser(a, b) == IF a < b THEN a ELSE b

(* Unsigned arithmetic in a type of m values.                               *)
WrapAdd(a, b, m) == IF a + b < m THEN a + b ELSE a + b - m
WrapSub(a, b, m) == IF b <= a THEN a - b ELSE m + a - b

New(memory, size) ==
  [buffer |-> memory, writeHead |-> 0, readHead |-> 0,
   availableData |-> 0, bufferSize |-> size]

NewLineBuffer(memory, size) ==
  [buffer |-> memory, writeHead |-> 0, readHead |-> 0,
   availableData |-> 0, bufferSize |-> size, bufferedLines |-> 0]

(* Slip: the head is reset one slot late.                                    *)
AdvancePastEnd(head, k, size) == IF head + k > size THEN head + k - size ELSE head + k

(* incrementOrResetHead applied k times, k no larger than the size.         *)
Advance(head, k, size) == IF head + k >= size THEN head + k - size ELSE head + k

IsEmpty(b) == b.availableData = 0
IsFull(b) == b.availableData = b.bufferSize
BytesAvailable(b) == b.availableData
SpaceAvailable(b) == WrapSub(b.bufferSize, b.availableData, SizeModulus)

(* The slot of the k-th element that can be pulled, k \in 1..availableData,  *)
(* and the elements that can be pulled, oldest first.                        *)
Slot(b, k) == Advance(b.readHead, k - 1, b.bufferSize)
Contents(b) == [k \in 1 .. b.availableData |-> b.buffer[Slot(b, k)]]

(* The objects of a given size over a set of characters, and what relates    *)
(* their members: the heads are apart by the number of elements held.        *)
LineBuffers(Char, size) ==
  [buffer : [0 .. size - 1 -> Char], writeHead : 0 .. size - 1,
   readHead : 0 .. size - 1, availableData : 0 .. size, bufferSize : {size},
   bufferedLines : 0 .. LinesModulus - 1]
HeadsApart(b) == b.writeHead = Advance(b.readHead, b.availableData, b.bufferSize)

-----------------------------------------------------------------------------
(* CircularBuffer.                                                          *)

Accepted(b, data) == Lesser(Len(data), SpaceAvailable(b))

(* Slip: the head is incremented before the element is stored.               *)
OffsetAfterIncrement(b, i) == IF i > b.writeHead THEN i - b.writeHead - 1
                              ELSE i - b.writeHead + b.bufferSize - 1

(* How many increments lead from the write head to slot i.                   *)
Offset(b, i) == IF i >= b.writeHead THEN i - b.writeHead
                                    ELSE i - b.writeHead + b.bufferSize

PushMany(b, data) ==
  LET n == Accepted(b, data)
  IN  [b EXCEPT !.buffer = [i \in DOMAIN b.buffer |->
                              IF Offset(b, i) < n THEN data[Offset(b, i) + 1]
                                                  ELSE b.buffer[i]],
                !.writeHead = Advance(b.writeHead, n, b.bufferSize),
                !.availableData = b.availableData + n]

Push(b, c) ==
  [b EXCEPT !.buffer = [b.buffer EXCEPT ![b.writeHead] = c],
            !.writeHead = Advance(b.writeHead, 1, b.bufferSize),
            !.availableData = IF b.availableData < b.bufferSize
                              THEN b.availableData + 1 ELSE b.availableData]

Pulled(b, size) == SubSeq(Contents(b), 1, Lesser(size, b.availableData))

PullMany(b, size) ==
  LET n == Lesser(size, b.availableData)
  IN  [b EXCEPT !.readHead = Advance(b.readHead, n, b.bufferSize),
                !.availableData = b.availableData - n]

(* read(): what is at the read head, stale when the buffer is empty.         *)
Read(b) == b.buffer[b.readHead]

Pull(b) ==
  [b EXCEPT !.readHead = Advance(b.readHead, 1, b.bufferSize),
            !.availableData = IF b.availableData > 0
                              THEN b.availableData - 1 ELSE 0]

Flush(b) == [b EXCEPT !.writeHead = 0, !.readHead = 0, !.availableData = 0]

RewindReadHead(b, num) ==
  [b EXCEPT !.readHead = IF num <= b.readHead THEN b.readHead - num
                         ELSE b.bufferSize + b.readHead - num,
            !.availableData = WrapAdd(b.availableData, num, SizeModulus)]

-----------------------------------------------------------------------------
(* LineCircularBuffer: the same, counting the newlines that pass.            *)

NewLinesIn(data) == Cardinality({k \in DOMAIN data : data[k] = NewLine})

LinePushMany(b, data) ==
  [PushMany(b, data) EXCEPT
     !.bufferedLines = WrapAdd(b.bufferedLines,
                               NewLinesIn(SubSeq(data, 1, Accepted(b, data))),
                               LinesModulus)]

LinePush(b, c) ==
  [Push(b, c) EXCEPT
     !.bufferedLines = IF c = NewLine THEN WrapAdd(b.bufferedLines, 1, LinesModulus)
                                      ELSE b.bufferedLines]

(* Slip: pull() and pull(data, size) are not overridden.                     *)
PullUncounted(b) == Pull(b)
PullManyUncounted(b, size) == PullMany(b, size)

LinePull(b) ==
  [Pull(b) EXCEPT
     !.bufferedLines = IF Read(b) = NewLine THEN WrapSub(b.bufferedLines, 1, LinesModulus)
                                            ELSE b.bufferedLines]

LinePullMany(b, size) ==
  [PullMany(b, size) EXCEPT
     !.bufferedLines = WrapSub(b.bufferedLines, NewLinesIn(Pulled(b, size)), LinesModulus)]

(* readLine pulls up to and including the first newline, or everything: the  *)
(* elements that have no newline before them.                                *)
LineLength(b) ==
  Cardinality({k \in 1 .. b.availableData :
                 \A j \in 1 .. k - 1 : Contents(b)[j] # NewLine})

LineFlush(b) == [Flush(b) EXCEPT !.bufferedLines = 0]
=============================================================================
