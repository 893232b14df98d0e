------------------------- MODULE LineCircularBuffer -------------------------
(***************************************************************************)
(* One LineCircularBuffer and a client that calls its public methods.      *)
(* CircularBuffer's methods are inherited, so this is the behaviour of     *)
(* both classes.  The client calls the unchecked push(char) and pull()     *)
(* only when there is room or data, and rewinds over slots that still hold *)
(* what was pulled from them.                                              *)
(***************************************************************************)
EXTENDS CircularBuffer

CONSTANTS Char,        \* the characters pushed, NewLine among them
          BufferSize,  \* bufferSize of the constructor
          MaxChunk     \* bound: longest array handed to push(data, size)

ASSUME BufferAssumption ==
  /\ NewLine \in Char
  /\ BufferSize \in Nat \ {0}
  /\ MaxChunk \in Nat \ {0}
  /\ 2 * BufferSize < SizeModulus
  /\ BufferSize < LinesModulus

VARIABLES lb,        \* the object
          retained,  \* history: pulled elements whose slots are untouched
          rewound,   \* history: a rewind came after the last flush
          out        \* what the last call returned

vars == <<lb, retained, rewound, out>>

Slots == 0 .. BufferSize - 1
Chunks == UNION {[1 .. n -> Char] : n \in 0 .. MaxChunk}

Init ==
  /\ \E memory \in [Slots -> Char] : lb = NewLineBuffer(memory, BufferSize)
  /\ retained = 0 /\ rewound = FALSE
  /\ out = <<>>

(* Pushing claims the slots of the elements pulled longest ago.             *)
Retain(b, n) == Lesser(n, BufferSize - b.availableData)

PushArray(data) ==
  /\ lb' = LinePushMany(lb, data)
  /\ retained' = Retain(lb', retained)
  /\ out' = <<>>
  /\ UNCHANGED rewound

PushChar(c) ==
  /\ ~IsFull(lb)
  /\ lb' = LinePush(lb, c)
  /\ retained' = Retain(lb', retained)
  /\ out' = <<>>
  /\ UNCHANGED rewound

PullArray(size) ==
  /\ lb' = LinePullMany(lb, size)
  /\ retained' = retained + Len(Pulled(lb, size))
  /\ out' = Pulled(lb, size)
  /\ UNCHANGED rewound

PullChar ==
  /\ ~IsEmpty(lb)
  /\ lb' = LinePull(lb)
  /\ retained' = retained + 1
  /\ out' = <<Read(lb)>>
  /\ UNCHANGED rewound

(* readLine(data, size): the line is pulled, what exceeds size is dropped.   *)
ReadLine(size) ==
  LET n == LineLength(lb)
  IN  /\ lb' = LinePullMany(lb, n)
      /\ retained' = retained + n
      /\ out' = SubSeq(Pulled(lb, n), 1, Lesser(size, n))
      /\ UNCHANGED rewound

FlushAll ==
  /\ lb' = LineFlush(lb)
  /\ retained' = 0 /\ rewound' = FALSE
  /\ out' = <<>>

(* Inherited by LineCircularBuffer without an override.                     *)
Rewind(num) ==
  /\ num <= retained
  /\ lb' = RewindReadHead(lb, num)
  /\ retained' = retained - num /\ rewound' = TRUE
  /\ out' = <<>>

LineNext ==
  \/ \E data \in Chunks : PushArray(data)
  \/ \E c \in Char : PushChar(c)
  \/ \E size \in 0 .. BufferSize : PullArray(size)
  \/ PullChar
  \/ \E size \in 0 .. BufferSize : ReadLine(size)
  \/ FlushAll

Next == LineNext \/ \E num \in 1 .. BufferSize : Rewind(num)

Spec == Init /\ [][Next]_vars

-----------------------------------------------------------------------------
(* The object's fields stay in their ranges, the heads stay apart by the     *)
(* number of elements held (circularbuffer.h keeps the three separately and  *)
(* nothing but its own arithmetic relates them), and history fits the slots. *)
TypeOK ==
  /\ lb \in LineBuffers(Char, BufferSize)
  /\ HeadsApart(lb)
  /\ retained \in 0 .. BufferSize - lb.availableData
  /\ rewound \in BOOLEAN

(* linecircularbuffer.h:94 "Number of lines currently in the buffer": the     *)
(* counter kept by push and pull equals the newlines that can be pulled, so   *)
(* a driver that waits for numBufferedLines() > 0 then reads a whole line.    *)
(* The inherited rewindReadHead() counts nothing: after it the number is too  *)
(* small until the next flush().                                              *)
LinesCounted == ~rewound => lb.bufferedLines = NewLinesIn(Contents(lb))

(* The n elements pulled last, oldest first, still behind the read head.      *)
TakenSlot(k) == LET h == lb.readHead - retained + k - 1
                IN  IF h < 0 THEN h + BufferSize ELSE h
Taken == [k \in 1 .. retained |-> lb.buffer[TakenSlot(k)]]

Fifo == INSTANCE FifoBuffer WITH
          Capacity <- BufferSize, queue <- Contents(lb), taken <- Taken

(* The ring of slots implements the queue: every element pushed comes out     *)
(* once and in order, none is lost or invented when the heads wrap, and a     *)
(* rewind re-delivers exactly the elements pulled last.                       *)
ImplementsFifo == Fifo!Spec
=============================================================================
