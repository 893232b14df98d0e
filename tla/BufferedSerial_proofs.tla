------------------------ MODULE BufferedSerial_proofs ------------------------
(***************************************************************************)
(* The safety invariants of BufferedSerial for every size of the two       *)
(* buffers, every alphabet, every text and every interleaving of calls,    *)
(* interrupts and openings of the port.                                    *)
(***************************************************************************)
EXTENDS BufferedSerial, CircularBuffer_proofs

-----------------------------------------------------------------------------
(* The inductive invariant, in parts.                                       *)

Good(b, size) == b \in Rings(Char, size) /\ Counted(b)
BuffersGood == Good(rx, ReadSize) /\ Good(tx, WriteSize)

AtMostOne == {<<>>} \cup {<<c>> : c \in Char}
Typed ==
  /\ interrupts \in BOOLEAN
  /\ rdr \in AtMostOne /\ tdr \in AtMostOne /\ shift \in AtMostOne
  /\ wire \in Seq(Char) /\ accepted \in Seq(Char) /\ delivered \in Seq(Char)
  /\ todo \in Seq(Char) /\ want \in Nat /\ line \in Seq(Char)

(* Interrupts are masked exactly between the load of the counters and their   *)
(* store, so what was loaded is still what the object holds.                 *)
InSection == pc \in {"push", "pull", "pullOfLine"}
Sectioned ==
  /\ masked <=> InSection
  /\ pc = "push" => snap = Counters(tx)
  /\ pc \in {"pull", "pullOfLine"} => snap = Counters(rx)

(* A loop never asks for more than the buffer holds or has room for.         *)
LoopsBounded ==
  /\ pc \in {"read", "pull"} => want \in 1 .. rx.availableData
  /\ pc \in {"copy", "push"} => todo # <<>> /\ Len(todo) <= WriteSize - tx.availableData
  /\ pc \in {"readOfLine", "pullOfLine"} => ~IsEmpty(rx)

(* An open UART has a clock, so the request to transmit is not ignored.      *)
Clocked == live /\ interrupts => clocked

(* What writeBufferProcessed() has found empty, and will find, stays empty.  *)
NothingLeft ==
  /\ pc = "testTC" => IsEmpty(tx)
  /\ processed => /\ pc \notin {"copy", "push"} /\ IsEmpty(tx)
                  /\ interrupts => shift = <<>> /\ tdr = <<>>

(* The line that was promised is still in rx, or has just been read.         *)
PromiseKept == promised => rx.bufferedLines > 0 \/ (pc = "nextOfLine" /\ EndOfLine)

IInv == /\ BuffersGood /\ Typed /\ Sectioned /\ LoopsBounded /\ Clocked
        /\ ReceiveFifo /\ TransmitFifo /\ NoLostWakeup /\ NothingLeft /\ PromiseKept

-----------------------------------------------------------------------------
(* The sizes of both buffers suit the lemmas about the buffers.              *)
LEMMA SerialSizes ==
  /\ ReadSize \in Nat \ {0} /\ ReadSize < LinesModulus /\ ReadSize < SizeModulus
  /\ WriteSize \in Nat \ {0} /\ WriteSize < LinesModulus /\ WriteSize < SizeModulus
  /\ LinesModulus \in Nat /\ SizeModulus \in Nat
BY SerialAssumption, ModuliAssumption

(* What a buffer that is well formed and counted consists of.                *)
LEMMA GoodFields ==
  ASSUME NEW size \in Nat \ {0}, NEW b, Good(b, size)
  PROVE  /\ b \in LineBuffers(Char, size) /\ HeadsApart(b)
         /\ b.availableData \in 0 .. size /\ b.bufferSize = size
         /\ b.bufferedLines \in Nat
         /\ Contents(b) \in Seq(Char) /\ Len(Contents(b)) = b.availableData
<1>1. b \in LineBuffers(Char, size) /\ HeadsApart(b)
  BY DEF Good, Rings
<1>2. /\ b.availableData \in 0 .. size /\ b.bufferSize = size
      /\ b.bufferedLines \in 0 .. LinesModulus - 1
  BY <1>1 DEF LineBuffers
<1>3. Contents(b) \in Seq(Char) /\ Len(Contents(b)) = b.availableData
  BY <1>1, ContentsType
<1> QED BY <1>1, <1>2, <1>3, SerialSizes

(* push(char) under the guard of its callers: the character is appended and   *)
(* no line is lost.                                                          *)
LEMMA PushKeepsGood ==
  ASSUME NEW size \in Nat \ {0}, size < LinesModulus,
         NEW b, Good(b, size), NEW c \in Char, b.availableData < size
  PROVE  /\ Good(LinePush(b, c), size)
         /\ LinePush(b, c).availableData = b.availableData + 1
         /\ Contents(LinePush(b, c)) = Contents(b) \o <<c>>
         /\ b.bufferedLines > 0 => LinePush(b, c).bufferedLines > 0
<1> DEFINE q == LinePush(b, c)
<1>1. ~IsFull(b) /\ b \in Rings(Char, size) /\ Counted(b)
  BY GoodFields DEF IsFull, Good
<1>2. /\ q \in Rings(Char, size) /\ q.availableData = b.availableData + 1
      /\ Contents(q) = Append(Contents(b), c) /\ Counted(q)
  BY <1>1, LinePushAppends
<1>3. Contents(b) \in Seq(Char) /\ <<c>> \in Seq(Char)
  BY GoodFields
<1>4. Append(Contents(b), c) = Contents(b) \o <<c>>
  BY <1>3, AppendIsConcat
<1> HIDE DEF q
<1>5. q.bufferedLines = b.bufferedLines + NewLinesIn(<<c>>)
  <2>1. NewLinesIn(Contents(b) \o <<c>>) = NewLinesIn(Contents(b)) + NewLinesIn(<<c>>)
    BY <1>3, NewLinesConcat
  <2> QED BY <1>1, <1>2, <1>4, <2>1 DEF Counted
<1>6. NewLinesIn(<<c>>) \in Nat /\ b.bufferedLines \in Nat
  <2>1. NewLinesIn(<<c>>) \in Nat
    BY NewLinesOne
  <2> QED BY <2>1, GoodFields
<1>7. b.bufferedLines > 0 => q.bufferedLines > 0
  BY <1>5, <1>6
<1> QED BY <1>1, <1>2, <1>4, <1>7 DEF Good, q

(* pull() under the guard of its callers: the oldest character is taken, and  *)
(* with it a line only if it is a newline.                                   *)
LEMMA PullKeepsGood ==
  ASSUME NEW size \in Nat \ {0}, size < LinesModulus,
         NEW b, Good(b, size), ~IsEmpty(b)
  PROVE  /\ Good(LinePull(b), size)
         /\ LinePull(b).availableData = b.availableData - 1
         /\ Read(b) \in Char
         /\ Contents(b) = <<Read(b)>> \o Contents(LinePull(b))
         /\ Contents(LinePull(b)) \in Seq(Char)
         /\ Read(b) # NewLine => LinePull(b).bufferedLines = b.bufferedLines
<1> DEFINE q == LinePull(b)
<1>1. b \in Rings(Char, size) /\ Counted(b)
  BY DEF Good
<1>2. /\ q \in Rings(Char, size) /\ q.availableData = b.availableData - 1
      /\ Read(b) \in Char /\ Contents(b) = <<Read(b)>> \o Contents(q) /\ Counted(q)
  BY <1>1, LinePullTakes
<1>3. Good(q, size)
  BY <1>2, Zenon DEF Good
<1>4. Contents(q) \in Seq(Char) /\ <<Read(b)>> \in Seq(Char)
  BY <1>2, <1>3, GoodFields
<1>5. b.bufferedLines = NewLinesIn(<<Read(b)>>) + q.bufferedLines
  BY <1>1, <1>2, <1>4, NewLinesConcat DEF Counted
<1>6. Read(b) # NewLine => NewLinesIn(<<Read(b)>>) = 0
  BY NewLinesOne
<1>7. q.bufferedLines \in Nat
  BY <1>3, GoodFields
<1> HIDE DEF q
<1>8. Read(b) # NewLine => q.bufferedLines = b.bufferedLines
  BY <1>5, <1>6, <1>7
<1> QED BY <1>2, <1>3, <1>4, <1>8 DEF q

(* Storing the counters that were loaded changes nothing.                    *)
LEMMA StoredCounters ==
  ASSUME NEW size \in Nat \ {0}, NEW b, Good(b, size)
  PROVE  WithCounters(b, Counters(b)) = b
BY GoodFields DEF WithCounters, Counters, LineBuffers

(* An empty buffer has no contents and no lines, and conversely.             *)
LEMMA EmptyContents ==
  ASSUME NEW size \in Nat \ {0}, NEW b, Good(b, size)
  PROVE  /\ IsEmpty(b) <=> Contents(b) = <<>>
         /\ IsEmpty(b) => b.bufferedLines = 0
<1>1. Contents(b) \in Seq(Char) /\ Len(Contents(b)) = b.availableData
  BY GoodFields
<1>2. NewLinesIn(Contents(b)) \in 0 .. Len(Contents(b)) /\ Counted(b)
  BY <1>1, NewLinesBound DEF Good
<1> DEFINE s == Contents(b)
<1> HIDE DEF s
<1>3. s \in Seq(Char) /\ Len(s) = b.availableData
  BY <1>1 DEF s
<1>4. IsEmpty(b) <=> s = <<>>
  BY <1>3, EmptySeq DEF IsEmpty
<1>5. IsEmpty(b) => b.bufferedLines = 0
  BY <1>1, <1>2 DEF Counted, IsEmpty
<1> QED BY <1>4, <1>5 DEF s

(* At most one character is a sequence of characters.                        *)
LEMMA AtMostOneIsSeq ==
  /\ <<>> \in AtMostOne
  /\ \A c \in Char : <<c>> \in AtMostOne
  /\ \A s \in AtMostOne : s \in Seq(Char) /\ (s # <<>> => s = <<Head(s)>> /\ Head(s) \in Char)
<1>1. <<>> \in AtMostOne /\ \A c \in Char : <<c>> \in AtMostOne
  BY DEF AtMostOne
<1>2. ASSUME NEW c \in Char
      PROVE  <<c>> \in Seq(Char) /\ Head(<<c>>) = c
  OBVIOUS
<1>3. <<>> \in Seq(Char)
  BY EmptySeq
<1> QED BY <1>1, <1>2, <1>3 DEF AtMostOne

(* A character appended to the last of two sequences.                        *)
LEMMA AppendedLast ==
  ASSUME NEW c \in Char, NEW s \in Seq(Char), NEW t \in Seq(Char)
  PROVE  (s \o t) \o <<c>> = s \o (t \o <<c>>)
<1>1. PICK u \in Seq(Char) : u = <<c>>
  <2>1. <<c>> \in Seq(Char)
    OBVIOUS
  <2> QED BY <2>1, Zenon
<1>2. (s \o t) \o u = s \o (t \o u)
  BY ConcatAssociative
<1> QED BY <1>1, <1>2

-----------------------------------------------------------------------------
LEMMA InitIInv == Init => IInv
<1> SUFFICES ASSUME Init PROVE IInv
  OBVIOUS
<1>1. /\ Good(rx, ReadSize) /\ rx.availableData = 0 /\ Contents(rx) = <<>>
      /\ Good(tx, WriteSize) /\ tx.availableData = 0 /\ Contents(tx) = <<>>
  <2>1. /\ [i \in 0 .. ReadSize - 1 |-> NewLine] \in [0 .. ReadSize - 1 -> Char]
        /\ [i \in 0 .. WriteSize - 1 |-> NewLine] \in [0 .. WriteSize - 1 -> Char]
    BY SerialAssumption
  <2>2. /\ rx \in Rings(Char, ReadSize) /\ rx.availableData = 0 /\ Contents(rx) = <<>>
        /\ Counted(rx)
        /\ tx \in Rings(Char, WriteSize) /\ tx.availableData = 0 /\ Contents(tx) = <<>>
        /\ Counted(tx)
    BY <2>1, NewLineBufferIsRing, SerialSizes DEF Init
  <2> QED BY <2>2 DEF Good
<1>2. Typed
  BY AtMostOneIsSeq, EmptySeq, SerialAssumption DEF Init, Typed
<1>3. ReceiveFifo /\ TransmitFifo
  BY <1>1, EmptySeq, ConcatEmptySeq DEF Init, ReceiveFifo, TransmitFifo
<1>4. Sectioned /\ LoopsBounded /\ Clocked /\ NoLostWakeup /\ NothingLeft /\ PromiseKept
  BY <1>1 DEF Init, Sectioned, InSection, LoopsBounded, Clocked, NoLostWakeup, NothingLeft,
              PromiseKept
<1> QED BY <1>1, <1>2, <1>3, <1>4 DEF IInv, BuffersGood

(* The line and the UART: only what is on its way moves.                     *)
LEMMA LineSteps ==
  ASSUME IInv, LoadShift \/ ShiftOut \/ \E c \in Char : Arrive(c)
  PROVE  IInv'
<1>1. /\ wire \in Seq(Char) /\ shift \in Seq(Char) /\ tdr \in Seq(Char)
      /\ Contents(tx) \in Seq(Char) /\ <<>> \in Seq(Char)
  BY AtMostOneIsSeq, GoodFields, SerialSizes DEF IInv, Typed, BuffersGood
<1>2. CASE LoadShift
  <2>1. TransmitFifo'
    BY <1>1, <1>2, ConcatEmptySeq DEF LoadShift, IInv, TransmitFifo, history
  <2> QED BY <1>2, <2>1, AtMostOneIsSeq
          DEF LoadShift, IInv, BuffersGood, Typed, Sectioned, InSection, LoopsBounded, Clocked,
              ReceiveFifo, NoLostWakeup, NothingLeft, PromiseKept, EndOfLine, port, history
<1>3. CASE ShiftOut
  <2>1. TransmitFifo' /\ wire' \in Seq(Char)
    BY <1>1, <1>3, ConcatEmptySeq, ConcatProperties DEF ShiftOut, IInv, TransmitFifo, history
  <2> QED BY <1>3, <2>1, AtMostOneIsSeq
          DEF ShiftOut, IInv, BuffersGood, Typed, Sectioned, InSection, LoopsBounded, Clocked,
              ReceiveFifo, NoLostWakeup, NothingLeft, PromiseKept, EndOfLine, port, history
<1>4. ASSUME NEW c \in Char, Arrive(c) PROVE IInv'
  BY <1>4, AtMostOneIsSeq
  DEF Arrive, IInv, BuffersGood, Typed, Sectioned, InSection, LoopsBounded, Clocked,
      ReceiveFifo, TransmitFifo, NoLostWakeup, NothingLeft, PromiseKept, EndOfLine, port, history
<1> QED BY <1>2, <1>3, <1>4

(* transferToAndFromBuffer, at any point outside of a section.               *)
LEMMA TransferSteps ==
  ASSUME IInv, HandleInterrupt \/ PollTask
  PROVE  IInv'
<1> USE SerialSizes
<1>1. Transfer /\ ~InSection
  BY DEF IInv, Sectioned, InSection, HandleInterrupt, PollTask
<1>2. /\ Good(rx, ReadSize) /\ Good(tx, WriteSize) /\ Contents(rx) \in Seq(Char)
      /\ delivered \in Seq(Char) /\ accepted \in Seq(Char) /\ rdr \in AtMostOne
      /\ wire \in Seq(Char) /\ shift \in Seq(Char) /\ tdr \in AtMostOne
      /\ rx.availableData \in 0 .. ReadSize /\ tx.availableData \in 0 .. WriteSize
  BY AtMostOneIsSeq, GoodFields DEF IInv, BuffersGood, Typed
<1>3. /\ Good(rx', ReadSize) /\ rx.availableData <= rx'.availableData
      /\ rx.bufferedLines > 0 => rx'.bufferedLines > 0
      /\ rdr' \in AtMostOne /\ accepted' \in Seq(Char) /\ ReceiveFifo'
  <2>1. rdr' \in AtMostOne /\ delivered' = delivered
    BY <1>1, AtMostOneIsSeq DEF Transfer
  <2>2. CASE Receives
    <3> DEFINE c == Head(rdr)
    <3>1. c \in Char /\ rdr = <<c>> /\ <<c>> \in Seq(Char) /\ ~IsFull(rx)
      BY <1>2, <2>2, AtMostOneIsSeq DEF Receives, RawRead
    <3>2. rx' = LinePush(rx, c) /\ accepted' = accepted \o <<c>>
      BY <1>1, <2>2, <3>1 DEF Transfer
    <3>3. rx.availableData < ReadSize
      BY <1>2, <3>1, GoodFields DEF IsFull
    <3> HIDE DEF c
    <3>4. /\ Good(rx', ReadSize) /\ rx'.availableData = rx.availableData + 1
          /\ Contents(rx') = Contents(rx) \o <<c>>
          /\ rx.bufferedLines > 0 => rx'.bufferedLines > 0
      BY <1>2, <3>1, <3>2, <3>3, PushKeepsGood
    <3>5. accepted = delivered \o Contents(rx)
      BY DEF IInv, ReceiveFifo
    <3>6. accepted' = delivered' \o Contents(rx') /\ accepted' \in Seq(Char)
      <4>1. (delivered \o Contents(rx)) \o <<c>> = delivered \o (Contents(rx) \o <<c>>)
        BY <1>2, <3>1, AppendedLast
      <4>2. accepted \o <<c>> \in Seq(Char)
        BY <1>2, <3>1, ConcatProperties
      <4> QED BY <2>1, <3>2, <3>4, <3>5, <4>1, <4>2
    <3> QED BY <1>2, <2>1, <3>4, <3>6 DEF ReceiveFifo
  <2>3. CASE ~Receives
    BY <1>1, <1>2, <2>1, <2>3 DEF Transfer, IInv, ReceiveFifo
  <2> QED BY <2>2, <2>3
<1>4. /\ Good(tx', WriteSize) /\ tx'.availableData <= tx.availableData
      /\ tdr' \in AtMostOne /\ TransmitFifo'
      /\ IsEmpty(tx) => tx' = tx /\ tdr' = tdr
  <2>1. UNCHANGED <<wire, shift, written>>
    BY <1>1 DEF Transfer
  <2>2. CASE Sends
    <3> DEFINE c == Read(tx)
    <3>1. ~IsEmpty(tx) /\ tdr = <<>>
      BY <2>2 DEF Sends, RawWrite, TXE
    <3>2. tx' = LinePull(tx) /\ tdr' = <<c>>
      BY <1>1, <2>2 DEF Transfer
    <3> HIDE DEF c
    <3>3. /\ Good(tx', WriteSize) /\ tx'.availableData = tx.availableData - 1
          /\ c \in Char /\ Contents(tx) = <<c>> \o Contents(tx')
          /\ Contents(tx') \in Seq(Char)
      BY <1>2, <3>1, <3>2, PullKeepsGood DEF c
    <3>4. written = wire \o shift \o <<>> \o (<<c>> \o Contents(tx'))
      BY <3>1, <3>3 DEF IInv, TransmitFifo
    <3>5. written' = wire' \o shift' \o tdr' \o Contents(tx')
      <4>1. wire \o shift \in Seq(Char) /\ <<c>> \in Seq(Char)
        BY <1>2, <3>3, ConcatProperties
      <4>2. (wire \o shift) \o <<>> = wire \o shift
        BY <4>1, ConcatEmptySeq
      <4>3. (wire \o shift) \o (<<c>> \o Contents(tx'))
              = ((wire \o shift) \o <<c>>) \o Contents(tx')
        BY <3>3, <4>1, ConcatAssociative, SMTT(40)
      <4> QED BY <2>1, <3>2, <3>4, <4>2, <4>3
    <3>6. tdr' \in AtMostOne
      BY <3>2, <3>3, AtMostOneIsSeq
    <3> QED BY <1>2, <3>1, <3>3, <3>5, <3>6 DEF TransmitFifo
  <2>3. CASE ~Sends
    BY <1>1, <1>2, <2>1, <2>3, SMTT(40) DEF Transfer, IInv, TransmitFifo
  <2> QED BY <2>2, <2>3
<1>5. rx'.availableData \in Nat /\ tx'.availableData \in Nat
  BY <1>3, <1>4, GoodFields
<1>6. BuffersGood' /\ Typed' /\ Sectioned' /\ Clocked'
  BY <1>1, <1>3, <1>4
  DEF Transfer, BuffersGood, IInv, Typed, Sectioned, InSection, Clocked, PollTask,
      HandleInterrupt, port
<1>7. LoopsBounded'
  BY <1>1, <1>2, <1>3, <1>4, <1>5 DEF Transfer, IInv, LoopsBounded, IsEmpty
<1>8. NoLostWakeup'
  <2>1. IsEmpty(tx) => IsEmpty(tx')
    BY <1>4
  <2>2. UNCHANGED <<live, interrupts, stranded, pc>>
    BY <1>1 DEF Transfer, port
  <2>3. CASE HandleInterrupt
    BY <2>1, <2>2, <2>3, Zenon DEF HandleInterrupt, TxeieAfter, IInv, NoLostWakeup
  <2>4. CASE PollTask
    BY <2>2, <2>4 DEF PollTask, NoLostWakeup
  <2> QED BY <2>3, <2>4
<1>9. NothingLeft'
  BY <1>1, <1>4 DEF Transfer, IInv, NothingLeft
<1>10. PromiseKept'
  BY <1>1, <1>3 DEF Transfer, IInv, PromiseKept, EndOfLine
<1> QED BY <1>3, <1>4, <1>6, <1>7, <1>8, <1>9, <1>10 DEF IInv

(* open() and close().                                                       *)
LEMMA PortSteps ==
  ASSUME IInv, OpenUart \/ OpenTerminal \/ Close
  PROVE  IInv'
<1> USE SerialSizes
<1>1. /\ Good(tx, WriteSize) /\ Contents(tx) \in Seq(Char) /\ <<>> \in Seq(Char)
      /\ wire \in Seq(Char) /\ shift \in Seq(Char) /\ tdr \in Seq(Char)
      /\ written = wire \o shift \o tdr \o Contents(tx)
  BY AtMostOneIsSeq, GoodFields DEF IInv, BuffersGood, Typed, TransmitFifo
<1>2. pc = "idle" /\ ~InSection
  BY DEF OpenUart, OpenTerminal, Close, InSection
<1>3. CASE OpenUart
  <2>1. NoLostWakeup' /\ Clocked'
    <3>1. CASE UNCHANGED <<isOpen, live, stranded>>
      BY <1>3, <3>1 DEF OpenUart, IInv, NoLostWakeup, Clocked, device
    <3>2. CASE live' = TRUE /\ stranded' = (~IsEmpty(tx) /\ ~txeie)
      BY <1>3, <3>2, Zenon DEF OpenUart, NoLostWakeup, Clocked, device
    <3> QED BY <1>3, <3>1, <3>2 DEF OpenUart
  <2> QED BY <1>2, <1>3, <2>1
          DEF OpenUart, IInv, BuffersGood, Typed, Sectioned, InSection, LoopsBounded,
              ReceiveFifo, TransmitFifo, NothingLeft, PromiseKept, EndOfLine, device, history
<1>4. CASE OpenTerminal
  <2>1. wire' \in Seq(Char) /\ shift' \in AtMostOne /\ tdr' \in AtMostOne /\ rdr' \in AtMostOne
    <3>1. (wire \o shift) \o tdr \in Seq(Char)
      BY <1>1, ConcatProperties
    <3> QED BY <1>4, <3>1, AtMostOneIsSeq DEF OpenTerminal, IInv, Typed
  <2>2. TransmitFifo'
    <3>1. \A w \in Seq(Char) : w \o <<>> = w
      BY ConcatEmptySeq
    <3>2. wire \o shift \o tdr \in Seq(Char)
      BY <1>1, ConcatProperties
    <3>3. UNCHANGED <<written, tx>>
      BY <1>4 DEF OpenTerminal, history
    <3>4. CASE UNCHANGED <<wire, shift, tdr>>
      BY <1>1, <3>3, <3>4 DEF TransmitFifo
    <3>5. CASE wire' = wire \o shift \o tdr /\ shift' = <<>> /\ tdr' = <<>>
      <4>1. wire' \o <<>> \o <<>> = wire \o shift \o tdr
        BY <3>1, <3>2, <3>5
      <4> QED BY <1>1, <3>3, <3>5, <4>1 DEF TransmitFifo
    <3> QED BY <1>4, <3>4, <3>5 DEF OpenTerminal
  <2>3. ~interrupts /\ interrupts' = interrupts
    BY <1>4 DEF OpenTerminal
  <2>4. NoLostWakeup' /\ Clocked' /\ NothingLeft'
    BY <1>2, <1>4, <2>3 DEF OpenTerminal, IInv, NoLostWakeup, Clocked, NothingLeft, history
  <2> QED BY <1>2, <1>4, <2>1, <2>2, <2>4
          DEF OpenTerminal, IInv, BuffersGood, Typed, Sectioned, InSection, LoopsBounded,
              ReceiveFifo, PromiseKept, EndOfLine, history
<1>5. CASE Close
  <2>1. PICK sent \in {<<>>, shift, shift \o tdr} :
          wire' = wire \o sent /\ written' = wire' \o Contents(tx)
    BY <1>5 DEF Close
  <2>2. sent \in Seq(Char)
    BY <1>1, <2>1, ConcatProperties
  <2>3. wire' \in Seq(Char)
    BY <1>1, <2>1, <2>2, ConcatProperties
  <2>4. wire' \o <<>> \o <<>> = wire'
    BY <2>3, ConcatEmptySeq
  <2>5. TransmitFifo'
    BY <1>5, <2>1, <2>4 DEF Close, TransmitFifo
  <2>6. NothingLeft' /\ NoLostWakeup' /\ Clocked'
    BY <1>2, <1>5 DEF Close, IInv, NothingLeft, NoLostWakeup, Clocked
  <2> QED BY <1>2, <1>5, <2>3, <2>5, <2>6, AtMostOneIsSeq
          DEF Close, IInv, BuffersGood, Typed, Sectioned, InSection, LoopsBounded,
              ReceiveFifo, PromiseKept, EndOfLine
<1> QED BY <1>3, <1>4, <1>5

(* write(), between its call and startTransmit().                            *)
LEMMA WriteSteps ==
  ASSUME IInv, (\E data \in Texts : Write(data)) \/ CopyToBuffer \/ CopyPush \/ StartTransmit
  PROVE  IInv'
<1> USE SerialSizes
<1>1. /\ Good(tx, WriteSize) /\ tx.availableData \in 0 .. WriteSize /\ tx.bufferSize = WriteSize
      /\ Contents(tx) \in Seq(Char) /\ todo \in Seq(Char)
      /\ wire \in Seq(Char) /\ shift \in Seq(Char) /\ tdr \in Seq(Char)
      /\ written = wire \o shift \o tdr \o Contents(tx)
  BY AtMostOneIsSeq, GoodFields DEF IInv, BuffersGood, Typed, TransmitFifo
<1>2. ASSUME NEW data \in Texts, Write(data) PROVE IInv'
  <2> DEFINE n == Accepted(tx, data)
  <2>1. data \in Seq(Char) /\ Len(data) \in Nat
    BY SerialAssumption
  <2>2. n \in 0 .. Len(data) /\ n <= WriteSize - tx.availableData
    BY <1>1, <2>1 DEF Accepted, SpaceAvailable, WrapSub, Lesser
  <2>3. todo' = SubSeq(data, 1, n) /\ UNCHANGED tx
    BY <1>2 DEF Write
  <2> HIDE DEF n
  <2>4. todo' \in Seq(Char) /\ Len(todo') = n
    BY <2>1, <2>2, <2>3
  <2>5. LoopsBounded' /\ NoLostWakeup' /\ NothingLeft'
    BY <1>1, <1>2, <2>2, <2>3, <2>4 DEF Write, LoopsBounded, NoLostWakeup, NothingLeft
  <2> QED BY <1>2, <2>4, <2>5
          DEF Write, IInv, BuffersGood, Typed, Sectioned, InSection, Clocked, ReceiveFifo,
              TransmitFifo, PromiseKept, EndOfLine, device, port
<1>3. CASE CopyToBuffer
  <2>1. LoopsBounded' /\ NoLostWakeup' /\ NothingLeft'
    BY <1>3 DEF CopyToBuffer, Enter, IInv, LoopsBounded, NoLostWakeup, NothingLeft, history, port,
                device
  <2> QED BY <1>3, <2>1
          DEF CopyToBuffer, Enter, Masks, IInv, BuffersGood, Typed, Sectioned, InSection, Clocked,
              ReceiveFifo, TransmitFifo, PromiseKept, EndOfLine, device, history, port
<1>4. CASE CopyPush
  <2> DEFINE c == Head(todo)
  <2>1. /\ pc = "push" /\ todo # <<>> /\ Len(todo) <= WriteSize - tx.availableData
        /\ snap = Counters(tx) /\ ~processed
    BY <1>4 DEF CopyPush, IInv, LoopsBounded, Sectioned, NothingLeft
  <2>2. /\ c \in Char /\ todo' = Tail(todo) /\ todo' \in Seq(Char) /\ Len(todo') = Len(todo) - 1
        /\ Len(todo) \in Nat
    BY <1>1, <1>4, <2>1, HeadTailProperties DEF CopyPush
  <2>3. tx' = LinePush(tx, c) /\ written' = Append(written, c)
    BY <1>1, <1>4, <2>1, StoredCounters DEF CopyPush
  <2> HIDE DEF c
  <2>4. tx.availableData < WriteSize
    <3>1. Len(todo) # 0
      BY <1>1, <2>1, EmptySeq
    <3> QED BY <1>1, <2>1, <2>2, <3>1
  <2>5. /\ Good(tx', WriteSize) /\ tx'.availableData = tx.availableData + 1
        /\ Contents(tx') = Contents(tx) \o <<c>>
    BY <1>1, <2>2, <2>3, <2>4, PushKeepsGood
  <2>6. TransmitFifo'
    <3>1. wire \o shift \in Seq(Char)
      BY <1>1, ConcatProperties
    <3>2. wire \o shift \o tdr \in Seq(Char) /\ <<c>> \in Seq(Char)
      BY <1>1, <2>2, <3>1, ConcatProperties
    <3>3. wire \o shift \o tdr \o Contents(tx) \in Seq(Char)
      BY <1>1, <3>2, ConcatProperties
    <3>4. Append(written, c) = written \o <<c>>
      BY <1>1, <2>2, <3>3, AppendIsConcat
    <3>5. (wire \o shift \o tdr \o Contents(tx)) \o <<c>>
            = wire \o shift \o tdr \o (Contents(tx) \o <<c>>)
      BY <1>1, <2>2, <3>2, AppendedLast
    <3>6. UNCHANGED <<wire, shift, tdr>>
      BY <1>4 DEF CopyPush, device
    <3> QED BY <1>1, <2>3, <2>5, <3>4, <3>5, <3>6 DEF TransmitFifo
  <2>7. pc' \in {"copy", "startTransmit"} /\ (pc' = "copy" => todo' # <<>>) /\ ~masked'
    BY <1>4 DEF CopyPush, Leave
  <2>8. LoopsBounded'
    <3>1. Len(todo') <= WriteSize - tx'.availableData
      BY <1>1, <2>1, <2>2, <2>5
    <3> QED BY <2>7, <3>1 DEF LoopsBounded
  <2>9. NoLostWakeup' /\ NothingLeft' /\ Sectioned'
    BY <1>4, <2>1, <2>7 DEF CopyPush, NoLostWakeup, NothingLeft, Sectioned, InSection
  <2> QED BY <1>4, <2>2, <2>5, <2>6, <2>7, <2>8, <2>9
          DEF CopyPush, IInv, BuffersGood, Typed, Clocked, ReceiveFifo, PromiseKept, EndOfLine,
              device, port
<1>5. CASE StartTransmit
  <2>1. NoLostWakeup' /\ Clocked'
    BY <1>5, Zenon DEF StartTransmit, IInv, NoLostWakeup, Clocked, device
  <2> QED BY <1>5, <2>1
          DEF StartTransmit, IInv, BuffersGood, Typed, Sectioned, InSection, LoopsBounded,
              ReceiveFifo, TransmitFifo, NothingLeft, PromiseKept, EndOfLine, device, history
<1> QED BY <1>2, <1>3, <1>4, <1>5

(* read() and readLine(), from their call to their return.                   *)
LEMMA ReadSteps ==
  ASSUME IInv,
         \/ \E size \in 1 .. MaxChunk : ReadArray(size)
         \/ ReadLine \/ NextOfLine \/ ReadChar \/ PullOfArray \/ PullOfLine
  PROVE  IInv'
<1> USE SerialSizes
<1>1. /\ Good(rx, ReadSize) /\ rx.availableData \in 0 .. ReadSize
      /\ rx.bufferedLines \in Nat /\ Contents(rx) \in Seq(Char)
      /\ delivered \in Seq(Char) /\ line \in Seq(Char) /\ want \in Nat
      /\ accepted = delivered \o Contents(rx)
  BY GoodFields DEF IInv, BuffersGood, Typed, ReceiveFifo
<1>2. ASSUME NEW size \in 1 .. MaxChunk, ReadArray(size) PROVE IInv'
  <2>1. want' \in 0 .. rx.availableData
    BY <1>1, <1>2, SerialAssumption DEF ReadArray, Readable, BytesAvailable, Lesser
  <2>2. LoopsBounded'
    BY <1>1, <1>2, <2>1 DEF ReadArray, LoopsBounded
  <2> QED BY <1>1, <1>2, <2>1, <2>2
          DEF ReadArray, IInv, BuffersGood, Typed, Sectioned, InSection, Clocked, ReceiveFifo,
              TransmitFifo, NoLostWakeup, NothingLeft, PromiseKept, EndOfLine, device, history, port
<1>3. CASE ReadLine
  BY <1>3, EmptySeq
  DEF ReadLine, IInv, BuffersGood, Typed, Sectioned, InSection, LoopsBounded, Clocked, ReceiveFifo,
      TransmitFifo, NoLostWakeup, NothingLeft, PromiseKept, device, history, port
<1>4. CASE NextOfLine
  <2>1. PromiseKept' /\ LoopsBounded'
    BY <1>4 DEF NextOfLine, LineGoesOn, IInv, PromiseKept, LoopsBounded, EndOfLine
  <2> QED BY <1>4, <2>1
          DEF NextOfLine, IInv, BuffersGood, Typed, Sectioned, InSection, Clocked, ReceiveFifo,
              TransmitFifo, NoLostWakeup, NothingLeft, device, port
<1>5. CASE ReadChar
  <2>1. pc' \in {"pull", "pullOfLine"} /\ (pc' = "pull" <=> pc = "read") /\ masked'
    BY <1>5 DEF ReadChar, Enter, Masks
  <2>2. UNCHANGED <<rx, tx, todo, want, line, device, history, port, txeie>> /\ snap' = Counters(rx)
    BY <1>5 DEF ReadChar, Enter
  <2>3. pc \in {"read", "readOfLine"}
    BY <1>5 DEF ReadChar
  <2> QED BY <2>1, <2>2, <2>3
          DEF IInv, BuffersGood, Typed, Sectioned, InSection, LoopsBounded, Clocked,
              ReceiveFifo, TransmitFifo, NoLostWakeup, NothingLeft, PromiseKept, device, history, port
<1>6. ASSUME NEW next, pc \in {"pull", "pullOfLine"}, PullAll(next)
      PROVE  /\ Good(rx', ReadSize) /\ rx'.availableData = rx.availableData - 1
             /\ Read(rx) \in Char
             /\ Read(rx) # NewLine => rx'.bufferedLines = rx.bufferedLines
             /\ ReceiveFifo' /\ delivered' \in Seq(Char)
  <2> DEFINE c == Read(rx)
  <2>1. ~IsEmpty(rx) /\ snap = Counters(rx)
    BY <1>1, <1>6 DEF IInv, LoopsBounded, Sectioned, IsEmpty
  <2>2. rx' = LinePull(rx) /\ delivered' = Append(delivered, c) /\ accepted' = accepted
    BY <1>1, <1>6, <2>1, StoredCounters DEF PullAll
  <2>3. /\ Good(rx', ReadSize) /\ rx'.availableData = rx.availableData - 1
        /\ c \in Char /\ Contents(rx) = <<c>> \o Contents(rx') /\ Contents(rx') \in Seq(Char)
        /\ c # NewLine => rx'.bufferedLines = rx.bufferedLines
    BY <1>1, <2>1, <2>2, PullKeepsGood
  <2> HIDE DEF c
  <2>4. /\ Append(delivered, c) = delivered \o <<c>> /\ Append(delivered, c) \in Seq(Char)
    BY <1>1, <2>3, AppendIsConcat, AppendProperties
  <2>5. <<c>> \in Seq(Char)
    BY <2>3
  <2>6. (delivered \o <<c>>) \o Contents(rx') = delivered \o (<<c>> \o Contents(rx'))
    BY <1>1, <2>3, <2>5, ConcatAssociative
  <2>7. ReceiveFifo'
    BY <1>1, <2>2, <2>3, <2>4, <2>6 DEF ReceiveFifo
  <2> QED BY <2>2, <2>3, <2>4, <2>7 DEF c
<1>7. CASE PullOfArray
  <2> DEFINE next == IF want' = 0 THEN "idle" ELSE "read"
  <2>1. pc = "pull" /\ PullAll(next) /\ want' = want - 1 /\ ~promised' /\ line' = line
    BY <1>7 DEF PullOfArray
  <2>2. want \in 1 .. rx.availableData
    BY <2>1 DEF IInv, LoopsBounded
  <2>3. /\ UNCHANGED <<tx, txeie, device, accepted, written, processed, todo, port, snap>>
        /\ ~masked' /\ pc' = next
    BY <2>1 DEF PullAll, Leave
  <2>4. /\ Good(rx', ReadSize) /\ rx'.availableData = rx.availableData - 1
        /\ ReceiveFifo' /\ delivered' \in Seq(Char)
    BY <1>6, <2>1
  <2>5. want' \in Nat /\ LoopsBounded'
    BY <1>1, <2>1, <2>2, <2>3, <2>4 DEF LoopsBounded
  <2> QED BY <2>1, <2>3, <2>4, <2>5
          DEF IInv, BuffersGood, Typed, Sectioned, InSection, Clocked,
              TransmitFifo, NoLostWakeup, NothingLeft, PromiseKept, device, port
<1>8. CASE PullOfLine
  <2>1. /\ pc = "pullOfLine" /\ PullAll("nextOfLine") /\ line' = Append(line, Read(rx))
        /\ UNCHANGED <<want, promised>>
    BY <1>8 DEF PullOfLine
  <2>2. /\ UNCHANGED <<tx, txeie, device, accepted, written, processed, todo, port, snap>>
        /\ ~masked' /\ pc' = "nextOfLine"
    BY <2>1 DEF PullAll, Leave
  <2>3. /\ Good(rx', ReadSize) /\ ReceiveFifo' /\ delivered' \in Seq(Char) /\ Read(rx) \in Char
        /\ Read(rx) # NewLine => rx'.bufferedLines = rx.bufferedLines
    BY <1>6, <2>1
  <2>4. /\ line' \in Seq(Char) /\ line' # <<>> /\ Len(line') = Len(line) + 1
        /\ line'[Len(line) + 1] = Read(rx)
    BY <1>1, <2>1, <2>3, AppendProperties
  <2>5. Read(rx) = NewLine => EndOfLine'
    BY <2>4 DEF EndOfLine
  <2>6. PromiseKept'
    BY <2>1, <2>2, <2>3, <2>5 DEF IInv, PromiseKept
  <2> QED BY <2>1, <2>2, <2>3, <2>4, <2>6
          DEF IInv, BuffersGood, Typed, Sectioned, InSection, LoopsBounded, Clocked,
              TransmitFifo, NoLostWakeup, NothingLeft, device, port
<1> QED BY <1>2, <1>3, <1>4, <1>5, <1>7, <1>8

(* canReadLine(), flushReceiveBuffers() and writeBufferProcessed().          *)
LEMMA QuerySteps ==
  ASSUME IInv, CanReadLine \/ FlushReceiveBuffers \/ WriteBufferProcessed \/ TestTC
  PROVE  IInv'
<1> USE SerialSizes
<1>1. CASE CanReadLine
  BY <1>1 DEF CanReadLine, HasLine, IInv, BuffersGood, Typed, Sectioned, InSection, LoopsBounded,
              Clocked, ReceiveFifo, TransmitFifo, NoLostWakeup, NothingLeft, PromiseKept, EndOfLine,
              device, port
<1>2. CASE FlushReceiveBuffers
  <2>1. Good(rx', ReadSize) /\ Contents(rx') = <<>>
    <3>1. rx \in Rings(Char, ReadSize) /\ rx' = LineFlush(rx)
      BY <1>2 DEF FlushReceiveBuffers, IInv, BuffersGood, Good
    <3> QED BY <3>1, LineFlushEmpties DEF Good
  <2>2. accepted \in Seq(Char) /\ accepted \o <<>> = accepted
    BY ConcatEmptySeq DEF IInv, Typed
  <2>3. ReceiveFifo' /\ delivered' \in Seq(Char)
    BY <1>2, <2>1, <2>2 DEF FlushReceiveBuffers, ReceiveFifo
  <2> QED BY <1>2, <2>1, <2>3
          DEF FlushReceiveBuffers, IInv, BuffersGood, Typed, Sectioned, InSection, LoopsBounded,
              Clocked, TransmitFifo, NoLostWakeup, NothingLeft, PromiseKept, device, port
<1>3. CASE WriteBufferProcessed
  BY <1>3 DEF WriteBufferProcessed, Check, IInv, BuffersGood, Typed, Sectioned, InSection,
              LoopsBounded, Clocked, ReceiveFifo, TransmitFifo, NoLostWakeup, NothingLeft,
              PromiseKept, EndOfLine, device, history, port
<1>4. CASE TestTC
  <2>1. NothingLeft'
    <3>1. 2 # 1
      OBVIOUS
    <3>2. processed' => TC \/ ~interrupts
      BY <1>4, <3>1, Zenon DEF TestTC, Check
    <3>3. IsEmpty(tx) /\ pc' = "idle" /\ UNCHANGED <<tx, device>>
      BY <1>4 DEF TestTC, IInv, NothingLeft
    <3> QED BY <3>2, <3>3 DEF TC, NothingLeft, device
  <2> QED BY <1>4, <2>1
          DEF TestTC, IInv, BuffersGood, Typed, Sectioned, InSection, LoopsBounded, Clocked,
              ReceiveFifo, TransmitFifo, NoLostWakeup, PromiseKept, EndOfLine, device, port
<1> QED BY <1>1, <1>2, <1>3, <1>4

LEMMA IInvStep == IInv /\ [Next]_vars => IInv'
<1> SUFFICES ASSUME IInv, [Next]_vars PROVE IInv'
  OBVIOUS
<1>1. CASE UNCHANGED vars
  BY <1>1 DEF vars, port, device, history, IInv, BuffersGood, Typed, Sectioned, InSection,
              LoopsBounded, Clocked, ReceiveFifo, TransmitFifo, NoLostWakeup, NothingLeft,
              PromiseKept, EndOfLine
<1>2. CASE Call
  BY <1>2, PortSteps, WriteSteps, ReadSteps, QuerySteps, Zenon DEF Call
<1>3. CASE Continue
  BY <1>3, WriteSteps, ReadSteps, QuerySteps, Zenon DEF Continue
<1> QED BY <1>1, <1>2, <1>3, TransferSteps, LineSteps, Zenon DEF Next

(* What holds of every reachable state, for all theorems below.              *)
LEMMA Invariance == Spec => []IInv
BY InitIInv, IInvStep, PTL DEF Spec

-----------------------------------------------------------------------------
(* Two actors load and store the counters of the buffers, and still heads     *)
(* and counters agree in both, whatever the sizes.                           *)
THEOREM SerialTypeOK == Spec => []TypeOK
<1>1. IInv => TypeOK
  <2>1. [1 .. 1 -> Char] = {<<c>> : c \in Char}
    <3>1. ASSUME NEW f \in [1 .. 1 -> Char] PROVE f = <<f[1]>> /\ f[1] \in Char
      OBVIOUS
    <3>2. ASSUME NEW c \in Char PROVE <<c>> \in [1 .. 1 -> Char]
      OBVIOUS
    <3> QED BY <3>1, <3>2
  <2> QED BY <2>1, GoodFields, SerialSizes DEF IInv, BuffersGood, Typed, AtMostOne, TypeOK
<1> QED BY <1>1, Invariance, PTL

(* What read() and readLine() hand over, whatever interrupts come in between, *)
(* is what transferToAndFromBuffer has stored, once and in order.            *)
THEOREM ReceivedInOrder == Spec => []ReceiveFifo
<1>1. IInv => ReceiveFifo
  BY DEF IInv
<1> QED BY <1>1, Invariance, PTL

(* What leaves the UART is what write() has stored, once and in order, but    *)
(* for what close() cuts off.                                                *)
THEOREM SentInOrder == Spec => []TransmitFifo
<1>1. IInv => TransmitFifo
  BY DEF IInv
<1> QED BY <1>1, Invariance, PTL

(* Both counters of lines are exact, although pushes and pulls come from      *)
(* different actors.                                                         *)
THEOREM SerialLinesCounted == Spec => []LinesCounted
<1>1. IInv => LinesCounted
  BY DEF IInv, BuffersGood, Good, Counted, LinesCounted
<1> QED BY <1>1, Invariance, PTL

(* After canReadLine() the next readLine() ends with a newline.              *)
THEOREM PromisedLineIsWhole == Spec => []WholeLine
<1>1. IInv => WholeLine
  <2> SUFFICES ASSUME IInv, pc = "nextOfLine", promised, IsEmpty(rx) PROVE EndOfLine
    BY DEF WholeLine
  <2>1. rx.bufferedLines = 0
    BY EmptyContents, SerialSizes DEF IInv, BuffersGood
  <2> QED BY <2>1 DEF IInv, PromiseKept
<1> QED BY <1>1, Invariance, PTL

(* A count taken before a loop is still good enough in it.                   *)
THEOREM CountsStayGood == Spec => []NoStalePull
<1>1. IInv => NoStalePull
  <2> SUFFICES ASSUME IInv PROVE NoStalePull
    OBVIOUS
  <2>1. rx.availableData \in Nat /\ tx.bufferSize = WriteSize
    BY GoodFields, SerialSizes DEF IInv, BuffersGood
  <2> QED BY <2>1 DEF IInv, LoopsBounded, NoStalePull
<1> QED BY <1>1, Invariance, PTL

(* Outside of write() an open UART that has something to send has its         *)
(* transmit interrupt on, unless it was opened with something left.          *)
THEOREM WakeupsKept == Spec => []NoLostWakeup
<1>1. IInv => NoLostWakeup
  BY DEF IInv
<1> QED BY <1>1, Invariance, PTL

(* When writeBufferProcessed() has returned true, all that was written has    *)
(* left, though buffer and TC flag are read one after the other.             *)
THEOREM ProcessedHasLeft == Spec => []ProcessedIsSent
<1>1. IInv => ProcessedIsSent
  <2> SUFFICES ASSUME IInv, processed
               PROVE  written = IF interrupts THEN wire ELSE wire \o shift \o tdr
    BY DEF ProcessedIsSent
  <2>1. Contents(tx) = <<>>
    BY EmptyContents, SerialSizes DEF IInv, BuffersGood, NothingLeft
  <2>2. written = wire \o shift \o tdr \o <<>>
    BY <2>1 DEF IInv, TransmitFifo
  <2>3. wire \in Seq(Char) /\ shift \in Seq(Char) /\ tdr \in Seq(Char)
    BY AtMostOneIsSeq DEF IInv, Typed
  <2>4. wire \o shift \o tdr \in Seq(Char)
    BY <2>3, ConcatProperties
  <2>5. written = wire \o shift \o tdr
    BY <2>2, <2>4, ConcatEmptySeq
  <2>6. CASE interrupts
    <3>1. shift = <<>> /\ tdr = <<>>
      BY <2>6 DEF IInv, NothingLeft
    <3> QED BY <2>3, <2>5, <2>6, <3>1, ConcatEmptySeq
  <2> QED BY <2>5, <2>6
<1> QED BY <1>1, Invariance, PTL
=============================================================================
