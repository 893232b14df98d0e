--------------------------- MODULE BufferedSerial ---------------------------
(***************************************************************************)
(* cicada/bufferedserial.cpp between two actors.  The application thread   *)
(* calls the public methods; transferToAndFromBuffer runs either in the    *)
(* UART interrupt (interrupts = TRUE: platform/stm32f1/stm32uart.cpp) or   *)
(* as a task of the cooperative scheduler (interrupts = FALSE:             *)
(* platform/linux/unixserial.cpp).  The interrupt may come between any two *)
(* steps of the application unless interrupts are masked; an update of the *)
(* counters shared with it is a load and a store.                          *)
(***************************************************************************)
EXTENDS CircularBuffer

CONSTANTS Char,        \* characters on the line, NewLine among them
          ReadSize,    \* readBufferSize of the constructor
          WriteSize,   \* writeBufferSize of the constructor
          Platforms,   \* the values of interrupts: TRUE on stm32f1, FALSE on linux
          Texts,       \* the arrays handed to write()
          Budgets,     \* bounds of a behaviour: characters arriving, characters
                       \* written, calls of close()
          MaxChunk     \* bound: largest array handed to read()

ASSUME SerialAssumption ==
  /\ NewLine \in Char
  /\ ReadSize \in Nat \ {0} /\ WriteSize \in Nat \ {0}
  /\ ReadSize < SizeModulus /\ WriteSize < SizeModulus
  /\ ReadSize < LinesModulus /\ WriteSize < LinesModulus
  /\ Platforms \subseteq BOOLEAN
  /\ Texts \subseteq Seq(Char)
  /\ Budgets \subseteq [receive : Nat, write : Nat, close : Nat] /\ MaxChunk \in Nat \ {0}

VARIABLES
  interrupts,  \* the platform: transferToAndFromBuffer runs in the UART interrupt
  isOpen,      \* FLAG_ISOPEN, _isOpen
  live,        \* characters can pass: the UART is on, _fd is a descriptor
  clocked,     \* the UART has a clock
  budget,      \* what is left of the bounds
  rx, tx,      \* _readBuffer and _writeBuffer
  masked,      \* between eDisableInterrupts and eEnableInterrupts
  txeie,       \* USART_CR1_TXEIE
  rdr,         \* received character not yet read (RXNE), a sequence of at most 1
  tdr, shift,  \* character in the transmit register, in the shift register
  wire,        \* history: characters that left the shift register
  accepted,    \* history: characters pushed into rx
  delivered,   \* history: characters pulled (or flushed) from rx
  written,     \* history: characters pushed into tx, but for those cut off by close()
  stranded,    \* history: the port opened on characters no write() has announced
  pc,          \* where the application is; "idle" between calls
  todo,        \* what write() has yet to copy
  want,        \* how many characters read() has yet to pull
  snap,        \* counters loaded by the section the application is in
  line,        \* characters pulled by the current or last readLine()
  promised,    \* history: canReadLine() was true, nothing read since
  processed    \* history: writeBufferProcessed() was true, nothing written since

port == <<isOpen, live, clocked, stranded>>
device == <<interrupts, rdr, tdr, shift, wire>>
history == <<accepted, delivered, written, promised, processed>>
vars == <<budget, port, rx, tx, masked, txeie, device, history, pc, todo, want, snap, line>>

Counters(b) == [data |-> b.availableData, lines |-> b.bufferedLines]
WithCounters(b, s) == [b EXCEPT !.availableData = s.data, !.bufferedLines = s.lines]

Init ==
  /\ interrupts \in Platforms
  /\ rx = NewLineBuffer([i \in 0 .. ReadSize - 1 |-> NewLine], ReadSize)
  /\ tx = NewLineBuffer([i \in 0 .. WriteSize - 1 |-> NewLine], WriteSize)
  /\ budget \in Budgets
  /\ isOpen = FALSE /\ live = FALSE /\ clocked = FALSE /\ stranded = FALSE
  /\ masked = FALSE /\ txeie = FALSE
  /\ rdr = <<>> /\ tdr = <<>> /\ shift = <<>> /\ wire = <<>>
  /\ accepted = <<>> /\ delivered = <<>> /\ written = <<>>
  /\ promised = FALSE /\ processed = FALSE
  /\ pc = "idle" /\ todo = <<>> /\ want = 0 /\ line = <<>>
  /\ snap = [data |-> 0, lines |-> 0]

-----------------------------------------------------------------------------
(* The line and the UART.  A character that arrives while RXNE is still set  *)
(* is lost; the overrun flag goes away with the read of the data register.   *)

TXE == tdr = <<>>
TC == tdr = <<>> /\ shift = <<>>

Arrive(c) ==
  /\ live /\ budget.receive > 0
  /\ budget' = [budget EXCEPT !.receive = @ - 1]
  /\ rdr' = IF rdr = <<>> THEN <<c>> ELSE rdr
  /\ UNCHANGED <<port, interrupts, rx, tx, masked, txeie, tdr, shift, wire, history,
                 pc, todo, want, snap, line>>

LoadShift ==
  /\ tdr # <<>> /\ shift = <<>>
  /\ shift' = tdr /\ tdr' = <<>>
  /\ UNCHANGED <<budget, port, interrupts, rx, tx, masked, txeie, rdr, wire, history,
                 pc, todo, want, snap, line>>

ShiftOut ==
  /\ shift # <<>>
  /\ wire' = wire \o shift /\ shift' = <<>>
  /\ UNCHANGED <<budget, port, interrupts, rx, tx, masked, txeie, rdr, tdr, history,
                 pc, todo, want, snap, line>>

-----------------------------------------------------------------------------
(* transferToAndFromBuffer: at most one character each way.  A received      *)
(* character is taken from the UART even when rx has no room for it.         *)

(* __HAL_UART_GET_FLAG and DR; read() and write() on the descriptor.          *)
RawRead == live /\ rdr # <<>>
RawWrite == live /\ TXE

(* Slips: the byte is pushed whether or not there is room; the byte is pulled *)
(* whether or not rawWrite() took it; the last byte stays behind.            *)
ReceivesUnchecked == RawRead
SendsUnchecked == ~IsEmpty(tx)
SendsAllButOne == tx.availableData > 1 /\ RawWrite

Receives == RawRead /\ ~IsFull(rx)
Sends == ~IsEmpty(tx) /\ RawWrite

Transfer ==
  /\ rx' = IF Receives THEN LinePush(rx, Head(rdr)) ELSE rx
  /\ accepted' = IF Receives THEN accepted \o rdr ELSE accepted
  /\ rdr' = <<>>
  /\ tx' = IF Sends THEN LinePull(tx) ELSE tx
  /\ tdr' = IF Sends THEN <<Read(tx)>> ELSE tdr
  /\ UNCHANGED <<budget, port, interrupts, masked, shift, wire, delivered, written, promised,
                 processed, pc, todo, want, snap, line>>

(* Slip: the interrupt is switched off one byte early.                       *)
TxeieOffEarly(b) == txeie /\ b.availableData > 1

(* CLEAR_BIT(CR1, TXEIE) once nothing is left to send.                       *)
TxeieAfter(b) == txeie /\ ~IsEmpty(b)

(* The interrupts enabled by open() and startTransmit().                     *)
Requested == rdr # <<>> \/ (txeie /\ TXE)

HandleInterrupt ==
  /\ interrupts /\ live /\ ~masked /\ Requested
  /\ Transfer
  /\ txeie' = TxeieAfter(tx')

(* BufferedSerialTask::run under the scheduler: only between calls.  Without  *)
(* a descriptor read() and write() fail.                                     *)
PollTask ==
  /\ ~interrupts /\ live /\ pc = "idle"
  /\ Transfer
  /\ UNCHANGED txeie

-----------------------------------------------------------------------------
(* The port.  The drivers open a port that is not open.                      *)

(* A register of the UART keeps its value: TXEIE is not looked at.           *)
OpenUart ==
  /\ interrupts /\ pc = "idle" /\ ~isOpen
  /\ clocked' = TRUE
  /\ \/ isOpen' = TRUE /\ live' = TRUE /\ stranded' = (~IsEmpty(tx) /\ ~txeie)
     \/ UNCHANGED <<isOpen, live, stranded>>   \* HAL_UART_Init fails
  /\ UNCHANGED <<budget, rx, tx, masked, txeie, device, history, pc, todo, want, snap, line>>

(* There is no such terminal; or it cannot be configured, and then it is left *)
(* open without the flag; or TCSAFLUSH waits for what is on its way out and   *)
(* discards what has come in.                                                *)
OpenTerminal ==
  /\ ~interrupts /\ pc = "idle" /\ ~isOpen
  /\ \/ isOpen' = FALSE /\ live' \in BOOLEAN /\ UNCHANGED <<wire, shift, tdr, rdr>>
     \/ /\ isOpen' = TRUE /\ live' = TRUE
        /\ wire' = wire \o shift \o tdr /\ shift' = <<>> /\ tdr' = <<>> /\ rdr' = <<>>
  /\ UNCHANGED <<budget, clocked, stranded, rx, tx, masked, txeie, interrupts, history, pc,
                 todo, want, snap, line>>

(* What the UART (the kernel) was about to send may still leave or be cut     *)
(* off; what it has received may be lost.  The two buffers stay as they are. *)
Close ==
  /\ pc = "idle" /\ isOpen /\ budget.close > 0
  /\ budget' = [budget EXCEPT !.close = @ - 1]
  /\ isOpen' = FALSE /\ live' = FALSE /\ txeie' = FALSE /\ stranded' = FALSE
  /\ \E sent \in {<<>>, shift, shift \o tdr} :
       wire' = wire \o sent /\ written' = wire' \o Contents(tx)
  /\ shift' = <<>> /\ tdr' = <<>> /\ rdr' \in {rdr, <<>>}
  /\ UNCHANGED <<clocked, rx, tx, masked, interrupts, accepted, delivered,
                 promised, processed, pc, todo, want, snap, line>>

-----------------------------------------------------------------------------
(* Sections between eDisableInterrupts and eEnableInterrupts.                *)

(* Slip: nothing is masked.                                                  *)
MasksNothing == FALSE

Masks == TRUE  \* eDisableInterrupts masks on stm32f1; on linux nothing interrupts

Enter(b, next) ==
  /\ masked' = Masks
  /\ snap' = Counters(b)
  /\ pc' = next

Leave(next) == masked' = FALSE /\ pc' = next

(* write(data, size) and write(str) copy what fits into the free space they  *)
(* saw first; write(byte) is the call with one character and enough space.   *)
Write(data) ==
  /\ pc = "idle"
  /\ Accepted(tx, data) <= budget.write
  /\ budget' = [budget EXCEPT !.write = @ - Accepted(tx, data)]
  /\ todo' = SubSeq(data, 1, Accepted(tx, data))
  /\ pc' = IF todo' = <<>> THEN "startTransmit" ELSE "copy"
  /\ processed' = FALSE
  /\ UNCHANGED <<port, rx, tx, masked, txeie, device, accepted, delivered, written,
                 promised, want, snap, line>>

CopyToBuffer ==
  /\ pc = "copy"
  /\ Enter(tx, "push")
  /\ UNCHANGED <<budget, port, rx, tx, txeie, device, history, todo, want, line>>

CopyPush ==
  /\ pc = "push"
  /\ tx' = LinePush(WithCounters(tx, snap), Head(todo))
  /\ written' = Append(written, Head(todo))
  /\ todo' = Tail(todo)
  /\ Leave(IF todo' = <<>> THEN "startTransmit" ELSE "copy")
  /\ UNCHANGED <<budget, port, rx, txeie, device, accepted, delivered, promised, processed,
                 want, snap, line>>

(* SET_BIT(CR1, TXEIE).  The interrupt changes no other bit of CR1 and a bit *)
(* it clears meanwhile is set again, so one step stands for load and store.  *)
(* Before the first open() the UART has no clock and ignores it.             *)
StartTransmit ==
  /\ pc = "startTransmit"
  /\ txeie' = (interrupts /\ clocked)
  /\ stranded' = FALSE
  /\ pc' = "idle"
  /\ UNCHANGED <<budget, isOpen, live, clocked, rx, tx, masked, device, history, todo, want,
                 snap, line>>

(* Slip: read(data, size) trusts its caller.                                 *)
Asked(size) == size

(* read(data, size) pulls, one by one, the number it saw available first.    *)
Readable(size) == Lesser(size, BytesAvailable(rx))

ReadArray(size) ==
  /\ pc = "idle"
  /\ want' = Readable(size)
  /\ pc' = IF want' = 0 THEN "idle" ELSE "read"
  /\ UNCHANGED <<budget, port, rx, tx, masked, txeie, device, history, todo, snap, line>>

ReadLine ==
  /\ pc = "idle"
  /\ line' = <<>>
  /\ pc' = "nextOfLine"
  /\ UNCHANGED <<budget, port, rx, tx, masked, txeie, device, history, todo, want, snap>>

EndOfLine == line # <<>> /\ line[Len(line)] = NewLine
LineGoesOn == ~IsEmpty(rx) /\ ~EndOfLine

NextOfLine ==
  /\ pc = "nextOfLine"
  /\ pc' = IF LineGoesOn THEN "readOfLine" ELSE "idle"
  /\ promised' = (promised /\ LineGoesOn)
  /\ UNCHANGED <<budget, port, rx, tx, masked, txeie, device, accepted, delivered, written,
                 processed, todo, want, snap, line>>

ReadChar ==
  /\ pc \in {"read", "readOfLine"}
  /\ Enter(rx, IF pc = "read" THEN "pull" ELSE "pullOfLine")
  /\ UNCHANGED <<budget, port, rx, tx, txeie, device, history, todo, want, line>>

PullAll(next) ==
  /\ rx' = LinePull(WithCounters(rx, snap))
  /\ delivered' = Append(delivered, Read(rx))
  /\ Leave(next)
  /\ UNCHANGED <<budget, port, tx, txeie, device, accepted, written, processed, todo, snap>>

PullOfArray ==
  /\ pc = "pull"
  /\ want' = want - 1
  /\ promised' = FALSE
  /\ PullAll(IF want' = 0 THEN "idle" ELSE "read")
  /\ UNCHANGED line

PullOfLine ==
  /\ pc = "pullOfLine"
  /\ line' = Append(line, Read(rx))
  /\ PullAll("nextOfLine")
  /\ UNCHANGED <<want, promised>>

(* Slip: any byte is taken for a line.                                       *)
HasByte == ~IsEmpty(rx)

HasLine == rx.bufferedLines > 0

CanReadLine ==
  /\ pc = "idle"
  /\ promised' = HasLine
  /\ UNCHANGED <<budget, port, rx, tx, masked, txeie, device, accepted, delivered, written,
                 processed, pc, todo, want, snap, line>>

FlushReceiveBuffers ==
  /\ pc = "idle"
  /\ rx' = LineFlush(rx)
  /\ delivered' = accepted
  /\ promised' = FALSE
  /\ UNCHANGED <<budget, port, tx, masked, txeie, device, accepted, written, processed,
                 pc, todo, want, snap, line>>

(* Slips: TC is read before the fill level; the fill level is not read.      *)
CheckSwapped(n) == IF n = 1 THEN TC \/ ~interrupts ELSE IsEmpty(tx)
CheckFlagOnly(n) == n = 1 \/ TC \/ ~interrupts

(* writeBufferProcessed() reads the fill level, then the TC flag; on linux   *)
(* the fill level alone.                                                     *)
Check(n) == IF n = 1 THEN IsEmpty(tx) ELSE TC \/ ~interrupts

WriteBufferProcessed ==
  /\ pc = "idle"
  /\ pc' = IF Check(1) THEN "testTC" ELSE "idle"
  /\ UNCHANGED <<budget, port, rx, tx, masked, txeie, device, history, todo, want, snap, line>>

TestTC ==
  /\ pc = "testTC"
  /\ processed' = Check(2)
  /\ pc' = "idle"
  /\ UNCHANGED <<budget, port, rx, tx, masked, txeie, device, accepted, delivered, written,
                 promised, todo, want, snap, line>>

-----------------------------------------------------------------------------
Call ==
  \/ \E data \in Texts : Write(data)
  \/ \E size \in 1 .. MaxChunk : ReadArray(size)
  \/ ReadLine \/ CanReadLine \/ FlushReceiveBuffers \/ WriteBufferProcessed
  \/ OpenUart \/ OpenTerminal \/ Close

Continue ==
  \/ CopyToBuffer \/ CopyPush \/ StartTransmit
  \/ NextOfLine \/ ReadChar \/ PullOfArray \/ PullOfLine \/ TestTC

Next ==
  \/ Call \/ Continue
  \/ HandleInterrupt \/ PollTask
  \/ LoadShift \/ ShiftOut
  \/ \E c \in Char : Arrive(c)

Spec == Init /\ [][Next]_vars

(* A call runs to its end, the UART shifts, and a pending interrupt is taken *)
(* once it is unmasked (the NVIC keeps the request, so strong fairness: the  *)
(* application may mask and unmask for ever).  The scheduler polls for ever. *)
FairSpec ==
  /\ Spec
  /\ WF_vars(Continue)
  /\ WF_vars(LoadShift) /\ WF_vars(ShiftOut)
  /\ SF_vars(HandleInterrupt) /\ SF_vars(PollTask)

-----------------------------------------------------------------------------
(* Both buffers keep their ranges and their heads apart by their counters,    *)
(* which two actors load and store.                                           *)
TypeOK ==
  /\ rx \in LineBuffers(Char, ReadSize) /\ HeadsApart(rx)
  /\ tx \in LineBuffers(Char, WriteSize) /\ HeadsApart(tx)
  /\ rdr \in {<<>>} \cup [1 .. 1 -> Char]
  /\ tdr \in {<<>>} \cup [1 .. 1 -> Char]
  /\ shift \in {<<>>} \cup [1 .. 1 -> Char]

(* Every character pushed by the interrupt is handed to the application once, *)
(* in order, whatever the interleaving of read(), readLine() and the ISR.     *)
ReceiveFifo == accepted = delivered \o Contents(rx)

(* Every character write() accepted is sent once and in order: those on the   *)
(* wire, in the UART and in the buffer are all that was written.              *)
TransmitFifo == written = wire \o shift \o tdr \o Contents(tx)

(* The line counters equal the newlines in the buffers although pushes come   *)
(* from one actor and pulls from the other.                                   *)
LinesCounted ==
  /\ rx.bufferedLines = NewLinesIn(Contents(rx))
  /\ tx.bufferedLines = NewLinesIn(Contents(tx))

(* ibufferedserial.h:71, canReadLine() "true if a whole line is in the        *)
(* buffer": the readLine() that follows cannot run out of characters first.   *)
WholeLine == pc = "nextOfLine" /\ promised /\ IsEmpty(rx) => EndOfLine

(* read(data, size) never pulls from an empty buffer and write never pushes   *)
(* into a full one, although each trusts a count taken before its loop.       *)
NoStalePull ==
  /\ pc \in {"read", "pull"} => want <= rx.availableData
  /\ pc \in {"copy", "push"} => Len(todo) <= tx.bufferSize - tx.availableData

(* No lost wake-up: outside of write() a non-empty write buffer of an open    *)
(* port has the transmit interrupt enabled, so it will be drained without a   *)
(* new call.  Not so when open() finds characters left by a close(), or       *)
(* written before the first open(): they wait for the next write().           *)
NoLostWakeup ==
  live /\ interrupts /\ ~IsEmpty(tx) /\ pc \notin {"copy", "push", "startTransmit"}
    => txeie \/ stranded

(* icommdevice.h writeBufferProcessed(): once it has returned true and until  *)
(* the next write, all written data has left the UART (linux: the process).   *)
ProcessedIsSent ==
  processed => written = IF interrupts THEN wire ELSE wire \o shift \o tdr

(* All characters written to an open port leave on the wire in the end,       *)
(* though the application need never call again.                              *)
TransmitDrains == []<>(wire = written \/ ~live \/ stranded)
=============================================================================
