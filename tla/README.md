# Formal verification of Cicada-FW

TLA+ models, TLC runs and machine-checked proofs for the Cicada firmware library (`src/cicada`):
a C++ library of AT-command modem drivers on top of buffered serial ports and a cooperative
scheduler, for small microcontrollers and Linux.

## 1. The system

    application (examples, main loop)
       |  connect() disconnect() read() write() requestRSSI() serialLock() ...
       v
    IPCommDevice > ATCommDevice > SimCommDevice > Sim800 | Sim7x00        BlockingCommDevice
                                > EspressifDevice | CC1352P7               (+ MQTTCountdown)
                                   ^ ModemDetect chooses the driver        RakDevice (LoRaWAN)
       |  run(), called for ever by the Scheduler
       v  _serial.read/write/readLine/canReadLine
    BufferedSerial  ( LineCircularBuffer rx, tx )  >  Stm32Uart | UnixSerial | mbed
       ^  transferToAndFromBuffer(): UART interrupt, or a Task of the Scheduler
       v
    UART, modem, network

### 1.1 Inventory

| Component (source) | State it keeps | Operations | Properties that make it correct |
|---|---|---|---|
| `CircularBuffer`, `LineCircularBuffer` (`circularbuffer.h`, `linecircularbuffer.h`) | slots, two heads, `availableData`, `_bufferedLines` | push, pull, readLine, flush, rewindReadHead | implements a queue; heads and counter agree; line counter = newlines held |
| `BufferedSerial`, `Stm32Uart`, `UnixSerial` | two line buffers, interrupt mask, TXEIE, whether the port is open | open, close, write, read, readLine, canReadLine, flushReceiveBuffers, writeBufferProcessed, interrupt handler or poll task | both directions first-in first-out under every interleaving; no lost transmit interrupt; what was written leaves |
| `Scheduler`, `Task` | current task, delay and last run per task, entry point per class, timeout | runTask, reentry macros, startTimeout | delays kept over the wrap of the tick; no task starved; timeouts neither early nor late |
| `IPCommDevice`, `ATCommDevice`, `SimCommDevice` | flag bits (`CONNECT_PENDING` ... `SERIAL_LOCKED`), `_connectState`, `_waitForReply`, two byte buffers, counters of bytes to send, request and receive | calls of the application; parsing and sending steps used by the drivers | bytes intact; `isIdle`/`isConnected` truthful |
| `Sim800CommDevice` (also `Sim7x00`) | `_sendState` (21 states), `_replyState` (8) | `run()` | payload and command lines never confused; errors recovered from; disconnect completed; close by the peer noticed |
| `EspressifDevice`, `CC1352P7CommDevice` | their own send and reply states | `run()` | the same, with payload that is fetched (TCP) or comes by itself (UDP on Espressif) |
| `RakDevice` (`rakrui3.cpp`) | flags, send and reply state, a ring for what is to be sent, the number of bytes to send again | `run()`, connect, write, read | the bytes of a packet stay until it is confirmed; what the peer hears has no gap though packets are repeated; what is reported as processed was heard |
| `ModemDetect` | state of the detection | `run()`, `getDetectedModem` | a modem is detected whatever the timing of the serial port |
| `BlockingCommDevice`, `MQTTCountdown` | none / end time | blocking read and write with timeout; countdown | timeouts over the wrap of the tick; what was queued and what is returned agree |
| platform glue, examples, unit tests | - | - | - |

Interaction is by direct calls within one thread (application and driver are both run by the
scheduler, or by tasks of an RTOS), by the two line buffers shared with the interrupt, and by
the serial stream shared with the modem. There are no locks, only masked interrupts.

### 1.2 What is hard

* *Interrupts.* `BufferedSerial` takes a count, then works on it in several masked sections;
  the handler pushes, pulls and switches TXEIE off in between.
* *One stream for everything.* Replies, unsolicited lines and payload share the serial port. The
  flag `LINE_READ` decides how the next byte is understood, and commands, payload and requests of
  the application are interleaved by the driver's two state variables.
* *Calls between any two executions of `run()`.* The application connects, disconnects, locks the
  port or asks for the RSSI at any point of a command sequence.
* *Failures.* Refused commands, lost contexts, a modem reset by hardware, a port that does not open,
  packets whose confirmation does not come, waits that time out while the answer is on its way.
* *Numbers.* A tick that wraps, heads that wrap, counters that a caller can push out of range.

`PROJECT.json` lists these as hazards, each at its line.

## 2. The modules

| Module | Models | How state and actions correspond to the code |
|---|---|---|
| `CircularBuffer` | both buffer classes | an object is a record with the members' names; a method is an operator on it. Loops over the elements are closed forms of what the whole loop leaves behind |
| `LineCircularBuffer` | one object and its client | one action per public method. `retained` remembers how many pulled slots are untouched, the only ones the documentation of `rewindReadHead` allows to go back to |
| `FifoBuffer` | the promise of a buffer | abstract specification, a queue; `LineCircularBuffer` implements it under `queue <- Contents(lb)`, `taken <- Taken` |
| `CircularBuffer_proofs`, `Exchange_proofs` and the modules `X_proofs` for `X` one of `LineCircularBuffer`, `BufferedSerial`, `Scheduler`, `BlockingCommDevice`, `RakSystem`, `Modems` | - | lemmas on the operators on buffers, and on what driver and modem say to each other; inductive invariants, theorems and proofs (section 4) |
| `BufferedSerial` | `bufferedserial.cpp` with `stm32uart.cpp` or `unixserial.cpp` | a call is a sequence of steps (`pc`); a step is what is atomic for the interrupt: one access of a shared member, or a masked section. Within a masked section the counters are first loaded (`snap`) and then stored, so that a missing mask would show. `live` says whether characters can pass (UART on, descriptor valid), which after a failed open is not the same as `isOpen`. `HandleInterrupt` is the handler, `PollTask` the Linux task; `interrupts` chooses the platform at the start |
| `MCBufferedSerial` | - | characters, texts and budgets for TLC |
| `Scheduler`, `MCScheduler` | `scheduler.cpp`, `task.h` | `Sample`, `SkipTask`/`Run...`, `NextTask` are the lines of `runTask`; the task's body uses every reentry macro; the entry point is per class, because it is a `static` in the code |
| `IPCommDevice`, `ATCommDevice`, `SimCommDevice` | the base classes | operators on the record `dev` of the driver's members, one per method |
| `ATDriver` | what the four `run()` functions share | one action per stretch of `run()`; a call of `run()` is two steps, `Parses` and `Connects`/`Transfers`, between which UART and modem go on (`step`). Where drivers differ in a state, a command or a reply, it is a parameter. The lines named are those of `sim800.cpp` |
| `SimCommDevice`, `SimDriver`, `CiprecvdataDriver` | what only the two SIMCom drivers, only the two WiFi drivers share | operators on `dev`, and actions |
| `Sim800`, `Sim7x00`, `Espressif`, `CC1352P7` | the four `run()` functions | the rest of each: the sequence of commands, the errors, the reset, the replies; `Run` puts the actions together |
| `ModemSystem` | application, UART, network, and what all modems have in common | the environment of a driver, in a `scenario` chosen at the start, and the properties |
| `SimSystem`, `CiprecvdataSystem`, `Sim800System`, `Sim7x00System`, `EspressifSystem`, `CC1352P7System` | the modems | external: a modem answers each command as its driver expects, or with an error. Application calls come only between two executions of `run()`, bytes arrive between any two steps |
| `ModemDetect` | `modemdetect.cpp` | runs before the driver exists (`detector`), on the same serial buffers: what it leaves in them the driver reads |
| `ExamplePrograms` | `examples/linux/ipcommdevice.cpp`, `eventloop.cpp`, `ntp.cpp`, `autodetectntp.cpp` | one action between two points where the program yields (`pc`) |
| `Modems`, `MCModems` | all of it | instances of the four systems over the same variables; the scenarios for TLC |
| `RakRui3`, `RakSystem`, `MCRakSystem` | `rakrui3.cpp`, `examples/linux/simplesend.cpp`, a LoRaWAN module | `run()` is one action per command or line; the write buffer is the record of `CircularBuffer`, with `RewindReadHead` for a resend. The application writes any number of bytes at any time; `outstanding` is a history variable: the bytes accepted since `writeBufferProcessed()` was last true at a write. When they are more than the ring holds (`Overfilled`) some may have replaced bytes that are still needed. `Transmitted` is what the serial port takes of a packet |
| `BlockingCommDevice` | `blockingcommdev.cpp`, `mqttcountdown.cpp`, `examples/linux/blocking.cpp` | one action per round of the loops (`pc`), `Yield` is a round of the scheduler with one `run()` of some driver, of which the module has what it can do to the two buffers and the state of the connection |

Definitions introduced by a comment `Slip:` are small mistakes that code like this could have. The
runs are tried with each in place of the definition after it, to see that the property can fail.

### Abstractions

* A line of the modem or a command is a token with the text the driver compares and the one number
  it parses; a payload byte is a token with its number. Texts the driver does not look at are left out.
* Free space for a command: the gate `spaceAvailable() > minSpace` of the modem drivers is not modelled,
  because the driver sends only when no reply is awaited, when the modem has taken all earlier bytes.
* In `RakRui3` the serial port has room for each fixed command (`AT+APPKEY`, the longest, has 44 characters) and for the
  first `SerialRoom` bytes of a packet. Of a larger packet any byte behind may be missing, and the end of the line too, depending on
  what the UART has sent meanwhile (`Cut`). The gate of 20 free bytes (`rakrui3.cpp:266`) only delays a step
  until the UART has sent enough, and is left out. The text of a byte is that of an unsigned `char`, as on ARM.
* The size of one `AT+CIPSEND` and of one `AT+CIPRXGET=2` is bounded by `MaxSend` and by the free
  space less `Margin`, standing for the free serial space less the lengths of the command texts.
* In `ModemSystem` the receive buffer does not overflow (the scheduler is assumed to call `run()`
  often enough); that dropped bytes at least stay in order is a property of `BufferedSerial`.
* APN, host, port and the digit checks of an identification are data and left out; so is a `+CDNSGIP: 1`
  whose address does not parse (`parseDnsReply`), since the modem sends a well-formed one.
* Load and store of a 64-bit counter on a 32-bit target are one step each; the DMA and overrun
  corners of the UART (ORE without RXNE) are not modelled. Tick and last run start at 0.
* The WiFi drivers keep a request for the MAC address as the value 0xFF of a `char`; the model takes `char` as
  unsigned, as on ARM. Where it is signed the comparison is never true and the address is never asked for.
* In `BlockingCommDevice` the tick has six values, a countdown any length, and one round of the scheduler takes up
  to `MaxStep` ticks. The MQTT client is external: it sets a countdown and passes what is left of it to each call.

## 3. What is model-checked

| Run | Shows | Bounds, and why they are enough |
|---|---|---|
| `buffer` | the ring implements the queue `FifoBuffer`, rewinds included; heads and counters agree; without a rewind the line counter equals the newlines held | 3 slots, arrays up to 4: every position of the heads, full, empty, wrap in the middle of an array, an array larger than the buffer |
| `serial` | `ReceiveFifo`, `TransmitFifo`, `LinesCounted`, `WholeLine`, `NoStalePull`, `NoLostWakeup`, `ProcessedIsSent`, `TransmitDrains`, on stm32f1 and on Linux | 2 slots each way; 3 characters received and 2 written, or 1 and 2 with a close and any number of openings, failed ones included: a full buffer, a dropped character, a character in each of buffer, transmit register and shift register, every point of a call interrupted, a close with characters in each place |
| `scheduler` | `NeverEarly`, `NotPassedOver`, `TimeoutNotEarly`, `TimeoutNotLate`, `TasksFinish` | two tasks, 9 values of the tick, delays 0 and 2: the tick wraps between sample, delay and timeout in every phase. Unsigned differences depend only on sizes relative to the modulus, and the assumption that timeout, delay and `Round` are together less than `TickModulus` holds by far for 2^32 |
| `modems` | `DownlinkIntact`, `UplinkIntact`, `PayloadNotParsed`, `IdleIsDisconnected`, `ConnectedIsOpen` of all four drivers | scenarios `Traffic`, `Asking`, `Faults`, `Locking`, `Datagrams`, `Undetected`: up to 3 bytes each way in chunks of 1 (several CIPSENDs and fetches), two connections, one error or restart, a request or a lock at any point |
| `modems_live` | `ErrorRecovers`, `DisconnectCompletes`, `DataFetched`, `CloseNoticed`, `SessionEnds` | two errors without a disconnect request; a disconnect or close at any point of a session with a byte each way; an upload by UDP; the four examples with a request of two bytes, from the detection to their end, that of `autodetectntp.cpp` with an error anywhere |
| `rak` | `ResendHasRoom`, `NoGap`, `ProcessedIsHeard`, `ConnectJoins`, `WrittenIsProcessed` | a ring of 3 bytes, packets of 1 or 2 that fit into the serial port, writes of up to 4 bytes at any time, also more than there is space for and over an unconfirmed packet; four bytes with two failures, or five with one, by any application and by that of `simplesend.cpp`: a packet and its repetition wrap in the ring in every position, with a smaller packet the second time. The first three hold until the module is reset, and with an application other than the example until it has overfilled the ring; the liveness also after that |
| `blocking` | `StreamIntact`, `InTime`, `DeadlineKept`, `FullMeansSent`, `CallsReturn` | 6 values of the tick, steps up to 2, buffers and streams of 2: a call in the middle of a wrap, a countdown whose end wraps, a read that times out with half of its data |

A scenario is chosen in the initial state and says which events may happen and how often. It is how one
run covers sessions whose product would be too large. Deadlock is checked in every run but `blocking`,
whose example program ends.

### Fairness

* `BufferedSerial!FairSpec`: a call in progress goes on (weak), the UART shifts (weak), a requested
  interrupt is taken when it is unmasked (strong, since calls mask and unmask for ever while the
  interrupt controller keeps the request), the poll task is run (strong: it is only possible between
  calls, `Scheduler::start` runs it in every round). Nothing obliges the application to call.
* `Scheduler!FairSpec`: `start()` loops for ever and the tick interrupt comes.
* `Modems!FairSpec`: `run()` is called for ever, the UART delivers, and the modem answers (weak). The code
  has no timeout for a reply, so without the last nothing could be promised. An example program is a task
  of the same scheduler: it gets its turn again and again between two calls of `run()`, while what it
  waits for comes and goes with `run()`, hence strong fairness. The server an example talks to answers.
  An application that makes calls in any order is not obliged to make any.
* `RakSystem!FairSpec`: driver, module and example go on, and the network delivers (weak). Failures are bounded.
* `BlockingCommDevice!FairSpec`: a loop goes on, the scheduler returns, and time passes (strong: rounds
  that take no tick may come in between, but not only such).

### Disagreements between code and documentation

Each is a run that violates the one property it checks:

| Run | Property | What happens |
|---|---|---|
| `sim800_csq` | `UplinkIntact` | the RSSI command is sent between the prompt of CIPSEND and the data |
| `sim7x00_http` | `SessionEnds` | after a close by the peer `isConnected()` of the SIM7x00 driver stays true and the loop of the example never ends |
| `cc1352p7_detect` | `ConnectedIsOpen` | the `OK` after the model name reaches the driver, which is then one reply ahead and reports a connection before it exists |
| `espressif_udp` | `DisconnectCompletes` | a datagram comes while a reply is awaited: neither is read any more |
| `rak_refill` | `WrittenReachesPeer` | the application fills the space that the RAK driver offers while a packet is unconfirmed; the packet fails, the ring is wound back over the new bytes, holds more than it has slots for, and a byte is lost while another is sent twice |

Seen while modelling, without a run of their own:

* Two tasks of one class share the static entry point (`task.h:42`): one resumes where the other was suspended.
* After one failed `open()` the SIM drivers stay in `serialError` (`sim800.cpp:53`), though a later `open()` succeeds.
* A `0, CLOSED` that the SIM800 driver reads between CIPSTART and `finalizeConnect` (an RSSI request in between makes
  room for it) is not noticed (`sim800.cpp:163`).
* An error after the CC1352P7 driver has sent data: the loop of `sendData()` leaves `_bytesToWrite` at its largest value, not 0,
  and the reset is never carried out (`cc1352p7.cpp:159`). `ErrorRecovers` is stated with this exception.
* A refused `AT+CIPRXGET=2` stops the SIM7x00 driver: no reply is awaited, so `ERROR` is not looked at (`sim7x00.cpp:92`).
* The reset of the SIM7x00 driver drops a `connect()` that came since the error (`sim7x00.cpp:66`).
* `rewindReadHead` (inherited by `LineCircularBuffer`) does not count the newlines it brings back;
  `push(char)` on a full and `pull()` on an empty buffer count newlines that are not there.
* `readLine` keeps the newline when there is room for it and puts a `'\0'` after it (`bufferedserial.cpp:143-149`);
  `bufferedserial.h:84` says that the newline is not included but replaced.
* `writeBufferProcessed()` of the drivers looks at the driver's own buffer only.
* `parseIDReply` takes any line long enough for the identification; `requestIDString` does not flush
  the receive buffer, as `simcommdevice.h:76` says.
* `mbedserial.cpp` calls `availableData()`, which the buffer does not have.
* `close()` of the UART leaves the write buffer as it is and clears TXEIE; after `open()` the rest waits for
  the next `write()`, and so does what was written before the first `open()`. `NoLostWakeup` and `TransmitDrains`
  are stated with this exception (`stranded`).
* A Linux port that cannot be configured stays open without `_isOpen` (`unixserial.cpp:65`); the poll task transfers
  characters nevertheless, and the next `open()` loses the descriptor.
* `disconnect()` right after `connect()` is dropped (`ipcommdevice.cpp:70`); during a failing CIPSTART it makes
  the SIM800 driver wait for ever (`sim800.cpp:124`). `DisconnectCompletes` is therefore checked without errors.
* `serialLock()` is granted with payload on its way (`simcommdevice.cpp:99`).
* When the peer closes during a fetch the SIM800 driver rests in `ipUnconnected` with the state `intermediate`, which is
  not idle: `eventloop.cpp` does not end. `eventloop.cpp` may also leave with data unread.
* In the CC1352P7 driver a late `OK` passes for the answer to `AT+CIPCLOSE`; after `resetStates()` an `AT+CIPSTART` left
  in the serial buffer is still executed. `IdleIsDisconnected` is stated with both exceptions.
  `istatefuldevice.h:68` says that the buffers are flushed; no driver flushes the serial write buffer.
* RAK: a packet is written to the serial port without a look at what `write()` returns (`rakrui3.cpp:355`): up to 444 characters, and the
  command, behind a gate of 20 free bytes. What does not fit is lost but counts as sent; with `SerialRoom = 1` TLC finds
  `ProcessedIsHeard` violated though no packet fails. The properties are stated for packets that fit.
* RAK: a `disconnect()` is never looked at; `resetStates()` clears neither flags nor buffers nor `_lbFill`; a failed
  join is not noticed; the flags are not initialised; what a line `+EVT:RX` brings is pushed without a look at the space.
* `receive()` (`atcommdevice.cpp:138`) pushes without a look at the room in the read buffer. What is fetched was asked for to fit; a
  datagram of the Espressif driver was not, and a larger one than the room left takes the counter past the size of the
  buffer. In the scenarios `Datagrams` the read buffer holds all that comes.
* `BlockingCommDevice::write` returns 0 though the bytes stay in the buffer and will be sent, and the full length
  though a reset has emptied the buffer.
* `MQTTCountdown::left_ms` subtracts 32-bit values in 64 bits: a countdown is past at once when its end has
  wrapped, and comes to life again when the tick wraps after it, with up to 2^32 ms left. `DeadlineKept` is
  stated up to the wrap.
* Driver and application of the FreeRTOS examples change `_stateBooleans` from preemptive tasks.

## 4. What is proved

A theorem holds for every value of the constants that its module's assumptions allow, not only for those
of a run. `PROJECT.json` lists 30 under `theorems`; below, per module, the assumptions, the inductive
invariant and why its parts are needed. TLC has checked every invariant on the instance of the run first.

**Line buffer** (`LineCircularBuffer_proofs`, lemmas in `CircularBuffer_proofs`), for every buffer size, character
set and chunk length, if the sizes fit the types `Size` and `uint16_t`.
`BufferTypeOK`: `TypeOK` contains `HeadsApart`, which relates the three members the code keeps separately; it is
inductive as it stands, given that the client respects `IsFull`, `IsEmpty` and `retained`.
`LinesAreCounted`: the line counter is only as good as the position of the heads, so the invariant is `TypeOK`
with `LinesCounted`. The lemmas say what each operation does to `Contents`: a push appends, a pull drops a prefix.
The hypothesis `~rewound` is needed: a rewind breaks the equality.
`BufferIsFifo`: every step is one of the queue `FifoBuffer` or leaves it alone. The mapping
needs, besides `TypeOK`, that slots which a rewind may bring back still hold what was pulled from them.

**Serial port** (`BufferedSerial_proofs`), for both platforms, every size of the buffers, every alphabet and text.
The invariant `IInv` adds to the properties of the run: the buffers are well formed and counted; interrupts are masked exactly in the
sections, where the counters that were loaded are still those of the object (`Sectioned`) - without
it the store of a section would undo what the handler did; no loop wants more than the buffer holds or
has room for (`LoopsBounded`), which holds over an interrupt because the handler only adds to the one buffer and only takes
from the other; what `writeBufferProcessed()` found empty stays empty while it looks at TC (`NothingLeft`), since it
looks at the buffer first; the line that `canReadLine()` promised is still there (`PromiseKept`).
All eight invariants of the run follow: `SerialTypeOK`, `ReceivedInOrder`, `SentInOrder`, `SerialLinesCounted`,
`PromisedLineIsWhole`, `CountsStayGood`, `WakeupsKept`, `ProcessedHasLeft`.

**Scheduler** (`Scheduler_proofs`), for every list of tasks and every width of the tick, if a timeout, a delay and the
time of one round of the list are together less than the period of the tick. Each comparison of the code is a difference modulo
`TickModulus`. `Clocked` says that it is the number of ticks that really went by; for that no age of a task may
reach the modulus, and `InRound` bounds it: its delay, and `MaxLag` for every call of `runTask` since it was due.
`DueTasksRun`, `DelaysKept` and `SchedulerTypeOK` follow. For the timeouts the invariant `Timed` relates the start
that a condition remembers to the time it has waited. `WaitsEndInTime` and `TimeoutsKept` assume `OneTaskPerClass`:
the entry point is `static` in the code, so with two tasks of one class both would be false.

**Blocking calls** (`BlockingCommDevice_proofs`), for every width of the tick, every timeout and size of the buffers.
`InCallTime` says when the unsigned difference that the loop looks at is the time the call has taken, and that this is bounded by
timeout and one round; `CountingDown` and `Deadline` the same for the countdown, up to its wrap. `StreamKept` and
`Accounted` say where each byte is while a call is in progress. All four invariants of the run and the action property
`FullMeansSent` follow.

**RAK** (`RakSystem_proofs`), for every size of the ring that its type can hold, every length of the message and both applications, if
every packet size of the table fits into the serial buffer (`PacketsFit`, assumed by each theorem). The
invariant holds as long as the module is not reset and the ring is not `Overfilled`: not for an application that fills the offered space in
any state (`rak_refill`), but for every one that has not written more than the ring holds since `writeBufferProcessed()` was last true;
writes may be larger than the space, and accepted in part. `Buffered`
counts the slots of the ring back from the write head: `up`, `up - 1`, ..., also those that have been pulled for the packet under way, so
that a rewind finds its bytes. What is to be sent and what is to be confirmed are together no more than `outstanding`, which a
write raises by what it accepts and sets back only when both are nothing: so they never exceed the ring, though the driver
itself does not look at the second. `OnePlace`: the packet is a command on its way to the module, or in the air, or its outcome is among the
lines to be read, never two of these - otherwise one failure would wind the ring back twice. `SamePacket`: what is on its way are the bytes
after the confirmed ones. `Arrived`: the confirmed bytes have been heard, and nothing that was not written; once a
success is on its way, the packet under way has been heard too. `PacketsInOrder`, `ProcessedHasArrived` and `ResendFits` follow.
The example meets the restriction on writes whatever the sizes (`ExampleFits`), since it waits for `writeBufferProcessed()` and, by
`Keeps`, has written nothing before it is connected; for it the other three hold until a reset without any condition on writes.

**WiFi drivers** (`Modems_proofs`, lemmas in `Exchange_proofs`), for every size of the buffers, every `Margin` and `MaxSend`, and
any number of bytes, refused commands and requests, in the behaviours of `Covered`: the Espressif driver on TCP or the CC1352P7
driver, with calls in any order. Not covered are a second `connect()`, since the bytes that a first connection did not deliver are
missing in the second, and an application that both writes and asks for the signal or the MAC address, since a request may go out where
the modem expects data (as in `sim800_csq`): in both cases the properties are false. Nor are datagrams of the Espressif driver,
whose payload comes unasked, and the examples, which the run checks. Its scenarios `Traffic` and `Asking` are covered ones.
The invariant `IInv` holds until payload is given up. `Exchange` says what is on its way between driver and modem; the driver
and the modem are in one of nine phases: `Resting`, `Asking` (a command is in the serial port), `Replied` and `Prompting` (an answer
comes), `Sending` (bytes for a prompt), `Refused` and `Fetched` (the answer to a request for payload), `Receiving` (its header is
parsed) and `Dropping` (bytes for a refused CIPSEND). Notices of the modem may stand between two tokens of each, but within a payload.
So an `OK` is the answer to what was asked, and the counter `_bytesToRead` is the number of payload tokens that come next (`Payload`).
`Down` and `Up` say where each byte is, and that all are numbered in order: read by the application, in the
driver, in the payload of the phase, in the modem; got by the peer, in the serial port, in the driver. `Life` relates the state of the
driver to the connection: in the states `connected` to `receiving` the modem has opened one, and `finalizeConnect` is passed
only if `AT+CIPSTART` was not refused. `Resets` says when a noted error is carried out: at once, but never once the CC1352P7
driver has had bytes to send (`NeverResets`), which is why its commands are listed apart in `Commands`. What `disconnect()`,
`resetStates()` or a lost context give up is beyond the properties, and the invariant (`discarded`). Each step of the instances of
`EspressifSystem` and `CC1352P7System` is shown to be one of the shared `ATDriver` and `ModemSystem`, or treated by itself.
`DownlinkIntact`, `UplinkIntact`, `PayloadNotParsed` and `ConnectedIsOpen` follow (`WifiDownlink`, `WifiUplink`,
`WifiPayloadNotParsed`, `WifiConnectedIsOpen`).

### Only model-checked

* The types of `RakSystem` after a reset of the module, or in an overfilled ring: before, they are part of the invariant (`Typed`), but
  a reset leaves lines of the old session in the serial buffers, where they count as replies of the new one, and an overfilled
  ring counts more than it holds. There the run shows the liveness only.
* The same four properties for the SIM drivers, and for the behaviours of the WiFi drivers that are not `Covered`.
* `IdleIsDisconnected` of `ModemSystem`: it speaks also of what follows after payload was given up, where the invariant says nothing.
* `TypeOK` of `Modems`: the types are part of the invariant of the WiFi drivers, the bounds of the buffers are not.
* All liveness (`TransmitDrains`, `TasksFinish`, `SessionEnds`, ...): the prover does not reason about fairness.

## 5. Not modelled, and the plan

Not modelled: platform glue (`mbed`, tick and irq stubs, `setSerialConfig`), unit tests, examples that only blink or
print, and those that repeat for stm32f1 what a modelled one does for Linux. Torn reads and writes of the driver's flags
under an RTOS, where driver and application are preemptive tasks (`examples/stm32f1/*freertos*`), are left out:
the modelled application is run by the scheduler. The modem never stays silent: a lost reply stops every driver
for good, as the gate `if (_waitForReply || _replyState != okReply) return;` shows without a model.

What is left of the plan are proofs about the SIM drivers, whose modems announce payload in a different way (`AT+CIPRXGET`) but share
the phases of the exchange, then the bounds of `TypeOK`, which need that what is asked for fits into the read buffer until it is there,
and `IdleIsDisconnected` with what a reset or a disconnect leaves in the serial port.
