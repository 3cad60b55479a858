# A TLA+ verification of ScpiForARM

ScpiForARM is firmware for an STM32 instrument: a SCPI command parser, a USB
test and measurement (USBTMC) device layer and lwIP glue, on top of vendor
libraries. This directory holds TLA+ models of its own logic, the TLC
configurations that check them, and TLAPS proofs of the most important
properties. Paths below are relative to `src/`.

## 1. Inventory

The program runs on bare metal: one main loop, preempted by the USB, SysTick,
Ethernet and UART interrupts. There are no threads and no locks; the only
critical section is in `tmcGetDat`.

| part | state | operations | interacts with |
|---|---|---|---|
| FIFO, `Utilities/Scpi/Src/fifo.c` | `wr`, `rd`, `size`, `data[]` | init, clear, add, remove, count | is the error queue of `error.c` |
| status registers, `ieee488.c` | eight 16-bit registers in the context | `SCPI_RegSet` (recursive), the `*` commands | calls `interface->control` (service request) |
| error queue, `error.c` | the FIFO, `cmd_error` | push, pop, count, clear | writes ESR and STB, calls `interface->error` |
| required commands, `minimal.c` | - | `SYST:ERR?`, `STAT:QUES...`, `STAT:PRES` | the two above |
| input and execution, `parser.c` | `buffer`, `parser_state`, `output_count` | `SCPI_Input`, `SCPI_Parse`, `processCommand`, results, parameters | lexer, utils, the command table |
| lexer, `lexer.c` | a position in the text | one function per token | parser, expressions |
| utilities, `utils.c` | - | header patterns, header composition in the input buffer, number conversion | parser |
| expressions `expression.c`, units `units.c` | - | numeric and channel lists, units | parameters |
| device definition, `Src/Src/scpi-def.c` | a small matrix, the context | command table and callbacks | parser |
| USBTMC layer, `Utilities/Usb/Src/usb_endp.c`, `usb_tmc.c` | `gTmcLayerInfo`, `gTxFinished`, two buffers, packet memory | bulk-out and bulk-in callbacks, reset (interrupt); `tmcGetDat`, `tmcSendDat` (main loop) | host, application, timers |
| class requests, `usb_prop.c` | reply buffer | abort, clear, status, capabilities | the layer's `rxState` |
| USB core, `usb_core.c`, `usb_int.c`, `usb_istr.c`, `usb_pwr.c`, `hw_config.c` | control endpoint state, `Ctrl_Info`, configuration, device and resume state | control transfers, interrupt dispatch, suspend and resume | class requests, host |
| heap, `Utilities/lwip-1.3.1/src/core/mem.c` | a list of blocks in an array, `lfree` | `mem_malloc`, `mem_free`, `mem_realloc` | the network stack, from two interrupts |
| delays, `Src/Src/bsp.c` | TIM2 and TIM3, a `tagCounter` | `WaitUs`, `WaitMs`, `StartCounter`, `CounterArrived` | `tmcSendDat` |
| network glue, `Src/Src/netconf.c` | a socket, timers | accept, receive, periodic and packet handlers (interrupts) | lwIP, command buffer |
| flash, CRC, console, main loop, `Src/Src/*.c` | flash pages; line buffer | read-modify-write, checksum, line editing | - |
| vendored: lwIP 1.3.1 but for its heap, CMSIS, ST drivers, demonstration servers, `snprintf.c` | - | - | not modelled |

What is hard here, and what makes each part right:

* **derived state.** STB, its summary bits and SRQ are rewritten by nested
  calls in the order commands happen to write registers; the host is told only
  of changes. Right: STB always agrees with what it summarises, and host and
  device were last told the truth.
* **in-place text processing.** Lines arrive torn into chunks, are executed out
  of the buffer they arrived in, and relative headers are composed over text
  already executed. Right: every line is executed once, whole and as received,
  and every call returns.
* **interrupt against main loop.** The bulk-out interrupt replaces headers,
  flags and data while the application polls and copies; the bulk-in interrupt
  and resets race the clearing of `gTxFinished`. Right: messages whole,
  responses in order, no lost wake-up, no store outside the buffers.
* **text read twice.** The data of a unit is measured when the unit is detected
  and read again, parameter by parameter, by the command; patterns are matched
  in one pass without backtracking; tokens are cut by one character of
  lookahead. Right: what is detected, matched and read is what the grammar and
  the pattern say, and the two readings agree.
* **transfers that do not end.** A host gives up a control transfer, resets or
  suspends the bus at any point, and the state of the old transfer stays. Right:
  every finished transfer has its own answer, and none hangs.
* **a shared heap.** Blocks are split and merged in place. Right: the list is
  whole, nothing is handed out twice, and nothing free is out of reach.
* **wrapping numbers.** Ring indices, unsigned packet counts and a 16-bit timer
  read as 32 bits. Right: queue order, buffer bounds, delays not too short.

`PROJECT.json` lists the hazards one by one with their lines.

## 2. Modules and how they correspond to the code

**BoundedQueue** is what a drop-oldest queue promises: `queue`, `removed` and
the call that was made. **Fifo** is `fifo.c`: `wr`, `rd` and `data` are the
fields of `scpi_fifo_t`, one action per function. The array length (`Declared`)
is a constant apart from `size`, because `fifo_init` makes them equal while the
ring needs one slot more; the cell behind the array (`Cell` has `Declared + 1`
of them) belongs to some other object, which `ForeignStore` lets change at any
time. It is outside the ring exactly when `Declared > Size`. Refinement mapping:
`Contents`, the slots from `rd` to `wr` in ring order.

**ScpiContext** gives the status part of a `scpi_t` as a record, and
`SCPI_RegSet`, `SCPI_ErrorPush` and the others as operators from context to
context. A register is the set of its 1 bits. The recursion of `SCPI_RegSet` is
at most three deep (enable register, event register, STB), so it is written as
`SetEnable`, `SetEvent`, `SetSTB`, without recursion. `srqTold` and `errTold`
record the last calls of `interface->control` and `interface->error`.
**Status** has one action per command and per call the device makes;
`processCommand`'s `cmd_error` handling wraps each command (`Begun`,
`Finished`). Commands run in the main loop only, so a command is one step. The
error queue is the abstract queue, justified by the refinement of Fifo.

**ScpiInput** is `SCPI_Input` and `SCPI_Parse` with one action per turn of their
loops, over an alphabet that keeps what the lexer tells apart: `*` `:` `;`, line
ending, white space with a digit, an invalid character, letters. `buf` is the
buffer itself, written by `composeCompoundCommand`; `prev` is an offset and a
length into it, as `cmd_prev` is a pointer and a length. The lexer's header
functions accept incomplete headers, so what they skip is described as a
prefix-closed set (`IsHeader`) and the longest member is taken. A command's
callback is one of four kinds (`Kind`). `given` and `taken` are history: the
text the call started with and how much of it has been removed; `turn` changes
with every step inside a call. The buffer's length is chosen in the initial
state, so that one run has a small buffer for torn texts and a large one for
whole lines.

**ScpiLexer** has the data tokens of `lexer.c` and `parser.c`'s
`parseProgramData` and `parseAllProgramData` as pure operators from a text and a
position to a token with its new position. A character stands for its kind.
`skipQuoteProgramData` has a third outcome, `NEVER`: its loop does not advance
over a character outside 7 bits.

**ScpiCommand** follows one unit from its detection to its result: the turns of
`matchCommand`'s loop over a pattern and a header (sequences of words and
separators; long, short and upper-case forms are left to the constant `Forms`),
the call, the parameters it reads one by one with `SCPI_Parameter` and a reader
of some kind, and the errors `processCommand` adds when it returns. The values
of numbers, and their scaling by a unit, are left out. The lists of
`expression.c` are operators on the text of a parameter. A unit is one initial
state, so that TLC goes through all of them. Loops over a text are recursive
functions over its positions. Some characters have names (`Eos`, `Comma`,
`Space`, `Quote`), which is what the proofs know them by.

**UsbTmc** is `usb_endp.c` with `tmcCmdAnalize`, `INITIATE_ABORT_BULK_OUT` and
`INITIATE_CLEAR`. Interrupt handlers are single steps; `tmcGetDat` is a single
step because it disables interrupts; polling and `tmcSendDat` are cut at every
point where an interrupt can matter (poll, wait, prepare, make valid). Counters
are modulo `M` (2^32 in the code). `xfer` (what the host is sending), `owed`
(the message written and not yet taken), `read` (how much of a response the
host has) and the host are external. A packet in the packet memory (`pma`)
carries what the host can tell apart: whether it has a header, the tag in it,
and which bytes of the response it holds. The application is external too, as no
caller of the layer is in the repository: it follows the order the accessors
suggest (poll, clear the flag, get). `First` is `MAXHRADERDATASIZE`.

**UsbControl** is the control endpoint: `ControlState`, `info` and `packetSize`
(`Ctrl_Info`), `mul` and `dev` are the variables of `usb_core.c`, `resume` that
of `usb_pwr.c`. `Usb_rLength` and `Usb_rOffset` are other names of `Usb_wLength`
and `Usb_wOffset` (`usb_core.h:198-199`), so the data of a request made in the
direction OUT is stored into what the copy routine of the request points to
(`PMAToUserBufferCopy`): `Current_Configuration`, and `ram`, which has
`Current_AlternateSetting` and the serial number string. `StatusInfo` is made
anew before each use, and a store to the descriptors in flash memory, or to
address 0, is taken to change nothing. (The copy stores half-words, so the byte
behind `Current_Configuration` or `Current_AlternateSetting` is written too;
nothing reads it.) A bus reset keeps the transactions that wait to be served:
`TMC_Reset` does not touch the CTR bits, and the interrupt serves them behind
the reset (`usb_istr.c:70-79`, then `:168-172`). Whether a SETUP is still marked
as one then is left open. Serving a transaction takes two steps, `CTR_LP` (the
statuses are saved and set to NAK) and `Setup0_Process`, `In0_Process` or
`Out0_Process` with `Post0_Process`, so that the host can come in between. A
packet is what it was copied from (`Source`) and which bytes. The registers
behave as the reference manual says and as `usb_int.c` relies on. The host is
external: it begins requests, reads, writes, is stalled, gives up, resets and
suspends; it keeps for everything it has set the values it may have, since a
request given up may or may not have been performed.

**Heap** is `mem.c` as configured here (`MEM_USE_POOLS` 0, `NO_SYS` 1, 16-bit
sizes). `heap` maps the offset of every `struct mem` to its fields; `alloc`
holds what the owners asked for. `mem_malloc` is cut between finding a block
and taking it; `calls` is the stack of calls cut there, at most `Levels` of
them, as an interrupt runs to its end before the one it interrupted goes on. A
call takes the block it has found without looking again. If the block is no
longer free, or too small (`~Takeable`), that is a race, `MallocRaces`: `raced`
records it, and what it makes of the heap is not followed. The other operations
are not cut.
Requests of 0 bytes, requests that find nothing and calls that free NULL change
nothing.

**Timers** has the delays of `bsp.c`: the timer ticks on its own, a reading
subtracts the difference to the last one, with the two different wrap-around
corrections of `WaitMs`/`WaitUs` (`MAXUINT16`) and `CounterArrived`
(`MAXUINT32`) and the conversions between `INT32` and `UINT32`. `elapsed`,
`gap` and `wraps` are history.

**MCStatus**, **MCScpiInput**, **MCScpiCommand** and **MCUsbControl** hold
values for constants, and MCStatus a view. Definitions whose comment starts "Bug
form" are mutated versions used to show that a property can fail; no
specification uses them.

## 3. Runs

| run | checks | states | bounds, and why they are enough |
|---|---|---|---|
| `fifo` | refinement of BoundedQueue | 13 851 | ring of 3 in an array of 4, with the cell behind the array changing: every wrap position with overflow; proved for all sizes |
| `status` | STB, host, device, `*CLS`, no event or error lost | 25 300 | a queue of 2 (empty, partly full, full), a positive device error and the errors of commands, three event registers with one bit of each kind and their masks, SRE without bits, with ESR and with the others. The view leaves out the last answer, `cmd_error`, which no command reads before it sets it, and what the host was told while no service is requested; the properties over two states read the answer in the second state only |
| `input` | buffer bounds, whole lines, waiting lines, execution in place, headers, response, every call returns | 220 000 | a buffer of 6 with ten chunks (overrun, several lines per call, torn units), a buffer of 32 with 1 000 lines of three units, relative and absolute, known and unknown, invalid and empty, with and without a second line |
| `command` | matching, numbers, tokens, parameters, lists, every unit ends | 198 000 | all patterns of up to three words and all headers of up to three; all texts of up to 4 to 7 characters over the characters of each kind of data |
| `tmc_any_host` | receive bounds | 120 000 | packets of 3, header of 2, buffer of 6; transfers that fit and that overflow; wrong tags, aborts, resets |
| `tmc_talk` | messages, responses, wake-ups | 142 000 | messages of 1 to 3 packets with every kind of last packet, responses of up to three packets, aborts |
| `usb_control` | answers, address, configuration, every transfer ends | 345 000 | a request of each kind the core treats differently, two of them in the direction OUT though they ask for data; one transfer given up or one reset (`GiveUps`), which leaves every state of a transfer behind |
| `heap` | list, room, lost memory, double hand-out | 1 031 000 | 92 bytes: up to four blocks, sizes that split a block and that do not, more than the heap, and 14, which is rounded; two interrupt levels, so that every operation comes between a search and its end; a behaviour ends at its first race (`NoRace`) |
| `timers_wait` | delays | 42 500 | a timer of 8 ticks, delays up to two turns, readings at any distance below a turn |

Three runs are expected to fail and document disagreements between the code and
its own comments or declarations: `fifo_array`, `tmc_race` and `timers_counter`
(section 5). `CommandSpace.cfg`, `UsbString.cfg`, `UsbStore.cfg`, `UsbReset.cfg`
and `HeapRace.cfg` show five more and belong to no run; they are described there
too.

Named bounds: `Capacity` (16 in the code), `Lengths` (input buffers), `Pkg` 64,
`Hdr` 12, `Buf` 1024, `M` 2^32, `W` 2^16, `H` 2^31; `TxMax` bounds the bytes
answered between two writes, `MaxTicks` the ticks of a delay, `MaxGap` the ticks
between two readings of the timer (less than a turn, 65 s for TIM3 and 65 ms
for TIM2: longer interrupts would lose a turn, which nothing in the code can
notice); `MaxLen` the texts compared with the grammar of numbers; `MemSize` the
heap (20 Kbyte).

One constant is an assumption about the surroundings and not a bound. `Paced`:
the host starts a control transfer, or resets the bus, when the transaction
before has been served. Hosts wait for the end of a transfer before the next
one, and a reset lasts 10 ms or more, while the interrupt needs some
microseconds; but a host whose cable is pulled need not wait. The passing run
has `Paced = TRUE`; section 5 says what happens otherwise. `Levels`, the number
of interrupt levels that use the heap, is 2 as in the firmware.

Deadlock checking is off in `tmc_talk`, where the host may have nothing more to
send within `TxMax`, and in `command`, where a unit is done at its end.

### Fairness

* `ScpiInput`: weak fairness of the steps inside a call, written as `CallsGoOn`
  without ENABLED, because such a step is enabled exactly inside a call. They
  run in the main loop and nothing in them waits. New calls need not come.
* `ScpiCommand`: weak fairness of Next, written as `GoesOn` in the same way: the
  loops go on and a command returns. Where the lexer does not return (`NEVER`)
  there is no step.
* `UsbControl`: pending interrupts are served; a host goes on with a transfer it
  does not give up, and wakes up a device it has suspended. None for new
  requests, resets or suspensions.
* `UsbTmc`: weak fairness of the application's and of `tmcSendDat`'s own steps
  (main loop) and of `EP2_IN_Callback` (the host goes on reading what it is
  sent). None for host writes, resets, aborts, and none for the time-out, which
  `timers_counter` shows may never come: `SendReturns` says that `tmcSendDat`
  does not need it while the host reads.
* `Timers`: hardware ticks, and a loop that was entered goes on.

## 4. Proofs

All for arbitrary constants under the named ASSUMEs; a theorem that needs more
says so in its hypotheses, and the runs have values that meet them.

* **FifoProofs**. `FifoTypeOK`: the indices stay in the ring. From it
  `FifoIsBoundedQueue`: every step is a step or a stutter of BoundedQueue, in
  the array of the firmware, which has `size` elements, and in any larger one,
  if the object behind the array is not written to while an element of the queue
  lies there (`OwnerKeepsOff`). That is the one way in which the store outside
  the array (`fifo_array`) can spoil the queue itself; what it does to that
  object is another matter. `FifoInLargerArray`: with more elements than `size`,
  as in `test_fifo.c`, the condition is always met. The lemmas describe a
  stretch of the ring as a sequence: `RingAppend` (storing behind it appends),
  `RingTail` (moving `rd` takes the head off), `RingAgree` (what lies outside it
  does not matter), `CountInRange` (`wr` lies `Count` slots ahead of `rd`).
* **StatusProofs**. The invariant is `Good(context)`: the context is well typed,
  every summary bit is right, SRQ is right, QMA is right, host and device have
  been told. It has to be one invariant: an error pushed changes ESR, STB and the
  queue together, and whether the host has been told depends on the SRQ that was
  stored before. One lemma per operator (`GoodSetEvent`, `GoodSetEnable`,
  `GoodErrorPush`, ...) carries it through a command; in the middle of
  `SetEnable` one summary bit is wrong, which is why `SetEventFacts` assumes the
  others only. Results: `StatusByteIsTrue`, `HostIsTold`, `DeviceIsTold`, and
  `ClsIsComplete` (what `*CLS` would do in every reachable state). For the two
  action properties, `NoEventIsLost` and `ErrorsStayInOrder`, one more lemma per
  operator says what it takes out of ESR and of the queue.
* **ScpiInputProofs**. `InputInv` joins the bounds of `position`, `totcmdlen` and
  `cmd_prev` (`InBuffer`), the buffer compared character by character with what
  was received (`Rest`), the line handed to `SCPI_Parse` (`LineIsWhole`), what
  the scan for a terminator has already excluded (`Scanned`), what may wait
  between calls (`Waiting`) and the parity of the response (`Apart`). They need
  each other: the line is whole because the scan stopped at the first line
  ending, which needs the characters scanned to be the received ones, which needs
  the composition of a header in place to stay in front of `totcmdlen`. The
  lengths of tokens are CHOOSEn as the longest prefix with a property;
  `FirstOutside` and `LastInside` show from the well-founded order of the
  naturals that there is one, and `HeaderFacts`, `DataFacts`, `UnitFacts`,
  `PathFacts`, `MoveFacts` and `ComposeFacts` say what the operators of the model
  return. Results: `InputStaysInBuffer`, `InputRestUntouched`,
  `InputLineIsWhole`, `InputOnlyEmptyUnitsWait`, `InputResultsApart`, for every
  buffer length, every command table and every way to cut a text into calls.
  `InputComposedInPlace` adds `Followed`: a reader that keeps copies of the text
  (`Read`, a function over the line's prefixes) has, wherever `SCPI_Parse` stands
  in a line without rejected units, the headers executed so far and the path
  `cmd_prev` points to, though the latter lies in a buffer that is written over.
  `ChunksAssumption` says that texts are sequences of characters.
  `OnlyEmptyUnitsWait` says where units start by the smallest set that has the
  start of the text and, with a start, the place behind the unit there; its proof
  rests on `Scanned`, which says that the scan stands at such a place.
* **ScpiCommandProofs**. The texts are arbitrary sequences of characters
  (`UnitsAssumption`) and the buffer of `SCPI_ParamCopyText` has at least one
  byte (`BufLenAssumption`); `MaxLen` is any number (`MaxLenAssumption`). The
  library's induction theorems cannot be instantiated here, so `UpInduction` and
  `DownInduction` state induction over the positions of a text with a set for
  the predicate, from the well-founded order of the naturals, and `UpRecursion`
  and `DownRecursion` that the recursive functions of the model exist and
  satisfy their equations. With them every token of ScpiLexer has a lemma that
  says where it ends. `CommandInside` is the first result: detection and
  `SCPI_Parameter` stay inside the text, for every text. `CommandStringsEnd` and
  `CommandTextIsCopied` say of every text what the run says of the texts of up
  to eight characters. `CommandDetectedIsRead` compares the two readings of the
  data. For data of which nothing is lost, one half is about cutting: a token
  that is read inside the text is read the same, or up to the cut, when white
  space behind it is cut off (the lemmas `Cut...`, one per token, joined in
  `ReadSame`); it needs `NothingIsLost`, since a block counts the characters it
  takes and may end in white space. The other half is about what detection
  found: a chain of parameters from a position to the end of the text
  (`ChainAt`), of which each reading takes the first (`ChainTurn`). The
  invariant `ReadInv` says that the command stands in front of the first
  parameter, at the comma in front of the next one of the chain, or behind the
  last (`Ready`), and that in a text of numbers and mnemonics each parameter it
  got is one of the parts between the commas (`EachPart`). For text that has
  lost something, or whose count is -1, `MeasuredInv` says the same of the text
  that is left: the command stands behind a part of it or at its end
  (`Standing`). `CommandNumbersAreLongest` compares the lexer with the grammar
  of numbers, which is given as sets of texts. `CatSplit`, `CatJoin` and
  `PlusAt` turn them into statements about positions: from here to there the
  text is one of the set. Then there are two facts for mantissa and exponent
  each: no text of the grammar is longer than what the code takes
  (`MantissaLongest`, `ExponentLongest`), and what it takes is a text of the
  grammar (`MantissaTaken`, `ExponentTaken`). They join because no digit and no
  point can start an exponent, so that a shorter mantissa never lets a longer
  number begin. A suffix of the grammar is taken name by name (`UnitTaken`,
  `MoreUnitsTaken`). The texts are made of the digit 1, the letter E, signs,
  points, slashes and spaces, as in the run, and are of any length.
* **UsbTmcProofs**. `RxInv` joins the type of the receiving side, `RxInBuffer`
  and `FinishedIsIdle`: the arithmetic is modulo `M`, and the argument is that
  `(Hdr + rxCount) % M` is where the next store begins, whatever wrapped; the
  overflow test is made with the same sum. `TxInv` joins `tx`'s progress with
  "no packet and not about to make one valid implies `gTxFinished`". Results:
  `ReceiveInBuffer`, `FinishedOnlyIdle`, `WakeupIsNotLost`, all for any host.
  `ResponsesInOrder` and `MessagesAreWhole` are about a conversation and have the
  hypothesis `Orderly`: the host waits for what it asked for, sends nothing
  malformed, there is no bus reset, and every message is smaller than the
  buffer. That is what `tmc_talk` assumes too; without the first part
  `MessagesAreWhole` is false, as the run `tmc_race` shows, and without the third
  item 14 of section 5 applies. Aborts and time-outs of `tmcSendDat` are
  included. The invariant `TalkInv` has two halves: `Receiving` says which bytes
  of the transfer are in the buffer in each state of `rxState`, `Sending` where
  in the response the packet in the packet memory, the loop of `tmcSendDat` and
  the host are.
* **UsbControlProofs**. `ConfigurationIsKnown` holds for every host that writes
  no data with `GET_CONFIGURATION` (`ConfigurationIsRead`; `UsbStore.cfg` shows
  why), resets that overtake a transaction included. Another way to lose it
  would be a `SET_ADDRESS` that ends in a configured device, so `KnownInv` adds
  that an address that waits for its status stage waits in a device without
  configuration (`AddressWaits`). `AddressIsAgreed` has the hypothesis `Paced`,
  without which it is false (`UsbReset.cfg`). `AddressInv` says which status of
  endpoint, `ControlState` and stage of the host can meet (`Stages`,
  `OneAtATime`), that device and host mean the same request (`SameRequest`), and
  at which stage the two addresses may differ (`Meaning`, `Agreement`); each
  step of the device is two actions, the interrupt's start and its end, and the
  host or a bus reset may come in between. `AnswersAreRight` has two hypotheses
  more. `WellMade`: requests are those of the USB standard and of USBTMC, in any
  state of the device and with any length, unknown ones, or requests for data
  made in the direction OUT; left out are strings there are not (item 5 of
  section 5) and data of the host that would be stored into what later answers
  tell (item 6). And a packet of the device holds the largest answer, 32 bytes
  (255 in the code). `AnswerInv` names the seven places a transfer can be in
  (`Asked`, `Stalled`, `DataReady`, `DataRead`, `DataWanted`, `DataWritten`,
  `StatusReady`), each with the statuses of the endpoint and the data in the
  packet memory, and `Knows`: what the device has is among what the host
  believes, but for a request that was performed and whose status has not been
  read. `Knows` is what a transfer given up would break. `Unstored` says that
  `ram` is as it was at the start.
* **HeapProofs**. For any number of levels, until the first race (`raced`, which
  `HeapRace.cfg` shows to happen with two). The invariant says that the structs
  form one doubly linked list from 0 to the end (`Listed`), that no two
  neighbours are free (`Holeless`), that no free struct lies below `lfree`
  (`Lowest`), that the used ones are exactly the ones with an owner and are big
  enough (`Owned`), and that a call wants what it asked for (`CallsInv`). It
  does not say that a block once found stays free, which is false: a call that
  takes its block does so only if it is `Takeable`, and `OnlyOneLost` shows of
  each operation which block it can cost an interrupted call. `Holeless` is
  needed for the others: `plug_holes` looks one block to either side only. One
  lemma each for splitting, merging, shrinking and taking a block. Results:
  `HeapWellFormed`, `HeapEnoughRoom`, `HeapNoFalseNull`, `HeapHandsOutOnce`.
* **TimersProofs**. `TInv`: the timer is `gap` ticks past the last reading
  modulo `W`; in a wait the time left is exactly `asked - (elapsed - gap) +
  wraps`; for a counter it is at least that without the wraps. Results:
  `DelaysAreRight`, `CountersAreNotEarly`. `TimerAssumption` keeps delay plus
  bound below 2^31.

TLC checked the inductive invariants of the other modules as invariants of their
runs before they were proved; those of ScpiCommandProofs quantify over all
characters and functions, and of them TLC checked the property itself.

What came out of the proofs:

* Five CASEs of UsbControl had guards that overlapped, so that TLA+ left open
  which one applies (TLC takes the first); they now exclude each other, and TLC
  finds the same states as before.
* The two repairs of `lfree` in `plug_holes` (`mem.c:239-241`, `:250-252`) never
  have anything to do: `mem_free` has just made sure that `lfree` is not above
  the freed block, and `Lowest` that it is not above the free block in front of
  it, so it never points to the one that disappears.
* `DetectedIsRead` was first stated for every text of which only white space is
  cut off, and is false then: the block in the data `1 ,#11` with a space behind
  it ends in that space, so that the cut is inside the block and the command is
  told INVALID_STRING_DATA. The run's texts had no such block; they have now, and
  `NothingIsLost` leaves them out. What is read of texts that lose something is
  now a part of the property of its own.

Only model-checked:

* the liveness properties (`InputReturns`, `UnitEnds`, `SendReturns`,
  `MessageIsTaken`, `WaitEnds`, `TransferEnds`), which are outside the prover;
* `MatchIsRight` and `NumbersAreRight`, which hold for patterns without a word
  that occurs twice, or two words with a form in common, and whose reference
  definition goes through all choices of optional words: it is built from
  library operators (`FlattenSeq`, `SetToSortSeq`, `SelectSeq`) about which the
  provers know nothing;
* `ListsAreRead`, which says what a reader gets that asks for entries until the
  first that is not `SCPI_EXPR_OK`, and is about numbers made of digits only: a
  list of other numbers is well-formed and not what its definition calls so, so
  that it is true of the texts of the run and not of all.

## 5. What was found

Shown by a run, against a comment or declaration of the repository:

1. `fifo_array`: `fifo_init` uses `size = FIFO_SIZE` for a ring that needs
   `FIFO_SIZE + 1` slots: the store at index 16 is outside the array
   (`fifo.c:35`, `fifo_private.h:54`).
2. `tmc_race`: a read request between poll and `tmcGetDat` changes the size of
   the message (`usb_endp.c:338`).
3. `timers_counter`: `CounterArrived` is late by whole turns if the wait spans
   the wrap-around of TIM3 (`bsp.c:295`), so `tmcSendDat` can go on waiting for
   a host that stopped.

Met while modelling, against a comment or test, and carried by the models
without a run of their own; the first five have a configuration that shows
them:

4. `CommandSpace.cfg` (module MCScpiCommand, `LengthIsSpan`): white space behind
   a number is skipped and not counted (`parser.c:1213`), so the measured length
   of the data `1 ,1` ends early and the command, or `processCommand`, refuses
   data that was detected as right; of `1 ,11` the command gets 1 and 1, and of
   `1  ,1` the first parameter only, without an error.
   `test_lexer_parser.c:243` expects the length of `"ahoj" , #12AB` to be all of
   it, which holds for strings. `DetectedIsRead` shows that everything is read
   right where the length loses nothing, and what is read where it does.
5. `UsbString.cfg` (MCUsbControl, `AnswerIsRight`): for a string there is not,
   `TMC_GetStringDescriptor` returns without setting `Usb_wLength`
   (`usb_prop.c:143`), and `Data_Setup0` goes on with the length the request
   before has left: after a `GET_CAPABILITIES` of 8 bytes the device sends 16
   bytes from address 0 where the request should be stalled
   (`usb_core.c`, "Unsupported request").
6. `UsbStore.cfg` (MCUsbControl, `ConfiguredIsKnown`): a `GET_CONFIGURATION` in
   the direction OUT is not refused, and `DataStageOut` stores the host's byte
   into `Current_Configuration` (`usb_core.c:431-449`) without the device being
   made CONFIGURED. It needs a transfer that has set `PacketSize` before. The
   same holds of `GET_INTERFACE` and of the string with the serial number, whose
   later answers are what the host wrote. The descriptors in flash memory and
   the status, which is made anew, are out of reach.
7. `UsbReset.cfg` (MCUsbControl, `AddressAgreed`, with `Paced = FALSE`): a bus
   reset that comes when the status stage of `SET_ADDRESS` waits to be served is
   handled first (`usb_istr.c:70`), and the status stage then sets the new
   address (`usb_core.c:898`) in a device that should be at address 0.
   `usb_prop.c:372` says "Set this device to response on default address".
8. `HeapRace.cfg` (Heap, `NoRace`): with two levels a call of `mem_malloc` takes
   a block that the handler which interrupted it has taken, in four steps.
   `mem.c:508` says "protect the heap from concurrent access", but the semaphore
   is empty with `NO_SYS` 1 (`sys.h:53-56`), SysTick has priority 1 and the
   Ethernet interrupt 2 (`bsp.c:430-434`, `:531-533`), and both allocate:
   `tcp_tmr` through `tcp_output` (`netconf.c:170`), the Ethernet interrupt
   through `ethernetif_input` and the answers to what came in. `HandedOutOnce`
   shows which operations do it: taking the block found, or freeing or shrinking
   the one in front of it.
9. `A 1,` is executed as if it had no data: `parseAllProgramData` gives up with
   a count of -1 and a length of 0, which `SCPI_Parse` does not look at
   (`parser.c:205-213`), though `parser.c:147` says "set error if command
   callback did not read all parameters". `DetectedIsRead` says so.
10. A comma at the end of a list, `(1,)` or `(@1,)`, and in a numeric list
   anything behind a comma that starts no number, `(1,:1)`, ends the list as
   `SCPI_EXPR_NO_MORE`, like a well-formed one (`expression.c:103-113`).
   `ListsAreRead` says so.
11. Device errors above 0 set no ESR bit: their range is written the wrong way
   round for the test (`error.c:166` and `:186`).
12. An empty unit (`A;;B`) keeps a terminated line, and the lines behind it, in
   the buffer (`parser.c:307`, against `:264-265`). `OnlyEmptyUnitsWait` shows
   that nothing else does.
13. After an undefined relative header, the next relative header is composed from
   an overwritten path (`utils.c:750-752`, against `:713`). `ComposedInPlace`
   shows that it is right while all headers are defined.
14. A bus reset does not reset `rxState` (`usb_endp.c:166`, against `:163`): the
   first packet of the next transfer is taken for data of the interrupted one.
   `tmc_talk` therefore has aborts but no resets.
15. `tmcGetDat` returns the size of a message it did not copy, where
   `usb_tmc.h:171` says the copied size (`usb_endp.c:339`).
16. The bulk-in header announces the size the host asked for, not the response's
   (`usb_endp.c:216`, against `usb_tmc.h:73`).

Observed while modelling, with no statement in the repository to hold against
them: a command without a result at the end of a line that had one leaves a
response that ends in `;` without a line ending; after an overrun the rest of
the line is taken for a new one; `SCPI_Input` returns only the result of its
last line; `*CLS` may request service while it clears step by step;
`INITIATE_CLEAR` leaves `rxFinished`, `hostWrite` and the bulk-in side alone; a
reset between `gTxFinished = FALSE` and `SetEPTxValid` lets the next packet
overwrite a waiting one; a read request before the application has polled
hides a message (`hostWrite` is cleared); a string or block that contains a line
ending and is cut there by the end of a call is executed in two halves
(`parser.c:297`); `matchCommand` does not write the numbers of words behind the
end of the header, and refuses some headers if a word occurs twice in a
pattern, which is why the patterns of `command` have none; `SCPI_ParamNumber`
refuses data of a wrong type without an error of its own, so that the host is
told EXECUTION_ERROR; `SCPI_ParamCopyText` counts doubled quotes twice and so
cuts a text early that would fit; a character outside 7 bits in a quoted string
stops the device (`lexer.c:633`); a SETUP that arrives while a transaction is
being served finds its statuses overwritten by the saved ones (with
`Paced = FALSE` `AnswerIsRight` fails); `CLEAR_FEATURE` makes a bulk-in endpoint
valid with its old packet; `SET_CONFIGURATION` to 0 leaves the device state
CONFIGURED, and waking up an addressed device makes it ATTACHED; the device
property says packets of 255 bytes where the descriptor says 64, which no answer
of more than 64 bytes brings to light; requests of 65533 bytes and more would
get 12 from `mem_malloc`, and none are made; `SCPI_Init` has no caller in the
firmware, and `g_MsgBuffer.rxdone` is set nowhere.

## 6. Not modelled, and the plan

What is left, in the order of its use:

1. **Theorems**: `MatchIsRight` for patterns whose words have no form in common,
   with a reference definition the provers can unfold.
2. **Composition**: ScpiInput over ScpiContext and ScpiCommand, so that a line of
   commands and the status it leaves are checked together; UsbTmc with
   UsbControl for halts and resets.
3. **Network buffers**: `pbuf.c` and `memp.c` on top of the heap, with the
   command socket of `netconf.c`.
4. **Result writers** of `parser.c`, with the separators they write.

Left out for good: the protocols of the vendored lwIP, CMSIS, the ST peripheral
drivers and the USB host library, `snprintf.c`, the descriptor and register
access files, and the demonstration servers in the lwIP port: third-party code
or single accesses to hardware. They are more than nine tenths of the lines in
the repository, so the models cover a small share of all lines and most of the
firmware's own. `flash.c`, `crc.c` and `getstr.c` have no caller in the firmware.
Floating point values have no counterpart in TLC.
