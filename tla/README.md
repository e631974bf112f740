# A verification project for nileswan-medem

nileswan-medem is a fork of the Mednafen emulator. It emulates a WonderSwan with
the *nileswan* cartridge in it, so that software for the cartridge can be
developed against an emulated device. What the fork adds, and what a user of it
relies on, is the behaviour of the cartridge's devices on its SPI bus; Mednafen's
console core around it is shared with many other programs. This directory holds
TLA+ models of the code, TLC runs that check them on small instances, and proofs
that hold for every value of the constants.

Paths below are relative to `src/mednafen/src/`; files without a directory are in
`wswan/`.

## 1. Inventory

### 1.1 The cartridge

| component | state | operations | users |
|---|---|---|---|
| bus (`nileswan.cpp` 258-516) | bank registers, segment mask, flash enable, EMU_CNT, flash command FSM, IPC memory, PSRAM, SRAM | read and write of a cartridge address or port | `memory.cpp` |
| SPI controller and power (`nileswan.cpp` 157-254, 354-395) | SPI_CNT, POW_CNT, two double buffers | write of a register; a transfer inside the write | the bus |
| MCU (`nileswan_mcu.cpp`) | two byte queues, boot loader registers, peeked serial byte, EEPROM mode, save ID | exchange of a byte, reset | the controller; `comm.cpp` and `rtc.cpp` below it |
| SPI flash (`nileswan_flash.cpp`) | two byte queues, mode, position, status bits, the file `nileswan.spi` | exchange of a byte, deselect, reset | the controller |
| TF card (`nileswan_tf.cpp`) | two byte queues, status, reading and writing flags, the file `nileswan.img` with its position and end-of-file mark | exchange of a byte, reset | the controller |

Everything here runs in the emulation thread and inside one call of
`nileswan_io_write`: a write of the high byte of SPI_CNT with the start bit runs
a whole transfer. What is hard is not threads but *protocol*: every device takes
one byte and gives one byte at a time, whole commands and answers are spread over
hundreds of exchanges that the console may break off, interleave with other
devices, or start again after a reset that some devices notice and others do not.
Resources are fixed: a device whose 4096 byte queue overruns ends the process.

What makes each part correct:

* MCU: no complete packet waits unserved; the bytes the half duplex link drops
  never belong to a packet; a host that broke off can resynchronise; two readers
  share the serial pipe without losing a byte; the boot loader is not derailed
  by data that looks like its control bytes; nothing but a known case overruns.
* Flash: it is idle when another device is selected; a program operation stays in
  its page.
* TF card: it is an array of 512 byte blocks; a loss of power never leaves part of
  a block; every job ends.
* Controller: BUSY and the register lock lock; a transfer keeps to its half of the
  buffers; a transfer ends, and BUSY survives it only in two named cases.
* Bus: the flash chip programs a byte only after the unlock sequence; software whose
  segment is locked reaches nothing outside it.

### 1.2 The console

| component | state | hard behaviour |
|---|---|---|
| UART (`comm.cpp`) | two latches, control, two pipes to a child process (the far end) | blocking pipe writes; shared with the MCU; send and receive interrupts; reset and save states around it |
| interrupts (`interrupt.cpp`) | asserted, status, enable, cached vector | level and edge sources, acknowledge against a source still asserted; the cache must follow every change |
| RTC (`rtc.cpp`) | BCD clock, cycles of a second, command, copy for the read command | carries, impossible stored dates, a second that passes between the bytes of one read, the MCU's stores in between |
| EEPROMs (`eeprom.cpp`) | words, address, data, write enable, lock of the console's own | opcode and word come from one register, divided by a size that the video mode decides anew at every command; commands that write every word; the lock |
| memory, DMA, sound DMA (`memory.cpp`) | DMA registers, reload copies | both directions, ends of the RAM and of the address space, reload of a loop |
| lines and timers (`gfx.cpp`, `main.cpp`) | line counter and length of a frame, two timers, two sprite tables | a length that changes while the frame is drawn, timers written between any two lines, saves loaded in between |
| sound (`sound.cpp`) | periods, counters, positions, sweep, noise, the time it has caught up to | the chip lags behind and catches up when it is touched |
| processor (`v30mz.cpp`) | cycles left of a run, halt | only its cycles and its sleep are modelled; instruction semantics are not |
| debugger (`debug.cpp`) | | not modelled |

### 1.3 Mednafen around it

| component | hard behaviour |
|---|---|
| state rewinding (`state_rewind.cpp`) | ring of compressed deltas, each against its successor |
| background stream reader (`MTStreamReader.cpp`, `.h`) | two threads, two semaphores, a read error on the way |
| background CD reader (`cdrom/CDInterface_MT.cpp`) | message queues, ring of sectors, prefetch |
| save states, netplay, movies, cheats, settings, drivers | file formats, protocols with a server outside the repository, window system |
| the other consoles, vendored libraries | inherited unchanged |

What makes them correct: of the UART and the controller, that a waiting byte is announced to the
processor whatever was acknowledged, enabled, reset or loaded in which order, that both channels
are first in first out and lossless, and that a program which reads is never blocked for ever. Of
the clock, that it counts dates, heals impossible ones and is read as of one moment; of the
EEPROMs, what the lock holds; of DMA, that a block arrives as it was and is played in order; of
the lines, that a frame ends and with it the sleep that waits for it, that timers count and
sprites do not change while they are drawn; of the sound chip, that lagging behind is not
heard. Of rewinding, that a step back is the state that was there; of the CD reader, that a read
returns, and with the sector asked for; of the stream reader, that its client reads the stream it
asked for and is always answered.

`PROJECT.json` lists each with its status, and the hazards at their lines.

## 2. Plan

| order | modules | abstract specification | theorems |
|---|---|---|---|
| 1 (done) | `NileSpiBuffer`, `NileDevice`, `NileMcu`, `NileSerial`, `MCNileMcu`, `MCNileBootHost`, `NileDeviceProofs` | the bytes of the serial line, numbered | type, nothing unserved, half duplex, cause of an overrun, the serial line |
| 2 (done) | `NileFlash`, `NileFlashHost`, `NileTf`, `NileTfHost`, `NileSpi` with their MC modules, `NileTfProofs` | what a host expects of the flash, command by command (`Expected`); `NileBlockStore` for the card | types of flash and card, `SpiInv`, `BusyHolds`, `DevicesAtRest`, `AnswersInStep`, `StoredAsSent` (in `NileDeviceProofs`, the others in `NileCartProofs`); the card is a block store |
| 3 (done) | `NileCart`: banks, segment mask, flash FSM; `MCNileCart`, `NileCartProofs` | | type, `Confined`, the unlock sequence |
| 4 (done) | `WsInterrupt`, `WsComm` with the far end and the two pipes to it, `MCWsComm`, `WsCommProofs` | | type, `CacheFresh`, `ReceiveAnnounced`, `InOrder` |
| 5 (done) | `MtStreamReader`, `MtStreamReaderProofs` | the stream read in one piece (`Streamed`) | one token, `ReadsTheStream` |
| 6 (done) | `StateRewind`, `MCStateRewind`, `StateRewindProofs` | `StateHistory`, the last states recorded | the ring stands for the list; the refinement |
| 7 (done) | `CdReader`, `MCCdReader`, `CdReaderProofs` | | `AnswerRight`, `AskedIsThere`, `NotBothAsleep`, bound of the look-ahead |
| 8 (done) | `WsRtc`, `WsEeprom`, `WsDma`, `WsSound`, composed with `WsInterrupt` by `WsConsole`; `WsPrograms`, `MCWsConsole`, `WsConsoleProofs` | the calendar counted in seconds (`NextMoment`); a sound chip that runs all the time (`eager`) | interrupts told, the clock heals and counts, the lock holds, sprites whole, types of clock, EEPROMs and display; of the programs one moment, frames end, the timer, sound DMA, a copy arrives, sound in time |

Runs stay under a minute each, but for `console` (two million states, somewhat more); constants named after the source's (512 byte
blocks, 256 byte pages, 8191 tries) are scaled to the smallest values at which
each boundary is crossed.

## 3. Modules and how they correspond to the code

`PROJECT.json` maps every definition that models code to its lines.

**`NileSpiBuffer`**: the queue of `spi_buffer_push` and `spi_buffer_pop` as a
sequence. `Fits` is the overrun test (one cell always stays free), `Pop` of too
much empties, `First` is the byte read from an empty queue, `FillByte` (0xFF). **`NileDevice`** adds
`halted`, the end of the process, which the MCU and the flash share.

**`NileMcu`**: `spi_mcu` and `spi_mcu_persistent` as variables. `Exchange(b)` is
one call of `nile_spi_mcu_exchange(b)`, and `Answer` what it returns. It is one of
`AnswerByte` (an answer byte goes out, `b` is dropped), `Overrun` (`exit(1)`,
`halted`), `NativeByte(b)` and `BootByte(b)`. `NativeByte` serves a complete packet
with one `Serve...` action per command; `BootByte` has one action per branch of
`nile_spi_mcu_boot_exchange`. `Reset(boot)` is `nile_spi_mcu_reset(true, boot)`, the
only way it is called. The pipes of `comm.cpp` are `serialIn` and `serialOut`;
`FarEndSends`, `FarEndReads` and `UartReads` are their other users. A write to the
pipe may take any prefix of a CDC_WRITE (`Comm_SendByte` may refuse). `taken` is an
auxiliary record of who got which byte. The clock of `rtc.cpp` appears as the seven
bytes `rtc_transfer` stores and reads, without its ticking. The destination address
of the boot loader is left out: the code only prints it. **`NileSerial`** is the same with a far
end that numbers its bytes, so that a lost, doubled or overtaken one shows (`SerialKept`).

**`NileFlash`**: `nile_spi_flash_exchange` as `FlashExchange(b)` with `FlashAnswer`;
`FlashDeselect` and `FlashReset` are `nile_spi_flash_reset(false)` and `(true)`.
The erase commands only hold the chip, as in the code. **`NileFlashHost`** puts it under a host
that selects the chip, clocks in a command of any kind, goes on as long as it likes and breaks off
wherever it likes. The host is software of the console, so nothing of it is mapped; it keeps
book of what the chip should hold and of what it has answered, and `Expected` says what each byte
of an answer should be from the command alone, without the chip's state. `HostAssumption` says what
the host may send (`IsCommand`): whole headers, a program operation only with its data
and only to pages of the image, and behind an erase command, which holds the chip, nothing or a READ.
It assumes that there is a file, which ends before address FFFFFF (the chip has 2 MB), and a queue longer than
the longest identity (12 bytes; the code's has 4096).

**`NileTf`**: one exchange can finish a block, refill the stream and serve commands,
so the card is one record and the phases of `nile_spi_tf_exchange` are functions on
it, composed in the code's order by `AfterExchange`. The file is an array with a
stdio position and end-of-file mark, because `feof` decides whether a write is
stored. CRC bytes the code leaves uninitialised are any of `StackBytes`. **`NileTfHost`** puts the
card under a host that follows the SD protocol and is not part of the repository, so that nothing of
it is mapped. A job is one command with all that comes after it: `phase` says what the host is
sending or waiting for, `clocked` how far, `blocksDone` how many blocks of a read or write are over.
`CardHostAssumption` says what a job may be (`IsJob`: its blocks are on the card, and its address fits
into the four bytes of an argument), that there is a card, and that a queue holds a command, a block
with token and CRC, and the longest answer.

**`NileSpi`** composes the three devices (`INSTANCE`). The controller's transfer is
one call in the code; here it is one exchange a step, `Move` or `Wait`, and every
operation of the console is disabled until `phase` is `idle` again. `WriteLow`,
`WriteHigh`, `WritePow`, `Warmboot` are the cases of `nileswan_io_write`,
`ConsoleReset` is `nileswan_init`, `CpuWrites` the console's stores into its transmit
window. `stray` and `warm` are auxiliary: they remember that a warm boot, or a
register write under a stopped clock, went around the chip select or the power.

**`NileBlockStore`** is the abstract card: an array of blocks, one request at a time, which a
loss of power forgets. `Asked` reads the request off the job: its next block, or none.

**`NileCart`** extends `NileSpi` by the bus: the other cases of `nileswan_io_write`
(`WriteRomL`, `WriteBankLow`, `WriteBankHigh`, `WriteFlashEnable`, `WriteEmu`,
`WriteMask`; `PowWrite` and `PortWrite` are those `NileSpi` has), `resolve_bank` as
`Place`, a pure function of the registers, and `nileswan_cart_write` as `FlashCommand`
or `PlainWrite`. A register is the set of its one bits, which makes `&` an intersection. A
store goes to the cell `Place` names: the cartridge's memories are one function from the cells
written so far, except the transmit buffer, which is `NileSpi`'s. A program operation on an
unmapped bank dereferences a null pointer in the code and sets `halted` here. `said` (the
bytes the flash chip was sent) and `sealed` (the segment mask when POW_CNT was last written)
are auxiliary.

**`WsInterrupt`** is the controller of `interrupt.cpp` as a record, and its functions as
functions from record to record, because its users call them in the middle of their own
operations. A register is the set of its one bits. **`WsComm`** is `comm.cpp` around it.
`Comm_Process` is not atomic: its write to the pipe blocks, and meanwhile the far end goes on.
So `pc` says where the emulation is, `Begin` enters the call, `SendByte` (or `SendRefused`)
and `RecvByte` or `RecvNothing` are its two halves, and all the console's own actions are
disabled until it is over. `ReadData`, `WriteData` and `WriteControl` are the ports 0xB1 and
0xB3, `SetBase`, `SetEnable` and `Ack` the controller's, `DisplayRequest` the other
requests a line raises, `Reset`, `Save` and `Load` what the emulator does around the
program. The far end is a process of its own: it reads, writes, or exits, which nobody notices,
as the emulator holds all four ends of the pipes. The four ledgers (`wrote`, `farGot`,
`farSent`, `consoleGot`) and `loaded` are auxiliary. `MCWsComm` gives it programs.

**`WsConsole`** composes the console around its processor. A line is `BeginLine`, `MidLine`,
`LateLine` and `EndLine`, the four parts of `wsExecuteLine` between its three runs of the
processor (`cpu1` to `cpu3`, 128, 96 and 32 cycles); `Emulate` runs lines until `ends`. The
processor takes cycles (`Compute`), overdraws the run and pays in the next one (`left`),
halts, sleeps and wakes. Its instructions are arbitrary: `Program` is every register write at any
time. `Reset`, `Save` and `Load` are `main.cpp`'s, and only happen between frames, as in the
emulator (its debugger can save in the middle of one, which
`Documentation/debugger.html:27-37` warns of). What is not in a save state is not in
`StateNow` or is not loaded: the cache of the interrupts, and of the EEPROMs' registers the data.

**`WsRtc`**, **`WsEeprom`**, **`WsDma`** and **`WsSound`** are its parts, records and functions
like the interrupt controller, because the ports and the lines call them in the middle of their
own steps. `RTC_Clock` with `BCDInc` and the calendar are one function from date to date; the
MCU's stores go to the same record. `EEPROMCommand` takes opcode and word out of the address
register as the code does, for the `size` it is given with every command: the cartridge's is
fixed, the console's own is `MonoWords` or `ColourWords` by `display.colour`, which port 0x60
switches (`SetColour`) over the same words and which every reset clears. `Transferred` is a whole
general DMA, as one write of the port runs it; `CheckSoundDMA` is one call. `SoundUpdate` is what the chip catches up with;
`heard` is the sequence of times and samples each channel put into the buffers, in place of their
levels.

**`WsPrograms`** puts the console under one of eight programs and states what they may rely on;
its operations are `WsConsole`'s, its constants say how often and with which values. `eager`, a sound
chip caught up after every step, and `swept` are auxiliary.
`MCWsConsole` gives it values small enough for TLC.

**`StateRewind`** has `Record`, `Rewind` and `Skip` for the three ways through
`MDFNSRW_Frame`, and `FrameFails` for a throw anywhere in it, which ends rewinding; `Play` is
all that changes the
emulated state. A saved state is a sequence of bits and a difference is `DoXORFilter`'s;
the compressor is left out. `kept` is auxiliary. **`StateHistory`** is what it promises: a bounded
list of states, where going back loads the last one and never uses up the oldest.

**`CdReader`** is `CDInterface_MT`. `Thread` has one action per critical section of
`ReadThreadStart` and one for the reading of a sector, which takes no lock; `Emu` is the
emulation inside a call, `Call` the calls themselves. `asleep` holds the condition variables
someone waits on, and a signal takes its sleeper out. The content of sector `n` is `{n}`; a read
may fail at any time and leaves zeros and its error. Hints may name any number, also outside the
disc.

**`MtStreamReader`**: the reading thread (`Take`, `Read`, `Silence`, `EndRead`, `Ack`,
and `Throw`, `TakeFailed`, `AckFailed` for a stream that throws) and its client
(`GetBuffer`, `Advance` and `Request` begin a call, `Acquire` is its wait, `Post` the
rest of it, `Join` the destructor's). A step lies between two semaphore operations,
and `read_into_buffer` is one step per run of its loop, so that the client reads
between them. A byte tells its stream and its place. `held` is the pointer
`get_buffer` hands out, until the next call; `start` is auxiliary, the last stream asked for. The
positions are unbounded numbers here, 32 and 64 bits in the code, which the ring's
size divides. `seek` is assumed not to throw where `read` does not. The users in
`snes_faust/msu1.cpp` and `testsexp.cpp` add their streams before the first command
and read only after `set_active_stream`, and so does the client here.

Some definitions stand in two forms, the first one marked with a mistake
(`RestAfterHeader`, "forgets the payload"). No specification uses the first form; it
replaces the second when one wants to see a property fail.

## 4. Runs

| run | module, cfg | question | instance |
|---|---|---|---|
| mcu_hosts | MCNileMcu, MCNileMcu | `RxUnfinished`, `OnlyEraseHalts`, `NoPacketBehindAnswer`, `SerialKept`, `DrainResynchronises` | one of four hosts. `bytes`: bytes 0..3 in any order, which are header, argument and payload bytes of ECHO, an unknown command, FREQ and ID, so that packets of length 2 to 8 arise. `packets`: a message of each command family, broken off anywhere. `serial`: three distinguishable bytes, reads of one, two and the default, peek, flush, reset and the UART in any order. `boot`: START, ACK, noise and three commands in any order, erase lists that fit and one that does not. Queue of 1100, above the longest answer of 1026; the argument default is 3 |
| boot_host | MCNileBootHost, MCNileBootHost | `SessionCompletes` | three commands of six kinds, data made of control bytes, the real queue of 4096 |
| spi | MCNileSpi, MCNileSpi | `SpiInv` (types, and BUSY is left set in the named cases only), `BusyHolds` (register and windows), `TransferEnds`, `DevicesAtRest` | one of three consoles, seven or eight register writes in any order. `control`: all modes, both clocks, both halves, four power settings, three tries. `flash`: pages of 4, a program that starts at the last byte of its page. `card`: a multiple read left running while the power goes |
| flash_host | MCNileFlash, MCNileFlash | `AnswersInStep`, `StoredAsSent` (of `NileFlashHost`) | four commands of all kinds, each broken off anywhere, two pages of 4, programs one byte longer than a page |
| tf_host | MCNileTfHost, MCNileTfHost | `ImplementsBlockStore`, `JobsEnd` | a card of three blocks of 2 bytes, written with tokens and command bytes; three choices among 25 jobs and a loss of power at any exchange |
| cart | MCNileCart, MCNileCart | `Confined`, `OnlyAskedPrograms` | one of three programs. `segment`: six register writes or stores in any order, three masks, two bank values, both ports; the invariant asks about all 15 windows, offsets 0, 1 and 40000 (which the 32 KB switch folds). `flash`: eight commands, with the command machine turned off and on and its window moved between them. `transfer`: stores into the transmit buffer around a transfer and a swap of its halves |
| uart | MCWsComm, MCWsComm | `CacheFresh`, `ReceiveAnnounced`, `InOrder`, `AllEchoed` | pipes of 2; one of three programs. `any`: seven operations in any order, with resets, save states and a far end that exits or is not there. `polling` and `interrupts`: a message of 8 bytes to a far end that echoes it, which is more than the pipes, the latches and the far end's hand hold together (7), so that every wait is met |
| mt_stream | MCMtStreamReader, MCMtStreamReaderStream | `ReadsTheStream`, `OneToken`, `ServedUnlessFailed` | ring of 8 in chunks of 2, overbuffer of 2; streams without a loop, with a loop shorter than a chunk, of one byte, and longer than the ring; two calls of `set_active_stream`, entries before, in and behind the loop, silence that ends inside a chunk; reads up to three rings long; a read may throw at any moment |
| rewind | MCStateRewind, MCStateRewind | `RingHolds`, `Rewinds` | states of one and of two bits, the smallest ring (2) and one of 3; recording, skipping, going back, switching off and on, games loaded and closed, netplay, failures, without a bound on their number |
| cd_reader | MCCdReader, MCCdReader | `AnswerRight`, `AskedIsThere`, `NotBothAsleep`, `ReadReturns`, `ComesAndGoes` | sectors -1 to 3, a ring of 3, a look-ahead of 1; four calls that read sectors inside and outside and hint at 2 and 5, then the destructor; the constructor may fail, any read may fail |
| console | MCWsConsole, MCWsConsole | `TickIsSuccessor`, `TickHeals`, `ReadsOneMoment`; `FramesEnd`, `SpritesWhole`, `TimerKeepsTime`; `ProtectedHeld`; `CopyArrives`, `StreamInOrder`; `HeardInTime` | one of eight programs. `calendar`: the second before midnight of the days 1, 28 to 31 of every month of a century, and impossible dates, one tick. `reader`: 6 port operations, 4 lines, a second every other line. `frames`: 4 operations, 12 lines; frames of 4 drawn lines and a last line of 0, 5, 6 or 8, changed at any moment; resets, saves and loads. `timers`: periods 1 to 3, 4 operations, 10 lines. `streams`: blocks of 1 and 2, both directions, around address 0, 4 lines. `tunes`: 3 changes, instructions of 5 and 43 cycles, a sweep divider of 40, 2 lines. `stores`: 4 operations, among them switches of the video mode, with addresses of every opcode on both sides of the lock as either size divides them. `copies`: 4 operations around both ends of RAM and of the address space |
| mt_error (violation) | MCMtStreamReader, MCMtStreamReaderError | `ClientServed` when a read throws | one call, at most 6 bytes |

Why small instances are enough: the devices look at a byte only to compare it with
named values (commands, tokens, ACK, fill byte) and at lengths only to compare them
with what a command waits for, so a run needs one byte of each kind and one length
on each side of each comparison. Scaled constants: block 2 for 512, page 4 for 256,
tries 3 for 8191, transfer length up to 4 or 8 for 512, drawn lines 4 for 144 and a last
line 6 for 158, a second of 512 cycles for 3072000 (a line is 256), a console's
EEPROM of 8 words, 16 in a colour mode, with the lock from word 3 on for 64, 1024 and 24 (the
lock begins inside the second quarter of the small size and the first of the large one, as in the
code), a ring of 3 and a look-ahead of 1 for the CD
reader's 256 and 16, and the queue sizes above.
`CHECK_DEADLOCK FALSE` appears where the environment is bounded (`MaxOps`,
`MaxCommands`, `MaxSets`, `MaxCalls`, `MaxLines`), a session is over, or the process has exited, after
which nothing runs.

The stream reader compares positions with the ring's size, the chunk and the end of
the loop alone; three rings of reading meet every alignment of a loop of 3, a stream
of 1 and one of 11 with a ring of 8.

Seven of the runs that pass state liveness, and `mt_error` does. `mt_stream` assumes that a thread which can run is run
(weak fairness of the thread and of a client inside a call), and that reads return;
`mt_error` assumes the same, and `cd_reader` the same of its read thread and of the emulation
inside a call (`ReadReturns`, `ComesAndGoes`). The others' fairness is that of a synchronous program: a
transfer is a `for` loop inside one call, so `Move` and `Wait` go on (`TransferEnds`);
`mcu_hosts`, `tf_host` and `boot_host` assume a host that keeps clocking bytes,
which is what their questions are about. Nothing assumes that the console ever
starts anything. `uart` assumes that `Comm_Process` goes on when it can and that the far end
does; of the program it assumes strong fairness: the processor executes instructions between
any two calls of `Comm_Process`, so that a program cannot be passed over for ever although
the call disables it again and again. It is the only strong fairness.

What the runs show beyond "it holds": `BusyOnlyStuck` (in `SpiInv`) and `DevicesAtRest`
name the exceptions the code has. A transfer started with the
fast clock off, or a WAIT_READ without an answer, leaves BUSY set until the console
aborts it; a warm boot (`nile_fpga_reset`) and a register write under a stopped
clock leave the flash in the middle of its command; a warm boot takes the card's
power bit away without the reset that `pow_cnt_update` gives it. A boot loader erase
of 2047 or more sectors, the value 0xFFFF for "all" included, waits for a list that
does not fit the queue and ends the process (`OnlyEraseHalts`).

`AllEchoed` needs the order of the sources: the receive interrupt is above the send
interrupt, so that a program whose handlers follow each other reads before it writes, and the
blocked write never waits for a far end that is blocked on its own. A program that never reads blocks the emulator the
same way. The mask of level sources has the bit of the send interrupt, but `comm.cpp` only
ever pulses that source; that none of the pulses is lost is part of `AllEchoed`.

`mt_error` ends in a violation, which `PROJECT.json` lists as a finding: a stream that
throws leaves `read_thread_entry` past the acknowledgement of the command that was
being served. The handler acknowledges later commands only, and the client cannot send
one before it has that acknowledgement: its next call, the destructor included, never
returns.

Each module of the console's parts is checked under the whole console, with lines that go on
between the program's operations. What the properties leave out is named in them:

* `TickHeals` excepts one step: some impossible months and days, 0x99 and 0x0F for instance,
  are counted to 0 first and get a value of their field a step later. (`RTC_Init` has a
  disabled self test that states what `TickIsSuccessor` does.)
* `HeardInTime` excepts the wave of channel 2 once a program has had the sweep on (`swept`):
  `WSwan_SoundUpdate` takes that channel's period before its loop over the sweep's steps, so that
  a step is heard from the next update on, and when that comes depends on what the program
  touches. The sweep's own registers, the stored period and the other channels are not excepted.
* `ProtectedHeld` excepts one command (`Overwritten`). The size of the console's own EEPROM is 64
  words or, in a colour mode, 1024, by the video mode at the moment of the command
  (`eeprom.cpp:29-31`, `146`); every reset starts in the 64 word mode, and a program can go back to
  it through port 0x60 at any time. There a write-all whose address names a word of 16 to 23 (the
  opcode's lower bits are the word's upper ones) is below the lock's word 24, passes the check at
  `eeprom.cpp:83` and overwrites the words 0 to 63, 24 to 63 with them: the case the TODO comment
  at line 97 asks about. The words from 64 on stay. Erase-all, at which the TODO at line 101 asks
  the same, does not get past the lock in either size: its word is in the third quarter, 32 or
  higher. In a colour mode write-all names a word of at least 256 and does not pass either. The
  run `console` meets the exception, and without it the property fails. A soft reset locks the
  console's EEPROM again even where the cartridge's header had asked for it to stay open
  (`main.cpp:427` comes once, after the first reset).
* `StreamInOrder` assumes that a program sets a new block before it switches on a channel whose
  block has ended: otherwise the length is counted down from 0 to 2^20 - 1.

`AnswerRight` allows what the code does with a read error: a sector whose reading has failed stays
in the ring as zeros, and since the thread ignores a message that repeats the last one, asking for
it again does not read it again. Of two copies of a sector in the ring the search takes the later
slot.

## 5. Proofs

`NileDeviceProofs` is about single devices under a host. It proves, of `Spec` of `NileMcu`, for every value of the constants that
satisfies `McuAssumption` and a queue of more than 1026 bytes (the source has 4096):

* `TypeCorrect`: `Spec => []TypeOK`
* `NothingLeftUnserved`: `Spec => []RxUnfinished`
* `HalfDuplexIsSafe`: `Spec => []NoPacketBehindAnswer`
* `OnlyEraseOverruns`: `Spec => []OnlyEraseHalts`

They are parts of one inductive invariant (`InvariantHolds`). None is inductive alone.
That a push fits needs that the queue is empty when an answer is made
(`Exchange` gets to a command only when `tx` is empty) and a bound on the
longest answer: 1026 bytes, an EEPROM_READ of 512 words with its key, hence the
assumption. That a received byte fits needs that `rx` is shorter than what its
command waits for (`RxUnfinished`), at most 514 bytes in native mode and 258 in the
boot loader, except for an erase, whose length is the host's. That
`RxUnfinished` is kept needs in turn that a served packet leaves the queue empty,
which is `NoPacketBehindAnswer`'s side of the same step: before the byte, the queue
was unfinished, so with it the packet is exactly complete. There is one lemma per
group of actions (native commands, boot steps, environment) and one step per
action in it.

* `SerialLineKeepsEveryByte`: `SerialSpec => []SerialKept`, of `NileSerial`, for any host, any UART
  and any far end. Its invariant `SerialInv` is about what has been handed out and what is left,
  the peeked byte before the pipe's: together they are all the bytes sent, each once; what is left
  is in the order it was sent, and everything the host was given is older than all of it. Not so
  what the UART was given: it may overtake a peeked byte, which is why `Kept` counts that one
  apart. The lemmas say what moves a byte from the left to the right place: a send, a read, a
  peek, a flush. This theorem needs nothing of the queue's size, as an overrun stops the process
  before it hands anything out.
* `AnswersInStepAlways` and `StoredAsSentAlways`, of the flash under its host (`HostSpec`), for every image,
  every page size, every set of commands that `HostAssumption` allows and any number of commands and clocks.
  Neither is inductive: what is answered next depends on the chip's mode, queues and position.
  `HostInv` says that these are a function of the command and of the number `n` of bytes clocked in. Inside
  the header (`InHeader`) the chip has kept just those `n` bytes and is in no mode. Behind it
  (`AfterHeader`) the position of a read is the address plus `n - 4`, that of a program operation is
  where byte `n + 1` wraps to inside its page (`Target`), and of an identity just the rest is left
  to send. The case that had to be found is an erase command followed by a READ: the chip
  takes the fill bytes for the READ's address, goes into the mode of a read and reads from FFFFFF on,
  which answers fill bytes only because the image ends before (`Erased`). There is one
  lemma for each kind of command; `Division` and `SameRemainder` are the arithmetic of the wrap.

`NileTfProofs` proves `CardIsBlockStore`, `CardHostSpec => ImplementsBlockStore`: for every size of
blocks and of the card, every delay and length of being busy, every set of jobs and any number of
them, any data, any values of the uninitialised bytes, and the power lost anywhere, each step of card
and host is a step of `NileBlockStore` or none. The inductive invariant is `CardInv` (`CardInvAlways`),
which has one conjunct per phase of the host:

* What the card still has to send is told from its end. `Carries` says that an answer ends with the
  token, the block that is due and two bytes, whatever number of fill bytes is in front, and
  `EndsStop` the same of the answer to a stop. Told from the front, the invariant would
  have to follow how many of the fill bytes were taken.
* What it has heard is the beginning of the frame that is being sent (`BeginsWith`). A card that is
  written to has dropped at most a fill byte before the token (`Stalled`): once it has the token, no
  byte of the block is taken for anything else, whatever it looks like (`WriteGoesThrough`).
* The file is where the job is (`ReadGoesOn`, `WriteGoesOn`), except that a multiple read is always
  one block ahead. The stop of a multiple read is the difficult command: while it is being sent, the
  card may refill its queue from behind the last block, and even at the end of its file. Nothing the host
  takes depends on it, because the answer to a stop replaces the queue (`ServedStop`).

The lemmas go from the queues (`PopIs`, `StripIs`) over the phases of one exchange (`StreamIs`,
`ServeSix`, `ServedRead`, `WriteLands`, ...) to one lemma per action of the host (`...Keeps`). That a
written block changes no other block is `BlocksApart`, the arithmetic of addresses, with `BlockLands`.
The card's fold over the commands in its queue is written out for the only numbers that occur, none
and one (`BySix`).

`MtStreamReaderProofs` proves `OneTokenAlways`, `Spec => []OneToken`, for every ring,
set of streams and sequence of calls, with reads that throw: with the semaphores
counting (`Counts`) it is inductive by itself, one case per action. It is what makes
the plain fields shared by the two threads safe. On it rests `ReadsTheStreamAlways`,
`Spec => []ReadsTheStream`, for every ring that `ReaderAssumption` allows, also when a stream
throws. Its invariant is `RingInv`. `InStep` says how far the ring is filled for the place the client
is at: a fill is announced when the client enters a chunk and waited for when it enters the next.
`PlaceRight` says that the stream stands where the next byte of the ring comes from, and
`LoopThere` that a loop short enough to be copied inside the ring has not been overwritten
when it is. `Ring` and `Behind` say what the ring and the bytes behind it hold. The hard part is
arithmetic: which positions share a cell, and that the cells a fill writes are not among those
the client may read (`Settled`).

`NileCartProofs` proves `CartTypeCorrect`, which needs no strengthening, and `ConfinedAlways`, `CartSpec => []Confined`, for every set of
offsets and every sequence of register writes, stores, transfers, warm boots and resets.
`Confined` alone is not inductive: it says nothing of the mask *now*. The
invariant behind it, `MaskKept`, is that while POW_CNT is locked the mask is the one that was
there when it was locked; it holds because the only write that reaches the mask tests the
lock, and the ways around the lock (the unlock value, a warm boot, a reset) leave it open.
`SegmentHolds` derives `Confined` from it: `resolve_bank` only takes bits away from the bank
it masked. It also proves:

* `StoresOnlyWhenAsked`, `CartSpec => OnlyAskedPrograms`. The invariant `Remembers` says of every
  state of the flash command machine which bytes must have come last, and of the fast states
  that somewhere before them the three bytes were that enter them.
* `SpiCorrect` (`SpiInv`), `RestAlways` (`DevicesAtRest`) and `BusyLocks` (`BusyHolds`), all of the
  composed cartridge and a queue of more than 1026 bytes, which the MCU needs. The invariant
  `SpiIInv` is the types of controller and devices, that a transfer's place is inside its buffer
  (`TransferOK`), and the two properties. Types are most of the work: every phase of the card's exchange keeps
  the card's type, and for the commands it takes out of its queue in one exchange (a recursive function)
  that is an induction over their number. The library's induction theorems cannot be used here
  (see below), so `LeastElement` and `Induction` state the principle with a set in place of the
  property, from the well-foundedness of the naturals. The MCU's part is `NileDeviceProofs`, instantiated (with any host's state, which the MCU does not look at): its lemmas hold of
  the MCU on the bus as they do of the MCU alone.

`WsCommProofs` proves, of `Spec` of `WsComm`, for every size of the pipes, every set of
bytes, every program and every far end:

* `CacheFreshAlways` and `ReceiveAnnouncedAlways`, from one invariant, `Announced`: the cache
  is that of the registers, no held line is without its request, and the receive line *is*
  the UART's latch. `Recalculated` shows that `RecalcInterrupt` establishes the first two from
  anything, and `Controlled` that every function of the controller ends in it (the
  console's proofs take the lemmas from here, as an instance). The third
  is what the UART's operations have to keep, and needs nothing of a save state but its types,
  as loading asserts the line after both have their registers.
* `CommTypeCorrect`, with the types of a save state and of the bytes in the pipes.
* `SentInOrderAlways` and `ReceivedInOrderAlways`, which together are `InOrderAlways`, from `SentLedger` and `ReceivedLedger`.
  `SentInOrder` alone is not inductive: the write must only be reached with a byte
  latched, and without a far end the pipe to it must be empty, or a byte that is gone at once
  would overtake those in it. The lemmas before them say that a byte that goes from one
  sequence to the next leaves what they make together as it was.

`StateRewindProofs` proves, for every set of states of any lengths and every setting:

* `RewindTyped` and `RingStandsForStates`, `Spec => []RingHolds`. The ring runs around, so the
  lemmas before them say which slot is `k` places behind which after a step forward or back;
  recording shifts every distance by one, and the slot that is overwritten is the one that
  leads further back than the depth.
* `RewindsExactly`, `Spec => Rewinds`: every step is one of `StateHistory` or a stutter, under
  the mapping that reads the depth off the ring's size. What makes going back exact is
  `FilteredTwice`: a difference, applied to the state it was made from the other side of, gives
  the first one back, also where the two differ in length.

`CdReaderProofs` proves, for every disc, ring and look-ahead that satisfies `CdAssumption` (a ring
longer than the look-ahead, which the source's `static_assert` implies), and any calls:
`ReaderTyped`, `AnswersAreRight`, `AskedSectorTurnsUp`, `LookAheadIsBounded` and
`SomeoneIsAwake`. `RunInv` is the heart: the sectors before the one to be read next are in the
last slots written, in order, as many as the look-ahead may cover, so that what was asked for last
is still there when the thread has run ahead. `SleepInv` says who has which message: a thread
that sleeps has an empty queue and nothing left to read, and an emulation that sleeps has asked
for a sector that is not there yet. With `RunInv`, both cannot be. `DataInv` says that every
valid slot has the content of its number or a failure.

`WsConsoleProofs` proves, of the composed console, for every program, date, sizes of the
EEPROMs and number of lines (`ClockAssumption`, `EepromAssumption`, `ConsoleAssumption`; the second
says that the protected part begins in the first half of the small size and the first quarter of
the large one, as 24 does in 64 and 1024):

* `ConsoleAlwaysTold`: no line, register write, reset or load leaves the processor with an old
  interrupt or an enabled level without its request. The invariant adds the types of the
  controller and of the saved one: a load needs no more, as every function ends in
  `RecalcInterrupt`.
* `ClockKept` and `ClockHeals`, `Spec => TickHeals`, for any seven bytes as a date. `CountedField`
  is the lemma about `BCDInc` behind it: below its threshold a byte whose low digit is decimal
  is a number of the field.
* `EepromsKept` and `LockHolds`, `Spec => ProtectedHeld`, whatever modes the commands come in:
  which word a command reaches is arithmetic on the address register and the size of the moment.
  `QuarterWords` says in which quarter the word of a command for all words is, `LockedWords` that
  what a locked command stores therefore is `Spared`: the protected words stay, or the command is
  a write-all in a size smaller than four times the protected part's start. `ColourWords` is not
  such a size, so that only `Overwritten` is left.
* `DisplayKept` and `SpritesAreWhole`, `Spec => SpritesWhole`: the copy goes to the other table
  (`1 - drawn`), and the tables change places at the line after the last one drawn.

* `ClockCounts`, `Spec => TickIsSuccessor`: a tick of a date of the calendar is the next second,
  for every date. A century of dates is too many for the provers one by one; what is proved is
  that counting a BCD byte up is counting up the number it stands for, and then the carries.

Of the programs of `WsPrograms`, for every number of operations and lines and every set of values
that `ProgramsAssumption` allows:

* `ReadsAreOfOneMoment` (`ReadsOneMoment`): the bytes read so far are a prefix of the date's at
  the command, and the clock's buffer still is that date.
* `FramesAlwaysEnd` (`FramesEnd`). `FramesInv` counts the lines since the last VBlank from the
  display's line counter: a frame whose length is cut below the counter's value continues from the difference,
  so that the counter is not zero where a frame begins, and the bound has to be on their sum. It
  needs that no length is more than twice the drawn lines (255 and 144 in the
  source), and that a processor that sleeps past a VBlank has a request pending which wakes it
  (`Woken`). The same holds of the saved state, which a load brings back.
* `TimerAlwaysKeepsTime` (`TimerKeepsTime`): the lines counted are those of the interrupts raised
  and of the period begun.
* `StreamsArePlayedInOrder` (`StreamInOrder`): source and length of a block are functions of how
  many bytes of it were sent.

* `CopiesArrive` (`CopyArrives`). What a transfer does is a recursive function of the number of pairs
  copied. `TransferArrives` is the induction over that number, for blocks of any even length up to
  that of the RAM: with an even start no pair is torn apart at an end (`EvenRemainder`), and no two pairs of
  a block share an address (`PairsApart`).

* `HeardInTimeAlways` (`HeardInTime`), for the changes in `Changes` in any order, instructions of any length,
  and every number of them and of lines; the lemmas hold of any contents of the RAM. The property looks at the chip after
  one more update; the invariant (`InStep`) says instead that the chip is behind and sound in type, and that
  caught up it is alike the eager one. It is inductive because of three facts about
  `SoundUpdate`. Catching up in two steps is catching up in one (`UpdateTwice`, from
  `WavesSplit` and `RegistersSplit`): this is arithmetic on counters that wrap several times in one update
  (`WrapsAdd`), and an induction over the steps of the noise register, which is a recursive function.
  Catching up with nothing to do changes nothing (`NothingNew`). And a write to a caught up chip keeps alike
  chips alike, one lemma per port (`PeriodsAlike` to `ControlsAlike`). So an access that catches
  up first may be put anywhere between two lines, and one that does not must leave what an
  update reads alone: that is where a write to the wave table that came before the update would fail.
  The exception of channel 2 has to outlast the sweep (`swept`): once a step was heard late, the place in the
  wave does not come back into step when the sweep is switched off.

Two lemmas (`PortsKeep`, `StepsKeep`) say once which actions change which part.

Model-checked only is liveness: `DrainResynchronises`, `SessionCompletes`, `TransferEnds`, `JobsEnd`,
  `AllEchoed`, `ServedUnlessFailed`, `ReadReturns`, `ComesAndGoes` and the violated `ClientServed`.
  No liveness under fairness and no `ENABLED` is proved here.

The induction theorems of the library take an operator as a parameter, which none of the provers
can instantiate. Where an induction is needed and its property can be written as a set, it is done
by hand, as above.
No module that is proved about reaches a RECURSIVE operator.

## 6. Not modelled

* The bytes an EEPROM_READ finds past the array are any byte of `Junk`, the same one
  throughout an answer; those inside it are 0, as nothing in the MCU's interface
  writes them.
* The memcpy that keeps the stream reader's overbuffer equal to the start of its ring
  may write cells the client is reading, with the values they have: a data race that
  the model, where a step is atomic, does not show.
* `NileMcu` lets a CDC_WRITE stop anywhere and has no full pipe in it: that the MCU's write
  blocks as the UART's does is in `WsComm` only, and the two are not composed.
* The debugger's writes of the controller's registers, and `Comm_Kill`. Reads of the
  ports that change nothing appear where a program acts on them (`SendReady`, `RecvReady`,
  the vector).
* Reads of the cartridge: they change nothing. The value the flash command machine gives
  a read while it is in fast or erase mode is left out, as is what the memories hold at the
  start.
* The boot ROM banks are resolved for writes too, so that a store changes the image the
  console boots from; the model does the same, and no property asks about it.
* Of the clock: the host's time, which `RTC_Init` takes at the start, is any date. Ports CA and
  CB exist without the nileswan cartridge, the MCU's stores only with it; `WsConsole` has
  both, so that no property depends on which.
* Of the EEPROMs: a cartridge that has none (`eeprom_size` is 0, and a command shifts by a negative
  number of bits), and what `WSwan_EEPROMInit` puts into the console's own: all words are 0 at the
  start.
* Of the TF card, the two bytes of a block's checksum in a multiple read, which the code never
  initialises, have one value for both.
* No interrupt source holds its line up in `WsConsole`: the one that does is the UART, which
  `WsComm` has. What `AlwaysTold` says of a line that is up, it says there only.
* Of the sound chip: volumes, voice and HyperVoice levels, mixing and resampling. Of the display:
  everything that is drawn, palettes and tiles; the sprites' registers and their RAM are one
  value. Of memory: the banks of a plain cartridge and the WonderWitch's flash (`memory.cpp`), the
  bytes of ports that only store.
* Saving in the middle of a frame, which the debugger can do. The data registers of the EEPROMs,
  the sound chip's sample cache and HyperVoice are not part of a save state in the code either.
* Of rewinding, the compressor, and how states are laid out. Of the CD reader, the table of
  contents, subchannel data and the image formats behind `Read_Sector`.
* The processor's instructions, the debugger, graphics composition, drivers, settings, cheats,
  movies, netplay, the other consoles and vendored code: see `PROJECT.json`.
