------------------------------ MODULE WsPrograms ------------------------------
(***************************************************************************)
(* WsConsole under one of eight programs, each of which touches the        *)
(* registers of one part of the console, in any order, while the lines go  *)
(* on, for MaxOps operations and MaxLines lines.                           *)
(*                                                                         *)
(*   calendar  sleeps, from a second before midnight of many dates, or     *)
(*             from a date the MCU of the cartridge stored, possible or not*)
(*   reader    reads the clock through its ports while it is counted up    *)
(*   frames    changes the length of a frame, sleeps till VBlank, and the  *)
(*             host resets, saves and loads                                *)
(*   timers    starts and stops the horizontal timer                       *)
(*   streams   plays samples by sound DMA                                  *)
(*   tunes     plays waves, noise and a sweep                              *)
(*   stores    drives the EEPROMs and switches the video mode              *)
(*   copies    by general DMA                                              *)
(***************************************************************************)
EXTENDS WsConsole

Programs == {"calendar", "reader", "frames", "timers", "streams", "tunes", "stores", "copies"}

CONSTANTS
    MaxOps, MaxLines,   \* of each program
    ClockBytes,         \* the reader writes to the clock's ports
    Totals,             \* of the lines of a frame
    Periods,            \* of the timer, its low byte
    Streamed,           \* lengths of the blocks for sound DMA
    Costs               \* in cycles, of an instruction

(* Registers are bytes, and in the source twice the lines drawn are 288.   *)
ASSUME ProgramsAssumption ==
    /\ ClockBytes \subseteq Byte
    /\ \A n \in Totals \cup {FirstTotal} : n \in Byte /\ n <= 2 * Visible
    /\ Periods \subseteq 1 .. 255 /\ Streamed \subseteq 1 .. 255
    /\ Costs \subseteq Nat \ {0}

VARIABLES
    program, ops,
    begun,        \* lines begun
    since, slept, \* lines begun since the last VBlank, and in this sleep
    asked, got,   \* the date at the last command to read it, the bytes read since
    beat, fired,  \* lines the horizontal timer counted, and its interrupts
    eager,        \* a sound chip that is caught up after every step
    swept         \* its sweep has been on
auxVars == <<since, slept, asked, got, beat, fired>>
allVars == <<vars, program, ops, begun, auxVars, eager, swept>>

Odd == {0, 10, 15, 31, 89, 153, 255}
Days == {Bcd(d) : d \in {1, 28, 29, 30, 31}}
LastSeconds ==
    {d \in [year : {Bcd(y) : y \in 0 .. 99}, mon : {Bcd(m) : m \in 1 .. 12}, mday : Days,
            wday : {6}, hour : {Bcd(23)}, min : {Bcd(59)}, sec : {Bcd(59)}] : DateValid(d)}
StoredDates ==
    {d \in [year : {0, 255}, mon : Odd, mday : Odd, wday : {9}, hour : {Bcd(23), 159},
            min : {Bcd(59), 255}, sec : {Bcd(59), 10, 255}] : ~DateValid(d)}
Evening == [year |-> Bcd(99), mon |-> Bcd(12), mday |-> Bcd(31), wday |-> 3,
            hour |-> Bcd(23), min |-> Bcd(59), sec |-> Bcd(58)]

Did(p) == program = p /\ ops < MaxOps[p] /\ ops' = ops + 1
Quiet == UNCHANGED <<program, begun, eager, swept>>
Note(s, b, a, g) == slept' = s /\ beat' = b /\ asked' = a /\ got' = g /\ UNCHANGED <<since, fired>>

ReaderStep ==
    /\ Did("reader") /\ Quiet
    /\ \/ \E byte \in ClockBytes :
             /\ SetRtc(RTC_Command(rtc, byte))
             /\ IF byte % 32 = READ THEN Note(slept, beat, rtc.date, <<>>) ELSE UNCHANGED auxVars
       \/ \E byte \in ClockBytes : SetRtc(RTC_Data(rtc, byte)) /\ UNCHANGED auxVars
       \/ SetRtc(AfterRead(rtc)) /\ Left(rtc)
             /\ Note(slept, beat, asked, Append(got, ReadByte(rtc)))
       \/ SetRtc(StoreTime(rtc, [Evening EXCEPT !.sec = 7])) /\ UNCHANGED auxVars

FramesStep ==
    /\ Did("frames") /\ Quiet
    /\ \/ \E n \in Totals : SetTotal(n) /\ UNCHANGED auxVars
       \/ SetCompare(2) /\ UNCHANGED auxVars
       \/ \E n \in 1 .. 2 : SetSprites(n) /\ UNCHANGED auxVars
       \/ \E bits \in {{VBLANK}, {VBLANK, VBLANK_TIMER}, {}} :
             SetInt(WriteEnable(int, bits)) /\ UNCHANGED auxVars
       \/ SetInt(Acknowledge(int, Sources)) /\ UNCHANGED auxVars
       \/ SetTimers(FALSE, FALSE, TRUE, TRUE) /\ UNCHANGED auxVars
       \/ SetDisplay([display EXCEPT !.vb = PeriodByteHigh(PeriodByteLow(@, 1), 0)])
             /\ UNCHANGED auxVars
       \/ VBLANK \in int.enable /\ Halt /\ Note(0, beat, asked, got)
       \/ (Reset \/ Save \/ Load) /\ Note(0, beat, asked, got)

(* The high byte of a period starts the timer, and the counts of it.       *)
TimersStep ==
    /\ Did("timers") /\ Quiet
    /\ \/ /\ SetDisplay([display EXCEPT !.hb = PeriodByteHigh(@, 0)])
          /\ beat' = 0 /\ fired' = 0 /\ UNCHANGED <<since, slept, asked, got>>
       \/ \E on \in BOOLEAN : SetTimers(on, TRUE, FALSE, FALSE) /\ UNCHANGED auxVars
       \/ SetInt(WriteBase(int, 8)) /\ UNCHANGED auxVars

(* A program sets a block, of all six bytes, while the channel is off, and *)
(* does not switch it on behind the end of one.                            *)
Block(s, source, length) ==
    SetLength(SetLength(SetLength(SetSource(SetSource(SetSource(s, 0, source), 1, 0), 2, 0),
        0, length), 1, 0), 2, 0)
StreamsStep ==
    /\ Did("streams") /\ Quiet /\ UNCHANGED auxVars
    /\ \/ ~sdma.on /\ \E length \in Streamed : SetSdma(Block(sdma, 3, length))
       \/ \E on, hold, loop \in BOOLEAN, rate \in {2, 3} :
             /\ on => sdma.length # 0
             /\ SetSdma(SetControl(sdma, [on |-> on, hold |-> hold, loop |-> loop, rate |-> rate,
                                          down |-> sdma.down, hyper |-> FALSE]))

(* A change of the sound chip, done to both.                               *)
Changes == {"wave", "noise", "sweep", "off", "high", "low", "value", "step", "tap",
            "table", "shift", "read"}
Changed(s, change) ==
    CASE change = "wave" -> Control(s, {0, 3})
      [] change = "noise" -> Control(s, {0, 3, NOISE})
      [] change = "sweep" -> Control(s, {2, SWEEP})
      [] change = "off" -> Control(s, {1, VOICE})
      [] change = "high" -> PeriodHigh(s, 0, 255)
      [] change = "low" -> PeriodLow(s, 0, 252)
      [] change = "value" -> SweepValue(s, 255)
      [] change = "step" -> SweepStep(s, 1)
      [] change = "tap" -> NoiseControl(s, 3, TRUE, TRUE)
      [] change = "table" -> Table(s, 1)
      [] change = "shift" -> ShiftLow(ShiftHigh(s, 255), 128)
      [] change = "read" -> s
TunesStep ==
    /\ Did("tunes") /\ UNCHANGED <<program, begun, auxVars>>
    /\ \/ \E change \in Changes :
             SetSound(Changed(Caught, change)) /\ eager' = Changed(eager, change)
       \/ \E a \in {0, 66} : RamWrite(a, 90) /\ UNCHANGED eager
       \/ \E cycles \in Costs : Compute(cycles) /\ eager' = SoundUpdate(eager, mem, now')
    /\ swept' = (swept \/ Sweeps(sound'))

(* Addresses with every opcode, for words within and behind what the lock  *)
(* leaves open, as one mode divides them and as the other does.            *)
Locates ==
    Byte \cap ({4 * s + e * (s \div 4) + w : s \in {MonoWords, ColourWords}, e \in 0 .. 3,
                                            w \in 0 .. 1}
              \cup {o * s + w : s \in {MonoWords, ColourWords}, o \in 5 .. 7, w \in {1, 5}})
StoresStep ==
    /\ Did("stores") /\ Quiet /\ UNCHANGED auxVars
    /\ \/ \E which \in {"own", "cart"} :
             \/ \E byte \in Locates :
                   SetEeprom(which, [eeproms[which] EXCEPT !.address = LowByte(@, byte)])
             \/ SetEeprom(which, [eeproms[which] EXCEPT !.data = HighByte(@, 5)])
             \/ \E lock \in BOOLEAN, op \in {0, 4, 5, 6} :
                   SetEeprom(which, EEPROMCommand(eeproms[which], Size(which), lock, op))
       \/ \E on \in BOOLEAN : SetColour(on)
CopiesStep ==
    /\ Did("copies") /\ Quiet /\ UNCHANGED auxVars
    /\ \/ \E byte \in {2, 5} : SetDma([dma EXCEPT !.length = EvenLow(@, byte)])
       \/ \E byte \in {0, 253} : SetDma([dma EXCEPT !.source = EvenLow(@, byte)])
       \/ \E byte \in {3, 254} : SetDma([dma EXCEPT !.dest = EvenLow(@, byte)])
       \/ \E down \in BOOLEAN : StartDma(down)

-----------------------------------------------------------------------------
(* The rest of the console goes on.                                        *)
LineStep ==
    /\ Line /\ (pc = "line" => begun < MaxLines[program])
    /\ (pc = "line" /\ program = "timers" => HBLANK_TIMER \notin int.status)
    /\ begun' = IF pc = "line" THEN begun + 1 ELSE begun
    /\ since' = IF pc = "line" THEN IF AtVBlank THEN 0 ELSE since + 1 ELSE since
    /\ slept' = IF pc = "line" /\ halted THEN slept + 1 ELSE slept
    /\ beat' = IF pc = "line" /\ display.hb.on THEN beat + 1 ELSE beat
    /\ fired' = IF pc = "line" /\ HBLANK_TIMER \in int'.status THEN fired + 1 ELSE fired
    /\ eager' = IF pc = "cpu3" /\ ends THEN SoundFlush(eager, mem, now) ELSE eager
    /\ UNCHANGED <<program, ops, asked, got, swept>>

(* A program that is done, or not halted, computes to the end of the run.  *)
Idle ==
    /\ Compute(left)
    /\ eager' = IF program = "tunes" THEN SoundUpdate(eager, mem, now') ELSE eager
    /\ UNCHANGED <<program, ops, begun, auxVars, swept>>
Answer ==
    /\ program = "timers" /\ HBLANK_TIMER \in int.status
    /\ SetInt(Acknowledge(int, {HBLANK_TIMER}))
    /\ Quiet /\ UNCHANGED <<ops, auxVars>>
Others ==
    /\ Sleep \/ Wake \/ Emulate
    /\ Quiet /\ UNCHANGED <<ops, auxVars>>

(* A block to be streamed, up or down, prepared but not yet started.       *)
Prepared ==
    {Block([NoSoundDma EXCEPT !.down = down], s, n) :
        s \in {0, 3}, n \in Streamed, down \in BOOLEAN}

(* Each program begins where another has left the registers it does not    *)
(* write itself, in the first run of line 0.                               *)
ProgramsInit ==
    /\ program \in Programs
    /\ ops = 0 /\ begun = 0 /\ since = 0 /\ slept = 0 /\ beat = 0 /\ fired = 0
    /\ asked = Evening /\ got = <<>>
    /\ rtc \in {[RTC_Init(d) EXCEPT !.cycles = ClockRate - 256] :
                   d \in IF program = "calendar" THEN LastSeconds \cup StoredDates ELSE {Evening}}
    /\ int = IF program = "timers" THEN WriteEnable(InterruptReset, {HBLANK_TIMER})
             ELSE InterruptReset
    /\ mem = IF program \in {"tunes", "copies"} THEN [a \in 0 .. 8 |-> 17 * (a + 1)] ELSE <<>>
    /\ dma \in IF program = "copies"
               THEN {[NoDma EXCEPT !.source = s, !.dest = d, !.length = 4] :
                        s \in {0, 4, Space - 2}, d \in {2, RamBytes - 2}} ELSE {NoDma}
    /\ sdma \in IF program = "streams" THEN Prepared ELSE {NoSoundDma}
    /\ sound = LET s == SweepStep(SoundReset, 31)
               IN  IF program = "tunes"
                   THEN [s EXCEPT !.sweep.counter = 1, !.period = [ch \in Channels |-> 2040 - ch],
                                  !.sweep.divider = 40] ELSE s
    /\ display \in IF program = "timers"
                   THEN {[DisplayReset EXCEPT !.hb.period = p] : p \in Periods}
                   ELSE {DisplayReset}
    /\ eeproms = ResetEeproms(NewEeproms)
    /\ now = 0 /\ left = 128 /\ halted = (program = "calendar") /\ pc = "cpu1" /\ ends = FALSE
    /\ saved = StateNow /\ eager = sound /\ swept = FALSE
ProgramsNext ==
    \/ ReaderStep \/ FramesStep \/ TimersStep \/ StreamsStep \/ TunesStep \/ StoresStep
    \/ CopiesStep \/ LineStep \/ Idle \/ Answer \/ Others
ProgramsSpec == ProgramsInit /\ [][ProgramsNext]_allVars

-----------------------------------------------------------------------------
(* The seven bytes a program reads are those of one moment, the one of its *)
(* command, however many seconds pass between them and whatever the MCU    *)
(* stores meanwhile.                                                       *)
ReadsOneMoment == got = SubSeq(Bytes(asked), 1, Len(got))

(* However the length of a frame is changed while it is drawn, no frame is *)
(* longer than the longest it was told to be: the line where a frame ends  *)
(* is never jumped over.  So a program that sleeps with VBlank enabled is  *)
(* woken within a frame.                                                   *)
FramesEnd ==
    \E n \in Totals \cup {FirstTotal, Visible} :
       /\ since <= n
       /\ halted /\ VBLANK \in int.enable => slept <= n + 1

(* A looping horizontal timer asks once in every period of the lines it    *)
(* was on for, however often it was stopped and started in between.        *)
TimerKeepsTime ==
    program = "timers" /\ display.hb.counter # 0 => fired = beat \div display.hb.period

(* Sound DMA plays the block it was given, address by address, from the    *)
(* start again when it loops, and nothing else: holding, stopping and      *)
(* changing the rate lose no byte and repeat none.                         *)
StreamInOrder ==
    \A i \in DOMAIN sdma.sent :
        sdma.sent[i] = (sdma.savedSource + (IF sdma.down THEN -1 ELSE 1)
                                           * ((i - 1) % sdma.savedLength)) % Space

(* The sound chip that catches up only when it is touched plays what one   *)
(* that runs all the time would: same samples at the same times, whatever  *)
(* the program writes and whenever.  Of a sweep the same holds for the     *)
(* sweep's registers and the other channels only, for channel 2 plays on   *)
(* at the old rate until the next update.                                  *)
SoundRegisters(s) == <<s.last, s.control, s.period, s.table, s.sweep, s.noise, s.tap, s.nreg>>
Wave(s, ch) == <<s.counter[ch], s.position[ch], s.heard[ch]>>
HeardInTime ==
    program = "tunes" =>
       LET caught == SoundUpdate(sound, mem, now)
       IN  /\ SoundRegisters(caught) = SoundRegisters(eager)
           /\ \A ch \in Channels : (ch = 2 /\ swept) \/ Wave(caught, ch) = Wave(eager, ch)

(* A copy that overwrites nothing it has still to read arrives as the      *)
(* source was, in either direction and around the ends of the RAM and of   *)
(* the address space, and the bytes beside it stay.                        *)
Offset(i) == IF dma'.down THEN (i % 2) - 2 * (i \div 2) ELSE i
From(i) == (dma.source + Offset(i)) % Space
To(i) == (dma.dest + Offset(i)) % RamBytes
CopyArrives ==
    [][LET copied == 0 .. dma.length - 1
       IN  program = "copies" /\ dma.length # 0 /\ dma'.length = 0 =>
             /\ (\A i, j \in copied : i < j => To(i) # From(j)) =>
                   \A i \in copied : At(mem', To(i)) = At(mem, From(i))
             /\ \A a \in DOMAIN mem' \ {To(i) : i \in copied} : At(mem', a) = At(mem, a)]_allVars
=============================================================================
