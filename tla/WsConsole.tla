------------------------------ MODULE WsConsole ------------------------------
(***************************************************************************)
(* The console around its processor: a frame is a sequence of lines        *)
(* (Emulate of main.cpp, wsExecuteLine of gfx.cpp), a line runs the        *)
(* processor three times and, around that, drives the timers, the sound    *)
(* DMA and the real time clock, and requests interrupts.  Between two      *)
(* instructions' worth of cycles the program writes registers.             *)
(*                                                                         *)
(* `pc` is where the emulation is: `host` between two frames, `line` in    *)
(* front of a line, `cpu1`, `cpu2`, `cpu3` in v30mz_execute(128), (96) and *)
(* (32).  `left` is v30mz_ICount, the cycles a run of the processor still  *)
(* has; an instruction may take more, and the next run less.  The UART     *)
(* works once a line too: that is WsComm's Process.                        *)
(*                                                                         *)
(* A definition with a note such as "forgets the line itself" beside it is *)
(* the definition that follows with that mistake made.                     *)
(***************************************************************************)
EXTENDS WsInterrupt, WsRtc, WsEeprom, WsSound

CONSTANTS
    Visible,        \* lines that are drawn, 144 in the source
    FirstTotal      \* the last line of a frame after a reset, 158 in the source

ASSUME ConsoleAssumption == Visible \in 3 .. 254 /\ FirstTotal \in 0 .. 255

VARIABLES
    int, rtc, mem, dma, sdma, sound,
    eeproms,        \* "own" and "cart"
    display,        \* of gfx.cpp: the registers and counters that keep time, and the mode
    now,            \* v30mz_timestamp, cycles since the frame began
    left, halted, pc,
    ends,           \* ret: this line ends the frame
    saved
deviceVars == <<int, rtc, mem, dma, sdma, sound, eeproms, display>>
cpuVars == <<now, left, halted, pc, ends>>
vars == <<deviceVars, cpuVars, saved>>

LINE_HIT == 4
VBLANK_TIMER == 5
VBLANK == 6
HBLANK_TIMER == 7

Timer0 == [counter |-> 0, period |-> 0, on |-> FALSE, loop |-> FALSE]

(* A timer is counted down, asks for its interrupt at 0 and, if it loops,  *)
(* starts again.                                                           *)
Fires(t) == t.on /\ t.counter = 1
CountedShort(t) ==                                     \* starts again a line early
    IF t.on /\ t.counter # 0
    THEN [t EXCEPT !.counter = IF Fires(t) /\ t.loop /\ t.period # 0 THEN t.period - 1 ELSE @ - 1]
    ELSE t
CountedDown(t) ==
    IF t.on /\ t.counter # 0
    THEN [t EXCEPT !.counter = IF Fires(t) /\ t.loop THEN t.period ELSE @ - 1] ELSE t
Request(i, which, when) == IF when THEN Interrupt(i, which) ELSE i

-----------------------------------------------------------------------------
(* wsExecuteLine, up to the first run of the processor.  The sprites of    *)
(* the next frame are copied near the end of this one, into the table that *)
(* is not being drawn.                                                     *)
Caught == SoundUpdate(sound, mem, now)
SoundDma == sdma' = CheckSoundDMA(sdma) /\ sound' = IF Due(sdma) THEN Caught ELSE sound

LatchDrawn(d) ==                                       \* forgets which table is drawn
    IF d.line = Visible - 2 THEN [d EXCEPT !.tables[d.drawn] = d.sprites] ELSE d
Latch(d) ==
    IF d.line = Visible - 2 THEN [d EXCEPT !.tables[1 - d.drawn] = d.sprites] ELSE d
AtVBlank == display.line = Visible
BeginLine ==
    /\ pc = "line"
    /\ SoundDma
    /\ ends' = AtVBlank
    /\ display' = [Latch(display) EXCEPT !.drawn = IF AtVBlank THEN 1 - @ ELSE @,
                                         !.vb = IF AtVBlank THEN CountedDown(@) ELSE @,
                                         !.hb = CountedDown(@)]
    /\ int' = Request(Request(Request(int, VBLANK, AtVBlank),
                              VBLANK_TIMER, AtVBlank /\ Fires(display.vb)),
                      HBLANK_TIMER, Fires(display.hb))
    /\ pc' = "cpu1" /\ left' = left + 128
    /\ UNCHANGED <<rtc, mem, dma, eeproms, now, halted, saved>>

MidLine ==
    /\ pc = "cpu1" /\ left <= 0
    /\ SoundDma
    /\ pc' = "cpu2" /\ left' = left + 96
    /\ UNCHANGED <<int, rtc, mem, dma, eeproms, display, now, halted, ends, saved>>

(* The line counter moves on, and is compared.                             *)
Larger(a, b) == IF a > b THEN a ELSE b
NextLineShort(d) ==                                    \* forgets the line itself
    (d.line + 1) % Larger(Visible, d.total)
NextLine(d) == (d.line + 1) % (Larger(Visible, d.total) + 1)
LateLine ==
    /\ pc = "cpu2" /\ left <= 0
    /\ display' = [display EXCEPT !.line = NextLine(display)]
    /\ int' = Request(int, LINE_HIT, NextLine(display) = display.compare)
    /\ pc' = "cpu3" /\ left' = left + 32
    /\ UNCHANGED <<rtc, mem, dma, sdma, sound, eeproms, now, halted, ends, saved>>

(* The line is over; a line that ends the frame ends Emulate's loop, which *)
(* hands out the sound and sets the time back.                             *)
EndLine ==
    /\ pc = "cpu3" /\ left <= 0
    /\ rtc' = RTC_Clock(rtc, 256)
    /\ pc' = IF ends THEN "host" ELSE "line"
    /\ now' = IF ends THEN 0 ELSE now
    /\ sound' = IF ends THEN SoundFlush(sound, mem, now) ELSE sound
    /\ UNCHANGED <<int, mem, dma, sdma, eeproms, display, left, halted, ends, saved>>

-----------------------------------------------------------------------------
(* The processor: an instruction that takes some cycles, a halt, which     *)
(* lasts until the controller has a request for it, and the registers.     *)
Running == pc \in {"cpu1", "cpu2", "cpu3"} /\ left > 0 /\ ~halted
Takes(cycles) == now' = now + cycles /\ left' = left - cycles

Compute(cycles) ==
    /\ Running /\ Takes(cycles)
    /\ UNCHANGED <<deviceVars, halted, pc, ends, saved>>
Halt ==
    /\ Running
    /\ halted' = TRUE
    /\ UNCHANGED <<deviceVars, now, left, pc, ends, saved>>
Sleep ==
    /\ halted /\ left > 0 /\ ~int.cache.on
    /\ Takes(left)
    /\ UNCHANGED <<deviceVars, halted, pc, ends, saved>>
Wake ==
    /\ halted /\ left > 0 /\ int.cache.on
    /\ halted' = FALSE
    /\ UNCHANGED <<deviceVars, now, left, pc, ends, saved>>

Register == Running /\ UNCHANGED <<cpuVars, saved>>
SetInt(new) ==
    Register /\ int' = new /\ UNCHANGED <<rtc, mem, dma, sdma, sound, eeproms, display>>
SetDisplay(new) ==
    Register /\ display' = new /\ UNCHANGED <<int, rtc, mem, dma, sdma, sound, eeproms>>
SetRtc(new) ==
    Register /\ rtc' = new /\ UNCHANGED <<int, mem, dma, sdma, sound, eeproms, display>>
SetSdma(new) ==
    Register /\ sdma' = new /\ UNCHANGED <<int, rtc, mem, dma, sound, eeproms, display>>
(* wsGetEepromMask and eeprom_size, taken anew for every command.          *)
Size(which) ==
    CASE which = "cart" -> CartWords
      [] which = "own" /\ display.colour -> ColourWords
      [] which = "own" /\ ~display.colour -> MonoWords
SetEeprom(which, new) ==
    /\ Register /\ eeproms' = [eeproms EXCEPT ![which] = new]
    /\ UNCHANGED <<int, rtc, mem, dma, sdma, sound, display>>

(* Ports 0x03, 0x04 to 0x06 (one value here) and 0x16; 0xA2; the periods,  *)
(* whose high byte starts the timer.                                       *)
SetCompare(byte) == SetDisplay([display EXCEPT !.compare = byte])
SetSprites(value) == SetDisplay([display EXCEPT !.sprites = value])
SetTotal(byte) == SetDisplay([display EXCEPT !.total = byte])

(* Port 0x60, of which bit 7 is wsIsColor.                                 *)
SetColour(on) == SetDisplay([display EXCEPT !.colour = on])
SetTimers(hbOn, hbLoop, vbOn, vbLoop) ==
    SetDisplay([display EXCEPT !.hb.on = hbOn, !.hb.loop = hbLoop,
                               !.vb.on = vbOn, !.vb.loop = vbLoop])
PeriodByteLow(t, byte) == [t EXCEPT !.period = LowByte(@, byte)]
PeriodByteHigh(t, byte) ==
    [t EXCEPT !.period = HighByte(@, byte), !.counter = HighByte(t.period, byte)]

(* WSwan_SoundWrite catches up before and after the change.                *)
SetSound(new) ==
    /\ Register /\ sound' = SoundUpdate(new, mem, now)
    /\ UNCHANGED <<int, rtc, mem, dma, sdma, eeproms, display>>

(* WriteMem into the RAM: the sound chip must catch up before its wave     *)
(* table changes.                                                          *)
RamWriteUnheard(a) == sound                            \* forgets the sound chip
RamWriteHeard(a) == IF a \div 64 = sound.table THEN Caught ELSE sound
RamWrite(a, byte) ==
    /\ Register
    /\ sound' = RamWriteHeard(a)
    /\ mem' = Put(mem, a, byte)
    /\ UNCHANGED <<int, rtc, dma, sdma, eeproms, display>>

(* Ports 0x40 to 0x47, and 0x48 with bit 7 set.                            *)
SetDma(new) ==
    Register /\ dma' = new /\ UNCHANGED <<int, rtc, mem, sdma, sound, eeproms, display>>
StartDma(down) ==
    LET d == [dma EXCEPT !.down = down]
    IN  /\ Register
        /\ mem' = Transferred(d, mem) /\ dma' = AfterTransfer(d)
        /\ sound' = IF \E i \in 0 .. d.length \div 2 - 1 : Dest(d, i) \div 64 = sound.table
                    THEN Caught ELSE sound
        /\ UNCHANGED <<int, rtc, sdma, eeproms, display>>

-----------------------------------------------------------------------------
(* The host: it runs a frame, resets, saves and loads.                     *)
Emulate ==
    /\ pc = "host" /\ pc' = "line"
    /\ UNCHANGED <<deviceVars, now, left, halted, ends, saved>>

(* Reset (main.cpp), with the values start.inc writes to the ports: the    *)
(* console's EEPROM is locked, the mode has no colour, the vertical timer  *)
(* is set and not on.  The calendar and the words of the EEPROMs stay.     *)
DisplayReset ==
    [line |-> 0, compare |-> 187, total |-> FirstTotal, sprites |-> 0, tables |-> [i \in 0 .. 1 |-> 0],
     drawn |-> 0, colour |-> FALSE, hb |-> Timer0, vb |-> [Timer0 EXCEPT !.period = 65359, !.counter = 65359]]
ResetEeproms(e) ==
    [own |-> EEPROMCommand([EEPROMReset(e.own) EXCEPT !.address = 66], MonoWords, TRUE, 0),
     cart |-> EEPROMReset(e.cart)]
Reset ==
    /\ pc = "host"
    /\ int' = InterruptReset /\ rtc' = RTC_Reset(rtc) /\ mem' = <<>>
    /\ dma' = NoDma /\ sdma' = NoSoundDma /\ sound' = SweepStep(SoundReset, 31)
    /\ eeproms' = ResetEeproms(eeproms) /\ display' = DisplayReset
    /\ now' = 0 /\ left' = 0 /\ halted' = FALSE
    /\ UNCHANGED <<pc, ends, saved>>

StateNow == [int |-> int, rtc |-> rtc, mem |-> mem, dma |-> dma, sdma |-> sdma, sound |-> sound,
             eeproms |-> eeproms, display |-> display, left |-> left, halted |-> halted]
Save ==
    /\ pc = "host" /\ saved' = StateNow
    /\ UNCHANGED <<deviceVars, cpuVars>>
Load ==
    /\ pc = "host"
    /\ int' = InterruptLoad(int, saved.int)
    /\ rtc' = saved.rtc /\ mem' = saved.mem /\ dma' = saved.dma /\ sdma' = saved.sdma
    /\ sound' = saved.sound /\ display' = saved.display
    /\ eeproms' = [which \in DOMAIN eeproms |-> EEPROMLoad(eeproms[which], saved.eeproms[which])]
    /\ left' = saved.left /\ halted' = saved.halted
    /\ UNCHANGED <<now, pc, ends, saved>>

(* LoadGame: RTC_Init, Reset, then the lock the cartridge's header asks.   *)
NewEeproms == [own |-> NewEeprom(ColourWords, TRUE), cart |-> NewEeprom(CartWords, FALSE)]
Init ==
    /\ \E date \in Dates : rtc = RTC_Init(date)
    /\ int = InterruptReset /\ mem = <<>> /\ dma = NoDma /\ sdma = NoSoundDma
    /\ sound = SweepStep(SoundReset, 31) /\ display = DisplayReset
    /\ \E locked \in BOOLEAN : eeproms =
          LET e == ResetEeproms(NewEeproms)
          IN  [e EXCEPT !.own = EEPROMLock(e.own, locked)]
    /\ now = 0 /\ left = 0 /\ halted = FALSE /\ pc = "host" /\ ends = FALSE
    /\ saved = StateNow

Line == BeginLine \/ MidLine \/ LateLine \/ EndLine

-----------------------------------------------------------------------------
(* What a program may do to each part, at any time it runs.                *)
Byte == 0 .. 255
InterruptPorts ==
    \/ \E bits \in SUBSET Sources : SetInt(WriteEnable(int, bits)) \/ SetInt(Acknowledge(int, bits))
    \/ \E byte \in Byte : SetInt(WriteBase(int, byte))
DisplayPorts ==
    \/ \E byte \in Byte :
          \/ SetCompare(byte) \/ SetSprites(byte) \/ SetTotal(byte)
          \/ SetDisplay([display EXCEPT !.hb = PeriodByteLow(@, byte)])
          \/ SetDisplay([display EXCEPT !.hb = PeriodByteHigh(@, byte)])
          \/ SetDisplay([display EXCEPT !.vb = PeriodByteLow(@, byte)])
          \/ SetDisplay([display EXCEPT !.vb = PeriodByteHigh(@, byte)])
    \/ \E hbOn, hbLoop, vbOn, vbLoop \in BOOLEAN : SetTimers(hbOn, hbLoop, vbOn, vbLoop)
    \/ \E on \in BOOLEAN : SetColour(on)
ClockPorts ==
    \/ \E byte \in Byte : SetRtc(RTC_Command(rtc, byte)) \/ SetRtc(RTC_Data(rtc, byte))
    \/ SetRtc(AfterRead(rtc))
    \/ \E date \in Dates : SetRtc(StoreDate(rtc, date)) \/ SetRtc(StoreTime(rtc, date))
EepromPorts ==
    \E which \in {"own", "cart"}, byte \in Byte :
       \/ SetEeprom(which, [eeproms[which] EXCEPT !.address = LowByte(@, byte)])
       \/ SetEeprom(which, [eeproms[which] EXCEPT !.address = HighByte(@, byte)])
       \/ SetEeprom(which, [eeproms[which] EXCEPT !.data = LowByte(@, byte)])
       \/ SetEeprom(which, [eeproms[which] EXCEPT !.data = HighByte(@, byte)])
       \/ \E lock \in BOOLEAN, op \in {0, 4, 5, 6} :
             SetEeprom(which, EEPROMCommand(eeproms[which], Size(which), lock, op))
DmaPorts ==
    \/ \E byte \in Byte :
          \/ SetDma([dma EXCEPT !.length = EvenLow(@, byte)])
          \/ SetDma([dma EXCEPT !.length = HighByte(@, byte)])
          \/ SetDma([dma EXCEPT !.dest = EvenLow(@, byte)])
          \/ SetDma([dma EXCEPT !.dest = HighByte(@, byte)])
          \/ SetDma([dma EXCEPT !.source = EvenLow(@, byte)])
          \/ \E n \in 1 .. 2 : SetDma([dma EXCEPT !.source = PutByte(@, n, byte)])
          \/ \E n \in 0 .. 2 : SetSdma(SetSource(sdma, n, byte)) \/ SetSdma(SetLength(sdma, n, byte))
    \/ \E down \in BOOLEAN : StartDma(down)
    \/ \E on, hold, down, loop, hyper \in BOOLEAN, rate \in 0 .. 3 :
          SetSdma(SetControl(sdma, [on |-> on, hold |-> hold, down |-> down, loop |-> loop,
                                    hyper |-> hyper, rate |-> rate]))
SoundPorts ==
    \/ SetSound(Caught)
    \/ \E byte \in Byte, ch \in Channels :
          SetSound(PeriodLow(Caught, ch, byte)) \/ SetSound(PeriodHigh(Caught, ch, byte))
    \/ \E byte \in Byte :
          \/ SetSound(SweepValue(Caught, byte)) \/ SetSound(SweepStep(Caught, byte))
          \/ SetSound(ShiftLow(Caught, byte)) \/ SetSound(ShiftHigh(Caught, byte))
          \/ SetSound(Table(Caught, byte))
    \/ \E bits \in SUBSET (0 .. 7) : SetSound(Control(Caught, bits))
    \/ \E tap \in 0 .. 7, clear, on \in BOOLEAN : SetSound(NoiseControl(Caught, tap, clear, on))

Program ==
    \/ InterruptPorts \/ DisplayPorts \/ ClockPorts \/ EepromPorts \/ DmaPorts \/ SoundPorts
    \/ \E a \in 0 .. RamBytes - 1, byte \in Byte : RamWrite(a, byte)
    \/ (\E cycles \in Nat \ {0} : Compute(cycles)) \/ Halt
Host == Emulate \/ Reset \/ Save \/ Load
Next == Line \/ Program \/ Sleep \/ Wake \/ Host
Spec == Init /\ [][Next]_vars

-----------------------------------------------------------------------------
(* The types of the parts with a theorem, in the console and in its save.  *)
Timers == [counter : Address, period : Address, on : BOOLEAN, loop : BOOLEAN]
Displays ==
    [line : Byte, compare : Byte, total : Byte, sprites : Nat, tables : [0 .. 1 -> Nat],
     drawn : 0 .. 1, colour : BOOLEAN, hb : Timers, vb : Timers]
OwnAndCart ==
    {e \in [own : Eeproms(ColourWords), cart : Eeproms(CartWords)] :
        e.own.internal /\ ~e.cart.internal}
InterruptTyped == int \in Controllers /\ saved.int \in Controllers
ClockTyped == rtc \in Clocks /\ saved.rtc \in Clocks
EepromsTyped == eeproms \in OwnAndCart /\ saved.eeproms \in OwnAndCart
DisplayTyped == display \in Displays /\ saved.display \in Displays

(* The processor is told what the controller's registers say, and no level *)
(* that is high and enabled lacks its request, through every line of the   *)
(* display, every register write, every reset and every loaded state.      *)
AlwaysTold == Fresh(int) /\ Held(int)

(* Every tick of the clock takes a date of the calendar to the next second *)
(* of the century, over the ends of months, leap days and the century.     *)
TickIsSuccessor ==
    [][pc = "cpu3" /\ pc' # pc /\ rtc'.date # rtc.date /\ DateValid(rtc.date) =>
          DateValid(rtc'.date) /\ Moment(rtc'.date) = NextMoment(Moment(rtc.date))]_vars

(* Whatever bytes are stored as a date, every field a tick changes has a   *)
(* value of that field afterwards: an impossible date heals.  A day or a   *)
(* month may take a step more: some, 0x99 and 0x0F, are counted to 0 first.*)
TickHeals ==
    [][pc = "cpu3" /\ pc' # pc => \A f \in DOMAIN rtc.date :
          \/ rtc'.date[f] = rtc.date[f]
          \/ FieldValid(f, rtc'.date[f])
          \/ f \in {"mon", "mday"} /\ rtc'.date[f] = 0]_vars

(* The sprites change between frames only: the table being drawn is never  *)
(* written while lines are drawn from it.                                  *)
SpritesWhole ==
    [][display.line < Visible /\ pc # "host" =>
          display'.tables[display'.drawn] = display.tables[display.drawn]]_vars

(* Once locked, the console's own EEPROM stays locked, whatever commands   *)
(* and video modes follow each other, until the host resets the console or *)
(* loads a state; and the words from ProtectFrom on keep what they hold,   *)
(* but for one command: outside the colour modes, writing all words with   *)
(* an address whose word is below ProtectFrom, which gets past the lock    *)
(* and overwrites as many words as the EEPROM has in that mode.  The rest, *)
(* that only a colour mode reaches, it leaves alone.                       *)
Overwritten ==
    LET own == eeproms.own
    IN  /\ ~display.colour /\ ~own.disabled
        /\ Special(own, MonoWords, {1}) /\ Word(MonoWords, own.address) < ProtectFrom
        /\ \E value \in {own.data, ERASED} : eeproms'.own.words = All(own, MonoWords, value)
ProtectedHeld ==
    [][pc # "host" /\ eeproms.own.lock =>
          /\ eeproms'.own.lock
          /\ \/ Overwritten
             \/ \A w \in ProtectFrom .. ColourWords - 1 :
                   eeproms'.own.words[w] = eeproms.own.words[w]]_vars
=============================================================================
