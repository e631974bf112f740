------------------------------- MODULE WsSound -------------------------------
(***************************************************************************)
(* The sound chip (sound.cpp).  It does nothing as time passes: whoever    *)
(* touches a register, or the wave table in RAM, first calls               *)
(* WSwan_SoundUpdate, which catches up to v30mz_timestamp.  Levels         *)
(* (volumes, voice, HyperVoice, mixing) are left out; what is kept is when *)
(* each channel takes which sample.                                        *)
(*                                                                         *)
(*   last      last_ts                                                     *)
(*   control   the bits of `control` that are 1                            *)
(*   period, counter, position   of each channel                           *)
(*   table     SampleRAMPos                                                *)
(*   sweep     value, step, counter, divider (sweep_8192_divider)          *)
(*   noise, tap, nreg            noise_control's bit 4 and low bits        *)
(*   heard     what each channel put into the buffers since the last flush,*)
(*             as pairs of a time and a sample                             *)
(*                                                                         *)
(* A definition with a note such as "forgets the rest" beside it is the    *)
(* definition that follows with that mistake made.                         *)
(***************************************************************************)
EXTENDS Integers, Sequences, WsDma

Channels == 0 .. 3
VOICE == 5
SWEEP == 6
NOISE == 7

Rate(s, ch) == 2048 - s.period[ch]

(* `period_counter -= run_time; while(period_counter <= 0) ... += rate`:   *)
(* how often a counter wraps in a run, when, and where it is left.         *)
WrapsIn(counter, run, rate) == IF counter > run THEN 0 ELSE (run - counter) \div rate + 1
WrapTime(counter, rate, i) == counter + (i - 1) * rate
CounterRestarted(counter, run, rate) ==                \* forgets what was over
    IF counter > run THEN counter - run ELSE rate
CounterLeft(counter, run, rate) == counter - run + rate * WrapsIn(counter, run, rate)

(* MK_SAMPLE_CACHE: the nibble of a channel's 32 in the wave table.        *)
Sample(s, mem, ch, position) ==
    LET byte == At(mem, 64 * s.table + 16 * ch + (position \div 2))
    IN  IF position % 2 = 1 THEN byte \div 16 ELSE byte % 16

PlayWave(s, mem, ch, now) ==
    LET run == now - s.last
        n == WrapsIn(s.counter[ch], run, Rate(s, ch))
        Taken(i) == <<s.last + WrapTime(s.counter[ch], Rate(s, ch), i),
                      Sample(s, mem, ch, (s.position[ch] + i) % 32)>>
    IN  IF Rate(s, ch) <= 4 THEN s
        ELSE [s EXCEPT !.counter[ch] = CounterLeft(@, run, Rate(s, ch)),
                       !.position[ch] = (@ + n) % 32,
                       !.heard[ch] = @ \o [i \in 1 .. n |-> Taken(i)]]

(* Channel 3 as noise: a shift register of 15 bits with a tap.             *)
Bit(x, n) == (x \div 2 ^ n) % 2
Taps == <<14, 10, 13, 4, 8, 6, 9, 11>>
Shifted(x, tap) == (2 * x + ((1 + Bit(x, 7) + Bit(x, Taps[tap + 1])) % 2)) % 32768
PlayNoise(s, now) ==
    LET run == now - s.last
        n == WrapsIn(s.counter[3], run, Rate(s, 3))
        Nreg[i \in 0 .. n] == IF i = 0 THEN s.nreg ELSE Shifted(Nreg[i - 1], s.tap)
        Taken(i) == <<s.last + WrapTime(s.counter[3], Rate(s, 3), i), 15 * Bit(Nreg[i], 0)>>
    IN  [s EXCEPT !.counter[3] = CounterLeft(@, run, Rate(s, 3)), !.nreg = Nreg[n],
                  !.heard[3] = @ \o [i \in 1 .. n |-> Taken(i)]]

(* The sweep of channel 2: every 8192 cycles the counter goes down, and at *)
(* 0 the period changes.  `tmp_pt` was read before: until the next update  *)
(* the channel plays on at the old rate.                                   *)
Signed(byte) == IF byte < 128 THEN byte ELSE byte - 256
Swept(s, now) ==
    LET run == now - s.last
        ticks == WrapsIn(s.sweep.divider, run, 8192)
        first == IF s.sweep.counter = 0 THEN 256 ELSE s.sweep.counter
        every == s.sweep.step + 1
        steps == WrapsIn(first, ticks, every)
    IN  [s EXCEPT !.sweep.divider = CounterLeft(@, run, 8192),
                  !.sweep.counter = CounterLeft(first, ticks, every) % 256,
                  !.period[2] = (@ + steps * Signed(s.sweep.value)) % 2048]

(* WSwan_SoundUpdate.  Channels do not disturb each other.                 *)
Sweeps(s) == {2, SWEEP} \subseteq s.control /\ s.sweep.value # 0
Hisses(s) == {3, NOISE} \subseteq s.control /\ s.noise
Play(s, mem, ch, now) ==
    CASE ch \notin s.control \/ (ch = 1 /\ VOICE \in s.control) -> s
      [] ch = 3 /\ Hisses(s) -> PlayNoise(s, now)
      [] ch = 2 /\ Sweeps(s) ->
            [PlayWave(s, mem, 2, now) EXCEPT !.period[2] = Swept(s, now).period[2],
                                             !.sweep = Swept(s, now).sweep]
      [] OTHER -> PlayWave(s, mem, ch, now)
SoundUpdate(s, mem, now) ==
    LET After[ch \in -1 .. 3] == IF ch = -1 THEN s ELSE Play(After[ch - 1], mem, ch, now)
    IN  [After[3] EXCEPT !.last = now]

-----------------------------------------------------------------------------
(* What WSwan_SoundWrite changes, port by port.                            *)
PeriodLow(s, ch, byte) == [s EXCEPT !.period[ch] = 256 * (@ \div 256) + byte]
PeriodHigh(s, ch, byte) == [s EXCEPT !.period[ch] = (@ % 256) + 256 * (byte % 8)]
SweepValue(s, byte) == [s EXCEPT !.sweep.value = byte]
SweepStep(s, byte) ==
    [s EXCEPT !.sweep = [value |-> @.value, step |-> byte, counter |-> (byte + 1) % 256,
                         divider |-> 8192]]
NoiseControl(s, tap, clear, on) ==
    [s EXCEPT !.tap = tap, !.noise = on, !.nreg = IF clear THEN 0 ELSE @]
ShiftLow(s, byte) == [s EXCEPT !.nreg = 256 * (@ \div 256) + byte]
ShiftHigh(s, byte) == [s EXCEPT !.nreg = (@ % 256) + 256 * (byte % 128)]
Control(s, bits) ==
    LET starts == (bits \ s.control) \cap Channels
    IN  [s EXCEPT !.control = bits,
                  !.counter = [ch \in Channels |-> IF ch \in starts THEN 1 ELSE @[ch]],
                  !.position = [ch \in Channels |-> IF ch \in starts THEN 31 ELSE @[ch]]]
Table(s, byte) == [s EXCEPT !.table = byte]

(* WSwan_SoundFlush, and the time stamp goes back to 0 behind it.          *)
SoundFlush(s, mem, now) ==
    [SoundUpdate(s, mem, now) EXCEPT !.last = 0, !.heard = [ch \in Channels |-> <<>>]]

SoundReset ==
    [last |-> 0, control |-> {}, period |-> [ch \in Channels |-> 0],
     counter |-> [ch \in Channels |-> 1], position |-> [ch \in Channels |-> 0], table |-> 0,
     sweep |-> [value |-> 0, step |-> 0, counter |-> 0, divider |-> 8192],
     noise |-> FALSE, tap |-> 0, nreg |-> 0, heard |-> [ch \in Channels |-> <<>>]]
=============================================================================
