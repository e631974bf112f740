-------------------------------- MODULE WsDma --------------------------------
(***************************************************************************)
(* The two DMA channels of the console (memory.cpp).  The general one      *)
(* copies into the internal RAM, all at once, when its control port is     *)
(* written; the sound one hands a byte at a time to the sound chip when    *)
(* the line asks it to.  Memory is what the processor reads at its 20 bit  *)
(* addresses, a function that is 0 where it is not defined; the internal   *)
(* RAM is its first 64 KiB.                                                *)
(*                                                                         *)
(* A definition with a note such as "forgets the loop" beside it is the    *)
(* definition that follows with that mistake made.                         *)
(***************************************************************************)
EXTENDS Integers, Sequences

Space == 16 * 256 * 256
RamBytes == 65536

At(mem, a) == IF a \in DOMAIN mem THEN mem[a] ELSE 0
Put(mem, a, byte) == [x \in DOMAIN mem \cup {a} |-> IF x = a THEN byte ELSE mem[x]]

-----------------------------------------------------------------------------
(* General DMA: source, dest, length, and of its control the direction.    *)

EvenLow(value, byte) == 256 * (value \div 256) + 2 * (byte \div 2)

(* ws_CheckDMA: two bytes at a time until the length is used up.           *)
Step(dma) == IF dma.down THEN -2 ELSE 2
DestStraight(dma, i) == dma.dest + Step(dma) * i       \* forgets the wrap
Dest(dma, i) == (dma.dest + Step(dma) * i) % RamBytes
Source(dma, i) == (dma.source + Step(dma) * i) % Space
Transferred(dma, mem) ==
    LET After[n \in 0 .. dma.length \div 2] ==
          IF n = 0 THEN mem
          ELSE LET m == After[n - 1]
                   low == Put(m, Dest(dma, n - 1), At(m, Source(dma, n - 1)))
               IN  Put(low, Dest(dma, n - 1) + 1, At(low, Source(dma, n - 1) + 1))
    IN  After[dma.length \div 2]
AfterTransfer(dma) ==
    [dma EXCEPT !.source = Source(dma, dma.length \div 2),
                !.dest = Dest(dma, dma.length \div 2), !.length = 0]

NoDma == [source |-> 0, dest |-> 0, length |-> 0, down |-> FALSE]

-----------------------------------------------------------------------------
(* Sound DMA: the registers, the values a loop goes back to, the timer.    *)
(* Of its control: on, hold, down, loop, hyper (the port it feeds), rate.  *)
(* `sent`, auxiliary, is the addresses it read since its block was set.    *)

(* Ports 0x4A to 0x50: a byte of a register and of its saved value alike.  *)
Weight(n) == <<1, 256, 256 * 256>>[n + 1]
PutByte(value, n, byte) ==
    LET kept == value - Weight(n) * ((value \div Weight(n)) % 256)
    IN  kept + Weight(n) * IF n = 2 THEN byte % 16 ELSE byte
SetSource(s, n, byte) ==
    [s EXCEPT !.source = PutByte(@, n, byte), !.savedSource = PutByte(@, n, byte), !.sent = <<>>]
SetLength(s, n, byte) ==
    [s EXCEPT !.length = PutByte(@, n, byte), !.savedLength = PutByte(@, n, byte), !.sent = <<>>]
SetControl(s, control) ==
    [s EXCEPT !.on = control.on, !.hold = control.hold, !.down = control.down,
              !.loop = control.loop, !.hyper = control.hyper, !.rate = control.rate]

Due(s) == s.on /\ s.timer = 0
Reload(rate) == <<5, 3, 1, 0>>[rate + 1]

(* The registers behind the byte at `source`, which goes to the sound chip. *)
AdvancedNoReload(s) ==                                 \* forgets the saved source
    LET left == (s.length - 1) % Space
    IN  [s EXCEPT !.source = (@ + IF s.down THEN -1 ELSE 1) % Space,
                  !.length = IF left = 0 /\ s.loop THEN s.savedLength ELSE left,
                  !.on = left # 0 \/ s.loop, !.sent = Append(@, s.source)]
Advanced(s) ==
    LET left == (s.length - 1) % Space
        over == left = 0 /\ s.loop
    IN  [s EXCEPT !.source = IF over THEN s.savedSource
                             ELSE (@ + IF s.down THEN -1 ELSE 1) % Space,
                  !.length = IF over THEN s.savedLength ELSE left,
                  !.on = left # 0 \/ s.loop, !.sent = Append(@, s.source)]

(* WSwan_CheckSoundDMA.                                                    *)
CheckSoundDMA(s) ==
    CASE ~s.on -> s
      [] s.on /\ s.timer # 0 -> [s EXCEPT !.timer = @ - 1]
      [] OTHER -> [(IF s.hold THEN s ELSE Advanced(s)) EXCEPT !.timer = Reload(s.rate)]

NoSoundDma ==
    [source |-> 0, savedSource |-> 0, length |-> 0, savedLength |-> 0, on |-> FALSE,
     hold |-> FALSE, down |-> FALSE, loop |-> FALSE, hyper |-> FALSE, rate |-> 0,
     timer |-> 0, sent |-> <<>>]
=============================================================================
