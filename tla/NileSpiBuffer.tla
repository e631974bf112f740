---------------------------- MODULE NileSpiBuffer ----------------------------
(***************************************************************************)
(* The byte queues every emulated SPI device of the nileswan cartridge     *)
(* keeps: one for bytes from the console (rx) and one for bytes to it (tx).*)
(* nileswan.cpp implements them as a fixed array with a fill level `pos`;  *)
(* here a queue is the sequence of the bytes below `pos`.                  *)
(***************************************************************************)
EXTENDS Integers, Sequences

CONSTANT BufSize    \* SPI_DEVICE_BUFFER_SIZE_BYTES, 4096 in the source

ASSUME BufSizeAssumption == BufSize \in Nat \ {0}

Byte == 0 .. 255
FillByte == 255     \* what a read of an empty queue, or an idle bus, returns

(* spi_buffer_push ends the process unless the bytes leave one cell free.  *)
Fits(buf, n) == Len(buf) + n < BufSize

(* spi_buffer_pop, the queue it leaves: asking for too much empties it.    *)
Pop(buf, n) == SubSeq(buf, n + 1, Len(buf))

(* spi_buffer_pop, the byte a pop of one byte hands out.                   *)
First(buf) == IF buf = <<>> THEN FillByte ELSE Head(buf)

(* A run of n equal bytes: what a push of NULL data or a memset stores.    *)
Fill(n, b) == [i \in 1 .. n |-> b]
=============================================================================
