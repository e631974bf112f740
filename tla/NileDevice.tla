----------------------------- MODULE NileDevice -----------------------------
(***************************************************************************)
(* What the MCU and the flash share besides their queues: the process that *)
(* emulates them, which exit(1) ends (spi_buffer_push) and which nothing   *)
(* more is asked of when it used a file that is not there.                 *)
(***************************************************************************)
EXTENDS NileSpiBuffer

VARIABLE halted     \* the process has ended
=============================================================================
