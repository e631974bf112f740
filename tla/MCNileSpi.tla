------------------------------ MODULE MCNileSpi ------------------------------
(***************************************************************************)
(* NileSpi under a console that writes registers and buffers in any order, *)
(* from the small sets of values of one of three consoles, up to MaxOps    *)
(* writes: one that tries the controller's settings, one that sends        *)
(* commands to the flash, and one that drives the card and its power.      *)
(***************************************************************************)
EXTENDS NileSpi

VARIABLES console, ops
allVars == <<vars, console, ops>>

(* A value of SPI_CNT that starts a transfer, and one that only selects.   *)
Start(mode, slow, dev, idx) ==
    [lo |-> 0, hi |-> 0, mode |-> mode, slow |-> slow, dev |-> dev, idx |-> idx,
     busy |-> TRUE]
Select(dev, idx) == [Start("WRITE", TRUE, dev, idx) EXCEPT !.busy = FALSE]

(* What a console puts into its transmit window, and the values it gives   *)
(* to the low and the high byte of SPI_CNT and to POW_CNT.                 *)
Consoles == [
  control |-> [     \* short transfers of each kind, both clocks, both halves
    outgoing |-> {<<159, 5>>}, lows |-> {0, 1},
    highs |-> {Start(mode, slow, "FLASH", 0) : mode \in {"WRITE", "WAIT_READ"}, slow \in BOOLEAN}
              \cup {Start("EXCH", TRUE, "FLASH", 1), Start("READ", FALSE, "MCU", 1),
                    Start("WAIT_READ", TRUE, "TF", 0), [Select("NONE", 0) EXCEPT !.slow = FALSE]},
    pows |-> {{"IO_NILE", "CLOCK", "TF"}, {"IO_NILE", "TF", "MCU_RESET", "BOOT0"}, {}, PowUnlock},
    ops |-> 7],
  flash |-> [       \* flash commands cut short, left running and resumed
    outgoing |-> {<<2, 0, 0, 3>>, <<3, 0, 0, 1>>, <<159, 6, 1, 5>>}, lows |-> {0, 3},
    highs |-> {Start("EXCH", slow, "FLASH", 0) : slow \in BOOLEAN}
              \cup {Select("NONE", 0), Select("FLASH", 1), [Select("TF", 0) EXCEPT !.slow = FALSE]},
    pows |-> {{"IO_NILE"}, PowUnlock},
    ops |-> 8],
  card |-> [        \* a multiple read left running while the power goes
    outgoing |-> {<<82, 0, 0, 0, 0, 1>>, <<255, 64, 0, 0, 0, 0>>}, lows |-> {1},
    highs |-> {[Start("WRITE", TRUE, "TF", 0) EXCEPT !.hi = 1],
               Start("WAIT_READ", TRUE, "TF", 0), Select("TF", 1)},
    pows |-> {{"IO_NILE", "TF"}, {"IO_NILE"}, PowUnlock},
    ops |-> 8] ]
MaxOps == Consoles[console].ops

Operation ==
    \/ \E bytes \in Consoles[console].outgoing : CpuWrites(bytes)
    \/ \E lo \in Consoles[console].lows : WriteLow(lo)
    \/ \E s \in Consoles[console].highs : WriteHigh([s EXCEPT !.lo = spi.lo])
    \/ spi.busy /\ WriteHigh([spi EXCEPT !.busy = FALSE])
    \/ \E p \in Consoles[console].pows : WritePow(p)
    \/ Warmboot
    \/ ConsoleReset

TransferStep == Transfer /\ UNCHANGED <<console, ops>>
ConsoleStep == Operation /\ ops < MaxOps /\ ops' = ops + 1 /\ UNCHANGED console

MCInit == Init /\ ops = 0 /\ console \in DOMAIN Consoles
MCNext == TransferStep \/ ConsoleStep
MCSpec == MCInit /\ [][MCNext]_allVars /\ WF_allVars(TransferStep)

SmallImage == [a \in 0 .. 3 |-> 16 * a]
SmallBytes == [a \in 0 .. 3 |-> a]
=============================================================================
