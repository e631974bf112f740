------------------------------ MODULE MCNileCart ------------------------------
(***************************************************************************)
(* NileCart under one of two programs, up to MaxOps stores and register    *)
(* writes in any order.  `segment` sets up masks and banks, locks POW_CNT  *)
(* and goes on writing banks; `flash` sends flash commands, turns the      *)
(* command machine off and on between them and moves its window.           *)
(***************************************************************************)
EXTENDS NileCart

VARIABLES program, ops
allVars == <<busAllVars, program, ops>>

AllBits == 0 .. 7
Select(idx) == [SpiZero EXCEPT !.dev = "FLASH", !.slow = TRUE, !.idx = idx]

(* The values of each register, and the stores.                            *)
Software == [
  segment |-> [
    romLs |-> {{}, AllBits}, lows |-> {{0, 2}, 1 .. 7}, highs |-> {AllBits},
    masks |-> {{0}, {1, 2, 3}, {1, 2, 3, 5}}, emus |-> {{"SRAM_32KB"}},
    pows |-> {{"SRAM", "IO_2003"}, PowUnlock},
    spis |-> {}, windows |-> {1, 3}, offsets |-> {40000}, values |-> {1}, ops |-> 6],
  flash |-> [
    romLs |-> {}, lows |-> {{1, 2, 3}}, highs |-> {},
    masks |-> {}, emus |-> {{}, {"FLASH_FSM"}}, pows |-> {},
    spis |-> {}, windows |-> {1}, offsets |-> {0}, values |-> {170, 85, 160, 32, 144, 1},
    ops |-> 8],
  transfer |-> [
    romLs |-> {}, lows |-> {}, highs |-> {}, masks |-> {}, emus |-> {}, pows |-> {PowUnlock},
    spis |-> {Select(1), [Select(0) EXCEPT !.busy = TRUE, !.mode = "EXCH", !.lo = 1]},
    windows |-> {1}, offsets |-> {0, 1}, values |-> {6, 159}, ops |-> 6] ]
Uses == Software[program]

Operation ==
    \/ \E byte \in Uses.romLs, via \in BOOLEAN : WriteRomL(via, byte)
    \/ \E name \in {"ram", "rom1"}, byte \in Uses.lows : WriteBankLow(name, FALSE, byte)
    \/ \E name \in {"ram", "rom0"}, byte \in Uses.highs : WriteBankHigh(name, byte)
    \/ \E byte \in Uses.masks : WriteMask(LowWritten(bankMask, byte))
    \/ \E byte \in Uses.masks : WriteMask(HighWritten(bankMask, byte))
    \/ \E on \in BOOLEAN : WriteFlashEnable(on)
    \/ \E bits \in Uses.emus : WriteEmu(bits)
    \/ \E new \in Uses.pows : PowWrite(new)
    \/ \E new \in Uses.spis : WriteHigh([new EXCEPT !.lo = spi.lo]) /\ UNCHANGED cartVars
    \/ CartWarmboot
    \/ CartReset

StoreStep ==
    \E window \in Uses.windows, offset \in Uses.offsets, value \in Uses.values :
        CartWrite(window, offset, value)
CountedStep == (Operation \/ StoreStep) /\ ops < Uses.ops /\ ops' = ops + 1 /\ UNCHANGED program
TransferStep == Transfer /\ UNCHANGED <<cartVars, program, ops>>

MCInit == CartInit /\ ops = 0 /\ program \in DOMAIN Software
MCNext == CountedStep \/ TransferStep
MCSpec == MCInit /\ [][MCNext]_allVars

NoImage == [a \in 0 .. 3 |-> 0]
=============================================================================
