----------------------------- MODULE MCNileFlash -----------------------------
(***************************************************************************)
(* NileFlashHost with two pages of four bytes, every command of the chip,  *)
(* reads from each address and program operations that wrap.               *)
(***************************************************************************)
EXTENDS NileFlashHost

TwoPages == [a \in 0 .. 7 |-> 100 + a]

OnTwoPages ==
    {<<READ, 0, 0, a>> : a \in 0 .. 7} \cup {<<READ, 0, 1, 2>>, <<READ, 3, 0, 0>>}
    \cup {<<WRITE, 0, 0, a>> \o [i \in 1 .. 5 |-> READ + i] : a \in {1, 7}}
    \cup {<<MFR_ID, 0, 0, 0>>, <<1, 0>>, <<ERASE_4K, 0, 0, 0, READ>>, <<ERASE_64K, 0, 0, 1>>}
    \cup {<<c>> : c \in {RDUUID, RDID, WAKE_ID, RDSR1, RDSR2, RDSR3, WREN, WRDI}}
=============================================================================
