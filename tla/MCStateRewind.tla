---------------------------- MODULE MCStateRewind ----------------------------
(***************************************************************************)
(* StateRewind with saved states of one and of two bits, the smallest ring *)
(* and one of three slots.                                                 *)
(***************************************************************************)
EXTENDS StateRewind

ShortStates == {<<0>>, <<1>>, <<0, 1>>, <<1, 1>>}
=============================================================================
