----------------------------- MODULE StateHistory -----------------------------
(***************************************************************************)
(* What state rewinding promises: while it runs it keeps the last depth    *)
(* states it was given, and going back loads them exactly, last one first. *)
(* The oldest one is never used up: going back stops there.                *)
(***************************************************************************)
EXTENDS Integers, Sequences

CONSTANT Depths

VARIABLES now, netplay, framed, running, depth, kept

vars == <<now, netplay, framed, running, depth, kept>>

Init == ~running /\ kept = <<>> /\ ~framed

LastOf(s, n) == SubSeq(s, IF Len(s) > n THEN Len(s) - n + 1 ELSE 1, Len(s))

(* The game runs a frame, and between frames anything may happen to it.    *)
Play == ~framed' /\ UNCHANGED <<running, depth, kept>>

Start ==
    /\ ~running /\ running' = TRUE
    /\ depth' \in Depths /\ kept' = <<>>
    /\ UNCHANGED framed

Stop == ~running' /\ kept' = <<>>

(* What comes before each frame.                                           *)
Framed == ~framed /\ framed' /\ UNCHANGED <<netplay, running, depth>>

Record ==
    /\ running /\ ~netplay /\ Framed
    /\ kept' = LastOf(Append(kept, now), depth)
    /\ UNCHANGED now

GoBack ==
    /\ running /\ ~netplay /\ kept # <<>> /\ Framed
    /\ now' = kept[Len(kept)]
    /\ kept' = IF Len(kept) = 1 THEN kept ELSE SubSeq(kept, 1, Len(kept) - 1)

Skip ==
    /\ running => netplay \/ kept = <<>>
    /\ Framed
    /\ UNCHANGED <<now, kept>>

Next == Play \/ Start \/ Stop \/ Record \/ GoBack \/ Skip
Spec == Init /\ [][Next]_vars
=============================================================================
