----------------------------- MODULE StateRewind -----------------------------
(***************************************************************************)
(* State rewinding, state_rewind.cpp.  The most recent saved state         *)
(* (ss_prev) is kept as it is, and a ring (bcs) keeps for each one before  *)
(* it only how it differs from its successor.  States differ in length     *)
(* from frame to frame; a difference covers what the two have in common.   *)
(*                                                                         *)
(* A saved state is a sequence of bits.  The compressor gives back what it *)
(* was given and is left out.  Any of the steps may throw (the stream      *)
(* allocates, the loader rejects a state): rewinding then ends.            *)
(*                                                                         *)
(* A definition with a note such as "forgets the wrap" beside it is the    *)
(* definition that follows with that mistake made: no specification uses   *)
(* it, it is there to show that the properties notice.                     *)
(***************************************************************************)
EXTENDS Integers, Sequences

CONSTANTS
    States,         \* the states the emulated system can be saved in
    FrameSettings   \* what the setting srwframes may say

ASSUME RewindAssumption ==
    /\ States \subseteq Seq({0, 1})
    /\ FrameSettings \subseteq Nat

VARIABLES
    now,            \* the state of the emulated system
    netplay,        \* MDFNnetplay
    framed,         \* MDFNSRW_Frame had its turn, Emulate is next
    enabled, active,
    size,           \* bcs.size()
    bcs, bcsPos,    \* the ring
    ssPrev,         \* the state recorded last, or NoState
    kept            \* auxiliary: the states that rewinding can reach

ringVars == <<active, size, bcs, bcsPos, ssPrev, kept>>
vars == <<now, netplay, framed, enabled, ringVars>>

NoState == <<2>>

(* DoXORFilter: bits as 0 and 1; what is longer than cur stays as it is.   *)
FilteredAll(prev, cur) ==                               \* forgets the min
    [i \in 1 .. Len(cur) |->
        IF i > Len(prev) THEN cur[i] ELSE IF prev[i] = cur[i] THEN 0 ELSE 1]
Filtered(prev, cur) ==
    [i \in 1 .. Len(prev) |->
        IF i > Len(cur) THEN prev[i] ELSE IF prev[i] = cur[i] THEN 0 ELSE 1]

SizeFor(frames) == (IF frames > 3 THEN frames ELSE 3) - 1
Empty(n) == [i \in 0 .. n - 1 |-> NoState]

LastKept(s, n) == SubSeq(s, IF Len(s) > n THEN Len(s) - n + 1 ELSE 1, Len(s))

Init ==
    /\ now \in States /\ netplay = FALSE /\ framed = FALSE
    /\ enabled = FALSE /\ active = FALSE
    /\ size = 0 /\ bcs = Empty(0) /\ bcsPos = 0
    /\ ssPrev = NoState /\ kept = <<>>

-----------------------------------------------------------------------------
(* MDFNSRW_Begin, called with enabled as on: by the loading of a game and  *)
(* when rewinding is switched on.  The ring may not fit: nothing begins.   *)
Begin(on) ==
    \/ /\ on /\ ~active
       /\ \E frames \in FrameSettings :
             /\ size' = SizeFor(frames)
             /\ bcs' = Empty(SizeFor(frames))
       /\ bcsPos' = 0 /\ active' = TRUE
       /\ kept' = <<>>
       /\ UNCHANGED ssPrev
    \/ UNCHANGED ringVars

CleanupLeavesState ==                                   \* forgets ss_prev
    /\ size' = 0 /\ bcs' = Empty(0)
    /\ UNCHANGED ssPrev
    /\ kept' = <<>>
Cleanup ==
    /\ size' = 0 /\ bcs' = Empty(0)
    /\ ssPrev' = NoState
    /\ kept' = <<>>

(* MDFNSRW_End, by the closing of a game, a failure, and by switching off. *)
End ==
    /\ UNCHANGED bcsPos
    /\ IF active THEN Cleanup /\ active' = FALSE
       ELSE UNCHANGED <<active, size, bcs, ssPrev, kept>>

LoadGame ==
    /\ ~framed /\ Begin(enabled)
    /\ now' \in States
    /\ UNCHANGED <<netplay, framed, enabled>>

CloseGame == ~framed /\ End /\ UNCHANGED <<now, netplay, framed, enabled>>

EnableStateRewind ==
    /\ ~framed
    /\ \E enable \in BOOLEAN :
          /\ enabled' = enable
          /\ IF enable THEN Begin(TRUE) ELSE End
    /\ UNCHANGED <<now, netplay, framed>>

(* The emulated system runs for a frame; between frames it may be reset or *)
(* load a state of the user's, and netplay may begin or end.               *)
Play ==
    /\ now' \in States /\ netplay' \in BOOLEAN
    /\ framed' = FALSE
    /\ UNCHANGED <<enabled, ringVars>>

NextPos == bcsPos + 1                                   \* forgets the wrap
Following == (bcsPos + 1) % size
PriorPos == bcsPos                                      \* forgets the step back
Prior == (bcsPos + size - 1) % size

(* Before a frame MDFNI_Emulate calls MDFNSRW_Frame, save in netplay.      *)
Frame == ~framed /\ framed' = TRUE /\ UNCHANGED <<netplay, enabled, active, size>>

Record ==                                               \* DoRecord
    /\ active /\ ~netplay /\ Frame
    /\ IF ssPrev # NoState
       THEN /\ bcs' = [bcs EXCEPT ![bcsPos] = Filtered(ssPrev, now)]
            /\ bcsPos' = Following
       ELSE UNCHANGED <<bcs, bcsPos>>
    /\ ssPrev' = now
    /\ kept' = LastKept(Append(kept, now), size + 1)
    /\ UNCHANGED now

Rewind ==                                               \* DoRewind
    /\ active /\ ~netplay /\ ssPrev # NoState /\ Frame
    /\ now' = ssPrev
    /\ IF bcs[Prior] # NoState
       THEN /\ ssPrev' = Filtered(bcs[Prior], ssPrev)
            /\ bcs' = [bcs EXCEPT ![Prior] = NoState]
            /\ bcsPos' = Prior
       ELSE UNCHANGED <<bcs, bcsPos, ssPrev>>
    /\ kept' = IF Len(kept) = 1 THEN kept ELSE SubSeq(kept, 1, Len(kept) - 1)

(* The frame of a game with nothing to go back to, or without rewinding.   *)
Skip ==
    /\ active => netplay \/ ssPrev = NoState
    /\ Frame
    /\ UNCHANGED <<now, bcs, bcsPos, ssPrev, kept>>

(* MDFNSRW_Frame catches: the loader may have changed part of the system.  *)
FrameFails ==
    /\ active /\ ~netplay /\ ~framed /\ framed' = TRUE
    /\ End /\ now' \in States
    /\ UNCHANGED <<netplay, enabled>>

Next ==
    \/ LoadGame \/ CloseGame \/ EnableStateRewind
    \/ Play \/ Record \/ Rewind \/ Skip \/ FrameFails

Spec == Init /\ [][Next]_vars
-----------------------------------------------------------------------------
TypeOK ==
    /\ now \in States
    /\ netplay \in BOOLEAN /\ framed \in BOOLEAN
    /\ enabled \in BOOLEAN /\ active \in BOOLEAN
    /\ size \in Nat /\ bcs \in [0 .. size - 1 -> Seq({0, 1}) \cup {NoState}]
    /\ IF active THEN size >= 2 /\ bcsPos \in 0 .. size - 1 ELSE size = 0
    /\ ssPrev \in States \cup {NoState}
    /\ kept \in Seq(States) /\ Len(kept) <= size + 1

(* The ring and ss_prev stand for the states kept, in order: ss_prev is    *)
(* the last one, the slot k places behind bcs_pos leads from the k-th last *)
(* to the one before it, and no slot leads further back than that.  A slot *)
(* filled, skipped or left behind out of turn breaks this long before the  *)
(* game is taken back to a state it never was in.                          *)
RingHolds ==
    active =>
        /\ ssPrev = IF kept = <<>> THEN NoState ELSE kept[Len(kept)]
        /\ \A k \in 1 .. size :
              bcs[(bcsPos + size - k) % size] =
                  IF k < Len(kept) THEN Filtered(kept[Len(kept) - k], kept[Len(kept) - k + 1])
                  ELSE NoState

(* Rewinding is the history StateHistory describes: frame by frame it      *)
(* loads the very states that were recorded, whatever was skipped, failed  *)
(* or switched off in between, and it keeps as many as were asked for.     *)
History ==
    INSTANCE StateHistory WITH
        running <- active, depth <- size + 1,
        Depths <- {SizeFor(f) + 1 : f \in FrameSettings}
Rewinds == History!Spec
=============================================================================
