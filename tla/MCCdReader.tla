------------------------------ MODULE MCCdReader ------------------------------
(***************************************************************************)
(* CdReader with a disc of a few sectors, a ring a little longer than the  *)
(* look-ahead, and a client that makes MaxCalls calls before it destroys   *)
(* the reader.  Hints reach past both ends of the disc.                    *)
(***************************************************************************)
EXTENDS CdReader

CONSTANTS MaxCalls, Reads, Hints
VARIABLE calls
allVars == <<vars, calls>>

MCCall ==
    \/ /\ calls < MaxCalls /\ calls' = calls + 1
       /\ \/ \E lba \in Reads, hint \in BOOLEAN : ReadRawSectorPWOnly(lba, hint)
          \/ \E lba \in Hints : HintReadSector(lba)
    \/ Destroy /\ UNCHANGED calls

MCInit == Init /\ calls = 0
ThreadStep == Thread /\ UNCHANGED calls
EmuStep == Emu /\ UNCHANGED calls
MCNext == MCCall \/ ThreadStep \/ EmuStep
MCSpec == MCInit /\ [][MCNext]_allVars /\ WF_allVars(ThreadStep) /\ WF_allVars(EmuStep)

DiscStart == -1
ReadsMade == {0, 1, 4}
HintsMade == {2, 5}
=============================================================================
