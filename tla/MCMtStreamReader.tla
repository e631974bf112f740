--------------------------- MODULE MCMtStreamReader ---------------------------
(***************************************************************************)
(* MtStreamReader with four streams: one without a loop, one whose loop is *)
(* shorter than a chunk, one of a single byte, one longer than the ring.   *)
(* The client makes MaxSets calls of set_active_stream, reads up to        *)
(* MaxRead bytes after each and then destroys the reader.                  *)
(***************************************************************************)
EXTENDS MtStreamReader

CONSTANTS Skips, Pzbs, MaxSets, MaxRead

VARIABLE sets
allVars == <<vars, sets>>

MCCall ==
    \/ /\ sets < MaxSets /\ sets' = sets + 1
       /\ \E w \in 1 .. Streams, skip \in Skips, pzb \in Pzbs :
             Request(SetActive(w, skip, pzb))
    \/ /\ sets = MaxSets /\ sets' = sets + 1
       /\ Request(Exit)
    \/ /\ readPos < MaxRead /\ UNCHANGED sets
       /\ \E n \in 1 .. Overbuffer : GetBuffer(n) \/ Advance(n)

ThreadStep == Thread /\ UNCHANGED sets
ThrowStep == Throw /\ UNCHANGED sets
ClientStep == Client /\ UNCHANGED sets

MCInit == Init /\ sets = 0
MCNext == MCCall \/ ThreadStep \/ ThrowStep \/ ClientStep
MCSpec == MCInit /\ [][MCNext]_allVars /\ WF_allVars(ThreadStep) /\ WF_allVars(ClientStep)

FourSizes == <<5, 5, 1, 11>>
FourLoops == <<5, 2, 0, 0>>
=============================================================================
