---------------------------- MODULE CdReaderProofs ----------------------------
(***************************************************************************)
(* For every disc, ring size and look-ahead that the assumption of         *)
(* CdReader allows, and every sequence of calls: what was asked for last   *)
(* is in the ring or about to be, and the threads never wait for each      *)
(* other.                                                                  *)
(***************************************************************************)
EXTENDS CdReader, TLAPS

threadVars == <<sbVars, threadPc, reading, raVars>>

LEMMA CallsLeaveThread == Emu \/ Call => UNCHANGED threadVars
<1> SUFFICES ASSUME Emu \/ Call PROVE UNCHANGED threadVars
    OBVIOUS
<1> USE DEF threadVars
<1>1. CASE Construct
  BY <1>1 DEF Construct
<1>2. CASE Look
  BY <1>2 DEF Look
<1>3. CASE Join
  BY <1>3 DEF Join
<1>4. CASE Call
  BY <1>4 DEF Call, ReadRawSector, ReadRawSectorPWOnly, HintReadSector, Destroy
<1> QED BY <1>1, <1>2, <1>3, <1>4 DEF Emu

-----------------------------------------------------------------------------
(* Types.                                                                  *)

LEMMA Types ==
    /\ Invalid \in Sectors
    /\ \A lba \in Int : Good(lba) \in Sectors /\ Failed(lba) \in Sectors
    /\ \A lba \in Int : Want(lba) \in Messages
    /\ Die \in Messages
    /\ \A m \in Messages : m.lba \in Int
BY DEF Messages, Invalid, Good, Failed, Want, Die, Sectors, Zeros

LEMMA HeadAndTail ==
    ASSUME NEW S, NEW s \in Seq(S), s # <<>> PROVE Head(s) \in S /\ Tail(s) \in Seq(S)
OBVIOUS

LEMMA LbaTyped == TypeOK => raLba \in Int /\ raCount \in Int /\ lastReadLba \in Int
BY DEF TypeOK

LEMMA NextPosInRing ==
    ASSUME sbWritePos \in 0 .. SBSize - 1 PROVE NextPos \in 0 .. SBSize - 1
BY CdAssumption DEF NextPos

LEMMA FollowTyped ==
    ASSUME raLba \in Int, raCount \in Int, lastReadLba \in Int, NEW lba \in Int, Follow(lba)
    PROVE  raLba' \in Int /\ raCount' \in Int /\ lastReadLba' \in Int
BY CdAssumption DEF Follow, Sequential, Speed

LEMMA InitTyped == Init => TypeOK
BY CdAssumption, Types DEF Init, TypeOK

LEMMA WriteTyped ==
    ASSUME TypeOK, NEW m \in Messages, Write(m)
    PROVE  readQueue' \in Seq(Messages) /\ asleep' \subseteq {"read", "emu", "sb"}
<1>1. readQueue' = Append(readQueue, m) /\ readQueue \in Seq(Messages)
  BY DEF TypeOK, Write
<1>2. asleep' \subseteq {"read", "emu", "sb"}
  BY DEF TypeOK, Write
<1> QED BY <1>1, <1>2

LEMMA ThreadTyped == TypeOK /\ Thread => TypeOK'
<1> SUFFICES ASSUME TypeOK, Thread PROVE TypeOK'
    OBVIOUS
<1> USE DEF TypeOK, emuVars, raVars, sbVars, queueVars
<1>1. CASE Start
  <2>1. emuQueue' \in Seq({"done", "fatal"})
    BY <1>1 DEF Start
  <2>2. asleep' \subseteq {"read", "emu", "sb"}
    BY <1>1 DEF Start
  <2> QED BY <1>1, <2>1, <2>2 DEF Start
<1>2. CASE TakeMessage
  <2>1. CASE readQueue # <<>>
    <3>1. Head(readQueue) \in Messages /\ Tail(readQueue) \in Seq(Messages)
      BY <2>1, HeadAndTail
    <3>2. readQueue' \in Seq(Messages) /\ Head(readQueue).lba \in Int
      BY <1>2, <2>1, <3>1, Types DEF TakeMessage
    <3>3. raLba' \in Int /\ raCount' \in Int /\ lastReadLba' \in Int
      <4>1. CASE Follow(Head(readQueue).lba)
        BY <3>2, <4>1, FollowTyped
      <4>2. CASE UNCHANGED raVars
        BY <4>2
      <4> QED BY <1>2, <2>1, <4>1, <4>2 DEF TakeMessage
    <3>4. threadPc' \in {"leaving", "acting"} /\ UNCHANGED asleep
      BY <1>2, <2>1 DEF TakeMessage
    <3> QED BY <1>2, <3>2, <3>3, <3>4 DEF TakeMessage
  <2>2. CASE readQueue = <<>>
    <3>1. asleep' \subseteq {"read", "emu", "sb"} /\ UNCHANGED <<readQueue, raVars>>
      BY <1>2, <2>2 DEF TakeMessage
    <3>2. threadPc' \in {"top", "acting"}
      BY <1>2, <2>2 DEF TakeMessage
    <3> QED BY <1>2, <3>1, <3>2 DEF TakeMessage
  <2> QED BY <2>1, <2>2
<1>3. CASE ReadSector
  <2>1. reading' \in Sectors /\ bad' \subseteq Int
    BY <1>3, Types DEF ReadSector
  <2>2. raLba' \in Int /\ raCount' \in Int /\ lastReadLba' \in Int
    <3> HIDE DEF TypeOK
    <3>1. raLba' = raLba /\ lastReadLba' = lastReadLba /\ raCount' \in {0, raCount}
      BY <1>3 DEF ReadSector
    <3> QED BY <3>1, LbaTyped
  <2>3. threadPc' \in {"top", "storing", "storing last", "ended"}
    BY <1>3 DEF ReadSector
  <2> QED BY <1>3, <2>1, <2>2, <2>3 DEF ReadSector
<1>4. CASE StoreSector
  <2>1. sectors' \in [0 .. SBSize - 1 -> Sectors] /\ asleep' \subseteq {"read", "emu", "sb"}
    BY <1>4 DEF StoreSector, Woken
  <2>2. raLba' \in Int /\ raCount' \in Int
    <3> HIDE DEF TypeOK
    <3>1. raLba' = raLba + 1 /\ raCount' = raCount - 1
      BY <1>4 DEF StoreSector
    <3> QED BY <3>1, LbaTyped
  <2>3. sbWritePos' \in 0 .. SBSize - 1
    BY <1>4, NextPosInRing DEF StoreSector
  <2>4. threadPc' \in {"top", "ended"}
    BY <1>4 DEF StoreSector
  <2> QED BY <1>4, <2>1, <2>2, <2>3, <2>4 DEF StoreSector
<1> QED BY <1>1, <1>2, <1>3, <1>4 DEF Thread

LEMMA EmuTyped == TypeOK /\ Emu => TypeOK'
<1> SUFFICES ASSUME TypeOK, Emu PROVE TypeOK'
    OBVIOUS
<1>1. CASE Construct
  <2>1. readQueue' \in Seq(Messages) /\ asleep' \subseteq {"read", "emu", "sb"}
    BY <1>1, WriteTyped, Types DEF Construct, queueVars, TypeOK
  <2>2. emuQueue' \in Seq({"done", "fatal"}) /\ emuPc' \in {"constructing", "joining", "idle"}
    <3>1. CASE emuQueue # <<>>
      <4>1. Tail(emuQueue) \in Seq({"done", "fatal"})
        BY <3>1, HeadAndTail DEF TypeOK
      <4> QED BY <1>1, <3>1, <4>1 DEF Construct
    <3>2. CASE emuQueue = <<>>
      BY <1>1, <3>2 DEF Construct, queueVars, TypeOK
    <3> QED BY <3>1, <3>2
  <2> QED BY <1>1, <2>1, <2>2 DEF Construct, TypeOK, sbVars, raVars
<1>2. CASE Look
  <2>1. asleep' \subseteq {"read", "emu", "sb"} /\ emuPc' \in {"looking", "idle"}
    BY <1>2 DEF Look, TypeOK
  <2>2. answer' \in Sectors
    <3>1. CASE UNCHANGED answer
      BY <3>1 DEF TypeOK
    <3>2. ASSUME NEW i \in Matches(wanted), answer' = [sectors[i] EXCEPT !.lba = wanted]
          PROVE  answer' \in Sectors
      BY <3>2 DEF Matches, TypeOK, Sectors
    <3> QED BY <1>2, <3>1, <3>2 DEF Look
  <2> QED BY <1>2, <2>1, <2>2 DEF Look, TypeOK, queueVars, sbVars, raVars
<1>3. CASE Join
  BY <1>3 DEF Join, TypeOK, queueVars, sbVars, raVars
<1> QED BY <1>1, <1>2, <1>3 DEF Emu

LEMMA CallTyped == TypeOK /\ Call => TypeOK'
<1> SUFFICES ASSUME TypeOK, Call PROVE TypeOK'
    OBVIOUS
<1> USE DEF TypeOK, sbVars, raVars, emuVars
<1>1. ASSUME NEW lba \in Int, ReadRawSector(lba) PROVE TypeOK'
  <2>1. CASE Readable(lba)
    <3>1. readQueue' \in Seq(Messages) /\ asleep' \subseteq {"read", "emu", "sb"}
      BY <1>1, <2>1, WriteTyped, Types DEF ReadRawSector
    <3> QED BY <1>1, <2>1, <3>1 DEF ReadRawSector
  <2>2. CASE ~Readable(lba)
    BY <1>1, <2>2, Types DEF ReadRawSector
  <2> QED BY <2>1, <2>2
<1>2. ASSUME NEW lba \in Int, HintReadSector(lba) PROVE TypeOK'
  <2>1. readQueue' \in Seq(Messages) /\ asleep' \subseteq {"read", "emu", "sb"}
    BY <1>2, WriteTyped, Types DEF HintReadSector
  <2> QED BY <1>2, <2>1 DEF HintReadSector
<1>3. ASSUME NEW lba \in Int, NEW hint \in BOOLEAN, ReadRawSectorPWOnly(lba, hint)
      PROVE  TypeOK'
  <2>1. CASE ReadRawSector(lba)
    BY <1>1, <2>1
  <2>2. CASE ~ReadRawSector(lba)
    <3>1. readQueue' \in Seq(Messages) /\ asleep' \subseteq {"read", "emu", "sb"}
      BY <1>3, <2>2, WriteTyped, Types DEF ReadRawSectorPWOnly
    <3> QED BY <1>3, <2>2, <3>1, Types DEF ReadRawSectorPWOnly
  <2> QED BY <2>1, <2>2
<1>4. CASE Destroy
  <2>1. readQueue' \in Seq(Messages) /\ asleep' \subseteq {"read", "emu", "sb"}
    BY <1>4, WriteTyped, Types DEF Destroy
  <2> QED BY <1>4, <2>1 DEF Destroy
<1> QED BY <1>1, <1>2, <1>3, <1>4 DEF Call

LEMMA NextTyped == TypeOK /\ [Next]_vars => TypeOK'
<1>1. TypeOK /\ UNCHANGED vars => TypeOK'
  BY DEF TypeOK, vars, queueVars, sbVars, raVars, emuVars
<1> QED BY <1>1, ThreadTyped, EmuTyped, CallTyped DEF Next

-----------------------------------------------------------------------------
(* The look-ahead: from the sector asked for last on, everything that was  *)
(* read stands in the slots behind SBWritePos, and the run is never longer *)
(* than the ring.                                                          *)
SlotOf(lba) == (sbWritePos + SBSize - (raLba - lba)) % SBSize
Holds(lba) == sectors[SlotOf(lba)].valid /\ sectors[SlotOf(lba)].lba = lba

RunLength ==
    /\ raCount >= 0
    /\ lastReadLba <= LbaMax =>
          raLba + raCount <= lastReadLba + MaxRa + 1 /\ raLba <= LbaMax + 1
    /\ lastReadLba > LbaMax => raLba <= lastReadLba
RunReached ==
    lastReadLba <= LbaMax =>
        \/ lastReadLba < raLba
        \/ threadPc \in {"acting", "storing"} /\ lastReadLba = raLba /\ raCount >= 1
RunStored == \A lba \in Int : lastReadLba <= lba /\ lba < raLba => Holds(lba)
RunRead ==
    threadPc \in {"storing", "storing last"} =>
        reading.valid /\ reading.lba = raLba /\ raLba <= LbaMax /\ raCount >= 1
RunInv == RunLength /\ RunReached /\ RunStored /\ RunRead

LEMMA InitRuns == Init => RunInv
BY CdAssumption DEF Init, RunInv, RunLength, RunReached, RunStored, RunRead

LEMMA RunsKept == RunInv /\ UNCHANGED threadVars => RunInv'
BY DEF RunInv, RunLength, RunReached, RunStored, RunRead, Holds, SlotOf, threadVars, sbVars, raVars

LEMMA MessageKeepsRun ==
    ASSUME TypeOK, RunInv, threadPc = "top", threadPc' = "acting", UNCHANGED sbVars,
           NEW lba \in Int, Follow(lba)
    PROVE  RunInv'
<1>1. raLba \in Int /\ raCount \in Int /\ lastReadLba \in Int
  BY LbaTyped
<1>2. lastReadLba' = lba
  BY DEF Follow
<1>3. raCount >= 0 /\ (lastReadLba <= LbaMax => lastReadLba < raLba)
  BY DEF RunInv, RunLength, RunReached
<1>4. ~ threadPc' \in {"storing", "storing last"}
  OBVIOUS
<1>5. CASE lba = lastReadLba
  <2>1. raLba' = raLba /\ raCount' = raCount
    BY <1>1, <1>5 DEF Follow, Sequential
  <2> QED BY <1>2, <1>3, <1>4, <1>5, <2>1
      DEF RunInv, RunLength, RunReached, RunStored, RunRead, Holds, SlotOf, sbVars
<1>6. CASE lba = lastReadLba + 1
  <2>1. raLba' = raLba /\ raCount' = Speed(lba)
    BY <1>6 DEF Follow, Sequential
  <2>2. Speed(lba) \in Int /\ Speed(lba) >= 1
    BY <1>1, <1>3, CdAssumption DEF Speed
  <2>3. lba <= LbaMax => raLba + Speed(lba) <= lba + MaxRa + 1 /\ raLba <= LbaMax + 1
    BY <1>1, <1>3, <1>6, CdAssumption DEF Speed, RunInv, RunLength
  <2>4. lba > LbaMax => raLba <= lba
    BY <1>1, <1>3, <1>6, CdAssumption DEF RunInv, RunLength
  <2>5. lba <= LbaMax => lba <= raLba
    BY <1>1, <1>3, <1>6, CdAssumption
  <2>6. RunStored'
    BY <1>1, <1>2, <1>6, <2>1 DEF RunInv, RunStored, Holds, SlotOf, sbVars
  <2> QED BY <1>1, <1>2, <1>4, <2>1, <2>2, <2>3, <2>4, <2>5, <2>6
      DEF RunInv, RunLength, RunReached, RunRead
<1>7. CASE lba # lastReadLba /\ lba # lastReadLba + 1
  <2>1. raLba' = lba /\ raCount' = 1
    BY <1>7 DEF Follow, Sequential
  <2> QED BY <1>2, <1>4, <2>1, CdAssumption
      DEF RunInv, RunLength, RunReached, RunStored, RunRead
<1> QED BY <1>5, <1>6, <1>7

LEMMA RingStep ==
    ASSUME NEW n \in Nat \ {0}, NEW p \in 0 .. n - 1
    PROVE  (p + 1) % n = IF p = n - 1 THEN 0 ELSE p + 1
<1>1. CASE p = n - 1
  BY <1>1
<1>2. CASE p # n - 1
  BY <1>2
<1> QED BY <1>1, <1>2

LEMMA StoreKeepsRun == TypeOK /\ RunInv /\ StoreSector => RunInv'
<1> SUFFICES ASSUME TypeOK, RunInv, StoreSector PROVE RunInv'
    OBVIOUS
<1>1. /\ raLba \in Int /\ raCount \in Int /\ lastReadLba \in Int
      /\ sbWritePos \in 0 .. SBSize - 1 /\ SBSize \in Nat \ {0} /\ MaxRa \in Nat /\ LbaMax \in Int
      /\ SBSize > MaxRa
  <2>1. SBSize \in Nat \ {0} /\ MaxRa \in Nat /\ LbaMax \in Int /\ SBSize > MaxRa
    BY CdAssumption
  <2>2. sbWritePos \in 0 .. SBSize - 1
    BY DEF TypeOK
  <2> QED BY <2>1, <2>2, LbaTyped
<1>2. /\ reading.valid /\ reading.lba = raLba /\ raLba <= LbaMax /\ raCount >= 1
  BY DEF StoreSector, RunInv, RunRead
<1>3. /\ raLba' = raLba + 1 /\ raCount' = raCount - 1 /\ lastReadLba' = lastReadLba
      /\ threadPc' \in {"top", "ended"}
  BY DEF StoreSector
<1>4. RunLength'
  BY <1>1, <1>2, <1>3 DEF RunInv, RunLength
<1>5. RunReached'
  BY <1>1, <1>2, <1>3 DEF RunInv, RunReached
<1>6. RunStored'
  <2> SUFFICES ASSUME NEW lba \in Int, lastReadLba <= lba, lba < raLba + 1
               PROVE  Holds(lba)'
      BY <1>3 DEF RunStored
  <2> DEFINE n == raLba + 1 - lba
  <2>1. n \in 1 .. SBSize
    BY <1>1, <1>2 DEF RunInv, RunLength
  <2>2. sbWritePos' = IF sbWritePos = SBSize - 1 THEN 0 ELSE sbWritePos + 1
    BY <1>1, RingStep DEF StoreSector, NextPos
  <2>3. PICK p \in 0 .. SBSize - 1 : sbWritePos' = p /\ p = IF sbWritePos = SBSize - 1 THEN 0 ELSE sbWritePos + 1
    BY <1>1, <2>2
  <2>4. (p + SBSize - n) % SBSize = IF n <= p THEN p - n ELSE p + SBSize - n
    BY <1>1, <2>1
  <2>5. SlotOf(lba)' = (p + SBSize - n) % SBSize
    <3>1. PICK r \in Int : raLba' = r /\ r = raLba + 1
      BY <1>1, <1>3
    <3>2. SlotOf(lba)' = (p + SBSize - (r - lba)) % SBSize
      BY <2>3, <3>1 DEF SlotOf
    <3>3. r - lba = n
      BY <1>1, <3>1
    <3> HIDE DEF n
    <3> QED BY <3>2, <3>3
  <2>6. sectors' = [sectors EXCEPT ![sbWritePos] = reading] /\ DOMAIN sectors = 0 .. SBSize - 1
    BY DEF StoreSector, TypeOK
  <2>7. CASE lba = raLba
    <3>1. SlotOf(lba)' = sbWritePos
      BY <1>1, <2>1, <2>3, <2>4, <2>5, <2>7
    <3> QED BY <1>1, <1>2, <2>6, <2>7, <3>1 DEF Holds
  <2>8. CASE lba < raLba
    <3>1. n - 1 \in 1 .. SBSize - 1 /\ raLba - lba = n - 1
      BY <1>1, <2>1, <2>8
    <3>2. SlotOf(lba) = IF n - 1 <= sbWritePos THEN sbWritePos - (n - 1) ELSE sbWritePos + SBSize - (n - 1)
      BY <1>1, <3>1 DEF SlotOf
    <3>3. SlotOf(lba)' = SlotOf(lba) /\ SlotOf(lba) # sbWritePos /\ SlotOf(lba) \in 0 .. SBSize - 1
      BY <1>1, <2>1, <2>3, <2>4, <2>5, <3>1, <3>2
    <3>4. Holds(lba)
      BY <2>8 DEF RunInv, RunStored
    <3> QED BY <2>6, <3>3, <3>4 DEF Holds
  <2> QED BY <1>1, <2>7, <2>8
<1>7. RunRead'
  BY <1>3 DEF RunRead
<1> QED BY <1>4, <1>5, <1>6, <1>7 DEF RunInv

LEMMA NextRuns == TypeOK /\ RunInv /\ [Next]_vars => RunInv'
<1> SUFFICES ASSUME TypeOK, RunInv, [Next]_vars PROVE RunInv'
    OBVIOUS
<1>1. CASE Start
  BY <1>1 DEF Start, RunInv, RunLength, RunReached, RunStored, RunRead, Holds, SlotOf, sbVars, raVars
<1>2. CASE TakeMessage
  <2>1. CASE \E m \in Messages : Follow(m.lba) /\ threadPc' = "acting"
    BY <1>2, <2>1, MessageKeepsRun, Types DEF TakeMessage
  <2>2. CASE UNCHANGED raVars
    BY <1>2, <2>2 DEF TakeMessage, RunInv, RunLength, RunReached, RunStored, RunRead, Holds,
        SlotOf, sbVars, raVars
  <2>3. readQueue # <<>> => Head(readQueue) \in Messages
    BY HeadAndTail DEF TypeOK
  <2> QED BY <1>2, <2>1, <2>2, <2>3 DEF TakeMessage
<1>3. CASE ReadSector
  <2>1. raLba \in Int /\ raCount \in Int /\ lastReadLba \in Int /\ LbaMax \in Int
    BY LbaTyped, CdAssumption
  <2>2. CASE raCount = 0 \/ raLba > LbaMax
    <3>1. ~(raCount # 0 /\ raLba <= LbaMax)
      BY <2>1, <2>2
    <3>2. /\ raLba' = raLba /\ lastReadLba' = lastReadLba /\ raCount' = 0
          /\ threadPc' = IF threadPc = "acting" THEN "top" ELSE "ended"
      BY <1>3, <3>1 DEF ReadSector
    <3>3. threadPc' \in {"top", "ended"} /\ sectors' = sectors /\ sbWritePos' = sbWritePos
      BY <1>3, <3>2 DEF ReadSector, sbVars
    <3>4. lastReadLba <= LbaMax => lastReadLba < raLba
      BY <2>1, <2>2 DEF RunInv, RunReached
    <3>5. lastReadLba <= LbaMax =>
            raLba + 0 <= lastReadLba + MaxRa + 1 /\ raLba <= LbaMax + 1
      BY <2>1, CdAssumption DEF RunInv, RunLength
    <3>6. RunStored'
      BY <3>2, <3>3 DEF RunInv, RunStored, Holds, SlotOf
    <3>7. RunLength'
      BY <3>2, <3>5 DEF RunInv, RunLength
    <3>8. RunReached' /\ RunRead'
      BY <3>2, <3>3, <3>4 DEF RunReached, RunRead
    <3> QED BY <3>6, <3>7, <3>8 DEF RunInv
  <2>3. CASE raCount # 0 /\ raLba <= LbaMax
    <3>0. ~(raCount = 0 \/ raLba > LbaMax)
      BY <2>1, <2>3
    <3>1. /\ UNCHANGED raVars /\ UNCHANGED sbVars
          /\ reading'.valid /\ reading'.lba = raLba
          /\ threadPc' = IF threadPc = "acting" THEN "storing" ELSE "storing last"
          /\ threadPc \in {"acting", "leaving"}
      <4>1. reading' = Good(raLba) \/ reading' = Failed(raLba)
        BY <1>3, <3>0 DEF ReadSector
      <4>2. reading'.valid /\ reading'.lba = raLba
        BY <4>1 DEF Good, Failed
      <4> QED BY <1>3, <3>0, <4>2 DEF ReadSector
    <3>2. raCount >= 1
      BY <2>1, <2>3 DEF RunInv, RunLength
    <3> QED BY <2>3, <3>1, <3>2
        DEF RunInv, RunLength, RunReached, RunStored, RunRead, Holds, SlotOf, sbVars, raVars
  <2> QED BY <2>1, <2>2, <2>3
<1>4. CASE StoreSector
  BY <1>4, StoreKeepsRun
<1>5. CASE Emu \/ Call
  BY <1>5, CallsLeaveThread, RunsKept
<1>6. CASE UNCHANGED vars
  BY <1>6, RunsKept DEF vars, threadVars
<1> QED BY <1>1, <1>2, <1>3, <1>4, <1>5, <1>6 DEF Next, Thread

LEMMA RunGivesAsked == TypeOK /\ RunInv => AskedIsThere /\ AheadBounded
<1> SUFFICES ASSUME TypeOK, RunInv PROVE AskedIsThere /\ AheadBounded
    OBVIOUS
<1>1. raLba \in Int /\ raCount \in Int /\ lastReadLba \in Int
  BY LbaTyped
<1>2. ASSUME Readable(lastReadLba), lastReadLba < raLba PROVE InRing(lastReadLba)
  <2>1. Holds(lastReadLba)
    BY <1>1, <1>2 DEF RunInv, RunStored
  <2>2. SlotOf(lastReadLba) \in 0 .. SBSize - 1
    <3>1. SBSize \in Nat \ {0}
      BY CdAssumption
    <3>2. sbWritePos \in 0 .. SBSize - 1
      BY DEF TypeOK
    <3> QED BY <1>1, <3>1, <3>2 DEF SlotOf
  <2> QED BY <2>1, <2>2 DEF InRing, Holds
<1>3. AskedIsThere
  <2>1. Readable(lastReadLba) => lastReadLba <= LbaMax
    BY DEF Readable
  <2>2. Readable(lastReadLba) /\ ~(lastReadLba < raLba) => lastReadLba = raLba /\ raCount >= 1
    BY <2>1 DEF RunInv, RunReached
  <2> QED BY <1>1, <1>2, <2>2 DEF AskedIsThere
<1>4. AheadBounded
  BY DEF RunInv, RunLength, AheadBounded
<1> QED BY <1>3, <1>4

-----------------------------------------------------------------------------
(* Sleep: the read thread only when it has nothing to do, the emulation    *)
(* only for a sector it has just asked for.                                *)
ThreadSleeps == "read" \in asleep => readQueue = <<>> /\ raCount = 0 /\ threadPc = "top"
EmuSleeps == "sb" \in asleep => emuPc = "looking" /\ ~InRing(wanted)
EmuAsked ==
    emuPc = "looking" =>
        /\ Readable(wanted)
        /\ IF readQueue = <<>> THEN lastReadLba = wanted
           ELSE readQueue[Len(readQueue)] = Want(wanted)
SleepInv == ThreadSleeps /\ EmuSleeps /\ EmuAsked

LEMMA InitSleeps == Init => SleepInv
BY DEF Init, SleepInv, ThreadSleeps, EmuSleeps, EmuAsked

LEMMA LastOfTail ==
    ASSUME NEW S, NEW s \in Seq(S), s # <<>>
    PROVE  /\ Tail(s) = <<>> => s[Len(s)] = Head(s)
           /\ Tail(s) # <<>> => Tail(s)[Len(Tail(s))] = s[Len(s)]
<1> DEFINE t == Tail(s)
<1>1. t \in Seq(S) /\ Len(t) = Len(s) - 1 /\ Len(s) \in Nat \ {0}
  OBVIOUS
<1>2. \A i \in 1 .. Len(s) - 1 : t[i] = s[i + 1]
  OBVIOUS
<1>3. Head(s) = s[1]
  OBVIOUS
<1> HIDE DEF t
<1>4. t = <<>> => s[Len(s)] = Head(s)
  <2>1. t = <<>> => Len(s) = 1
    BY <1>1
  <2> QED BY <1>3, <2>1
<1>5. t # <<>> => t[Len(t)] = s[Len(s)]
  <2>1. t # <<>> => Len(t) >= 1
    BY <1>1
  <2>2. t # <<>> => Len(t) \in 1 .. Len(s) - 1 /\ Len(t) + 1 = Len(s)
    BY <1>1, <2>1
  <2> QED BY <1>2, <2>2
<1> QED BY <1>4, <1>5 DEF t

LEMMA LastOfAppend ==
    ASSUME NEW S, NEW s \in Seq(S), NEW m \in S
    PROVE  Append(s, m) # <<>> /\ Append(s, m)[Len(Append(s, m))] = m
OBVIOUS

LEMMA ThreadKeepsSleep == TypeOK /\ SleepInv /\ Thread => SleepInv'
<1> SUFFICES ASSUME TypeOK, SleepInv, Thread PROVE SleepInv'
    OBVIOUS
<1> USE DEF SleepInv
<1>1. CASE Start
  BY <1>1 DEF Start, ThreadSleeps, EmuSleeps, EmuAsked, InRing, sbVars, raVars, emuVars
<1>2. CASE TakeMessage
  <2>1. UNCHANGED <<sectors, emuPc, wanted>> /\ threadPc = "top"
    BY <1>2 DEF TakeMessage, sbVars, emuVars
  <2>2. CASE readQueue # <<>>
    <3>1. asleep' = asleep /\ readQueue' = Tail(readQueue) /\ "read" \notin asleep
      BY <1>2, <2>2 DEF TakeMessage
    <3>2. ThreadSleeps' /\ EmuSleeps'
      BY <2>1, <3>1 DEF ThreadSleeps, EmuSleeps, InRing
    <3>3. EmuAsked'
      <4> SUFFICES ASSUME emuPc = "looking" PROVE EmuAsked'
          BY <2>1 DEF EmuAsked
      <4>1. Readable(wanted) /\ readQueue[Len(readQueue)] = Want(wanted) /\ readQueue \in Seq(Messages)
        BY <2>2 DEF EmuAsked, TypeOK
      <4>2. CASE Tail(readQueue) # <<>>
        BY <2>1, <2>2, <3>1, <4>1, <4>2, LastOfTail DEF EmuAsked
      <4>3. CASE Tail(readQueue) = <<>>
        <5>1. Head(readQueue) = Want(wanted)
          BY <2>2, <4>1, <4>3, LastOfTail
        <5>2. Head(readQueue) # Die /\ Head(readQueue).lba = wanted
          BY <5>1 DEF Want, Die
        <5>3. lastReadLba' = wanted
          BY <1>2, <2>2, <5>2 DEF TakeMessage, Follow
        <5> QED BY <2>1, <3>1, <4>1, <4>3, <5>3 DEF EmuAsked
      <4> QED BY <4>2, <4>3
    <3> QED BY <3>2, <3>3
  <2>3. CASE readQueue = <<>>
    <3>1. UNCHANGED <<readQueue, raVars>>
      BY <1>2, <2>3 DEF TakeMessage
    <3>2. \/ asleep' = asleep \cup {"read"} /\ raCount = 0 /\ threadPc' = threadPc
          \/ asleep' = asleep /\ "read" \notin asleep
      BY <1>2, <2>3 DEF TakeMessage
    <3> QED BY <2>1, <2>3, <3>1, <3>2 DEF ThreadSleeps, EmuSleeps, EmuAsked, InRing, raVars
  <2> QED BY <2>2, <2>3
<1>3. CASE ReadSector
  <2>1. "read" \notin asleep
    BY <1>3 DEF ReadSector, ThreadSleeps
  <2>2. UNCHANGED <<readQueue, asleep, sectors, emuPc, wanted, lastReadLba>>
    BY <1>3 DEF ReadSector, raVars, sbVars, emuVars, queueVars
  <2> QED BY <2>1, <2>2 DEF ThreadSleeps, EmuSleeps, EmuAsked, InRing
<1>4. CASE StoreSector
  <2>1. "read" \notin asleep
    BY <1>4 DEF StoreSector, ThreadSleeps
  <2>2. UNCHANGED <<readQueue, emuPc, wanted, lastReadLba>> /\ asleep' = asleep \ {"sb"}
    BY <1>4 DEF StoreSector, emuVars, queueVars, Woken
  <2> QED BY <2>1, <2>2 DEF ThreadSleeps, EmuSleeps, EmuAsked
<1> QED BY <1>1, <1>2, <1>3, <1>4 DEF Thread

LEMMA EmuKeepsSleep == TypeOK /\ SleepInv /\ (Emu \/ Call) => SleepInv'
<1> SUFFICES ASSUME TypeOK, SleepInv, Emu \/ Call PROVE SleepInv'
    OBVIOUS
<1> USE DEF SleepInv
<1>1. UNCHANGED <<sectors, threadPc, lastReadLba, raCount>>
  BY CallsLeaveThread DEF threadVars, sbVars, raVars
<1>2. ASSUME NEW m \in Messages, Write(m)
      PROVE  "read" \notin asleep' /\ readQueue' # <<>> /\ readQueue'[Len(readQueue')] = m
  <2>1. readQueue' = Append(readQueue, m) /\ readQueue \in Seq(Messages) /\ "read" \notin asleep'
    BY <1>2 DEF Write, TypeOK
  <2> QED BY <2>1, LastOfAppend
<1>3. ASSUME NEW lba \in Int, emuPc = "idle", emuPc' = "idle", Write(Want(lba)) PROVE SleepInv'
  BY <1>1, <1>2, <1>3, Types DEF ThreadSleeps, EmuSleeps, EmuAsked, Write
<1>4. ASSUME emuPc = "idle", emuPc' = "idle", UNCHANGED <<readQueue, asleep>> PROVE SleepInv'
  BY <1>1, <1>4 DEF ThreadSleeps, EmuSleeps, EmuAsked
<1>5. ASSUME NEW lba \in Int, ReadRawSector(lba) PROVE SleepInv'
  <2>1. CASE Readable(lba)
    <3>1. emuPc = "idle" /\ emuPc' = "looking" /\ wanted' = lba /\ Write(Want(lba))
      BY <1>5, <2>1 DEF ReadRawSector
    <3>2. "read" \notin asleep' /\ readQueue' # <<>> /\ readQueue'[Len(readQueue')] = Want(lba)
      BY <1>2, <3>1, Types
    <3>3. "sb" \notin asleep'
      BY <3>1 DEF EmuSleeps, Write
    <3> QED BY <2>1, <3>1, <3>2, <3>3 DEF ThreadSleeps, EmuSleeps, EmuAsked
  <2>2. CASE ~Readable(lba)
    BY <1>4, <1>5, <2>2 DEF ReadRawSector
  <2> QED BY <2>1, <2>2
<1>6. CASE Construct
  <2>1. emuPc = "constructing" /\ emuPc' # "looking" /\ "sb" \notin asleep
    BY <1>6 DEF Construct, EmuSleeps
  <2>2. \/ Write(Die)
        \/ readQueue' = readQueue /\ (asleep' = asleep \/ asleep' = asleep \cup {"emu"})
    BY <1>6 DEF Construct, queueVars
  <2>3. "sb" \notin asleep'
    BY <2>1, <2>2 DEF Write
  <2>4. ThreadSleeps'
    BY <1>1, <1>2, <2>2, Types DEF ThreadSleeps
  <2> QED BY <2>1, <2>3, <2>4 DEF EmuSleeps, EmuAsked
<1>7. CASE Look
  <2>1. emuPc = "looking" /\ "sb" \notin asleep /\ UNCHANGED <<readQueue, wanted>>
    BY <1>7 DEF Look, queueVars
  <2>2. CASE Matches(wanted) = {} /\ asleep' = asleep \cup {"sb"} /\ emuPc' = emuPc
    BY <1>1, <2>1, <2>2 DEF Matches, ThreadSleeps, EmuSleeps, EmuAsked, InRing
  <2>3. CASE asleep' = asleep /\ emuPc' = "idle"
    BY <1>1, <2>1, <2>3 DEF ThreadSleeps, EmuSleeps, EmuAsked
  <2> QED BY <1>7, <2>2, <2>3 DEF Look
<1>8. CASE Join
  BY <1>1, <1>8 DEF Join, ThreadSleeps, EmuSleeps, EmuAsked, queueVars
<1>9. CASE Call
  <2>1. ASSUME NEW lba \in Int, HintReadSector(lba) PROVE SleepInv'
    BY <1>3, <2>1 DEF HintReadSector, emuVars
  <2>2. ASSUME NEW lba \in Int, NEW hint \in BOOLEAN, ReadRawSectorPWOnly(lba, hint)
        PROVE  SleepInv'
    BY <1>3, <1>4, <1>5, <2>2 DEF ReadRawSectorPWOnly
  <2>3. CASE Destroy
    <3>1. "read" \notin asleep' /\ "sb" \notin asleep' /\ emuPc' = "joining"
      BY <1>2, <2>3, Types DEF Destroy, EmuSleeps, Write
    <3> QED BY <3>1 DEF ThreadSleeps, EmuSleeps, EmuAsked
  <2> QED BY <1>5, <1>9, <2>1, <2>2, <2>3 DEF Call
<1> QED BY <1>6, <1>7, <1>8, <1>9 DEF Emu

-----------------------------------------------------------------------------
(* What is stored, being read or answered is a sector, or zeros for one    *)
(* whose reading has failed.                                               *)
Right(s) ==
    s.valid => IF s.error THEN s.data = Zeros /\ (s.lba \in bad \/ ~Readable(s.lba))
               ELSE s.data = {s.lba}
DataInv ==
    /\ \A i \in 0 .. SBSize - 1 : Right(sectors[i])
    /\ Right(reading) /\ Right(answer)
    /\ threadPc \in {"storing", "storing last"} => reading.valid

LEMMA InitRight == Init => DataInv
BY DEF Init, DataInv, Right, Invalid

LEMMA RightKept == \A s : bad \subseteq bad' /\ Right(s) => Right(s)'
BY DEF Right

LEMMA NextRight == TypeOK /\ DataInv /\ [Next]_vars => DataInv'
<1> SUFFICES ASSUME TypeOK, DataInv, [Next]_vars PROVE DataInv'
    OBVIOUS
<1> USE DEF DataInv
<1>1. CASE Start
  BY <1>1 DEF Start, Right, sbVars, emuVars
<1>2. CASE TakeMessage
  BY <1>2 DEF TakeMessage, Right, sbVars, emuVars
<1>3. CASE ReadSector
  <2>1. UNCHANGED <<sectors, answer>> /\ bad \subseteq bad'
    BY <1>3 DEF ReadSector, sbVars, emuVars
  <2>2. Right(reading)' /\ (threadPc' \in {"storing", "storing last"} => reading'.valid)
    <3>1. CASE reading' = Good(raLba)
      BY <3>1 DEF Right, Good
    <3>2. CASE reading' = Failed(raLba) /\ bad' = bad \cup {raLba}
      BY <3>2 DEF Right, Failed
    <3>3. CASE UNCHANGED <<reading, bad>> /\ threadPc' \in {"top", "ended"}
      BY <3>3 DEF Right
    <3> QED BY <1>3, <3>1, <3>2, <3>3 DEF ReadSector
  <2> QED BY <2>1, <2>2 DEF Right
<1>4. CASE StoreSector
  <2>1. /\ sectors' = [sectors EXCEPT ![sbWritePos] = reading]
        /\ UNCHANGED <<reading, answer, bad>> /\ threadPc' \in {"top", "ended"}
    BY <1>4 DEF StoreSector, emuVars
  <2>2. DOMAIN sectors = 0 .. SBSize - 1
    BY DEF TypeOK
  <2> QED BY <2>1, <2>2 DEF Right
<1>5. CASE Emu \/ Call
  <2>1. UNCHANGED <<sectors, reading, threadPc>>
    BY <1>5, CallsLeaveThread DEF threadVars, sbVars
  <2>2. bad' = bad
    BY <1>5 DEF Emu, Construct, Look, Join, Call, ReadRawSector, ReadRawSectorPWOnly,
        HintReadSector, Destroy
  <2>3. Right(answer)'
    <3>1. CASE UNCHANGED answer
      BY <2>2, <3>1 DEF Right
    <3>2. CASE \E i \in 0 .. SBSize - 1 : sectors[i].lba = wanted /\ answer' = [sectors[i] EXCEPT !.lba = wanted]
      <4>1. PICK i \in 0 .. SBSize - 1 : sectors[i].lba = wanted /\ answer' = [sectors[i] EXCEPT !.lba = wanted]
        BY <3>2
      <4>2. sectors[i] \in Sectors
        BY DEF TypeOK
      <4>3. answer' = sectors[i]
        BY <4>1, <4>2 DEF Sectors
      <4> QED BY <2>2, <4>3 DEF Right
    <3>3. CASE \E lba \in Int : answer' = Good(lba)
      <4>1. PICK lba \in Int : answer' = Good(lba)
        BY <3>3
      <4>2. ~answer'.error /\ answer'.data = {lba} /\ answer'.lba = lba
        BY <4>1 DEF Good
      <4> QED BY <4>2 DEF Right
    <3>4. CASE \E lba \in Int : ~Readable(lba) /\ answer' = Failed(lba)
      <4>1. PICK lba \in Int : ~Readable(lba) /\ answer' = Failed(lba)
        BY <3>4
      <4>2. answer'.error /\ answer'.data = Zeros /\ answer'.lba = lba
        BY <4>1 DEF Failed
      <4> QED BY <4>1, <4>2 DEF Right, Readable
    <3>5. CASE Emu
      <4>1. CASE Look
        <5>1. \/ UNCHANGED answer
              \/ \E i \in Matches(wanted) : answer' = [sectors[i] EXCEPT !.lba = wanted]
          BY <4>1 DEF Look
        <5>2. \A i \in Matches(wanted) : i \in 0 .. SBSize - 1 /\ sectors[i].lba = wanted
          BY DEF Matches
        <5> QED BY <3>1, <3>2, <5>1, <5>2
      <4>2. CASE Construct \/ Join
        <5>1. UNCHANGED answer
          BY <4>2 DEF Construct, Join
        <5> QED BY <3>1, <5>1
      <4> QED BY <3>5, <4>1, <4>2 DEF Emu
    <3>6. ASSUME NEW lba \in Int, ReadRawSector(lba) PROVE Right(answer)'
      BY <3>1, <3>4, <3>6 DEF ReadRawSector
    <3>7. CASE Call
      <4>1. ASSUME NEW lba \in Int, NEW hint \in BOOLEAN, ReadRawSectorPWOnly(lba, hint)
            PROVE  Right(answer)'
        BY <3>3, <3>6, <4>1 DEF ReadRawSectorPWOnly
      <4>2. ASSUME NEW lba \in Int, HintReadSector(lba) PROVE Right(answer)'
        BY <3>1, <4>2 DEF HintReadSector, emuVars
      <4>3. CASE Destroy
        BY <3>1, <4>3 DEF Destroy
      <4> QED BY <3>6, <3>7, <4>1, <4>2, <4>3 DEF Call
    <3> QED BY <1>5, <3>5, <3>7
  <2> QED BY <2>1, <2>2, <2>3 DEF Right
<1>6. CASE UNCHANGED vars
  BY <1>6 DEF vars, Right, sbVars, emuVars
<1> QED BY <1>1, <1>2, <1>3, <1>4, <1>5, <1>6 DEF Next, Thread

-----------------------------------------------------------------------------
IInv == TypeOK /\ RunInv /\ SleepInv /\ DataInv

LEMMA Invariant == Spec => []IInv
<1>1. Init => IInv
  BY InitTyped, InitRuns, InitSleeps, InitRight DEF IInv
<1>2. SleepInv /\ UNCHANGED vars => SleepInv'
  BY DEF SleepInv, ThreadSleeps, EmuSleeps, EmuAsked, InRing, vars, queueVars, sbVars, raVars, emuVars
<1>3. IInv /\ [Next]_vars => IInv'
  BY <1>2, NextTyped, NextRuns, NextRight, ThreadKeepsSleep, EmuKeepsSleep DEF IInv, Next
<1> QED BY <1>1, <1>3, PTL DEF Spec

(* The reader's variables stay what they are declared to be, SBWritePos    *)
(* inside the ring.                                                        *)
THEOREM ReaderTyped == Spec => []TypeOK
<1>1. IInv => TypeOK
  BY DEF IInv
<1> QED BY <1>1, Invariant, PTL

(* What the read thread was asked for last is in SectorBuffers, or is      *)
(* among the sectors that it is about to read.                             *)
THEOREM AskedSectorTurnsUp == Spec => []AskedIsThere
<1>1. IInv => AskedIsThere
  BY RunGivesAsked DEF IInv
<1> QED BY <1>1, Invariant, PTL

(* The look-ahead never runs more than max_ra sectors past what was asked. *)
THEOREM LookAheadIsBounded == Spec => []AheadBounded
<1>1. IInv => AheadBounded
  BY RunGivesAsked DEF IInv
<1> QED BY <1>1, Invariant, PTL

(* The emulation and the read thread never sleep at once.                  *)
THEOREM SomeoneIsAwake == Spec => []NotBothAsleep
<1>1. IInv => NotBothAsleep
  <2> SUFFICES ASSUME IInv, "read" \in asleep, "sb" \in asleep PROVE FALSE
      BY DEF NotBothAsleep
  <2>1. Readable(wanted) /\ lastReadLba = wanted /\ ~InRing(wanted) /\ raCount = 0
    BY DEF IInv, SleepInv, ThreadSleeps, EmuSleeps, EmuAsked
  <2>2. raLba <= wanted /\ wanted < raLba + raCount
    BY <2>1, RunGivesAsked DEF IInv, AskedIsThere
  <2>3. raLba \in Int /\ wanted \in Int
    BY DEF IInv, TypeOK
  <2> QED BY <2>1, <2>2, <2>3
<1> QED BY <1>1, Invariant, PTL

(* A read returns the sector that was asked for, or zeros and a failure.   *)
THEOREM AnswersAreRight == Spec => []AnswerRight
<1>1. IInv => AnswerRight
  BY DEF IInv, DataInv, Right, AnswerRight
<1> QED BY <1>1, Invariant, PTL
=============================================================================
