------------------------------- MODULE CdReader -------------------------------
(***************************************************************************)
(* CDInterface_MT: a thread reads the sectors of a disc image ahead of the *)
(* emulation into a ring.  The emulation never asks the thread for data:   *)
(* it leaves a message saying which sector it is about to want (a hint, or *)
(* the start of a read) and then looks for the sector in the ring itself,  *)
(* sleeping until it turns up.  It is the thread's bookkeeping of what it  *)
(* read last that must make the sector turn up.                            *)
(*                                                                         *)
(* The data of sector n is {n}, and zeros are {}.  Each step is one        *)
(* critical section of the source, or the reading of a sector, which takes *)
(* no lock.                                                                *)
(*                                                                         *)
(* A definition with a note such as "forgets the signal" beside it is the  *)
(* definition that follows with that mistake made: no specification uses   *)
(* it, it is there to show that the properties notice.                     *)
(***************************************************************************)
EXTENDS Integers, Sequences, FiniteSets

CONSTANTS
    LbaMin, LbaMax,     \* LBA_Read_Minimum, LBA_Read_Maximum
    SBSize, MaxRa       \* SBSize and max_ra

(* The source asserts that max_ra is below a quarter of SBSize; that it is *)
(* below SBSize is enough.                                                 *)
ASSUME CdAssumption ==
    /\ LbaMin \in Int /\ LbaMax \in Int /\ LbaMin <= 0 /\ 0 <= LbaMax
    /\ MaxRa \in Nat \ {0} /\ SBSize \in Nat /\ SBSize > MaxRa

VARIABLES
    readQueue, emuQueue,    \* ReadThreadQueue, EmuThreadQueue
    asleep,                 \* the queues and the ring ("sb") someone sleeps on
    sectors, sbWritePos,    \* SectorBuffers
    threadPc, reading,      \* the thread, and the sector it has read
    raLba, raCount, lastReadLba,
    emuPc, wanted,          \* the emulation, and the sector it looks for
    answer,                 \* what its last read returned
    bad                     \* auxiliary: sectors whose reading has failed

queueVars == <<readQueue, emuQueue>>
sbVars == <<sectors, sbWritePos>>
raVars == <<raLba, raCount, lastReadLba>>
emuVars == <<emuPc, wanted, answer>>
vars == <<queueVars, asleep, sbVars, threadPc, reading, raVars, emuVars, bad>>

Zeros == {}
Invalid == [valid |-> FALSE, error |-> FALSE, lba |-> 0, data |-> Zeros]
Good(lba) == [valid |-> TRUE, error |-> FALSE, lba |-> lba, data |-> {lba}]
Failed(lba) == [valid |-> TRUE, error |-> TRUE, lba |-> lba, data |-> Zeros]

Die == [do |-> "die", lba |-> 0]                        \* MSG_DIEDIEDIE
Want(lba) == [do |-> "read", lba |-> lba]               \* MSG_READ_SECTOR

Readable(lba) == LbaMin <= lba /\ lba <= LbaMax

Init ==
    /\ readQueue = <<>> /\ emuQueue = <<>> /\ asleep = {}
    /\ sectors = [i \in 0 .. SBSize - 1 |-> Invalid] /\ sbWritePos = 0
    /\ threadPc = "starting" /\ reading = Invalid
    /\ raLba = 0 /\ raCount = 0 /\ lastReadLba = LbaMax + 1
    /\ emuPc = "constructing" /\ wanted = 0 /\ answer = Invalid
    /\ bad = {}

-----------------------------------------------------------------------------
(* The read thread.                                                        *)

(* It reads the table of contents and says whether that went well.         *)
Start ==
    /\ threadPc = "starting"
    /\ \/ threadPc' = "top" /\ emuQueue' = Append(emuQueue, "done")
       \/ threadPc' = "ended" /\ emuQueue' = Append(emuQueue, "fatal")
    /\ asleep' = asleep \ {"emu"}
    /\ UNCHANGED <<readQueue, sbVars, reading, raVars, emuVars, bad>>

(* MSG_READ_SECTOR: a read that follows the last one keeps the look-ahead  *)
(* going two sectors a time until it is max_ra ahead; a repeated one finds *)
(* what it wants in the ring; any other one starts anew.                   *)
Sequential(lba) == lba = lastReadLba + 1
Speed(lba) ==
    LET room == 1 + MaxRa - (raLba - lba)
    IN  IF room < 1 THEN raCount + 1 ELSE IF room < 2 THEN room ELSE 2

FollowOnly(lba) ==                                      \* forgets where to start
    /\ raLba' = raLba
    /\ raCount' = IF Sequential(lba) THEN Speed(lba)
                  ELSE IF lba = lastReadLba THEN raCount ELSE 1
    /\ lastReadLba' = lba
Follow(lba) ==
    /\ raLba' = IF Sequential(lba) \/ lba = lastReadLba THEN raLba ELSE lba
    /\ raCount' = IF Sequential(lba) THEN Speed(lba)
                  ELSE IF lba = lastReadLba THEN raCount ELSE 1
    /\ lastReadLba' = lba

(* With something left to read ahead it does not wait for a message.       *)
TakeMessage ==
    /\ threadPc = "top" /\ "read" \notin asleep
    /\ \/ /\ readQueue # <<>>
          /\ readQueue' = Tail(readQueue)
          /\ IF Head(readQueue) = Die
             THEN threadPc' = "leaving" /\ UNCHANGED raVars
             ELSE threadPc' = "acting" /\ Follow(Head(readQueue).lba)
          /\ UNCHANGED asleep
       \/ /\ readQueue = <<>> /\ raCount = 0
          /\ asleep' = asleep \cup {"read"}
          /\ UNCHANGED <<readQueue, threadPc, raVars>>
       \/ /\ readQueue = <<>> /\ raCount # 0
          /\ threadPc' = "acting"
          /\ UNCHANGED <<readQueue, asleep, raVars>>
    /\ UNCHANGED <<emuQueue, sbVars, reading, emuVars, bad>>

(* It reads nothing past the end, and what cannot be read is zeros.        *)
ReadSector ==
    /\ threadPc \in {"acting", "leaving"}
    /\ \/ /\ raCount # 0 /\ raLba <= LbaMax
          /\ \/ reading' = Good(raLba) /\ UNCHANGED bad
             \/ reading' = Failed(raLba) /\ bad' = bad \cup {raLba}
          /\ threadPc' = IF threadPc = "acting" THEN "storing" ELSE "storing last"
          /\ UNCHANGED raVars
       \/ /\ raCount = 0 \/ raLba > LbaMax
          /\ raCount' = 0
          /\ threadPc' = IF threadPc = "acting" THEN "top" ELSE "ended"
          /\ UNCHANGED <<raLba, lastReadLba, reading, bad>>
    /\ UNCHANGED <<queueVars, asleep, sbVars, emuVars>>

NotWoken == asleep                                      \* forgets the signal
Woken == asleep \ {"sb"}
SamePos == sbWritePos                                   \* forgets the step
NextPos == (sbWritePos + 1) % SBSize

StoreSector ==
    /\ threadPc \in {"storing", "storing last"}
    /\ sectors' = [sectors EXCEPT ![sbWritePos] = reading]
    /\ sbWritePos' = NextPos
    /\ asleep' = Woken
    /\ raLba' = raLba + 1 /\ raCount' = raCount - 1
    /\ threadPc' = IF threadPc = "storing" THEN "top" ELSE "ended"
    /\ UNCHANGED <<queueVars, reading, lastReadLba, emuVars, bad>>

Thread == Start \/ TakeMessage \/ ReadSector \/ StoreSector

-----------------------------------------------------------------------------
(* The emulation.                                                          *)

WriteSilently(message) ==                               \* forgets the signal
    /\ readQueue' = Append(readQueue, message)
    /\ UNCHANGED asleep
Write(message) ==
    /\ readQueue' = Append(readQueue, message)
    /\ asleep' = asleep \ {"read"}

(* The constructor waits for the thread; its failure undoes it.            *)
Construct ==
    /\ emuPc = "constructing" /\ "emu" \notin asleep
    /\ \/ /\ emuQueue = <<>>
          /\ asleep' = asleep \cup {"emu"}
          /\ UNCHANGED <<queueVars, emuPc>>
       \/ /\ emuQueue # <<>> /\ emuQueue' = Tail(emuQueue)
          /\ IF Head(emuQueue) = "fatal"
             THEN emuPc' = "joining" /\ Write(Die)
             ELSE emuPc' = "idle" /\ UNCHANGED <<readQueue, asleep>>
    /\ UNCHANGED <<sbVars, threadPc, reading, raVars, wanted, answer, bad>>

ReadRawSector(lba) ==
    /\ emuPc = "idle"
    /\ IF Readable(lba)
       THEN /\ Write(Want(lba))
            /\ emuPc' = "looking" /\ wanted' = lba
            /\ UNCHANGED answer
       ELSE /\ answer' = Failed(lba)
            /\ UNCHANGED <<readQueue, asleep, emuPc, wanted>>
    /\ UNCHANGED <<emuQueue, sbVars, threadPc, reading, raVars, bad>>

(* Some images have the subchannels at hand and need no sector for them.   *)
ReadRawSectorPWOnly(lba, hint) ==
    \/ ReadRawSector(lba)
    \/ /\ emuPc = "idle" /\ Readable(lba)
       /\ IF hint THEN Write(Want(lba)) ELSE UNCHANGED <<readQueue, asleep>>
       /\ answer' = Good(lba)
       /\ UNCHANGED <<emuQueue, sbVars, threadPc, reading, raVars, emuPc, wanted, bad>>

HintReadSector(lba) ==
    /\ emuPc = "idle"
    /\ Write(Want(lba))
    /\ UNCHANGED <<emuQueue, sbVars, threadPc, reading, raVars, emuVars, bad>>

MatchesAny(lba) ==                                      \* forgets the number
    {i \in 0 .. SBSize - 1 : sectors[i].valid}
Matches(lba) == {i \in 0 .. SBSize - 1 : sectors[i].valid /\ sectors[i].lba = lba}

(* The last copy in the order of the ring's slots is taken, which need not *)
(* be the one that was read last.                                          *)
Look ==
    /\ emuPc = "looking" /\ "sb" \notin asleep
    /\ \/ /\ Matches(wanted) = {}
          /\ asleep' = asleep \cup {"sb"}
          /\ UNCHANGED <<emuPc, answer>>
       \/ \E i \in Matches(wanted) :
             /\ \A j \in Matches(wanted) : j <= i
             /\ answer' = [sectors[i] EXCEPT !.lba = wanted]
             /\ emuPc' = "idle"
             /\ UNCHANGED asleep
    /\ UNCHANGED <<queueVars, sbVars, threadPc, reading, raVars, wanted, bad>>

Destroy ==
    /\ emuPc = "idle" /\ emuPc' = "joining"
    /\ Write(Die)
    /\ UNCHANGED <<emuQueue, sbVars, threadPc, reading, raVars, wanted, answer, bad>>

Join ==
    /\ emuPc = "joining" /\ threadPc = "ended"
    /\ emuPc' = "gone"
    /\ UNCHANGED <<queueVars, asleep, sbVars, threadPc, reading, raVars, wanted, answer, bad>>

Emu == Construct \/ Look \/ Join
Call ==
    \/ \E lba \in Int : ReadRawSector(lba) \/ HintReadSector(lba)
    \/ \E lba \in Int, hint \in BOOLEAN : ReadRawSectorPWOnly(lba, hint)
    \/ Destroy

Next == Thread \/ Emu \/ Call
Spec == Init /\ [][Next]_vars /\ WF_vars(Thread) /\ WF_vars(Emu)
-----------------------------------------------------------------------------
Messages == [do : {"read", "die"}, lba : Int]
Sectors == [valid : BOOLEAN, error : BOOLEAN, lba : Int, data : SUBSET Int]

TypeOK ==
    /\ readQueue \in Seq(Messages)
    /\ emuQueue \in Seq({"done", "fatal"})
    /\ asleep \subseteq {"read", "emu", "sb"}
    /\ sectors \in [0 .. SBSize - 1 -> Sectors] /\ reading \in Sectors
    /\ sbWritePos \in 0 .. SBSize - 1
    /\ threadPc \in {"starting", "top", "acting", "leaving", "storing", "storing last", "ended"}
    /\ raLba \in Int /\ raCount \in Int /\ lastReadLba \in Int
    /\ emuPc \in {"constructing", "idle", "looking", "joining", "gone"}
    /\ wanted \in Int /\ answer \in Sectors /\ bad \subseteq Int

(* What a read returns is the sector asked for, or zeros and a failure for *)
(* one that does not exist or whose reading has failed: never a neighbour, *)
(* a slot not written yet or one written over while it was searched.       *)
AnswerRight ==
    answer.valid =>
        IF answer.error
        THEN answer.data = Zeros /\ (answer.lba \in bad \/ ~Readable(answer.lba))
        ELSE answer.data = {answer.lba}

(* The sector that the thread was told of last, if it is one that can be   *)
(* read, is in the ring or is among those it is about to read: nothing     *)
(* read ahead of it, no repeated message and no message that came while it *)
(* was reading pushes it out.  A repeated message makes the thread do      *)
(* nothing, so that a client would sleep forever if this failed.           *)
InRing(lba) == \E i \in 0 .. SBSize - 1 : sectors[i].valid /\ sectors[i].lba = lba
AskedIsThere ==
    Readable(lastReadLba) =>
        InRing(lastReadLba) \/ (raLba <= lastReadLba /\ lastReadLba < raLba + raCount)

(* It never means to read more than max_ra sectors past the last one asked *)
(* for, however many messages in a row made it speed up: what it is asked  *)
(* for next is not pushed out of the ring by what nobody asked for.        *)
AheadBounded == lastReadLba <= LbaMax => raLba + raCount <= lastReadLba + MaxRa + 1

(* The two threads never sleep at the same time, each for the other: the   *)
(* read thread has nothing to do while the emulation waits for a sector.   *)
NotBothAsleep == ~({"read", "sb"} \subseteq asleep)

(* Every read returns.                                                     *)
ReadReturns == emuPc = "looking" ~> emuPc = "idle"

(* The constructor returns or throws, and the destructor returns.          *)
ComesAndGoes ==
    /\ <>(emuPc # "constructing")
    /\ emuPc = "joining" ~> emuPc = "gone"
=============================================================================
