---------------------------- MODULE WsCommProofs ----------------------------
(***************************************************************************)
(* That the processor is told of a byte that waits in the UART, and that   *)
(* the two channels neither lose, nor double, nor reorder a byte: for      *)
(* every size of the pipes, every program and every far end.               *)
(***************************************************************************)
EXTENDS WsComm, SequenceTheorems, TLAPS

-----------------------------------------------------------------------------
(* The interrupt controller's functions.  The console's proofs use these   *)
(* lemmas as well.                                                         *)

(* Some bit of a register is the highest.                                  *)
LEMMA HighestIs ==
    ASSUME NEW bits \in SUBSET Sources, bits # {}
    PROVE  Highest(bits) \in bits /\ Highest(bits) \in Sources
<1>1. \E i \in bits : \A j \in bits : j <= i
  <2>1. ASSUME NEW k \in Sources, k \in bits, bits \subseteq 0 .. k
        PROVE  \E i \in bits : \A j \in bits : j <= i
    BY <2>1
  <2>2. bits \subseteq 0 .. 7
    BY DEF Sources
  <2>3. CASE 7 \in bits \/ 6 \in bits
    BY <2>1, <2>2, <2>3 DEF Sources
  <2>4. CASE bits \subseteq 0 .. 5 /\ (5 \in bits \/ 4 \in bits)
    BY <2>1, <2>4 DEF Sources
  <2>5. CASE bits \subseteq 0 .. 3 /\ (3 \in bits \/ 2 \in bits)
    BY <2>1, <2>5 DEF Sources
  <2>6. CASE bits \subseteq 0 .. 1 /\ 1 \in bits
    BY <2>1, <2>6 DEF Sources
  <2>7. CASE bits \subseteq 0 .. 1 /\ 1 \notin bits
    <3>1. PICK i \in bits : TRUE
      OBVIOUS
    <3>2. \A j \in bits : j \in 0 .. 1 /\ j # 1
      BY <2>7
    <3>3. \A j \in bits : j = 0
      BY <3>2
    <3> QED BY <3>1, <3>3
  <2> QED BY <2>2, <2>3, <2>4, <2>5, <2>6, <2>7
<1> QED BY <1>1 DEF Highest

(* RecalcInterrupt leaves a fresh cache and no held line without a request,*)
(* and neither the lines nor the enable register changed.                  *)
LEMMA Recalculated ==
    ASSUME NEW old \in Controllers
    PROVE  /\ Recalc(old) \in Controllers
           /\ Fresh(Recalc(old)) /\ Held(Recalc(old))
           /\ Recalc(old).asserted = old.asserted
<1> DEFINE bits == old.status \cup (old.asserted \cap LevelTriggered \cap old.enable)
<1>1. bits \in SUBSET Sources
  BY DEF Controllers
<1> HIDE DEF bits
<1>2. CacheOf(bits, old.base) \in Caches
  <2>1. CASE bits = {}
    BY <2>1 DEF CacheOf, Caches, Sources
  <2>2. CASE bits # {}
    <3>1. Highest(bits) \in Sources
      BY <1>1, <2>2, HighestIs
    <3>2. PICK n \in 0 .. 31 : old.base = 8 * n
      BY DEF Controllers, Bases
    <3>3. old.base + Highest(bits) \in 0 .. 255
      BY <3>1, <3>2 DEF Sources
    <3>4. (old.base + Highest(bits)) * 4 = 4 * (old.base + Highest(bits))
      BY <3>3
    <3> QED BY <2>2, <3>1, <3>3, <3>4 DEF CacheOf, Caches
  <2> QED BY <2>1, <2>2
<1>3. Recalc(old) = [old EXCEPT !.status = bits, !.cache = CacheOf(bits, old.base)]
  BY DEF Recalc, bits
<1>4. Recalc(old) \in Controllers
  BY <1>1, <1>2, <1>3 DEF Controllers
<1>5. /\ Recalc(old).status = bits /\ Recalc(old).base = old.base
      /\ Recalc(old).cache = CacheOf(bits, old.base)
      /\ Recalc(old).asserted = old.asserted /\ Recalc(old).enable = old.enable
  BY <1>3 DEF Controllers
<1> QED BY <1>4, <1>5 DEF Fresh, Held, bits

(* What a controller is like after any of its functions, with these lines. *)
Announcing(new, lines) ==
    new \in Controllers /\ Fresh(new) /\ Held(new) /\ new.asserted = lines

(* The controller's functions, each of which ends in RecalcInterrupt.      *)
LEMMA Controlled ==
    ASSUME NEW old \in Controllers
    PROVE  /\ \A which \in Sources, on \in BOOLEAN :
                 Announcing(InterruptAssert(old, which, on),
                            (old.asserted \ {which}) \cup (IF on THEN {which} ELSE {}))
           /\ \A which \in Sources : Announcing(Interrupt(old, which), old.asserted)
           /\ \A byte \in 0 .. 255 : Announcing(WriteBase(old, byte), old.asserted)
           /\ \A bits \in SUBSET Sources : Announcing(WriteEnable(old, bits), old.asserted)
           /\ \A bits \in SUBSET Sources : Announcing(Acknowledge(old, bits), old.asserted)
           /\ \A present \in Controllers : Announcing(InterruptLoad(present, old), old.asserted)
<1>1. ASSUME NEW which \in Sources, NEW on \in BOOLEAN
      PROVE  Announcing(InterruptAssert(old, which, on),
                        (old.asserted \ {which}) \cup (IF on THEN {which} ELSE {}))
  <2> DEFINE lines == (old.asserted \ {which}) \cup (IF on THEN {which} ELSE {})
             new == [old EXCEPT !.asserted = lines,
                                !.status = @ \cup ((lines \ old.asserted) \cap old.enable)]
  <2>1. lines \in SUBSET Sources
    BY DEF Controllers
  <2> HIDE DEF lines
  <2>2. new \in Controllers /\ new.asserted = lines
    BY <2>1 DEF Controllers
  <2>3. InterruptAssert(old, which, on) = Recalc(new)
    BY DEF InterruptAssert, lines
  <2> HIDE DEF new
  <2> QED BY <2>2, <2>3, Recalculated DEF Announcing, lines
<1>2. ASSUME NEW which \in Sources
      PROVE  Announcing(Interrupt(old, which), old.asserted)
  <2> DEFINE new == [old EXCEPT !.status = @ \cup ({which} \cap old.enable)]
  <2>1. new \in Controllers /\ new.asserted = old.asserted
    BY DEF Controllers
  <2>2. Interrupt(old, which) = Recalc(new)
    BY DEF Interrupt
  <2> HIDE DEF new
  <2> QED BY <2>1, <2>2, Recalculated DEF Announcing
<1>3. ASSUME NEW byte \in 0 .. 255
      PROVE  Announcing(WriteBase(old, byte), old.asserted)
  <2> DEFINE new == [old EXCEPT !.base = 8 * (byte \div 8)]
  <2>1. byte \div 8 \in 0 .. 31
    OBVIOUS
  <2>2. 8 * (byte \div 8) \in Bases
    BY <2>1 DEF Bases
  <2>3. new \in Controllers /\ new.asserted = old.asserted
    BY <2>2 DEF Controllers
  <2>4. WriteBase(old, byte) = Recalc(new)
    BY DEF WriteBase
  <2> HIDE DEF new
  <2> QED BY <2>3, <2>4, Recalculated DEF Announcing
<1>4. ASSUME NEW bits \in SUBSET Sources
      PROVE  Announcing(WriteEnable(old, bits), old.asserted)
  <2> DEFINE new == [old EXCEPT !.enable = bits]
  <2>1. new \in Controllers /\ new.asserted = old.asserted
    BY DEF Controllers
  <2>2. WriteEnable(old, bits) = Recalc(new)
    BY DEF WriteEnable
  <2> HIDE DEF new
  <2> QED BY <2>1, <2>2, Recalculated DEF Announcing
<1>5. ASSUME NEW bits \in SUBSET Sources
      PROVE  Announcing(Acknowledge(old, bits), old.asserted)
  <2> DEFINE new == [old EXCEPT !.status = @ \ bits]
  <2>1. new \in Controllers /\ new.asserted = old.asserted
    BY DEF Controllers
  <2>2. Acknowledge(old, bits) = Recalc(new)
    BY DEF Acknowledge
  <2> HIDE DEF new
  <2> QED BY <2>1, <2>2, Recalculated DEF Announcing
<1>6. ASSUME NEW present \in Controllers
      PROVE  Announcing(InterruptLoad(present, old), old.asserted)
  <2> DEFINE new == [old EXCEPT !.cache = present.cache]
  <2>1. new \in Controllers /\ new.asserted = old.asserted
    BY DEF Controllers
  <2>2. InterruptLoad(present, old) = Recalc(new)
    BY DEF InterruptLoad
  <2> HIDE DEF new
  <2> QED BY <2>1, <2>2, Recalculated DEF Announcing
<1> QED BY <1>1, <1>2, <1>3, <1>4, <1>5, <1>6

(* The controller a reset leaves.                                          *)
LEMMA ResetAnnounces == Announcing(InterruptReset, {})
<1>1. 0 \in Bases /\ 0 \in {4 * n : n \in 0 .. 255} /\ 0 \in Sources
  <2>1. 0 = 8 * 0 /\ 0 = 4 * 0 /\ 0 \in 0 .. 31 /\ 0 \in 0 .. 255
    OBVIOUS
  <2> QED BY <2>1 DEF Bases, Sources
<1> QED BY <1>1 DEF Announcing, InterruptReset, CacheOf, Controllers, Caches, Fresh, Held

-----------------------------------------------------------------------------
(* The invariant: the controller is fresh and holds its levels, its        *)
(* receive line is the UART's latch, and so are those of a save state of   *)
(* the right types.                                                        *)
Announced ==
    /\ int \in Controllers /\ Fresh(int) /\ Held(int)
    /\ recvLatched \in BOOLEAN
    /\ recvLatched <=> SERIAL_RECV \in int.asserted
    /\ saved.int \in Controllers /\ saved.recvLatched \in BOOLEAN

(* An operation is harmless if it leaves latch and save state alone and    *)
(* hands over a controller with the same receive line.                     *)
LEMMA SameLine ==
    ASSUME Announced, NEW lines, Announcing(int', lines),
           SERIAL_RECV \in lines <=> SERIAL_RECV \in int.asserted,
           UNCHANGED <<recvLatched, saved>>
    PROVE  Announced'
BY DEF Announced, Announcing, Fresh, Held

(* An operation that leaves the controller alone as well is harmless.      *)
LEMMA NoInterrupt ==
    ASSUME Announced, UNCHANGED <<int, recvLatched, saved>>
    PROVE  Announced'
BY DEF Announced, Fresh, Held

(* The lines when the receive line has gone to a level.                    *)
Lines(on) == (int.asserted \ {SERIAL_RECV}) \cup (IF on THEN {SERIAL_RECV} ELSE {})

(* WSwan_InterruptAssert of the receive line.                              *)
LEMMA LineAsserted ==
    ASSUME Announced, NEW on \in BOOLEAN
    PROVE  Announcing(InterruptAssert(int, SERIAL_RECV, on), Lines(on))
<1>1. int \in Controllers /\ SERIAL_RECV \in Sources
  BY DEF Announced, SERIAL_RECV, Sources
<1> QED BY <1>1, Controlled DEF Lines

(* The latch and the line change together.                                 *)
LEMMA LatchIsLine ==
    ASSUME Announced, NEW on \in BOOLEAN, Announcing(int', Lines(on)),
           recvLatched' = on, saved' = saved
    PROVE  Announced'
<1>1. SERIAL_RECV \in Lines(on) <=> on
  BY DEF Lines
<1> QED BY <1>1 DEF Announced, Announcing, Fresh, Held

(* Comm_Process raises the line when it fills the latch, and only pulses   *)
(* the other source.                                                       *)
LEMMA ProcessAnnounces ==
    ASSUME Announced, Process
    PROVE  Announced'
<1>1. CASE Begin \/ SendRefused \/ RecvNothing
  BY <1>1, NoInterrupt DEF Begin, SendRefused, RecvNothing, latchVars
<1>2. CASE SendByte
  <2>1. Announcing(int', int.asserted)
    BY <1>2, Controlled DEF SendByte, Announced, SERIAL_SEND, Sources
  <2> QED BY <1>2, <2>1, SameLine DEF SendByte, WriteToPipe
<1>3. CASE RecvByte
  <2>1. Announcing(int', Lines(TRUE))
    BY <1>3, LineAsserted DEF RecvByte
  <2>2. recvLatched' = TRUE /\ saved' = saved
    BY <1>3 DEF RecvByte
  <2> QED BY <2>1, <2>2, LatchIsLine
<1> QED BY <1>1, <1>2, <1>3 DEF Process

(* Reading the byte lowers the line with the latch; no register the        *)
(* program writes has the line in it.                                      *)
LEMMA ProgramAnnounces ==
    ASSUME Announced, Program
    PROVE  Announced'
<1>1. CASE ReadData
  <2>1. Announcing(int', Lines(FALSE))
    BY <1>1, LineAsserted DEF ReadData
  <2>2. recvLatched' = FALSE /\ saved' = saved
    BY <1>1 DEF ReadData
  <2> QED BY <2>1, <2>2, LatchIsLine
<1>2. ASSUME NEW byte, WriteData(byte) PROVE Announced'
  BY <1>2, NoInterrupt DEF WriteData
<1>3. ASSUME NEW on, WriteControl(on) PROVE Announced'
  BY <1>3, NoInterrupt DEF WriteControl, latchVars
<1>4. ASSUME NEW byte \in 0 .. 255, SetBase(byte) PROVE Announced'
  <2>1. Announcing(int', int.asserted)
    BY <1>4, Controlled DEF SetBase, IntRegister, Announced
  <2> QED BY <1>4, <2>1, SameLine DEF SetBase, IntRegister, latchVars
<1>5. ASSUME NEW bits \in SUBSET Sources, SetEnable(bits) \/ Ack(bits) PROVE Announced'
  <2>1. Announcing(int', int.asserted)
    BY <1>5, Controlled DEF SetEnable, Ack, IntRegister, Announced
  <2> QED BY <1>5, <2>1, SameLine DEF SetEnable, Ack, IntRegister, latchVars
<1> QED BY <1>1, <1>2, <1>3, <1>4, <1>5 DEF Program

(* A reset and a loaded state leave latch and line alike, whatever was     *)
(* saved: Comm_StateAction asserts the line after the registers are back.  *)
LEMMA SurroundingsAnnounce ==
    ASSUME Announced, Surroundings
    PROVE  Announced'
<1>1. ASSUME NEW which \in 4 .. 7, DisplayRequest(which) PROVE Announced'
  <2>1. which \in Sources /\ int \in Controllers
    BY DEF Sources, Announced
  <2>2. Announcing(int', int.asserted)
    BY <1>1, <2>1, Controlled DEF DisplayRequest, IntRegister
  <2> QED BY <1>1, <2>2, SameLine DEF DisplayRequest, IntRegister, latchVars
<1>2. CASE Reset
  <2>1. Announcing(int', {}) /\ recvLatched' = FALSE /\ saved' = saved
    BY <1>2, ResetAnnounces DEF Reset
  <2> QED BY <2>1 DEF Announced, Announcing, Fresh, Held
<1>3. CASE Save
  <2>1. saved'.int = int /\ saved'.recvLatched = recvLatched
    BY <1>3 DEF Save, StateNow
  <2>2. int' = int /\ recvLatched' = recvLatched
    BY <1>3 DEF Save, latchVars
  <2> QED BY <2>1, <2>2 DEF Announced, Fresh, Held
<1>4. CASE Load
  <2> DEFINE restored == InterruptLoad(int, saved.int)
  <2>1. restored \in Controllers
    BY Controlled DEF Announced, Announcing
  <2> HIDE DEF restored
  <2>2. int' = InterruptAssert(restored, SERIAL_RECV, saved.recvLatched)
    BY <1>4 DEF Load, restored
  <2>3. saved.recvLatched \in BOOLEAN /\ SERIAL_RECV \in Sources
    BY DEF Announced, SERIAL_RECV, Sources
  <2> DEFINE lines == (restored.asserted \ {SERIAL_RECV})
                        \cup (IF saved.recvLatched THEN {SERIAL_RECV} ELSE {})
  <2>4. Announcing(int', lines)
    BY <2>1, <2>2, <2>3, Controlled
  <2>5. SERIAL_RECV \in lines <=> saved.recvLatched
    OBVIOUS
  <2>6. recvLatched' = saved.recvLatched /\ saved' = saved
    BY <1>4 DEF Load
  <2> HIDE DEF lines
  <2> QED BY <2>4, <2>5, <2>6 DEF Announced, Announcing, Fresh, Held
<1> QED BY <1>1, <1>2, <1>3, <1>4 DEF Surroundings

(* What the far end does, the UART does not see before it looks.           *)
LEMMA FarEndAnnounces ==
    ASSUME Announced, FarEnd
    PROVE  Announced'
<1>1. ASSUME NEW byte, FarEndWrites(byte) PROVE Announced'
  BY <1>1, NoInterrupt DEF FarEndWrites, latchVars
<1>2. CASE FarEndReads \/ FarEndExits
  BY <1>2, NoInterrupt DEF FarEndReads, FarEndExits, latchVars
<1> QED BY <1>1, <1>2 DEF FarEnd

(* The invariant holds of every behaviour.                                 *)
LEMMA AnnouncedAlways == Spec => []Announced
<1>1. Init => Announced
  <2> SUFFICES ASSUME Init PROVE Announced
    OBVIOUS
  <2>1. Announcing(int, {}) /\ recvLatched = FALSE
    BY ResetAnnounces DEF Init
  <2>2. saved.int = int /\ saved.recvLatched = recvLatched
    BY DEF Init, StateNow
  <2> QED BY <2>1, <2>2 DEF Announced, Announcing
<1>2. Announced /\ [Next]_vars => Announced'
  <2> SUFFICES ASSUME Announced, [Next]_vars PROVE Announced'
    OBVIOUS
  <2>1. CASE Process
    BY <2>1, ProcessAnnounces
  <2>2. CASE Program
    BY <2>2, ProgramAnnounces
  <2>3. CASE Surroundings
    BY <2>3, SurroundingsAnnounce
  <2>4. CASE FarEnd
    BY <2>4, FarEndAnnounces
  <2>5. CASE UNCHANGED vars
    BY <2>5, NoInterrupt DEF vars, latchVars
  <2> QED BY <2>1, <2>2, <2>3, <2>4, <2>5 DEF Next
<1> QED BY <1>1, <1>2, PTL DEF Spec

(* What the processor is told is what the registers say.                   *)
THEOREM CacheFreshAlways == Spec => []CacheFresh
<1>1. Announced => CacheFresh
  BY DEF Announced, CacheFresh
<1> QED BY <1>1, AnnouncedAlways, PTL

(* A byte that waits in the UART has its interrupt requested while that is *)
(* enabled, and the processor is told of a request.                        *)
THEOREM ReceiveAnnouncedAlways == Spec => []ReceiveAnnounced
<1>1. Announced => ReceiveAnnounced
  <2> SUFFICES ASSUME Announced, recvLatched, SERIAL_RECV \in int.enable
               PROVE  SERIAL_RECV \in int.status /\ int.cache.on
    BY DEF Announced, ReceiveAnnounced
  <2>1. SERIAL_RECV \in int.status
    BY DEF Announced, Held, LevelTriggered, SERIAL_RECV
  <2>2. int.cache.on
    BY <2>1 DEF Announced, Fresh, CacheOf
  <2> QED BY <2>1, <2>2
<1> QED BY <1>1, AnnouncedAlways, PTL

-----------------------------------------------------------------------------
(* The channels.  A byte that goes from one sequence to the next leaves    *)
(* what they make together as it was.                                      *)
LEMMA Moved ==
    ASSUME NEW S, NEW a \in Seq(S), NEW b \in Seq(S), b # <<>>
    PROVE  /\ Append(a, Head(b)) \in Seq(S) /\ Tail(b) \in Seq(S)
           /\ Append(a, Head(b)) \o Tail(b) = a \o b
<1>1. Head(b) \in S /\ Tail(b) \in Seq(S) /\ <<Head(b)>> \in Seq(S)
  BY HeadTailProperties
<1>2. Append(a, Head(b)) = a \o <<Head(b)>> /\ Append(a, Head(b)) \in Seq(S)
  BY <1>1, AppendIsConcat, AppendProperties
<1>3. (a \o <<Head(b)>>) \o Tail(b) = a \o (<<Head(b)>> \o Tail(b))
  BY <1>1, ConcatAssociative
<1>4. <<Head(b)>> \o Tail(b) = b
  <2>1. Len(b) \in Nat \ {0} /\ SubSeq(b, 1, Len(b)) = b
    BY EmptySeq, SubSeqFull
  <2>2. SubSeq(b, 1, Len(b)) = <<b[1]>> \o SubSeq(b, 2, Len(b))
    BY <2>1, SubSeqRecursiveFirst
  <2>3. Tail(b) = SubSeq(b, 2, Len(b))
    BY TailIsSubSeq
  <2>4. Head(b) = b[1]
    BY <2>1
  <2> QED BY <2>1, <2>2, <2>3, <2>4
<1> QED BY <1>1, <1>2, <1>3, <1>4

(* A byte appended to the last of the sequences is appended to them all.   *)
LEMMA Extended ==
    ASSUME NEW S, NEW a \in Seq(S), NEW b \in Seq(S), NEW x \in S
    PROVE  /\ Append(b, x) \in Seq(S)
           /\ a \o Append(b, x) = Append(a \o b, x)
           /\ a \o Append(b, x) = (a \o b) \o <<x>>
<1>1. a \o b \in Seq(S) /\ <<x>> \in Seq(S)
  BY ConcatProperties
<1>2. Append(b, x) = b \o <<x>> /\ Append(a \o b, x) = (a \o b) \o <<x>>
  BY <1>1, AppendIsConcat
<1>3. (a \o b) \o <<x>> = a \o (b \o <<x>>)
  BY <1>1, ConcatAssociative
<1> QED BY <1>2, <1>3, AppendProperties

(* To drop the last byte undoes the writing of it.                         *)
LEMMA Undone ==
    ASSUME NEW S, NEW a \in Seq(S), NEW x \in S
    PROVE  SubSeq(a \o <<x>>, 1, Len(a \o <<x>>) - 1) = a
<1>1. <<x>> \in Seq(S) /\ Len(<<x>>) = 1
  OBVIOUS
<1>2. a \o <<x>> \in Seq(S) /\ Len(a \o <<x>>) = Len(a) + 1 /\ Len(a) \in Nat
  BY <1>1, ConcatProperties, LenProperties
<1>3. \A i \in 1 .. Len(a) : (a \o <<x>>)[i] = a[i] /\ a[i] \in S
  BY <1>1, <1>2, ConcatProperties, ElementOfSeq
<1> DEFINE front == SubSeq(a \o <<x>>, 1, Len(a))
<1>4. /\ front \in Seq(S) /\ Len(front) = Len(a)
      /\ \A i \in 1 .. Len(a) : front[i] = (a \o <<x>>)[i]
  BY <1>2, <1>3, SubSeqProperties
<1> HIDE DEF front
<1>5. front = a
  BY <1>3, <1>4, SeqEqual
<1> QED BY <1>2, <1>5 DEF front

(* All but the last byte of a sequence is a sequence of bytes.             *)
LEMMA FrontTyped ==
    ASSUME NEW S, NEW a \in Seq(S)
    PROVE  SubSeq(a, 1, Len(a) - 1) \in Seq(S)
<1>1. Len(a) \in Nat /\ \A i \in 1 .. Len(a) - 1 : a[i] \in S
  BY LenProperties, ElementOfSeq
<1> QED BY <1>1, SubSeqProperties

-----------------------------------------------------------------------------
(* The channel to the far end, with what makes it inductive: the write is  *)
(* only reached with a byte latched, and without a far end its pipe is     *)
(* empty, so that a byte that is gone at once overtakes none.              *)
Bytes == Data \cup {0}
SentLedger ==
    /\ wrote \in Seq(Bytes) /\ farGot \in Seq(Bytes) /\ toFar \in Seq(Bytes)
    /\ sendBuf \in Bytes /\ sendLatched \in BOOLEAN
    /\ saved.sendBuf \in Bytes /\ saved.sendLatched \in BOOLEAN
    /\ pc = "send" => sendLatched
    /\ farEnd = "none" => toFar = <<>>
    /\ SentInOrder
sentVars == <<wrote, farGot, toFar, sendBuf, sendLatched, saved, loaded>>

(* An operation that has nothing to do with what is sent keeps it.         *)
LEMMA SentUntouched ==
    ASSUME SentLedger, UNCHANGED sentVars,
           pc' = "send" => pc = "send" \/ sendLatched,
           farEnd' = "none" => farEnd = "none"
    PROVE  SentLedger'
BY DEF SentLedger, sentVars, SentInOrder, Latched

(* A byte goes through the pipe's end into the pipe.                       *)
LEMMA SendKeepsLedger ==
    ASSUME SentLedger, SendByte
    PROVE  SentLedger'
<1>1. /\ sendLatched /\ sendLatched' = FALSE /\ sendBuf \in Bytes
      /\ farGot \in Seq(Bytes) /\ toFar \in Seq(Bytes)
  BY DEF SentLedger, SendByte
<1>2. UNCHANGED <<wrote, sendBuf, saved, loaded, farEnd>> /\ pc' = "recv"
  BY DEF SendByte, WriteToPipe
<1> DEFINE sent == farGot \o toFar
<1>3. sent \in Seq(Bytes)
  BY <1>1, ConcatProperties
<1>4. /\ farGot' \in Seq(Bytes) /\ toFar' \in Seq(Bytes)
      /\ farGot' \o toFar' = sent \o <<sendBuf>>
      /\ farEnd = "none" => toFar' = <<>>
  <2>1. CASE farEnd = "none"
    <3>1. farGot' = Append(farGot, sendBuf) /\ toFar' = <<>> /\ toFar = <<>>
      BY <2>1 DEF SendByte, WriteToPipe, SentLedger
    <3>2. Append(farGot, sendBuf) \in Seq(Bytes) /\ Append(farGot, sendBuf) = farGot \o <<sendBuf>>
      BY <1>1, AppendProperties, AppendIsConcat
    <3> QED BY <1>1, <3>1, <3>2, ConcatEmptySeq, EmptySeq
  <2>2. CASE farEnd # "none"
    <3>1. farGot' = farGot /\ toFar' = Append(toFar, sendBuf)
      BY <2>2 DEF SendByte, WriteToPipe
    <3> QED BY <1>1, <2>2, <3>1, Extended
  <2> QED BY <2>1, <2>2
<1>5. SentInOrder'
  <2> SUFFICES ASSUME ~loaded PROVE wrote = (farGot' \o toFar') \o <<>>
    BY <1>1, <1>2 DEF SentInOrder, Latched
  <2>1. wrote = sent \o <<sendBuf>>
    BY <1>1 DEF SentLedger, SentInOrder, Latched
  <2>2. sent \o <<sendBuf>> \in Seq(Bytes)
    BY <1>1, <1>3, ConcatProperties
  <2> QED BY <1>4, <2>1, <2>2, ConcatEmptySeq
<1> QED BY <1>1, <1>2, <1>4, <1>5 DEF SentLedger

(* What is behind the latch when it is emptied without being sent.         *)
LEMMA Unlatched ==
    ASSUME SentLedger, ~loaded
    PROVE  farGot \o toFar = IF sendLatched THEN SubSeq(wrote, 1, Len(wrote) - 1) ELSE wrote
<1>1. farGot \o toFar \in Seq(Bytes) /\ sendBuf \in Bytes
  BY ConcatProperties DEF SentLedger
<1>2. wrote = (farGot \o toFar) \o (IF sendLatched THEN <<sendBuf>> ELSE <<>>)
  BY DEF SentLedger, SentInOrder, Latched
<1> QED BY <1>1, <1>2, Undone, ConcatEmptySeq

(* A byte written waits in the latch, alone.                               *)
LEMMA WriteKeepsLedger ==
    ASSUME SentLedger, NEW byte \in Data, WriteData(byte)
    PROVE  SentLedger'
<1>1. CASE ~uartOn
  BY <1>1, SentUntouched DEF WriteData, pipeVars, sentVars
<1>2. CASE uartOn
  <2> DEFINE front == IF sendLatched THEN SubSeq(wrote, 1, Len(wrote) - 1) ELSE wrote
  <2>1. front \in Seq(Bytes) /\ byte \in Bytes
    BY FrontTyped DEF SentLedger, Bytes
  <2>2. ~loaded => farGot \o toFar = front
    BY Unlatched
  <2>3. sendBuf' = byte /\ sendLatched' = TRUE /\ wrote' = Append(front, byte)
    BY <1>2 DEF WriteData
  <2> HIDE DEF front
  <2>4. UNCHANGED <<farGot, toFar, saved, pc, farEnd, loaded>>
    BY DEF WriteData, pipeVars
  <2>5. wrote' \in Seq(Bytes) /\ wrote' = front \o <<byte>>
    BY <2>1, <2>3, AppendProperties, AppendIsConcat
  <2>6. SentInOrder'
    BY <2>2, <2>3, <2>4, <2>5 DEF SentInOrder, Latched
  <2> QED BY <2>1, <2>3, <2>4, <2>5, <2>6 DEF SentLedger
<1> QED BY <1>1, <1>2

(* A reset drops the byte that waits; a loaded state ends the promise.     *)
LEMMA SurroundingsKeepSent ==
    ASSUME SentLedger, Surroundings
    PROVE  SentLedger'
<1>1. ASSUME NEW which, DisplayRequest(which) PROVE SentLedger'
  BY <1>1, SentUntouched DEF DisplayRequest, IntRegister, latchVars, logVars, pipeVars, sentVars
<1>2. CASE Reset
  <2> DEFINE front == IF sendLatched THEN SubSeq(wrote, 1, Len(wrote) - 1) ELSE wrote
  <2>1. front \in Seq(Bytes)
    BY FrontTyped DEF SentLedger
  <2>2. ~loaded => farGot \o toFar = front
    BY Unlatched
  <2>3. wrote' = front /\ sendBuf' = 0 /\ sendLatched' = FALSE
    BY <1>2 DEF Reset
  <2> HIDE DEF front
  <2>4. UNCHANGED <<farGot, toFar, saved, pc, farEnd, loaded>> /\ pc = "run"
    BY <1>2 DEF Reset, pipeVars
  <2>5. front \o <<>> = front
    BY <2>1, ConcatEmptySeq
  <2>6. SentInOrder'
    BY <2>2, <2>3, <2>4, <2>5 DEF SentInOrder, Latched
  <2> QED BY <2>1, <2>3, <2>4, <2>6 DEF SentLedger, Bytes
<1>3. CASE Save
  <2>1. saved'.sendBuf = sendBuf /\ saved'.sendLatched = sendLatched
    BY <1>3 DEF Save, StateNow
  <2>2. UNCHANGED <<wrote, farGot, toFar, sendBuf, sendLatched, pc, farEnd, loaded>>
    BY <1>3 DEF Save, latchVars, logVars, pipeVars
  <2> QED BY <2>1, <2>2 DEF SentLedger, SentInOrder, Latched
<1>4. CASE Load
  BY <1>4 DEF Load, SentLedger, SentInOrder, logVars, pipeVars
<1> QED BY <1>1, <1>2, <1>3, <1>4 DEF Surroundings

(* The far end reads from the front of the pipe.                           *)
LEMMA FarEndKeepsSent ==
    ASSUME SentLedger, FarEnd
    PROVE  SentLedger'
<1>1. CASE FarEndReads
  <2>1. /\ farGot' = Append(farGot, Head(toFar)) /\ toFar' = Tail(toFar)
        /\ toFar # <<>> /\ farEnd = "running"
        /\ UNCHANGED <<wrote, sendBuf, sendLatched, saved, pc, farEnd, loaded>>
    BY <1>1 DEF FarEndReads, latchVars
  <2>2. /\ farGot' \in Seq(Bytes) /\ toFar' \in Seq(Bytes)
        /\ farGot' \o toFar' = farGot \o toFar
    BY <2>1, Moved DEF SentLedger
  <2> QED BY <2>1, <2>2 DEF SentLedger, SentInOrder, Latched
<1>2. ASSUME NEW byte, FarEndWrites(byte) PROVE SentLedger'
  BY <1>2, SentUntouched DEF FarEndWrites, latchVars, sentVars
<1>3. CASE FarEndExits
  BY <1>3, SentUntouched DEF FarEndExits, latchVars, logVars, sentVars
<1> QED BY <1>1, <1>2, <1>3 DEF FarEnd

(* Every byte the program wrote, and did not replace while it waited or    *)
(* drop by a reset, is read once by the far end, in order.                 *)
THEOREM SentInOrderAlways == Spec => []SentInOrder
<1>1. Init => SentLedger
  <2> SUFFICES ASSUME Init PROVE SentLedger
    OBVIOUS
  <2>1. saved.sendBuf = 0 /\ saved.sendLatched = FALSE
    BY DEF Init, StateNow
  <2>2. <<>> \in Seq(Bytes) /\ (<<>> \o <<>>) \o <<>> = <<>>
    BY EmptySeq, ConcatEmptySeq
  <2> QED BY <2>1, <2>2 DEF Init, SentLedger, SentInOrder, Latched, Bytes
<1>2. SentLedger /\ [Next]_vars => SentLedger'
  <2> SUFFICES ASSUME SentLedger, [Next]_vars PROVE SentLedger'
    OBVIOUS
  <2>1. CASE Begin \/ SendRefused \/ RecvByte \/ RecvNothing
    BY <2>1, SentUntouched
    DEF Begin, SendRefused, RecvByte, RecvNothing, latchVars, logVars, pipeVars, sentVars
  <2>2. CASE SendByte
    BY <2>2, SendKeepsLedger
  <2>3. CASE Program
    <3>1. CASE ReadData
      BY <3>1, SentUntouched DEF ReadData, pipeVars, sentVars
    <3>2. ASSUME NEW byte \in Data, WriteData(byte) PROVE SentLedger'
      BY <3>2, WriteKeepsLedger
    <3>3. ASSUME NEW on, WriteControl(on) PROVE SentLedger'
      BY <3>3, SentUntouched DEF WriteControl, latchVars, logVars, pipeVars, sentVars
    <3>4. ASSUME NEW new, IntRegister(new) PROVE SentLedger'
      BY <3>4, SentUntouched DEF IntRegister, latchVars, logVars, pipeVars, sentVars
    <3> QED BY <2>3, <3>1, <3>2, <3>3, <3>4 DEF Program, SetBase, SetEnable, Ack
  <2>4. CASE Surroundings
    BY <2>4, SurroundingsKeepSent
  <2>5. CASE FarEnd
    BY <2>5, FarEndKeepsSent
  <2>6. CASE UNCHANGED vars
    BY <2>6, SentUntouched DEF vars, latchVars, logVars, pipeVars, sentVars
  <2> QED BY <2>1, <2>2, <2>3, <2>4, <2>5, <2>6 DEF Next, Process
<1>3. SentLedger => SentInOrder
  BY DEF SentLedger
<1> QED BY <1>1, <1>2, <1>3, PTL DEF Spec

-----------------------------------------------------------------------------
(* The channel from the far end.                                           *)
ReceivedLedger ==
    /\ farSent \in Seq(Bytes) /\ consoleGot \in Seq(Bytes) /\ toConsole \in Seq(Bytes)
    /\ recvBuf \in Bytes /\ recvLatched \in BOOLEAN
    /\ saved.recvBuf \in Bytes /\ saved.recvLatched \in BOOLEAN
    /\ ReceivedInOrder
receivedVars == <<farSent, consoleGot, toConsole, recvBuf, recvLatched, saved, loaded>>

(* An operation that has nothing to do with what is received keeps it.     *)
LEMMA ReceivedUntouched == ReceivedLedger /\ UNCHANGED receivedVars => ReceivedLedger'
BY DEF ReceivedLedger, receivedVars, ReceivedInOrder, Latched

(* A byte goes from the pipe into the latch, which was empty.              *)
LEMMA RecvKeepsLedger ==
    ASSUME ReceivedLedger, RecvByte
    PROVE  ReceivedLedger'
<1>1. /\ ~recvLatched /\ recvLatched' = TRUE /\ toConsole # <<>>
      /\ recvBuf' = Head(toConsole) /\ toConsole' = Tail(toConsole)
      /\ UNCHANGED <<farSent, consoleGot, saved, loaded>>
  BY DEF RecvByte, MayReceive, logVars
<1>2. consoleGot \in Seq(Bytes) /\ toConsole \in Seq(Bytes)
  BY DEF ReceivedLedger
<1>3. Head(toConsole) \in Bytes /\ Tail(toConsole) \in Seq(Bytes)
  BY <1>1, <1>2, HeadTailProperties
<1>4. Append(consoleGot, Head(toConsole)) \o Tail(toConsole) = consoleGot \o toConsole
  BY <1>1, <1>2, Moved
<1>5. Append(consoleGot, Head(toConsole)) = consoleGot \o <<Head(toConsole)>>
  BY <1>2, <1>3, AppendIsConcat
<1>6. ~loaded => farSent = consoleGot \o toConsole
  BY <1>1, <1>2, ConcatEmptySeq DEF ReceivedLedger, ReceivedInOrder, Latched
<1>7. ReceivedInOrder'
  BY <1>1, <1>4, <1>5, <1>6 DEF ReceivedInOrder, Latched
<1> QED BY <1>1, <1>2, <1>3, <1>7 DEF ReceivedLedger

(* The latch is emptied by the program or by a reset.                      *)
LEMMA EmptyingKeepsLedger ==
    ASSUME ReceivedLedger, recvBuf' \in Bytes, recvLatched' = FALSE,
           consoleGot' = consoleGot \o Latched(recvLatched, recvBuf),
           UNCHANGED <<farSent, toConsole, saved, loaded>>
    PROVE  ReceivedLedger'
<1>1. Latched(recvLatched, recvBuf) \in Seq(Bytes)
  BY EmptySeq DEF Latched, ReceivedLedger
<1>2. consoleGot' \in Seq(Bytes) /\ consoleGot' \o <<>> = consoleGot'
  BY <1>1, ConcatProperties, ConcatEmptySeq DEF ReceivedLedger
<1>3. ReceivedInOrder'
  BY <1>2 DEF ReceivedLedger, ReceivedInOrder, Latched
<1> QED BY <1>2, <1>3 DEF ReceivedLedger

(* A reset drops the byte that waits; a loaded state ends the promise.     *)
LEMMA SurroundingsKeepReceived ==
    ASSUME ReceivedLedger, Surroundings
    PROVE  ReceivedLedger'
<1>1. ASSUME NEW which, DisplayRequest(which) PROVE ReceivedLedger'
  BY <1>1, ReceivedUntouched
  DEF DisplayRequest, IntRegister, latchVars, logVars, pipeVars, receivedVars
<1>2. CASE Reset
  BY <1>2, EmptyingKeepsLedger DEF Reset, pipeVars, Bytes
<1>3. CASE Save
  <2>1. saved'.recvBuf = recvBuf /\ saved'.recvLatched = recvLatched
    BY <1>3 DEF Save, StateNow
  <2>2. UNCHANGED <<farSent, consoleGot, toConsole, recvBuf, recvLatched, loaded>>
    BY <1>3 DEF Save, latchVars, logVars, pipeVars
  <2> QED BY <2>1, <2>2 DEF ReceivedLedger, ReceivedInOrder, Latched
<1>4. CASE Load
  BY <1>4 DEF Load, ReceivedLedger, ReceivedInOrder, logVars, pipeVars
<1> QED BY <1>1, <1>2, <1>3, <1>4 DEF Surroundings

(* The far end writes to the back of the pipe.                             *)
LEMMA FarEndKeepsReceived ==
    ASSUME ReceivedLedger, FarEnd
    PROVE  ReceivedLedger'
<1>1. ASSUME NEW byte \in Data, FarEndWrites(byte) PROVE ReceivedLedger'
  <2> DEFINE read == consoleGot \o Latched(recvLatched, recvBuf)
  <2>1. read \in Seq(Bytes) /\ byte \in Bytes /\ toConsole \in Seq(Bytes)
    <3>1. Latched(recvLatched, recvBuf) \in Seq(Bytes)
      BY EmptySeq DEF Latched, ReceivedLedger
    <3> QED BY <3>1, ConcatProperties DEF ReceivedLedger, Bytes
  <2>2. /\ farSent' = Append(farSent, byte) /\ toConsole' = Append(toConsole, byte)
        /\ UNCHANGED <<consoleGot, recvBuf, recvLatched, saved, loaded>>
    BY <1>1 DEF FarEndWrites, latchVars
  <2>3. ~loaded => farSent = read \o toConsole
    BY DEF ReceivedLedger, ReceivedInOrder
  <2>4. ~loaded' => farSent' = read' \o toConsole'
    <3> SUFFICES ASSUME ~loaded PROVE Append(farSent, byte) = read \o Append(toConsole, byte)
      BY <2>2 DEF Latched
    <3> HIDE DEF read
    <3>1. read \o Append(toConsole, byte) = Append(read \o toConsole, byte)
      BY <2>1, Extended
    <3> QED BY <2>3, <3>1
  <2>5. farSent' \in Seq(Bytes) /\ toConsole' \in Seq(Bytes)
    BY <2>1, <2>2, AppendProperties DEF ReceivedLedger
  <2> QED BY <2>2, <2>4, <2>5 DEF ReceivedLedger, ReceivedInOrder
<1>2. CASE FarEndReads \/ FarEndExits
  BY <1>2, ReceivedUntouched DEF FarEndReads, FarEndExits, latchVars, logVars, receivedVars
<1> QED BY <1>1, <1>2 DEF FarEnd

(* Every byte the far end wrote is read once by the program, in order, or  *)
(* dropped by a reset while it waited.                                     *)
THEOREM ReceivedInOrderAlways == Spec => []ReceivedInOrder
<1>1. Init => ReceivedLedger
  <2> SUFFICES ASSUME Init PROVE ReceivedLedger
    OBVIOUS
  <2>1. saved.recvBuf = 0 /\ saved.recvLatched = FALSE
    BY DEF Init, StateNow
  <2>2. <<>> \in Seq(Bytes) /\ (<<>> \o <<>>) \o <<>> = <<>>
    BY EmptySeq, ConcatEmptySeq
  <2> QED BY <2>1, <2>2 DEF Init, ReceivedLedger, ReceivedInOrder, Latched, Bytes
<1>2. ReceivedLedger /\ [Next]_vars => ReceivedLedger'
  <2> SUFFICES ASSUME ReceivedLedger, [Next]_vars PROVE ReceivedLedger'
    OBVIOUS
  <2>1. CASE Begin \/ SendByte \/ SendRefused \/ RecvNothing
    BY <2>1, ReceivedUntouched
    DEF Begin, SendByte, SendRefused, WriteToPipe, RecvNothing, latchVars, logVars, pipeVars,
        receivedVars
  <2>2. CASE RecvByte
    BY <2>2, RecvKeepsLedger
  <2>3. CASE Program
    <3>1. CASE ReadData
      BY <3>1, EmptyingKeepsLedger DEF ReadData, pipeVars, ReceivedLedger
    <3>2. ASSUME NEW byte, WriteData(byte) PROVE ReceivedLedger'
      BY <3>2, ReceivedUntouched DEF WriteData, pipeVars, receivedVars
    <3>3. ASSUME NEW on, WriteControl(on) PROVE ReceivedLedger'
      BY <3>3, ReceivedUntouched DEF WriteControl, latchVars, logVars, pipeVars, receivedVars
    <3>4. ASSUME NEW new, IntRegister(new) PROVE ReceivedLedger'
      BY <3>4, ReceivedUntouched DEF IntRegister, latchVars, logVars, pipeVars, receivedVars
    <3> QED BY <2>3, <3>1, <3>2, <3>3, <3>4 DEF Program, SetBase, SetEnable, Ack
  <2>4. CASE Surroundings
    BY <2>4, SurroundingsKeepReceived
  <2>5. CASE FarEnd
    BY <2>5, FarEndKeepsReceived
  <2>6. CASE UNCHANGED vars
    BY <2>6, ReceivedUntouched DEF vars, latchVars, logVars, pipeVars, receivedVars
  <2> QED BY <2>1, <2>2, <2>3, <2>4, <2>5, <2>6 DEF Next, Process
<1>3. ReceivedLedger => ReceivedInOrder
  BY DEF ReceivedLedger
<1> QED BY <1>1, <1>2, <1>3, PTL DEF Spec

(* Both ways: no byte is lost, doubled or overtaken.                       *)
THEOREM InOrderAlways == Spec => []InOrder
BY SentInOrderAlways, ReceivedInOrderAlways, PTL DEF InOrder
-----------------------------------------------------------------------------
(* Types, with those of the save state and of the pipes' bytes.            *)
Latches(s) == {s.uartOn, s.sendLatched, s.recvLatched} \subseteq BOOLEAN
              /\ {s.sendBuf, s.recvBuf} \subseteq Bytes
Piped(pipe) == pipe \in Seq(Bytes) /\ Len(pipe) <= PipeSize
CommTyped ==
    /\ {uartOn, sendLatched, recvLatched} \subseteq BOOLEAN
    /\ {sendBuf, recvBuf} \subseteq Bytes
    /\ Latches(saved)
    /\ pc \in {"run", "send", "recv"} /\ farEnd \in {"none", "running", "exited"}
    /\ Piped(toFar) /\ Piped(toConsole)

LEMMA PipeMoves ==
    ASSUME NEW pipe, Piped(pipe)
    PROVE  /\ pipe # <<>> => Head(pipe) \in Bytes /\ Piped(Tail(pipe))
           /\ \A byte \in Bytes : Len(pipe) < PipeSize => Piped(Append(pipe, byte))
<1>1. PipeSize \in Nat /\ pipe \in Seq(Bytes) /\ Len(pipe) \in Nat /\ Len(pipe) <= PipeSize
  BY CommAssumption, LenProperties DEF Piped
<1>2. ASSUME pipe # <<>> PROVE Head(pipe) \in Bytes /\ Piped(Tail(pipe))
  <2>1. /\ Head(pipe) \in Bytes
        /\ Tail(pipe) \in Seq(Bytes) /\ Len(Tail(pipe)) = Len(pipe) - 1
    BY <1>1, <1>2, HeadTailProperties
  <2> QED BY <1>1, <2>1 DEF Piped
<1>3. ASSUME NEW byte \in Bytes, Len(pipe) < PipeSize PROVE Piped(Append(pipe, byte))
  <2>1. Append(pipe, byte) \in Seq(Bytes) /\ Len(Append(pipe, byte)) = Len(pipe) + 1
    BY <1>1, AppendProperties
  <2> QED BY <1>1, <1>3, <2>1 DEF Piped
<1> QED BY <1>2, <1>3

LEMMA ProcessTyped == CommTyped /\ Process => CommTyped'
<1> SUFFICES ASSUME CommTyped, Process PROVE CommTyped'
    OBVIOUS
<1> USE DEF CommTyped, latchVars, pipeVars
<1>1. CASE Begin \/ SendRefused \/ RecvNothing
  BY <1>1 DEF Begin, SendRefused, RecvNothing
<1>2. CASE SendByte
  <2>1. Piped(toFar')
    <3>1. CASE farEnd = "none"
      BY <1>2, <3>1 DEF SendByte, WriteToPipe
    <3>2. CASE farEnd # "none"
      BY <1>2, <3>2, PipeMoves DEF SendByte, WriteToPipe
    <3> QED BY <3>1, <3>2
  <2> QED BY <1>2, <2>1 DEF SendByte, WriteToPipe
<1>3. CASE RecvByte
  BY <1>3, PipeMoves DEF RecvByte, MayReceive
<1> QED BY <1>1, <1>2, <1>3 DEF Process

LEMMA ProgramTyped == CommTyped /\ Program => CommTyped'
<1> SUFFICES ASSUME CommTyped, Program PROVE CommTyped'
    OBVIOUS
<1> USE DEF CommTyped, latchVars, pipeVars
<1>1. CASE ReadData
  BY <1>1 DEF ReadData
<1>2. ASSUME NEW byte \in Data, WriteData(byte) PROVE CommTyped'
  BY <1>2 DEF WriteData, Bytes
<1>3. ASSUME NEW on \in BOOLEAN, WriteControl(on) PROVE CommTyped'
  BY <1>3 DEF WriteControl
<1>4. ASSUME NEW new, IntRegister(new) PROVE CommTyped'
  BY <1>4 DEF IntRegister
<1> QED BY <1>1, <1>2, <1>3, <1>4 DEF Program, SetBase, SetEnable, Ack

LEMMA SurroundingsTyped == CommTyped /\ Surroundings => CommTyped'
<1> SUFFICES ASSUME CommTyped, Surroundings PROVE CommTyped'
    OBVIOUS
<1> USE DEF CommTyped, latchVars, pipeVars
<1>1. ASSUME NEW which, DisplayRequest(which) PROVE CommTyped'
  BY <1>1 DEF DisplayRequest, IntRegister
<1>2. CASE Reset
  BY <1>2 DEF Reset, Bytes
<1>3. CASE Save
  BY <1>3 DEF Save, StateNow, Latches
<1>4. CASE Load
  BY <1>4 DEF Load, Latches
<1> QED BY <1>1, <1>2, <1>3, <1>4 DEF Surroundings

LEMMA FarEndTyped == CommTyped /\ FarEnd => CommTyped'
<1> SUFFICES ASSUME CommTyped, FarEnd PROVE CommTyped'
    OBVIOUS
<1> USE DEF CommTyped, latchVars
<1>1. CASE FarEndReads
  BY <1>1, PipeMoves DEF FarEndReads
<1>2. ASSUME NEW byte \in Data, FarEndWrites(byte) PROVE CommTyped'
  BY <1>2, PipeMoves DEF FarEndWrites, Bytes
<1>3. CASE FarEndExits
  BY <1>3 DEF FarEndExits
<1> QED BY <1>1, <1>2, <1>3 DEF FarEnd

(* Every variable keeps its type: the controller is one of Controllers,    *)
(* and neither pipe ever holds more than the system lets it.               *)
THEOREM CommTypeCorrect == Spec => []TypeOK
<1>1. Init => CommTyped
  <2> SUFFICES ASSUME Init PROVE CommTyped
    OBVIOUS
  <2>1. Piped(<<>>)
    BY EmptySeq, CommAssumption DEF Piped
  <2> QED BY <2>1 DEF Init, CommTyped, StateNow, Latches, Bytes
<1>2. CommTyped /\ [Next]_vars => CommTyped'
  <2>1. CommTyped /\ UNCHANGED vars => CommTyped'
    BY DEF CommTyped, vars, latchVars, pipeVars
  <2> QED BY <2>1, ProcessTyped, ProgramTyped, SurroundingsTyped, FarEndTyped DEF Next
<1>3. Announced /\ CommTyped => TypeOK
  BY DEF Announced, CommTyped, Piped, TypeOK, Bytes
<1> QED BY <1>1, <1>2, <1>3, AnnouncedAlways, PTL DEF Spec
=============================================================================
