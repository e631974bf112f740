-------------------------- MODULE StateRewindProofs --------------------------
(***************************************************************************)
(* For every set of states, whatever their lengths, and every srwframes:   *)
(* the ring of differences stands for the states recorded, and rewinding   *)
(* is the history that StateHistory describes.                             *)
(***************************************************************************)
EXTENDS StateRewind, TLAPS

Bits == Seq({0, 1})

LEMMA FilteredFacts ==
    ASSUME NEW a \in Bits, NEW b \in Bits
    PROVE  /\ Filtered(a, b) \in Bits
           /\ Len(Filtered(a, b)) = Len(a)
           /\ Filtered(a, b) # NoState
<1>1. \A i \in 1 .. Len(a) :
        (IF i > Len(b) THEN a[i] ELSE IF a[i] = b[i] THEN 0 ELSE 1) \in {0, 1}
  BY DEF Bits
<1>2. Filtered(a, b) \in [1 .. Len(a) -> {0, 1}]
  BY <1>1 DEF Filtered
<1>3. Filtered(a, b) \in Bits /\ Len(Filtered(a, b)) = Len(a)
  BY <1>2 DEF Bits
<1>4. Filtered(a, b) # NoState
  BY <1>3 DEF Bits, NoState
<1> QED BY <1>3, <1>4

(* The same filter takes a difference back to the state it was made from.  *)
LEMMA FilteredTwice ==
    ASSUME NEW a \in Bits, NEW b \in Bits
    PROVE  Filtered(Filtered(a, b), b) = a
<1> DEFINE f == Filtered(a, b)
<1>1. f \in Bits /\ Len(f) = Len(a)
  BY FilteredFacts
<1>2. Filtered(f, b) \in Bits /\ Len(Filtered(f, b)) = Len(a)
  BY <1>1, FilteredFacts
<1>3. ASSUME NEW i \in 1 .. Len(a)
      PROVE  Filtered(f, b)[i] = a[i]
  <2>1. f[i] = IF i > Len(b) THEN a[i] ELSE IF a[i] = b[i] THEN 0 ELSE 1
    BY DEF Filtered, Bits
  <2>2. Filtered(f, b)[i] = IF i > Len(b) THEN f[i] ELSE IF f[i] = b[i] THEN 0 ELSE 1
    BY <1>1 DEF Filtered, Bits
  <2>3. a[i] \in {0, 1} /\ (i <= Len(b) => b[i] \in {0, 1})
    BY DEF Bits
  <2> HIDE DEF f
  <2> QED BY <2>1, <2>2, <2>3 DEF Bits
<1> HIDE DEF f
<1> QED BY <1>2, <1>3 DEF Bits, f

(* Where one is k slots behind p in a ring of n.                           *)
LEMMA Behind ==
    ASSUME NEW n \in Nat \ {0}, NEW p \in 0 .. n - 1, NEW k \in 1 .. n
    PROVE  (p + n - k) % n = IF k <= p THEN p - k ELSE p + n - k
<1>1. CASE k <= p
  BY <1>1
<1>2. CASE k > p
  BY <1>2
<1> QED BY <1>1, <1>2

LEMMA Ahead ==
    ASSUME NEW n \in Nat \ {0}, NEW p \in 0 .. n - 1
    PROVE  (p + 1) % n = IF p = n - 1 THEN 0 ELSE p + 1
<1>1. CASE p = n - 1
  BY <1>1
<1>2. CASE p # n - 1
  BY <1>2
<1> QED BY <1>1, <1>2

(* What recording does to the states kept, seen from the last one.         *)
LEMMA Recorded ==
    ASSUME NEW S, NEW s \in Seq(S), NEW x \in S, NEW n \in Nat \ {0}, Len(s) <= n,
           NEW r, r = LastKept(Append(s, x), n)
    PROVE  /\ r \in Seq(S)
           /\ Len(r) = IF Len(s) = n THEN n ELSE Len(s) + 1
           /\ r[Len(r)] = x
           /\ \A k \in 1 .. Len(r) - 1 : r[Len(r) - k] = s[Len(s) - k + 1]
<1> DEFINE t == Append(s, x)
<1>1. t \in Seq(S) /\ Len(t) = Len(s) + 1 /\ t[Len(s) + 1] = x
  OBVIOUS
<1>2. \A k \in 1 .. Len(s) : t[k] = s[k]
  OBVIOUS
<1>3. r = SubSeq(t, IF Len(t) > n THEN Len(t) - n + 1 ELSE 1, Len(t))
  BY DEF LastKept
<1> HIDE DEF t
<1>4. CASE Len(s) < n
  <2>1. ~(Len(t) > n)
    BY <1>1, <1>4
  <2>2. r = SubSeq(t, 1, Len(t))
    BY <1>3, <2>1
  <2>3. r \in Seq(S) /\ Len(r) = Len(t) /\ \A k \in 1 .. Len(t) : r[k] = t[k]
    BY <1>1, <2>2
  <2> QED BY <1>1, <1>2, <1>4, <2>3
<1>5. CASE Len(s) = n
  <2>1. r = SubSeq(t, 2, n + 1)
    BY <1>1, <1>3, <1>5
  <2>2. r \in Seq(S) /\ Len(r) = n /\ \A k \in 1 .. n : r[k] = t[k + 1]
    BY <1>1, <1>5, <2>1
  <2> QED BY <1>1, <1>2, <1>5, <2>2
<1>6. Len(s) < n \/ Len(s) = n
  OBVIOUS
<1> QED BY <1>4, <1>5, <1>6, Zenon

-----------------------------------------------------------------------------
(* Without rewinding nothing is kept; the ring has two slots or more.      *)
Idle == ~active => kept = <<>> /\ ssPrev = NoState
IInv == TypeOK /\ RingHolds /\ Idle

LEMMA InitHolds == Init => IInv
<1> SUFFICES ASSUME Init PROVE IInv
    OBVIOUS
<1>1. bcs \in [0 .. size - 1 -> Seq({0, 1}) \cup {NoState}]
  BY DEF Init, Empty
<1>2. kept \in Seq(States) /\ Len(kept) <= size + 1
  BY DEF Init
<1> QED BY <1>1, <1>2 DEF Init, IInv, TypeOK, RingHolds, Idle

LEMMA SizeIsEnough == \A f \in FrameSettings : SizeFor(f) \in Nat /\ SizeFor(f) >= 2
BY RewindAssumption DEF SizeFor

LEMMA BeginHolds ==
    ASSUME IInv, NEW on, Begin(on), now' \in States,
           netplay' \in BOOLEAN, framed' \in BOOLEAN, enabled' \in BOOLEAN
    PROVE  IInv'
<1>1. CASE UNCHANGED ringVars
  BY <1>1 DEF IInv, TypeOK, RingHolds, Idle, ringVars
<1>2. CASE ~ UNCHANGED ringVars
  <2>1. PICK n \in Nat : n >= 2 /\ size' = n /\ bcs' = [i \in 0 .. n - 1 |-> NoState]
    BY <1>2, SizeIsEnough DEF Begin, Empty
  <2>2. /\ ~active /\ active' = TRUE /\ bcsPos' = 0 /\ kept' = <<>> /\ ssPrev' = ssPrev
    BY <1>2 DEF Begin
  <2>3. ssPrev' = NoState
    BY <2>2 DEF IInv, Idle
  <2>4. TypeOK' /\ Idle'
    <3>1. bcs' \in [0 .. n - 1 -> Seq({0, 1}) \cup {NoState}] /\ bcsPos' \in 0 .. n - 1
      BY <2>1, <2>2
    <3>2. kept' \in Seq(States) /\ Len(kept') <= n + 1
      BY <2>2
    <3> QED BY <2>1, <2>2, <2>3, <3>1, <3>2 DEF TypeOK, Idle
  <2>5. ASSUME NEW k \in 1 .. n
        PROVE  bcs'[(0 + n - k) % n] = NoState
    <3>1. (0 + n - k) % n = n - k
      BY <2>1, Behind
    <3> QED BY <2>1, <3>1
  <2>6. RingHolds'
    <3>1. \A k \in 1 .. n : ~(k < Len(kept'))
      BY <2>2
    <3> QED BY <2>1, <2>2, <2>3, <2>5, <3>1 DEF RingHolds
  <2> QED BY <2>4, <2>6 DEF IInv
<1> QED BY <1>1, <1>2

LEMMA EndHolds ==
    ASSUME IInv, End, now' \in States,
           netplay' \in BOOLEAN, framed' \in BOOLEAN, enabled' \in BOOLEAN
    PROVE  IInv'
<1>1. CASE active
  <2>1. /\ active' = FALSE /\ size' = 0 /\ ssPrev' = NoState /\ kept' = <<>>
        /\ bcs' = [i \in 0 .. 0 - 1 |-> NoState]
    BY <1>1 DEF End, Cleanup, Empty
  <2>2. bcs' \in [0 .. size' - 1 -> Seq({0, 1}) \cup {NoState}]
    BY <2>1
  <2>3. TypeOK'
    <3>1. kept' \in Seq(States) /\ Len(kept') <= 0 + 1
      BY <2>1
    <3> QED BY <2>1, <2>2, <3>1 DEF TypeOK
  <2> QED BY <2>1, <2>3 DEF IInv, RingHolds, Idle
<1>2. CASE ~active
  <2>1. UNCHANGED ringVars
    BY <1>2 DEF End, ringVars
  <2> QED BY <2>1 DEF IInv, TypeOK, RingHolds, Idle, ringVars
<1> QED BY <1>1, <1>2

(* What the invariant says of the ring, without its arithmetic.            *)
Slot(k) == IF k <= bcsPos THEN bcsPos - k ELSE bcsPos + size - k
Change(k) == Filtered(kept[Len(kept) - k], kept[Len(kept) - k + 1])

LEMMA SlotHolds ==
    ASSUME TypeOK, RingHolds, active, NEW k \in 1 .. size
    PROVE  /\ Slot(k) \in 0 .. size - 1
           /\ bcs[Slot(k)] = IF k < Len(kept) THEN Change(k) ELSE NoState
<1>1. size \in Nat \ {0} /\ bcsPos \in 0 .. size - 1 /\ k \in 1 .. size
  BY DEF TypeOK
<1>2. (bcsPos + size - k) % size = Slot(k)
  BY <1>1, Behind DEF Slot
<1>3. Slot(k) \in 0 .. size - 1
  BY <1>1 DEF Slot
<1> QED BY <1>2, <1>3 DEF RingHolds, Change

(* A new state pushes the others one slot back and the oldest one out.     *)
LEMMA RecordHolds == ASSUME IInv, Record PROVE IInv'
<1> USE DEF Bits
<1>1. /\ active /\ active' = active /\ size' = size /\ size \in Nat \ {0} /\ size >= 2
      /\ ssPrev' = now /\ now' = now /\ now \in States
      /\ bcsPos \in 0 .. size - 1
      /\ kept \in Seq(States) /\ Len(kept) <= size + 1
  BY DEF IInv, TypeOK, Record, Frame
<1>2. PICK r \in Seq(States) :
        /\ kept' = r
        /\ Len(r) <= size + 1 /\ Len(r) > 0
        /\ Len(r) = IF Len(kept) = size + 1 THEN size + 1 ELSE Len(kept) + 1
        /\ r[Len(r)] = now
        /\ \A k \in 1 .. Len(r) - 1 : r[Len(r) - k] = kept[Len(kept) - k + 1]
  <2> DEFINE n == size + 1
  <2>1. PICK r : r = LastKept(Append(kept, now), n)
    OBVIOUS
  <2>2. n \in Nat \ {0} /\ Len(kept) <= n
    BY <1>1
  <2> HIDE DEF n
  <2>3. /\ r \in Seq(States)
        /\ Len(r) = IF Len(kept) = n THEN n ELSE Len(kept) + 1
        /\ r[Len(r)] = now
        /\ \A k \in 1 .. Len(r) - 1 : r[Len(r) - k] = kept[Len(kept) - k + 1]
    BY <1>1, <2>1, <2>2, Recorded
  <2>4. Len(r) <= n /\ Len(r) > 0
    BY <1>1, <2>2, <2>3
  <2>5. kept' = r
    BY <2>1 DEF Record, n
  <2> QED BY <2>3, <2>4, <2>5 DEF n
<1>3. States \subseteq Bits
  BY RewindAssumption
<1>4. CASE ssPrev = NoState
  <2>1. kept = <<>>
    <3> SUFFICES ASSUME kept # <<>> PROVE FALSE
      OBVIOUS
    <3>1. kept[Len(kept)] \in Bits
      BY <1>1, <1>3
    <3>2. kept[Len(kept)] = NoState
      BY <1>1, <1>4 DEF IInv, RingHolds
    <3> QED BY <3>1, <3>2 DEF NoState
  <2>2. Len(r) = 1
    BY <1>1, <1>2, <2>1
  <2>3. UNCHANGED <<bcs, bcsPos>>
    BY <1>4 DEF Record
  <2>4. \A k \in 1 .. size : bcs[(bcsPos + size - k) % size] = NoState
    BY <1>1, <2>1 DEF IInv, RingHolds
  <2>5. r # <<>> /\ \A k \in 1 .. size : ~(k < Len(r))
    <3>1. r # <<>>
      BY <2>2
    <3>2. \A k \in 1 .. size : ~(k < 1)
      BY <1>1
    <3> QED BY <2>2, <3>1, <3>2
  <2>6. RingHolds'
    BY <1>1, <1>2, <2>3, <2>4, <2>5 DEF RingHolds
  <2>7. bcs' \in [0 .. size' - 1 -> Seq({0, 1}) \cup {NoState}] /\ bcsPos' \in 0 .. size' - 1
    BY <1>1, <2>3 DEF IInv, TypeOK
  <2>8. /\ netplay' \in BOOLEAN /\ framed' \in BOOLEAN
        /\ enabled' \in BOOLEAN /\ active' \in BOOLEAN
    BY DEF IInv, TypeOK, Record, Frame
  <2>9. TypeOK' /\ Idle'
    BY <1>1, <1>2, <2>7, <2>8 DEF TypeOK, Idle
  <2> QED BY <2>6, <2>9 DEF IInv
<1>5. CASE ssPrev # NoState
  <2>1. kept # <<>> /\ ssPrev = kept[Len(kept)] /\ ssPrev \in States
    BY <1>1, <1>5 DEF IInv, RingHolds
  <2>2. /\ bcs' = [bcs EXCEPT ![bcsPos] = Filtered(ssPrev, now)]
        /\ bcsPos' = IF bcsPos = size - 1 THEN 0 ELSE bcsPos + 1
    BY <1>1, <1>5, Ahead DEF Record, Following
  <2>3. bcs \in [0 .. size - 1 -> Seq({0, 1}) \cup {NoState}]
    BY DEF IInv, TypeOK
  <2>4. Filtered(ssPrev, now) \in Seq({0, 1})
    BY <1>1, <1>3, <2>1, FilteredFacts
  <2>5. bcs' \in [0 .. size - 1 -> Seq({0, 1}) \cup {NoState}]
    BY <2>2, <2>3, <2>4
  <2>6. ASSUME NEW k \in 1 .. size
        PROVE  bcs'[(bcsPos' + size - k) % size] =
                  IF k < Len(r) THEN Filtered(r[Len(r) - k], r[Len(r) - k + 1])
                  ELSE NoState
    <3>1. bcsPos' \in 0 .. size - 1
      BY <1>1, <2>2
    <3>2. (bcsPos' + size - k) % size = IF k <= bcsPos' THEN bcsPos' - k ELSE bcsPos' + size - k
      BY <1>1, <3>1, Behind
    <3>3. CASE k = 1
      <4>1. (bcsPos' + size - k) % size = bcsPos
        BY <1>1, <2>2, <3>2, <3>3
      <4>2. bcs'[bcsPos] = Filtered(ssPrev, now)
        BY <1>1, <2>2, <2>3
      <4>3. 1 < Len(r) /\ r[Len(r) - 1] = kept[Len(kept)]
        BY <1>1, <1>2, <2>1
      <4> QED BY <1>2, <2>1, <3>3, <4>1, <4>2, <4>3
    <3>4. CASE k > 1
      <4>1. k - 1 \in 1 .. size /\ (bcsPos' + size - k) % size = Slot(k - 1)
        BY <1>1, <2>2, <3>2, <3>4 DEF Slot
      <4>2. Slot(k - 1) \in 0 .. size - 1 /\ Slot(k - 1) # bcsPos
        BY <1>1, <3>4 DEF Slot
      <4>3. bcs'[Slot(k - 1)] = IF k - 1 < Len(kept) THEN Change(k - 1) ELSE NoState
        BY <1>1, <2>2, <2>3, <4>1, <4>2, SlotHolds DEF IInv
      <4>4. (k - 1 < Len(kept)) <=> (k < Len(r))
        BY <1>1, <1>2
      <4>5. k < Len(r) =>
              /\ r[Len(r) - k] = kept[Len(kept) - (k - 1)]
              /\ r[Len(r) - k + 1] = kept[Len(kept) - (k - 1) + 1]
        <5>1. k < Len(r) => k \in 1 .. Len(r) - 1 /\ k - 1 \in 1 .. Len(r) - 1
          BY <1>1, <1>2, <3>4
        <5>2. Len(r) - (k - 1) = Len(r) - k + 1
          BY <1>1, <1>2
        <5>3. k < Len(r) => r[Len(r) - k] = kept[Len(kept) - k + 1]
          BY <1>2, <5>1
        <5>4. k < Len(r) => r[Len(r) - (k - 1)] = kept[Len(kept) - (k - 1) + 1]
          BY <1>2, <5>1
        <5>5. Len(kept) - k + 1 = Len(kept) - (k - 1)
          BY <1>1
        <5> QED BY <5>2, <5>3, <5>4, <5>5, Zenon
      <4> QED BY <4>1, <4>3, <4>4, <4>5 DEF Change
    <3> QED BY <3>3, <3>4
  <2>7. RingHolds'
    <3>1. r # <<>>
      BY <1>2
    <3> QED BY <1>1, <1>2, <2>6, <3>1 DEF RingHolds
  <2>8. /\ netplay' \in BOOLEAN /\ framed' \in BOOLEAN
        /\ enabled' \in BOOLEAN /\ active' \in BOOLEAN
    BY DEF IInv, TypeOK, Record, Frame
  <2>9. bcsPos' \in 0 .. size' - 1
    BY <1>1, <2>2
  <2>10. TypeOK' /\ Idle'
    BY <1>1, <1>2, <2>5, <2>8, <2>9 DEF TypeOK, Idle
  <2> QED BY <2>7, <2>10 DEF IInv
<1> QED BY <1>4, <1>5

(* Going back takes the last of them off, unless nothing leads further.    *)
LEMMA RewindHolds == ASSUME IInv, Rewind PROVE IInv' /\ now' = kept[Len(kept)] /\ kept # <<>>
<1> USE DEF Bits
<1>1. /\ active /\ active' = active /\ size' = size /\ size \in Nat \ {0} /\ size >= 2
      /\ bcsPos \in 0 .. size - 1
      /\ kept \in Seq(States) /\ Len(kept) <= size + 1
      /\ now' = ssPrev /\ ssPrev # NoState
  BY DEF IInv, TypeOK, Rewind, Frame
<1>2. kept # <<>> /\ ssPrev = kept[Len(kept)] /\ ssPrev \in States /\ Len(kept) >= 1
  BY <1>1 DEF IInv, RingHolds
<1>3. States \subseteq Bits
  BY RewindAssumption
<1>4. /\ netplay' \in BOOLEAN /\ framed' \in BOOLEAN
      /\ enabled' \in BOOLEAN /\ active' \in BOOLEAN
  BY DEF IInv, TypeOK, Rewind, Frame
<1>5. bcs \in [0 .. size - 1 -> Seq({0, 1}) \cup {NoState}]
  BY DEF IInv, TypeOK
<1>6. Prior = Slot(1)
  BY <1>1, Behind DEF Prior, Slot
<1>7. Slot(1) \in 0 .. size - 1 /\ bcs[Slot(1)] = IF 1 < Len(kept) THEN Change(1) ELSE NoState
  BY <1>1, SlotHolds DEF IInv
<1>8. CASE Len(kept) = 1
  <2>1. UNCHANGED <<bcs, bcsPos, ssPrev, kept>>
    BY <1>1, <1>6, <1>7, <1>8 DEF Rewind
  <2> QED BY <1>1, <1>2, <1>4, <2>1 DEF IInv, TypeOK, RingHolds, Idle
<1>9. CASE Len(kept) > 1
  <2> DEFINE before == kept[Len(kept) - 1]
  <2>1. before \in States /\ before \in Bits /\ ssPrev \in Bits
    BY <1>1, <1>2, <1>3, <1>9
  <2>2. bcs[Prior] = Filtered(before, ssPrev)
    BY <1>1, <1>2, <1>6, <1>7, <1>9 DEF Change
  <2>3. bcs[Prior] # NoState
    BY <2>1, <2>2, FilteredFacts
  <2>4. ssPrev' = before
    BY <2>1, <2>2, <2>3, FilteredTwice DEF Rewind
  <2>5. bcsPos' = Slot(1) /\ bcs' = [bcs EXCEPT ![Slot(1)] = NoState]
    BY <1>6, <2>3 DEF Rewind
  <2>6. PICK r \in Seq(States) :
          /\ kept' = r /\ Len(r) = Len(kept) - 1
          /\ \A i \in 1 .. Len(kept) - 1 : r[i] = kept[i]
    <3>1. PICK r : r = SubSeq(kept, 1, Len(kept) - 1)
      OBVIOUS
    <3>2. kept' = r
      BY <1>1, <1>9, <3>1 DEF Rewind
    <3> QED BY <1>1, <1>9, <3>1, <3>2
  <2>7. ASSUME NEW k \in 1 .. size
        PROVE  bcs'[(bcsPos' + size - k) % size] =
                  IF k < Len(r) THEN Filtered(r[Len(r) - k], r[Len(r) - k + 1]) ELSE NoState
    <3>1. (bcsPos' + size - k) % size =
            IF k <= Slot(1) THEN Slot(1) - k ELSE Slot(1) + size - k
      BY <1>1, <1>7, <2>5, Behind
    <3>2. CASE k = size
      <4>1. (bcsPos' + size - k) % size = Slot(1)
        BY <1>1, <1>7, <3>1, <3>2
      <4>2. bcs'[Slot(1)] = NoState
        BY <1>5, <1>7, <2>5
      <4>3. ~(k < Len(r))
        BY <1>1, <2>6, <3>2
      <4> QED BY <4>1, <4>2, <4>3
    <3>3. CASE k < size
      <4>1. k + 1 \in 1 .. size /\ (bcsPos' + size - k) % size = Slot(k + 1)
        BY <1>1, <1>7, <3>1, <3>3 DEF Slot
      <4>2. Slot(k + 1) \in 0 .. size - 1 /\ Slot(k + 1) # Slot(1)
        BY <1>1, <3>3 DEF Slot
      <4>3. bcs'[Slot(k + 1)] = IF k + 1 < Len(kept) THEN Change(k + 1) ELSE NoState
        BY <1>1, <1>5, <2>5, <4>1, <4>2, SlotHolds DEF IInv
      <4>4. k + 1 < Len(kept) <=> k < Len(r)
        BY <1>1, <2>6
      <4>5. k < Len(r) =>
              /\ r[Len(r) - k] = kept[Len(kept) - (k + 1)]
              /\ r[Len(r) - k + 1] = kept[Len(kept) - (k + 1) + 1]
        <5>1. /\ Len(r) - k = Len(kept) - (k + 1)
              /\ Len(r) - k + 1 = Len(kept) - (k + 1) + 1
          BY <1>1, <2>6
        <5>2. k < Len(r) => /\ Len(r) - k \in 1 .. Len(kept) - 1
                            /\ Len(r) - k + 1 \in 1 .. Len(kept) - 1
          BY <1>1, <2>6
        <5> HIDE DEF before
        <5>3. k < Len(r) => r[Len(r) - k] = kept[Len(r) - k]
          BY <2>6, <5>2, Zenon
        <5>4. k < Len(r) => r[Len(r) - k + 1] = kept[Len(r) - k + 1]
          BY <2>6, <5>2, Zenon
        <5> QED BY <5>1, <5>3, <5>4, Zenon
      <4> QED BY <4>1, <4>3, <4>4, <4>5 DEF Change
    <3> QED BY <1>1, <3>2, <3>3
  <2>8. bcs' \in [0 .. size - 1 -> Seq({0, 1}) \cup {NoState}] /\ bcsPos' \in 0 .. size - 1
    BY <1>1, <1>5, <1>7, <2>5
  <2>9. r # <<>> /\ before = r[Len(r)] /\ Len(r) <= size + 1
    BY <1>1, <1>9, <2>6
  <2> HIDE DEF before
  <2>10. RingHolds'
    BY <1>1, <2>4, <2>6, <2>7, <2>9 DEF RingHolds
  <2>11. TypeOK' /\ Idle'
    BY <1>1, <1>2, <1>4, <2>1, <2>4, <2>6, <2>8, <2>9 DEF TypeOK, Idle
  <2> QED BY <1>1, <1>2, <2>10, <2>11 DEF IInv
<1>10. Len(kept) = 1 \/ Len(kept) > 1
  <2>1. Len(kept) \in Nat
    BY <1>1
  <2> QED BY <1>2, <2>1
<1> QED BY <1>8, <1>9, <1>10

-----------------------------------------------------------------------------
LEMMA NextHolds == IInv /\ [Next]_vars => IInv'
<1> SUFFICES ASSUME IInv, [Next]_vars PROVE IInv'
    OBVIOUS
<1> USE DEF IInv, TypeOK
<1>1. CASE LoadGame
  BY <1>1, BeginHolds DEF LoadGame
<1>2. CASE CloseGame
  BY <1>2, EndHolds DEF CloseGame
<1>3. CASE EnableStateRewind
  <2>1. now' \in States /\ netplay' \in BOOLEAN /\ framed' \in BOOLEAN /\ enabled' \in BOOLEAN
    BY <1>3 DEF EnableStateRewind
  <2>2. Begin(TRUE) \/ End
    BY <1>3 DEF EnableStateRewind
  <2> QED BY <2>1, <2>2, BeginHolds, EndHolds
<1>4. CASE Play
  BY <1>4 DEF Play, ringVars, RingHolds, Idle
<1>5. CASE Record
  BY <1>5, RecordHolds
<1>6. CASE Rewind
  BY <1>6, RewindHolds
<1>7. CASE Skip
  BY <1>7 DEF Skip, Frame, RingHolds, Idle
<1>8. CASE FrameFails
  BY <1>8, EndHolds DEF FrameFails
<1>9. CASE UNCHANGED vars
  BY <1>9 DEF vars, ringVars, RingHolds, Idle
<1> QED BY <1>1, <1>2, <1>3, <1>4, <1>5, <1>6, <1>7, <1>8, <1>9 DEF Next

LEMMA Invariant == Spec => []IInv
BY InitHolds, NextHolds, PTL DEF Spec

(* state_rewind.cpp keeps its ring, its position and its lists in range.   *)
THEOREM RewindTyped == Spec => []TypeOK
<1>1. IInv => TypeOK
  BY DEF IInv
<1> QED BY <1>1, Invariant, PTL

(* Whatever is recorded, rewound, skipped, failed or switched off, the     *)
(* slots of bcs stand for the states recorded, in order.                   *)
THEOREM RingStandsForStates == Spec => []RingHolds
<1>1. IInv => RingHolds
  BY DEF IInv
<1> QED BY <1>1, Invariant, PTL

-----------------------------------------------------------------------------
(* Each step is one of the history's.                                      *)
HDepths == {SizeFor(f) + 1 : f \in FrameSettings}

LEMMA BeginMaps ==
    ASSUME NEW on, IInv, Begin(on), UNCHANGED framed
    PROVE  History!Start \/ UNCHANGED ringVars
BY DEF Begin, History!Start

LEMMA StepMaps == IInv /\ [Next]_vars => [History!Next]_(History!vars)
<1> SUFFICES ASSUME IInv, [Next]_vars PROVE History!Next \/ UNCHANGED History!vars
    OBVIOUS
<1> USE DEF History!Next, History!vars
<1>1. CASE LoadGame
  BY <1>1, BeginMaps DEF LoadGame, History!Play, ringVars
<1>2. CASE CloseGame
  BY <1>2 DEF CloseGame, End, Cleanup, History!Stop, IInv, Idle
<1>3. CASE EnableStateRewind
  <2>1. CASE Begin(TRUE)
    BY <1>3, <2>1, BeginMaps DEF EnableStateRewind, ringVars
  <2>2. CASE End
    BY <1>3, <2>2 DEF EnableStateRewind, End, Cleanup, History!Stop, IInv, Idle
  <2> QED BY <1>3, <2>1, <2>2 DEF EnableStateRewind
<1>4. CASE Play
  BY <1>4 DEF Play, ringVars, History!Play
<1>5. CASE Record
  <2>1. LastKept(Append(kept, now), size + 1) = History!LastOf(Append(kept, now), size + 1)
    BY DEF LastKept, History!LastOf
  <2> QED BY <1>5, <2>1 DEF Record, Frame, History!Record, History!Framed
<1>6. CASE Rewind
  BY <1>6, RewindHolds DEF Rewind, Frame, History!GoBack, History!Framed
<1>7. CASE Skip
  <2>1. active /\ ssPrev = NoState => kept = <<>>
    <3> SUFFICES ASSUME active, ssPrev = NoState, kept # <<>> PROVE FALSE
      OBVIOUS
    <3>1. kept[Len(kept)] \in Seq({0, 1})
      BY RewindAssumption DEF IInv, TypeOK
    <3>2. kept[Len(kept)] = NoState
      BY DEF IInv, RingHolds
    <3> QED BY <3>1, <3>2 DEF NoState
  <2> QED BY <1>7, <2>1 DEF Skip, Frame, History!Skip, History!Framed
<1>8. CASE FrameFails
  BY <1>8 DEF FrameFails, End, Cleanup, History!Stop
<1>9. CASE UNCHANGED vars
  BY <1>9 DEF vars, ringVars
<1> QED BY <1>1, <1>2, <1>3, <1>4, <1>5, <1>6, <1>7, <1>8, <1>9 DEF Next

(* Rewinding implements the history: what it loads is what was recorded.   *)
THEOREM RewindsExactly == Spec => Rewinds
<1>1. Init => History!Init
  BY DEF Init, History!Init
<1>2. Spec => [][History!Next]_(History!vars)
  BY StepMaps, Invariant, PTL DEF Spec
<1> QED BY <1>1, <1>2, PTL DEF Spec, Rewinds, History!Spec
=============================================================================
