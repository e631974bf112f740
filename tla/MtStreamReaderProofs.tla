------------------------- MODULE MtStreamReaderProofs -------------------------
(***************************************************************************)
(* What MTStreamReader.h relies on for every ring size, set of streams and *)
(* pattern of calls: the token the two threads share is never doubled, and *)
(* what the client is handed is the stream it asked for.                   *)
(*                                                                         *)
(* The second rests on RingInv, which says how far the ring is filled for  *)
(* the client's place in it (InStep), that the stream stands where the     *)
(* next byte of the ring is from (PlaceRight), that a loop that is copied  *)
(* inside the ring is still there (LoopThere), and what the ring and the   *)
(* bytes behind it hold (Ring, Behind).                                    *)
(***************************************************************************)
EXTENDS MtStreamReader, TLAPS

(* The one inductive fact: the semaphores count, and OneToken.             *)
Counts == commandSem \in Nat /\ ackSem \in Nat
TokenInv == Counts /\ OneToken
tokenVars == <<semVars, threadPc, clientPc>>

(* A constructor leaves the token in the command semaphore.                *)
LEMMA InitToken == Init => TokenInv
BY DEF Init, TokenInv, Counts, OneToken, One, Serving

(* Whatever leaves the semaphores and both program counters alone keeps it.*)
LEMMA TokenKept == TokenInv /\ UNCHANGED tokenVars => TokenInv'
BY DEF TokenInv, Counts, OneToken, tokenVars, semVars, Serving

(* The thread takes the token with a command and gives it back with an ack,*)
(* or loses it in an assertion or an exception.                            *)
LEMMA ThreadKeepsToken == TokenInv /\ (Thread \/ Throw) => TokenInv'
<1> SUFFICES ASSUME TokenInv, Thread \/ Throw PROVE TokenInv'
    OBVIOUS
<1> USE DEF TokenInv, Counts, OneToken, One, Serving
<1>1. CASE Take
  <2>1. /\ threadPc = "idle" /\ commandSem > 0
        /\ commandSem' = commandSem - 1 /\ ackSem' = ackSem /\ clientPc' = clientPc
        /\ threadPc' \in {"leaving", "acking", "filling", "aborted"}
    BY <1>1 DEF Take, clientVars
  <2> QED BY <2>1
<1>2. CASE Silence \/ Read
  BY <1>2, TokenKept DEF Silence, Read, tokenVars, semVars, clientVars
<1>3. CASE EndRead
  BY <1>3 DEF EndRead, semVars, clientVars
<1>4. CASE Ack
  BY <1>4 DEF Ack, clientVars
<1>5. CASE TakeFailed
  BY <1>5 DEF TakeFailed, clientVars
<1>6. CASE AckFailed
  BY <1>6 DEF AckFailed, clientVars
<1>7. CASE Throw
  BY <1>7 DEF Throw, semVars, clientVars
<1> QED BY <1>1, <1>2, <1>3, <1>4, <1>5, <1>6, <1>7 DEF Thread

(* The client takes the token with an ack and gives it back with a command.*)
LEMMA ClientKeepsToken == TokenInv /\ Client => TokenInv'
<1> SUFFICES ASSUME TokenInv, Client PROVE TokenInv'
    OBVIOUS
<1> USE DEF TokenInv, Counts, OneToken, One, Serving
<1>1. CASE Acquire
  BY <1>1 DEF Acquire, threadVars
<1>2. CASE Post
  <2>1. /\ clientPc = "posting" /\ clientPc' \in {"joining", "free"}
        /\ commandSem' = commandSem + 1 /\ ackSem' = ackSem /\ threadPc' = threadPc
    BY <1>2 DEF Post, Posted, threadVars
  <2> QED BY <2>1
<1>3. CASE Join
  BY <1>3 DEF Join, threadVars, semVars
<1> QED BY <1>1, <1>2, <1>3 DEF Client

(* A call only decides what the client will wait for.                      *)
LEMMA CallKeepsToken == TokenInv /\ Call => TokenInv'
<1> SUFFICES ASSUME TokenInv, Call PROVE TokenInv'
    OBVIOUS
<1>1. /\ UNCHANGED <<semVars, threadPc>>
      /\ clientPc = "free" /\ clientPc' \in {"free", "waiting"}
  <2>1. ASSUME NEW c, Request(c) PROVE <1>1!1 /\ <1>1!2
    BY <2>1 DEF Request, Wants, threadVars
  <2>2. ASSUME NEW n, GetBuffer(n) PROVE <1>1!1 /\ <1>1!2
    BY <2>2 DEF GetBuffer, Wants, threadVars
  <2>3. ASSUME NEW n, Advance(n) PROVE <1>1!1 /\ <1>1!2
    BY <2>3 DEF Advance, Wants, threadVars
  <2> QED BY <2>1, <2>2, <2>3 DEF Call
<1> QED BY <1>1 DEF TokenInv, Counts, OneToken, One, Serving, semVars

(* Nobody ever holds the token while somebody else does: pending_, read_pos*)
(* and write_pos are not written by one thread while the other uses them,  *)
(* whether or not a stream throws or the reader's assertion fails.         *)
THEOREM OneTokenAlways == Spec => []OneToken
<1>1. TokenInv /\ [Next]_vars => TokenInv'
  <2> SUFFICES ASSUME TokenInv, [Next]_vars PROVE TokenInv'
    OBVIOUS
  <2>1. CASE Next
    BY <2>1, ThreadKeepsToken, ClientKeepsToken, CallKeepsToken DEF Next
  <2>2. CASE UNCHANGED vars
    BY <2>2, TokenKept DEF vars, tokenVars, threadVars, clientVars
  <2> QED BY <2>1, <2>2
<1>2. TokenInv => OneToken
  BY DEF TokenInv
<1> QED BY InitToken, <1>1, <1>2, PTL DEF Spec

-----------------------------------------------------------------------------
(* Arithmetic modulo the size of the ring.                                 *)
LEMMA Remainder ==
    ASSUME NEW q \in Nat \ {0}, NEW m \in Int, NEW r \in 0 .. q - 1, NEW a \in Int, a = q * m + r
    PROVE  a % q = r
<1>1. PICK n \in Int, s \in 0 .. q - 1 : a = q * n + s /\ n = a \div q /\ s = a % q
  OBVIOUS
<1>2. q * m + r = q * n + s /\ q * n \in Int /\ q * m \in Int
  BY <1>1
<1>3. ~(n >= m + 1)
  <2>1. n >= m + 1 => q * n >= q * (m + 1)
    BY <1>1
  <2>2. q * (m + 1) = q * m + q
    OBVIOUS
  <2> QED BY <1>1, <1>2, <2>1, <2>2
<1>4. ~(m >= n + 1)
  <2>1. m >= n + 1 => q * m >= q * (n + 1)
    BY <1>1
  <2>2. q * (n + 1) = q * n + q
    BY <1>1
  <2> QED BY <1>1, <1>2, <2>1, <2>2
<1>5. m = n
  BY <1>1, <1>3, <1>4
<1> QED BY <1>1, <1>2, <1>5

LEMMA Parts ==
    ASSUME NEW q \in Nat \ {0}, NEW a \in Int
    PROVE  \E m \in Int : a % q \in 0 .. q - 1 /\ a = q * m + (a % q)
<1>1. a \div q \in Int /\ a % q \in 0 .. q - 1 /\ a = q * (a \div q) + (a % q)
  OBVIOUS
<1> QED BY <1>1

(* How far apart two places of the ring are.                               *)
LEMMA Distance ==
    ASSUME NEW q \in Nat \ {0}, NEW a \in Int, NEW b \in Int
    PROVE  ((a % q) - b) % q = (a - b) % q
<1>1. PICK m \in Int : a % q \in 0 .. q - 1 /\ a = q * m + (a % q)
  BY Parts
<1> DEFINE r == a % q
           d == a - b
           s == d % q
<1>2. d \in Int /\ r \in 0 .. q - 1 /\ a = q * m + r
  BY <1>1
<1>3. PICK n \in Int : s \in 0 .. q - 1 /\ d = q * n + s
  BY <1>2, Parts
<1> HIDE DEF s, r
<1>4. r - b = d - q * m
  BY <1>2
<1> HIDE DEF d
<1>5. q * (n - m) = q * n - q * m /\ q * n \in Int /\ q * m \in Int
  OBVIOUS
<1>6. r - b \in Int /\ n - m \in Int /\ r - b = q * (n - m) + s
  BY <1>2, <1>3, <1>4, <1>5
<1>7. \A x \in Int, k \in Int : x = q * k + s => x % q = s
  BY <1>3, Remainder
<1>8. (r - b) % q = s
  BY ONLY <1>6, <1>7
<1> QED BY <1>8 DEF s, r, d

(* A distance of less than the ring.                                       *)
LEMMA Near ==
    ASSUME NEW q \in Nat \ {0}, NEW a \in Int, NEW b \in Int
    PROVE  /\ 0 <= a - b /\ a - b < q => ((a % q) - b) % q = a - b
           /\ -q <= a - b /\ a - b < 0 => ((a % q) - b) % q = q + a - b
<1> DEFINE d == a - b
<1>1. d \in Int /\ ((a % q) - b) % q = d % q
  <2>1. d \in Int
    OBVIOUS
  <2> QED BY <2>1, Distance, Zenon
<1> HIDE DEF d
<1>2. q * 0 = 0 /\ q * (-1) = -q
  OBVIOUS
<1>3. ASSUME 0 <= d, d < q PROVE d % q = d
  <2>1. d \in 0 .. q - 1 /\ d = q * 0 + d
    BY <1>1, <1>2, <1>3
  <2> QED BY <1>1, <2>1, Remainder
<1>4. ASSUME -q <= d, d < 0 PROVE d % q = q + d
  <2>1. q + d \in 0 .. q - 1 /\ d = q * (-1) + (q + d)
    BY <1>1, <1>2, <1>4
  <2> QED BY <1>1, <2>1, Remainder
<1> QED BY <1>1, <1>3, <1>4 DEF d

(* Places less than the ring apart are not the same.                       *)
LEMMA Apart ==
    ASSUME NEW q \in Nat \ {0}, NEW a \in Int, NEW b \in Int, a < b, b - a < q
    PROVE  a % q # b % q
<1> DEFINE D(x) == ((x % q) - a) % q
<1>1. 0 <= b - a /\ b - a < q /\ b - a # 0 /\ 0 <= a - a /\ a - a < q /\ a - a = 0
  OBVIOUS
<1>2. D(b) = b - a /\ D(a) = a - a
  BY <1>1, Near, Zenon
<1>3. D(a) # D(b)
  BY ONLY <1>1, <1>2, a - a = 0
<1>4. a % q = b % q => D(a) = D(b)
  BY Zenon
<1> QED BY <1>3, <1>4, Zenon

(* Places that do not go across the end of the ring follow each other,     *)
(* and those that do end in the copy of its start.                         *)
LEMMA Along ==
    ASSUME NEW q \in Nat \ {0}, NEW a \in Int, NEW j \in Nat, j < q
    PROVE  (a + j) % q = IF (a % q) + j < q THEN (a % q) + j ELSE (a % q) + j - q
<1>1. PICK m \in Int : a % q \in 0 .. q - 1 /\ a = q * m + (a % q)
  BY Parts
<1>2. q * (m + 1) = q * m + q /\ q * m \in Int
  OBVIOUS
<1> DEFINE s == IF (a % q) + j < q THEN (a % q) + j ELSE (a % q) + j - q
           n == IF (a % q) + j < q THEN m ELSE m + 1
           x == a + j
<1>3. s \in 0 .. q - 1 /\ x \in Int /\ n \in Int
  BY <1>1
<1>4. x = q * n + s
  <2>1. CASE (a % q) + j < q
    BY <1>1, <2>1
  <2>2. CASE ~((a % q) + j < q)
    BY <1>1, <1>2, <2>2
  <2> QED BY <2>1, <2>2
<1>5. x % q = s
  <2> HIDE DEF x, s, n
  <2> QED BY <1>3, <1>4, Remainder
<1> QED BY <1>5

-----------------------------------------------------------------------------
LEMMA Sizes ==
    /\ BufferSize \in Nat \ {0} /\ ChunkSize \in Nat \ {0} /\ BufferSize = 4 * ChunkSize
    /\ Overbuffer \in Nat /\ Overbuffer <= ChunkSize
BY ReaderAssumption

(* The buffer is a ring with something behind it.                          *)
Whole == DOMAIN buffer = 0 .. BufferSize + Overbuffer - 1

(* What Stored writes, and what it leaves.                                 *)
LEMMA StoredCells ==
    ASSUME NEW p \in Int, NEW n \in 0 .. BufferSize, NEW data, Whole
    PROVE  /\ DOMAIN Stored(p, n, data) = DOMAIN buffer
           /\ \A i \in 0 .. n - 1 : Stored(p, n, data)[(p + i) % BufferSize] = data[i]
           /\ \A q \in p + n - BufferSize .. p - 1 :
                 Stored(p, n, data)[q % BufferSize] = buffer[q % BufferSize]
           /\ \A c \in BufferSize .. BufferSize + Overbuffer - 1 :
                 Stored(p, n, data)[c] = buffer[c]
<1>1. DOMAIN Stored(p, n, data) = DOMAIN buffer
  BY DEF Stored
<1> DEFINE S == Stored(p, n, data)
           At(c) == (c - p) % BufferSize
<1>2. \A c \in DOMAIN buffer :
         S[c] = IF c < BufferSize /\ At(c) < n THEN data[At(c)] ELSE buffer[c]
  BY DEF Stored
<1>3. \A q \in Int : q % BufferSize \in 0 .. BufferSize - 1 /\ q % BufferSize \in DOMAIN buffer
  BY Sizes DEF Whole
<1> HIDE DEF S
<1>4. ASSUME NEW i \in 0 .. n - 1 PROVE S[(p + i) % BufferSize] = data[i]
  <2> DEFINE q == p + i
  <2>1. q \in Int /\ 0 <= q - p /\ q - p < BufferSize /\ q - p = i /\ i < n
    BY Sizes
  <2> HIDE DEF q
  <2>2. At(q % BufferSize) = i
    BY <2>1, Sizes, Near
  <2> DEFINE c == q % BufferSize
  <2>3. c \in DOMAIN buffer /\ c < BufferSize
    <3>1. q % BufferSize \in 0 .. BufferSize - 1 /\ q % BufferSize \in DOMAIN buffer
      BY <1>3, <2>1
    <3> QED BY <3>1, Sizes
  <2>a. At(c) = i
    BY <2>2
  <2> HIDE DEF c
  <2>4. S[c] = data[i]
    BY <1>2, <2>1, <2>3, <2>a
  <2> QED BY <2>4 DEF q, c
<1>5. ASSUME NEW q \in p + n - BufferSize .. p - 1
      PROVE  S[q % BufferSize] = buffer[q % BufferSize]
  <2>1. q \in Int /\ -BufferSize <= q - p /\ q - p < 0 /\ ~(BufferSize + q - p < n)
    BY Sizes
  <2>2. At(q % BufferSize) = BufferSize + q - p
    BY <2>1, Sizes, Near
  <2> QED BY <1>2, <1>3, <2>1, <2>2
<1>6. ASSUME NEW c \in BufferSize .. BufferSize + Overbuffer - 1 PROVE S[c] = buffer[c]
  <2>1. c \in DOMAIN buffer /\ ~(c < BufferSize)
    BY Sizes DEF Whole
  <2> QED BY <1>2, <2>1
<1> QED BY <1>1, <1>4, <1>5, <1>6 DEF S

(* What Copied writes, and what it leaves.                                 *)
LEMMA CopiedCells ==
    ASSUME NEW b, DOMAIN b = 0 .. BufferSize + Overbuffer - 1
    PROVE  /\ DOMAIN Copied(b) = DOMAIN b
           /\ \A q \in Int : Copied(b)[q % BufferSize] = b[q % BufferSize]
           /\ \A c \in 0 .. Overbuffer - 1 : Copied(b)[BufferSize + c] = b[c]
<1>1. DOMAIN Copied(b) = DOMAIN b
  BY DEF Copied
<1>2. \A c \in DOMAIN b : Copied(b)[c] = IF c < BufferSize THEN b[c] ELSE b[c - BufferSize]
  BY DEF Copied
<1>3. ASSUME NEW q \in Int PROVE Copied(b)[q % BufferSize] = b[q % BufferSize]
  <2>1. q % BufferSize \in DOMAIN b /\ q % BufferSize < BufferSize
    BY Sizes
  <2> QED BY <1>2, <2>1
<1>4. ASSUME NEW c \in 0 .. Overbuffer - 1 PROVE Copied(b)[BufferSize + c] = b[c]
  <2>1. BufferSize + c \in DOMAIN b /\ ~(BufferSize + c < BufferSize)
          /\ BufferSize + c - BufferSize = c
    BY Sizes
  <2> DEFINE d == BufferSize + c
  <2> HIDE DEF d
  <2>2. d \in DOMAIN b /\ ~(d < BufferSize) /\ d - BufferSize = c
    BY <2>1, Sizes DEF d
  <2>3. Copied(b)[d] = b[c]
    BY <1>2, <2>2
  <2> QED BY <2>3 DEF d
<1> QED BY <1>1, <1>3, <1>4

(* Where a stream goes on after m more bytes without an end among them.    *)
LEMMA EntryOn ==
    ASSUME NEW w \in 1 .. Streams, NEW n \in Nat, NEW m \in Nat, Entry(w, n) + m <= SizeOf[w],
           Entry(w, n) < SizeOf[w]
    PROVE  Entry(w, n + m) = IF Entry(w, n) + m = SizeOf[w] THEN LoopOf[w] ELSE Entry(w, n) + m
<1> DEFINE S == SizeOf[w]
           L == LoopOf[w]
<1>1. S \in Nat /\ L \in 0 .. S
  BY ReaderAssumption
<1>2. \A x \in Nat : Entry(w, x) = IF x < S THEN x ELSE IF L = S THEN S
                                    ELSE L + ((x - L) % (S - L))
  BY DEF Entry
<1>3. n + m \in Nat /\ Entry(w, n) + m <= S /\ Entry(w, n) < S
  OBVIOUS
<1> HIDE DEF S, L
<1> SUFFICES Entry(w, n + m) = IF Entry(w, n) + m = S THEN L ELSE Entry(w, n) + m
  BY DEF S, L
<1>4. CASE n < S
  <2>1. Entry(w, n) = n /\ n + m <= S
    BY <1>2, <1>3, <1>4
  <2>2. CASE n + m < S
    BY <1>2, <1>3, <2>1, <2>2
  <2>3. CASE n + m = S /\ L = S
    BY <1>1, <1>2, <1>3, <2>1, <2>3
  <2>4. CASE n + m = S /\ L < S
    <3> DEFINE q == S - L
    <3>1. q \in Nat \ {0}
      BY <1>1, <2>4
    <3> DEFINE x == n + m
    <3> HIDE DEF x
    <3>a. x \in Nat /\ ~(x < S) /\ L # S /\ x - L = q
      BY <1>1, <2>4 DEF x
    <3>2. Entry(w, x) = L + (q % q)
      <4>1. Entry(w, x) = L + ((x - L) % q)
        BY <1>2, <3>a
      <4> QED BY <3>a, <4>1
    <3> USE DEF x
    <3>3. q % q = 0
      BY ONLY <3>1, q * 1 = q, q * 1 + 0 = q, Remainder
    <3> QED BY <1>1, <2>1, <2>4, <3>2, <3>3
  <2> QED BY <1>1, <2>1, <2>2, <2>3, <2>4
<1>5. CASE n >= S
  <2> DEFINE q == S - L
             a == n - L
             r == a % q
  <2>1. L < S /\ Entry(w, n) = L + r
    BY <1>1, <1>2, <1>3, <1>5
  <2>2. q \in Nat \ {0} /\ a \in Int
    BY <1>1, <2>1
  <2>3. PICK k \in Int : r \in 0 .. q - 1 /\ a = q * k + r
    BY <2>2, Parts
  <2>4. Entry(w, n + m) = L + ((a + m) % q)
    <3>1. n + m >= S /\ (n + m) - L = a + m
      BY <1>1, <1>5
    <3> DEFINE x == n + m
    <3> HIDE DEF x
    <3>2. x \in Nat /\ ~(x < S) /\ L # S /\ x - L = a + m
      BY <1>1, <1>3, <2>1, <3>1 DEF x
    <3>3. Entry(w, x) = L + ((x - L) % q)
      BY <1>2, <3>2
    <3> QED BY <3>2, <3>3 DEF x
  <2>5. r + m <= q
    BY <1>1, <1>3, <2>1, <2>3
  <2>6. r \in Nat /\ (r + m = q <=> Entry(w, n) + m = S)
    BY <1>1, <2>1, <2>3
  <2>7. (a + m) % q = IF r + m = q THEN 0 ELSE r + m
    <3> HIDE DEF q, r, a
    <3>1. q * (k + 1) = q * k + q /\ q * k \in Int
      BY <2>2
    <3> DEFINE x == a + m
               s == IF r + m = q THEN 0 ELSE r + m
               j == IF r + m = q THEN k + 1 ELSE k
    <3>2. x \in Int /\ s \in 0 .. q - 1 /\ j \in Int
      BY <2>2, <2>3, <2>5
    <3>3. x = q * j + s
      BY <2>2, <2>3, <3>1
    <3>4. x % q = s
      <4> HIDE DEF x, s, j
      <4> QED BY <2>2, <3>2, <3>3, Remainder
    <3> QED BY <3>4
  <2> HIDE DEF q, r, a
  <2> QED BY <1>1, <2>1, <2>4, <2>5, <2>6, <2>7
<1> QED BY <1>1, <1>4, <1>5

LEMMA EntryRange ==
    ASSUME NEW w \in 1 .. Streams, NEW n \in Nat
    PROVE  /\ Entry(w, n) \in 0 .. SizeOf[w]
           /\ Entry(w, n) = SizeOf[w] <=> LoopOf[w] = SizeOf[w] /\ n >= SizeOf[w]
<1> DEFINE S == SizeOf[w]
           L == LoopOf[w]
<1>1. S \in Nat /\ L \in 0 .. S
  BY ReaderAssumption
<1>2. Entry(w, n) = IF n < S THEN n ELSE IF L = S THEN S ELSE L + ((n - L) % (S - L))
  BY DEF Entry
<1> HIDE DEF S, L
<1> SUFFICES Entry(w, n) \in 0 .. S /\ (Entry(w, n) = S <=> L = S /\ n >= S)
  BY DEF S, L
<1>3. ASSUME L < S PROVE (n - L) % (S - L) \in 0 .. S - L - 1
  BY <1>1, <1>3
<1>4. CASE n < S
  BY <1>1, <1>2, <1>4
<1>5. CASE n >= S /\ L = S
  BY <1>1, <1>2, <1>5
<1>6. CASE n >= S /\ L < S
  <2> DEFINE r == (n - L) % (S - L)
  <2>1. r \in 0 .. S - L - 1 /\ Entry(w, n) = L + r
    BY <1>1, <1>2, <1>3, <1>6
  <2> HIDE DEF r
  <2> QED BY <1>1, <1>6, <2>1
<1> QED BY <1>1, <1>4, <1>5, <1>6

-----------------------------------------------------------------------------
Commands ==
    [do : {"nop", "next", "exit", "set"}, which : 1 .. Streams,
     skip : Nat, pzb : 0 .. BufferSize + Overbuffer, count : 0 .. Overbuffer]

Sending == clientPc \in {"waiting", "posting"}
Stopped == threadPc \in {"failed", "failedAcking", "aborted"}
InFill == threadPc \in {"filling", "failed"}

ReaderTypes ==
    /\ threadPc \in {"idle", "filling", "acking", "leaving", "gone", "failed", "aborted"}
    /\ clientPc \in {"free", "waiting", "posting", "joining", "gone"}
    /\ pending \in Commands /\ wanted \in Commands
    /\ start \in Commands /\ (start = Nop \/ start.do = "set")
    /\ Whole
    /\ readPos \in Nat /\ writePos \in Nat /\ todo \in Nat /\ base \in Int
    /\ needSync \in BOOLEAN
    /\ active \in 1 .. Streams
    /\ pos \in [1 .. Streams -> Nat] /\ filePos \in [1 .. Streams -> Nat]
    /\ held \in 0 .. Overbuffer

(* Who waits for what.                                                     *)
Calls ==
    /\ Stopped => commandSem = 0 /\ ackSem = 0 /\ clientPc # "posting"
    /\ ~InFill => todo = 0
    /\ Sending /\ wanted.do = "nop" => start # Nop
    /\ Sending /\ wanted.do = "next" => ~needSync
    /\ Sending /\ wanted.do # "nop" => wanted.count = 0
    /\ held > 0 => clientPc = "free" /\ ~needSync /\ start # Nop
    /\ threadPc = "aborted" => needSync

(* A SetActive on its way: the ring still holds the stream before it.      *)
Fresh == commandSem > 0 /\ pending.do = "set"
FreshInv == Fresh => needSync /\ readPos = 0 /\ writePos = 0 /\ pending = start
Streaming == start # Nop /\ ~Fresh /\ threadPc # "aborted"

(* The quarters asked for and not begun, and how far the thread will read  *)
(* when it has done what it is at: a ring's length past the start of the   *)
(* quarter the client is in.                                               *)
Nexts ==
    One(Sending /\ wanted.do = "next") + One(commandSem > 0 /\ pending.do = "next")
End == writePos + todo
InStep ==
    /\ End = ChunkSize * (4 + (readPos \div ChunkSize) - Nexts)
    /\ End >= BufferSize
    /\ needSync => readPos = 0
    /\ InFill => todo <= (IF needSync THEN BufferSize ELSE ChunkSize)

(* Where the stream stands is where the next byte of the ring is from.     *)
PlaceRight ==
    /\ active = start.which
    /\ writePos >= start.pzb
    /\ pos[active] = Entry(active, start.skip + (writePos - start.pzb))
    /\ threadPc # "filling" \/ base = NoBase => filePos[active] = pos[active]

(* A loop that is copied from the ring is there, where this command will   *)
(* not write.                                                              *)
LoopLength == SizeOf[active] - LoopOf[active]
LoopThere ==
    threadPc = "filling" /\ base # NoBase =>
        /\ LoopLength > 0 /\ base + LoopLength <= BufferSize
        /\ pos[active] >= LoopOf[active]
        /\ \E p \in End - BufferSize .. writePos - LoopLength : base = p % BufferSize
        /\ \A j \in 0 .. LoopLength - 1 : buffer[base + j] = ByteOf(active, LoopOf[active] + j)

(* The ring holds the stream, and what is behind it holds its start as far *)
(* as that is not being written.                                           *)
Ring == \A p \in End - BufferSize .. writePos - 1 : buffer[p % BufferSize] = Streamed(p)
Settled ==
    IF ~InFill THEN End ELSE IF needSync THEN End - BufferSize ELSE End - ChunkSize
Behind ==
    \A p \in End - BufferSize .. Settled - 1 :
        p % BufferSize < Overbuffer => buffer[BufferSize + (p % BufferSize)] = Streamed(p)
Data == PlaceRight /\ LoopThere /\ Ring /\ Behind
RingInv ==
    /\ TokenInv /\ ReaderTypes /\ Calls /\ FreshInv
    /\ Streaming => InStep /\ Data

LEMMA InitRing == Init => RingInv
<1> SUFFICES ASSUME Init PROVE RingInv
  OBVIOUS
<1>1. TokenInv
  BY InitToken
<1>2. ReaderTypes
  <2>1. Nop \in Commands
    BY ReaderAssumption DEF Nop, Commands
  <2>2. 1 \in 1 .. Streams /\ 0 \in 0 .. Overbuffer
    BY ReaderAssumption
  <2>3. Whole /\ pos \in [1 .. Streams -> Nat] /\ filePos \in [1 .. Streams -> Nat]
    BY DEF Init, Whole
  <2>4. base \in Int
    BY DEF Init, NoBase
  <2>5. /\ threadPc = "idle" /\ clientPc = "free" /\ pending = Nop /\ wanted = Nop /\ start = Nop
        /\ readPos = 0 /\ writePos = 0 /\ todo = 0 /\ needSync = FALSE /\ active = 1 /\ held = 0
    BY DEF Init
  <2> QED BY <2>1, <2>2, <2>3, <2>4, <2>5 DEF ReaderTypes
<1>3. Calls /\ FreshInv /\ ~Streaming
  <2>1. pending.do = "nop" /\ start = Nop /\ held = 0 /\ clientPc = "free" /\ threadPc = "idle"
          /\ todo = 0
    BY DEF Init, Nop
  <2> QED BY <2>1 DEF Calls, FreshInv, Fresh, Streaming, Stopped, InFill, Sending
<1> QED BY <1>1, <1>2, <1>3 DEF RingInv

(* A step that leaves the ring alone, and the thread where it was in it.   *)
LEMMA DataKept ==
    ASSUME ReaderTypes, Data,
           UNCHANGED <<buffer, writePos, todo, active, pos, filePos, start>>,
           InFill' = InFill, needSync' = needSync \/ ~InFill,
           threadPc' = "filling" => threadPc = "filling" /\ base' = base,
           threadPc' # "filling" \/ base' = NoBase => threadPc # "filling" \/ base = NoBase
    PROVE  Data'
<1>1. PlaceRight'
  BY DEF Data, PlaceRight, Entry
<1>2. LoopThere'
  BY DEF Data, LoopThere, LoopLength, End, ByteOf
<1>3. Ring'
  BY DEF Data, Ring, End, Streamed, ByteOf
<1>4. Behind'
  <2>1. Settled' = Settled
    BY DEF Settled, End
  <2> QED BY <2>1 DEF Data, Behind, End, Streamed, ByteOf
<1> QED BY <1>1, <1>2, <1>3, <1>4 DEF Data

LEMMA InStepKept ==
    ASSUME InStep, UNCHANGED <<writePos, todo, readPos>>, Nexts' = Nexts,
           needSync' = needSync \/ ~InFill', needSync' => needSync, InFill' => InFill
    PROVE  InStep'
BY DEF InStep, End

-----------------------------------------------------------------------------
(* The thread takes a command.                                             *)
LEMMA TakeKeepsRing == RingInv /\ Take => RingInv'
<1> SUFFICES ASSUME RingInv, Take PROVE RingInv'
  OBVIOUS
<1>1. /\ threadPc = "idle" /\ commandSem > 0 /\ commandSem' = commandSem - 1 /\ base' = NoBase
      /\ UNCHANGED <<ackSem, pending, readPos, clientPc, wanted, held, needSync, start>>
  BY DEF Take, clientVars
<1>2. TokenInv' /\ TokenInv /\ ReaderTypes /\ Calls /\ FreshInv /\ (Streaming => InStep /\ Data)
  BY ThreadKeepsToken DEF RingInv, Thread
<1>3. commandSem = 1 /\ commandSem' = 0 /\ ackSem = 0 /\ clientPc # "posting"
  BY <1>1, <1>2 DEF TokenInv, Counts, OneToken, One
<1>4. todo = 0 /\ ~InFill /\ NoBase \in Int
  BY <1>1, <1>2 DEF Calls, InFill, NoBase
<1>5. ~Fresh'
  BY <1>3 DEF Fresh
<1>6. CASE pending.do \in {"exit", "nop"}
  <2>1. /\ UNCHANGED <<ringVars, active, todo, pos, filePos>>
        /\ threadPc' \in {"leaving", "acking"}
    BY <1>6 DEF Take
  <2>2. ReaderTypes'
    BY <1>1, <1>2, <1>4, <2>1 DEF ReaderTypes, Whole, ringVars
  <2>3. Calls'
    BY <1>1, <1>2, <1>4, <2>1 DEF Calls, Stopped, InFill, Sending, Nop
  <2>4. ASSUME Streaming' PROVE InStep' /\ Data'
    <3>1. Streaming
      BY <1>1, <1>6, <2>4 DEF Streaming, Fresh, Nop
    <3>2. Data'
      BY <1>1, <1>2, <1>4, <2>1, <3>1, DataKept DEF ringVars, InFill
    <3>3. Nexts' = Nexts
      BY <1>1, <1>6 DEF Nexts, One, Sending
    <3>4. InStep'
      BY <1>1, <1>2, <1>4, <2>1, <3>1, <3>3, InStepKept DEF ringVars, InFill
    <3> QED BY <3>2, <3>4
  <2> QED BY <1>2, <1>5, <2>2, <2>3, <2>4 DEF RingInv, FreshInv
<1>7. CASE pending.do = "next"
  <2>1. /\ UNCHANGED <<ringVars, active, pos, filePos>>
        /\ threadPc' = "filling" /\ todo' = ChunkSize
    BY <1>7 DEF Take, Refill
  <2>2. ReaderTypes'
    BY <1>1, <1>2, <1>4, <2>1, Sizes DEF ReaderTypes, Whole, ringVars
  <2>3. Calls'
    BY <1>1, <1>2, <1>4, <2>1 DEF Calls, Stopped, InFill, Sending, Nop
  <2>4. ASSUME Streaming' PROVE InStep' /\ Data'
    <3>1. Streaming
      BY <1>1, <1>7, <2>4 DEF Streaming, Fresh, Nop
    <3>2. /\ writePos \in Nat /\ End = writePos /\ End' = writePos + ChunkSize
          /\ writePos' = writePos /\ buffer' = buffer
      BY <1>2, <1>4, <2>1, Sizes DEF ReaderTypes, End, ringVars
    <3>3. Nexts \in Int /\ Nexts' = Nexts - 1
      BY <1>1, <1>3, <1>7 DEF Nexts, One, Sending
    <3>4. InStep'
      <4>1. readPos' = readPos /\ readPos \div ChunkSize \in Int
        BY <1>1, <1>2, Sizes DEF ReaderTypes
      <4> DEFINE k == readPos \div ChunkSize
      <4> HIDE DEF k
      <4>2. End = ChunkSize * (4 + k - Nexts) /\ k \in Int /\ k' = k
        BY <1>2, <3>1, <4>1 DEF InStep, k
      <4>3. ChunkSize * (4 + k - (Nexts - 1)) = ChunkSize * (4 + k - Nexts) + ChunkSize
        BY <3>3, <4>2, Sizes
      <4>4. End' = ChunkSize * (4 + k - Nexts')
        BY <3>2, <3>3, <4>2, <4>3
      <4>5. End' >= BufferSize /\ todo' <= BufferSize
        BY <1>2, <2>1, <3>1, <3>2, Sizes DEF InStep
      <4> QED BY <1>1, <1>2, <2>1, <3>1, <4>2, <4>4, <4>5, Sizes DEF InStep, k
    <3>5. PlaceRight'
      BY <1>1, <1>2, <1>4, <2>1, <3>1, <3>2 DEF Data, PlaceRight, Entry
    <3>6. LoopThere'
      BY <1>1 DEF LoopThere
    <3>7. Ring'
      <4>1. \A p \in Int : Streamed(p)' = Streamed(p)
        BY <1>1 DEF Streamed, ByteOf
      <4>2. \A p \in End' - BufferSize .. writePos' - 1 : p \in End - BufferSize .. writePos - 1
        BY <3>2, Sizes
      <4> QED BY <1>2, <3>1, <3>2, <4>1, <4>2 DEF Data, Ring
    <3>8. Behind'
      <4>1. \A p \in Int : Streamed(p)' = Streamed(p)
        BY <1>1 DEF Streamed, ByteOf
      <4>2. Settled' \in Int /\ Settled' <= End /\ Settled = End
        BY <1>4, <2>1, <3>2, Sizes DEF Settled, InFill
      <4>3. /\ End \in Int /\ End' \in Int /\ End <= End' /\ Settled' <= Settled
            /\ Settled \in Int /\ BufferSize \in Int
        BY <3>2, <4>2, Sizes
      <4> DEFINE e == End
                 f == End'
                 s == Settled'
      <4>4. e \in Int /\ f \in Int /\ s \in Int /\ e <= f /\ s <= e /\ BufferSize \in Int
        BY <4>2, <4>3
      <4> HIDE DEF e, f, s
      <4>5. \A p \in f - BufferSize .. s - 1 : p \in e - BufferSize .. e - 1
        BY ONLY <4>4
      <4>6. \A p \in End' - BufferSize .. Settled' - 1 : p \in End - BufferSize .. Settled - 1
        BY ONLY <4>2, <4>5, Zenon DEF e, f, s
      <4> QED BY <1>2, <3>1, <3>2, <4>1, <4>6 DEF Data, Behind
    <3> QED BY <3>4, <3>5, <3>6, <3>7, <3>8 DEF Data
  <2> QED BY <1>2, <1>5, <2>2, <2>3, <2>4 DEF RingInv, FreshInv
<1>8. CASE pending.do = "set"
  <2> DEFINE w == pending.which
             entry == Entry(w, pending.skip)
             n == pending.pzb
  <2>1. /\ active' = w /\ pos' = [pos EXCEPT ![w] = entry] /\ filePos' = [filePos EXCEPT ![w] = entry]
        /\ writePos' = writePos + n /\ buffer' = Copied(Stored(writePos, n, Zeros))
        /\ IF n <= BufferSize THEN threadPc' = "filling" /\ todo' = BufferSize - n
                              ELSE threadPc' = "aborted" /\ todo' = todo
    BY <1>8 DEF Take
  <2>2. needSync /\ readPos = 0 /\ writePos = 0 /\ pending = start
    BY <1>1, <1>2, <1>8 DEF FreshInv, Fresh
  <2>3. w \in 1 .. Streams /\ pending.skip \in Nat /\ n \in 0 .. BufferSize + Overbuffer
          /\ w = start.which /\ n = start.pzb /\ pending.skip = start.skip
    BY <1>2, <2>2 DEF ReaderTypes, Commands
  <2>4. entry \in Nat
    <3>1. entry \in 0 .. SizeOf[w] /\ SizeOf[w] \in Nat
      BY <2>3, EntryRange, ReaderAssumption
    <3> QED BY <3>1
  <2> HIDE DEF entry
  <2>5. Whole'
    <3> DEFINE S == Stored(writePos, n, Zeros)
    <3>1. DOMAIN S = DOMAIN buffer
      BY DEF Stored
    <3> HIDE DEF S
    <3>2. DOMAIN S = 0 .. BufferSize + Overbuffer - 1
      BY <1>2, <3>1 DEF ReaderTypes, Whole
    <3>3. buffer' = Copied(S)
      BY <2>1 DEF S
    <3> QED BY <3>2, <3>3 DEF Copied, Whole
  <2> HIDE DEF w, n
  <2>6. ReaderTypes'
    <3>1. threadPc' \in {"filling", "aborted"} /\ todo' \in Nat
      BY <1>4, <2>1, <2>3, Sizes
    <3>2. writePos' \in Nat /\ base' \in Int /\ active' \in 1 .. Streams
            /\ pos' \in [1 .. Streams -> Nat] /\ filePos' \in [1 .. Streams -> Nat]
      BY <1>1, <1>2, <1>4, <2>1, <2>2, <2>3, <2>4, Sizes DEF ReaderTypes
    <3> QED BY <1>1, <1>2, <2>5, <3>1, <3>2 DEF ReaderTypes
  <2>7. Calls'
    <3>1. ~InFill' => todo' = 0
      BY <1>4, <2>1 DEF InFill
    <3>2. Stopped' => commandSem' = 0 /\ ackSem' = 0 /\ clientPc' # "posting"
      BY <1>1, <1>3
    <3>3. threadPc' = "aborted" => needSync'
      BY <1>1, <2>2
    <3> QED BY <1>1, <1>2, <3>1, <3>2, <3>3 DEF Calls, Sending, Nop
  <2>8. ASSUME Streaming' PROVE InStep' /\ Data'
    <3>1. n <= BufferSize /\ threadPc' = "filling" /\ todo' = BufferSize - n /\ n \in 0 .. BufferSize
            /\ writePos' = n
      BY <2>1, <2>2, <2>3, <2>8, Sizes DEF Streaming
    <3>2. End' = BufferSize /\ InFill'
      BY <3>1, Sizes DEF End, InFill
    <3>3. InStep'
      <4>1. Nexts' = 0
        <5>1. ~(Sending' /\ wanted'.do = "next")
          BY <1>1, <1>2, <2>2 DEF Calls, Sending
        <5> QED BY <1>3, <5>1 DEF Nexts, One
      <4>2. 0 \div ChunkSize = 0 /\ ChunkSize * 4 = BufferSize
        BY Sizes
      <4>3. End' = ChunkSize * (4 + (readPos' \div ChunkSize) - Nexts')
        BY <1>1, <2>2, <3>2, <4>1, <4>2, Sizes
      <4>4. todo' <= BufferSize
        BY <3>1, Sizes
      <4> QED BY <1>1, <2>2, <3>2, <4>3, <4>4, Sizes DEF InStep
    <3>4. PlaceRight'
      <4>1. pos'[w] = entry /\ filePos'[w] = entry
        BY <1>2, <2>1, <2>3 DEF ReaderTypes
      <4>2. start.skip + (writePos' - start.pzb) = start.skip
        BY <2>3, <3>1
      <4>3. entry = Entry(w, start.skip)
        BY <2>3 DEF entry
      <4> QED BY <1>1, <2>1, <2>3, <3>1, <4>1, <4>2, <4>3 DEF PlaceRight, Entry
    <3>5. LoopThere'
      BY <1>1 DEF LoopThere
    <3>6. Ring'
      <4> DEFINE S == Stored(writePos, n, Zeros)
      <4>1. DOMAIN S = 0 .. BufferSize + Overbuffer - 1
              /\ \A i \in 0 .. n - 1 : S[(writePos + i) % BufferSize] = Zeros[i]
        <5>1. writePos \in Int /\ Whole
          BY <1>2 DEF ReaderTypes
        <5> QED BY <3>1, <5>1, StoredCells DEF Whole
      <4>2. buffer' = Copied(S)
        BY <2>1
      <4> HIDE DEF S
      <4>3. ASSUME NEW p \in End' - BufferSize .. writePos' - 1
            PROVE  buffer'[p % BufferSize] = Streamed(p)'
        <5>1. p \in 0 .. n - 1 /\ p \in Int /\ writePos + p = p /\ p \in 0 .. BufferSize - 1
          BY <2>2, <3>1, <3>2, Sizes
        <5>2. Zeros[p] = 0
          BY <5>1 DEF Zeros
        <5>3. buffer'[p % BufferSize] = S[p % BufferSize]
          BY <4>1, <4>2, <5>1, CopiedCells
        <5>4. S[p % BufferSize] = 0
          BY <4>1, <5>1, <5>2
        <5>5. p < start'.pzb
          BY <1>1, <2>3, <5>1
        <5>6. Streamed(p)' = 0
          BY <5>5 DEF Streamed
        <5> QED BY <5>3, <5>4, <5>6
      <4> QED BY <4>3 DEF Ring
    <3>7. Behind'
      <4>1. Settled' = End' - BufferSize
        BY <1>1, <2>2, <3>2 DEF Settled
      <4>2. \A p \in End' - BufferSize .. Settled' - 1 : FALSE
        BY <3>2, <4>1, Sizes
      <4> QED BY <4>2 DEF Behind
    <3> QED BY <3>3, <3>4, <3>5, <3>6, <3>7 DEF Data
  <2> QED BY <1>2, <1>5, <2>6, <2>7, <2>8 DEF RingInv, FreshInv
<1>9. pending.do \in {"exit", "nop", "next", "set"}
  BY <1>2 DEF ReaderTypes, Commands
<1> QED BY <1>6, <1>7, <1>8, <1>9

-----------------------------------------------------------------------------
(* While the thread fills the ring it has the token.                       *)
LEMMA Filling ==
    ASSUME RingInv, threadPc = "filling"
    PROVE  /\ commandSem = 0 /\ ackSem = 0 /\ clientPc # "posting"
           /\ ~Fresh /\ InFill
           /\ ReaderTypes /\ Calls /\ FreshInv /\ (Streaming => InStep /\ Data)
           /\ Streaming => todo <= BufferSize /\ (~needSync => todo <= ChunkSize)
<1>1. commandSem = 0 /\ ackSem = 0 /\ clientPc # "posting"
  BY DEF RingInv, TokenInv, Counts, OneToken, One, Serving
<1>2. Streaming => todo <= BufferSize /\ (~needSync => todo <= ChunkSize)
  <2>1. ASSUME Streaming PROVE todo <= (IF needSync THEN BufferSize ELSE ChunkSize) /\ todo \in Nat
    BY <2>1 DEF RingInv, InStep, InFill, ReaderTypes
  <2> QED BY <2>1, Sizes
<1> QED BY <1>1, <1>2 DEF RingInv, Fresh, InFill

(* The quarters behind are not counted anew while the thread fills one.    *)
LEMMA FillingInStep ==
    ASSUME InStep, threadPc = "filling", threadPc' \in {"filling", "failed"}, End' = End,
           UNCHANGED <<readPos, needSync, clientPc, wanted, commandSem, pending>>,
           todo \in Nat, todo' \in Nat, todo' <= todo
    PROVE  InStep'
<1>1. Nexts' = Nexts
  BY DEF Nexts, One, Sending
<1>2. InFill /\ InFill'
  BY DEF InFill
<1>3. todo <= (IF needSync THEN BufferSize ELSE ChunkSize)
  BY <1>2 DEF InStep
<1>4. todo' <= (IF needSync' THEN BufferSize ELSE ChunkSize)
  BY <1>3, Sizes
<1> QED BY <1>1, <1>2, <1>4 DEF InStep

(* Silence behind a stream that is over.                                   *)
LEMMA SilenceKeepsRing == RingInv /\ Silence => RingInv'
<1> SUFFICES ASSUME RingInv, Silence PROVE RingInv'
  OBVIOUS
<1> DEFINE S == Stored(writePos, todo, Zeros)
<1>1. /\ threadPc = "filling" /\ todo > 0 /\ pos[active] = SizeOf[active]
      /\ buffer' = Copied(S) /\ writePos' = writePos + todo /\ todo' = 0
      /\ UNCHANGED <<commandSem, ackSem, pending, readPos, threadPc, active, base, pos, filePos,
                     clientPc, wanted, held, needSync, start>>
  BY DEF Silence, clientVars, semVars
<1> HIDE DEF S
<1>2. TokenInv'
  BY ThreadKeepsToken DEF RingInv, Thread
<1>3. /\ commandSem = 0 /\ ackSem = 0 /\ clientPc # "posting" /\ ~Fresh /\ InFill
      /\ ReaderTypes /\ Calls /\ FreshInv /\ (Streaming => InStep /\ Data)
      /\ Streaming => todo <= BufferSize /\ (~needSync => todo <= ChunkSize)
  BY <1>1, Filling
<1>4. ~Fresh' /\ InFill'
  BY <1>1, <1>3 DEF Fresh, InFill
<1>5. writePos \in Nat /\ todo \in Nat /\ Whole /\ End' = End /\ End = writePos + todo
  BY <1>1, <1>3 DEF ReaderTypes, End
<1>6. DOMAIN S = 0 .. BufferSize + Overbuffer - 1
  BY <1>5 DEF Stored, Whole, S
<1>7. ReaderTypes'
  <2>1. Whole'
    BY <1>1, <1>6 DEF Whole, Copied
  <2> QED BY <1>1, <1>3, <1>5, <2>1 DEF ReaderTypes
<1>8. Calls'
  BY <1>1, <1>3, <1>4 DEF Calls, Stopped, Sending, Nop
<1>9. ASSUME Streaming' PROVE InStep' /\ Data'
  <2>1. Streaming
    BY <1>1, <1>3, <1>9 DEF Streaming
  <2>2. InStep'
    <3>1. todo' \in Nat /\ todo' <= todo
      BY <1>1, <1>5
    <3> QED BY <1>1, <1>3, <1>5, <2>1, <3>1, FillingInStep
  <2> DEFINE n == start.skip + (writePos - start.pzb)
             w == active
  <2>3. /\ w = start.which /\ writePos >= start.pzb /\ pos[w] = Entry(w, n)
        /\ start.skip \in Nat /\ start.pzb \in Nat /\ w \in 1 .. Streams
    BY <1>3, <2>1 DEF Data, PlaceRight, ReaderTypes, Commands
  <2>4. n \in Nat /\ LoopOf[w] = SizeOf[w] /\ n >= SizeOf[w]
    <3>1. n \in Nat
      BY <1>5, <2>3
    <3> QED BY <1>1, <2>3, <3>1, EntryRange
  <2>5. SizeOf[w] \in Nat
    BY <2>3, ReaderAssumption
  <2>6. PlaceRight'
    <3> DEFINE m == start.skip + (writePos' - start.pzb)
    <3>1. m \in Nat /\ m >= SizeOf[w]
      BY <1>1, <1>5, <2>3, <2>4, <2>5
    <3> HIDE DEF m
    <3>2. Entry(w, m) = SizeOf[w]
      BY <2>3, <2>4, <3>1, EntryRange
    <3>3. writePos' >= start.pzb
      BY <1>1, <1>5, <2>3
    <3>4. threadPc' # "filling" \/ base' = NoBase => filePos'[active'] = pos'[active']
      BY <1>1, <1>3, <2>1 DEF Data, PlaceRight
    <3> QED BY <1>1, <2>3, <3>2, <3>3, <3>4 DEF PlaceRight, Entry, m
  <2>7. base = NoBase
    <3>1. ~(LoopLength > 0)
      BY <2>4, <2>5 DEF LoopLength
    <3> QED BY <1>1, <1>3, <2>1, <3>1 DEF Data, LoopThere
  <2>8. LoopThere'
    BY <1>1, <2>7 DEF LoopThere
  <2>9. /\ \A i \in 0 .. todo - 1 : S[(writePos + i) % BufferSize] = Zeros[i]
        /\ \A p \in End - BufferSize .. writePos - 1 :
              S[p % BufferSize] = buffer[p % BufferSize]
    <3>1. writePos \in Int /\ todo \in 0 .. BufferSize
      BY <1>3, <1>5, <2>1, Sizes
    <3>2. writePos + todo - BufferSize = End - BufferSize
      BY <1>5, Sizes
    <3> QED BY <1>5, <3>1, <3>2, StoredCells DEF S
  <2>10. \A p \in Int : buffer'[p % BufferSize] = S[p % BufferSize]
    BY <1>1, <1>6, CopiedCells
  <2>11. \A p \in Int : Streamed(p)' = Streamed(p)
    BY <1>1 DEF Streamed, ByteOf
  <2>12. \A p \in End - BufferSize .. writePos - 1 :
            S[p % BufferSize] = Streamed(p)
    BY <1>3, <2>1, <2>9 DEF Data, Ring
  <2>13. ASSUME NEW i \in 0 .. todo - 1 PROVE S[(writePos + i) % BufferSize] = Streamed(writePos + i)
    <3>1. i \in 0 .. BufferSize - 1
      BY <1>3, <1>5, <2>1, Sizes
    <3>2. Zeros[i] = 0
      BY <3>1 DEF Zeros
    <3> DEFINE q == writePos + i
    <3>3. start.skip + q - start.pzb >= SizeOf[w] /\ SizeOf[w] - LoopOf[w] = 0
      BY <1>5, <2>3, <2>4, <2>5
    <3> HIDE DEF q
    <3>4. Streamed(q) = 0
      BY <2>3, <3>3 DEF Streamed
    <3> QED BY <2>9, <3>2, <3>4 DEF q
  <2>14. Ring'
    <3>1. ASSUME NEW p \in End - BufferSize .. writePos + todo - 1
          PROVE  S[p % BufferSize] = Streamed(p)
      <4>1. p \in Int /\ (p \in End - BufferSize .. writePos - 1 \/
                          (p - writePos \in 0 .. todo - 1 /\ writePos + (p - writePos) = p))
        BY <1>5, Sizes
      <4> QED BY <2>12, <2>13, <4>1
    <3>2. End \in Int /\ BufferSize \in Int
      BY <1>5, Sizes
    <3>3. \A p \in End - BufferSize .. writePos + todo - 1 : buffer'[p % BufferSize] = Streamed(p)'
      BY <1>5, <2>10, <2>11, <3>1, <3>2
    <3> QED BY <1>1, <1>5, <3>3 DEF Ring
  <2>15. Behind'
    <3>1. Settled' = Settled /\ Settled \in Int /\ Settled - 1 <= writePos - 1
      BY <1>1, <1>3, <1>4, <1>5, <2>1, Sizes DEF Settled
    <3>2. ASSUME NEW p \in End - BufferSize .. Settled - 1, p % BufferSize < Overbuffer
          PROVE  buffer'[BufferSize + (p % BufferSize)] = Streamed(p)
      <4>1. p \in End - BufferSize .. writePos - 1 /\ p \in Int
        BY <1>5, <3>1, Sizes
      <4>2. p % BufferSize \in 0 .. Overbuffer - 1
        BY <3>2, <4>1, Sizes
      <4>3. buffer'[BufferSize + (p % BufferSize)] = S[p % BufferSize]
        BY <1>1, <1>6, <4>2, CopiedCells
      <4> QED BY <2>12, <4>1, <4>3
    <3>3. \A p \in End - BufferSize .. Settled - 1 : p \in Int
      BY <1>5, <3>1, Sizes
    <3> QED BY <1>5, <2>11, <3>1, <3>2, <3>3 DEF Behind
  <2> QED BY <2>2, <2>6, <2>8, <2>14, <2>15 DEF Data
<1> QED BY <1>2, <1>4, <1>7, <1>8, <1>9 DEF RingInv, FreshInv

(* A byte of the stream is the one at the place where it is entered.       *)
LEMMA StreamedEntry ==
    ASSUME start \in Commands, NEW p \in Nat, p >= start.pzb
    PROVE  LET w == start.which
               at == Entry(w, start.skip + (p - start.pzb))
           IN  Streamed(p) = IF at = SizeOf[w] THEN 0 ELSE ByteOf(w, at)
<1> DEFINE w == start.which
           n == start.skip + (p - start.pzb)
           S == SizeOf[w]
           L == LoopOf[w]
<1>1. w \in 1 .. Streams /\ n \in Nat /\ start.skip \in Nat /\ start.pzb \in Nat
        /\ start.skip + p - start.pzb = n
  BY DEF Commands
<1>2. S \in Nat /\ L \in 0 .. S
  BY <1>1, ReaderAssumption
<1>3. Streamed(p) = IF n >= S /\ S - L = 0 THEN 0
                    ELSE ByteOf(w, IF n < S THEN n ELSE L + ((n - L) % (S - L)))
  BY <1>1 DEF Streamed, Commands
<1>4. Entry(w, n) = S <=> L = S /\ n >= S
  BY <1>1, EntryRange
<1>5. Entry(w, n) = IF n < S THEN n ELSE IF L = S THEN S ELSE L + ((n - L) % (S - L))
  BY DEF Entry
<1>6. L = S <=> S - L = 0
  BY <1>2
<1> HIDE DEF n, w, S, L
<1>7. Streamed(p) = IF Entry(w, n) = S THEN 0 ELSE ByteOf(w, Entry(w, n))
  <2>1. CASE n >= S /\ L = S
    BY <1>3, <1>4, <1>6, <2>1
  <2>2. CASE n < S
    BY <1>1, <1>2, <1>3, <1>4, <1>5, <2>2
  <2>3. CASE n >= S /\ L # S
    BY <1>1, <1>2, <1>3, <1>4, <1>5, <1>6, <2>3
  <2> QED BY <1>1, <1>2, <2>1, <2>2, <2>3
<1> QED BY <1>7 DEF n, w, S, L

(* One run of the loop of read_into_buffer.                                *)
LEMMA ReadKeepsRing == RingInv /\ Read => RingInv'
<1> SUFFICES ASSUME RingInv, Read PROVE RingInv'
  OBVIOUS
<1> DEFINE w == active
           size == SizeOf[w]
           loop == LoopOf[w]
           n == Low(BufferSize - (writePos % BufferSize), Low(todo, size - pos[w]))
           atEnd == pos[w] + n = size
           loopRead == loop < size /\ size - loop = n
           data == [i \in 0 .. n - 1 |->
                      IF base = NoBase THEN ByteOf(w, filePos[w] + i)
                      ELSE buffer[base + pos[w] - loop + i]]
           S == Stored(writePos, n, data)
<1>1. /\ threadPc = "filling" /\ todo > 0 /\ pos[w] < size
      /\ buffer' = S /\ writePos' = writePos + n /\ todo' = todo - n
      /\ pos' = [pos EXCEPT ![w] = IF atEnd THEN loop ELSE pos[w] + n]
      /\ base' = IF base = NoBase /\ atEnd /\ loopRead THEN writePos % BufferSize ELSE base
      /\ filePos' = [filePos EXCEPT ![w] = IF base # NoBase THEN filePos[w]
                                           ELSE IF atEnd /\ ~loopRead THEN loop ELSE filePos[w] + n]
      /\ UNCHANGED <<commandSem, ackSem, pending, readPos, threadPc, active,
                     clientPc, wanted, held, needSync, start>>
  BY DEF Read, clientVars, semVars
<1>2. TokenInv'
  BY ThreadKeepsToken DEF RingInv, Thread
<1>3. /\ commandSem = 0 /\ ackSem = 0 /\ clientPc # "posting" /\ ~Fresh /\ InFill
      /\ ReaderTypes /\ Calls /\ FreshInv /\ (Streaming => InStep /\ Data)
      /\ Streaming => todo <= BufferSize /\ (~needSync => todo <= ChunkSize)
  BY <1>1, Filling
<1>4. ~Fresh' /\ InFill'
  BY <1>1, <1>3 DEF Fresh, InFill
<1>5. /\ writePos \in Nat /\ todo \in Nat /\ Whole /\ base \in Int
      /\ w \in 1 .. Streams /\ pos[w] \in Nat /\ filePos[w] \in Nat
  BY <1>3 DEF ReaderTypes
<1>6. size \in Nat /\ loop \in 0 .. size
  BY <1>5, ReaderAssumption
<1>7. /\ n \in Nat \ {0} /\ n <= todo /\ pos[w] + n <= size
      /\ (writePos % BufferSize) + n <= BufferSize
  <2>1. writePos % BufferSize \in 0 .. BufferSize - 1
    BY <1>5, Sizes
  <2> DEFINE a == BufferSize - (writePos % BufferSize)
             b == size - pos[w]
  <2>a. n = Low(a, Low(todo, b))
    BY Zenon
  <2>b. todo > 0 /\ pos[w] < size
    BY <1>1, Zenon
  <2>c. a \in Nat \ {0}
    BY <2>1, Sizes
  <2>d. b \in Nat \ {0} /\ todo \in Nat \ {0}
    BY <1>5, <1>6, <2>b
  <2>2. a \in Nat \ {0} /\ b \in Nat \ {0} /\ todo \in Nat \ {0} /\ n = Low(a, Low(todo, b))
    BY <2>a, <2>c, <2>d
  <2> HIDE DEF a, b, n
  <2>3. n \in Nat \ {0} /\ n <= todo /\ n <= b /\ n <= a
    BY ONLY <2>2 DEF Low
  <2> USE DEF a, b
  <2> QED BY <1>5, <1>6, <2>1, <2>3, Sizes
<1>8. writePos % BufferSize \in 0 .. BufferSize - 1
  BY <1>5, Sizes
<1>9. \A i \in 0 .. n - 1 :
         data[i] = IF base = NoBase THEN ByteOf(w, filePos[w] + i) ELSE buffer[base + pos[w] - loop + i]
  OBVIOUS
<1>10. DOMAIN S = 0 .. BufferSize + Overbuffer - 1
  BY <1>5 DEF Stored, Whole
<1> HIDE DEF S, data, n
<1>11. ReaderTypes'
  <2>1. Whole'
    BY <1>1, <1>10 DEF Whole
  <2>2. todo' \in Nat /\ writePos' \in Nat /\ base' \in Int
    BY <1>1, <1>5, <1>7, <1>8
  <2>3. pos' \in [1 .. Streams -> Nat]
    <3>1. (IF atEnd THEN loop ELSE pos[w] + n) \in Nat
      BY <1>5, <1>6, <1>7
    <3> QED BY <1>1, <1>3, <3>1 DEF ReaderTypes
  <2>4. filePos' \in [1 .. Streams -> Nat]
    <3>1. (IF base # NoBase THEN filePos[w]
           ELSE IF atEnd /\ ~loopRead THEN loop ELSE filePos[w] + n) \in Nat
      BY <1>5, <1>6, <1>7
    <3> QED BY <1>1, <1>3, <3>1 DEF ReaderTypes
  <2> QED BY <1>1, <1>3, <2>1, <2>2, <2>3, <2>4 DEF ReaderTypes
<1>12. Calls'
  BY <1>1, <1>3, <1>4 DEF Calls, Stopped, Sending, Nop
<1>13. ASSUME Streaming' PROVE InStep' /\ Data'
  <2>1. Streaming
    BY <1>1, <1>3, <1>13 DEF Streaming
  <2>2. End = writePos + todo /\ End' = End /\ End \in Nat /\ todo <= BufferSize
    BY <1>1, <1>3, <1>5, <1>7, <2>1 DEF End
  <2>3. InStep'
    <3>1. todo' \in Nat /\ todo' <= todo
      BY <1>1, <1>5, <1>7
    <3> QED BY <1>1, <1>3, <1>5, <2>1, <2>2, <3>1, FillingInStep
  <2> DEFINE k == start.skip + (writePos - start.pzb)
  <2>4. /\ w = start.which /\ writePos >= start.pzb /\ pos[w] = Entry(w, k)
        /\ start.skip \in Nat /\ start.pzb \in Nat /\ start \in Commands
        /\ base = NoBase => filePos[w] = pos[w]
    BY <1>1, <1>3, <2>1 DEF Data, PlaceRight, ReaderTypes, Commands
  <2>5. k \in Nat
    BY <1>5, <2>4
  <2>6. ASSUME NEW i \in 0 .. n - 1 PROVE data[i] = ByteOf(w, pos[w] + i)
    <3>1. CASE base = NoBase
      BY <1>9, <2>4, <3>1
    <3>2. CASE base # NoBase
      <4>1. /\ pos[w] >= loop
            /\ \A j \in 0 .. LoopLength - 1 : buffer[base + j] = ByteOf(w, loop + j)
        BY <1>1, <1>3, <2>1, <3>2 DEF Data, LoopThere
      <4> DEFINE j == pos[w] - loop + i
      <4>2. j \in 0 .. LoopLength - 1 /\ base + pos[w] - loop + i = base + j /\ loop + j = pos[w] + i
        BY <1>5, <1>6, <1>7, <4>1 DEF LoopLength
      <4> HIDE DEF j
      <4>3. buffer[base + j] = ByteOf(w, loop + j)
        BY <4>1, <4>2
      <4> QED BY <1>9, <3>2, <4>2, <4>3
    <3> QED BY <3>1, <3>2
  <2>7. ASSUME NEW i \in 0 .. n - 1 PROVE Streamed(writePos + i) = ByteOf(w, pos[w] + i)
    <3> DEFINE q == writePos + i
    <3>1. i \in Nat /\ Entry(w, k) + i <= size /\ Entry(w, k) < size /\ Entry(w, k) + i # size
      BY <1>1, <1>5, <1>6, <1>7, <2>4
    <3>2. Entry(w, k + i) = pos[w] + i
      BY <1>5, <2>4, <2>5, <3>1, EntryOn
    <3>3. q \in Nat /\ q >= start.pzb /\ start.skip + (q - start.pzb) = k + i
      BY <1>5, <2>4
    <3>4. pos[w] + i # size
      BY <2>4, <3>1
    <3> HIDE DEF q, k
    <3>5. Streamed(q) = IF Entry(w, k + i) = size THEN 0 ELSE ByteOf(w, Entry(w, k + i))
      BY <2>4, <3>3, StreamedEntry
    <3> QED BY <3>2, <3>4, <3>5 DEF q
  <2>8. PlaceRight'
    <3> DEFINE next == IF atEnd THEN loop ELSE pos[w] + n
    <3>1. Entry(w, k + n) = next
      BY <1>1, <1>5, <1>7, <2>4, <2>5, EntryOn
    <3>2. start.skip + (writePos' - start.pzb) = k + n /\ writePos' >= start.pzb
      BY <1>1, <1>5, <1>7, <2>4
    <3>3. pos'[w] = next
      BY <1>1, <1>3, <1>5 DEF ReaderTypes
    <3>4. ASSUME base' = NoBase PROVE filePos'[w] = next
      <4>1. base = NoBase /\ ~(atEnd /\ loopRead)
        BY <1>1, <1>8, <3>4 DEF NoBase
      <4>2. filePos'[w] = IF atEnd /\ ~loopRead THEN loop ELSE filePos[w] + n
        BY <1>1, <1>3, <1>5, <4>1 DEF ReaderTypes
      <4> QED BY <2>4, <4>1, <4>2
    <3> HIDE DEF next, k
    <3>5. pos'[active'] = Entry(active', start'.skip + (writePos' - start'.pzb))
      BY <1>1, <3>1, <3>2, <3>3 DEF Entry
    <3> QED BY <1>1, <2>4, <3>2, <3>3, <3>4, <3>5 DEF PlaceRight
  <2>9. /\ \A i \in 0 .. n - 1 : buffer'[(writePos + i) % BufferSize] = data[i]
        /\ \A p \in End - BufferSize .. writePos - 1 :
              buffer'[p % BufferSize] = buffer[p % BufferSize]
        /\ \A c \in BufferSize .. BufferSize + Overbuffer - 1 : buffer'[c] = buffer[c]
    <3>1. writePos \in Int /\ n \in 0 .. BufferSize
      BY <1>5, <1>7, <2>2, Sizes
    <3>2. \A p \in End - BufferSize .. writePos - 1 : p \in writePos + n - BufferSize .. writePos - 1
      BY <1>5, <1>7, <2>2, Sizes
    <3>3. /\ \A i \in 0 .. n - 1 : S[(writePos + i) % BufferSize] = data[i]
          /\ \A q \in writePos + n - BufferSize .. writePos - 1 :
                S[q % BufferSize] = buffer[q % BufferSize]
          /\ \A c \in BufferSize .. BufferSize + Overbuffer - 1 : S[c] = buffer[c]
      BY <1>5, <3>1, StoredCells DEF S
    <3> QED BY <1>1, <3>2, <3>3
  <2>10. \A p \in Int : Streamed(p)' = Streamed(p)
    BY <1>1 DEF Streamed, ByteOf
  <2>11. LoopThere'
    <3> SUFFICES ASSUME base' # NoBase PROVE LoopThere'
      BY DEF LoopThere
    <3>1. LoopLength' = size - loop /\ LoopLength = size - loop
      BY <1>1 DEF LoopLength
    <3>2. CASE base = NoBase
      <4>1. atEnd /\ loopRead /\ base' = writePos % BufferSize
        BY <1>1, <3>2
      <4>2. size - loop = n /\ pos[w] = loop /\ n > 0
        BY <1>5, <1>6, <1>7, <4>1
      <4>3. pos'[w] = loop
        BY <1>1, <1>3, <1>5, <4>1 DEF ReaderTypes
      <4>4. base' + n <= BufferSize
        BY <1>7, <4>1
      <4>5. \E p \in End - BufferSize .. writePos' - n : base' = p % BufferSize
        <5>1. writePos \in End - BufferSize .. writePos' - n
          BY <1>1, <1>5, <1>7, <2>2, Sizes
        <5> QED BY <4>1, <5>1
      <4>6. ASSUME NEW j \in 0 .. n - 1 PROVE buffer'[base' + j] = ByteOf(w, loop + j)
        <5>1. j \in Nat /\ j < BufferSize /\ (writePos % BufferSize) + j < BufferSize
          BY <1>7, <1>8, Sizes
        <5>2. (writePos + j) % BufferSize = base' + j
          BY <1>5, <4>1, <5>1, Sizes, Along
        <5>3. buffer'[(writePos + j) % BufferSize] = ByteOf(w, pos[w] + j)
          BY <2>6, <2>9
        <5> QED BY <4>2, <5>2, <5>3
      <4>7. \A j \in 0 .. n - 1 : buffer'[base' + j] = ByteOf(active', LoopOf[active'] + j)
        BY <1>1, <4>6
      <4>8. pos'[active'] >= LoopOf[active']
        BY <1>1, <1>6, <4>3
      <4> QED BY <2>2, <3>1, <4>2, <4>4, <4>5, <4>7, <4>8 DEF LoopThere
    <3>3. CASE base # NoBase
      <4>1. /\ base' = base /\ LoopLength > 0 /\ base + LoopLength <= BufferSize /\ pos[w] >= loop
            /\ \E p \in End - BufferSize .. writePos - LoopLength : base = p % BufferSize
            /\ \A j \in 0 .. LoopLength - 1 : buffer[base + j] = ByteOf(w, loop + j)
        BY <1>1, <1>3, <2>1, <3>3 DEF Data, LoopThere
      <4>2. LoopLength \in Nat
        BY <1>6, <3>1
      <4>3. PICK p \in End - BufferSize .. writePos - LoopLength : base = p % BufferSize
        BY <4>1
      <4>4. p \in Int /\ p >= End - BufferSize /\ p <= writePos - LoopLength
        BY <1>5, <2>2, <4>2, Sizes
      <4>5. p \in End - BufferSize .. writePos' - LoopLength
        BY <1>1, <1>5, <1>7, <2>2, <4>2, <4>4, Sizes
      <4>6. pos'[w] >= loop
        <5>1. pos'[w] = IF atEnd THEN loop ELSE pos[w] + n
          BY <1>1, <1>3, <1>5 DEF ReaderTypes
        <5> QED BY <1>5, <1>6, <1>7, <4>1, <5>1
      <4>7. ASSUME NEW j \in 0 .. LoopLength - 1 PROVE buffer'[base + j] = ByteOf(w, loop + j)
        <5>1. j \in Nat /\ j < BufferSize /\ (p % BufferSize) + j < BufferSize
          <6>1. base \in 0 .. BufferSize - 1
            BY <4>3, <4>4, Sizes
          <6> QED BY <4>1, <4>2, <4>3, <6>1, Sizes
        <5>2. (p + j) % BufferSize = base + j
          BY <4>3, <4>4, <5>1, Sizes, Along
        <5>3. p + j \in End - BufferSize .. writePos - 1
          BY <1>5, <2>2, <4>2, <4>4, <5>1, Sizes
        <5>4. buffer'[(p + j) % BufferSize] = buffer[(p + j) % BufferSize]
          BY <2>9, <5>3
        <5> QED BY <4>1, <5>2, <5>4
      <4>8. \A j \in 0 .. LoopLength - 1 : buffer'[base + j] = ByteOf(active', LoopOf[active'] + j)
        BY <1>1, <4>7
      <4>9. pos'[active'] >= LoopOf[active']
        BY <1>1, <4>6
      <4> QED BY <2>2, <3>1, <4>1, <4>3, <4>5, <4>8, <4>9 DEF LoopThere
    <3> QED BY <3>2, <3>3
  <2>12. Ring'
    <3>1. \A p \in End - BufferSize .. writePos - 1 : buffer'[p % BufferSize] = Streamed(p)
      BY <1>3, <2>1, <2>9 DEF Data, Ring
    <3>2. \A i \in 0 .. n - 1 : buffer'[(writePos + i) % BufferSize] = Streamed(writePos + i)
      BY <2>6, <2>7, <2>9
    <3>3. ASSUME NEW p \in End - BufferSize .. writePos + n - 1
          PROVE  buffer'[p % BufferSize] = Streamed(p)
      <4>1. p \in Int /\ (p \in End - BufferSize .. writePos - 1 \/
                          (p - writePos \in 0 .. n - 1 /\ writePos + (p - writePos) = p))
        BY <1>5, <1>7, <2>2, Sizes
      <4> QED BY <3>1, <3>2, <4>1
    <3>4. \A p \in End - BufferSize .. writePos + n - 1 : buffer'[p % BufferSize] = Streamed(p)'
      <4>1. \A p \in End - BufferSize .. writePos + n - 1 : p \in Int
        BY <1>5, <1>7, <2>2, Sizes
      <4> QED BY <2>10, <3>3, <4>1
    <3>5. End' = End
      BY <2>2
    <3>6. writePos' = writePos + n
      BY <1>1
    <3>7. Ring' = (\A p \in End' - BufferSize .. writePos' - 1 : buffer'[p % BufferSize] = Streamed(p)')
      BY DEF Ring
    <3>8. writePos \in Nat /\ n \in Nat /\ End \in Nat /\ BufferSize \in Nat
      BY <1>5, <1>7, <2>2, Sizes
    <3>9. ASSUME NEW p \in End' - BufferSize .. writePos' - 1
          PROVE  buffer'[p % BufferSize] = Streamed(p)'
      <4>1. p \in End - BufferSize .. writePos + n - 1
        BY ONLY <3>5, <3>6, <3>8, p \in End' - BufferSize .. writePos' - 1
      <4> QED BY <3>4, <4>1
    <3> QED BY ONLY <3>7, <3>9, Zenon
  <2>13. Behind'
    <3>1. Settled' = Settled /\ Settled \in Int
      BY <1>1, <1>3, <1>4, <2>2, Sizes DEF Settled
    <3>2. ASSUME NEW p \in End - BufferSize .. Settled - 1, p % BufferSize < Overbuffer
          PROVE  buffer'[BufferSize + (p % BufferSize)] = Streamed(p)
      <4>1. p \in Int
        BY <2>2, <3>1, Sizes
      <4>2. BufferSize + (p % BufferSize) \in BufferSize .. BufferSize + Overbuffer - 1
        <5>1. p % BufferSize \in 0 .. BufferSize - 1
          BY <4>1, Sizes
        <5> QED BY <3>2, <5>1, Sizes
      <4>3. buffer[BufferSize + (p % BufferSize)] = Streamed(p)
        BY <1>3, <2>1, <3>2 DEF Data, Behind
      <4> QED BY <2>9, <4>2, <4>3
    <3>3. \A p \in End - BufferSize .. Settled - 1 : p \in Int
      BY <2>2, <3>1, Sizes
    <3> QED BY <2>2, <2>10, <3>1, <3>2, <3>3 DEF Behind
  <2> QED BY <2>3, <2>8, <2>11, <2>12, <2>13 DEF Data
<1> QED BY <1>2, <1>4, <1>11, <1>12, <1>13 DEF RingInv, FreshInv

(* The end of a command: the stream is put where the copied loop stood.    *)
LEMMA EndReadKeepsRing == RingInv /\ EndRead => RingInv'
<1> SUFFICES ASSUME RingInv, EndRead PROVE RingInv'
  OBVIOUS
<1>1. /\ threadPc = "filling" /\ todo = 0 /\ threadPc' = "acking"
      /\ filePos' = FileBack /\ buffer' = Copied(buffer)
      /\ UNCHANGED <<commandSem, ackSem, pending, readPos, writePos, active, todo, base, pos,
                     clientPc, wanted, held, needSync, start>>
  BY DEF EndRead, clientVars, semVars
<1>2. TokenInv'
  BY ThreadKeepsToken DEF RingInv, Thread
<1>3. /\ commandSem = 0 /\ ackSem = 0 /\ clientPc # "posting" /\ ~Fresh /\ InFill
      /\ ReaderTypes /\ Calls /\ FreshInv /\ (Streaming => InStep /\ Data)
  BY <1>1, Filling
<1>4. ~Fresh' /\ ~InFill'
  BY <1>1, <1>3 DEF Fresh, InFill
<1>5. DOMAIN buffer = 0 .. BufferSize + Overbuffer - 1
  BY <1>3 DEF ReaderTypes, Whole
<1>6. filePos' \in [1 .. Streams -> Nat]
        /\ (base # NoBase => filePos'[active] = pos[active])
        /\ (base = NoBase => filePos'[active] = filePos[active])
  <2>1. active \in 1 .. Streams /\ pos \in [1 .. Streams -> Nat] /\ filePos \in [1 .. Streams -> Nat]
    BY <1>3 DEF ReaderTypes
  <2> QED BY <1>1, <2>1 DEF FileBack
<1>7. ReaderTypes'
  <2>1. Whole'
    BY <1>1, <1>5 DEF Whole, Copied
  <2> QED BY <1>1, <1>3, <1>6, <2>1 DEF ReaderTypes
<1>8. Calls'
  BY <1>1, <1>3, <1>4 DEF Calls, Stopped, Sending, Nop
<1>9. ASSUME Streaming' PROVE InStep' /\ Data'
  <2>1. Streaming
    BY <1>1, <1>3, <1>9 DEF Streaming
  <2>2. Nexts' = Nexts
    BY <1>1 DEF Nexts, One, Sending
  <2>3. InStep'
    BY <1>1, <1>3, <1>4, <2>1, <2>2, InStepKept
  <2>4. PlaceRight'
    BY <1>1, <1>3, <1>6, <2>1 DEF Data, PlaceRight, Entry
  <2>5. LoopThere'
    BY <1>1 DEF LoopThere
  <2>6. End = writePos /\ End' = End /\ Settled' = End /\ End \in Nat
    BY <1>1, <1>3, <1>4 DEF End, Settled, ReaderTypes
  <2>7. /\ \A p \in Int : buffer'[p % BufferSize] = buffer[p % BufferSize]
        /\ \A c \in 0 .. Overbuffer - 1 : buffer'[BufferSize + c] = buffer[c]
    BY <1>1, <1>5, CopiedCells
  <2>8. \A p \in Int : Streamed(p)' = Streamed(p)
    BY <1>1 DEF Streamed, ByteOf
  <2>9. ASSUME NEW p \in End - BufferSize .. End - 1
        PROVE  buffer'[p % BufferSize] = Streamed(p)' /\ p \in Int
    <3>1. p \in Int
      BY <2>6, Sizes
    <3>2. buffer[p % BufferSize] = Streamed(p)
      BY <1>3, <2>1, <2>6 DEF Data, Ring
    <3> QED BY <2>7, <2>8, <3>1, <3>2
  <2>10. Ring'
    BY <1>1, <2>6, <2>9 DEF Ring
  <2>11. Behind'
    <3>1. ASSUME NEW p \in End - BufferSize .. End - 1, p % BufferSize < Overbuffer
          PROVE  buffer'[BufferSize + (p % BufferSize)] = Streamed(p)'
      <4>1. p % BufferSize \in 0 .. Overbuffer - 1
        BY <2>9, <3>1, Sizes
      <4>2. buffer'[BufferSize + (p % BufferSize)] = buffer[p % BufferSize]
        BY <2>7, <4>1
      <4> QED BY <2>7, <2>9, <4>2
    <3> QED BY <2>6, <3>1 DEF Behind
  <2> QED BY <2>3, <2>4, <2>5, <2>10, <2>11 DEF Data
<1> QED BY <1>2, <1>4, <1>7, <1>8, <1>9 DEF RingInv, FreshInv

(* The ack, and a stream that throws.                                      *)
LEMMA AckKeepsRing == RingInv /\ (Ack \/ Throw) => RingInv'
<1> SUFFICES ASSUME RingInv, Ack \/ Throw PROVE RingInv'
  OBVIOUS
<1>1. /\ UNCHANGED <<commandSem, pending, buffer, readPos, writePos, active, todo, base, pos, filePos,
                     clientPc, wanted, held, needSync, start>>
      /\ \/ threadPc \in {"acking", "leaving"} /\ threadPc' \in {"gone", "idle"}
         \/ threadPc = "filling" /\ threadPc' = "failed" /\ base = NoBase /\ ackSem' = ackSem
  BY DEF Ack, Throw, clientVars, semVars, ringVars
<1>2. TokenInv' /\ ReaderTypes /\ Calls /\ FreshInv /\ (Streaming => InStep /\ Data)
  BY ThreadKeepsToken DEF RingInv, Thread
<1>3. threadPc = "filling" => commandSem = 0 /\ ackSem = 0 /\ clientPc # "posting"
  BY Filling
<1>4. InFill' = InFill
  BY <1>1 DEF InFill
<1>5. ReaderTypes'
  BY <1>1, <1>2 DEF ReaderTypes, Whole
<1>6. Calls'
  BY <1>1, <1>2, <1>3, <1>4 DEF Calls, Stopped, Sending, Nop
<1>7. FreshInv' /\ (Streaming' => Streaming)
  BY <1>1, <1>2 DEF FreshInv, Fresh, Streaming
<1>8. ASSUME Streaming PROVE InStep' /\ Data'
  <2>1. Nexts' = Nexts
    BY <1>1 DEF Nexts, One, Sending
  <2>2. InStep'
    BY <1>1, <1>2, <1>4, <1>8, <2>1, InStepKept
  <2>3. Data'
    BY <1>1, <1>2, <1>4, <1>8, DataKept
  <2> QED BY <2>2, <2>3
<1> QED BY <1>2, <1>5, <1>6, <1>7, <1>8 DEF RingInv

(* A thread that has failed has lost the token, and takes nothing more.    *)
LEMMA FailedTakesNothing == RingInv => ~TakeFailed /\ ~AckFailed
BY DEF RingInv, Calls, Stopped, TakeFailed, AckFailed, ReaderTypes

-----------------------------------------------------------------------------
(* Steps of the client that touch neither the ring nor the thread.         *)
LEMMA ClientSteps ==
    ASSUME RingInv, UNCHANGED <<pending, ringVars, readPos, threadVars, wanted, needSync, start>>,
           commandSem' = commandSem,
           clientPc' \in {"waiting", "posting", "gone"}, held' = held,
           Sending' => Sending, clientPc # "free",
           clientPc' = "posting" => ackSem > 0, TokenInv',
           wanted.do # "next" \/ Sending' = Sending,
           Stopped => ackSem' = ackSem
    PROVE  RingInv'
<1>1. ReaderTypes /\ Calls /\ FreshInv /\ (Streaming => InStep /\ Data)
  BY DEF RingInv
<1>2. ReaderTypes'
  BY <1>1 DEF ReaderTypes, Whole, ringVars, threadVars
<1>3. InFill' = InFill
  BY DEF InFill, threadVars
<1>4. held = 0
  BY <1>1 DEF Calls, ReaderTypes
<1>5. Calls'
  BY <1>1, <1>3, <1>4 DEF Calls, Stopped, Nop, threadVars
<1>6. FreshInv' /\ (Streaming' => Streaming)
  BY <1>1 DEF FreshInv, Fresh, Streaming, ringVars, threadVars
<1>7. ASSUME Streaming PROVE InStep' /\ Data'
  <2>1. Nexts' = Nexts
    BY DEF Nexts, One
  <2>2. InStep'
    BY <1>1, <1>3, <1>7, <2>1, InStepKept DEF ringVars, threadVars
  <2>3. Data'
    BY <1>1, <1>3, <1>7, DataKept DEF ringVars, threadVars
  <2> QED BY <2>2, <2>3
<1> QED BY <1>2, <1>5, <1>6, <1>7 DEF RingInv

LEMMA AcquireKeepsRing == RingInv /\ (Acquire \/ Join) => RingInv'
<1> SUFFICES ASSUME RingInv, Acquire \/ Join PROVE RingInv'
  OBVIOUS
<1>1. TokenInv'
  BY ClientKeepsToken DEF RingInv, Client
<1>2. CASE Acquire
  <2>1. /\ UNCHANGED <<pending, ringVars, readPos, threadVars, wanted, needSync, start, held, commandSem>>
        /\ clientPc = "waiting" /\ clientPc' = "posting" /\ ackSem > 0
    BY <1>2 DEF Acquire
  <2>2. ~Stopped
    BY <2>1 DEF RingInv, Calls
  <2> QED BY <1>1, <2>1, <2>2, ClientSteps DEF Sending
<1>3. CASE Join
  <2>1. /\ UNCHANGED <<pending, ringVars, readPos, threadVars, wanted, needSync, start, held, commandSem, ackSem>>
        /\ clientPc = "joining" /\ clientPc' = "gone"
    BY <1>3 DEF Join, semVars
  <2> QED BY <1>1, <2>1, ClientSteps DEF Sending
<1> QED BY <1>2, <1>3

(* The client sends a command.                                             *)
LEMMA PostKeepsRing == RingInv /\ Post => RingInv'
<1> SUFFICES ASSUME RingInv, Post PROVE RingInv'
  OBVIOUS
<1>1. /\ clientPc = "posting" /\ pending' = wanted /\ commandSem' = commandSem + 1
      /\ clientPc' = IF wanted.do = "exit" THEN "joining" ELSE "free"
      /\ held' = wanted.count
      /\ UNCHANGED <<ackSem, buffer, threadPc, active, todo, base, pos, filePos, wanted>>
  BY DEF Post, Posted, threadVars
<1>2. TokenInv' /\ TokenInv /\ ReaderTypes /\ Calls /\ FreshInv /\ (Streaming => InStep /\ Data)
  BY ClientKeepsToken DEF RingInv, Client
<1>3. commandSem = 0 /\ commandSem' = 1 /\ threadPc \in {"idle", "gone"} /\ Sending /\ ~Sending'
  BY <1>1, <1>2 DEF TokenInv, Counts, OneToken, One, Serving, Calls, Stopped, ReaderTypes, Sending
<1>4. ~InFill /\ ~InFill' /\ todo = 0 /\ ~Fresh /\ ~Stopped'
  BY <1>1, <1>2, <1>3 DEF InFill, Calls, Fresh, Stopped
<1>5. wanted \in Commands /\ wanted.do \in {"nop", "next", "exit", "set"} /\ wanted.count \in 0 .. Overbuffer
  BY <1>2 DEF ReaderTypes, Commands
<1>6. CASE wanted.do = "set"
  <2>1. readPos' = 0 /\ writePos' = 0 /\ needSync' = TRUE /\ start' = wanted
    BY <1>6 DEF Post
  <2>2. held' = 0
    BY <1>1, <1>2, <1>3, <1>6 DEF Calls
  <2>3. ReaderTypes'
    BY <1>1, <1>2, <1>5, <1>6, <2>1, <2>2 DEF ReaderTypes, Whole
  <2>4. Calls'
    BY <1>1, <1>3, <1>4, <2>1, <2>2, <1>6 DEF Calls
  <2>5. Fresh' /\ FreshInv'
    BY <1>1, <1>3, <1>6, <2>1 DEF Fresh, FreshInv
  <2> QED BY <1>2, <2>3, <2>4, <2>5 DEF RingInv, Streaming
<1>7. CASE wanted.do # "set"
  <2>1. /\ UNCHANGED <<readPos, writePos, start>>
        /\ needSync' = (needSync /\ wanted.do # "nop")
    BY <1>7 DEF Post
  <2>2. ReaderTypes'
    BY <1>1, <1>2, <1>5, <2>1 DEF ReaderTypes, Whole
  <2>3. Calls'
    <3>1. held' > 0 => wanted.do = "nop"
      BY <1>1, <1>2, <1>3, <1>5 DEF Calls
    <3>2. wanted.do = "nop" => start # Nop
      BY <1>2, <1>3 DEF Calls
    <3>3. held' > 0 => clientPc' = "free" /\ ~needSync' /\ start' # Nop
      BY <1>1, <2>1, <3>1, <3>2 DEF Nop
    <3>4. threadPc' # "aborted"
      BY <1>1, <1>3
    <3> QED BY <1>1, <1>3, <1>4, <3>3, <3>4 DEF Calls
  <2>4. ~Fresh'
    BY <1>1, <1>7 DEF Fresh
  <2>5. ASSUME Streaming' PROVE InStep' /\ Data'
    <3>1. Streaming
      BY <1>1, <1>4, <2>1, <2>5 DEF Streaming
    <3>2. Nexts' = Nexts
      BY <1>1, <1>3 DEF Nexts, One
    <3>3. InStep'
      BY <1>1, <1>2, <1>4, <2>1, <3>1, <3>2, InStepKept
    <3>4. InFill' = InFill
      BY <1>1 DEF InFill
    <3>5. Data'
      BY <1>1, <1>2, <1>3, <1>4, <2>1, <3>1, <3>4, DataKept
    <3> QED BY <3>3, <3>5
  <2> QED BY <1>2, <2>2, <2>3, <2>4, <2>5 DEF RingInv, FreshInv
<1> QED BY <1>6, <1>7

(* The client decides what to wait for, or is handed bytes.                *)
LEMMA CallsKeepRing ==
    ASSUME RingInv, clientPc = "free", clientPc' \in {"free", "waiting"}, TokenInv',
           UNCHANGED <<semVars, pending, ringVars, readPos, threadVars, needSync, start>>,
           wanted' \in Commands, held' \in 0 .. Overbuffer,
           held' > 0 => clientPc' = "free" /\ ~needSync /\ start # Nop,
           clientPc' = "waiting" => /\ wanted'.do # "next"
                                    /\ wanted'.do = "nop" => start # Nop
                                    /\ wanted'.do # "nop" => wanted'.count = 0
    PROVE  RingInv'
<1>1. ReaderTypes /\ Calls /\ FreshInv /\ (Streaming => InStep /\ Data)
  BY DEF RingInv
<1>2. ReaderTypes'
  BY <1>1 DEF ReaderTypes, Whole, ringVars, threadVars
<1>3. InFill' = InFill /\ Stopped' = Stopped
  BY DEF InFill, Stopped, threadVars
<1>4. Calls'
  BY <1>1, <1>3 DEF Calls, Sending, Nop, threadVars, semVars
<1>5. FreshInv' /\ (Streaming' => Streaming)
  BY <1>1 DEF FreshInv, Fresh, Streaming, ringVars, threadVars, semVars
<1>6. ASSUME Streaming PROVE InStep' /\ Data'
  <2>1. Nexts' = Nexts
    BY DEF Nexts, One, Sending, semVars
  <2>2. InStep'
    BY <1>1, <1>3, <1>6, <2>1, InStepKept DEF ringVars, threadVars
  <2>3. Data'
    BY <1>1, <1>3, <1>6, DataKept DEF ringVars, threadVars
  <2> QED BY <2>2, <2>3
<1> QED BY <1>2, <1>4, <1>5, <1>6 DEF RingInv

LEMMA RequestKeepsRing ==
    ASSUME RingInv, TokenInv', NEW w \in 1 .. Streams, NEW skip \in Nat,
           NEW pzb \in 0 .. BufferSize + Overbuffer,
           Request(SetActive(w, skip, pzb)) \/ Request(Exit)
    PROVE  RingInv'
<1> DEFINE command == wanted'
<1>1. /\ clientPc = "free" /\ clientPc' = "waiting" /\ held' = 0
      /\ UNCHANGED <<semVars, pending, ringVars, readPos, threadVars, needSync, start>>
      /\ command = SetActive(w, skip, pzb) \/ command = Exit
  BY DEF Request, Wants
<1>2. command \in Commands /\ command.do \in {"set", "exit"} /\ command.count = 0
  <2>1. 1 \in 1 .. Streams /\ 0 \in 0 .. Overbuffer /\ 0 \in 0 .. BufferSize + Overbuffer
    BY ReaderAssumption, Sizes
  <2>2. CASE command = SetActive(w, skip, pzb)
    BY <2>1, <2>2 DEF SetActive, Nop, Commands
  <2>3. CASE command = Exit
    BY <2>1, <2>3 DEF Exit, Nop, Commands
  <2> QED BY <1>1, <2>2, <2>3
<1>3. held' \in 0 .. Overbuffer
  BY <1>1, Sizes
<1> QED BY <1>1, <1>2, <1>3, CallsKeepRing

LEMMA GetBufferKeepsRing ==
    ASSUME RingInv, TokenInv', NEW n \in 1 .. Overbuffer, GetBuffer(n)
    PROVE  RingInv'
<1>1. /\ clientPc = "free" /\ start # Nop
      /\ UNCHANGED <<semVars, pending, ringVars, readPos, threadVars, needSync, start>>
  BY DEF GetBuffer
<1>2. wanted \in Commands /\ needSync \in BOOLEAN
  BY DEF RingInv, ReaderTypes
<1>3. CASE needSync
  <2> DEFINE command == wanted'
  <2>1. clientPc' = "waiting" /\ held' = 0 /\ command = [Nop EXCEPT !.count = n]
    BY <1>3 DEF GetBuffer, Wants
  <2>2. command \in Commands /\ command.do = "nop"
    BY <2>1, ReaderAssumption, Sizes DEF Nop, Commands
  <2>3. held' \in 0 .. Overbuffer
    BY <2>1, Sizes
  <2> QED BY <1>1, <2>1, <2>2, <2>3, CallsKeepRing
<1>4. CASE ~needSync
  <2>1. held' = n /\ UNCHANGED <<clientPc, wanted>>
    BY <1>4 DEF GetBuffer
  <2>2. held' \in 0 .. Overbuffer
    BY <2>1, Sizes
  <2> QED BY <1>1, <1>2, <1>4, <2>1, <2>2, CallsKeepRing
<1> QED BY <1>3, <1>4

(* A client that goes on by at most a chunk enters the next one or none.   *)
LEMMA Chunks ==
    ASSUME NEW p \in Nat, NEW n \in 1 .. ChunkSize
    PROVE  (p + n) \div ChunkSize =
              IF Crossed(p, p + n) THEN (p \div ChunkSize) + 1 ELSE p \div ChunkSize
<1> DEFINE k == p \div ChunkSize
           j == (p + n) \div ChunkSize
<1>1. k \in Int /\ p \in ChunkSize * k .. ChunkSize * k + ChunkSize - 1
  <2>1. p = ChunkSize * k + (p % ChunkSize) /\ p % ChunkSize \in 0 .. ChunkSize - 1 /\ k \in Int
    BY Sizes
  <2> QED BY <2>1, Sizes
<1>2. j \in Int /\ p + n \in ChunkSize * j .. ChunkSize * j + ChunkSize - 1
  <2>1. p + n = ChunkSize * j + ((p + n) % ChunkSize) /\ (p + n) % ChunkSize \in 0 .. ChunkSize - 1
          /\ j \in Int
    BY Sizes
  <2> QED BY <2>1, Sizes
<1> HIDE DEF k, j
<1>3. \A x \in Int, y \in Int : x >= y => ChunkSize * x >= ChunkSize * y
  BY Sizes
<1>4. ChunkSize * (k + 2) = ChunkSize * k + 2 * ChunkSize
        /\ ChunkSize * (j + 1) = ChunkSize * j + ChunkSize
        /\ ChunkSize * k \in Int /\ ChunkSize * j \in Int
  BY <1>1, <1>2, Sizes
<1>5. ~(j >= k + 2)
  BY <1>1, <1>2, <1>3, <1>4, Sizes
<1>6. ~(k >= j + 1)
  BY <1>1, <1>2, <1>3, <1>4, Sizes
<1>7. j = k \/ j = k + 1
  BY <1>1, <1>2, <1>5, <1>6
<1>8. (k + 1) % 2 # k % 2
  BY <1>1
<1>9. Crossed(p, p + n) <=> k % 2 # j % 2
  BY DEF Crossed, k, j
<1> QED BY <1>7, <1>8, <1>9 DEF k, j

LEMMA AdvanceKeepsRing ==
    ASSUME RingInv, TokenInv', NEW n \in 1 .. Overbuffer, Advance(n)
    PROVE  RingInv'
<1>1. /\ clientPc = "free" /\ n <= held /\ readPos' = readPos + n /\ held' = 0
      /\ UNCHANGED <<semVars, pending, ringVars, threadVars, needSync, start>>
      /\ IF Crossed(readPos, readPos + n)
         THEN clientPc' = "waiting" /\ wanted' = BufferNext
         ELSE clientPc' = clientPc /\ wanted' = wanted
  BY DEF Advance, Wants
<1>2. ReaderTypes /\ Calls /\ FreshInv /\ (Streaming => InStep /\ Data)
  BY DEF RingInv
<1>3. readPos \in Nat /\ n \in 1 .. ChunkSize /\ held > 0 /\ needSync \in BOOLEAN
  BY <1>1, <1>2, Sizes DEF ReaderTypes
<1>4. ~needSync /\ start # Nop
  BY <1>2, <1>3 DEF Calls
<1>5. Streaming /\ ~Fresh /\ ~Fresh'
  <2>1. ~Fresh /\ threadPc # "aborted"
    BY <1>2, <1>4 DEF FreshInv, Calls
  <2> QED BY <1>1, <1>4, <2>1 DEF Streaming, Fresh, semVars
<1>6. InFill' = InFill /\ Stopped' = Stopped
  BY <1>1 DEF InFill, Stopped, threadVars
<1>7. ReaderTypes'
  <2>1. BufferNext \in Commands /\ 0 \in 0 .. Overbuffer
    BY ReaderAssumption, Sizes DEF BufferNext, Nop, Commands
  <2>2. readPos' \in Nat /\ wanted' \in Commands /\ clientPc' \in {"free", "waiting"}
    BY <1>1, <1>2, <1>3, <2>1 DEF ReaderTypes
  <2> QED BY <1>1, <1>2, <2>1, <2>2 DEF ReaderTypes, Whole, ringVars, threadVars
<1>8. Calls'
  BY <1>1, <1>2, <1>4, <1>6 DEF Calls, Sending, Nop, BufferNext, threadVars, semVars
<1>9. Data'
  BY <1>1, <1>2, <1>5, <1>6, DataKept DEF ringVars, threadVars
<1>10. InStep'
  <2> DEFINE k == readPos \div ChunkSize
  <2>1. k \in Int /\ k' = IF Crossed(readPos, readPos + n) THEN k + 1 ELSE k
    BY <1>1, <1>3, Chunks, Sizes
  <2> HIDE DEF k
  <2>2. Nexts \in Int /\ Nexts' = IF Crossed(readPos, readPos + n) THEN Nexts + 1 ELSE Nexts
    BY <1>1 DEF Nexts, One, Sending, BufferNext, Nop, semVars
  <2>3. 4 + k' - Nexts' = 4 + k - Nexts
    BY <2>1, <2>2
  <2>4. End' = End /\ End = ChunkSize * (4 + k - Nexts) /\ End >= BufferSize
          /\ (InFill => todo <= (IF needSync THEN BufferSize ELSE ChunkSize))
    BY <1>1, <1>2, <1>5 DEF InStep, End, ringVars, threadVars, k
  <2>5. End' = ChunkSize * (4 + k' - Nexts')
    BY <2>3, <2>4
  <2>6. InFill' => todo' <= (IF needSync' THEN BufferSize ELSE ChunkSize)
    BY <1>1, <1>6, <2>4 DEF threadVars
  <2> QED BY <1>1, <1>4, <2>4, <2>5, <2>6 DEF InStep, k
<1> QED BY <1>5, <1>7, <1>8, <1>9, <1>10 DEF RingInv, FreshInv

-----------------------------------------------------------------------------
LEMMA RingHolds == RingInv /\ [Next]_vars => RingInv'
<1> SUFFICES ASSUME RingInv, [Next]_vars PROVE RingInv'
  OBVIOUS
<1>1. TokenInv /\ TokenInv'
  <2>1. TokenInv
    BY DEF RingInv
  <2>2. CASE Next
    BY <2>1, <2>2, ThreadKeepsToken, ClientKeepsToken, CallKeepsToken DEF Next
  <2>3. CASE UNCHANGED vars
    BY <2>1, <2>3, TokenKept DEF vars, tokenVars, threadVars, clientVars
  <2> QED BY <2>1, <2>2, <2>3
<1>2. CASE Thread \/ Throw
  <2>1. Take \/ Silence \/ Read \/ EndRead \/ (Ack \/ Throw) \/ TakeFailed \/ AckFailed
    BY <1>2 DEF Thread
  <2>2. ~TakeFailed /\ ~AckFailed
    BY FailedTakesNothing
  <2>3. CASE Take
    BY <2>3, TakeKeepsRing
  <2>4. CASE Silence
    BY <2>4, SilenceKeepsRing
  <2>5. CASE Read
    BY <2>5, ReadKeepsRing
  <2>6. CASE EndRead
    BY <2>6, EndReadKeepsRing
  <2>7. CASE Ack \/ Throw
    BY <2>7, AckKeepsRing
  <2> QED BY <2>1, <2>2, <2>3, <2>4, <2>5, <2>6, <2>7
<1>3. CASE Client
  BY <1>3, AcquireKeepsRing, PostKeepsRing DEF Client
<1>4. CASE Call
  <2>1. ASSUME NEW w \in 1 .. Streams, NEW skip \in Nat, NEW pzb \in 0 .. BufferSize + Overbuffer,
               Request(SetActive(w, skip, pzb))
        PROVE  RingInv'
    BY <1>1, <2>1, RequestKeepsRing
  <2>2. CASE Request(Exit)
    <3>1. 1 \in 1 .. Streams /\ 0 \in Nat /\ 0 \in 0 .. BufferSize + Overbuffer
      BY ReaderAssumption, Sizes
    <3> QED BY <1>1, <2>2, <3>1, RequestKeepsRing
  <2>3. ASSUME NEW n \in 1 .. Overbuffer, GetBuffer(n) \/ Advance(n) PROVE RingInv'
    BY <1>1, <2>3, GetBufferKeepsRing, AdvanceKeepsRing
  <2> QED BY <1>4, <2>1, <2>2, <2>3 DEF Call
<1>5. CASE UNCHANGED vars
  <2>1. UNCHANGED <<commandSem, ackSem, pending, buffer, readPos, writePos, active, todo, base, pos,
                    filePos, threadPc, clientPc, wanted, held, needSync, start>>
    BY <1>5 DEF vars, semVars, ringVars, threadVars, clientVars
  <2>2. ReaderTypes /\ Calls /\ FreshInv /\ (Streaming => InStep /\ Data)
    BY DEF RingInv
  <2>3. ReaderTypes'
    BY <2>1, <2>2 DEF ReaderTypes, Whole
  <2>4. InFill' = InFill /\ Nexts' = Nexts
    BY <2>1 DEF InFill, Nexts, One, Sending
  <2>5. Calls' /\ FreshInv' /\ (Streaming' => Streaming)
    BY <2>1, <2>2, <2>4 DEF Calls, FreshInv, Fresh, Streaming, Stopped, Sending, Nop
  <2>6. Streaming => InStep' /\ Data'
    BY <2>1, <2>2, <2>4, InStepKept, DataKept
  <2> QED BY <1>1, <2>3, <2>5, <2>6 DEF RingInv
<1> QED BY <1>2, <1>3, <1>4, <1>5 DEF Next

LEMMA RingSuffices == RingInv => ReadsTheStream
<1> SUFFICES ASSUME RingInv, NEW i \in 0 .. held - 1
             PROVE  /\ buffer[(readPos % BufferSize) + i] = Streamed(readPos + i)
                    /\ threadPc = "filling" =>
                         \A j \in 0 .. todo - 1 :
                            (readPos + i) % BufferSize # (writePos + j) % BufferSize
  BY DEF ReadsTheStream
<1>1. ReaderTypes /\ Calls /\ FreshInv /\ (Streaming => InStep /\ Data)
  BY DEF RingInv
<1>2. /\ held \in 0 .. Overbuffer /\ i \in Nat /\ i < held /\ held > 0 /\ readPos \in Nat
      /\ writePos \in Nat /\ todo \in Nat
  BY <1>1, Sizes DEF ReaderTypes
<1>3. clientPc = "free" /\ ~needSync /\ start # Nop /\ Streaming
  <2>1. clientPc = "free" /\ ~needSync /\ start # Nop
    BY <1>1, <1>2 DEF Calls
  <2> QED BY <1>1, <2>1 DEF FreshInv, Streaming, Calls
<1> DEFINE p == readPos + i
           k == readPos \div ChunkSize
<1>4. p \in Int /\ p >= End - BufferSize /\ p < End - ChunkSize /\ End \in Int
  <2>1. k \in Int /\ readPos >= ChunkSize * k /\ readPos < ChunkSize * k + ChunkSize
    <3>1. readPos = ChunkSize * k + (readPos % ChunkSize) /\ readPos % ChunkSize \in 0 .. ChunkSize - 1
            /\ k \in Int
      BY <1>2, Sizes
    <3> QED BY <3>1, Sizes
  <2>2. End = ChunkSize * (4 + k - Nexts)
    BY <1>1, <1>3 DEF InStep
  <2>3. Nexts \in {0, 1}
    BY <1>3 DEF Nexts, One, Sending
  <2> HIDE DEF k
  <2>4. /\ ChunkSize * (4 + k - 0) = ChunkSize * k + 4 * ChunkSize
        /\ ChunkSize * (4 + k - 1) = ChunkSize * k + 3 * ChunkSize
        /\ ChunkSize * k \in Int
    BY <2>1, Sizes
  <2> QED BY <1>2, <2>1, <2>2, <2>3, <2>4, Sizes
<1>5. threadPc = "filling" => End - ChunkSize <= writePos
  BY <1>1, <1>2, <1>3, Sizes DEF InStep, InFill, End
<1>6. Settled \in Int /\ Settled <= writePos /\ End - ChunkSize <= Settled
  <2>1. InFill => todo <= ChunkSize
    BY <1>1, <1>3 DEF InStep
  <2>2. ~InFill => todo = 0
    BY <1>1 DEF Calls
  <2> QED BY <1>2, <1>3, <2>1, <2>2, Sizes DEF Settled, End
<1>7. p \in End - BufferSize .. writePos - 1 /\ p \in End - BufferSize .. Settled - 1
  BY <1>2, <1>4, <1>6, Sizes
<1>8. buffer[(readPos % BufferSize) + i] = Streamed(p)
  <2>1. i < BufferSize /\ readPos % BufferSize \in 0 .. BufferSize - 1
    BY <1>2, Sizes
  <2>2. p % BufferSize = IF (readPos % BufferSize) + i < BufferSize
                         THEN (readPos % BufferSize) + i ELSE (readPos % BufferSize) + i - BufferSize
    <3>1. readPos \in Int /\ BufferSize \in Nat \ {0}
      BY <1>2, Sizes
    <3> QED BY <1>2, <2>1, <3>1, Along, Zenon
  <2>3. CASE (readPos % BufferSize) + i < BufferSize
    <3>1. buffer[p % BufferSize] = Streamed(p)
      BY <1>1, <1>3, <1>7 DEF Data, Ring
    <3> QED BY <2>2, <2>3, <3>1
  <2>4. CASE ~((readPos % BufferSize) + i < BufferSize)
    <3> HIDE DEF p
    <3>1. p % BufferSize < Overbuffer
            /\ BufferSize + (p % BufferSize) = (readPos % BufferSize) + i
      BY <1>2, <2>1, <2>2, <2>4, Sizes
    <3>2. buffer[BufferSize + (p % BufferSize)] = Streamed(p)
      BY <1>1, <1>3, <1>7, <3>1 DEF Data, Behind
    <3> QED BY <3>1, <3>2
  <2> QED BY <2>3, <2>4
<1>9. ASSUME threadPc = "filling", NEW j \in 0 .. todo - 1
      PROVE  p % BufferSize # (writePos + j) % BufferSize
  <2> DEFINE q == writePos + j
  <2>1. q \in Int /\ p < q /\ q - p < BufferSize
    BY <1>2, <1>4, <1>6, <1>7, Sizes DEF End
  <2> HIDE DEF p, q
  <2>2. p % BufferSize # q % BufferSize
    BY <1>4, <2>1, Apart, Sizes
  <2> QED BY <2>2 DEF q
<1> QED BY <1>8, <1>9

(* What the client is handed is the stream it asked for, byte by byte, and *)
(* the thread is at work elsewhere in the ring: for every size of the ring *)
(* and of the streams, every loop, skip and silence before, every pattern  *)
(* of calls and whether or not a stream throws.                            *)
THEOREM ReadsTheStreamAlways == Spec => []ReadsTheStream
BY InitRing, RingHolds, RingSuffices, PTL DEF Spec
=============================================================================
