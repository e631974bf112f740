---------------------------- MODULE NileTfProofs ----------------------------
(***************************************************************************)
(* That the TF card, under a host that follows the protocol, is an array   *)
(* of blocks: for every size of card and block, every delay, every set of  *)
(* jobs and any number of them, and wherever the power is lost.            *)
(***************************************************************************)
EXTENDS NileTfHost, SequenceTheorems, FiniteSetTheorems, TLAPS

(* The cards that are up: their file is there and their queues have bytes. *)
HeldCards ==
    [tx : Seq(Byte), rx : Seq(Byte), status : {0, 1}, reading : BOOLEAN,
     writing : {"no", "single", "multiple"}, bytes : [0 .. Blocks * DataLen - 1 -> Byte],
     pos : Nat, eof : BOOLEAN, down : {FALSE}]
Phases == {"idle", "command", "answer", "trailer", "token", "block", "stop", "skip",
           "delay", "busy", "data", "accept", "finish"}
CardTypes ==
    /\ card \in HeldCards
    /\ job \in Jobs \cup {NoJob} /\ phase \in Phases /\ clocked \in Nat
    /\ blocksDone \in 0 .. job.count
    /\ phase \notin {"idle"} => job \in Jobs
    /\ phase # "block" => arrived = <<>>

-----------------------------------------------------------------------------
(* What the host has yet to do, and what the card then holds, by phase.    *)

Listens == card.rx = <<>> /\ card.writing = "no"
Silent == card.tx = <<>> /\ ~card.reading
AllDone == blocksDone = job.count

BeginsWith(q, frame) == Len(q) = clocked /\ \A i \in 1 .. clocked : q[i] = frame[i]

(* What is left of an answer is told from its end: the bytes k places in   *)
(* front of it.                                                            *)
StopByte(k) == IF k = 0 THEN 255 ELSE IF k <= StopBusy + 1 THEN 0 ELSE 255
ReadByte(d, k) ==
    IF k > DataLen + 2 THEN 255 ELSE IF k = DataLen + 2 THEN 254 ELSE d[DataLen + 2 - k]
Carries(q, d) == \A i \in 1 .. Len(q) - 2 : q[i] = ReadByte(d, Len(q) - i)
EndsStop(q) == \A i \in 1 .. Len(q) : q[i] = StopByte(Len(q) - i)

(* The block the job is at, and a card that will send it, or is to be sent *)
(* it.                                                                     *)
Due == BlockAt(job.at + blocksDone)
ReadGoesOn ==
    /\ Listens /\ job.cmd \in Reads /\ ~AllDone
    /\ card.reading = (job.cmd = 18)
    /\ job.cmd = 18 => card.pos = (job.at + blocksDone + 1) * DataLen /\ ~card.eof
WriteGoesOn ==
    /\ job.cmd \in Writes /\ ~card.reading
    /\ card.writing = IF job.cmd = 24 THEN "single" ELSE "multiple"
    /\ card.pos = (job.at + blocksDone) * DataLen /\ ~card.eof
Stalled == card.tx = <<>> /\ card.rx \in {<<>>, <<255>>}

WhenIdle == Listens /\ Silent /\ AllDone
WhenCommand ==
    /\ card.writing = "no" /\ Silent /\ clocked <= 5 /\ BeginsWith(card.rx, CommandFrame)
    /\ blocksDone = 0
WhenStop ==
    card.writing = "no" /\ AllDone /\ clocked <= 5 /\ BeginsWith(card.rx, CommandFrame)
WhenAnswer ==
    /\ card.rx = <<>> /\ card.tx # <<>> /\ card.tx[1] # 255 /\ blocksDone = 0
    /\ IF job.cmd \in Reads
       THEN ReadGoesOn /\ Len(card.tx) = ReadDelay + DataLen + 3 /\ Carries(Pop(card.tx, 1), Due)
       ELSE IF job.cmd \in Writes THEN WriteGoesOn /\ ~AllDone /\ Len(card.tx) = 1
       ELSE Listens /\ ~card.reading /\ AllDone /\ Len(card.tx) = IF job.cmd = 8 THEN 5 ELSE 1
WhenTrailer ==
    Listens /\ ~card.reading /\ AllDone /\ clocked <= 3 /\ Len(card.tx) = 4 - clocked
WhenToken == ReadGoesOn /\ Len(card.tx) >= DataLen + 3 /\ Carries(card.tx, Due)
WhenBlock ==
    /\ ReadGoesOn /\ clocked <= DataLen + 1 /\ Len(card.tx) = DataLen + 2 - clocked
    /\ Carries(card.tx, Due)
    /\ arrived \in Seq(Byte) /\ Len(arrived) = clocked
    /\ \A i \in 1 .. clocked : i <= DataLen => arrived[i] = Due[i]
WhenStopped ==
    /\ Listens /\ ~card.reading /\ AllDone /\ EndsStop(card.tx)
    /\ phase = "skip" => Len(card.tx) = StopBusy + 4
    /\ phase = "delay" => Len(card.tx) \in {StopBusy + 2, StopBusy + 3}
    /\ phase = "busy" => Len(card.tx) \in 1 .. StopBusy + 1
WhenData ==
    /\ WriteGoesOn /\ ~AllDone /\ clocked <= DataLen + 2
    /\ IF clocked = 0 THEN Stalled
       ELSE card.tx = <<>> /\ BeginsWith(card.rx, DataFrame)
WhenAccept ==
    /\ card.rx = <<>> /\ Len(card.tx) = 1 /\ card.tx[1] # 255
    /\ job.cmd \in Writes
    /\ IF job.cmd = 24 THEN Listens /\ ~card.reading /\ AllDone ELSE WriteGoesOn
WhenFinish == WriteGoesOn /\ AllDone /\ job.cmd = 25 /\ Stalled

(* In every phase the card holds what the host is about to take or waits   *)
(* for what it is about to send, and its file is where the job is.         *)
CardInv ==
    /\ CardTypes
    /\ phase = "idle" => WhenIdle
    /\ phase = "command" => WhenCommand
    /\ phase = "stop" => WhenStop
    /\ phase = "answer" => WhenAnswer
    /\ phase = "trailer" => WhenTrailer
    /\ phase = "token" => WhenToken
    /\ phase = "block" => WhenBlock
    /\ phase \in {"skip", "delay", "busy"} => WhenStopped
    /\ phase = "data" => WhenData
    /\ phase = "accept" => WhenAccept
    /\ phase = "finish" => WhenFinish

-----------------------------------------------------------------------------
(* Bytes behind other bytes.                                               *)
LEMMA JoinIs ==
    ASSUME NEW S, NEW q \in Seq(S), NEW w \in Seq(S)
    PROVE  /\ q \o w \in Seq(S) /\ Len(q \o w) = Len(q) + Len(w)
           /\ \A i \in 1 .. Len(q) : (q \o w)[i] = q[i]
           /\ \A i \in 1 .. Len(w) : (q \o w)[Len(q) + i] = w[i]
<1>1. q \o w \in Seq(S) /\ Len(q \o w) = Len(q) + Len(w)
  OBVIOUS
<1>2. \A i \in 1 .. Len(q) : (q \o w)[i] = q[i]
  OBVIOUS
<1>3. \A i \in 1 .. Len(w) : (q \o w)[Len(q) + i] = w[i]
  OBVIOUS
<1> QED BY <1>1, <1>2, <1>3

-----------------------------------------------------------------------------
(* What the assumptions say of the constants.                              *)
LEMMA CardConstants ==
    /\ DataLen \in Nat \ {0} /\ StopBusy \in Nat /\ ReadDelay \in Nat \ {0} /\ HasCard
    /\ StackBytes # {} /\ StackBytes \subseteq Byte /\ BufSize \in Nat
    /\ BufSize > DataLen + ReadDelay + 3 /\ BufSize > StopBusy + 4 /\ BufSize > 6
    /\ Blocks \in Nat /\ CardBytes \in [0 .. Blocks * DataLen - 1 -> Byte]
    /\ MaxJobs \in Nat
BY TfAssumption, CardHostAssumption, BufSizeAssumption

(* A byte is a number below 256.                                           *)
LEMMA CardBytesAre ==
    /\ \A b \in Byte : b \in Nat /\ b < 256
    /\ \A b \in Nat : b < 256 => b \in Byte
BY DEF Byte

(* spi_buffer_pop drops bytes from the front.                              *)
LEMMA PopIs ==
    ASSUME NEW q \in Seq(Byte), NEW k \in Nat
    PROVE  /\ Pop(q, k) \in Seq(Byte)
           /\ k <= Len(q) => /\ Len(Pop(q, k)) = Len(q) - k
                             /\ \A i \in 1 .. Len(q) - k : Pop(q, k)[i] = q[k + i]
           /\ k >= Len(q) => Pop(q, k) = <<>>
<1>1. CASE k < Len(q)
  <2>1. k + 1 \in 1 .. Len(q) + 1 /\ Len(q) \in 0 .. Len(q) /\ k + 1 <= Len(q) + 1
    BY <1>1
  <2>2. /\ SubSeq(q, k + 1, Len(q)) \in Seq(Byte)
        /\ Len(SubSeq(q, k + 1, Len(q))) = Len(q) - k
        /\ \A i \in 1 .. Len(q) - k : SubSeq(q, k + 1, Len(q))[i] = q[k + i]
    BY <1>1, SubSeqProperties
  <2> QED BY <1>1, <2>2 DEF Pop
<1>2. CASE ~(k < Len(q))
  BY <1>2 DEF Pop
<1> QED BY <1>1, <1>2

(* The byte that is clocked out next, or a fill byte                       *)
(* (nile_spi_buffer_pop).                                                  *)
LEMMA FirstIs ==
    ASSUME NEW q \in Seq(Byte)
    PROVE  /\ q # <<>> => First(q) = q[1] /\ Len(q) >= 1
           /\ q = <<>> => First(q) = 255 /\ Pop(q, 1) = <<>>
BY DEF First, FillByte, Pop

(* The bytes up to the first one below the limit are dropped.              *)
LEMMA StripIs ==
    ASSUME NEW q \in Seq(Byte), NEW limit \in Nat
    PROVE  /\ \A f \in 1 .. Len(q) :
                 (q[f] < limit /\ \A i \in 1 .. f - 1 : ~(q[i] < limit))
                    => Strip(q, limit) = SubSeq(q, f, Len(q))
           /\ (\A i \in 1 .. Len(q) : ~(q[i] < limit)) => Strip(q, limit) = <<>>
<1> DEFINE I == {i \in 1 .. Len(q) : q[i] < limit}
           first == IF I # {} THEN Min(I) ELSE 0
<1>1. Strip(q, limit) = IF first = 0 THEN <<>> ELSE SubSeq(q, first, Len(q))
  BY DEF Strip, SelectInSeq
<1>2. ASSUME NEW f \in 1 .. Len(q), q[f] < limit, \A i \in 1 .. f - 1 : ~(q[i] < limit)
      PROVE  Strip(q, limit) = SubSeq(q, f, Len(q))
  <2>1. f \in I /\ \A i \in I : f <= i
    BY <1>2
  <2>2. I \subseteq Nat
    OBVIOUS
  <2> HIDE DEF I
  <2>3. Min(I) \in I /\ \A i \in I : Min(I) <= i
    BY <2>1, Zenon DEF Min
  <2>4. Min(I) = f
    <3>1. f \in Nat /\ Min(I) \in Nat /\ f <= Min(I) /\ Min(I) <= f
      BY ONLY <2>1, <2>2, <2>3, Zenon
    <3> HIDE DEF first
    <3> QED BY ONLY <3>1
  <2>5. first = f /\ f # 0
    BY <2>1, <2>4
  <2> QED BY ONLY <1>1, <2>5, Zenon
<1>3. ASSUME \A i \in 1 .. Len(q) : ~(q[i] < limit)
      PROVE  Strip(q, limit) = <<>>
  <2>1. I = {}
    BY <1>3
  <2> QED BY <1>1, <2>1
<1> QED BY <1>2, <1>3

(* Nothing is dropped when the first byte is below the limit.              *)
LEMMA StripFirst ==
    ASSUME NEW q \in Seq(Byte), NEW limit \in Nat, q # <<>>, q[1] < limit
    PROVE  Strip(q, limit) = q
<1>1. Len(q) \in Nat /\ 1 \in 1 .. Len(q) /\ SubSeq(q, 1, Len(q)) = q
  OBVIOUS
<1>2. \A i \in 1 .. 1 - 1 : ~(q[i] < limit)
  OBVIOUS
<1>3. Strip(q, limit) = SubSeq(q, 1, Len(q))
  BY ONLY <1>1, <1>2, StripIs, limit \in Nat, q \in Seq(Byte), q[1] < limit
<1> QED BY <1>1, <1>3

(* There is nothing to drop in an empty queue.                             *)
LEMMA StripEmpty == \A limit \in Nat : Strip(<<>>, limit) = <<>>
<1> TAKE limit \in Nat
<1>1. <<>> \in Seq(Byte) /\ \A i \in 1 .. Len(<<>>) : ~(<<>>[i] < limit)
  OBVIOUS
<1> QED BY ONLY <1>1, StripIs, limit \in Nat

(* A queue of one byte.                                                    *)
LEMMA OneByte ==
    ASSUME NEW q \in Seq(Byte), Len(q) = 1
    PROVE  q = <<q[1]>>
OBVIOUS

(* Fill bytes in front of a token are dropped.                             *)
LEMMA StripFill ==
    ASSUME NEW x \in Byte
    PROVE  /\ Strip(<<255>>, 255) = <<>> /\ Strip(<<255, 255>>, 255) = <<>>
           /\ x # 255 => Strip(<<255, x>>, 255) = <<x>> /\ Strip(<<x>>, 255) = <<x>>
<1>1. 255 \in Byte
  BY DEF Byte
<1>2. <<255>> \in Seq(Byte) /\ Len(<<255>>) = 1 /\ \A i \in 1 .. 1 : ~(<<255>>[i] < 255)
  BY <1>1
<1>3. /\ <<255, 255>> \in Seq(Byte) /\ Len(<<255, 255>>) = 2
      /\ \A i \in 1 .. 2 : ~(<<255, 255>>[i] < 255)
  BY <1>1
<1>4. Strip(<<255>>, 255) = <<>>
  <2> DEFINE q == <<255>>
  <2>1. q \in Seq(Byte) /\ \A i \in 1 .. Len(q) : ~(q[i] < 255)
    BY <1>2
  <2> HIDE DEF q
  <2>2. Strip(q, 255) = <<>>
    BY ONLY <2>1, StripIs, 255 \in Nat
  <2> QED BY <2>2 DEF q
<1>5. Strip(<<255, 255>>, 255) = <<>>
  <2> DEFINE q == <<255, 255>>
  <2>1. q \in Seq(Byte) /\ \A i \in 1 .. Len(q) : ~(q[i] < 255)
    BY <1>3
  <2> HIDE DEF q
  <2>2. Strip(q, 255) = <<>>
    BY ONLY <2>1, StripIs, 255 \in Nat
  <2> QED BY <2>2 DEF q
<1>6. ASSUME x # 255 PROVE Strip(<<255, x>>, 255) = <<x>> /\ Strip(<<x>>, 255) = <<x>>
  <2> DEFINE q == <<255, x>>
  <2>1. /\ q \in Seq(Byte) /\ Len(q) = 2 /\ 2 \in 1 .. Len(q) /\ q[2] < 255
        /\ \A i \in 1 .. 2 - 1 : ~(q[i] < 255)
    BY <1>1, <1>6 DEF Byte
  <2>2. SubSeq(q, 2, Len(q)) = <<x>>
    <3>1. q[2] = x
      OBVIOUS
    <3> HIDE DEF q
    <3>2. /\ SubSeq(q, 2, 2) \in Seq(Byte) /\ Len(SubSeq(q, 2, 2)) = 1
          /\ SubSeq(q, 2, 2)[1] = q[2]
      BY ONLY <2>1, SubSeqProperties
    <3> QED BY ONLY <2>1, <3>1, <3>2, OneByte
  <2> HIDE DEF q
  <2>3. Strip(q, 255) = <<x>>
    BY ONLY <2>1, <2>2, StripIs, 255 \in Nat
  <2>4. <<x>> \in Seq(Byte) /\ <<x>> # <<>> /\ <<x>>[1] < 255
    BY <1>6 DEF Byte
  <2>5. Strip(<<x>>, 255) = <<x>>
    BY ONLY <2>4, StripFirst, 255 \in Nat
  <2> QED BY <2>3, <2>5 DEF q
<1> QED BY <1>4, <1>5, <1>6

-----------------------------------------------------------------------------
(* nile_spi_tf_exchange serves no command before six bytes have come, and  *)
(* one when they have (a fold over so few numbers can be written down).    *)
ServedOnce(d) ==
    LET e == [d EXCEPT !.rx = Strip(@, 128)]
    IN  IF Len(d.rx) < 6 THEN d
        ELSE IF Len(e.rx) < 6 THEN e ELSE ServeCommand(e)
ServedIn(f, c, s) == IF s = {} THEN c ELSE ServedOnce(f[s \ {Max(s)}])

(* The fold of AfterExchange serves as often as there are six bytes.       *)
LEMMA ServedBy ==
    ASSUME NEW c, NEW m \in {0, 1}, Len(c.rx) \div 6 = m
    PROVE  ServeQueued(c) = IF m = 0 THEN c ELSE ServedOnce(c)
<1> DEFINE iter == CHOOSE f : f = [s \in SUBSET (1 .. m) |-> ServedIn(f, c, s)]
           g == [s \in SUBSET (1 .. m) |-> IF s = {} THEN c ELSE ServedOnce(c)]
<1>1. ServeQueued(c) = iter[1 .. m]
  BY DEF ServeQueued, FoldLeft, MapThenFoldSet, ServedIn, ServedOnce
<1>2. \A s \in SUBSET (1 .. m) : s # {} => s \ {Max(s)} = {}
  <2> SUFFICES ASSUME NEW s \in SUBSET (1 .. m), s # {} PROVE s \ {Max(s)} = {}
      OBVIOUS
  <2>0. \A x \in 1 .. m : x = 1
    OBVIOUS
  <2>1. s = {1}
    BY <2>0
  <2>2. Max({1}) = 1
    BY DEF Max
  <2> QED BY <2>1, <2>2
<1>3. g = [s \in SUBSET (1 .. m) |-> ServedIn(g, c, s)]
  <2>1. {} \in SUBSET (1 .. m)
    OBVIOUS
  <2>2. \A s \in SUBSET (1 .. m) : g[s] = ServedIn(g, c, s)
    BY <1>2, <2>1 DEF ServedIn
  <2> QED BY <2>2
<1>4. iter = [s \in SUBSET (1 .. m) |-> ServedIn(iter, c, s)]
  <2> HIDE DEF g
  <2> QED BY <1>3
<1> HIDE DEF iter
<1>5. iter[{}] = c
  <2>1. {} \in SUBSET (1 .. m)
    OBVIOUS
  <2> QED BY <1>4, <2>1 DEF ServedIn
<1>6. CASE m = 0
  BY <1>1, <1>5, <1>6
<1>7. CASE m = 1
  <2>1. 1 .. m \in SUBSET (1 .. m) /\ 1 .. m # {}
    BY <1>7
  <2>2. iter[1 .. m] = ServedIn(iter, c, 1 .. m)
    BY <1>4, <2>1
  <2>3. ServedIn(iter, c, 1 .. m) = ServedOnce(c)
    BY <1>2, <1>5, <2>1 DEF ServedIn
  <2> QED BY <1>1, <1>7, <2>2, <2>3
<1> QED BY <1>6, <1>7

(* How often six goes into what a card may hold of a command.              *)
LEMMA BySix == (\A k \in 0 .. 5 : k \div 6 = 0) /\ 6 \div 6 = 1
BY SMT

(* Before six bytes have come nothing is served.                           *)
LEMMA ServeNone ==
    ASSUME NEW c \in HeldCards, Len(c.rx) < 6
    PROVE  ServeQueued(c) = c
<1>1. c.rx \in Seq(Byte)
  BY DEF HeldCards
<1>2. Len(c.rx) \div 6 = 0
  <2>1. Len(c.rx) \in 0 .. 5
    <3>1. Len(c.rx) \in Nat
      BY ONLY <1>1
    <3>2. \A k \in Nat : k < 6 => k \in 0 .. 5
      OBVIOUS
    <3> QED BY <3>1, <3>2, Zenon
  <2> QED BY ONLY <2>1, BySix, Zenon
<1>3. \A m \in {0, 1} : Len(c.rx) \div 6 = m
                          => ServeQueued(c) = IF m = 0 THEN c ELSE ServedOnce(c)
  <2> TAKE m \in {0, 1}
  <2> HAVE Len(c.rx) \div 6 = m
  <2> QED BY ServedBy
<1> QED BY ONLY <1>2, <1>3

(* After six bytes one command is.                                         *)
LEMMA ServeSix ==
    ASSUME NEW c \in HeldCards, Len(c.rx) = 6, c.rx[1] < 128
    PROVE  ServeQueued(c) = ServeCommand(c)
<1>1. c.rx \in Seq(Byte) /\ c.rx # <<>>
  BY DEF HeldCards
<1>2. Len(c.rx) \div 6 = 1
  BY BySix
<1>3. Strip(c.rx, 128) = c.rx
  BY <1>1, StripFirst
<1> DEFINE e == [c EXCEPT !.rx = Strip(c.rx, 128)]
<1>4. e = c
  BY <1>3 DEF HeldCards
<1>5. ServedOnce(c) = ServeCommand(c)
  <2>1. ServedOnce(c) = IF Len(c.rx) < 6 THEN c
                        ELSE IF Len(e.rx) < 6 THEN e ELSE ServeCommand(e)
    BY DEF ServedOnce
  <2> HIDE DEF e
  <2>2. ~(Len(c.rx) < 6)
    OBVIOUS
  <2> QED BY <1>4, <2>1, <2>2
<1>6. ServeQueued(c) = IF 1 = 0 THEN c ELSE ServedOnce(c)
  BY ONLY <1>2, ServedBy
<1> QED BY <1>5, <1>6

(* The file.                                                               *)
LEMMA HeldSize == \A c \in HeldCards : Size(c) = Blocks * DataLen /\ Blocks * DataLen \in Nat
<1> TAKE c \in HeldCards
<1>1. Blocks * DataLen \in Nat
  BY CardConstants
<1> DEFINE z == Blocks * DataLen
<1>2. DOMAIN c.bytes = 0 .. z - 1
  BY DEF HeldCards
<1> HIDE DEF z
<1>3. z \in Nat
  BY <1>1 DEF z
<1>4. Cardinality(0 .. z - 1) = z
  BY <1>3, FS_Interval
<1> QED BY <1>2, <1>3, <1>4 DEF Size, z

(* Blocks lie one behind the other, and all of them on the card.           *)
LEMMA BlocksApart ==
    /\ \A a \in Nat : a * DataLen \in Nat /\ (a + 1) * DataLen = a * DataLen + DataLen
    /\ \A a, b \in Nat : a < b => a * DataLen + DataLen <= b * DataLen
<1>1. DataLen \in Nat
  BY CardConstants
<1>2. \A a \in Nat : a * DataLen \in Nat /\ (a + 1) * DataLen = a * DataLen + DataLen
  BY <1>1
<1>3. ASSUME NEW a \in Nat, NEW b \in Nat, a < b PROVE a * DataLen + DataLen <= b * DataLen
  <2>1. PICK d \in Nat : b = (a + 1) + d
    <3>1. b - (a + 1) \in Nat /\ b = (a + 1) + (b - (a + 1))
      BY <1>3
    <3> QED BY <3>1
  <2>2. b * DataLen = (a + 1) * DataLen + d * DataLen /\ d * DataLen \in Nat
    BY <1>1, <2>1
  <2>3. (a + 1) * DataLen = a * DataLen + DataLen /\ a * DataLen \in Nat
    BY <1>2
  <2> HIDE DEF BlockData
  <2> QED BY <1>1, <2>2, <2>3
<1> QED BY <1>2, <1>3

(* A block that is read has the bytes at its address.                      *)
LEMMA BlockIs ==
    ASSUME NEW c \in HeldCards
    PROVE  /\ Block(c) \in BlockData
           /\ Block(c) \in Seq(Byte) /\ Len(Block(c)) = DataLen
           /\ \A a \in 0 .. Blocks - 1 :
                 ~c.eof /\ c.pos = a * DataLen =>
                     \A i \in 1 .. DataLen : Block(c)[i] = c.bytes[a * DataLen + i - 1]
<1> DEFINE B(i) == IF c.eof \/ c.pos + i > Size(c) THEN 255 ELSE c.bytes[c.pos + i - 1]
           z == Blocks * DataLen
<1>1. /\ c.pos \in Nat /\ Size(c) = z /\ z \in Nat /\ DataLen \in Nat
      /\ c.bytes \in [0 .. z - 1 -> Byte]
  BY HeldSize, CardConstants DEF HeldCards
<1>2. Block(c) = [i \in 1 .. DataLen |-> B(i)]
  BY CardConstants DEF Block, FillByte
<1> HIDE DEF z
<1>3. ASSUME NEW i \in 1 .. DataLen PROVE B(i) \in Byte
  <2>1. CASE c.eof \/ c.pos + i > Size(c)
    BY <2>1 DEF Byte
  <2>2. CASE ~(c.eof \/ c.pos + i > Size(c))
    <3>1. c.pos + i - 1 \in 0 .. z - 1
      BY <1>1, <2>2
    <3> QED BY <1>1, <2>2, <3>1
  <2> QED BY <2>1, <2>2
<1>4. ASSUME NEW a \in 0 .. Blocks - 1, ~c.eof, c.pos = a * DataLen, NEW i \in 1 .. DataLen
      PROVE  B(i) = c.bytes[a * DataLen + i - 1]
  <2>1. c.pos + DataLen <= z
    BY <1>4, BlocksApart, CardConstants DEF z
  <2>2. ~(c.pos + i > z)
    BY <1>1, <2>1
  <2> QED BY <1>1, <1>4, <2>2
<1> HIDE DEF B
<1>5. Block(c) \in BlockData
  BY <1>2, <1>3 DEF BlockData
<1>6. Block(c) \in Seq(Byte) /\ Len(Block(c)) = DataLen
  BY <1>1, <1>2, <1>3
<1> QED BY <1>2, <1>4, <1>5, <1>6

(* Reading moves the file's position by a block, and by no more than that  *)
(* changes the card.                                                       *)
LEMMA AfterBlockIs ==
    ASSUME NEW c \in HeldCards
    PROVE  /\ \E p \in Nat, e \in BOOLEAN : AfterBlock(c) = [c EXCEPT !.pos = p, !.eof = e]
           /\ \A a \in 0 .. Blocks - 1 :
                 ~c.eof /\ c.pos = a * DataLen =>
                     AfterBlock(c) = [c EXCEPT !.pos = (a + 1) * DataLen, !.eof = FALSE]
<1> DEFINE p == IF c.pos > Size(c) THEN c.pos ELSE Least(c.pos + DataLen, Size(c))
           e == c.pos + DataLen > Size(c)
           z == Blocks * DataLen
<1>1. c.pos \in Nat /\ Size(c) = z /\ z \in Nat /\ DataLen \in Nat /\ c.eof \in BOOLEAN
  BY HeldSize, CardConstants DEF HeldCards
<1> HIDE DEF z
<1>2. p \in Nat /\ e \in BOOLEAN
  BY <1>1 DEF Least
<1>3. AfterBlock(c) = IF c.eof THEN c ELSE [c EXCEPT !.pos = p, !.eof = e]
  BY CardConstants DEF AfterBlock
<1>4. ASSUME NEW a \in 0 .. Blocks - 1, ~c.eof, c.pos = a * DataLen
      PROVE  p = (a + 1) * DataLen /\ e = FALSE
  <2>1. c.pos + DataLen <= z /\ (a + 1) * DataLen = c.pos + DataLen
    BY <1>4, BlocksApart, CardConstants DEF z
  <2> QED BY <1>1, <2>1 DEF Least
<1> HIDE DEF p, e
<1>5. c = [c EXCEPT !.pos = c.pos, !.eof = c.eof]
  BY DEF HeldCards
<1> QED BY <1>1, <1>2, <1>3, <1>4, <1>5

(* An answer to an empty queue is what the queue holds then.               *)
LEMMA PushIs ==
    ASSUME NEW c, NEW bytes \in Seq(Byte), c.tx = <<>>, Len(bytes) < BufSize
    PROVE  Push(c, bytes) = [c EXCEPT !.tx = bytes]
<1>1. c.tx \o bytes = bytes /\ Len(c.tx) + Len(bytes) < BufSize
  OBVIOUS
<1> QED BY <1>1 DEF Push, Fits

-----------------------------------------------------------------------------
(* What a read sends.                                                      *)
LEMMA StreamAnswer ==
    ASSUME NEW d \in Seq(Byte), Len(d) = DataLen, NEW x \in Byte, NEW y \in Byte,
           NEW q, q = << 254 >> \o d \o <<x, y>>
    PROVE  q \in Seq(Byte) /\ Len(q) = DataLen + 3 /\ Carries(q, d)
<1>1. DataLen \in Nat /\ 254 \in Byte
  BY CardConstants, CardBytesAre
<1> DEFINE q1 == <<254>> \o d
<1>2. /\ <<254>> \in Seq(Byte) /\ Len(<<254>>) = 1 /\ <<254>>[1] = 254
      /\ <<x, y>> \in Seq(Byte) /\ Len(<<x, y>>) = 2
  BY <1>1
<1>3. /\ q1 \in Seq(Byte) /\ Len(q1) = 1 + DataLen
      /\ q1[1] = 254 /\ \A i \in 1 .. DataLen : q1[1 + i] = d[i]
  <2>1. /\ q1 \in Seq(Byte) /\ Len(q1) = Len(<<254>>) + Len(d)
        /\ \A i \in 1 .. Len(<<254>>) : q1[i] = <<254>>[i]
        /\ \A i \in 1 .. Len(d) : q1[Len(<<254>>) + i] = d[i]
    BY ONLY <1>2, JoinIs, d \in Seq(Byte)
  <2> QED BY <1>2, <2>1
<1> HIDE DEF q1
<1>4. /\ q \in Seq(Byte) /\ Len(q) = Len(q1) + 2
      /\ \A i \in 1 .. Len(q1) : q[i] = q1[i]
  <2>1. /\ q1 \o <<x, y>> \in Seq(Byte) /\ Len(q1 \o <<x, y>>) = Len(q1) + Len(<<x, y>>)
        /\ \A i \in 1 .. Len(q1) : (q1 \o <<x, y>>)[i] = q1[i]
    BY ONLY <1>2, <1>3, JoinIs
  <2>2. q = q1 \o <<x, y>>
    BY DEF q1
  <2> QED BY <1>2, <2>1, <2>2
<1>5. Len(q) = DataLen + 3
  BY <1>1, <1>3, <1>4
<1>6. Carries(q, d)
  <2> SUFFICES ASSUME NEW i \in 1 .. Len(q) - 2 PROVE q[i] = ReadByte(d, Len(q) - i)
      BY DEF Carries
  <2>1. i \in 1 .. Len(q1) /\ q[i] = q1[i]
    BY <1>1, <1>3, <1>4
  <2>2. CASE i = 1
    BY <1>1, <1>3, <1>5, <2>1, <2>2 DEF ReadByte
  <2>3. CASE i # 1
    <3>1. i - 1 \in 1 .. DataLen /\ 1 + (i - 1) = i
      BY <1>1, <1>5, <2>3
    <3>2. q1[i] = d[i - 1]
      BY <1>3, <3>1
    <3>3. ReadByte(d, Len(q) - i) = d[i - 1]
      BY <1>1, <1>5, <3>1 DEF ReadByte
    <3> QED BY <2>1, <3>2, <3>3
  <2> QED BY <2>2, <2>3
<1> QED BY <1>4, <1>5, <1>6

(* Taking a byte leaves the end of the answer what it was.                 *)
LEMMA CarryOn ==
    ASSUME NEW q \in Seq(Byte), NEW d, Carries(q, d), q # <<>>
    PROVE  Carries(Pop(q, 1), d)
<1>1. /\ Len(q) \in Nat /\ 1 <= Len(q) /\ Len(Pop(q, 1)) = Len(q) - 1
      /\ \A i \in 1 .. Len(q) - 1 : Pop(q, 1)[i] = q[1 + i]
  <2>1. Len(q) \in Nat /\ 1 <= Len(q)
    OBVIOUS
  <2> QED BY <2>1, PopIs
<1> SUFFICES ASSUME NEW i \in 1 .. Len(Pop(q, 1)) - 2
             PROVE  Pop(q, 1)[i] = ReadByte(d, Len(Pop(q, 1)) - i)
    BY DEF Carries
<1>2. 1 + i \in 1 .. Len(q) - 2 /\ Len(q) - (1 + i) = Len(Pop(q, 1)) - i
  BY <1>1
<1> QED BY <1>1, <1>2 DEF Carries

-----------------------------------------------------------------------------
(* One exchange, in a card that is not being written to.                   *)
LEMMA StreamIs ==
    ASSUME NEW c \in HeldCards, NEW crc \in StackBytes
    PROVE  /\ ~c.reading \/ c.tx # <<>> => Stream(c, crc) = c
           /\ \E t \in Seq(Byte), p \in Nat, e \in BOOLEAN :
                 Stream(c, crc) = [c EXCEPT !.tx = t, !.pos = p, !.eof = e]
           /\ \A a \in 0 .. Blocks - 1 :
                 c.reading /\ c.tx = <<>> /\ ~c.eof /\ c.pos = a * DataLen =>
                 \E t \in Seq(Byte) :
                    /\ Stream(c, crc) =
                          [c EXCEPT !.tx = t, !.pos = (a + 1) * DataLen, !.eof = FALSE]
                    /\ Len(t) = DataLen + 3 /\ Carries(t, Block(c))
<1> DEFINE t == <<254>> \o Block(c) \o <<crc, crc>>
           f == AfterBlock(c)
<1>1. t \in Seq(Byte) /\ Len(t) = DataLen + 3 /\ Carries(t, Block(c))
  <2>1. Block(c) \in Seq(Byte) /\ Len(Block(c)) = DataLen /\ crc \in Byte
    BY BlockIs, CardConstants
  <2> QED BY ONLY <2>1, StreamAnswer
<1>2. CASE ~c.reading \/ c.tx # <<>>
  <2>1. Stream(c, crc) = c
    BY <1>2 DEF Stream
  <2>2. c = [c EXCEPT !.tx = c.tx, !.pos = c.pos, !.eof = c.eof]
    BY DEF HeldCards
  <2>3. c.tx \in Seq(Byte) /\ c.pos \in Nat /\ c.eof \in BOOLEAN
    BY DEF HeldCards
  <2> QED BY <1>2, <2>1, <2>2, <2>3
<1>3. CASE c.reading /\ c.tx = <<>>
  <2>1. Stream(c, crc) = Push(f, t)
    BY <1>3 DEF Stream, BlockToken
  <2>2. PICK p \in Nat, e \in BOOLEAN : f = [c EXCEPT !.pos = p, !.eof = e]
    BY AfterBlockIs
  <2>3. f.tx = <<>>
    BY <1>3, <2>2 DEF HeldCards
  <2>4. Len(t) < BufSize
    BY <1>1, CardConstants
  <2> HIDE DEF f, t
  <2>5. Stream(c, crc) = [f EXCEPT !.tx = t]
    BY <1>1, <2>1, <2>3, <2>4, PushIs
  <2>6. Stream(c, crc) = [c EXCEPT !.tx = t, !.pos = p, !.eof = e]
    BY <2>2, <2>5 DEF HeldCards
  <2>7. ASSUME NEW a \in 0 .. Blocks - 1, ~c.eof, c.pos = a * DataLen
        PROVE  Stream(c, crc) = [c EXCEPT !.tx = t, !.pos = (a + 1) * DataLen, !.eof = FALSE]
    <3>1. f = [c EXCEPT !.pos = (a + 1) * DataLen, !.eof = FALSE]
      BY <2>7, AfterBlockIs DEF f
    <3> QED BY <2>5, <3>1 DEF HeldCards
  <2> QED BY <1>1, <1>3, <2>6, <2>7
<1> QED BY <1>2, <1>3

(* Nothing but the position and the queue is changed by a block sent.      *)
LEMMA StreamMoves ==
    ASSUME NEW c \in HeldCards, NEW crc \in StackBytes
    PROVE  \E t \in Seq(Byte), p \in Nat, e \in BOOLEAN :
              Stream(c, crc) = [c EXCEPT !.tx = t, !.pos = p, !.eof = e]
BY ONLY StreamIs, c \in HeldCards, crc \in StackBytes, Zenon

(* A block sent is the block at the position.                              *)
LEMMA StreamBlock ==
    ASSUME NEW c \in HeldCards, NEW crc \in StackBytes, NEW a \in 0 .. Blocks - 1,
           c.reading, c.tx = <<>>, ~c.eof, c.pos = a * DataLen
    PROVE  \E t \in Seq(Byte) :
              /\ Stream(c, crc) = [c EXCEPT !.tx = t, !.pos = (a + 1) * DataLen, !.eof = FALSE]
              /\ Len(t) = DataLen + 3 /\ Carries(t, Block(c))
BY ONLY StreamIs, c \in HeldCards, crc \in StackBytes, a \in 0 .. Blocks - 1,
        c.reading, c.tx = <<>>, ~c.eof, c.pos = a * DataLen, Zenon

(* The queues may hold any bytes, and the file may be anywhere.            *)
LEMMA HeldTx ==
    ASSUME NEW c \in HeldCards, NEW t \in Seq(Byte), NEW r \in Seq(Byte)
    PROVE  /\ [c EXCEPT !.tx = t] \in HeldCards
           /\ [c EXCEPT !.rx = r, !.tx = t] \in HeldCards
           /\ \A p \in Nat, e \in BOOLEAN : [c EXCEPT !.tx = t, !.pos = p, !.eof = e] \in HeldCards
BY DEF HeldCards

(* A fill byte that means nothing.                                         *)
LEMMA ExchangeFill ==
    ASSUME NEW c \in HeldCards, NEW crc \in StackBytes, c.writing = "no", c.rx = <<>>
    PROVE  /\ AfterExchange(c, 255, crc) = Stream([c EXCEPT !.tx = Pop(c.tx, 1)], crc)
           /\ ~c.reading \/ Len(c.tx) >= 2 =>
                 AfterExchange(c, 255, crc) = [c EXCEPT !.tx = Pop(c.tx, 1)]
<1> DEFINE d == [c EXCEPT !.tx = Pop(c.tx, 1)]
<1>1. c.tx \in Seq(Byte) /\ Pop(c.tx, 1) \in Seq(Byte) /\ <<>> \in Seq(Byte)
  <2>1. c.tx \in Seq(Byte)
    BY DEF HeldCards
  <2> QED BY <2>1, PopIs
<1>2. /\ d \in HeldCards /\ d.writing = "no" /\ d.rx = <<>> /\ d.tx = Pop(c.tx, 1)
      /\ d.reading = c.reading
  <2>1. d \in HeldCards
    BY <1>1, HeldTx
  <2> QED BY <2>1 DEF HeldCards
<1>3. AfterExchange(c, 255, crc) = ServeQueued(Stream(d, crc))
  <2>1. ~(c.rx # <<>> \/ c.writing # "no" \/ 255 < 128)
    OBVIOUS
  <2> QED BY <1>2, <2>1 DEF AfterExchange
<1> HIDE DEF d
<1>4. Stream(d, crc) \in HeldCards /\ Stream(d, crc).rx = <<>>
  <2>1. PICK t \in Seq(Byte), p \in Nat, e \in BOOLEAN :
           Stream(d, crc) = [d EXCEPT !.tx = t, !.pos = p, !.eof = e]
    BY <1>2, StreamIs
  <2>2. [d EXCEPT !.tx = t, !.pos = p, !.eof = e] \in HeldCards
    BY ONLY <1>2, <2>1, HeldTx, <1>1
  <2> QED BY <1>2, <2>1, <2>2 DEF HeldCards
<1>5. ServeQueued(Stream(d, crc)) = Stream(d, crc)
  <2>1. Len(Stream(d, crc).rx) < 6
    BY <1>4
  <2> QED BY <1>4, <2>1, ServeNone
<1>6. ASSUME ~c.reading \/ Len(c.tx) >= 2 PROVE Stream(d, crc) = d
  <2>1. ~c.reading \/ Pop(c.tx, 1) # <<>>
    <3>1. CASE Len(c.tx) >= 2
      <4>1. 1 <= Len(c.tx) /\ Len(c.tx) \in Nat
        BY <1>1, <3>1
      <4>2. Len(Pop(c.tx, 1)) = Len(c.tx) - 1
        BY <1>1, <4>1, PopIs
      <4>3. Len(Pop(c.tx, 1)) # 0
        BY <3>1, <4>1, <4>2
      <4> QED BY <4>3
    <3> QED BY <1>6, <3>1
  <2> QED BY <1>2, <2>1, StreamIs
<1> QED BY <1>3, <1>5, <1>6 DEF d

(* A byte of a command.                                                    *)
LEMMA ExchangeHeard ==
    ASSUME NEW c \in HeldCards, NEW crc \in StackBytes, NEW b \in Byte, c.writing = "no",
           c.rx # <<>> \/ b < 128, Len(c.rx) <= 5
    PROVE  \E t \in Seq(Byte), p \in Nat, e \in BOOLEAN :
             LET d == [c EXCEPT !.rx = Append(c.rx, b), !.tx = t, !.pos = p, !.eof = e]
             IN  /\ d \in HeldCards
                 /\ Len(c.rx) < 5 => AfterExchange(c, b, crc) = d
                 /\ Len(c.rx) = 5 /\ Append(c.rx, b)[1] < 128 =>
                       AfterExchange(c, b, crc) = ServeCommand(d)
                 /\ ~c.reading => t = Pop(c.tx, 1) /\ p = c.pos /\ e = c.eof
<1> DEFINE r == Append(c.rx, b)
           d == [c EXCEPT !.rx = r, !.tx = Pop(c.tx, 1)]
<1>1. /\ c.rx \in Seq(Byte) /\ c.tx \in Seq(Byte) /\ Pop(c.tx, 1) \in Seq(Byte)
      /\ r \in Seq(Byte) /\ Len(r) = Len(c.rx) + 1 /\ Len(c.rx) \in Nat
  <2>1. c.tx \in Seq(Byte) /\ c.rx \in Seq(Byte)
    BY DEF HeldCards
  <2>2. Pop(c.tx, 1) \in Seq(Byte)
    BY <2>1, PopIs
  <2> QED BY <2>1, <2>2
<1>2. Take(c, b) = [c EXCEPT !.rx = r]
  <2>1. Len(c.rx) + 1 < BufSize
    <3>1. BufSize \in Nat /\ BufSize > 6
      BY CardConstants
    <3>2. Len(c.rx) \in Nat /\ Len(c.rx) <= 5
      BY <1>1
    <3> QED BY ONLY <3>1, <3>2
  <2> HIDE DEF r
  <2> QED BY ONLY <2>1, Zenon DEF Take, Fits, r
<1> HIDE DEF r
<1>3. /\ d \in HeldCards /\ d.writing = "no" /\ d.rx = r /\ d.tx = Pop(c.tx, 1)
      /\ d.reading = c.reading /\ d.pos = c.pos /\ d.eof = c.eof
  <2>1. d \in HeldCards
    BY <1>1, HeldTx
  <2> QED BY <2>1 DEF HeldCards
<1>4. AfterExchange(c, b, crc) = ServeQueued(Stream(d, crc))
  <2> DEFINE x == [c EXCEPT !.rx = r]
  <2>2. x.tx = c.tx
    BY DEF HeldCards
  <2>3. [x EXCEPT !.tx = Pop(c.tx, 1)] = d
    OBVIOUS
  <2> HIDE DEF d
  <2>1. [Take(c, b) EXCEPT !.tx = Pop(Take(c, b).tx, 1)] = d
    BY ONLY <1>2, <2>2, <2>3
  <2> QED BY <1>3, <2>1 DEF AfterExchange
<1> HIDE DEF d
<1>5. PICK t \in Seq(Byte), p \in Nat, e \in BOOLEAN :
         /\ Stream(d, crc) = [d EXCEPT !.tx = t, !.pos = p, !.eof = e]
         /\ ~c.reading => t = Pop(c.tx, 1) /\ p = c.pos /\ e = c.eof
  <2>1. CASE c.reading
    <3>1. \E t \in Seq(Byte), p \in Nat, e \in BOOLEAN :
             Stream(d, crc) = [d EXCEPT !.tx = t, !.pos = p, !.eof = e]
      BY <1>3, StreamMoves
    <3> QED BY ONLY <2>1, <3>1, Zenon
  <2>2. CASE ~c.reading
    <3>1. Stream(d, crc) = d
      BY <1>3, <2>2, StreamIs
    <3>2. d = [d EXCEPT !.tx = d.tx, !.pos = d.pos, !.eof = d.eof]
      BY <1>3 DEF HeldCards
    <3>3. d.tx \in Seq(Byte) /\ d.pos \in Nat /\ d.eof \in BOOLEAN
      BY <1>3 DEF HeldCards
    <3>4. d.tx = Pop(c.tx, 1) /\ d.pos = c.pos /\ d.eof = c.eof
      BY <1>3
    <3>5. Stream(d, crc) = [d EXCEPT !.tx = d.tx, !.pos = d.pos, !.eof = d.eof]
      BY ONLY <3>1, <3>2
    <3> QED BY ONLY <3>3, <3>4, <3>5, Zenon
  <2> QED BY <2>1, <2>2
<1> DEFINE s == [c EXCEPT !.rx = r, !.tx = t, !.pos = p, !.eof = e]
<1>6. Stream(d, crc) = s
  BY <1>5 DEF d, HeldCards
<1>7. s \in HeldCards /\ s.rx = r
  BY <1>1 DEF HeldCards
<1> HIDE DEF s
<1>8. ASSUME Len(c.rx) < 5 PROVE ServeQueued(s) = s
  <2>1. Len(s.rx) < 6
    BY <1>1, <1>7, <1>8
  <2> QED BY <1>7, <2>1, ServeNone
<1>9. ASSUME Len(c.rx) = 5, r[1] < 128 PROVE ServeQueued(s) = ServeCommand(s)
  <2>1. Len(s.rx) = 6 /\ s.rx[1] < 128
    BY <1>1, <1>7, <1>9
  <2> QED BY <1>7, <2>1, ServeSix
<1> WITNESS t \in Seq(Byte), p \in Nat, e \in BOOLEAN
<1> QED BY ONLY <1>4, <1>5, <1>6, <1>7, <1>8, <1>9, Zenon DEF r, s

-----------------------------------------------------------------------------
(* A command's bytes spell its argument.                                   *)
LEMMA Digits ==
    ASSUME NEW a \in Nat
    PROVE  a = 256 * (a \div 256) + (a % 256) /\ a \div 256 \in Nat /\ a % 256 \in 0 .. 255
OBVIOUS

(* Bytes behind other bytes, as JoinIs.                                    *)
LEMMA JoinBytes ==
    ASSUME NEW q \in Seq(Byte), NEW w \in Seq(Byte)
    PROVE  /\ q \o w \in Seq(Byte) /\ Len(q \o w) = Len(q) + Len(w)
           /\ \A i \in 1 .. Len(q) : (q \o w)[i] = q[i]
           /\ \A i \in 1 .. Len(w) : (q \o w)[Len(q) + i] = w[i]
BY JoinIs

(* A frame as it was put together; its argument has 32 bits.               *)
Framed(f, cmd, a) ==
    /\ f \in Seq(Byte) /\ Len(f) = 6 /\ f[1] = 64 + cmd /\ f[1] % 64 = cmd
    /\ \A i \in 1 .. 6 : f[i] \in Byte
    /\ 16777216 * f[2] + 65536 * f[3] + 256 * f[4] + f[5] = a
Wide(a) == (a \div 256) \div 256 < 65536

(* The host's frame spells the command and its argument.                   *)
LEMMA FrameIs ==
    ASSUME NEW cmd \in 0 .. 63, NEW a \in Nat, Wide(a)
    PROVE  Framed(Frame(cmd, a), cmd, a)
<1> DEFINE h == a \div 256
           q == h \div 256
           f == Frame(cmd, a)
<1>1. f = <<64 + cmd, q \div 256, q % 256, h % 256, a % 256, 149>>
  BY DEF Frame
<1>2. a = 256 * h + (a % 256) /\ h \in Nat /\ a % 256 \in 0 .. 255
  BY Digits
<1>3. h = 256 * q + (h % 256) /\ q \in Nat /\ h % 256 \in 0 .. 255
  BY <1>2, Digits
<1>4. q = 256 * (q \div 256) + (q % 256) /\ q \div 256 \in Nat /\ q % 256 \in 0 .. 255
  BY <1>3, Digits
<1>5. q < 65536
  BY DEF Wide
<1> HIDE DEF h, q, f
<1>6. q \div 256 \in 0 .. 255
  <2>1. q \in Nat
    BY <1>3
  <2> QED BY ONLY <1>5, <2>1
<1>7. 64 + cmd \in Byte /\ (64 + cmd) % 64 = cmd
  BY DEF Byte
<1>8. \A i \in 1 .. 6 : f[i] \in Byte
  BY <1>1, <1>2, <1>3, <1>4, <1>6, <1>7 DEF Byte
<1>9. f \in Seq(Byte) /\ Len(f) = 6
  <2>1. {64 + cmd, q \div 256, q % 256, h % 256, a % 256, 149} \subseteq Byte
    BY <1>2, <1>3, <1>4, <1>6, <1>7 DEF Byte
  <2> QED BY <1>1, <2>1
<1>10. 16777216 * (q \div 256) + 65536 * (q % 256) + 256 * (h % 256) + (a % 256) = a
  <2>1. 65536 * q = 16777216 * (q \div 256) + 65536 * (q % 256)
    BY <1>4
  <2>2. 256 * h = 65536 * q + 256 * (h % 256)
    BY <1>3
  <2> QED BY <1>2, <1>3, <1>4, <2>1, <2>2
<1>11. f[1] = 64 + cmd /\ f[1] % 64 = cmd
  BY ONLY <1>1, <1>7
<1>12. 16777216 * f[2] + 65536 * f[3] + 256 * f[4] + f[5] = a
  BY ONLY <1>1, <1>10
<1> QED BY ONLY <1>8, <1>9, <1>11, <1>12 DEF Framed, f

(* What a read answers: fill bytes, a token, the block.                    *)
LEMMA ReadAnswerCarries ==
    ASSUME NEW d \in Seq(Byte), Len(d) = DataLen, NEW q \in Seq(Byte),
           Len(q) = ReadDelay + DataLen + 3,
           \A i \in 2 .. ReadDelay : q[i] = 255,
           q[ReadDelay + 1] = 254,
           \A i \in 1 .. DataLen : q[ReadDelay + 1 + i] = d[i]
    PROVE  Carries(Pop(q, 1), d)
<1>1. DataLen \in Nat /\ ReadDelay \in Nat \ {0}
  BY CardConstants
<1> DEFINE w == Pop(q, 1)
           l == ReadDelay + DataLen + 2
<1>2. w \in Seq(Byte) /\ Len(w) = l /\ \A i \in 1 .. l : w[i] = q[1 + i]
  <2>1. 1 <= Len(q) /\ Len(q) - 1 = l
    BY <1>1
  <2> HIDE DEF l
  <2> QED BY ONLY <2>1, PopIs, 1 \in Nat, q \in Seq(Byte)
<1> HIDE DEF w
<1>3. ASSUME NEW i \in 1 .. l - 2 PROVE w[i] = ReadByte(d, l - i)
  <2>0. i \in Nat /\ i >= 1 /\ i <= ReadDelay + DataLen
    BY <1>1
  <2>1. w[i] = q[1 + i]
    <3>1. i \in 1 .. l
      BY <1>1, <2>0
    <3> HIDE DEF l
    <3> QED BY ONLY <1>2, <3>1
  <2>2. CASE i < ReadDelay
    <3>1. 1 + i \in 2 .. ReadDelay /\ l - i > DataLen + 2
      BY ONLY <1>1, <2>0, <2>2
    <3> HIDE DEF l
    <3>2. ReadByte(d, l - i) = 255
      BY ONLY <3>1 DEF ReadByte
    <3> QED BY <2>1, <3>1, <3>2
  <2>3. CASE i = ReadDelay
    <3>1. 1 + i = ReadDelay + 1 /\ l - i = DataLen + 2 /\ ~(DataLen + 2 > DataLen + 2)
      BY ONLY <1>1, <2>0, <2>3
    <3> HIDE DEF l
    <3>2. ReadByte(d, l - i) = 254
      BY ONLY <3>1 DEF ReadByte
    <3> QED BY <2>1, <3>1, <3>2
  <2>4. CASE i > ReadDelay
    <3>1. /\ i - ReadDelay \in 1 .. DataLen /\ ReadDelay + 1 + (i - ReadDelay) = 1 + i
          /\ ~(l - i > DataLen + 2) /\ l - i # DataLen + 2
          /\ DataLen + 2 - (l - i) = i - ReadDelay
      BY ONLY <1>1, <2>0, <2>4
    <3> HIDE DEF l
    <3>2. ReadByte(d, l - i) = d[i - ReadDelay]
      BY ONLY <3>1 DEF ReadByte
    <3> QED BY <2>1, <3>1, <3>2
  <2> QED BY ONLY <1>1, <2>0, <2>2, <2>3, <2>4
<1> HIDE DEF l
<1>4. Carries(w, d)
  BY ONLY <1>2, <1>3 DEF Carries
<1> QED BY <1>4 DEF w

(* The answer to a read: a status, fill bytes, the token, the block and    *)
(* two bytes for the CRC.                                                  *)
LEMMA ReadAnswerIs ==
    ASSUME NEW d \in Seq(Byte), Len(d) = DataLen, NEW s \in {0, 1}
    PROVE  LET q == <<s>> \o Fill(ReadDelay - 1, FillByte) \o <<BlockToken>> \o d
                    \o <<FillByte, FillByte>>
           IN  /\ q \in Seq(Byte) /\ Len(q) = ReadDelay + DataLen + 3
               /\ q[1] = s /\ Carries(Pop(q, 1), d)
<1>1. /\ DataLen \in Nat /\ ReadDelay \in Nat \ {0} /\ 254 \in Byte /\ 255 \in Byte /\ s \in Byte
  BY CardConstants, CardBytesAre
<1> DEFINE fill == [i \in 1 .. ReadDelay - 1 |-> 255]
           a1 == <<s>>
           a2 == <<254>>
           a3 == <<255, 255>>
           q1 == a1 \o fill
           q2 == q1 \o a2
           q3 == q2 \o d
           q == q3 \o a3
<1>2. q = <<s>> \o Fill(ReadDelay - 1, FillByte) \o <<BlockToken>> \o d \o <<FillByte, FillByte>>
  BY DEF Fill, FillByte, BlockToken
<1>3. fill \in Seq(Byte) /\ Len(fill) = ReadDelay - 1 /\ \A i \in 1 .. ReadDelay - 1 : fill[i] = 255
  BY <1>1
<1>4. /\ a1 \in Seq(Byte) /\ Len(a1) = 1 /\ a1[1] = s
      /\ a2 \in Seq(Byte) /\ Len(a2) = 1 /\ a2[1] = 254
      /\ a3 \in Seq(Byte) /\ Len(a3) = 2
  BY <1>1
<1> HIDE DEF fill, a1, a2, a3
<1>5. /\ q1 \in Seq(Byte) /\ Len(q1) = ReadDelay /\ q1[1] = s
      /\ \A i \in 2 .. ReadDelay : q1[i] = 255
  <2>0. a1 \in Seq(Byte) /\ fill \in Seq(Byte)
    BY <1>3, <1>4
  <2>1. /\ q1 \in Seq(Byte) /\ Len(q1) = Len(a1) + Len(fill)
        /\ \A i \in 1 .. Len(a1) : q1[i] = a1[i]
        /\ \A i \in 1 .. Len(fill) : q1[Len(a1) + i] = fill[i]
    BY ONLY <2>0, JoinBytes, Zenon
  <2> HIDE DEF q1
  <2>2. ASSUME NEW i \in 2 .. ReadDelay PROVE q1[i] = 255
    <3>1. i - 1 \in 1 .. ReadDelay - 1 /\ 1 + (i - 1) = i
      BY <1>1
    <3> QED BY <1>3, <1>4, <2>1, <3>1
  <2> QED BY <1>1, <1>3, <1>4, <2>1, <2>2
<1> HIDE DEF q1
<1>6. /\ q2 \in Seq(Byte) /\ Len(q2) = ReadDelay + 1 /\ q2[ReadDelay + 1] = 254
      /\ \A i \in 1 .. ReadDelay : q2[i] = q1[i]
  <2>0. q1 \in Seq(Byte) /\ a2 \in Seq(Byte)
    BY <1>5, <1>4
  <2>1. /\ q2 \in Seq(Byte) /\ Len(q2) = Len(q1) + Len(a2)
        /\ \A i \in 1 .. Len(q1) : q2[i] = q1[i]
        /\ \A i \in 1 .. Len(a2) : q2[Len(q1) + i] = a2[i]
    BY ONLY <2>0, JoinBytes, Zenon
  <2> HIDE DEF q2
  <2> QED BY <1>1, <1>4, <1>5, <2>1
<1> HIDE DEF q2
<1>7. /\ q3 \in Seq(Byte) /\ Len(q3) = ReadDelay + 1 + DataLen
      /\ \A i \in 1 .. ReadDelay + 1 : q3[i] = q2[i]
      /\ \A i \in 1 .. DataLen : q3[ReadDelay + 1 + i] = d[i]
  <2>0. q2 \in Seq(Byte) /\ d \in Seq(Byte)
    BY <1>6
  <2>1. /\ q3 \in Seq(Byte) /\ Len(q3) = Len(q2) + Len(d)
        /\ \A i \in 1 .. Len(q2) : q3[i] = q2[i]
        /\ \A i \in 1 .. Len(d) : q3[Len(q2) + i] = d[i]
    BY ONLY <2>0, JoinBytes, Zenon
  <2> HIDE DEF q3
  <2> QED BY <1>1, <1>6, <2>1
<1> HIDE DEF q3
<1>8. /\ q \in Seq(Byte) /\ Len(q) = ReadDelay + DataLen + 3
      /\ \A i \in 1 .. ReadDelay + 1 + DataLen : q[i] = q3[i]
  <2>0. q3 \in Seq(Byte) /\ a3 \in Seq(Byte)
    BY <1>7, <1>4
  <2>1. /\ q \in Seq(Byte)
        /\ Len(q) = Len(q3) + Len(a3)
        /\ \A i \in 1 .. Len(q3) : q[i] = q3[i]
    BY ONLY <2>0, JoinBytes, Zenon
  <2> HIDE DEF q
  <2> QED BY <1>1, <1>4, <1>7, <2>1
<1> HIDE DEF q
<1>9. q[1] = s
  <2>1. 1 \in 1 .. ReadDelay /\ 1 \in 1 .. ReadDelay + 1 /\ 1 \in 1 .. ReadDelay + 1 + DataLen
    BY <1>1
  <2> QED BY <1>5, <1>6, <1>7, <1>8, <2>1
<1>10. /\ \A i \in 2 .. ReadDelay : q[i] = 255
       /\ q[ReadDelay + 1] = 254
       /\ \A i \in 1 .. DataLen : q[ReadDelay + 1 + i] = d[i]
  <2>1. ASSUME NEW i \in 2 .. ReadDelay PROVE q[i] = 255
    <3>1. i \in 1 .. ReadDelay /\ i \in 1 .. ReadDelay + 1 /\ i \in 1 .. ReadDelay + 1 + DataLen
      BY <1>1
    <3> QED BY <1>5, <1>6, <1>7, <1>8, <3>1
  <2>2. q[ReadDelay + 1] = 254
    <3>1. ReadDelay + 1 \in 1 .. ReadDelay + 1 /\ ReadDelay + 1 \in 1 .. ReadDelay + 1 + DataLen
      BY <1>1
    <3> QED BY <1>6, <1>7, <1>8, <3>1
  <2>3. ASSUME NEW i \in 1 .. DataLen PROVE q[ReadDelay + 1 + i] = d[i]
    <3>1. ReadDelay + 1 + i \in 1 .. ReadDelay + 1 + DataLen
      BY <1>1
    <3> QED BY <1>7, <1>8, <3>1
  <2> QED BY <2>1, <2>2, <2>3
<1>11. Carries(Pop(q, 1), d)
  BY ONLY <1>8, <1>10, ReadAnswerCarries, d \in Seq(Byte), Len(d) = DataLen, Zenon
<1> QED BY ONLY <1>2, <1>8, <1>9, <1>11, Zenon

(* The bytes of the answer to a stop, told from its end.                   *)
LEMMA StopAnswerEnds ==
    ASSUME NEW q \in Seq(Byte), Len(q) = StopBusy + 4, q[1] = 255, q[2] = 255,
           \A i \in 3 .. StopBusy + 3 : q[i] = 0, q[StopBusy + 4] = 255
    PROVE  EndsStop(q)
<1>1. StopBusy \in Nat
  BY CardConstants
<1> SUFFICES ASSUME NEW i \in 1 .. Len(q)
             PROVE  q[i] = StopByte(Len(q) - i)
    BY DEF EndsStop
<1>2. CASE i = StopBusy + 4
  BY <1>1, <1>2 DEF StopByte
<1>3. CASE i \in 3 .. StopBusy + 3
  <2>1. Len(q) - i \in 1 .. StopBusy + 1
    BY <1>1, <1>3
  <2>2. StopByte(Len(q) - i) = 0
    BY ONLY <1>1, <2>1 DEF StopByte
  <2> QED BY <1>3, <2>2
<1>4. CASE i \in {1, 2}
  <2>1. Len(q) - i > StopBusy + 1 /\ Len(q) - i \in Nat
    BY <1>1, <1>4
  <2>2. StopByte(Len(q) - i) = 255
    BY ONLY <1>1, <2>1 DEF StopByte
  <2> QED BY <1>4, <2>2
<1>5. i = StopBusy + 4 \/ i \in 3 .. StopBusy + 3 \/ i \in {1, 2}
  BY ONLY <1>1, i \in 1 .. Len(q), Len(q) = StopBusy + 4
<1> QED BY ONLY <1>2, <1>3, <1>4, <1>5, Zenon

(* The answer to a stop: two fill bytes, a status, the busy bytes and a    *)
(* fill byte.                                                              *)
LEMMA StopAnswerIs ==
    LET q == <<255, 255, 0>> \o Fill(StopBusy, 0) \o <<255>>
    IN  q \in Seq(Byte) /\ Len(q) = StopBusy + 4 /\ EndsStop(q)
<1>1. StopBusy \in Nat /\ 0 \in Byte /\ 255 \in Byte
  BY CardConstants, CardBytesAre
<1> DEFINE zeros == [i \in 1 .. StopBusy |-> 0]
           a1 == <<255, 255, 0>>
           a2 == <<255>>
           q1 == a1 \o zeros
           q == q1 \o a2
<1>2. q = <<255, 255, 0>> \o Fill(StopBusy, 0) \o <<255>>
  BY DEF Fill
<1>3. zeros \in Seq(Byte) /\ Len(zeros) = StopBusy /\ \A i \in 1 .. StopBusy : zeros[i] = 0
  BY <1>1
<1>4. /\ a1 \in Seq(Byte) /\ Len(a1) = 3 /\ a1[1] = 255 /\ a1[2] = 255 /\ a1[3] = 0
      /\ a2 \in Seq(Byte) /\ Len(a2) = 1 /\ a2[1] = 255
  BY <1>1
<1> HIDE DEF zeros, a1, a2
<1>5. /\ q1 \in Seq(Byte) /\ Len(q1) = 3 + StopBusy
      /\ q1[1] = 255 /\ q1[2] = 255 /\ \A i \in 3 .. StopBusy + 3 : q1[i] = 0
  <2>0. a1 \in Seq(Byte) /\ zeros \in Seq(Byte)
    BY <1>3, <1>4
  <2>1. /\ q1 \in Seq(Byte) /\ Len(q1) = Len(a1) + Len(zeros)
        /\ \A i \in 1 .. Len(a1) : q1[i] = a1[i]
        /\ \A i \in 1 .. Len(zeros) : q1[Len(a1) + i] = zeros[i]
    BY ONLY <2>0, JoinBytes, Zenon
  <2> HIDE DEF q1
  <2>2. ASSUME NEW i \in 4 .. StopBusy + 3 PROVE q1[i] = 0
    <3>1. i - 3 \in 1 .. StopBusy /\ 3 + (i - 3) = i
      BY <1>1
    <3> QED BY <1>3, <1>4, <2>1, <3>1
  <2>3. q1[1] = 255 /\ q1[2] = 255 /\ q1[3] = 0 /\ Len(q1) = 3 + StopBusy /\ q1 \in Seq(Byte)
    BY <1>3, <1>4, <2>1
  <2>4. \A i \in 3 .. StopBusy + 3 : i = 3 \/ i \in 4 .. StopBusy + 3
    BY <1>1
  <2> QED BY <2>2, <2>3, <2>4
<1> HIDE DEF q1
<1>6. /\ q \in Seq(Byte) /\ Len(q) = StopBusy + 4
      /\ \A i \in 1 .. StopBusy + 3 : q[i] = q1[i]
      /\ q[StopBusy + 4] = 255
  <2>0. q1 \in Seq(Byte) /\ a2 \in Seq(Byte)
    BY <1>5, <1>4
  <2>1. /\ q \in Seq(Byte) /\ Len(q) = Len(q1) + Len(a2)
        /\ \A i \in 1 .. Len(q1) : q[i] = q1[i]
        /\ \A i \in 1 .. Len(a2) : q[Len(q1) + i] = a2[i]
    BY ONLY <2>0, JoinBytes, Zenon
  <2> HIDE DEF q
  <2>2. Len(q1) = StopBusy + 3 /\ Len(q1) + 1 = StopBusy + 4
    BY <1>1, <1>5
  <2> QED BY <1>4, <2>1, <2>2
<1> HIDE DEF q
<1>7. /\ q[1] = 255 /\ q[2] = 255 /\ \A i \in 3 .. StopBusy + 3 : q[i] = 0
  <2>1. /\ 1 \in 1 .. StopBusy + 3 /\ 2 \in 1 .. StopBusy + 3
        /\ \A i \in 3 .. StopBusy + 3 : i \in 1 .. StopBusy + 3
    BY <1>1
  <2> QED BY <1>5, <1>6, <2>1
<1>8. EndsStop(q)
  BY ONLY <1>6, <1>7, StopAnswerEnds, Zenon
<1> QED BY ONLY <1>2, <1>6, <1>8, Zenon

-----------------------------------------------------------------------------
(* A command that has come whole, in a card with nothing left to send.     *)
BlockOf(c, a) == [i \in 1 .. DataLen |-> c.bytes[a * DataLen + i - 1]]

(* The card behind each kind of command, with the bytes of its answer.     *)
Answered(c, t, s) == [c EXCEPT !.rx = <<>>, !.tx = t, !.status = s]
Stopped(c, t) == [c EXCEPT !.rx = <<>>, !.tx = t, !.reading = FALSE]
SetToRead(c, t, cmd, a) ==
    [c EXCEPT !.rx = <<>>, !.tx = t, !.reading = (cmd = 18),
              !.pos = (a + 1) * DataLen, !.eof = FALSE]
SetToWrite(c, cmd, a) ==
    [c EXCEPT !.rx = <<>>, !.tx = <<c.status>>,
              !.writing = IF cmd = 25 THEN "multiple" ELSE "single", !.pos = a, !.eof = FALSE]

(* Six bytes are dropped with the command.                                 *)
LEMMA WithoutCommand ==
    ASSUME NEW c \in HeldCards, Len(c.rx) = 6
    PROVE  [c EXCEPT !.rx = Pop(c.rx, 6)] = [c EXCEPT !.rx = <<>>]
<1>1. c.rx \in Seq(Byte)
  BY DEF HeldCards
<1>2. Pop(c.rx, 6) = <<>>
  <2>1. 6 \in Nat /\ 6 >= Len(c.rx)
    OBVIOUS
  <2> QED BY ONLY <1>1, <2>1, PopIs
<1> QED BY <1>2

(* A command that neither reads, writes nor stops is answered with a       *)
(* status or five bytes, and changes nothing else of the card but its      *)
(* status.                                                                 *)
LEMMA ServedPlain ==
    ASSUME NEW c \in HeldCards, c.tx = <<>>, Len(c.rx) = 6,
           Command(c) \notin {12, 17, 18, 24, 25}
    PROVE  \E t \in Seq(Byte), s \in {0, 1} :
              /\ ServeCommand(c) = Answered(c, t, s)
              /\ Len(t) = (IF Command(c) = 8 THEN 5 ELSE 1) /\ t[1] # 255
<1> DEFINE d == [c EXCEPT !.rx = Pop(c.rx, 6)]
           e == [c EXCEPT !.rx = <<>>]
           cmd == Command(c)
<1>1. d = e
  BY WithoutCommand
<1>2. /\ c.status \in {0, 1} /\ c.rx \in Seq(Byte) /\ c.rx[5] \in Byte
      /\ \A n \in {0, 4, 64} : c.status + n \in Byte /\ c.status + n # 255
  <2>1. c.status \in {0, 1} /\ c.rx \in Seq(Byte)
    BY DEF HeldCards
  <2>2. \A s \in {0, 1}, n \in {0, 4, 64} : s + n \in Byte /\ s + n # 255
    BY DEF Byte
  <2>3. c.rx[5] \in Byte
    BY <2>1
  <2>4. \A n \in {0, 4, 64} : c.status + n \in Byte /\ c.status + n # 255
    BY ONLY <2>1, <2>2
  <2> QED BY ONLY <2>1, <2>3, <2>4
<1>3. e.tx = <<>> /\ \A s : [e EXCEPT !.status = s].tx = <<>>
  BY DEF HeldCards
<1> HIDE DEF d, e, cmd
<1>4. CASE cmd = 0
  <2>1. ServeCommand(c) = Push([e EXCEPT !.status = 1], <<1>>)
    BY <1>1, <1>4 DEF ServeCommand, d, cmd
  <2>2. <<1>> \in Seq(Byte) /\ Len(<<1>>) < BufSize
    BY CardConstants DEF Byte
  <2>3. ServeCommand(c) = [[e EXCEPT !.status = 1] EXCEPT !.tx = <<1>>]
    <3> DEFINE g == [e EXCEPT !.status = 1]
    <3>1. g.tx = <<>>
      BY ONLY <1>3, Zenon
    <3> HIDE DEF g
    <3>2. Push(g, <<1>>) = [g EXCEPT !.tx = <<1>>]
      BY ONLY <2>2, <3>1, PushIs, Zenon
    <3> QED BY ONLY <2>1, <3>2 DEF g
  <2>4. ServeCommand(c) = Answered(c, <<1>>, 1)
    BY <2>3 DEF e, HeldCards, Answered
  <2>5. /\ Len(<<1>>) = 1 /\ <<1>>[1] # 255 /\ 1 \in {0, 1}
        /\ Len(<<1>>) = (IF Command(c) = 8 THEN 5 ELSE 1)
    BY <1>4 DEF cmd
  <2> QED BY ONLY <2>2, <2>4, <2>5
<1>5. CASE cmd = 1
  <2>1. ServeCommand(c) = Push([e EXCEPT !.status = 0], <<0>>)
    BY <1>1, <1>5 DEF ServeCommand, d, cmd
  <2>2. <<0>> \in Seq(Byte) /\ Len(<<0>>) < BufSize
    BY CardConstants DEF Byte
  <2>3. ServeCommand(c) = [[e EXCEPT !.status = 0] EXCEPT !.tx = <<0>>]
    <3> DEFINE g == [e EXCEPT !.status = 0]
    <3>1. g.tx = <<>>
      BY ONLY <1>3, Zenon
    <3> HIDE DEF g
    <3>2. Push(g, <<0>>) = [g EXCEPT !.tx = <<0>>]
      BY ONLY <2>2, <3>1, PushIs, Zenon
    <3> QED BY ONLY <2>1, <3>2 DEF g
  <2>4. ServeCommand(c) = Answered(c, <<0>>, 0)
    BY <2>3 DEF e, HeldCards, Answered
  <2>5. /\ Len(<<0>>) = 1 /\ <<0>>[1] # 255 /\ 0 \in {0, 1}
        /\ Len(<<0>>) = (IF Command(c) = 8 THEN 5 ELSE 1)
    BY <1>5 DEF cmd
  <2> QED BY ONLY <2>2, <2>4, <2>5
<1>6. ASSUME NEW t \in Seq(Byte), Len(t) = (IF cmd = 8 THEN 5 ELSE 1), t[1] # 255,
             ServeCommand(c) = Push(e, t)
      PROVE  \E u \in Seq(Byte), s \in {0, 1} :
                /\ ServeCommand(c) = Answered(c, u, s)
                /\ Len(u) = (IF Command(c) = 8 THEN 5 ELSE 1) /\ u[1] # 255
  <2>1. Len(t) < BufSize
    BY <1>6, CardConstants
  <2>2. ServeCommand(c) = [e EXCEPT !.tx = t]
    <3>1. e.tx = <<>>
      BY <1>3
    <3>2. ServeCommand(c) = Push(e, t)
      BY <1>6
    <3>3. Push(e, t) = [e EXCEPT !.tx = t]
      BY ONLY <2>1, <3>1, t \in Seq(Byte), PushIs, Zenon
    <3> QED BY ONLY <3>2, <3>3
  <2>3. ServeCommand(c) = Answered(c, t, c.status)
    BY <2>2 DEF e, HeldCards, Answered
  <2>4. c.status \in {0, 1}
    BY <1>2
  <2>5. Len(t) = (IF Command(c) = 8 THEN 5 ELSE 1) /\ t[1] # 255
    BY ONLY <1>6 DEF cmd
  <2> QED BY ONLY <2>3, <2>4, <2>5, t \in Seq(Byte)
<1>7. CASE cmd = 8
  <2> DEFINE t == <<c.status, 0, 0, 1, c.rx[5]>>
  <2>1. ServeCommand(c) = Push(e, t)
    BY <1>1, <1>7 DEF ServeCommand, d, cmd
  <2>2. t \in Seq(Byte) /\ Len(t) = 5 /\ t[1] # 255
    BY <1>2 DEF Byte
  <2> HIDE DEF t
  <2> QED BY ONLY <1>6, <1>7, <2>1, <2>2
<1>8. CASE cmd \notin {0, 1, 8}
  <2>1. PICK x \in {0, 4, 64} : ServeCommand(c) = Push(e, <<c.status + x>>)
    <3>1. CASE cmd = 16
      BY <1>1, <3>1 DEF ServeCommand, d, cmd, ParameterError
    <3>2. CASE cmd # 16
      BY <1>1, <1>8, <3>2 DEF ServeCommand, d, cmd, IllegalCommand
    <3> QED BY <3>1, <3>2
  <2> DEFINE t == <<c.status + x>>
  <2>2. t \in Seq(Byte) /\ Len(t) = 1 /\ t[1] # 255
    BY <1>2
  <2>3. ServeCommand(c) = Push(e, t)
    BY <2>1
  <2> HIDE DEF t
  <2> QED BY ONLY <1>6, <1>8, <2>3, <2>2
<1> QED BY ONLY <1>4, <1>5, <1>7, <1>8, Zenon

(* A stop ends the read, with its answer in place of what was left to      *)
(* send.                                                                   *)
LEMMA ServedStop ==
    ASSUME NEW c \in HeldCards, Len(c.rx) = 6, Command(c) = 12
    PROVE  \E t \in Seq(Byte) :
              /\ ServeCommand(c) = Stopped(c, t)
              /\ Len(t) = StopBusy + 4 /\ EndsStop(t)
<1> DEFINE e == [c EXCEPT !.rx = <<>>, !.reading = FALSE, !.tx = <<>>]
           t == <<255, 255, 0>> \o Fill(StopBusy, 0) \o <<255>>
<1>1. t \in Seq(Byte) /\ Len(t) = StopBusy + 4 /\ EndsStop(t)
  BY StopAnswerIs, Zenon
<1>2. ServeCommand(c) = Push(e, t)
  <2>1. ServeCommand(c)
            = Push([[c EXCEPT !.rx = Pop(c.rx, 6)] EXCEPT !.reading = FALSE, !.tx = <<>>], t)
    BY DEF ServeCommand
  <2>2. [[c EXCEPT !.rx = Pop(c.rx, 6)] EXCEPT !.reading = FALSE, !.tx = <<>>] = e
    BY WithoutCommand
  <2> QED BY <2>1, <2>2
<1>3. e.tx = <<>>
  BY DEF HeldCards
<1>4. Len(t) < BufSize
  BY <1>1, CardConstants
<1> HIDE DEF e, t
<1>5. ServeCommand(c) = [e EXCEPT !.tx = t]
  BY <1>1, <1>2, <1>3, <1>4, PushIs
<1>6. ServeCommand(c) = Stopped(c, t)
  BY <1>5 DEF e, HeldCards, Stopped
<1> QED BY <1>1, <1>6

(* A read is answered with its first block, and the file is behind it.     *)
LEMMA ServedRead ==
    ASSUME NEW c \in HeldCards, c.tx = <<>>, ~c.reading, Len(c.rx) = 6,
           NEW cmd \in {17, 18}, Command(c) = cmd,
           NEW a \in 0 .. Blocks - 1, Argument(c) = a * DataLen
    PROVE  \E t \in Seq(Byte) :
              /\ ServeCommand(c) = SetToRead(c, t, cmd, a)
              /\ Len(t) = ReadDelay + DataLen + 3 /\ t[1] # 255
              /\ Carries(Pop(t, 1), BlockOf(c, a))
<1> DEFINE e == [c EXCEPT !.rx = <<>>]
           s == [c EXCEPT !.rx = <<>>, !.pos = a * DataLen, !.eof = FALSE]
           t == <<c.status>> \o Fill(ReadDelay - 1, FillByte) \o <<BlockToken>>
                \o Block(s) \o <<FillByte, FillByte>>
           r == [AfterBlock(s) EXCEPT !.reading = c.reading \/ cmd = 18]
<1>1. a * DataLen \in Nat /\ (a + 1) * DataLen \in Nat
  BY BlocksApart
<1>2. s \in HeldCards /\ s.pos = a * DataLen /\ s.eof = FALSE /\ s.bytes = c.bytes
  BY <1>1 DEF HeldCards
<1>3. ServeCommand(c) = Push([AfterBlock(Seek(e, a * DataLen)) EXCEPT !.reading = @ \/ cmd = 18],
                  <<c.status>> \o Fill(ReadDelay - 1, FillByte) \o <<BlockToken>>
                  \o Block(Seek(e, a * DataLen)) \o <<FillByte, FillByte>>)
  <2>1. [c EXCEPT !.rx = Pop(c.rx, 6)] = e
    BY WithoutCommand
  <2> HIDE DEF e
  <2>2. cmd # 0 /\ cmd # 1 /\ cmd # 8 /\ cmd # 12 /\ cmd # 16
    OBVIOUS
  <2> QED BY <2>1, <2>2 DEF ServeCommand
<1>4. Seek(e, a * DataLen) = s
  BY DEF Seek, HeldCards
<1>5. AfterBlock(s) = [s EXCEPT !.pos = (a + 1) * DataLen, !.eof = FALSE]
  <2> HIDE DEF s
  <2> QED BY <1>2, AfterBlockIs
<1>6. AfterBlock(s).reading = c.reading /\ AfterBlock(s).tx = <<>> /\ r.tx = <<>>
  BY <1>5 DEF HeldCards
<1>7. Block(s) \in Seq(Byte) /\ Len(Block(s)) = DataLen /\ Block(s) = BlockOf(c, a)
  <2> HIDE DEF s
  <2>1. /\ Block(s) \in BlockData /\ Block(s) \in Seq(Byte) /\ Len(Block(s)) = DataLen
        /\ \A i \in 1 .. DataLen : Block(s)[i] = s.bytes[a * DataLen + i - 1]
    BY <1>2, BlockIs
  <2> QED BY <1>2, <2>1 DEF BlockOf, BlockData
<1>8. /\ t \in Seq(Byte) /\ Len(t) = ReadDelay + DataLen + 3
      /\ t[1] = c.status /\ Carries(Pop(t, 1), Block(s))
  <2>1. c.status \in {0, 1}
    BY DEF HeldCards
  <2> HIDE DEF s
  <2> QED BY <1>7, <2>1, ReadAnswerIs, Zenon
<1>9. ServeCommand(c) = Push(r, t)
  <2> HIDE DEF s
  <2> QED BY <1>3, <1>4, <1>6
<1>10. Len(t) < BufSize
  BY <1>8, CardConstants
<1>11. r = [c EXCEPT !.rx = <<>>, !.reading = (cmd = 18), !.pos = (a + 1) * DataLen, !.eof = FALSE]
  BY <1>5 DEF HeldCards
<1> HIDE DEF s, t, r, e
<1>12. ServeCommand(c) = [r EXCEPT !.tx = t]
  BY <1>6, <1>8, <1>9, <1>10, PushIs
<1>13. ServeCommand(c) = SetToRead(c, t, cmd, a)
  BY <1>11, <1>12 DEF HeldCards, SetToRead
<1>14. t[1] # 255
  BY <1>8 DEF HeldCards
<1> QED BY ONLY <1>7, <1>8, <1>13, <1>14, Zenon

(* A write is answered with a status, and the card waits for a block.      *)
LEMMA ServedWrite ==
    ASSUME NEW c \in HeldCards, c.tx = <<>>, Len(c.rx) = 6,
           NEW cmd \in {24, 25}, Command(c) = cmd,
           NEW a \in Nat, Argument(c) = a
    PROVE  ServeCommand(c) = SetToWrite(c, cmd, a)
<1> DEFINE e == [c EXCEPT !.rx = <<>>]
           w == IF cmd = 25 THEN "multiple" ELSE "single"
           s == [Seek(e, a) EXCEPT !.writing = w]
<1>1. ServeCommand(c) = Push(s, <<c.status>>)
  <2>1. [c EXCEPT !.rx = Pop(c.rx, 6)] = e
    BY WithoutCommand
  <2> HIDE DEF e
  <2>2. cmd # 0 /\ cmd # 1 /\ cmd # 8 /\ cmd # 12 /\ cmd # 16 /\ cmd # 17 /\ cmd # 18
    OBVIOUS
  <2> QED BY <2>1, <2>2 DEF ServeCommand
<1>2. s = [c EXCEPT !.rx = <<>>, !.writing = w, !.pos = a, !.eof = FALSE]
  BY DEF Seek, HeldCards
<1>3. s.tx = <<>>
  BY <1>2 DEF HeldCards
<1>4. <<c.status>> \in Seq(Byte) /\ Len(<<c.status>>) < BufSize
  BY CardConstants DEF HeldCards, Byte
<1> HIDE DEF s
<1>5. ServeCommand(c) = [s EXCEPT !.tx = <<c.status>>]
  BY <1>1, <1>3, <1>4, PushIs
<1> QED BY <1>2, <1>5 DEF HeldCards, SetToWrite

-----------------------------------------------------------------------------
(* One exchange, in a card that is being written to.                       *)
Writable(c) == c \in HeldCards /\ c.writing # "no"
Queued(c, r, t) == [c EXCEPT !.rx = r, !.tx = t]
StoppedWriting(c) == [c EXCEPT !.rx = <<>>, !.writing = "no"]
BlockPut(c, r, a) ==
    [x \in 0 .. Blocks * DataLen - 1 |->
        IF x \in a * DataLen .. a * DataLen + DataLen - 1 THEN r[x - a * DataLen + 2]
        ELSE c.bytes[x]]
BlockTaken(c, r, a) ==
    [c EXCEPT !.rx = <<>>, !.tx = <<229>>, !.bytes = BlockPut(c, r, a),
              !.pos = (a + 1) * DataLen,
              !.writing = IF c.writing = "single" THEN "no" ELSE c.writing]

(* A card with other queues is otherwise the same card.                    *)
LEMMA QueuedIs ==
    ASSUME NEW c \in HeldCards, NEW r \in Seq(Byte), NEW t \in Seq(Byte)
    PROVE  /\ Queued(c, r, t) \in HeldCards
           /\ Queued(c, r, t).rx = r /\ Queued(c, r, t).tx = t
           /\ Queued(c, r, t).status = c.status /\ Queued(c, r, t).reading = c.reading
           /\ Queued(c, r, t).writing = c.writing /\ Queued(c, r, t).bytes = c.bytes
           /\ Queued(c, r, t).pos = c.pos /\ Queued(c, r, t).eof = c.eof
           /\ Queued(c, r, t).down = c.down
BY DEF Queued, HeldCards

WriteOutcome(c, r, crc) ==
    IF r = <<>> THEN Queued(c, r, <<>>)
    ELSE IF r[1] # TokenOf(c) THEN [c EXCEPT !.rx = Tail(r), !.tx = <<>>, !.writing = "no"]
    ELSE IF Len(r) < DataLen + 3 THEN Queued(c, r, <<>>)
    ELSE ServeQueued(Stream(Written(Queued(c, r, <<>>)), crc))

HeardOutcome(c, d, e, crc) ==
    IF First(c.tx) # 255 THEN d
    ELSE IF e.rx = <<>> THEN e
    ELSE IF e.rx[1] # TokenOf(e) THEN [e EXCEPT !.writing = "no", !.rx = Tail(@)]
    ELSE IF ~BlockIn(e) THEN e
    ELSE ServeQueued(Stream(Written(e), crc))

(* There is room for a block with its token and CRC                        *)
(* (nile_spi_buffer_push).                                                 *)
LEMMA TakeIs ==
    ASSUME NEW c \in HeldCards, NEW b, Len(c.rx) < DataLen + 3
    PROVE  Take(c, b) = [c EXCEPT !.rx = Append(c.rx, b)]
<1>1. Len(c.rx) + 1 < BufSize
  <2>1. Len(c.rx) \in Nat
    BY DEF HeldCards
  <2> QED BY ONLY <2>1, CardConstants, Len(c.rx) < DataLen + 3
<1> QED BY ONLY <1>1, Zenon DEF Take, Fits

(* What a card that is written to does with one byte.                      *)
LEMMA WriteHears ==
    ASSUME NEW c, Writable(c), NEW crc, NEW b, Len(c.rx) < DataLen + 3,
           NEW d, d = Queued(c, Append(c.rx, b), Pop(c.tx, 1)),
           NEW e, e = Queued(c, Strip(Append(c.rx, b), 255), Pop(c.tx, 1))
    PROVE  AfterExchange(c, b, crc) = HeardOutcome(c, d, e, crc)
<1> DEFINE z == IF c.rx # <<>> \/ c.writing # "no" \/ b < 128 THEN Take(c, b) ELSE c
           x == [z EXCEPT !.tx = Pop(@, 1)]
           y == [x EXCEPT !.rx = Strip(@, FillByte)]
<1>1. AfterExchange(c, b, crc) =
              IF x.writing = "no" THEN ServeQueued(Stream(x, crc))
              ELSE IF First(c.tx) # FillByte THEN x
              ELSE IF y.rx = <<>> THEN y
              ELSE IF y.rx[1] # TokenOf(y)
              THEN [y EXCEPT !.writing = "no", !.rx = Tail(@)]
              ELSE IF ~BlockIn(y) THEN y
              ELSE ServeQueued(Stream(Written(y), crc))
  BY DEF AfterExchange
<1>2. z = [c EXCEPT !.rx = Append(c.rx, b)] /\ z.tx = c.tx
  <2>1. c.writing # "no" /\ c \in HeldCards
    BY DEF Writable
  <2>2. z = Take(c, b)
    BY <2>1
  <2>3. Take(c, b) = [c EXCEPT !.rx = Append(c.rx, b)]
    BY <2>1, TakeIs
  <2> HIDE DEF z
  <2> QED BY <2>1, <2>2, <2>3 DEF HeldCards
<1> HIDE DEF z
<1>3. x = d
  BY <1>2 DEF Queued
<1>4. d.rx = Append(c.rx, b) /\ d.writing # "no"
  BY DEF Writable, HeldCards, Queued
<1>5. y = e
  <2>1. y = [d EXCEPT !.rx = Strip(d.rx, 255)]
    BY <1>3 DEF FillByte
  <2> QED BY <1>4, <2>1 DEF Queued
<1> HIDE DEF x, y
<1>7. x.writing # "no" /\ FillByte = 255
  BY <1>3, <1>4 DEF FillByte
<1> QED BY ONLY <1>1, <1>3, <1>5, <1>7 DEF HeardOutcome

(* While the answer is not over the card only queues what it hears.        *)
LEMMA WriteHeld ==
    ASSUME NEW c, Writable(c), NEW crc, NEW b, Len(c.rx) < DataLen + 3, First(c.tx) # 255
    PROVE  AfterExchange(c, b, crc) = Queued(c, Append(c.rx, b), Pop(c.tx, 1))
<1> DEFINE d == Queued(c, Append(c.rx, b), Pop(c.tx, 1))
           e == Queued(c, Strip(Append(c.rx, b), 255), Pop(c.tx, 1))
<1>1. /\ d = Queued(c, Append(c.rx, b), Pop(c.tx, 1))
      /\ e = Queued(c, Strip(Append(c.rx, b), 255), Pop(c.tx, 1))
  OBVIOUS
<1> HIDE DEF d, e
<1>2. AfterExchange(c, b, crc) = HeardOutcome(c, d, e, crc)
  BY ONLY <1>1, WriteHears, Writable(c), Len(c.rx) < DataLen + 3, Zenon
<1> QED BY ONLY <1>2, First(c.tx) # 255 DEF d, HeardOutcome

(* A byte when the bytes queued so far are stripped to r.                  *)
LEMMA WriteStripped ==
    ASSUME NEW c, Writable(c), NEW crc, NEW b, Len(c.rx) < DataLen + 3,
           c.tx = <<>>, NEW r \in Seq(Byte), Strip(Append(c.rx, b), 255) = r
    PROVE  AfterExchange(c, b, crc) = WriteOutcome(c, r, crc)
<1> DEFINE d == Queued(c, Append(c.rx, b), Pop(c.tx, 1))
           e == Queued(c, Strip(Append(c.rx, b), 255), Pop(c.tx, 1))
<1>1. Pop(c.tx, 1) = <<>> /\ First(c.tx) = 255
  <2>1. <<>> \in Seq(Byte)
    OBVIOUS
  <2>2. Pop(<<>>, 1) = <<>> /\ First(<<>>) = 255
    BY <2>1, FirstIs
  <2> QED BY ONLY <2>2, c.tx = <<>>, Zenon
<1>2. /\ d = Queued(c, Append(c.rx, b), Pop(c.tx, 1))
      /\ e = Queued(c, Strip(Append(c.rx, b), 255), Pop(c.tx, 1))
      /\ e = Queued(c, r, <<>>)
  BY <1>1
<1> HIDE DEF d, e
<1>3. AfterExchange(c, b, crc) = HeardOutcome(c, d, e, crc)
  BY ONLY <1>2, WriteHears, Writable(c), Len(c.rx) < DataLen + 3, Zenon
<1>4. e.rx = r /\ e.writing = c.writing /\ TokenOf(e) = TokenOf(c)
  BY <1>2 DEF Queued, Writable, HeldCards, TokenOf
<1>5. BlockIn(e) = ~(Len(r) < DataLen + 3)
  <2>1. Len(r) \in Nat /\ DataLen \in Nat
    BY CardConstants
  <2> QED BY <1>4, <2>1 DEF BlockIn
<1> DEFINE n == [c EXCEPT !.rx = Tail(r), !.tx = <<>>, !.writing = "no"]
<1>6. [e EXCEPT !.writing = "no", !.rx = Tail(@)] = n
  BY <1>2, <1>4 DEF Queued, Writable, HeldCards
<1> HIDE DEF n
<1>7. AfterExchange(c, b, crc) =
              IF r = <<>> THEN e
              ELSE IF r[1] # TokenOf(c) THEN n
              ELSE IF Len(r) < DataLen + 3 THEN e
              ELSE ServeQueued(Stream(Written(e), crc))
  BY ONLY <1>1, <1>3, <1>4, <1>5, <1>6 DEF HeardOutcome
<1> QED BY ONLY <1>2, <1>7 DEF WriteOutcome, n

(* The fill byte behind a command or a block: its answer goes out.         *)
LEMMA WriteAnswers ==
    ASSUME NEW c, Writable(c), NEW crc, c.rx = <<>>, Len(c.tx) = 1, c.tx[1] # 255
    PROVE  AfterExchange(c, 255, crc) = Queued(c, <<255>>, <<>>)
<1>1. c.tx \in Seq(Byte) /\ Len(c.rx) < DataLen + 3
  BY CardConstants DEF Writable, HeldCards
<1>2. Append(c.rx, 255) = <<255>>
  OBVIOUS
<1>3. Pop(c.tx, 1) = <<>>
  <2>1. 1 \in Nat /\ 1 >= Len(c.tx)
    OBVIOUS
  <2> QED BY ONLY <1>1, <2>1, PopIs
<1>4. First(c.tx) # 255
  <2>1. c.tx # <<>>
    OBVIOUS
  <2> QED BY <1>1, <2>1, FirstIs
<1>5. AfterExchange(c, 255, crc) = Queued(c, Append(c.rx, 255), Pop(c.tx, 1))
  BY <1>1, <1>4, WriteHeld
<1> QED BY <1>2, <1>3, <1>5

(* A byte behind a byte.                                                   *)
LEMMA TwoBytes ==
    ASSUME NEW x \in Byte, NEW y \in Byte
    PROVE  Append(<<x>>, y) = <<x, y>> /\ Len(<<x>>) = 1
<1> DEFINE q == <<x>>
           r == Append(q, y)
<1>1. q \in Seq(Byte) /\ Len(q) = 1 /\ q[1] = x
  OBVIOUS
<1> HIDE DEF q
<1>2. r \in Seq(Byte) /\ Len(r) = 2 /\ r[1] = x /\ r[2] = y
  <2>1. /\ r \in Seq(Byte) /\ Len(r) = Len(q) + 1 /\ r[Len(q) + 1] = y
        /\ \A i \in 1 .. Len(q) : r[i] = q[i]
    <3>1. q \in Seq(Byte)
      BY <1>1
    <3> QED BY ONLY <3>1, AppendProperties, y \in Byte
  <2> HIDE DEF r
  <2> QED BY ONLY <1>1, <2>1
<1> HIDE DEF r
<1>3. r = <<r[1], r[2]>>
  BY <1>2
<1>4. r = <<x, y>>
  BY ONLY <1>2, <1>3
<1> QED BY <1>1, <1>4 DEF q, r

(* A token is found behind at most one fill byte.                          *)
LEMMA StalledBytes ==
    ASSUME NEW c, c.rx \in {<<>>, << 255 >>}, NEW b \in Byte
    PROVE  /\ Len(c.rx) < DataLen + 3
           /\ b = 255 => Strip(Append(c.rx, b), 255) = <<>>
           /\ b # 255 => Strip(Append(c.rx, b), 255) = <<b>>
<1>1. DataLen \in Nat
  BY CardConstants
<1>2. /\ Strip(<<255>>, 255) = <<>> /\ Strip(<<255, 255>>, 255) = <<>>
      /\ b # 255 => Strip(<<255, b>>, 255) = <<b>> /\ Strip(<<b>>, 255) = <<b>>
  BY ONLY StripFill, b \in Byte
<1>3. CASE c.rx = <<>>
  <2>1. Append(c.rx, b) = <<b>> /\ Len(c.rx) = 0
    BY <1>3
  <2>2. b = 255 => <<b>> = <<255>>
    OBVIOUS
  <2> QED BY ONLY <1>1, <1>2, <2>1, <2>2
<1>4. CASE c.rx = <<255>>
  <2>1. Append(c.rx, b) = <<255, b>> /\ Len(c.rx) = 1
    <3>1. Append(<<255>>, b) = <<255, b>> /\ Len(<<255>>) = 1
      BY TwoBytes, CardBytesAre
    <3> QED BY ONLY <1>4, <3>1, Zenon
  <2>2. b = 255 => <<255, b>> = <<255, 255>>
    OBVIOUS
  <2> QED BY ONLY <1>1, <1>2, <2>1, <2>2
<1> QED BY <1>3, <1>4

(* A card that waits for a token lets fill bytes pass.                     *)
LEMMA WriteStalls ==
    ASSUME NEW c, Writable(c), NEW crc, c.tx = <<>>, c.rx \in {<<>>, << 255 >>}
    PROVE  AfterExchange(c, 255, crc) = Queued(c, <<>>, <<>>)
<1>1. <<>> \in Seq(Byte) /\ 255 \in Byte
  BY CardBytesAre
<1>2. Len(c.rx) < DataLen + 3 /\ Strip(Append(c.rx, 255), 255) = <<>>
  BY <1>1, StalledBytes
<1>3. AfterExchange(c, 255, crc) = WriteOutcome(c, <<>>, crc)
  BY <1>1, <1>2, WriteStripped
<1> QED BY ONLY <1>3, Zenon DEF WriteOutcome

(* The token is kept.                                                      *)
LEMMA WriteBegins ==
    ASSUME NEW c, Writable(c), NEW crc, c.tx = <<>>, c.rx \in {<<>>, << 255 >>}
    PROVE  AfterExchange(c, TokenOf(c), crc) = Queued(c, <<TokenOf(c)>>, <<>>)
<1> DEFINE b == TokenOf(c)
           r == <<b>>
<1>1. b \in Byte /\ b # 255
  BY CardBytesAre DEF TokenOf, BlockToken, MultiToken
<1>2. r \in Seq(Byte) /\ r # <<>> /\ r[1] = TokenOf(c) /\ Len(r) < DataLen + 3
  BY <1>1, CardConstants
<1> HIDE DEF b
<1>3. Len(c.rx) < DataLen + 3 /\ Strip(Append(c.rx, b), 255) = r
  BY <1>1, StalledBytes
<1> HIDE DEF r
<1>4. AfterExchange(c, b, crc) = WriteOutcome(c, r, crc)
  BY <1>2, <1>3, WriteStripped
<1>5. WriteOutcome(c, r, crc) = Queued(c, r, <<>>)
  BY ONLY <1>2 DEF WriteOutcome
<1> QED BY <1>4, <1>5 DEF b, r

(* The stop token ends a write of several blocks.                          *)
LEMMA WriteEnds ==
    ASSUME NEW c, Writable(c), NEW crc, c.tx = <<>>, c.rx \in {<<>>, << 255 >>},
           c.writing = "multiple"
    PROVE  AfterExchange(c, 253, crc) = StoppedWriting(c)
<1> DEFINE r == <<253>>
           n == [c EXCEPT !.rx = Tail(r), !.tx = <<>>, !.writing = "no"]
<1>1. 253 \in Byte /\ TokenOf(c) = 252
  BY CardBytesAre DEF TokenOf, MultiToken
<1>2. Len(c.rx) < DataLen + 3 /\ Strip(Append(c.rx, 253), 255) = r
  BY <1>1, StalledBytes
<1>3. r \in Seq(Byte) /\ r # <<>> /\ r[1] # TokenOf(c) /\ Tail(r) = <<>>
  BY <1>1
<1> HIDE DEF r
<1>4. AfterExchange(c, 253, crc) = WriteOutcome(c, r, crc)
  BY <1>2, <1>3, WriteStripped
<1>5. WriteOutcome(c, r, crc) = n
  <2> HIDE DEF n
  <2> QED BY ONLY <1>3 DEF WriteOutcome, n
<1>6. n = StoppedWriting(c)
  BY <1>3 DEF StoppedWriting, Writable, HeldCards
<1> QED BY <1>4, <1>5, <1>6

(* The bytes of a block, and of the CRC behind it.                         *)
LEMMA WriteGoesThrough ==
    ASSUME NEW c, Writable(c), NEW crc, NEW b \in Byte, c.tx = <<>>,
           c.rx # <<>>, c.rx[1] = TokenOf(c), Len(c.rx) < DataLen + 3,
           NEW r, r = Append(c.rx, b)
    PROVE  /\ r \in Seq(Byte) /\ Len(r) = Len(c.rx) + 1 /\ r[1] = TokenOf(c)
           /\ AfterExchange(c, b, crc) = WriteOutcome(c, r, crc)
<1>1. c.rx \in Seq(Byte)
  BY DEF Writable, HeldCards
<1>2. r \in Seq(Byte) /\ Len(r) = Len(c.rx) + 1 /\ r # <<>> /\ r[1] = TokenOf(c)
  BY <1>1
<1>3. TokenOf(c) < 255
  BY DEF TokenOf, BlockToken, MultiToken
<1>4. Strip(r, 255) = r
  <2>1. r[1] < 255 /\ 255 \in Nat
    BY <1>2, <1>3
  <2> QED BY ONLY <1>2, <2>1, StripFirst
<1>5. Strip(Append(c.rx, b), 255) = r
  BY <1>4
<1>6. AfterExchange(c, b, crc) = WriteOutcome(c, r, crc)
  BY <1>2, <1>5, WriteStripped
<1> QED BY <1>2, <1>6

(* Before the block is whole, its bytes are queued.                        *)
LEMMA WriteGoesOnTo ==
    ASSUME NEW c, Writable(c), NEW crc, NEW b \in Byte, c.tx = <<>>,
           c.rx # <<>>, c.rx[1] = TokenOf(c), Len(c.rx) < DataLen + 2
    PROVE  AfterExchange(c, b, crc) = Queued(c, Append(c.rx, b), <<>>)
<1> DEFINE r == Append(c.rx, b)
<1>1. Len(c.rx) \in Nat /\ DataLen \in Nat
  BY CardConstants DEF Writable, HeldCards
<1>2. Len(c.rx) < DataLen + 3 /\ Len(c.rx) + 1 < DataLen + 3
  BY <1>1
<1>3. /\ Len(r) = Len(c.rx) + 1 /\ r[1] = TokenOf(c)
      /\ AfterExchange(c, b, crc) = WriteOutcome(c, r, crc)
  <2>1. r = Append(c.rx, b)
    OBVIOUS
  <2> HIDE DEF r
  <2> QED BY <1>2, <2>1, WriteGoesThrough
<1> HIDE DEF r
<1>4. Len(r) < DataLen + 3
  BY <1>2, <1>3
<1>5. WriteOutcome(c, r, crc) = Queued(c, r, <<>>)
  BY ONLY <1>3, <1>4 DEF WriteOutcome
<1> QED BY <1>3, <1>5 DEF r

(* The block is stored where it belongs, and nothing else changes.         *)
LEMMA StoreIs ==
    ASSUME NEW c \in HeldCards, NEW a \in 0 .. Blocks - 1, c.pos = a * DataLen, ~c.eof
    PROVE  Store(c) = [c EXCEPT !.bytes = BlockPut(c, c.rx, a), !.pos = (a + 1) * DataLen]
<1> DEFINE z == Blocks * DataLen
           p == a * DataLen
           F == [x \in 0 .. (IF Size(c) > c.pos + DataLen THEN Size(c)
                             ELSE c.pos + DataLen) - 1 |->
                         IF x \in c.pos .. c.pos + DataLen - 1 THEN c.rx[x - c.pos + 2]
                         ELSE IF x \in DOMAIN c.bytes THEN c.bytes[x] ELSE 0]
<1>1. Store(c) = [c EXCEPT !.bytes = F, !.pos = @ + DataLen]
  BY CardConstants DEF Store
<1>2. Size(c) = z /\ z \in Nat /\ p \in Nat /\ DataLen \in Nat /\ p + DataLen <= z
  <2>1. p + DataLen <= z
    BY BlocksApart, CardConstants
  <2> QED BY <2>1, HeldSize, BlocksApart, CardConstants
<1>3. DOMAIN c.bytes = 0 .. z - 1
  BY DEF HeldCards
<1>4. (a + 1) * DataLen = p + DataLen
  BY BlocksApart
<1> HIDE DEF z, p
<1>5. c.pos = p
  BY DEF p
<1>6. (IF Size(c) > c.pos + DataLen THEN Size(c) ELSE c.pos + DataLen) = z
  BY ONLY <1>2, <1>5
<1>7. F = [x \in 0 .. z - 1 |-> IF x \in p .. p + DataLen - 1 THEN c.rx[x - p + 2] ELSE c.bytes[x]]
  <2> DEFINE m == IF Size(c) > c.pos + DataLen THEN Size(c) ELSE c.pos + DataLen
             G(x) == IF x \in c.pos .. c.pos + DataLen - 1 THEN c.rx[x - c.pos + 2]
                     ELSE IF x \in DOMAIN c.bytes THEN c.bytes[x] ELSE 0
             H(x) == IF x \in p .. p + DataLen - 1 THEN c.rx[x - p + 2] ELSE c.bytes[x]
  <2>1. \A x \in 0 .. z - 1 : G(x) = H(x)
    BY ONLY <1>3, <1>5
  <2>2. F = [x \in 0 .. m - 1 |-> G(x)]
    OBVIOUS
  <2>3. m = z
    BY <1>6
  <2> HIDE DEF F, m, G, H
  <2>4. F = [x \in 0 .. z - 1 |-> H(x)]
    BY ONLY <2>1, <2>2, <2>3
  <2> QED BY <2>4 DEF H
<1> HIDE DEF F
<1>8. F = BlockPut(c, c.rx, a)
  BY <1>7 DEF BlockPut, z, p
<1> QED BY ONLY <1>1, <1>4, <1>5, <1>8

(* With its last byte the block is on the card, and its answer waits.      *)
LEMMA WriteLands ==
    ASSUME NEW c, Writable(c), NEW crc \in StackBytes, NEW b \in Byte, c.tx = <<>>,
           c.rx[1] = TokenOf(c), Len(c.rx) = DataLen + 2, ~c.reading,
           NEW a \in 0 .. Blocks - 1, c.pos = a * DataLen, ~c.eof
    PROVE  /\ AfterExchange(c, b, crc) = BlockTaken(c, Append(c.rx, b), a)
           /\ BlockTaken(c, Append(c.rx, b), a) \in HeldCards
<1> DEFINE r == Append(c.rx, b)
           q == Queued(c, r, <<>>)
           w == IF c.writing = "single" THEN "no" ELSE c.writing
           s == [Store(q) EXCEPT !.rx = Pop(@, DataLen + 3),
                                 !.writing = IF @ = "single" THEN "no" ELSE @]
           n == BlockTaken(c, r, a)
<1>1. /\ DataLen \in Nat /\ c \in HeldCards /\ c.rx # <<>> /\ Len(c.rx) < DataLen + 3
      /\ (a + 1) * DataLen \in Nat /\ <<>> \in Seq(Byte)
  <2>1. DataLen \in Nat /\ c \in HeldCards /\ <<>> \in Seq(Byte)
    BY CardConstants DEF Writable
  <2>2. (a + 1) * DataLen \in Nat
    BY BlocksApart
  <2>3. c.rx # <<>> /\ Len(c.rx) < DataLen + 3
    BY ONLY <2>1, Len(c.rx) = DataLen + 2
  <2> QED BY <2>1, <2>2, <2>3
<1>2. /\ r \in Seq(Byte) /\ Len(r) = DataLen + 3 /\ r[1] = TokenOf(c)
      /\ AfterExchange(c, b, crc) = WriteOutcome(c, r, crc)
  <2>1. r = Append(c.rx, b)
    OBVIOUS
  <2> HIDE DEF r
  <2>2. /\ r \in Seq(Byte) /\ Len(r) = Len(c.rx) + 1 /\ r[1] = TokenOf(c)
        /\ AfterExchange(c, b, crc) = WriteOutcome(c, r, crc)
    BY <1>1, <2>1, WriteGoesThrough
  <2> QED BY <1>1, <2>2
<1> HIDE DEF r
<1>3. WriteOutcome(c, r, crc) = ServeQueued(Stream(Written(q), crc))
  <2>1. ~(Len(r) < DataLen + 3) /\ r # <<>>
    BY <1>1, <1>2
  <2> HIDE DEF q
  <2> QED BY ONLY <1>2, <2>1 DEF WriteOutcome, q
<1>4. /\ q \in HeldCards /\ q.rx = r /\ q.tx = <<>> /\ q.writing = c.writing
      /\ q.pos = a * DataLen /\ ~q.eof /\ q.bytes = c.bytes
  <2>1. /\ q \in HeldCards /\ q.rx = r /\ q.tx = <<>> /\ q.writing = c.writing
        /\ q.pos = c.pos /\ q.eof = c.eof /\ q.bytes = c.bytes
    <3>1. c \in HeldCards /\ r \in Seq(Byte) /\ <<>> \in Seq(Byte)
      BY ONLY <1>1, <1>2
    <3> QED BY ONLY <3>1, QueuedIs, Zenon
  <2> QED BY ONLY <2>1, c.pos = a * DataLen, ~c.eof
<1>5. Store(q) = [q EXCEPT !.bytes = BlockPut(c, r, a), !.pos = (a + 1) * DataLen]
  <2>1. BlockPut(q, q.rx, a) = BlockPut(c, r, a)
    BY <1>4 DEF BlockPut
  <2> HIDE DEF q
  <2> QED BY <1>4, <2>1, StoreIs
<1>6. Pop(r, DataLen + 3) = <<>>
  <2>1. DataLen + 3 \in Nat /\ DataLen + 3 >= Len(r)
    BY <1>1, <1>2
  <2> QED BY ONLY <1>2, <2>1, PopIs
<1>7. Store(q).rx = r /\ Store(q).writing = c.writing /\ Store(q).tx = <<>>
  <2> HIDE DEF q
  <2> QED BY <1>4, <1>5 DEF HeldCards
<1>8. s = [c EXCEPT !.rx = <<>>, !.tx = <<>>, !.bytes = BlockPut(c, r, a),
                    !.pos = (a + 1) * DataLen, !.writing = w]
  <2>1. s = [Store(q) EXCEPT !.rx = <<>>, !.writing = w]
    BY <1>6, <1>7
  <2> QED BY <1>5, <2>1 DEF Queued
<1>9. s.tx = <<>>
  BY <1>1, <1>8 DEF HeldCards
<1>10. Written(q) = Push(s, <<229>>)
  BY DEF Written, Accepted
<1>11. <<229>> \in Seq(Byte) /\ Len(<<229>>) < BufSize
  BY CardConstants DEF Byte
<1> HIDE DEF s
<1>12. Written(q) = [s EXCEPT !.tx = <<229>>]
  BY <1>9, <1>10, <1>11, PushIs
<1>13. Written(q) = n
  BY <1>1, <1>8, <1>12 DEF BlockTaken, HeldCards
<1>14. BlockPut(c, r, a) \in [0 .. Blocks * DataLen - 1 -> Byte]
  <2> DEFINE z == Blocks * DataLen
             p == a * DataLen
  <2>1. z \in Nat /\ p \in Nat /\ DataLen \in Nat
    BY BlocksApart, CardConstants
  <2>2. c.bytes \in [0 .. z - 1 -> Byte]
    BY <1>1 DEF HeldCards
  <2>3. BlockPut(c, r, a) = [x \in 0 .. z - 1 |-> IF x \in p .. p + DataLen - 1
                                                   THEN r[x - p + 2] ELSE c.bytes[x]]
    BY DEF BlockPut
  <2> HIDE DEF z, p
  <2>4. ASSUME NEW x \in p .. p + DataLen - 1 PROVE r[x - p + 2] \in Byte
    <3>1. x - p + 2 \in 1 .. Len(r)
      BY <1>2, <2>1
    <3> QED BY ONLY <1>2, <3>1
  <2> QED BY <2>2, <2>3, <2>4 DEF z
<1>15. n \in HeldCards /\ n.rx = <<>> /\ n.reading = FALSE
  <2>1. <<229>> \in Seq(Byte)
    BY <1>11
  <2>2. w \in {"no", "single", "multiple"}
    BY <1>1 DEF HeldCards
  <2> HIDE DEF w
  <2>3. n = [c EXCEPT !.rx = <<>>, !.tx = <<229>>, !.bytes = BlockPut(c, r, a),
              !.pos = (a + 1) * DataLen, !.writing = w]
    BY DEF BlockTaken, w
  <2> HIDE DEF n
  <2> QED BY <1>1, <1>14, <2>1, <2>2, <2>3 DEF HeldCards
<1> HIDE DEF n
<1>16. Stream(n, crc) = n
  BY <1>15, StreamIs
<1>17. ServeQueued(n) = n
  <2>1. Len(n.rx) < 6
    BY <1>15
  <2> QED BY <1>15, <2>1, ServeNone
<1> QED BY <1>2, <1>3, <1>13, <1>15, <1>16, <1>17 DEF n, r

-----------------------------------------------------------------------------
(* The invariant holds at first, and the names of what it is made of.      *)
LEMMA JobIs ==
    ASSUME NEW j \in Jobs
    PROVE  /\ j.cmd \in 0 .. 63 /\ j.cmd # 12 /\ j.at \in Nat /\ j.count \in Nat
           /\ ArgumentOf(j) \in Nat /\ (ArgumentOf(j) \div 256) \div 256 < 65536
           /\ j.cmd \in Reads \cup Writes =>
                 /\ j.count > 0 /\ \A k \in 0 .. j.count - 1 : j.at + k \in 0 .. Blocks - 1
                 /\ ArgumentOf(j) = j.at * DataLen
           /\ j.cmd \notin Reads \cup Writes => j.count = 0
           /\ j.cmd \in {17, 24} => j.count = 1
           /\ j.cmd \in Writes => \A k \in 1 .. j.count : j.data[k] \in BlockData
<1>1. IsJob(j)
  BY CardHostAssumption
<1>2. /\ j \in [cmd : 0 .. 63, at : Nat, count : Nat, data : Seq(BlockData)]
      /\ j.cmd # 12 /\ (ArgumentOf(j) \div 256) \div 256 < 65536
      /\ j.cmd \in Reads \cup Writes => j.count > 0 /\ j.at + j.count <= Blocks
      /\ j.cmd \notin Reads \cup Writes => j.count = 0
      /\ j.cmd \in {17, 24} => j.count = 1
      /\ j.cmd \in Writes => Len(j.data) = j.count
  BY <1>1 DEF IsJob, StopCommand
<1>3. /\ j.cmd \in 0 .. 63 /\ j.at \in Nat /\ j.count \in Nat /\ j.data \in Seq(BlockData)
  BY <1>2
<1>4. j.cmd \in Reads \cup Writes => ArgumentOf(j) = j.at * DataLen
  BY DEF ArgumentOf
<1>5. j.cmd \notin Reads \cup Writes => ArgumentOf(j) = j.at
  BY DEF ArgumentOf
<1>6. j.at * DataLen \in Nat
  BY <1>3, BlocksApart
<1>7. ASSUME j.cmd \in Reads \cup Writes, NEW k \in 0 .. j.count - 1
      PROVE  j.at + k \in 0 .. Blocks - 1
  BY <1>2, <1>3, <1>7, CardConstants
<1>8. ASSUME j.cmd \in Writes, NEW k \in 1 .. j.count PROVE j.data[k] \in BlockData
  <2>1. k \in 1 .. Len(j.data)
    BY <1>2, <1>8
  <2> QED BY ONLY <1>3, <2>1
<1> QED BY <1>2, <1>3, <1>4, <1>5, <1>6, <1>7, <1>8

(* The invariant holds of the card the program starts with.                *)
LEMMA InvFirst == CardHostInit => CardInv
<1> SUFFICES ASSUME CardHostInit PROVE CardInv
    OBVIOUS
<1>1. card \in HeldCards
  BY CardConstants DEF CardHostInit, NewCard, HeldCards
<1>2. CardTypes
  BY <1>1 DEF CardHostInit, CardTypes, Phases, NoJob
<1>3. WhenIdle
  BY DEF CardHostInit, NewCard, NoJob, WhenIdle, Listens, Silent, AllDone
<1>4. phase = "idle"
  BY DEF CardHostInit
<1> QED BY <1>2, <1>3, <1>4 DEF CardInv

(* What a step must show, by the phase it leads to.                        *)
LEMMA PhaseAlone ==
    ASSUME CardTypes'
    PROVE  /\ phase' = "idle" /\ WhenIdle' => CardInv'
           /\ phase' = "command" /\ WhenCommand' => CardInv'
           /\ phase' = "stop" /\ WhenStop' => CardInv'
           /\ phase' = "answer" /\ WhenAnswer' => CardInv'
           /\ phase' = "trailer" /\ WhenTrailer' => CardInv'
           /\ phase' = "token" /\ WhenToken' => CardInv'
           /\ phase' = "block" /\ WhenBlock' => CardInv'
           /\ phase' \in {"skip", "delay", "busy"} /\ WhenStopped' => CardInv'
           /\ phase' = "data" /\ WhenData' => CardInv'
           /\ phase' = "accept" /\ WhenAccept' => CardInv'
           /\ phase' = "finish" /\ WhenFinish' => CardInv'
BY DEF CardInv

(* One exchange each, as a step of the card.                               *)
LEMMA Quiet ==
    ASSUME card \in HeldCards, card.writing = "no", card.rx = <<>>, TfExchange(FillByte),
           ~card.reading \/ Len(card.tx) >= 2
    PROVE  /\ card' \in HeldCards /\ card'.tx = Pop(card.tx, 1) /\ card'.rx = <<>>
           /\ card'.writing = "no" /\ card'.reading = card.reading
           /\ card'.bytes = card.bytes /\ card'.pos = card.pos /\ card'.eof = card.eof
           /\ card'.tx \in Seq(Byte)
<1>1. PICK crc \in StackBytes : card' = AfterExchange(card, 255, crc)
  BY DEF TfExchange, FillByte
<1>2. card' = [card EXCEPT !.tx = Pop(card.tx, 1)]
  BY <1>1, ExchangeFill
<1>3. card.tx \in Seq(Byte)
  BY DEF HeldCards
<1>4. Pop(card.tx, 1) \in Seq(Byte)
  BY <1>3, PopIs
<1> QED BY <1>2, <1>4 DEF HeldCards

(* The last byte of a block while a stream runs: the next block follows.   *)
LEMMA NextBlock ==
    ASSUME card \in HeldCards, card.writing = "no", card.rx = <<>>, TfExchange(FillByte),
           card.reading, Len(card.tx) = 1
    PROVE  /\ card' \in HeldCards /\ card'.rx = <<>> /\ card'.writing = "no"
           /\ card'.reading /\ card'.bytes = card.bytes
           /\ \A a \in 0 .. Blocks - 1 : ~card.eof /\ card.pos = a * DataLen =>
                 /\ card'.pos = (a + 1) * DataLen /\ ~card'.eof
                 /\ Len(card'.tx) = DataLen + 3 /\ Carries(card'.tx, BlockOf(card, a))
<1>1. PICK crc \in StackBytes : card' = AfterExchange(card, 255, crc)
  BY DEF TfExchange, FillByte
<1> DEFINE d == [card EXCEPT !.tx = Pop(card.tx, 1)]
<1>2. card' = Stream(d, crc)
  BY <1>1, ExchangeFill
<1>3. card.tx \in Seq(Byte)
  BY DEF HeldCards
<1>4. Pop(card.tx, 1) = <<>>
  <2>1. 1 \in Nat /\ 1 >= Len(card.tx)
    OBVIOUS
  <2> QED BY ONLY <1>3, <2>1, PopIs
<1>5. /\ d \in HeldCards /\ d.tx = <<>> /\ d.rx = <<>> /\ d.writing = "no" /\ d.reading
      /\ d.bytes = card.bytes /\ d.pos = card.pos /\ d.eof = card.eof
  BY <1>4 DEF HeldCards
<1> HIDE DEF d
<1>6. card' \in HeldCards /\ card'.rx = <<>> /\ card'.writing = "no" /\ card'.reading
      /\ card'.bytes = card.bytes
  <2>1. PICK t \in Seq(Byte), p \in Nat, e \in BOOLEAN :
           Stream(d, crc) = [d EXCEPT !.tx = t, !.pos = p, !.eof = e]
    BY <1>5, StreamMoves
  <2> QED BY <1>2, <1>5, <2>1 DEF HeldCards
<1>7. ASSUME NEW a \in 0 .. Blocks - 1, ~card.eof, card.pos = a * DataLen
      PROVE  /\ card'.pos = (a + 1) * DataLen /\ ~card'.eof
             /\ Len(card'.tx) = DataLen + 3 /\ Carries(card'.tx, BlockOf(card, a))
  <2>1. PICK t \in Seq(Byte) :
          /\ Stream(d, crc) = [d EXCEPT !.tx = t, !.pos = (a + 1) * DataLen, !.eof = FALSE]
          /\ Len(t) = DataLen + 3 /\ Carries(t, Block(d))
    <3>1. d.pos = a * DataLen /\ ~d.eof
      BY <1>5, <1>7
    <3> QED BY ONLY <1>5, <3>1, crc \in StackBytes, a \in 0 .. Blocks - 1, StreamBlock, Zenon
  <2>2. Block(d) = BlockOf(card, a)
    <3>1. /\ Block(d) \in BlockData
          /\ \A i \in 1 .. DataLen : Block(d)[i] = d.bytes[a * DataLen + i - 1]
      BY <1>5, <1>7, BlockIs
    <3> QED BY <1>5, <3>1 DEF BlockOf, BlockData
  <2>3. card'.tx = t /\ card'.pos = (a + 1) * DataLen /\ card'.eof = FALSE
    BY <1>2, <1>5, <2>1 DEF HeldCards
  <2> QED BY <2>1, <2>2, <2>3
<1> QED BY <1>6, <1>7

-----------------------------------------------------------------------------
(* The steps of the host that read.                                        *)
LEMMA TypesKept ==
    ASSUME CardTypes, card' \in HeldCards, job' = job, phase' \in Phases, clocked' \in Nat,
           blocksDone' \in 0 .. job.count, phase' # "idle" => job \in Jobs,
           phase' # "block" => arrived' = <<>>
    PROVE  CardTypes'
BY DEF CardTypes

(* Taking one byte, from any queue.                                        *)
LEMMA PopOne ==
    ASSUME NEW q \in Seq(Byte)
    PROVE  /\ q # <<>> => Len(Pop(q, 1)) = Len(q) - 1 /\ First(q) = q[1]
           /\ q = <<>> => Pop(q, 1) = <<>> /\ First(q) = 255
           /\ Len(q) = 1 => Pop(q, 1) = <<>>
<1>1. 1 \in Nat /\ Len(q) \in Nat /\ (q # <<>> => 1 <= Len(q)) /\ (Len(q) = 1 => 1 >= Len(q))
  OBVIOUS
<1>2. /\ 1 <= Len(q) => Len(Pop(q, 1)) = Len(q) - 1
      /\ 1 >= Len(q) => Pop(q, 1) = <<>>
  BY <1>1, PopIs
<1> QED BY <1>1, <1>2, FirstIs

(* Taking a byte leaves the end of a stop's answer what it was.            *)
LEMMA EndsOn ==
    ASSUME NEW q \in Seq(Byte), q # <<>>, EndsStop(q)
    PROVE  EndsStop(Pop(q, 1)) /\ First(q) = StopByte(Len(q) - 1)
<1>1. /\ Len(q) \in Nat /\ 1 <= Len(q) /\ Len(Pop(q, 1)) = Len(q) - 1 /\ First(q) = q[1]
      /\ \A i \in 1 .. Len(q) - 1 : Pop(q, 1)[i] = q[1 + i]
  <2>1. Len(q) \in Nat /\ 1 <= Len(q)
    OBVIOUS
  <2> QED BY <2>1, PopIs, PopOne
<1>2. First(q) = StopByte(Len(q) - 1)
  <2>1. 1 \in 1 .. Len(q)
    BY <1>1
  <2> QED BY <1>1, <2>1 DEF EndsStop
<1>3. ASSUME NEW i \in 1 .. Len(Pop(q, 1))
      PROVE  Pop(q, 1)[i] = StopByte(Len(Pop(q, 1)) - i)
  <2>1. 1 + i \in 1 .. Len(q) /\ Len(q) - (1 + i) = Len(Pop(q, 1)) - i /\ i \in 1 .. Len(q) - 1
    BY <1>1
  <2> QED BY <1>1, <2>1 DEF EndsStop
<1> QED BY <1>2, <1>3 DEF EndsStop

(* The invariant is kept by a job that begins.                             *)
LEMMA BeginJobKeeps ==
    ASSUME CardInv, BeginJob
    PROVE  CardInv' /\ card' = card /\ AllDone
<1>1. /\ CardTypes /\ WhenIdle /\ card' = card /\ job' \in Jobs /\ phase' = "command"
      /\ clocked' = 0 /\ blocksDone' = 0 /\ arrived' = arrived
  BY DEF CardInv, BeginJob, Enter
<1>2. CardTypes'
  <2>1. job'.count \in Nat
    BY <1>1, JobIs
  <2>2. phase = "idle"
    BY DEF BeginJob
  <2> QED BY <1>1, <2>1, <2>2 DEF CardTypes, Phases
<1>3. WhenCommand'
  <2>1. card.rx = <<>>
    BY <1>1 DEF WhenIdle, Listens
  <2>2. BeginsWith(card.rx, CommandFrame)'
    BY <1>1, <2>1 DEF BeginsWith
  <2>3. Silent' /\ card'.writing = "no"
    BY <1>1 DEF WhenIdle, Listens, Silent
  <2> QED BY <1>1, <2>2, <2>3 DEF WhenCommand
<1>4. AllDone
  BY <1>1 DEF WhenIdle
<1> QED BY <1>1, <1>2, <1>3, <1>4, PhaseAlone

(* A card without power has lost its queues and keeps its blocks.          *)
LEMMA BlankIs ==
    ASSUME NEW c \in HeldCards
    PROVE  /\ Blank(c) \in HeldCards /\ Blank(c).bytes = c.bytes
           /\ Blank(c).tx = <<>> /\ Blank(c).rx = <<>>
           /\ Blank(c).reading = FALSE /\ Blank(c).writing = "no"
<1>1. <<>> \in Seq(Byte)
  OBVIOUS
<1>2. Blank(c) = [Queued(c, <<>>, <<>>) EXCEPT !.status = 0, !.reading = FALSE, !.writing = "no"]
  BY DEF Blank, Queued, HeldCards
<1>3. /\ Queued(c, <<>>, <<>>) \in HeldCards /\ Queued(c, <<>>, <<>>).bytes = c.bytes
      /\ Queued(c, <<>>, <<>>).tx = <<>> /\ Queued(c, <<>>, <<>>).rx = <<>>
  BY <1>1, QueuedIs
<1> QED BY <1>2, <1>3 DEF HeldCards

(* It is kept when the power is lost (nile_spi_tf_reset).                  *)
LEMMA PowerCycleKeeps ==
    ASSUME CardInv, PowerCycle
    PROVE  CardInv' /\ card'.bytes = card.bytes
<1>1. /\ card \in HeldCards /\ card' = Blank(card) /\ job' = NoJob /\ phase' = "idle"
      /\ clocked' = 0 /\ blocksDone' = 0 /\ arrived' = <<>>
  BY DEF CardInv, CardTypes, PowerCycle, TfReset, Enter
<1>2. /\ card' \in HeldCards /\ card'.bytes = card.bytes /\ card'.tx = <<>> /\ card'.rx = <<>>
      /\ card'.reading = FALSE /\ card'.writing = "no"
  BY <1>1, BlankIs
<1>3. CardTypes'
  BY <1>1, <1>2 DEF CardTypes, Phases, NoJob
<1>4. WhenIdle'
  BY <1>1, <1>2 DEF WhenIdle, Listens, Silent, AllDone, NoJob
<1> QED BY <1>1, <1>2, <1>3, <1>4, PhaseAlone

(* By the bytes behind a status.                                           *)
LEMMA TakeTrailerKeeps ==
    ASSUME CardInv, TakeTrailer
    PROVE  CardInv' /\ card'.bytes = card.bytes
<1>1. /\ CardTypes /\ WhenTrailer /\ TfExchange(FillByte) /\ phase = "trailer"
      /\ IF clocked < 3 THEN phase' = phase /\ clocked' = clocked + 1
                        ELSE phase' = "idle" /\ clocked' = 0
      /\ job' = job /\ blocksDone' = blocksDone /\ arrived' = arrived
  BY DEF CardInv, TakeTrailer, GoOn, Enter
<1>2. /\ card \in HeldCards /\ card.rx = <<>> /\ card.writing = "no" /\ ~card.reading
      /\ blocksDone = job.count /\ clocked <= 3 /\ Len(card.tx) = 4 - clocked
      /\ clocked \in Nat /\ blocksDone \in 0 .. job.count /\ job \in Jobs /\ arrived = <<>>
  BY <1>1 DEF CardTypes, WhenTrailer, Listens, AllDone
<1>3. /\ card' \in HeldCards /\ card'.tx = Pop(card.tx, 1) /\ card'.rx = <<>>
      /\ card'.writing = "no" /\ card'.reading = FALSE /\ card'.bytes = card.bytes
  BY <1>1, <1>2, Quiet
<1>4. card.tx \in Seq(Byte)
  BY <1>2 DEF HeldCards
<1>5. CardTypes'
  BY <1>1, <1>2, <1>3, TypesKept DEF Phases
<1>6. Listens' /\ ~card'.reading /\ AllDone'
  BY <1>1, <1>2, <1>3 DEF Listens, AllDone
<1>7. CASE clocked < 3
  <2>1. Len(card'.tx) = 4 - clocked' /\ clocked' <= 3
    <3>1. card.tx # <<>>
      BY <1>2, <1>4, <1>7
    <3> QED BY <1>1, <1>2, <1>3, <1>4, <1>7, <3>1, PopOne
  <2> QED BY <1>1, <1>3, <1>5, <1>6, <1>7, <2>1, PhaseAlone DEF WhenTrailer
<1>8. CASE ~(clocked < 3)
  <2>1. Len(card.tx) = 1
    BY <1>2, <1>8
  <2>2. Silent'
    BY <1>3, <1>4, <2>1, PopOne DEF Silent
  <2> QED BY <1>1, <1>3, <1>5, <1>6, <1>8, <2>2, PhaseAlone DEF WhenIdle
<1> QED BY <1>7, <1>8

(* By the byte that is to be skipped behind a stop.                        *)
LEMMA SkipByteKeeps ==
    ASSUME CardInv, SkipByte
    PROVE  CardInv' /\ card'.bytes = card.bytes
<1>1. /\ CardTypes /\ WhenStopped /\ TfExchange(FillByte) /\ phase = "skip"
      /\ phase' = "delay" /\ clocked' = 0
      /\ job' = job /\ blocksDone' = blocksDone /\ arrived' = arrived
  BY DEF CardInv, SkipByte, Enter
<1>2. /\ card \in HeldCards /\ card.rx = <<>> /\ card.writing = "no" /\ ~card.reading
      /\ blocksDone = job.count /\ Len(card.tx) = StopBusy + 4 /\ EndsStop(card.tx)
      /\ blocksDone \in 0 .. job.count /\ job \in Jobs /\ arrived = <<>>
  BY <1>1 DEF CardTypes, WhenStopped, Listens, AllDone
<1>3. /\ card' \in HeldCards /\ card'.tx = Pop(card.tx, 1) /\ card'.rx = <<>>
      /\ card'.writing = "no" /\ card'.reading = FALSE /\ card'.bytes = card.bytes
  BY <1>1, <1>2, Quiet
<1>4. card.tx \in Seq(Byte) /\ StopBusy \in Nat
  BY <1>2, CardConstants DEF HeldCards
<1>5. CardTypes'
  BY <1>1, <1>2, <1>3, TypesKept DEF Phases
<1>6. Listens' /\ ~card'.reading /\ AllDone'
  BY <1>1, <1>2, <1>3 DEF Listens, AllDone
<1>7. EndsStop(card'.tx) /\ Len(card'.tx) = StopBusy + 3
  <2>1. card.tx # <<>>
    BY <1>2, <1>4
  <2> QED BY <1>2, <1>3, <1>4, <2>1, PopOne, EndsOn
<1>8. WhenStopped'
  BY <1>1, <1>6, <1>7 DEF WhenStopped
<1> QED BY <1>1, <1>3, <1>5, <1>8, PhaseAlone

(* By the busy bytes behind a stop.                                        *)
LEMMA AwaitReadyKeeps ==
    ASSUME CardInv, AwaitReady
    PROVE  CardInv' /\ card'.bytes = card.bytes
<1>1. /\ CardTypes /\ WhenStopped /\ TfExchange(FillByte) /\ phase = "busy"
      /\ IF First(card.tx) = 255 THEN phase' = "idle" /\ clocked' = 0
                                 ELSE phase' = phase /\ clocked' = clocked
      /\ job' = job /\ blocksDone' = blocksDone /\ arrived' = arrived
  BY DEF CardInv, AwaitReady, Enter, Stay, TfAnswer, FillByte
<1>2. /\ card \in HeldCards /\ card.rx = <<>> /\ card.writing = "no" /\ ~card.reading
      /\ blocksDone = job.count /\ Len(card.tx) \in 1 .. StopBusy + 1 /\ EndsStop(card.tx)
      /\ clocked \in Nat /\ blocksDone \in 0 .. job.count /\ job \in Jobs /\ arrived = <<>>
  BY <1>1 DEF CardTypes, WhenStopped, Listens, AllDone
<1>3. /\ card' \in HeldCards /\ card'.tx = Pop(card.tx, 1) /\ card'.rx = <<>>
      /\ card'.writing = "no" /\ card'.reading = FALSE /\ card'.bytes = card.bytes
  BY <1>1, <1>2, Quiet
<1>4. card.tx \in Seq(Byte) /\ StopBusy \in Nat
  BY <1>2, CardConstants DEF HeldCards
<1>5. CardTypes'
  BY <1>1, <1>2, <1>3, TypesKept DEF Phases
<1>6. Listens' /\ ~card'.reading /\ AllDone'
  BY <1>1, <1>2, <1>3 DEF Listens, AllDone
<1>7. /\ EndsStop(card'.tx) /\ Len(card'.tx) = Len(card.tx) - 1
      /\ First(card.tx) = StopByte(Len(card.tx) - 1)
  <2>1. card.tx # <<>>
    BY <1>2, <1>4
  <2> QED BY <1>2, <1>3, <1>4, <2>1, PopOne, EndsOn
<1>8. CASE Len(card.tx) = 1
  <2>1. First(card.tx) = 255
    BY <1>7, <1>8 DEF StopByte
  <2>2. Silent'
    BY <1>3, <1>4, <1>8, PopOne DEF Silent
  <2> QED BY <1>1, <1>3, <1>5, <1>6, <2>1, <2>2, PhaseAlone DEF WhenIdle
<1>9. CASE Len(card.tx) # 1
  <2>1. First(card.tx) # 255
    BY <1>2, <1>4, <1>7, <1>9 DEF StopByte
  <2>2. Len(card'.tx) \in 1 .. StopBusy + 1
    <3>1. \A k \in 1 .. StopBusy + 1 : k # 1 => k - 1 \in 1 .. StopBusy + 1
      BY <1>4
    <3>2. Len(card.tx) - 1 \in 1 .. StopBusy + 1
      BY ONLY <1>2, <1>9, <3>1
    <3> QED BY <1>7, <3>2
  <2>3. WhenStopped'
    BY <1>1, <1>6, <1>7, <2>1, <2>2 DEF WhenStopped
  <2> QED BY <1>1, <1>3, <1>5, <2>1, <2>3, PhaseAlone
<1> QED BY <1>8, <1>9

(* By the status of a stop.                                                *)
LEMMA AwaitDelayKeeps ==
    ASSUME CardInv, AwaitAnswer, phase = "delay"
    PROVE  CardInv' /\ card'.bytes = card.bytes
<1>1. /\ CardTypes /\ WhenStopped /\ TfExchange(FillByte)
      /\ IF First(card.tx) = 255 THEN phase' = phase /\ clocked' = clocked
                                 ELSE phase' = "busy" /\ clocked' = 0
      /\ job' = job /\ blocksDone' = blocksDone /\ arrived' = arrived
  BY DEF CardInv, AwaitAnswer, Enter, Stay, TfAnswer, FillByte, Awaited
<1>2. /\ card \in HeldCards /\ card.rx = <<>> /\ card.writing = "no" /\ ~card.reading
      /\ blocksDone = job.count /\ Len(card.tx) \in {StopBusy + 2, StopBusy + 3}
      /\ EndsStop(card.tx)
      /\ clocked \in Nat /\ blocksDone \in 0 .. job.count /\ job \in Jobs /\ arrived = <<>>
  BY <1>1 DEF CardTypes, WhenStopped, Listens, AllDone
<1>3. /\ card' \in HeldCards /\ card'.tx = Pop(card.tx, 1) /\ card'.rx = <<>>
      /\ card'.writing = "no" /\ card'.reading = FALSE /\ card'.bytes = card.bytes
  BY <1>1, <1>2, Quiet
<1>4. card.tx \in Seq(Byte) /\ StopBusy \in Nat
  BY <1>2, CardConstants DEF HeldCards
<1>5. CardTypes'
  BY <1>1, <1>2, <1>3, TypesKept DEF Phases
<1>6. Listens' /\ ~card'.reading /\ AllDone'
  BY <1>1, <1>2, <1>3 DEF Listens, AllDone
<1>7. /\ EndsStop(card'.tx) /\ Len(card'.tx) = Len(card.tx) - 1
      /\ First(card.tx) = StopByte(Len(card.tx) - 1)
  <2>1. card.tx # <<>>
    BY <1>2, <1>4
  <2> QED BY <1>2, <1>3, <1>4, <2>1, PopOne, EndsOn
<1>8. CASE Len(card.tx) = StopBusy + 2
  <2>1. First(card.tx) # 255 /\ Len(card'.tx) \in 1 .. StopBusy + 1
    <3>1. Len(card.tx) - 1 = StopBusy + 1 /\ StopBusy + 1 \in 1 .. StopBusy + 1
      BY <1>4, <1>8
    <3>2. StopByte(StopBusy + 1) # 255
      BY ONLY <1>4 DEF StopByte
    <3> QED BY ONLY <1>7, <3>1, <3>2
  <2>2. WhenStopped'
    BY <1>1, <1>6, <1>7, <2>1 DEF WhenStopped
  <2> QED BY <1>1, <1>3, <1>5, <2>1, <2>2, PhaseAlone
<1>9. CASE Len(card.tx) = StopBusy + 3
  <2>1. First(card.tx) = 255 /\ Len(card'.tx) = StopBusy + 2
    <3>1. Len(card.tx) - 1 = StopBusy + 2
      BY <1>4, <1>9
    <3>2. StopByte(StopBusy + 2) = 255
      BY ONLY <1>4 DEF StopByte
    <3> QED BY ONLY <1>7, <3>1, <3>2
  <2>2. WhenStopped'
    BY <1>1, <1>6, <1>7, <2>1 DEF WhenStopped
  <2> QED BY <1>1, <1>3, <1>5, <2>1, <2>2, PhaseAlone
<1> QED BY <1>2, <1>8, <1>9

(* While a block is awaited or taken, and in the answer before it.         *)
LEMMA ReadStays ==
    ASSUME CardTypes, ReadGoesOn, TfExchange(FillByte), Len(card.tx) >= 2, job' = job,
           blocksDone' = blocksDone
    PROVE  /\ card' \in HeldCards /\ card'.tx = Pop(card.tx, 1)
           /\ Len(card'.tx) = Len(card.tx) - 1 /\ First(card.tx) = card.tx[1]
           /\ card.tx \in Seq(Byte)
           /\ card'.bytes = card.bytes
           /\ ReadGoesOn' /\ Due' = Due
<1>1. /\ card \in HeldCards /\ card.rx = <<>> /\ card.writing = "no" /\ card.tx \in Seq(Byte)
  BY DEF CardTypes, ReadGoesOn, Listens, HeldCards
<1>2. /\ card' \in HeldCards /\ card'.tx = Pop(card.tx, 1) /\ card'.rx = <<>>
      /\ card'.writing = "no" /\ card'.reading = card.reading /\ card'.bytes = card.bytes
      /\ card'.pos = card.pos /\ card'.eof = card.eof
  BY <1>1, Quiet
<1>3. card.tx # <<>>
  OBVIOUS
<1>4. Len(card'.tx) = Len(card.tx) - 1 /\ First(card.tx) = card.tx[1]
  BY <1>1, <1>2, <1>3, PopOne
<1>5. ReadGoesOn'
  BY <1>2 DEF ReadGoesOn, Listens, AllDone
<1>6. Due' = Due
  BY <1>2 DEF Due, BlockAt
<1> QED BY <1>1, <1>2, <1>4, <1>5, <1>6

(* The next byte of an answer that ends with a block.                      *)
LEMMA FirstCarried ==
    ASSUME NEW q \in Seq(Byte), NEW d, Carries(q, d), Len(q) >= 3
    PROVE  q[1] = ReadByte(d, Len(q) - 1)
<1>1. 1 \in 1 .. Len(q) - 2
  OBVIOUS
<1> QED BY <1>1 DEF Carries

(* By the fill bytes in front of a token, and the token.                   *)
LEMMA AwaitTokenKeeps ==
    ASSUME CardInv, AwaitAnswer, phase = "token"
    PROVE  CardInv' /\ card'.bytes = card.bytes
<1>1. /\ CardTypes /\ WhenToken /\ TfExchange(FillByte)
      /\ IF First(card.tx) = 255 THEN phase' = phase /\ clocked' = clocked
                                 ELSE phase' = "block" /\ clocked' = 0
      /\ job' = job /\ blocksDone' = blocksDone /\ arrived' = arrived
  BY DEF CardInv, AwaitAnswer, Enter, Stay, TfAnswer, FillByte, Awaited
<1>2. /\ card \in HeldCards /\ ReadGoesOn /\ Len(card.tx) >= DataLen + 3
      /\ Carries(card.tx, Due)
      /\ clocked \in Nat /\ blocksDone \in 0 .. job.count /\ job \in Jobs /\ arrived = <<>>
  BY <1>1 DEF CardTypes, WhenToken
<1>3. DataLen \in Nat \ {0} /\ card.tx \in Seq(Byte) /\ Len(card.tx) \in Nat
  BY <1>2, CardConstants DEF HeldCards
<1>4. Len(card.tx) >= 3 /\ Len(card.tx) >= 2 /\ card.tx # <<>>
  BY <1>2, <1>3
<1>5. /\ card' \in HeldCards /\ card'.tx = Pop(card.tx, 1)
      /\ Len(card'.tx) = Len(card.tx) - 1 /\ First(card.tx) = card.tx[1]
      /\ card'.bytes = card.bytes
      /\ ReadGoesOn' /\ Due' = Due
  BY <1>1, <1>2, <1>4, ReadStays
<1>6. Carries(card'.tx, Due)
  BY <1>2, <1>3, <1>4, <1>5, CarryOn
<1>7. First(card.tx) = ReadByte(Due, Len(card.tx) - 1)
  BY <1>2, <1>3, <1>4, <1>5, FirstCarried
<1>8. CardTypes'
  BY <1>1, <1>2, <1>5, TypesKept DEF Phases
<1>9. CASE Len(card.tx) = DataLen + 3
  <2>1. First(card.tx) # 255 /\ Len(card'.tx) = DataLen + 2
    <3>1. Len(card.tx) - 1 = DataLen + 2
      BY <1>3, <1>9
    <3>2. ReadByte(Due, DataLen + 2) = 254
      BY ONLY <1>3 DEF ReadByte
    <3> QED BY ONLY <1>5, <1>7, <3>1, <3>2
  <2>2. WhenBlock'
    <3>1. clocked' = 0 /\ arrived' = <<>>
      BY <1>1, <1>2, <2>1
    <3>2. clocked' <= DataLen + 1 /\ Len(card'.tx) = DataLen + 2 - clocked'
      BY <1>3, <2>1, <3>1
    <3>3. arrived' \in Seq(Byte) /\ Len(arrived') = clocked' /\ \A i \in 1 .. clocked' : FALSE
      BY <3>1
    <3> QED BY <1>5, <1>6, <3>2, <3>3 DEF WhenBlock
  <2> QED BY <1>1, <1>5, <1>8, <2>1, <2>2, PhaseAlone
<1>10. CASE Len(card.tx) # DataLen + 3
  <2>1. First(card.tx) = 255 /\ Len(card'.tx) >= DataLen + 3
    <3>1. Len(card.tx) - 1 > DataLen + 2 /\ Len(card.tx) - 1 >= DataLen + 3
      BY <1>2, <1>3, <1>10
    <3>2. ReadByte(Due, Len(card.tx) - 1) = 255
      BY ONLY <3>1 DEF ReadByte
    <3> QED BY ONLY <1>5, <1>7, <3>1, <3>2
  <2>2. WhenToken'
    BY <1>5, <1>6, <2>1 DEF WhenToken
  <2> QED BY <1>1, <1>5, <1>8, <2>1, <2>2, PhaseAlone
<1> QED BY <1>9, <1>10

(* By the bytes of a block.                                                *)
LEMMA TakeByteKeeps ==
    ASSUME CardInv, TakeByte
    PROVE  CardInv' /\ card'.bytes = card.bytes
<1>1. /\ CardTypes /\ WhenBlock /\ TfExchange(FillByte) /\ phase = "block"
      /\ phase' = phase /\ clocked' = clocked + 1 /\ clocked < DataLen + 1
      /\ job' = job /\ blocksDone' = blocksDone /\ arrived' = Append(arrived, First(card.tx))
  BY DEF CardInv, TakeByte, GoOn, TfAnswer
<1>2. /\ card \in HeldCards /\ ReadGoesOn /\ Len(card.tx) = DataLen + 2 - clocked
      /\ Carries(card.tx, Due)
      /\ arrived \in Seq(Byte) /\ Len(arrived) = clocked
      /\ \A i \in 1 .. clocked : i <= DataLen => arrived[i] = Due[i]
      /\ clocked \in Nat /\ blocksDone \in 0 .. job.count /\ job \in Jobs
  BY <1>1 DEF CardTypes, WhenBlock
<1>3. DataLen \in Nat \ {0} /\ card.tx \in Seq(Byte) /\ Len(card.tx) \in Nat
  BY <1>2, CardConstants DEF HeldCards
<1>4. Len(card.tx) >= 2 /\ card.tx # <<>>
  BY <1>1, <1>2, <1>3
<1>5. /\ card' \in HeldCards /\ card'.tx = Pop(card.tx, 1)
      /\ Len(card'.tx) = Len(card.tx) - 1 /\ First(card.tx) = card.tx[1]
      /\ card'.bytes = card.bytes
      /\ ReadGoesOn' /\ Due' = Due
  BY <1>1, <1>2, <1>4, ReadStays
<1>6. Carries(card'.tx, Due)
  BY <1>2, <1>3, <1>4, <1>5, CarryOn
<1>7. CardTypes'
  BY <1>1, <1>2, <1>5, TypesKept DEF Phases
<1>8. First(card.tx) \in Byte
  <2>1. 1 \in 1 .. Len(card.tx)
    BY <1>3, <1>4
  <2> QED BY ONLY <1>3, <1>5, <2>1
<1>9. ASSUME clocked + 1 <= DataLen PROVE First(card.tx) = Due[clocked + 1]
  <2>1. /\ Len(card.tx) - 1 = DataLen + 1 - clocked /\ Len(card.tx) >= 3
        /\ ~(DataLen + 1 - clocked > DataLen + 2) /\ DataLen + 1 - clocked # DataLen + 2
        /\ DataLen + 2 - (DataLen + 1 - clocked) = clocked + 1
    BY <1>2, <1>3, <1>9
  <2>2. First(card.tx) = ReadByte(Due, DataLen + 1 - clocked)
    BY <1>2, <1>3, <1>5, <2>1, FirstCarried
  <2>3. ReadByte(Due, DataLen + 1 - clocked) = Due[clocked + 1]
    BY ONLY <2>1 DEF ReadByte
  <2> QED BY <2>2, <2>3
<1>10. /\ arrived' \in Seq(Byte) /\ Len(arrived') = clocked + 1
       /\ arrived'[clocked + 1] = First(card.tx)
       /\ \A i \in 1 .. clocked : arrived'[i] = arrived[i]
  BY ONLY <1>1, <1>2, <1>8, AppendProperties
<1>11. ASSUME NEW i \in 1 .. clocked + 1, i <= DataLen PROVE arrived'[i] = Due[i]
  <2>1. CASE i = clocked + 1
    BY <1>9, <1>10, <1>11, <2>1
  <2>2. CASE i # clocked + 1
    <3>1. i \in 1 .. clocked
      BY <1>2, <2>2
    <3> QED BY <1>2, <1>10, <1>11, <3>1
  <2> QED BY <2>1, <2>2
<1>12. WhenBlock'
  <2>1. clocked' <= DataLen + 1 /\ Len(card'.tx) = DataLen + 2 - clocked'
    BY <1>1, <1>2, <1>3, <1>5
  <2>2. \A i \in 1 .. clocked' : i <= DataLen => arrived'[i] = Due'[i]
    BY <1>1, <1>5, <1>11
  <2> QED BY <1>1, <1>5, <1>6, <1>10, <2>1, <2>2 DEF WhenBlock
<1> QED BY <1>1, <1>5, <1>7, <1>12, PhaseAlone

(* By the last of them, and what was taken is the block that is due.       *)
LEMMA TakeLastKeeps ==
    ASSUME CardInv, TakeLast
    PROVE  /\ CardInv' /\ card'.bytes = card.bytes
           /\ delivered' = [at |-> job.at + blocksDone, data |-> Due]
           /\ job.cmd \in Reads /\ blocksDone < job.count
<1>1. /\ CardTypes /\ WhenBlock /\ TfExchange(FillByte) /\ phase = "block"
      /\ clocked = DataLen + 1 /\ clocked' = 0
      /\ phase' = IF blocksDone + 1 < job.count THEN "token"
                  ELSE IF job.cmd = 17 THEN "idle" ELSE "stop"
      /\ job' = job /\ blocksDone' = blocksDone + 1 /\ arrived' = <<>>
      /\ delivered' = [at |-> job.at + blocksDone, data |-> SubSeq(arrived, 1, DataLen)]
  BY DEF CardInv, TakeLast, Enter
<1>2. /\ card \in HeldCards /\ ReadGoesOn /\ Len(card.tx) = DataLen + 2 - clocked
      /\ arrived \in Seq(Byte) /\ Len(arrived) = clocked
      /\ \A i \in 1 .. clocked : i <= DataLen => arrived[i] = Due[i]
      /\ clocked \in Nat /\ blocksDone \in 0 .. job.count /\ job \in Jobs
  BY <1>1 DEF CardTypes, WhenBlock
<1>3. DataLen \in Nat \ {0} /\ card.tx \in Seq(Byte)
  BY <1>2, CardConstants DEF HeldCards
<1>4. /\ card.rx = <<>> /\ card.writing = "no" /\ job.cmd \in {17, 18} /\ blocksDone # job.count
      /\ card.reading = (job.cmd = 18)
      /\ job.cmd = 18 => card.pos = (job.at + blocksDone + 1) * DataLen /\ ~card.eof
  BY <1>2 DEF ReadGoesOn, Listens, AllDone, Reads
<1>5. Len(card.tx) = 1
  BY <1>1, <1>2, <1>3
<1>6. /\ job.count \in Nat /\ job.at \in Nat /\ blocksDone \in Nat /\ blocksDone < job.count
      /\ (job.cmd = 17 => job.count = 1)
      /\ \A k \in 0 .. job.count - 1 : job.at + k \in 0 .. Blocks - 1
  <2>1. job.cmd \in Reads \cup Writes
    BY <1>4 DEF Reads
  <2>2. job.count \in Nat
    BY <1>2, JobIs
  <2>3. blocksDone \in Nat /\ blocksDone < job.count
    BY <1>2, <1>4, <2>2
  <2> QED BY <1>2, <2>1, <2>2, <2>3, JobIs
<1>7. SubSeq(arrived, 1, DataLen) = Due
  <2>1. 1 \in 1 .. Len(arrived) + 1 /\ DataLen \in 0 .. Len(arrived) /\ DataLen <= Len(arrived)
    BY <1>1, <1>2, <1>3
  <2>2. SubSeq(arrived, 1, DataLen) = [i \in 1 .. DataLen |-> arrived[i]]
    BY <1>2, <1>3, <2>1
  <2>3. \A i \in 1 .. DataLen : arrived[i] = Due[i]
    BY <1>1, <1>2, <1>3
  <2>4. Due = [i \in 1 .. DataLen |-> Due[i]]
    BY DEF Due, BlockAt
  <2> HIDE DEF Due
  <2> QED BY ONLY <2>2, <2>3, <2>4
<1>8. /\ blocksDone' \in 0 .. job.count /\ phase' \in Phases /\ phase' # "block"
  BY <1>1, <1>4, <1>6 DEF Phases
<1>9. CASE job.cmd = 17
  <2>0. ~card.reading
    <3>1. ~(job.cmd = 18)
      BY ONLY <1>9
    <3>2. card.reading = (job.cmd = 18)
      BY ONLY <1>4
    <3> QED BY ONLY <3>1, <3>2, Zenon
  <2>1. /\ card' \in HeldCards /\ card'.tx = Pop(card.tx, 1) /\ card'.rx = <<>>
        /\ card'.writing = "no" /\ card'.reading = card.reading
        /\ card'.bytes = card.bytes
    BY ONLY <1>1, <1>2, <1>4, <2>0, Quiet
  <2>2. CardTypes'
    BY <1>1, <1>2, <1>8, <2>1, TypesKept
  <2>3. phase' = "idle" /\ blocksDone' = job'.count
    BY <1>1, <1>6, <1>9
  <2>4. card'.tx = <<>>
    BY <1>3, <1>5, <2>1, PopOne
  <2>5. WhenIdle'
    <3>1. ~card'.reading
      BY ONLY <2>0, <2>1
    <3> QED BY ONLY <2>1, <2>3, <2>4, <3>1 DEF WhenIdle, Listens, Silent, AllDone
  <2>6. CardInv'
    BY <2>2, <2>3, <2>5, PhaseAlone
  <2> QED BY <1>1, <1>4, <1>6, <1>7, <2>1, <2>6 DEF Reads
<1>10. CASE job.cmd = 18
  <2>1. /\ card' \in HeldCards /\ card'.rx = <<>> /\ card'.writing = "no"
        /\ card'.reading /\ card'.bytes = card.bytes
        /\ \A a \in 0 .. Blocks - 1 : ~card.eof /\ card.pos = a * DataLen =>
                 /\ card'.pos = (a + 1) * DataLen /\ ~card'.eof
                 /\ Len(card'.tx) = DataLen + 3 /\ Carries(card'.tx, BlockOf(card, a))
    BY <1>1, <1>2, <1>4, <1>5, <1>10, NextBlock
  <2>2. CardTypes'
    BY <1>1, <1>2, <1>8, <2>1, TypesKept
  <2>3. ASSUME blocksDone + 1 < job.count PROVE CardInv'
    <3> DEFINE a == job.at + (blocksDone + 1)
    <3>1. a \in 0 .. Blocks - 1
      <4>1. blocksDone + 1 \in 0 .. job.count - 1
        BY <1>6, <2>3
      <4> QED BY <1>6, <4>1
    <3>2. /\ a = job.at + blocksDone + 1 /\ a = job'.at + blocksDone'
          /\ a + 1 = job'.at + blocksDone' + 1
      BY <1>1, <1>6
    <3> HIDE DEF a
    <3>3. card.pos = a * DataLen /\ ~card.eof
      BY <1>4, <1>10, <3>2
    <3>4. /\ card'.pos = (a + 1) * DataLen /\ ~card'.eof
          /\ Len(card'.tx) = DataLen + 3 /\ Carries(card'.tx, BlockOf(card, a))
      BY ONLY <2>1, <3>1, <3>3
    <3>5. Due' = BlockOf(card, a)
      BY <2>1, <3>2 DEF Due, BlockAt, BlockOf
    <3>6. blocksDone' # job'.count
      BY <1>1, <1>6, <2>3
    <3>7. ReadGoesOn'
      BY <1>1, <1>10, <2>1, <3>2, <3>4, <3>6 DEF ReadGoesOn, Listens, AllDone, Reads
    <3>8. WhenToken'
      <4>1. Len(card'.tx) >= DataLen + 3
        BY <1>3, <3>4
      <4>2. Carries(card'.tx, Due')
        BY <3>4, <3>5
      <4> QED BY <3>7, <4>1, <4>2 DEF WhenToken
    <3>9. phase' = "token"
      BY <1>1, <2>3
    <3> QED BY <2>2, <3>8, <3>9, PhaseAlone
  <2>4. ASSUME ~(blocksDone + 1 < job.count) PROVE CardInv'
    <3>1. phase' = "stop" /\ blocksDone' = job'.count
      BY <1>1, <1>6, <1>10, <2>4
    <3>2. BeginsWith(card.rx, CommandFrame)'
      BY <1>1, <2>1 DEF BeginsWith
    <3>3. WhenStop'
      BY <1>1, <2>1, <3>1, <3>2 DEF WhenStop, AllDone
    <3> QED BY <2>2, <3>1, <3>3, PhaseAlone
  <2>5. CardInv'
    BY ONLY <2>3, <2>4
  <2> QED BY <1>1, <1>4, <1>6, <1>7, <2>1, <2>5 DEF Reads
<1> QED BY <1>4, <1>9, <1>10

(* By a status that is all of the answer, or has a trailer.                *)
LEMMA AwaitAnswerOfOthers ==
    ASSUME CardInv, AwaitAnswer, phase = "answer", job.cmd \notin Reads \cup Writes
    PROVE  CardInv' /\ card'.bytes = card.bytes
<1>1. /\ CardTypes /\ WhenAnswer /\ TfExchange(FillByte)
      /\ IF First(card.tx) = 255 THEN phase' = phase /\ clocked' = clocked
         ELSE phase' = (IF job.cmd = 8 THEN "trailer" ELSE "idle") /\ clocked' = 0
      /\ job' = job /\ blocksDone' = blocksDone /\ arrived' = arrived
  BY DEF CardInv, AwaitAnswer, Enter, Stay, TfAnswer, FillByte, Awaited, Interface
<1>2. /\ card \in HeldCards /\ card.rx = <<>> /\ card.writing = "no" /\ ~card.reading
      /\ blocksDone = job.count /\ card.tx # <<>> /\ card.tx[1] # 255
      /\ Len(card.tx) = (IF job.cmd = 8 THEN 5 ELSE 1)
      /\ clocked \in Nat /\ blocksDone \in 0 .. job.count /\ job \in Jobs /\ arrived = <<>>
  BY <1>1 DEF CardTypes, WhenAnswer, Listens, AllDone
<1>3. /\ card' \in HeldCards /\ card'.tx = Pop(card.tx, 1) /\ card'.rx = <<>>
      /\ card'.writing = "no" /\ card'.reading = FALSE /\ card'.bytes = card.bytes
  BY <1>1, <1>2, Quiet
<1>4. card.tx \in Seq(Byte)
  BY <1>2 DEF HeldCards
<1>5. CardTypes'
  BY <1>1, <1>2, <1>3, TypesKept DEF Phases
<1>6. Listens' /\ ~card'.reading /\ AllDone'
  BY <1>1, <1>2, <1>3 DEF Listens, AllDone
<1>7. First(card.tx) # 255 /\ Len(card'.tx) = Len(card.tx) - 1
  BY <1>2, <1>3, <1>4, PopOne
<1>8. CASE job.cmd = 8
  <2>1. WhenTrailer'
    <3>1. clocked' = 0 /\ Len(card'.tx) = 4
      BY <1>1, <1>2, <1>7, <1>8
    <3>2. clocked' <= 3 /\ Len(card'.tx) = 4 - clocked'
      BY <3>1
    <3> QED BY <1>6, <3>2 DEF WhenTrailer
  <2> QED BY <1>1, <1>3, <1>5, <1>7, <1>8, <2>1, PhaseAlone
<1>9. CASE job.cmd # 8
  <2>1. Silent'
    BY <1>2, <1>3, <1>4, <1>9, PopOne DEF Silent
  <2> QED BY <1>1, <1>3, <1>5, <1>6, <1>7, <1>9, <2>1, PhaseAlone DEF WhenIdle
<1> QED BY <1>8, <1>9

(* By the status that comes before a block.                                *)
LEMMA AwaitAnswerOfReads ==
    ASSUME CardInv, AwaitAnswer, phase = "answer", job.cmd \in Reads
    PROVE  CardInv' /\ card'.bytes = card.bytes
<1>1. /\ CardTypes /\ WhenAnswer /\ TfExchange(FillByte)
      /\ IF First(card.tx) = 255 THEN phase' = phase /\ clocked' = clocked
         ELSE phase' = "token" /\ clocked' = 0
      /\ job' = job /\ blocksDone' = blocksDone /\ arrived' = arrived
  BY DEF CardInv, AwaitAnswer, Enter, Stay, TfAnswer, FillByte, Awaited
<1>2. /\ card \in HeldCards /\ ReadGoesOn /\ card.tx # <<>> /\ card.tx[1] # 255
      /\ Len(card.tx) = ReadDelay + DataLen + 3 /\ Carries(Pop(card.tx, 1), Due)
      /\ clocked \in Nat /\ blocksDone \in 0 .. job.count /\ job \in Jobs /\ arrived = <<>>
  BY <1>1 DEF CardTypes, WhenAnswer
<1>3. DataLen \in Nat \ {0} /\ ReadDelay \in Nat \ {0} /\ Len(card.tx) >= 2
  BY <1>2, CardConstants
<1>4. /\ card' \in HeldCards /\ card'.tx = Pop(card.tx, 1)
      /\ Len(card'.tx) = Len(card.tx) - 1 /\ First(card.tx) = card.tx[1]
      /\ card'.bytes = card.bytes
      /\ ReadGoesOn' /\ Due' = Due
  BY <1>1, <1>2, <1>3, ReadStays
<1>5. CardTypes'
  BY <1>1, <1>2, <1>4, TypesKept DEF Phases
<1>6. phase' = "token"
  BY <1>1, <1>2, <1>4
<1>7. WhenToken'
  <2>1. Len(card'.tx) >= DataLen + 3
    BY <1>2, <1>3, <1>4
  <2> QED BY <1>2, <1>4, <2>1 DEF WhenToken
<1> QED BY <1>4, <1>5, <1>6, <1>7, PhaseAlone

(* A step that leaves nothing to send and some bytes queued.               *)
LEMMA QueuedStep ==
    ASSUME card \in HeldCards, NEW r \in Seq(Byte), card' = Queued(card, r, <<>>)
    PROVE  /\ card' \in HeldCards /\ card'.rx = r /\ card'.tx = <<>>
           /\ card'.reading = card.reading /\ card'.writing = card.writing
           /\ card'.bytes = card.bytes /\ card'.pos = card.pos /\ card'.eof = card.eof
<1>1. <<>> \in Seq(Byte)
  OBVIOUS
<1>2. /\ Queued(card, r, <<>>) \in HeldCards
      /\ Queued(card, r, <<>>).rx = r /\ Queued(card, r, <<>>).tx = <<>>
      /\ Queued(card, r, <<>>).reading = card.reading
      /\ Queued(card, r, <<>>).writing = card.writing /\ Queued(card, r, <<>>).bytes = card.bytes
      /\ Queued(card, r, <<>>).pos = card.pos /\ Queued(card, r, <<>>).eof = card.eof
  BY ONLY <1>1, card \in HeldCards, r \in Seq(Byte), QueuedIs, Zenon
<1> QED BY ONLY <1>2, card' = Queued(card, r, <<>>)

(* An answer in a write lets the bytes through that are waited for.        *)
LEMMA WriteStays ==
    ASSUME CardTypes, WriteGoesOn, TfExchange(FillByte), job' = job, blocksDone' = blocksDone,
           \/ Stalled
           \/ card.rx = <<>> /\ Len(card.tx) = 1 /\ card.tx[1] # 255
    PROVE  card' \in HeldCards /\ card'.bytes = card.bytes /\ WriteGoesOn' /\ Stalled'
<1>1. PICK crc \in StackBytes : card' = AfterExchange(card, 255, crc)
  BY DEF TfExchange, FillByte
<1>2. /\ card \in HeldCards /\ Writable(card)
  <2>1. card \in HeldCards /\ card.writing # "no"
    BY DEF CardTypes, WriteGoesOn
  <2> QED BY <2>1 DEF Writable
<1>3. PICK r \in {<<>>, <<255>>} : card' = Queued(card, r, <<>>)
  <2>1. CASE Stalled
    <3>1. AfterExchange(card, 255, crc) = Queued(card, <<>>, <<>>)
      BY <1>2, <2>1, WriteStalls DEF Stalled
    <3> QED BY <1>1, <3>1
  <2>2. CASE card.rx = <<>> /\ Len(card.tx) = 1 /\ card.tx[1] # 255
    <3>1. AfterExchange(card, 255, crc) = Queued(card, <<255>>, <<>>)
      BY <1>2, <2>2, WriteAnswers
    <3> QED BY <1>1, <3>1
  <2> QED BY <2>1, <2>2
<1>4. r \in Seq(Byte) /\ <<>> \in Seq(Byte)
  <2>1. <<255>> \in Seq(Byte) /\ <<>> \in Seq(Byte)
    BY ONLY DEF Byte
  <2>2. r = <<>> \/ r = <<255>>
    OBVIOUS
  <2> QED BY ONLY <2>1, <2>2
<1>5. /\ card' \in HeldCards /\ card'.rx = r /\ card'.tx = <<>>
      /\ card'.reading = card.reading /\ card'.writing = card.writing
      /\ card'.bytes = card.bytes /\ card'.pos = card.pos /\ card'.eof = card.eof
  <2>1. card \in HeldCards /\ r \in Seq(Byte) /\ card' = Queued(card, r, <<>>)
    BY ONLY <1>2, <1>3, <1>4
  <2> QED BY ONLY <2>1, QueuedStep, Zenon
<1>6. WriteGoesOn'
  BY <1>5 DEF WriteGoesOn
<1>7. Stalled'
  BY <1>3, <1>5 DEF Stalled
<1> QED BY <1>5, <1>6, <1>7

(* By the status after which a block is sent.                              *)
LEMMA AwaitAnswerOfWrites ==
    ASSUME CardInv, AwaitAnswer, phase = "answer", job.cmd \in Writes
    PROVE  CardInv' /\ card'.bytes = card.bytes
<1>0. job.cmd \notin Reads /\ job.cmd # 8
  BY DEF Reads, Writes
<1>1. /\ CardTypes /\ WhenAnswer /\ TfExchange(FillByte)
      /\ job' = job /\ blocksDone' = blocksDone /\ arrived' = arrived
  BY DEF CardInv, AwaitAnswer
<1>2. /\ card \in HeldCards /\ WriteGoesOn /\ ~AllDone /\ card.rx = <<>> /\ Len(card.tx) = 1
      /\ card.tx[1] # 255 /\ card.tx # <<>>
      /\ clocked \in Nat /\ blocksDone \in 0 .. job.count /\ job \in Jobs /\ arrived = <<>>
  BY <1>0, <1>1 DEF CardTypes, WhenAnswer
<1>3. First(card.tx) # 255
  <2>1. card.tx \in Seq(Byte)
    BY <1>2 DEF HeldCards
  <2> QED BY <1>2, <2>1, PopOne
<1>4. phase' = "data" /\ clocked' = 0
  <2>1. blocksDone < job.count
    <3>1. job.count \in Nat
      BY <1>2, JobIs
    <3> QED BY <1>2, <3>1 DEF AllDone
  <2> QED BY <1>0, <1>3, <2>1 DEF AwaitAnswer, Enter, TfAnswer, FillByte, Awaited, Interface
<1>5. card' \in HeldCards /\ card'.bytes = card.bytes /\ WriteGoesOn' /\ Stalled'
  BY <1>1, <1>2, WriteStays
<1>6. CardTypes'
  BY <1>1, <1>2, <1>4, <1>5, TypesKept DEF Phases
<1>7. WhenData'
  <2>1. clocked' <= DataLen + 2
    BY <1>4, CardConstants
  <2> QED BY <1>1, <1>2, <1>4, <1>5, <2>1 DEF WhenData, AllDone
<1> QED BY <1>4, <1>5, <1>6, <1>7, PhaseAlone

-----------------------------------------------------------------------------
(* The steps of the host that write.                                       *)
LEMMA AwaitAcceptKeeps ==
    ASSUME CardInv, AwaitAnswer, phase = "accept"
    PROVE  CardInv' /\ card'.bytes = card.bytes
<1>1. /\ CardTypes /\ WhenAccept /\ TfExchange(FillByte)
      /\ job' = job /\ blocksDone' = blocksDone /\ arrived' = arrived
  BY DEF CardInv, AwaitAnswer
<1>2. /\ card \in HeldCards /\ card.rx = <<>> /\ Len(card.tx) = 1 /\ card.tx[1] # 255
      /\ job.cmd \in {24, 25} /\ clocked \in Nat /\ blocksDone \in 0 .. job.count
      /\ job \in Jobs /\ arrived = <<>>
      /\ IF job.cmd = 24 THEN Listens /\ ~card.reading /\ AllDone ELSE WriteGoesOn
  BY <1>1 DEF CardTypes, WhenAccept, Writes
<1>3. card.tx \in Seq(Byte) /\ card.tx # <<>>
  BY <1>2 DEF HeldCards
<1>4. First(card.tx) # 255
  BY <1>2, <1>3, PopOne
<1>5. /\ clocked' = 0
      /\ phase' = IF blocksDone < job.count THEN "data"
                  ELSE IF job.cmd = 25 THEN "finish" ELSE "idle"
  <2>1. job.cmd \in Writes
    BY <1>2 DEF Writes
  <2>2. Enter(Awaited)
    BY <1>4 DEF AwaitAnswer, TfAnswer, FillByte
  <2> QED BY <2>1, <2>2 DEF Enter, Awaited
<1>6. job.count \in Nat
  BY <1>2, JobIs
<1>7. CASE job.cmd = 24
  <2>1. card.writing = "no" /\ ~card.reading /\ blocksDone = job.count
    BY <1>2, <1>7 DEF Listens, AllDone
  <2>2. /\ card' \in HeldCards /\ card'.tx = Pop(card.tx, 1) /\ card'.rx = <<>>
        /\ card'.writing = "no" /\ card'.reading = FALSE /\ card'.bytes = card.bytes
    <3>1. card.reading = FALSE
      BY <1>2, <2>1 DEF HeldCards
    <3> QED BY ONLY <1>1, <1>2, <2>1, <3>1, Quiet
  <2>3. phase' = "idle"
    BY <1>5, <1>6, <1>7, <2>1
  <2>4. CardTypes'
    BY <1>1, <1>2, <1>5, <2>2, <2>3, TypesKept DEF Phases
  <2>5. card'.tx = <<>>
    BY <1>2, <1>3, <2>2, PopOne
  <2>6. WhenIdle'
    BY ONLY <1>1, <2>1, <2>2, <2>5 DEF WhenIdle, Listens, Silent, AllDone
  <2> QED BY ONLY <2>2, <2>3, <2>4, <2>6, PhaseAlone
<1>8. CASE job.cmd = 25
  <2>1. WriteGoesOn
    BY <1>2, <1>8
  <2>2. card' \in HeldCards /\ card'.bytes = card.bytes /\ WriteGoesOn' /\ Stalled'
    BY <1>1, <1>2, <2>1, WriteStays
  <2>3. ASSUME blocksDone < job.count PROVE CardInv'
    <3>1. phase' = "data" /\ clocked' = 0
      BY <1>5, <2>3
    <3>2. CardTypes'
      BY <1>1, <1>2, <2>2, <3>1, TypesKept DEF Phases
    <3>3. ~AllDone'
      BY ONLY <1>1, <1>6, <1>2, <2>3 DEF AllDone
    <3>4. clocked' <= DataLen + 2
      BY <3>1, CardConstants
    <3>5. WhenData'
      BY ONLY <2>2, <3>1, <3>3, <3>4 DEF WhenData
    <3> QED BY ONLY <3>1, <3>2, <3>5, PhaseAlone
  <2>4. ASSUME ~(blocksDone < job.count) PROVE CardInv'
    <3>1. phase' = "finish" /\ clocked' = 0
      BY <1>5, <1>8, <2>4
    <3>2. CardTypes'
      BY <1>1, <1>2, <2>2, <3>1, TypesKept DEF Phases
    <3>3. AllDone'
      BY ONLY <1>1, <1>6, <1>2, <2>4 DEF AllDone
    <3>4. WhenFinish'
      BY ONLY <1>1, <1>8, <2>2, <3>3 DEF WhenFinish
    <3> QED BY ONLY <3>1, <3>2, <3>4, PhaseAlone
  <2> QED BY ONLY <2>2, <2>3, <2>4
<1> QED BY <1>2, <1>7, <1>8

(* By every byte the host waits for.                                       *)
LEMMA AwaitAnswerKeeps ==
    ASSUME CardInv, AwaitAnswer
    PROVE  CardInv' /\ card'.bytes = card.bytes
<1>1. phase \in {"answer", "token", "accept", "delay"}
  BY DEF AwaitAnswer
<1>2. CASE phase = "answer"
  BY <1>2, AwaitAnswerOfOthers, AwaitAnswerOfReads, AwaitAnswerOfWrites
<1> QED BY <1>1, <1>2, AwaitTokenKeeps, AwaitAcceptKeeps, AwaitDelayKeeps

(* By the fill bytes between two jobs, or in front of a token.             *)
LEMMA LingerKeeps ==
    ASSUME CardInv, Linger
    PROVE  CardInv' /\ card'.bytes = card.bytes
<1>1. /\ CardTypes /\ TfExchange(FillByte)
      /\ phase \in {"idle", "finish"} \/ (phase = "data" /\ clocked = 0)
      /\ job' = job /\ phase' = phase /\ clocked' = clocked /\ blocksDone' = blocksDone
      /\ arrived' = arrived
  BY DEF CardInv, Linger, cardHostVars
<1>2. /\ card \in HeldCards /\ clocked \in Nat /\ blocksDone \in 0 .. job.count
      /\ phase # "idle" => job \in Jobs
      /\ phase # "block" /\ arrived = <<>> /\ phase \in Phases
  BY <1>1 DEF CardTypes
<1>3. ASSUME card' \in HeldCards PROVE CardTypes'
  BY <1>1, <1>2, <1>3, TypesKept
<1>4. CASE phase = "idle"
  <2>1. /\ card.rx = <<>> /\ card.writing = "no" /\ card.tx = <<>> /\ ~card.reading
        /\ blocksDone = job.count
    BY <1>4 DEF CardInv, WhenIdle, Listens, Silent, AllDone
  <2>2. /\ card' \in HeldCards /\ card'.tx = Pop(card.tx, 1) /\ card'.rx = <<>>
        /\ card'.writing = "no" /\ card'.reading = FALSE /\ card'.bytes = card.bytes
    <3>1. card.reading = FALSE
      BY <1>2, <2>1 DEF HeldCards
    <3> QED BY ONLY <1>1, <1>2, <2>1, <3>1, Quiet
  <2>3. card'.tx = <<>>
    <3>1. <<>> \in Seq(Byte)
      OBVIOUS
    <3> QED BY ONLY <2>1, <2>2, <3>1, PopOne
  <2>4. WhenIdle'
    BY ONLY <1>1, <2>1, <2>2, <2>3 DEF WhenIdle, Listens, Silent, AllDone
  <2>5. phase' = "idle"
    BY <1>1, <1>4
  <2> QED BY ONLY <1>3, <2>2, <2>4, <2>5, PhaseAlone
<1>5. CASE phase = "finish"
  <2>1. WriteGoesOn /\ AllDone /\ job.cmd = 25 /\ Stalled
    BY <1>5 DEF CardInv, WhenFinish
  <2>2. card' \in HeldCards /\ card'.bytes = card.bytes /\ WriteGoesOn' /\ Stalled'
    BY <1>1, <2>1, WriteStays
  <2>3. WhenFinish'
    BY <1>1, <2>1, <2>2 DEF WhenFinish, AllDone
  <2>4. phase' = "finish"
    BY <1>1, <1>5
  <2> QED BY ONLY <1>3, <2>2, <2>3, <2>4, PhaseAlone
<1>6. CASE phase = "data" /\ clocked = 0
  <2>1. WriteGoesOn /\ ~AllDone /\ Stalled /\ clocked <= DataLen + 2
    BY <1>6 DEF CardInv, WhenData
  <2>2. card' \in HeldCards /\ card'.bytes = card.bytes /\ WriteGoesOn' /\ Stalled'
    BY <1>1, <2>1, WriteStays
  <2>3. WhenData'
    BY <1>1, <1>6, <2>1, <2>2 DEF WhenData, AllDone
  <2>4. phase' = "data"
    BY <1>1, <1>6
  <2> QED BY ONLY <1>3, <2>2, <2>3, <2>4, PhaseAlone
<1> QED BY <1>1, <1>4, <1>5, <1>6

(* By the token that ends a write of several blocks.                       *)
LEMMA SendStopTokenKeeps ==
    ASSUME CardInv, SendStopToken
    PROVE  CardInv' /\ card'.bytes = card.bytes
<1>1. /\ CardTypes /\ WhenFinish /\ phase' = "idle" /\ clocked' = 0
      /\ job' = job /\ blocksDone' = blocksDone /\ arrived' = arrived
  BY DEF CardInv, SendStopToken, Enter
<1>2. /\ card \in HeldCards /\ card.tx = <<>> /\ card.rx \in {<<>>, <<255>>}
      /\ card.writing = "multiple" /\ ~card.reading /\ blocksDone = job.count
      /\ blocksDone \in 0 .. job.count /\ arrived = <<>> /\ job \in Jobs
  <2>1. phase = "finish"
    BY DEF SendStopToken
  <2> QED BY <1>1, <2>1 DEF CardTypes, WhenFinish, WriteGoesOn, AllDone, Stalled
<1>3. PICK crc \in StackBytes : card' = AfterExchange(card, 253, crc)
  BY DEF SendStopToken, TfExchange, StopToken
<1>4. card' = StoppedWriting(card)
  <2>1. Writable(card)
    BY <1>2 DEF Writable
  <2> QED BY <1>2, <1>3, <2>1, WriteEnds
<1>5. /\ card' \in HeldCards /\ card'.bytes = card.bytes /\ card'.tx = <<>> /\ card'.rx = <<>>
      /\ card'.writing = "no" /\ ~card'.reading
  BY <1>2, <1>4 DEF StoppedWriting, HeldCards
<1>6. CardTypes'
  BY <1>1, <1>2, <1>5, TypesKept DEF Phases
<1>7. WhenIdle'
  BY ONLY <1>1, <1>2, <1>5 DEF WhenIdle, Listens, Silent, AllDone
<1> QED BY ONLY <1>1, <1>5, <1>6, <1>7, PhaseAlone

(* A block with its token before it and its CRC behind it.                 *)
LEMMA FramedBlock ==
    ASSUME NEW d \in Seq(Byte), Len(d) = DataLen, NEW k \in Byte, NEW x \in Byte, NEW y \in Byte,
           NEW q, q = <<k>> \o d \o <<x, y>>
    PROVE  /\ q \in Seq(Byte) /\ Len(q) = DataLen + 3 /\ q[1] = k
           /\ \A i \in 1 .. DataLen : q[1 + i] = d[i]
<1> DEFINE q1 == <<k>> \o d
           a1 == <<k>>
           a2 == <<x, y>>
<1>1. DataLen \in Nat
  BY CardConstants
<1>2. a1 \in Seq(Byte) /\ Len(a1) = 1 /\ a1[1] = k /\ a2 \in Seq(Byte) /\ Len(a2) = 2
  OBVIOUS
<1>3. q1 = a1 \o d /\ q = q1 \o a2
  OBVIOUS
<1> HIDE DEF q1, a1, a2
<1>4. /\ q1 \in Seq(Byte) /\ Len(q1) = DataLen + 1 /\ q1[1] = k
      /\ \A i \in 1 .. DataLen : q1[1 + i] = d[i]
  <2>1. /\ q1 \in Seq(Byte) /\ Len(q1) = Len(a1) + Len(d)
        /\ \A i \in 1 .. Len(a1) : q1[i] = a1[i]
        /\ \A i \in 1 .. Len(d) : q1[Len(a1) + i] = d[i]
    BY ONLY <1>2, <1>3, JoinBytes, d \in Seq(Byte)
  <2> QED BY ONLY <1>1, <1>2, <2>1, Len(d) = DataLen
<1>5. /\ q \in Seq(Byte) /\ Len(q) = Len(q1) + Len(a2)
      /\ \A i \in 1 .. Len(q1) : q[i] = q1[i]
  <2>1. q1 \in Seq(Byte) /\ a2 \in Seq(Byte) /\ q = q1 \o a2
    BY ONLY <1>2, <1>3, <1>4
  <2> QED BY ONLY <2>1, JoinBytes
<1>6. q[1] = k /\ \A i \in 1 .. DataLen : q[1 + i] = d[i]
  <2>1. 1 \in 1 .. Len(q1) /\ \A i \in 1 .. DataLen : 1 + i \in 1 .. Len(q1)
    BY ONLY <1>1, <1>4
  <2> QED BY ONLY <1>4, <1>5, <2>1
<1> QED BY ONLY <1>1, <1>2, <1>4, <1>5, <1>6

(* What the host sends for a block.                                        *)
LEMMA DataFrameIs ==
    ASSUME CardTypes, WriteGoesOn, ~AllDone, phase # "idle"
    PROVE  /\ DataFrame \in Seq(Byte) /\ Len(DataFrame) = DataLen + 3
           /\ DataFrame[1] = TokenOf(card)
           /\ job.data[blocksDone + 1] \in BlockData
           /\ \A i \in 1 .. DataLen : DataFrame[1 + i] = job.data[blocksDone + 1][i]
<1> DEFINE d == job.data[blocksDone + 1]
           k == IF job.cmd = 24 THEN 254 ELSE 252
<1>1. /\ job \in Jobs /\ job.cmd \in {24, 25} /\ blocksDone \in 0 .. job.count
      /\ blocksDone # job.count
      /\ card.writing = IF job.cmd = 24 THEN "single" ELSE "multiple"
  BY DEF CardTypes, WriteGoesOn, AllDone, Writes
<1>2. job.count \in Nat
  BY <1>1, JobIs
<1>3. d \in BlockData
  <2>1. blocksDone + 1 \in 1 .. job.count
    BY ONLY <1>1, <1>2
  <2>2. job.cmd \in Writes
    BY <1>1 DEF Writes
  <2>3. \A n \in 1 .. job.count : job.data[n] \in BlockData
    BY ONLY <1>1, <2>2, JobIs
  <2> QED BY ONLY <2>1, <2>3
<1>4. d \in Seq(Byte) /\ Len(d) = DataLen
  <2> HIDE DEF d
  <2> QED BY <1>3, CardConstants DEF BlockData
<1>5. DataFrame = <<k>> \o d \o <<255, 64>>
  BY DEF DataFrame, BlockToken, MultiToken, FillByte
<1>6. k \in Byte /\ 255 \in Byte /\ 64 \in Byte
  BY DEF Byte
<1>7. TokenOf(card) = k
  BY ONLY <1>1 DEF TokenOf, BlockToken, MultiToken
<1> HIDE DEF d, k
<1>8. /\ DataFrame \in Seq(Byte) /\ Len(DataFrame) = DataLen + 3 /\ DataFrame[1] = k
      /\ \A i \in 1 .. DataLen : DataFrame[1 + i] = d[i]
  BY ONLY <1>4, <1>5, <1>6, FramedBlock
<1> QED BY ONLY <1>3, <1>7, <1>8 DEF d

(* By the bytes of a block that is written.                                *)
LEMMA SendByteKeeps ==
    ASSUME CardInv, SendByte
    PROVE  CardInv' /\ card'.bytes = card.bytes
<1> DEFINE f == DataFrame
           b == f[clocked + 1]
<1>1. /\ CardTypes /\ WhenData /\ TfExchange(b) /\ phase = "data"
      /\ phase' = "data" /\ clocked' = clocked + 1 /\ clocked < DataLen + 2
      /\ job' = job /\ blocksDone' = blocksDone /\ arrived' = arrived
  BY DEF CardInv, SendByte, GoOn
<1>2. /\ card \in HeldCards /\ card.writing # "no" /\ clocked \in Nat
      /\ blocksDone \in 0 .. job.count /\ arrived = <<>> /\ job \in Jobs
      /\ WriteGoesOn /\ ~AllDone
      /\ IF clocked = 0 THEN Stalled ELSE card.tx = <<>> /\ BeginsWith(card.rx, DataFrame)
  BY <1>1 DEF CardTypes, WhenData, WriteGoesOn
<1>3. DataLen \in Nat \ {0}
  BY CardConstants
<1>4. f \in Seq(Byte) /\ Len(f) = DataLen + 3 /\ f[1] = TokenOf(card)
  BY <1>1, <1>2, DataFrameIs
<1>5. DataFrame' = f
  BY <1>1 DEF DataFrame
<1> HIDE DEF f
<1>6. b \in Byte
  <2>1. clocked + 1 \in 1 .. Len(f)
    BY ONLY <1>1, <1>2, <1>3, <1>4
  <2> QED BY ONLY <1>4, <2>1
<1>7. PICK crc \in StackBytes : card' = AfterExchange(card, b, crc)
  BY <1>1 DEF TfExchange
<1>8. Writable(card)
  BY <1>2 DEF Writable
<1>9. PICK r \in Seq(Byte) :
         /\ card' = Queued(card, r, <<>>) /\ Len(r) = clocked + 1
         /\ \A i \in 1 .. clocked + 1 : r[i] = f[i]
  <2>1. CASE clocked = 0
    <3> DEFINE r == <<TokenOf(card)>>
    <3>1. b = TokenOf(card) /\ Stalled
      BY <1>2, <1>4, <2>1
    <3>2. card' = Queued(card, r, <<>>)
      BY <1>7, <1>8, <3>1, WriteBegins DEF Stalled
    <3>3. r \in Seq(Byte) /\ Len(r) = clocked + 1 /\ \A i \in 1 .. clocked + 1 : r[i] = f[i]
      <4>1. TokenOf(card) \in Byte
        BY <1>6, <3>1
      <4>2. r \in Seq(Byte) /\ Len(r) = 1 /\ r[1] = TokenOf(card)
        BY ONLY <4>1
      <4> HIDE DEF r
      <4> QED BY ONLY <1>4, <2>1, <4>2
    <3> HIDE DEF r
    <3> QED BY ONLY <3>2, <3>3
  <2>2. CASE clocked # 0
    <3> DEFINE r == Append(card.rx, b)
    <3>1. /\ card.tx = <<>> /\ Len(card.rx) = clocked
          /\ \A i \in 1 .. clocked : card.rx[i] = f[i]
      BY <1>2, <2>2 DEF BeginsWith, f
    <3>2. card.rx \in Seq(Byte)
      BY <1>2 DEF HeldCards
    <3>3. card.rx # <<>> /\ card.rx[1] = TokenOf(card) /\ Len(card.rx) < DataLen + 2
      <4>1. 1 \in 1 .. clocked
        BY ONLY <1>2, <2>2
      <4>2. card.rx # <<>>
        BY ONLY <2>2, <3>1, <3>2
      <4> QED BY ONLY <1>1, <1>4, <3>1, <4>1, <4>2
    <3>4. card' = Queued(card, r, <<>>)
      BY ONLY <1>6, <1>7, <1>8, <3>1, <3>3, WriteGoesOnTo
    <3>5. /\ r \in Seq(Byte) /\ Len(r) = Len(card.rx) + 1 /\ r[Len(card.rx) + 1] = b
          /\ \A i \in 1 .. Len(card.rx) : r[i] = card.rx[i]
      BY ONLY <1>6, <3>2, AppendProperties
    <3> HIDE DEF r
    <3>6. \A i \in 1 .. clocked + 1 : r[i] = f[i]
      BY ONLY <1>2, <3>1, <3>5
    <3> QED BY ONLY <3>1, <3>4, <3>5, <3>6
  <2> QED BY ONLY <2>1, <2>2
<1>10. /\ card' \in HeldCards /\ card'.rx = r /\ card'.tx = <<>>
       /\ card'.reading = card.reading /\ card'.writing = card.writing
       /\ card'.bytes = card.bytes /\ card'.pos = card.pos /\ card'.eof = card.eof
  <2>1. card \in HeldCards /\ card' = Queued(card, r, <<>>)
    BY ONLY <1>2, <1>9
  <2> QED BY ONLY <2>1, r \in Seq(Byte), QueuedStep, Zenon
<1>11. WriteGoesOn'
  BY <1>1, <1>2, <1>10 DEF WriteGoesOn
<1>12. clocked' \in Nat /\ clocked' <= DataLen + 2 /\ clocked' # 0
  BY ONLY <1>1, <1>2, <1>3
<1>13. CardTypes'
  BY <1>1, <1>2, <1>10, <1>12, TypesKept DEF Phases
<1>14. BeginsWith(card.rx, DataFrame)'
  BY ONLY <1>1, <1>5, <1>9, <1>10 DEF BeginsWith
<1>15. ~AllDone'
  BY <1>1, <1>2 DEF AllDone
<1>16. WhenData'
  BY ONLY <1>10, <1>11, <1>12, <1>14, <1>15 DEF WhenData
<1> QED BY ONLY <1>1, <1>10, <1>13, <1>16, PhaseAlone

(* The blocks of the card when one has been put in its place.              *)
LEMMA BlockLands ==
    ASSUME NEW c, NEW r, NEW a \in 0 .. Blocks - 1, NEW d \in BlockData,
           \A i \in 1 .. DataLen : r[i + 1] = d[i],
           NEW x \in Addresses, NEW n, n.bytes = BlockPut(c, r, a)
    PROVE  BlockOf(n, x) = IF x = a THEN d ELSE BlockOf(c, x)
<1> DEFINE z == Blocks * DataLen
           p == a * DataLen
           q == x * DataLen
           F == BlockPut(c, r, a)
<1>1. /\ z \in Nat /\ p \in Nat /\ q \in Nat /\ DataLen \in Nat /\ q + DataLen <= z
      /\ a \in Nat /\ x \in Nat
      /\ x < a => q + DataLen <= p
      /\ a < x => p + DataLen <= q
  <2>1. /\ DataLen \in Nat /\ Blocks \in Nat /\ x \in Nat /\ x < Blocks /\ a \in Nat
    BY CardConstants DEF Addresses
  <2> QED BY <2>1, BlocksApart
<1>2. F = [y \in 0 .. z - 1 |-> IF y \in p .. p + DataLen - 1 THEN r[y - p + 2] ELSE c.bytes[y]]
  BY DEF BlockPut
<1> HIDE DEF z, p, q, F
<1>3. ASSUME NEW i \in 1 .. DataLen
      PROVE  F[q + i - 1] = IF x = a THEN d[i] ELSE c.bytes[q + i - 1]
  <2>1. q + i - 1 \in 0 .. z - 1
    BY ONLY <1>1
  <2>2. F[q + i - 1] = IF q + i - 1 \in p .. p + DataLen - 1 THEN r[(q + i - 1) - p + 2]
                       ELSE c.bytes[q + i - 1]
    BY ONLY <1>2, <2>1
  <2>3. CASE x = a
    <3>1. q = p
      BY <2>3 DEF p, q
    <3>2. q + i - 1 \in p .. p + DataLen - 1 /\ (q + i - 1) - p + 2 = i + 1
      BY ONLY <1>1, <3>1
    <3> QED BY ONLY <2>2, <2>3, <3>2, \A j \in 1 .. DataLen : r[j + 1] = d[j]
  <2>4. CASE x # a
    <3>1. q + DataLen <= p \/ p + DataLen <= q
      BY ONLY <1>1, <2>4
    <3>2. ~(q + i - 1 \in p .. p + DataLen - 1)
      BY ONLY <1>1, <3>1
    <3> QED BY ONLY <2>2, <2>4, <3>2
  <2> QED BY ONLY <2>3, <2>4
<1>4. d = [i \in 1 .. DataLen |-> d[i]]
  BY DEF BlockData
<1>5. [i \in 1 .. DataLen |-> F[q + i - 1]]
        = IF x = a THEN d ELSE [i \in 1 .. DataLen |-> c.bytes[q + i - 1]]
  <2>1. CASE x = a
    <3>1. \A i \in 1 .. DataLen : F[q + i - 1] = d[i]
      BY <1>3, <2>1
    <3> QED BY ONLY <1>4, <2>1, <3>1
  <2>2. CASE x # a
    <3>1. \A i \in 1 .. DataLen : F[q + i - 1] = c.bytes[q + i - 1]
      BY <1>3, <2>2
    <3> QED BY ONLY <2>2, <3>1
  <2> QED BY ONLY <2>1, <2>2
<1>6. BlockOf(n, x) = [i \in 1 .. DataLen |-> F[q + i - 1]]
  BY DEF F, q, BlockOf
<1>7. BlockOf(c, x) = [i \in 1 .. DataLen |-> c.bytes[q + i - 1]]
  BY DEF q, BlockOf
<1> QED BY ONLY <1>5, <1>6, <1>7

(* By the last of them, after which the card has this block and no other   *)
(* has changed.                                                            *)
LEMMA SendLastKeeps ==
    ASSUME CardInv, SendLast
    PROVE  /\ CardInv' /\ job.cmd \in Writes /\ blocksDone < job.count
           /\ \A x \in Addresses :
                 BlockAt(x)' = IF x = job.at + blocksDone THEN job.data[blocksDone + 1]
                                                          ELSE BlockAt(x)
<1> DEFINE f == DataFrame
           b == f[clocked + 1]
           a == job.at + blocksDone
           d == job.data[blocksDone + 1]
<1>1. /\ CardTypes /\ WhenData /\ TfExchange(b) /\ phase = "data"
      /\ phase' = "accept" /\ clocked' = 0 /\ clocked = DataLen + 2
      /\ job' = job /\ blocksDone' = blocksDone + 1 /\ arrived' = arrived
  BY DEF CardInv, SendLast, Enter
<1>2. DataLen \in Nat \ {0}
  BY CardConstants
<1>3. /\ card \in HeldCards /\ clocked \in Nat /\ blocksDone \in 0 .. job.count
      /\ arrived = <<>> /\ job \in Jobs /\ WriteGoesOn /\ ~AllDone
      /\ card.tx = <<>> /\ BeginsWith(card.rx, f)
  <2>1. clocked # 0
    BY ONLY <1>1, <1>2
  <2> QED BY <1>1, <2>1 DEF CardTypes, WhenData
<1>4. /\ job.cmd \in {24, 25} /\ blocksDone # job.count /\ ~card.reading /\ ~card.eof
      /\ card.writing = IF job.cmd = 24 THEN "single" ELSE "multiple"
      /\ card.pos = a * DataLen
  BY <1>3 DEF WriteGoesOn, AllDone, Writes
<1>5. /\ f \in Seq(Byte) /\ Len(f) = DataLen + 3 /\ f[1] = TokenOf(card)
      /\ d \in BlockData /\ \A i \in 1 .. DataLen : f[1 + i] = d[i]
  BY <1>1, <1>3, DataFrameIs
<1> HIDE DEF f, d
<1>6. job.count \in Nat /\ job.at \in Nat /\ blocksDone < job.count /\ a \in 0 .. Blocks - 1
      /\ blocksDone \in Nat
  <2>1. job.cmd \in Reads \cup Writes
    BY <1>4 DEF Writes
  <2>2. job.count \in Nat /\ job.at \in Nat
    BY <1>3, JobIs
  <2>3. blocksDone \in 0 .. job.count - 1
    BY ONLY <1>3, <1>4, <2>2
  <2>4. a \in 0 .. Blocks - 1
    BY <1>3, <2>1, <2>3, JobIs
  <2> QED BY <2>2, <2>3, <2>4
<1>7. a \in Nat /\ a + 1 = job.at + (blocksDone + 1)
  BY ONLY <1>6
<1> HIDE DEF a
<1>8. b \in Byte
  <2>1. clocked + 1 \in 1 .. Len(f)
    BY ONLY <1>1, <1>2, <1>5
  <2> QED BY ONLY <1>5, <2>1
<1>9. PICK crc \in StackBytes : card' = AfterExchange(card, b, crc)
  BY <1>1 DEF TfExchange
<1> DEFINE r == Append(card.rx, b)
<1>10. /\ Len(card.rx) = DataLen + 2 /\ card.rx[1] = TokenOf(card) /\ card.rx \in Seq(Byte)
       /\ \A i \in 1 .. DataLen + 2 : card.rx[i] = f[i]
  <2>1. /\ Len(card.rx) = DataLen + 2 /\ \A i \in 1 .. DataLen + 2 : card.rx[i] = f[i]
    BY <1>1, <1>3 DEF BeginsWith
  <2>2. 1 \in 1 .. DataLen + 2
    BY ONLY <1>2
  <2>3. card.rx \in Seq(Byte)
    BY <1>3 DEF HeldCards
  <2> QED BY ONLY <1>5, <2>1, <2>2, <2>3
<1>11. Writable(card)
  BY ONLY <1>3, <1>4 DEF Writable
<1>12. card' = BlockTaken(card, r, a) /\ card' \in HeldCards
  BY ONLY <1>3, <1>4, <1>6, <1>8, <1>9, <1>10, <1>11, WriteLands
<1>13. \A i \in 1 .. DataLen : r[i + 1] = d[i]
  <2>1. \A i \in 1 .. Len(card.rx) : r[i] = card.rx[i]
    BY ONLY <1>8, <1>10, AppendProperties
  <2> HIDE DEF r
  <2>2. ASSUME NEW i \in 1 .. DataLen PROVE r[i + 1] = d[i]
    <3>1. i + 1 \in 1 .. DataLen + 2 /\ i + 1 = 1 + i
      BY ONLY <1>2
    <3>2. r[i + 1] = f[i + 1]
      BY ONLY <1>10, <2>1, <3>1
    <3> QED BY ONLY <1>5, <3>1, <3>2
  <2> QED BY <2>2
<1> HIDE DEF r
<1>14. /\ card'.rx = <<>> /\ card'.tx = <<229>> /\ card'.bytes = BlockPut(card, r, a)
       /\ card'.pos = (a + 1) * DataLen
       /\ card'.writing = (IF card.writing = "single" THEN "no" ELSE card.writing)
       /\ card'.reading = card.reading /\ card'.eof = card.eof
  BY <1>3, <1>12 DEF BlockTaken, HeldCards
<1>15. blocksDone' \in 0 .. job.count
  BY ONLY <1>1, <1>6
<1>16. CardTypes'
  BY <1>1, <1>3, <1>12, <1>15, TypesKept DEF Phases
<1>17. Len(card'.tx) = 1 /\ card'.tx[1] # 255
  BY ONLY <1>14
<1>18. ~card'.reading /\ ~card'.eof
  BY ONLY <1>4, <1>14
<1>19. WhenAccept'
  <2>1. job'.cmd \in Writes
    BY ONLY <1>1, <1>4 DEF Writes
  <2>2. CASE job.cmd = 24
    <3>1. job.count = 1
      BY ONLY <1>3, <2>2, JobIs
    <3>2. blocksDone' = job'.count
      BY ONLY <1>1, <1>6, <3>1
    <3>3. card'.writing = "no"
      BY ONLY <1>4, <1>14, <2>2
    <3> QED BY ONLY <1>1, <1>14, <1>17, <1>18, <2>1, <2>2, <3>2, <3>3
            DEF WhenAccept, Listens, AllDone
  <2>3. CASE job.cmd = 25
    <3>1. card'.writing = "multiple"
      BY ONLY <1>4, <1>14, <2>3
    <3>2. card'.pos = (job'.at + blocksDone') * DataLen
      BY ONLY <1>1, <1>7, <1>14
    <3>3. WriteGoesOn'
      BY ONLY <1>1, <1>18, <2>1, <2>3, <3>1, <3>2 DEF WriteGoesOn
    <3> QED BY ONLY <1>1, <1>14, <1>17, <2>1, <2>3, <3>3 DEF WhenAccept
  <2> QED BY <1>4, <2>2, <2>3
<1>20. ASSUME NEW x \in Addresses
       PROVE  BlockAt(x)' = IF x = a THEN d ELSE BlockAt(x)
  <2>1. card'.bytes = BlockPut(card, r, a) /\ d \in BlockData
    BY ONLY <1>5, <1>14
  <2>2. BlockOf(card', x) = IF x = a THEN d ELSE BlockOf(card, x)
    BY ONLY <1>6, <1>13, <1>20, <2>1, BlockLands
  <2> QED BY ONLY <2>2 DEF BlockAt, BlockOf
<1>21. job.cmd \in Writes
  BY ONLY <1>4 DEF Writes
<1>22. CardInv'
  BY ONLY <1>1, <1>16, <1>19, PhaseAlone
<1> QED BY ONLY <1>6, <1>20, <1>21, <1>22 DEF a, d

-----------------------------------------------------------------------------
(* A command, byte by byte.                                                *)
Heard(c, b, t, p, e) == [c EXCEPT !.rx = Append(c.rx, b), !.tx = t, !.pos = p, !.eof = e]
CommandOf == IF phase = "stop" THEN 12 ELSE job.cmd
ArgumentSent == IF phase = "stop" THEN 0 ELSE ArgumentOf(job)

(* What a card does with one byte of a command.                            *)
LEMMA HeardIs ==
    ASSUME NEW c \in HeldCards, NEW crc \in StackBytes, NEW b \in Byte, c.writing = "no",
           c.rx # <<>> \/ b < 128, Len(c.rx) <= 5
    PROVE  \E t \in Seq(Byte), p \in Nat, e \in BOOLEAN :
             /\ Heard(c, b, t, p, e) \in HeldCards
             /\ Len(c.rx) < 5 => AfterExchange(c, b, crc) = Heard(c, b, t, p, e)
             /\ Len(c.rx) = 5 /\ Append(c.rx, b)[1] < 128 =>
                   AfterExchange(c, b, crc) = ServeCommand(Heard(c, b, t, p, e))
             /\ ~c.reading => t = Pop(c.tx, 1)
<1>1. PICK t \in Seq(Byte), p \in Nat, e \in BOOLEAN :
             LET d == [c EXCEPT !.rx = Append(c.rx, b), !.tx = t, !.pos = p, !.eof = e]
             IN  /\ d \in HeldCards
                 /\ Len(c.rx) < 5 => AfterExchange(c, b, crc) = d
                 /\ Len(c.rx) = 5 /\ Append(c.rx, b)[1] < 128 =>
                       AfterExchange(c, b, crc) = ServeCommand(d)
                 /\ ~c.reading => t = Pop(c.tx, 1) /\ p = c.pos /\ e = c.eof
  BY ONLY ExchangeHeard, c \in HeldCards, crc \in StackBytes, b \in Byte, c.writing = "no",
          c.rx # <<>> \/ b < 128, Len(c.rx) <= 5, Zenon
<1> WITNESS t \in Seq(Byte), p \in Nat, e \in BOOLEAN
<1> QED BY ONLY <1>1, Zenon DEF Heard

(* What is left of the card as it was.                                     *)
LEMMA HeardFields ==
    ASSUME NEW c \in HeldCards, NEW b, NEW t, NEW p, NEW e
    PROVE  /\ Heard(c, b, t, p, e).rx = Append(c.rx, b) /\ Heard(c, b, t, p, e).tx = t
           /\ Heard(c, b, t, p, e).reading = c.reading /\ Heard(c, b, t, p, e).writing = c.writing
           /\ Heard(c, b, t, p, e).bytes = c.bytes
BY DEF Heard, HeldCards

(* The bytes of the command that is sent, of a job or of a stop.           *)
LEMMA CommandFrameIs ==
    ASSUME CardTypes, phase \in {"command", "stop"}
    PROVE  /\ CommandFrame \in Seq(Byte) /\ Len(CommandFrame) = 6
           /\ CommandFrame[1] < 128 /\ CommandFrame[1] % 64 = CommandOf
           /\ \A i \in 1 .. 6 : CommandFrame[i] \in Byte
           /\ 16777216 * CommandFrame[2] + 65536 * CommandFrame[3] + 256 * CommandFrame[4]
                + CommandFrame[5] = ArgumentSent
<1>1. job \in Jobs
  BY DEF CardTypes
<1>2. CommandOf \in 0 .. 63 /\ ArgumentSent \in Nat /\ Wide(ArgumentSent)
  <2>1. CASE phase = "stop"
    <3>1. 0 \div 256 = 0
      OBVIOUS
    <3>2. Wide(0)
      BY ONLY <3>1 DEF Wide
    <3>3. CommandOf = 12 /\ ArgumentSent = 0
      BY <2>1 DEF CommandOf, ArgumentSent
    <3> QED BY ONLY <3>2, <3>3
  <2>2. CASE phase # "stop"
    <3>1. job.cmd \in 0 .. 63 /\ ArgumentOf(job) \in Nat /\ Wide(ArgumentOf(job))
      BY <1>1, JobIs DEF Wide
    <3> QED BY <2>2, <3>1 DEF CommandOf, ArgumentSent
  <2> QED BY <2>1, <2>2
<1>3. CommandFrame = Frame(CommandOf, ArgumentSent)
  BY DEF CommandFrame, CommandOf, ArgumentSent, StopCommand
<1>4. Framed(CommandFrame, CommandOf, ArgumentSent)
  BY ONLY <1>2, <1>3, FrameIs, Zenon
<1>5. CommandFrame[1] < 128
  BY ONLY <1>2, <1>4 DEF Framed
<1> QED BY ONLY <1>4, <1>5 DEF Framed

(* One byte of a command: the card it leaves, or the card that serves it.  *)
LEMMA CommandByte ==
    ASSUME CardTypes, phase \in {"command", "stop"}, clocked <= 5, card.writing = "no",
           BeginsWith(card.rx, CommandFrame), TfExchange(CommandFrame[clocked + 1])
    PROVE  \E d \in HeldCards :
              /\ Len(d.rx) = clocked + 1
              /\ \A i \in 1 .. clocked + 1 : d.rx[i] = CommandFrame[i]
              /\ d.reading = card.reading /\ d.writing = "no" /\ d.bytes = card.bytes
              /\ ~card.reading /\ card.tx = <<>> => d.tx = <<>>
              /\ card' = IF clocked < 5 THEN d ELSE ServeCommand(d)
<1> DEFINE f == CommandFrame
           b == f[clocked + 1]
           r == Append(card.rx, b)
<1>1. /\ f \in Seq(Byte) /\ Len(f) = 6 /\ f[1] < 128 /\ \A i \in 1 .. 6 : f[i] \in Byte
  BY CommandFrameIs
<1>2. /\ card \in HeldCards /\ clocked \in Nat /\ clocked <= 5 /\ card.rx \in Seq(Byte)
      /\ Len(card.rx) = clocked /\ \A i \in 1 .. clocked : card.rx[i] = f[i]
  BY DEF CardTypes, BeginsWith, HeldCards
<1>3. PICK crc \in StackBytes : card' = AfterExchange(card, b, crc)
  BY DEF TfExchange
<1> HIDE DEF f
<1>4. b \in Byte
  <2>1. clocked + 1 \in 1 .. 6
    BY ONLY <1>2
  <2> QED BY ONLY <1>1, <2>1
<1>5. card.rx # <<>> \/ b < 128
  <2>1. CASE clocked = 0
    BY ONLY <1>1, <2>1
  <2>2. CASE clocked # 0
    BY ONLY <1>2, <2>2
  <2> QED BY ONLY <2>1, <2>2
<1> HIDE DEF b
<1>6. /\ r \in Seq(Byte) /\ Len(r) = clocked + 1
      /\ \A i \in 1 .. clocked + 1 : r[i] = f[i]
  <2>1. /\ r \in Seq(Byte) /\ Len(r) = Len(card.rx) + 1 /\ r[Len(card.rx) + 1] = b
        /\ \A i \in 1 .. Len(card.rx) : r[i] = card.rx[i]
    BY ONLY <1>2, <1>4, AppendProperties
  <2> HIDE DEF r
  <2> QED BY ONLY <1>2, <2>1 DEF b
<1>7. r[1] < 128
  <2>1. 1 \in 1 .. clocked + 1
    BY ONLY <1>2
  <2> QED BY ONLY <1>1, <1>6, <2>1
<1>8. PICK t \in Seq(Byte), p \in Nat, e \in BOOLEAN :
         /\ Heard(card, b, t, p, e) \in HeldCards
         /\ Len(card.rx) < 5 => AfterExchange(card, b, crc) = Heard(card, b, t, p, e)
         /\ Len(card.rx) = 5 /\ Append(card.rx, b)[1] < 128 =>
               AfterExchange(card, b, crc) = ServeCommand(Heard(card, b, t, p, e))
         /\ ~card.reading => t = Pop(card.tx, 1)
  <2>1. Len(card.rx) <= 5
    BY ONLY <1>2
  <2> QED BY ONLY <1>2, <1>4, <1>5, <2>1, HeardIs, card.writing = "no", crc \in StackBytes, Zenon
<1> DEFINE d == Heard(card, b, t, p, e)
<1>9. /\ d.rx = r /\ d.tx = t /\ d.reading = card.reading /\ d.writing = card.writing
      /\ d.bytes = card.bytes
  BY ONLY <1>2, HeardFields
<1>10. d \in HeldCards
  BY <1>8
<1>11. card' = IF clocked < 5 THEN d ELSE ServeCommand(d)
  <2>1. CASE clocked < 5
    BY ONLY <1>2, <1>3, <1>8, <2>1
  <2>2. CASE ~(clocked < 5)
    <3>1. clocked = 5
      BY ONLY <1>2, <2>2
    <3> QED BY ONLY <1>2, <1>3, <1>7, <1>8, <2>2, <3>1
  <2> QED BY ONLY <2>1, <2>2
<1> HIDE DEF d
<1>12. ASSUME ~card.reading, card.tx = <<>> PROVE d.tx = <<>>
  <2>1. card.tx \in Seq(Byte)
    BY <1>2 DEF HeldCards
  <2>2. Pop(card.tx, 1) = <<>>
    BY ONLY <1>12, <2>1, FirstIs
  <2> QED BY ONLY <1>8, <1>9, <1>12, <2>2
<1> HIDE DEF r
<1>13. /\ Len(d.rx) = clocked + 1 /\ \A i \in 1 .. clocked + 1 : d.rx[i] = f[i]
  BY ONLY <1>6, <1>9
<1>14. d.reading = card.reading /\ d.writing = "no" /\ d.bytes = card.bytes
  BY ONLY <1>9, card.writing = "no"
<1> QED BY ONLY <1>10, <1>11, <1>12, <1>13, <1>14, Zenon DEF f

(* The card understands the command that was sent.                         *)
LEMMA CommandWhole ==
    ASSUME CardTypes, phase \in {"command", "stop"}, NEW d \in HeldCards, Len(d.rx) = 6,
           \A i \in 1 .. 6 : d.rx[i] = CommandFrame[i]
    PROVE  Command(d) = CommandOf /\ Argument(d) = ArgumentSent
<1>1. \A i \in {1, 2, 3, 4, 5} : d.rx[i] = CommandFrame[i]
  <2>1. \A i \in {1, 2, 3, 4, 5} : i \in 1 .. 6
    OBVIOUS
  <2> QED BY ONLY <2>1, \A i \in 1 .. 6 : d.rx[i] = CommandFrame[i]
<1>2. /\ d.rx[1] = CommandFrame[1] /\ d.rx[2] = CommandFrame[2] /\ d.rx[3] = CommandFrame[3]
      /\ d.rx[4] = CommandFrame[4] /\ d.rx[5] = CommandFrame[5]
  BY ONLY <1>1
<1>3. Command(d) = CommandFrame[1] % 64
  BY ONLY <1>2 DEF Command
<1>4. Argument(d) = 16777216 * CommandFrame[2] + 65536 * CommandFrame[3]
                     + 256 * CommandFrame[4] + CommandFrame[5]
  BY ONLY <1>2 DEF Argument
<1>5. /\ CommandFrame[1] % 64 = CommandOf
      /\ 16777216 * CommandFrame[2] + 65536 * CommandFrame[3] + 256 * CommandFrame[4]
                + CommandFrame[5] = ArgumentSent
  BY CommandFrameIs
<1> QED BY ONLY <1>3, <1>4, <1>5

(* The cards behind a stop and behind a plain command.                     *)
LEMMA ServedHeld ==
    ASSUME NEW c \in HeldCards, NEW t \in Seq(Byte)
    PROVE  /\ Stopped(c, t) \in HeldCards /\ Stopped(c, t).bytes = c.bytes
           /\ Stopped(c, t).rx = <<>> /\ Stopped(c, t).tx = t /\ Stopped(c, t).reading = FALSE
           /\ Stopped(c, t).writing = c.writing
           /\ \A s \in {0, 1} : Answered(c, t, s) \in HeldCards /\ Answered(c, t, s).bytes = c.bytes
<1>1. <<>> \in Seq(Byte)
  OBVIOUS
<1>3. /\ Stopped(c, t) \in HeldCards /\ Stopped(c, t).bytes = c.bytes
      /\ Stopped(c, t).rx = <<>> /\ Stopped(c, t).tx = t /\ Stopped(c, t).reading = FALSE
      /\ Stopped(c, t).writing = c.writing
  BY <1>1 DEF Stopped, HeldCards
<1>4. ASSUME NEW s \in {0, 1}
      PROVE  Answered(c, t, s) \in HeldCards /\ Answered(c, t, s).bytes = c.bytes
  BY <1>1 DEF Answered, HeldCards
<1> QED BY ONLY <1>3, <1>4, Zenon

(* The card behind the command to read.                                    *)
LEMMA SetToReadHeld ==
    ASSUME NEW c \in HeldCards, NEW t \in Seq(Byte), NEW cmd, NEW a, (a + 1) * DataLen \in Nat
    PROVE  SetToRead(c, t, cmd, a) \in HeldCards /\ SetToRead(c, t, cmd, a).bytes = c.bytes
<1> DEFINE p == (a + 1) * DataLen
           r == cmd = 18
<1>1. p \in Nat /\ r \in BOOLEAN /\ <<>> \in Seq(Byte)
  OBVIOUS
<1>2. SetToRead(c, t, cmd, a)
        = [c EXCEPT !.rx = <<>>, !.tx = t, !.reading = r, !.pos = p, !.eof = FALSE]
  BY DEF SetToRead
<1> HIDE DEF p, r
<1> QED BY <1>1, <1>2 DEF HeldCards

(* The card behind the command to write.                                   *)
LEMMA SetToWriteHeld ==
    ASSUME NEW c \in HeldCards, NEW cmd, NEW a \in Nat
    PROVE  SetToWrite(c, cmd, a) \in HeldCards /\ SetToWrite(c, cmd, a).bytes = c.bytes
<1> DEFINE w == IF cmd = 25 THEN "multiple" ELSE "single"
           u == <<c.status>>
<1>1. w \in {"no", "single", "multiple"} /\ u \in Seq(Byte) /\ <<>> \in Seq(Byte)
  <2>1. c.status \in Byte
    BY DEF HeldCards, Byte
  <2> QED BY ONLY <2>1
<1>2. SetToWrite(c, cmd, a)
          = [c EXCEPT !.rx = <<>>, !.tx = u, !.writing = w, !.pos = a, !.eof = FALSE]
  BY DEF SetToWrite
<1> HIDE DEF w, u
<1> QED BY <1>1, <1>2 DEF HeldCards

(* The invariant is kept by every byte of a stop.                          *)
LEMMA SendStopKeeps ==
    ASSUME CardInv, SendCommand, phase = "stop"
    PROVE  CardInv' /\ card'.bytes = card.bytes
<1>1. /\ CardTypes /\ WhenStop /\ TfExchange(CommandFrame[clocked + 1])
      /\ IF clocked < 5 THEN phase' = "stop" /\ clocked' = clocked + 1
                        ELSE phase' = "skip" /\ clocked' = 0
      /\ job' = job /\ blocksDone' = blocksDone /\ arrived' = arrived
  BY DEF CardInv, SendCommand, GoOn, Enter
<1>2. /\ card \in HeldCards /\ clocked \in Nat /\ clocked <= 5 /\ card.writing = "no"
      /\ blocksDone = job.count /\ blocksDone \in 0 .. job.count
      /\ BeginsWith(card.rx, CommandFrame) /\ job \in Jobs /\ arrived = <<>>
  BY <1>1 DEF CardTypes, WhenStop, AllDone
<1>3. PICK d \in HeldCards :
              /\ Len(d.rx) = clocked + 1
              /\ \A i \in 1 .. clocked + 1 : d.rx[i] = CommandFrame[i]
              /\ d.reading = card.reading /\ d.writing = "no" /\ d.bytes = card.bytes
              /\ ~card.reading /\ card.tx = <<>> => d.tx = <<>>
              /\ card' = IF clocked < 5 THEN d ELSE ServeCommand(d)
  <2>1. phase \in {"command", "stop"}
    OBVIOUS
  <2> QED BY ONLY <1>1, <1>2, <2>1, CommandByte, Zenon
<1>4. CASE clocked < 5
  <2>1. card' = d /\ phase' = "stop" /\ clocked' = clocked + 1
    BY ONLY <1>1, <1>3, <1>4
  <2>2. CommandFrame' = CommandFrame
    BY <2>1 DEF CommandFrame
  <2>3. BeginsWith(card.rx, CommandFrame)'
    BY ONLY <1>3, <2>1, <2>2 DEF BeginsWith
  <2>4. CardTypes'
    BY <1>1, <1>2, <2>1, TypesKept DEF Phases
  <2>5. card'.writing = "no" /\ clocked' <= 5 /\ card'.bytes = card.bytes /\ AllDone'
    BY ONLY <1>1, <1>2, <1>3, <1>4, <2>1 DEF AllDone
  <2>6. WhenStop'
    BY ONLY <2>3, <2>5 DEF WhenStop
  <2> QED BY ONLY <2>1, <2>4, <2>5, <2>6, PhaseAlone
<1>5. CASE ~(clocked < 5)
  <2>1. clocked = 5
    BY ONLY <1>2, <1>5
  <2>2. Len(d.rx) = 6 /\ \A i \in 1 .. 6 : d.rx[i] = CommandFrame[i]
    <3>1. clocked + 1 = 6
      BY ONLY <2>1
    <3> QED BY ONLY <1>3, <3>1
  <2>3. Command(d) = 12
    <3>1. phase \in {"command", "stop"}
      OBVIOUS
    <3>2. Command(d) = CommandOf
      BY ONLY <1>1, <2>2, <3>1, CommandWhole
    <3> QED BY <3>2 DEF CommandOf
  <2>4. PICK t \in Seq(Byte) :
           ServeCommand(d) = Stopped(d, t) /\ Len(t) = StopBusy + 4 /\ EndsStop(t)
    BY ONLY <2>2, <2>3, ServedStop
  <2>5. card' = Stopped(d, t) /\ phase' = "skip" /\ clocked' = 0
    BY ONLY <1>1, <1>3, <1>5, <2>4
  <2>6. /\ card' \in HeldCards /\ card'.rx = <<>> /\ card'.tx = t /\ card'.reading = FALSE
        /\ card'.writing = "no" /\ card'.bytes = card.bytes
    <3>1. /\ Stopped(d, t) \in HeldCards /\ Stopped(d, t).bytes = d.bytes
          /\ Stopped(d, t).rx = <<>> /\ Stopped(d, t).tx = t /\ Stopped(d, t).reading = FALSE
          /\ Stopped(d, t).writing = d.writing
      BY ONLY d \in HeldCards, t \in Seq(Byte), ServedHeld, Zenon
    <3>2. d.writing = "no" /\ d.bytes = card.bytes /\ card' = Stopped(d, t)
      BY ONLY <1>3, <2>5
    <3> QED BY ONLY <3>1, <3>2
  <2>7. CardTypes'
    BY <1>1, <1>2, <2>5, <2>6, TypesKept DEF Phases
  <2>8. WhenStopped'
    BY ONLY <1>1, <1>2, <2>4, <2>5, <2>6 DEF WhenStopped, Listens, AllDone
  <2> QED BY ONLY <2>5, <2>6, <2>7, <2>8, PhaseAlone
<1> QED BY <1>4, <1>5

(* What the card that served a command shows, kind by kind.                *)
LEMMA AnswerOfOthers ==
    ASSUME NEW c \in HeldCards, c.writing = "no", ~c.reading, NEW t \in Seq(Byte),
           NEW s \in {0, 1}, card' = Answered(c, t, s), CardTypes', phase' = "answer",
           blocksDone' = 0, job'.count = 0, job'.cmd \notin Reads \cup Writes,
           Len(t) = (IF job'.cmd = 8 THEN 5 ELSE 1), t[1] # 255
    PROVE  CardInv'
<1>1. /\ card'.rx = <<>> /\ card'.tx = t /\ card'.writing = "no" /\ ~card'.reading
  BY DEF Answered, HeldCards
<1>2. t # <<>>
  OBVIOUS
<1>3. WhenAnswer'
  BY <1>1, <1>2 DEF WhenAnswer, Listens, AllDone
<1> QED BY <1>3, PhaseAlone

(* The invariant, with the answer to a read ahead.                         *)
LEMMA AnswerOfReads ==
    ASSUME NEW c \in HeldCards, c.writing = "no", NEW t \in Seq(Byte),
           job' \in Jobs, job'.cmd \in Reads, card' = SetToRead(c, t, job'.cmd, job'.at),
           CardTypes', phase' = "answer", blocksDone' = 0,
           Len(t) = ReadDelay + DataLen + 3, t[1] # 255,
           Carries(Pop(t, 1), BlockOf(c, job'.at))
    PROVE  CardInv'
<1>1. /\ card'.rx = <<>> /\ card'.tx = t /\ card'.writing = "no"
      /\ card'.reading = (job'.cmd = 18) /\ card'.pos = (job'.at + 1) * DataLen
      /\ card'.eof = FALSE /\ card'.bytes = c.bytes
  BY DEF SetToRead, HeldCards
<1>2. job'.count # 0 /\ job'.at \in Nat
  <2>1. job'.cmd \in Reads \cup Writes
    OBVIOUS
  <2> QED BY <2>1, JobIs
<1>3. job'.at + blocksDone' + 1 = job'.at + 1 /\ job'.at + blocksDone' = job'.at
  BY ONLY <1>2, blocksDone' = 0
<1>4. Due' = BlockOf(c, job'.at)
  BY ONLY <1>1, <1>3 DEF Due, BlockAt, BlockOf
<1>5. ReadGoesOn'
  BY ONLY <1>1, <1>2, <1>3, blocksDone' = 0, job'.cmd \in Reads DEF ReadGoesOn, Listens, AllDone
<1>6. t # <<>>
  <2>1. Len(t) # 0
    BY CardConstants
  <2> QED BY ONLY <2>1, t \in Seq(Byte)
<1>7. WhenAnswer'
  BY ONLY <1>1, <1>4, <1>5, <1>6, blocksDone' = 0, job'.cmd \in Reads, t[1] # 255,
          Len(t) = ReadDelay + DataLen + 3, Carries(Pop(t, 1), BlockOf(c, job'.at))
     DEF WhenAnswer
<1> QED BY <1>7, PhaseAlone

(* The invariant, with the answer to a write ahead.                        *)
LEMMA AnswerOfWrites ==
    ASSUME NEW c \in HeldCards, ~c.reading, job' \in Jobs, job'.cmd \in Writes,
           card' = SetToWrite(c, job'.cmd, job'.at * DataLen),
           CardTypes', phase' = "answer", blocksDone' = 0
    PROVE  CardInv'
<1>1. /\ card'.rx = <<>> /\ card'.tx = <<c.status>> /\ card'.reading = c.reading
      /\ card'.writing = (IF job'.cmd = 25 THEN "multiple" ELSE "single")
      /\ card'.pos = job'.at * DataLen /\ card'.eof = FALSE
  BY DEF SetToWrite, HeldCards
<1>2. job'.count # 0 /\ job'.at \in Nat
  <2>1. job'.cmd \in Reads \cup Writes
    OBVIOUS
  <2> QED BY <2>1, JobIs
<1>3. job'.at + blocksDone' = job'.at
  BY ONLY <1>2, blocksDone' = 0
<1>4. job'.cmd \in {24, 25} /\ job'.cmd \notin Reads
  BY DEF Reads, Writes
<1>5. WriteGoesOn'
  BY ONLY <1>1, <1>3, <1>4, ~c.reading, job'.cmd \in Writes DEF WriteGoesOn
<1>6. Len(card'.tx) = 1 /\ card'.tx # <<>> /\ card'.tx[1] # 255
  <2>1. c.status \in {0, 1}
    BY DEF HeldCards
  <2> QED BY ONLY <1>1, <2>1
<1>7. ~AllDone'
  BY ONLY <1>2, blocksDone' = 0 DEF AllDone
<1>8. WhenAnswer'
  BY ONLY <1>1, <1>4, <1>5, <1>6, <1>7, blocksDone' = 0, job'.cmd \in Writes DEF WhenAnswer
<1> QED BY <1>8, PhaseAlone

(* It is kept by every byte of a command.                                  *)
LEMMA SendCommandKeeps ==
    ASSUME CardInv, SendCommand
    PROVE  CardInv' /\ card'.bytes = card.bytes
<1>1. phase \in {"command", "stop"} /\ CardTypes
  BY DEF SendCommand, CardInv
<1>2. CASE phase = "stop"
  BY <1>2, SendStopKeeps
<1>3. CASE phase = "command"
  <2>1. /\ WhenCommand /\ TfExchange(CommandFrame[clocked + 1])
        /\ IF clocked < 5 THEN phase' = "command" /\ clocked' = clocked + 1
                          ELSE phase' = "answer" /\ clocked' = 0
        /\ job' = job /\ blocksDone' = blocksDone /\ arrived' = arrived
    BY <1>3 DEF CardInv, SendCommand, GoOn, Enter
  <2>2. /\ card \in HeldCards /\ clocked \in Nat /\ clocked <= 5 /\ card.writing = "no"
        /\ blocksDone = 0 /\ blocksDone \in 0 .. job.count
        /\ BeginsWith(card.rx, CommandFrame) /\ job \in Jobs /\ arrived = <<>>
        /\ card.tx = <<>> /\ ~card.reading
    BY <1>1, <1>3, <2>1 DEF CardTypes, WhenCommand, Silent
  <2>3. PICK d \in HeldCards :
              /\ Len(d.rx) = clocked + 1
              /\ \A i \in 1 .. clocked + 1 : d.rx[i] = CommandFrame[i]
              /\ d.reading = card.reading /\ d.writing = "no" /\ d.bytes = card.bytes
              /\ ~card.reading /\ card.tx = <<>> => d.tx = <<>>
              /\ card' = IF clocked < 5 THEN d ELSE ServeCommand(d)
    BY ONLY <1>1, <2>1, <2>2, CommandByte, Zenon
  <2>4. d.tx = <<>> /\ ~d.reading
    BY ONLY <2>2, <2>3
  <2>5. ASSUME clocked < 5 PROVE CardInv' /\ card'.bytes = card.bytes
    <3>1. card' = d /\ phase' = "command" /\ clocked' = clocked + 1
      BY ONLY <2>1, <2>3, <2>5
    <3>2. CommandFrame' = CommandFrame
      BY <1>3, <2>1, <3>1 DEF CommandFrame
    <3>3. BeginsWith(card.rx, CommandFrame)'
      BY ONLY <2>3, <3>1, <3>2 DEF BeginsWith
    <3>4. CardTypes'
      BY <1>1, <2>1, <2>2, <3>1, TypesKept DEF Phases
    <3>5. card'.writing = "no" /\ clocked' <= 5 /\ Silent' /\ blocksDone' = 0
      BY ONLY <2>1, <2>2, <2>3, <2>4, <2>5, <3>1 DEF Silent
    <3>6. WhenCommand'
      BY ONLY <3>3, <3>5 DEF WhenCommand
    <3> QED BY ONLY <2>3, <3>1, <3>4, <3>6, PhaseAlone
  <2>6. ASSUME ~(clocked < 5) PROVE CardInv' /\ card'.bytes = card.bytes
    <3>1. clocked = 5
      BY ONLY <2>2, <2>6
    <3>2. Len(d.rx) = 6 /\ \A i \in 1 .. 6 : d.rx[i] = CommandFrame[i]
      <4>1. clocked + 1 = 6
        BY ONLY <3>1
      <4> QED BY ONLY <2>3, <4>1
    <3>3. Command(d) = job.cmd /\ Argument(d) = ArgumentOf(job)
      <4>1. Command(d) = CommandOf /\ Argument(d) = ArgumentSent
        BY ONLY <1>1, <3>2, CommandWhole
      <4>2. CommandOf = job.cmd /\ ArgumentSent = ArgumentOf(job)
        BY ONLY <1>3 DEF CommandOf, ArgumentSent
      <4> QED BY ONLY <4>1, <4>2
    <3>4. card' = ServeCommand(d) /\ phase' = "answer" /\ clocked' = 0
      BY ONLY <2>1, <2>3, <2>6
    <3>5. blocksDone' = 0 /\ job' \in Jobs /\ job'.cmd = job.cmd /\ job'.at = job.at
      BY ONLY <2>1, <2>2
    <3>6. ASSUME card' \in HeldCards PROVE CardTypes'
      BY <1>1, <2>1, <2>2, <3>4, <3>6, TypesKept DEF Phases
    <3>7. ASSUME job.cmd \notin Reads \cup Writes PROVE CardInv' /\ card'.bytes = card.bytes
      <4>1. job.cmd \notin {12, 17, 18, 24, 25} /\ job.count = 0
        BY <2>2, <3>7, JobIs DEF Reads, Writes
      <4>2. PICK t \in Seq(Byte), s \in {0, 1} :
              /\ ServeCommand(d) = Answered(d, t, s)
              /\ Len(t) = (IF Command(d) = 8 THEN 5 ELSE 1) /\ t[1] # 255
        BY ONLY <2>4, <3>2, <3>3, <4>1, ServedPlain, Zenon
      <4>3. card' \in HeldCards /\ card'.bytes = card.bytes
        <5>1. Answered(d, t, s) \in HeldCards /\ Answered(d, t, s).bytes = d.bytes
          BY ONLY d \in HeldCards, t \in Seq(Byte), s \in {0, 1}, ServedHeld, Zenon
        <5>2. d.bytes = card.bytes /\ card' = Answered(d, t, s)
          BY ONLY <2>3, <3>4, <4>2
        <5> QED BY ONLY <5>1, <5>2
      <4>4. card' = Answered(d, t, s) /\ Len(t) = (IF job'.cmd = 8 THEN 5 ELSE 1)
        BY ONLY <3>3, <3>4, <3>5, <4>2
      <4>5. job'.count = 0 /\ job'.cmd \notin Reads \cup Writes
        BY ONLY <2>1, <3>7, <4>1
      <4>6. CardTypes'
        BY ONLY <3>6, <4>3
      <4>7. /\ d.writing = "no" /\ ~d.reading /\ t[1] # 255
            /\ phase' = "answer" /\ blocksDone' = 0
        BY ONLY <2>3, <2>4, <3>4, <3>5, <4>2
      <4>8. CardInv'
        BY ONLY <4>4, <4>5, <4>6, <4>7, AnswerOfOthers
      <4> QED BY ONLY <4>3, <4>8
    <3>8. ASSUME job.cmd \in Reads PROVE CardInv' /\ card'.bytes = card.bytes
      <4>1. job.cmd \in {17, 18} /\ job.cmd \in Reads \cup Writes
        BY <3>8 DEF Reads
      <4>2. job.at \in 0 .. Blocks - 1 /\ ArgumentOf(job) = job.at * DataLen
        <5>1. /\ job.count \in Nat /\ job.count > 0 /\ job.at \in Nat
              /\ \A k \in 0 .. job.count - 1 : job.at + k \in 0 .. Blocks - 1
              /\ ArgumentOf(job) = job.at * DataLen
          BY ONLY <2>2, <4>1, JobIs
        <5>2. 0 \in 0 .. job.count - 1 /\ job.at + 0 = job.at
          BY ONLY <5>1
        <5> QED BY ONLY <5>1, <5>2
      <4>3. Argument(d) = job.at * DataLen
        BY ONLY <3>3, <4>2
      <4>4. PICK t \in Seq(Byte) :
              /\ ServeCommand(d) = SetToRead(d, t, job.cmd, job.at)
              /\ Len(t) = ReadDelay + DataLen + 3 /\ t[1] # 255
              /\ Carries(Pop(t, 1), BlockOf(d, job.at))
        BY ONLY <2>4, <3>2, <3>3, <4>1, <4>2, <4>3, ServedRead
      <4>5. card' = SetToRead(d, t, job'.cmd, job'.at) /\ job'.cmd \in Reads
        BY ONLY <3>4, <3>5, <3>8, <4>4
      <4>6. card' \in HeldCards /\ card'.bytes = card.bytes
        <5>1. (job'.at + 1) * DataLen \in Nat
          <6>1. job.at \in Nat /\ job.at + 1 \in Nat
            BY ONLY <4>2, CardConstants
          <6>2. (job.at + 1) * DataLen \in Nat
            BY ONLY <6>1, BlocksApart
          <6> QED BY ONLY <3>5, <6>2
        <5>2. /\ SetToRead(d, t, job'.cmd, job'.at) \in HeldCards
              /\ SetToRead(d, t, job'.cmd, job'.at).bytes = d.bytes
          BY ONLY <5>1, SetToReadHeld
        <5>3. d.bytes = card.bytes /\ card' = SetToRead(d, t, job'.cmd, job'.at)
          BY ONLY <2>3, <4>5
        <5> QED BY ONLY <5>2, <5>3
      <4>7. Carries(Pop(t, 1), BlockOf(d, job'.at))
        BY ONLY <3>5, <4>4
      <4> QED BY ONLY <2>3, <3>4, <3>5, <3>6, <4>4, <4>5, <4>6, <4>7, AnswerOfReads, Zenon
    <3>9. ASSUME job.cmd \in Writes PROVE CardInv' /\ card'.bytes = card.bytes
      <4>1. job.cmd \in {24, 25} /\ job.cmd \in Reads \cup Writes
        BY <3>9 DEF Writes
      <4>2. job.at * DataLen \in Nat /\ ArgumentOf(job) = job.at * DataLen
        BY <2>2, <4>1, JobIs
      <4>3. Argument(d) = job.at * DataLen
        BY ONLY <3>3, <4>2
      <4>4. ServeCommand(d) = SetToWrite(d, job.cmd, job.at * DataLen)
        BY ONLY <2>4, <3>2, <3>3, <4>1, <4>2, <4>3, ServedWrite, Zenon
      <4>5. card' = SetToWrite(d, job'.cmd, job'.at * DataLen) /\ job'.cmd \in Writes
        BY ONLY <3>4, <3>5, <3>9, <4>4
      <4>6. card' \in HeldCards /\ card'.bytes = card.bytes
        <5>1. job'.at * DataLen \in Nat
          BY ONLY <3>5, <4>2
        <5>2. /\ SetToWrite(d, job'.cmd, job'.at * DataLen) \in HeldCards
              /\ SetToWrite(d, job'.cmd, job'.at * DataLen).bytes = d.bytes
          BY ONLY <5>1, d \in HeldCards, SetToWriteHeld, Zenon
        <5>3. d.bytes = card.bytes /\ card' = SetToWrite(d, job'.cmd, job'.at * DataLen)
          BY ONLY <2>3, <4>5
        <5> QED BY ONLY <5>2, <5>3
      <4> QED BY ONLY <2>4, <3>4, <3>5, <3>6, <4>5, <4>6, AnswerOfWrites, Zenon
    <3> QED BY ONLY <3>7, <3>8, <3>9
  <2> QED BY ONLY <2>5, <2>6
<1> QED BY <1>1, <1>2, <1>3

-----------------------------------------------------------------------------
(* What every step does to the requests and the blocks of the store.       *)
LEMMA Untouched ==
    ASSUME CardInv, UNCHANGED cardVars
    PROVE  CardInv'
<1>1. /\ card' = card /\ job' = job /\ phase' = phase /\ clocked' = clocked
      /\ blocksDone' = blocksDone /\ arrived' = arrived
  BY DEF cardVars, cardHostVars
<1>2. CardTypes'
  BY <1>1 DEF CardInv, CardTypes
<1>3. AllDone' = AllDone /\ Listens' = Listens /\ Silent' = Silent /\ Due' = Due
  BY <1>1 DEF AllDone, Listens, Silent, Due, BlockAt
<1>4. /\ BeginsWith(card.rx, CommandFrame)' = BeginsWith(card.rx, CommandFrame)
      /\ BeginsWith(card.rx, DataFrame)' = BeginsWith(card.rx, DataFrame)
  BY <1>1 DEF BeginsWith, CommandFrame, DataFrame
<1>5. ReadGoesOn' = ReadGoesOn /\ WriteGoesOn' = WriteGoesOn /\ Stalled' = Stalled
  BY <1>1, <1>3 DEF ReadGoesOn, WriteGoesOn, Stalled
<1>6. CASE phase = "idle"
  BY <1>1, <1>2, <1>3, <1>6, PhaseAlone DEF CardInv, WhenIdle
<1>7. CASE phase = "command"
  BY <1>1, <1>2, <1>3, <1>4, <1>7, PhaseAlone DEF CardInv, WhenCommand
<1>8. CASE phase = "stop"
  BY <1>1, <1>2, <1>3, <1>4, <1>8, PhaseAlone DEF CardInv, WhenStop
<1>9. CASE phase = "answer"
  BY <1>1, <1>2, <1>3, <1>5, <1>9, PhaseAlone DEF CardInv, WhenAnswer
<1>10. CASE phase = "trailer"
  BY <1>1, <1>2, <1>3, <1>10, PhaseAlone DEF CardInv, WhenTrailer
<1>11. CASE phase = "token"
  BY <1>1, <1>2, <1>3, <1>5, <1>11, PhaseAlone DEF CardInv, WhenToken
<1>12. CASE phase = "block"
  BY <1>1, <1>2, <1>3, <1>5, <1>12, PhaseAlone DEF CardInv, WhenBlock
<1>13. CASE phase \in {"skip", "delay", "busy"}
  BY <1>1, <1>2, <1>3, <1>13, PhaseAlone DEF CardInv, WhenStopped
<1>14. CASE phase = "data"
  BY <1>1, <1>2, <1>3, <1>4, <1>5, <1>14, PhaseAlone DEF CardInv, WhenData
<1>15. CASE phase = "accept"
  BY <1>1, <1>2, <1>3, <1>5, <1>15, PhaseAlone DEF CardInv, WhenAccept
<1>16. CASE phase = "finish"
  BY <1>1, <1>2, <1>3, <1>5, <1>16, PhaseAlone DEF CardInv, WhenFinish
<1>17. phase \in Phases
  BY DEF CardInv, CardTypes
<1> QED BY <1>6, <1>7, <1>8, <1>9, <1>10, <1>11, <1>12, <1>13, <1>14, <1>15, <1>16, <1>17
        DEF Phases

(* Every step of the card and its host keeps the invariant.                *)
LEMMA CardInvKept == CardInv /\ [CardHostNext]_cardVars => CardInv'
<1> SUFFICES ASSUME CardInv, [CardHostNext]_cardVars PROVE CardInv'
    OBVIOUS
<1>1. CASE UNCHANGED cardVars
  BY <1>1, Untouched
<1>2. CASE CardHostNext
  <2>1. CASE BeginJob
    BY <2>1, BeginJobKeeps
  <2>2. CASE Linger
    BY <2>2, LingerKeeps
  <2>3. CASE PowerCycle
    BY <2>3, PowerCycleKeeps
  <2>4. CASE Proceed
    <3>1. CASE SendCommand
      BY <3>1, SendCommandKeeps
    <3>2. CASE AwaitAnswer
      BY <3>2, AwaitAnswerKeeps
    <3>3. CASE TakeTrailer
      BY <3>3, TakeTrailerKeeps
    <3>4. CASE TakeByte
      BY <3>4, TakeByteKeeps
    <3>5. CASE TakeLast
      BY <3>5, TakeLastKeeps
    <3>6. CASE SendByte
      BY <3>6, SendByteKeeps
    <3>7. CASE SendLast
      BY <3>7, SendLastKeeps
    <3>8. CASE SendStopToken
      BY <3>8, SendStopTokenKeeps
    <3>9. CASE SkipByte
      BY <3>9, SkipByteKeeps
    <3>10. CASE AwaitReady
      BY <3>10, AwaitReadyKeeps
    <3> QED BY <2>4, <3>1, <3>2, <3>3, <3>4, <3>5, <3>6, <3>7, <3>8, <3>9, <3>10 DEF Proceed
  <2> QED BY <1>2, <2>1, <2>2, <2>3, <2>4 DEF CardHostNext
<1> QED BY <1>1, <1>2

(* The card is up, in every state: the queues never overrun and the file   *)
(* is always there (spi_buffer_push, nile_spi_tf_exchange).                *)
THEOREM CardInvAlways == CardHostSpec => []CardInv
BY InvFirst, CardInvKept, PTL DEF CardHostSpec

-----------------------------------------------------------------------------
(* The card and its host as an array of blocks.                            *)
BlocksHeld == [a \in Addresses |-> BlockAt(a)]

(* What the store is said to hold are blocks.                              *)
LEMMA BlocksTyped ==
    ASSUME card \in HeldCards
    PROVE  BlocksHeld \in [Addresses -> BlockData]
<1> SUFFICES ASSUME NEW a \in Addresses, NEW i \in 1 .. DataLen
             PROVE  card.bytes[a * DataLen + i - 1] \in Byte
    BY DEF BlocksHeld, BlockAt, BlockData
<1> DEFINE z == Blocks * DataLen
           p == a * DataLen
<1>1. /\ z \in Nat /\ p \in Nat /\ DataLen \in Nat /\ p + DataLen <= z
  <2>1. a \in Nat /\ Blocks \in Nat /\ a < Blocks /\ DataLen \in Nat
    BY CardConstants DEF Addresses
  <2> QED BY <2>1, BlocksApart
<1>2. card.bytes \in [0 .. z - 1 -> Byte]
  BY DEF HeldCards
<1> HIDE DEF z, p
<1>3. p + i - 1 \in 0 .. z - 1
  BY ONLY <1>1
<1> QED BY <1>2, <1>3 DEF p

(* What the host wants next of the store, by the job's kind.               *)
LEMMA AskedIs ==
    ASSUME CardTypes
    PROVE  /\ Asked \in BlockStore!Requests
           /\ blocksDone = job.count => Asked = [op |-> "none"]
           /\ blocksDone < job.count /\ job.cmd \in Reads =>
                 Asked = [op |-> "read", at |-> job.at + blocksDone]
           /\ blocksDone < job.count /\ job.cmd \in Writes =>
                 Asked = [op |-> "write", at |-> job.at + blocksDone,
                          data |-> job.data[blocksDone + 1]]
<1>1. job \in Jobs \cup {NoJob} /\ blocksDone \in 0 .. job.count
  BY DEF CardTypes
<1>2. job.count \in Nat
  BY <1>1, JobIs DEF NoJob
<1>3. CASE blocksDone = job.count
  <2>1. Asked = [op |-> "none"]
    BY <1>1, <1>2, <1>3 DEF Asked
  <2> QED BY <1>1, <1>2, <1>3, <2>1 DEF BlockStore!Requests, BlockStore!NoRequest
<1>4. CASE blocksDone < job.count
  <2>1. job \in Jobs
    BY <1>1, <1>4 DEF NoJob
  <2>2. job.cmd \in Reads \cup Writes
    BY <1>1, <1>2, <1>4, <2>1, JobIs
  <2>3. job.at + blocksDone \in Addresses /\ blocksDone + 1 \in 1 .. job.count
    <3>1. blocksDone \in 0 .. job.count - 1
      BY ONLY <1>1, <1>2, <1>4
    <3>2. blocksDone + 1 \in 1 .. job.count
      BY ONLY <1>2, <3>1
    <3> QED BY <2>1, <2>2, <3>1, <3>2, JobIs DEF Addresses
  <2>4. ~(blocksDone >= job.count)
    BY <1>1, <1>2, <1>4
  <2>5. CASE job.cmd \in Reads
    <3>1. Asked = [op |-> "read", at |-> job.at + blocksDone]
      BY ONLY <2>4, <2>5 DEF Asked
    <3>2. job.cmd \notin Writes
      BY <2>5 DEF Reads, Writes
    <3>3. Asked \in BlockStore!Requests
      BY ONLY <2>3, <3>1 DEF BlockStore!Requests
    <3> QED BY <1>1, <1>2, <1>4, <2>5, <3>1, <3>2, <3>3
  <2>6. CASE job.cmd \in Writes
    <3>1. job.cmd \notin Reads
      BY <2>6 DEF Reads, Writes
    <3>2. Asked = [op |-> "write", at |-> job.at + blocksDone, data |-> job.data[blocksDone + 1]]
      BY ONLY <2>4, <3>1 DEF Asked
    <3>3. job.data[blocksDone + 1] \in BlockData
      BY <2>1, <2>3, <2>6, JobIs
    <3>4. Asked \in BlockStore!Requests
      BY ONLY <2>3, <3>2, <3>3 DEF BlockStore!Requests
    <3> QED BY <1>1, <1>2, <1>4, <3>1, <3>2, <3>4
  <2> QED BY ONLY <2>2, <2>5, <2>6
<1> QED BY <1>1, <1>2, <1>3, <1>4

(* A card at the start is a store at the start.                            *)
LEMMA FirstStore == CardHostInit => BlockStore!StoreInit
<1> SUFFICES ASSUME CardHostInit PROVE BlockStore!StoreInit
    OBVIOUS
<1>1. CardTypes
  BY InvFirst DEF CardInv
<1>2. BlocksHeld \in [Addresses -> BlockData] /\ Asked \in BlockStore!Requests
  BY <1>1, BlocksTyped, AskedIs DEF CardTypes
<1>3. delivered = NothingDelivered /\ losses = 0
  BY DEF CardHostInit
<1> QED BY ONLY <1>2, <1>3 DEF BlockStore!StoreInit, BlocksHeld

(* Most steps only move bytes.                                             *)
LEMMA StoreIdle ==
    ASSUME card'.bytes = card.bytes, job' = job, blocksDone' = blocksDone,
           delivered' = delivered, losses' = losses
    PROVE  UNCHANGED BlockStore!storeVars
<1>1. BlocksHeld' = BlocksHeld
  BY DEF BlocksHeld, BlockAt, Addresses
<1>2. Asked' = Asked
  BY DEF Asked
<1> QED BY ONLY <1>1, <1>2, delivered' = delivered, losses' = losses
        DEF BlockStore!storeVars, BlocksHeld

(* A job that begins asks for its first block.                             *)
LEMMA JobIsAsked ==
    ASSUME CardInv, BeginJob
    PROVE  BlockStore!Ask
<1>1. CardInv' /\ card' = card /\ AllDone
  BY BeginJobKeeps
<1>2. Asked = [op |-> "none"]
  BY <1>1, AskedIs DEF CardInv, AllDone
<1>3. Asked' \in BlockStore!Requests'
  <2>1. CardTypes'
    BY <1>1 DEF CardInv
  <2>2. CardTypes => Asked \in BlockStore!Requests
    BY AskedIs
  <2>3. (CardTypes => Asked \in BlockStore!Requests)'
    BY AskedIs, PTL
  <2> QED BY <2>1, <2>3
<1>4. BlocksHeld' = BlocksHeld
  BY <1>1 DEF BlocksHeld, BlockAt, Addresses
<1>5. delivered' = delivered /\ losses' = losses
  BY DEF BeginJob
<1> QED BY ONLY <1>2, <1>3, <1>4, <1>5 DEF BlockStore!Ask, BlockStore!NoRequest, BlocksHeld

(* What is asked for is always a request, or none.                         *)
LEMMA AskedStays ==
    ASSUME CardInv'
    PROVE  Asked' \in BlockStore!Requests
<1>1. CardTypes'
  BY DEF CardInv
<1>2. (CardTypes => Asked \in BlockStore!Requests)'
  BY AskedIs, PTL
<1> QED BY <1>1, <1>2

(* With its last byte a block is read, as it is on the card.               *)
LEMMA LastIsRead ==
    ASSUME CardInv, TakeLast
    PROVE  BlockStore!Read
<1>1. /\ CardInv' /\ card'.bytes = card.bytes
      /\ delivered' = [at |-> job.at + blocksDone, data |-> Due]
      /\ job.cmd \in Reads /\ blocksDone < job.count
  BY TakeLastKeeps
<1>2. CardTypes
  BY DEF CardInv
<1>3. Asked = [op |-> "read", at |-> job.at + blocksDone] /\ Asked \in BlockStore!Requests
  BY ONLY <1>1, <1>2, AskedIs
<1>4. job.at + blocksDone \in Addresses
  BY ONLY <1>3 DEF BlockStore!Requests, BlockStore!NoRequest
<1>5. BlocksHeld[job.at + blocksDone] = Due
  BY ONLY <1>4 DEF BlocksHeld, Due
<1>6. Asked' \in BlockStore!Requests
  BY ONLY <1>1, AskedStays
<1>7. BlocksHeld' = BlocksHeld
  BY ONLY <1>1 DEF BlocksHeld, BlockAt, Addresses
<1>8. losses' = losses
  BY DEF TakeLast
<1>9. Asked.op = "read" /\ delivered' = [at |-> Asked.at, data |-> BlocksHeld[Asked.at]]
  BY ONLY <1>1, <1>3, <1>5
<1> QED BY ONLY <1>6, <1>7, <1>8, <1>9 DEF BlockStore!Read, BlocksHeld

(* With its last byte a block is written, and it alone.                    *)
LEMMA LastIsWritten ==
    ASSUME CardInv, SendLast
    PROVE  BlockStore!Write
<1>1. /\ CardInv' /\ job.cmd \in Writes /\ blocksDone < job.count
      /\ \A x \in Addresses :
            BlockAt(x)' = IF x = job.at + blocksDone THEN job.data[blocksDone + 1]
                                                     ELSE BlockAt(x)
  BY SendLastKeeps
<1>2. CardTypes
  BY DEF CardInv
<1>3. /\ Asked = [op |-> "write", at |-> job.at + blocksDone, data |-> job.data[blocksDone + 1]]
  BY ONLY <1>1, <1>2, AskedIs
<1>4. BlocksHeld' = [BlocksHeld EXCEPT ![Asked.at] = Asked.data]
  <2>1. Asked.at = job.at + blocksDone /\ Asked.data = job.data[blocksDone + 1]
    BY ONLY <1>3
  <2>2. \A x \in Addresses : BlockAt(x)' = IF x = Asked.at THEN Asked.data ELSE BlockAt(x)
    BY ONLY <1>1, <2>1
  <2>3. BlocksHeld' = [x \in Addresses |-> BlockAt(x)']
    BY DEF BlocksHeld, Addresses
  <2>4. BlocksHeld = [x \in Addresses |-> BlockAt(x)]
    BY DEF BlocksHeld
  <2>5. [BlocksHeld EXCEPT ![Asked.at] = Asked.data]
          = [x \in Addresses |-> IF x = Asked.at THEN Asked.data ELSE BlockAt(x)]
    BY ONLY <2>4
  <2> QED BY ONLY <2>2, <2>3, <2>5
<1>5. Asked' \in BlockStore!Requests
  BY ONLY <1>1, AskedStays
<1>6. delivered' = delivered /\ losses' = losses
  BY DEF SendLast
<1>7. Asked.op = "write"
  BY ONLY <1>3
<1> QED BY ONLY <1>4, <1>5, <1>6, <1>7 DEF BlockStore!Write, BlocksHeld

(* Losing the power changes no block.                                      *)
LEMMA PowerIsLost ==
    ASSUME CardInv, PowerCycle
    PROVE  BlockStore!LosePower
<1>1. CardInv' /\ card'.bytes = card.bytes
  BY PowerCycleKeeps
<1>2. job' = NoJob /\ blocksDone' = 0 /\ losses' = losses + 1 /\ delivered' = delivered
  BY DEF PowerCycle
<1>3. Asked' = [op |-> "none"]
  BY ONLY <1>2 DEF Asked, NoJob
<1>4. BlocksHeld' = BlocksHeld
  BY ONLY <1>1 DEF BlocksHeld, BlockAt, Addresses
<1> QED BY ONLY <1>2, <1>3, <1>4 DEF BlockStore!LosePower, BlockStore!NoRequest, BlocksHeld

(* Every step of the card and its host is a step of the store, or none.    *)
LEMMA StoreStep ==
    CardInv /\ [CardHostNext]_cardVars => [BlockStore!StoreNext]_(BlockStore!storeVars)
<1> SUFFICES ASSUME CardInv, [CardHostNext]_cardVars
             PROVE  BlockStore!StoreNext \/ UNCHANGED BlockStore!storeVars
    OBVIOUS
<1>1. CASE UNCHANGED cardVars
  <2>1. card' = card /\ job' = job /\ blocksDone' = blocksDone /\ delivered' = delivered
        /\ losses' = losses
    BY <1>1 DEF cardVars, cardHostVars
  <2> QED BY <2>1, StoreIdle
<1>2. CASE BeginJob
  BY <1>2, JobIsAsked DEF BlockStore!StoreNext
<1>3. CASE Linger
  BY <1>3, LingerKeeps, StoreIdle DEF Linger, cardHostVars
<1>4. CASE PowerCycle
  BY <1>4, PowerIsLost DEF BlockStore!StoreNext
<1>5. CASE SendCommand
  BY <1>5, SendCommandKeeps, StoreIdle DEF SendCommand
<1>6. CASE AwaitAnswer
  BY <1>6, AwaitAnswerKeeps, StoreIdle DEF AwaitAnswer
<1>7. CASE TakeTrailer
  BY <1>7, TakeTrailerKeeps, StoreIdle DEF TakeTrailer
<1>8. CASE TakeByte
  BY <1>8, TakeByteKeeps, StoreIdle DEF TakeByte
<1>9. CASE TakeLast
  BY <1>9, LastIsRead DEF BlockStore!StoreNext
<1>10. CASE SendByte
  BY <1>10, SendByteKeeps, StoreIdle DEF SendByte
<1>11. CASE SendLast
  BY <1>11, LastIsWritten DEF BlockStore!StoreNext
<1>12. CASE SendStopToken
  BY <1>12, SendStopTokenKeeps, StoreIdle DEF SendStopToken
<1>13. CASE SkipByte
  BY <1>13, SkipByteKeeps, StoreIdle DEF SkipByte
<1>14. CASE AwaitReady
  BY <1>14, AwaitReadyKeeps, StoreIdle DEF AwaitReady
<1> QED BY <1>1, <1>2, <1>3, <1>4, <1>5, <1>6, <1>7, <1>8, <1>9, <1>10, <1>11, <1>12, <1>13,
           <1>14 DEF CardHostNext, Proceed

(* A card driven by the protocol is an array of blocks, whatever jobs the  *)
(* host does, whatever the bytes look like, wherever the power is lost and *)
(* whatever the bytes that were never initialised hold                     *)
(* (nile_spi_tf_exchange).                                                 *)
THEOREM CardIsBlockStore == CardHostSpec => ImplementsBlockStore
<1>1. CardHostInit => BlockStore!StoreInit
  BY FirstStore
<1>2. CardInv /\ [CardHostNext]_cardVars => [BlockStore!StoreNext]_(BlockStore!storeVars)
  BY StoreStep
<1>3. CardHostSpec => []CardInv
  BY CardInvAlways
<1> QED BY <1>1, <1>2, <1>3, PTL
        DEF CardHostSpec, ImplementsBlockStore, BlockStore!StoreSpec
=============================================================================
