-------------------------- MODULE NileDeviceProofs ---------------------------
(***************************************************************************)
(* The safety of the MCU's queues, for every sequence of bytes a host may  *)
(* send.  BufSize > 1026 is what native mode needs: the longest answer is  *)
(* a two byte key and the 512 words an EEPROM read can ask for; the source *)
(* has 4096.  Then the serial line: no byte of it is lost or handed out    *)
(* twice, whatever the size of the queues.  Last the flash under its host: *)
(* every byte of a command is answered as it should be, and stored where.  *)
(***************************************************************************)
EXTENDS NileSerial, NileFlashHost, SequenceTheorems, TLAPS

(* A step number other than 0 belongs to one of the commands with steps.   *)
StepHasCommand == bootStep # 0 => bootCmd \in SteppedCommands

IInv ==
    /\ TypeOK
    /\ RxUnfinished
    /\ NoPacketBehindAnswer
    /\ OnlyEraseHalts
    /\ StepHasCommand

-----------------------------------------------------------------------------
(* What the queue operators keep.                                          *)

(* Popping bytes off a queue leaves a queue of bytes, empty when as many   *)
(* bytes were asked for as there are (spi_buffer_pop).                     *)
LEMMA PopType ==
    ASSUME NEW q \in Seq(Byte), NEW n \in Nat
    PROVE  /\ Pop(q, n) \in Seq(Byte)
           /\ Len(q) <= n => Pop(q, n) = <<>>
  <1>1. CASE n + 1 <= Len(q)
    BY <1>1, SubSeqProperties DEF Pop
  <1>2. CASE ~(n + 1 <= Len(q))
    BY <1>2 DEF Pop
  <1>3. QED
    BY <1>1, <1>2

(* A part of a queue of bytes that starts at its front.                    *)
LEMMA PrefixType ==
    ASSUME NEW q \in Seq(Byte), NEW n \in Nat, n <= Len(q)
    PROVE  /\ SubSeq(q, 1, n) \in Seq(Byte)
           /\ Len(SubSeq(q, 1, n)) = n
  BY SubSeqProperties

(* Appending the byte of an exchange to the receive queue.                 *)
LEMMA AppendByte ==
    ASSUME NEW q \in Seq(Byte), NEW b \in Byte
    PROVE  /\ Append(q, b) \in Seq(Byte)
           /\ Len(Append(q, b)) = Len(q) + 1
           /\ q # <<>> => Append(q, b)[1] = q[1]
           /\ q = <<>> => Append(q, b)[1] = b /\ Tail(Append(q, b)) = <<>>
           /\ Append(q, b)[1] \in Byte
           /\ Tail(Append(q, b)) \in Seq(Byte)
  OBVIOUS

(* The argument the two header bytes spell.                                *)
LEMMA HeaderArg ==
    ASSUME NEW a \in Byte, NEW b \in Byte
    PROVE  /\ a % 128 \in 0 .. 127
           /\ a \div 128 + 2 * b \in Nat
           /\ a \div 128 + 2 * b <= 511
  BY DEF Byte

(* A header names an argument of at most 9 bits, never 0 where a length is *)
(* meant, so that the longest packet has a two byte header and 512 bytes.  *)
LEMMA HeaderBounds ==
    ASSUME NEW p \in Seq(Byte), Len(p) >= 2
    PROVE  /\ Cmd(p) \in 0 .. 127
           /\ Arg(p) \in Nat /\ Arg(p) <= 512
           /\ PacketLen(p) \in Nat /\ PacketLen(p) >= 2 /\ PacketLen(p) <= 514
  <1>1. p[1] \in Byte /\ p[2] \in Byte
    OBVIOUS
  <1>2. Cmd(p) \in 0 .. 127
    BY <1>1, HeaderArg DEF Cmd
  <1>3. PICK arg \in Nat : arg = p[1] \div 128 + 2 * p[2] /\ arg <= 511
    BY <1>1, HeaderArg
  <1>4. Arg(p) \in Nat /\ Arg(p) <= 512
    <2>1. Arg(p) = arg \/ Arg(p) = DefaultArg
      BY <1>3 DEF Arg
    <2>2. DefaultArg \in Nat /\ DefaultArg <= 512
      BY McuAssumption
    <2>3. QED
      BY <2>1, <2>2, <1>3
  <1>5. RtcRxSize[RtcCmd(p) + 1] \in Nat /\ RtcRxSize[RtcCmd(p) + 1] <= 7
    <2>1. RtcCmd(p) \in 0 .. 15
      BY <1>4 DEF RtcCmd
    <2>2. QED
      BY <2>1 DEF RtcRxSize
  <1>6. PayloadLen(p) \in Nat /\ PayloadLen(p) <= 512
    BY <1>4, <1>5 DEF PayloadLen
  <1>7. QED
    BY <1>2, <1>4, <1>6 DEF PacketLen

(* A packet completed by one byte is used up by the command it holds.      *)
LEMMA PacketUsedUp ==
    ASSUME IInv, ~bootMode, NEW b \in Byte, Complete(Append(rx, b))
    PROVE  /\ Len(Append(rx, b)) = PacketLen(Append(rx, b))
           /\ Pop(Append(rx, b), PacketLen(Append(rx, b))) = <<>>
  <1>0. rx \in Seq(Byte)
    BY DEF IInv, TypeOK
  <1>1. PICK p \in Seq(Byte) : p = Append(rx, b)
    BY <1>0, AppendByte
  <1>2. Len(rx) \in Nat /\ Len(p) \in Nat /\ Len(p) = Len(rx) + 1
    BY <1>0, <1>1, AppendByte
  <1>3. Len(p) >= 2 /\ Len(p) >= PacketLen(p)
    BY <1>1 DEF Complete
  <1>4. PacketLen(p) \in Nat /\ PacketLen(p) >= 2
    BY <1>3, HeaderBounds
  <1>5. rx # <<>> /\ ~Complete(rx)
    BY <1>2, <1>3 DEF IInv, RxUnfinished
  <1>6. Len(p) <= PacketLen(p)
    <2>1. CASE Len(rx) < 2
      BY <2>1, <1>2, <1>4
    <2>2. CASE Len(rx) >= 2
      <3>1. p[1] = rx[1] /\ p[2] = rx[2]
        BY <2>2, <1>1, <1>2
      <3>2. Cmd(p) = Cmd(rx) /\ Arg(p) = Arg(rx)
        BY <3>1 DEF Cmd, Arg
      <3>3. PacketLen(p) = PacketLen(rx)
        BY <3>2 DEF PacketLen, PayloadLen, RtcCmd
      <3>4. Len(rx) < PacketLen(rx)
        BY <2>2, <1>2, <1>4, <1>5, <3>3 DEF Complete
      <3>5. QED
        BY <3>3, <3>4, <1>2, <1>4
    <2>3. QED
      BY <2>1, <2>2, <1>2
  <1>7. Len(p) = PacketLen(p) /\ Pop(p, PacketLen(p)) = <<>>
    BY <1>2, <1>3, <1>4, <1>6, PopType
  <1>8. QED
    BY <1>1, <1>7

(* A count in two bytes: the key of an answer, or how much a write sent.   *)
LEMMA ShortType ==
    ASSUME NEW n \in Nat, n <= 2048
    PROVE  Short(n) \in Seq(Byte) /\ Len(Short(n)) = 2 /\ Len(Short(n)) <= 1024
  <1>1. n % 256 \in Byte /\ n \div 256 \in Byte
    BY DEF Byte
  <1>2. QED
    BY <1>1 DEF Short

(* An answer of up to 1024 bytes fits an empty queue: native mode never    *)
(* ends the process by answering.                                          *)
LEMMA AnswerFits ==
    ASSUME BufSize > 1026, NEW q, q = <<>>,
           NEW payload \in Seq(Byte), Len(payload) <= 1024
    PROVE  Fits(q, 2 + Len(payload)) /\ q \o Framed(payload) \in Seq(Byte)
  <1>1. BufSize \in Nat /\ Len(payload) \in Nat /\ Len(q) = 0
    BY BufSizeAssumption
  <1>2. Short(2 * Len(payload)) \in Seq(Byte)
    BY <1>1, ShortType
  <1>3. Len(q) + (2 + Len(payload)) < BufSize
    BY <1>1
  <1>4. Framed(payload) \in Seq(Byte)
    BY <1>2 DEF Framed
  <1>5. QED
    BY <1>3, <1>4 DEF Fits

LEMMA RespondFits ==
    ASSUME BufSize > 1026, tx = <<>>,
           NEW payload \in Seq(Byte), Len(payload) <= 1024, Respond(payload)
    PROVE  /\ tx' \in Seq(Byte) /\ halted' = halted
           /\ tx' = tx \o Framed(payload)
  <1>1. Fits(tx, 2 + Len(payload)) /\ tx \o Framed(payload) \in Seq(Byte)
    BY AnswerFits
  <1>2. QED
    BY <1>1 DEF Respond

-----------------------------------------------------------------------------
(* The commands of native mode, one lemma each: they answer without        *)
(* overrunning the queue and leave values of the right type.               *)

ServeKeeps ==
    /\ tx' \in Seq(Byte) /\ halted' = halted
    /\ CdcTypeOK' /\ KeptTypeOK'

(* The bytes of a packet after its header.                                 *)
LEMMA PacketPart ==
    ASSUME NEW p \in Seq(Byte), NEW m \in Nat, NEW n \in Nat, m >= 1, n >= m - 1, n <= Len(p)
    PROVE  /\ SubSeq(p, m, n) \in Seq(Byte)
           /\ Len(SubSeq(p, m, n)) = n - m + 1
  <1>1. CASE m <= n
    BY <1>1, SubSeqProperties
  <1>2. CASE ~(m <= n)
    <2>1. n = m - 1
      BY <1>2
    <2>2. SubSeq(p, m, n) = <<>>
      BY <2>1
    <2>3. QED
      BY <2>1, <2>2
  <1>3. QED
    BY <1>1, <1>2

(* A run of n copies of one byte (memset of a field or an answer).         *)
LEMMA FillType ==
    ASSUME NEW n \in Nat, NEW b \in Byte
    PROVE  Fill(n, b) \in Seq(Byte) /\ Len(Fill(n, b)) = n
  BY DEF Fill

(* The part that survives a reset keeps its types if left alone.           *)
LEMMA UnchangedKept ==
    ASSUME KeptTypeOK, UNCHANGED keptVars
    PROVE  KeptTypeOK'
  BY DEF KeptTypeOK, keptVars

(* The boot loader's registers keep their types if left alone.             *)
LEMMA UnchangedBoot ==
    ASSUME BootTypeOK, UNCHANGED bootVars
    PROVE  BootTypeOK'
  BY DEF BootTypeOK, bootVars

(* The serial line keeps its types if left alone.                          *)
LEMMA UnchangedCdc ==
    ASSUME CdcTypeOK, UNCHANGED cdcVars
    PROVE  CdcTypeOK'
  BY DEF CdcTypeOK, cdcVars

(* The answers of fixed bytes.                                             *)
LEMMA FixedAnswers ==
    /\ Done \in Seq(Byte) /\ Len(Done) <= 1024
    /\ Firmware \in Seq(Byte) /\ Len(Firmware) <= 1024
    /\ AtRest \in Seq(Byte) /\ Len(AtRest) <= 1024
    /\ Uid \in Seq(Byte) /\ Len(Uid) <= 1024
  BY DEF Done, Firmware, AtRest, Uid, Byte

(* Commands that only answer a fixed packet.                               *)
LEMMA PlainCorrect ==
    ASSUME BufSize > 1026, TypeOK, tx = <<>>, NEW p, ServePlain(p)
    PROVE  ServeKeeps
  <1>1. tx' \in Seq(Byte) /\ halted' = halted
    <2>1. CASE Respond(Done)
      BY <2>1, FixedAnswers, RespondFits
    <2>2. CASE Respond(Uid)
      BY <2>2, FixedAnswers, RespondFits
    <2>3. CASE Respond(Firmware)
      BY <2>3, FixedAnswers, RespondFits
    <2>4. CASE Respond(<<eepromMode>>)
      <3>1. <<eepromMode>> \in Seq(Byte) /\ Len(<<eepromMode>>) <= 1024
        BY DEF TypeOK, KeptTypeOK
      <3>2. QED
        BY <2>4, <3>1, RespondFits, ZenonT(40)
    <2>5. CASE Respond(saveId)
      <3>1. saveId \in Seq(Byte) /\ Len(saveId) <= 1024
        BY DEF TypeOK, KeptTypeOK
      <3>2. QED
        BY <2>5, <3>1, RespondFits
    <2>6. CASE Respond(AtRest)
      BY <2>6, FixedAnswers, RespondFits
    <2>7. QED
      BY <2>1, <2>2, <2>3, <2>4, <2>5, <2>6 DEF ServePlain
  <1>2. UNCHANGED keptVars /\ UNCHANGED cdcVars
    BY DEF ServePlain
  <1>3. QED
    BY <1>1, <1>2, UnchangedKept, UnchangedCdc DEF ServeKeeps, TypeOK

(* The cast of an argument to a byte (uint8).                              *)
LEMMA ByteOfArg ==
    ASSUME NEW a \in Nat
    PROVE  a % 256 \in Byte
  BY DEF Byte

(* EEPROM_MODE stores its argument and answers.                            *)
LEMMA EepromModeCorrect ==
    ASSUME BufSize > 1026, TypeOK, tx = <<>>, NEW p \in Seq(Byte), Len(p) >= 2,
           ServeEepromMode(p)
    PROVE  ServeKeeps
  <1>1. tx' \in Seq(Byte) /\ halted' = halted
    BY FixedAnswers, RespondFits DEF ServeEepromMode
  <1>2. Arg(p) % 256 \in Byte
    BY HeaderBounds, ByteOfArg
  <1>3. KeptTypeOK'
    BY <1>2 DEF ServeEepromMode, TypeOK, KeptTypeOK
  <1>4. QED
    BY <1>1, <1>3, UnchangedCdc DEF ServeEepromMode, ServeKeeps, TypeOK

(* EEPROM_READ's payload is n bytes, wherever the array ends.              *)
LEMMA EepromBytesType ==
    ASSUME NEW a, NEW n \in Nat, NEW b \in Byte
    PROVE  EepromBytes(a, n, b) \in Seq(Byte) /\ Len(EepromBytes(a, n, b)) = n
  <1>. DEFINE Inside(i) == a + (i - 1) \div 2 < EepromWords
              e == [i \in 1 .. n |-> IF Inside(i) THEN 0 ELSE b]
  <1>1. EepromBytes(a, n, b) = e
    BY DEF EepromBytes
  <1>2. 0 \in Byte
    BY DEF Byte
  <1>. HIDE DEF Inside
  <1>3. e \in Seq(Byte) /\ Len(e) = n
    BY <1>2
  <1>4. QED
    BY <1>1, <1>3

(* EEPROM_READ answers at most 1024 bytes, the longest answer.             *)
LEMMA EepromReadCorrect ==
    ASSUME BufSize > 1026, TypeOK, tx = <<>>, NEW p \in Seq(Byte), Len(p) >= 2,
           ServeEepromRead(p)
    PROVE  ServeKeeps
  <1>1. Arg(p) \in Nat /\ Arg(p) <= 512
    BY HeaderBounds
  <1>2. 2 * Arg(p) \in Nat /\ 2 * Arg(p) <= 1024
    BY <1>1
  <1>. DEFINE answer(b) == EepromBytes(p[3] + 256 * p[4], 2 * Arg(p), b)
  <1>3. PICK b \in Byte : Respond(answer(b))
    BY McuAssumption DEF ServeEepromRead
  <1>4. answer(b) \in Seq(Byte) /\ Len(answer(b)) <= 1024
    BY <1>2, EepromBytesType
  <1>. HIDE DEF answer
  <1>5. tx' \in Seq(Byte) /\ halted' = halted
    BY <1>3, <1>4, RespondFits
  <1>6. QED
    BY <1>5, UnchangedKept, UnchangedCdc DEF ServeEepromRead, ServeKeeps, TypeOK

(* SET_SAVE_ID stores the four bytes behind its header.                    *)
LEMMA SetSaveIdCorrect ==
    ASSUME BufSize > 1026, TypeOK, tx = <<>>, NEW p \in Seq(Byte), Len(p) >= 6,
           ServeSetSaveId(p)
    PROVE  ServeKeeps
  <1>1. tx' \in Seq(Byte) /\ halted' = halted
    BY FixedAnswers, RespondFits DEF ServeSetSaveId
  <1>2. SubSeq(p, 3, 6) \in Seq(Byte) /\ Len(SubSeq(p, 3, 6)) = 4
    BY PacketPart
  <1>3. KeptTypeOK'
    BY <1>2 DEF ServeSetSaveId, TypeOK, KeptTypeOK
  <1>4. QED
    BY <1>1, <1>3, UnchangedCdc DEF ServeSetSaveId, ServeKeeps, TypeOK

(* ECHO answers its own payload, at most 512 bytes.                        *)
LEMMA EchoCorrect ==
    ASSUME BufSize > 1026, TypeOK, tx = <<>>, NEW p \in Seq(Byte),
           Len(p) >= 2, Len(p) >= 2 + Arg(p), ServeEcho(p)
    PROVE  ServeKeeps
  <1>1. Arg(p) \in Nat /\ Arg(p) <= 512 /\ Len(p) \in Nat
    BY HeaderBounds
  <1>2. SubSeq(p, 3, 2 + Arg(p)) \in Seq(Byte) /\ Len(SubSeq(p, 3, 2 + Arg(p))) <= 1024
    BY <1>1, PacketPart
  <1>3. tx' \in Seq(Byte) /\ halted' = halted
    <2> DEFINE q == SubSeq(p, 3, 2 + Arg(p))
    <2>1. q \in Seq(Byte) /\ Len(q) <= 1024 /\ Respond(q)
      BY <1>2 DEF ServeEcho
    <2> HIDE DEF q
    <2> QED BY <2>1, RespondFits
  <1>4. QED
    BY <1>3, UnchangedKept, UnchangedCdc DEF ServeEcho, ServeKeeps, TypeOK

(* The tables of the RTC command have the lengths its users assume.        *)
LEMMA RtcSizes ==
    ASSUME NEW c \in 0 .. 15
    PROVE  /\ RtcTxSize[c + 1] \in Nat /\ RtcTxSize[c + 1] <= 7
           /\ c = 4 => RtcRxSize[c + 1] = 7
           /\ c = 6 => RtcRxSize[c + 1] = 3
  BY DEF RtcTxSize, RtcRxSize

LEMMA LowNibble == \A n \in Nat : n % 16 \in 0 .. 15
OBVIOUS

(* RTC_COMMAND stores and answers as its tables say.                       *)
LEMMA RtcCorrect ==
    ASSUME BufSize > 1026, TypeOK, tx = <<>>, NEW p \in Seq(Byte),
           Len(p) >= 2, Len(p) >= 2 + RtcRxSize[RtcCmd(p) + 1], ServeRtc(p)
    PROVE  ServeKeeps
  <1>0. ASSUME NEW q \in Seq(Byte), Len(q) <= 1024, Respond(q)
        PROVE  tx' \in Seq(Byte) /\ halted' = halted
    BY <1>0, RespondFits
  <1>1. RtcCmd(p) \in 0 .. 15
    <2>1. Arg(p) \in Nat
      BY HeaderBounds
    <2>2. QED
      BY <2>1, LowNibble, Zenon DEF RtcCmd
  <1>2. rtc \in Seq(Byte) /\ Len(rtc) = 7
    BY DEF TypeOK, KeptTypeOK
  <1>3. <<>> \in Seq(Byte) /\ Len(<<>>) <= 1024 /\ 0 \in Byte
    BY DEF Byte
  <1>7. Respond(<<>>) => tx' \in Seq(Byte) /\ halted' = halted
    <2>1. ASSUME NEW q, q = <<>>, Respond(q) PROVE tx' \in Seq(Byte) /\ halted' = halted
      <3>1. q \in Seq(Byte) /\ Len(q) <= 1024
        BY <1>3, <2>1
      <3> QED BY <2>1, <3>1, <1>0
    <2> QED BY <2>1, Zenon
  <1>4. tx' \in Seq(Byte) /\ halted' = halted /\ rtc' \in Seq(Byte) /\ Len(rtc') = 7
    <2>1. CASE RtcCmd(p) = 4 /\ rtc' = SubSeq(p, 3, 9) /\ Respond(<<>>)
      <3>1. RtcRxSize[RtcCmd(p) + 1] = 7
        BY <1>1, <2>1, RtcSizes
      <3>2. rtc' \in Seq(Byte) /\ Len(rtc') = 7
        BY <3>1, <2>1, PacketPart
      <3>3. QED
        BY <3>2, <1>7, <2>1
    <2>2. CASE /\ RtcCmd(p) = 6
               /\ rtc' = SubSeq(rtc, 1, 4) \o SubSeq(p, 3, 5) /\ Respond(<<>>)
      <3>1. RtcRxSize[RtcCmd(p) + 1] = 3
        BY <1>1, <2>2, RtcSizes
      <3>2. SubSeq(p, 3, 5) \in Seq(Byte) /\ Len(SubSeq(p, 3, 5)) = 3
        BY <3>1, PacketPart
      <3>3. SubSeq(rtc, 1, 4) \in Seq(Byte) /\ Len(SubSeq(rtc, 1, 4)) = 4
        <4>1. 4 \in Nat /\ 4 <= Len(rtc)
          BY <1>2
        <4>2. QED
          BY <4>1, <1>2, PrefixType
      <3>4. rtc' \in Seq(Byte) /\ Len(rtc') = 7
        BY <3>2, <3>3, <2>2, ConcatProperties
      <3>5. QED
        BY <3>4, <1>7, <2>2
    <2>3. CASE Respond(rtc) /\ UNCHANGED rtc
      <3>1. Len(rtc) <= 1024
        BY <1>2
      <3>2. QED
        BY <3>1, <1>0, <1>2, <2>3, Zenon
    <2>4. CASE Respond(SubSeq(rtc, 5, 7)) /\ UNCHANGED rtc
      <3>1. SubSeq(rtc, 5, 7) \in Seq(Byte) /\ Len(SubSeq(rtc, 5, 7)) <= 1024
        <4>1. 5 \in Nat /\ 7 \in Nat /\ 5 >= 1 /\ 7 >= 5 - 1 /\ 7 <= Len(rtc)
          BY <1>2
        <4>2. SubSeq(rtc, 5, 7) \in Seq(Byte) /\ Len(SubSeq(rtc, 5, 7)) = 7 - 5 + 1
          BY <4>1, <1>2, PacketPart
        <4>3. QED
          BY <4>2
      <3>2. QED
        BY <3>1, <1>0, <1>2, <2>4, Zenon
    <2>5. CASE Respond(Fill(RtcTxSize[RtcCmd(p) + 1], 0)) /\ UNCHANGED rtc
      <3>1. PICK n \in Nat : n = RtcTxSize[RtcCmd(p) + 1] /\ n <= 7
        BY <1>1, RtcSizes
      <3>2. Fill(n, 0) \in Seq(Byte) /\ Len(Fill(n, 0)) = n
        BY <3>1, <1>3, FillType, ZenonT(40)
      <3>3. QED
        <4>1. Fill(n, 0) \in Seq(Byte) /\ Len(Fill(n, 0)) <= 1024
          BY <3>1, <3>2
        <4>2. QED
          BY <4>1, <3>1, <1>0, <1>2, <2>5, Zenon
    <2>6. QED
      BY <2>1, <2>2, <2>3, <2>4, <2>5 DEF ServeRtc
  <1>5. KeptTypeOK' /\ UNCHANGED cdcVars
    BY <1>4 DEF ServeRtc, TypeOK, KeptTypeOK
  <1>6. QED
    BY <1>4, <1>5, UnchangedCdc DEF ServeKeeps, TypeOK

(* What one reader takes out of the serial line.                           *)
LEMMA TakenType ==
    ASSUME NEW who \in Reader, NEW bytes \in Seq(Byte)
    PROVE  Taken(who, bytes) \in Seq([by : Reader, byte : Byte])
  BY DEF Taken

(* What is left of the serial line once its first bytes are taken.         *)
LEMMA SuffixType ==
    ASSUME NEW q \in Seq(Byte), NEW m \in Nat, m >= 1
    PROVE  SubSeq(q, m, Len(q)) \in Seq(Byte)
  <1>1. CASE m <= Len(q)
    BY <1>1, SubSeqProperties
  <1>2. CASE ~(m <= Len(q))
    BY <1>2
  <1>3. QED
    BY <1>1, <1>2

(* A read never asks for nothing: argument 0 stands for DefaultArg.        *)
LEMMA HeaderArgRead ==
    ASSUME NEW p \in Seq(Byte), Len(p) >= 2, Cmd(p) = CDC_READ
    PROVE  Arg(p) >= 1
  <1>1. p[1] \in Byte /\ p[2] \in Byte
    OBVIOUS
  <1>2. PICK arg \in Nat : arg = p[1] \div 128 + 2 * p[2]
    BY <1>1, HeaderArg
  <1>3. QED
    BY <1>2, McuAssumption DEF Arg

(* CDC_READ takes from the serial line what it puts into its answer.       *)
LEMMA CdcReadCorrect ==
    ASSUME BufSize > 1026, TypeOK, tx = <<>>, NEW p \in Seq(Byte), Len(p) >= 2,
           ServeCdcRead(p)
    PROVE  ServeKeeps
  <1> DEFINE n == Smaller(Arg(p), MaxCdc)
             bytes == SubSeq(Ready, 1, Smaller(n, Len(Ready)))
  <1>1. /\ unget \in Seq(Byte) /\ Len(unget) \in Nat /\ Len(unget) <= 1
        /\ serialIn \in Seq(Byte) /\ taken \in Seq([by : Reader, byte : Byte])
        /\ serialOut \in Seq(Byte)
    BY DEF TypeOK, CdcTypeOK
  <1>2. Ready \in Seq(Byte) /\ Len(Ready) \in Nat
    BY <1>1 DEF Ready
  <1>3. n \in Nat /\ n <= 255
    <2>1. Arg(p) \in Nat /\ MaxCdc \in Nat /\ MaxCdc <= 255
      BY HeaderBounds, McuAssumption
    <2>2. QED
      BY <2>1 DEF Smaller
  <1>4. bytes \in Seq(Byte) /\ Len(bytes) <= 1024
    <2>1. PICK k \in Nat : k = Smaller(n, Len(Ready)) /\ k <= Len(Ready) /\ k <= 255
      BY <1>2, <1>3 DEF Smaller
    <2>2. SubSeq(Ready, 1, k) \in Seq(Byte) /\ Len(SubSeq(Ready, 1, k)) = k
      BY <1>2, <2>1, PrefixType
    <2>3. QED
      BY <2>1, <2>2
  <1>5. 1 + n - Len(unget) \in Nat /\ 1 + n - Len(unget) >= 1
    <2>1. n >= 1
      <3>1. Arg(p) >= 1
        BY HeaderArgRead DEF ServeCdcRead
      <3>2. Arg(p) \in Nat /\ MaxCdc \in Nat /\ MaxCdc >= 1
        BY HeaderBounds, McuAssumption
      <3>3. QED
        BY <3>1, <3>2 DEF Smaller
    <2>2. QED
      BY <2>1, <1>1, <1>3
  <1>6. serialIn' \in Seq(Byte)
    BY <1>1, <1>5, SuffixType DEF ServeCdcRead
  <1>7. taken' \in Seq([by : Reader, byte : Byte])
    <2>1. Taken("host", bytes) \in Seq([by : Reader, byte : Byte])
      BY <1>4, TakenType, ZenonT(40) DEF Reader
    <2>2. QED
      BY <2>1, <1>1, ConcatProperties DEF ServeCdcRead
  <1>8. CdcTypeOK'
    BY <1>1, <1>6, <1>7 DEF ServeCdcRead, CdcTypeOK
  <1>9. tx' \in Seq(Byte) /\ halted' = halted
    BY <1>4, RespondFits, ZenonT(40) DEF ServeCdcRead
  <1>10. QED
    BY <1>8, <1>9, UnchangedKept DEF ServeCdcRead, ServeKeeps, TypeOK

(* CDC_WRITE sends a prefix of its payload and answers its length.         *)
LEMMA CdcWriteCorrect ==
    ASSUME BufSize > 1026, TypeOK, tx = <<>>, NEW p \in Seq(Byte),
           Len(p) >= 2, Len(p) >= 2 + Arg(p), ServeCdcWrite(p)
    PROVE  ServeKeeps
  <1>1. Arg(p) \in Nat /\ Arg(p) <= 512 /\ Len(p) \in Nat
    BY HeaderBounds
  <1>2. PICK n \in 0 .. Arg(p) :
           /\ serialOut' = serialOut \o SubSeq(p, 3, 2 + n)
           /\ Fits(tx, 2 + Len(Short(n)))
                => tx' = tx \o Framed(Short(n)) /\ halted' = halted
    BY DEF ServeCdcWrite, Respond
  <1>3. n \in Nat /\ n <= 512 /\ 2 + n <= Len(p)
    BY <1>1, <1>2
  <1>4. Short(n) \in Seq(Byte) /\ Len(Short(n)) <= 1024
    <2>1. n \in Nat /\ n <= 2048
      BY <1>3
    <2>2. QED
      BY <2>1, ShortType
  <1>5. tx' \in Seq(Byte) /\ halted' = halted
    BY <1>2, <1>4, AnswerFits
  <1>6. SubSeq(p, 3, 2 + n) \in Seq(Byte)
    BY <1>3, PacketPart
  <1>7. serialOut' \in Seq(Byte)
    BY <1>2, <1>6, ConcatProperties DEF TypeOK, CdcTypeOK
  <1>8. CdcTypeOK'
    BY <1>7 DEF ServeCdcWrite, TypeOK, CdcTypeOK
  <1>9. QED
    BY <1>5, <1>8, UnchangedKept DEF ServeCdcWrite, ServeKeeps, TypeOK

(* CDC_AVAILABLE takes one byte to look and keeps it back.                 *)
LEMMA CdcAvailableCorrect ==
    ASSUME BufSize > 1026, TypeOK, tx = <<>>, NEW p, ServeCdcAvailable(p)
    PROVE  ServeKeeps
  <1>1. /\ unget \in Seq(Byte) /\ Len(unget) \in Nat /\ Len(unget) <= 1
        /\ serialIn \in Seq(Byte)
    BY DEF TypeOK, CdcTypeOK
  <1>2. Ready \in Seq(Byte) /\ Len(Ready) \in Nat
    BY <1>1 DEF Ready
  <1>3. unget' \in Seq(Byte) /\ Len(unget') \in Nat /\ Len(unget') <= 1
    <2>1. PICK k \in Nat : k = Smaller(1, Len(Ready)) /\ k <= Len(Ready) /\ k <= 1
      BY <1>2 DEF Smaller
    <2>2. SubSeq(Ready, 1, k) \in Seq(Byte) /\ Len(SubSeq(Ready, 1, k)) = k
      BY <1>2, <2>1, PrefixType
    <2>3. QED
      BY <2>1, <2>2 DEF ServeCdcAvailable
  <1>4. serialIn' \in Seq(Byte)
    <2>1. 2 - Len(unget) \in Nat /\ 2 - Len(unget) >= 1
      BY <1>1
    <2>2. QED
      BY <1>1, <2>1, SuffixType DEF ServeCdcAvailable
  <1>5. tx' \in Seq(Byte) /\ halted' = halted
    <2>1. PICK k \in Nat : k = Len(unget') /\ k <= 2048
      BY <1>3
    <2>2. Short(k) \in Seq(Byte) /\ Len(Short(k)) <= 1024
      BY <2>1, ShortType
    <2>3. /\ Fits(tx, 2 + Len(Short(k)))
          /\ tx \o Framed(Short(k)) \in Seq(Byte)
      BY <2>2, AnswerFits
    <2>4. Respond(Short(Len(unget')))
      BY DEF ServeCdcAvailable
    <2>5. /\ Fits(tx, 2 + Len(Short(k)))
            => tx' = tx \o Framed(Short(k)) /\ halted' = halted
      BY <2>1, <2>4 DEF Respond
    <2>6. QED
      BY <2>3, <2>5
  <1>6. CdcTypeOK'
    BY <1>3, <1>4 DEF ServeCdcAvailable, TypeOK, CdcTypeOK
  <1>7. QED
    BY <1>5, <1>6, UnchangedKept DEF ServeCdcAvailable, ServeKeeps, TypeOK

(* CDC_FLUSH forgets the byte that CDC_AVAILABLE kept back.                *)
LEMMA CdcFlushCorrect ==
    ASSUME BufSize > 1026, TypeOK, tx = <<>>, NEW p, ServeCdcFlush(p)
    PROVE  ServeKeeps
  <1>1. tx' \in Seq(Byte) /\ halted' = halted
    <2>1. <<>> \in Seq(Byte) /\ Len(<<>>) <= 1024
      OBVIOUS
    <2>2. QED
      BY <2>1, RespondFits, ZenonT(40) DEF ServeCdcFlush
  <1>2. taken' \in Seq([by : Reader, byte : Byte])
    <2>1. Taken("flush", unget) \in Seq([by : Reader, byte : Byte])
      BY TakenType DEF Reader, TypeOK, CdcTypeOK
    <2>2. QED
      BY <2>1, ConcatProperties DEF ServeCdcFlush, TypeOK, CdcTypeOK
  <1>3. CdcTypeOK'
    BY <1>2 DEF ServeCdcFlush, TypeOK, CdcTypeOK
  <1>4. QED
    BY <1>1, <1>3, UnchangedKept DEF ServeCdcFlush, ServeKeeps, TypeOK

(* An unknown command changes nothing and makes no answer.                 *)
LEMMA UnknownCorrect ==
    ASSUME TypeOK, NEW p, ServeUnknown(p)
    PROVE  ServeKeeps
  BY UnchangedKept, UnchangedCdc DEF ServeUnknown, ServeKeeps, TypeOK

(* A complete packet is served and used up, whatever its command.          *)
LEMMA ServeCorrect ==
    ASSUME BufSize > 1026, IInv, ~bootMode, tx = <<>>, NEW b \in Byte,
           Complete(Append(rx, b)), Serve(Append(rx, b))
    PROVE  rx' = <<>> /\ ServeKeeps
  <1>0. TypeOK /\ rx \in Seq(Byte)
    BY DEF IInv, TypeOK
  <1>1. PICK p \in Seq(Byte) : p = Append(rx, b)
    BY <1>0, AppendByte
  <1>2. rx' = <<>>
    BY PacketUsedUp DEF Serve, Rest
  <1>3. Len(p) >= 2 /\ Len(p) >= 2 + PayloadLen(p) /\ Len(p) \in Nat
    BY <1>1 DEF Complete, PacketLen
  <1>4. ServeKeeps
    <2>1. CASE ServePlain(p)
      BY <2>1, <1>0, PlainCorrect
    <2>2. CASE ServeEepromMode(p)
      BY <2>2, <1>0, <1>3, EepromModeCorrect
    <2>3. CASE ServeEepromRead(p)
      BY <2>3, <1>0, <1>3, EepromReadCorrect
    <2>4. CASE ServeSetSaveId(p)
      <3>1. PayloadLen(p) = 4
        BY <2>4 DEF ServeSetSaveId, PayloadLen, SET_SAVE_ID, CDC_WRITE, ECHO, RTC_COMMAND
      <3>2. Len(p) >= 6
        BY <3>1, <1>3
      <3>3. QED
        BY <2>4, <3>2, <1>0, SetSaveIdCorrect
    <2>5. CASE ServeEcho(p)
      <3>1. PayloadLen(p) = Arg(p)
        BY <2>5 DEF ServeEcho, PayloadLen
      <3>2. QED
        BY <2>5, <3>1, <1>0, <1>3, EchoCorrect
    <2>6. CASE ServeRtc(p)
      <3>1. PayloadLen(p) = RtcRxSize[RtcCmd(p) + 1]
        BY <2>6 DEF ServeRtc, PayloadLen, CDC_WRITE, ECHO, RTC_COMMAND
      <3>2. QED
        BY <2>6, <3>1, <1>0, <1>3, RtcCorrect
    <2>7. CASE ServeCdcRead(p)
      BY <2>7, <1>0, <1>3, CdcReadCorrect
    <2>8. CASE ServeCdcWrite(p)
      <3>1. PayloadLen(p) = Arg(p)
        BY <2>8 DEF ServeCdcWrite, PayloadLen
      <3>2. QED
        BY <2>8, <3>1, <1>0, <1>3, CdcWriteCorrect
    <2>9. CASE ServeCdcAvailable(p)
      BY <2>9, <1>0, CdcAvailableCorrect
    <2>10. CASE ServeCdcFlush(p)
      BY <2>10, <1>0, CdcFlushCorrect
    <2>11. CASE ServeUnknown(p)
      BY <2>11, <1>0, UnknownCorrect
    <2>12. QED
      BY <1>1, <2>1, <2>2, <2>3, <2>4, <2>5, <2>6, <2>7, <2>8, <2>9, <2>10, <2>11
         DEF Serve
  <1>5. QED
    BY <1>2, <1>4

-----------------------------------------------------------------------------
(* The actions, one lemma each: they keep the inductive invariant.         *)

(* A byte of the native protocol: waited for more, or served.              *)
LEMMA NativeByteKeeps ==
    ASSUME BufSize > 1026, IInv, ~halted, NEW b \in Byte, NativeByte(b)
    PROVE  IInv'
  <1>0. TypeOK /\ rx \in Seq(Byte)
    BY DEF IInv, TypeOK
  <1>1. PICK p \in Seq(Byte) : p = Append(rx, b)
    BY <1>0, AppendByte
  <1>2. ~bootMode /\ tx = <<>> /\ UNCHANGED bootVars
    BY DEF NativeByte
  <1>3. BootTypeOK' /\ ~bootMode' /\ bootStep' = bootStep /\ bootCmd' = bootCmd
    <2>1. BootTypeOK'
      BY <1>0, <1>2, UnchangedBoot DEF TypeOK
    <2>2. bootMode' = bootMode /\ bootStep' = bootStep /\ bootCmd' = bootCmd
      BY <1>2 DEF bootVars
    <2>3. QED
      BY <2>1, <2>2, <1>2
  <1>4. CASE p[1] = FillByte
    <2>1. rx = <<>>
      BY <1>4, <1>0, <1>1, <1>2, AppendByte DEF IInv, RxUnfinished
    <2>2. rx' = <<>>
      BY <1>4, <2>1, <1>1, AppendByte DEF NativeByte
    <2>3. UNCHANGED <<tx, keptVars, cdcVars, halted>>
      BY <1>4, <1>1 DEF NativeByte
    <2>4. TypeOK'
      BY <2>2, <2>3, <1>0, <1>3, UnchangedKept, UnchangedCdc DEF TypeOK
    <2>5. QED
      BY <2>2, <2>3, <2>4, <1>3
         DEF IInv, RxUnfinished, NoPacketBehindAnswer, OnlyEraseHalts, StepHasCommand
  <1>5. CASE p[1] # FillByte /\ ~Complete(p)
    <2>1. rx' = p /\ UNCHANGED <<tx, keptVars, cdcVars, halted>>
      BY <1>5, <1>1 DEF NativeByte
    <2>2. TypeOK'
      BY <2>1, <1>0, <1>3, UnchangedKept, UnchangedCdc DEF TypeOK
    <2>3. RxUnfinished'
      BY <2>1, <1>3, <1>5 DEF RxUnfinished, Complete, PacketLen, PayloadLen, RtcCmd, Cmd, Arg
    <2>4. QED
      BY <2>1, <2>2, <2>3, <1>2, <1>3
         DEF IInv, NoPacketBehindAnswer, OnlyEraseHalts, StepHasCommand
  <1>6. CASE p[1] # FillByte /\ Complete(p)
    <2>1. rx' = <<>> /\ ServeKeeps
      BY <1>6, <1>1, <1>2, ServeCorrect DEF NativeByte
    <2>2. TypeOK'
      BY <2>1, <1>0, <1>3 DEF ServeKeeps, TypeOK
    <2>3. QED
      BY <2>1, <2>2, <1>3
         DEF ServeKeeps, IInv, RxUnfinished, NoPacketBehindAnswer, OnlyEraseHalts,
             StepHasCommand
  <1>7. QED
    BY <1>4, <1>5, <1>6

(* An answer byte goes out and the byte that came in is dropped.           *)
LEMMA AnswerByteKeeps ==
    ASSUME IInv, ~halted, AnswerByte
    PROVE  IInv'
  <1>1. tx \in Seq(Byte) /\ tx # <<>> /\ rx = <<>>
    BY DEF IInv, TypeOK, AnswerByte, NoPacketBehindAnswer
  <1>2. tx' \in Seq(Byte)
    BY <1>1 DEF AnswerByte
  <1>3. UNCHANGED <<rx, bootVars, keptVars, cdcVars, halted>>
    BY DEF AnswerByte
  <1>4. TypeOK'
    BY <1>2, <1>3, UnchangedBoot, UnchangedKept, UnchangedCdc DEF IInv, TypeOK
  <1>5. QED
    BY <1>1, <1>3, <1>4
       DEF IInv, RxUnfinished, NoPacketBehindAnswer, OnlyEraseHalts, StepHasCommand, bootVars

(* A byte as a number, for steps that must not see the set.                *)
LEMMA ByteRange ==
    ASSUME NEW b \in Byte
    PROVE  b \in Nat /\ b <= 255
  BY DEF Byte

(* The greatest word, by inequalities: the provers enumerate 0 .. 65535.   *)
LEMMA WordBounds == WordMax \in Int /\ 65535 <= WordMax /\ WordMax <= 65535
  BY DEF WordMax

(* The length the current boot step waits for, and that it does not change *)
(* while the queue fills up behind its first byte.                         *)
LEMMA StepLenType ==
    ASSUME TypeOK, NEW p \in Seq(Byte), p # <<>>
    PROVE  /\ StepLen(p) \in Nat /\ StepLen(p) >= 2
           /\ bootCmd # BOOT_ERASE => StepLen(p) <= 258
           /\ bootStep = 1 => StepLen(p) <= 5
  <1>1. p[1] \in Nat /\ p[1] <= 255
    <2>1. p[1] \in Byte
      OBVIOUS
    <2>2. QED
      BY <2>1, ByteRange
  <1>2. eraseCount \in Nat /\ eraseCount <= 65535
    BY WordBounds DEF TypeOK, BootTypeOK, Word
  <1>3. QED
    BY <1>1, <1>2 DEF StepLen

(* An overrun is the boot loader waiting for an erase list.                *)
LEMMA OverrunKeeps ==
    ASSUME BufSize > 1026, IInv, ~halted, Overrun
    PROVE  IInv'
  <1>1. TypeOK /\ rx \in Seq(Byte) /\ Len(rx) \in Nat /\ BufSize \in Nat
    BY BufSizeAssumption DEF IInv, TypeOK
  <1>2. Len(rx) + 1 >= BufSize /\ rx # <<>>
    BY <1>1 DEF Overrun, Fits
  <1>3. bootMode
    <2>1. SUFFICES ASSUME ~bootMode PROVE FALSE
      OBVIOUS
    <2>2. Len(rx) >= 2 /\ ~Complete(rx)
      BY <2>1, <1>1, <1>2 DEF IInv, RxUnfinished
    <2>3. PacketLen(rx) \in Nat /\ PacketLen(rx) <= 514
      BY <2>2, <1>1, HeaderBounds
    <2>4. QED
      BY <2>2, <2>3, <1>1, <1>2 DEF Complete
  <1>4. bootStep # 0
    BY <1>1, <1>2, <1>3 DEF IInv, RxUnfinished
  <1>5. Len(rx) < StepLen(rx)
    BY <1>2, <1>3, <1>4 DEF IInv, RxUnfinished
  <1>6. bootStep = 2 /\ bootCmd = BOOT_ERASE
    <2>1. StepLen(rx) \in Nat
      BY <1>1, <1>2, StepLenType
    <2>2. StepLen(rx) > 258
      BY <2>1, <1>1, <1>2, <1>5
    <2>3. bootCmd = BOOT_ERASE /\ bootStep # 1
      BY <2>1, <2>2, <1>1, <1>2, StepLenType
    <2>4. QED
      BY <2>3, <1>1, <1>4 DEF TypeOK, BootTypeOK
  <1>7. 2 * eraseCount + 3 >= BufSize
    <2>1. StepLen(rx) = 2 * eraseCount + 3
      BY <1>6 DEF StepLen
    <2>2. eraseCount \in Nat
      BY <1>1 DEF TypeOK, BootTypeOK, Word
    <2>3. QED
      BY <2>1, <2>2, <1>1, <1>2, <1>5
  <1>8. halted' = TRUE /\ UNCHANGED <<tx, rx, bootVars, keptVars, cdcVars>>
    BY DEF Overrun
  <1>9. TypeOK'
    BY <1>1, <1>8, UnchangedBoot, UnchangedKept, UnchangedCdc DEF TypeOK
  <1>10. RxUnfinished' /\ NoPacketBehindAnswer' /\ StepHasCommand'
    BY <1>3, <1>4, <1>8
       DEF IInv, RxUnfinished, NoPacketBehindAnswer, StepHasCommand, StepLen, bootVars
  <1>11. QED
    BY <1>3, <1>6, <1>7, <1>8, <1>9, <1>10 DEF IInv, OnlyEraseHalts, bootVars

(* The sector count of an erase.                                           *)
LEMMA CountIsWord ==
    ASSUME NEW a \in Byte, NEW b \in Byte
    PROVE  256 * a + b \in Word
  BY WordBounds DEF Byte, Word

(* The acknowledgement of the boot loader fits an empty queue.             *)
LEMMA AckKeeps ==
    ASSUME BufSize > 1026, tx = <<>>, NEW ok, SendAck(ok)
    PROVE  tx' \in Seq(Byte) /\ halted' = halted /\ waitingAck' = TRUE
  <1>1. Len(tx) + 2 < BufSize
    BY BufSizeAssumption
  <1>2. Fits(tx, 2)
    BY <1>1 DEF Fits
  <1>3. <<0, IF ok THEN BOOT_ACK ELSE BOOT_NACK>> \in Seq(Byte)
    BY DEF Byte, BOOT_ACK, BOOT_NACK
  <1>4. QED
    BY <1>2, <1>3 DEF SendAck

(* What the byte that completes a boot step finds: the step is used up.    *)
LEMMA StepUsedUp ==
    ASSUME IInv, bootMode, InStep, NEW b \in Byte,
           Len(Append(rx, b)) >= StepLen(Append(rx, b))
    PROVE  Pop(Append(rx, b), StepLen(Append(rx, b))) = <<>>
  <1>0. TypeOK /\ rx \in Seq(Byte)
    BY DEF IInv, TypeOK
  <1>1. PICK p \in Seq(Byte) : p = Append(rx, b)
    BY <1>0, AppendByte
  <1>2. Len(rx) \in Nat /\ Len(p) \in Nat /\ Len(p) = Len(rx) + 1 /\ p # <<>>
    BY <1>0, <1>1, AppendByte
  <1>3. StepLen(p) \in Nat /\ StepLen(p) >= 2
    BY <1>0, <1>2, StepLenType
  <1>4. Len(p) <= StepLen(p)
    <2>1. CASE rx = <<>>
      BY <2>1, <1>2, <1>3
    <2>2. CASE rx # <<>>
      <3>1. Len(rx) < StepLen(rx)
        BY <2>2 DEF IInv, RxUnfinished, InStep
      <3>2. p[1] = rx[1]
        BY <2>2, <1>0, <1>1, AppendByte
      <3>3. StepLen(p) = StepLen(rx)
        BY <3>2 DEF StepLen
      <3>4. QED
        BY <3>1, <3>3, <1>2, <1>3
    <2>3. QED
      BY <2>1, <2>2
  <1>5. QED
    BY <1>1, <1>2, <1>3, <1>4, PopType

(* The boot loader throws away or answers a byte only when it is the first *)
(* in the queue, or completes what the queue holds.                        *)
BootKeeps ==
    /\ tx' \in Seq(Byte) /\ rx' = <<>> /\ halted' = halted
    /\ BootTypeOK' /\ StepHasCommand'

(* Every branch of the boot loader that finishes empties the queue.        *)
LEMMA BootUsedUp ==
    ASSUME BufSize > 1026, IInv, ~halted, bootMode, tx = <<>>, NEW b \in Byte,
           \/ BootAcked(Append(rx, b))     \/ BootNotAcked(Append(rx, b))
           \/ BootFirstStep(Append(rx, b)) \/ BootSecondStep(Append(rx, b))
           \/ BootStart(Append(rx, b))     \/ BootCommandGarbled(Append(rx, b))
           \/ BootCommand(Append(rx, b))   \/ BootNoise(Append(rx, b))
    PROVE  BootKeeps
  <1>0. TypeOK /\ BootTypeOK /\ rx \in Seq(Byte) /\ tx \in Seq(Byte) /\ StepHasCommand
    BY DEF IInv, TypeOK
  <1>1. PICK p \in Seq(Byte) : p = Append(rx, b)
    BY <1>0, AppendByte
  <1>2. /\ p[1] \in Byte /\ Len(p) \in Nat /\ Len(p) = Len(rx) + 1
        /\ rx # <<>> => p[1] = rx[1]
        /\ rx = <<>> => Tail(p) = <<>>
    BY <1>0, <1>1, AppendByte
  <1>3. rx # <<>> /\ bootStep = 0 =>
           ~waitingAck /\ bootStarted /\ p[1] = BOOT_START /\ Len(rx) < 3
    BY <1>2 DEF IInv, RxUnfinished
  <1>4. rx # <<>> => ~waitingAck
    BY <1>3 DEF IInv, RxUnfinished
  <1>5. CASE BootAcked(p)
    <2>1. rx = <<>>
      BY <1>2, <1>3, <1>4, <1>5 DEF BootAcked, BOOT_ACK, BOOT_START
    <2>2. tx' = tx /\ rx' = <<>> /\ halted' = halted
      BY <1>2, <1>5, <2>1 DEF BootAcked
    <2>3. BootTypeOK' /\ StepHasCommand'
      <3>1. /\ UNCHANGED <<bootStarted, bootCmd, bootStep, eraseCount>>
            /\ waitingAck' = FALSE /\ bootMode' \in BOOLEAN
        BY <1>5 DEF BootAcked, JumpDue
      <3>2. QED
        BY <1>0, <3>1 DEF BootTypeOK, StepHasCommand
    <2>4. QED
      BY <1>0, <2>2, <2>3 DEF BootKeeps
  <1>6. CASE BootNotAcked(p)
    <2>1. rx = <<>>
      BY <1>4, <1>6 DEF BootNotAcked
    <2>2. tx' = tx /\ rx' = <<>> /\ halted' = halted /\ UNCHANGED bootVars
      BY <1>2, <1>6, <2>1 DEF BootNotAcked
    <2>3. QED
      BY <1>0, <2>2, UnchangedBoot DEF BootKeeps, StepHasCommand, bootVars
  <1>7. CASE BootFirstStep(p)
    <2>1. rx' = <<>>
      BY <1>1, <1>7, StepUsedUp DEF BootFirstStep
    <2>2. tx' \in Seq(Byte) /\ halted' = halted /\ waitingAck' = TRUE
      BY <1>7, AckKeeps DEF BootFirstStep
    <2>3. eraseCount' \in Word
      <3>1. CASE bootCmd # BOOT_ERASE
        <4>1. eraseCount' = eraseCount
          BY <3>1, <1>7 DEF BootFirstStep
        <4>2. QED
          BY <4>1, <1>0 DEF BootTypeOK
      <3>2. CASE bootCmd = BOOT_ERASE
        <4>1. Len(p) >= 3
          BY <3>2, <1>7 DEF BootFirstStep, StepLen
        <4>2. p[1] \in Byte /\ p[2] \in Byte
          BY <4>1
        <4>3. eraseCount' = 256 * p[1] + p[2]
          BY <3>2, <1>7 DEF BootFirstStep
        <4>4. QED
          BY <4>2, <4>3, CountIsWord
      <3>3. QED
        BY <3>1, <3>2
    <2>4. bootStep' = 2 /\ UNCHANGED <<bootMode, bootStarted, bootCmd>> /\ bootStep # 0
      BY <1>7 DEF BootFirstStep, InStep
    <2>5. BootTypeOK' /\ StepHasCommand'
      BY <1>0, <2>2, <2>3, <2>4 DEF BootTypeOK, StepHasCommand
    <2>6. QED
      BY <2>1, <2>2, <2>5 DEF BootKeeps
  <1>8. CASE BootSecondStep(p)
    <2>1. rx' = <<>>
      BY <1>1, <1>8, StepUsedUp DEF BootSecondStep
    <2>2. tx' \in Seq(Byte) /\ halted' = halted /\ waitingAck' = TRUE
      BY <1>8, AckKeeps DEF BootSecondStep
    <2>3. bootStep' = 0 /\ UNCHANGED <<bootMode, bootStarted, bootCmd, eraseCount>>
      BY <1>8 DEF BootSecondStep
    <2>5. BootTypeOK' /\ StepHasCommand'
      BY <1>0, <2>2, <2>3 DEF BootTypeOK, StepHasCommand
    <2>6. QED
      BY <2>1, <2>2, <2>5 DEF BootKeeps
  <1>9. CASE BootStart(p)
    <2>1. rx' = <<>>
      BY <1>2, <1>3, <1>9 DEF BootStart, AtCommand
    <2>2. tx' \in Seq(Byte) /\ halted' = halted /\ waitingAck' = TRUE
      BY <1>9, AckKeeps DEF BootStart
    <2>3. bootStarted' = TRUE /\ UNCHANGED <<bootMode, bootCmd, bootStep, eraseCount>>
      BY <1>9 DEF BootStart
    <2>4. BootTypeOK' /\ StepHasCommand'
      BY <1>0, <2>2, <2>3 DEF BootTypeOK, StepHasCommand
    <2>5. QED
      BY <2>1, <2>2, <2>4 DEF BootKeeps
  <1>10. ASSUME BootCommandGarbled(p) \/ BootCommand(p)
         PROVE  Pop(p, 3) = <<>> /\ Len(p) >= 3
    <2>1. bootStep = 0 /\ Len(p) >= 3
      BY <1>10 DEF BootCommandGarbled, BootCommand, AtCommand
    <2>2. Len(p) <= 3
      <3>1. rx # <<>>
        BY <2>1, <1>2
      <3>2. QED
        BY <3>1, <2>1, <1>0, <1>2, <1>3
    <2>3. QED
      BY <2>1, <2>2, PopType
  <1>11. CASE BootCommandGarbled(p)
    <2>1. tx' = tx /\ rx' = <<>> /\ halted' = halted /\ UNCHANGED bootVars
      BY <1>10, <1>11 DEF BootCommandGarbled
    <2>2. QED
      BY <1>0, <2>1, UnchangedBoot DEF BootKeeps, StepHasCommand, bootVars
  <1>12. CASE BootCommand(p)
    <2>1. rx' = <<>> /\ Len(p) >= 3
      BY <1>10, <1>12 DEF BootCommand
    <2>2. tx' \in Seq(Byte) /\ halted' = halted /\ waitingAck' = TRUE
      BY <1>12, AckKeeps DEF BootCommand
    <2>3. p[2] \in Byte
      BY <2>1
    <2>4. /\ bootCmd' = p[2] /\ UNCHANGED <<bootMode, bootStarted, eraseCount>>
          /\ bootStep' = IF p[2] \in SteppedCommands THEN 1 ELSE 0
      BY <1>12 DEF BootCommand
    <2>5. BootTypeOK'
      BY <1>0, <2>2, <2>3, <2>4 DEF BootTypeOK
    <2>6. StepHasCommand'
      BY <2>4 DEF StepHasCommand
    <2>7. QED
      BY <2>1, <2>2, <2>5, <2>6 DEF BootKeeps
  <1>13. CASE BootNoise(p)
    <2>1. rx = <<>>
      BY <1>2, <1>3, <1>13 DEF BootNoise
    <2>2. tx' = tx /\ rx' = <<>> /\ halted' = halted /\ UNCHANGED bootVars
      BY <1>2, <1>13, <2>1 DEF BootNoise
    <2>3. QED
      BY <1>0, <2>2, UnchangedBoot DEF BootKeeps, StepHasCommand, bootVars
  <1>14. QED
    BY <1>1, <1>5, <1>6, <1>7, <1>8, <1>9, <1>11, <1>12, <1>13

(* A byte of the boot loader: waited for more, or a branch taken.          *)
LEMMA BootByteKeeps ==
    ASSUME BufSize > 1026, IInv, ~halted, NEW b \in Byte, BootByte(b)
    PROVE  IInv'
  <1>0. TypeOK /\ rx \in Seq(Byte)
    BY DEF IInv, TypeOK
  <1>1. PICK p \in Seq(Byte) : p = Append(rx, b)
    BY <1>0, AppendByte
  <1>2. bootMode /\ tx = <<>> /\ KeptTypeOK' /\ CdcTypeOK'
    BY <1>0, UnchangedKept, UnchangedCdc DEF BootByte, TypeOK
  <1>3. CASE BootKeeps
    BY <1>2, <1>3
       DEF BootKeeps, IInv, TypeOK, RxUnfinished, NoPacketBehindAnswer, OnlyEraseHalts
  <1>4. CASE BootStepWaits(p) \/ BootCommandWaits(p)
    <2>1. rx' = p /\ UNCHANGED <<tx, halted, bootVars>>
      BY <1>4 DEF BootStepWaits, BootCommandWaits
    <2>2. TypeOK'
      BY <2>1, <1>0, <1>2, UnchangedBoot DEF TypeOK
    <2>3. RxUnfinished'
      <3>1. CASE BootStepWaits(p)
        BY <3>1, <2>1, <1>2 DEF BootStepWaits, InStep, RxUnfinished, StepLen, bootVars
      <3>2. CASE BootCommandWaits(p)
        BY <3>2, <2>1, <1>2 DEF BootCommandWaits, AtCommand, RxUnfinished, bootVars
      <3>3. QED
        BY <3>1, <3>2, <1>4
    <2>4. QED
      BY <2>1, <2>2, <2>3, <1>2
         DEF IInv, NoPacketBehindAnswer, OnlyEraseHalts, StepHasCommand, bootVars
  <1>5. QED
    BY <1>1, <1>2, <1>3, <1>4, BootUsedUp DEF BootByte

(* nile_spi_mcu_exchange as a whole.                                       *)
LEMMA ExchangeKeeps ==
    ASSUME BufSize > 1026, IInv, NEW b \in Byte, Exchange(b)
    PROVE  IInv'
  BY AnswerByteKeeps, OverrunKeeps, NativeByteKeeps, BootByteKeeps DEF Exchange

(* nile_spi_mcu_reset(true, boot) leaves an empty, idle MCU.               *)
LEMMA ResetKeeps ==
    ASSUME IInv, NEW boot \in BOOLEAN, Reset(boot)
    PROVE  IInv'
  <1>1. TypeOK /\ CdcTypeOK /\ KeptTypeOK
    BY DEF IInv, TypeOK
  <1>2. tx' \in Seq(Byte) /\ rx' \in Seq(Byte) /\ tx' = <<>> /\ rx' = <<>> /\ halted' = halted
    BY DEF Reset
  <1>3. BootTypeOK' /\ StepHasCommand'
    <2>1. 0 \in Byte /\ 0 \in Word
      BY WordBounds DEF Byte, Word
    <2>2. bootMode' = boot /\ bootStarted' = FALSE /\ waitingAck' = FALSE
      BY DEF Reset
    <2>3. bootCmd' = 0 /\ bootStep' = 0 /\ eraseCount' = 0
      BY DEF Reset
    <2>4. QED
      BY <2>1, <2>2, <2>3 DEF BootTypeOK, StepHasCommand
  <1>4. KeptTypeOK'
    <2>1. 0 \in Byte
      BY DEF Byte
    <2>2. Fill(4, 0) \in Seq(Byte) /\ Len(Fill(4, 0)) = 4
      BY <2>1, FillType
    <2>3. QED
      BY <2>1, <2>2, <1>1 DEF Reset, KeptTypeOK
  <1>5. CdcTypeOK'
    <2>1. Taken("reset", unget) \in Seq([by : Reader, byte : Byte])
      BY <1>1, TakenType DEF Reader, CdcTypeOK
    <2>2. taken' \in Seq([by : Reader, byte : Byte])
      BY <2>1, <1>1, ConcatProperties DEF Reset, CdcTypeOK
    <2>3. QED
      BY <2>2, <1>1 DEF Reset, CdcTypeOK
  <1>6. TypeOK'
    BY <1>1, <1>2, <1>3, <1>4, <1>5 DEF TypeOK
  <1>7. ~halted'
    BY <1>2 DEF Reset
  <1>8. QED
    BY <1>2, <1>3, <1>6, <1>7 DEF IInv, RxUnfinished, NoPacketBehindAnswer, OnlyEraseHalts

(* The other users of the serial line touch nothing but the line.          *)
LEMMA SerialLineKeeps ==
    ASSUME IInv, (\E b \in Byte : FarEndSends(b)) \/ FarEndReads \/ UartReads
    PROVE  IInv'
  <1>1. TypeOK /\ CdcTypeOK
    BY DEF IInv, TypeOK
  <1>2. UNCHANGED <<tx, rx, bootVars, keptVars, halted>>
    BY DEF FarEndSends, FarEndReads, UartReads
  <1>3. CdcTypeOK'
    <2>1. ASSUME NEW b \in Byte, FarEndSends(b) PROVE CdcTypeOK'
      BY <1>1, <2>1 DEF FarEndSends, CdcTypeOK
    <2>2. CASE FarEndReads
      BY <1>1, <2>2 DEF FarEndReads, CdcTypeOK
    <2>3. CASE UartReads
      <3>1. serialIn \in Seq(Byte) /\ serialIn # <<>>
        BY <1>1, <2>3 DEF UartReads, CdcTypeOK
      <3>2. <<Head(serialIn)>> \in Seq(Byte) /\ Tail(serialIn) \in Seq(Byte)
        BY <3>1
      <3>3. Taken("uart", <<Head(serialIn)>>) \in Seq([by : Reader, byte : Byte])
        BY <3>2, TakenType DEF Reader
      <3>4. taken' \in Seq([by : Reader, byte : Byte])
        BY <1>1, <2>3, <3>3, ConcatProperties DEF UartReads, CdcTypeOK
      <3>5. QED
        BY <1>1, <2>3, <3>2, <3>4 DEF UartReads, CdcTypeOK
    <2>4. QED
      BY <2>1, <2>2, <2>3
  <1>4. TypeOK'
    BY <1>1, <1>2, <1>3, UnchangedBoot, UnchangedKept DEF TypeOK
  <1>5. RxUnfinished'
    BY <1>2 DEF IInv, RxUnfinished, Complete, PacketLen, PayloadLen, RtcCmd, Cmd, Arg,
                StepLen, bootVars
  <1>6. QED
    BY <1>2, <1>4, <1>5
       DEF IInv, NoPacketBehindAnswer, OnlyEraseHalts, StepHasCommand, bootVars

-----------------------------------------------------------------------------
(* A freshly started program has an empty, idle MCU.                       *)
LEMMA InitHolds == Init => IInv
  <1> SUFFICES ASSUME Init PROVE IInv
    OBVIOUS
  <1>1. 0 \in Byte /\ 0 \in Word
    BY WordBounds DEF Byte, Word
  <1>2. /\ Fill(4, 0) \in Seq(Byte) /\ Len(Fill(4, 0)) = 4
        /\ Fill(7, 0) \in Seq(Byte) /\ Len(Fill(7, 0)) = 7
    BY <1>1, FillType
  <1>3. BootTypeOK /\ StepHasCommand
    <2>1. bootMode = FALSE /\ bootStarted = FALSE /\ waitingAck = FALSE
      BY DEF Init
    <2>2. bootCmd = 0 /\ bootStep = 0 /\ eraseCount = 0
      BY DEF Init
    <2>3. QED
      BY <1>1, <2>1, <2>2 DEF BootTypeOK, StepHasCommand
  <1>4. KeptTypeOK
    BY <1>1, <1>2 DEF Init, KeptTypeOK
  <1>5. CdcTypeOK
    BY DEF Init, CdcTypeOK
  <1>6. tx = <<>> /\ rx = <<>> /\ halted = FALSE
    BY DEF Init
  <1>7. TypeOK
    <2>1. tx \in Seq(Byte) /\ rx \in Seq(Byte)
      BY <1>6
    <2>2. halted \in BOOLEAN
      BY <1>6, Zenon
    <2>3. QED
      BY <1>3, <1>4, <1>5, <2>1, <2>2 DEF TypeOK
  <1>8. QED
    BY <1>3, <1>6, <1>7 DEF IInv, RxUnfinished, NoPacketBehindAnswer, OnlyEraseHalts

(* Nothing changes when nothing happens.                                   *)
LEMMA StutterKeeps ==
    ASSUME IInv, UNCHANGED mcuVars
    PROVE  IInv'
  <1>1. /\ UNCHANGED bootVars /\ UNCHANGED keptVars /\ UNCHANGED cdcVars
        /\ tx' = tx /\ rx' = rx /\ halted' = halted
    BY DEF mcuVars
  <1>2. TypeOK'
    BY <1>1, UnchangedBoot, UnchangedKept, UnchangedCdc DEF IInv, TypeOK
  <1>3. RxUnfinished'
    BY <1>1 DEF IInv, RxUnfinished, Complete, PacketLen, PayloadLen, RtcCmd, Cmd, Arg,
                StepLen, bootVars
  <1>4. QED
    BY <1>1, <1>2, <1>3
       DEF IInv, NoPacketBehindAnswer, OnlyEraseHalts, StepHasCommand, bootVars

(* The inductive invariant, with a queue longer than any answer.           *)
THEOREM InvariantHolds ==
    ASSUME BufSize > 1026
    PROVE  Spec => []IInv
  <1>1. IInv /\ [Next]_mcuVars => IInv'
    <2> SUFFICES ASSUME IInv, [Next]_mcuVars PROVE IInv'
      OBVIOUS
    <2>1. ASSUME NEW b \in Byte, Exchange(b) PROVE IInv'
      BY <2>1, ExchangeKeeps
    <2>2. ASSUME NEW boot \in BOOLEAN, Reset(boot) PROVE IInv'
      BY <2>2, ResetKeeps
    <2>3. CASE (\E b \in Byte : FarEndSends(b)) \/ FarEndReads \/ UartReads
      BY <2>3, SerialLineKeeps
    <2>4. CASE UNCHANGED mcuVars
      BY <2>4, StutterKeeps
    <2>5. QED
      BY <2>1, <2>2, <2>3, <2>4 DEF Next
  <1>2. QED
    BY <1>1, InitHolds, PTL DEF Spec

(* Type correctness of the MCU.                                            *)
THEOREM TypeCorrect ==
    ASSUME BufSize > 1026
    PROVE  Spec => []TypeOK
  <1>1. IInv => TypeOK
    BY DEF IInv
  <1>2. QED
    BY <1>1, InvariantHolds, PTL

(* What is complete has been served: nothing waits unserved in the queue.  *)
THEOREM NothingLeftUnserved ==
    ASSUME BufSize > 1026
    PROVE  Spec => []RxUnfinished
  <1>1. IInv => RxUnfinished
    BY DEF IInv
  <1>2. QED
    BY <1>1, InvariantHolds, PTL

(* The bytes lost while an answer goes out are never part of a packet.     *)
THEOREM HalfDuplexIsSafe ==
    ASSUME BufSize > 1026
    PROVE  Spec => []NoPacketBehindAnswer
  <1>1. IInv => NoPacketBehindAnswer
    BY DEF IInv
  <1>2. QED
    BY <1>1, InvariantHolds, PTL

(* No byte sequence ends the process, except an erase of more sectors than *)
(* the queue can list.                                                     *)
THEOREM OnlyEraseOverruns ==
    ASSUME BufSize > 1026
    PROVE  Spec => []OnlyEraseHalts
  <1>1. IInv => OnlyEraseHalts
    BY DEF IInv
  <1>2. QED
    BY <1>1, InvariantHolds, PTL

-----------------------------------------------------------------------------
(* The serial line, with its bytes numbered.                               *)

Numbered == [by : Reader, byte : Nat]

(* Where t lists what was handed out and r what is left, its first h bytes *)
(* peeked, of n bytes: each of them is in one of the two, what is left is  *)
(* in the order it was sent, and everything handed out is older, except    *)
(* that the UART may have overtaken a peeked byte.                         *)
AllThere(t, r, n) ==
    \A b \in 1 .. n : \/ \E i \in 1 .. Len(t) : t[i].byte = b
                      \/ \E j \in 1 .. Len(r) : r[j] = b
NoneNewer(t, r, n) ==
    /\ \A i \in 1 .. Len(t) : t[i].byte <= n
    /\ \A j \in 1 .. Len(r) : r[j] <= n
LeftInOrder(r) == \A i, j \in 1 .. Len(r) : i < j => r[i] < r[j]
LeftIsNewer(t, r, h) ==
    \A i \in 1 .. Len(t), j \in 1 .. Len(r) :
       j > h \/ t[i].by # "uart" => t[i].byte < r[j]
InTurn(t) ==
    \A i, j \in 1 .. Len(t) : i < j /\ t[i].by = t[j].by => t[i].byte < t[j].byte
Kept(t, r, h, n) ==
    /\ Len(t) + Len(r) = n
    /\ AllThere(t, r, n) /\ NoneNewer(t, r, n)
    /\ LeftInOrder(r) /\ LeftIsNewer(t, r, h) /\ InTurn(t)

(* The first k bytes of what is left go to one reader.                     *)
Moved(t, r, k, who, t2, r2) ==
    /\ Len(t2) = Len(t) + k /\ Len(r2) = Len(r) - k
    /\ \A i \in 1 .. Len(t) : t2[i] = t[i]
    /\ \A i \in 1 .. k : t2[Len(t) + i] = [by |-> who, byte |-> r[i]]
    /\ \A j \in 1 .. Len(r) - k : r2[j] = r[k + j]

(* Bytes that are only looked at, and bytes that are handed out in order   *)
(* to a reader who may have them, leave everything accounted for.          *)
LEMMA MoveKeeps ==
    ASSUME NEW t \in Seq(Numbered), NEW r \in Seq(Nat), NEW n \in Nat,
           NEW t2 \in Seq(Numbered), NEW r2 \in Seq(Nat),
           NEW h \in Nat, NEW h2 \in Nat, NEW k \in Nat, k <= Len(r), h <= h2 + k,
           NEW who \in Reader, who = "uart" => h = 0,
           Moved(t, r, k, who, t2, r2), Kept(t, r, h, n)
    PROVE  Kept(t2, r2, h2, n)
  <1> DEFINE a == Len(t)
             z == Len(r)
  <1>0. /\ a \in Nat /\ z \in Nat /\ k \in Nat /\ h \in Nat /\ h2 \in Nat
        /\ k <= z /\ h <= h2 + k
    OBVIOUS
  <1>1. Len(t2) = a + k /\ Len(r2) = z - k
    BY DEF Moved
  <1>2. \A i \in 1 .. a : t2[i] = t[i]
    BY DEF Moved
  <1>3. \A i \in 1 .. k : t2[a + i].by = who /\ t2[a + i].byte = r[i]
    <2> SUFFICES ASSUME NEW i \in 1 .. k
                 PROVE  t2[a + i].by = who /\ t2[a + i].byte = r[i]
      OBVIOUS
    <2>1. t2[a + i] = [by |-> who, byte |-> r[i]]
      BY DEF Moved
    <2> QED BY <2>1
  <1>4. \A j \in 1 .. z - k : r2[j] = r[k + j]
    BY DEF Moved
  <1>5. \A i \in 1 .. a : t[i].byte \in Nat
    <2>1. \A i \in 1 .. a : t[i] \in Numbered
      OBVIOUS
    <2> QED BY <2>1 DEF Numbered
  <1>6. \A j \in 1 .. z : r[j] \in Nat
    OBVIOUS
  <1>7. \A i \in 1 .. a + k : i \in 1 .. a \/ (i - a \in 1 .. k /\ i = a + (i - a))
    BY <1>0
  <1>8. \A j \in 1 .. z : j \in 1 .. k \/ (j - k \in 1 .. z - k /\ j = k + (j - k))
    BY <1>0
  <1> HIDE DEF a, z
  <1>10. AllThere(t2, r2, n)
    <2> SUFFICES ASSUME NEW b \in 1 .. n
                 PROVE  \/ \E i \in 1 .. a + k : t2[i].byte = b
                        \/ \E j \in 1 .. z - k : r2[j] = b
      BY <1>1 DEF AllThere
    <2>1. CASE \E i \in 1 .. a : t[i].byte = b
      <3>1. PICK i \in 1 .. a : t[i].byte = b
        BY <2>1
      <3>2. i \in 1 .. a + k /\ t2[i].byte = b
        BY <3>1, <1>0, <1>2
      <3> QED BY <3>2
    <2>2. CASE \E j \in 1 .. z : r[j] = b
      <3>1. PICK j \in 1 .. z : r[j] = b
        BY <2>2
      <3>2. CASE j \in 1 .. k
        <4>1. t2[a + j].byte = b
          BY <3>1, <3>2, <1>3
        <4>2. a + j \in 1 .. a + k
          BY <3>2, <1>0
        <4> QED BY <4>1, <4>2
      <3>3. CASE j - k \in 1 .. z - k /\ j = k + (j - k)
        BY <3>1, <3>3, <1>4
      <3> QED BY <3>2, <3>3, <1>8
    <2> QED BY <2>1, <2>2 DEF Kept, AllThere, a, z
  <1>11. NoneNewer(t2, r2, n)
    <2>1. ASSUME NEW i \in 1 .. a + k PROVE t2[i].byte <= n
      <3>1. CASE i \in 1 .. a
        BY <3>1, <1>2 DEF Kept, NoneNewer, a
      <3>2. CASE i - a \in 1 .. k /\ i = a + (i - a)
        <4>1. t2[i].byte = r[i - a]
          BY <3>2, <1>3
        <4>2. i - a \in 1 .. Len(r)
          BY <3>2
        <4> QED BY <4>1, <4>2 DEF Kept, NoneNewer
      <3> QED BY <3>1, <3>2, <1>7
    <2>2. ASSUME NEW j \in 1 .. z - k PROVE r2[j] <= n
      <3>1. k + j \in 1 .. Len(r)
        BY <1>0 DEF z
      <3> QED BY <3>1, <1>4 DEF Kept, NoneNewer
    <2> QED BY <2>1, <2>2, <1>1 DEF NoneNewer
  <1>12. LeftInOrder(r2)
    <2> SUFFICES ASSUME NEW i \in 1 .. z - k, NEW j \in 1 .. z - k, i < j
                 PROVE  r2[i] < r2[j]
      BY <1>1 DEF LeftInOrder
    <2>1. k + i \in 1 .. z /\ k + j \in 1 .. z /\ k + i < k + j
      BY <1>0
    <2> QED BY <2>1, <1>4 DEF Kept, LeftInOrder, z
  <1>13. LeftIsNewer(t2, r2, h2)
    <2> SUFFICES ASSUME NEW i \in 1 .. a + k, NEW j \in 1 .. z - k,
                        j > h2 \/ t2[i].by # "uart"
                 PROVE  t2[i].byte < r2[j]
      BY <1>1 DEF LeftIsNewer
    <2>1. k + j \in 1 .. z /\ r2[j] = r[k + j] /\ (j > h2 => k + j > h)
      BY <1>0, <1>4
    <2>2. CASE i \in 1 .. a
      BY <2>1, <2>2, <1>2 DEF Kept, LeftIsNewer, a, z
    <2>3. CASE i - a \in 1 .. k /\ i = a + (i - a)
      <3>1. t2[i].byte = r[i - a]
        BY <2>3, <1>3
      <3>2. i - a \in 1 .. z /\ i - a < k + j
        <4>1. i - a \in Nat /\ i - a >= 1 /\ i - a <= k /\ j \in Nat /\ j >= 1
          BY <2>3
        <4> QED BY ONLY <4>1, <1>0
      <3> QED BY <2>1, <3>1, <3>2 DEF Kept, LeftInOrder, z
    <2> QED BY <2>2, <2>3, <1>7
  <1>14. InTurn(t2)
    <2> SUFFICES ASSUME NEW i \in 1 .. a + k, NEW j \in 1 .. a + k, i < j,
                        t2[i].by = t2[j].by
                 PROVE  t2[i].byte < t2[j].byte
      BY <1>1 DEF InTurn
    <2>1. CASE j \in 1 .. a
      <3>1. i \in 1 .. a
        BY <2>1, <1>0
      <3> QED BY <2>1, <3>1, <1>2 DEF Kept, InTurn, a
    <2>2. CASE j - a \in 1 .. k /\ j = a + (j - a)
      <3>1. t2[j].by = who /\ t2[j].byte = r[j - a] /\ j - a \in 1 .. z
        <4>1. t2[j].by = who /\ t2[j].byte = r[j - a]
          BY <2>2, <1>3
        <4>2. j - a \in 1 .. k
          BY <2>2
        <4> QED BY <4>1, <4>2, <1>0
      <3>2. CASE i \in 1 .. a
        <4>1. j - a > h \/ t[i].by # "uart"
          BY <3>1, <3>2, <2>2, <1>2
        <4> QED BY <4>1, <3>1, <3>2, <1>2 DEF Kept, LeftIsNewer, a, z
      <3>3. CASE i - a \in 1 .. k /\ i = a + (i - a)
        <4>1. t2[i].byte = r[i - a]
          BY <3>3, <1>3
        <4>2. i - a \in 1 .. z /\ i - a < j - a
          BY <3>3, <2>2, <1>0 DEF z
        <4> QED BY <4>1, <4>2, <3>1 DEF Kept, LeftInOrder, z
      <3> QED BY <3>2, <3>3, <1>7
    <2> QED BY <2>1, <2>2, <1>7
  <1>15. Len(t2) + Len(r2) = n
    <2>1. a + z = n
      BY DEF Kept, a, z
    <2> QED BY <2>1, <1>0, <1>1
  <1> QED BY <1>10, <1>11, <1>12, <1>13, <1>14, <1>15 DEF Kept

(* The UART takes the byte behind the peeked one.                          *)
LEMMA OvertakeKeeps ==
    ASSUME NEW t \in Seq(Numbered), NEW r \in Seq(Nat), NEW n \in Nat,
           NEW t2 \in Seq(Numbered), NEW r2 \in Seq(Nat),
           Len(r) >= 2, Len(t2) = Len(t) + 1, Len(r2) = Len(r) - 1,
           \A i \in 1 .. Len(t) : t2[i] = t[i],
           t2[Len(t) + 1] = [by |-> "uart", byte |-> r[2]],
           r2[1] = r[1],
           \A j \in 2 .. Len(r) - 1 : r2[j] = r[j + 1],
           Kept(t, r, 1, n)
    PROVE  Kept(t2, r2, 1, n)
  <1> DEFINE a == Len(t)
             z == Len(r)
  <1>0. a \in Nat /\ z \in Nat /\ z >= 2
    OBVIOUS
  <1>1. Len(t2) = a + 1 /\ Len(r2) = z - 1
    OBVIOUS
  <1>2. \A i \in 1 .. a : t2[i] = t[i]
    OBVIOUS
  <1>3. t2[a + 1].by = "uart" /\ t2[a + 1].byte = r[2]
    OBVIOUS
  <1>4. \A j \in 1 .. z - 1 : r2[j] = r[IF j = 1 THEN 1 ELSE j + 1]
    <2> SUFFICES ASSUME NEW j \in 1 .. z - 1
                 PROVE  r2[j] = r[IF j = 1 THEN 1 ELSE j + 1]
      OBVIOUS
    <2>1. CASE j = 1
      BY <2>1
    <2>2. CASE j # 1
      <3>1. j \in 2 .. Len(r) - 1
        BY <2>2, <1>0
      <3> QED BY <2>2, <3>1
    <2> QED BY <2>1, <2>2
  <1>5. \A i \in 1 .. a : t[i].byte \in Nat
    <2>1. \A i \in 1 .. a : t[i] \in Numbered
      OBVIOUS
    <2> QED BY <2>1 DEF Numbered
  <1>6. \A j \in 1 .. z : r[j] \in Nat
    OBVIOUS
  <1>7. \A i \in 1 .. a + 1 : i \in 1 .. a \/ i = a + 1
    BY <1>0
  <1> HIDE DEF a, z
  <1>10. AllThere(t2, r2, n)
    <2> SUFFICES ASSUME NEW b \in 1 .. n
                 PROVE  \/ \E i \in 1 .. a + 1 : t2[i].byte = b
                        \/ \E j \in 1 .. z - 1 : r2[j] = b
      BY <1>1 DEF AllThere
    <2>1. CASE \E i \in 1 .. a : t[i].byte = b
      <3>1. PICK i \in 1 .. a : t[i].byte = b
        BY <2>1
      <3>2. i \in 1 .. a + 1 /\ t2[i].byte = b
        BY <3>1, <1>0, <1>2
      <3> QED BY <3>2
    <2>2. CASE \E j \in 1 .. z : r[j] = b
      <3>1. PICK j \in 1 .. z : r[j] = b
        BY <2>2
      <3>2. CASE j = 1
        <4>1. 1 \in 1 .. z - 1
          BY <1>0
        <4> QED BY <4>1, <3>1, <3>2, <1>4
      <3>3. CASE j = 2
        <4>1. a + 1 \in 1 .. a + 1
          BY ONLY <1>0
        <4> QED BY <4>1, <3>1, <3>3, <1>3
      <3>4. CASE j # 1 /\ j # 2
        <4>1. j - 1 \in 1 .. z - 1 /\ j - 1 # 1 /\ j - 1 + 1 = j
          BY <3>4, <1>0
        <4> QED BY <4>1, <3>1, <1>4
      <3> QED BY <3>2, <3>3, <3>4
    <2> QED BY <2>1, <2>2 DEF Kept, AllThere, a, z
  <1>11. NoneNewer(t2, r2, n)
    <2>1. ASSUME NEW i \in 1 .. a + 1 PROVE t2[i].byte <= n
      <3>1. CASE i \in 1 .. a
        BY <3>1, <1>2 DEF Kept, NoneNewer, a
      <3>2. CASE i = a + 1
        <4>1. 2 \in 1 .. Len(r)
          BY <1>0 DEF z
        <4> QED BY <4>1, <3>2, <1>3 DEF Kept, NoneNewer
      <3> QED BY <3>1, <3>2, <1>7
    <2>2. ASSUME NEW j \in 1 .. z - 1 PROVE r2[j] <= n
      <3>1. (IF j = 1 THEN 1 ELSE j + 1) \in 1 .. Len(r)
        <4>1. j \in Nat /\ j >= 1 /\ j <= z - 1
          BY <1>0
        <4> QED BY ONLY <4>1, <1>0 DEF z
      <3> QED BY <3>1, <1>4 DEF Kept, NoneNewer
    <2> QED BY <2>1, <2>2, <1>1 DEF NoneNewer
  <1>12. LeftInOrder(r2)
    <2> SUFFICES ASSUME NEW i \in 1 .. z - 1, NEW j \in 1 .. z - 1, i < j
                 PROVE  r2[i] < r2[j]
      BY <1>1 DEF LeftInOrder
    <2> DEFINE x == IF i = 1 THEN 1 ELSE i + 1
               y == IF j = 1 THEN 1 ELSE j + 1
    <2>1. x \in 1 .. z /\ y \in 1 .. z /\ x < y
      <3>1. i \in Nat /\ j \in Nat /\ i >= 1 /\ j >= 2 /\ i <= z - 1 /\ j <= z - 1
        <4>1. i \in 1 .. z - 1 /\ j \in 1 .. z - 1 /\ i < j
          OBVIOUS
        <4> QED BY ONLY <4>1, <1>0
      <3>2. y = j + 1 /\ (x = 1 \/ x = i + 1)
        BY <3>1
      <3> HIDE DEF x, y
      <3>3. y \in 1 .. z
        BY ONLY <3>1, <3>2, <1>0
      <3>4. CASE x = 1
        BY ONLY <3>1, <3>2, <3>4, <1>0
      <3>5. CASE x = i + 1
        <4>1. i + 1 \in 1 .. z /\ i + 1 < j + 1
          <5>1. i \in 1 .. z - 1 /\ j \in 1 .. z - 1 /\ i < j
            OBVIOUS
          <5> QED BY ONLY <5>1, <1>0
        <4> QED BY <4>1, <3>2, <3>3, <3>5, Zenon
      <3> QED BY <3>2, <3>3, <3>4, <3>5, Zenon
    <2>2. r2[i] = r[x] /\ r2[j] = r[y]
      BY <1>4
    <2> HIDE DEF x, y
    <2> QED BY <2>1, <2>2 DEF Kept, LeftInOrder, z
  <1>13. LeftIsNewer(t2, r2, 1)
    <2> SUFFICES ASSUME NEW i \in 1 .. a + 1, NEW j \in 1 .. z - 1,
                        j > 1 \/ t2[i].by # "uart"
                 PROVE  t2[i].byte < r2[j]
      BY <1>1 DEF LeftIsNewer
    <2> DEFINE y == IF j = 1 THEN 1 ELSE j + 1
    <2>1. y \in 1 .. z /\ r2[j] = r[y] /\ (j > 1 => y > 2 /\ y > 1)
      BY <1>0, <1>4
    <2> HIDE DEF y
    <2>2. CASE i \in 1 .. a
      BY <2>1, <2>2, <1>2 DEF Kept, LeftIsNewer, a, z
    <2>3. CASE i = a + 1
      <3>1. t2[i].byte = r[2] /\ t2[i].by = "uart" /\ 2 \in 1 .. z
        BY <2>3, <1>3, <1>0
      <3>2. 2 < y
        BY <2>1, <3>1
      <3> QED BY <2>1, <3>1, <3>2 DEF Kept, LeftInOrder, z
    <2> QED BY <2>2, <2>3, <1>7
  <1>14. InTurn(t2)
    <2> SUFFICES ASSUME NEW i \in 1 .. a + 1, NEW j \in 1 .. a + 1, i < j,
                        t2[i].by = t2[j].by
                 PROVE  t2[i].byte < t2[j].byte
      BY <1>1 DEF InTurn
    <2>0. i \in 1 .. a
      BY <1>0
    <2>1. CASE j \in 1 .. a
      BY <2>0, <2>1, <1>2 DEF Kept, InTurn, a
    <2>2. CASE j = a + 1
      <3>1. t2[j].byte = r[2] /\ 2 \in 1 .. z /\ 2 > 1
        BY <2>2, <1>3, <1>0
      <3> QED BY <3>1, <2>0, <1>2 DEF Kept, LeftIsNewer, a, z
    <2> QED BY <2>1, <2>2, <1>7
  <1>15. Len(t2) + Len(r2) = n
    <2>1. a + z = n
      BY DEF Kept, a, z
    <2> QED BY ONLY <2>1, <1>0, <1>1
  <1> QED BY <1>10, <1>11, <1>12, <1>13, <1>14, <1>15 DEF Kept

(* The far end sends byte n + 1.                                           *)
LEMMA SendKeeps ==
    ASSUME NEW t \in Seq(Numbered), NEW r \in Seq(Nat), NEW n \in Nat, NEW h,
           NEW r2 \in Seq(Nat), Len(r2) = Len(r) + 1,
           \A j \in 1 .. Len(r) : r2[j] = r[j], r2[Len(r) + 1] = n + 1,
           Kept(t, r, h, n)
    PROVE  Kept(t, r2, h, n + 1)
  <1> DEFINE z == Len(r)
  <1>0. z \in Nat /\ Len(t) \in Nat
    OBVIOUS
  <1>1. Len(r2) = z + 1 /\ r2[z + 1] = n + 1 /\ \A j \in 1 .. z : r2[j] = r[j]
    OBVIOUS
  <1>2. \A j \in 1 .. z + 1 : j \in 1 .. z \/ j = z + 1
    BY <1>0
  <1>3. \A i \in 1 .. Len(t) : t[i].byte \in Nat
    <2>1. \A i \in 1 .. Len(t) : t[i] \in Numbered
      OBVIOUS
    <2> QED BY <2>1 DEF Numbered
  <1>4. \A j \in 1 .. z : r[j] \in Nat /\ r[j] < n + 1
    BY DEF Kept, NoneNewer
  <1>5. \A i \in 1 .. Len(t) : t[i].byte <= n
    BY DEF Kept, NoneNewer
  <1> HIDE DEF z
  <1>10. AllThere(t, r2, n + 1)
    <2> SUFFICES ASSUME NEW b \in 1 .. n + 1
                 PROVE  \/ \E i \in 1 .. Len(t) : t[i].byte = b
                        \/ \E j \in 1 .. z + 1 : r2[j] = b
      BY <1>1 DEF AllThere
    <2>1. CASE b = n + 1
      <3>1. z + 1 \in 1 .. z + 1
        BY <1>0
      <3> QED BY <2>1, <3>1, <1>1
    <2>2. CASE b # n + 1
      <3>1. b \in 1 .. n
        BY <2>2
      <3>2. \A j \in 1 .. z : j \in 1 .. z + 1
        BY <1>0
      <3> QED BY <3>1, <3>2, <1>1 DEF Kept, AllThere, z
    <2> QED BY <2>1, <2>2
  <1>11. NoneNewer(t, r2, n + 1)
    <2>1. ASSUME NEW i \in 1 .. Len(t) PROVE t[i].byte <= n + 1
      BY <1>3, <1>5
    <2>2. ASSUME NEW j \in 1 .. z + 1 PROVE r2[j] <= n + 1
      BY <1>1, <1>2, <1>4
    <2> QED BY <2>1, <2>2, <1>1 DEF NoneNewer
  <1>12. LeftInOrder(r2)
    <2> SUFFICES ASSUME NEW i \in 1 .. z + 1, NEW j \in 1 .. z + 1, i < j
                 PROVE  r2[i] < r2[j]
      BY <1>1 DEF LeftInOrder
    <2>1. i \in 1 .. z
      BY <1>0
    <2>2. CASE j \in 1 .. z
      BY <2>1, <2>2, <1>1 DEF Kept, LeftInOrder, z
    <2>3. CASE j = z + 1
      BY <2>1, <2>3, <1>1, <1>4
    <2> QED BY <2>2, <2>3, <1>2
  <1>13. LeftIsNewer(t, r2, h)
    <2> SUFFICES ASSUME NEW i \in 1 .. Len(t), NEW j \in 1 .. z + 1,
                        j > h \/ t[i].by # "uart"
                 PROVE  t[i].byte < r2[j]
      BY <1>1 DEF LeftIsNewer
    <2>1. CASE j \in 1 .. z
      BY <2>1, <1>1 DEF Kept, LeftIsNewer, z
    <2>2. CASE j = z + 1
      <3>1. r2[j] = n + 1
        BY <2>2, <1>1
      <3>2. t[i].byte \in Nat /\ t[i].byte <= n
        BY <1>3, <1>5
      <3> QED BY <3>1, <3>2
    <2> QED BY <2>1, <2>2, <1>2
  <1>14. InTurn(t)
    BY DEF Kept
  <1>15. Len(t) + Len(r2) = n + 1
    <2>1. Len(t) + z = n
      BY DEF Kept, z
    <2> QED BY ONLY <2>1, <1>0, <1>1
  <1> QED BY <1>10, <1>11, <1>12, <1>13, <1>14, <1>15 DEF Kept

-----------------------------------------------------------------------------
(* The inductive invariant: what is handed out and what is left, and the   *)
(* types that the length of a read and of a packet depend on.              *)
LineTypes ==
    /\ rx \in Seq(Byte) /\ eraseCount \in Nat
    /\ unget \in Seq(Nat) /\ Len(unget) <= 1
    /\ serialIn \in Seq(Nat) /\ taken \in Seq(Numbered) /\ sent \in Nat
SerialInv == LineTypes /\ Kept(taken, Ready, Len(unget), sent)

(* Two sequences, one behind the other.                                    *)
LEMMA JoinIs ==
    ASSUME NEW S, NEW q \in Seq(S), NEW w \in Seq(S)
    PROVE  /\ q \o w \in Seq(S) /\ Len(q \o w) = Len(q) + Len(w)
           /\ \A i \in 1 .. Len(q) : (q \o w)[i] = q[i]
           /\ \A i \in 1 .. Len(w) : (q \o w)[Len(q) + i] = w[i]
  <1>1. q \o w \in Seq(S) /\ Len(q \o w) = Len(q) + Len(w)
    OBVIOUS
  <1>2. \A i \in 1 .. Len(q) : (q \o w)[i] = q[i]
    OBVIOUS
  <1>3. \A i \in 1 .. Len(w) : (q \o w)[Len(q) + i] = w[i]
    OBVIOUS
  <1> QED BY <1>1, <1>2, <1>3

(* The bytes left, with and without a peeked one.                          *)
LEMMA ReadyParts ==
    ASSUME LineTypes
    PROVE  /\ Ready \in Seq(Nat) /\ Len(Ready) = Len(unget) + Len(serialIn)
           /\ Len(unget) \in {0, 1} /\ Len(serialIn) \in Nat
           /\ Len(unget) = 0 => unget = <<>>
           /\ Len(unget) = 1 => Ready[1] = unget[1]
           /\ \A j \in 1 .. Len(serialIn) : Ready[Len(unget) + j] = serialIn[j]
  <1>1. /\ unget \in Seq(Nat) /\ serialIn \in Seq(Nat) /\ Len(unget) <= 1
        /\ Len(unget) \in Nat /\ Len(serialIn) \in Nat
    BY DEF LineTypes
  <1>2. /\ Ready \in Seq(Nat) /\ Len(Ready) = Len(unget) + Len(serialIn)
        /\ \A i \in 1 .. Len(unget) : Ready[i] = unget[i]
        /\ \A j \in 1 .. Len(serialIn) : Ready[Len(unget) + j] = serialIn[j]
    BY <1>1, JoinIs DEF Ready
  <1>3. Len(unget) \in {0, 1}
    <2>1. \A m \in Nat : m <= 1 => m \in {0, 1}
      OBVIOUS
    <2> QED BY <1>1, <2>1, Zenon
  <1>4. Len(unget) = 0 => unget = <<>>
    BY <1>1
  <1>5. Len(unget) = 1 => Ready[1] = unget[1]
    BY <1>2
  <1> QED BY <1>1, <1>2, <1>3, <1>4, <1>5

(* What a reader is given, with the reader's name.                         *)
LEMMA TakenIs ==
    ASSUME NEW q \in Seq(Nat), NEW who \in Reader
    PROVE  /\ Taken(who, q) \in Seq(Numbered) /\ Len(Taken(who, q)) = Len(q)
           /\ \A i \in 1 .. Len(q) : Taken(who, q)[i] = [by |-> who, byte |-> q[i]]
  BY DEF Taken, Numbered

LEMMA AppendTaken ==
    ASSUME NEW t \in Seq(Numbered), NEW q \in Seq(Nat), NEW who \in Reader
    PROVE  /\ t \o Taken(who, q) \in Seq(Numbered)
           /\ Len(t \o Taken(who, q)) = Len(t) + Len(q)
           /\ \A i \in 1 .. Len(t) : (t \o Taken(who, q))[i] = t[i]
           /\ \A i \in 1 .. Len(q) : (t \o Taken(who, q))[Len(t) + i]
                                         = [by |-> who, byte |-> q[i]]
  <1> DEFINE w == Taken(who, q)
  <1>1. /\ w \in Seq(Numbered) /\ Len(w) = Len(q)
        /\ \A i \in 1 .. Len(q) : w[i] = [by |-> who, byte |-> q[i]]
    BY TakenIs
  <1> HIDE DEF w
  <1>2. /\ t \o w \in Seq(Numbered)
        /\ Len(t \o w) = Len(t) + Len(w)
        /\ \A i \in 1 .. Len(t) : (t \o w)[i] = t[i]
        /\ \A i \in 1 .. Len(w) : (t \o w)[Len(t) + i] = w[i]
    <2>1. t \in Seq(Numbered) /\ w \in Seq(Numbered)
      BY <1>1
    <2>2. ASSUME NEW x \in Seq(Numbered), NEW y \in Seq(Numbered)
          PROVE  /\ x \o y \in Seq(Numbered) /\ Len(x \o y) = Len(x) + Len(y)
                 /\ \A i \in 1 .. Len(x) : (x \o y)[i] = x[i]
                 /\ \A i \in 1 .. Len(y) : (x \o y)[Len(x) + i] = y[i]
      BY JoinIs
    <2> QED BY ONLY <2>1, <2>2, Zenon
  <1>3. \A i \in 1 .. Len(q) : (t \o w)[Len(t) + i] = [by |-> who, byte |-> q[i]]
    BY <1>1, <1>2
  <1> QED BY <1>1, <1>2, <1>3 DEF w

(* One reader gets the first k bytes that are left.                        *)
LEMMA ReaderGets ==
    ASSUME SerialInv, NEW k \in Nat, k <= Len(Ready), NEW who \in Reader,
           who = "uart" => unget = <<>>,
           NEW q \in Seq(Nat), Len(q) = k, \A i \in 1 .. k : q[i] = Ready[i],
           taken' = taken \o Taken(who, q),
           LineTypes', Len(unget) <= Len(unget') + k, sent' = sent,
           Len(Ready') = Len(Ready) - k,
           \A j \in 1 .. Len(Ready) - k : Ready'[j] = Ready[k + j]
    PROVE  SerialInv'
  <1> DEFINE t2 == taken'
             r2 == Ready'
             h2 == Len(unget')
  <1>1. LineTypes /\ Kept(taken, Ready, Len(unget), sent)
    BY DEF SerialInv
  <1>2. taken \in Seq(Numbered) /\ sent \in Nat /\ unget \in Seq(Nat)
    BY <1>1 DEF LineTypes
  <1>3. Ready \in Seq(Nat) /\ Len(unget) \in Nat
    BY <1>1, <1>2, ReadyParts
  <1>4. /\ q \in Seq(Nat) /\ Len(q) = k
        /\ \A i \in 1 .. k : q[i] = Ready[i]
    OBVIOUS
  <1>5. t2 = taken \o Taken(who, q)
    OBVIOUS
  <1>6. r2 \in Seq(Nat) /\ h2 \in Nat /\ t2 \in Seq(Numbered)
    <2>1. LineTypes' /\ unget' \in Seq(Nat) /\ serialIn' \in Seq(Nat) /\ taken' \in Seq(Numbered)
      BY DEF LineTypes
    <2>2. Ready' = unget' \o serialIn'
      BY DEF Ready
    <2> QED BY <2>1, <2>2
  <1>7. Len(r2) = Len(Ready) - k /\ \A j \in 1 .. Len(Ready) - k : r2[j] = Ready[k + j]
    OBVIOUS
  <1>8. Len(unget) <= h2 + k /\ (who = "uart" => Len(unget) = 0)
    OBVIOUS
  <1> HIDE DEF t2, r2, h2
  <1>9. Moved(taken, Ready, k, who, t2, r2)
    <2>1. /\ Len(t2) = Len(taken) + k
          /\ \A i \in 1 .. Len(taken) : t2[i] = taken[i]
          /\ \A i \in 1 .. k : t2[Len(taken) + i] = [by |-> who, byte |-> q[i]]
      <3>1. q \in Seq(Nat) /\ who \in Reader /\ taken \in Seq(Numbered) /\ Len(q) = k
        BY <1>2
      <3>2. /\ Len(taken \o Taken(who, q)) = Len(taken) + Len(q)
            /\ \A i \in 1 .. Len(taken) : (taken \o Taken(who, q))[i] = taken[i]
            /\ \A i \in 1 .. Len(q) : (taken \o Taken(who, q))[Len(taken) + i]
                                          = [by |-> who, byte |-> q[i]]
        BY ONLY <3>1, AppendTaken
      <3> QED BY ONLY <3>1, <3>2, <1>5, Zenon
    <2>2. \A i \in 1 .. k : t2[Len(taken) + i] = [by |-> who, byte |-> Ready[i]]
      BY <2>1, <1>4
    <2> QED BY <2>1, <2>2, <1>7 DEF Moved
  <1>10. Kept(t2, r2, h2, sent)
    BY <1>1, <1>2, <1>3, <1>6, <1>8, <1>9, MoveKeeps
  <1> QED BY <1>10 DEF SerialInv, t2, r2, h2

(* What is behind the first s bytes of a queue.                            *)
LEMMA DropIs ==
    ASSUME NEW q \in Seq(Nat), NEW s \in Nat, NEW c, c = s + 1
    PROVE  /\ SubSeq(q, c, Len(q)) \in Seq(Nat)
           /\ s <= Len(q) => /\ Len(SubSeq(q, c, Len(q))) = Len(q) - s
                             /\ \A j \in 1 .. Len(q) - s :
                                   SubSeq(q, c, Len(q))[j] = q[s + j]
           /\ s >= Len(q) => SubSeq(q, c, Len(q)) = <<>>
  <1>1. Len(q) \in Nat /\ c \in 1 .. s + 1
    OBVIOUS
  <1>2. CASE s < Len(q)
    <2>1. /\ SubSeq(q, c, Len(q)) \in Seq(Nat)
          /\ Len(SubSeq(q, c, Len(q))) = Len(q) - s
      BY <1>1, <1>2, SubSeqProperties
    <2>2. \A j \in 1 .. Len(q) - s : SubSeq(q, c, Len(q))[j] = q[s + j]
      BY <1>1, <1>2, SubSeqProperties
    <2> QED BY <2>1, <2>2, <1>2
  <1>3. CASE s >= Len(q)
    <2>1. SubSeq(q, c, Len(q)) = <<>>
      BY <1>1, <1>3
    <2>2. 1 .. Len(q) - s = {} \/ s = Len(q)
      BY <1>1, <1>3
    <2> QED BY <2>1, <2>2, <1>1, <1>3
  <1> QED BY <1>1, <1>2, <1>3

(* What leaves the line alone.                                             *)
LEMMA LineAlone ==
    ASSUME SerialInv, LineTypes', UNCHANGED <<unget, serialIn, taken, sent>>
    PROVE  SerialInv'
  BY DEF SerialInv, Ready

(* CDC_READ hands out the bytes it takes.                                  *)
LEMMA CdcReadTakes ==
    ASSUME SerialInv, NEW p \in Seq(Byte), Len(p) >= 2, ServeCdcRead(p),
           rx' \in Seq(Byte), eraseCount' \in Nat, sent' = sent
    PROVE  SerialInv'
  <1> DEFINE n == Smaller(Arg(p), MaxCdc)
             k == Smaller(n, Len(Ready))
             u == Len(unget)
             w == Len(serialIn)
             z == Len(Ready)
             q == SubSeq(Ready, 1, k)
  <1>1. LineTypes
    BY DEF SerialInv
  <1>2. /\ Ready \in Seq(Nat) /\ z = u + w /\ u \in {0, 1} /\ w \in Nat
        /\ \A j \in 1 .. w : Ready[u + j] = serialIn[j]
    BY <1>1, ReadyParts
  <1>3. n \in Nat /\ n >= 1
    <2>1. Arg(p) \in Nat /\ Arg(p) >= 1
      BY HeaderBounds, HeaderArgRead DEF ServeCdcRead
    <2>2. MaxCdc \in Nat /\ MaxCdc >= 1
      BY McuAssumption
    <2> QED BY <2>1, <2>2 DEF Smaller
  <1>4. /\ unget' = <<>> /\ serialIn' = SubSeq(serialIn, 1 + n - u, w)
        /\ taken' = taken \o Taken("host", q)
    BY DEF ServeCdcRead
  <1> HIDE DEF n
  <1>5. k \in Nat /\ k <= u + w /\ k <= n /\ (k = n \/ (k = u + w /\ u + w < n))
    <2> HIDE DEF u, w
    <2>1. Len(Ready) = u + w /\ u + w \in Nat
      BY <1>2
    <2> QED BY <1>3, <2>1 DEF Smaller
  <1> HIDE DEF k, q
  <1>6. /\ serialIn' \in Seq(Nat) /\ Len(serialIn') = z - k
        /\ \A j \in 1 .. z - k : serialIn'[j] = Ready[k + j]
    <2> DEFINE s == n - u
    <2>0. s \in Nat /\ w = Len(serialIn) /\ 1 + n - u = s + 1 /\ serialIn \in Seq(Nat)
      BY <1>1, <1>2, <1>3 DEF LineTypes
    <2> HIDE DEF s, u, w, z
    <2>1. /\ serialIn' \in Seq(Nat)
          /\ s <= w => /\ Len(serialIn') = w - s
                       /\ \A j \in 1 .. w - s : serialIn'[j] = serialIn[s + j]
          /\ s >= w => serialIn' = <<>>
      BY <2>0, <1>4, DropIs
    <2>2. CASE k = n
      <3>1. s <= w /\ w - s = z - k
        BY <2>2, <1>2, <1>3, <1>5 DEF s
      <3>2. ASSUME NEW j \in 1 .. z - k PROVE serialIn'[j] = Ready[k + j]
        <4>1. s + j \in 1 .. w /\ u + (s + j) = k + j
          BY <2>2, <3>1, <1>2, <1>3, <2>0 DEF s
        <4>2. serialIn'[j] = serialIn[s + j]
          BY <2>1, <3>1
        <4> QED BY <4>1, <4>2, <1>2
      <3> QED BY <2>1, <3>1, <3>2
    <2>3. CASE k = u + w /\ u + w < n
      <3>1. s >= w /\ z - k = 0
        BY <2>3, <1>2, <1>3 DEF s
      <3> QED BY <2>1, <3>1
    <2> QED BY <2>2, <2>3, <1>5
  <1>7. q \in Seq(Nat) /\ Len(q) = k /\ \A i \in 1 .. k : q[i] = Ready[i]
    <2>1. k \in Nat /\ k <= Len(Ready) /\ Len(Ready) \in Nat
      BY <1>2, <1>5
    <2> QED BY <2>1, <1>2, SubSeqProperties DEF q
  <1>12. taken' \in Seq(Numbered)
    <2>1. taken \in Seq(Numbered) /\ "host" \in Reader
      BY <1>1 DEF LineTypes, Reader
    <2> QED BY <2>1, <1>4, <1>7, AppendTaken
  <1>8. LineTypes'
    BY <1>1, <1>4, <1>6, <1>12 DEF LineTypes
  <1>9. Ready' = serialIn'
    BY <1>4, <1>6 DEF Ready
  <1>10. Len(unget) <= Len(unget') + k
    <2>1. Len(unget') = 0
      BY <1>4
    <2>2. u <= 0 + k
      <3> HIDE DEF u, w
      <3> QED BY <1>2, <1>3, <1>5
    <2> QED BY <2>1, <2>2
  <1>11. Len(Ready') = Len(Ready) - k /\ \A j \in 1 .. Len(Ready) - k : Ready'[j] = Ready[k + j]
    BY <1>6, <1>9, Zenon
  <1> QED BY <1>2, <1>4, <1>5, <1>7, <1>8, <1>10, <1>11, ReaderGets DEF Reader

(* CDC_AVAILABLE moves a byte from the pipe to the peeked one and so       *)
(* leaves the bytes that wait as they were.                                *)
LEMMA CdcAvailableTakesNone ==
    ASSUME SerialInv, NEW p, ServeCdcAvailable(p),
           rx' \in Seq(Byte), eraseCount' \in Nat, sent' = sent
    PROVE  SerialInv'
  <1> DEFINE u == Len(unget)
             w == Len(serialIn)
             z == Len(Ready)
             m == Smaller(1, z)
             g == unget'
             q == serialIn'
             r2 == Ready'
  <1>1. LineTypes /\ Kept(taken, Ready, u, sent)
    BY DEF SerialInv
  <1>2. /\ Ready \in Seq(Nat) /\ z = u + w /\ u \in {0, 1} /\ w \in Nat
        /\ \A j \in 1 .. w : Ready[u + j] = serialIn[j]
    BY <1>1, ReadyParts
  <1>3. serialIn \in Seq(Nat) /\ taken \in Seq(Numbered) /\ sent \in Nat
    BY <1>1 DEF LineTypes
  <1>4. /\ g = SubSeq(Ready, 1, m) /\ q = SubSeq(serialIn, 2 - u, w)
        /\ taken' = taken
    BY DEF ServeCdcAvailable
  <1>5. r2 = g \o q
    BY DEF Ready
  <1> HIDE DEF u, w, z, g, q, r2
  <1>6. m \in {0, 1} /\ m <= z /\ (z > 0 => m = 1) /\ (z = 0 => m = 0)
    BY <1>2 DEF Smaller
  <1> HIDE DEF m
  <1>7. g \in Seq(Nat) /\ Len(g) = m /\ \A i \in 1 .. m : g[i] = Ready[i]
    <2>1. m \in Nat /\ m <= Len(Ready) /\ Len(Ready) \in Nat
      BY <1>2, <1>6 DEF z
    <2> QED BY <2>1, <1>2, <1>4, SubSeqProperties
  <1>8. /\ q \in Seq(Nat) /\ Len(q) = z - m
        /\ \A j \in 1 .. z - m : q[j] = Ready[m + j]
    <2> DEFINE s == 1 - u
    <2>1. s \in Nat /\ 2 - u = s + 1
      BY <1>2
    <2>2. /\ q \in Seq(Nat)
          /\ s <= w => /\ Len(q) = w - s
                       /\ \A j \in 1 .. w - s : q[j] = serialIn[s + j]
          /\ s >= w => q = <<>>
      <3> HIDE DEF s
      <3> QED BY <2>1, <1>3, <1>4, DropIs DEF w
    <2>3. CASE z = 0
      <3>1. s >= w /\ z - m = 0
        <4>1. w = 0 /\ u = 0 /\ m = 0
          BY <2>3, <1>2, <1>6
        <4> QED BY <4>1, <2>3
      <3> QED BY <2>2, <3>1
    <2>4. CASE z > 0
      <3>1. s <= w /\ w - s = z - m /\ m = 1
        BY <2>4, <1>2, <1>6
      <3>2. ASSUME NEW j \in 1 .. z - m PROVE q[j] = Ready[m + j]
        <4>1. s + j \in 1 .. w /\ u + (s + j) = m + j
          BY <3>1, <1>2
        <4> HIDE DEF s
        <4>2. q[j] = serialIn[s + j]
          BY <2>2, <3>1
        <4>3. Ready[u + (s + j)] = serialIn[s + j]
          BY <4>1, <1>2
        <4> QED BY <4>1, <4>2, <4>3
      <3> HIDE DEF s
      <3> QED BY <2>2, <3>1, <3>2
    <2> QED BY <2>3, <2>4, <1>2
  <1>9. /\ r2 \in Seq(Nat) /\ Len(r2) = z
        /\ \A j \in 1 .. z : r2[j] = Ready[j]
    <2>1. /\ r2 \in Seq(Nat) /\ Len(r2) = m + (z - m)
          /\ \A i \in 1 .. m : r2[i] = g[i]
          /\ \A j \in 1 .. z - m : r2[m + j] = q[j]
      <3>1. /\ g \o q \in Seq(Nat) /\ Len(g \o q) = Len(g) + Len(q)
            /\ \A i \in 1 .. Len(g) : (g \o q)[i] = g[i]
            /\ \A i \in 1 .. Len(q) : (g \o q)[Len(g) + i] = q[i]
        <4>1. g \in Seq(Nat) /\ q \in Seq(Nat)
          BY <1>7, <1>8
        <4> QED BY ONLY <4>1, JoinIs
      <3> QED BY ONLY <3>1, <1>5, <1>7, <1>8, Zenon
    <2>2. ASSUME NEW j \in 1 .. z PROVE r2[j] = Ready[j]
      <3>1. CASE j \in 1 .. m
        BY <3>1, <2>1, <1>7
      <3>2. CASE j - m \in 1 .. z - m
        <4>1. m + (j - m) = j
          BY <1>2, <1>6
        <4>2. r2[m + (j - m)] = q[j - m] /\ q[j - m] = Ready[m + (j - m)]
          BY <3>2, <2>1, <1>8
        <4> QED BY <4>1, <4>2
      <3>3. j \in 1 .. m \/ j - m \in 1 .. z - m
        BY <1>2, <1>6
      <3> QED BY <3>1, <3>2, <3>3
    <2>3. m + (z - m) = z
      BY <1>2, <1>6
    <2> QED BY <2>1, <2>2, <2>3
  <1>10. LineTypes'
    <2>1. g \in Seq(Nat) /\ Len(g) <= 1 /\ q \in Seq(Nat)
      BY <1>6, <1>7, <1>8
    <2> QED BY <2>1, <1>3, <1>4 DEF LineTypes, g, q
  <1>11. Kept(taken, r2, m, sent)
    <2>1. Moved(taken, Ready, 0, "host", taken, r2)
      <3>1. Len(taken) \in Nat /\ Len(Ready) = z /\ z \in Nat
        BY <1>2 DEF z
      <3> HIDE DEF r2, z
      <3>2. /\ Len(taken) = Len(taken) + 0 /\ Len(r2) = Len(Ready) - 0
            /\ \A j \in 1 .. Len(Ready) - 0 : j \in 1 .. z /\ 0 + j = j
        BY ONLY <3>1, <1>9
      <3>3. \A i \in 1 .. 0 : taken[Len(taken) + i] = [by |-> "host", byte |-> Ready[i]]
        OBVIOUS
      <3>4. \A j \in 1 .. Len(Ready) - 0 : r2[j] = Ready[0 + j]
        BY ONLY <3>2, <1>9, Zenon
      <3> QED BY ONLY <3>2, <3>3, <3>4, Zenon DEF Moved
    <2>2. u \in Nat /\ m \in Nat /\ u <= m + 0
      BY <1>2, <1>6
    <2>3. "host" \in Reader /\ "host" # "uart" /\ 0 \in Nat /\ 0 <= Len(Ready)
      BY <1>2 DEF Reader
    <2> QED BY <2>1, <2>2, <2>3, <1>1, <1>2, <1>3, <1>9, MoveKeeps
  <1> QED
    <2>1. taken' = taken /\ sent' = sent /\ r2 = Ready' /\ m = Len(unget')
      BY <1>4, <1>7 DEF r2, g
    <2> QED BY <2>1, <1>10, <1>11 DEF SerialInv

(* A flush or a reset drops the peeked byte.                               *)
LEMMA DropKeeps ==
    ASSUME SerialInv, NEW who \in Reader, who # "uart",
           unget' = <<>>, taken' = taken \o Taken(who, unget), serialIn' = serialIn,
           rx' \in Seq(Byte), eraseCount' \in Nat, sent' = sent
    PROVE  SerialInv'
  <1>1. LineTypes
    BY DEF SerialInv
  <1>2. /\ unget \in Seq(Nat) /\ serialIn \in Seq(Nat) /\ taken \in Seq(Numbered)
        /\ Len(unget) \in Nat /\ Len(serialIn) \in Nat
    BY <1>1 DEF LineTypes
  <1>3. /\ Ready \in Seq(Nat) /\ Len(Ready) = Len(unget) + Len(serialIn)
        /\ \A i \in 1 .. Len(unget) : Ready[i] = unget[i]
        /\ \A j \in 1 .. Len(serialIn) : Ready[Len(unget) + j] = serialIn[j]
    BY <1>2, JoinIs DEF Ready
  <1>4. Ready' = serialIn
    BY <1>2 DEF Ready
  <1>5. LineTypes'
    <2>1. taken' \in Seq(Numbered)
      BY <1>2, AppendTaken
    <2> QED BY <2>1, <1>1 DEF LineTypes
  <1>6. /\ Len(Ready') = Len(Ready) - Len(unget)
        /\ \A j \in 1 .. Len(Ready) - Len(unget) : Ready'[j] = Ready[Len(unget) + j]
    <2>1. Len(Ready) - Len(unget) = Len(serialIn)
      BY <1>2, <1>3
    <2> QED BY <2>1, <1>3, <1>4, Zenon
  <1>7. Len(unget) <= Len(unget') + Len(unget) /\ Len(unget) <= Len(Ready)
    <2>1. Len(unget') = 0
      OBVIOUS
    <2> QED BY <2>1, <1>2, <1>3
  <1> QED BY <1>2, <1>3, <1>5, <1>6, <1>7, ReaderGets

(* The UART takes the first byte of the pipe, past a peeked one.           *)
LEMMA UartTakes ==
    ASSUME SerialInv, UartReads, sent' = sent
    PROVE  SerialInv'
  <1> DEFINE w == Len(serialIn)
             q == serialIn'
             b == <<Head(serialIn)>>
             t2 == taken'
             r2 == Ready'
  <1>1. LineTypes /\ Kept(taken, Ready, Len(unget), sent)
    BY DEF SerialInv
  <1>2. /\ serialIn \in Seq(Nat) /\ taken \in Seq(Numbered) /\ sent \in Nat
        /\ w \in Nat /\ unget \in Seq(Nat)
    BY <1>1 DEF LineTypes
  <1>3. /\ Ready \in Seq(Nat) /\ Len(Ready) = Len(unget) + w
        /\ Len(unget) \in {0, 1} /\ (Len(unget) = 0 => unget = <<>>)
        /\ (Len(unget) = 1 => Ready[1] = unget[1])
        /\ \A j \in 1 .. w : Ready[Len(unget) + j] = serialIn[j]
    BY <1>1, ReadyParts
  <1>4. /\ serialIn # <<>> /\ q = Tail(serialIn) /\ t2 = taken \o Taken("uart", b)
        /\ unget' = unget /\ rx' = rx /\ eraseCount' = eraseCount
    BY DEF UartReads, bootVars
  <1>5. /\ w >= 1 /\ q \in Seq(Nat) /\ Len(q) = w - 1
        /\ \A j \in 1 .. w - 1 : q[j] = serialIn[1 + j]
    BY <1>2, <1>4
  <1>6. /\ b \in Seq(Nat) /\ Len(b) = 1 /\ b[1] = serialIn[1] /\ "uart" \in Reader
    BY <1>2, <1>4 DEF Reader
  <1> HIDE DEF b
  <1>7. /\ t2 \in Seq(Numbered) /\ Len(t2) = Len(taken) + 1
        /\ \A i \in 1 .. Len(taken) : t2[i] = taken[i]
        /\ t2[Len(taken) + 1] = [by |-> "uart", byte |-> serialIn[1]]
    <2>1. /\ taken \o Taken("uart", b) \in Seq(Numbered)
          /\ Len(taken \o Taken("uart", b)) = Len(taken) + Len(b)
          /\ \A i \in 1 .. Len(taken) : (taken \o Taken("uart", b))[i] = taken[i]
          /\ \A i \in 1 .. Len(b) : (taken \o Taken("uart", b))[Len(taken) + i]
                                        = [by |-> "uart", byte |-> b[i]]
      BY <1>2, <1>6, AppendTaken
    <2>2. 1 \in 1 .. Len(b)
      BY <1>6
    <2> QED BY <2>1, <2>2, <1>4, <1>6, Zenon
  <1> HIDE DEF t2, q, r2
  <1>8. LineTypes'
    BY <1>1, <1>4, <1>5, <1>7 DEF LineTypes, t2, q
  <1>9. r2 = unget \o q
    BY <1>4 DEF r2, q, Ready
  <1>10. CASE Len(unget) = 0
    <2>1. unget = <<>> /\ 1 <= Len(Ready) /\ Len(unget) <= Len(unget') + 1
      BY <1>3, <1>4, <1>5, <1>10
    <2>2. r2 = q
      BY <2>1, <1>5, <1>9
    <2>3. \A i \in 1 .. 1 : b[i] = Ready[i]
      BY <1>3, <1>5, <1>6, <1>10
    <2>4. Len(r2) = Len(Ready) - 1 /\ \A j \in 1 .. Len(Ready) - 1 : r2[j] = Ready[1 + j]
      <3>1. Len(Ready) - 1 = w - 1
        BY <1>2, <1>3, <1>10
      <3>2. ASSUME NEW j \in 1 .. w - 1 PROVE q[j] = Ready[1 + j]
        <4>1. 1 + j \in 1 .. w /\ Len(unget) + (1 + j) = 1 + j
          BY <1>2, <1>10
        <4> QED BY <4>1, <1>3, <1>5
      <3> QED BY <3>1, <3>2, <2>2, <1>5, Zenon
    <2> QED BY <2>1, <2>3, <2>4, <1>4, <1>6, <1>8, ReaderGets DEF t2, r2
  <1>11. CASE Len(unget) = 1
    <2>1. Len(Ready) >= 2 /\ Len(Ready) = 1 + w
      BY <1>2, <1>3, <1>5, <1>11
    <2>2. /\ r2 \in Seq(Nat) /\ Len(r2) = 1 + (w - 1)
          /\ \A i \in 1 .. 1 : r2[i] = unget[i]
          /\ \A j \in 1 .. w - 1 : r2[1 + j] = q[j]
      <3>1. unget \in Seq(Nat) /\ q \in Seq(Nat)
        BY <1>2, <1>5
      <3>2. /\ unget \o q \in Seq(Nat) /\ Len(unget \o q) = Len(unget) + Len(q)
            /\ \A i \in 1 .. Len(unget) : (unget \o q)[i] = unget[i]
            /\ \A i \in 1 .. Len(q) : (unget \o q)[Len(unget) + i] = q[i]
        BY ONLY <3>1, JoinIs
      <3> QED BY ONLY <3>2, <1>5, <1>9, <1>11, Zenon
    <2>3. Len(r2) = Len(Ready) - 1 /\ r2[1] = Ready[1]
      BY <2>1, <2>2, <1>2, <1>3, <1>11
    <2>4. t2[Len(taken) + 1] = [by |-> "uart", byte |-> Ready[2]]
      <3>1. Ready[1 + 1] = serialIn[1]
        BY <1>2, <1>3, <1>5, <1>11
      <3>2. 1 + 1 = 2
        OBVIOUS
      <3> QED BY ONLY <3>1, <3>2, <1>7, Zenon
    <2>5. ASSUME NEW j \in 2 .. Len(Ready) - 1 PROVE r2[j] = Ready[j + 1]
      <3>1. j - 1 \in 1 .. w - 1 /\ 1 + (j - 1) = j /\ j \in 1 .. w /\ 1 + j = j + 1
        BY <2>1, <1>2
      <3>2. r2[1 + (j - 1)] = q[j - 1] /\ q[j - 1] = serialIn[1 + (j - 1)]
        BY <3>1, <2>2, <1>5
      <3>3. Ready[1 + j] = serialIn[j]
        BY <3>1, <1>3, <1>11
      <3> QED BY <3>1, <3>2, <3>3, Zenon
    <2>0. Kept(taken, Ready, 1, sent)
      BY ONLY <1>1, <1>11, Zenon
    <2>6. Kept(t2, r2, 1, sent)
      BY <2>0, <1>2, <1>3, <1>7, <1>11, <2>1, <2>2, <2>3, <2>4, <2>5, OvertakeKeeps
    <2> QED BY <2>6, <1>4, <1>8, <1>11 DEF SerialInv, t2, r2
  <1> QED BY <1>3, <1>10, <1>11

(* The far end sends its next byte.                                        *)
LEMMA FarEndAdds ==
    ASSUME SerialInv, SendsNext
    PROVE  SerialInv'
  <1> DEFINE w == Len(serialIn)
             q == serialIn'
             r2 == Ready'
             u == Len(unget)
  <1>1. LineTypes /\ Kept(taken, Ready, u, sent)
    BY DEF SerialInv
  <1>2. /\ serialIn \in Seq(Nat) /\ taken \in Seq(Numbered) /\ sent \in Nat
        /\ w \in Nat /\ unget \in Seq(Nat) /\ u \in Nat
    BY <1>1 DEF LineTypes
  <1>3. /\ unget' = unget /\ taken' = taken /\ sent' = sent + 1
        /\ q = Append(serialIn, sent + 1) /\ rx' = rx /\ eraseCount' = eraseCount
    BY DEF SendsNext, FarEndSends, bootVars
  <1>4. r2 = unget \o q
    BY <1>3 DEF Ready
  <1>5. /\ q \in Seq(Nat) /\ Len(q) = w + 1 /\ q[w + 1] = sent + 1
        /\ \A j \in 1 .. w : q[j] = serialIn[j]
    BY <1>2, <1>3
  <1>6. LineTypes'
    BY <1>1, <1>2, <1>3, <1>5 DEF LineTypes
  <1> HIDE DEF q, r2
  <1>7. /\ unget \o q \in Seq(Nat) /\ Len(unget \o q) = u + Len(q)
        /\ \A i \in 1 .. u : (unget \o q)[i] = unget[i]
        /\ \A i \in 1 .. Len(q) : (unget \o q)[u + i] = q[i]
    <2>1. unget \in Seq(Nat) /\ q \in Seq(Nat)
      BY <1>2, <1>5
    <2> QED BY ONLY <2>1, JoinIs
  <1>8. /\ Ready \in Seq(Nat) /\ Len(Ready) = u + w
        /\ \A i \in 1 .. u : Ready[i] = unget[i]
        /\ \A j \in 1 .. w : Ready[u + j] = serialIn[j]
    <2>1. unget \in Seq(Nat) /\ serialIn \in Seq(Nat)
      BY <1>2
    <2> QED BY ONLY <2>1, JoinIs DEF Ready
  <1> DEFINE z == Len(Ready)
  <1>9. z \in Nat /\ z = u + w
    BY <1>2, <1>8
  <1> HIDE DEF u, w, z
  <1>10. r2 \in Seq(Nat) /\ Len(r2) = z + 1 /\ r2[z + 1] = sent + 1
    <2>1. u + (w + 1) = z + 1 /\ w + 1 \in 1 .. w + 1
      BY <1>2, <1>9
    <2> QED BY ONLY <2>1, <1>4, <1>5, <1>7, Zenon
  <1>11. ASSUME NEW j \in 1 .. z PROVE r2[j] = Ready[j]
    <2>1. CASE j \in 1 .. u
      BY <2>1, <1>4, <1>7, <1>8
    <2>2. CASE j - u \in 1 .. w
      <3>1. u + (j - u) = j /\ j - u \in 1 .. w + 1
        BY <2>2, <1>2, <1>9
      <3>2. r2[u + (j - u)] = q[j - u] /\ q[j - u] = serialIn[j - u]
        BY <2>2, <3>1, <1>4, <1>5, <1>7
      <3>3. Ready[u + (j - u)] = serialIn[j - u]
        BY <2>2, <1>8
      <3> QED BY <3>1, <3>2, <3>3, Zenon
    <2>3. j \in 1 .. u \/ j - u \in 1 .. w
      BY <1>2, <1>9
    <2> QED BY <2>1, <2>2, <2>3
  <1>12. Kept(taken, r2, u, sent + 1)
    BY <1>1, <1>2, <1>8, <1>10, <1>11, SendKeeps DEF z
  <1> QED BY <1>3, <1>6, <1>12 DEF SerialInv, r2, u

-----------------------------------------------------------------------------
(* A byte of the native protocol, and what its command takes.              *)
LEMMA NativeByteTakes ==
    ASSUME SerialInv, NEW b \in Byte, NativeByte(b), sent' = sent
    PROVE  SerialInv'
  <1> DEFINE p == Append(rx, b)
  <1>0. LineTypes
    BY DEF SerialInv
  <1>1. /\ p \in Seq(Byte) /\ Tail(p) \in Seq(Byte) /\ eraseCount' = eraseCount
        /\ eraseCount \in Nat
    BY <1>0, AppendByte DEF NativeByte, bootVars, LineTypes
  <1>2. \/ rx' \in {p, Tail(p)} /\ UNCHANGED cdcVars
        \/ Complete(p) /\ Serve(p)
    BY DEF NativeByte
  <1> HIDE DEF p
  <1>3. CASE rx' \in {p, Tail(p)} /\ UNCHANGED cdcVars
    <2>1. rx' \in Seq(Byte) /\ UNCHANGED <<unget, serialIn, taken, sent>>
      BY <1>1, <1>3 DEF cdcVars
    <2>2. LineTypes'
      BY <2>1, <1>0, <1>1 DEF LineTypes
    <2> QED BY <2>1, <2>2, LineAlone
  <1>4. CASE Complete(p) /\ Serve(p)
    <2>1. Len(p) >= 2
      BY <1>4 DEF Complete
    <2>2. rx' \in Seq(Byte) /\ eraseCount' \in Nat
      BY <1>1, <1>4, <2>1, HeaderBounds, PopType DEF Serve, Rest
    <2>3. ASSUME UNCHANGED <<unget, serialIn, taken>> PROVE SerialInv'
      <3>1. LineTypes'
        BY <2>2, <2>3, <1>0 DEF LineTypes
      <3> QED BY <2>3, <3>1, LineAlone
    <2>4. CASE ServeCdcRead(p)
      BY <2>1, <2>2, <2>4, <1>1, CdcReadTakes
    <2>5. CASE ServeCdcAvailable(p)
      BY <2>2, <2>5, CdcAvailableTakesNone
    <2>6. CASE ServeCdcFlush(p)
      <3>1. /\ unget' = <<>> /\ taken' = taken \o Taken("flush", unget)
            /\ serialIn' = serialIn
        BY <2>6 DEF ServeCdcFlush
      <3>2. "flush" \in Reader /\ "flush" # "uart"
        BY DEF Reader
      <3> QED BY <2>2, <3>1, <3>2, DropKeeps
    <2>7. CASE ServeCdcWrite(p)
      BY <2>3, <2>7 DEF ServeCdcWrite
    <2>8. CASE \/ ServePlain(p) \/ ServeEepromMode(p) \/ ServeEepromRead(p)
               \/ ServeSetSaveId(p) \/ ServeEcho(p) \/ ServeRtc(p)
               \/ ServeUnknown(p)
      <3>1. UNCHANGED cdcVars
        BY <2>8 DEF ServePlain, ServeEepromMode, ServeEepromRead, ServeSetSaveId,
                    ServeEcho, ServeRtc, ServeUnknown
      <3> QED BY <3>1, <2>3 DEF cdcVars
    <2> QED BY <1>4, <2>4, <2>5, <2>6, <2>7, <2>8 DEF Serve
  <1> QED BY <1>2, <1>3, <1>4

(* A byte of the boot loader leaves the serial line alone.                 *)
LEMMA BootByteTakes ==
    ASSUME SerialInv, NEW b \in Byte, BootByte(b), sent' = sent
    PROVE  SerialInv'
  <1> DEFINE p == Append(rx, b)
  <1>0. LineTypes
    BY DEF SerialInv
  <1>1. /\ p \in Seq(Byte) /\ Tail(p) \in Seq(Byte) /\ p[1] \in Byte /\ Len(p) \in Nat
        /\ Len(p) >= 1 /\ eraseCount \in Nat
    BY <1>0, AppendByte DEF LineTypes
  <1>2. /\ \/ BootAcked(p)        \/ BootNotAcked(p)  \/ BootStepWaits(p)
           \/ BootFirstStep(p)    \/ BootSecondStep(p) \/ BootStart(p)
           \/ BootCommandWaits(p) \/ BootCommandGarbled(p)
           \/ BootCommand(p)      \/ BootNoise(p)
        /\ UNCHANGED <<unget, serialIn, taken, sent>>
    BY DEF BootByte, cdcVars
  <1> HIDE DEF p
  <1>3. rx' \in Seq(Byte) /\ eraseCount' \in Nat
    <2>1. CASE BootAcked(p) \/ BootNotAcked(p) \/ BootStart(p) \/ BootNoise(p)
      BY <1>1, <2>1 DEF BootAcked, BootNotAcked, BootStart, BootNoise, bootVars
    <2>2. CASE BootStepWaits(p) \/ BootCommandWaits(p)
      BY <1>1, <2>2 DEF BootStepWaits, BootCommandWaits, bootVars
    <2>3. CASE BootCommandGarbled(p) \/ BootCommand(p)
      BY <1>1, <2>3, PopType DEF BootCommandGarbled, BootCommand, bootVars
    <2>4. StepLen(p) \in Nat /\ (bootStep = 1 => StepLen(p) \in {3, 5})
      <3>1. p[1] \in Nat /\ p[1] <= 255
        BY <1>1, ByteRange
      <3> QED BY <1>1, <3>1 DEF StepLen
    <2>5. CASE BootSecondStep(p)
      BY <1>1, <2>4, <2>5, PopType DEF BootSecondStep
    <2>6. CASE BootFirstStep(p)
      <3>1. rx' \in Seq(Byte)
        BY <1>1, <2>4, <2>6, PopType DEF BootFirstStep
      <3>2. Len(p) >= 3 \/ bootCmd # BOOT_ERASE
        BY <2>6 DEF BootFirstStep, StepLen
      <3>3. Len(p) >= 3 => 256 * p[1] + p[2] \in Nat
        <4>1. Len(p) >= 3 => p[2] \in Byte
          BY <1>1
        <4>2. Len(p) >= 3 => p[2] \in Nat
          <5>1. \A x \in Byte : x \in Nat
            BY DEF Byte
          <5> QED BY <4>1, <5>1, Zenon
        <4>3. p[1] \in Nat
          BY <1>1, ByteRange
        <4> QED BY <4>2, <4>3
      <3>4. eraseCount' = IF bootCmd = BOOT_ERASE THEN 256 * p[1] + p[2] ELSE eraseCount
        BY <2>6 DEF BootFirstStep
      <3> QED BY <1>1, <3>1, <3>2, <3>3, <3>4
    <2> QED BY <1>2, <2>1, <2>2, <2>3, <2>5, <2>6
  <1>4. LineTypes'
    BY <1>0, <1>2, <1>3 DEF LineTypes
  <1> QED BY <1>2, <1>4, LineAlone

(* One step of the MCU and its line.                                       *)
LEMMA SerialStep ==
    ASSUME SerialInv, [SerialNext]_serialVars
    PROVE  SerialInv'
  <1>0. LineTypes
    BY DEF SerialInv
  <1>1. ASSUME UNCHANGED <<rx, bootVars, cdcVars, sent>> PROVE SerialInv'
    <2>1. LineTypes' /\ UNCHANGED <<unget, serialIn, taken, sent>>
      BY <1>0, <1>1 DEF LineTypes, bootVars, cdcVars
    <2> QED BY <2>1, LineAlone
  <1>2. CASE SendsNext
    BY <1>2, FarEndAdds
  <1>3. ASSUME NEW b \in Byte, Exchange(b), UNCHANGED sent PROVE SerialInv'
    <2>1. CASE AnswerByte \/ Overrun
      BY <1>1, <1>3, <2>1 DEF AnswerByte, Overrun
    <2>2. CASE NativeByte(b)
      BY <1>3, <2>2, NativeByteTakes
    <2>3. CASE BootByte(b)
      BY <1>3, <2>3, BootByteTakes
    <2> QED BY <1>3, <2>1, <2>2, <2>3 DEF Exchange
  <1>4. ASSUME NEW boot \in BOOLEAN, Reset(boot), UNCHANGED sent PROVE SerialInv'
    <2>1. /\ unget' = <<>> /\ taken' = taken \o Taken("reset", unget)
          /\ serialIn' = serialIn /\ rx' \in Seq(Byte) /\ eraseCount' \in Nat
      BY <1>4 DEF Reset
    <2>2. "reset" \in Reader /\ "reset" # "uart"
      BY DEF Reader
    <2> QED BY <1>4, <2>1, <2>2, DropKeeps
  <1>5. CASE FarEndReads /\ UNCHANGED sent
    <2>1. LineTypes' /\ UNCHANGED <<unget, serialIn, taken, sent>>
      BY <1>0, <1>5 DEF LineTypes, FarEndReads, bootVars
    <2> QED BY <2>1, LineAlone
  <1>6. CASE UartReads /\ UNCHANGED sent
    BY <1>6, UartTakes
  <1>7. CASE UNCHANGED serialVars
    BY <1>1, <1>7 DEF serialVars, mcuVars
  <1> QED BY <1>2, <1>3, <1>4, <1>5, <1>6, <1>7 DEF SerialNext

-----------------------------------------------------------------------------
(* What the invariant says of Places.                                      *)
LEMMA PlacesAreKept ==
    ASSUME SerialInv
    PROVE  SerialKept
  <1> DEFINE t == [i \in 1 .. Len(taken) |-> taken[i].byte]
             a == Len(taken)
             q == t \o unget
  <1>1. LineTypes /\ Kept(taken, Ready, Len(unget), sent)
    BY DEF SerialInv
  <1>2. /\ taken \in Seq(Numbered) /\ unget \in Seq(Nat) /\ serialIn \in Seq(Nat)
        /\ sent \in Nat /\ a \in Nat
    BY <1>1 DEF LineTypes
  <1>3. t \in Seq(Nat) /\ Len(t) = a /\ \A i \in 1 .. a : t[i] = taken[i].byte
    <2>1. ASSUME NEW i \in 1 .. a PROVE taken[i].byte \in Nat
      <3>1. taken[i] \in Numbered
        BY <1>2
      <3> QED BY <3>1 DEF Numbered
    <2> QED BY <2>1, <1>2
  <1>4. Places = q \o serialIn
    BY DEF Places
  <1> HIDE DEF t, a
  <1>5. /\ q \in Seq(Nat) /\ Len(q) = a + Len(unget)
        /\ \A i \in 1 .. a : q[i] = t[i]
        /\ \A i \in 1 .. Len(unget) : q[a + i] = unget[i]
    <2>0. t \in Seq(Nat) /\ unget \in Seq(Nat)
      BY <1>2, <1>3
    <2>1. /\ t \o unget \in Seq(Nat) /\ Len(t \o unget) = Len(t) + Len(unget)
          /\ \A i \in 1 .. Len(t) : (t \o unget)[i] = t[i]
          /\ \A i \in 1 .. Len(unget) : (t \o unget)[Len(t) + i] = unget[i]
      BY ONLY <2>0, JoinIs
    <2> QED BY <2>1, <1>3, Zenon DEF q
  <1> HIDE DEF q
  <1>6. /\ Places \in Seq(Nat) /\ Len(Places) = Len(q) + Len(serialIn)
        /\ \A i \in 1 .. Len(q) : Places[i] = q[i]
        /\ \A i \in 1 .. Len(serialIn) : Places[Len(q) + i] = serialIn[i]
    <2>1. /\ q \o serialIn \in Seq(Nat) /\ Len(q \o serialIn) = Len(q) + Len(serialIn)
          /\ \A i \in 1 .. Len(q) : (q \o serialIn)[i] = q[i]
          /\ \A i \in 1 .. Len(serialIn) : (q \o serialIn)[Len(q) + i] = serialIn[i]
      <3>1. q \in Seq(Nat) /\ serialIn \in Seq(Nat)
        BY <1>2, <1>5
      <3> QED BY ONLY <3>1, JoinIs
    <2> QED BY ONLY <2>1, <1>4, Zenon
  <1> DEFINE u == Len(unget)
             w == Len(serialIn)
             l == Len(q)
  <1>7. /\ Ready \in Seq(Nat) /\ Len(Ready) = u + w
        /\ \A i \in 1 .. u : Ready[i] = unget[i]
        /\ \A j \in 1 .. w : Ready[u + j] = serialIn[j]
    BY ONLY <1>2, JoinIs DEF Ready
  <1>8. u \in Nat /\ w \in Nat /\ l = a + u /\ l \in Nat /\ a + (u + w) = sent
    BY <1>1, <1>2, <1>5, <1>7 DEF Kept, a
  <1> HIDE DEF u, w, l
  <1>9. Len(Places) = sent
    <2>1. Len(Places) = l + w
      BY <1>6 DEF l, w
    <2> QED BY <2>1, <1>2, <1>8
  <1>10. ASSUME NEW b \in 1 .. sent PROVE \E i \in 1 .. sent : Places[i] = b
    <2>1. \/ \E i \in 1 .. a : taken[i].byte = b
          \/ \E j \in 1 .. Len(Ready) : Ready[j] = b
      BY <1>1 DEF Kept, AllThere, a
    <2>2. CASE \E i \in 1 .. a : taken[i].byte = b
      <3>1. PICK i \in 1 .. a : taken[i].byte = b
        BY <2>2
      <3>2. i \in 1 .. sent /\ i \in 1 .. l
        BY <1>2, <1>8
      <3>3. Places[i] = q[i] /\ q[i] = t[i] /\ t[i] = taken[i].byte
        BY <3>2, <1>3, <1>5, <1>6 DEF l
      <3> QED BY <3>1, <3>2, <3>3
    <2>3. CASE \E j \in 1 .. Len(Ready) : Ready[j] = b
      <3>1. PICK j \in 1 .. u + w : Ready[j] = b
        BY <2>3, <1>7 DEF u, w
      <3>2. a + j \in 1 .. sent
        BY <1>2, <1>8
      <3>3. CASE j \in 1 .. u
        <4>1. a + j \in 1 .. l
          BY <3>3, <1>2, <1>8
        <4>2. Places[a + j] = q[a + j] /\ q[a + j] = unget[j] /\ Ready[j] = unget[j]
          BY <3>3, <4>1, <1>5, <1>6, <1>7 DEF u, l
        <4> QED BY <3>1, <3>2, <4>2, Zenon
      <3>4. CASE j - u \in 1 .. w
        <4>1. l + (j - u) = a + j /\ u + (j - u) = j
          BY <1>2, <1>8
        <4>2. Places[l + (j - u)] = serialIn[j - u] /\ Ready[u + (j - u)] = serialIn[j - u]
          BY <3>4, <1>6, <1>7 DEF u, w, l
        <4> QED BY <3>1, <3>2, <4>1, <4>2, Zenon
      <3>5. j \in 1 .. u \/ j - u \in 1 .. w
        BY <1>8
      <3> QED BY <3>3, <3>4, <3>5
    <2> QED BY <2>1, <2>2, <2>3
  <1>11. \A i, j \in 1 .. Len(taken) :
            i < j /\ taken[i].by = taken[j].by => taken[i].byte < taken[j].byte
    BY <1>1 DEF Kept, InTurn
  <1> QED BY <1>9, <1>10, <1>11 DEF SerialKept

LEMMA SerialStarts == SerialInit => SerialInv
  <1> SUFFICES ASSUME SerialInit PROVE SerialInv
    OBVIOUS
  <1>1. /\ rx = <<>> /\ eraseCount = 0 /\ unget = <<>> /\ serialIn = <<>>
        /\ taken = <<>> /\ sent = 0
    BY DEF SerialInit, Init
  <1>2. LineTypes /\ Ready = <<>>
    BY <1>1 DEF LineTypes, Ready
  <1>3. Kept(<<>>, <<>>, 0, 0)
    BY DEF Kept, AllThere, NoneNewer, LeftInOrder, LeftIsNewer, InTurn
  <1> QED BY <1>1, <1>2, <1>3 DEF SerialInv

(* The serial line loses no byte, hands none out twice, and each reader    *)
(* gets its bytes in the order they were sent, however many the far end    *)
(* sends and whatever the host, the UART and resets do between.            *)
THEOREM SerialLineKeepsEveryByte == SerialSpec => []SerialKept
  <1>1. SerialInv /\ [SerialNext]_serialVars => SerialInv'
    BY SerialStep
  <1>2. SerialInv => SerialKept
    BY PlacesAreKept
  <1> QED BY <1>1, <1>2, SerialStarts, PTL DEF SerialSpec

-----------------------------------------------------------------------------
(* The flash under a host that sends commands and breaks them off.         *)

(* The codes of the commands, and that no code is of two kinds.            *)
LEMMA Codes ==
    /\ WRITE = 2 /\ READ = 3 /\ WRDI = 4 /\ RDSR1 = 5 /\ WREN = 6 /\ RDSR3 = 21
    /\ RDSR2 = 53 /\ RDUUID = 75 /\ MFR_ID = 144 /\ RDID = 159 /\ WAKE_ID = 171
    /\ Erases = {32, 82, 216} /\ Addressed = {2, 3, 32, 82, 216} /\ Status = {5, 21, 53}
    /\ Identity = {75, 144, 159, 171} /\ Latches = {4, 6}
BY DEF WRITE, READ, WRDI, RDSR1, WREN, RDSR3, ERASE_4K, RDSR2, RDUUID,
       ERASE_32K, MFR_ID, RDID, WAKE_ID, ERASE_64K, Erases, Addressed,
       Status, Identity, Latches

LEMMA Kinds ==
    ASSUME NEW c
    PROVE  /\ c \in Status =>
                /\ c \notin Addressed /\ c \notin Latches /\ c \notin Identity
                /\ c \notin Erases
                /\ c # READ /\ c # WRITE /\ c # MFR_ID
           /\ c \in Identity =>
                /\ c \notin Addressed /\ c \notin Latches /\ c \notin Status
                /\ c \notin Erases
                /\ c # READ /\ c # WRITE
           /\ c \in Addressed =>
                /\ c \notin Latches /\ c \notin Status /\ c \notin Identity
                /\ c # MFR_ID
                /\ c = READ \/ c = WRITE \/ c \in Erases
           /\ c = READ => c \in Addressed /\ c # WRITE /\ c \notin Erases
           /\ c = WRITE => c \in Addressed /\ c # READ /\ c \notin Erases
           /\ c \in Erases => c \in Addressed /\ c # READ /\ c # WRITE
           /\ c \in Status \cup Erases => c # 0
BY Codes

(* What is no command with a header of four bytes.                         *)
LEMMA HeaderKinds ==
    ASSUME NEW c \in Addressed \cup {MFR_ID}
    PROVE  /\ c \in Known
           /\ c \notin Status /\ c \notin Latches /\ c \notin Identity \ {MFR_ID}
           /\ c # WREN /\ c # WRDI
           /\ c \in Addressed => c \notin Identity
           /\ c \in Addressed \cup Status \cup Identity \cup {WREN, WRDI}
BY Codes DEF Known

(* A fill byte is no command.                                              *)
LEMMA FillIsNoCommand ==
    /\ 255 \notin Addressed /\ 255 \notin Status /\ 255 \notin Identity
    /\ 255 \notin {WREN, WRDI}
    /\ ~HeaderWaits(<<255>>) /\ ~AddressGiven(<<255>>) /\ ~StatusAsked(<<255>>)
    /\ ~IdentityAsked(<<255>>) /\ ~WriteLatchSet(<<255>>)
<1>1. /\ 255 \notin Addressed /\ 255 \notin Status /\ 255 \notin Identity
      /\ 255 \notin {WREN, WRDI} /\ 255 # MFR_ID
  BY Codes
<1>2. <<255>>[1] = 255
  OBVIOUS
<1> QED BY <1>1, <1>2 DEF HeaderWaits, AddressGiven, StatusAsked, IdentityAsked,
            WriteLatchSet

(* What the assumptions say of sizes, and of a command: it is as long as   *)
(* its header, which ends with the address if it has one.                  *)
LEMMA HostSizes ==
    ASSUME HostAssumption
    PROVE  /\ PageSize \in Nat \ {0} /\ BufSize \in Nat /\ BufSize > 12
           /\ HasFlash /\ Top \in Nat
           /\ Top <= Start(<<READ, 255, 255, 255>>)
BY FlashAssumption, BufSizeAssumption DEF HostAssumption

HeaderLen(c) == IF c[1] \in Addressed \cup {MFR_ID} THEN 4 ELSE 1

LEMMA CommandShape ==
    ASSUME HostAssumption, NEW c \in Commands
    PROVE  /\ IsCommand(c)
           /\ c \in Seq(Byte) /\ Len(c) \in Nat /\ HeaderLen(c) <= Len(c)
           /\ \A k \in 1 .. Len(c) : c[k] \in Byte
           /\ c[1] \in Byte
<1>1. IsCommand(c)
  BY DEF HostAssumption
<1>2. c \in Seq(Byte) /\ c # <<>>
  BY <1>1 DEF IsCommand
<1>3. Len(c) \in Nat /\ Len(c) >= 1 /\ \A k \in 1 .. Len(c) : c[k] \in Byte
  BY <1>2
<1>4. HeaderLen(c) <= Len(c)
  <2>1. CASE c[1] \in Addressed \cup {MFR_ID}
    <3>1. Len(c) >= 4
      <4>1. c[1] \in Known /\ 1 \in 1 .. Len(c)
        <5>1. 1 \in 1 .. Len(c)
          BY ONLY <1>3
        <5> QED BY ONLY <5>1, <2>1, HeaderKinds, Zenon
      <4>2. c[1] \notin Status \cup (Identity \ {MFR_ID}) \cup Latches
        BY ONLY <2>1, HeaderKinds, Zenon
      <4>3. Len(c) = 4 \/ Len(c) >= 4 \/ Len(c) = 5
        BY <1>1, <4>1, <4>2, Zenon DEF IsCommand
      <4>4. \A m \in Nat : m = 4 \/ m >= 4 \/ m = 5 => m >= 4
        OBVIOUS
      <4> QED BY ONLY <1>3, <4>3, <4>4, Zenon
    <3> QED BY <2>1, <3>1, <1>3 DEF HeaderLen
  <2>2. CASE ~(c[1] \in Addressed \cup {MFR_ID})
    BY <1>3, <2>2 DEF HeaderLen
  <2> QED BY <2>1, <2>2
<1> QED BY <1>1, <1>2, <1>3, <1>4

(* A byte taken from the head of a queue, from all of it, from none.       *)
LEMMA PopAgain ==
    ASSUME NEW q \in Seq(Byte), NEW i \in Nat
    PROVE  /\ Pop(Pop(q, i), 1) = Pop(q, i + 1)
           /\ First(Pop(q, i)) = IF i < Len(q) THEN q[i + 1] ELSE 255
<1> DEFINE p == Pop(q, i)
<1>1. CASE i < Len(q)
  <2>1. p = SubSeq(q, i + 1, Len(q)) /\ Len(q) \in Nat /\ q \in Seq(Byte)
    BY DEF Pop
  <2>2. /\ p \in Seq(Byte) /\ Len(p) = Len(q) - i
        /\ \A j \in 1 .. Len(q) - i : p[j] = q[i + j]
    BY <1>1, <2>1, SubSeqProperties
  <2> HIDE DEF p
  <2>3. Len(p) >= 1 /\ p # <<>> /\ Head(p) = q[i + 1]
    <3>1. Len(q) \in Nat /\ Len(p) \in Nat /\ Len(p) >= 1
      BY <1>1, <2>1, <2>2
    <3>2. p # <<>> /\ Head(p) = p[1]
      BY <2>2, <3>1
    <3>3. p[1] = q[i + 1]
      BY <2>2, <3>1
    <3> QED BY <3>1, <3>2, <3>3
  <2>4. First(p) = q[i + 1]
    BY <2>3 DEF First
  <2>5. Pop(p, 1) = Pop(q, i + 1)
    <3>1. Pop(p, 1) = SubSeq(p, 2, Len(p)) /\ Pop(q, i + 1) = SubSeq(q, i + 2, Len(q))
      BY DEF Pop
    <3>2. CASE Len(q) = i + 1
      BY <2>2, <3>1, <3>2
    <3>3. CASE Len(q) > i + 1
      <4>1. SubSeq(p, 2, Len(p)) = [j \in 1 .. Len(p) - 1 |-> p[j + 1]]
        BY <2>2, <3>3
      <4>2. SubSeq(q, i + 2, Len(q)) = [j \in 1 .. Len(q) - (i + 1) |-> q[j + (i + 1)]]
        BY <3>3
      <4>3. \A j \in 1 .. Len(p) - 1 : p[j + 1] = q[j + (i + 1)]
        BY <2>2, <3>3
      <4>4. Len(p) - 1 = Len(q) - (i + 1) /\ Len(p) - 1 \in Nat
        BY <2>2, <3>3
      <4> DEFINE m == Len(p) - 1
      <4>5. /\ SubSeq(p, 2, Len(p)) = [j \in 1 .. m |-> p[j + 1]]
            /\ SubSeq(q, i + 2, Len(q)) = [j \in 1 .. m |-> q[j + (i + 1)]]
            /\ \A j \in 1 .. m : p[j + 1] = q[j + (i + 1)]
        BY <4>1, <4>2, <4>3, <4>4
      <4> HIDE DEF m
      <4>6. SubSeq(p, 2, Len(p)) = SubSeq(q, i + 2, Len(q))
        BY <4>5
      <4> QED BY <3>1, <4>6
    <3> QED BY <1>1, <2>1, <3>2, <3>3
  <2> QED BY <1>1, <2>4, <2>5 DEF p
<1>2. CASE ~(i < Len(q))
  <2>1. p = <<>> /\ Pop(q, i + 1) = <<>>
    BY <1>2 DEF Pop
  <2>2. Pop(<<>>, 1) = <<>>
    BY DEF Pop
  <2> QED BY <1>2, <2>1, <2>2 DEF First, FillByte
<1> QED BY <1>1, <1>2

LEMMA PopAll ==
    ASSUME NEW q \in Seq(Byte)
    PROVE  Pop(q, Len(q)) = <<>> /\ Pop(q, 0) = q
<1>1. Len(q) \in Nat
  OBVIOUS
<1>2. Pop(q, Len(q)) = <<>>
  BY <1>1 DEF Pop
<1>3. Pop(q, 0) = q
  BY <1>1 DEF Pop
<1> QED BY <1>2, <1>3

LEMMA EmptyQueue == Pop(<<>>, 1) = <<>> /\ First(<<>>) = 255
BY DEF Pop, First, FillByte

(* The bytes of each identity.                                             *)
LEMMA Identities ==
    ASSUME NEW c \in Identity
    PROVE  /\ IdentityBytes(c) \in Seq(Byte) /\ Len(IdentityBytes(c)) <= 12
           /\ Len(IdentityBytes(c)) \in Nat
<1>1. \A m \in {3, 4} : Fill(m, 255) \in Seq(Byte) /\ Len(Fill(m, 255)) = m
  BY DEF Fill, Byte
<1>2. /\ <<1, 35, 69, 103, 137, 171, 205, 239>> \in Seq(Byte)
      /\ <<239, 20>> \in Seq(Byte) /\ <<239, 64, 21>> \in Seq(Byte)
      /\ <<20>> \in Seq(Byte)
  BY DEF Byte
<1>3. /\ Len(<<1, 35, 69, 103, 137, 171, 205, 239>>) = 8 /\ Len(<<239, 20>>) = 2
      /\ Len(<<239, 64, 21>>) = 3 /\ Len(<<20>>) = 1
  OBVIOUS
<1>4. IdentityBytes(c) \in Seq(Byte)
  BY <1>1, <1>2, ConcatProperties DEF IdentityBytes, FillByte
<1>5. Len(IdentityBytes(c)) \in {12, 2, 3, 4}
  <2>1. /\ Len(Fill(4, 255) \o <<1, 35, 69, 103, 137, 171, 205, 239>>) = 12
        /\ Len(Fill(3, 255) \o <<20>>) = 4
    <3>1. \A s \in Seq(Byte), r \in Seq(Byte) : Len(s \o r) = Len(s) + Len(r)
      OBVIOUS
    <3> DEFINE four == Fill(4, 255)
               three == Fill(3, 255)
               uuid == <<1, 35, 69, 103, 137, 171, 205, 239>>
               wake == <<20>>
    <3>2. /\ four \in Seq(Byte) /\ three \in Seq(Byte) /\ uuid \in Seq(Byte)
          /\ wake \in Seq(Byte) /\ Len(four) = 4 /\ Len(three) = 3
          /\ Len(uuid) = 8 /\ Len(wake) = 1
      BY <1>1, <1>2, <1>3
    <3> HIDE DEF four, three, uuid, wake
    <3>3. /\ Len(four \o uuid) = Len(four) + Len(uuid)
          /\ Len(three \o wake) = Len(three) + Len(wake)
      BY ONLY <3>1, <3>2, Zenon
    <3>4. Len(four \o uuid) = 12 /\ Len(three \o wake) = 4
      <4>1. 4 + 8 = 12 /\ 3 + 1 = 4
        OBVIOUS
      <4> QED BY ONLY <3>2, <3>3, <4>1, Zenon
    <3> QED BY <3>4 DEF four, three, uuid, wake
  <2> QED BY <1>3, <2>1 DEF IdentityBytes, FillByte
<1>6. Len(IdentityBytes(c)) \in Nat /\ Len(IdentityBytes(c)) <= 12
  <2> DEFINE m == Len(IdentityBytes(c))
  <2>1. m \in {12, 2, 3, 4}
    BY <1>5
  <2> HIDE DEF m
  <2>2. m \in Nat /\ m <= 12
    BY <2>1
  <2> QED BY <2>2 DEF m
<1> QED BY <1>4, <1>6

(* The invariant.  After n bytes of a command the chip is either still     *)
(* in its header and has kept all of them,                                 *)
InHeader(n) ==
    /\ n < HeaderLen(command)
    /\ flashMode = 0 /\ flashTx = <<>> /\ flashRx = SubSeq(command, 1, n)

(* or behind it, where its registers follow from n: the position of a read *)
(* or of a program operation, the rest of an identity.  A READ behind an   *)
(* erase command takes fill bytes for its address, which is beyond the end *)
(* of the image.                                                           *)
ReadBehind(n) ==
    \/ flashRx = <<>> /\ (Len(command) = 4 \/ n = 4)
    \/ /\ n \in 5 .. 7 /\ flashRx \in Seq(Nat) /\ Len(flashRx) = n - 4
       /\ flashRx[1] = 3 /\ \A i \in 2 .. n - 4 : flashRx[i] = 255
Reading(n) == flashMode = READ /\ position = Start(command) + n - 4
Writing(n) == flashMode = WRITE /\ n <= Len(command) /\ position = Target(n + 1)
Erased(n) ==
    \/ flashMode = command[1] /\ flashTx = <<>> /\ ReadBehind(n)
    \/ flashMode = READ /\ position \in Nat /\ position >= Top
Identified(n) ==
    /\ flashMode = 0 /\ flashRx = <<>>
    /\ flashTx = Pop(IdentityBytes(command[1]), n - Len(command))
AfterHeader(n) ==
    /\ HeaderLen(command) <= n
    /\ command[1] = READ => Reading(n)
    /\ command[1] = WRITE => Writing(n)
    /\ command[1] \in Erases => Erased(n)
    /\ command[1] \in Status => flashMode = command[1]
    /\ command[1] \in Identity => Identified(n)
    /\ command[1] \notin Addressed \cup Status \cup Identity => FlashIdle

(* Between two commands it is idle.                                        *)
InPlace(n) ==
    /\ command = <<>> => n = 0 /\ FlashIdle
    /\ command # <<>> => InHeader(n) \/ AfterHeader(n)

(* The host's books are right.                                             *)
InBook ==
    /\ image = shadow /\ shadow \in [0 .. Top - 1 -> Byte]
    /\ writeEnabled = enabled /\ enabled \in BOOLEAN /\ halted = FALSE
HostInv ==
    /\ command = <<>> \/ command \in Commands
    /\ got \in Seq(Byte)
    /\ InBook /\ AnswersInStep
    /\ \E n \in Nat : n = Len(got) /\ InPlace(n)

(* The byte clocked in position k, a fill byte behind the command's end.   *)
Sent(k) == IF k <= Len(command) THEN command[k] ELSE 255

(* What a clock must do after n bytes.                                     *)
AnsweredInStep(n) ==
    /\ InBook' /\ InPlace(n + 1)' /\ FlashAnswer = Expected(n + 1)

(* Expected, by the kind of command.                                       *)
LEMMA ExpectedIs ==
    ASSUME NEW k \in Nat
    PROVE  /\ command[1] = READ => Expected(k) = IF k > 4 THEN IF Start(command) + k - 5 < Top
                      THEN shadow[Start(command) + k - 5] ELSE 255 ELSE 255
           /\ command[1] = RDSR1 /\ k > 1 => Expected(k) = IF enabled THEN 2 ELSE 0
           /\ command[1] \in {RDSR2, RDSR3} /\ k > 1 => Expected(k) = 0
           /\ command[1] \in Identity =>
                Expected(k) = Behind(k, IdentityBytes(command[1]))
           /\ command[1] \notin {READ} \cup Status \cup Identity => Expected(k) = 255
           /\ k <= 1 /\ command[1] \notin Identity => Expected(k) = 255
<1>1. command[1] = READ => Expected(k) = IF k > 4 THEN IF Start(command) + k - 5 < Top
                      THEN shadow[Start(command) + k - 5] ELSE 255 ELSE 255
  BY Codes DEF Expected, FillByte
<1>2. command[1] = RDSR1 /\ k > 1 => Expected(k) = IF enabled THEN 2 ELSE 0
  BY Codes DEF Expected, FillByte
<1>3. command[1] \in {RDSR2, RDSR3} /\ k > 1 => Expected(k) = 0
  BY Codes DEF Expected, FillByte
<1>4. command[1] \in Identity => Expected(k) = Behind(k, IdentityBytes(command[1]))
  <2>1. CASE command[1] = RDUUID
    BY <2>1, Codes DEF Expected, FillByte, IdentityBytes
  <2>2. CASE command[1] = MFR_ID
    BY <2>2, Codes DEF Expected, FillByte, IdentityBytes
  <2>3. CASE command[1] = RDID
    BY <2>3, Codes DEF Expected, FillByte, IdentityBytes
  <2>4. CASE command[1] = WAKE_ID
    BY <2>4, Codes DEF Expected, FillByte, IdentityBytes
  <2> QED BY <2>1, <2>2, <2>3, <2>4, Codes
<1>5. command[1] \notin {READ} \cup Status \cup Identity => Expected(k) = 255
  BY Codes DEF Expected, FillByte
<1>6. k <= 1 /\ command[1] \notin Identity => Expected(k) = 255
  BY Codes DEF Expected, FillByte
<1> QED BY <1>1, <1>2, <1>3, <1>4, <1>5, <1>6

(* In its header every command is answered with fill bytes.                *)
LEMMA HeaderExpected ==
    ASSUME HostAssumption, command \in Commands, NEW k \in 1 .. HeaderLen(command)
    PROVE  Expected(k) = 255
<1>1. /\ k \in Nat /\ k <= HeaderLen(command) /\ HeaderLen(command) <= Len(command)
      /\ Len(command) \in Nat
  BY CommandShape DEF HeaderLen
<1>2. CASE command[1] \in Identity
  <2>1. Expected(k) = Behind(k, IdentityBytes(command[1]))
    BY <1>1, <1>2, ExpectedIs
  <2>2. k - Len(command) \notin 1 .. Len(IdentityBytes(command[1]))
    <3>1. \A x, y, z \in Nat : x <= y /\ y <= z => x - z \in Int /\ x - z <= 0
      OBVIOUS
    <3>2. \A x \in Int : \A m : x <= 0 => x \notin 1 .. m
      OBVIOUS
    <3>3. HeaderLen(command) \in Nat
      BY DEF HeaderLen
    <3> QED BY ONLY <1>1, <3>1, <3>2, <3>3, Zenon
  <2> QED BY <2>1, <2>2 DEF Behind, FillByte
<1>3. CASE command[1] \notin Identity /\ k <= 1
  BY <1>1, <1>3, ExpectedIs
<1>4. CASE command[1] \notin Identity /\ k > 1
  <2>1. HeaderLen(command) > 1 /\ k <= 4
    <3>1. HeaderLen(command) = 4 \/ HeaderLen(command) = 1
      BY Zenon DEF HeaderLen
    <3> QED BY ONLY <1>1, <1>4, <3>1
  <2>2. command[1] \in Addressed
    BY <2>1, <1>4, Codes DEF HeaderLen
  <2>3. CASE command[1] = READ
    BY <1>1, <2>1, <2>3, ExpectedIs
  <2>4. CASE command[1] # READ
    <3>1. command[1] \notin {READ} \cup Status \cup Identity
      BY ONLY <2>2, <2>4, Kinds, Zenon
    <3> QED BY <1>1, <3>1, ExpectedIs
  <2> QED BY <2>3, <2>4
<1> QED BY <1>1, <1>2, <1>3, <1>4

(* A clock hands the chip a byte, writes it down where it programs, and    *)
(* leaves the command as it is.                                            *)
LEMMA ClockIs ==
    ASSUME HostAssumption, HostInv, Clock, NEW n \in Nat, n = Len(got), InPlace(n)
    PROVE  /\ command \in Commands /\ (InHeader(n) \/ AfterHeader(n))
           /\ Sent(n + 1) \in Byte /\ FlashExchange(Sent(n + 1))
           /\ command[1] = WRITE => n + 1 <= Len(command)
           /\ shadow' = IF command[1] = WRITE /\ n + 1 > 4
                        THEN [shadow EXCEPT ![Target(n + 1)] = Sent(n + 1)] ELSE shadow
           /\ enabled' = IF n = 0 /\ command[1] \in Latches
                         THEN command[1] = WREN ELSE enabled
           /\ got' = Append(got, FlashAnswer) /\ command' = command
<1>1. command \in Commands /\ (InHeader(n) \/ AfterHeader(n))
  BY DEF Clock, NoCommandYet, HostInv, InPlace
<1>2. /\ Len(command) \in Nat /\ Len(command) >= 1
      /\ \A k \in 1 .. Len(command) : command[k] \in Byte
  BY <1>1, CommandShape DEF HeaderLen
<1>3. n + 1 \in Nat /\ n + 1 >= 1
  OBVIOUS
<1>4. Sent(n + 1) \in Byte
  BY <1>2, <1>3 DEF Sent, Byte
<1>5. n = 0 => Sent(n + 1) = command[1]
  BY <1>2 DEF Sent
<1>6. n = 0 <=> n + 1 = 1
  OBVIOUS
<1>7. /\ FlashExchange(Sent(n + 1))
      /\ command[1] = WRITE => n + 1 <= Len(command)
      /\ shadow' = IF command[1] = WRITE /\ n + 1 > 4
                   THEN [shadow EXCEPT ![Target(n + 1)] = Sent(n + 1)] ELSE shadow
      /\ enabled' = IF n + 1 = 1 /\ Sent(n + 1) \in Latches
                    THEN Sent(n + 1) = WREN ELSE enabled
      /\ got' = Append(got, FlashAnswer) /\ command' = command
  BY Zenon DEF Clock, Sent, FillByte
<1> QED BY <1>1, <1>4, <1>5, <1>6, <1>7, Zenon

(* In mode 0 or in that of an erase command, a byte is part of a command.  *)
LEMMA CommandIs ==
    ASSUME NEW b, FlashExchange(b), flashMode \notin {2, 3, 5, 21, 53}
    PROVE  CommandByte(b)
BY Codes DEF FlashExchange, ReadByte, ProgramByte, StatusByte

(* The queue of received bytes within a header.                            *)
LEMMA HeaderQueue ==
    ASSUME NEW c \in Seq(Byte), NEW n \in Nat, n + 1 <= Len(c)
    PROVE  /\ Append(SubSeq(c, 1, n), c[n + 1]) = SubSeq(c, 1, n + 1)
           /\ SubSeq(c, 1, n + 1) \in Seq(Byte) /\ Len(SubSeq(c, 1, n + 1)) = n + 1
           /\ \A i \in 1 .. n + 1 : SubSeq(c, 1, n + 1)[i] = c[i]
<1>1. Len(c) \in Nat
  OBVIOUS
<1>2. /\ SubSeq(c, 1, n + 1) \in Seq(Byte) /\ Len(SubSeq(c, 1, n + 1)) = n + 1
      /\ \A i \in 1 .. n + 1 : SubSeq(c, 1, n + 1)[i] = c[i]
  BY <1>1, SubSeqProperties
<1>3. Append(SubSeq(c, 1, n), c[n + 1]) = SubSeq(c, 1, n + 1)
  OBVIOUS
<1> QED BY <1>2, <1>3

(* A byte of the header before its last: the chip waits for the next.      *)
LEMMA ClockWaits ==
    ASSUME HostAssumption, HostInv, Clock, NEW n \in Nat, n = Len(got), InPlace(n),
           InHeader(n), n + 1 < HeaderLen(command)
    PROVE  AnsweredInStep(n)
<1> DEFINE r == SubSeq(command, 1, n + 1)
<1>1. command \in Commands /\ command \in Seq(Byte) /\ Len(command) \in Nat /\ n + 1 <= Len(command)
      /\ HeaderLen(command) = 4
  BY ClockIs, CommandShape DEF HeaderLen
<1>2. Sent(n + 1) = command[n + 1]
  BY <1>1 DEF Sent
<1>3. /\ Append(flashRx, Sent(n + 1)) = r /\ Len(r) = n + 1 /\ r[1] = command[1]
  BY <1>1, <1>2, HeaderQueue DEF InHeader
<1>4. command[1] \in Addressed \cup {MFR_ID}
  BY <1>1 DEF HeaderLen
<1>5. CommandByte(Sent(n + 1))
  BY ClockIs, CommandIs DEF InHeader
<1> HIDE DEF r
<1>6. HeaderWaits(r)
  <2>1. \/ HeaderWaits(r) \/ AddressGiven(r) \/ StatusAsked(r) \/ IdentityAsked(r)
        \/ WriteLatchSet(r) \/ NoCommand(r)
    BY <1>3, <1>5 DEF CommandByte
  <2>2. Len(r) < 4 /\ ~(Len(r) >= 4)
    BY <1>1, <1>3
  <2>3. ~AddressGiven(r) /\ ~StatusAsked(r) /\ ~IdentityAsked(r)
    <3>1. r[1] \notin Status /\ r[1] \notin Identity \ {MFR_ID}
      BY ONLY <1>3, <1>4, HeaderKinds, Zenon
    <3> QED BY ONLY <2>2, <3>1, Zenon DEF AddressGiven, StatusAsked, IdentityAsked
  <2>4. ~WriteLatchSet(r) /\ ~NoCommand(r)
    BY ONLY <1>3, <1>4, HeaderKinds, Zenon DEF WriteLatchSet, NoCommand
  <2> QED BY <2>1, <2>3, <2>4
<1>7. UNCHANGED <<image, shadow, writeEnabled, enabled, halted, command>>
  <2>1. command[1] \notin Latches
    BY <1>4, Codes
  <2> QED BY <1>1, <1>6, <2>1, ClockIs DEF HeaderWaits
<1>8. InBook'
  BY <1>7 DEF InBook, HostInv
<1>9. InPlace(n + 1)'
  <2>1. flashRx' = r /\ flashTx' = <<>> /\ flashMode' = 0
    BY <1>6, EmptyQueue DEF HeaderWaits, InHeader
  <2>2. InHeader(n + 1)'
    BY <1>1, <1>7, <2>1 DEF InHeader, r, HeaderLen
  <2>3. command # <<>>
    BY <1>1
  <2> QED BY <1>7, <2>2, <2>3 DEF InPlace
<1>10. FlashAnswer = Expected(n + 1)
  <2>1. FlashAnswer = 255
    BY EmptyQueue, Codes DEF FlashAnswer, InHeader
  <2>2. n + 1 \in 1 .. HeaderLen(command)
    BY <1>1
  <2> QED BY <1>1, <2>1, <2>2, HeaderExpected
<1> QED BY <1>8, <1>9, <1>10 DEF AnsweredInStep

(* A number is in one place of one page.                                   *)
LEMMA Division ==
    ASSUME NEW q \in Nat \ {0}, NEW m \in Int, NEW r \in 0 .. q - 1, NEW a \in Int,
           a = q * m + r
    PROVE  a % q = r /\ a \div q = m
<1>1. PICK n \in Int, s \in 0 .. q - 1 : a = q * n + s /\ n = a \div q /\ s = a % q
  OBVIOUS
<1>2. q * m + r = q * n + s /\ q * n \in Int /\ q * m \in Int
  BY <1>1
<1>3. ~(n >= m + 1)
  <2>1. n >= m + 1 => q * n >= q * (m + 1)
    BY <1>1
  <2>2. q * (m + 1) = q * m + q
    OBVIOUS
  <2> QED BY <1>1, <1>2, <2>2
<1>4. ~(m >= n + 1)
  <2>1. m >= n + 1 => q * m >= q * (n + 1)
    BY <1>1
  <2>2. q * (n + 1) = q * n + q
    BY <1>1
  <2> QED BY <1>1, <1>2, <2>2
<1>5. m = n
  BY <1>1, <1>3, <1>4
<1>6. r = s
  <2>1. q * m + r = q * m + s
    BY <1>2, <1>5
  <2> QED BY <1>1, <1>2, <2>1
<1> QED BY <1>1, <1>5, <1>6

LEMMA SameRemainder ==
    ASSUME NEW q \in Nat \ {0}, NEW a \in Nat, NEW b \in Nat, a % q = b % q
    PROVE  (a + 1) % q = (b + 1) % q
<1> DEFINE r == a % q
<1>1. PICK m \in Int, n \in Int : a = q * m + r /\ b = q * n + r /\ r \in 0 .. q - 1
  <2>1. a = q * (a \div q) + (a % q) /\ a \div q \in Int /\ a % q \in 0 .. q - 1
    OBVIOUS
  <2>2. b = q * (b \div q) + (b % q) /\ b \div q \in Int
    OBVIOUS
  <2> QED BY <2>1, <2>2
<1> HIDE DEF r
<1>2. CASE r + 1 < q
  <2>1. a + 1 = q * m + (r + 1) /\ b + 1 = q * n + (r + 1) /\ r + 1 \in 0 .. q - 1
    BY <1>1, <1>2
  <2>2. a + 1 \in Int /\ b + 1 \in Int
    OBVIOUS
  <2> DEFINE R == r + 1
  <2>3. R \in 0 .. q - 1 /\ a + 1 = q * m + R /\ b + 1 = q * n + R
    BY <2>1
  <2> HIDE DEF R
  <2>4. (a + 1) % q = R
    BY <1>1, <2>2, <2>3, Division
  <2>5. (b + 1) % q = R
    BY <1>1, <2>2, <2>3, Division
  <2> QED BY <2>4, <2>5
<1>3. CASE ~(r + 1 < q)
  <2>1. r + 1 = q
    BY <1>1, <1>3
  <2>2. a + 1 = q * m + q /\ b + 1 = q * n + q
    BY ONLY <1>1, <2>1
  <2>3. a + 1 = q * (m + 1) + 0 /\ b + 1 = q * (n + 1) + 0 /\ 0 \in 0 .. q - 1
    <3>1. \A i, j \in Int : i * j + i = i * (j + 1) + 0
      BY ONLY SMT
    <3>2. q \in Int /\ m \in Int /\ n \in Int /\ 0 \in 0 .. q - 1
      BY ONLY <1>1
    <3>3. q * m + q = q * (m + 1) + 0 /\ q * n + q = q * (n + 1) + 0
      BY ONLY <3>1, <3>2, Zenon
    <3> QED BY ONLY <2>2, <3>2, <3>3, Zenon
  <2>4. a + 1 \in Int /\ b + 1 \in Int /\ m + 1 \in Int /\ n + 1 \in Int
    BY <1>1
  <2>5. (a + 1) % q = 0
    BY <2>3, <2>4, Division, SMTT(30)
  <2>6. (b + 1) % q = 0
    BY <2>3, <2>4, Division, SMTT(30)
  <2> QED BY <2>5, <2>6
<1> QED BY <1>2, <1>3

LEMMA StartTyped ==
    ASSUME HostAssumption, command \in Commands, command[1] \in Addressed
    PROVE  Start(command) \in Nat
<1>1. Len(command) \in Nat /\ Len(command) >= 4 /\ \A i \in 1 .. Len(command) : command[i] \in 0 .. 255
  BY CommandShape DEF Byte, HeaderLen
<1>2. 2 \in 1 .. Len(command) /\ 3 \in 1 .. Len(command) /\ 4 \in 1 .. Len(command)
  BY <1>1
<1>3. command[2] \in 0 .. 255 /\ command[3] \in 0 .. 255 /\ command[4] \in 0 .. 255
  BY <1>1, <1>2
<1>5. command[2] \in Nat /\ command[3] \in Nat /\ command[4] \in Nat
  <2>1. \A x \in 0 .. 255 : x \in Nat
    OBVIOUS
  <2> QED BY <1>3, <2>1, Zenon
<1> DEFINE x == command[2]
           y == command[3]
           z == command[4]
<1>6. Start(command) = 65536 * x + 256 * y + z
  BY DEF Start
<1>7. x \in Nat /\ y \in Nat /\ z \in Nat
  BY <1>5
<1> HIDE DEF x, y, z
<1> QED BY <1>6, <1>7, SMT

(* A program operation stores in its page and steps through it, from the   *)
(* address it was given on.                                                *)
LEMMA Targets ==
    ASSUME HostAssumption, command \in Commands, command[1] = WRITE,
           NEW k \in Nat, k >= 5
    PROVE  /\ Target(k) \in 0 .. Top - 1
           /\ NextInPage(Target(k)) = Target(k + 1)
<1> DEFINE s == Start(command)
           p == s \div PageSize
           r == (s + k - 5) % PageSize
<1>1. PageSize \in Nat \ {0} /\ Top \in Nat
  BY HostSizes
<1>2. /\ s \in Nat
      /\ PageOf(command) + PageSize <= Top /\ PageOf(command) = PageSize * p
  <2>1. Len(command) >= 4 /\ PageOf(command) + PageSize <= Top
    <3>1. WRITE \notin {READ, MFR_ID} \cup Erases
                \cup (Status \cup (Identity \ {MFR_ID}) \cup Latches)
      BY Codes
    <3>2. WRITE \in Known
      BY Codes DEF Known
    <3>3. 1 \in 1 .. Len(command)
      BY CommandShape DEF HeaderLen
    <3> QED BY CommandShape, <3>1, <3>2, <3>3, Zenon DEF IsCommand
  <2>2. s \in Nat
    <3>1. command[1] \in Addressed
      BY Kinds
    <3> QED BY <3>1, StartTyped
  <2> QED BY <2>1, <2>2 DEF PageOf
<1>4. Target(k) = PageSize * p + r /\ r \in 0 .. PageSize - 1 /\ p \in Nat /\ PageSize * p \in Nat
  <2>1. Target(k) = PageSize * p + r
    BY DEF Target, PageOf
  <2> HIDE DEF s
  <2>2. p \in Nat /\ r \in 0 .. PageSize - 1 /\ PageSize * p \in Nat
    BY <1>1, <1>2
  <2> QED BY <2>1, <2>2
<1>5. Target(k + 1) = PageSize * p + ((s + k - 5 + 1) % PageSize)
  <2>1. Target(k + 1) = PageSize * p + ((s + (k + 1) - 5) % PageSize)
    BY DEF Target, PageOf
  <2> HIDE DEF s
  <2>2. s + (k + 1) - 5 = s + k - 5 + 1
    BY <1>2
  <2> QED BY <2>1, <2>2
<1>6. s + k - 5 \in Nat
  BY <1>2
<1> DEFINE t == PageSize * p + r
           e == s + k - 5
<1>7. t \in Nat /\ t % PageSize = r /\ t \div PageSize = p
  <2> HIDE DEF s, p, r
  <2>1. t \in Int /\ p \in Int /\ t \in Nat
    BY <1>4
  <2> QED BY <1>1, <1>4, <2>1, Division
<1>8. (t + 1) % PageSize = (e + 1) % PageSize
  <2>1. t % PageSize = e % PageSize /\ e \in Nat
    BY <1>6, <1>7
  <2> HIDE DEF t, e
  <2> QED BY <1>1, <1>7, <2>1, SameRemainder
<1>9. NextInPage(t) = PageSize * (t \div PageSize) + ((t + 1) % PageSize)
  BY DEF NextInPage
<1>10. t \in 0 .. Top - 1
  <2> HIDE DEF s, p, r
  <2> QED BY <1>1, <1>2, <1>4
<1> HIDE DEF s, p, r, t, e
<1>11. Target(k) = t /\ Target(k + 1) = PageSize * p + ((e + 1) % PageSize)
  BY <1>4, <1>5 DEF t, e
<1>12. NextInPage(t) = PageSize * p + ((e + 1) % PageSize)
  BY <1>7, <1>8, <1>9
<1>13. NextInPage(Target(k)) = Target(k + 1)
  BY <1>11, <1>12
<1> QED BY <1>10, <1>11, <1>13

LEMMA FirstTarget ==
    ASSUME HostAssumption, command \in Commands, command[1] = WRITE
    PROVE  Target(5) = Start(command)
<1> DEFINE s == Start(command)
           p == s \div PageSize
<1>1. PageSize \in Nat \ {0} /\ s \in Nat
  BY HostSizes, StartTyped, Codes
<1>2. Target(5) = PageSize * p + ((s + 5 - 5) % PageSize)
  BY DEF Target, PageOf
<1> HIDE DEF s
<1>3. s + 5 - 5 = s /\ s = PageSize * p + (s % PageSize)
  BY <1>1
<1> QED BY <1>2, <1>3 DEF s

(* A read has an address and no data, and an identity no data either.      *)
LEMMA ReadShape ==
    ASSUME HostAssumption, command \in Commands, command[1] = READ
    PROVE  Len(command) = 4
<1>1. Len(command) \in Nat /\ Len(command) >= 1
  BY CommandShape DEF HeaderLen
<1>2. Len(command) = 4
  <2>1. READ \notin {WRITE} \cup Erases
              \cup (Status \cup (Identity \ {MFR_ID}) \cup Latches)
    BY Codes
  <2>2. READ \in Known /\ 1 \in 1 .. Len(command)
    BY <1>1, Codes DEF Known
  <2> QED BY CommandShape, <2>1, <2>2, Zenon DEF IsCommand
<1> QED BY <1>2

LEMMA IdentityShape ==
    ASSUME HostAssumption, command \in Commands, command[1] \in Identity
    PROVE  Len(command) = HeaderLen(command)
<1>1. 1 \in 1 .. Len(command)
  BY CommandShape DEF HeaderLen
<1>2. command[1] \notin {READ, WRITE} \cup Erases /\ command[1] \in Known
  BY Codes DEF Known
<1>3. command[1] = MFR_ID => Len(command) = 4
  <2>1. MFR_ID \notin Status \cup (Identity \ {MFR_ID}) \cup Latches
    BY Codes
  <2> QED BY CommandShape, <1>1, <1>2, <2>1, Zenon DEF IsCommand
<1>4. command[1] # MFR_ID => Len(command) = 1
  BY CommandShape, <1>1, <1>2, Zenon DEF IsCommand
<1>5. HeaderLen(command) = IF command[1] = MFR_ID THEN 4 ELSE 1
  BY Codes DEF HeaderLen
<1> QED BY <1>3, <1>4, <1>5

(* The last byte of the header: the command starts.                        *)
LEMMA ClockArrives ==
    ASSUME HostAssumption, HostInv, Clock, NEW n \in Nat, n = Len(got), InPlace(n),
           InHeader(n), n + 1 = HeaderLen(command)
    PROVE  AnsweredInStep(n)
<1> DEFINE r == SubSeq(command, 1, n + 1)
           c == command[1]
<1>1. command \in Commands /\ command \in Seq(Byte) /\ Len(command) \in Nat /\ n + 1 <= Len(command)
  BY ClockIs, CommandShape
<1>2. Sent(n + 1) = command[n + 1]
  BY <1>1 DEF Sent
<1>3. /\ Append(flashRx, Sent(n + 1)) = r /\ Len(r) = n + 1 /\ r \in Seq(Byte)
      /\ \A i \in 1 .. n + 1 : r[i] = command[i]
  BY <1>1, <1>2, HeaderQueue DEF InHeader
<1>4. r[1] = c
  BY <1>3
<1> HIDE DEF r
<1>5. \/ HeaderWaits(r) \/ AddressGiven(r) \/ StatusAsked(r) \/ IdentityAsked(r)
      \/ WriteLatchSet(r) \/ NoCommand(r)
  <2>1. CommandByte(Sent(n + 1))
    BY ClockIs, CommandIs DEF InHeader
  <2> QED BY <1>3, <2>1 DEF CommandByte
<1>6. FlashAnswer = Expected(n + 1)
  <2>1. FlashAnswer = 255
    BY EmptyQueue, Codes DEF FlashAnswer, InHeader
  <2>2. n + 1 \in 1 .. HeaderLen(command)
    BY <1>1
  <2> QED BY <1>1, <2>1, <2>2, HeaderExpected
<1>7. command' = command /\ shadow' = shadow
      /\ enabled' = IF c \in Latches THEN c = WREN ELSE enabled
  <2>1. n + 1 <= 4 /\ (c \in Latches => n = 0)
    BY Codes DEF HeaderLen
  <2> QED BY <2>1, ClockIs
<1>8. /\ HeaderLen(command)' = n + 1 /\ command' # <<>>
      /\ c' = c /\ c \in Byte
  BY <1>1, <1>7, CommandShape DEF HeaderLen
<1>9. flashTx = <<>> /\ flashMode = 0 /\ InBook /\ Pop(<<>>, 1) = <<>>
  BY EmptyQueue DEF InHeader, HostInv
<1>10. Pop(r, n + 1) = <<>>
  BY <1>3, PopAll
<1>11. CASE c \in Addressed
  <2>1. n + 1 = 4 /\ c \notin Latches \cup Status \cup Identity
    <3>1. HeaderLen(command) = 4
      BY <1>11, Zenon DEF HeaderLen
    <3>2. c \notin Latches \cup Status \cup Identity
      BY ONLY <1>11, HeaderKinds, Zenon
    <3> QED BY <3>1, <3>2
  <2>2. AddressGiven(r)
    <3>1. ~(Len(r) < 4)
      BY <1>3, <2>1
    <3> QED BY <1>4, <1>5, <1>11, <2>1, <3>1 DEF HeaderWaits, StatusAsked, IdentityAsked,
              WriteLatchSet, NoCommand, Latches
  <2>3. /\ flashMode' = c /\ position' = Start(command)
        /\ flashRx' = <<>> /\ flashTx' = <<>>
        /\ UNCHANGED <<writeEnabled, image, halted>>
    <3>1. Address(r) = Start(command)
      <4>1. r[2] = command[2] /\ r[3] = command[3] /\ r[4] = command[4]
        BY <1>3, <2>1
      <4> QED BY <4>1 DEF Address, Start
    <3> QED BY <1>4, <1>9, <1>10, <2>1, <2>2, <3>1 DEF AddressGiven
  <2>4. InBook'
    BY <1>7, <1>9, <2>1, <2>3 DEF InBook
  <2>5. c = READ => Reading(n + 1)'
    <3>1. Start(command) \in Nat
      BY <1>1, <1>11, StartTyped
    <3>2. \A x \in Nat : x = x + 4 - 4
      OBVIOUS
    <3> QED BY <1>7, <2>1, <2>3, <3>1, <3>2 DEF Reading, Start
  <2>6. c = WRITE => Writing(n + 1)'
    <3> SUFFICES ASSUME c = WRITE PROVE Writing(n + 1)'
      OBVIOUS
    <3>1. Target(5) = Start(command)
      BY <1>1, FirstTarget
    <3>2. (Target(n + 1 + 1))' = Target(5)
      <4>1. n + 1 + 1 = 5
        BY <2>1
      <4> QED BY <1>7, <4>1 DEF Target, PageOf, Start
    <3> QED BY <1>1, <1>7, <2>3, <3>1, <3>2 DEF Writing
  <2>7. c \in Erases => Erased(n + 1)'
    BY <1>7, <1>8, <2>1, <2>3 DEF Erased, ReadBehind
  <2>8. AfterHeader(n + 1)'
    BY <1>8, <1>11, <2>1, <2>5, <2>6, <2>7 DEF AfterHeader
  <2> QED BY <1>6, <1>8, <2>4, <2>8 DEF AnsweredInStep, InPlace
<1>12. CASE c \in Status
  <2>1. c \notin Addressed \cup Latches \cup Identity \cup Erases
         /\ c # READ /\ c # WRITE /\ c # MFR_ID
    BY <1>12, Kinds
  <2>2. n + 1 = 1
    BY <2>1 DEF HeaderLen
  <2>3. StatusAsked(r)
    BY <1>4, <1>5, <1>12, <2>1 DEF HeaderWaits, AddressGiven, IdentityAsked,
              WriteLatchSet, NoCommand, Latches
  <2>4. InBook'
    BY <1>7, <1>9, <2>1, <2>3 DEF InBook, StatusAsked
  <2>5. AfterHeader(n + 1)'
    BY <1>4, <1>8, <1>12, <2>1, <2>3 DEF AfterHeader, StatusAsked
  <2> QED BY <1>6, <1>8, <2>4, <2>5 DEF AnsweredInStep, InPlace
<1>13. CASE c \in Identity
  <2>1. c \notin Addressed \cup Latches \cup Status \cup Erases
         /\ c # READ /\ c # WRITE
    BY <1>13, Kinds
  <2>10. n + 1 = IF c = MFR_ID THEN 4 ELSE 1
    BY <2>1 DEF HeaderLen
  <2> DEFINE bytes == IdentityBytes(c)
  <2>2. IdentityAsked(r)
    <3>1. c = MFR_ID => ~(Len(r) < 4)
      BY <1>3, <2>10
    <3> QED BY <1>4, <1>5, <1>13, <2>1, <3>1, Codes
             DEF HeaderWaits, AddressGiven, StatusAsked, WriteLatchSet, NoCommand
  <2>3. bytes \in Seq(Byte) /\ Len(bytes) <= 12 /\ Len(bytes) \in Nat
    BY <1>13, Identities
  <2> HIDE DEF bytes
  <2>4. Fits(<<>>, Len(bytes)) /\ <<>> \o bytes = bytes
    BY <2>3, HostSizes DEF Fits
  <2>5. flashRx' = <<>> /\ flashTx' = bytes /\ UNCHANGED <<flashMode, writeEnabled, image, halted>>
    <3>1. flashRx' = Pop(r, n + 1)
      BY <1>4, <2>2, <2>10 DEF IdentityAsked
    <3>2. flashTx' = bytes /\ UNCHANGED <<flashMode, writeEnabled, image, halted>>
      BY <1>4, <1>9, <2>2, <2>4 DEF IdentityAsked, bytes
    <3> QED BY <1>10, <3>1, <3>2
  <2>6. InBook'
    BY <1>7, <1>9, <2>1, <2>5 DEF InBook
  <2>7. Len(command) = n + 1
    BY <1>1, <1>13, IdentityShape
  <2>8. Identified(n + 1)'
    <3>1. n + 1 - Len(command) = 0
      BY <1>1, <2>7
    <3>2. Pop(bytes, 0) = bytes
      BY <2>3, PopAll
    <3>3. flashTx' = Pop(IdentityBytes(command'[1]), n + 1 - Len(command'))
      BY <1>7, <2>5, <3>1, <3>2 DEF bytes
    <3> QED BY <1>9, <2>5, <3>3 DEF Identified
  <2>9. AfterHeader(n + 1)'
    BY <1>8, <1>13, <2>1, <2>8 DEF AfterHeader
  <2> QED BY <1>6, <1>8, <2>6, <2>9 DEF AnsweredInStep, InPlace
<1>14. CASE c \notin Addressed \cup Status \cup Identity
  <2>1. n + 1 = 1 /\ c # READ /\ c # WRITE /\ c # MFR_ID /\ c \notin Erases
    BY <1>14, Codes DEF HeaderLen
  <2>2. WriteLatchSet(r) \/ NoCommand(r)
    BY <1>4, <1>5, <1>14, <2>1 DEF HeaderWaits, AddressGiven, StatusAsked, IdentityAsked
  <2>3. /\ flashRx' = <<>> /\ flashTx' = <<>> /\ UNCHANGED <<flashMode, image, halted>>
        /\ writeEnabled' = IF c \in Latches THEN c = WREN ELSE writeEnabled
    <3>1. CASE WriteLatchSet(r)
      BY <1>4, <1>9, <1>10, <2>1, <3>1 DEF WriteLatchSet, Latches
    <3>2. CASE NoCommand(r)
      BY <1>4, <1>9, <2>1, <3>2 DEF NoCommand, Latches
    <3> QED BY <2>2, <3>1, <3>2
  <2>4. InBook'
    BY <1>7, <1>9, <2>3 DEF InBook
  <2>5. AfterHeader(n + 1)'
    BY <1>8, <1>9, <1>14, <2>1, <2>3 DEF AfterHeader, FlashIdle
  <2> QED BY <1>6, <1>8, <2>4, <2>5 DEF AnsweredInStep, InPlace
<1> QED BY <1>11, <1>12, <1>13, <1>14

(* The books of a clock behind the header that programs nothing.           *)
LEMMA Unprogrammed ==
    ASSUME HostAssumption, HostInv, Clock, NEW n \in Nat, n = Len(got), InPlace(n),
           AfterHeader(n), command[1] # WRITE, UNCHANGED <<image, writeEnabled, halted>>
    PROVE  InBook' /\ command' = command /\ shadow' = shadow /\ enabled' = enabled
<1>1. n # 0
  BY DEF AfterHeader, HeaderLen
<1>2. command' = command /\ shadow' = shadow /\ enabled' = enabled
  BY <1>1, ClockIs
<1> QED BY <1>2 DEF InBook, HostInv

(* What a read is answered with.                                           *)
LEMMA ReadAnswer ==
    ASSUME HostAssumption, InBook, flashMode = READ, position \in Nat
    PROVE  FlashAnswer = IF position < Top THEN shadow[position] ELSE 255
<1>1. HasFlash /\ Top \in Nat
  BY HostSizes
<1>2. DOMAIN image = 0 .. Top - 1 /\ image = shadow
  BY DEF InBook
<1>3. position \in DOMAIN image <=> position < Top
  BY <1>1, <1>2
<1>4. position >= Top => ~\E a \in DOMAIN image : a > position
  BY <1>1, <1>2
<1> QED BY <1>1, <1>2, <1>3, <1>4 DEF FlashAnswer, FillByte

(* In the mode of a read the chip delivers the next byte.                  *)
LEMMA ReadsInMode ==
    ASSUME NEW b, FlashExchange(b), flashMode = READ
    PROVE  ReadByte
<1>1. READ # WRITE /\ READ \notin Status
  BY Kinds, Zenon
<1>2. ~ProgramByte(b) /\ ~StatusByte /\ ~CommandByte(b)
  BY <1>1 DEF ProgramByte, StatusByte, CommandByte
<1> QED BY <1>2, Zenon DEF FlashExchange

(* Behind the header, one lemma for each kind of command.                  *)
LEMMA ClockReads ==
    ASSUME HostAssumption, HostInv, Clock, NEW n \in Nat, n = Len(got), InPlace(n),
           AfterHeader(n), command[1] = READ
    PROVE  AnsweredInStep(n)
<1>1. /\ command \in Commands /\ command[1] \in Addressed /\ command[1] # WRITE
      /\ command[1] \notin Erases /\ command[1] \notin Status /\ command[1] \notin Identity
  BY ClockIs, Kinds
<1>2. Reading(n) /\ HeaderLen(command) <= n /\ n >= 4
  BY <1>1 DEF AfterHeader, HeaderLen
<1>3. ReadByte
  BY <1>2, ClockIs, ReadsInMode DEF Reading
<1>4. InBook' /\ command' = command
  BY <1>1, <1>3, Unprogrammed DEF ReadByte
<1>5. Start(command) \in Nat /\ command # <<>>
  BY <1>1, StartTyped, CommandShape DEF HeaderLen
<1> DEFINE s == Start(command)
<1>6. AfterHeader(n + 1)'
  <2>1. Reading(n + 1)'
    <3>1. position = s + n - 4 /\ s \in Nat
      BY <1>2, <1>5 DEF Reading
    <3>2. s' = s
      BY <1>4 DEF Start
    <3> HIDE DEF s
    <3>3. position' = s + (n + 1) - 4
      BY <1>3, <3>1 DEF ReadByte
    <3>4. position' = s' + (n + 1) - 4
      BY <3>2, <3>3
    <3> QED BY <1>2, <1>3, <3>4 DEF Reading, ReadByte, s
  <2>2. HeaderLen(command') <= n + 1
    BY <1>2, <1>4 DEF HeaderLen
  <2> QED BY <1>1, <1>4, <2>1, <2>2 DEF AfterHeader
<1>7. FlashAnswer = Expected(n + 1)
  <2>1. position = s + n - 4 /\ s \in Nat
    BY <1>2, <1>5 DEF Reading
  <2>2. Expected(n + 1) = IF n + 1 > 4 THEN IF s + (n + 1) - 5 < Top
                      THEN shadow[s + (n + 1) - 5] ELSE 255 ELSE 255
    BY ExpectedIs
  <2> HIDE DEF s
  <2>3. position \in Nat /\ position = s + (n + 1) - 5 /\ n + 1 > 4
    BY <1>2, <2>1
  <2>4. Expected(n + 1) = IF position < Top THEN shadow[position] ELSE 255
    BY <2>2, <2>3
  <2> QED BY <1>2, <2>3, <2>4, ReadAnswer DEF Reading, HostInv
<1> QED BY <1>4, <1>5, <1>6, <1>7 DEF AnsweredInStep, InPlace

LEMMA ClockWrites ==
    ASSUME HostAssumption, HostInv, Clock, NEW n \in Nat, n = Len(got), InPlace(n),
           AfterHeader(n), command[1] = WRITE
    PROVE  AnsweredInStep(n)
<1>1. /\ command \in Commands /\ command[1] \in Addressed /\ command[1] # READ
      /\ command[1] \notin Erases /\ command[1] \notin Status /\ command[1] \notin Identity
      /\ command # <<>> /\ Len(command) \in Nat
  BY ClockIs, Kinds, CommandShape DEF HeaderLen
<1>2. Writing(n) /\ HeaderLen(command) <= n /\ n >= 4
  BY <1>1 DEF AfterHeader, HeaderLen
<1>3. ProgramByte(Sent(n + 1))
  BY <1>2, ClockIs, Codes DEF Writing, FlashExchange, ReadByte, StatusByte, CommandByte
<1>4. n + 1 <= Len(command) /\ command' = command
      /\ shadow' = [shadow EXCEPT ![Target(n + 1)] = Sent(n + 1)] /\ enabled' = enabled
  <2>1. n + 1 > 4 /\ n # 0
    BY <1>2
  <2> QED BY <2>1, ClockIs
<1> DEFINE t == Target(n + 1)
           b == Sent(n + 1)
<1>5. t \in 0 .. Top - 1 /\ NextInPage(t) = Target(n + 2) /\ position = t /\ b \in Byte
  <2>1. n + 1 \in Nat /\ n + 1 >= 5 /\ n + 1 + 1 = n + 2
    BY <1>2
  <2>2. Target(n + 1) \in 0 .. Top - 1 /\ NextInPage(Target(n + 1)) = Target(n + 1 + 1)
    BY <1>1, <2>1, Targets
  <2> QED BY <1>2, <2>1, <2>2, ClockIs DEF Writing
<1>6. /\ image' = [a \in DOMAIN image \cup {t} |-> IF a = t THEN b ELSE image[a]]
      /\ position' = Target(n + 2) /\ UNCHANGED <<halted, flashMode, writeEnabled>>
  BY <1>3, <1>5, HostSizes DEF ProgramByte
<1> HIDE DEF t, b
<1>7. InBook'
  <2>1. image = shadow /\ shadow \in [0 .. Top - 1 -> Byte] /\ DOMAIN image = 0 .. Top - 1
    BY DEF HostInv, InBook
  <2>2. shadow' = [shadow EXCEPT ![t] = b]
    BY <1>4 DEF t, b
  <2>3. image' = shadow'
    BY <1>5, <1>6, <2>1, <2>2
  <2>4. shadow' \in [0 .. Top - 1 -> Byte]
    BY <1>5, <2>1, <2>2
  <2> QED BY <1>4, <1>6, <2>3, <2>4 DEF InBook, HostInv
<1>8. AfterHeader(n + 1)'
  <2>1. (Target(n + 1 + 1))' = Target(n + 2)
    <3>1. n + 1 + 1 = n + 2
      OBVIOUS
    <3> QED BY <1>4, <3>1 DEF Target, PageOf, Start
  <2>2. Writing(n + 1)'
    BY <1>2, <1>4, <1>6, <2>1 DEF Writing
  <2>3. HeaderLen(command') <= n + 1
    BY <1>2, <1>4 DEF HeaderLen
  <2> QED BY <1>1, <1>4, <2>2, <2>3 DEF AfterHeader
<1>9. FlashAnswer = Expected(n + 1)
  <2>1. Expected(n + 1) = 255
    BY <1>1, ExpectedIs
  <2>2. flashMode = 2
    BY <1>2, Codes DEF Writing
  <2> QED BY <2>1, <2>2, Codes DEF FlashAnswer, FillByte
<1> QED BY <1>1, <1>4, <1>7, <1>8, <1>9 DEF AnsweredInStep, InPlace

LEMMA ClockStatus ==
    ASSUME HostAssumption, HostInv, Clock, NEW n \in Nat, n = Len(got), InPlace(n),
           AfterHeader(n), command[1] \in Status
    PROVE  AnsweredInStep(n)
<1>1. /\ command \in Commands /\ command[1] \notin Addressed /\ command[1] # READ
      /\ command[1] \notin Erases /\ command[1] # WRITE /\ command[1] \notin Identity
      /\ command # <<>> /\ command[1] \notin Latches
  BY ClockIs, Kinds, CommandShape DEF HeaderLen
<1>2. flashMode = command[1] /\ HeaderLen(command) <= n /\ n >= 1
  BY <1>1 DEF AfterHeader, HeaderLen
<1>3. StatusByte
  BY <1>1, <1>2, ClockIs DEF FlashExchange, ReadByte, ProgramByte, CommandByte
<1>4. flashMode' = flashMode /\ UNCHANGED <<image, writeEnabled, halted>>
  BY <1>3 DEF StatusByte, flashVars
<1>5. InBook' /\ command' = command
  BY <1>1, <1>4, Unprogrammed
<1>6. AfterHeader(n + 1)'
  <2>1. HeaderLen(command') <= n + 1
    BY <1>2, <1>5 DEF HeaderLen
  <2> QED BY <1>1, <1>2, <1>4, <1>5, <2>1 DEF AfterHeader
<1>7. FlashAnswer = Expected(n + 1)
  <2>1. n + 1 > 1 /\ writeEnabled = enabled
    BY <1>2 DEF HostInv, InBook
  <2>2. CASE command[1] = RDSR1
    <3>1. Expected(n + 1) = IF enabled THEN 2 ELSE 0
      BY <2>1, <2>2, ExpectedIs
    <3>2. FlashAnswer = IF enabled THEN 2 ELSE 0
      BY <1>1, <1>2, <2>1, <2>2 DEF FlashAnswer
    <3> QED BY <3>1, <3>2
  <2>3. CASE command[1] \in {RDSR2, RDSR3}
    <3>1. Expected(n + 1) = 0
      BY <2>1, <2>3, ExpectedIs
    <3>2. FlashAnswer = 0
      BY <1>1, <1>2, <2>3, Codes DEF FlashAnswer
    <3> QED BY <3>1, <3>2
  <2>4. command[1] = RDSR1 \/ command[1] \in {RDSR2, RDSR3}
    BY DEF Status
  <2> QED BY <2>2, <2>3, <2>4
<1> QED BY <1>1, <1>5, <1>6, <1>7 DEF AnsweredInStep, InPlace

LEMMA ClockIdentified ==
    ASSUME HostAssumption, HostInv, Clock, NEW n \in Nat, n = Len(got), InPlace(n),
           AfterHeader(n), command[1] \in Identity
    PROVE  AnsweredInStep(n)
<1> DEFINE c == command[1]
           bytes == IdentityBytes(c)
           i == n - Len(command)
<1>1. /\ command \in Commands /\ c \notin Addressed /\ c # READ
      /\ c \notin Erases /\ c # WRITE /\ c \notin Status
      /\ command # <<>> /\ c \notin Latches /\ Len(command) \in Nat
  <2>1. command \in Commands
    BY ClockIs
  <2>2. Len(command) \in Nat /\ command # <<>>
    BY <2>1, CommandShape DEF HeaderLen
  <2> QED BY <2>1, <2>2, Kinds
<1>2. Identified(n) /\ Len(command) <= n /\ HeaderLen(command) <= n
  BY <1>1, IdentityShape DEF AfterHeader
<1>3. i \in Nat /\ n + 1 - Len(command) = i + 1
  BY <1>1, <1>2
<1>4. bytes \in Seq(Byte) /\ Len(bytes) \in Nat
  BY Identities
<1>5. flashTx = Pop(bytes, i) /\ flashRx = <<>> /\ flashMode = 0
  BY <1>2 DEF Identified
<1>6. NoCommand(<<255>>)
  <2>1. Sent(n + 1) = 255
    <3>1. ~(n + 1 <= Len(command))
      BY <1>1, <1>2
    <3> QED BY <3>1 DEF Sent
  <2>2. Append(flashRx, 255) = <<255>> /\ <<255>>[1] = 255
    BY <1>5
  <2>3. CommandByte(255)
    BY <1>5, <2>1, ClockIs, CommandIs
  <2>4. \/ HeaderWaits(<<255>>) \/ AddressGiven(<<255>>) \/ StatusAsked(<<255>>)
        \/ IdentityAsked(<<255>>) \/ WriteLatchSet(<<255>>) \/ NoCommand(<<255>>)
    BY <2>2, <2>3, Zenon DEF CommandByte
  <2> QED BY <2>4, FillIsNoCommand, Zenon
<1> HIDE DEF c, bytes, i
<1>7. /\ flashTx' = Pop(bytes, i + 1) /\ flashRx' = <<>>
      /\ UNCHANGED <<flashMode, image, writeEnabled, halted>>
  BY <1>3, <1>4, <1>5, <1>6, PopAgain DEF NoCommand
<1>8. InBook' /\ command' = command
  BY <1>1, <1>7, Unprogrammed DEF c
<1>9. AfterHeader(n + 1)'
  <2>1. HeaderLen(command') <= n + 1
    BY <1>2, <1>8 DEF HeaderLen
  <2>2. Identified(n + 1)'
    BY <1>3, <1>5, <1>7, <1>8 DEF Identified, bytes, c
  <2> QED BY <1>1, <1>8, <2>1, <2>2 DEF AfterHeader, c
<1>10. FlashAnswer = Expected(n + 1)
  <2>1. Expected(n + 1) = Behind(n + 1, bytes)
    BY ExpectedIs DEF bytes, c
  <2>2. Behind(n + 1, bytes) = IF i + 1 \in 1 .. Len(bytes) THEN bytes[i + 1] ELSE 255
    BY <1>3 DEF Behind, FillByte
  <2>3. First(flashTx) = IF i < Len(bytes) THEN bytes[i + 1] ELSE 255
    BY <1>3, <1>4, <1>5, PopAgain
  <2>4. FlashAnswer = First(flashTx)
    BY <1>5, Codes DEF FlashAnswer
  <2>5. i + 1 \in 1 .. Len(bytes) <=> i < Len(bytes)
    BY <1>3, <1>4
  <2> QED BY <2>1, <2>2, <2>3, <2>4, <2>5
<1> QED BY <1>1, <1>8, <1>9, <1>10 DEF AnsweredInStep, InPlace

(* The bytes after a write enable, a write disable or a byte that is no    *)
(* command.                                                                *)
LEMMA ClockIdle ==
    ASSUME HostAssumption, HostInv, Clock, NEW n \in Nat, n = Len(got), InPlace(n),
           AfterHeader(n), command[1] \notin Addressed \cup Status \cup Identity
    PROVE  AnsweredInStep(n)
<1>1. /\ command \in Commands /\ command # <<>> /\ Len(command) \in Nat /\ command[1] # WRITE
      /\ command[1] # READ /\ command[1] \notin Erases /\ Len(command) >= 1
  <2>1. command \in Commands
    BY ClockIs
  <2>2. Len(command) \in Nat /\ command # <<>> /\ Len(command) >= 1
    BY <2>1, CommandShape DEF HeaderLen
  <2>3. command[1] # WRITE /\ command[1] # READ /\ command[1] \notin Erases
    BY Kinds
  <2> QED BY <2>1, <2>2, <2>3
<1>2. FlashIdle /\ HeaderLen(command) <= n /\ n >= 1
  BY <1>1 DEF AfterHeader, HeaderLen
<1> DEFINE b == Sent(n + 1)
<1>3. b \notin Known
  <2>1. CASE n + 1 <= Len(command)
    <3>1. n + 1 \in 1 .. Len(command) /\ Len(command) # 1
      <4>1. \A m \in Nat : n + 1 <= m => n + 1 \in 1 .. m /\ m # 1
        BY <1>2
      <4> QED BY <1>1, <2>1, <4>1
    <3>2. b = command[n + 1]
      BY <2>1 DEF Sent
    <3>3. \A k \in 1 .. Len(command) : command[k] \notin Known
      <4>1. IsCommand(command) /\ command[1] # MFR_ID
        BY <1>1, CommandShape DEF Identity
      <4> QED BY <1>1, <3>1, <4>1, Zenon DEF IsCommand
    <3> QED BY <3>1, <3>2, <3>3
  <2>2. CASE ~(n + 1 <= Len(command))
    BY <2>2, FillIsNoCommand DEF Sent, Known, Latches
  <2> QED BY <2>1, <2>2
<1>4. NoCommand(<<b>>)
  <2>1. Append(flashRx, b) = <<b>> /\ <<b>>[1] = b
    BY <1>2 DEF FlashIdle
  <2>2. CommandByte(b)
    BY <1>2, ClockIs, CommandIs DEF FlashIdle
  <2> HIDE DEF b
  <2> QED BY <1>3, <2>1, <2>2 DEF CommandByte, HeaderWaits, AddressGiven, StatusAsked,
             IdentityAsked, WriteLatchSet, Known, Latches, Identity
<1>5. FlashIdle' /\ UNCHANGED <<image, writeEnabled, halted>>
  BY <1>2, <1>4, EmptyQueue DEF NoCommand, FlashIdle
<1>6. InBook' /\ command' = command
  BY <1>1, <1>5, Unprogrammed
<1>7. AfterHeader(n + 1)'
  <2>1. HeaderLen(command') <= n + 1
    BY <1>2, <1>6 DEF HeaderLen
  <2> QED BY <1>1, <1>5, <1>6, <2>1 DEF AfterHeader
<1>8. FlashAnswer = Expected(n + 1)
  <2>1. Expected(n + 1) = 255
    BY <1>1, ExpectedIs
  <2>2. FlashAnswer = 255
    BY <1>2, EmptyQueue, Codes DEF FlashAnswer, FlashIdle
  <2> QED BY <2>1, <2>2
<1> QED BY <1>1, <1>6, <1>7, <1>8 DEF AnsweredInStep, InPlace

LEMMA EraseShape ==
    ASSUME HostAssumption, command \in Commands, command[1] \in Erases
    PROVE  Len(command) = 4 \/ (Len(command) = 5 /\ command[5] = READ)
<1>1. 1 \in 1 .. Len(command)
  BY CommandShape DEF HeaderLen
<1>2. command[1] \notin Status \cup (Identity \ {MFR_ID}) \cup Latches
  BY Kinds
<1>3. command[1] \notin {READ, MFR_ID} /\ command[1] # WRITE /\ command[1] \in Known
  BY Kinds DEF Known
<1> QED BY CommandShape, <1>1, <1>2, <1>3, Zenon DEF IsCommand

(* The header of the READ behind an erase command.                         *)
LEMMA ReadWaits ==
    ASSUME NEW b, CommandByte(b), NEW r, r[1] = 3, Len(r) \in Nat, Append(flashRx, b) = r
    PROVE  /\ Len(r) < 4 => HeaderWaits(r)
           /\ Len(r) >= 4 => AddressGiven(r)
<1>1. r[1] = READ /\ r[1] \in Addressed /\ r[1] \notin Latches /\ r[1] \notin Status
      /\ r[1] \notin Identity /\ r[1] # WREN /\ r[1] # WRDI
  BY Codes
<1>2. \/ HeaderWaits(r) \/ AddressGiven(r) \/ StatusAsked(r) \/ IdentityAsked(r)
      \/ WriteLatchSet(r) \/ NoCommand(r)
  BY DEF CommandByte
<1>3. ~StatusAsked(r) /\ ~IdentityAsked(r) /\ ~WriteLatchSet(r) /\ ~NoCommand(r)
  BY <1>1 DEF StatusAsked, IdentityAsked, WriteLatchSet, NoCommand
<1>4. Len(r) < 4 => ~AddressGiven(r)
  BY DEF AddressGiven
<1>5. Len(r) >= 4 => ~HeaderWaits(r)
  BY DEF HeaderWaits
<1> QED BY <1>2, <1>3, <1>4, <1>5

LEMMA ClockErased ==
    ASSUME HostAssumption, HostInv, Clock, NEW n \in Nat, n = Len(got), InPlace(n),
           AfterHeader(n), command[1] \in Erases
    PROVE  AnsweredInStep(n)
<1> DEFINE c == command[1]
           b == Sent(n + 1)
<1>0. n \in Nat
  OBVIOUS
<1>1. /\ command \in Commands /\ c \in Addressed /\ c # READ
      /\ c \notin Identity /\ c # WRITE /\ c \notin Status
      /\ command # <<>> /\ Len(command) \in Nat
  <2>1. command \in Commands
    BY ClockIs
  <2>2. Len(command) \in Nat /\ command # <<>>
    BY <2>1, CommandShape DEF HeaderLen
  <2> QED BY <2>1, <2>2, Kinds
<1>2. Erased(n) /\ HeaderLen(command) <= n /\ n >= 4
  BY <1>1 DEF AfterHeader, HeaderLen
<1>3. Expected(n + 1) = 255
  BY <1>1, ExpectedIs
<1>4. Len(command) = 4 \/ (Len(command) = 5 /\ command[5] = 3)
  BY <1>1, EraseShape, Codes
<1>5. ASSUME Erased(n + 1)', UNCHANGED <<image, writeEnabled, halted>>, FlashAnswer = 255
      PROVE  AnsweredInStep(n)
  <2>1. InBook' /\ command' = command
    BY <1>1, <1>5, Unprogrammed
  <2>2. HeaderLen(command') <= n + 1
    <3>1. HeaderLen(command') = HeaderLen(command) /\ HeaderLen(command) \in Nat
      BY ONLY <2>1, SMT DEF HeaderLen
    <3> QED BY ONLY <1>0, <1>2, <3>1
  <2>3. AfterHeader(n + 1)'
    BY <1>1, <1>5, <2>1, <2>2 DEF AfterHeader
  <2> QED BY <1>1, <1>3, <1>5, <2>1, <2>3 DEF AnsweredInStep, InPlace
<1>6. CASE flashMode = READ /\ position \in Nat /\ position >= Top
  <2>1. ReadByte
    BY <1>6, ClockIs, ReadsInMode
  <2>2. Erased(n + 1)' /\ UNCHANGED <<image, writeEnabled, halted>>
    <3>1. position' \in Nat /\ position' >= Top
      BY <1>6, <2>1, HostSizes DEF ReadByte
    <3> QED BY <1>6, <2>1, <3>1 DEF Erased, ReadByte
  <2>3. FlashAnswer = 255
    <3>1. ~(position < Top)
      BY <1>6, HostSizes
    <3> QED BY <1>6, <3>1, ReadAnswer DEF HostInv
  <2> QED BY <1>5, <2>2, <2>3
<1>7. CASE flashMode = c /\ flashTx = <<>> /\ ReadBehind(n)
  <2>1. FlashAnswer = 255
    BY <1>1, <1>7, EmptyQueue, Codes DEF FlashAnswer
  <2>2. CommandByte(b)
    <3>1. flashMode \notin {2, 3, 5, 21, 53}
      BY <1>7, Codes
    <3> QED BY <3>1, ClockIs, CommandIs
  <2>3. command' = command
    BY ClockIs
  <2>4. b = IF n = 4 /\ Len(command) = 5 THEN 3 ELSE 255
    <3>1. n + 1 <= Len(command) <=> n = 4 /\ Len(command) = 5
      <4>1. \A m \in Nat : m = 4 \/ m = 5 => (n + 1 <= m <=> n = 4 /\ m = 5)
        BY ONLY <1>0, <1>2
      <4> QED BY <1>1, <1>4, <4>1, Zenon
    <3>2. n = 4 /\ Len(command) = 5 => command[n + 1] = 3
      BY <1>4
    <3> QED BY <3>1, <3>2 DEF Sent
  <2> HIDE DEF b
  <2>6. CASE flashRx = <<>> /\ Len(command) = 4
    <3>1. Append(flashRx, 255) = <<255>> /\ b = 255
      BY <2>4, <2>6
    <3>2. \/ HeaderWaits(<<255>>) \/ AddressGiven(<<255>>) \/ StatusAsked(<<255>>)
          \/ IdentityAsked(<<255>>) \/ WriteLatchSet(<<255>>) \/ NoCommand(<<255>>)
      BY <2>2, <3>1, Zenon DEF CommandByte
    <3>3. NoCommand(<<255>>)
      BY <3>2, FillIsNoCommand, Zenon
    <3>4. Erased(n + 1)'
      BY <1>7, <2>3, <2>6, <3>3, EmptyQueue DEF Erased, ReadBehind, NoCommand
    <3> QED BY <1>5, <2>1, <3>3, <3>4 DEF NoCommand
  <2>7. CASE ~(flashRx = <<>> /\ Len(command) = 4)
    <3> DEFINE r == Append(flashRx, b)
    <3>1. /\ n \in 4 .. 7 /\ flashRx \in Seq(Nat) /\ Len(flashRx) = n - 4
          /\ n > 4 => flashRx[1] = 3
          /\ \A i \in 2 .. n - 4 : flashRx[i] = 255
          /\ n = 4 => Len(command) = 5
      <4>1. CASE n = 4
        <5>1. flashRx = <<>> /\ Len(flashRx) = 0 /\ Len(command) = 5
          BY <1>4, <1>7, <2>7, <4>1 DEF ReadBehind
        <5> QED BY <4>1, <5>1
      <4>2. CASE n # 4
        <5>1. /\ n \in 5 .. 7 /\ flashRx \in Seq(Nat) /\ Len(flashRx) = n - 4
              /\ flashRx[1] = 3 /\ \A i \in 2 .. n - 4 : flashRx[i] = 255
          BY ONLY <1>7, <2>7, <4>2, Zenon DEF ReadBehind
        <5>2. n \in 4 .. 7
          BY ONLY <5>1
        <5> QED BY ONLY <4>2, <5>1, <5>2, Zenon
      <4> QED BY <4>1, <4>2
    <3>2. b = (IF n = 4 THEN 3 ELSE 255) /\ b \in Nat
      BY <2>4, <3>1
    <3>3. /\ r \in Seq(Nat) /\ Len(r) = (n - 4) + 1
          /\ \A i \in 1 .. n - 4 : r[i] = flashRx[i]
          /\ r[n - 3] = b
      <4>1. /\ r \in Seq(Nat) /\ Len(r) = Len(flashRx) + 1
            /\ \A i \in 1 .. Len(flashRx) : r[i] = flashRx[i]
            /\ r[Len(flashRx) + 1] = b
        <5>1. flashRx \in Seq(Nat) /\ b \in Nat
          BY ONLY <3>1, <3>2
        <5>2. DOMAIN flashRx = 1 .. Len(flashRx)
          BY ONLY <5>1
        <5>3. /\ Append(flashRx, b) \in Seq(Nat)
              /\ Len(Append(flashRx, b)) = Len(flashRx) + 1
              /\ \A i \in 1 .. Len(flashRx) : Append(flashRx, b)[i] = flashRx[i]
              /\ Append(flashRx, b)[Len(flashRx) + 1] = b
          BY ONLY <5>1, AppendProperties
        <5> QED BY ONLY <5>3, Zenon DEF r
      <4>2. Len(flashRx) + 1 = n - 3
        BY <3>1
      <4> HIDE DEF r
      <4> QED BY <3>1, <4>1, <4>2
    <3> HIDE DEF r
    <3>4. r[1] = 3
      <4>1. CASE n = 4
        <5>1. n - 3 = 1
          BY ONLY <4>1
        <5>2. b = 3
          BY ONLY <3>2, <4>1
        <5> QED BY ONLY <3>3, <5>1, <5>2, Zenon
      <4>2. CASE n > 4
        <5>1. 1 \in 1 .. n - 4
          BY ONLY <1>0, <4>2
        <5>2. r[1] = flashRx[1] /\ flashRx[1] = 3
          BY ONLY <3>1, <3>3, <4>2, <5>1, Zenon
        <5> QED BY ONLY <5>2
      <4> QED BY <3>1, <4>1, <4>2
    <3>5. \A i \in 2 .. n - 3 : r[i] = 255
      <4> SUFFICES ASSUME NEW i \in 2 .. n - 3 PROVE r[i] = 255
        OBVIOUS
      <4>0. i \in 2 .. n - 3
        OBVIOUS
      <4>1. CASE i <= n - 4
        <5>1. i \in 1 .. n - 4 /\ i \in 2 .. n - 4
          BY ONLY <1>0, <4>0, <4>1
        <5>2. flashRx[i] = 255
          BY ONLY <3>1, <5>1, Zenon
        <5>3. r[i] = flashRx[i]
          BY ONLY <3>3, <5>1, Zenon
        <5> QED BY ONLY <5>2, <5>3
      <4>2. CASE i = n - 3
        <5>1. n # 4
          BY ONLY <1>0, <4>0, <4>2
        <5>2. b = 255
          BY ONLY <3>2, <5>1
        <5> QED BY ONLY <3>3, <4>2, <5>2, Zenon
      <4> QED BY ONLY <1>0, <4>0, <4>1, <4>2
    <3>6. Len(r) = n - 3 /\ Len(r) \in Nat
      BY <3>1, <3>3
    <3>7. (Len(r) < 4 => HeaderWaits(r)) /\ (Len(r) >= 4 => AddressGiven(r))
      BY <2>2, <3>4, <3>6, ReadWaits DEF r
    <3>8. CASE n < 7
      <4>1. HeaderWaits(r)
        BY <3>1, <3>6, <3>7, <3>8
      <4>2. n + 1 \in 5 .. 7 /\ n - 3 = n + 1 - 4
        BY <3>1, <3>8
      <4>3. ReadBehind(n + 1)'
        BY <3>3, <3>4, <3>5, <3>6, <4>1, <4>2 DEF ReadBehind, HeaderWaits
      <4>4. Erased(n + 1)'
        BY <1>7, <2>3, <4>1, <4>3, EmptyQueue DEF Erased, HeaderWaits
      <4> QED BY <1>5, <2>1, <4>1, <4>4 DEF HeaderWaits
    <3>9. CASE n = 7
      <4>1. AddressGiven(r)
        BY <3>6, <3>7, <3>9
      <4>2. /\ flashMode' = READ /\ position' = Address(r)
            /\ UNCHANGED <<image, writeEnabled, halted>>
        BY <3>4, <4>1, Codes DEF AddressGiven
      <4>3. r[2] = 255 /\ r[3] = 255 /\ r[4] = 255
        BY <3>5, <3>9
      <4>4. Address(r) = Start(<<READ, 255, 255, 255>>)
        BY <4>3 DEF Address, Start
      <4>5. Address(r) \in Nat
        BY <4>3, SMT DEF Address
      <4>6. Erased(n + 1)'
        BY <4>2, <4>4, <4>5, HostSizes DEF Erased
      <4> QED BY <1>5, <2>1, <4>2, <4>6
    <3>10. n < 7 \/ n = 7
      BY ONLY <3>1
    <3> QED BY ONLY <3>8, <3>9, <3>10, Zenon
  <2> QED BY ONLY <2>6, <2>7, Zenon
<1> QED BY <1>2, <1>6, <1>7 DEF Erased

(* So every clock does what it must.                                       *)
LEMMA ClockAnswers ==
    ASSUME HostAssumption, HostInv, Clock, NEW n \in Nat, n = Len(got), InPlace(n)
    PROVE  AnsweredInStep(n)
<1>1. CASE InHeader(n)
  <2>1. HeaderLen(command) \in {1, 4} /\ n < HeaderLen(command)
    BY <1>1 DEF InHeader, HeaderLen
  <2>2. n + 1 < HeaderLen(command) \/ n + 1 = HeaderLen(command)
    BY <2>1
  <2> QED BY <1>1, <2>2, ClockWaits, ClockArrives
<1>2. CASE AfterHeader(n)
  <2>1. \/ command[1] = READ \/ command[1] = WRITE \/ command[1] \in Erases
        \/ command[1] \in Status \/ command[1] \in Identity
        \/ command[1] \notin Addressed \cup Status \cup Identity
    BY Kinds
  <2> QED BY <1>2, <2>1, ClockReads, ClockWrites, ClockErased, ClockStatus, ClockIdentified, ClockIdle
<1> QED BY <1>1, <1>2, ClockIs

(* What a clock already expected it goes on expecting.                     *)
LEMMA ExpectedKept ==
    ASSUME HostAssumption, HostInv, Clock, NEW n \in Nat, n = Len(got), InPlace(n), NEW k
    PROVE  Expected(k)' = Expected(k)
<1>1. command' = command
  BY ClockIs
<1>2. command[1] = READ => shadow' = shadow
  BY ClockIs, Kinds
<1>3. command[1] = RDSR1 => enabled' = enabled
  BY ClockIs, Codes
<1>4. Start(command)' = Start(command) /\ \A a : Behind(k, a)' = Behind(k, a)
  BY <1>1 DEF Start, Behind
<1>5. CASE command[1] = READ
  <2>1. shadow' = shadow /\ command[1] # RDSR1
    BY <1>2, <1>5, Codes
  <2> QED BY <1>1, <1>4, <1>5, <2>1, SMTT(30) DEF Expected
<1>6. CASE command[1] = RDSR1
  <2>1. enabled' = enabled /\ command[1] # READ
    BY <1>3, <1>6, Codes
  <2> QED BY <1>1, <1>4, <1>6, <2>1, SMTT(30) DEF Expected
<1>7. CASE command[1] # READ /\ command[1] # RDSR1
  BY <1>1, <1>4, <1>7, SMTT(30) DEF Expected
<1> QED BY <1>5, <1>6, <1>7

(* And it is a byte.                                                       *)
LEMMA ExpectedTyped ==
    ASSUME HostAssumption, command \in Commands, InBook, NEW k \in Nat
    PROVE  Expected(k) \in Byte
<1>1. \A m \in 0 .. 255 : m \in Byte
  BY DEF Byte
<1>2. 255 \in Byte /\ 0 \in Byte /\ 2 \in Byte
  BY <1>1
<1>3. CASE command[1] = READ
  <2> DEFINE s == Start(command)
  <2>1. s \in Nat /\ Top \in Nat /\ shadow \in [0 .. Top - 1 -> Byte]
    BY <1>3, Kinds, StartTyped, HostSizes DEF InBook
  <2>2. Expected(k) = IF k > 4 THEN IF s + k - 5 < Top THEN shadow[s + k - 5] ELSE 255 ELSE 255
    BY <1>3, ExpectedIs
  <2> HIDE DEF s
  <2>3. k > 4 /\ s + k - 5 < Top => s + k - 5 \in 0 .. Top - 1
    BY <2>1
  <2>4. k > 4 /\ s + k - 5 < Top => shadow[s + k - 5] \in Byte
    BY <2>1, <2>3
  <2>5. CASE k > 4 /\ s + k - 5 < Top
    BY <2>2, <2>4, <2>5
  <2>6. CASE ~(k > 4 /\ s + k - 5 < Top)
    <3>1. Expected(k) = 255
      BY <2>2, <2>6
    <3> QED BY <1>2, <3>1
  <2> QED BY <2>5, <2>6
<1>4. CASE command[1] \in Identity
  <2> DEFINE a == IdentityBytes(command[1])
             j == k - Len(command)
  <2>1. a \in Seq(Byte)
    BY <1>4, Identities
  <2>2. Expected(k) = Behind(k, a)
    BY <1>4, ExpectedIs
  <2>3. Behind(k, a) = IF j \in 1 .. Len(a) THEN a[j] ELSE 255
    BY DEF Behind, FillByte
  <2> HIDE DEF a, j
  <2>4. j \in 1 .. Len(a) => a[j] \in Byte
    BY <2>1
  <2>5. CASE j \in 1 .. Len(a)
    BY <2>2, <2>3, <2>4, <2>5
  <2>6. CASE ~(j \in 1 .. Len(a))
    <3>1. Expected(k) = 255
      BY <2>2, <2>3, <2>6
    <3> QED BY <1>2, <3>1
  <2> QED BY <2>5, <2>6
<1>5. CASE command[1] \in Status
  <2>1. command[1] = RDSR1 \/ command[1] \in {RDSR2, RDSR3}
    BY <1>5 DEF Status
  <2>2. command[1] \notin Identity
    BY <1>5, Kinds
  <2>3. k <= 1 \/ k > 1
    OBVIOUS
  <2>4. CASE k <= 1
    <3>1. Expected(k) = 255
      BY <2>2, <2>4, ExpectedIs
    <3> QED BY <1>2, <3>1
  <2>5. CASE k > 1 /\ command[1] = RDSR1
    <3>1. Expected(k) = IF enabled THEN 2 ELSE 0
      BY <2>5, ExpectedIs
    <3>2. Expected(k) = 2 \/ Expected(k) = 0
      BY <3>1
    <3> QED BY <1>2, <3>2
  <2>6. CASE k > 1 /\ command[1] \in {RDSR2, RDSR3}
    <3>1. Expected(k) = 0
      BY <2>6, ExpectedIs
    <3> QED BY <1>2, <3>1
  <2> QED BY <2>1, <2>3, <2>4, <2>5, <2>6
<1>6. CASE command[1] \notin {READ} \cup Status \cup Identity
  <2>1. Expected(k) = 255
    BY <1>6, ExpectedIs
  <2> QED BY <1>2, <2>1
<1> QED BY <1>3, <1>4, <1>5, <1>6

(* The actions keep the invariant.                                         *)
LEMMA ClockHolds ==
    ASSUME HostAssumption, HostInv, Clock
    PROVE  HostInv'
<1>1. PICK n \in Nat : n = Len(got) /\ InPlace(n)
  BY DEF HostInv
<1>2. AnsweredInStep(n)
  BY <1>1, ClockAnswers
<1>3. command' = command /\ got' = Append(got, FlashAnswer) /\ command \in Commands
  BY <1>1, ClockIs
<1>4. FlashAnswer = Expected(n + 1) /\ InBook' /\ InPlace(n + 1)'
  BY <1>2 DEF AnsweredInStep
<1>5. Expected(n + 1) \in Byte
  <2>1. n + 1 \in Nat
    BY <1>1
  <2> QED BY <1>3, <2>1, ExpectedTyped DEF HostInv
<1> DEFINE e == Expected(n + 1)
<1>6. /\ got' \in Seq(Byte) /\ Len(got') = n + 1 /\ got'[n + 1] = e
      /\ \A k \in 1 .. n : got'[k] = got[k]
  <2>1. got \in Seq(Byte) /\ e \in Byte /\ got' = Append(got, e)
    BY <1>3, <1>4, <1>5 DEF HostInv
  <2> HIDE DEF e
  <2> QED BY <1>1, <2>1, AppendProperties
<1>7. AnswersInStep'
  <2>1. ASSUME NEW k \in 1 .. n + 1 PROVE got'[k] = Expected(k)'
    <3>1. Expected(k)' = Expected(k)
      BY <1>1, ExpectedKept
    <3>2. CASE k = n + 1
      BY <1>6, <3>1, <3>2
    <3>3. CASE k # n + 1
      <4>1. k \in 1 .. n
        BY <1>1, <2>1, <3>3
      <4>2. got[k] = Expected(k)
        BY <1>1, <4>1 DEF HostInv, AnswersInStep
      <4> QED BY <1>6, <3>1, <4>1, <4>2
    <3> QED BY <3>2, <3>3
  <2> QED BY <1>6, <2>1 DEF AnswersInStep
<1>8. n + 1 \in Nat
  BY <1>1
<1> QED BY <1>3, <1>4, <1>6, <1>7, <1>8 DEF HostInv

LEMMA SelectHolds ==
    ASSUME HostAssumption, HostInv, Select
    PROVE  HostInv'
<1>1. /\ command = <<>> /\ command' \in Commands
      /\ UNCHANGED <<flashVars, halted, got, shadow, enabled>>
  BY DEF Select, NoCommandYet
<1>2. PICK n \in Nat : n = Len(got) /\ InPlace(n)
  BY DEF HostInv
<1>3. n = 0 /\ FlashIdle
  BY <1>1, <1>2 DEF InPlace
<1>4. got = <<>> /\ got' = <<>>
  <2>1. got \in Seq(Byte) /\ Len(got) = 0
    BY <1>2, <1>3 DEF HostInv
  <2> QED BY <1>1, <2>1
<1>5. InPlace(0)'
  <2>1. command' # <<>> /\ SubSeq(command', 1, 0) = <<>>
    BY <1>1, CommandShape DEF HeaderLen
  <2>2. InHeader(0)'
    BY <1>1, <1>3, <2>1 DEF InHeader, FlashIdle, flashVars, HeaderLen
  <2> QED BY <2>1, <2>2 DEF InPlace
<1>6. InBook' /\ AnswersInStep'
  BY <1>1, <1>4 DEF HostInv, InBook, flashVars, AnswersInStep
<1>7. got' \in Seq(Byte) /\ 0 = Len(got') /\ 0 \in Nat
  BY <1>4
<1> QED BY <1>1, <1>5, <1>6, <1>7 DEF HostInv

LEMMA DeselectHolds ==
    ASSUME HostInv, Deselect
    PROVE  HostInv'
<1>1. /\ command' = <<>> /\ got' = <<>> /\ FlashIdle'
      /\ UNCHANGED <<halted, shadow, enabled, writeEnabled, image>>
  BY DEF Deselect, FlashDeselect, FlashIdle, NoCommandYet
<1>2. InPlace(0)'
  BY <1>1 DEF InPlace
<1>3. InBook' /\ AnswersInStep'
  BY <1>1 DEF HostInv, InBook, AnswersInStep
<1>4. got' \in Seq(Byte) /\ 0 = Len(got') /\ 0 \in Nat
  BY <1>1
<1> QED BY <1>1, <1>2, <1>3, <1>4 DEF HostInv

LEMMA HostInvHolds ==
    ASSUME HostAssumption
    PROVE  HostSpec => []HostInv
<1>1. HostInit => HostInv
  <2> SUFFICES ASSUME HostInit PROVE HostInv
    OBVIOUS
  <2>1. command = <<>> /\ got = <<>> /\ FlashIdle
    BY DEF HostInit, FlashInit, NoCommandYet
  <2>2. InPlace(0)
    BY <2>1 DEF InPlace
  <2>3. InBook /\ AnswersInStep
    <3>1. /\ image = Contents /\ shadow = Contents /\ enabled = FALSE /\ halted = FALSE
          /\ writeEnabled = FALSE /\ Contents \in [0 .. Top - 1 -> Byte]
      BY DEF HostInit, FlashInit, HostAssumption
    <3>2. InBook
      BY <3>1 DEF InBook
    <3>3. AnswersInStep
      BY <2>1 DEF AnswersInStep
    <3> QED BY <3>2, <3>3
  <2>4. got \in Seq(Byte) /\ 0 = Len(got) /\ 0 \in Nat
    BY <2>1
  <2> QED BY <2>1, <2>2, <2>3, <2>4 DEF HostInv
<1>2. HostInv /\ [HostNext]_(allVars) => HostInv'
  <2> SUFFICES ASSUME HostInv, [HostNext]_(allVars) PROVE HostInv'
    OBVIOUS
  <2>1. CASE UNCHANGED allVars
    <3>1. UNCHANGED <<flashTx, flashRx, flashMode, position, writeEnabled, image, halted,
                      command, got, shadow, enabled>>
      BY <2>1 DEF allVars, flashVars, hostVars
    <3>2. InBook' <=> InBook
      BY <3>1 DEF InBook
    <3>3. \A k : Expected(k)' = Expected(k)
      BY <3>1 DEF Expected, Behind, Start
    <3>4. AnswersInStep' <=> AnswersInStep
      BY <3>1, <3>3 DEF AnswersInStep
    <3>5. ASSUME NEW n \in Nat PROVE InPlace(n)' <=> InPlace(n)
      <4>1. InHeader(n)' <=> InHeader(n)
        BY <3>1 DEF InHeader, HeaderLen
      <4>2. /\ Reading(n)' <=> Reading(n)
            /\ Writing(n)' <=> Writing(n)
            /\ Identified(n)' <=> Identified(n)
            /\ FlashIdle' <=> FlashIdle
        BY <3>1 DEF Reading, Writing, Identified, FlashIdle, Start, Target, PageOf
      <4>3. Erased(n)' <=> Erased(n)
        BY <3>1 DEF Erased, ReadBehind
      <4>4. AfterHeader(n)' <=> AfterHeader(n)
        BY <3>1, <4>2, <4>3 DEF AfterHeader, HeaderLen
      <4> QED BY <3>1, <4>1, <4>2, <4>4 DEF InPlace
    <3> QED BY <3>1, <3>2, <3>4, <3>5 DEF HostInv
  <2> QED BY <2>1, SelectHolds, ClockHolds, DeselectHolds DEF HostNext
<1> QED BY <1>1, <1>2, PTL DEF HostSpec

(* Whatever commands the host sends, wherever it breaks them off, each byte*)
(* is answered as its place in the command asks for.                       *)
THEOREM AnswersInStepAlways == HostSpec => []AnswersInStep
<1>1. HostInv => AnswersInStep
  BY DEF HostInv
<1>2. HostSpec => []HostInv
  BY HostAssumption, HostInvHolds
<1> QED BY <1>1, <1>2, PTL

(* And the image is what the host believes: a program operation of any     *)
(* length stores where its page wraps it to, and nothing else stores.      *)
THEOREM StoredAsSentAlways == HostSpec => []StoredAsSent
<1>1. HostInv => StoredAsSent
  BY DEF HostInv, InBook, StoredAsSent
<1>2. HostSpec => []HostInv
  BY HostAssumption, HostInvHolds
<1> QED BY <1>1, <1>2, PTL
=============================================================================
