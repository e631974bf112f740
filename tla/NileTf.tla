-------------------------------- MODULE NileTf --------------------------------
(***************************************************************************)
(* The emulated TF (SD) card of the nileswan cartridge in SPI mode         *)
(* (nileswan_tf.cpp).  One exchange may finish a data block, stream the    *)
(* next block and serve several queued commands, so the card is a record   *)
(* and each part of nile_spi_tf_exchange is a function from card to card:  *)
(*   tx, rx, status, reading, writing   the fields of spi_tf               *)
(*   bytes, pos, eof                    the file, and its stdio position   *)
(*   down                               exit(1), or a null stream used     *)
(*                                                                         *)
(* A definition with a note such as "forgets the payload" beside it is the *)
(* definition that follows with that mistake made: no specification uses   *)
(* it, it is there to show that the properties notice.                     *)
(***************************************************************************)
EXTENDS NileSpiBuffer, SequencesExt

CONSTANTS
    DataLen,      \* bytes of a data block, 512 in the source
    StopBusy,     \* TF_STOP_TRANSFER_BUSY_DELAY_BYTES, 8 in the source
    ReadDelay,    \* TF_DATA_BLOCK_READ_DELAY_BYTES, 16 in the source
    HasCard,      \* whether nileswan_open_tf found a file
    StackBytes    \* what the never initialised CRC bytes may hold

ASSUME TfAssumption ==
    /\ DataLen \in Nat \ {0} /\ StopBusy \in Nat /\ ReadDelay \in Nat \ {0}
    /\ HasCard \in BOOLEAN
    /\ StackBytes # {} /\ StackBytes \subseteq Byte

VARIABLE card

BlockToken == 254     \* 0xFE: a block to or from the card
MultiToken == 252     \* 0xFC: a block of a multiple write
StopToken == 253
Accepted == 229       \* 0xE5, the data response
IllegalCommand == 4
ParameterError == 64

Least(a, b) == IF a < b THEN a ELSE b

(* spi_buffer_push on either queue.                                        *)
Push(c, bytes) ==
    IF Fits(c.tx, Len(bytes)) THEN [c EXCEPT !.tx = @ \o bytes]
                              ELSE [c EXCEPT !.down = TRUE]
Take(c, b) ==
    IF Fits(c.rx, 1) THEN [c EXCEPT !.rx = Append(@, b)]
                     ELSE [c EXCEPT !.down = TRUE]

(* q without the leading bytes that are not below limit.                   *)
Strip(q, limit) ==
    LET first == SelectInSeq(q, LAMBDA b : b < limit)
    IN  IF first = 0 THEN <<>> ELSE SubSeq(q, first, Len(q))

-----------------------------------------------------------------------------
(* The file: fseek forgets the end of file, fgetc at the end notes it.     *)
Size(c) == Cardinality(DOMAIN c.bytes)
SeekToBlock(c, a) ==                     \* as if the argument counted blocks
    [c EXCEPT !.pos = a * DataLen, !.eof = FALSE]
Seek(c, a) == [c EXCEPT !.pos = a, !.eof = FALSE]

Block(c) ==
    [i \in 1 .. DataLen |->
        IF ~HasCard THEN (i - 1) % 256
        ELSE IF c.eof \/ c.pos + i > Size(c) THEN FillByte
        ELSE c.bytes[c.pos + i - 1]]

AfterBlock(c) ==
    IF c.eof \/ ~HasCard THEN c
    ELSE [c EXCEPT !.pos = IF @ > Size(c) THEN @ ELSE Least(@ + DataLen, Size(c)),
                   !.eof = c.pos + DataLen > Size(c)]

(* fwrite of the block behind the token; a hole before it reads as zero.   *)
Store(c) ==
    IF ~HasCard THEN [c EXCEPT !.down = TRUE]
    ELSE IF c.eof THEN c
    ELSE [c EXCEPT
            !.bytes = [a \in 0 .. (IF Size(c) > c.pos + DataLen THEN Size(c)
                                   ELSE c.pos + DataLen) - 1 |->
                         IF a \in c.pos .. c.pos + DataLen - 1 THEN c.rx[a - c.pos + 2]
                         ELSE IF a \in DOMAIN c.bytes THEN c.bytes[a] ELSE 0],
            !.pos = @ + DataLen]

-----------------------------------------------------------------------------
(* Commands: c.rx starts with the six bytes of one.                        *)
Command(c) == c.rx[1] % 64
Argument(c) == 16777216 * c.rx[2] + 65536 * c.rx[3] + 256 * c.rx[4] + c.rx[5]

(* Serves one command; d is the card without it.                           *)
ServeCommand(c) ==
    LET d == [c EXCEPT !.rx = Pop(@, 6)]
        cmd == Command(c)
        sought == Seek(d, Argument(c))
    IN  IF cmd = 0 THEN Push([d EXCEPT !.status = 1], <<1>>)
        ELSE IF cmd = 1 THEN Push([d EXCEPT !.status = 0], <<0>>)
        ELSE IF cmd = 8 THEN Push(d, <<c.status, 0, 0, 1, c.rx[5]>>)
        ELSE IF cmd = 12
        THEN Push([d EXCEPT !.reading = FALSE, !.tx = <<>>],
                  <<255, 255, 0>> \o Fill(StopBusy, 0) \o <<255>>)
        ELSE IF cmd = 16
        THEN Push(d, <<c.status + IF Argument(c) = DataLen THEN 0 ELSE ParameterError>>)
        ELSE IF cmd \in {17, 18}
        THEN Push([AfterBlock(sought) EXCEPT !.reading = @ \/ cmd = 18],
                  <<c.status>> \o Fill(ReadDelay - 1, FillByte) \o <<BlockToken>>
                  \o Block(sought) \o <<FillByte, FillByte>>)
        ELSE IF cmd \in {24, 25}
        THEN Push([sought EXCEPT !.writing = IF cmd = 25 THEN "multiple" ELSE "single"],
                  <<c.status>>)
        ELSE Push(d, <<c.status + IllegalCommand>>)

(* while (rx.pos >= 6): junk before a command is dropped, then it is served. *)
ServeQueued(c) ==
    LET One(d) == LET e == [d EXCEPT !.rx = Strip(@, 128)]
                  IN  IF Len(d.rx) < 6 THEN d
                      ELSE IF Len(e.rx) < 6 THEN e ELSE ServeCommand(e)
    IN  FoldLeft(LAMBDA d, i : One(d), c, [i \in 1 .. Len(c.rx) \div 6 |-> i])

(* A multiple read keeps the queue filled, with CRC bytes left undefined.  *)
StreamNothing(c, crc) == c              \* CMD18 read like CMD17
Stream(c, crc) ==
    IF c.reading /\ c.tx = <<>>
    THEN Push(AfterBlock(c), <<BlockToken>> \o Block(c) \o <<crc, crc>>)
    ELSE c

(* A write: nothing happens until the response to the command has gone     *)
(* out, then stall bytes, a token and a block are awaited; the wrong token *)
(* ends the write.                                                         *)
TokenOf(c) == IF c.writing = "single" THEN BlockToken ELSE MultiToken
BlockIn(c) == Len(c.rx) >= DataLen + 3
WrittenOnAndOn(c) ==                     \* forgets that the write was single
    Push([Store(c) EXCEPT !.rx = Pop(@, DataLen + 3)], <<Accepted>>)
Written(c) ==
    Push([Store(c) EXCEPT !.rx = Pop(@, DataLen + 3),
                          !.writing = IF @ = "single" THEN "no" ELSE @],
         <<Accepted>>)

AfterExchange(c, b, crc) ==
    LET heard == c.rx # <<>> \/ c.writing # "no" \/ b < 128
        d == [(IF heard THEN Take(c, b) ELSE c) EXCEPT !.tx = Pop(@, 1)]
        e == [d EXCEPT !.rx = Strip(@, FillByte)]
    IN  IF d.writing = "no" THEN ServeQueued(Stream(d, crc))
        ELSE IF First(c.tx) # FillByte THEN d
        ELSE IF e.rx = <<>> THEN e
        ELSE IF e.rx[1] # TokenOf(e)
        THEN [e EXCEPT !.writing = "no", !.rx = Tail(@)]
        ELSE IF ~BlockIn(e) THEN e
        ELSE ServeQueued(Stream(Written(e), crc))

(* nile_spi_tf_exchange(b) of a powered card, and the byte it returns.     *)
TfExchange(b) == \E crc \in StackBytes : card' = AfterExchange(card, b, crc)
TfAnswer == First(card.tx)

(* nile_spi_tf_reset(true): the file and its position stay.                *)
BlankUnlessWriting(c) ==                 \* lets a write come to its end first
    IF c.writing # "no" THEN c
    ELSE [c EXCEPT !.tx = <<>>, !.rx = <<>>, !.status = 0, !.reading = FALSE]
BlankQueues(c) ==                        \* forgets that a stream is running
    [c EXCEPT !.tx = <<>>, !.rx = <<>>, !.status = 0, !.writing = "no"]
Blank(c) ==
    [c EXCEPT !.tx = <<>>, !.rx = <<>>, !.status = 0, !.reading = FALSE, !.writing = "no"]
TfReset == card' = Blank(card)

(* A card as nileswan_init leaves it, with these bytes on it.              *)
NewCard(bytes) ==
    [tx |-> <<>>, rx |-> <<>>, status |-> 0, reading |-> FALSE, writing |-> "no",
     bytes |-> bytes, pos |-> 0, eof |-> FALSE, down |-> FALSE]

TfTypeOK ==
    /\ card.tx \in Seq(Byte) /\ card.rx \in Seq(Byte)
    /\ card.status \in {0, 1}
    /\ card.reading \in BOOLEAN /\ card.eof \in BOOLEAN /\ card.down \in BOOLEAN
    /\ card.writing \in {"no", "single", "multiple"}
    /\ DOMAIN card.bytes = 0 .. Size(card) - 1
    /\ \A a \in DOMAIN card.bytes : card.bytes[a] \in Byte
    /\ card.pos \in Nat
===============================================================================
