------------------------------ MODULE NileFlash ------------------------------
(***************************************************************************)
(* The emulated SPI flash of the nileswan cartridge (nileswan_flash.cpp).  *)
(* A command starts at the first byte after the chip was deselected; READ, *)
(* WRITE and the status commands then hold the chip until it is deselected *)
(* again, every other command gives way to the next one.                   *)
(*                                                                         *)
(* image is the file behind the chip, a write past whose end leaves a hole *)
(* of zeros that is not in its domain.  The code moves the stream to       *)
(* `position` when READ starts and before every byte it writes, so that    *)
(* the position of the stream is always the register's.                    *)
(*                                                                         *)
(* A definition with a note such as "forgets the payload" beside it is the *)
(* definition that follows with that mistake made: no specification uses   *)
(* it, it is there to show that the properties notice.                     *)
(***************************************************************************)
EXTENDS NileDevice

CONSTANTS
    PageSize,     \* a program operation wraps within a page: 256 in the source
    HasFlash      \* whether nileswan_open_spi found a file

ASSUME FlashAssumption == PageSize \in Nat \ {0} /\ HasFlash \in BOOLEAN

VARIABLES
    flashTx, flashRx,    \* the queues of spi_flash
    flashMode,           \* 0, or the command that holds the chip
    position,
    writeEnabled,        \* the WEL bit, the one bit of sr1, sr2 and sr3 ever set
    image

flashVars == <<flashTx, flashRx, flashMode, position, writeEnabled, image>>

WRITE == 2
READ == 3
WRDI == 4
RDSR1 == 5
WREN == 6
RDSR3 == 21
ERASE_4K == 32
RDSR2 == 53
RDUUID == 75
ERASE_32K == 82
MFR_ID == 144
RDID == 159
WAKE_ID == 171
ERASE_64K == 216

Addressed == {WRITE, READ, ERASE_4K, ERASE_32K, ERASE_64K}
Status == {RDSR1, RDSR2, RDSR3}
Identity == {RDUUID, MFR_ID, RDID, WAKE_ID}

(* What the commands of Identity queue.                                    *)
IdentityAtOnce(c) ==                    \* forgets the dummy bytes before it
    IF c = RDUUID THEN <<1, 35, 69, 103, 137, 171, 205, 239>>
    ELSE IF c = MFR_ID THEN <<239, 20>>
    ELSE IF c = RDID THEN <<239, 64, 21>>
    ELSE <<20>>
IdentityBytes(c) ==
    IF c = RDUUID THEN Fill(4, FillByte) \o <<1, 35, 69, 103, 137, 171, 205, 239>>
    ELSE IF c = MFR_ID THEN <<239, 20>>
    ELSE IF c = RDID THEN <<239, 64, 21>>
    ELSE Fill(3, FillByte) \o <<20>>

AddressSwapped(r) == 65536 * r[4] + 256 * r[3] + r[2]   \* last byte first
Address(r) == 65536 * r[2] + 256 * r[3] + r[4]
NextInFile(a) == a + 1                  \* forgets the page
NextInPage(a) == PageSize * (a \div PageSize) + ((a + 1) % PageSize)

-----------------------------------------------------------------------------
ReadByte ==
    /\ flashMode = READ
    /\ position' = position + 1
    /\ UNCHANGED <<flashTx, flashRx, flashMode, writeEnabled, image, halted>>

(* The write enable bit is not consulted.  Without a file fseek is called  *)
(* on a null stream, which ends the process.                               *)
ProgramByte(b) ==
    /\ flashMode = WRITE
    /\ IF HasFlash
       THEN /\ image' = [a \in DOMAIN image \cup {position} |->
                           IF a = position THEN b ELSE image[a]]
            /\ position' = NextInPage(position)
            /\ UNCHANGED halted
       ELSE halted' = TRUE /\ UNCHANGED <<image, position>>
    /\ UNCHANGED <<flashTx, flashRx, flashMode, writeEnabled>>

StatusByte ==
    /\ flashMode \in Status
    /\ UNCHANGED <<flashVars, halted>>

(* The other modes, c being the first byte of the command r.               *)
HeaderWaits(r) ==
    /\ r[1] \in Addressed \cup {MFR_ID} /\ Len(r) < 4
    /\ flashRx' = r /\ flashTx' = Pop(flashTx, 1)
    /\ UNCHANGED <<flashMode, position, writeEnabled, image, halted>>

AddressGiven(r) ==
    /\ r[1] \in Addressed /\ Len(r) >= 4
    /\ flashMode' = r[1]
    /\ position' = Address(r)
    /\ flashRx' = Pop(r, 4) /\ flashTx' = Pop(flashTx, 1)
    /\ UNCHANGED <<writeEnabled, image, halted>>

StatusAsked(r) ==
    /\ r[1] \in Status
    /\ flashMode' = r[1]
    /\ flashRx' = Pop(r, 1) /\ flashTx' = Pop(flashTx, 1)
    /\ UNCHANGED <<position, writeEnabled, image, halted>>

IdentityAsked(r) ==
    LET used == IF r[1] = MFR_ID THEN 4 ELSE 1
        rest == Pop(flashTx, 1)
    IN  /\ r[1] \in Identity /\ Len(r) >= used
        /\ flashRx' = Pop(r, used)
        /\ IF Fits(rest, Len(IdentityBytes(r[1])))
           THEN flashTx' = rest \o IdentityBytes(r[1]) /\ UNCHANGED halted
           ELSE halted' = TRUE /\ UNCHANGED flashTx
        /\ UNCHANGED <<flashMode, position, writeEnabled, image>>

WriteLatchSet(r) ==
    /\ r[1] \in {WREN, WRDI}
    /\ writeEnabled' = (r[1] = WREN)
    /\ flashRx' = Pop(r, 1) /\ flashTx' = Pop(flashTx, 1)
    /\ UNCHANGED <<flashMode, position, image, halted>>

(* SLEEP changes nothing, and an unknown command empties the queue.        *)
NoCommand(r) ==
    /\ r[1] \notin Addressed \cup Status \cup Identity \cup {WREN, WRDI}
    /\ flashRx' = <<>> /\ flashTx' = Pop(flashTx, 1)
    /\ UNCHANGED <<flashMode, position, writeEnabled, image, halted>>

CommandByte(b) ==
    LET r == Append(flashRx, b)
    IN  /\ flashMode \notin {READ, WRITE} \cup Status
        /\ \/ HeaderWaits(r)   \/ AddressGiven(r)  \/ StatusAsked(r)
           \/ IdentityAsked(r) \/ WriteLatchSet(r) \/ NoCommand(r)

(* nile_spi_flash_exchange(b), and the byte it returns.                    *)
FlashExchange(b) ==
    ReadByte \/ ProgramByte(b) \/ StatusByte \/ CommandByte(b)

FlashAnswer ==
    IF flashMode = READ
    THEN IF ~HasFlash THEN 144
         ELSE IF position \in DOMAIN image THEN image[position]
         ELSE IF \E a \in DOMAIN image : a > position THEN 0 ELSE FillByte
    ELSE IF flashMode = RDSR1 THEN IF writeEnabled THEN 2 ELSE 0
    ELSE IF flashMode \in {RDSR2, RDSR3} THEN 0
    ELSE IF flashMode = WRITE THEN FillByte
    ELSE First(flashTx)

(* nile_spi_flash_reset(false): the chip is deselected.                    *)
FlashIdle == flashTx = <<>> /\ flashRx = <<>> /\ flashMode = 0
FlashDeselect ==
    /\ flashTx' = <<>> /\ flashRx' = <<>> /\ flashMode' = 0
    /\ UNCHANGED <<position, writeEnabled, image>>

(* nile_spi_flash_reset(true).                                             *)
FlashReset ==
    /\ flashTx' = <<>> /\ flashRx' = <<>> /\ flashMode' = 0
    /\ position' = 0 /\ writeEnabled' = FALSE
    /\ UNCHANGED image

FlashInit ==
    /\ FlashIdle
    /\ position = 0 /\ writeEnabled = FALSE

FlashTypeOK ==
    /\ flashTx \in Seq(Byte) /\ flashRx \in Seq(Byte) /\ Len(flashRx) <= 3
    /\ flashMode \in {0} \cup Addressed \cup Status
    /\ position \in Nat /\ writeEnabled \in BOOLEAN
    /\ \A a \in DOMAIN image : a \in Nat /\ image[a] \in Byte
=============================================================================
