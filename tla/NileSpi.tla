------------------------------- MODULE NileSpi -------------------------------
(***************************************************************************)
(* The SPI controller of the nileswan cartridge and the devices behind it  *)
(* (nileswan.cpp): the registers SPI_CNT and POW_CNT, the two double       *)
(* buffers, and transfers.  The console talks to it by writing registers   *)
(* and reading and writing the buffers' windows; a write that starts a     *)
(* transfer runs it to its end before the console goes on, here one        *)
(* exchange a step with everything else disabled (phase).                  *)
(*                                                                         *)
(* A definition with a note such as "forgets the payload" beside it is the *)
(* definition that follows with that mistake made: no specification uses   *)
(* it, it is there to show that the properties notice.                     *)
(***************************************************************************)
EXTENDS Integers, Sequences, FiniteSets

CONSTANTS
    BufSize, DefaultArg, MaxCdc, EepromWords, Junk,         \* see NileMcu
    PageSize, HasFlash,                                     \* see NileFlash
    DataLen, StopBusy, ReadDelay, HasCard, StackBytes,      \* see NileTf
    LowSize,      \* lengths the low byte of SPI_CNT can name, 256 in the source
    MaxTries,     \* exchanges WAIT_READ makes for its first byte, 8191 in the source
    FirstImage, FirstBytes      \* the files of the flash and of the card

(* The image may have holes, the card's file has none.                     *)
ASSUME SpiAssumption ==
    /\ LowSize \in Nat \ {0} /\ MaxTries \in Nat \ {0}
    /\ DOMAIN FirstImage \subseteq Nat /\ FirstImage \in [DOMAIN FirstImage -> 0 .. 255]
    /\ IsFiniteSet(DOMAIN FirstBytes)
    /\ FirstBytes \in [0 .. Cardinality(DOMAIN FirstBytes) - 1 -> 0 .. 255]

VARIABLES
    spi,                  \* SPI_CNT, see SpiValue
    pow,                  \* POW_CNT, the set of its bits
    txBuf, rxBuf,         \* nile_spi_tx, nile_spi_rx: two halves each
    phase, pos, tries,    \* the transfer that is running
    stray,                \* auxiliary: the chip select of the flash does not
                          \* follow spi.dev, see Stray
    warm,                 \* auxiliary: POW_CNT not written since a warm boot
    card,
    flashTx, flashRx, flashMode, position, writeEnabled, image,
    tx, rx, bootMode, bootStarted, waitingAck, bootCmd, bootStep, eraseCount,
    unget, eepromMode, saveId, rtc, serialIn, serialOut, taken,
    halted

Mcu == INSTANCE NileMcu
Flash == INSTANCE NileFlash
Tf == INSTANCE NileTf

ASSUME DeviceAssumption ==
    /\ Mcu!BufSizeAssumption /\ Mcu!McuAssumption
    /\ Flash!FlashAssumption /\ Tf!TfAssumption

(* The variables of the MCU without `halted`, which all devices share.     *)
mcuOnly == <<tx, rx, bootMode, bootStarted, waitingAck, bootCmd, bootStep, eraseCount,
             unget, eepromMode, saveId, rtc, serialIn, serialOut, taken>>
mcuVars == <<mcuOnly, halted>>
flashVars == <<flashTx, flashRx, flashMode, position, writeEnabled, image>>
busVars == <<txBuf, rxBuf, phase, pos, tries>>
auxVars == <<stray, warm>>
vars == <<spi, pow, busVars, auxVars, card, flashVars, mcuVars>>

BufLen == 2 * LowSize
FillByte == 255
Devices == {"NONE", "TF", "FLASH", "MCU"}
Modes == {"WRITE", "READ", "EXCH", "WAIT_READ"}

(* SPI_CNT: the length less one in two parts, the low byte and the lowest  *)
(* bit of the high byte, and the other fields of the high byte.            *)
SpiValue == [lo : 0 .. LowSize - 1, hi : {0, 1}, mode : Modes, slow : BOOLEAN,
             dev : Devices, idx : {0, 1}, busy : BOOLEAN]
SpiZero == [lo |-> 0, hi |-> 0, mode |-> "WRITE", slow |-> FALSE,
            dev |-> "NONE", idx |-> 0, busy |-> FALSE]
Length == spi.lo + LowSize * spi.hi + 1

PowBits == {"CLOCK", "TF", "IO_NILE", "IO_2001", "IO_2003", "BOOT0", "SRAM", "MCU_RESET"}
PowUnlock == PowBits \ {"TF", "BOOT0"}     \* 0xDD

(* get_spi_bank_offset: the half of a buffer the console, and the half the *)
(* controller has; BUFFER_IDX swaps them.                                  *)
HalfShared(isSwan) == IF spi.idx = 1 THEN "low" ELSE "high"   \* forgets isSwan
Half(isSwan) == IF (spi.idx = 1) # isSwan THEN "low" ELSE "high"

-----------------------------------------------------------------------------
(* Transfers.                                                              *)

Powered == "TF" \in pow

(* spi_exchange.                                                           *)
ExchangeDev(b) ==
    \/ /\ spi.dev = "TF" /\ Powered
       /\ Tf!TfExchange(b) /\ halted' = card'.down
       /\ UNCHANGED <<flashVars, mcuOnly>>
    \/ /\ spi.dev = "FLASH"
       /\ Flash!FlashExchange(b)
       /\ UNCHANGED <<card, mcuOnly>>
    \/ /\ spi.dev = "MCU"
       /\ Mcu!Exchange(b)
       /\ UNCHANGED <<card, flashVars>>
    \/ /\ spi.dev = "NONE" \/ (spi.dev = "TF" /\ ~Powered)
       /\ UNCHANGED <<card, flashVars, mcuVars>>

AnswerDev ==
    IF spi.dev = "TF" /\ Powered THEN Tf!TfAnswer
    ELSE IF spi.dev = "FLASH" THEN Flash!FlashAnswer
    ELSE IF spi.dev = "MCU" THEN Mcu!Answer
    ELSE FillByte

Receive(b) == rxBuf' = [rxBuf EXCEPT ![Half(FALSE)][pos] = b]

(* The next byte, or the end of the transfer, which takes BUSY away.       *)
FinishSilently == UNCHANGED spi                        \* forgets BUSY
Finish == spi' = [spi EXCEPT !.busy = FALSE]

AdvanceNowhere == phase' = "moving" /\ UNCHANGED <<pos, spi>>   \* forgets pos++
Advance ==
    /\ pos' = pos + 1
    /\ IF pos + 1 < Length
       THEN phase' = "moving" /\ UNCHANGED spi
       ELSE phase' = "idle" /\ Finish

Move ==
    /\ phase = "moving" /\ ~halted
    /\ ExchangeDev(IF spi.mode \in {"WRITE", "EXCH"} THEN txBuf[Half(FALSE)][pos]
                                                     ELSE FillByte)
    /\ IF spi.mode = "WRITE" THEN UNCHANGED rxBuf ELSE Receive(AnswerDev)
    /\ Advance
    /\ UNCHANGED <<pow, txBuf, tries, auxVars>>

(* WAIT_READ skips fill bytes; when it runs out of tries BUSY stays set.   *)
OutOfTriesLate == tries = MaxTries                     \* one exchange too many
OutOfTries == tries + 1 = MaxTries

Wait ==
    /\ phase = "waiting" /\ ~halted
    /\ ExchangeDev(FillByte)
    /\ Receive(AnswerDev)
    /\ tries' = tries + 1
    /\ IF AnswerDev # FillByte THEN Advance
       ELSE /\ phase' = IF OutOfTries THEN "idle" ELSE "waiting"
            /\ UNCHANGED <<spi, pos>>
    /\ UNCHANGED <<pow, txBuf, auxVars>>

-----------------------------------------------------------------------------
(* The registers.                                                          *)

Idle == phase = "idle" /\ ~halted
Unlocked == "IO_NILE" \in pow

(* What a change of SPI_CNT means for the chip select of the flash, when   *)
(* the clock of the new setting runs and when it does not.                 *)
Clocked(new) == new.slow \/ "CLOCK" \in pow
Stray(new) == IF Clocked(new) THEN stray /\ new.dev = "FLASH"
                              ELSE stray \/ new.dev # "FLASH"

DeselectsOnStart(new) ==                               \* only when a transfer begins
    Clocked(new) /\ new.dev # "FLASH" /\ new.busy
Deselects(new) == Clocked(new) /\ new.dev # "FLASH"

(* spi_cnt_update; a transfer begins with the mode of the new value.       *)
SpiCntUpdate(new) ==
    /\ IF Deselects(new) THEN Flash!FlashDeselect ELSE UNCHANGED flashVars
    /\ IF Clocked(new) /\ new.busy
       THEN /\ phase' = IF new.mode = "WAIT_READ" THEN "waiting" ELSE "moving"
            /\ pos' = 0 /\ tries' = 0
       ELSE UNCHANGED <<phase, pos, tries>>

WriteLowBusy(lo) ==                                    \* forgets BUSY
    /\ Idle /\ Unlocked
    /\ spi' = [spi EXCEPT !.lo = lo]
    /\ UNCHANGED <<pow, busVars, auxVars, card, flashVars, mcuVars>>
WriteLow(lo) ==
    /\ Idle /\ Unlocked /\ ~spi.busy
    /\ spi' = [spi EXCEPT !.lo = lo]
    /\ UNCHANGED <<pow, busVars, auxVars, card, flashVars, mcuVars>>

(* While BUSY the one write accepted takes BUSY away and changes nothing   *)
(* else: an abort.                                                         *)
Aborts(new) == spi.busy /\ new = [spi EXCEPT !.busy = FALSE]
WriteHigh(new) ==
    /\ Idle /\ Unlocked
    /\ new.lo = spi.lo
    /\ ~spi.busy \/ Aborts(new)
    /\ spi' = new
    /\ SpiCntUpdate(new)
    /\ stray' = Stray(new)
    /\ UNCHANGED <<pow, txBuf, rxBuf, warm, card, mcuVars>>

(* The MCU starts anew when its reset is released.                         *)
WritePow(new) ==
    /\ Idle
    /\ Unlocked \/ new = PowUnlock
    /\ pow' = new
    /\ IF "TF" \notin new THEN Tf!TfReset ELSE UNCHANGED card
    /\ IF "MCU_RESET" \in new \ pow THEN Mcu!Reset("BOOT0" \in new)
                                    ELSE UNCHANGED mcuVars
    /\ warm' = FALSE
    /\ UNCHANGED <<spi, busVars, stray, flashVars>>

(* The FPGA loads a core: its registers start over, and no device notices. *)
(* Not even a locked POW_CNT guards it.                                    *)
Warmboot ==
    /\ Idle
    /\ spi' = SpiZero /\ pow' = PowUnlock
    /\ stray' = TRUE /\ warm' = TRUE
    /\ UNCHANGED <<busVars, card, flashVars, mcuVars>>

(* nileswan_init, when the console is reset.                               *)
ConsoleReset ==
    /\ Idle
    /\ spi' = SpiZero /\ pow' = PowUnlock
    /\ Mcu!Reset(FALSE) /\ Flash!FlashReset /\ Tf!TfReset
    /\ stray' = FALSE /\ warm' = FALSE
    /\ UNCHANGED busVars

(* The console fills its window of the transmit buffer from the start.     *)
CpuWrites(bytes) ==
    /\ Idle
    /\ txBuf' = [txBuf EXCEPT ![Half(TRUE)] =
                   [i \in 0 .. BufLen - 1 |-> IF i < Len(bytes) THEN bytes[i + 1] ELSE @[i]]]
    /\ UNCHANGED <<spi, pow, rxBuf, phase, pos, tries, auxVars, card, flashVars, mcuVars>>

Blanked == [h \in {"low", "high"} |-> [i \in 0 .. BufLen - 1 |-> 0]]
Init ==
    /\ spi = SpiZero /\ pow = PowUnlock
    /\ txBuf = Blanked /\ rxBuf = Blanked
    /\ phase = "idle" /\ pos = 0 /\ tries = 0
    /\ stray = FALSE /\ warm = FALSE
    /\ card = Tf!NewCard(FirstBytes)
    /\ Flash!FlashInit /\ image = FirstImage
    /\ Mcu!Init

Transfer == Move \/ Wait

-----------------------------------------------------------------------------
TypeOK ==
    /\ spi \in SpiValue /\ pow \subseteq PowBits
    /\ phase \in {"idle", "waiting", "moving"}
    /\ pos \in 0 .. BufLen /\ tries \in 0 .. MaxTries
    /\ \A h \in {"low", "high"}, i \in 0 .. BufLen - 1 :
          txBuf[h][i] \in 0 .. 255 /\ rxBuf[h][i] \in 0 .. 255
    /\ Tf!TfTypeOK /\ Flash!FlashTypeOK /\ Mcu!TypeOK

(* A device that is not spoken to is at rest.  While another one is        *)
(* selected the flash is not in the middle of a command: the next command  *)
(* sent to it is taken for one.  Two ways around spi_cnt_update leave it   *)
(* there (stray): a warm boot, and a register write under a stopped clock. *)
(* A card without power has forgotten everything but its data, unless the  *)
(* power went with a warm boot, which does not tell the card.              *)
DevicesAtRest ==
    /\ spi.dev # "FLASH" /\ ~stray => Flash!FlashIdle
    /\ ~Powered /\ ~warm => card.tx = <<>> /\ card.rx = <<>>
                            /\ ~card.reading /\ card.writing = "no"

(* BUSY survives a transfer only when the clock it asks for was off or     *)
(* when WAIT_READ gave up: a slow transfer of another kind always ends.    *)
BusyOnlyStuck ==
    phase = "idle" /\ spi.busy =>
        \/ ~spi.slow
        \/ spi.mode = "WAIT_READ" /\ rxBuf[Half(FALSE)][0] = FillByte
SpiInv == TypeOK /\ BusyOnlyStuck

(* BUSY locks SPI_CNT: until it is gone nothing in the register changes.   *)
(* And a transfer leaves the console's windows of both buffers alone, the  *)
(* windows change hands only between transfers.                            *)
BusyHolds ==
    [][/\ spi.busy /\ spi'.busy => spi' = spi
       /\ phase # "idle" =>
            /\ Half(TRUE)' = Half(TRUE)
            /\ rxBuf'[Half(TRUE)] = rxBuf[Half(TRUE)] /\ txBuf' = txBuf]_vars

(* Every transfer ends, with BUSY or without.                              *)
TransferEnds == phase # "idle" ~> phase = "idle" \/ halted
=============================================================================
