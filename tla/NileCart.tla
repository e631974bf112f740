------------------------------- MODULE NileCart -------------------------------
(***************************************************************************)
(* The bus side of the nileswan cartridge (nileswan.cpp): the bank         *)
(* registers, the segment mask, what a cartridge address leads to, and the *)
(* command state machine of an emulated flash chip.  It extends the SPI    *)
(* controller, whose registers lie behind the same ports and whose buffers *)
(* are banks of the cartridge.                                             *)
(*                                                                         *)
(* A register is the set of its bits that are 1, so that `&` is \cap and a *)
(* mask a set.  A cartridge address is a window, bits 16 to 19, and an     *)
(* offset.                                                                 *)
(*                                                                         *)
(* A definition with a note such as "forgets the lock" beside it is the    *)
(* definition that follows with that mistake made: no specification uses   *)
(* it, it is there to show that the properties notice.                     *)
(***************************************************************************)
EXTENDS NileSpi

CONSTANT Offsets      \* the offsets that are used

ASSUME OffsetsAssumption == \A offset \in Offsets : offset \in Nat /\ offset < 65536

VARIABLES
    romL, ram, rom0, rom1,  \* bank_romL, bank_ram, bank_rom0, bank_rom1
    flashEnable,
    emu,                    \* nile_emu_cnt, the set of its bits
    bankMask,               \* nile_bank_mask
    wwState,                \* nile_ww_state
    memory,                 \* the cells written so far, and what is in them
    said,                   \* auxiliary: what the flash commands were
    sealed                  \* auxiliary: the mask when POW_CNT was last written

bankVars == <<romL, ram, rom0, rom1>>
cartVars == <<bankVars, flashEnable, emu, bankMask, wwState, memory, said, sealed>>
spiVars == vars
busAllVars == <<spiVars, cartVars>>

LowByte == 0 .. 7
HighByte == 8 .. 15
Raised(byte) == {b + 8 : b \in byte}        \* value << 8

EmuBits == {"EEPROM0", "EEPROM1", "FLASH_FSM", "ROM_BUS_8BIT", "SRAM_32KB"}

-----------------------------------------------------------------------------
(* resolve_bank.                                                           *)

IpcBank == {1, 2, 3}                        \* NILE_SEG_RAM_IPC, 14
TxBank == {0, 1, 2, 3}                      \* NILE_SEG_RAM_TX, 15
BootBanks == {0 .. 8, {2, 4, 5, 6, 7, 8}}   \* NILE_SEG_ROM_BOOT 511, _PCV2 500
RxBank == 1 .. 8                            \* NILE_SEG_ROM_RX, 510

Nowhere == [chip |-> "NONE", bank |-> {}, at |-> 0]
At(chip, bank, offset) == [chip |-> chip, bank |-> bank, at |-> offset]

(* The register a window is moved by, and the bit of the segment mask that *)
(* locks it into the segment; the linear windows are always in it.         *)
WindowBits(window) == {b \in 0 .. 3 : (window \div 2^b) % 2 = 1}
Selected(window) ==
    IF window = 1 THEN ram ELSE IF window = 2 THEN rom0 ELSE IF window = 3 THEN rom1
    ELSE {b + 4 : b \in romL} \cup WindowBits(window)
LockBit(window) == IF window = 1 THEN 11 ELSE IF window = 2 THEN 9 ELSE 10

MaskedRom(window) == window \notin {1, 2, 3}           \* forgets the lock bits
Masked(window) == window \notin {1, 2, 3} \/ LockBit(window) \in bankMask

RamSegment(mask) == {b \in 0 .. 3 : b + 12 \in mask}
RomSegment(mask) == {b \in 0 .. 8 : b \in mask}

RamPlace(bank, offset, write) ==
    IF bank \subseteq 0 .. 2
    THEN IF "SRAM" \notin pow THEN Nowhere
         ELSE At("SRAM", bank, IF "SRAM_32KB" \in emu THEN offset % 32768 ELSE offset)
    ELSE IF bank = IpcBank THEN At("IPC", bank, offset % BufLen)
    ELSE IF bank = TxBank /\ write THEN At("TX", bank, offset % BufLen)
    ELSE Nowhere

RomPlace(bank, offset, write) ==
    IF bank \subseteq 0 .. 7 THEN At("PSRAM", bank, offset)
    ELSE IF bank \in BootBanks THEN At("BOOT", bank, offset % BufLen)
    ELSE IF bank = RxBank /\ ~write THEN At("RX", bank, offset % BufLen)
    ELSE Nowhere

Place(window, offset, write) ==
    IF window = 1 /\ ~flashEnable
    THEN RamPlace(ram \cap (IF Masked(1) THEN RamSegment(bankMask) ELSE 0 .. 3), offset, write)
    ELSE RomPlace(Selected(window) \cap
                    (IF Masked(window) THEN RomSegment(bankMask) ELSE 0 .. 8), offset, write)

(* The two banks of the boot ROM are the same 512 bytes.                   *)
Cell(place) == IF place.chip = "BOOT" THEN [place EXCEPT !.bank = 0 .. 8] ELSE place

-----------------------------------------------------------------------------
(* nileswan_cart_write.                                                    *)

Store(place, value) ==
    IF place.chip = "TX"
    THEN txBuf' = [txBuf EXCEPT ![Half(TRUE)][place.at] = value] /\ UNCHANGED memory
    ELSE /\ memory' = [c \in DOMAIN memory \cup {Cell(place)} |->
                          IF c = Cell(place) THEN value ELSE memory[c]]
         /\ UNCHANGED txBuf

FsmActive(window) == "FLASH_FSM" \in emu /\ flashEnable /\ window = 1
Programs == wwState \in {"WRITE", "FAST_WRITE"}

(* The next state on a value, where the values go that none names.         *)
AfterSecondUnlock(value) ==
    IF value = 32 THEN "FAST" ELSE IF value = 160 THEN "WRITE"
    ELSE IF value \in {16, 48} THEN "ERASE" ELSE "READ"
FsmNextHalfUnlocked(value) ==                          \* forgets 0x55
    IF wwState \in {"READ", "ERASE"} THEN IF value = 170 THEN "UNLOCK_2" ELSE "READ"
    ELSE IF wwState = "UNLOCK_2" THEN AfterSecondUnlock(value)
    ELSE IF wwState = "FAST"
         THEN IF value = 160 THEN "FAST_WRITE" ELSE IF value = 144 THEN "READ" ELSE "FAST"
    ELSE IF wwState = "FAST_WRITE" THEN "FAST" ELSE "READ"
FsmNext(value) ==
    IF wwState \in {"READ", "ERASE"} THEN IF value = 170 THEN "UNLOCK_1" ELSE "READ"
    ELSE IF wwState = "UNLOCK_1" THEN IF value = 85 THEN "UNLOCK_2" ELSE "READ"
    ELSE IF wwState = "UNLOCK_2" THEN AfterSecondUnlock(value)
    ELSE IF wwState = "FAST"
         THEN IF value = 160 THEN "FAST_WRITE" ELSE IF value = 144 THEN "READ" ELSE "FAST"
    ELSE IF wwState = "FAST_WRITE" THEN "FAST" ELSE "READ"

unstoredVars == <<spi, pow, rxBuf, phase, pos, tries, auxVars, card, flashVars, mcuOnly>>

(* A program operation stores without asking whether there is anything to  *)
(* store to: with an unmapped bank it ends the process.                    *)
FlashCommand(window, offset, value) ==
    LET place == Place(window, offset, TRUE)
    IN  /\ Idle /\ FsmActive(window)
        /\ said' = Append(said, value)
        /\ IF Programs /\ place # Nowhere THEN Store(place, value)
                                          ELSE UNCHANGED <<txBuf, memory>>
        /\ halted' = (Programs /\ place = Nowhere)
        /\ wwState' = FsmNext(value)
        /\ UNCHANGED <<unstoredVars, bankVars, flashEnable, emu, bankMask, sealed>>

PlainWrite(window, offset, value) ==
    LET place == Place(window, offset, TRUE)
    IN  /\ Idle /\ ~FsmActive(window)
        /\ IF place = Nowhere THEN UNCHANGED <<txBuf, memory>> ELSE Store(place, value)
        /\ UNCHANGED <<unstoredVars, halted, bankVars, flashEnable, emu, bankMask, wwState,
                       said, sealed>>

-----------------------------------------------------------------------------
(* nileswan_io_write.  `via2003` is the port of the 2003 mapper, which is  *)
(* there only while POW_CNT says so; the old ports reach low bytes alone.  *)

Allowed2003(via2003) == via2003 => "IO_2003" \in pow

WriteRomL(via2003, byte) ==
    /\ Idle /\ Allowed2003(via2003)
    /\ romL' = byte
    /\ UNCHANGED <<spiVars, ram, rom0, rom1, flashEnable, emu, bankMask, wwState, memory,
                   said, sealed>>

LowWritten(old, byte) == (old \cap HighByte) \cup byte
HighWritten(old, byte) == (old \cap LowByte) \cup Raised(byte)

(* The three registers of two bytes.                                       *)
Bank(name) == IF name = "ram" THEN ram ELSE IF name = "rom0" THEN rom0 ELSE rom1
SetBank(name, new) ==
    /\ ram' = IF name = "ram" THEN new ELSE ram
    /\ rom0' = IF name = "rom0" THEN new ELSE rom0
    /\ rom1' = IF name = "rom1" THEN new ELSE rom1
    /\ UNCHANGED <<spiVars, romL, flashEnable, emu, bankMask, wwState, memory, said, sealed>>
WriteBankLow(name, via2003, byte) ==
    /\ Idle /\ Allowed2003(via2003)
    /\ SetBank(name, LowWritten(Bank(name), byte))
WriteBankHigh(name, byte) ==
    /\ Idle /\ Allowed2003(TRUE)
    /\ SetBank(name, HighWritten(Bank(name), byte))

WriteFlashEnable(on) ==
    /\ Idle /\ Allowed2003(TRUE)
    /\ flashEnable' = on
    /\ UNCHANGED <<spiVars, bankVars, emu, bankMask, wwState, memory, said, sealed>>

WriteEmu(bits) ==
    /\ Idle /\ Unlocked
    /\ emu' = bits
    /\ UNCHANGED <<spiVars, bankVars, flashEnable, bankMask, wwState, memory, said, sealed>>

WriteMaskOpen(new) ==                                  \* forgets the lock
    /\ Idle
    /\ bankMask' = new
    /\ UNCHANGED <<spiVars, bankVars, flashEnable, emu, wwState, memory, said, sealed>>
WriteMask(new) ==
    /\ Idle /\ Unlocked
    /\ bankMask' = new
    /\ UNCHANGED <<spiVars, bankVars, flashEnable, emu, wwState, memory, said, sealed>>

(* Ports whose registers the SPI controller's module has.                  *)
SpiPort ==
    \/ \E lo \in 0 .. LowSize - 1 : WriteLow(lo)
    \/ \E new \in SpiValue : WriteHigh(new)
    \/ Transfer
PortWrite == SpiPort /\ UNCHANGED cartVars
PowWrite(new) ==
    /\ WritePow(new)
    /\ sealed' = bankMask
    /\ UNCHANGED <<bankVars, flashEnable, emu, bankMask, wwState, memory, said>>

(* nile_fpga_reset on this side of the cartridge.                          *)
CartBlank ==
    /\ ram' = 0 .. 15 /\ rom0' = 0 .. 15 /\ rom1' = 0 .. 15 /\ romL' = 0 .. 7
    /\ flashEnable' = FALSE /\ emu' = {} /\ bankMask' = 0 .. 15
    /\ wwState' = "READ"
    /\ memory' = [c \in {d \in DOMAIN memory : d.chip # "IPC"} |-> memory[c]]
    /\ said' = <<>> /\ sealed' = 0 .. 15
CartWarmboot == Warmboot /\ CartBlank
CartReset == ConsoleReset /\ CartBlank

CartInit ==
    /\ Init
    /\ ram = 0 .. 15 /\ rom0 = 0 .. 15 /\ rom1 = 0 .. 15 /\ romL = 0 .. 7
    /\ flashEnable = FALSE /\ emu = {} /\ bankMask = 0 .. 15
    /\ wwState = "READ" /\ memory = [c \in {} |-> 0]
    /\ said = <<>> /\ sealed = 0 .. 15

Byte == 0 .. 255
Windows == 1 .. 15
CartWrite(window, offset, value) ==
    FlashCommand(window, offset, value) \/ PlainWrite(window, offset, value)
BankWrite(byte) ==
    \/ \E via \in BOOLEAN : WriteRomL(via, byte)
    \/ \E name \in {"ram", "rom0", "rom1"}, via \in BOOLEAN : WriteBankLow(name, via, byte)
    \/ \E name \in {"ram", "rom0", "rom1"} : WriteBankHigh(name, byte)
ControlWrite ==
    \/ \E on \in BOOLEAN : WriteFlashEnable(on)
    \/ \E bits \in SUBSET EmuBits : WriteEmu(bits)
    \/ \E byte \in SUBSET LowByte : 
          WriteMask(LowWritten(bankMask, byte)) \/ WriteMask(HighWritten(bankMask, byte))
    \/ \E new \in SUBSET PowBits : PowWrite(new)
CartNext ==
    \/ \E window \in Windows, offset \in Offsets, value \in Byte :
          CartWrite(window, offset, value)
    \/ \E byte \in SUBSET LowByte : BankWrite(byte)
    \/ ControlWrite \/ PortWrite \/ CartWarmboot \/ CartReset
CartSpec == CartInit /\ [][CartNext]_busAllVars

-----------------------------------------------------------------------------
WwStates == {"READ", "UNLOCK_1", "UNLOCK_2", "FAST", "FAST_WRITE", "WRITE", "ERASE"}
CartTypeOK ==
    /\ romL \subseteq LowByte
    /\ ram \subseteq 0 .. 15 /\ rom0 \subseteq 0 .. 15 /\ rom1 \subseteq 0 .. 15
    /\ bankMask \subseteq 0 .. 15 /\ sealed \subseteq 0 .. 15
    /\ flashEnable \in BOOLEAN /\ emu \subseteq EmuBits /\ wwState \in WwStates
    /\ \A c \in DOMAIN memory : c.chip \in {"SRAM", "IPC", "PSRAM", "BOOT"}

(* Software that is started with POW_CNT locked and its windows locked     *)
(* into a segment reaches nothing else, in no window, by whatever bank     *)
(* registers it writes afterwards.                                         *)
InSegment(place, mask) ==
    place.bank \subseteq IF place.chip \in {"SRAM", "IPC", "TX"} THEN RamSegment(mask)
                                                                ELSE RomSegment(mask)
Sealed == ~Unlocked /\ {9, 10, 11} \subseteq sealed
Confined ==
    Sealed => \A window \in Windows, offset \in Offsets, write \in BOOLEAN :
                  InSegment(Place(window, offset, write), sealed)

(* The flash chip stores a byte only on request: a command that stores     *)
(* comes right after A0, which itself came right after AA 55 or in the     *)
(* fast mode AA 55 20 had entered.  (A reset clears the IPC area without.) *)
SaidAt(n, bytes) == \A i \in 1 .. Len(bytes) : said'[n + i - 1] = bytes[i]
Asked(n) ==
    /\ n >= 4 /\ said'[n - 1] = 160
    /\ SaidAt(n - 3, <<170, 85>>) \/ \E k \in 1 .. n - 4 : SaidAt(k, <<170, 85, 32>>)
OnlyAskedPrograms ==
    [][Len(said') > Len(said) /\ <<memory, txBuf>>' # <<memory, txBuf>>
        => Asked(Len(said'))]_busAllVars
=============================================================================
