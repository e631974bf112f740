---------------------------- MODULE NileCartProofs ----------------------------
(***************************************************************************)
(* The cartridge, for every mask, every sequence of register writes,       *)
(* stores and transfers, every size of the buffers and every file behind   *)
(* the flash and the card:                                                 *)
(*   - software in a sealed segment stays there;                           *)
(*   - the flash command machine stores only what was asked for;           *)
(*   - the SPI controller, its three devices and the bus keep their types, *)
(*     BUSY means what it should, and a device not spoken to is at rest    *)
(*     (which needs BufSize > 1026, see NileDeviceProofs).                 *)
(***************************************************************************)
EXTENDS NileCart, SequenceTheorems, FiniteSetTheorems, TLAPS

(* While POW_CNT is locked the mask is the one that was sealed.            *)
MaskKept == ~Unlocked => sealed = bankMask
maskVars == <<pow, bankMask, sealed>>

(* Whatever touches neither POW_CNT nor the mask keeps it.                 *)
LEMMA UnchangedMask == MaskKept /\ UNCHANGED maskVars => MaskKept'
BY DEF MaskKept, maskVars, Unlocked

(* The bank a place lies in is the one resolve_bank masked, or no bank.    *)
LEMMA PlacedInBank ==
    ASSUME NEW bank, NEW offset, NEW write
    PROVE  /\ RamPlace(bank, offset, write).bank \subseteq bank
           /\ RomPlace(bank, offset, write).bank \subseteq bank
           /\ RamPlace(bank, offset, write).chip \in {"SRAM", "IPC", "TX", "NONE"}
           /\ RomPlace(bank, offset, write).chip \in {"PSRAM", "BOOT", "RX", "NONE"}
           /\ RamPlace(bank, offset, write).chip = "NONE" =>
                RamPlace(bank, offset, write).bank = {}
BY DEF RamPlace, RomPlace, Nowhere, At

(* With the mask kept and all windows locked, every window leads into the  *)
(* segment, wherever its register points.                                  *)
LEMMA SegmentHolds == MaskKept => Confined
<1> SUFFICES ASSUME MaskKept, Sealed,
                    NEW window \in Windows, NEW offset \in Offsets, NEW write \in BOOLEAN
             PROVE  InSegment(Place(window, offset, write), sealed)
    BY DEF Confined
<1>1. sealed = bankMask /\ {9, 10, 11} \subseteq bankMask
  BY DEF MaskKept, Sealed
<1>2. Masked(window)
  BY <1>1 DEF Masked, LockBit, Windows
<1>3. CASE window = 1 /\ ~flashEnable
  <2> DEFINE bank == ram \cap RamSegment(bankMask)
  <2>1. Place(window, offset, write) = RamPlace(bank, offset, write)
    BY <1>2, <1>3 DEF Place
  <2> HIDE DEF bank
  <2>2. bank \subseteq RamSegment(sealed)
    BY <1>1 DEF bank
  <2> QED BY <2>1, <2>2, PlacedInBank DEF InSegment
<1>4. CASE ~(window = 1 /\ ~flashEnable)
  <2> DEFINE bank == Selected(window) \cap RomSegment(bankMask)
  <2>1. Place(window, offset, write) = RomPlace(bank, offset, write)
    BY <1>2, <1>4 DEF Place
  <2> HIDE DEF bank
  <2>2. bank \subseteq RomSegment(sealed)
    BY <1>1 DEF bank
  <2> QED BY <2>1, <2>2, PlacedInBank DEF InSegment
<1> QED BY <1>3, <1>4

(* A store leaves POW_CNT and the mask alone.                              *)
LEMMA StoresKeepMask ==
    ASSUME NEW window, NEW offset, NEW value, CartWrite(window, offset, value)
    PROVE  UNCHANGED maskVars
<1>1. CASE FlashCommand(window, offset, value)
  BY <1>1 DEF FlashCommand, unstoredVars, maskVars
<1>2. CASE PlainWrite(window, offset, value)
  BY <1>2 DEF PlainWrite, unstoredVars, maskVars
<1> QED BY <1>1, <1>2 DEF CartWrite

(* So does a bank register, whichever port it is written through.          *)
LEMMA BanksKeepMask ==
    ASSUME NEW byte, BankWrite(byte)
    PROVE  UNCHANGED maskVars
<1>1. ASSUME NEW via, WriteRomL(via, byte) PROVE UNCHANGED maskVars
  BY <1>1 DEF WriteRomL, maskVars, spiVars, vars
<1>2. ASSUME NEW name, NEW via, WriteBankLow(name, via, byte) PROVE UNCHANGED maskVars
  BY <1>2 DEF WriteBankLow, SetBank, maskVars, spiVars, vars
<1>3. ASSUME NEW name, WriteBankHigh(name, byte) PROVE UNCHANGED maskVars
  BY <1>3 DEF WriteBankHigh, SetBank, maskVars, spiVars, vars
<1> QED BY <1>1, <1>2, <1>3 DEF BankWrite

(* The controller's registers and its transfers do as well, whatever the   *)
(* devices do.                                                             *)
LEMMA PortsKeepMask ==
    ASSUME PortWrite
    PROVE  UNCHANGED maskVars
<1>1. UNCHANGED <<bankMask, sealed>>
  BY DEF PortWrite, cartVars
<1>2. pow' = pow
  <2>1. ASSUME NEW lo, WriteLow(lo) PROVE pow' = pow
    BY <2>1 DEF WriteLow
  <2>2. ASSUME NEW new, WriteHigh(new) PROVE pow' = pow
    BY <2>2 DEF WriteHigh
  <2>3. CASE Move \/ Wait
    BY <2>3 DEF Move, Wait
  <2> QED BY <2>1, <2>2, <2>3 DEF PortWrite, SpiPort, Transfer
<1> QED BY <1>1, <1>2 DEF maskVars

(* The mask is written only while POW_CNT is unlocked, which stays so, and *)
(* a write of POW_CNT seals the mask as it is.                             *)
LEMMA ControlKeepsMask ==
    ASSUME MaskKept, ControlWrite
    PROVE  MaskKept'
<1>1. ASSUME NEW on, WriteFlashEnable(on) PROVE MaskKept'
  BY <1>1, UnchangedMask DEF WriteFlashEnable, maskVars, spiVars, vars
<1>2. ASSUME NEW bits, WriteEmu(bits) PROVE MaskKept'
  BY <1>2, UnchangedMask DEF WriteEmu, maskVars, spiVars, vars
<1>3. ASSUME NEW new, WriteMask(new) PROVE MaskKept'
  BY <1>3 DEF WriteMask, MaskKept, Unlocked, spiVars, vars
<1>4. ASSUME NEW new, PowWrite(new) PROVE MaskKept'
  BY <1>4 DEF PowWrite, MaskKept
<1> QED BY <1>1, <1>2, <1>3, <1>4 DEF ControlWrite

(* A warm boot or a reset of the console opens POW_CNT again.              *)
LEMMA RestartKeepsMask ==
    ASSUME CartWarmboot \/ CartReset
    PROVE  MaskKept'
BY DEF CartWarmboot, CartReset, Warmboot, ConsoleReset, MaskKept, Unlocked, PowUnlock, PowBits

(* Software started with POW_CNT locked and its windows locked into a      *)
(* segment reaches no place outside it, whatever it does to the banks.     *)
THEOREM ConfinedAlways == CartSpec => []Confined
<1>1. CartInit => MaskKept
  BY DEF CartInit, MaskKept
<1>2. MaskKept /\ [CartNext]_busAllVars => MaskKept'
  <2> SUFFICES ASSUME MaskKept, [CartNext]_busAllVars PROVE MaskKept'
    OBVIOUS
  <2>1. ASSUME NEW window, NEW offset, NEW value, CartWrite(window, offset, value)
        PROVE  MaskKept'
    BY <2>1, StoresKeepMask, UnchangedMask
  <2>2. ASSUME NEW byte, BankWrite(byte) PROVE MaskKept'
    BY <2>2, BanksKeepMask, UnchangedMask
  <2>3. CASE ControlWrite \/ PortWrite
    BY <2>3, ControlKeepsMask, PortsKeepMask, UnchangedMask
  <2>4. CASE CartWarmboot \/ CartReset
    BY <2>4, RestartKeepsMask
  <2>5. CASE UNCHANGED busAllVars
    BY <2>5, UnchangedMask DEF busAllVars, spiVars, vars, cartVars, maskVars
  <2> QED BY <2>1, <2>2, <2>3, <2>4, <2>5 DEF CartNext
<1> QED BY <1>1, <1>2, SegmentHolds, PTL DEF CartSpec
-----------------------------------------------------------------------------
(* Types of the cartridge's own registers and of what it has stored.       *)
registerVars == <<bankVars, flashEnable, emu, bankMask, sealed>>
Stored == \A c \in DOMAIN memory : c.chip \in {"SRAM", "IPC", "PSRAM", "BOOT"}

(* What a store leads to is a chip that keeps it, or the buffer to be      *)
(* sent, or nothing; the buffer that was received is never among them.     *)
LEMMA WrittenChips ==
    ASSUME NEW window, NEW offset, Place(window, offset, TRUE) # Nowhere,
           Place(window, offset, TRUE).chip # "TX"
    PROVE  Cell(Place(window, offset, TRUE)).chip \in {"SRAM", "IPC", "PSRAM", "BOOT"}
<1>1. ASSUME NEW bank, NEW place, place = RamPlace(bank, offset, TRUE),
             place # Nowhere, place.chip # "TX"
      PROVE  Cell(place).chip \in {"SRAM", "IPC", "PSRAM", "BOOT"}
  BY <1>1 DEF RamPlace, Cell, At
<1>2. ASSUME NEW bank, NEW place, place = RomPlace(bank, offset, TRUE), place # Nowhere
      PROVE  Cell(place).chip \in {"SRAM", "IPC", "PSRAM", "BOOT"}
  BY <1>2 DEF RomPlace, Cell, At
<1>3. CASE window = 1 /\ ~flashEnable
  BY <1>1, <1>3 DEF Place
<1>4. CASE ~(window = 1 /\ ~flashEnable)
  BY <1>2, <1>4 DEF Place
<1> QED BY <1>3, <1>4

LEMMA StoreKeepsStored ==
    ASSUME Stored, NEW window, NEW offset, NEW value,
           Place(window, offset, TRUE) # Nowhere,
           Store(Place(window, offset, TRUE), value)
    PROVE  Stored'
<1> DEFINE place == Place(window, offset, TRUE)
<1>1. CASE place.chip = "TX"
  BY <1>1 DEF Store, Stored
<1>2. CASE place.chip # "TX"
  <2>1. DOMAIN memory' = DOMAIN memory \cup {Cell(place)}
    BY <1>2 DEF Store
  <2>2. Cell(place).chip \in {"SRAM", "IPC", "PSRAM", "BOOT"}
    BY <1>2, WrittenChips
  <2> QED BY <2>1, <2>2, Zenon DEF Stored
<1> QED BY <1>1, <1>2

LEMMA StoresTyped ==
    ASSUME CartTypeOK, NEW window, NEW offset, NEW value, CartWrite(window, offset, value)
    PROVE  CartTypeOK'
<1>1. UNCHANGED registerVars /\ wwState' \in WwStates
  <2>1. CASE FlashCommand(window, offset, value)
    <3>1. FsmNext(value) \in WwStates
      BY DEF FsmNext, AfterSecondUnlock, WwStates
    <3> QED BY <2>1, <3>1 DEF FlashCommand, registerVars
  <2>2. CASE PlainWrite(window, offset, value)
    BY <2>2 DEF PlainWrite, registerVars, CartTypeOK
  <2> QED BY <2>1, <2>2 DEF CartWrite
<1>2. Stored'
  <2> DEFINE place == Place(window, offset, TRUE)
  <2>1. CASE memory' = memory
    BY <2>1 DEF CartTypeOK, Stored
  <2>2. CASE place # Nowhere /\ Store(place, value)
    BY <2>2, StoreKeepsStored DEF CartTypeOK, Stored
  <2> QED BY <2>1, <2>2 DEF CartWrite, FlashCommand, PlainWrite
<1> QED BY <1>1, <1>2 DEF CartTypeOK, Stored, registerVars, bankVars

LEMMA WidthKept ==
    ASSUME NEW old \in SUBSET (0 .. 15), NEW byte \in SUBSET LowByte
    PROVE  /\ LowWritten(old, byte) \in SUBSET (0 .. 15)
           /\ HighWritten(old, byte) \in SUBSET (0 .. 15)
BY DEF LowWritten, HighWritten, Raised, LowByte, HighByte

LEMMA BanksTyped ==
    ASSUME CartTypeOK, NEW byte \in SUBSET LowByte, BankWrite(byte)
    PROVE  CartTypeOK'
<1>1. ASSUME NEW via, WriteRomL(via, byte) PROVE CartTypeOK'
  BY <1>1 DEF WriteRomL, CartTypeOK
<1>2. \A old \in SUBSET (0 .. 15) : /\ LowWritten(old, byte) \in SUBSET (0 .. 15)
                                    /\ HighWritten(old, byte) \in SUBSET (0 .. 15)
  BY WidthKept
<1>3. ASSUME NEW name, NEW new \in SUBSET (0 .. 15), SetBank(name, new) PROVE CartTypeOK'
  BY <1>3 DEF SetBank, CartTypeOK
<1>4. \A name : Bank(name) \in SUBSET (0 .. 15)
  BY DEF Bank, CartTypeOK
<1>5. ASSUME NEW name, NEW via, WriteBankLow(name, via, byte) PROVE CartTypeOK'
  BY <1>2, <1>3, <1>4, <1>5 DEF WriteBankLow
<1>6. ASSUME NEW name, WriteBankHigh(name, byte) PROVE CartTypeOK'
  BY <1>2, <1>3, <1>4, <1>6 DEF WriteBankHigh
<1> QED BY <1>1, <1>5, <1>6 DEF BankWrite

LEMMA ControlTyped ==
    ASSUME CartTypeOK, ControlWrite
    PROVE  CartTypeOK'
<1>1. ASSUME NEW on \in BOOLEAN, WriteFlashEnable(on) PROVE CartTypeOK'
  BY <1>1 DEF WriteFlashEnable, CartTypeOK, bankVars
<1>2. ASSUME NEW bits \in SUBSET EmuBits, WriteEmu(bits) PROVE CartTypeOK'
  BY <1>2 DEF WriteEmu, CartTypeOK, bankVars
<1>3. ASSUME NEW byte \in SUBSET LowByte, NEW new,
             new \in {LowWritten(bankMask, byte), HighWritten(bankMask, byte)}, WriteMask(new)
      PROVE  CartTypeOK'
  <2>1. bankMask \in SUBSET (0 .. 15)
    BY DEF CartTypeOK
  <2>2. new \in SUBSET (0 .. 15)
    BY <1>3, <2>1, WidthKept, Zenon
  <2> QED BY <1>3, <2>2 DEF WriteMask, CartTypeOK, bankVars
<1>4. ASSUME NEW new, PowWrite(new) PROVE CartTypeOK'
  BY <1>4 DEF PowWrite, CartTypeOK, bankVars
<1> QED BY <1>1, <1>2, <1>3, <1>4 DEF ControlWrite

LEMMA BlankTyped ==
    ASSUME CartTypeOK, CartBlank
    PROVE  CartTypeOK'
<1>1. DOMAIN memory' \subseteq DOMAIN memory
  BY DEF CartBlank
<1> QED BY <1>1 DEF CartBlank, CartTypeOK, LowByte, WwStates, EmuBits

(* The registers keep their width through the byte writes, the flash state *)
(* machine knows its next state for every byte, and nothing is stored to   *)
(* the buffer that holds what was received.                                *)
THEOREM CartTypeCorrect == CartSpec => []CartTypeOK
<1>1. CartInit => CartTypeOK
  BY DEF CartInit, CartTypeOK, LowByte, WwStates, EmuBits
<1>2. CartTypeOK /\ [CartNext]_busAllVars => CartTypeOK'
  <2> SUFFICES ASSUME CartTypeOK, [CartNext]_busAllVars PROVE CartTypeOK'
    OBVIOUS
  <2>1. UNCHANGED cartVars => CartTypeOK'
    BY DEF cartVars, bankVars, CartTypeOK
  <2>2. CASE PortWrite \/ UNCHANGED busAllVars
    BY <2>1, <2>2 DEF PortWrite, busAllVars
  <2>3. CASE CartWarmboot \/ CartReset
    BY <2>3, BlankTyped DEF CartWarmboot, CartReset
  <2> QED BY <2>2, <2>3, StoresTyped, BanksTyped, ControlTyped DEF CartNext
<1> QED BY <1>1, <1>2, PTL DEF CartSpec
-----------------------------------------------------------------------------
(* The command state machine: what each of its states remembers of the     *)
(* bytes that were said.                                                   *)
HeardAt(q, n, bytes) == \A i \in 1 .. Len(bytes) : q[n + i - 1] = bytes[i]
UnlockOf(q, n) == n >= 3 /\ HeardAt(q, n - 2, <<170, 85, 160>>)
FastOf(q, n) == \E k \in 1 .. n - 2 : HeardAt(q, k, <<170, 85, 32>>)
Remembers ==
    LET n == Len(said)
    IN  /\ said \in Seq(Byte)
        /\ wwState = "UNLOCK_1" => n >= 1 /\ said[n] = 170
        /\ wwState = "UNLOCK_2" => n >= 2 /\ said[n - 1] = 170 /\ said[n] = 85
        /\ wwState = "WRITE" => UnlockOf(said, n)
        /\ wwState \in {"FAST", "FAST_WRITE"} => FastOf(said, n)
        /\ wwState = "FAST_WRITE" => n >= 4 /\ said[n] = 160 /\ FastOf(said, n - 1)
saidVars == <<said, wwState>>

(* What was said before stays said.                                        *)
LEMMA StillFast ==
    ASSUME NEW q \in Seq(Byte), NEW b \in Byte, FastOf(q, Len(q))
    PROVE  FastOf(Append(q, b), Len(q)) /\ FastOf(Append(q, b), Len(q) + 1)
<1>1. PICK k \in 1 .. Len(q) - 2 : HeardAt(q, k, <<170, 85, 32>>)
  BY DEF FastOf
<1>2. HeardAt(Append(q, b), k, <<170, 85, 32>>)
  BY <1>1 DEF HeardAt
<1> QED BY <1>2 DEF FastOf

(* A command takes the machine to a state that remembers it.               *)
LEMMA CommandRemembered ==
    ASSUME Remembers, NEW value \in Byte,
           said' = Append(said, value), wwState' = FsmNext(value)
    PROVE  Remembers'
<1> DEFINE n == Len(said)
<1>1. /\ said' \in Seq(Byte) /\ Len(said') = n + 1 /\ said'[n + 1] = value
      /\ n \in Nat /\ \A i \in 1 .. n : said'[i] = said[i]
  BY DEF Remembers
<1> HIDE DEF n
<1>2. wwState' = "UNLOCK_1" => said'[n + 1] = 170
  BY <1>1 DEF FsmNext, AfterSecondUnlock
<1>3. wwState' = "UNLOCK_2" => n + 1 >= 2 /\ said'[n] = 170 /\ said'[n + 1] = 85
  <2>1. wwState' = "UNLOCK_2" => wwState = "UNLOCK_1" /\ value = 85
    BY DEF FsmNext, AfterSecondUnlock
  <2>2. wwState = "UNLOCK_1" => n >= 1 /\ said[n] = 170
    BY DEF Remembers, n
  <2> QED BY <1>1, <2>1, <2>2
<1>4. wwState = "UNLOCK_2" => n >= 2 /\ said'[n - 1] = 170 /\ said'[n] = 85
  BY <1>1 DEF Remembers, n
<1>5. wwState' = "WRITE" => UnlockOf(said', n + 1)
  <2>1. wwState' = "WRITE" => wwState = "UNLOCK_2" /\ value = 160
    BY DEF FsmNext, AfterSecondUnlock
  <2> QED BY <1>1, <1>4, <2>1 DEF UnlockOf, HeardAt
<1>6. wwState \in {"FAST", "FAST_WRITE"} => FastOf(said', n) /\ FastOf(said', n + 1)
  BY StillFast DEF Remembers, n
<1>7. wwState' \in {"FAST", "FAST_WRITE"} => FastOf(said', n + 1)
  <2>1. wwState' \in {"FAST", "FAST_WRITE"} =>
           wwState \in {"FAST", "FAST_WRITE"} \/ (wwState = "UNLOCK_2" /\ value = 32)
    BY DEF FsmNext, AfterSecondUnlock
  <2>2. ASSUME wwState = "UNLOCK_2", value = 32 PROVE FastOf(said', n + 1)
    <3>1. HeardAt(said', n - 1, <<170, 85, 32>>)
      BY <1>1, <1>4, <2>2 DEF HeardAt
    <3> QED BY <1>1, <1>4, <2>2, <3>1 DEF FastOf
  <2> QED BY <1>6, <2>1, <2>2
<1>8. wwState' = "FAST_WRITE" => n >= 3 /\ said'[n + 1] = 160 /\ FastOf(said', n)
  <2>1. wwState' = "FAST_WRITE" => wwState = "FAST" /\ value = 160
    BY DEF FsmNext, AfterSecondUnlock
  <2>2. FastOf(said', n) => n >= 3
    BY <1>1 DEF FastOf
  <2> QED BY <1>1, <1>6, <2>1, <2>2
<1> QED BY <1>1, <1>2, <1>3, <1>5, <1>7, <1>8 DEF Remembers

(* A command that comes while the machine programs was asked for.          *)
LEMMA ProgramsAsked ==
    ASSUME Remembers, Programs, NEW value \in Byte, said' = Append(said, value)
    PROVE  Asked(Len(said'))
<1> DEFINE n == Len(said)
<1>1. Len(said') = n + 1 /\ n \in Nat /\ \A i \in 1 .. n : said'[i] = said[i]
  BY DEF Remembers
<1> HIDE DEF n
<1>2. CASE wwState = "WRITE"
  <2>1. n >= 3 /\ said[n - 2] = 170 /\ said[n - 1] = 85 /\ said[n] = 160
    BY <1>2 DEF Remembers, UnlockOf, HeardAt, n
  <2>2. SaidAt(n - 2, <<170, 85>>)
    BY <1>1, <2>1 DEF SaidAt
  <2>3. Len(said') - 1 = n /\ Len(said') - 3 = n - 2 /\ Len(said') >= 4 /\ said'[n] = 160
    BY <1>1, <2>1
  <2> QED BY <2>2, <2>3 DEF Asked
<1>3. CASE wwState = "FAST_WRITE"
  <2>1. n >= 4 /\ said[n] = 160 /\ FastOf(said, n - 1)
    BY <1>3 DEF Remembers, n
  <2>2. PICK k \in 1 .. n - 3 : HeardAt(said, k, <<170, 85, 32>>)
    BY <1>1, <2>1 DEF FastOf
  <2>3. SaidAt(k, <<170, 85, 32>>)
    BY <1>1, <2>2 DEF SaidAt, HeardAt
  <2>4. Len(said') - 1 = n /\ Len(said') - 4 = n - 3 /\ Len(said') >= 4 /\ said'[n] = 160
    BY <1>1, <2>1
  <2> QED BY <2>2, <2>3, <2>4 DEF Asked
<1> QED BY <1>2, <1>3 DEF Programs

(* Only commands and restarts touch what was said.                         *)
LEMMA ElsewhereUnsaid ==
    ASSUME CartNext
    PROVE  \/ UNCHANGED saidVars
           \/ said' = <<>> /\ wwState' = "READ"
           \/ \E window \in Windows, offset \in Offsets, value \in Byte :
                 FlashCommand(window, offset, value)
<1>1. ASSUME NEW window, NEW offset, NEW value, PlainWrite(window, offset, value)
      PROVE  UNCHANGED saidVars
  BY <1>1 DEF PlainWrite, saidVars
<1>2. ASSUME NEW byte, BankWrite(byte) PROVE UNCHANGED saidVars
  <2>1. ASSUME NEW via, WriteRomL(via, byte) PROVE UNCHANGED saidVars
    BY <2>1 DEF WriteRomL, saidVars
  <2>2. ASSUME NEW name, NEW new, SetBank(name, new) PROVE UNCHANGED saidVars
    BY <2>2 DEF SetBank, saidVars
  <2> QED BY <1>2, <2>1, <2>2 DEF BankWrite, WriteBankLow, WriteBankHigh
<1>3. CASE ControlWrite
  <2>1. ASSUME NEW on, WriteFlashEnable(on) PROVE UNCHANGED saidVars
    BY <2>1 DEF WriteFlashEnable, saidVars
  <2>2. ASSUME NEW bits, WriteEmu(bits) PROVE UNCHANGED saidVars
    BY <2>2 DEF WriteEmu, saidVars
  <2>3. ASSUME NEW new, WriteMask(new) PROVE UNCHANGED saidVars
    BY <2>3 DEF WriteMask, saidVars
  <2>4. ASSUME NEW new, PowWrite(new) PROVE UNCHANGED saidVars
    BY <2>4 DEF PowWrite, saidVars
  <2> QED BY <1>3, <2>1, <2>2, <2>3, <2>4 DEF ControlWrite
<1>4. CASE PortWrite
  BY <1>4 DEF PortWrite, cartVars, saidVars
<1>5. CASE CartWarmboot \/ CartReset
  BY <1>5 DEF CartWarmboot, CartReset, CartBlank
<1> QED BY <1>1, <1>2, <1>3, <1>4, <1>5 DEF CartNext, CartWrite

LEMMA RememberedOn == Remembers /\ [CartNext]_busAllVars => Remembers'
<1> SUFFICES ASSUME Remembers, [CartNext]_busAllVars PROVE Remembers'
    OBVIOUS
<1>1. CASE UNCHANGED saidVars
  BY <1>1 DEF Remembers, saidVars
<1>2. CASE said' = <<>> /\ wwState' = "READ"
  BY <1>2 DEF Remembers
<1>3. ASSUME NEW window, NEW offset, NEW value \in Byte, FlashCommand(window, offset, value)
      PROVE  Remembers'
  BY <1>3, CommandRemembered DEF FlashCommand
<1>4. UNCHANGED busAllVars => UNCHANGED saidVars
  BY DEF busAllVars, cartVars, saidVars
<1> QED BY <1>1, <1>2, <1>3, <1>4, ElsewhereUnsaid

(* The flash chip stores a byte only right after A0, which came right      *)
(* after AA 55 or in a fast mode that AA 55 20 entered: for any bytes,     *)
(* any banks and any resets between them.                                  *)
THEOREM StoresOnlyWhenAsked == CartSpec => OnlyAskedPrograms
<1>1. CartInit => Remembers
  BY DEF CartInit, Remembers
<1>2. ASSUME Remembers, [CartNext]_busAllVars,
             Len(said') > Len(said), <<memory, txBuf>>' # <<memory, txBuf>>
      PROVE  Asked(Len(said'))
  <2>1. Len(said) \in Nat /\ Len(<<>>) = 0
    BY <1>2 DEF Remembers
  <2>2. ~ UNCHANGED saidVars /\ said' # <<>>
    BY <1>2, <2>1 DEF saidVars
  <2>3. ~ UNCHANGED busAllVars
    BY <2>2 DEF busAllVars, cartVars, saidVars
  <2>4. PICK window \in Windows, offset \in Offsets, value \in Byte :
           FlashCommand(window, offset, value)
    BY <1>2, <2>2, <2>3, ElsewhereUnsaid
  <2>5. Programs /\ said' = Append(said, value)
    BY <1>2, <2>4 DEF FlashCommand
  <2> QED BY <1>2, <2>5, ProgramsAsked
<1> QED BY <1>1, <1>2, RememberedOn, PTL DEF CartSpec, OnlyAskedPrograms

-----------------------------------------------------------------------------
(* The flash.                                                              *)

(* What is left of a queue, and a byte more in it.                         *)
LEMMA FlashQueues ==
    ASSUME NEW q \in Seq(Flash!Byte), NEW n \in Nat
    PROVE  /\ Flash!Pop(q, n) \in Seq(Flash!Byte)
           /\ Len(Flash!Pop(q, n)) = IF n < Len(q) THEN Len(q) - n ELSE 0
           /\ \A b \in Flash!Byte : Append(q, b) \in Seq(Flash!Byte)
<1>1. CASE n + 1 <= Len(q)
  BY <1>1, SubSeqProperties DEF Flash!Pop
<1>2. CASE ~(n + 1 <= Len(q))
  BY <1>2 DEF Flash!Pop
<1> QED BY <1>1, <1>2

LEMMA FlashByteIsNat == \A b \in Flash!Byte : b \in Nat
BY DEF Flash!Byte

LEMMA IdentityTyped == \A c : Flash!IdentityBytes(c) \in Seq(Flash!Byte)
<1>1. \A n \in {3, 4} : Flash!Fill(n, 255) \in Seq(Flash!Byte)
  BY DEF Flash!Fill, Flash!Byte
<1>2. /\ <<1, 35, 69, 103, 137, 171, 205, 239>> \in Seq(Flash!Byte)
      /\ <<239, 20>> \in Seq(Flash!Byte) /\ <<239, 64, 21>> \in Seq(Flash!Byte)
      /\ <<20>> \in Seq(Flash!Byte)
  BY DEF Flash!Byte
<1> QED BY <1>1, <1>2, ConcatProperties DEF Flash!IdentityBytes, Flash!FillByte

(* A command that is complete takes its bytes out of the queue, and one    *)
(* that waits for more has less than four.                                 *)
LEMMA CommandTyped ==
    ASSUME Flash!FlashTypeOK, halted \in BOOLEAN, NEW b \in Flash!Byte, Flash!CommandByte(b)
    PROVE  Flash!FlashTypeOK' /\ halted' \in BOOLEAN
<1> DEFINE r == Append(flashRx, b)
<1>1. /\ flashTx \in Seq(Flash!Byte) /\ flashRx \in Seq(Flash!Byte) /\ Len(flashRx) <= 3
      /\ position \in Nat
  BY DEF Flash!FlashTypeOK
<1>2. r \in Seq(Flash!Byte) /\ Len(r) <= 4 /\ Len(r) \in Nat
  BY <1>1
<1>3. \A n \in {1, 4} : /\ Flash!Pop(flashTx, n) \in Seq(Flash!Byte)
                        /\ Flash!Pop(r, n) \in Seq(Flash!Byte) /\ Len(Flash!Pop(r, n)) <= 3
  <2> SUFFICES ASSUME NEW n \in {1, 4}
               PROVE  /\ Flash!Pop(flashTx, n) \in Seq(Flash!Byte)
                      /\ Flash!Pop(r, n) \in Seq(Flash!Byte) /\ Len(Flash!Pop(r, n)) <= 3
      OBVIOUS
  <2>1. n \in Nat /\ n >= 1
    OBVIOUS
  <2> HIDE DEF r
  <2>2. Flash!Pop(flashTx, n) \in Seq(Flash!Byte)
    BY <1>1, <2>1, FlashQueues
  <2>3. /\ Flash!Pop(r, n) \in Seq(Flash!Byte)
        /\ Len(Flash!Pop(r, n)) = IF n < Len(r) THEN Len(r) - n ELSE 0
    BY <1>2, <2>1, FlashQueues
  <2> QED BY <1>2, <2>1, <2>2, <2>3
<1> HIDE DEF r
<1>4. CASE Flash!HeaderWaits(r)
  BY <1>2, <1>3, <1>4 DEF Flash!HeaderWaits, Flash!FlashTypeOK
<1>5. CASE Flash!AddressGiven(r)
  <2>1. Flash!Address(r) \in Nat
    <3>1. r[2] \in Flash!Byte /\ r[3] \in Flash!Byte /\ r[4] \in Flash!Byte
      BY <1>2, <1>5 DEF Flash!AddressGiven
    <3>2. r[2] \in Nat /\ r[3] \in Nat /\ r[4] \in Nat
      BY <3>1, FlashByteIsNat
    <3> QED BY <3>2 DEF Flash!Address
  <2> QED BY <1>3, <1>5, <2>1 DEF Flash!AddressGiven, Flash!FlashTypeOK
<1>6. CASE Flash!StatusAsked(r)
  BY <1>3, <1>6 DEF Flash!StatusAsked, Flash!FlashTypeOK
<1>7. CASE Flash!IdentityAsked(r)
  <2>1. flashTx' \in Seq(Flash!Byte) /\ halted' \in BOOLEAN
    <3>1. Flash!Pop(flashTx, 1) \o Flash!IdentityBytes(r[1]) \in Seq(Flash!Byte)
      BY <1>3, IdentityTyped, ConcatProperties
    <3> QED BY <1>1, <1>7, <3>1 DEF Flash!IdentityAsked
  <2> QED BY <1>3, <1>7, <2>1 DEF Flash!IdentityAsked, Flash!FlashTypeOK
<1>8. CASE Flash!WriteLatchSet(r)
  BY <1>3, <1>8 DEF Flash!WriteLatchSet, Flash!FlashTypeOK
<1>9. CASE Flash!NoCommand(r)
  BY <1>3, <1>9 DEF Flash!NoCommand, Flash!FlashTypeOK
<1> QED BY <1>4, <1>5, <1>6, <1>7, <1>8, <1>9 DEF Flash!CommandByte, r

LEMMA NextInPageTyped == \A a \in Nat : Flash!NextInPage(a) \in Nat
<1> SUFFICES ASSUME NEW a \in Nat PROVE Flash!NextInPage(a) \in Nat
    OBVIOUS
<1>1. PageSize \in Nat \ {0}
  BY DeviceAssumption DEF Flash!FlashAssumption
<1>2. a \div PageSize \in Nat /\ (a + 1) % PageSize \in Nat
  BY <1>1
<1>3. \A n \in Nat : PageSize * n \in Nat
  BY <1>1
<1> QED BY <1>2, <1>3 DEF Flash!NextInPage

LEMMA FlashExchangeTyped ==
    ASSUME Flash!FlashTypeOK, halted \in BOOLEAN, NEW b \in Flash!Byte, Flash!FlashExchange(b)
    PROVE  Flash!FlashTypeOK' /\ halted' \in BOOLEAN
<1>1. CASE Flash!ReadByte
  BY <1>1 DEF Flash!ReadByte, Flash!FlashTypeOK
<1>2. CASE Flash!ProgramByte(b)
  BY <1>2, NextInPageTyped DEF Flash!ProgramByte, Flash!FlashTypeOK
<1>3. CASE Flash!StatusByte
  BY <1>3 DEF Flash!StatusByte, Flash!FlashTypeOK, Flash!flashVars
<1> QED BY <1>1, <1>2, <1>3, CommandTyped DEF Flash!FlashExchange

LEMMA FlashAnswerTyped == Flash!FlashTypeOK => Flash!FlashAnswer \in Flash!Byte
<1> SUFFICES ASSUME Flash!FlashTypeOK PROVE Flash!FlashAnswer \in Flash!Byte
    OBVIOUS
<1>1. {144, 0, 2, 255} \subseteq Flash!Byte
  BY DEF Flash!Byte
<1>2. Flash!First(flashTx) \in Flash!Byte
  <2>1. flashTx \in Seq(Flash!Byte)
    BY DEF Flash!FlashTypeOK
  <2>2. flashTx # <<>> => Head(flashTx) \in Flash!Byte
    BY <2>1
  <2> QED BY <1>1, <2>2 DEF Flash!First, Flash!FillByte
<1> QED BY <1>1, <1>2 DEF Flash!FlashAnswer, Flash!FlashTypeOK, Flash!FillByte

(* Deselected, reset or started, it has empty queues.                      *)
LEMMA FlashRestTyped ==
    /\ Flash!FlashTypeOK /\ Flash!FlashDeselect => Flash!FlashTypeOK' /\ Flash!FlashIdle'
    /\ Flash!FlashTypeOK /\ Flash!FlashReset => Flash!FlashTypeOK' /\ Flash!FlashIdle'
    /\ Flash!FlashInit /\ image = FirstImage => Flash!FlashTypeOK /\ Flash!FlashIdle
<1>1. <<>> \in Seq(Flash!Byte) /\ Len(<<>>) = 0 /\ 0 \in Nat
  OBVIOUS
<1>2. Flash!FlashTypeOK /\ Flash!FlashDeselect => Flash!FlashTypeOK' /\ Flash!FlashIdle'
  BY <1>1 DEF Flash!FlashDeselect, Flash!FlashIdle, Flash!FlashTypeOK
<1>3. Flash!FlashTypeOK /\ Flash!FlashReset => Flash!FlashTypeOK' /\ Flash!FlashIdle'
  <2>1. Flash!FlashReset => writeEnabled' \in BOOLEAN
    BY Zenon DEF Flash!FlashReset
  <2> QED BY <1>1, <2>1 DEF Flash!FlashReset, Flash!FlashIdle, Flash!FlashTypeOK
<1>4. \A a \in DOMAIN FirstImage : a \in Nat /\ FirstImage[a] \in Flash!Byte
  BY SpiAssumption DEF Flash!Byte
<1>5. Flash!FlashInit /\ image = FirstImage => Flash!FlashTypeOK /\ Flash!FlashIdle
  <2>1. Flash!FlashInit => writeEnabled \in BOOLEAN
    BY Zenon DEF Flash!FlashInit
  <2> QED BY <1>1, <1>4, <2>1 DEF Flash!FlashInit, Flash!FlashIdle, Flash!FlashTypeOK
<1> QED BY <1>2, <1>3, <1>5

-----------------------------------------------------------------------------
(* Induction over the natural numbers, with a set for the property.        *)
LessThan == {ss \in Nat \X Nat : ss[1] < ss[2]}
LEMMA LeastElement ==
    ASSUME NEW S, S \subseteq Nat, S # {}
    PROVE  \E x \in S : \A y \in S : x <= y
<1>1. IsWellFoundedOn(LessThan, Nat)
  BY NatLessThanWellFounded DEF OpToRel, LessThan
<1>2. PICK x \in S : \A y \in S : ~(<<y, x>> \in LessThan)
  BY <1>1, WFMin, Zenon
<1>3. ASSUME NEW y \in S, y < x PROVE FALSE
  <2>1. <<y, x>> \in Nat \X Nat /\ <<y, x>>[1] < <<y, x>>[2]
    BY <1>3
  <2>2. <<y, x>> \in LessThan
    BY <2>1 DEF LessThan
  <2> QED BY <1>2, <2>2
<1>4. \A y \in S : x <= y
  BY <1>3
<1> QED BY <1>4

LEMMA Induction ==
    ASSUME NEW S, S \subseteq Nat, 0 \in S, \A n \in S : n + 1 \in S
    PROVE  S = Nat
<1> SUFFICES ASSUME Nat \ S # {} PROVE FALSE
    OBVIOUS
<1>1. PICK x \in Nat \ S : \A y \in Nat \ S : x <= y
  <2>1. Nat \ S \subseteq Nat
    OBVIOUS
  <2> QED BY <2>1, LeastElement, Zenon
<1>2. x # 0 /\ x - 1 \in Nat /\ x - 1 + 1 = x
  BY <1>1
<1>3. x - 1 \in S
  BY <1>1, <1>2
<1> QED BY <1>1, <1>2, <1>3

-----------------------------------------------------------------------------
(* The card.                                                               *)
CardFiles == UNION {[0 .. n - 1 -> Tf!Byte] : n \in Nat}
Cards ==
    [tx : Seq(Tf!Byte), rx : Seq(Tf!Byte), status : {0, 1}, reading : BOOLEAN,
     writing : {"no", "single", "multiple"}, bytes : CardFiles, pos : Nat,
     eof : BOOLEAN, down : BOOLEAN]

LEMMA CardSize ==
    ASSUME NEW c \in Cards
    PROVE  Tf!Size(c) \in Nat /\ c.bytes \in [0 .. Tf!Size(c) - 1 -> Tf!Byte]
<1>1. PICK n \in Nat : c.bytes \in [0 .. n - 1 -> Tf!Byte]
  BY DEF Cards, CardFiles
<1>2. Cardinality(0 .. n - 1) = n
  BY FS_Interval
<1>3. Tf!Size(c) = n
  <2>1. DOMAIN c.bytes = 0 .. n - 1
    BY <1>1
  <2>2. \A S : Tf!Cardinality(S) = Cardinality(S)
    BY DEF Tf!Cardinality, Cardinality
  <2> QED BY <1>2, <2>1, <2>2 DEF Tf!Size
<1> QED BY <1>1, <1>3

LEMMA TfByteRange == /\ \A b \in Tf!Byte : b \in Nat /\ b < 256
                     /\ \A n \in Nat : n < 256 => n \in Tf!Byte
BY DEF Tf!Byte

LEMMA PushTyped ==
    ASSUME NEW c \in Cards, NEW bytes \in Seq(Tf!Byte)
    PROVE  Tf!Push(c, bytes) \in Cards
<1>1. c.tx \o bytes \in Seq(Tf!Byte)
  BY ConcatProperties DEF Cards
<1> QED BY <1>1 DEF Tf!Push, Cards

LEMMA TakeTyped ==
    ASSUME NEW c \in Cards, NEW b \in Tf!Byte
    PROVE  Tf!Take(c, b) \in Cards
<1>1. Append(c.rx, b) \in Seq(Tf!Byte)
  BY DEF Cards
<1> QED BY <1>1 DEF Tf!Take, Cards

LEMMA TfPopTyped ==
    ASSUME NEW q \in Seq(Tf!Byte), NEW n \in Nat
    PROVE  Tf!Pop(q, n) \in Seq(Tf!Byte)
<1>1. CASE n + 1 <= Len(q)
  BY <1>1, SubSeqProperties DEF Tf!Pop
<1>2. CASE ~(n + 1 <= Len(q))
  BY <1>2 DEF Tf!Pop
<1> QED BY <1>1, <1>2

LEMMA StripTyped ==
    ASSUME NEW q \in Seq(Tf!Byte), NEW limit
    PROVE  Tf!Strip(q, limit) \in Seq(Tf!Byte)
<1> DEFINE I == {i \in 1 .. Len(q) : q[i] < limit}
           first == IF I # {} THEN Tf!Min(I) ELSE 0
<1>1. Tf!Strip(q, limit) = IF first = 0 THEN <<>> ELSE SubSeq(q, first, Len(q))
  BY DEF Tf!Strip, Tf!SelectInSeq
<1>2. first # 0 => first \in 1 .. Len(q)
  <2>1. ASSUME I # {} PROVE Tf!Min(I) \in I
    <3>1. I \subseteq Nat
      OBVIOUS
    <3> HIDE DEF I
    <3>2. \E x \in I : \A y \in I : x <= y
      BY <2>1, <3>1, LeastElement
    <3> QED BY <3>2, Zenon DEF Tf!Min
  <2> QED BY <2>1
<1> HIDE DEF first
<1>3. CASE first # 0
  BY <1>1, <1>2, <1>3, SubSeqProperties
<1> QED BY <1>1, <1>3

LEMMA BlockTyped ==
    ASSUME NEW c \in Cards
    PROVE  Tf!Block(c) \in Seq(Tf!Byte) /\ Len(Tf!Block(c)) = DataLen
<1>1. DataLen \in Nat
  BY DeviceAssumption DEF Tf!TfAssumption
<1>2. ASSUME NEW i \in 1 .. DataLen
      PROVE  (IF ~HasCard THEN (i - 1) % 256
              ELSE IF c.eof \/ c.pos + i > Tf!Size(c) THEN Tf!FillByte
              ELSE c.bytes[c.pos + i - 1]) \in Tf!Byte
  <2>1. (i - 1) % 256 \in Tf!Byte /\ Tf!FillByte \in Tf!Byte
    BY <1>1, TfByteRange DEF Tf!FillByte
  <2>2. ASSUME ~(c.pos + i > Tf!Size(c)) PROVE c.bytes[c.pos + i - 1] \in Tf!Byte
    <3>1. c.pos \in Nat /\ Tf!Size(c) \in Nat /\ c.bytes \in [0 .. Tf!Size(c) - 1 -> Tf!Byte]
      BY CardSize DEF Cards
    <3>2. c.pos + i - 1 \in 0 .. Tf!Size(c) - 1
      BY <1>1, <2>2, <3>1
    <3> QED BY <3>1, <3>2
  <2> QED BY <2>1, <2>2
<1> QED BY <1>1, <1>2 DEF Tf!Block

LEMMA AfterBlockTyped ==
    ASSUME NEW c \in Cards
    PROVE  Tf!AfterBlock(c) \in Cards
<1>1. DataLen \in Nat /\ Tf!Size(c) \in Nat /\ c.pos \in Nat
  BY CardSize, DeviceAssumption DEF Tf!TfAssumption, Cards
<1>2. (IF c.pos > Tf!Size(c) THEN c.pos
       ELSE Tf!Least(c.pos + DataLen, Tf!Size(c))) \in Nat
  BY <1>1 DEF Tf!Least
<1>3. (c.pos + DataLen > Tf!Size(c)) \in BOOLEAN
  BY <1>1
<1> QED BY <1>2, <1>3 DEF Tf!AfterBlock, Cards

LEMMA StoreTyped ==
    ASSUME NEW c \in Cards, Tf!BlockIn(c)
    PROVE  Tf!Store(c) \in Cards
<1>1. DataLen \in Nat \ {0} /\ Tf!Size(c) \in Nat /\ c.pos \in Nat /\ c.rx \in Seq(Tf!Byte)
  BY CardSize, DeviceAssumption DEF Tf!TfAssumption, Cards
<1> DEFINE n == IF Tf!Size(c) > c.pos + DataLen THEN Tf!Size(c) ELSE c.pos + DataLen
           file == [a \in 0 .. n - 1 |->
                      IF a \in c.pos .. c.pos + DataLen - 1 THEN c.rx[a - c.pos + 2]
                      ELSE IF a \in DOMAIN c.bytes THEN c.bytes[a] ELSE 0]
<1>2. n \in Nat
  BY <1>1
<1>3. ASSUME NEW a \in 0 .. n - 1 PROVE file[a] \in Tf!Byte
  <2>1. CASE a \in c.pos .. c.pos + DataLen - 1
    <3>1. a - c.pos + 2 \in 1 .. Len(c.rx)
      <4>1. Len(c.rx) \in Nat /\ Len(c.rx) >= DataLen + 3
        BY <1>1 DEF Tf!BlockIn
      <4>2. a >= c.pos /\ a <= c.pos + DataLen - 1 /\ a \in Int
        BY <1>1, <2>1
      <4> HIDE DEF n, file
      <4> QED BY <1>1, <4>1, <4>2
    <3> QED BY <1>1, <2>1, <3>1
  <2>2. c.bytes \in [0 .. Tf!Size(c) - 1 -> Tf!Byte] /\ 0 \in Tf!Byte
    BY CardSize, TfByteRange
  <2> QED BY <2>1, <2>2
<1>4. file \in CardFiles
  <2>1. file \in [0 .. n - 1 -> Tf!Byte]
    BY <1>3
  <2> HIDE DEF n, file
  <2> QED BY <1>2, <2>1 DEF CardFiles
<1>5. c.pos + DataLen \in Nat
  BY <1>1
<1>6. Tf!Store(c) = IF ~HasCard THEN [c EXCEPT !.down = TRUE] ELSE IF c.eof THEN c
                    ELSE [c EXCEPT !.bytes = file, !.pos = c.pos + DataLen]
  BY DEF Tf!Store
<1> HIDE DEF n, file
<1> QED BY <1>4, <1>5, <1>6 DEF Cards

LEMMA SeekTyped ==
    ASSUME NEW c \in Cards, NEW a \in Nat
    PROVE  Tf!Seek(c, a) \in Cards
BY DEF Tf!Seek, Cards

LEMMA BytesTyped ==
    /\ \A a \in Tf!Byte : <<a>> \in Seq(Tf!Byte)
    /\ \A a, b \in Tf!Byte : <<a, b>> \in Seq(Tf!Byte)
    /\ \A n \in Nat, b \in Tf!Byte : Tf!Fill(n, b) \in Seq(Tf!Byte)
BY DEF Tf!Fill

Spelt(w, x, y, z) == 16777216 * w + 65536 * x + 256 * y + z
LEMMA SpeltTyped == \A w, x, y, z \in Nat : Spelt(w, x, y, z) \in Nat
BY SMT DEF Spelt

(* A command that is complete is taken out of the queue and answered.      *)
LEMMA TfServeTyped ==
    ASSUME NEW c \in Cards, Len(c.rx) >= 6
    PROVE  Tf!ServeCommand(c) \in Cards
<1> DEFINE d == [c EXCEPT !.rx = Tf!Pop(c.rx, 6)]
           cmd == Tf!Command(c)
           sought == Tf!Seek(d, Tf!Argument(c))
<1>1. /\ c.rx \in Seq(Tf!Byte) /\ c.status \in {0, 1}
      /\ \A i \in 1 .. 6 : c.rx[i] \in Tf!Byte /\ c.rx[i] \in Nat
  <2>1. c.rx \in Seq(Tf!Byte) /\ c.status \in {0, 1}
    BY DEF Cards
  <2>2. \A i \in 1 .. 6 : c.rx[i] \in Tf!Byte
    BY <2>1
  <2> QED BY <2>1, <2>2, TfByteRange
<1>2. d \in Cards
  BY <1>1, TfPopTyped DEF Cards
<1>3. Tf!Argument(c) \in Nat
  <2>1. c.rx[2] \in Nat /\ c.rx[3] \in Nat /\ c.rx[4] \in Nat /\ c.rx[5] \in Nat
    BY <1>1
  <2>2. Tf!Argument(c) = Spelt(c.rx[2], c.rx[3], c.rx[4], c.rx[5])
    BY SMT DEF Tf!Argument, Spelt
  <2>3. Spelt(c.rx[2], c.rx[3], c.rx[4], c.rx[5]) \in Nat
    BY <2>1, SpeltTyped
  <2> QED BY <2>2, <2>3
<1>4. sought \in Cards
  BY <1>2, <1>3, SeekTyped
<1>5. {0, 1, 2, 4, 5, 64, 65, 254, 255} \subseteq Tf!Byte
  BY TfByteRange
<1>6. ReadDelay - 1 \in Nat /\ StopBusy \in Nat
  BY DeviceAssumption DEF Tf!TfAssumption
<1>7. c.status \in Tf!Byte /\ c.status + 4 \in Tf!Byte /\ c.status + 0 \in Tf!Byte
      /\ c.status + 64 \in Tf!Byte
  <2>1. CASE c.status = 0
    BY <1>5, <2>1
  <2>2. CASE c.status = 1
    <3>1. 1 + 4 = 5 /\ 1 + 0 = 1 /\ 1 + 64 = 65
      OBVIOUS
    <3> QED BY <1>5, <2>2, <3>1
  <2> QED BY <1>1, <2>1, <2>2
<1> HIDE DEF d, cmd, sought
<1>8. Tf!Push([d EXCEPT !.status = 1], <<1>>) \in Cards
  <2>1. [d EXCEPT !.status = 1] \in Cards
    BY <1>2 DEF Cards
  <2> QED BY <1>5, <2>1, PushTyped, BytesTyped
<1>9. Tf!Push([d EXCEPT !.status = 0], <<0>>) \in Cards
  <2>1. [d EXCEPT !.status = 0] \in Cards
    BY <1>2 DEF Cards
  <2> QED BY <1>5, <2>1, PushTyped, BytesTyped
<1>10. Tf!Push(d, <<c.status, 0, 0, 1, c.rx[5]>>) \in Cards
  <2>1. <<c.status, 0, 0, 1, c.rx[5]>> \in Seq(Tf!Byte)
    BY <1>1, <1>5, <1>7
  <2> QED BY <1>2, <2>1, PushTyped
<1>11. Tf!Push([d EXCEPT !.reading = FALSE, !.tx = <<>>],
               <<255, 255, 0>> \o Tf!Fill(StopBusy, 0) \o <<255>>) \in Cards
  <2>1. [d EXCEPT !.reading = FALSE, !.tx = <<>>] \in Cards
    <3>1. FALSE \in BOOLEAN /\ <<>> \in Seq(Tf!Byte)
      OBVIOUS
    <3> QED BY <1>2, <3>1 DEF Cards
  <2>2. <<255, 255, 0>> \in Seq(Tf!Byte) /\ <<255>> \in Seq(Tf!Byte)
    BY <1>5
  <2>3. Tf!Fill(StopBusy, 0) \in Seq(Tf!Byte)
    BY <1>5, <1>6, BytesTyped
  <2>4. <<255, 255, 0>> \o Tf!Fill(StopBusy, 0) \in Seq(Tf!Byte)
    BY <2>2, <2>3, ConcatProperties
  <2>5. <<255, 255, 0>> \o Tf!Fill(StopBusy, 0) \o <<255>> \in Seq(Tf!Byte)
    BY <2>2, <2>4, ConcatProperties
  <2> QED BY <2>1, <2>5, PushTyped
<1>12. Tf!Push(d, <<c.status + IF Tf!Argument(c) = DataLen THEN 0 ELSE 64>>) \in Cards
  BY <1>2, <1>7, PushTyped, BytesTyped
<1>13. Tf!Push([Tf!AfterBlock(sought) EXCEPT !.reading = Tf!AfterBlock(sought).reading \/ cmd = 18],
               <<c.status>> \o Tf!Fill(ReadDelay - 1, 255) \o <<254>>
                   \o Tf!Block(sought) \o <<255, 255>>) \in Cards
  <2>1. Tf!AfterBlock(sought) \in Cards
    BY <1>4, AfterBlockTyped
  <2>2. [Tf!AfterBlock(sought) EXCEPT !.reading = Tf!AfterBlock(sought).reading \/ cmd = 18] \in Cards
    <3>1. (Tf!AfterBlock(sought).reading \/ cmd = 18) \in BOOLEAN
      OBVIOUS
    <3> QED BY <2>1, <3>1 DEF Cards
  <2>3. <<c.status>> \in Seq(Tf!Byte) /\ <<254>> \in Seq(Tf!Byte) /\ <<255, 255>> \in Seq(Tf!Byte)
        /\ Tf!Fill(ReadDelay - 1, 255) \in Seq(Tf!Byte)
    BY <1>5, <1>6, <1>7, BytesTyped
  <2>4. <<c.status>> \o Tf!Fill(ReadDelay - 1, 255) \o <<254>> \in Seq(Tf!Byte)
    BY <2>3, ConcatProperties
  <2>5. <<c.status>> \o Tf!Fill(ReadDelay - 1, 255) \o <<254>>
                   \o Tf!Block(sought) \o <<255, 255>> \in Seq(Tf!Byte)
    BY <1>4, <2>3, <2>4, BlockTyped, ConcatProperties
  <2> DEFINE e == [Tf!AfterBlock(sought) EXCEPT
                     !.reading = Tf!AfterBlock(sought).reading \/ cmd = 18]
             answer == <<c.status>> \o Tf!Fill(ReadDelay - 1, 255) \o <<254>>
                         \o Tf!Block(sought) \o <<255, 255>>
  <2>6. e \in Cards /\ answer \in Seq(Tf!Byte)
    BY <2>2, <2>5, Zenon
  <2> HIDE DEF e, answer
  <2>7. Tf!Push(e, answer) \in Cards
    BY <2>6, PushTyped
  <2> QED BY <2>7, Zenon DEF e, answer
<1>14. \A w \in {"multiple", "single"} : Tf!Push([sought EXCEPT !.writing = w], <<c.status>>) \in Cards
  <2>1. \A w \in {"multiple", "single"} : [sought EXCEPT !.writing = w] \in Cards
    BY <1>4 DEF Cards
  <2>2. <<c.status>> \in Seq(Tf!Byte)
    BY <1>7, BytesTyped
  <2> QED BY <2>1, <2>2, PushTyped
<1>15. Tf!Push(d, <<c.status + 4>>) \in Cards
  BY <1>2, <1>7, PushTyped, BytesTyped
<1> QED
  BY <1>8, <1>9, <1>10, <1>11, <1>12, <1>13, <1>14, <1>15
     DEF Tf!ServeCommand, d, cmd, sought, Tf!ParameterError, Tf!IllegalCommand, Tf!BlockToken, Tf!FillByte

-----------------------------------------------------------------------------
(* Without its greatest element a set of numbers up to n + 1 goes to n.    *)
LEMMA TfWithoutMax ==
    ASSUME NEW n \in Nat, NEW s \in SUBSET (1 .. n + 1), s # {}
    PROVE  s \ {Tf!Max(s)} \in SUBSET (1 .. n)
<1> DEFINE far == {n + 1 - y : y \in s}
<1>1. PICK z \in far : \A y \in far : z <= y
  <2>1. far # {}
    OBVIOUS
  <2>2. \A y \in s : n + 1 - y \in Nat
    OBVIOUS
  <2>3. far \subseteq Nat
    BY <2>2
  <2> HIDE DEF far
  <2> QED BY <2>1, <2>3, LeastElement
<1>2. PICK x \in s : z = n + 1 - x
  BY <1>1
<1>3. \A y \in s : x >= y
  <2> SUFFICES ASSUME NEW y \in s PROVE x >= y
      OBVIOUS
  <2>1. n + 1 - x <= n + 1 - y
    BY <1>1, <1>2
  <2> QED BY <2>1
<1>4. \E t \in s : \A y \in s : t >= y
  BY <1>3
<1>5. Tf!Max(s) \in s /\ \A y \in s : Tf!Max(s) >= y
  BY <1>4, Zenon DEF Tf!Max
<1>6. PICK u \in s : u = Tf!Max(s)
  BY <1>5
<1>7. ASSUME NEW y \in s, y # u PROVE y \in 1 .. n
  <2>1. u \in Nat /\ u <= n + 1 /\ y \in Nat /\ y >= 1 /\ y <= u
    BY <1>5, <1>6
  <2> QED BY <1>7, <2>1
<1> QED BY <1>6, <1>7

ServedOne(d) ==
    LET e == [d EXCEPT !.rx = Tf!Strip(@, 128)]
    IN  IF Len(d.rx) < 6 THEN d
        ELSE IF Len(e.rx) < 6 THEN e ELSE Tf!ServeCommand(e)
Folded(f, c, s) == IF s = {} THEN c ELSE ServedOne(f[s \ {Tf!Max(s)}])

LEMMA OneTyped ==
    ASSUME NEW d \in Cards
    PROVE  ServedOne(d) \in Cards
<1> DEFINE e == [d EXCEPT !.rx = Tf!Strip(d.rx, 128)]
<1>1. e \in Cards
  BY StripTyped DEF Cards
<1> HIDE DEF e
<1>2. Len(e.rx) \in Nat
  BY <1>1 DEF Cards
<1>3. Len(e.rx) >= 6 => Tf!ServeCommand(e) \in Cards
  BY <1>1, TfServeTyped
<1> QED BY <1>1, <1>2, <1>3 DEF ServedOne, e

LEMMA FoldExists ==
    ASSUME NEW c
    PROVE  \A n \in Nat : \E f : f = [s \in SUBSET (1 .. n) |-> Folded(f, c, s)]
<1> DEFINE S == {n \in Nat : \E f : f = [s \in SUBSET (1 .. n) |-> Folded(f, c, s)]}
<1>1. 0 \in S
  <2> DEFINE f == [s \in SUBSET (1 .. 0) |-> c]
  <2>1. \A s \in SUBSET (1 .. 0) : s = {}
    OBVIOUS
  <2>2. f = [s \in SUBSET (1 .. 0) |-> Folded(f, c, s)]
    BY <2>1 DEF Folded
  <2> QED BY <2>2
<1>2. ASSUME NEW n \in S PROVE n + 1 \in S
  <2>1. n \in Nat
    OBVIOUS
  <2>2. PICK f : f = [s \in SUBSET (1 .. n) |-> Folded(f, c, s)]
    OBVIOUS
  <2> DEFINE g == [s \in SUBSET (1 .. n + 1) |-> Folded(f, c, s)]
  <2>5. n + 1 \in Nat
    BY <2>1
  <2>3. ASSUME NEW s \in SUBSET (1 .. n + 1) PROVE Folded(f, c, s) = Folded(g, c, s)
    <3>1. CASE s = {}
      BY <3>1 DEF Folded
    <3>2. CASE s # {}
      <4>1. s \ {Tf!Max(s)} \in SUBSET (1 .. n)
        BY <2>1, <3>2, TfWithoutMax
      <4>2. SUBSET (1 .. n) \subseteq SUBSET (1 .. n + 1)
        BY <2>1
      <4> DEFINE t == s \ {Tf!Max(s)}
      <4>3. f[t] = Folded(f, c, t) /\ g[t] = Folded(f, c, t)
        BY <2>2, <4>1, <4>2
      <4> QED BY <4>3 DEF Folded
    <3> QED BY <3>1, <3>2
  <2>4. g = [s \in SUBSET (1 .. n + 1) |-> Folded(g, c, s)]
    BY <2>3
  <2> HIDE DEF g
  <2> QED BY <2>4, <2>5
<1>3. S = Nat
  <2>1. S \subseteq Nat
    OBVIOUS
  <2> HIDE DEF S
  <2> QED BY <1>1, <1>2, <2>1, Induction
<1> QED BY <1>3

LEMMA ServeQueuedTyped ==
    ASSUME NEW c \in Cards
    PROVE  Tf!ServeQueued(c) \in Cards
<1> DEFINE m == Len(c.rx) \div 6
           iter == CHOOSE f : f = [s \in SUBSET (1 .. m) |-> Folded(f, c, s)]
<1>1. m \in Nat
  BY DEF Cards
<1>2. Tf!ServeQueued(c) = iter[1 .. m]
  BY DEF Tf!ServeQueued, Tf!FoldLeft, Tf!MapThenFoldSet, Folded, ServedOne
<1>3. iter = [s \in SUBSET (1 .. m) |-> Folded(iter, c, s)]
  <2> HIDE DEF m
  <2>1. \E f : f = [s \in SUBSET (1 .. m) |-> Folded(f, c, s)]
    BY <1>1, FoldExists
  <2> QED BY <2>1
<1> HIDE DEF iter, m
<1> DEFINE S == {n \in Nat : \A s \in SUBSET (1 .. m) : s \subseteq 1 .. n => iter[s] \in Cards}
<1>4. 0 \in S
  <2>1. \A s : s \subseteq 1 .. 0 => s = {}
    OBVIOUS
  <2> QED BY <1>3, <2>1 DEF Folded
<1>5. ASSUME NEW n \in S PROVE n + 1 \in S
  <2>1. n \in Nat
    OBVIOUS
  <2> SUFFICES ASSUME NEW s \in SUBSET (1 .. m), s \subseteq 1 .. n + 1
               PROVE  iter[s] \in Cards
      BY <2>1
  <2>2. CASE s = {}
    BY <1>3, <2>2 DEF Folded
  <2>3. CASE s # {}
    <3> DEFINE t == s \ {Tf!Max(s)}
    <3>1. t \subseteq 1 .. n /\ t \in SUBSET (1 .. m)
      <4>1. s \in SUBSET (1 .. n + 1)
        OBVIOUS
      <4>2. t \in SUBSET (1 .. n)
        BY <2>1, <2>3, <4>1, TfWithoutMax
      <4> QED BY <4>2
    <3>2. iter[t] \in Cards
      BY <3>1
    <3>3. iter[s] = ServedOne(iter[t])
      BY <1>3, <2>3 DEF Folded
    <3> QED BY <3>2, <3>3, OneTyped
  <2> QED BY <2>2, <2>3
<1>6. m \in S
  <2>1. S \subseteq Nat
    OBVIOUS
  <2> HIDE DEF S
  <2>2. S = Nat
    BY <1>4, <1>5, <2>1, Induction
  <2> QED BY <1>1, <2>2
<1> QED BY <1>1, <1>2, <1>6

LEMMA StreamTyped ==
    ASSUME NEW c \in Cards, NEW crc \in StackBytes
    PROVE  Tf!Stream(c, crc) \in Cards
<1>1. crc \in Tf!Byte
  BY DeviceAssumption DEF Tf!TfAssumption
<1>2. <<254>> \in Seq(Tf!Byte) /\ <<crc, crc>> \in Seq(Tf!Byte)
  <2>1. 254 \in Tf!Byte
    BY TfByteRange
  <2> QED BY <1>1, <2>1, BytesTyped
<1>3. <<254>> \o Tf!Block(c) \o <<crc, crc>> \in Seq(Tf!Byte)
  <2>1. <<254>> \o Tf!Block(c) \in Seq(Tf!Byte)
    BY <1>2, BlockTyped, ConcatProperties
  <2> QED BY <1>2, <2>1, ConcatProperties
<1> QED BY <1>3, AfterBlockTyped, PushTyped DEF Tf!Stream, Tf!BlockToken

LEMMA WrittenTyped ==
    ASSUME NEW c \in Cards, Tf!BlockIn(c)
    PROVE  Tf!Written(c) \in Cards
<1>1. Tf!Store(c) \in Cards
  BY StoreTyped
<1>2. Tf!Pop(c.rx, DataLen + 3) \in Seq(Tf!Byte) /\ Tf!Store(c).rx = c.rx
  <2>1. c.rx \in Seq(Tf!Byte) /\ DataLen + 3 \in Nat
    BY DeviceAssumption DEF Tf!TfAssumption, Cards
  <2>2. Tf!Store(c).rx = c.rx
    BY DEF Tf!Store, Cards
  <2> QED BY <2>1, <2>2, TfPopTyped
<1>3. [Tf!Store(c) EXCEPT !.rx = Tf!Pop(Tf!Store(c).rx, DataLen + 3),
                          !.writing = IF Tf!Store(c).writing = "single" THEN "no"
                                      ELSE Tf!Store(c).writing] \in Cards
  BY <1>1, <1>2 DEF Cards
<1>4. <<229>> \in Seq(Tf!Byte)
  BY TfByteRange, BytesTyped
<1> QED BY <1>3, <1>4, PushTyped DEF Tf!Written, Tf!Accepted

LEMMA AfterExchangeTyped ==
    ASSUME NEW c \in Cards, NEW b \in Tf!Byte, NEW crc \in StackBytes
    PROVE  Tf!AfterExchange(c, b, crc) \in Cards
<1> DEFINE heard == c.rx # <<>> \/ c.writing # "no" \/ b < 128
           c1 == IF heard THEN Tf!Take(c, b) ELSE c
           d == [c1 EXCEPT !.tx = Tf!Pop(c1.tx, 1)]
           e == [d EXCEPT !.rx = Tf!Strip(d.rx, 255)]
<1>1. c1 \in Cards
  BY TakeTyped
<1> HIDE DEF c1
<1>2. d \in Cards
  BY <1>1, TfPopTyped DEF Cards
<1> HIDE DEF d
<1>3. e \in Cards
  BY <1>2, StripTyped DEF Cards
<1> HIDE DEF e
<1>4. Tf!ServeQueued(Tf!Stream(d, crc)) \in Cards
  BY <1>2, StreamTyped, ServeQueuedTyped
<1>5. e.rx # <<>> => [e EXCEPT !.writing = "no", !.rx = Tail(e.rx)] \in Cards
  <2>1. e.rx \in Seq(Tf!Byte) /\ (e.rx # <<>> => Tail(e.rx) \in Seq(Tf!Byte))
    BY <1>3 DEF Cards
  <2>2. "no" \in {"no", "single", "multiple"}
    OBVIOUS
  <2> QED BY <1>3, <2>1, <2>2 DEF Cards
<1>6. Tf!BlockIn(e) => Tf!ServeQueued(Tf!Stream(Tf!Written(e), crc)) \in Cards
  BY <1>3, WrittenTyped, StreamTyped, ServeQueuedTyped
<1>7. Tf!AfterExchange(c, b, crc) =
        IF d.writing = "no" THEN Tf!ServeQueued(Tf!Stream(d, crc))
        ELSE IF Tf!First(c.tx) # 255 THEN d
        ELSE IF e.rx = <<>> THEN e
        ELSE IF e.rx[1] # Tf!TokenOf(e)
        THEN [e EXCEPT !.writing = "no", !.rx = Tail(e.rx)]
        ELSE IF ~Tf!BlockIn(e) THEN e
        ELSE Tf!ServeQueued(Tf!Stream(Tf!Written(e), crc))
  BY DEF Tf!AfterExchange, Tf!FillByte, c1, d, e
<1> QED BY <1>2, <1>3, <1>4, <1>5, <1>6, <1>7

LEMMA CardTyped ==
    /\ card \in Cards /\ (\E b \in Tf!Byte : Tf!TfExchange(b)) => card' \in Cards
    /\ card \in Cards /\ Tf!TfReset => card' \in Cards
    /\ card \in Cards => Tf!TfAnswer \in Tf!Byte /\ Tf!TfTypeOK
    /\ Tf!NewCard(FirstBytes) \in Cards
<1>1. card \in Cards /\ (\E b \in Tf!Byte : Tf!TfExchange(b)) => card' \in Cards
  BY AfterExchangeTyped DEF Tf!TfExchange
<1>2. card \in Cards /\ Tf!TfReset => card' \in Cards
  <2>1. <<>> \in Seq(Tf!Byte) /\ FALSE \in BOOLEAN
    OBVIOUS
  <2> QED BY <2>1 DEF Tf!TfReset, Tf!Blank, Cards
<1>3. card \in Cards => Tf!TfAnswer \in Tf!Byte
  <2>1. card.tx \in Seq(Tf!Byte) /\ card.tx # <<>> => Head(card.tx) \in Tf!Byte
    OBVIOUS
  <2> QED BY <2>1, TfByteRange DEF Tf!TfAnswer, Tf!First, Tf!FillByte, Cards
<1>4. card \in Cards => Tf!TfTypeOK
  <2> SUFFICES ASSUME card \in Cards PROVE Tf!TfTypeOK
      OBVIOUS
  <2>1. Tf!Size(card) \in Nat /\ card.bytes \in [0 .. Tf!Size(card) - 1 -> Tf!Byte]
    BY CardSize
  <2> HIDE DEF Tf!Size
  <2> QED BY <2>1 DEF Tf!TfTypeOK, Cards
<1>5. Tf!NewCard(FirstBytes) \in Cards
  <2>1. <<>> \in Seq(Tf!Byte) /\ FALSE \in BOOLEAN
    OBVIOUS
  <2>2. FirstBytes \in CardFiles
    <3>1. Cardinality(DOMAIN FirstBytes) \in Nat
      BY SpiAssumption, FS_CardinalityType
    <3>2. FirstBytes \in [0 .. Cardinality(DOMAIN FirstBytes) - 1 -> Tf!Byte]
      BY SpiAssumption DEF Tf!Byte
    <3> QED BY <3>1, <3>2 DEF CardFiles
  <2> QED BY <2>1, <2>2 DEF Tf!NewCard, Cards
<1> QED BY <1>1, <1>2, <1>3, <1>4, <1>5

-----------------------------------------------------------------------------
(* The MCU.  Its own proofs are about the same definitions under another   *)
(* name.  The hosts they are proved with are not on this bus, and anything *)
(* that a host may be will do for them here.                               *)
M == INSTANCE NileDeviceProofs WITH
         sent <- 0,
         PageSize <- 1, HasFlash <- TRUE, Top <- 0, Contents <- <<>>, Commands <- {},
         MaxCommands <- 0, MaxClocks <- 0,
         command <- <<>>, got <- <<>>, shadow <- <<>>, enabled <- FALSE, commands <- 0

LEMMA SameExchange == ASSUME NEW b PROVE Mcu!Exchange(b) <=> M!Exchange(b)
BY
   DEF Mcu!ACCEL_POLL, M!ACCEL_POLL, Mcu!ACCEL_READ, M!ACCEL_READ,
       Mcu!AnswerByte, M!AnswerByte, Mcu!Arg, M!Arg, Mcu!AtCommand,
       M!AtCommand, Mcu!AtRest, M!AtRest, Mcu!BOOT_ACK, M!BOOT_ACK,
       Mcu!BOOT_ERASE, M!BOOT_ERASE, Mcu!BOOT_JUMP, M!BOOT_JUMP,
       Mcu!BOOT_NACK, M!BOOT_NACK, Mcu!BOOT_READ, M!BOOT_READ, Mcu!BOOT_START,
       M!BOOT_START, Mcu!BOOT_WRITE, M!BOOT_WRITE, Mcu!BootAcked, M!BootAcked,
       Mcu!BootByte, M!BootByte, Mcu!BootCommand, M!BootCommand,
       Mcu!BootCommandGarbled, M!BootCommandGarbled, Mcu!BootCommandWaits,
       M!BootCommandWaits, Mcu!BootFirstStep, M!BootFirstStep, Mcu!BootNoise,
       M!BootNoise, Mcu!BootNotAcked, M!BootNotAcked, Mcu!BootSecondStep,
       M!BootSecondStep, Mcu!BootStart, M!BootStart, Mcu!BootStepWaits,
       M!BootStepWaits, Mcu!CDC_AVAILABLE, M!CDC_AVAILABLE, Mcu!CDC_FLUSH,
       M!CDC_FLUSH, Mcu!CDC_READ, M!CDC_READ, Mcu!CDC_WRITE, M!CDC_WRITE,
       Mcu!Cmd, M!Cmd, Mcu!Complete, M!Complete, Mcu!Done, M!Done, Mcu!ECHO,
       M!ECHO, Mcu!EEPROM_GET_MODE, M!EEPROM_GET_MODE, Mcu!EEPROM_MODE,
       M!EEPROM_MODE, Mcu!EEPROM_READ, M!EEPROM_READ, Mcu!EepromBytes,
       M!EepromBytes, Mcu!Exchange, M!Exchange, Mcu!FREQ, M!FREQ, Mcu!Fill,
       M!Fill, Mcu!FillByte, M!FillByte, Mcu!Firmware, M!Firmware, Mcu!Fits,
       M!Fits, Mcu!Framed, M!Framed, Mcu!GET_SAVE_ID, M!GET_SAVE_ID, Mcu!ID,
       M!ID, Mcu!InStep, M!InStep, Mcu!JumpDue, M!JumpDue, Mcu!NativeByte,
       M!NativeByte, Mcu!Overrun, M!Overrun, Mcu!PacketLen, M!PacketLen,
       Mcu!PayloadLen, M!PayloadLen, Mcu!PlainCommands, M!PlainCommands,
       Mcu!Pop, M!Pop, Mcu!RTC_COMMAND, M!RTC_COMMAND, Mcu!Ready, M!Ready,
       Mcu!Respond, M!Respond, Mcu!Rest, M!Rest, Mcu!RtcCmd, M!RtcCmd,
       Mcu!RtcRxSize, M!RtcRxSize, Mcu!RtcTxSize, M!RtcTxSize,
       Mcu!SET_SAVE_ID, M!SET_SAVE_ID, Mcu!SendAck, M!SendAck, Mcu!Serve,
       M!Serve, Mcu!ServeCdcAvailable, M!ServeCdcAvailable, Mcu!ServeCdcFlush,
       M!ServeCdcFlush, Mcu!ServeCdcRead, M!ServeCdcRead, Mcu!ServeCdcWrite,
       M!ServeCdcWrite, Mcu!ServeEcho, M!ServeEcho, Mcu!ServeEepromMode,
       M!ServeEepromMode, Mcu!ServeEepromRead, M!ServeEepromRead,
       Mcu!ServePlain, M!ServePlain, Mcu!ServeRtc, M!ServeRtc,
       Mcu!ServeSetSaveId, M!ServeSetSaveId, Mcu!ServeUnknown, M!ServeUnknown,
       Mcu!ServedCommands, M!ServedCommands, Mcu!Short, M!Short, Mcu!Smaller,
       M!Smaller, Mcu!StepLen, M!StepLen, Mcu!SteppedCommands,
       M!SteppedCommands, Mcu!Taken, M!Taken, Mcu!Uid, M!Uid, Mcu!VERSION,
       M!VERSION, Mcu!bootVars, M!bootVars, Mcu!cdcVars, M!cdcVars,
       Mcu!keptVars, M!keptVars

LEMMA SameOthers ==
    /\ \A boot : Mcu!Reset(boot) <=> M!Reset(boot)
    /\ Mcu!Init <=> M!Init
    /\ Mcu!TypeOK <=> M!TypeOK
    /\ UNCHANGED mcuVars => UNCHANGED M!mcuVars
<1>1. /\ \A boot : Mcu!Reset(boot) <=> M!Reset(boot)
      /\ Mcu!Init <=> M!Init
  BY DEF Mcu!Reset, M!Reset, Mcu!Taken, M!Taken, Mcu!Fill, M!Fill, Mcu!Init, M!Init
<1>2. Mcu!TypeOK <=> M!TypeOK
  <2>1. /\ Mcu!BootTypeOK <=> M!BootTypeOK
        /\ Mcu!CdcTypeOK <=> M!CdcTypeOK
        /\ Mcu!KeptTypeOK <=> M!KeptTypeOK
    BY DEF Mcu!Byte, M!Byte, Mcu!BootTypeOK, M!BootTypeOK, Mcu!CdcTypeOK, M!CdcTypeOK,
           Mcu!KeptTypeOK, M!KeptTypeOK, Mcu!Reader, M!Reader, Mcu!Word, M!Word,
           Mcu!WordMax, M!WordMax
  <2> QED BY <2>1 DEF Mcu!TypeOK, M!TypeOK, Mcu!Byte, M!Byte
<1>3. UNCHANGED mcuVars => UNCHANGED M!mcuVars
  BY DEF mcuVars, mcuOnly, M!mcuVars, M!bootVars, M!keptVars, M!cdcVars
<1> QED BY <1>1, <1>2, <1>3

(* What the lemmas about the MCU assume of its constants holds here.       *)
LEMMA McuConstants ==
    ASSUME BufSize > 1026
    PROVE  /\ M!BufSizeAssumption /\ M!McuAssumption
           /\ M!FlashAssumption /\ M!HostAssumption
<1>1. M!BufSizeAssumption /\ M!McuAssumption
  BY DeviceAssumption DEF M!BufSizeAssumption, M!McuAssumption, Mcu!BufSizeAssumption,
                          Mcu!McuAssumption, Mcu!Byte, M!Byte
<1>2. M!FlashAssumption
  BY DEF M!FlashAssumption
<1>3. M!HostAssumption
  <2>1. BufSize > 12
    BY <1>1 DEF M!BufSizeAssumption
  <2>2. 0 <= M!Start(<<M!READ, 255, 255, 255>>)
    BY DEF M!Start
  <2>3. <<>> \in [0 .. 0 - 1 -> M!Byte]
    BY SMT
  <2> QED BY <2>1, <2>2, <2>3 DEF M!HostAssumption
<1> QED BY <1>1, <1>2, <1>3

(* Until the process has ended the MCU keeps its invariant, and its types  *)
(* after that as well: any device may end the process, and none goes on.   *)
McuOK == BufSize > 1026 /\ Mcu!TypeOK /\ (~halted => M!IInv)

LEMMA McuExchangeKeeps ==
    ASSUME McuOK, NEW b \in Mcu!Byte, Mcu!Exchange(b)
    PROVE  McuOK'
<1>1. ~halted
  BY DEF Mcu!Exchange
<1>2. M!IInv /\ M!Exchange(b) /\ b \in M!Byte
  BY <1>1, SameExchange DEF McuOK, Mcu!Byte, M!Byte
<1>3. M!IInv'
  BY <1>2, McuConstants, M!ExchangeKeeps DEF McuOK
<1>4. M!TypeOK'
  BY <1>3 DEF M!IInv
<1>5. Mcu!TypeOK'
  BY <1>4, SameOthers, PTL
<1> QED BY <1>3, <1>5 DEF McuOK

LEMMA McuResetKeeps ==
    ASSUME McuOK, NEW boot \in BOOLEAN, Mcu!Reset(boot)
    PROVE  McuOK'
<1>1. ~halted
  BY DEF Mcu!Reset
<1>2. M!IInv /\ M!Reset(boot)
  BY <1>1, SameOthers DEF McuOK
<1>3. M!IInv'
  BY <1>2, McuConstants, M!ResetKeeps DEF McuOK
<1>4. M!TypeOK'
  BY <1>3 DEF M!IInv
<1>5. Mcu!TypeOK'
  BY <1>4, SameOthers, PTL
<1> QED BY <1>3, <1>5 DEF McuOK

(* Another device's step changes nothing of it, and may end the process.   *)
LEMMA McuUntouched ==
    ASSUME McuOK, UNCHANGED mcuOnly, halted' \in BOOLEAN, ~halted \/ halted'
    PROVE  McuOK'
<1>1. Mcu!TypeOK'
  BY DEF McuOK, mcuOnly, Mcu!TypeOK, Mcu!BootTypeOK, Mcu!CdcTypeOK, Mcu!KeptTypeOK
<1>2. CASE ~halted'
  <2>1. M!IInv /\ halted' = halted
    BY <1>2 DEF McuOK, Mcu!TypeOK
  <2>2. UNCHANGED M!mcuVars
    <3>1. UNCHANGED mcuVars
      BY <2>1 DEF mcuVars
    <3> QED BY <3>1, SameOthers
  <2>3. M!IInv'
    BY <2>1, <2>2, McuConstants, M!StutterKeeps DEF McuOK
  <2> QED BY <1>1, <2>3 DEF McuOK
<1> QED BY <1>1, <1>2 DEF McuOK

LEMMA McuStarts ==
    ASSUME BufSize > 1026, Mcu!Init
    PROVE  McuOK
<1>1. M!IInv
  BY SameOthers, McuConstants, M!InitHolds
<1>2. M!TypeOK
  BY <1>1 DEF M!IInv
<1> QED BY <1>1, <1>2, SameOthers DEF McuOK

LEMMA McuAnswerTyped == McuOK => Mcu!Answer \in Mcu!Byte
<1> SUFFICES ASSUME McuOK PROVE Mcu!Answer \in Mcu!Byte
    OBVIOUS
<1>1. tx \in Seq(Mcu!Byte) /\ {31, 255} \subseteq Mcu!Byte
  BY DEF McuOK, Mcu!TypeOK, Mcu!Byte
<1>2. tx # <<>> => Head(tx) \in Mcu!Byte
  BY <1>1
<1> QED BY <1>1, <1>2 DEF Mcu!Answer, Mcu!First, Mcu!FillByte, Mcu!BOOT_NACK

-----------------------------------------------------------------------------
(* All devices, and the bus.                                               *)
DevicesOK == card \in Cards /\ Flash!FlashTypeOK /\ McuOK

LEMMA SameBytes == Tf!Byte = Byte /\ Flash!Byte = Byte /\ Mcu!Byte = Byte
BY DEF Tf!Byte, Flash!Byte, Mcu!Byte, Byte

LEMMA FlashUntouched == Flash!FlashTypeOK /\ UNCHANGED flashVars => Flash!FlashTypeOK'
BY DEF Flash!FlashTypeOK, flashVars

LEMMA DevicesUntouched ==
    ASSUME DevicesOK, UNCHANGED <<card, flashVars, mcuOnly>>, halted' \in BOOLEAN,
           ~halted \/ halted'
    PROVE  DevicesOK'
<1>1. UNCHANGED <<flashVars>> /\ UNCHANGED mcuOnly /\ card' = card
  OBVIOUS
<1> QED BY <1>1, FlashUntouched, McuUntouched DEF DevicesOK

LEMMA HaltedTyped == DevicesOK => halted \in BOOLEAN
BY DEF DevicesOK, McuOK, Mcu!TypeOK

LEMMA ExchangeTyped ==
    ASSUME BufSize > 1026, DevicesOK, ~halted, NEW b \in Byte, ExchangeDev(b)
    PROVE  DevicesOK'
<1>1. CASE /\ spi.dev = "TF" /\ Powered
           /\ Tf!TfExchange(b) /\ halted' = card'.down
           /\ UNCHANGED <<flashVars, mcuOnly>>
  <2>1. card' \in Cards
    BY <1>1, SameBytes, CardTyped DEF DevicesOK
  <2>2. halted' \in BOOLEAN
    BY <1>1, <2>1 DEF Cards
  <2>3. UNCHANGED flashVars /\ UNCHANGED mcuOnly
    BY <1>1
  <2> QED BY <2>1, <2>2, <2>3, FlashUntouched, McuUntouched DEF DevicesOK
<1>2. CASE spi.dev = "FLASH" /\ Flash!FlashExchange(b) /\ UNCHANGED <<card, mcuOnly>>
  <2>1. Flash!FlashTypeOK' /\ halted' \in BOOLEAN
    BY <1>2, SameBytes, HaltedTyped, FlashExchangeTyped DEF DevicesOK
  <2>2. card' = card /\ UNCHANGED mcuOnly
    BY <1>2
  <2> QED BY <2>1, <2>2, McuUntouched DEF DevicesOK
<1>3. CASE spi.dev = "MCU" /\ Mcu!Exchange(b) /\ UNCHANGED <<card, flashVars>>
  <2>1. McuOK'
    BY <1>3, SameBytes, McuExchangeKeeps DEF DevicesOK
  <2>2. card' = card /\ UNCHANGED flashVars
    BY <1>3
  <2> QED BY <2>1, <2>2, FlashUntouched DEF DevicesOK
<1>4. CASE UNCHANGED <<card, flashVars, mcuVars>>
  <2>1. UNCHANGED <<card, flashVars, mcuOnly>> /\ halted' = halted
    BY <1>4 DEF mcuVars
  <2> QED BY <2>1, HaltedTyped, DevicesUntouched
<1> QED BY <1>1, <1>2, <1>3, <1>4 DEF ExchangeDev

LEMMA AnswerTyped == DevicesOK => AnswerDev \in Byte
<1>1. FillByte \in Byte
  BY DEF FillByte, Byte
<1> QED BY <1>1, SameBytes, CardTyped, FlashAnswerTyped, McuAnswerTyped
        DEF DevicesOK, AnswerDev

-----------------------------------------------------------------------------
Halves == [{"low", "high"} -> [0 .. BufLen - 1 -> Byte]]
BusOK ==
    /\ spi \in SpiValue /\ pow \subseteq PowBits
    /\ phase \in {"idle", "waiting", "moving"}
    /\ pos \in 0 .. BufLen /\ tries \in 0 .. MaxTries
    /\ txBuf \in Halves /\ rxBuf \in Halves

(* A transfer that runs was asked for and has a byte to move; one that     *)
(* waits has not moved any and has tries left.                             *)
TransferOK ==
    phase # "idle" =>
        /\ spi.busy /\ pos < Length
        /\ phase = "waiting" => spi.mode = "WAIT_READ" /\ pos = 0 /\ tries < MaxTries

LEMMA Sizes == LowSize \in Nat \ {0} /\ BufLen \in Nat \ {0} /\ MaxTries \in Nat \ {0}
BY SpiAssumption DEF BufLen

LengthOf(value) == value.lo + LowSize * value.hi + 1
LEMMA LengthOfTyped ==
    ASSUME NEW value \in SpiValue
    PROVE  LengthOf(value) \in 1 .. BufLen
<1>1. value.lo \in 0 .. LowSize - 1 /\ value.hi \in {0, 1} /\ LowSize \in Nat
  BY Sizes DEF SpiValue
<1>2. CASE value.hi = 0
  <2>1. LengthOf(value) = value.lo + 1
    BY <1>1, <1>2 DEF LengthOf
  <2> QED BY <1>1, <2>1 DEF BufLen
<1>3. CASE value.hi = 1
  <2>1. LengthOf(value) = value.lo + LowSize + 1
    BY <1>1, <1>3 DEF LengthOf
  <2> QED BY <1>1, <2>1 DEF BufLen
<1> QED BY <1>1, <1>2, <1>3

LEMMA LengthTyped == spi \in SpiValue => Length \in 1 .. BufLen
BY LengthOfTyped DEF LengthOf, Length

LEMMA HalvesDiffer ==
    /\ Half(TRUE) \in {"low", "high"} /\ Half(FALSE) \in {"low", "high"}
    /\ Half(TRUE) # Half(FALSE)
BY DEF Half

(* A byte received goes into the controller's half and no other.           *)
LEMMA ReceiveTyped ==
    ASSUME rxBuf \in Halves, pos \in 0 .. BufLen - 1, NEW b \in Byte, Receive(b)
    PROVE  /\ rxBuf' \in Halves
           /\ rxBuf'[Half(FALSE)][pos] = b
           /\ rxBuf'[Half(TRUE)] = rxBuf[Half(TRUE)]
BY HalvesDiffer DEF Receive, Halves

LEMMA AdvanceKeeps ==
    ASSUME spi \in SpiValue, spi.busy, pos \in Nat, pos < Length, Advance
    PROVE  /\ spi' \in SpiValue /\ pos' \in 0 .. BufLen
           /\ phase' \in {"idle", "moving"}
           /\ phase' = "idle" => ~spi'.busy
           /\ phase' = "moving" => spi' = spi /\ pos' < Length'
           /\ spi'.idx = spi.idx /\ (spi' = spi \/ ~spi'.busy)
<1>1. Length \in 1 .. BufLen /\ BufLen \in Nat
  BY LengthTyped, Sizes
<1>2. pos' = pos + 1 /\ pos' \in 0 .. BufLen
  BY <1>1 DEF Advance
<1>3. CASE pos + 1 < Length
  <2>1. phase' = "moving" /\ spi' = spi
    BY <1>3 DEF Advance
  <2>2. Length' = Length
    BY <2>1 DEF Length
  <2> QED BY <1>2, <1>3, <2>1, <2>2
<1>4. CASE ~(pos + 1 < Length)
  <2>1. phase' = "idle" /\ spi' = [spi EXCEPT !.busy = FALSE]
    BY <1>4 DEF Advance, Finish
  <2>2. spi' \in SpiValue /\ ~spi'.busy /\ spi'.idx = spi.idx
    <3>1. FALSE \in BOOLEAN
      OBVIOUS
    <3> QED BY <2>1, <3>1 DEF SpiValue
  <2> QED BY <1>2, <2>1, <2>2
<1> QED BY <1>3, <1>4

-----------------------------------------------------------------------------
SpiIInv == DevicesOK /\ BusOK /\ TransferOK /\ BusyOnlyStuck /\ DevicesAtRest

LEMMA IndexTyped ==
    ASSUME BusOK, TransferOK, phase # "idle"
    PROVE  pos \in 0 .. BufLen - 1
<1>1. Length \in 1 .. BufLen /\ BufLen \in Nat /\ pos \in Nat /\ pos < Length
  BY LengthTyped, Sizes DEF BusOK, TransferOK
<1> QED BY <1>1

(* What a transfer leaves alone.                                           *)
LEMMA RestUnmoved ==
    ASSUME DevicesAtRest, spi'.dev = spi.dev, UNCHANGED <<pow, auxVars>>, NEW b, ExchangeDev(b)
    PROVE  DevicesAtRest'
<1>1. spi.dev # "FLASH" => UNCHANGED <<flashTx, flashRx, flashMode>>
  BY DEF ExchangeDev, flashVars
<1>2. ~Powered => card' = card
  BY DEF ExchangeDev
<1> QED BY <1>1, <1>2 DEF DevicesAtRest, Flash!FlashIdle, Powered, auxVars

LEMMA MoveKeeps ==
    ASSUME BufSize > 1026, SpiIInv, Move
    PROVE  SpiIInv'
<1>1. phase = "moving" /\ ~halted /\ UNCHANGED <<pow, txBuf, tries, auxVars>> /\ Advance
  BY DEF Move
<1>2. DevicesOK /\ BusOK /\ TransferOK
  BY DEF SpiIInv
<1>3. pos \in 0 .. BufLen - 1
  BY <1>1, <1>2, IndexTyped
<1> DEFINE b == IF spi.mode \in {"WRITE", "EXCH"} THEN txBuf[Half(FALSE)][pos] ELSE FillByte
<1>4. b \in Byte
  <2>1. txBuf[Half(FALSE)][pos] \in Byte
    BY <1>2, <1>3, HalvesDiffer DEF BusOK, Halves
  <2>2. FillByte \in Byte
    BY DEF FillByte, Byte
  <2> QED BY <2>1, <2>2
<1>5. ExchangeDev(b)
  BY DEF Move
<1> HIDE DEF b
<1>6. DevicesOK'
  BY <1>1, <1>2, <1>4, <1>5, ExchangeTyped
<1>7. rxBuf' \in Halves
  <2>1. AnswerDev \in Byte /\ rxBuf \in Halves
    BY <1>2, AnswerTyped DEF BusOK
  <2>2. rxBuf' = rxBuf \/ Receive(AnswerDev)
    BY DEF Move
  <2> QED BY <1>3, <2>1, <2>2, ReceiveTyped
<1>8. /\ spi' \in SpiValue /\ pos' \in 0 .. BufLen
      /\ phase' \in {"idle", "moving"}
      /\ phase' = "idle" => ~spi'.busy
      /\ phase' = "moving" => spi' = spi /\ pos' < Length'
  <2>1. spi \in SpiValue /\ spi.busy /\ pos \in Nat /\ pos < Length
    BY <1>1, <1>2, <1>3, Sizes DEF BusOK, TransferOK
  <2> QED BY <1>1, <2>1, AdvanceKeeps
<1>9. BusOK'
  BY <1>1, <1>2, <1>7, <1>8 DEF BusOK
<1>10. TransferOK' /\ BusyOnlyStuck'
  BY <1>1, <1>2, <1>8 DEF TransferOK, BusyOnlyStuck
<1>11. DevicesAtRest'
  <2>1. spi'.dev = spi.dev
    BY <1>1, <1>2 DEF Advance, Finish, BusOK, SpiValue
  <2> QED BY <1>1, <1>5, <2>1, RestUnmoved DEF SpiIInv
<1> QED BY <1>6, <1>9, <1>10, <1>11 DEF SpiIInv

LEMMA WaitKeeps ==
    ASSUME BufSize > 1026, SpiIInv, Wait
    PROVE  SpiIInv'
<1>1. /\ phase = "waiting" /\ ~halted /\ UNCHANGED <<pow, txBuf, auxVars>>
      /\ ExchangeDev(FillByte) /\ Receive(AnswerDev) /\ tries' = tries + 1
  BY DEF Wait
<1>2. DevicesOK /\ BusOK /\ TransferOK
  BY DEF SpiIInv
<1>3. pos \in 0 .. BufLen - 1 /\ pos = 0 /\ spi.mode = "WAIT_READ" /\ spi.busy
  BY <1>1, <1>2, IndexTyped DEF TransferOK
<1>4. DevicesOK'
  BY <1>1, <1>2, ExchangeTyped DEF FillByte, Byte
<1>5. rxBuf' \in Halves /\ rxBuf'[Half(FALSE)][0] = AnswerDev
  <2>1. AnswerDev \in Byte /\ rxBuf \in Halves
    BY <1>2, AnswerTyped DEF BusOK
  <2> QED BY <1>1, <1>3, <2>1, ReceiveTyped
<1>6. tries' \in 0 .. MaxTries /\ tries \in Nat /\ tries < MaxTries
  BY <1>1, <1>2, Sizes DEF BusOK, TransferOK
<1>7. spi'.dev = spi.dev
  BY <1>2 DEF Wait, Advance, Finish, BusOK, SpiValue
<1>8. DevicesAtRest'
  BY <1>1, <1>7, RestUnmoved DEF SpiIInv
<1>9. CASE AnswerDev # FillByte
  <2>1. /\ spi' \in SpiValue /\ pos' \in 0 .. BufLen
        /\ phase' \in {"idle", "moving"}
        /\ phase' = "idle" => ~spi'.busy
        /\ phase' = "moving" => spi' = spi /\ pos' < Length'
    <3>1. spi \in SpiValue /\ spi.busy /\ pos \in Nat /\ pos < Length
      BY <1>1, <1>2, <1>3, Sizes DEF BusOK, TransferOK
    <3>2. Advance
      BY <1>9 DEF Wait
    <3> QED BY <3>1, <3>2, AdvanceKeeps
  <2>2. BusOK'
    BY <1>1, <1>2, <1>5, <1>6, <2>1 DEF BusOK
  <2>3. TransferOK' /\ BusyOnlyStuck'
    BY <1>1, <1>2, <2>1 DEF TransferOK, BusyOnlyStuck
  <2> QED BY <1>4, <1>8, <2>2, <2>3 DEF SpiIInv
<1>10. CASE AnswerDev = FillByte
  <2>1. /\ spi' = spi /\ pos' = pos
        /\ phase' = IF tries + 1 = MaxTries THEN "idle" ELSE "waiting"
    BY <1>10 DEF Wait, OutOfTries
  <2>2. BusOK'
    BY <1>1, <1>2, <1>5, <1>6, <2>1 DEF BusOK
  <2>3. TransferOK'
    <3>1. Length' = Length
      BY <2>1 DEF Length
    <3>2. phase' = "waiting" => tries' < MaxTries
      BY <1>1, <1>6, <2>1, Sizes
    <3> QED BY <1>1, <1>2, <1>3, <2>1, <3>1, <3>2 DEF TransferOK
  <2>4. BusyOnlyStuck'
    <3>1. Half(FALSE)' = Half(FALSE)
      BY <2>1 DEF Half
    <3>2. rxBuf'[Half(FALSE)'][0] = FillByte
      BY <1>5, <1>10, <3>1
    <3> QED BY <1>3, <2>1, <3>2 DEF BusyOnlyStuck
  <2> QED BY <1>4, <1>8, <2>2, <2>3, <2>4 DEF SpiIInv
<1> QED BY <1>9, <1>10

-----------------------------------------------------------------------------
(* Steps that leave the transfer and both registers alone.                 *)
LEMMA SpiUntouched ==
    ASSUME SpiIInv, DevicesOK', txBuf' \in Halves, DevicesAtRest',
           UNCHANGED <<spi, pow, rxBuf, phase, pos, tries>>
    PROVE  SpiIInv'
<1>1. BusOK'
  BY DEF SpiIInv, BusOK
<1>2. TransferOK'
  BY DEF SpiIInv, TransferOK, Length
<1>3. BusyOnlyStuck'
  BY DEF SpiIInv, BusyOnlyStuck, Half
<1> QED BY <1>1, <1>2, <1>3 DEF SpiIInv

LEMMA StutterSpi == SpiIInv /\ UNCHANGED spiVars => SpiIInv'
<1> SUFFICES ASSUME SpiIInv, UNCHANGED spiVars PROVE SpiIInv'
    OBVIOUS
<1>1. /\ UNCHANGED <<spi, pow, rxBuf, phase, pos, tries>> /\ txBuf' = txBuf
      /\ UNCHANGED <<card, flashVars, mcuOnly>> /\ halted' = halted
      /\ UNCHANGED <<stray, warm>>
  BY DEF spiVars, vars, busVars, auxVars, mcuVars
<1>2. DevicesOK'
  BY <1>1, HaltedTyped, DevicesUntouched DEF SpiIInv
<1>3. DevicesAtRest'
  BY <1>1 DEF SpiIInv, DevicesAtRest, Flash!FlashIdle, Powered, flashVars
<1>4. txBuf' \in Halves
  BY <1>1 DEF SpiIInv, BusOK
<1> QED BY <1>1, <1>2, <1>3, <1>4, SpiUntouched

LEMMA WriteLowKeeps ==
    ASSUME SpiIInv, NEW lo \in 0 .. LowSize - 1, WriteLow(lo)
    PROVE  SpiIInv'
<1>1. /\ phase = "idle" /\ ~spi.busy /\ spi' = [spi EXCEPT !.lo = lo]
      /\ UNCHANGED <<pow, txBuf, rxBuf, phase, pos, tries, stray, warm, card, flashVars, mcuOnly>>
      /\ halted' = halted
  BY DEF WriteLow, Idle, busVars, auxVars, mcuVars
<1>2. DevicesOK'
  <2>1. UNCHANGED <<card, flashVars, mcuOnly>>
    BY <1>1
  <2> QED BY <1>1, <2>1, HaltedTyped, DevicesUntouched DEF SpiIInv
<1>3. spi' \in SpiValue /\ ~spi'.busy /\ spi'.dev = spi.dev
  BY <1>1 DEF SpiIInv, BusOK, SpiValue
<1>4. BusOK'
  BY <1>1, <1>3 DEF SpiIInv, BusOK
<1>5. TransferOK' /\ BusyOnlyStuck'
  BY <1>1, <1>3 DEF TransferOK, BusyOnlyStuck
<1>6. DevicesAtRest'
  BY <1>1, <1>3 DEF SpiIInv, DevicesAtRest, Flash!FlashIdle, Powered, flashVars
<1> QED BY <1>2, <1>4, <1>5, <1>6 DEF SpiIInv

LEMMA WriteHighKeeps ==
    ASSUME SpiIInv, NEW new \in SpiValue, WriteHigh(new)
    PROVE  SpiIInv'
<1>1. /\ phase = "idle" /\ ~halted /\ spi' = new /\ SpiCntUpdate(new) /\ stray' = Stray(new)
      /\ UNCHANGED <<pow, txBuf, rxBuf, warm, card, mcuOnly>> /\ halted' = halted
  BY DEF WriteHigh, Idle, mcuVars
<1>2. Flash!FlashTypeOK' /\ (Deselects(new) => Flash!FlashIdle')
      /\ (~Deselects(new) => UNCHANGED flashVars)
  <2>1. Flash!FlashTypeOK
    BY DEF SpiIInv, DevicesOK
  <2> QED BY <1>1, <2>1, FlashRestTyped, FlashUntouched DEF SpiCntUpdate
<1>3. DevicesOK'
  <2>1. McuOK' /\ card' = card
    BY <1>1, HaltedTyped, McuUntouched DEF SpiIInv, DevicesOK
  <2> QED BY <1>2, <2>1 DEF SpiIInv, DevicesOK
<1>4. /\ phase' = IF Clocked(new) /\ new.busy
                 THEN IF new.mode = "WAIT_READ" THEN "waiting" ELSE "moving" ELSE "idle"
      /\ phase' # "idle" => pos' = 0 /\ tries' = 0
      /\ phase' = "idle" => UNCHANGED <<pos, tries>>
  BY <1>1 DEF SpiCntUpdate
<1>5. BusOK'
  BY <1>1, <1>4, Sizes DEF SpiIInv, BusOK
<1>6. TransferOK'
  <2>1. Length' \in 1 .. BufLen
    BY <1>1, LengthOfTyped DEF LengthOf, Length
  <2> QED BY <1>1, <1>4, <2>1, Sizes DEF TransferOK
<1>7. BusyOnlyStuck'
  BY <1>1, <1>4 DEF BusyOnlyStuck, Clocked
<1>8. DevicesAtRest'
  BY <1>1, <1>2 DEF SpiIInv, DevicesAtRest, Stray, Deselects, Flash!FlashIdle, Powered, flashVars
<1> QED BY <1>3, <1>5, <1>6, <1>7, <1>8 DEF SpiIInv

LEMMA PowKeeps ==
    ASSUME SpiIInv, NEW new \in SUBSET PowBits, WritePow(new)
    PROVE  SpiIInv'
<1>1. /\ ~halted /\ pow' = new /\ warm' = FALSE
      /\ IF "TF" \notin new THEN Tf!TfReset ELSE UNCHANGED card
      /\ IF "MCU_RESET" \in new \ pow THEN Mcu!Reset("BOOT0" \in new) ELSE UNCHANGED mcuVars
      /\ UNCHANGED <<spi, rxBuf, phase, pos, tries>>
      /\ txBuf' = txBuf /\ stray' = stray /\ UNCHANGED flashVars
  BY DEF WritePow, Idle, busVars
<1>2. card' \in Cards
  BY <1>1, CardTyped DEF SpiIInv, DevicesOK
<1>3. McuOK'
  <2>1. CASE Mcu!Reset("BOOT0" \in new)
    <3>1. ("BOOT0" \in new) \in BOOLEAN
      OBVIOUS
    <3> QED BY <2>1, <3>1, McuResetKeeps DEF SpiIInv, DevicesOK
  <2>2. CASE UNCHANGED mcuVars
    <3>1. UNCHANGED mcuOnly /\ halted' = halted
      BY <2>2 DEF mcuVars
    <3> QED BY <3>1, HaltedTyped, McuUntouched DEF SpiIInv, DevicesOK
  <2> QED BY <1>1, <2>1, <2>2
<1>4. DevicesOK'
  BY <1>1, <1>2, <1>3, FlashUntouched DEF SpiIInv, DevicesOK
<1>5. DevicesAtRest'
  <2>1. "TF" \notin new => card'.tx = <<>> /\ card'.rx = <<>> /\ ~card'.reading /\ card'.writing = "no"
    BY <1>1 DEF Tf!TfReset, Tf!Blank, SpiIInv, DevicesOK, Cards
  <2> QED BY <1>1, <2>1 DEF SpiIInv, DevicesAtRest, Flash!FlashIdle, Powered, flashVars
<1>6. BusOK'
  BY <1>1 DEF SpiIInv, BusOK
<1>7. TransferOK' /\ BusyOnlyStuck'
  <2>1. TransferOK'
    BY <1>1 DEF SpiIInv, TransferOK, Length
  <2>2. BusyOnlyStuck'
    BY <1>1 DEF SpiIInv, BusyOnlyStuck, Half
  <2> QED BY <2>1, <2>2
<1> QED BY <1>4, <1>5, <1>6, <1>7 DEF SpiIInv

LEMMA SpiZeroTyped == SpiZero \in SpiValue /\ ~SpiZero.busy /\ PowUnlock \subseteq PowBits
                      /\ SpiZero.dev = "NONE"
<1>1. 0 \in 0 .. LowSize - 1
  BY Sizes
<1> QED BY <1>1 DEF SpiZero, SpiValue, Modes, Devices, PowUnlock, PowBits

LEMMA WarmbootKeeps == SpiIInv /\ Warmboot => SpiIInv'
<1> SUFFICES ASSUME SpiIInv, Warmboot PROVE SpiIInv'
    OBVIOUS
<1>1. /\ phase = "idle" /\ spi' = SpiZero /\ pow' = PowUnlock /\ stray' = TRUE /\ warm' = TRUE
      /\ UNCHANGED <<txBuf, rxBuf, phase, pos, tries>>
      /\ UNCHANGED <<card, flashVars, mcuOnly>> /\ halted' = halted
  BY DEF Warmboot, Idle, busVars, mcuVars
<1>2. DevicesOK'
  BY <1>1, HaltedTyped, DevicesUntouched DEF SpiIInv
<1>3. BusOK'
  BY <1>1, SpiZeroTyped DEF SpiIInv, BusOK
<1>4. TransferOK' /\ BusyOnlyStuck' /\ DevicesAtRest'
  BY <1>1, SpiZeroTyped DEF TransferOK, BusyOnlyStuck, DevicesAtRest
<1> QED BY <1>2, <1>3, <1>4 DEF SpiIInv

LEMMA ConsoleResetKeeps == SpiIInv /\ ConsoleReset => SpiIInv'
<1> SUFFICES ASSUME SpiIInv, ConsoleReset PROVE SpiIInv'
    OBVIOUS
<1>1. /\ phase = "idle" /\ spi' = SpiZero /\ pow' = PowUnlock /\ stray' = FALSE
      /\ Mcu!Reset(FALSE) /\ Flash!FlashReset /\ Tf!TfReset
      /\ UNCHANGED <<txBuf, rxBuf, phase, pos, tries>>
  BY DEF ConsoleReset, Idle, busVars
<1>2. card' \in Cards /\ card'.tx = <<>> /\ card'.rx = <<>> /\ ~card'.reading
      /\ card'.writing = "no"
  <2>1. card \in Cards
    BY DEF SpiIInv, DevicesOK
  <2> QED BY <1>1, <2>1, CardTyped DEF Tf!TfReset, Tf!Blank, Cards
<1>3. Flash!FlashTypeOK' /\ Flash!FlashIdle'
  BY <1>1, FlashRestTyped DEF SpiIInv, DevicesOK
<1>4. McuOK'
  <2>1. FALSE \in BOOLEAN
    OBVIOUS
  <2> QED BY <1>1, <2>1, McuResetKeeps DEF SpiIInv, DevicesOK
<1>5. BusOK'
  BY <1>1, SpiZeroTyped DEF SpiIInv, BusOK
<1>6. TransferOK' /\ BusyOnlyStuck' /\ DevicesAtRest'
  BY <1>1, <1>2, <1>3, SpiZeroTyped DEF TransferOK, BusyOnlyStuck, DevicesAtRest
<1> QED BY <1>2, <1>3, <1>4, <1>5, <1>6 DEF SpiIInv, DevicesOK

(* A store changes a byte of the console's window, or none of the          *)
(* controller's state, and a program to nowhere ends the process.          *)
LEMMA StoreInWindow ==
    ASSUME txBuf \in Halves, NEW place, NEW value \in Byte, Store(place, value),
           place.chip = "TX" => place.at \in 0 .. BufLen - 1
    PROVE  txBuf' \in Halves
<1>1. CASE place.chip = "TX"
  <2>1. txBuf' = [txBuf EXCEPT ![Half(TRUE)][place.at] = value]
    BY <1>1 DEF Store
  <2> QED BY <1>1, <2>1, HalvesDiffer DEF Halves
<1>2. CASE place.chip # "TX"
  <2>1. txBuf' = txBuf
    BY <1>2 DEF Store
  <2> QED BY <2>1
<1> QED BY <1>1, <1>2

LEMMA PlacedInWindow ==
    ASSUME NEW window, NEW offset \in Offsets, NEW write
    PROVE  Place(window, offset, write).chip = "TX"
             => Place(window, offset, write).at \in 0 .. BufLen - 1
<1>1. offset % BufLen \in 0 .. BufLen - 1
  <2>1. offset \in Nat
    BY OffsetsAssumption
  <2> QED BY <2>1, Sizes
<1>2. \A bank : RamPlace(bank, offset, write).chip = "TX"
                  => RamPlace(bank, offset, write).at \in 0 .. BufLen - 1
  BY <1>1 DEF RamPlace, Nowhere, At
<1>3. \A bank : RomPlace(bank, offset, write).chip # "TX"
  BY DEF RomPlace, Nowhere, At
<1> QED BY <1>2, <1>3 DEF Place

LEMMA CartWriteKeeps ==
    ASSUME SpiIInv, NEW window \in Windows, NEW offset \in Offsets, NEW value \in Byte,
           CartWrite(window, offset, value)
    PROVE  SpiIInv'
<1>1. /\ ~halted /\ UNCHANGED unstoredVars /\ halted' \in BOOLEAN
      /\ Store(Place(window, offset, TRUE), value) \/ txBuf' = txBuf
  <2>1. CASE FlashCommand(window, offset, value)
    BY <2>1 DEF FlashCommand, Idle
  <2>2. CASE PlainWrite(window, offset, value)
    BY <2>2, HaltedTyped DEF PlainWrite, Idle, SpiIInv
  <2> QED BY <2>1, <2>2 DEF CartWrite
<1>2. /\ UNCHANGED <<spi, pow, rxBuf, phase, pos, tries>> /\ UNCHANGED <<stray, warm>>
      /\ UNCHANGED <<card, flashVars, mcuOnly>>
  BY <1>1 DEF unstoredVars, auxVars
<1>3. DevicesOK'
  BY <1>1, <1>2, DevicesUntouched DEF SpiIInv
<1>4. txBuf' \in Halves
  BY <1>1, StoreInWindow, PlacedInWindow DEF SpiIInv, BusOK
<1>5. DevicesAtRest'
  BY <1>2 DEF SpiIInv, DevicesAtRest, Flash!FlashIdle, Powered, flashVars
<1> QED BY <1>2, <1>3, <1>4, <1>5, SpiUntouched

LEMMA SpiStarts ==
    ASSUME BufSize > 1026, Init
    PROVE  SpiIInv
<1>1. /\ spi = SpiZero /\ pow = PowUnlock /\ txBuf = Blanked /\ rxBuf = Blanked
      /\ phase = "idle" /\ pos = 0 /\ tries = 0 /\ card = Tf!NewCard(FirstBytes)
      /\ Flash!FlashInit /\ image = FirstImage /\ Mcu!Init
  BY DEF Init
<1>2. DevicesOK
  BY <1>1, CardTyped, FlashRestTyped, McuStarts DEF DevicesOK
<1>3. BusOK
  <2>1. Blanked \in Halves
    BY DEF Blanked, Halves, Byte
  <2> QED BY <1>1, <2>1, SpiZeroTyped, Sizes DEF BusOK
<1>4. TransferOK /\ BusyOnlyStuck
  BY <1>1, SpiZeroTyped DEF TransferOK, BusyOnlyStuck
<1>5. DevicesAtRest
  BY <1>1, FlashRestTyped DEF DevicesAtRest, Tf!NewCard
<1> QED BY <1>2, <1>3, <1>4, <1>5 DEF SpiIInv

LEMMA SpiKept ==
    ASSUME BufSize > 1026, SpiIInv, [CartNext]_busAllVars
    PROVE  SpiIInv'
<1>1. ASSUME NEW window \in Windows, NEW offset \in Offsets, NEW value \in Byte,
             CartWrite(window, offset, value)
      PROVE  SpiIInv'
  BY <1>1, CartWriteKeeps
<1>2. ASSUME NEW byte \in SUBSET LowByte, BankWrite(byte) PROVE SpiIInv'
  <2>1. UNCHANGED spiVars
    BY <1>2 DEF BankWrite, WriteRomL, WriteBankLow, WriteBankHigh, SetBank
  <2> QED BY <2>1, StutterSpi
<1>3. CASE ControlWrite
  <2>1. ASSUME NEW new \in SUBSET PowBits, PowWrite(new) PROVE SpiIInv'
    BY <2>1, PowKeeps DEF PowWrite
  <2>2. UNCHANGED spiVars \/ \E new \in SUBSET PowBits : PowWrite(new)
    BY <1>3 DEF ControlWrite, WriteFlashEnable, WriteEmu, WriteMask
  <2> QED BY <2>1, <2>2, StutterSpi
<1>4. CASE PortWrite
  BY <1>4, WriteLowKeeps, WriteHighKeeps, MoveKeeps, WaitKeeps DEF PortWrite, SpiPort, Transfer
<1>5. CASE CartWarmboot
  BY <1>5, WarmbootKeeps DEF CartWarmboot
<1>6. CASE CartReset
  BY <1>6, ConsoleResetKeeps DEF CartReset
<1>7. CASE UNCHANGED busAllVars
  BY <1>7, StutterSpi DEF busAllVars
<1> QED BY <1>1, <1>2, <1>3, <1>4, <1>5, <1>6, <1>7 DEF CartNext

(* The inductive invariant.                                                *)
LEMMA SpiIInvHolds ==
    ASSUME BufSize > 1026
    PROVE  CartSpec => []SpiIInv
<1>1. CartInit => SpiIInv
  BY SpiStarts DEF CartInit
<1>2. SpiIInv /\ [CartNext]_busAllVars => SpiIInv'
  BY SpiKept
<1> QED BY <1>1, <1>2, PTL DEF CartSpec

THEOREM SpiCorrect ==
    ASSUME BufSize > 1026
    PROVE  CartSpec => []SpiInv
<1>1. SpiIInv => SpiInv
  <2> SUFFICES ASSUME SpiIInv PROVE SpiInv
      OBVIOUS
  <2>1. \A h \in {"low", "high"}, i \in 0 .. BufLen - 1 :
          txBuf[h][i] \in 0 .. 255 /\ rxBuf[h][i] \in 0 .. 255
    <3>1. txBuf \in Halves /\ rxBuf \in Halves
      BY DEF SpiIInv, BusOK
    <3>2. \A h \in {"low", "high"}, i \in 0 .. BufLen - 1 :
            txBuf[h][i] \in Byte /\ rxBuf[h][i] \in Byte
      BY <3>1 DEF Halves
    <3> QED BY <3>2 DEF Byte
  <2>2. Tf!TfTypeOK /\ Flash!FlashTypeOK /\ Mcu!TypeOK
    BY CardTyped DEF SpiIInv, DevicesOK, McuOK
  <2>3. TypeOK
    BY <2>1, <2>2 DEF TypeOK, SpiIInv, BusOK
  <2> QED BY <2>3 DEF SpiInv, SpiIInv
<1> QED BY <1>1, SpiIInvHolds, PTL

THEOREM RestAlways ==
    ASSUME BufSize > 1026
    PROVE  CartSpec => []DevicesAtRest
<1>1. SpiIInv => DevicesAtRest
  BY DEF SpiIInv
<1> QED BY <1>1, SpiIInvHolds, PTL

-----------------------------------------------------------------------------
(* BUSY.                                                                   *)
Locked ==
    /\ spi.busy /\ spi'.busy => spi' = spi
    /\ phase # "idle" =>
         /\ Half(TRUE)' = Half(TRUE)
         /\ rxBuf'[Half(TRUE)] = rxBuf[Half(TRUE)] /\ txBuf' = txBuf

LEMMA TransferLocked ==
    ASSUME BusOK, TransferOK, DevicesOK, Move \/ Wait
    PROVE  Locked
<1>1. pos \in 0 .. BufLen - 1
  BY IndexTyped DEF Move, Wait
<1>2. spi' = spi \/ Advance
  BY DEF Move, Wait
<1>3. spi'.idx = spi.idx /\ (spi' = spi \/ ~spi'.busy)
  <2>1. CASE spi' = spi
    BY <2>1
  <2>2. CASE Advance
    <3>1. spi' = spi \/ spi' = [spi EXCEPT !.busy = FALSE]
      BY <2>2 DEF Advance, Finish
    <3> QED BY <3>1 DEF BusOK, SpiValue
  <2> QED BY <1>2, <2>1, <2>2
<1>4. rxBuf' = rxBuf \/ Receive(AnswerDev)
  BY DEF Move, Wait
<1>5. rxBuf'[Half(TRUE)] = rxBuf[Half(TRUE)]
  <2>1. AnswerDev \in Byte /\ rxBuf \in Halves
    BY AnswerTyped DEF BusOK
  <2> QED BY <1>1, <1>4, <2>1, ReceiveTyped
<1>6. txBuf' = txBuf
  BY DEF Move, Wait
<1> QED BY <1>3, <1>5, <1>6 DEF Locked, Half

LEMMA RegistersLocked ==
    ASSUME BusOK, phase = "idle", spi' = spi \/ ~spi.busy \/ ~spi'.busy
    PROVE  Locked
BY DEF Locked

LEMMA StepLocked ==
    ASSUME SpiIInv, CartNext
    PROVE  Locked
<1>1. BusOK /\ TransferOK /\ DevicesOK
  BY DEF SpiIInv
<1>2. Move \/ Wait \/ (phase = "idle" /\ (spi' = spi \/ ~spi.busy \/ ~spi'.busy))
  <2>1. ASSUME NEW window \in Windows, NEW offset \in Offsets, NEW value \in Byte,
               CartWrite(window, offset, value)
        PROVE  phase = "idle" /\ spi' = spi
    BY <2>1 DEF CartWrite, FlashCommand, PlainWrite, Idle, unstoredVars
  <2>2. ASSUME NEW byte \in SUBSET LowByte, BankWrite(byte)
        PROVE  phase = "idle" /\ spi' = spi
    BY <2>2 DEF BankWrite, WriteRomL, WriteBankLow, WriteBankHigh, SetBank, Idle, spiVars, vars
  <2>3. ControlWrite => phase = "idle" /\ spi' = spi
    BY DEF ControlWrite, WriteFlashEnable, WriteEmu, WriteMask, PowWrite, WritePow, Idle,
           spiVars, vars
  <2>4. CASE PortWrite
    <3>1. ASSUME NEW lo \in 0 .. LowSize - 1, WriteLow(lo) PROVE phase = "idle" /\ ~spi.busy
      BY <3>1 DEF WriteLow, Idle
    <3>2. ASSUME NEW new \in SpiValue, WriteHigh(new)
          PROVE  phase = "idle" /\ (~spi.busy \/ ~spi'.busy)
      <4>1. phase = "idle" /\ spi' = new /\ (~spi.busy \/ new = [spi EXCEPT !.busy = FALSE])
        BY <3>2 DEF WriteHigh, Idle, Aborts
      <4> QED BY <1>1, <4>1 DEF BusOK, SpiValue
    <3> QED BY <2>4, <3>1, <3>2 DEF PortWrite, SpiPort, Transfer
  <2>5. CartWarmboot \/ CartReset => phase = "idle" /\ ~spi'.busy
    BY SpiZeroTyped DEF CartWarmboot, CartReset, Warmboot, ConsoleReset, Idle
  <2> QED BY <2>1, <2>2, <2>3, <2>4, <2>5 DEF CartNext
<1> QED BY <1>1, <1>2, TransferLocked, RegistersLocked

(* While BUSY is set SPI_CNT does not change, and a transfer leaves the    *)
(* console's windows alone, for every device, every buffer size and every  *)
(* sequence of register writes.                                            *)
THEOREM BusyLocks ==
    ASSUME BufSize > 1026
    PROVE  CartSpec => BusyHolds
<1>1. SpiIInv /\ [CartNext]_busAllVars => [Locked]_spiVars
  BY StepLocked DEF busAllVars
<1>2. CartSpec => []SpiIInv
  BY SpiIInvHolds
<1>3. CartSpec => [][Locked]_spiVars
  BY <1>1, <1>2, PTL DEF CartSpec
<1> QED BY <1>3, PTL DEF BusyHolds, Locked, spiVars
=============================================================================
