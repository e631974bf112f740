------------------------------- MODULE WsEeprom -------------------------------
(***************************************************************************)
(* The two serial EEPROMs (eeprom.cpp), the console's own, which can be    *)
(* locked, and the cartridge's.  An EEPROM is a record of 16 bit words.    *)
(* How many of them a command can reach is told it with every command      *)
(* (`size`): it is what divides the address register into opcode and word, *)
(* and the console's own has another size in each of the video modes.      *)
(*                                                                         *)
(*   words, data, address                                                  *)
(*   lock, disabled, done, ready   bits 7, 3, 1 and 0 of the command byte  *)
(*   internal                      the code's `eeprom == iEEPROM`          *)
(*                                                                         *)
(* A definition with a note such as "forgets the lock" beside it is the    *)
(* definition that follows with that mistake made.                         *)
(***************************************************************************)
EXTENDS Integers

CONSTANTS
    MonoWords,      \* of the console's own outside the colour modes, 64 in the source
    ColourWords,    \* of it in a colour mode, 1024 in the source
    CartWords,      \* of the cartridge's: 64, 512 or 1024
    ProtectFrom     \* the first word the lock covers, 24 in the source

ASSUME EepromAssumption ==
    /\ {MonoWords, ColourWords, CartWords} \subseteq {8, 16, 32, 64, 128, 256, 512, 1024}
    /\ MonoWords <= ColourWords
    /\ ProtectFrom \in Nat /\ 2 * ProtectFrom <= MonoWords /\ 4 * ProtectFrom <= ColourWords

WordMax == 65535
Address == 0 .. WordMax
WordValue == 0 .. WordMax
ERASED == WordMax

(* What the address register says: a word, and an opcode above it whose    *)
(* lowest two bits are the word's highest.                                 *)
Word(size, address) == address % size
Opcode(size, address) == (address \div size) % 8
Extended(size, address) == (address \div (size \div 4)) % 4

UnlockedBytes(e, size) ==                              \* takes a word's number for a byte's
    ~e.disabled /\ ~(e.internal /\ e.lock /\ Word(size, e.address) >= 2 * ProtectFrom)
Unlocked(e, size) ==
    ~e.disabled /\ ~(e.internal /\ e.lock /\ Word(size, e.address) >= ProtectFrom)

(* WSwan_EEPROMCommand: port 0xBE or 0xC8 with its bit 7 in `lock` and the *)
(* one of its bits 4, 5 and 6 that starts a command in `op`, or 0.         *)
All(e, size, value) == [i \in DOMAIN e.words |-> IF i < size THEN value ELSE e.words[i]]
Special(e, size, extended) == Opcode(size, e.address) = 4 /\ Extended(size, e.address) \in extended
Enable(e, size) ==
    IF Special(e, size, {0, 3}) THEN [e EXCEPT !.disabled = Special(e, size, {0})] ELSE e
Stored(e, size, data) ==
    LET word == Word(size, e.address)
    IN  IF ~Unlocked(e, size) THEN e.words
        ELSE CASE Special(e, size, {1}) -> All(e, size, data)
               [] Special(e, size, {2}) -> All(e, size, ERASED)
               [] Opcode(size, e.address) = 5 -> [e.words EXCEPT ![word] = data]
               [] Opcode(size, e.address) = 7 -> [e.words EXCEPT ![word] = ERASED]
               [] OTHER -> e.words
Execute(e, size, op) ==
    LET data == IF op = 5 THEN e.data ELSE ERASED
        read == IF Opcode(size, e.address) = 6 THEN e.words[Word(size, e.address)] ELSE data
    IN  [Enable(e, size) EXCEPT !.words = Stored(e, size, data), !.done = TRUE, !.ready = op = 4,
                                !.data = IF op = 4 THEN read ELSE @]
EEPROMCommand(e, size, lock, op) ==
    LET locked == [e EXCEPT !.lock = @ \/ lock]
    IN  IF op = 0 THEN locked ELSE Execute(locked, size, op)

(* The low or the high byte of a register: ports 0xBA to 0xBD, 0xC4 to 0xC7.*)
LowByte(value, byte) == 256 * (value \div 256) + byte
HighByte(value, byte) == 256 * byte + (value % 256)

(* WSwan_EEPROMReset clears the registers, the lock among them, and leaves *)
(* the words; the reset of the console then locks its own again.           *)
EEPROMReset(e) ==
    [e EXCEPT !.lock = FALSE, !.disabled = FALSE, !.done = FALSE, !.ready = FALSE,
              !.data = 0, !.address = 0]
EEPROMLock(e, locked) == [e EXCEPT !.lock = locked]

(* WSwan_EEPROMStateAction: a save holds everything but the data register. *)
EEPROMLoad(e, saved) == [saved EXCEPT !.data = e.data]

Eeproms(n) ==
    [words : [0 .. n - 1 -> WordValue], data : WordValue, address : Address,
     lock : BOOLEAN, disabled : BOOLEAN, done : BOOLEAN, ready : BOOLEAN, internal : BOOLEAN]
NewEeprom(n, internal) ==
    [words |-> [i \in 0 .. n - 1 |-> 0], data |-> 0, address |-> 0, lock |-> FALSE,
     disabled |-> FALSE, done |-> FALSE, ready |-> FALSE, internal |-> internal]
=============================================================================
