---------------------------- MODULE NileFlashHost ----------------------------
(***************************************************************************)
(* NileFlash under a host that selects the chip, sends a command and its   *)
(* bytes, clocks fill bytes as long as it likes and deselects the chip     *)
(* whenever it likes (the host is software of the console and not part of  *)
(* the repository).  The host keeps book: shadow is what the chip should   *)
(* hold, enabled whether writes should be enabled, got what the chip has   *)
(* answered since it was selected.                                         *)
(***************************************************************************)
EXTENDS NileFlash

CONSTANTS
    Top,            \* addresses of the image: 0 .. Top - 1
    Contents,       \* what it holds when the console starts
    Commands,       \* what the host sends: a command with its address and data
    MaxCommands,    \* how many commands it sends
    MaxClocks       \* how many bytes it clocks in one command

Erases == {ERASE_4K, ERASE_32K, ERASE_64K}
Latches == {WREN, WRDI}
Known == Addressed \cup Status \cup Identity \cup Latches

Start(c) == 65536 * c[2] + 256 * c[3] + c[4]
PageOf(c) == PageSize * (Start(c) \div PageSize)

(* A read is clocked with fill bytes, a program operation with its data    *)
(* only.  The chip holds no erase command, and takes a READ behind it for  *)
(* the next command; bytes that are no command follow each other freely.   *)
IsCommand(c) ==
    /\ c \in Seq(Byte) /\ c # <<>>
    /\ \/ c[1] \in {READ, MFR_ID} /\ Len(c) = 4
       \/ c[1] = WRITE /\ Len(c) >= 4 /\ PageOf(c) + PageSize <= Top
       \/ c[1] \in Erases /\ (Len(c) = 4 \/ (Len(c) = 5 /\ c[5] = READ))
       \/ c[1] \in Status \cup (Identity \ {MFR_ID}) \cup Latches /\ Len(c) = 1
       \/ \A k \in 1 .. Len(c) : c[k] \notin Known

(* There is a file, which ends before the last address, and the longest    *)
(* answer fits into the queue.                                             *)
ASSUME HostAssumption ==
    /\ BufSize > 12 /\ HasFlash
    /\ Top \in Nat /\ Top <= Start(<<READ, 255, 255, 255>>)
    /\ Contents \in [0 .. Top - 1 -> Byte]
    /\ \A c \in Commands : IsCommand(c)
    /\ MaxCommands \in Nat /\ MaxClocks \in Nat

VARIABLES command, got, shadow, enabled, commands
hostVars == <<command, got, shadow, enabled, commands>>
allVars == <<flashVars, halted, hostVars>>

NoCommandYet == <<>>

(* The address of byte k of a program command, its data starting at 5.     *)
Target(k) == PageOf(command) + ((Start(command) + k - 5) % PageSize)

Select ==
    /\ command = NoCommandYet /\ commands < MaxCommands
    /\ command' \in Commands
    /\ commands' = commands + 1
    /\ UNCHANGED <<flashVars, halted, got, shadow, enabled>>

Clock ==
    LET k == Len(got) + 1
        b == IF k <= Len(command) THEN command[k] ELSE FillByte
    IN  /\ command # NoCommandYet /\ k <= MaxClocks
        /\ command[1] # WRITE \/ k <= Len(command)
        /\ FlashExchange(b)
        /\ got' = Append(got, FlashAnswer)
        /\ shadow' = IF command[1] = WRITE /\ k > 4
                     THEN [shadow EXCEPT ![Target(k)] = b] ELSE shadow
        /\ enabled' = IF k = 1 /\ b \in Latches THEN b = WREN ELSE enabled
        /\ UNCHANGED <<command, commands>>

(* Between two commands, and in the middle of one.                         *)
Deselect ==
    /\ command # NoCommandYet
    /\ FlashDeselect
    /\ command' = NoCommandYet /\ got' = <<>>
    /\ UNCHANGED <<halted, shadow, enabled, commands>>

HostInit ==
    /\ FlashInit /\ image = Contents /\ halted = FALSE
    /\ command = NoCommandYet /\ got = <<>>
    /\ shadow = Contents /\ enabled = FALSE /\ commands = 0
HostNext == Select \/ Clock \/ Deselect
HostSpec == HostInit /\ [][HostNext]_allVars

-----------------------------------------------------------------------------
(* What a host expects from byte k on: the bytes of the image from the     *)
(* address on, the identity the data sheet of the chip names behind its    *)
(* dummy bytes, the write enable bit; fill bytes in every other place.     *)
Behind(k, answer) ==
    IF k - Len(command) \in 1 .. Len(answer) THEN answer[k - Len(command)] ELSE FillByte
Expected(k) ==
    LET c == command[1]
        from == Start(command) + k - 5
        dummies(n) == Fill(n, FillByte)
    IN  IF c = READ /\ k > 4 THEN IF from < Top THEN shadow[from] ELSE FillByte
        ELSE IF c = RDSR1 /\ k > 1 THEN IF enabled THEN 2 ELSE 0
        ELSE IF c \in {RDSR2, RDSR3} /\ k > 1 THEN 0
        ELSE IF c = RDID THEN Behind(k, <<239, 64, 21>>)
        ELSE IF c = MFR_ID THEN Behind(k, <<239, 20>>)
        ELSE IF c = WAKE_ID THEN Behind(k, dummies(3) \o <<20>>)
        ELSE IF c = RDUUID
        THEN Behind(k, dummies(4) \o <<1, 35, 69, 103, 137, 171, 205, 239>>)
        ELSE FillByte

(* Whatever was broken off before, each byte of a command is answered as   *)
(* its place in that command asks for: reads deliver what was programmed,  *)
(* answers come neither early nor late.                                    *)
AnswersInStep == \A k \in 1 .. Len(got) : got[k] = Expected(k)

(* A program operation that is too long, or cut short at any byte, stores  *)
(* its bytes where a page of the chip wraps them to and nowhere else, and  *)
(* no other command changes the image (nile_spi_flash_exchange).           *)
StoredAsSent == image = shadow
=============================================================================
