------------------------------- MODULE NileMcu -------------------------------
(***************************************************************************)
(* The emulated microcontroller of the nileswan cartridge as an SPI slave  *)
(* (nileswan_mcu.cpp).  The console clocks one byte in and one byte out at *)
(* a time: Exchange(b) is one call of nile_spi_mcu_exchange and Answer is  *)
(* the byte that call returns.  In native mode the bytes form packets, a   *)
(* two byte header (7 bit command, 9 bit argument) and a payload; in boot  *)
(* mode they form the STM32 boot loader protocol.                          *)
(*                                                                         *)
(* The USB CDC commands read and write the two pipes of comm.cpp that the  *)
(* console's UART uses as well: serialIn is what the far end has sent and  *)
(* nobody has read, serialOut what was written and the far end has not     *)
(* read.  taken is auxiliary: every byte read from serialIn that has left  *)
(* the MCU, with who got it.                                               *)
(*                                                                         *)
(* A definition with a note such as "forgets the payload" beside it is the *)
(* definition that follows with that mistake made: no specification uses   *)
(* it, it is there to show that the properties notice.                     *)
(***************************************************************************)
EXTENDS NileDevice

CONSTANTS
    DefaultArg,   \* what argument 0 stands for, 512 in the source
    MaxCdc,       \* MCU_MAX_PER_USB_CDC_PACKET, 128 in the source
    EepromWords,  \* words of eeprom_data, 1024 in the source
    Junk          \* bytes a read past eeprom_data may find

ASSUME McuAssumption ==
    /\ DefaultArg \in 1 .. 512
    /\ MaxCdc \in 1 .. 255
    /\ EepromWords \in Nat
    /\ Junk # {} /\ Junk \subseteq Byte

VARIABLES
    tx, rx,                                \* the queues of spi_mcu
    bootMode, bootStarted, waitingAck,     \* the boot loader's state
    bootCmd, bootStep, eraseCount,
    unget,                                 \* cdc_unget: <<>> for -1, else <<byte>>
    eepromMode, saveId,                    \* spi_mcu_persistent
    rtc,                                   \* the clock of rtc.cpp, year .. sec
    serialIn, serialOut,                   \* unread bytes of stdout_pipes, stdin_pipes
    taken                                  \* auxiliary, see above

bootVars == <<bootMode, bootStarted, waitingAck, bootCmd, bootStep, eraseCount>>
keptVars == <<eepromMode, saveId, rtc>>
cdcVars == <<unget, serialIn, serialOut, taken>>
mcuVars == <<tx, rx, bootVars, keptVars, cdcVars, halted>>

ECHO == 0
FREQ == 2
ID == 3
VERSION == 15
EEPROM_MODE == 16
EEPROM_READ == 18
RTC_COMMAND == 20
EEPROM_GET_MODE == 21
SET_SAVE_ID == 22
GET_SAVE_ID == 23
CDC_READ == 64
CDC_WRITE == 65
CDC_AVAILABLE == 67
CDC_FLUSH == 68
ACCEL_POLL == 80
ACCEL_READ == 81

BOOT_ACK == 121
BOOT_NACK == 31
BOOT_START == 90
BOOT_READ == 17
BOOT_JUMP == 33
BOOT_WRITE == 49
BOOT_ERASE == 68
SteppedCommands == {BOOT_READ, BOOT_JUMP, BOOT_WRITE, BOOT_ERASE}

Smaller(a, b) == IF a < b THEN a ELSE b

-----------------------------------------------------------------------------
(* Native mode: how a packet p (header first) is read.                     *)

Cmd(p) == p[1] % 128

Arg(p) ==
    LET arg == p[1] \div 128 + 2 * p[2]
    IN  IF arg = 0 /\ Cmd(p) \in {EEPROM_READ, CDC_READ, CDC_WRITE, ECHO}
        THEN DefaultArg ELSE arg

(* rtc_cmd_rx_size and rtc_cmd_tx_size; command c is entry c + 1.          *)
RtcRxSize == <<0, 0, 1, 0, 7, 0, 3, 0, 2, 0, 2, 0, 0, 0, 0, 0>>
RtcTxSize == <<0, 0, 0, 1, 0, 7, 0, 3, 0, 2, 0, 2, 0, 0, 0, 0>>
RtcCmd(p) == Arg(p) % 16

(* The bytes a command waits for before it is served: a header and more.   *)
PayloadLen(p) ==
    IF Cmd(p) \in {CDC_WRITE, ECHO} THEN Arg(p)
    ELSE IF Cmd(p) = RTC_COMMAND THEN RtcRxSize[RtcCmd(p) + 1]
    ELSE IF Cmd(p) = SET_SAVE_ID THEN 4
    ELSE IF Cmd(p) = EEPROM_READ THEN 2 ELSE 0
PacketLen(p) == 2 + PayloadLen(p)

(* spi_mcu_popn after a command has been served: all of its packet goes.   *)
RestAfterHeader(p) == Pop(p, 2)                          \* forgets the payload
Rest(p) == Pop(p, PacketLen(p))

(* p holds a header and everything its command waits for.                  *)
Complete(p) == Len(p) >= 2 /\ Len(p) >= PacketLen(p)

(* Answers of fixed bytes, and a count in two bytes.                       *)
Done == <<1>>
Uid == [i \in 1 .. 12 |-> i - 1]
Firmware == <<1, 0, 0, 0>>
AtRest == <<0, 0, 0, 4, 0, 0>>
Short(n) == <<n % 256, n \div 256>>

(* spi_mcu_send_response: a two byte key, twice the length, and the bytes. *)
Framed(payload) ==
    Short(2 * Len(payload)) \o payload

Respond(payload) ==
    IF Fits(tx, 2 + Len(payload))
    THEN tx' = tx \o Framed(payload) /\ UNCHANGED halted
    ELSE halted' = TRUE /\ UNCHANGED tx

(* Commands whose answer is fixed or read from kept state, and that change *)
(* nothing else.                                                           *)
PlainCommands ==
    {FREQ, ACCEL_POLL, ID, VERSION, EEPROM_GET_MODE, GET_SAVE_ID, ACCEL_READ}

ServePlain(p) ==
    /\ \/ Cmd(p) \in {FREQ, ACCEL_POLL} /\ Respond(Done)
       \/ Cmd(p) = ID              /\ Respond(Uid)
       \/ Cmd(p) = VERSION         /\ Respond(Firmware)
       \/ Cmd(p) = EEPROM_GET_MODE /\ Respond(<<eepromMode>>)
       \/ Cmd(p) = GET_SAVE_ID     /\ Respond(saveId)
       \/ Cmd(p) = ACCEL_READ      /\ Respond(AtRest)
    /\ UNCHANGED <<keptVars, cdcVars>>

ServeEepromMode(p) ==
    /\ Cmd(p) = EEPROM_MODE
    /\ eepromMode' = Arg(p) % 256
    /\ Respond(Done)
    /\ UNCHANGED <<saveId, rtc, cdcVars>>

(* Nothing ever writes eeprom_data, so a read finds zeros; the address is  *)
(* not checked, and past the array it finds whatever the memory holds.     *)
EepromBytes(address, n, past) ==
    [i \in 1 .. n |-> IF address + (i - 1) \div 2 < EepromWords THEN 0 ELSE past]
ServeEepromRead(p) ==
    /\ Cmd(p) = EEPROM_READ
    /\ \E past \in Junk : Respond(EepromBytes(p[3] + 256 * p[4], 2 * Arg(p), past))
    /\ UNCHANGED <<keptVars, cdcVars>>


ServeSetSaveId(p) ==
    /\ Cmd(p) = SET_SAVE_ID
    /\ saveId' = SubSeq(p, 3, 6)
    /\ Respond(Done)
    /\ UNCHANGED <<eepromMode, rtc, cdcVars>>

ServeEcho(p) ==
    /\ Cmd(p) = ECHO
    /\ Respond(SubSeq(p, 3, 2 + Arg(p)))
    /\ UNCHANGED <<keptVars, cdcVars>>

(* rtc_transfer: commands 4 and 6 store what they are given unchecked.     *)
ServeRtc(p) ==
    /\ Cmd(p) = RTC_COMMAND
    /\ \/ /\ RtcCmd(p) = 4
          /\ rtc' = SubSeq(p, 3, 9) /\ Respond(<<>>)
       \/ /\ RtcCmd(p) = 6
          /\ rtc' = SubSeq(rtc, 1, 4) \o SubSeq(p, 3, 5) /\ Respond(<<>>)
       \/ RtcCmd(p) = 5 /\ Respond(rtc) /\ UNCHANGED rtc
       \/ RtcCmd(p) = 7 /\ Respond(SubSeq(rtc, 5, 7)) /\ UNCHANGED rtc
       \/ /\ RtcCmd(p) \notin 4 .. 7
          /\ Respond(Fill(RtcTxSize[RtcCmd(p) + 1], 0)) /\ UNCHANGED rtc
    /\ UNCHANGED <<eepromMode, saveId, cdcVars>>

Taken(who, bytes) == [i \in 1 .. Len(bytes) |-> [by |-> who, byte |-> bytes[i]]]

(* The byte CDC_AVAILABLE peeked comes first, then bytes from the pipe.    *)
ReadyWithoutPeek == serialIn                             \* forgets the peeked byte
ReadyPeekLast == serialIn \o unget                       \* hands it out last
Ready == unget \o serialIn

ServeCdcRead(p) ==
    LET n == Smaller(Arg(p), MaxCdc)
        got == SubSeq(Ready, 1, Smaller(n, Len(Ready)))
    IN  /\ Cmd(p) = CDC_READ
        /\ unget' = <<>>
        /\ serialIn' = SubSeq(serialIn, 1 + n - Len(unget), Len(serialIn))
        /\ taken' = taken \o Taken("host", got)
        /\ Respond(got)
        /\ UNCHANGED <<keptVars, serialOut>>

(* The first byte Comm_SendByte refuses ends the write; the rest of the    *)
(* payload is dropped and the answer is the count that went out.           *)
ServeCdcWrite(p) ==
    /\ Cmd(p) = CDC_WRITE
    /\ \E n \in 0 .. Arg(p) :
          /\ serialOut' = serialOut \o SubSeq(p, 3, 2 + n)
          /\ Respond(Short(n))
    /\ UNCHANGED <<keptVars, unget, serialIn, taken>>

(* Peeks at one byte by taking it out of the pipe.                         *)
ServeCdcAvailable(p) ==
    /\ Cmd(p) = CDC_AVAILABLE
    /\ unget' = SubSeq(Ready, 1, Smaller(1, Len(Ready)))
    /\ serialIn' = SubSeq(serialIn, 2 - Len(unget), Len(serialIn))
    /\ Respond(Short(Len(unget')))
    /\ UNCHANGED <<keptVars, serialOut, taken>>

(* Drops the peeked byte and leaves the pipe alone.                        *)
ServeCdcFlush(p) ==
    /\ Cmd(p) = CDC_FLUSH
    /\ unget' = <<>>
    /\ taken' = taken \o Taken("flush", unget)
    /\ Respond(<<>>)
    /\ UNCHANGED <<keptVars, serialIn, serialOut>>

ServedCommands ==
    PlainCommands \cup {EEPROM_MODE, EEPROM_READ, SET_SAVE_ID, ECHO, RTC_COMMAND,
                        CDC_READ, CDC_WRITE, CDC_AVAILABLE, CDC_FLUSH}

(* Any other command is dropped without an answer.                         *)
ServeUnknown(p) ==
    /\ Cmd(p) \notin ServedCommands
    /\ UNCHANGED <<tx, halted, keptVars, cdcVars>>

Serve(p) ==
    /\ rx' = Rest(p)
    /\ \/ ServePlain(p)    \/ ServeEepromMode(p)   \/ ServeEepromRead(p)
       \/ ServeSetSaveId(p) \/ ServeEcho(p)         \/ ServeRtc(p)
       \/ ServeCdcRead(p)  \/ ServeCdcWrite(p)     \/ ServeCdcAvailable(p)
       \/ ServeCdcFlush(p) \/ ServeUnknown(p)

-----------------------------------------------------------------------------
(* One byte each way.  A queued answer byte goes out first, and then the   *)
(* byte that came in is lost: the MCU answers half duplex.                 *)

AnswerByteKept ==                                        \* forgets to pop it
    /\ tx # <<>>
    /\ UNCHANGED <<tx, rx, bootVars, keptVars, cdcVars, halted>>
AnswerByte ==
    /\ tx # <<>>
    /\ tx' = Tail(tx)
    /\ UNCHANGED <<rx, bootVars, keptVars, cdcVars, halted>>

Overrun ==
    /\ tx = <<>> /\ ~Fits(rx, 1)
    /\ halted' = TRUE
    /\ UNCHANGED <<tx, rx, bootVars, keptVars, cdcVars>>

(* A queue that starts with the fill byte is out of step with the host:    *)
(* that byte is thrown away.                                               *)
NativeByte(b) ==
    LET p == Append(rx, b)
    IN  /\ ~bootMode /\ tx = <<>> /\ Fits(rx, 1)
        /\ IF p[1] = FillByte \/ ~Complete(p)
           THEN /\ rx' = IF p[1] = FillByte THEN Tail(p) ELSE p
                /\ UNCHANGED <<tx, keptVars, cdcVars, halted>>
           ELSE Serve(p)
        /\ UNCHANGED bootVars

-----------------------------------------------------------------------------
(* Boot mode: nile_spi_mcu_boot_exchange, after the byte has been queued.  *)

(* spi_mcu_boot_send_ack.                                                  *)
SendAck(ok) ==
    /\ waitingAck' = TRUE
    /\ IF Fits(tx, 2)
       THEN tx' = tx \o <<0, IF ok THEN BOOT_ACK ELSE BOOT_NACK>> /\ UNCHANGED halted
       ELSE halted' = TRUE /\ UNCHANGED tx

(* The host acknowledges an acknowledgement, or greets with one; after the *)
(* address of a jump this leaves the boot loader.                          *)
JumpDueAtAddress == bootCmd = BOOT_JUMP /\ bootStep = 1  \* a step too early
JumpDue == bootCmd = BOOT_JUMP /\ bootStep = 2

BootAcked(p) ==
    /\ waitingAck \/ bootStep = 0
    /\ p[1] = BOOT_ACK
    /\ waitingAck' = FALSE
    /\ bootMode' = ~JumpDue
    /\ rx' = Tail(p)
    /\ UNCHANGED <<tx, halted, bootStarted, bootCmd, bootStep, eraseCount>>

BootNotAcked(p) ==
    /\ waitingAck /\ p[1] # BOOT_ACK
    /\ rx' = Tail(p)
    /\ UNCHANGED <<tx, halted, bootVars>>

(* How many bytes the current step of a command waits for.                 *)
StepLenWide(p) ==                                        \* four bytes a sector
    IF bootStep = 1 THEN IF bootCmd = BOOT_ERASE THEN 3 ELSE 5
    ELSE IF bootCmd = BOOT_ERASE THEN 4 * eraseCount + 3
    ELSE IF bootCmd = BOOT_READ THEN 2 ELSE p[1] + 3
StepLen(p) ==
    IF bootStep = 1 THEN IF bootCmd = BOOT_ERASE THEN 3 ELSE 5
    ELSE IF bootCmd = BOOT_ERASE THEN 2 * eraseCount + 3
    ELSE IF bootCmd = BOOT_READ THEN 2 ELSE p[1] + 3

InStep == ~waitingAck /\ bootStep # 0

BootStepWaits(p) ==
    /\ InStep
    /\ Len(p) < StepLen(p)
    /\ rx' = p
    /\ UNCHANGED <<tx, halted, bootVars>>

(* The address, or for an erase the count.  The code falls through to the  *)
(* second step, which finds an empty queue (RxUnfinished) and returns.     *)
BootFirstStep(p) ==
    /\ InStep /\ bootStep = 1
    /\ Len(p) >= StepLen(p)
    /\ eraseCount' = IF bootCmd = BOOT_ERASE THEN 256 * p[1] + p[2] ELSE eraseCount
    /\ bootStep' = 2
    /\ rx' = Pop(p, StepLen(p))
    /\ SendAck(TRUE)
    /\ UNCHANGED <<bootMode, bootStarted, bootCmd>>

(* The data, the read length or the sector list; all three are stubs.      *)
BootSecondStep(p) ==
    /\ InStep /\ bootStep = 2
    /\ Len(p) >= StepLen(p)
    /\ bootStep' = 0
    /\ rx' = Pop(p, StepLen(p))
    /\ SendAck(TRUE)
    /\ UNCHANGED <<bootMode, bootStarted, bootCmd, eraseCount>>

AtCommand(p) == ~waitingAck /\ bootStep = 0 /\ p[1] = BOOT_START

BootStart(p) ==
    /\ AtCommand(p) /\ ~bootStarted
    /\ bootStarted' = TRUE
    /\ rx' = Tail(p)
    /\ SendAck(TRUE)
    /\ UNCHANGED <<bootMode, bootCmd, bootStep, eraseCount>>

(* A command is START, its code and the complement of the code.            *)
BootCommandWaits(p) ==
    /\ AtCommand(p) /\ bootStarted
    /\ Len(p) < 3
    /\ rx' = p
    /\ UNCHANGED <<tx, halted, bootVars>>

BootCommandGarbled(p) ==
    /\ AtCommand(p) /\ bootStarted
    /\ Len(p) >= 3 /\ p[3] # 255 - p[2]
    /\ rx' = Pop(p, 3)
    /\ UNCHANGED <<tx, halted, bootVars>>

BootCommand(p) ==
    /\ AtCommand(p) /\ bootStarted
    /\ Len(p) >= 3 /\ p[3] = 255 - p[2]
    /\ bootCmd' = p[2]
    /\ bootStep' = IF p[2] \in SteppedCommands THEN 1 ELSE 0
    /\ SendAck(p[2] \in SteppedCommands \cup {BOOT_START})
    /\ rx' = Pop(p, 3)
    /\ UNCHANGED <<bootMode, bootStarted, eraseCount>>

BootNoise(p) ==
    /\ ~waitingAck /\ bootStep = 0
    /\ p[1] \notin {BOOT_ACK, BOOT_START}
    /\ rx' = Tail(p)
    /\ UNCHANGED <<tx, halted, bootVars>>

BootByte(b) ==
    LET p == Append(rx, b)
    IN  /\ bootMode /\ tx = <<>> /\ Fits(rx, 1)
        /\ \/ BootAcked(p)        \/ BootNotAcked(p)  \/ BootStepWaits(p)
           \/ BootFirstStep(p)    \/ BootSecondStep(p) \/ BootStart(p)
           \/ BootCommandWaits(p) \/ BootCommandGarbled(p)
           \/ BootCommand(p)      \/ BootNoise(p)
        /\ UNCHANGED <<keptVars, cdcVars>>

-----------------------------------------------------------------------------
(* nile_spi_mcu_exchange(b), and the byte it returns.                      *)
Exchange(b) ==
    /\ ~halted
    /\ AnswerByte \/ Overrun \/ NativeByte(b) \/ BootByte(b)

Answer == IF bootMode /\ tx = <<>> THEN BOOT_NACK ELSE First(tx)

(* nile_spi_mcu_reset(TRUE, boot); the peeked byte goes with the rest.     *)
Reset(boot) ==
    /\ ~halted
    /\ tx' = <<>> /\ rx' = <<>>
    /\ bootMode' = boot
    /\ bootStarted' = FALSE /\ waitingAck' = FALSE
    /\ bootCmd' = 0 /\ bootStep' = 0 /\ eraseCount' = 0
    /\ unget' = <<>>
    /\ taken' = taken \o Taken("reset", unget)
    /\ eepromMode' = 0 /\ saveId' = Fill(4, 0)
    /\ UNCHANGED <<rtc, serialIn, serialOut, halted>>

(* The other users of the serial pipes: the far end, and the console's own *)
(* UART (Comm_Process, when its receive latch is free).                    *)
FarEndSends(b) ==
    /\ ~halted
    /\ serialIn' = Append(serialIn, b)
    /\ UNCHANGED <<tx, rx, bootVars, keptVars, unget, serialOut, taken, halted>>

FarEndReads ==
    /\ ~halted /\ serialOut # <<>>
    /\ serialOut' = <<>>
    /\ UNCHANGED <<tx, rx, bootVars, keptVars, unget, serialIn, taken, halted>>

UartReads ==
    /\ ~halted /\ serialIn # <<>>
    /\ serialIn' = Tail(serialIn)
    /\ taken' = taken \o Taken("uart", <<Head(serialIn)>>)
    /\ UNCHANGED <<tx, rx, bootVars, keptVars, unget, serialOut, halted>>

Init ==
    /\ tx = <<>> /\ rx = <<>>
    /\ bootMode = FALSE /\ bootStarted = FALSE /\ waitingAck = FALSE
    /\ bootCmd = 0 /\ bootStep = 0 /\ eraseCount = 0
    /\ unget = <<>> /\ serialIn = <<>> /\ serialOut = <<>> /\ taken = <<>>
    /\ eepromMode = 0 /\ saveId = Fill(4, 0) /\ rtc = Fill(7, 0)
    /\ halted = FALSE

Next ==
    \/ \E b \in Byte : Exchange(b) \/ FarEndSends(b)
    \/ \E boot \in BOOLEAN : Reset(boot)
    \/ FarEndReads
    \/ UartReads

Spec == Init /\ [][Next]_mcuVars

-----------------------------------------------------------------------------
WordMax == 65535
Word == 0 .. WordMax
BootTypeOK ==
    /\ bootMode \in BOOLEAN /\ bootStarted \in BOOLEAN /\ waitingAck \in BOOLEAN
    /\ bootCmd \in Byte /\ bootStep \in {0, 1, 2} /\ eraseCount \in Word

Reader == {"host", "uart", "flush", "reset"}
CdcTypeOK ==
    /\ unget \in Seq(Byte) /\ Len(unget) <= 1
    /\ serialIn \in Seq(Byte) /\ serialOut \in Seq(Byte)
    /\ taken \in Seq([by : Reader, byte : Byte])

KeptTypeOK ==
    /\ eepromMode \in Byte
    /\ saveId \in Seq(Byte) /\ Len(saveId) = 4
    /\ rtc \in Seq(Byte) /\ Len(rtc) = 7

(* The queues hold bytes, the boot loader's registers and the clock have   *)
(* the values the struct spi_mcu and GenericRTC give them room for.        *)
TypeOK ==
    /\ tx \in Seq(Byte) /\ rx \in Seq(Byte) /\ halted \in BOOLEAN
    /\ BootTypeOK /\ CdcTypeOK /\ KeptTypeOK

(* Between two exchanges the receive queue holds at most an unfinished     *)
(* packet, boot command or boot step, never one that is complete and       *)
(* unserved: every `if (rx.pos < n) break` of nile_spi_mcu_exchange and    *)
(* every `return rx` of the boot loader waits for something the next       *)
(* bytes can complete, and what is complete has been popped.               *)
RxUnfinished ==
    rx # <<>> =>
      IF ~bootMode THEN rx[1] # FillByte /\ ~Complete(rx)
      ELSE IF bootStep # 0 THEN ~waitingAck /\ Len(rx) < StepLen(rx)
      ELSE ~waitingAck /\ bootStarted /\ rx[1] = BOOT_START /\ Len(rx) < 3

(* Half duplex: while an answer is queued there is no half received        *)
(* packet, so the bytes AnswerByte throws away are never part of one.      *)
NoPacketBehindAnswer == tx # <<>> => rx = <<>>

(* The one way the device takes the whole process down through            *)
(* spi_buffer_push: a boot loader erase whose sector list, at two bytes a  *)
(* sector, does not fit the 4096 byte queue.  No packet of native mode and *)
(* no other boot command can do it, whatever the host sends.               *)
OnlyEraseHalts ==
    halted => /\ bootMode /\ bootCmd = BOOT_ERASE /\ bootStep = 2
              /\ 2 * eraseCount + 3 >= BufSize
=============================================================================
