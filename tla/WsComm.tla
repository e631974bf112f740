-------------------------------- MODULE WsComm --------------------------------
(***************************************************************************)
(* The console's UART (comm.cpp) with the interrupts it raises, and the    *)
(* two pipes that join it to the far end, a child process.                 *)
(*                                                                         *)
(* The console's program, the emulator around it and the far end are the   *)
(* actors.  Comm_Process runs once a line: it writes the latched byte to   *)
(* one pipe, and the write blocks while that pipe is full, then tries to   *)
(* take a byte from the other.  `pc` is where the emulation is: `run`,     *)
(* where the program runs, `send` in front of the write, `recv` behind it. *)
(* Nothing else runs in the console until the call is over.                *)
(*                                                                         *)
(* A definition with a note such as "forgets the latch" beside it is the   *)
(* definition that follows with that mistake made: no specification uses   *)
(* it, it is there to show that the properties notice.                     *)
(***************************************************************************)
EXTENDS WsInterrupt, Sequences

CONSTANTS
    PipeSize,     \* the bytes a pipe holds
    Data          \* the bytes that are sent

ASSUME CommAssumption == PipeSize \in Nat \ {0}

VARIABLES
    int,                        \* the interrupt controller
    uartOn,                     \* bit 7 of Control; bit 6, the speed, has no effect
    sendBuf, sendLatched, recvBuf, recvLatched,
    pc,
    toFar, toConsole,           \* what is in stdin_pipes and stdout_pipes
    farEnd,                     \* "none", "running" or "exited"
    saved,                      \* a save state
    wrote, farGot,              \* auxiliary: the bytes the program wrote, the far end read
    farSent, consoleGot,        \* auxiliary: the bytes the far end wrote, the program read
                                \*   or a reset dropped
    loaded                      \* auxiliary: a save state was loaded

latchVars == <<sendBuf, sendLatched, recvBuf, recvLatched>>
logVars == <<wrote, farGot, farSent, consoleGot>>
pipeVars == <<toFar, toConsole, farEnd>>
vars == <<int, uartOn, latchVars, pc, pipeVars, saved, logVars, loaded>>

Latched(on, byte) == IF on THEN <<byte>> ELSE <<>>

-----------------------------------------------------------------------------
(* Comm_Process.                                                           *)

Begin ==
    /\ pc = "run" /\ uartOn
    /\ pc' = IF sendLatched THEN "send" ELSE "recv"
    /\ UNCHANGED <<int, uartOn, latchVars, pipeVars, saved, logVars, loaded>>

(* Comm_SendByte.  With no far end a byte sent is gone.                    *)
WriteToPipe ==
    /\ farEnd = "none" \/ Len(toFar) < PipeSize
    /\ toFar' = IF farEnd = "none" THEN toFar ELSE Append(toFar, sendBuf)
    /\ farGot' = IF farEnd = "none" THEN Append(farGot, sendBuf) ELSE farGot
    /\ UNCHANGED <<uartOn, sendBuf, recvBuf, recvLatched, toConsole, farEnd, saved,
                   wrote, farSent, consoleGot, loaded>>
SendSilently ==                                        \* forgets the interrupt
    /\ pc = "send" /\ pc' = "recv"
    /\ WriteToPipe
    /\ sendLatched' = FALSE
    /\ UNCHANGED int
SendAgain ==                                           \* forgets to clear the latch
    /\ pc = "send" /\ pc' = "recv"
    /\ WriteToPipe
    /\ int' = Interrupt(int, SERIAL_SEND)
    /\ UNCHANGED sendLatched
SendByte ==
    /\ pc = "send" /\ pc' = "recv"
    /\ WriteToPipe
    /\ sendLatched' = FALSE
    /\ int' = Interrupt(int, SERIAL_SEND)

(* A write may also fail, when a signal interrupts it: the byte waits.      *)
SendRefused ==
    /\ pc = "send" /\ farEnd # "none"
    /\ pc' = "recv"
    /\ UNCHANGED <<int, uartOn, latchVars, pipeVars, saved, logVars, loaded>>

MayReceiveOver == toConsole # <<>>                     \* forgets the latch
MayReceive == ~recvLatched /\ toConsole # <<>>
RecvByte ==
    /\ pc = "recv" /\ MayReceive
    /\ recvBuf' = Head(toConsole) /\ toConsole' = Tail(toConsole)
    /\ recvLatched' = TRUE
    /\ int' = InterruptAssert(int, SERIAL_RECV, TRUE)
    /\ pc' = "run"
    /\ UNCHANGED <<uartOn, sendBuf, sendLatched, toFar, farEnd, saved, logVars, loaded>>
RecvNothing ==
    /\ pc = "recv" /\ ~MayReceive
    /\ pc' = "run"
    /\ UNCHANGED <<int, uartOn, latchVars, pipeVars, saved, logVars, loaded>>
Process == Begin \/ SendByte \/ SendRefused \/ RecvByte \/ RecvNothing

-----------------------------------------------------------------------------
(* The program: Comm_Read, Comm_Write and the controller's registers.      *)

SendReady == uartOn /\ ~sendLatched         \* bits 2 and 0 of port 0xB3
RecvReady == uartOn /\ recvLatched

(* A byte read while none is latched is the last one again.                *)
ReadData ==
    /\ pc = "run"
    /\ recvLatched' = FALSE
    /\ int' = InterruptAssert(int, SERIAL_RECV, FALSE)
    /\ consoleGot' = consoleGot \o Latched(recvLatched, recvBuf)
    /\ UNCHANGED <<uartOn, sendBuf, sendLatched, recvBuf, pc, pipeVars, saved,
                   wrote, farGot, farSent, loaded>>

(* A byte written while the last one waits takes its place.                *)
WriteData(byte) ==
    /\ pc = "run"
    /\ IF uartOn
       THEN /\ sendBuf' = byte /\ sendLatched' = TRUE
            /\ wrote' = Append(IF sendLatched THEN SubSeq(wrote, 1, Len(wrote) - 1) ELSE wrote,
                               byte)
       ELSE UNCHANGED <<sendBuf, sendLatched, wrote>>
    /\ UNCHANGED <<int, uartOn, recvBuf, recvLatched, pc, pipeVars, saved,
                   farGot, farSent, consoleGot, loaded>>

WriteControl(on) ==
    /\ pc = "run"
    /\ uartOn' = on
    /\ UNCHANGED <<int, latchVars, pc, pipeVars, saved, logVars, loaded>>

(* Ports 0xB0, 0xB2 and 0xB6, and the requests of a line of the display.   *)
IntRegister(new) ==
    /\ pc = "run"
    /\ int' = new
    /\ UNCHANGED <<uartOn, latchVars, pc, pipeVars, saved, logVars, loaded>>
SetBase(byte) == IntRegister(WriteBase(int, byte))
SetEnable(bits) == IntRegister(WriteEnable(int, bits))
Ack(bits) == IntRegister(Acknowledge(int, bits))
DisplayRequest(which) == IntRegister(Interrupt(int, which))

-----------------------------------------------------------------------------
(* Reset (main.cpp): Comm_Reset, WSwan_InterruptReset, then the ports with *)
(* their values of start.inc, which are 0 here, and a byte for the UART,   *)
(* which is off.  What was latched is dropped, what is in the pipes stays. *)
Reset ==
    /\ pc = "run"
    /\ int' = InterruptReset
    /\ uartOn' = FALSE
    /\ sendBuf' = 0 /\ sendLatched' = FALSE /\ recvBuf' = 0 /\ recvLatched' = FALSE
    /\ wrote' = IF sendLatched THEN SubSeq(wrote, 1, Len(wrote) - 1) ELSE wrote
    /\ consoleGot' = consoleGot \o Latched(recvLatched, recvBuf)
    /\ UNCHANGED <<pc, pipeVars, saved, farGot, farSent, loaded>>

(* Save states: the controller's registers and the UART's, but no pipe.    *)
StateNow == [int |-> int, uartOn |-> uartOn, sendBuf |-> sendBuf, sendLatched |-> sendLatched,
             recvBuf |-> recvBuf, recvLatched |-> recvLatched]
Save ==
    /\ pc = "run"
    /\ saved' = StateNow
    /\ UNCHANGED <<int, uartOn, latchVars, pc, pipeVars, logVars, loaded>>
Load ==
    /\ pc = "run"
    /\ uartOn' = saved.uartOn
    /\ sendBuf' = saved.sendBuf /\ sendLatched' = saved.sendLatched
    /\ recvBuf' = saved.recvBuf /\ recvLatched' = saved.recvLatched
    /\ int' = InterruptAssert(InterruptLoad(int, saved.int), SERIAL_RECV, saved.recvLatched)
    /\ loaded' = TRUE
    /\ UNCHANGED <<pc, pipeVars, saved, logVars>>

-----------------------------------------------------------------------------
(* The far end.                                                            *)
FarEndReads ==
    /\ farEnd = "running" /\ toFar # <<>>
    /\ farGot' = Append(farGot, Head(toFar)) /\ toFar' = Tail(toFar)
    /\ UNCHANGED <<int, uartOn, latchVars, pc, toConsole, farEnd, saved,
                   wrote, farSent, consoleGot, loaded>>
FarEndWrites(byte) ==
    /\ farEnd = "running" /\ Len(toConsole) < PipeSize
    /\ farSent' = Append(farSent, byte) /\ toConsole' = Append(toConsole, byte)
    /\ UNCHANGED <<int, uartOn, latchVars, pc, toFar, farEnd, saved,
                   wrote, farGot, consoleGot, loaded>>

(* The emulator holds both ends of both pipes open, so that it notices     *)
(* nothing when the far end exits.                                         *)
FarEndExits ==
    /\ farEnd = "running"
    /\ farEnd' = "exited"
    /\ UNCHANGED <<int, uartOn, latchVars, pc, toFar, toConsole, saved, logVars, loaded>>

Init ==
    /\ int = InterruptReset
    /\ uartOn = FALSE
    /\ sendBuf = 0 /\ sendLatched = FALSE /\ recvBuf = 0 /\ recvLatched = FALSE
    /\ pc = "run"
    /\ toFar = <<>> /\ toConsole = <<>> /\ farEnd \in {"none", "running"}
    /\ saved = StateNow
    /\ wrote = <<>> /\ farGot = <<>> /\ farSent = <<>> /\ consoleGot = <<>>
    /\ loaded = FALSE

Program ==
    \/ ReadData
    \/ \E byte \in Data : WriteData(byte)
    \/ \E on \in BOOLEAN : WriteControl(on)
    \/ \E byte \in 0 .. 255 : SetBase(byte)
    \/ \E bits \in SUBSET Sources : SetEnable(bits) \/ Ack(bits)
Surroundings ==
    \/ \E which \in 4 .. 7 : DisplayRequest(which)
    \/ Reset \/ Save \/ Load
FarEnd == FarEndReads \/ (\E byte \in Data : FarEndWrites(byte)) \/ FarEndExits
Next == Process \/ Program \/ Surroundings \/ FarEnd
Spec == Init /\ [][Next]_vars

-----------------------------------------------------------------------------
TypeOK ==
    /\ int \in Controllers
    /\ uartOn \in BOOLEAN /\ sendLatched \in BOOLEAN /\ recvLatched \in BOOLEAN
    /\ {sendBuf, recvBuf} \subseteq Data \cup {0}
    /\ pc \in {"run", "send", "recv"} /\ farEnd \in {"none", "running", "exited"}
    /\ Len(toFar) <= PipeSize /\ Len(toConsole) <= PipeSize

(* The processor is told what the registers say, after every change.       *)
CacheFresh == Fresh(int)

(* A byte that waits in the UART keeps its interrupt requested while that  *)
(* is enabled: no acknowledgement, no order of enabling and receiving, no  *)
(* reset and no loaded state leaves it waiting unannounced, and no request *)
(* line is left high without a byte.                                       *)
ReceiveAnnounced ==
    /\ recvLatched <=> SERIAL_RECV \in int.asserted
    /\ recvLatched /\ SERIAL_RECV \in int.enable => SERIAL_RECV \in int.status /\ int.cache.on

(* Every byte the program wrote, and did not itself replace while it       *)
(* waited or drop by a reset, is read once by the far end, in order; every *)
(* byte the far end wrote is read once by the program, in order, or        *)
(* dropped by a reset while it waited.                                     *)
SentInOrder == ~loaded => wrote = farGot \o toFar \o Latched(sendLatched, sendBuf)
ReceivedInOrder == ~loaded => farSent = consoleGot \o Latched(recvLatched, recvBuf) \o toConsole
InOrder == SentInOrder /\ ReceivedInOrder
=============================================================================
