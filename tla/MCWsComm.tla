------------------------------- MODULE MCWsComm -------------------------------
(***************************************************************************)
(* WsComm under one of three programs.  `any` does up to MaxOps operations *)
(* in any order, resets and save states among them, and the far end reads, *)
(* writes and exits as it likes.  `polling` and `interrupts` send a message*)
(* to a far end that echoes it, the one by looking at the ready bits, the  *)
(* other in two interrupt handlers.                                        *)
(***************************************************************************)
EXTENDS WsComm

CONSTANTS MaxOps, MessageLen

VARIABLES
    program, ops,
    step,         \* where polling or a handler is
    hand          \* the byte the echoing far end holds
mcVars == <<program, ops, step, hand>>
allVars == <<vars, mcVars>>

Message == [i \in 1 .. MessageLen |-> i]
Echoed == program # "any"

AnyStep ==
    /\ \/ ReadData
       \/ WriteData(1)
       \/ \E on \in BOOLEAN : WriteControl(on)
       \/ SetBase(13)
       \/ \E bits \in {{}, {3}, {0, 3, 6}} : SetEnable(bits)
       \/ \E bits \in {{3}, 0 .. 7} : Ack(bits)
       \/ DisplayRequest(6)
       \/ Reset \/ Save \/ Load
       \/ Len(farSent) < 2 /\ FarEndWrites(Len(farSent) + 1)
       \/ FarEndExits
    /\ program = "any" /\ ops < MaxOps /\ ops' = ops + 1
    /\ UNCHANGED <<program, step, hand>>

(* The ready bits are read in one instruction and acted on in a later one. *)
Goto(next) == step' = next /\ UNCHANGED <<program, ops, hand>>
More == Len(wrote) < MessageLen
WriteNext == IF More THEN WriteData(Message[Len(wrote) + 1]) ELSE UNCHANGED vars
Polling ==
    /\ program = "polling" /\ pc = "run"
    /\ \/ step = "look" /\ UNCHANGED vars
          /\ Goto(IF RecvReady THEN "read" ELSE IF SendReady THEN "write" ELSE "look")
       \/ step = "read" /\ ReadData /\ Goto("look")
       \/ step = "write" /\ WriteNext /\ Goto("look")

(* The handlers run with interrupts off; the processor asks for the vector *)
(* between two of them.                                                    *)
Enters(which) == int.cache.on /\ int.cache.vector = (int.base + which) * 4
Handlers ==
    /\ program = "interrupts" /\ pc = "run"
    /\ \/ step = "look" /\ Enters(SERIAL_RECV) /\ UNCHANGED vars /\ Goto("read")
       \/ step = "look" /\ Enters(SERIAL_SEND) /\ UNCHANGED vars /\ Goto("ack send")
       \/ step = "read" /\ ReadData /\ Goto("ack recv")
       \/ step = "ack recv" /\ Ack({SERIAL_RECV}) /\ Goto("look")
       \/ step = "ack send" /\ Ack({SERIAL_SEND}) /\ Goto("write")
       \/ step = "write" /\ WriteNext /\ Goto("look")

ProgramStep == Polling \/ Handlers
ProcessStep ==
    /\ Process /\ (Echoed => ~SendRefused)
    /\ UNCHANGED mcVars
EchoRead == Echoed /\ hand = <<>> /\ FarEndReads /\ hand' = <<Head(toFar)>>
EchoWrite == hand # <<>> /\ FarEndWrites(hand[1]) /\ hand' = <<>>
FarStep ==
    \/ (EchoRead \/ EchoWrite) /\ UNCHANGED <<program, ops, step>>
    \/ program = "any" /\ FarEndReads /\ UNCHANGED mcVars

(* The programs that echo begin with the UART on and, for the handlers,    *)
(* their interrupts enabled and the first byte written.                    *)
MCInit ==
    /\ program \in {"any", "polling", "interrupts"} /\ ops = 0 /\ hand = <<>> /\ step = "look"
    /\ pc = "run" /\ recvBuf = 0 /\ recvLatched = FALSE
    /\ toFar = <<>> /\ toConsole = <<>> /\ farGot = <<>> /\ farSent = <<>> /\ consoleGot = <<>>
    /\ loaded = FALSE
    /\ farEnd \in IF program = "any" THEN {"none", "running"} ELSE {"running"}
    /\ uartOn = (program # "any")
    /\ int = IF program = "interrupts"
             THEN WriteEnable(WriteBase(InterruptReset, 8), {SERIAL_SEND, SERIAL_RECV})
             ELSE InterruptReset
    /\ sendLatched = (program = "interrupts")
    /\ sendBuf = IF sendLatched THEN Message[1] ELSE 0
    /\ wrote = IF sendLatched THEN <<Message[1]>> ELSE <<>>
    /\ saved = StateNow
MCNext == AnyStep \/ ProgramStep \/ ProcessStep \/ FarStep
MCSpec ==
    /\ MCInit /\ [][MCNext]_allVars
    /\ WF_allVars(ProcessStep) /\ WF_allVars(FarStep) /\ SF_allVars(ProgramStep)

(* A program that reads what arrives gets its whole message back from a    *)
(* far end that echoes it, by polling or by interrupts: no request is lost *)
(* on the way, and the writes that block never wait for each other.        *)
AllEchoed == Echoed => <>(consoleGot = Message)
=============================================================================
