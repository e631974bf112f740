---------------------------- MODULE MCNileBootHost ----------------------------
(***************************************************************************)
(* The boot loader of NileMcu against a host that follows its protocol     *)
(* (the host is software of the console and not part of the repository):   *)
(* it sends a message, clocks fill bytes until it reads ACK, acknowledges  *)
(* that, and goes on with the next message.  A session is START, a number  *)
(* of commands in any order and a jump.  The data of the commands is made  *)
(* of the very bytes that mean START, ACK and a command elsewhere.         *)
(***************************************************************************)
EXTENDS NileMcu

CONSTANT MaxCommands

Command(c) == <<BOOT_START, c, 255 - c>>
Address == <<8, BOOT_ACK, BOOT_START, BOOT_ACK, 42>>

(* The messages of one command, each of which is acknowledged.             *)
Commands ==
    { <<Command(BOOT_WRITE), Address, <<3, BOOT_ACK, BOOT_START, BOOT_JUMP, 222, 9>> >>,
      <<Command(BOOT_WRITE), Address, <<BOOT_ACK>> \o Fill(123, BOOT_ACK)>>,
      <<Command(BOOT_READ), Address, <<BOOT_START, 165>> >>,
      <<Command(BOOT_ERASE), <<0, 1, 1>>, <<BOOT_ACK, BOOT_ACK, BOOT_START, 0, 0>> >>,
      <<Command(BOOT_ERASE), <<0, 0, 0>>, <<0, 7, 7>> >>,
      <<Command(BOOT_START)>> }
Jump == <<Command(BOOT_JUMP), Address>>

VARIABLES
    phase,     \* "send", "await", "acknowledge", "jumped"
    message,   \* what is left to send of the current message
    script,    \* the messages after it
    left       \* commands the host may still issue
sessionVars == <<phase, message, script, left>>
allVars == <<mcuVars, sessionVars>>

SendByte ==
    /\ phase = "send" /\ message # <<>>
    /\ Exchange(Head(message))
    /\ message' = Tail(message)
    /\ phase' = IF Len(message) = 1 THEN "await" ELSE "send"
    /\ UNCHANGED <<script, left>>

AwaitAck ==
    /\ phase = "await"
    /\ Exchange(FillByte)
    /\ phase' = IF Answer = BOOT_ACK THEN "acknowledge" ELSE "await"
    /\ UNCHANGED <<message, script, left>>

(* Acknowledge, and choose what to do next when a command is done.         *)
Acknowledge ==
    /\ phase = "acknowledge"
    /\ Exchange(BOOT_ACK)
    /\ \/ /\ script # <<>>
          /\ message' = Head(script) /\ script' = Tail(script)
          /\ phase' = "send" /\ UNCHANGED left
       \/ /\ script = <<>> /\ left > 0
          /\ \E c \in Commands : message' = c[1] /\ script' = Tail(c)
          /\ left' = left - 1 /\ phase' = "send"
       \/ /\ script = <<>> /\ left = 0
          /\ message' = Jump[1] /\ script' = Tail(Jump)
          /\ left' = -1 /\ phase' = "send"
       \/ /\ script = <<>> /\ left = -1
          /\ phase' = "jumped" /\ UNCHANGED <<message, script, left>>

SessionInit ==
    /\ Init /\ phase = "reset" /\ message = <<>> /\ script = <<>> /\ left = MaxCommands

(* POW_CNT releases the MCU from reset with BOOT0 set.                     *)
EnterBootLoader ==
    /\ phase = "reset"
    /\ Reset(TRUE)
    /\ phase' = "send" /\ message' = <<BOOT_START>>
    /\ UNCHANGED <<script, left>>

SessionNext == EnterBootLoader \/ SendByte \/ AwaitAck \/ Acknowledge
SessionSpec == SessionInit /\ [][SessionNext]_allVars /\ WF_allVars(SessionNext)

-----------------------------------------------------------------------------
(* A host that follows the protocol always gets its session through: each  *)
(* message is acknowledged, whatever its data looks like, and the jump     *)
(* ends in native mode with nothing left in the queues.                    *)
SessionCompletes == <>(phase = "jumped" /\ ~bootMode /\ tx = <<>> /\ rx = <<>>)
=============================================================================
