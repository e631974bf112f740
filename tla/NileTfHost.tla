----------------------------- MODULE NileTfHost ------------------------------
(***************************************************************************)
(* NileTf under a host that follows the SD protocol in SPI mode (the host  *)
(* is software of the console and not part of the repository).  A job is   *)
(* one command with all that follows it: the answer, the blocks that are   *)
(* read or written, the end of a multiple read or write.  The host does    *)
(* job after job in any order, and the power may be lost in any of them.   *)
(***************************************************************************)
EXTENDS NileTf

CONSTANTS
    Blocks,       \* how many blocks the card holds
    CardBytes,    \* their bytes when the console starts
    Jobs,         \* what the host may ask of the card
    MaxJobs       \* how often it asks, or loses the power

Reads == {17, 18}     \* of one block, of several
Writes == {24, 25}
StopCommand == 12     \* only sent to end a read of several blocks
Interface == 8        \* answered with four bytes more than other commands

BlockData == [1 .. DataLen -> Byte]
ArgumentOf(j) == IF j.cmd \in Reads \cup Writes THEN j.at * DataLen ELSE j.at

(* The blocks a job is about are on the card; no other command has blocks. *)
IsJob(j) ==
    /\ j \in [cmd : 0 .. 63, at : Nat, count : Nat, data : Seq(BlockData)]
    /\ j.cmd # StopCommand
    /\ IF j.cmd \in Reads \cup Writes
       THEN j.count > 0 /\ j.at + j.count <= Blocks ELSE j.count = 0
    /\ j.cmd \in {17, 24} => j.count = 1
    /\ j.cmd \in Writes => Len(j.data) = j.count
    /\ (ArgumentOf(j) \div 256) \div 256 < 65536

(* There is a card, and the longest answer, a command and a block with its *)
(* token and CRC fit into the queues.                                      *)
ASSUME CardHostAssumption ==
    /\ HasCard
    /\ BufSize > DataLen + ReadDelay + 3 /\ BufSize > StopBusy + 4 /\ BufSize > 6
    /\ Blocks \in Nat /\ CardBytes \in [0 .. Blocks * DataLen - 1 -> Byte]
    /\ \A j \in Jobs : IsJob(j)
    /\ MaxJobs \in Nat

VARIABLES
    job,          \* what the host is doing, or did last
    phase,        \* what it is waiting for or sending
    clocked,      \* bytes it has sent or taken in this phase
    blocksDone,   \* blocks of the job that were read or written
    arrived,      \* the bytes taken of a block
    delivered,    \* the last block read, and its address
    begun, losses
cardHostVars == <<job, phase, clocked, blocksDone, arrived, delivered, begun, losses>>
cardVars == <<card, cardHostVars>>

NoJob == [cmd |-> 0, at |-> 0, count |-> 0, data |-> <<>>]
NothingDelivered == [data |-> <<>>]

Frame(cmd, argument) ==
    LET upper == argument \div 256
        top == upper \div 256
    IN  <<64 + cmd, top \div 256, top % 256, upper % 256, argument % 256, 149>>
CommandFrame == IF phase = "stop" THEN Frame(StopCommand, 0)
                ELSE Frame(job.cmd, ArgumentOf(job))
DataFrame ==
    <<IF job.cmd = 24 THEN BlockToken ELSE MultiToken>>
    \o job.data[blocksDone + 1] \o <<FillByte, 64>>

Enter(p) == phase' = p /\ clocked' = 0
Stay == UNCHANGED <<phase, clocked>>
GoOn == UNCHANGED phase /\ clocked' = clocked + 1

-----------------------------------------------------------------------------
BeginJob ==
    /\ phase = "idle" /\ begun < MaxJobs
    /\ job' \in Jobs
    /\ Enter("command")
    /\ begun' = begun + 1 /\ blocksDone' = 0
    /\ UNCHANGED <<card, arrived, delivered, losses>>

(* Between two jobs, and before a block is sent, there may be fill bytes.  *)
Linger ==
    /\ phase \in {"idle", "finish"} \/ (phase = "data" /\ clocked = 0)
    /\ TfExchange(FillByte)
    /\ UNCHANGED cardHostVars

SendCommand ==
    /\ phase \in {"command", "stop"}
    /\ TfExchange(CommandFrame[clocked + 1])
    /\ IF clocked < 5 THEN GoOn ELSE Enter(IF phase = "stop" THEN "skip" ELSE "answer")
    /\ UNCHANGED <<job, blocksDone, arrived, delivered, begun, losses>>

(* What follows the first byte that is not a fill byte.                    *)
Awaited ==
    IF phase = "delay" THEN "busy"
    ELSE IF phase = "token" THEN "block"
    ELSE IF phase = "answer" /\ job.cmd \in Reads THEN "token"
    ELSE IF phase = "answer" /\ job.cmd = Interface THEN "trailer"
    ELSE IF job.cmd \in Writes /\ blocksDone < job.count THEN "data"
    ELSE IF phase = "accept" /\ job.cmd = 25 THEN "finish" ELSE "idle"

AwaitAnswer ==
    /\ phase \in {"answer", "token", "accept", "delay"}
    /\ TfExchange(FillByte)
    /\ IF TfAnswer = FillByte THEN Stay ELSE Enter(Awaited)
    /\ UNCHANGED <<job, blocksDone, arrived, delivered, begun, losses>>

TakeTrailer ==
    /\ phase = "trailer"
    /\ TfExchange(FillByte)
    /\ IF clocked < 3 THEN GoOn ELSE Enter("idle")
    /\ UNCHANGED <<job, blocksDone, arrived, delivered, begun, losses>>

(* A block and the two bytes of its CRC, which the host does not look at.  *)
TakeByte ==
    /\ phase = "block" /\ clocked < DataLen + 1
    /\ TfExchange(FillByte)
    /\ GoOn
    /\ arrived' = Append(arrived, TfAnswer)
    /\ UNCHANGED <<job, blocksDone, delivered, begun, losses>>

TakeLast ==
    /\ phase = "block" /\ clocked = DataLen + 1
    /\ TfExchange(FillByte)
    /\ Enter(IF blocksDone + 1 < job.count THEN "token"
             ELSE IF job.cmd = 17 THEN "idle" ELSE "stop")
    /\ delivered' = [at |-> job.at + blocksDone, data |-> SubSeq(arrived, 1, DataLen)]
    /\ arrived' = <<>> /\ blocksDone' = blocksDone + 1
    /\ UNCHANGED <<job, begun, losses>>

SendByte ==
    /\ phase = "data" /\ clocked < DataLen + 2
    /\ TfExchange(DataFrame[clocked + 1])
    /\ GoOn
    /\ UNCHANGED <<job, blocksDone, arrived, delivered, begun, losses>>

SendLast ==
    /\ phase = "data" /\ clocked = DataLen + 2
    /\ TfExchange(DataFrame[clocked + 1])
    /\ Enter("accept")
    /\ blocksDone' = blocksDone + 1
    /\ UNCHANGED <<job, arrived, delivered, begun, losses>>

(* The end of a write of several blocks.                                   *)
SendStopToken ==
    /\ phase = "finish"
    /\ TfExchange(StopToken)
    /\ Enter("idle")
    /\ UNCHANGED <<job, blocksDone, arrived, delivered, begun, losses>>

(* The byte behind a stop command belongs to the block that was streamed.  *)
SkipByte ==
    /\ phase = "skip"
    /\ TfExchange(FillByte)
    /\ Enter("delay")
    /\ UNCHANGED <<job, blocksDone, arrived, delivered, begun, losses>>

AwaitReady ==
    /\ phase = "busy"
    /\ TfExchange(FillByte)
    /\ IF TfAnswer = FillByte THEN Enter("idle") ELSE Stay
    /\ UNCHANGED <<job, blocksDone, arrived, delivered, begun, losses>>

(* Power is taken away and given back at any moment.                       *)
PowerCycle ==
    /\ begun < MaxJobs
    /\ TfReset
    /\ job' = NoJob /\ Enter("idle") /\ blocksDone' = 0 /\ arrived' = <<>>
    /\ begun' = begun + 1 /\ losses' = losses + 1
    /\ UNCHANGED delivered

Proceed ==
    \/ SendCommand \/ AwaitAnswer \/ TakeTrailer \/ TakeByte \/ TakeLast
    \/ SendByte \/ SendLast \/ SendStopToken \/ SkipByte \/ AwaitReady

CardHostInit ==
    /\ card = NewCard(CardBytes)
    /\ job = NoJob /\ phase = "idle" /\ clocked = 0 /\ blocksDone = 0 /\ arrived = <<>>
    /\ delivered = NothingDelivered /\ begun = 0 /\ losses = 0
CardHostNext == ~card.down /\ (BeginJob \/ Linger \/ Proceed \/ PowerCycle)
CardHostSpec == CardHostInit /\ [][CardHostNext]_cardVars /\ WF_cardVars(~card.down /\ Proceed)

-----------------------------------------------------------------------------
Addresses == 0 .. Blocks - 1
BlockAt(a) == [i \in 1 .. DataLen |-> card.bytes[a * DataLen + i - 1]]

(* A job of several blocks is as many requests, one behind the other.      *)
Asked ==
    LET at == job.at + blocksDone
    IN  IF blocksDone >= job.count THEN [op |-> "none"]
        ELSE IF job.cmd \in Reads THEN [op |-> "read", at |-> at]
        ELSE [op |-> "write", at |-> at, data |-> job.data[blocksDone + 1]]

BlockStore == INSTANCE NileBlockStore WITH
            NoDelivery <- NothingDelivered,
            blocks <- [a \in Addresses |-> BlockAt(a)],
            asked <- Asked

(* A card driven by the protocol is an array of blocks: what is delivered  *)
(* is the block that was asked for, what is written lands where it was     *)
(* sent and nowhere else, whatever the bytes of the data look like and     *)
(* wherever in a job the power is lost (nile_spi_tf_exchange).             *)
ImplementsBlockStore == BlockStore!StoreSpec

(* The host is never left waiting, and the queues never overrun: every job *)
(* comes to its end (nile_spi_tf_exchange).                                *)
JobsEnd == phase # "idle" ~> phase = "idle" /\ ~card.down
=============================================================================
