---------------------------- MODULE MtStreamReader ----------------------------
(***************************************************************************)
(* MTStreamReader: a thread that reads a stream ahead of its client into a *)
(* ring buffer.  The two hand a token to and fro over two semaphores: the  *)
(* client waits for ack_sem, writes the pending_ fields and posts          *)
(* command_sem, the thread waits for command_sem, serves the command and   *)
(* posts ack_sem.  In between the client reads the buffer without asking:  *)
(* get_buffer hands out a pointer (held), advance gives it back.           *)
(*                                                                         *)
(* Byte i of stream w is the number 100 * w + i + 1, and 0 is silence.     *)
(*                                                                         *)
(* A definition with a note such as "forgets the token" beside it is the   *)
(* definition that follows with that mistake made: no specification uses   *)
(* it, it is there to show that the properties notice.                     *)
(***************************************************************************)
EXTENDS Integers

CONSTANTS
    BufferSize,     \* Buffer_Size, 65536 in the source
    ChunkSize,      \* Chunk_Size, a quarter of it
    Overbuffer,     \* Overbuffer_Count, 256
    Streams,        \* how many streams there are, and per stream its
    SizeOf, LoopOf  \* size and loop_pos

ASSUME ReaderAssumption ==
    /\ ChunkSize \in Nat \ {0} /\ BufferSize = 4 * ChunkSize
    /\ Overbuffer \in 1 .. ChunkSize
    /\ Streams \in Nat \ {0}
    /\ \A w \in 1 .. Streams : SizeOf[w] \in Nat /\ LoopOf[w] \in 0 .. SizeOf[w]

VARIABLES
    commandSem, ackSem,     \* the semaphores
    pending,                \* pending_command, _which, _skip, _pzb
    buffer, readPos, writePos, needSync,
    threadPc, active, todo, \* the thread: active stream, bytes left to read
    base,                   \* basep: where in the buffer the loop stands, or NoBase
    pos, filePos,           \* per stream: si.pos, and the position of si.stream
    clientPc, wanted,       \* the client: the command it waits to send
    held,                   \* how many bytes it was handed
    start                   \* auxiliary: the last SetActive sent

semVars == <<commandSem, ackSem>>
ringVars == <<buffer, writePos>>
threadVars == <<threadPc, active, todo, base, pos, filePos>>
clientVars == <<clientPc, wanted, held, needSync, start>>
vars == <<semVars, pending, ringVars, readPos, threadVars, clientVars>>

NoBase == -1
Nop == [do |-> "nop", which |-> 1, skip |-> 0, pzb |-> 0, count |-> 0]
BufferNext == [Nop EXCEPT !.do = "next"]
Exit == [Nop EXCEPT !.do = "exit"]
SetActive(w, skip, pzb) ==
    [Nop EXCEPT !.do = "set", !.which = w, !.skip = skip, !.pzb = pzb]

Low(a, b) == IF a < b THEN a ELSE b
ByteOf(w, i) == 100 * w + i + 1

-----------------------------------------------------------------------------
(* The thread.                                                             *)

(* The buffer with the n ring cells from position p on set to data.        *)
Stored(p, n, data) ==
    [i \in DOMAIN buffer |->
        IF i < BufferSize /\ (i - p) % BufferSize < n
        THEN data[(i - p) % BufferSize] ELSE buffer[i]]

Zeros == [i \in 0 .. BufferSize - 1 |-> 0]

(* What is behind the ring, for a read across its end: a copy of its start.*)
Copied(b) == [i \in DOMAIN b |-> IF i < BufferSize THEN b[i] ELSE b[i - BufferSize]]

(* Where a stream is entered: a skip past the end goes round its loop.     *)
EntryAtLoop(w, skip) ==                                 \* forgets how far past the end
    IF skip < SizeOf[w] THEN skip ELSE LoopOf[w]
Entry(w, skip) ==
    IF skip < SizeOf[w] THEN skip
    ELSE IF LoopOf[w] = SizeOf[w] THEN SizeOf[w]
    ELSE LoopOf[w] + ((skip - LoopOf[w]) % (SizeOf[w] - LoopOf[w]))

RefillHalf == 2 * ChunkSize                             \* half of the ring
Refill == ChunkSize

Take ==
    /\ threadPc = "idle" /\ commandSem > 0
    /\ commandSem' = commandSem - 1
    /\ base' = NoBase
    /\ \/ /\ pending.do = "exit"
          /\ threadPc' = "leaving"
          /\ UNCHANGED <<ringVars, active, todo, pos, filePos>>
       \/ /\ pending.do = "nop"
          /\ threadPc' = "acking"
          /\ UNCHANGED <<ringVars, active, todo, pos, filePos>>
       \/ /\ pending.do = "next"
          /\ threadPc' = "filling" /\ todo' = Refill
          /\ UNCHANGED <<ringVars, active, pos, filePos>>
       \/ /\ pending.do = "set"
          /\ LET w == pending.which
                 entry == Entry(w, pending.skip)
             IN  /\ active' = w
                 /\ pos' = [pos EXCEPT ![w] = entry]
                 /\ filePos' = [filePos EXCEPT ![w] = entry]
          /\ writePos' = writePos + pending.pzb
          /\ buffer' = Copied(Stored(writePos, pending.pzb, Zeros))
          /\ IF pending.pzb <= BufferSize
             THEN threadPc' = "filling" /\ todo' = BufferSize - pending.pzb
             ELSE threadPc' = "aborted" /\ UNCHANGED todo      \* the assert
    /\ UNCHANGED <<ackSem, pending, readPos, clientVars>>

(* A stream whose loop is empty is followed by silence.                    *)
Silence ==
    /\ threadPc = "filling" /\ todo > 0
    /\ pos[active] = SizeOf[active]
    /\ buffer' = Copied(Stored(writePos, todo, Zeros))
    /\ writePos' = writePos + todo
    /\ todo' = 0
    /\ UNCHANGED <<semVars, pending, readPos, threadPc, active, base, pos, filePos, clientVars>>

(* One run of the loop of read_into_buffer.  When all of the stream's loop *)
(* has just been read, the rest is copied from where it stands in the ring *)
(* and the stream itself is left behind (base).                            *)
Read ==
    LET w == active
        n == Low(BufferSize - (writePos % BufferSize), Low(todo, SizeOf[w] - pos[w]))
        atEnd == pos[w] + n = SizeOf[w]
        loopRead == LoopOf[w] < SizeOf[w] /\ SizeOf[w] - LoopOf[w] = n
    IN  /\ threadPc = "filling" /\ todo > 0
        /\ pos[w] < SizeOf[w]
        /\ buffer' = Stored(writePos, n,
                        [i \in 0 .. n - 1 |->
                            IF base = NoBase THEN ByteOf(w, filePos[w] + i)
                            ELSE buffer[base + pos[w] - LoopOf[w] + i]])
        /\ writePos' = writePos + n
        /\ todo' = todo - n
        /\ pos' = [pos EXCEPT ![w] = IF atEnd THEN LoopOf[w] ELSE @ + n]
        /\ base' = IF base = NoBase /\ atEnd /\ loopRead THEN writePos % BufferSize ELSE base
        /\ filePos' = [filePos EXCEPT ![w] =
                          IF base # NoBase THEN @
                          ELSE IF atEnd /\ ~loopRead THEN LoopOf[w] ELSE @ + n]
        /\ UNCHANGED <<semVars, pending, readPos, threadPc, active, clientVars>>

FileLeft == filePos                                     \* forgets the last seek
FileBack == IF base = NoBase THEN filePos ELSE [filePos EXCEPT ![active] = pos[active]]

EndRead ==
    /\ threadPc = "filling" /\ todo = 0
    /\ filePos' = FileBack
    /\ buffer' = Copied(buffer)
    /\ threadPc' = "acking"
    /\ UNCHANGED <<semVars, pending, writePos, readPos, active, todo, base, pos, clientVars>>

Ack ==
    /\ threadPc \in {"acking", "leaving"}
    /\ ackSem' = ackSem + 1
    /\ threadPc' = IF threadPc = "leaving" THEN "gone" ELSE "idle"
    /\ UNCHANGED <<commandSem, pending, ringVars, readPos, active, todo, base, pos, filePos, clientVars>>

(* The stream throws.  The command that was being served is not acked: the *)
(* handler's loop waits for another one first.                             *)
Throw ==
    /\ threadPc = "filling" /\ todo > 0
    /\ pos[active] < SizeOf[active] /\ base = NoBase
    /\ threadPc' = "failed"
    /\ UNCHANGED <<semVars, pending, ringVars, readPos, active, todo, base, pos, filePos, clientVars>>

TakeFailed ==
    /\ threadPc = "failed" /\ commandSem > 0
    /\ commandSem' = commandSem - 1
    /\ threadPc' = IF pending.do = "exit" THEN "leaving" ELSE "failedAcking"
    /\ UNCHANGED <<ackSem, pending, ringVars, readPos, active, todo, base, pos, filePos, clientVars>>

AckFailed ==
    /\ threadPc = "failedAcking"
    /\ ackSem' = ackSem + 1
    /\ threadPc' = "failed"
    /\ UNCHANGED <<commandSem, pending, ringVars, readPos, active, todo, base, pos, filePos, clientVars>>

Thread == Take \/ Silence \/ Read \/ EndRead \/ Ack \/ TakeFailed \/ AckFailed

-----------------------------------------------------------------------------
(* The client.                                                             *)

Wants(command) == clientPc' = "waiting" /\ wanted' = command /\ held' = 0

(* set_active_stream, and cleanup from the destructor.  With any call the  *)
(* client is done with the bytes it was handed before.                     *)
Request(command) ==
    /\ clientPc = "free"
    /\ Wants(command)
    /\ UNCHANGED <<semVars, pending, ringVars, readPos, threadVars, needSync, start>>

(* get_buffer: the first call after set_active_stream waits for the buffer *)
(* to be full and gives the token back with a NOP.                         *)
GetBuffer(n) ==
    /\ clientPc = "free" /\ start # Nop
    /\ IF needSync
       THEN Wants([Nop EXCEPT !.count = n])
       ELSE held' = n /\ UNCHANGED <<clientPc, wanted>>
    /\ UNCHANGED <<semVars, pending, ringVars, readPos, threadVars, needSync, start>>

Crossed(p, q) == (p \div ChunkSize) % 2 # (q \div ChunkSize) % 2

Advance(n) ==
    /\ clientPc = "free" /\ n <= held
    /\ readPos' = readPos + n
    /\ IF Crossed(readPos, readPos + n)
       THEN Wants(BufferNext)
       ELSE held' = 0 /\ UNCHANGED <<clientPc, wanted>>
    /\ UNCHANGED <<semVars, pending, ringVars, threadVars, needSync, start>>

AcquireEager ==                                         \* forgets to wait
    /\ clientPc = "waiting" /\ (ackSem > 0 \/ wanted.do = "next")
    /\ clientPc' = "posting"
    /\ ackSem' = IF ackSem > 0 THEN ackSem - 1 ELSE 0
    /\ UNCHANGED <<commandSem, pending, ringVars, readPos, threadVars, wanted, held, needSync, start>>
Acquire ==
    /\ clientPc = "waiting" /\ ackSem > 0
    /\ clientPc' = "posting"
    /\ ackSem' = ackSem - 1
    /\ UNCHANGED <<commandSem, pending, ringVars, readPos, threadVars, wanted, held, needSync, start>>

PostedButNop == IF wanted.do = "nop" THEN 0 ELSE 1      \* forgets the token
Posted == 1

Post ==
    /\ clientPc = "posting"
    /\ pending' = wanted
    /\ commandSem' = commandSem + Posted
    /\ clientPc' = IF wanted.do = "exit" THEN "joining" ELSE "free"
    /\ IF wanted.do = "set"
       THEN readPos' = 0 /\ writePos' = 0 /\ needSync' = TRUE /\ start' = wanted
       ELSE /\ needSync' = (needSync /\ wanted.do # "nop")
            /\ UNCHANGED <<readPos, writePos, start>>
    /\ held' = wanted.count
    /\ UNCHANGED <<ackSem, buffer, threadVars, wanted>>

Join ==
    /\ clientPc = "joining" /\ threadPc = "gone"
    /\ clientPc' = "gone"
    /\ UNCHANGED <<semVars, pending, ringVars, readPos, threadVars, wanted, held, needSync, start>>

Client == Acquire \/ Post \/ Join

-----------------------------------------------------------------------------
(* The constructor posts a NOP to put the token into circulation.          *)
Init ==
    /\ commandSem = 1 /\ ackSem = 0 /\ pending = Nop
    /\ buffer = [i \in 0 .. BufferSize + Overbuffer - 1 |-> 0]
    /\ readPos = 0 /\ writePos = 0 /\ needSync = FALSE
    /\ threadPc = "idle" /\ active = 1 /\ todo = 0 /\ base = NoBase
    /\ pos = [w \in 1 .. Streams |-> 0] /\ filePos = [w \in 1 .. Streams |-> 0]
    /\ clientPc = "free" /\ wanted = Nop /\ held = 0 /\ start = Nop

Call ==
    \/ \E w \in 1 .. Streams, skip \in Nat, pzb \in 0 .. BufferSize + Overbuffer :
          Request(SetActive(w, skip, pzb))
    \/ Request(Exit)
    \/ \E n \in 1 .. Overbuffer : GetBuffer(n)
    \/ \E n \in 1 .. Overbuffer : Advance(n)

Next == Thread \/ Throw \/ Client \/ Call
Spec == Init /\ [][Next]_vars

-----------------------------------------------------------------------------
Serving == {"filling", "acking", "leaving", "failedAcking"}

(* There is one token: a command that is not yet taken, one being served,  *)
(* an ack not yet waited for, or the client between its wait and its post. *)
(* So nobody writes pending_, read_pos or write_pos while the other reads. *)
One(p) == IF p THEN 1 ELSE 0
OneToken ==
    commandSem + ackSem + One(threadPc \in Serving) + One(clientPc = "posting") <= 1

(* What the client holds is the stream it asked for: pzb bytes of silence, *)
(* then the stream from `skip` on, round its loop for ever or followed by  *)
(* silence, as if it had been read in one piece.  And while the client     *)
(* holds bytes the thread is at work elsewhere in the ring, as             *)
(* MTStreamReader.h says of reading ahead in quarters.                     *)
Streamed(p) ==
    LET w == start.which
        n == start.skip + p - start.pzb
        length == SizeOf[w] - LoopOf[w]
    IN  IF p < start.pzb \/ (n >= SizeOf[w] /\ length = 0) THEN 0
        ELSE ByteOf(w, IF n < SizeOf[w] THEN n
                       ELSE LoopOf[w] + ((n - LoopOf[w]) % length))
ReadsTheStream ==
    \A i \in 0 .. held - 1 :
        /\ buffer[(readPos % BufferSize) + i] = Streamed(readPos + i)
        /\ threadPc = "filling" =>
              \A j \in 0 .. todo - 1 :
                  (readPos + i) % BufferSize # (writePos + j) % BufferSize

(* Every call of the client returns: what it waits for is acked.           *)
InACall == clientPc \in {"waiting", "joining"}
Returned == clientPc \in {"free", "gone"}
ClientServed == InACall ~> Returned

(* The same as far as it is true: unless a stream has thrown.              *)
ServedUnlessFailed == InACall ~> Returned \/ threadPc = "failed"
=============================================================================
