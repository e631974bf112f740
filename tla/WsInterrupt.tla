----------------------------- MODULE WsInterrupt -----------------------------
(***************************************************************************)
(* The interrupt controller of the console (interrupt.cpp).  Other parts   *)
(* of the console call it in the middle of their own operations, so the    *)
(* controller is a record and each of its functions a function from record *)
(* to record.                                                              *)
(*                                                                         *)
(*   asserted  IAsserted, the lines that are high                          *)
(*   status    IStatus, the requests that wait                             *)
(*   enable    IEnable                                                     *)
(*   base      IVectorBase                                                 *)
(*   cache     IOn_Cache, IOn_Which and IVector_Cache: what the processor  *)
(*             is told, which every change has to renew                    *)
(*                                                                         *)
(* A register is the set of its bits that are 1, which are the sources.    *)
(*                                                                         *)
(* A definition with a note such as "forgets the level" beside it is the   *)
(* definition that follows with that mistake made: no specification uses   *)
(* it, it is there to show that the properties notice.                     *)
(***************************************************************************)
EXTENDS Integers

Sources == 0 .. 7
SERIAL_SEND == 0
SERIAL_RECV == 3
Bases == {8 * n : n \in 0 .. 31}

LevelTriggered == {0, 2, 3}                 \* LevelTriggeredMask, 0x0D

Highest(bits) == CHOOSE i \in bits : \A j \in bits : j <= i
CacheOf(bits, from) ==
    IF bits = {} THEN [on |-> FALSE, which |-> 0, vector |-> 0]
    ELSE [on |-> TRUE, which |-> Highest(bits), vector |-> (from + Highest(bits)) * 4]

(* RecalcInterrupt, which ends every operation.                            *)
RecalcEdge(int) ==                                     \* forgets the level
    [int EXCEPT !.cache = CacheOf(int.status, int.base)]
RecalcIdle(int) ==                                     \* forgets to renew an old cache
    LET bits == int.status \cup (int.asserted \cap LevelTriggered \cap int.enable)
    IN  [int EXCEPT !.status = bits,
                    !.cache = IF @.on /\ bits # {} THEN @ ELSE CacheOf(bits, int.base)]
Recalc(int) ==
    LET bits == int.status \cup (int.asserted \cap LevelTriggered \cap int.enable)
    IN  [int EXCEPT !.status = bits, !.cache = CacheOf(bits, int.base)]

(* WSwan_InterruptAssert: a line goes to a level, and a rise is a request. *)
InterruptAssert(int, which, on) ==
    LET lines == (int.asserted \ {which}) \cup (IF on THEN {which} ELSE {})
    IN  Recalc([int EXCEPT !.asserted = lines,
                           !.status = @ \cup ((lines \ int.asserted) \cap int.enable)])

(* WSwan_Interrupt: a request without a line.                              *)
Interrupt(int, which) == Recalc([int EXCEPT !.status = @ \cup ({which} \cap int.enable)])

(* WSwan_InterruptWrite, ports 0xB0, 0xB2 and 0xB6.                        *)
WriteBase(int, byte) == Recalc([int EXCEPT !.base = 8 * (byte \div 8)])
WriteEnable(int, bits) == Recalc([int EXCEPT !.enable = bits])
Acknowledge(int, bits) == Recalc([int EXCEPT !.status = @ \ bits])

(* WSwan_InterruptReset; the state the program starts in is the same.      *)
InterruptReset ==
    [asserted |-> {}, status |-> {}, enable |-> {}, base |-> 0, cache |-> CacheOf({}, 0)]

(* WSwan_InterruptStateAction: a save has the registers, not the cache.    *)
InterruptLoad(int, saved) == Recalc([saved EXCEPT !.cache = int.cache])

-----------------------------------------------------------------------------
Caches == [on : BOOLEAN, which : Sources, vector : {4 * n : n \in 0 .. 255}]
Controllers ==
    [asserted : SUBSET Sources, status : SUBSET Sources, enable : SUBSET Sources,
     base : Bases, cache : Caches]

(* What the processor is told is what the registers say now: the vector of *)
(* the highest request that waits, or none.                                *)
Fresh(int) == int.cache = CacheOf(int.status, int.base)

(* A source that holds its line and is enabled has a request waiting,      *)
(* however it was acknowledged and whichever of the three came last.       *)
Held(int) == int.asserted \cap LevelTriggered \cap int.enable \subseteq int.status
=============================================================================
