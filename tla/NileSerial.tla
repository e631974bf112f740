------------------------------ MODULE NileSerial ------------------------------
(***************************************************************************)
(* The serial line of NileMcu with every byte told apart: the far end      *)
(* sends 1, 2, 3 and so on, and sent is how many it has sent.  The bytes   *)
(* are numbers here, not 0 .. 255: what happens to a byte on its way does  *)
(* not depend on its value.  Everything else is NileMcu as it stands.      *)
(***************************************************************************)
EXTENDS NileMcu

VARIABLE sent      \* how many bytes the far end has sent
serialVars == <<mcuVars, sent>>

SendsNext ==
    /\ FarEndSends(sent + 1)
    /\ sent' = sent + 1

SerialInit == Init /\ sent = 0
SerialNext ==
    \/ SendsNext
    \/ /\ \/ \E b \in Byte : Exchange(b)
          \/ \E boot \in BOOLEAN : Reset(boot)
          \/ FarEndReads
          \/ UartReads
       /\ UNCHANGED sent

SerialSpec == SerialInit /\ [][SerialNext]_serialVars

-----------------------------------------------------------------------------
(* Every byte of the serial line is in exactly one place: with the host,   *)
(* with the UART, dropped by a flush or a reset, peeked or unread; none is *)
(* lost or handed out twice although two readers share the pipe and        *)
(* CDC_AVAILABLE takes a byte out of it only to look (cdc_unget).  And     *)
(* what one reader gets, it gets in the order it was sent: a peeked byte   *)
(* is never overtaken by a later one on its way to the host.               *)
Places == [i \in 1 .. Len(taken) |-> taken[i].byte] \o unget \o serialIn
SerialKept ==
    /\ Len(Places) = sent /\ \A b \in 1 .. sent : \E i \in 1 .. sent : Places[i] = b
    /\ \A i, j \in 1 .. Len(taken) :
          i < j /\ taken[i].by = taken[j].by => taken[i].byte < taken[j].byte
=============================================================================
