----------------------------- MODULE MCNileTfHost -----------------------------
(***************************************************************************)
(* NileTfHost with three blocks of two bytes, every kind of command, and   *)
(* blocks to write that look like tokens and like commands.                *)
(***************************************************************************)
EXTENDS NileTfHost

Numbered == [a \in 0 .. Blocks * DataLen - 1 |-> a]

Payloads == {<<BlockToken, 64>>, <<StopToken, FillByte>>}
Plain(n, x) == [cmd |-> n, at |-> x, count |-> 0, data |-> <<>>]
Read(n, a, k) == [cmd |-> n, at |-> a, count |-> k, data |-> <<>>]
Write(n, a, d) == [cmd |-> n, at |-> a, count |-> Len(d), data |-> d]

AllKinds ==
    {Plain(0, 0), Plain(1, 0), Plain(5, 0), Plain(8, 426),
     Plain(16, DataLen), Plain(16, DataLen + 1)}
    \cup {Read(17, a, 1) : a \in 0 .. 2} \cup {Read(18, 0, 2), Read(18, 1, 2)}
    \cup {Write(24, a, <<d>>) : a \in 0 .. 2, d \in Payloads}
    \cup {Write(25, a, <<d, e>>) : a \in 0 .. 1, d \in Payloads, e \in Payloads}
=============================================================================
