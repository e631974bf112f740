----------------------------- MODULE MCWsConsole -----------------------------
(***************************************************************************)
(* WsPrograms with a bound for each of its programs.                       *)
(***************************************************************************)
EXTENDS WsPrograms

FewOps ==
    [calendar |-> 0, reader |-> 6, frames |-> 4, timers |-> 4, streams |-> 3, tunes |-> 3,
     stores |-> 4, copies |-> 4]
FewLines ==
    [calendar |-> 1, reader |-> 4, frames |-> 12, timers |-> 10, streams |-> 4, tunes |-> 2,
     stores |-> 0, copies |-> 0]
=============================================================================
