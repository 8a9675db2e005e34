----------------------------- MODULE MCWaiting -----------------------------
(***************************************************************************)
(* Two waiting tasks: both sleep, one of them for ever; one looks for a     *)
(* file between its sleeps while the other sleeps; one looks for a remote   *)
(* object beside a task that was given run=no.                              *)
(***************************************************************************)
EXTENDS WaitingTasks, TLC

CONSTANTS w1, w2, job

Args(type, timeout) == [type |-> type, timeout |-> timeout, run |-> TRUE]

Sleepers == w1 :> Args("input", -1) @@ w2 :> Args("clock", 1)

Pairs ==
    {Sleepers,
     w1 :> Args("input", -1) @@ w2 :> Args("file", 1),
     w1 :> Args("http", 1) @@ w2 :> [Args("input", 1) EXCEPT !.run = FALSE]}

\* both sleepers may be aborted
Commands == [a \in Pairs |-> IF a = Sleepers THEN 2 ELSE 1]
=============================================================================
