------------------------------ MODULE MCQueue ------------------------------
(***************************************************************************)
(* Three workflows, of which the cfg files say which are synchronous, and   *)
(* two threads of the server that serve notifications and are alike.        *)
(***************************************************************************)
EXTENDS WorkflowQueue, TLC

CONSTANTS w1, w2, w3, h1, h2

ThreadSymmetry == Permutations(Thread)
=============================================================================
