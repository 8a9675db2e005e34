------------------------------- MODULE MCDag -------------------------------
(***************************************************************************)
(* All workflows of three tasks with up to two dependences each, on any of   *)
(* four names; the tasks have three different names or share one.            *)
(***************************************************************************)
EXTENDS DagCheck

Names == {"a", "b", "c", "d"}
Namings == {<<"a", "b", "c">>, <<"a", "a", "b">>, <<"a", "b", "b">>}
=============================================================================
