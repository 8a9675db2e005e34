------------------------------ MODULE MCEngine ------------------------------
(***************************************************************************)
(* Instances of the engine: a diamond of four tasks, in which b and c run   *)
(* side by side, under two assignments of on_error and one or no massive    *)
(* task.                                                                    *)
(***************************************************************************)
EXTENDS RetryBudget, TLC

CONSTANTS a, b, c, d

Diamond == a :> {} @@ b :> {a} @@ c :> {a} @@ d :> {b, c}

\* break, skip, continue, repeat 1
EveryOnError == a :> 1 @@ b :> -1 @@ c :> 0 @@ d :> 2

\* the default of the request
Breaks == [t \in Task |-> 1]

\* break, but b has one more attempt
RepeatB == [t \in Task |-> IF t = b THEN 2 ELSE 1]

NoLights == [t \in Task |-> {}]
LightB == [t \in Task |-> IF t = b THEN {1, 2} ELSE {}]
=============================================================================
