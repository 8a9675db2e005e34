------------------------------ MODULE MCLimits ------------------------------
(***************************************************************************)
(* A call of oph_workflow_execute for each of two workflows.  r1 is massive *)
(* and needs the scan s1, and every core for itself; r2 is an OPH_WAIT,     *)
(* which may scan for its file with s2 in h3; r3 could not be prepared.     *)
(***************************************************************************)
EXTENDS TaskLimits, TLC

CONSTANTS r1, r2, r3, r4, s1, s2, h1, h2, h3, w1, w2

Scanner == [r \in Request |-> CASE r = s1 -> r1 [] r = s2 -> r2 [] OTHER -> r]
Owners == [r \in Request |-> IF r \in {r3, r4} THEN w2 ELSE w1]

\* r1 and r4 exclude each other by the limit of one task; after r3 has given
\* back the place of r4, r1 waits for cores alone
Batches == h1 :> <<s1, r2, r1>> @@ h2 :> <<r4, r3>> @@ h3 :> <<s2>>
Cores == [r \in Request |-> CASE r = r1 -> 3 [] r = r4 -> 2 [] OTHER -> 1]
=============================================================================
