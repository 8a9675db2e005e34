----------------------------- MODULE RetryBudget -----------------------------
(***************************************************************************)
(* WorkflowEngine with a history variable: how many times the engine has    *)
(* started each task.  It relates the counters residual_retry_num and       *)
(* residual_auto_retry_num, which several notifications update, to the      *)
(* number of attempts a task really gets.                                   *)
(***************************************************************************)
EXTENDS WorkflowEngine

VARIABLE attempts

bvars == <<vars, attempts>>

BInit == Init /\ attempts = [t \in Task |-> 0]

BNext ==
    /\ Next
    /\ attempts' = [t \in Task |->
                      attempts[t] + IF st[t] = UNKNOWN /\ Active(st'[t]) THEN 1 ELSE 0]

BSpec == BInit /\ [][BNext]_bvars

BFairSpec == BSpec /\ Fairness

(* What on_error and AUTO_RETRY allow: on_error=repeat n - 1 gives n        *)
(* attempts; a task with on_error=break gets AUTO_RETRY further attempts,   *)
(* a massive one, whose light tasks set the mark after the counter, one     *)
(* more.                                                                    *)
Allowed(t) ==
    IF RetryNum[t] > 1 THEN RetryNum[t]
    ELSE IF RetryNum[t] < 1 \/ AutoRetry = 0 THEN 1
    ELSE IF LightOf(t) = {} THEN 1 + AutoRetry ELSE 2 + AutoRetry

(* No sequence of start errors, failures and repeated notifications gives a *)
(* task more attempts than allowed.                                         *)
AttemptsBounded == \A t \in Task : attempts[t] <= Allowed(t)
=============================================================================
