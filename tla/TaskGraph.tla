------------------------------ MODULE TaskGraph ------------------------------
(***************************************************************************)
(* What the engine promises to the user of a workflow: the tasks run in the *)
(* order of the graph, a task is given up only because a task it depends on *)
(* failed, and the workflow is over only when nothing of it runs any more   *)
(* (or somebody cancelled it).  How many tasks change in one step, retries, *)
(* counters, massive operations and jobs are the business of                *)
(* WorkflowEngine, which implements this specification.                     *)
(***************************************************************************)
CONSTANTS
    Task,
    Deps,       \* [Task -> SUBSET Task]
    Tolerated,  \* the tasks whose failure does not hold back their dependents
    Late        \* the tasks that may start after the end of the workflow

VARIABLES
    stage,      \* "todo", "active", "ok" or "ko" for each task
    outcome     \* of the workflow: "open", "over" or "cancelled"

gvars == <<stage, outcome>>

Stages == {"todo", "active", "ok", "ko"}

GTypeOK ==
    /\ stage \in [Task -> Stages]
    /\ outcome \in {"open", "over", "cancelled"}

GInit ==
    /\ stage = [t \in Task |-> "todo"]
    /\ outcome = "open"

Satisfied(t) == stage[t] = "ok" \/ (t \in Tolerated /\ stage[t] = "ko")

(* What a step may do to a task: start it once its dependences are          *)
(* satisfied, fail to or find nothing to do; give it up because a task it   *)
(* depends on is lost.                                                      *)
Starts(t) ==
    /\ stage[t] = "todo" /\ stage'[t] \in {"active", "ok", "ko"}
    /\ \A d \in Deps[t] : Satisfied(d)
    /\ outcome = "open" \/ t \in Late
GivenUp(t) ==
    /\ stage[t] = "todo" /\ stage'[t] = "ko"
    /\ \E d \in Deps[t] : stage'[d] = "ko"
Stays(t) == stage'[t] = stage[t]

StageStep == stage' \in [Task -> Stages]

Start ==
    /\ outcome' = outcome
    /\ StageStep
    /\ \A t \in Task : Stays(t) \/ Starts(t) \/ GivenUp(t)

(* The workflow is over, at the earliest when no task is active.            *)
MayBeOver ==
    \/ outcome' = outcome
    \/ outcome' = "over" /\ \A t \in Task : stage'[t] # "active"

Finish(t) ==
    /\ outcome = "open"
    /\ StageStep
    /\ stage[t] = "active" /\ stage'[t] \in {"ok", "ko"}
    /\ \A x \in Task \ {t} : Stays(x) \/ GivenUp(x)
    /\ MayBeOver

(* Nobody had anything to do in the last task.                              *)
End ==
    /\ outcome = "open" /\ stage' = stage
    /\ MayBeOver

Retry(t) ==
    /\ outcome = "open" /\ outcome' = outcome
    /\ stage[t] = "active"
    /\ stage' = [stage EXCEPT ![t] = "todo"]

Cancelled ==
    /\ outcome = "open" /\ outcome' = "cancelled"
    /\ stage' = stage

Kill ==
    /\ outcome = "cancelled" /\ outcome' = outcome
    /\ StageStep
    /\ \A t \in Task : Stays(t) \/ (stage[t] = "active" /\ stage'[t] = "ko")

GNext == Start \/ End \/ (\E t \in Task : Finish(t) \/ Retry(t)) \/ Cancelled \/ Kill

GSpec == GInit /\ [][GNext]_gvars
=============================================================================
