----------------------------- MODULE OphStatus -----------------------------
(***************************************************************************)
(* The job statuses of the runtime, numbered as the enumeration of          *)
(* oph_gather.h numbers them: the engine compares statuses with < and >=,   *)
(* so their order is part of the behaviour.                                 *)
(***************************************************************************)
EXTENDS Naturals

UNKNOWN == 0
PENDING == 1
WAIT == 2
RUNNING == 3
START == 4
UNSET_ENV == 11
COMPLETED == 12
ERROR == 13
PENDING_ERROR == 14
START_ERROR == 16
EXECUTE_ERROR == 20
UNSET_ENV_ERROR == 23
SKIPPED == 24
ABORTED == 25
UNSELECTED == 26
EXPIRED == 27

Status == UNKNOWN .. EXPIRED

(***************************************************************************)
(* oph_workflow_notify folds the status carried by a notification to the    *)
(* three cases it handles: the work goes on, it completed, it failed.       *)
(***************************************************************************)
NotifiedStatus(s) ==
    CASE s \in {WAIT} \cup (START .. UNSET_ENV) -> RUNNING
      [] s = UNSELECTED -> COMPLETED
      [] s \in (PENDING_ERROR .. ABORTED) \cup {EXPIRED} -> ERROR
      [] OTHER -> s

(* A task in one of these statuses has been submitted and has not ended.    *)
Active(s) == UNKNOWN < s /\ s < COMPLETED

(* A task in one of these statuses has ended, or will never run.            *)
Ended(s) == s >= COMPLETED
=============================================================================
