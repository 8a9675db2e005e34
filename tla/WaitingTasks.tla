---------------------------- MODULE WaitingTasks ----------------------------
(***************************************************************************)
(* The tasks with operator OPH_WAIT of one workflow, run asynchronously     *)
(* with on_error=break and without automatic retries.  Each one is served   *)
(* by a detached thread (_oph_wait) that keeps a pointer to the workflow,   *)
(* sleeps a second at a time without global_flag, looks for a file through  *)
(* a job of the cluster (_oph_wait_stat), reads the status OPH_INPUT left   *)
(* in its task and notifies the end to the engine.  The engine may close    *)
(* and free the workflow in the meantime: waiting_tasks_num, the number of  *)
(* sleeping threads, negated by oph_workflow_free, hands the release over   *)
(* to the last thread that wakes up.                                        *)
(*                                                                          *)
(* A section under global_flag is a step, and so is each access outside it. *)
(* A thread that follows the pointer once the workflow is freed sets wild,  *)
(* and the behaviour ends there: nothing can be said of what comes next.    *)
(***************************************************************************)
EXTENDS Integers, FiniteSets, OphStatus

CONSTANTS
    Waiter,   \* the OPH_WAIT tasks
    Job,      \* another task of the workflow
    Setups,   \* the arguments the tasks may be given: a set of functions from
              \* Waiter to [type, timeout, run], where timeout counts seconds
              \* and -1 is infinity
    MaxInput  \* [Setups -> Nat]: bound on the commands sent with OPH_INPUT

Task == Waiter \cup {Job}
Types == {"clock", "input", "file", "http"}

ASSUME JobAssumption == IsFiniteSet(Waiter) /\ Job \notin Waiter
ASSUME SetupAssumption ==
    \A a \in Setups : \A w \in Waiter :
        /\ a[w].type \in Types /\ a[w].timeout \in Nat \cup {-1} /\ a[w].run \in BOOLEAN
        /\ a[w].timeout = -1 => a[w].type = "input"

VARIABLES
    arg,       \* wd: the arguments
    listed,    \* the workflow is in the job list
    memory,    \* the workflow struct: "held" or "freed"
    wstatus,   \* wf->status
    residual,  \* wf->residual_tasks_num
    num,       \* wf->waiting_tasks_num
    status,    \* tasks[].status
    idjob,     \* tasks[].idjob is not 0
    response,  \* tasks[].response: "none", or what a scan answered
    closer,    \* the thread that closes the workflow
    scan,      \* a scan of the file system is out for the task
    at,        \* the threads: where each one is,
    seen,      \*   its local status,
    counter,   \*   the seconds it has slept,
    again,     \*   it looks for the file after the time has passed,
    fast,      \*   fast_exit
    wild,      \* a thread has followed the pointer of a freed workflow
    ends,      \* history: the ends of the task the engine has counted,
    outcome,   \*   the status of the last one,
    reason,    \*   why a task may end before its time,
    aborted,   \*   where its thread was when OPH_INPUT first aborted it
    inputs     \*   the commands sent

engine == <<listed, wstatus, residual, closer, ends, outcome>>
tasks == <<status, idjob, response>>
sent == <<aborted, inputs>>
local == <<at, seen, counter, again, fast>>
vars == <<arg, engine, memory, num, tasks, scan, local, wild, reason, sent>>

Asleep == {w \in Waiter : at[w] = "asleep"}
Finite(w) == arg[w].timeout >= 0

Init ==
    /\ arg \in Setups
    /\ listed = TRUE /\ memory = "held" /\ wild = FALSE
    /\ wstatus = PENDING
    /\ residual = Cardinality(Task)
    /\ num = 0
    /\ status = [t \in Task |-> PENDING]
    /\ idjob = [w \in Waiter |-> TRUE]
    /\ response = [w \in Waiter |-> "none"]
    /\ closer = "none"
    /\ scan = [w \in Waiter |-> FALSE]
    /\ at = [w \in Waiter |-> "submitted"]
    /\ seen = [w \in Waiter |-> UNKNOWN]
    /\ counter = [w \in Waiter |-> 0]
    /\ again = [w \in Waiter |-> FALSE]
    /\ fast = [w \in Waiter |-> FALSE]
    /\ ends = [t \in Task |-> 0]
    /\ outcome = [t \in Task |-> UNKNOWN]
    /\ reason = [w \in Waiter |-> {}]
    /\ aborted = [w \in Waiter |-> "no"]
    /\ inputs = 0

-----------------------------------------------------------------------------
(* The engine: oph_workflow_notify as far as these tasks need it.           *)

Go(w, place) == at' = [at EXCEPT ![w] = place]
Because(w, why) == reason' = [reason EXCEPT ![w] = @ \cup {why}]
NoneActive(s) == \A t \in Task : ~Active(s[t])

(* Mutant of IsFinal: off by one.                                           *)
IsFinalButOne(s, new) == (s = COMPLETED /\ residual <= 2) \/ (s = ERROR /\ NoneActive(new))

(* The last task has completed, or nothing runs any more in a workflow that *)
(* has failed; new: the statuses after an end with status s.                *)
IsFinal(s, new) ==
    \/ s = COMPLETED /\ residual = 1
    \/ ERROR \in {s, wstatus} /\ NoneActive(new)

(* The end s of task t: refused if the workflow is not listed, has been     *)
(* cancelled or has no task left, neglected if it is a failure of a task    *)
(* that has ended.                                                          *)
Notify(t, s) ==
    LET new == [status EXCEPT ![t] = s]
        failed == s = ERROR \/ wstatus = ERROR
        final == IsFinal(s, new)
    IN  IF ~listed \/ wstatus >= ABORTED \/ residual = 0 \/ (s = ERROR /\ Ended(status[t]))
        THEN UNCHANGED <<engine, status>>
        ELSE /\ status' = new
             /\ residual' = residual - 1
             /\ wstatus' = IF failed THEN ERROR ELSE IF final THEN COMPLETED ELSE wstatus
             /\ listed' = ~final
             /\ closer' = IF final THEN "closing" ELSE closer
             /\ ends' = [ends EXCEPT ![t] = @ + 1]
             /\ outcome' = [outcome EXCEPT ![t] = s]

(* Mutant of Free: it does not look at the counter.                         *)
FreeAnyway == memory' = "freed" /\ num' = num

(* oph_workflow_free: while threads sleep, the release is left to them.     *)
Free ==
    /\ memory' = IF num = 0 THEN "freed" ELSE memory
    /\ num' = IF num > 0 THEN -num ELSE num

JobEnds(s) ==
    /\ Active(status[Job])
    /\ Notify(Job, s)
    /\ UNCHANGED <<arg, memory, num, idjob, response, scan, local, wild, reason, sent>>

Close ==
    /\ closer = "closing"
    /\ closer' = "done"
    /\ Free
    /\ UNCHANGED <<arg, listed, wstatus, residual, ends, outcome, tasks, scan, local,
                   wild, reason, sent>>

(* OPH_CANCEL: the status in a section of its own, then the notification    *)
(* that drops the workflow from the list, then the tasks, without the lock. *)
(* The workflow struct is not freed.                                        *)
Cancel ==
    /\ listed /\ wstatus < ABORTED
    /\ wstatus' = ABORTED
    /\ closer' = "cancelling"
    /\ UNCHANGED <<arg, listed, residual, ends, outcome, memory, num, tasks, scan,
                   local, wild, reason, sent>>

CancelDrops ==
    /\ closer = "cancelling"
    /\ listed' = FALSE
    /\ closer' \in {"killing", "done"}
    /\ UNCHANGED <<arg, wstatus, residual, ends, outcome, memory, num, tasks, scan,
                   local, wild, reason, sent>>

CancelKills ==
    /\ closer = "killing"
    /\ closer' = "done"
    /\ \E hit \in {{t \in Task : Active(status[t])}, {t \in Task : status[t] = PENDING}} :
          /\ status' = [t \in Task |-> IF t \in hit THEN ABORTED ELSE status[t]]
          /\ response' = [w \in Waiter |-> IF w \in hit THEN "absent" ELSE response[w]]
    /\ UNCHANGED <<arg, listed, wstatus, residual, ends, outcome, memory, num, idjob,
                   scan, local, wild, reason, sent>>

(* Mutant of Commanded: a task is taken back to RUNNING, too.               *)
CommandedAlways(now, action) == action

Commanded(now, action) == IF now < action THEN action ELSE now

(* An abort reached a task that was looking for its file, or was about to:  *)
(* the answer of the scan is then taken for the end of the task.            *)
Crossed(t) == t \in Waiter /\ aborted[t] = "looking"

(* Where an abort finds the thread.                                         *)
Place(w) ==
    IF at[w] = "asleep" THEN "asleep"
    ELSE IF arg[w].type = "file" /\ at[w] \in {"served", "look", "answer", "blocked", "loop"}
    THEN "looking" ELSE "busy"

(* OPH_INPUT, sent by another workflow of the session: continue, abort or   *)
(* wait, written into the status of the task.                               *)
Input(w, action) ==
    /\ listed /\ inputs < MaxInput[arg]
    /\ status' = [status EXCEPT ![w] = Commanded(@, action)]
    /\ IF action = RUNNING /\ status[w] = WAIT THEN Because(w, "continue") ELSE reason' = reason
    /\ aborted' = IF action = ERROR /\ Active(status[w]) /\ ~Crossed(w)
                  THEN [aborted EXCEPT ![w] = Place(w)] ELSE aborted
    /\ inputs' = inputs + 1
    /\ UNCHANGED <<arg, engine, memory, num, idjob, response, scan, local, wild>>

-----------------------------------------------------------------------------
(* Serving the task: oph_serve_flow_control_operator and oph_wait_impl.     *)

StartsToWait(w) ==
    /\ status' = [status EXCEPT ![w] = WAIT]
    /\ wstatus' = IF wstatus < RUNNING THEN RUNNING ELSE wstatus

Serve(w) ==
    /\ at[w] = "submitted"
    /\ \/ ~listed /\ Go(w, "done") /\ UNCHANGED <<wstatus, status>>
       \/ listed /\ Go(w, "refused") /\ UNCHANGED <<wstatus, status>>
       \/ listed /\ Go(w, "served") /\ StartsToWait(w)
    /\ UNCHANGED <<arg, listed, residual, closer, ends, outcome, memory, num, idjob,
                   response, scan, seen, counter, again, fast, wild, reason, sent>>

(* OphidiaDB may be out of reach.                                           *)
Refuse(w) ==
    /\ at[w] = "served"
    /\ Go(w, "refused")
    /\ UNCHANGED <<arg, engine, memory, num, tasks, scan, seen, counter, again, fast,
                   wild, reason, sent>>

Report(w) ==
    /\ at[w] = "refused"
    /\ Go(w, "done")
    /\ Notify(w, ERROR)
    /\ UNCHANGED <<arg, memory, num, idjob, response, scan, seen, counter, again, fast,
                   wild, reason, sent>>

-----------------------------------------------------------------------------
(* The thread: _oph_wait, with the scans of _oph_wait_stat.                 *)

Looks(w) == arg[w].type \in {"file", "http"}

(* The head of the outer loop: the file is looked for before the sleep.     *)
Head(w, s) == Go(w, IF Looks(w) /\ s = WAIT THEN "look" ELSE "loop")

(* Unless run=no the thread is created, and reads the status.               *)
Begin(w) ==
    /\ at[w] = "served"
    /\ \/ ~arg[w].run /\ Go(w, "done") /\ seen' = seen
       \/ /\ arg[w].run
          /\ seen' = [seen EXCEPT ![w] = status[w]]
          /\ Head(w, status[w])
    /\ UNCHANGED <<arg, engine, memory, num, tasks, scan, counter, again, fast, wild,
                   reason, sent>>

(* What a look at the file decides: the end, the sleep, or a new turn of    *)
(* the outer loop, which begins with another look.                          *)
Decide(w, answer) ==
    /\ again' = [again EXCEPT ![w] = FALSE]
    /\ counter' = [counter EXCEPT ![w] = 0]
    /\ \/ answer = "found" /\ Go(w, "completing") /\ Because(w, "found")
       \/ answer = "empty" /\ Go(w, "failing") /\ reason' = reason
       \/ answer = "absent" /\ Go(w, IF again[w] THEN "look" ELSE "loop") /\ reason' = reason

(* A remote object is probed by the thread itself.                          *)
Probe(w, answer) ==
    /\ at[w] = "look" /\ arg[w].type = "http"
    /\ Decide(w, answer)
    /\ UNCHANGED <<arg, engine, memory, num, tasks, scan, seen, fast, wild, sent>>

(* A file is looked for by a job, whose notifications carry no idjob; the   *)
(* submission may fail.                                                     *)
Submit(w) ==
    /\ at[w] = "look" /\ arg[w].type = "file"
    /\ idjob' = [idjob EXCEPT ![w] = FALSE]
    /\ \/ Go(w, "failing") /\ scan' = scan
       \/ Go(w, "answer") /\ scan' = [scan EXCEPT ![w] = TRUE]
    /\ UNCHANGED <<arg, engine, memory, num, status, response, seen, counter, again,
                   fast, wild, reason, sent>>

(* Mutant of Internal: the idjob is not looked at.                          *)
InternalNever(w) == FALSE

Internal(w) == ~idjob[w] /\ status[w] < ERROR

(* The notification of the job.  It becomes the response the thread waits   *)
(* for, unless the task is in error: then it is taken for the end of the    *)
(* task.                                                                    *)
ScanEnds(w, answer) ==
    /\ scan[w]
    /\ scan' = [scan EXCEPT ![w] = FALSE]
    /\ IF listed /\ Internal(w)
       THEN /\ response' = [response EXCEPT ![w] = answer]
            /\ UNCHANGED <<engine, status>>
       ELSE /\ Notify(w, IF answer = "empty" THEN ERROR ELSE COMPLETED)
            /\ response' = IF ends' = ends THEN response ELSE [response EXCEPT ![w] = answer]
    /\ UNCHANGED <<arg, memory, num, idjob, local, wild, reason, sent>>

TakeResponse(w) ==
    /\ response[w] # "none"
    /\ response' = [response EXCEPT ![w] = "none"]
    /\ idjob' = [idjob EXCEPT ![w] = TRUE]
    /\ Decide(w, response[w])

Answer(w) ==
    /\ at[w] = "answer"
    /\ \/ TakeResponse(w)
       \/ /\ response[w] = "none"
          /\ Go(w, "blocked")
          /\ UNCHANGED <<idjob, response, counter, again, reason>>
    /\ UNCHANGED <<arg, engine, memory, num, status, scan, seen, fast, wild, sent>>

(* Out of pthread_cond_wait: every response of any workflow wakes up all.   *)
Woken(w) ==
    /\ at[w] = "blocked"
    /\ \/ listed /\ TakeResponse(w)
       \/ /\ ~listed
          /\ Go(w, "done")
          /\ UNCHANGED <<idjob, response, counter, again, reason>>
    /\ UNCHANGED <<arg, engine, memory, num, status, scan, seen, fast, wild, sent>>

(* Mutant of Enough: a second short.                                        *)
EnoughBut1(w, c) == Finite(w) /\ c + 1 >= arg[w].timeout

Enough(w, c) == Finite(w) /\ c >= arg[w].timeout

(* The test of the inner loop, with local status s after c seconds and the  *)
(* counter of sleepers at n: another second, or out of the loop.            *)
Around(w, s, c, n) ==
    /\ seen' = [seen EXCEPT ![w] = s]
    /\ counter' = [counter EXCEPT ![w] = IF Finite(w) THEN c ELSE 0]
    /\ IF s = WAIT /\ ~Enough(w, c)
       THEN /\ num' = IF n >= 0 THEN n + 1 ELSE n - 1
            /\ Go(w, "asleep")
            /\ again' = again
       ELSE /\ num' = n
            /\ Go(w, IF s # WAIT THEN "last" ELSE IF Looks(w) THEN "look" ELSE "completing")
            /\ again' = [again EXCEPT ![w] = s = WAIT]

Loop(w) ==
    /\ at[w] = "loop"
    /\ Around(w, seen[w], counter[w], num)
    /\ UNCHANGED <<arg, engine, memory, tasks, scan, fast, wild, reason, sent>>

(* Mutant of Left: the sign is not considered.                              *)
LeftAnySign(n) == n - 1

(* The counter without one sleeper.                                         *)
Left(n) == IF n > 0 THEN n - 1 ELSE n + 1

(* Mutant of IsLastSleeper: nobody is.                                      *)
IsLastNever(n) == FALSE

(* The workflow was to be freed, and the thread was the last one asleep.    *)
IsLastSleeper(n) == n <= 0 /\ Left(n) = 0

(* Mutant of StatusRead: only the status of the task counts.                *)
StatusReadOfTask(w) == status[w]

StatusRead(w) == IF wstatus < COMPLETED THEN status[w] ELSE ERROR

(* Out of sleep(1): the status is read and the test of the loop follows     *)
(* under the same lock.                                                     *)
Awake(w) ==
    /\ at[w] = "asleep"
    /\ status' = [status EXCEPT ![w] = StatusRead(w)]
    /\ fast' = [fast EXCEPT ![w] = @ \/ IsLastSleeper(num)]
    /\ Around(w, IF IsLastSleeper(num) THEN ABORTED ELSE StatusRead(w), counter[w] + 1, Left(num))
    /\ UNCHANGED <<arg, engine, memory, idjob, response, scan, wild, reason, sent>>

(* The end of the wait: the time has passed or the file exists; the scan    *)
(* could not be made.                                                       *)
Settle(w, here, s) ==
    /\ at[w] = here
    /\ seen' = [seen EXCEPT ![w] = s]
    /\ status' = [status EXCEPT ![w] = s]
    /\ Go(w, "last")
    /\ UNCHANGED <<arg, engine, memory, num, idjob, response, scan, counter, again, fast,
                   wild, reason, sent>>

(* After the work a thread with fast_exit still has to free the workflow.   *)
Leave(w) == Go(w, IF fast[w] THEN "exit" ELSE "done")

(* A task unlocked by OPH_INPUT has completed.  The end is not notified if  *)
(* the workflow is gone, without an idjob, or if OphidiaDB is out of reach. *)
Last(w) ==
    /\ at[w] = "last"
    /\ IF seen[w] < COMPLETED
       THEN /\ seen' = [seen EXCEPT ![w] = COMPLETED]
            /\ status' = [status EXCEPT ![w] = COMPLETED]
       ELSE UNCHANGED <<seen, status>>
    /\ \/ idjob[w] /\ ~fast[w] /\ Go(w, "force")
       \/ Leave(w)
    /\ UNCHANGED <<arg, engine, memory, num, idjob, response, scan, counter, again, fast,
                   wild, reason, sent>>

(* The status is forced, without the lock, for the notification to count.   *)
ForceNotification(w) ==
    /\ at[w] = "force"
    /\ status' = [status EXCEPT ![w] = RUNNING]
    /\ Go(w, "tell")
    /\ UNCHANGED <<arg, engine, memory, num, idjob, response, scan, seen, counter, again,
                   fast, wild, reason, sent>>

Tell(w) ==
    /\ at[w] = "tell"
    /\ Go(w, "done")
    /\ Notify(w, NotifiedStatus(seen[w]))
    /\ UNCHANGED <<arg, memory, num, idjob, response, scan, seen, counter, again, fast,
                   wild, reason, sent>>

Exit(w) ==
    /\ at[w] = "exit"
    /\ Go(w, "done")
    /\ Free
    /\ UNCHANGED <<arg, engine, tasks, scan, seen, counter, again, fast, wild, reason,
                   sent>>

-----------------------------------------------------------------------------
(* The places where the next step of the thread follows the pointer.        *)
Dangling(w) ==
    /\ memory = "freed"
    /\ \/ at[w] \in {"look", "answer", "loop", "asleep", "completing", "failing", "last",
                     "force", "exit"}
       \/ at[w] = "served" /\ arg[w].run

Thread(w) ==
    \/ Serve(w) \/ Report(w)
    \/ Begin(w) \/ Submit(w) \/ Answer(w)
    \/ \E answer \in {"found", "absent"} : Probe(w, answer)
    \/ Loop(w) \/ Awake(w)
    \/ Settle(w, "completing", COMPLETED) \/ Settle(w, "failing", ERROR)
    \/ Last(w) \/ ForceNotification(w) \/ Tell(w) \/ Exit(w)

GoesWild(w) ==
    /\ Dangling(w)
    /\ wild' = TRUE
    /\ UNCHANGED <<arg, engine, memory, num, tasks, scan, local, reason, sent>>

Next ==
    /\ ~wild
    /\ \/ \E s \in {COMPLETED, ERROR} : JobEnds(s)
       \/ Close \/ Cancel \/ CancelDrops \/ CancelKills
       \/ \E w \in Waiter :
             \/ ~Dangling(w) /\ Thread(w)
             \/ Refuse(w) \/ Woken(w)
             \/ GoesWild(w)
             \/ \E action \in {WAIT, RUNNING, ERROR} : Input(w, action)
             \/ \E answer \in {"found", "absent", "empty"} : ScanEnds(w, answer)

Spec == Init /\ [][Next]_vars

(* The scheduler runs every thread that can run, and sleep(1) ends; the     *)
(* client, the job and the file system owe nothing.                         *)
Fairness ==
    /\ \A w \in Waiter : WF_vars(~wild /\ ((~Dangling(w) /\ Thread(w)) \/ GoesWild(w)))
    /\ WF_vars(~wild /\ Close)

FairSpec == Spec /\ Fairness

-----------------------------------------------------------------------------
Places == {"submitted", "refused", "served", "look", "answer", "blocked", "loop", "asleep",
           "completing", "failing", "last", "force", "tell", "exit", "done"}

(* waiting_tasks_num counts the threads that sleep without the lock, and is *)
(* negative only once the workflow has been closed: oph_workflow_free and   *)
(* _oph_wait agree on it in whatever order they get the lock.               *)
SleepersCounted ==
    \/ num = Cardinality(Asleep)
    \/ num = -Cardinality(Asleep) /\ closer = "done" /\ ~listed

(* What the counter is for: no thread wakes up in a freed workflow.         *)
SleeperKeepsWorkflow == Asleep # {} => memory = "held"

(* A waiting task completes only if it slept all its time, its file was     *)
(* found, or OPH_INPUT let it continue.                                     *)
CompletedForAReason ==
    \A w \in Waiter : outcome[w] = COMPLETED =>
        \/ ~Looks(w) /\ counter[w] = arg[w].timeout
        \/ reason[w] # {}
        \/ Crossed(w)

(* An abort sent with OPH_INPUT to a sleeping task is obeyed, even if its   *)
(* time ends in the same second.                                            *)
AbortObeyed == \A w \in Waiter : aborted[w] = "asleep" => outcome[w] # COMPLETED

(* The engine counts the end of a task once, although the scans of a        *)
(* waiting task and its thread notify the same task.                        *)
EndedOnce == \A t \in Task : ends[t] <= 1 \/ Crossed(t)

(* When a workflow completes no thread of its waiting tasks needs it: the   *)
(* pointers left dangling are those of workflows that failed.               *)
NobodyLeftWaiting ==
    (wstatus = COMPLETED /\ \A w \in Waiter : ~Crossed(w)) =>
        /\ ~wild
        /\ \A w \in Waiter : at[w] = "done"

(* A closed workflow is freed in the end, by its closer or by the last      *)
(* thread that wakes up.                                                    *)
Reclaimed == closer = "closing" ~> memory = "freed"

(* A sleeping task ends when its time has passed, when OPH_INPUT unlocks or *)
(* aborts it and when its workflow fails or is cancelled.                   *)
WaitEnds ==
    \A w \in Waiter :
        (at[w] = "asleep" /\ (\/ Finite(w) /\ ~Looks(w)
                              \/ status[w] # WAIT
                              \/ wstatus >= COMPLETED)) ~> (at[w] = "done" \/ wild)
=============================================================================
