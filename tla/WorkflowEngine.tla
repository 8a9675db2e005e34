--------------------------- MODULE WorkflowEngine ---------------------------
(***************************************************************************)
(* The execution engine of one workflow: oph_workflow_execute prepares and   *)
(* submits the tasks that are ready, oph_workflow_notify processes the       *)
(* notifications the jobs send, updates the graph of the tasks and calls     *)
(* oph_workflow_execute again.  Both take global_flag, so one locked section *)
(* is one step; between two sections of the same handler (and while the      *)
(* requests are passed on to the resource manager) every other handler may   *)
(* run.  The locked section of oph_workflow_execute is interrupted at a task *)
(* whose filter needs a scan of the file system: the call submits the scan   *)
(* and waits for the answer without the lock.                                *)
(*                                                                           *)
(* A job sends its notifications one at a time and waits for the answer, so  *)
(* "the job sends it" and "the engine processes it" are one step.            *)
(***************************************************************************)
EXTENDS Integers, FiniteSets, OphStatus

CONSTANTS
    Task,         \* the tasks of the workflow
    Deps,         \* [Task -> SUBSET Task]: the tasks a task depends on
    RetryNum,     \* [Task -> Int]: retry_num, i.e. on_error of the request:
                  \* -1 skip, 0 continue, 1 break, n > 1 repeat n - 1 times
    Light,        \* [Task -> SUBSET Nat]: the light tasks of a massive
                  \* operation; {} for an operation that is not massive
    Scanned,      \* the tasks with a filter (one each) that needs a scan
    AutoRetry,    \* oph_auto_retry: AUTO_RETRY of the configuration
    CancelAll,    \* oph_cancel_all_enabled
    CancelTypes,  \* the types of OPH_CANCEL requests that may come
    JobsMayDie,   \* the states ("queued", "running") in which a job may
                  \* vanish without a notification
    MayBeMissed,  \* the states in which the monitor may miss a job: "lost",
                  \* and "running" when its list of jobs is out of date
    PrepMayFail,  \* building a request may fail before the submission
    DbMayFail     \* OphidiaDB may be unreachable when a handler needs it

NoLight == -1     \* light_task_index of a task that is not massive
NoTask == "none"  \* the first call is made by the submission

Dependents(t) == {d \in Task : t \in Deps[d]}

(* The tasks reached from the dependents of t: what set_status visits.      *)
Below(t) ==
    {d \in Task : \A S \in SUBSET Task :
        (/\ Dependents(t) \subseteq S
         /\ \A x \in S : Dependents(x) \subseteq S) => d \in S}

(* A massive operation is expanded into light tasks, unless it has          *)
(* on_error=repeat: the check for massive operations then takes its first   *)
(* execution for a retry and returns before the expansion.                  *)
LightOf(t) == IF RetryNum[t] > 1 THEN {} ELSE Light[t]

LightTask == {p \in Task \X UNION {Light[t] : t \in Task} : p[2] \in LightOf(p[1])}

ASSUME TaskAssumption == Task # {} /\ IsFiniteSet(Task) /\ NoTask \notin Task
ASSUME DepsAssumption == Deps \in [Task -> SUBSET Task]
ASSUME AcyclicAssumption == \A t \in Task : t \notin Below(t)
ASSUME RetryAssumption == RetryNum \in [Task -> Int] /\ \A t \in Task : RetryNum[t] >= -1
ASSUME LightAssumption ==
    Light \in [Task -> SUBSET Nat] /\ \A t \in Task : IsFiniteSet(Light[t])
ASSUME ScanAssumption == Scanned \subseteq Task
ASSUME ConfigAssumption ==
    /\ AutoRetry \in Nat
    /\ {CancelAll, PrepMayFail, DbMayFail} \subseteq BOOLEAN
    /\ JobsMayDie \subseteq {"queued", "running"}
    /\ MayBeMissed \subseteq {"lost", "running"}
    /\ CancelTypes \subseteq {"kill", "abort", "stop"}

VARIABLES
    phase,     \* where the workflow struct is: see TypeOK
    wstatus,   \* wf->status
    cancel,    \* wf->cancel_type, "none" before a cancellation
    residual,  \* wf->residual_tasks_num
    st,        \* tasks[].status
    deps,      \* tasks[].deps[].task_index: the dependences not satisfied yet
    rdeps,     \* tasks[].residual_deps_num
    retry,     \* tasks[].residual_retry_num
    auto,      \* tasks[].residual_auto_retry_num
    marked,    \* tasks[].is_marked_for_auto_retry
    lst,       \* tasks[].light_tasks[].status
    rlight,    \* tasks[].residual_light_tasks_num
    execs,     \* calls of oph_workflow_execute still to take the lock: the
               \* task whose notification made the call, and its argument
    scans,     \* calls of oph_workflow_execute that wait for a scan
    queries,   \* the scans at the resource manager, and who asked for them
    answered,  \* the tasks with a response, i.e. an answer to a scan
    requests,  \* request_data prepared by oph_workflow_execute
    jobs       \* the jobs of the resource manager

taskvars == <<st, deps, rdeps, retry, auto, marked, lst, rlight>>
scanvars == <<scans, queries, answered>>
vars == <<phase, wstatus, cancel, residual, st, deps, rdeps, retry, auto,
          marked, lst, rlight, execs, scans, queries, answered, requests, jobs>>

(* status PENDING: to be submitted (serve_request = 1); any other status:   *)
(* it is only reported to oph_workflow_notify (serve_request = 0).          *)
Request == [task : Task, light : Nat \cup {NoLight}, status : Status]

(* missed: the monitor has found out and is about to notify it.             *)
Job == [task : Task, light : Nat \cup {NoLight},
        state : {"queued", "running", "lost", "missed"}]

(* A call that waits: the task to be scanned, the tasks of its argument     *)
(* that come later, and the ones whose requests it has already prepared and *)
(* passes on only when it is through.                                       *)
CallOfExecute == [by : Task \cup {NoTask}, tasks : SUBSET Task]
Scan == [by : Task \cup {NoTask}, task : Task, rest : SUBSET Task, held : SUBSET Task]
Query == [by : Task \cup {NoTask}, task : Task]

TypeOK ==
    /\ phase \in {"listed",   \* in the job list
                  "dropped",  \* ended: its handler is building the response
                  "freed",    \* response sent, memory released
                  "aborted",  \* cancelled and out of the job list
                  "killed"}   \* cancelled, its tasks aborted
    /\ wstatus \in Status
    /\ cancel \in CancelTypes \cup {"none"}
    /\ residual \in Int
    /\ st \in [Task -> Status]
    /\ deps \in [Task -> SUBSET Task]
    /\ rdeps \in [Task -> Int]
    /\ retry \in [Task -> Int]
    /\ auto \in [Task -> 0 .. AutoRetry + 1]
    /\ marked \in [Task -> BOOLEAN]
    /\ lst \in [LightTask -> Status]
    /\ rlight \in [Task -> Int]
    /\ execs \subseteq CallOfExecute
    /\ scans \subseteq Scan
    /\ queries \subseteq Query
    /\ answered \subseteq Task
    /\ requests \subseteq Request
    /\ jobs \subseteq Job

Init ==
    /\ phase = "listed"
    /\ wstatus = PENDING
    /\ cancel = "none"
    /\ residual = Cardinality(Task)
    /\ st = [t \in Task |-> UNKNOWN]
    /\ deps = Deps
    /\ rdeps = [t \in Task |-> Cardinality(Deps[t])]
    /\ retry = RetryNum
    /\ auto = [t \in Task |-> 0]
    /\ marked = [t \in Task |-> FALSE]
    /\ lst = [p \in LightTask |-> UNKNOWN]
    /\ rlight = [t \in Task |-> 0]
    /\ execs = {[by |-> NoTask, tasks |-> {t \in Task : Deps[t] = {}}]}
    /\ scans = {} /\ queries = {} /\ answered = {}
    /\ requests = {}
    /\ jobs = {}

-----------------------------------------------------------------------------
(* oph_workflow_execute: the locked part, which prepares the requests.      *)

(* The check in front of a massive operation and of its light tasks: this   *)
(* execution repeats a previous one.  (A massive operation never has        *)
(* retry_num > 1, see LightOf.)                                             *)
Retrying(t) == AutoRetry > 0 /\ auto[t] # 0 /\ RetryNum[t] = 1

(* A retry submits the light tasks that could not be started again and      *)
(* reports the status of the others; a first execution submits them all.    *)
ToBeServed(p) == Retrying(p[1]) => lst[p] \in {UNKNOWN, START_ERROR}

(* oph_workflow_set_status(..., ABORTED) on the dependents of the tasks in  *)
(* S: every task below ends as ABORTED and leaves the residual tasks.       *)
AllBelow(S) == UNION {Below(t) : t \in S}
AbortBelow(s, S) == [t \in Task |-> IF t \in AllBelow(S) THEN ABORTED ELSE s[t]]
(* Mutant of AbortedBelow: the aborted tasks are not counted.               *)
NotCounted(S) == 0
AbortedBelow(S) == Cardinality({t \in AllBelow(S) : st[t] < COMPLETED})

(* What becomes of a task that is executed:                                 *)
(*   served  its request, or those of its light tasks, are prepared;        *)
(*   void    no object matches its filter (or run=no): it has completed;    *)
(*   wrong   its filter or a variable cannot be read, or the scan is        *)
(*           refused: an error, of which the tasks below hear nothing;      *)
(*   bad     the marker id, the submission string or the job entry of       *)
(*           OphidiaDB cannot be built: an error, the tasks below are       *)
(*           aborted.                                                       *)
Fates == {"served", "void", "wrong", "bad"}

(* oph_check_for_massive_operation looks at the filter, unless it takes the *)
(* execution for a retry.                                                   *)
Parsed(t) == RetryNum[t] <= 1 /\ ~Retrying(t)
NeedsScan(t) == t \in Scanned /\ Parsed(t)

(* ready: the tasks that reach this point with the answer of a scan or      *)
(* without the need of one.                                                 *)
FatesOf(t, ready) ==
    {f \in Fates :
        /\ f \in {"wrong", "bad"} => PrepMayFail
        /\ f \in {"wrong", "void"} => Parsed(t)
        /\ f = "void" => Light[t] # {} \/ t \in Scanned
        /\ f \in {"served", "void"} => t \in ready}

(* fate: what becomes of the tasks of S; badLight: the light tasks that     *)
(* cannot be prepared.                                                      *)
Prepare(S, fate, badLight) ==
    LET Having(f) == {t \in S : fate[t] = f}
        good == Having("served")
        bad == Having("bad")
        light == {p \in LightTask : p[1] \in good}
        served == {p \in light : ToBeServed(p)} \ badLight
        newLst == [p \in LightTask |->
                      IF p \in served THEN PENDING
                      ELSE IF p \in badLight THEN ERROR ELSE lst[p]]
        reported == [task : Having("void"), light : {NoLight}, status : {COMPLETED}]
             \cup [task : bad \cup Having("wrong"), light : {NoLight}, status : {ERROR}]
    IN  /\ st' = AbortBelow([t \in Task |->
                   IF t \in good
                   THEN IF LightOf(t) # {} /\ Retrying(t) THEN RUNNING ELSE PENDING
                   ELSE IF t \in Having("void") THEN COMPLETED
                   ELSE IF t \in S THEN ERROR ELSE st[t]], bad)
        /\ residual' = residual - AbortedBelow(bad)
        /\ lst' = newLst
        /\ rlight' = [t \in Task |-> IF t \in good THEN Cardinality(LightOf(t))
                                     ELSE rlight[t]]
        /\ requests' = requests \cup reported
             \cup [task : {t \in good : LightOf(t) = {}}, light : {NoLight},
                   status : {PENDING}]
             \cup {[task |-> p[1], light |-> p[2], status |-> newLst[p]] : p \in light}

(* The loop over the tasks of the argument, from where the call s resumes   *)
(* with the task scanned, which becomes one of fates, over the tasks ready  *)
(* of s.rest, to its end or to the next task that needs a scan.  The order  *)
(* of the argument is left open.                                            *)
Loop(s, fates, ready, waiting, asked) ==
    LET scanned == {s.task} \ {NoTask}
    IN  \E now \in SUBSET ready :
          /\ \E fate \in [scanned \cup now -> Fates] :
             \E badLight \in SUBSET {p \in LightTask : p[1] \in scanned \cup now /\ ToBeServed(p)} :
               /\ \A t \in scanned : fate[t] \in fates
               /\ \A t \in now : fate[t] \in FatesOf(t, {x \in Task : ~NeedsScan(x)})
               /\ \A p \in badLight : PrepMayFail /\ fate[p[1]] = "served"
               /\ Prepare(scanned \cup now, fate, badLight)
          /\ \/ /\ now = ready
                /\ scans' = waiting
                /\ queries' = asked
             \/ \E t \in ready \ now : \E rest \in SUBSET (s.rest \ (now \cup {t})) :
                /\ NeedsScan(t)
                /\ ready \subseteq now \cup {t} \cup rest
                /\ scans' = waiting \cup {[by |-> s.by, task |-> t, rest |-> rest,
                                          held |-> s.held \cup scanned \cup now]}
                /\ queries' = asked \cup {[by |-> s.by, task |-> t]}

(* Mutants of Ready: the counter of dependences, or the status, is ignored. *)
ReadyWhateverDeps(c) ==
    {t \in c.tasks : wstatus < COMPLETED /\ st[t] = UNKNOWN}
ReadyWhateverStatus(c) ==
    {t \in c.tasks : wstatus < COMPLETED /\ rdeps[t] = 0}

(* The tasks of the call that are executed; the others are passed over.     *)
Ready(c) ==
    {t \in c.tasks : wstatus < COMPLETED /\ rdeps[t] = 0 /\ st[t] = UNKNOWN}

Execute(c) ==
    /\ c \in execs
    /\ phase # "freed"
    /\ execs' = execs \ {c}
    /\ Loop([by |-> c.by, task |-> NoTask, rest |-> c.tasks, held |-> {}], {}, Ready(c),
            scans, queries)
    /\ UNCHANGED <<phase, wstatus, cancel, deps, rdeps, retry, auto, marked, answered, jobs>>

(* Of the tasks still to come the call looks at their own state, and no     *)
(* more at the one of the workflow; of the task scanned at nothing.         *)
StillReady(s) == {t \in s.rest : rdeps[t] = 0 /\ st[t] = UNKNOWN}

(* The answer is there: the call has the lock again and goes on.            *)
ScanReturns(s) ==
    /\ s \in scans
    /\ phase # "freed"
    /\ s.task \in answered
    /\ Loop(s, FatesOf(s.task, Task), StillReady(s), scans \ {s}, queries)
    /\ UNCHANGED <<phase, wstatus, cancel, deps, rdeps, retry, auto, marked, answered,
                   execs, jobs>>

(* oph_serve_request refuses the scan.                                      *)
ScanRefused(s) ==
    LET query == [by |-> s.by, task |-> s.task]
    IN  /\ PrepMayFail
        /\ s \in scans
        /\ phase # "freed"
        /\ query \in queries
        /\ Loop(s, {"wrong"}, StillReady(s), scans \ {s}, queries \ {query})
        /\ UNCHANGED <<phase, wstatus, cancel, deps, rdeps, retry, auto, marked, answered,
                       execs, jobs>>

(* The call finds the memory of the workflow released: nothing is known of  *)
(* what it does, and the model follows it no further.                       *)
ExecuteDangling(c) ==
    /\ c \in execs
    /\ phase = "freed"
    /\ execs' = execs \ {c}
    /\ UNCHANGED <<phase, wstatus, cancel, residual, taskvars, scanvars, requests, jobs>>
ScanDangling(s) ==
    /\ s \in scans
    /\ phase = "freed"
    /\ scans' = scans \ {s}
    /\ UNCHANGED <<phase, wstatus, cancel, residual, taskvars, execs, queries, answered,
                   requests, jobs>>
-----------------------------------------------------------------------------
(* oph_workflow_notify: what the locked part does once a task has ended.    *)

(* Mutants of NoneActive: a pending task is missed; a task not started yet  *)
(* is taken for an active one.                                              *)
NoneRunning(s) == \A t \in Task : s[t] # RUNNING
NoneLeft(s) == \A t \in Task : Ended(s[t])

(* No task of the workflow is in the hands of the resource manager.         *)
NoneActive(s) == \A t \in Task : ~Active(s[t])

(* final: the workflow leaves the job list, and its handler goes on to      *)
(* build the response.                                                      *)
Leave(final) == phase' = IF final THEN "dropped" ELSE phase

(* The call of oph_workflow_execute the handler of t makes after the lock,  *)
(* unless it could not reach OphidiaDB.                                     *)
Call(t, S) ==
    \/ execs' = execs \cup {[by |-> t, tasks |-> S]}
    \/ DbMayFail /\ execs' = execs

(* Mutant of IsLast: off by one.                                            *)
IsLastButOne(left, s, w) == left <= 1 \/ (w = ERROR /\ NoneActive(s))

(* The task that ended was the last one of the workflow, or the last active *)
(* one of a workflow that has failed.                                       *)
IsLast(left, s, w) == left = 0 \/ (w = ERROR /\ NoneActive(s))

(* Mutant of Without: task_index of the dependence keeps its value.         *)
StillWith(t) == deps

(* The dependences once the ones on t are satisfied.                        *)
Without(t) == [d \in Task |-> deps[d] \ {t}]

(* The task has completed, or its failure is skipped: its dependents lose   *)
(* one dependence.                                                          *)
TaskCompletes(t, s, w) ==
    LET left == residual - 1
        newSt == [st EXCEPT ![t] = s]
        final == IsLast(left, newSt, w)
    IN  /\ st' = newSt
        /\ residual' = left
        /\ deps' = Without(t)
        /\ rdeps' = [d \in Task |-> IF t \in deps[d] THEN rdeps[d] - 1 ELSE rdeps[d]]
        /\ wstatus' = IF final /\ w < COMPLETED THEN COMPLETED ELSE w
        /\ Leave(final)
        /\ IF final THEN execs' = execs ELSE Call(t, Dependents(t))
        /\ retry' = retry

(* on_error=continue: the tasks below are aborted, the workflow goes on.    *)
TaskFailsAndWorkflowContinues(t, s, w) ==
    LET left == residual - 1 - AbortedBelow({t})
        newSt == AbortBelow([st EXCEPT ![t] = s], {t})
    IN  /\ st' = newSt
        /\ residual' = left
        /\ wstatus' = IF left = 0 /\ w < COMPLETED THEN COMPLETED ELSE w
        /\ Leave(IsLast(left, newSt, w))
        /\ UNCHANGED <<deps, rdeps, retry, execs>>

(* Mutants of TaskIsRetried: the task leaves the residual ones; the attempt *)
(* is not counted.                                                          *)
RetriedButEnded(t, attempts, w) ==
    /\ st' = [st EXCEPT ![t] = UNKNOWN]
    /\ retry' = [retry EXCEPT ![t] = attempts]
    /\ wstatus' = w
    /\ residual' = residual - 1
    /\ Call(t, {t})
    /\ UNCHANGED <<phase, deps, rdeps>>
RetriedForEver(t, attempts, w) ==
    /\ st' = [st EXCEPT ![t] = UNKNOWN]
    /\ wstatus' = w
    /\ Call(t, {t})
    /\ UNCHANGED <<phase, residual, deps, rdeps, retry>>

(* There is an attempt left: the task is submitted again.                   *)
TaskIsRetried(t, attempts, w) ==
    /\ st' = [st EXCEPT ![t] = UNKNOWN]
    /\ retry' = [retry EXCEPT ![t] = attempts]
    /\ wstatus' = w
    /\ Call(t, {t})
    /\ UNCHANGED <<phase, residual, deps, rdeps>>

(* No attempt is left: the workflow has failed.                             *)
TaskFailsAndWorkflowFails(t, s) ==
    LET newSt == [st EXCEPT ![t] = s]
    IN  /\ st' = newSt
        /\ residual' = residual - 1
        /\ retry' = [retry EXCEPT ![t] = @ - 1]
        /\ wstatus' = ERROR
        /\ Leave(NoneActive(newSt))
        /\ UNCHANGED <<deps, rdeps, execs>>

(* Mutant of OneAttemptLess: counted up.                                    *)
OneAttemptMore(a) == IF a = 0 THEN 1 + AutoRetry ELSE a + 1

(* The counter starts from the configuration at the first automatic retry.  *)
OneAttemptLess(a) == IF a = 0 THEN 1 + AutoRetry ELSE a - 1

(* a, m, w: the values of auto[t], marked[t] and wstatus so far.  An        *)
(* automatic retry takes one attempt of auto[t].                            *)
TaskEnds(t, s, a, m, w) ==
    LET skip == RetryNum[t] < 0
        retryable == AutoRetry > 0 /\ m /\ RetryNum[t] = 1 /\ a # 1
        setAuto(v) == auto' = [auto EXCEPT ![t] = v]
    IN  /\ marked' = [marked EXCEPT ![t] = m]
        /\ \/ /\ skip \/ NotifiedStatus(s) = COMPLETED
              /\ TaskCompletes(t, IF skip /\ COMPLETED < s /\ s < SKIPPED
                                  THEN SKIPPED ELSE s, w)
              /\ setAuto(a)
           \/ /\ NotifiedStatus(s) = ERROR
              /\ \/ /\ RetryNum[t] = 0
                    /\ TaskFailsAndWorkflowContinues(t, s, w)
                    /\ setAuto(a)
                 \/ /\ RetryNum[t] > 0
                    /\ retryable
                    /\ TaskIsRetried(t, retry[t], w)
                    /\ setAuto(OneAttemptLess(a))
                 \/ /\ RetryNum[t] > 0
                    /\ ~retryable
                    /\ setAuto(a)
                    /\ IF retry[t] > 1 THEN TaskIsRetried(t, retry[t] - 1, w)
                       ELSE TaskFailsAndWorkflowFails(t, s)

-----------------------------------------------------------------------------
(* oph_workflow_notify: the notification of an operation not massive.       *)

(* A start error, and every notification of a task that has had one, takes  *)
(* one of the automatic attempts.                                           *)
AutoAfter(t, s) ==
    IF ~marked[t] /\ s # START_ERROR THEN 0
    ELSE IF AutoRetry = 0 \/ RetryNum[t] # 1 THEN auto[t]
    ELSE IF auto[t] = 0 THEN 1 + AutoRetry
    ELSE IF auto[t] > 1 THEN auto[t] - 1 ELSE auto[t]

MarkedAfter(t, s) ==
    marked[t] \/ (s = START_ERROR /\ AutoRetry > 0 /\ RetryNum[t] = 1 /\ auto[t] = 0)

NotifySingle(t, s) ==
    /\ UNCHANGED <<lst, rlight>>
    /\ \/ /\ NotifiedStatus(s) = RUNNING
          /\ st' = [st EXCEPT ![t] = s]
          /\ auto' = [auto EXCEPT ![t] = AutoAfter(t, s)]
          /\ marked' = [marked EXCEPT ![t] = MarkedAfter(t, s)]
          /\ wstatus' = IF wstatus < RUNNING THEN RUNNING ELSE wstatus
          /\ UNCHANGED <<phase, residual, deps, rdeps, retry, execs>>
       \/ /\ NotifiedStatus(s) \in {COMPLETED, ERROR}
          /\ TaskEnds(t, s, AutoAfter(t, s), MarkedAfter(t, s), wstatus)

(* Mutant of LeftAfter: a light task that starts is counted as ended.       *)
LeftAfterAny(t, s) == rlight[t] - 1

(* The light tasks that have not ended once one of them is notified.        *)
LeftAfter(t, s) == IF NotifiedStatus(s) = RUNNING THEN rlight[t] ELSE rlight[t] - 1

(* The notification of a light task; the last one ends the massive task.    *)
NotifyLight(t, l, s) ==
    LET newLst == [lst EXCEPT ![<<t, l>>] = s]
        left == LeftAfter(t, s)
        failed == \E j \in LightOf(t) : newLst[<<t, j>>] > COMPLETED
        m == marked[t] \/ (s = START_ERROR /\ AutoRetry > 0 /\ RetryNum[t] = 1 /\ auto[t] # 1)
        nowRunning == NotifiedStatus(s) = RUNNING \/ s = START_ERROR
        running == [st EXCEPT ![t] = IF nowRunning /\ st[t] < RUNNING THEN RUNNING ELSE st[t]]
        wrunning == IF nowRunning /\ wstatus < RUNNING THEN RUNNING ELSE wstatus
    IN  /\ lst' = newLst
        /\ \/ /\ NotifiedStatus(s) = RUNNING \/ left > 0
              /\ rlight' = [rlight EXCEPT ![t] = left]
              /\ marked' = [marked EXCEPT ![t] = m]
              /\ st' = running
              /\ wstatus' = wrunning
              /\ UNCHANGED <<phase, residual, deps, rdeps, retry, auto, execs>>
           \/ /\ NotifiedStatus(s) # RUNNING
              /\ left = 0
              /\ rlight' = [rlight EXCEPT ![t] = 0]
              /\ TaskEnds(t, IF failed THEN ERROR ELSE COMPLETED, auto[t], m, wrunning)

(* An error of a task, or light task, that has not been submitted or that   *)
(* has already ended is neglected.                                          *)
Neglected(t, l, s) ==
    /\ NotifiedStatus(s) = ERROR
    /\ LET now == IF l = NoLight THEN st[t] ELSE lst[<<t, l>>]
       IN  now = UNKNOWN \/ Ended(now)

(* The whole locked part: a workflow out of the job list is not found, a    *)
(* cancelled one refuses the notifications of its tasks.                    *)
Notify(t, l, s) ==
    /\ cancel' = cancel
    /\ \/ /\ phase # "listed" \/ wstatus >= ABORTED \/ Neglected(t, l, s)
          /\ UNCHANGED <<phase, wstatus, residual, taskvars, execs>>
       \/ /\ phase = "listed" /\ wstatus < ABORTED /\ ~Neglected(t, l, s)
          /\ IF l = NoLight THEN NotifySingle(t, s) ELSE NotifyLight(t, l, s)

-----------------------------------------------------------------------------
(* oph_workflow_execute: the part after the lock, which passes the requests *)
(* on one by one.                                                           *)

Passable(r) == r \in requests /\ \A s \in scans : r.task \notin s.held

Submit(r) ==
    /\ Passable(r) /\ r.status = PENDING
    /\ requests' = requests \ {r}
    /\ jobs' = jobs \cup {[task |-> r.task, light |-> r.light, state |-> "queued"]}
    /\ UNCHANGED <<phase, wstatus, cancel, residual, taskvars, execs, scanvars>>

(* The request is not passed on: an operator the server executes itself or  *)
(* a simulated one ends at once, a request refused is a start error.        *)
Reply(r, s) ==
    /\ Passable(r) /\ r.status = PENDING
    /\ requests' = requests \ {r}
    /\ Notify(r.task, r.light, s)
    /\ UNCHANGED <<scanvars, jobs>>

Report(r) ==
    /\ Passable(r) /\ r.status # PENDING
    /\ requests' = requests \ {r}
    /\ Notify(r.task, r.light, r.status)
    /\ UNCHANGED <<scanvars, jobs>>

(* The report of a void task that has no job entry in OphidiaDB: without an *)
(* identifier it is taken for the answer of a scan.                         *)
ReportUnheard(r) ==
    /\ PrepMayFail
    /\ Passable(r) /\ r.light = NoLight /\ r.status = COMPLETED
    /\ requests' = requests \ {r}
    /\ answered' = IF phase = "listed" THEN answered \cup {r.task} ELSE answered
    /\ UNCHANGED <<phase, wstatus, cancel, residual, taskvars, execs, scans, queries, jobs>>

(* The scan ends or fails.  Its notification is the answer as long as the   *)
(* task has no identifier; later it counts as one of the task.              *)
Numbered(t) == st[t] # UNKNOWN \/ Retrying(t)
ScanEnds(q, s) ==
    /\ q \in queries
    /\ queries' = queries \ {q}
    /\ \/ /\ phase = "listed" /\ ~Numbered(q.task)
          /\ answered' = answered \cup {q.task}
          /\ UNCHANGED <<phase, wstatus, cancel, residual, taskvars, execs>>
       \/ /\ phase # "listed" \/ Numbered(q.task)
          /\ answered' = answered
          /\ Notify(q.task, NoLight, s)
    /\ UNCHANGED <<scans, requests, jobs>>

-----------------------------------------------------------------------------
(* The jobs: started, ended or lost at the resource manager.                *)

JobStarts(j) ==
    /\ j \in jobs /\ j.state = "queued"
    /\ jobs' = (jobs \ {j}) \cup {[j EXCEPT !.state = "running"]}
    /\ Notify(j.task, j.light, RUNNING)
    /\ UNCHANGED <<scanvars, requests>>

JobCannotStart(j) ==
    /\ j \in jobs /\ j.state = "queued"
    /\ jobs' = jobs \ {j}
    /\ Notify(j.task, j.light, START_ERROR)
    /\ UNCHANGED <<scanvars, requests>>

JobEnds(j, s) ==
    /\ j \in jobs /\ j.state = "running"
    /\ jobs' = jobs \ {j}
    /\ Notify(j.task, j.light, s)
    /\ UNCHANGED <<scanvars, requests>>

JobDies(j) ==
    /\ j \in jobs /\ j.state \in JobsMayDie
    /\ jobs' = (jobs \ {j}) \cup {[j EXCEPT !.state = "lost"]}
    /\ UNCHANGED <<phase, wstatus, cancel, residual, taskvars, execs, scanvars, requests>>

(* The monitor looks at the tasks, and light tasks, of the listed workflows *)
(* that have started and not ended.                                         *)
Monitored(j) ==
    /\ phase = "listed"
    /\ PENDING < st[j.task] /\ st[j.task] < COMPLETED
    /\ j.light # NoLight => /\ PENDING < lst[<<j.task, j.light>>]
                            /\ lst[<<j.task, j.light>>] < COMPLETED

(* The monitor misses the job, for the second time, in its list of the jobs *)
(* of the resource manager ...                                              *)
MonitorMisses(j) ==
    /\ j \in jobs /\ j.state \in MayBeMissed /\ Monitored(j)
    /\ jobs' = (jobs \ {x \in {j} : x.state = "lost"}) \cup {[j EXCEPT !.state = "missed"]}
    /\ UNCHANGED <<phase, wstatus, cancel, residual, taskvars, execs, scanvars, requests>>

(* ... and notifies it once it has released the lock.                       *)
MonitorAborts(j) ==
    /\ j \in jobs /\ j.state = "missed"
    /\ jobs' = jobs \ {j}
    /\ Notify(j.task, j.light, ABORTED)
    /\ UNCHANGED <<scanvars, requests>>

-----------------------------------------------------------------------------
(* The end of a workflow.                                                   *)

Close ==
    /\ phase = "dropped"
    /\ phase' = "freed"
    /\ UNCHANGED <<wstatus, cancel, residual, taskvars, execs, scanvars, requests, jobs>>

(* OPH_CANCEL: the status first, in a section of its own ...                *)
Cancel(type) ==
    /\ phase = "listed" /\ wstatus < ABORTED
    /\ wstatus' = ABORTED
    /\ cancel' = type
    /\ UNCHANGED <<phase, residual, taskvars, execs, scanvars, requests, jobs>>

(* ... then the notification it sends to the engine itself ...              *)
CancelDrops ==
    /\ phase = "listed" /\ wstatus >= ABORTED
    /\ phase' = "aborted"
    /\ UNCHANGED <<wstatus, cancel, residual, taskvars, execs, scanvars, requests, jobs>>

(* Mutant of Aborts: a task that has ended is aborted, too.                 *)
AbortsAll(s) == IF CancelAll \/ cancel # "abort" THEN s # UNKNOWN ELSE s = PENDING

(* Whether the cancellation aborts a task, or light task, with status s.    *)
Aborts(s) == IF CancelAll \/ cancel # "abort" THEN Active(s) ELSE s = PENDING

(* ... whose handler aborts the tasks once it has released the lock.        *)
CancelKills ==
    LET hitLight(p) == Active(st[p[1]]) /\ Aborts(lst[p])
        killed(j) == \/ CancelAll
                     \/ j.light = NoLight /\ Aborts(st[j.task])
                     \/ j.light # NoLight /\ hitLight(<<j.task, j.light>>)
    IN  /\ phase = "aborted"
        /\ phase' = "killed"
        /\ IF cancel = "stop" THEN UNCHANGED <<st, lst, jobs>>
           ELSE /\ st' = [t \in Task |-> IF Aborts(st[t]) THEN ABORTED ELSE st[t]]
                /\ lst' = [p \in LightTask |-> IF hitLight(p) THEN ABORTED ELSE lst[p]]
                /\ jobs' = {j \in jobs : j.state = "missed" \/ ~killed(j)}
        /\ UNCHANGED <<wstatus, cancel, residual, deps, rdeps, retry, auto, marked,
                       rlight, execs, scanvars, requests>>

(* Nothing is left to do for this workflow; a call may wait for ever for a  *)
(* scan whose answer came too late.                                         *)
Quiet ==
    /\ phase \in {"freed", "killed"}
    /\ execs = {} /\ queries = {} /\ \A s \in scans : phase # "freed" /\ s.task \notin answered
    /\ \A r \in requests : ~Passable(r)
    /\ \A j \in jobs : j.state = "lost"
    /\ UNCHANGED vars

Replies == {COMPLETED, ERROR, START_ERROR}
Outcomes == {COMPLETED, EXECUTE_ERROR}
Answers == {COMPLETED, ERROR}

Next ==
    \/ \E c \in execs : Execute(c) \/ ExecuteDangling(c)
    \/ \E s \in scans : ScanReturns(s) \/ ScanRefused(s) \/ ScanDangling(s)
    \/ \E q \in queries : \E s \in Answers : ScanEnds(q, s)
    \/ \E r \in requests : \/ Submit(r) \/ Report(r) \/ ReportUnheard(r)
                           \/ \E s \in Replies : Reply(r, s)
    \/ \E j \in jobs : \/ JobStarts(j) \/ JobCannotStart(j)
                       \/ \E s \in Outcomes : JobEnds(j, s)
                       \/ JobDies(j) \/ MonitorMisses(j) \/ MonitorAborts(j)
    \/ Close
    \/ \E type \in CancelTypes : Cancel(type)
    \/ CancelDrops \/ CancelKills
    \/ Quiet

Spec == Init /\ [][Next]_vars

(***************************************************************************)
(* Fairness.  A handler is a thread that holds no lock for ever, so it goes *)
(* on; the resource manager starts or refuses a queued job, a started one   *)
(* ends or is missed by the monitor, and a scan ends with a notification.   *)
(* Nobody has to cancel a workflow.                                         *)
(***************************************************************************)
Fairness ==
    /\ \A t \in Task \cup {NoTask} :
         /\ WF_vars(\E c \in execs : c.by = t /\ (Execute(c) \/ ExecuteDangling(c)))
         /\ WF_vars(\E s \in scans : s.by = t /\ (ScanReturns(s) \/ ScanDangling(s)))
         /\ WF_vars(\E q \in queries : q.by = t /\ \E s \in Answers : ScanEnds(q, s))
    /\ \A t \in Task : \A l \in Light[t] \cup {NoLight} :
         /\ WF_vars(\E r \in requests : /\ r.task = t /\ r.light = l
                      /\ (Submit(r) \/ Report(r) \/ \E s \in Replies : Reply(r, s)))
         /\ WF_vars(\E j \in jobs : /\ j.task = t /\ j.light = l
                      /\ \/ JobStarts(j) \/ JobCannotStart(j)
                         \/ MonitorMisses(j) \/ MonitorAborts(j)
                         \/ \E s \in Outcomes : JobEnds(j, s))
    /\ WF_vars(Close)
    /\ WF_vars(CancelDrops)
    /\ WF_vars(CancelKills)

FairSpec == Spec /\ Fairness

-----------------------------------------------------------------------------
(* Properties.                                                              *)

(* Where the engine keeps its promises: the monitor misses only jobs that   *)
(* are lost, and a task that needs a scan depends on one task at most, so   *)
(* that no two calls of oph_workflow_execute wait for the same scan.        *)
Orderly ==
    /\ MayBeMissed \subseteq {"lost"}
    /\ \A t \in Scanned : \A x, y \in Deps[t] : x = y

(* The dependence on t counts as satisfied: it completed, or it has         *)
(* on_error=skip and failed.                                                *)
Passed(t) == st[t] \in {COMPLETED, SKIPPED} \/ (RetryNum[t] < 0 /\ st[t] = ABORTED)

(* No task runs, has run or is being submitted before all the tasks it      *)
(* depends on have passed: oph_workflow_execute reads only the counter      *)
(* residual_deps_num, which the notifications of other tasks decrement.     *)
DependencesHold ==
    /\ \A t \in Task : st[t] \notin {UNKNOWN, ABORTED} => \A d \in Deps[t] : Passed(d)
    /\ \A x \in requests \cup jobs : \A d \in Deps[x.task] : Passed(d)

(* The engine counts what it hears of the tasks: the workflow is listed and *)
(* not cancelled.                                                           *)
Listening == phase = "listed" /\ wstatus < ABORTED

(* The void tasks, completed by oph_workflow_execute itself, whose report   *)
(* is still on its way to oph_workflow_notify.                              *)
Unreported == {t \in Task : [task |-> t, light |-> NoLight, status |-> COMPLETED] \in requests}

(* residual_deps_num counts the dependences whose task_index is not -1 yet, *)
(* and these are the ones on tasks that have not passed, or whose           *)
(* completion is still to be reported.  The second half needs the reports   *)
(* to be heard: not those of a cancelled workflow, nor those of a task      *)
(* without a job entry.                                                     *)
ResidualDepsExact ==
    \A t \in Task :
        /\ rdeps[t] = Cardinality(deps[t])
        /\ \A d \in Deps[t] \ deps[t] : Passed(d)
        /\ Listening /\ ~PrepMayFail =>
               \A d \in deps[t] : st[d] \notin {COMPLETED, SKIPPED} \/ d \in Unreported

Unended == {t \in Task : ~Ended(st[t])}

(* residual_tasks_num of a workflow that is listed and not cancelled is the *)
(* number of the tasks that have not ended or whose completion is still to  *)
(* be reported; so the error returns of oph_workflow_notify and             *)
(* oph_workflow_set_status for a counter already at zero are never taken.   *)
ResidualTasksExact == Listening => residual = Cardinality(Unended \cup Unreported)

(* A request that could not be prepared, or a report not heard, keeps the   *)
(* counter too high, never too low: no workflow is declared completed while *)
(* a task has not ended.                                                    *)
ResidualTasksEnough == Listening => residual >= Cardinality(Unended \cup Unreported)

(* A workflow is COMPLETED only when every task has passed, has failed with *)
(* on_error=continue, or is aborted because of such a failure above it.     *)
CompletedMeansDone ==
    wstatus = COMPLETED =>
        \A t \in Task :
            \/ Passed(t)
            \/ Ended(st[t]) /\ RetryNum[t] = 0
            \/ /\ st[t] = ABORTED
               /\ \E f \in Task : t \in Below(f) /\ RetryNum[f] = 0 /\ st[f] > COMPLETED

(* When a workflow leaves the job list by itself, no request of it waits    *)
(* for its submission and no job of it is left at the resource manager; and *)
(* from then on nothing of it is submitted, except by a call that was       *)
(* waiting for a scan: it does not look at the workflow again.              *)
NothingLeftBehind ==
    [][/\ phase = "listed" /\ phase' = "dropped" =>
            jobs' = {} /\ \A r \in requests' : r.status # PENDING
       /\ phase \in {"dropped", "freed"} /\ requests' \ requests # {} =>
            \E s \in scans : s \notin scans']_vars

(* The submissions in the hands of a handler or of the resource manager.    *)
Submissions == requests \cup {j \in jobs : j.state # "missed"}

(* A task, or a light task, is never submitted while an earlier submission  *)
(* of it is still in the hands of a handler or of the resource manager.     *)
(* It rests on Orderly: two calls that wait for a scan of the same task     *)
(* both submit it, and an abortion based on an old list is followed by a    *)
(* retry beside the job.                                                    *)
OneAttemptAtATime ==
    \A x, y \in Submissions : x.task = y.task /\ x.light = y.light => x = y

(* residual_light_tasks_num of an active massive task that is in its first  *)
(* attempt, of a workflow listed and not cancelled, counts the light tasks  *)
(* that will still be notified: the one that ends the task is the last one. *)
(* It rests on Orderly: the second of two calls that wait for the scan of   *)
(* one task would set the counter again.                                    *)
LightTasksExact ==
    \A t \in Task : Active(st[t]) /\ Listening /\ ~Retrying(t) =>
        rlight[t] = Cardinality({x \in requests \cup jobs : x.task = t /\ x.light # NoLight})

(* oph_workflow_set_status never meets a task that was started below one    *)
(* that has not passed, so its error return is never taken.                 *)
BelowNotStarted ==
    \A t \in Task : ~Ended(st[t]) => \A d \in Below(t) : st[d] \in {UNKNOWN, ABORTED}

(* The status of a task that has ended never changes again, whichever       *)
(* notification, abortion or cancellation comes later.  It rests on         *)
(* Orderly: the COMPLETED of a job that is alive, sent after the monitor    *)
(* aborted it, is not neglected.                                            *)
EndedStaysEnded == [][\A t \in Task : Ended(st[t]) => st'[t] = st[t]]_vars

(* Every workflow is over at last.                                          *)
EventuallyOver == <>(phase \in {"freed", "killed"})

(* A task set back for another attempt is submitted again, unless the       *)
(* workflow is over before.                                                 *)
RetryIsMade ==
    \A t \in Task : (st[t] = UNKNOWN /\ [by |-> t, tasks |-> {t}] \in execs)
                        ~> (st[t] # UNKNOWN \/ phase # "listed")

-----------------------------------------------------------------------------
(* The engine implements the abstract graph of tasks.                       *)

Stage(s) == CASE s = UNKNOWN -> "todo"
              [] Active(s) -> "active"
              [] s \in {COMPLETED, SKIPPED} -> "ok"
              [] OTHER -> "ko"

(* The tasks one call of oph_workflow_execute may have in its argument.     *)
Siblings(t, x) == t = x \/ Deps[t] \cap Deps[x] # {} \/ Deps[t] \cup Deps[x] = {}

Graph == INSTANCE TaskGraph WITH
    Late <- {t \in Task : \E x \in Scanned : Siblings(t, x)},
    Tolerated <- {t \in Task : RetryNum[t] < 0},
    stage <- [t \in Task |-> Stage(st[t])],
    outcome <- IF wstatus >= ABORTED THEN "cancelled"
               ELSE IF phase = "listed" THEN "open" ELSE "over"

(* Every step of the engine is a step of TaskGraph, or leaves it alone.     *)
ImplementsTaskGraph == Graph!GSpec
=============================================================================
