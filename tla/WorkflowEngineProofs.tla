------------------------ MODULE WorkflowEngineProofs ------------------------
(***************************************************************************)
(* The order of the graph, the counters of dependences and the uniqueness   *)
(* of submissions, for every workflow and every configuration.              *)
(***************************************************************************)
EXTENDS WorkflowEngine, FiniteSetTheorems, TLAPS

(* The engine still listens to the notifications of the tasks.              *)
Live == phase = "listed" /\ wstatus < ABORTED

(* Nobody has cancelled the workflow.                                       *)
Open == wstatus < ABORTED

(* The dependences: a task that was started has none left, and one that was *)
(* taken off belongs to a task that has passed.                             *)
DepsInv ==
    \A t \in Task :
        /\ deps[t] \subseteq Deps[t]
        /\ rdeps[t] = Cardinality(deps[t])
        /\ st[t] \notin {UNKNOWN, ABORTED} => deps[t] = {}
        /\ \A d \in Deps[t] : d \notin deps[t] => Passed(d) /\ deps[d] = {}

(* A dependence on a task that has completed is still there only as long as *)
(* oph_workflow_notify has not heard of it.                                 *)
HeardInv ==
    Live /\ ~PrepMayFail =>
        \A t \in Task : \A d \in deps[t] :
            st[d] \notin {COMPLETED, SKIPPED} \/ d \in Unreported

(* The requests and the jobs: what is in execution belongs to an active     *)
(* task, and a single request is a plain task, the report of a failure or   *)
(* the one of a void task, for which the dependents still wait.             *)
RequestInv ==
    \A r \in requests :
        /\ deps[r.task] = {}
        /\ st[r.task] # UNKNOWN
        /\ r.light # NoLight => r.light \in LightOf(r.task)
        /\ r.light = NoLight /\ r.status = PENDING => LightOf(r.task) = {}
        /\ r.light = NoLight /\ r.status # PENDING =>
              \/ r.status = ERROR /\ Ended(st[r.task])
              \/ /\ r.status = COMPLETED /\ st[r.task] = COMPLETED
                 /\ \A t \in Dependents(r.task) : r.task \in deps[t]
        /\ Open /\ (r.light # NoLight \/ r.status = PENDING) => Active(st[r.task])

JobInv ==
    \A j \in jobs :
        /\ deps[j.task] = {}
        /\ st[j.task] # UNKNOWN
        /\ j.light # NoLight => j.light \in LightOf(j.task)
        /\ j.light = NoLight => LightOf(j.task) = {}
        /\ Open => Active(st[j.task])

SameKey(x, y) == x.task = y.task /\ x.light = y.light

Unique ==
    /\ \A x, y \in requests : SameKey(x, y) => x = y
    /\ \A x, y \in jobs : SameKey(x, y) => x = y
    /\ \A x \in requests, y \in jobs : ~SameKey(x, y)

(* The light tasks of t in execution; the counter may be larger.            *)
OutLights(t) == {l \in LightOf(t) : \/ \E r \in requests : r.task = t /\ r.light = l
                                    \/ \E j \in jobs : j.task = t /\ j.light = l}

LightInv == Live => \A t \in Task : Cardinality(OutLights(t)) <= rlight[t]

(* Out of the list, the status tells whether somebody cancelled it.         *)
OverInv ==
    /\ phase \in {"dropped", "freed"} => COMPLETED <= wstatus /\ Open
    /\ phase \in {"aborted", "killed"} => ~Open

(* The calls of oph_workflow_execute: a task with a filter to be scanned is *)
(* in the hands of one of them at most.                                     *)
Wanted(s) == {s.task} \cup s.rest
CallInv ==
    /\ \A c \in execs : \A t \in c.tasks \cap Scanned :
          deps[t] = {} /\ st[t] \in {UNKNOWN, ABORTED}
    /\ \A s \in scans : /\ s.task \in Scanned /\ st[s.task] = UNKNOWN
                         /\ NeedsScan(s.task) /\ s.task \notin s.rest
                         /\ \A t \in Wanted(s) \cap Scanned :
                               deps[t] = {} /\ st[t] \in {UNKNOWN, ABORTED}
    /\ \A c, d \in execs : c # d => c.tasks \cap d.tasks \cap Scanned = {}
    /\ \A s, z \in scans : s # z => Wanted(s) \cap Wanted(z) \cap Scanned = {}
    /\ \A c \in execs : \A s \in scans : c.tasks \cap Wanted(s) \cap Scanned = {}

(* A scan in execution has a call that waits for it, and its answer is not  *)
(* there yet; a task is scanned once.                                       *)
QueryInv ==
    phase # "freed" =>
        /\ \A q \in queries : /\ q.task \notin answered
                             /\ \E s \in scans : s.by = q.by /\ s.task = q.task
        /\ \A t \in answered : st[t] = UNKNOWN =>
              ~Parsed(t) \/ \E s \in scans : s.task = t

BudgetInv == \A t \in Task : retry[t] <= RetryNum[t]

EInv == /\ Orderly /\ TypeOK /\ DepsInv /\ HeardInv /\ RequestInv /\ JobInv /\ Unique
        /\ LightInv /\ OverInv /\ CallInv /\ QueryInv /\ BudgetInv

-----------------------------------------------------------------------------
(* Facts on statuses.                                                       *)

(* What a plain task is notified of.                                        *)
Sent == {RUNNING, COMPLETED, ERROR, START_ERROR, EXECUTE_ERROR, ABORTED}

(* The three cases to which a notified status is folded.                    *)
LEMMA NotifiedFacts ==
    /\ \A s \in Status : NotifiedStatus(s) \in Status
    /\ NotifiedStatus(RUNNING) = RUNNING /\ NotifiedStatus(COMPLETED) = COMPLETED
    /\ \A s \in Sent \ {RUNNING, COMPLETED} : NotifiedStatus(s) = ERROR
BY DEF NotifiedStatus, Status, Sent, UNKNOWN, WAIT, RUNNING, START, UNSET_ENV, COMPLETED, ERROR,
       PENDING_ERROR, START_ERROR, EXECUTE_ERROR, ABORTED, UNSELECTED, EXPIRED

USE DEF UNKNOWN, PENDING, RUNNING, COMPLETED, ERROR, START_ERROR, EXECUTE_ERROR, SKIPPED,
        ABORTED, EXPIRED, Status, Active, Ended

-----------------------------------------------------------------------------
(* Facts on the graph.                                                      *)

(* The tasks below a task are tasks.                                        *)
LEMMA BelowType == \A t \in Task : Below(t) \subseteq Task
BY Zenon DEF Below

(* Below a task that has not passed, every task still waits for something.  *)
LEMMA BelowWaits ==
    ASSUME TypeOK, DepsInv, NEW t \in Task, ~Passed(t) \/ deps[t] # {}
    PROVE  \A d \in Below(t) : deps[d] # {}
<1> DEFINE S == {d \in Task : deps[d] # {}}
<1>1. Dependents(t) \subseteq S
      BY Zenon DEF Dependents, DepsInv
<1>2. \A x \in S : Dependents(x) \subseteq S
      BY Zenon DEF Dependents, DepsInv
<1> QED
    BY <1>1, <1>2, Zenon DEF Below

(* A massive operation has finitely many light tasks.                       *)
LEMMA LightFinite ==
    \A t \in Task : IsFiniteSet(LightOf(t)) /\ LightOf(t) \subseteq Nat /\ Cardinality(LightOf(t)) \in Nat
BY LightAssumption, FS_EmptySet, FS_CardinalityType, Zenon DEF LightOf

(* What set_status subtracts from residual_tasks_num is a number.           *)
LEMMA AbortedType == \A S \in SUBSET Task : AbortedBelow(S) \in Nat
<1> SUFFICES ASSUME NEW S \in SUBSET Task PROVE AbortedBelow(S) \in Nat
    BY Zenon
<1>1. {t \in AllBelow(S) : st[t] < COMPLETED} \subseteq Task
      BY BelowType, Zenon DEF AllBelow
<1> HIDE DEF Ended, Active, Status
<1> QED
    BY <1>1, TaskAssumption, FS_Subset, FS_CardinalityType, Zenon DEF AbortedBelow

-----------------------------------------------------------------------------
(* The workflow as oph_workflow_init leaves it satisfies the invariant.     *)
LEMMA InitE == Orderly /\ Init => EInv
<1> SUFFICES ASSUME Orderly, Init PROVE EInv
    BY Zenon
<1>1. TypeOK
      BY TaskAssumption, DepsAssumption, RetryAssumption, ConfigAssumption, FS_CardinalityType, FS_Subset
      DEF Init, TypeOK, CallOfExecute
<1>2. DepsInv /\ HeardInv
      BY DepsAssumption DEF Init, DepsInv, HeardInv
<1>3. RequestInv /\ JobInv /\ Unique /\ OverInv
      BY Zenon DEF Init, RequestInv, JobInv, Unique, OverInv
<1>5. CallInv /\ QueryInv
      BY DEF Init, CallInv, QueryInv
<1>6. BudgetInv
      BY RetryAssumption DEF Init, BudgetInv
<1>4. LightInv
  <2>1. \A t \in Task : OutLights(t) = {}
        BY Zenon DEF Init, OutLights
  <2>2. \A t \in Task : rlight[t] = 0 /\ Cardinality(OutLights(t)) = 0
        BY <2>1, FS_EmptySet, Zenon DEF Init
  <2> QED
      BY <2>2 DEF LightInv
<1> QED
    BY <1>1, <1>2, <1>3, <1>4, <1>5, <1>6, Zenon DEF EInv

-----------------------------------------------------------------------------
(* The effect of a notification on the graph: the task it is about may      *)
(* change, tasks below it may be aborted, and either no dependence changes  *)
(* or the ones on the task, which has passed, are satisfied.                *)
GraphStep(t) ==
    \/ /\ deps' = deps /\ rdeps' = rdeps
       /\ st'[t] \notin {COMPLETED, SKIPPED}
       /\ \A x \in Task \ {t} : st'[x] = st[x] \/ (x \in Below(t) /\ st'[x] = ABORTED)
    \/ /\ deps' = Without(t)
       /\ rdeps' = [d \in Task |-> IF t \in deps[d] THEN rdeps[d] - 1 ELSE rdeps[d]]
       /\ st'[t] \in {COMPLETED, SKIPPED} \/ (RetryNum[t] < 0 /\ st'[t] = ABORTED)
       /\ \A x \in Task \ {t} : st'[x] = st[x]

(* What is left of its attempts, and the call of oph_workflow_execute it    *)
(* makes: for its dependents once it has passed, or for itself.             *)
Calls(t) ==
    \/ execs' = execs
    \/ execs' = execs \cup {[by |-> t, tasks |-> Dependents(t)]} /\ deps' = Without(t)
    \/ execs' = execs \cup {[by |-> t, tasks |-> {t}]} /\ st'[t] = UNKNOWN
OwnStep(t) ==
    /\ \A x \in Task \ {t} : auto'[x] = auto[x]
    /\ BudgetInv' /\ Calls(t)
    /\ st'[t] = UNKNOWN => ~Parsed(t)'

(* The task goes on: only its own status changes, and the workflow runs.    *)
Going(t) ==
    /\ Active(st'[t]) /\ \A x \in Task \ {t} : st'[x] = st[x]
    /\ UNCHANGED <<phase, residual, deps>>
    /\ wstatus' = wstatus \/ (wstatus < RUNNING /\ wstatus' = RUNNING)

(* The task has ended: it counts as completed, the workflow goes on without *)
(* the tasks below, it is tried again, or the workflow fails.               *)
Failures == {ERROR, START_ERROR, EXECUTE_ERROR, ABORTED}
EndCase(t, w) ==
    \/ \E v \in {COMPLETED, SKIPPED, ABORTED} :
           (v = ABORTED => RetryNum[t] < 0) /\ TaskCompletes(t, v, w)
    \/ RetryNum[t] = 0 /\ \E s \in Failures : TaskFailsAndWorkflowContinues(t, s, w)
    \/ ~Parsed(t)' /\ \E n \in Int : n <= retry[t] /\ TaskIsRetried(t, n, w)
    \/ RetryNum[t] > 0 /\ \E s \in Failures : TaskFailsAndWorkflowFails(t, s)
Ending(t) ==
    \E w \in Status : (w = wstatus \/ (wstatus < RUNNING /\ w = RUNNING)) /\ EndCase(t, w)

(* The types a notification has to keep.                                    *)
NotifyTypes ==
    /\ phase' \in {"listed", "dropped"}
    /\ wstatus' \in Status
    /\ residual' \in Int
    /\ st' \in [Task -> Status]
    /\ deps' \in [Task -> SUBSET Task]
    /\ rdeps' \in [Task -> Int]
    /\ retry' \in [Task -> Int]
    /\ auto' \in [Task -> 0 .. AutoRetry + 1]
    /\ marked' \in [Task -> BOOLEAN]
    /\ execs' \subseteq CallOfExecute

(* A task of a workflow in execution ends, with parameters of their types.  *)
EndsWell(t, s, a, m, w) ==
    /\ TypeOK /\ BudgetInv /\ phase = "listed" /\ t \in Task /\ s \in Sent \ {RUNNING}
    /\ a \in 0 .. AutoRetry + 1 /\ m \in BOOLEAN /\ w \in Status /\ w < ABORTED
    /\ TaskEnds(t, s, a, m, w)

(* What the end of a task does to the graph: one of the GraphSteps.         *)
LEMMA EndsEffect ==
    ASSUME NEW t, NEW s, NEW a, NEW m, NEW w, EndsWell(t, s, a, m, w)
    PROVE  /\ NotifyTypes /\ GraphStep(t) /\ OverInv' /\ EndCase(t, w) /\ OwnStep(t)
           /\ s = COMPLETED => TaskCompletes(t, COMPLETED, w)
<1> SUFFICES ASSUME TypeOK, BudgetInv, phase = "listed", t \in Task, s \in Sent \ {RUNNING},
                    a \in 0 .. AutoRetry + 1, m \in BOOLEAN, w \in Status, w < ABORTED,
                    TaskEnds(t, s, a, m, w)
             PROVE  /\ NotifyTypes /\ GraphStep(t) /\ OverInv' /\ EndCase(t, w) /\ OwnStep(t)
                    /\ s = COMPLETED => TaskCompletes(t, COMPLETED, w)
    BY Zenon DEF EndsWell
<1>k. AutoRetry \in Nat
      BY ConfigAssumption, Zenon
<1> USE <1>k, RetryAssumption
<1>s. /\ s \in Status /\ s # RUNNING /\ s # UNKNOWN
      /\ NotifiedStatus(s) = COMPLETED => s = COMPLETED
      /\ NotifiedStatus(s) = ERROR => s \in Failures
      BY NotifiedFacts DEF Sent, Failures
<1>a. AbortedBelow({t}) \in Nat /\ Below(t) \subseteq Task
      BY AbortedType, BelowType, Zenon
<1>c. \A S \in SUBSET Task : \A x \in Task : [by |-> x, tasks |-> S] \in CallOfExecute
      BY Zenon DEF CallOfExecute
<1>d. Dependents(t) \subseteq Task
      BY Zenon DEF Dependents
<1>t. /\ st \in [Task -> Status] /\ deps \in [Task -> SUBSET Task] /\ rdeps \in [Task -> Int]
      /\ retry \in [Task -> Int] /\ auto \in [Task -> 0 .. AutoRetry + 1]
      /\ marked \in [Task -> BOOLEAN] /\ execs \subseteq CallOfExecute /\ residual \in Int
      BY Zenon DEF TypeOK
<1>m. marked' \in [Task -> BOOLEAN]
      BY <1>t, Zenon DEF TaskEnds
<1>v. auto' \in [Task -> 0 .. AutoRetry + 1]
      BY <1>t DEF TaskEnds, OneAttemptLess
<1>1. ASSUME NEW v \in {COMPLETED, SKIPPED, ABORTED}, v = ABORTED => RetryNum[t] < 0,
             TaskCompletes(t, v, w)
      PROVE  NotifyTypes /\ GraphStep(t) /\ OverInv' /\ BudgetInv' /\ Calls(t)
  <2>1. /\ st' = [st EXCEPT ![t] = v] /\ residual' = residual - 1 /\ deps' = Without(t)
        /\ rdeps' = [d \in Task |-> IF t \in deps[d] THEN rdeps[d] - 1 ELSE rdeps[d]]
        /\ retry' = retry
        /\ phase' \in {"listed", "dropped"}
        /\ phase' = "dropped" => wstatus' >= COMPLETED /\ wstatus' < ABORTED
        /\ wstatus' \in Status
        BY <1>1 DEF TaskCompletes, Leave
  <2>2. execs' \subseteq CallOfExecute /\ Calls(t)
    <3>1. execs' = execs \/ execs' = execs \cup {[by |-> t, tasks |-> Dependents(t)]}
          BY <1>1, ZenonT(40) DEF TaskCompletes, Call
    <3>2. [by |-> t, tasks |-> Dependents(t)] \in CallOfExecute
          BY <1>c, <1>d, Zenon
    <3> QED
        BY <1>t, <2>1, <3>1, <3>2, Zenon DEF Calls
  <2>3. NotifyTypes
        BY <1>t, <1>m, <1>v, <2>1, <2>2 DEF NotifyTypes, Without
  <2>4. GraphStep(t)
        BY <1>1, <1>t, <2>1, Zenon DEF GraphStep
  <2>5. BudgetInv'
        BY <2>1, Zenon DEF BudgetInv
  <2> QED
      BY <2>1, <2>2, <2>3, <2>4, <2>5, Zenon DEF OverInv, Open
<1>2. ASSUME NEW e \in Failures, TaskFailsAndWorkflowContinues(t, e, w)
      PROVE  NotifyTypes /\ GraphStep(t) /\ OverInv' /\ BudgetInv' /\ Calls(t)
  <2>0. st' = AbortBelow([st EXCEPT ![t] = e], {t})
        BY <1>2, Zenon DEF TaskFailsAndWorkflowContinues
  <2>1. /\ residual' = residual - 1 - AbortedBelow({t})
        /\ deps' = deps /\ rdeps' = rdeps /\ retry' = retry /\ execs' = execs
        /\ phase' \in {"listed", "dropped"}
        /\ phase' = "dropped" => wstatus' >= COMPLETED /\ wstatus' < ABORTED
        /\ wstatus' \in Status
        BY <1>2 DEF TaskFailsAndWorkflowContinues, Leave, IsLast
  <2>2. /\ st' \in [Task -> Status]
        /\ \A x \in Task : st'[x] = IF x \in Below(t) THEN ABORTED ELSE IF x = t THEN e ELSE st[x]
        BY <1>t, <2>0 DEF Failures, AbortBelow, AllBelow
  <2>3. NotifyTypes
        BY <1>t, <1>m, <1>v, <1>a, <2>1, <2>2 DEF NotifyTypes
  <2>4. GraphStep(t)
        BY <1>2, <2>1, <2>2 DEF GraphStep, Failures
  <2>5. BudgetInv' /\ Calls(t)
        BY <2>1, Zenon DEF BudgetInv, Calls
  <2> QED
      BY <2>1, <2>3, <2>4, <2>5, Zenon DEF OverInv, Open
<1>3. ASSUME NEW n \in Int, n <= retry[t], TaskIsRetried(t, n, w)
      PROVE  NotifyTypes /\ GraphStep(t) /\ OverInv' /\ BudgetInv' /\ Calls(t)
  <2>1. /\ st' = [st EXCEPT ![t] = UNKNOWN] /\ retry' = [retry EXCEPT ![t] = n]
        /\ wstatus' = w /\ phase' = phase /\ residual' = residual /\ deps' = deps /\ rdeps' = rdeps
        BY <1>3, Zenon DEF TaskIsRetried
  <2>2. execs' \subseteq CallOfExecute /\ Calls(t)
    <3>1. execs' = execs \/ execs' = execs \cup {[by |-> t, tasks |-> {t}]}
          BY <1>3, ZenonT(40) DEF TaskIsRetried, Call
    <3>2. [by |-> t, tasks |-> {t}] \in CallOfExecute
          BY <1>c, Zenon
    <3>3. st'[t] = UNKNOWN
          BY <1>t, <2>1, Zenon
    <3> QED
        BY <1>t, <3>1, <3>2, <3>3, Zenon DEF Calls
  <2>3. NotifyTypes
        BY <1>t, <1>m, <1>v, <2>1, <2>2 DEF NotifyTypes
  <2>4. GraphStep(t)
        BY <1>t, <2>1 DEF GraphStep
  <2>5. BudgetInv'
        BY <1>3, <1>t, <2>1 DEF BudgetInv
  <2> QED
      BY <2>1, <2>2, <2>3, <2>4, <2>5, Zenon DEF OverInv, Open
<1>4. ASSUME NEW e \in Failures, TaskFailsAndWorkflowFails(t, e)
      PROVE  NotifyTypes /\ GraphStep(t) /\ OverInv' /\ BudgetInv' /\ Calls(t)
  <2>1. /\ st' = [st EXCEPT ![t] = e] /\ retry' = [retry EXCEPT ![t] = retry[t] - 1]
        /\ wstatus' = ERROR /\ phase' \in {"listed", "dropped"} /\ residual' = residual - 1
        /\ deps' = deps /\ rdeps' = rdeps /\ execs' = execs
        BY <1>4, Zenon DEF TaskFailsAndWorkflowFails, Leave
  <2>3. NotifyTypes
        BY <1>t, <1>m, <1>v, <2>1 DEF NotifyTypes, Failures
  <2>4. GraphStep(t)
        BY <1>t, <1>4, <2>1 DEF GraphStep, Failures
  <2>5. BudgetInv'
        BY <1>t, <2>1 DEF BudgetInv
  <2>6. OverInv' /\ Calls(t)
        BY <2>1 DEF OverInv, Open, Calls
  <2> QED
      BY <2>3, <2>4, <2>5, <2>6, Zenon
<1>5. EndCase(t, w)
  <2>1. CASE RetryNum[t] < 0 \/ NotifiedStatus(s) = COMPLETED
    <3>1. TaskCompletes(t, IF RetryNum[t] < 0 /\ COMPLETED < s /\ s < SKIPPED THEN SKIPPED ELSE s, w)
          BY <2>1, NotifiedFacts, <1>s DEF TaskEnds
    <3> DEFINE v == IF RetryNum[t] < 0 /\ COMPLETED < s /\ s < SKIPPED THEN SKIPPED ELSE s
    <3>2. v \in {COMPLETED, SKIPPED, ABORTED} /\ (v = ABORTED => RetryNum[t] < 0)
          BY <2>1, <1>s DEF Sent
    <3> HIDE DEF v
    <3>3. TaskCompletes(t, v, w)
          BY <3>1, Zenon DEF v
    <3> QED
        BY <3>2, <3>3, ZenonT(60) DEF EndCase
  <2>2. CASE ~(RetryNum[t] < 0 \/ NotifiedStatus(s) = COMPLETED)
    <3>1. \/ s \in Failures /\ RetryNum[t] = 0 /\ TaskFailsAndWorkflowContinues(t, s, w)
          \/ /\ AutoRetry > 0 /\ RetryNum[t] = 1 /\ a # 1 /\ auto' = [auto EXCEPT ![t] = OneAttemptLess(a)]
             /\ TaskIsRetried(t, retry[t], w)
          \/ retry[t] > 1 /\ TaskIsRetried(t, retry[t] - 1, w)
          \/ s \in Failures /\ RetryNum[t] > 0 /\ TaskFailsAndWorkflowFails(t, s)
          BY <2>2, <1>s, <1>t DEF TaskEnds
    <3>2. CASE /\ AutoRetry > 0 /\ RetryNum[t] = 1 /\ a # 1
               /\ auto' = [auto EXCEPT ![t] = OneAttemptLess(a)] /\ TaskIsRetried(t, retry[t], w)
      <4>1. ~Parsed(t)'
            BY <1>t, <3>2 DEF Parsed, Retrying, OneAttemptLess
      <4>2. retry[t] \in Int /\ retry[t] <= retry[t]
            BY <1>t
      <4> QED
          BY <3>2, <4>1, <4>2, Zenon DEF EndCase
    <3>3. CASE retry[t] > 1 /\ TaskIsRetried(t, retry[t] - 1, w)
      <4>1. ~Parsed(t)' /\ retry[t] - 1 \in Int /\ retry[t] - 1 <= retry[t]
            BY <1>t, <3>3 DEF Parsed, BudgetInv
      <4> QED
          BY <3>3, <4>1, Zenon DEF EndCase
    <3> QED
        BY <3>1, <3>2, <3>3, Zenon DEF EndCase
  <2> QED
      BY <2>1, <2>2, Zenon
<1>6. NotifyTypes /\ GraphStep(t) /\ OverInv' /\ BudgetInv' /\ Calls(t)
      BY <1>1, <1>2, <1>3, <1>4, <1>5, Zenon DEF EndCase
<1>7. st'[t] = UNKNOWN => ~Parsed(t)'
  <2>1. ASSUME NEW v \in {COMPLETED, SKIPPED, ABORTED}, TaskCompletes(t, v, w) PROVE st'[t] # UNKNOWN
        BY <1>t, <2>1 DEF TaskCompletes
  <2>2. ASSUME NEW e \in Failures, TaskFailsAndWorkflowContinues(t, e, w) PROVE st'[t] # UNKNOWN
        BY <1>t, <2>2 DEF TaskFailsAndWorkflowContinues, AbortBelow, Failures
  <2>3. ASSUME NEW e \in Failures, TaskFailsAndWorkflowFails(t, e) PROVE st'[t] # UNKNOWN
        BY <1>t, <2>3 DEF TaskFailsAndWorkflowFails, Failures
  <2> QED
      BY <1>5, <2>1, <2>2, <2>3, Zenon DEF EndCase
<1>8. \A x \in Task \ {t} : auto'[x] = auto[x]
      BY <1>t, Zenon DEF TaskEnds
<1>9. s = COMPLETED => TaskCompletes(t, COMPLETED, w)
      BY NotifiedFacts DEF TaskEnds
<1> QED
    BY <1>5, <1>6, <1>7, <1>8, <1>9, Zenon DEF OwnStep

(* The effect of a notification that is processed.  An item of a massive    *)
(* task that is not the last one leaves the task active.                    *)
Effect(t, l, s) ==
    /\ Live /\ NotifyTypes /\ GraphStep(t) /\ OverInv' /\ OwnStep(t)
    /\ Going(t) \/ Ending(t)
    /\ l = NoLight /\ s = COMPLETED => TaskCompletes(t, COMPLETED, wstatus)
    /\ lst' \in [LightTask -> Status]
    /\ rlight' \in [Task -> Int]
    /\ \A x \in Task \ {t} : rlight'[x] = rlight[x]
    /\ l = NoLight => rlight' = rlight /\ (s = RUNNING => Active(st'[t]))
    /\ l # NoLight => \/ /\ Active(st'[t]) /\ rlight'[t] >= rlight[t] - 1
                         /\ s = RUNNING => rlight'[t] = rlight[t]
                      \/ rlight[t] = 1 /\ rlight'[t] = 0 /\ s # RUNNING

Quietly == UNCHANGED <<phase, wstatus, residual, taskvars, execs>>

(* What a notification of a task that is not massive does.                  *)
LEMMA SingleEffect ==
    ASSUME TypeOK, BudgetInv, Live, NEW t \in Task, NEW s \in Sent, NotifySingle(t, s)
    PROVE  Effect(t, NoLight, s)
<1> USE ConfigAssumption
<1>t. /\ st \in [Task -> Status] /\ deps \in [Task -> SUBSET Task] /\ rdeps \in [Task -> Int]
      /\ retry \in [Task -> Int] /\ auto \in [Task -> 0 .. AutoRetry + 1] /\ wstatus \in Status
      /\ marked \in [Task -> BOOLEAN] /\ execs \subseteq CallOfExecute /\ residual \in Int
      /\ lst \in [LightTask -> Status] /\ rlight \in [Task -> Int] /\ phase = "listed"
      BY Zenon DEF TypeOK, Live
<1>a. AutoAfter(t, s) \in 0 .. AutoRetry + 1 /\ MarkedAfter(t, s) \in BOOLEAN
      BY <1>t DEF AutoAfter, MarkedAfter
<1>l. lst' = lst /\ rlight' = rlight
      BY Zenon DEF NotifySingle
<1>1. CASE s = RUNNING
  <2>1. /\ st' = [st EXCEPT ![t] = RUNNING]
        /\ auto' = [auto EXCEPT ![t] = AutoAfter(t, s)]
        /\ marked' = [marked EXCEPT ![t] = MarkedAfter(t, s)]
        /\ wstatus' = IF wstatus < RUNNING THEN RUNNING ELSE wstatus
        /\ UNCHANGED <<phase, residual, deps, rdeps, retry, execs>>
        BY <1>1, NotifiedFacts DEF NotifySingle
  <2>2. NotifyTypes
        BY <1>t, <1>a, <2>1 DEF NotifyTypes
  <2>3. GraphStep(t) /\ Active(st'[t])
        BY <1>t, <2>1 DEF GraphStep
  <2>4. OverInv'
        BY <1>t, <2>1, Zenon DEF OverInv
  <2>5. Going(t)
        BY <1>t, <2>1 DEF Going
  <2>6. OwnStep(t)
    <3>1. st'[t] # UNKNOWN
          BY <2>3
    <3> QED
        BY <1>t, <2>1, <3>1, Zenon DEF OwnStep, BudgetInv, Calls
  <2>7. s # COMPLETED
        BY <1>1
  <2> QED
      BY <1>t, <1>l, <2>2, <2>3, <2>4, <2>5, <2>6, <2>7, ZenonT(60) DEF Effect, NoLight
<1>2. CASE s # RUNNING
  <2>1. NotifiedStatus(s) # RUNNING
        BY <1>2, NotifiedFacts DEF Sent
  <2>2. TaskEnds(t, s, AutoAfter(t, s), MarkedAfter(t, s), wstatus)
        BY <2>1, Zenon DEF NotifySingle
  <2>3. /\ NotifyTypes /\ GraphStep(t) /\ OverInv' /\ EndCase(t, wstatus) /\ OwnStep(t)
        /\ s = COMPLETED => TaskCompletes(t, COMPLETED, wstatus)
    <3>1. s \in Sent \ {RUNNING} /\ wstatus < ABORTED
          BY <1>2, Zenon DEF Live
    <3>2. EndsWell(t, s, AutoAfter(t, s), MarkedAfter(t, s), wstatus)
          BY <1>t, <1>a, <2>2, <3>1, Zenon DEF EndsWell
    <3> QED
        BY <3>2, EndsEffect, Zenon
  <2>4. Ending(t)
        BY <1>t, <2>3, Zenon DEF Ending
  <2> QED
      BY <1>t, <1>l, <1>2, <2>3, <2>4, ZenonT(60) DEF Effect, NoLight
<1> QED
    BY <1>1, <1>2, Zenon

(* What a notification of a light task does.                                *)
LEMMA LightEffect ==
    ASSUME TypeOK, BudgetInv, Live, NEW t \in Task, NEW l \in Nat, NEW s \in Status, Active(st[t]),
           NotifyLight(t, l, s)
    PROVE  Effect(t, l, s)
<1> USE ConfigAssumption
<1>t. /\ st \in [Task -> Status] /\ deps \in [Task -> SUBSET Task] /\ rdeps \in [Task -> Int]
      /\ retry \in [Task -> Int] /\ auto \in [Task -> 0 .. AutoRetry + 1] /\ wstatus \in Status
      /\ marked \in [Task -> BOOLEAN] /\ execs \subseteq CallOfExecute /\ residual \in Int
      /\ lst \in [LightTask -> Status] /\ rlight \in [Task -> Int] /\ phase = "listed"
      BY Zenon DEF TypeOK, Live
<1> DEFINE m == marked[t] \/ (s = START_ERROR /\ AutoRetry > 0 /\ RetryNum[t] = 1 /\ auto[t] # 1)
           nowRunning == NotifiedStatus(s) = RUNNING \/ s = START_ERROR
           wrunning == IF nowRunning /\ wstatus < RUNNING THEN RUNNING ELSE wstatus
           left == LeftAfter(t, s)
           failed == \E j \in LightOf(t) : [lst EXCEPT ![<<t, l>>] = s][<<t, j>>] > COMPLETED
           e == IF failed THEN ERROR ELSE COMPLETED
<1>w. /\ wrunning \in Status /\ wrunning < ABORTED
      /\ wrunning = wstatus \/ (wstatus < RUNNING /\ wrunning = RUNNING)
      /\ m \in BOOLEAN /\ auto[t] \in 0 .. AutoRetry + 1
      BY <1>t DEF Live
<1>e. e \in Sent \ {RUNNING}
      BY DEF Sent
<1>n. /\ left \in Int /\ left >= rlight[t] - 1
      /\ NotifiedStatus(s) = RUNNING => left = rlight[t]
      /\ NotifiedStatus(s) # RUNNING => left = rlight[t] - 1
      BY <1>t DEF LeftAfter
<1>l. lst' \in [LightTask -> Status]
      BY <1>t, ZenonT(40) DEF NotifyLight
<1>nl. l # NoLight
      BY DEF NoLight
<1>1. CASE NotifiedStatus(s) = RUNNING \/ left > 0
  <2>1. /\ rlight' = [rlight EXCEPT ![t] = left]
        /\ marked' = [marked EXCEPT ![t] = m]
        /\ st' = [st EXCEPT ![t] = IF nowRunning /\ st[t] < RUNNING THEN RUNNING ELSE st[t]]
        /\ wstatus' = wrunning
        /\ UNCHANGED <<phase, residual, deps, rdeps, retry, auto, execs>>
        BY <1>1 DEF NotifyLight
  <2> HIDE DEF m, wrunning, left
  <2>2. NotifyTypes
        BY <1>t, <1>w, <2>1 DEF NotifyTypes
  <2>3. GraphStep(t) /\ Active(st'[t])
        BY <1>t, <2>1 DEF GraphStep
  <2>4. OverInv'
        BY <1>t, <2>1, Zenon DEF OverInv
  <2>5. /\ rlight' \in [Task -> Int] /\ \A x \in Task \ {t} : rlight'[x] = rlight[x]
        /\ rlight'[t] >= rlight[t] - 1
        /\ s = RUNNING => rlight'[t] = rlight[t]
        BY <1>t, <1>n, <2>1, NotifiedFacts, Zenon
  <2>6. Going(t)
        BY <1>t, <1>w, <2>1, <2>3, Zenon DEF Going
  <2>7. OwnStep(t)
    <3>1. st'[t] # UNKNOWN
          BY <2>3
    <3> QED
        BY <1>t, <2>1, <3>1, Zenon DEF OwnStep, BudgetInv, Calls
  <2> QED
      BY <1>nl, <1>l, <2>2, <2>3, <2>4, <2>5, <2>6, <2>7, ZenonT(60) DEF Effect
<1>2. CASE ~(NotifiedStatus(s) = RUNNING \/ left > 0)
  <2>1. left = 0 /\ rlight' = [rlight EXCEPT ![t] = 0] /\ TaskEnds(t, e, auto[t], m, wrunning)
        BY <1>2, Zenon DEF NotifyLight
  <2> HIDE DEF m, wrunning, left, e
  <2>2. NotifyTypes /\ GraphStep(t) /\ OverInv' /\ EndCase(t, wrunning) /\ OwnStep(t)
    <3>1. EndsWell(t, e, auto[t], m, wrunning)
          BY <1>t, <1>w, <1>e, <2>1, ZenonT(60) DEF EndsWell
    <3> QED
        BY <3>1, EndsEffect, Zenon
  <2>3. /\ rlight' \in [Task -> Int] /\ \A x \in Task \ {t} : rlight'[x] = rlight[x]
        /\ rlight[t] = 1 /\ rlight'[t] = 0 /\ s # RUNNING
        BY <1>t, <1>n, <1>2, <2>1, NotifiedFacts
  <2>4. Ending(t)
        BY <1>w, <2>2, Zenon DEF Ending
  <2> QED
      BY <1>nl, <1>l, <2>2, <2>3, <2>4, Zenon DEF Effect
<1> QED
    BY <1>1, <1>2, Zenon

(* What the locked part of oph_workflow_notify does, whatever comes.        *)
LEMMA NotifyEffect ==
    ASSUME TypeOK, BudgetInv, NEW t \in Task, NEW l \in Nat \cup {NoLight}, NEW s \in Status,
           l = NoLight => s \in Sent \/ (Live => Neglected(t, l, s)),
           Live /\ l # NoLight => Active(st[t]),
           Notify(t, l, s)
    PROVE  /\ cancel' = cancel /\ (Quietly \/ Effect(t, l, s))
           /\ Live /\ ~Neglected(t, l, s) => Effect(t, l, s)
<1>1. CASE phase # "listed" \/ wstatus >= ABORTED \/ Neglected(t, l, s)
  <2>1. Quietly /\ cancel' = cancel
        BY <1>1, NotifiedFacts DEF Notify, Quietly, TypeOK
  <2>2. ~Live \/ Neglected(t, l, s)
        BY <1>1 DEF Live, TypeOK
  <2> QED
      BY <2>1, <2>2, Zenon
<1>2. CASE phase = "listed" /\ wstatus < ABORTED /\ ~Neglected(t, l, s)
  <2>1. Live /\ cancel' = cancel
        BY <1>2, Zenon DEF Live, Notify
  <2>2. CASE l = NoLight
        BY <1>2, <2>1, <2>2, SingleEffect DEF Notify, TypeOK
  <2>3. CASE l # NoLight
        BY <1>2, <2>1, <2>3, LightEffect DEF Notify, TypeOK
  <2> QED
      BY <2>2, <2>3, Zenon
<1> QED
    BY <1>1, <1>2 DEF TypeOK

-----------------------------------------------------------------------------
(* A notification keeps the invariant.                                      *)

(* A task in execution does not satisfy a dependence yet.                   *)
LEMMA ActiveNotPassed ==
    ASSUME NEW t \in Task, Active(st[t])
    PROVE  ~Passed(t)
BY DEF Passed

(* The dependences left of a task are finitely many.                        *)
LEMMA DepsFinite ==
    ASSUME TypeOK, NEW t \in Task
    PROVE  IsFiniteSet(deps[t]) /\ Cardinality(deps[t]) \in Nat
BY TaskAssumption, FS_Subset, FS_CardinalityType, Zenon DEF TypeOK

(* The task a notification is about: active, or void and to be reported, so *)
(* that its dependents wait for it.                                         *)
Heard(t) ==
    /\ Active(st[t]) \/ (st[t] = COMPLETED /\ st'[t] = COMPLETED)
    /\ deps[t] = {} /\ \A d \in Dependents(t) : t \in deps[d]

(* A GraphStep keeps what is known of the dependences.                      *)
LEMMA GraphStepKeeps ==
    ASSUME TypeOK, DepsInv, NEW t \in Task, Heard(t), NotifyTypes, GraphStep(t)
    PROVE  /\ DepsInv'
           /\ \A x \in Task : deps[x] = {} => deps'[x] = {}
           /\ \A x \in Task : deps'[x] \subseteq deps[x] /\ deps[x] \ {t} \subseteq deps'[x]
           /\ \A x \in Task \ {t} : deps[x] = {} => st'[x] = st[x]
           /\ \A x \in Task \ {t} : st'[x] = st[x] \/ st'[x] = ABORTED
<1>t. /\ st \in [Task -> Status] /\ deps \in [Task -> SUBSET Task] /\ rdeps \in [Task -> Int]
      BY Zenon DEF TypeOK
<1>b. Active(st[t]) => \A d \in Below(t) : deps[d] # {}
      BY BelowWaits, ActiveNotPassed, Zenon
<1>1. \A x \in Task \ {t} : deps[x] = {} => st'[x] = st[x]
      BY <1>b, Zenon DEF GraphStep, Heard
<1>9. \A x \in Task \ {t} : st'[x] = st[x] \/ st'[x] = ABORTED
      BY Zenon DEF GraphStep
<1>2. \A x \in Task : deps'[x] \subseteq deps[x] /\ deps[x] \ {t} \subseteq deps'[x]
      BY <1>t DEF GraphStep, Without
<1>3. \A x \in Task : rdeps'[x] = Cardinality(deps'[x])
  <2> SUFFICES ASSUME NEW x \in Task PROVE rdeps'[x] = Cardinality(deps'[x])
      BY Zenon
  <2>0. IsFiniteSet(deps[x]) /\ Cardinality(deps[x]) \in Nat /\ rdeps[x] = Cardinality(deps[x])
        BY DepsFinite, Zenon DEF DepsInv
  <2>1. CASE deps' = deps /\ rdeps' = rdeps
        BY <2>0, <2>1, Zenon
  <2>2. CASE /\ deps' = Without(t)
             /\ rdeps' = [d \in Task |-> IF t \in deps[d] THEN rdeps[d] - 1 ELSE rdeps[d]]
    <3>1. deps'[x] = deps[x] \ {t} /\ rdeps'[x] = IF t \in deps[x] THEN rdeps[x] - 1 ELSE rdeps[x]
          BY <2>2, Zenon DEF Without
    <3>2. CASE t \in deps[x]
      <4>1. /\ IsFiniteSet(deps[x] \ {t})
            /\ Cardinality(deps[x] \ {t}) = Cardinality(deps[x]) - 1
            BY <2>0, <3>2, FS_RemoveElement, Zenon
      <4> QED
          BY <2>0, <3>1, <3>2, <4>1, Zenon
    <3>3. CASE t \notin deps[x]
      <4>1. deps[x] \ {t} = deps[x]
            BY <3>3, Zenon
      <4> QED
          BY <2>0, <3>1, <3>3, <4>1, Zenon
    <3> QED
        BY <3>2, <3>3, Zenon
  <2> QED
      BY <2>1, <2>2, Zenon DEF GraphStep
<1>4. \A x \in Task : \A d \in Deps[x] : d \notin deps'[x] => Passed(d)' /\ deps'[d] = {}
  <2> SUFFICES ASSUME NEW x \in Task, NEW d \in Deps[x], d \notin deps'[x]
               PROVE  Passed(d)' /\ deps'[d] = {}
      BY Zenon
  <2>0. d \in Task
        BY DepsAssumption, Zenon
  <2>1. CASE d = t
    <3>1. t \in deps[x] /\ deps'[t] = {}
          BY <2>0, <2>1, <1>2, Zenon DEF Heard, Dependents
    <3>2. deps' = Without(t)
          BY <2>1, <3>1, Zenon DEF GraphStep
    <3> QED
        BY <2>1, <3>1, <3>2 DEF GraphStep, Passed, Without
  <2>2. CASE d # t
    <3>1. d \notin deps[x]
          BY <2>2, <1>2, Zenon
    <3>2. Passed(d) /\ deps[d] = {}
          BY <3>1, Zenon DEF DepsInv
    <3> QED
        BY <2>0, <2>2, <3>2, <1>1, <1>2, ZenonT(60) DEF Passed
  <2> QED
      BY <2>1, <2>2, Zenon
<1>6. \A x \in Task : deps'[x] \subseteq Deps[x]
      BY <1>2, Zenon DEF DepsInv
<1>7. \A x \in Task : st'[x] \notin {UNKNOWN, ABORTED} => deps'[x] = {}
      BY <1>1, <1>2, <1>9, ZenonT(60) DEF Heard, DepsInv
<1> QED
    BY <1>1, <1>2, <1>3, <1>4, <1>6, <1>7, <1>9, ZenonT(60) DEF DepsInv

(* The item with key t, l is notified; it goes, or it stays and the         *)
(* notification is RUNNING; the other items stay as they are.               *)
ItemStep(t, l, s) ==
    /\ requests' \subseteq requests
    /\ \A r \in requests : r \in requests' \/ (r.task = t /\ r.light = l)
    /\ jobs' \subseteq Job
    /\ \A x \in jobs' : \E y \in jobs : SameKey(x, y)
    /\ UNCHANGED scanvars
    /\ s = RUNNING \/ (\A x \in requests' \cup jobs' : ~(x.task = t /\ x.light = l))

HasItem(t, l, s) ==
    \/ \E r \in requests : r.task = t /\ r.light = l /\ (l # NoLight \/ r.status = PENDING)
    \/ \E j \in jobs : j.task = t /\ j.light = l
    \/ /\ l = NoLight /\ s = COMPLETED
       /\ \E r \in requests : r.task = t /\ r.light = NoLight /\ r.status = COMPLETED

(* The light tasks in execution are finitely many.                          *)
LEMMA OutFinite ==
    ASSUME NEW t \in Task
    PROVE  IsFiniteSet(OutLights(t)) /\ Cardinality(OutLights(t)) \in Nat
BY LightFinite, FS_Subset, FS_CardinalityType, Zenon DEF OutLights

(* When nothing new is passed on, no more light tasks are in execution.     *)
LEMMA OutShrinks ==
    ASSUME requests' \subseteq requests, \A x \in jobs' : \E y \in jobs : SameKey(x, y),
           NEW t \in Task
    PROVE  /\ OutLights(t)' \subseteq OutLights(t)
           /\ Cardinality(OutLights(t)') <= Cardinality(OutLights(t))
           /\ Cardinality(OutLights(t)') \in Nat
<1>1. OutLights(t)' \subseteq OutLights(t)
      BY ZenonT(60) DEF OutLights, SameKey
<1> QED
    BY <1>1, OutFinite, FS_Subset, FS_CardinalityType, Zenon

(* A step that leaves the graph and the calls alone keeps the invariant.    *)
LEMMA QuietStep ==
    ASSUME EInv, Quietly, cancel' = cancel, requests' \subseteq requests, jobs' \subseteq Job,
           \A x \in jobs' : \E y \in jobs : SameKey(x, y), Unique',
           scans' = scans, queries' \subseteq queries, answered' \subseteq Task, QueryInv', HeardInv'
    PROVE  EInv'
<1>0. /\ Orderly /\ TypeOK /\ DepsInv /\ RequestInv /\ JobInv /\ LightInv /\ OverInv
      /\ CallInv /\ BudgetInv
      BY Zenon DEF EInv
<1>1. TypeOK'
      BY <1>0, Zenon DEF TypeOK, Quietly, taskvars
<1>2. DepsInv' /\ OverInv'
      BY <1>0, ZenonT(60) DEF DepsInv, OverInv, Open, Passed, Quietly, taskvars
<1>3. RequestInv'
      BY <1>0, ZenonT(60) DEF RequestInv, Open, Quietly, taskvars
<1>4. JobInv'
      BY <1>0, ZenonT(60) DEF JobInv, SameKey, Open, Quietly, taskvars
<1>5. LightInv'
  <2> SUFFICES ASSUME Live', NEW t \in Task PROVE Cardinality(OutLights(t)') <= rlight'[t]
      BY Zenon DEF LightInv
  <2>1. Live /\ rlight' = rlight
        BY Zenon DEF Quietly, taskvars, Live
  <2>2. Cardinality(OutLights(t)) <= rlight[t] /\ rlight[t] \in Int
        BY <1>0, <2>1, Zenon DEF LightInv, TypeOK
  <2> QED
      BY <2>1, <2>2, OutShrinks, OutFinite
<1>6. CallInv' /\ BudgetInv'
      BY <1>0, ZenonT(60) DEF CallInv, Wanted, NeedsScan, Parsed, Retrying, BudgetInv, Quietly, taskvars
<1> QED
    BY <1>0, <1>1, <1>2, <1>3, <1>4, <1>5, <1>6, Zenon DEF EInv, Orderly

(* ... in particular one that only takes a request or a job away, unless it *)
(* is the report of a void task the engine should hear of.                  *)
LEMMA ItemGoes ==
    ASSUME EInv, Quietly, cancel' = cancel, NEW t \in Task, NEW l \in Nat \cup {NoLight},
           NEW s \in Status, ItemStep(t, l, s), Unique',
           Live /\ l = NoLight =>
               \A r \in requests : r.task = t /\ r.light = NoLight => r.status # COMPLETED
    PROVE  EInv'
<1>1. /\ requests' \subseteq requests /\ jobs' \subseteq Job
      /\ \A x \in jobs' : \E y \in jobs : SameKey(x, y)
      /\ scans' = scans /\ queries' = queries /\ answered' = answered
      /\ \A r \in requests : r \in requests' \/ (r.task = t /\ r.light = l)
      BY Zenon DEF ItemStep, scanvars
<1>2. QueryInv'
      BY <1>1, ZenonT(60) DEF EInv, QueryInv, Parsed, Retrying, Quietly, taskvars
<1>3. HeardInv'
  <2> SUFFICES ASSUME Live', ~PrepMayFail, NEW x \in Task, NEW d \in deps'[x],
                      st'[d] \in {COMPLETED, SKIPPED}
               PROVE  d \in Unreported'
      BY Zenon DEF HeardInv
  <2>1. Live /\ deps' = deps /\ st' = st
        BY Zenon DEF Live, Quietly, taskvars
  <2>2. d \in Unreported
        BY <2>1, Zenon DEF EInv, HeardInv
  <2> DEFINE r == [task |-> d, light |-> NoLight, status |-> COMPLETED]
  <2>3. d \in Task /\ r \in requests
        BY <2>2, Zenon DEF Unreported
  <2>4. r.task = d /\ r.light = NoLight /\ r.status = COMPLETED
        BY Zenon
  <2>5. r \in requests'
        BY <1>1, <2>1, <2>3, <2>4, Zenon
  <2> QED
      BY <2>3, <2>5, Zenon DEF Unreported
<1>4. answered' \subseteq Task
      BY <1>1, Zenon DEF EInv, TypeOK
<1> QED
    BY <1>1, <1>2, <1>3, <1>4, QuietStep, Zenon

(* What is notified, and not neglected, is about a task that is Heard.      *)
LEMMA ItemHeard ==
    ASSUME EInv, Open, NEW t \in Task, NEW l \in Nat \cup {NoLight}, NEW s \in Status,
           HasItem(t, l, s), Effect(t, l, s)
    PROVE  /\ Heard(t)
           /\ Active(st[t]) => (l = NoLight => LightOf(t) = {}) /\ (l # NoLight => l \in LightOf(t))
           /\ ~Active(st[t]) => l = NoLight /\ s = COMPLETED
<1>0. /\ TypeOK /\ DepsInv /\ RequestInv /\ JobInv
      BY Zenon DEF EInv
<1>1. CASE Active(st[t]) /\ deps[t] = {} /\ (l = NoLight => LightOf(t) = {}) /\ (l # NoLight => l \in LightOf(t))
  <2>1. ~Passed(t)
        BY <1>1, ActiveNotPassed, Zenon
  <2>2. \A d \in Dependents(t) : t \in deps[d]
        BY <1>0, <2>1, Zenon DEF Dependents, DepsInv
  <2> QED
      BY <1>1, <2>2, Zenon DEF Heard
<1>2. CASE \E r \in requests : r.task = t /\ r.light = NoLight /\ r.status = COMPLETED /\ l = NoLight /\ s = COMPLETED
  <2>1. st[t] = COMPLETED /\ deps[t] = {} /\ \A d \in Dependents(t) : t \in deps[d]
    <3>1. COMPLETED # PENDING /\ COMPLETED # ERROR
          OBVIOUS
    <3> QED
        BY <1>0, <1>2, <3>1, Zenon DEF RequestInv
  <2>2. st'[t] = COMPLETED
        BY <1>0, <1>2, Zenon DEF Effect, TaskCompletes, TypeOK
  <2>3. ~Active(st[t])
        BY <2>1
  <2> QED
      BY <1>2, <2>1, <2>2, <2>3, Zenon DEF Heard
<1> QED
    BY <1>0, <1>1, <1>2, Zenon DEF HasItem, RequestInv, JobInv

(* The new call is the only one for the tasks with a filter to be scanned.  *)
LEMMA CallsKept ==
    ASSUME Orderly, TypeOK, DepsInv, CallInv, NEW t \in Task, Heard(t), OwnStep(t), UNCHANGED scanvars,
           DepsInv', NotifyTypes,
           \A x \in Task : deps[x] = {} => deps'[x] = {},
           \A x \in Task \ {t} : deps[x] = {} => st'[x] = st[x],
           \A x \in Task \ {t} : st'[x] = st[x] \/ st'[x] = ABORTED
    PROVE  CallInv'
<1>0. scans' = scans /\ st[t] \notin {UNKNOWN, ABORTED}
      BY DEF Heard, scanvars
<1>t. /\ \A c \in execs : c.tasks \subseteq Task
      /\ \A z \in scans : Wanted(z) \subseteq Task
      BY Zenon DEF TypeOK, CallOfExecute, Scan, Wanted
<1>1. \A c \in execs : \A x \in c.tasks \cap Scanned :
         x # t /\ deps[x] = {} /\ deps'[x] = {} /\ st'[x] = st[x] /\ st[x] \in {UNKNOWN, ABORTED}
      BY <1>0, <1>t, ZenonT(60) DEF CallInv
<1>2. \A z \in scans : \A x \in Wanted(z) \cap Scanned :
         x # t /\ deps[x] = {} /\ deps'[x] = {} /\ st'[x] = st[x] /\ st[x] \in {UNKNOWN, ABORTED}
      BY <1>0, <1>t, ZenonT(60) DEF CallInv
<1>3. \A z \in scans : /\ z.task \in Scanned /\ st'[z.task] = UNKNOWN
                       /\ NeedsScan(z.task)' /\ z.task \notin z.rest
  <2> SUFFICES ASSUME NEW z \in scans
               PROVE  /\ z.task \in Scanned /\ st'[z.task] = UNKNOWN
                      /\ NeedsScan(z.task)' /\ z.task \notin z.rest
      BY Zenon
  <2>1. z.task \in Wanted(z) /\ z.task \in Task /\ z.task \in Scanned /\ NeedsScan(z.task)
        /\ z.task \notin z.rest /\ st[z.task] = UNKNOWN
        BY <1>t, Zenon DEF CallInv, Wanted
  <2>2. z.task # t /\ st'[z.task] = UNKNOWN
        BY <1>2, <2>1, Zenon
  <2>3. auto'[z.task] = auto[z.task]
        BY <2>1, <2>2, Zenon DEF OwnStep
  <2> QED
      BY <2>1, <2>2, <2>3, Zenon DEF NeedsScan, Parsed, Retrying
<1>4. CASE execs' = execs
      BY <1>0, <1>1, <1>2, <1>3, <1>4, ZenonT(60) DEF CallInv, Wanted
<1> DEFINE New(S) == \A x \in S \cap Scanned :
                        deps'[x] = {} /\ st'[x] \in {UNKNOWN, ABORTED} /\ (x = t \/ deps[x] # {})
<1>5. ASSUME NEW S \in SUBSET Task, execs' = execs \cup {[by |-> t, tasks |-> S]}, New(S)
      PROVE  CallInv'
  <2> DEFINE n == [by |-> t, tasks |-> S]
  <2>1. execs' = execs \cup {n} /\ n.tasks = S
        BY <1>5, Zenon
  <2> HIDE DEF n
  <2>2. \A c \in execs : c.tasks \cap S \cap Scanned = {}
        BY <1>1, <1>5, Zenon
  <2>3. \A z \in scans : Wanted(z) \cap S \cap Scanned = {}
        BY <1>2, <1>5, Zenon
  <2>4. \A c \in execs' : \A x \in c.tasks \cap Scanned : deps'[x] = {} /\ st'[x] \in {UNKNOWN, ABORTED}
        BY <1>1, <1>5, <2>1, Zenon
  <2>5. \A c, d \in execs' : c # d => c.tasks \cap d.tasks \cap Scanned = {}
        BY <2>1, <2>2, ZenonT(60) DEF CallInv
  <2>6. \A c \in execs' : \A z \in scans : c.tasks \cap Wanted(z) \cap Scanned = {}
        BY <2>1, <2>3, ZenonT(60) DEF CallInv
  <2>7. \A z, y \in scans : z # y => Wanted(z) \cap Wanted(y) \cap Scanned = {}
        BY Zenon DEF CallInv
  <2> QED
      BY <1>0, <1>2, <1>3, <2>4, <2>5, <2>6, <2>7, ZenonT(60) DEF CallInv, Wanted
<1>6. CASE execs' = execs \cup {[by |-> t, tasks |-> Dependents(t)]} /\ deps' = Without(t)
  <2>1. Dependents(t) \in SUBSET Task
        BY Zenon DEF Dependents
  <2>2. New(Dependents(t))
    <3> SUFFICES ASSUME NEW x \in Dependents(t), x \in Scanned
                 PROVE  deps'[x] = {} /\ st'[x] \in {UNKNOWN, ABORTED} /\ deps[x] # {}
        BY Zenon
    <3>1. x \in Task /\ t \in Deps[x] /\ t \in deps[x] /\ deps[x] \subseteq Deps[x] /\ x # t
          BY Zenon DEF Dependents, Heard, DepsInv
    <3>2. Deps[x] \subseteq {t}
          BY <3>1, Zenon DEF Orderly
    <3>3. deps'[x] = {}
          BY <1>6, <3>1, <3>2, Zenon DEF Without
    <3>4. st[x] \in {UNKNOWN, ABORTED}
          BY <3>1, Zenon DEF DepsInv
    <3>5. st'[x] \in {UNKNOWN, ABORTED}
          BY <3>1, <3>4, Zenon
    <3> QED
        BY <3>1, <3>3, <3>5, Zenon
  <2> HIDE DEF New
  <2> QED
      BY <1>5, <1>6, <2>1, <2>2, Zenon
<1>7. CASE execs' = execs \cup {[by |-> t, tasks |-> {t}]} /\ st'[t] = UNKNOWN
  <2>1. deps'[t] = {} /\ {t} \in SUBSET Task
        BY Zenon DEF Heard
  <2>2. New({t})
        BY <1>7, <2>1, Zenon
  <2> HIDE DEF New
  <2> QED
      BY <1>5, <1>7, <2>1, <2>2, Zenon
<1> QED
    BY <1>4, <1>6, <1>7, Zenon DEF OwnStep, Calls

(* A notification of something in execution keeps the invariant.            *)
LEMMA EffectStep ==
    ASSUME EInv, NEW t \in Task, NEW l \in Nat \cup {NoLight}, NEW s \in Status,
           HasItem(t, l, s), Effect(t, l, s), cancel' = cancel, ItemStep(t, l, s), Unique'
    PROVE  EInv'
<1>0. /\ Orderly /\ TypeOK /\ DepsInv /\ HeardInv /\ RequestInv /\ JobInv /\ Unique /\ LightInv
      /\ OverInv /\ CallInv /\ QueryInv
      /\ Live /\ NotifyTypes /\ GraphStep(t) /\ OwnStep(t)
      BY Zenon DEF EInv, Effect
<1>o. Open
      BY <1>0, Zenon DEF Live, Open
<1>t. /\ requests \subseteq Request /\ jobs \subseteq Job
      /\ \A r \in requests : r.task \in Task
      /\ \A j \in jobs \cup jobs' : j.task \in Task
      BY <1>0, Zenon DEF TypeOK, Request, Job, ItemStep
<1>h. /\ Heard(t)
      /\ Active(st[t]) => (l = NoLight => LightOf(t) = {}) /\ (l # NoLight => l \in LightOf(t))
      /\ ~Active(st[t]) => l = NoLight /\ s = COMPLETED
      BY <1>0, <1>o, ItemHeard, Zenon
<1>a. /\ deps[t] = {}
      /\ Active(st[t]) => (l = NoLight => LightOf(t) = {}) /\ (l # NoLight => l \in LightOf(t))
      /\ ~Active(st[t]) => l = NoLight /\ s = COMPLETED
      BY <1>h, Zenon DEF Heard
<1>g. /\ DepsInv'
      /\ \A x \in Task : deps[x] = {} => deps'[x] = {}
      /\ \A x \in Task : deps'[x] \subseteq deps[x] /\ deps[x] \ {t} \subseteq deps'[x]
      /\ \A x \in Task \ {t} : deps[x] = {} => st'[x] = st[x]
      /\ \A x \in Task \ {t} : st'[x] = st[x] \/ st'[x] = ABORTED
      BY <1>0, <1>h, GraphStepKeeps, Zenon
<1>l. Live' => Live
      BY <1>0, Zenon
<1>1. TypeOK'
      BY <1>0, Zenon DEF TypeOK, Effect, NotifyTypes, ItemStep, scanvars
(* another item of t: t is massive, and it stays active                     *)
<1>2. ASSUME NEW k \in Nat \cup {NoLight}, k # l,
             k # NoLight => k \in LightOf(t), k = NoLight => LightOf(t) = {},
             \/ \E r \in requests : r.task = t /\ r.light = k
             \/ \E j \in jobs : j.task = t /\ j.light = k, Active(st[t])
      PROVE  Active(st'[t])
  <2>1. l # NoLight /\ k # NoLight /\ l \in LightOf(t) /\ k \in LightOf(t)
        BY <1>a, <1>2, Zenon
  <2>2. l \in OutLights(t) /\ k \in OutLights(t)
        BY <1>2, <2>1, Zenon DEF OutLights, HasItem
  <2>3. rlight[t] # 1
    <3>1. IsFiniteSet(OutLights(t)) /\ Cardinality(OutLights(t)) \in Nat
          BY OutFinite, Zenon
    <3>2. {k, l} \subseteq OutLights(t) /\ Cardinality({k, l}) = 2 /\ IsFiniteSet({k, l})
      <4>1. IsFiniteSet({k}) /\ Cardinality({k}) = 1 /\ l \notin {k}
            BY <1>2, FS_Singleton, Zenon
      <4>2. {k, l} = {k} \cup {l}
            BY Zenon
      <4>3. IsFiniteSet({k} \cup {l}) /\ Cardinality({k} \cup {l}) = Cardinality({k}) + 1
            BY <4>1, FS_AddElement, Zenon
      <4>4. Cardinality({k} \cup {l}) = 2
            BY <4>1, <4>3
      <4> QED
          BY <2>2, <4>2, <4>3, <4>4, Zenon
    <3>3. 2 <= Cardinality(OutLights(t))
          BY <3>1, <3>2, FS_Subset, Zenon
    <3> QED
        BY <1>0, <3>1, <3>3 DEF LightInv, TypeOK
  <2> QED
      BY <2>1, <2>3, Zenon DEF Effect
<1>3. RequestInv'
  <2> SUFFICES ASSUME NEW r \in requests'
               PROVE  /\ deps'[r.task] = {}
                      /\ st'[r.task] # UNKNOWN
                      /\ r.light # NoLight => r.light \in LightOf(r.task)
                      /\ r.light = NoLight /\ r.status = PENDING => LightOf(r.task) = {}
                      /\ r.light = NoLight /\ r.status # PENDING =>
                            \/ r.status = ERROR /\ Ended(st'[r.task])
                            \/ /\ r.status = COMPLETED /\ st'[r.task] = COMPLETED
                               /\ \A x \in Dependents(r.task) : r.task \in deps'[x]
                      /\ r.light # NoLight \/ r.status = PENDING => Active(st'[r.task])
      BY Zenon DEF RequestInv
  <2>1. /\ r \in requests /\ r.task \in Task /\ r.light \in Nat \cup {NoLight}
        BY <1>t, Zenon DEF ItemStep, Request
  <2>2. /\ deps[r.task] = {}
        /\ st[r.task] # UNKNOWN
        /\ r.light # NoLight => r.light \in LightOf(r.task)
        /\ r.light = NoLight /\ r.status = PENDING => LightOf(r.task) = {}
        /\ r.light = NoLight /\ r.status # PENDING =>
              \/ r.status = ERROR /\ Ended(st[r.task])
              \/ /\ r.status = COMPLETED /\ st[r.task] = COMPLETED
                 /\ \A x \in Dependents(r.task) : r.task \in deps[x]
        /\ r.light # NoLight \/ r.status = PENDING => Active(st[r.task])
        BY <1>0, <1>o, <2>1, Zenon DEF RequestInv
  <2>3. CASE r.task # t
    <3>1. st'[r.task] = st[r.task] /\ deps'[r.task] = {}
          BY <1>g, <2>1, <2>2, <2>3, Zenon
    <3>2. \A x \in Dependents(r.task) : r.task \in deps[x] => r.task \in deps'[x]
          BY <1>g, <2>3, Zenon DEF Dependents
    <3> QED
        BY <2>2, <3>1, <3>2, Zenon
  <2>4. CASE r.task = t /\ Active(st[t])
    <3>0. r.light # NoLight \/ r.status = PENDING
      <4>0. st[t] \in Status
            BY <1>0, Zenon DEF TypeOK
      <4>1. ~Ended(st[t]) /\ st[t] # COMPLETED
            BY <2>4, <4>0
      <4> QED
          BY <2>2, <2>4, <4>1, Zenon
    <3>1. Active(st'[t])
      <4>1. CASE r.light # l
            BY <1>2, <2>1, <2>2, <2>4, <3>0, <4>1, ZenonT(40)
      <4>2. CASE r.light = l
            BY <2>4, <4>2, Zenon DEF ItemStep, Effect
      <4> QED
          BY <4>1, <4>2, Zenon
    <3>2. st'[t] # UNKNOWN
          BY <3>1
    <3> QED
        BY <1>g, <2>1, <2>2, <2>4, <3>0, <3>1, <3>2, ZenonT(60)
  <2>5. CASE r.task = t /\ ~Active(st[t])
    <3>1. l = NoLight /\ s = COMPLETED /\ s # RUNNING
          BY <1>a, <2>5
    <3>2. r.light = NoLight
          BY <2>2, <2>5, Zenon
    <3> QED
        BY <2>5, <3>1, <3>2, Zenon DEF ItemStep
  <2> QED
      BY <2>3, <2>4, <2>5, Zenon
<1>4. JobInv'
  <2> SUFFICES ASSUME NEW j \in jobs'
               PROVE  /\ deps'[j.task] = {}
                      /\ st'[j.task] # UNKNOWN
                      /\ j.light # NoLight => j.light \in LightOf(j.task)
                      /\ j.light = NoLight => LightOf(j.task) = {}
                      /\ Active(st'[j.task])
      BY Zenon DEF JobInv
  <2>1. PICK y \in jobs : j.task = y.task /\ j.light = y.light
        BY Zenon DEF ItemStep, SameKey
  <2>2. /\ j.task \in Task /\ j.light \in Nat \cup {NoLight}
        BY <1>t, <2>1, Zenon DEF Job
  <2>3. /\ deps[j.task] = {}
        /\ j.light # NoLight => j.light \in LightOf(j.task)
        /\ j.light = NoLight => LightOf(j.task) = {}
        /\ st[j.task] # UNKNOWN
        /\ Active(st[j.task])
        BY <1>0, <1>o, <2>1, Zenon DEF JobInv
  <2>4. CASE j.task # t
        BY <1>g, <2>2, <2>3, <2>4, Zenon
  <2>5. CASE j.task = t /\ j.light # l
    <3>1. Active(st'[t])
          BY <1>2, <2>1, <2>2, <2>3, <2>5, ZenonT(40)
    <3>2. st'[t] # UNKNOWN
          BY <3>1
    <3> QED
        BY <1>g, <2>2, <2>3, <2>5, <3>1, <3>2, ZenonT(60)
  <2>6. CASE j.task = t /\ j.light = l
    <3>1. s = RUNNING
          BY <2>6, Zenon DEF ItemStep
    <3>2. Active(st'[t])
          BY <3>1, <2>6, Zenon DEF Effect
    <3>3. st'[t] # UNKNOWN
          BY <3>2
    <3> QED
        BY <1>g, <2>2, <2>3, <2>6, <3>2, <3>3, ZenonT(60)
  <2> QED
      BY <2>4, <2>5, <2>6, Zenon
<1>5. LightInv'
  <2> SUFFICES ASSUME NEW x \in Task PROVE Cardinality(OutLights(x)') <= rlight'[x]
      BY Zenon DEF LightInv
  <2>1. /\ OutLights(x)' \subseteq OutLights(x)
        /\ Cardinality(OutLights(x)') <= Cardinality(OutLights(x))
        /\ Cardinality(OutLights(x)') \in Nat
        BY OutShrinks, Zenon DEF ItemStep
  <2>2. /\ Cardinality(OutLights(x)) \in Nat /\ IsFiniteSet(OutLights(x))
        /\ rlight[x] \in Int /\ Cardinality(OutLights(x)) <= rlight[x] /\ rlight'[x] \in Int
        BY <1>0, OutFinite, ZenonT(60) DEF LightInv, TypeOK, Effect
  <2>3. CASE x # t \/ l = NoLight \/ s = RUNNING
    <3>1. rlight'[x] = rlight[x]
          BY <2>3, Zenon DEF Effect
    <3> QED
        BY <2>1, <2>2, <3>1, SMTT(30)
  <2>4. CASE x = t /\ l # NoLight /\ s # RUNNING
    <3>1. l \in OutLights(t)
          BY <1>a, <2>4, ZenonT(60) DEF OutLights, HasItem
    <3>2. OutLights(t)' \subseteq OutLights(t) \ {l}
          BY <2>1, <2>4, Zenon DEF ItemStep, OutLights
    <3>3. /\ IsFiniteSet(OutLights(t) \ {l})
          /\ Cardinality(OutLights(t) \ {l}) = Cardinality(OutLights(t)) - 1
          BY <2>2, <2>4, <3>1, FS_RemoveElement, ZenonT(60)
    <3>4. Cardinality(OutLights(t)') <= Cardinality(OutLights(t)) - 1
          BY <3>2, <3>3, FS_Subset
    <3>5. rlight'[t] >= rlight[t] - 1
          BY <1>0, <2>4 DEF Effect, TypeOK
    <3> QED
        BY <2>1, <2>2, <2>4, <3>4, <3>5, SMTT(30)
  <2> QED
      BY <2>3, <2>4, Zenon
<1>6. OverInv' /\ BudgetInv' /\ Orderly'
      BY <1>0, Zenon DEF Effect, OwnStep, Orderly
<1>7. HeardInv'
  <2> SUFFICES ASSUME ~PrepMayFail, NEW x \in Task, NEW d \in deps'[x], st'[d] \in {COMPLETED, SKIPPED}
               PROVE  d \in Unreported'
      BY Zenon DEF HeardInv
  <2>1. d \in deps[x] /\ d \in Task /\ st[d] \in Status
        BY <1>0, <1>g, Zenon DEF TypeOK
  <2>2. d # t
    <3> SUFFICES ASSUME d = t PROVE FALSE
        BY Zenon
    <3>1. deps' = Without(t)
          BY Zenon DEF GraphStep, Effect
    <3> QED
        BY <3>1, Zenon DEF Without
  <2>3. st[d] \in {COMPLETED, SKIPPED}
        BY <1>g, <2>1, <2>2
  <2>4. d \in Unreported
        BY <1>0, <2>1, <2>3, Zenon DEF HeardInv
  <2> DEFINE r == [task |-> d, light |-> NoLight, status |-> COMPLETED]
  <2>5. r \in requests /\ r.task = d
        BY <2>4, Zenon DEF Unreported
  <2>6. r \in requests'
        BY <2>2, <2>5, Zenon DEF ItemStep
  <2> QED
      BY <2>1, <2>6, Zenon DEF Unreported
<1>8. CallInv'
      BY <1>0, <1>h, <1>g, CallsKept, Zenon DEF ItemStep
<1>9. QueryInv'
  <2>1. queries' = queries /\ scans' = scans /\ answered' = answered /\ phase # "freed"
        BY <1>0, Zenon DEF ItemStep, scanvars, Live
  <2> SUFFICES ASSUME NEW x \in answered, st'[x] = UNKNOWN
               PROVE  ~Parsed(x)' \/ \E z \in scans : z.task = x
      BY <1>0, <2>1, Zenon DEF QueryInv
  <2>2. x \in Task
        BY <1>0, Zenon DEF TypeOK
  <2>3. CASE x = t
        BY <1>0, <2>3, Zenon DEF OwnStep
  <2>4. CASE x # t
    <3>1. st[x] = UNKNOWN
          BY <1>g, <2>2, <2>4
    <3>2. ~Parsed(x) \/ \E z \in scans : z.task = x
          BY <1>0, <2>1, <3>1, Zenon DEF QueryInv
    <3>3. Parsed(x)' = Parsed(x)
          BY <1>0, <2>2, <2>4, Zenon DEF OwnStep, Parsed, Retrying
    <3> QED
        BY <3>2, <3>3, Zenon
  <2> QED
      BY <2>3, <2>4, Zenon
<1> QED
    BY <1>1, <1>g, <1>3, <1>4, <1>5, <1>6, <1>7, <1>8, <1>9, ZenonT(60) DEF EInv

-----------------------------------------------------------------------------
(* The actions.                                                             *)

(* A request answered at once keeps the invariant.                          *)
LEMMA ReplyKeeps ==
    ASSUME EInv, NEW r \in requests, NEW s \in Replies, Reply(r, s)
    PROVE  EInv'
<1>1. r.task \in Task /\ r.light \in Nat \cup {NoLight} /\ r.status = PENDING
      BY Zenon DEF EInv, TypeOK, Request, Reply
<1>2. s \in Sent /\ s \in Status /\ s # RUNNING
      BY DEF Replies, Sent
<1>3. Live /\ r.light # NoLight => Active(st[r.task])
      BY Zenon DEF EInv, RequestInv, Live, Open
<1>4. cancel' = cancel /\ (Quietly \/ Effect(r.task, r.light, s))
      BY <1>1, <1>2, <1>3, NotifyEffect, ZenonT(40) DEF Reply, EInv
<1>5. Unique'
      BY Zenon DEF Reply, EInv, Unique
<1>6. ItemStep(r.task, r.light, s)
      BY ZenonT(60) DEF Reply, ItemStep, EInv, Unique, SameKey, TypeOK
<1>7. HasItem(r.task, r.light, s)
      BY <1>1, Zenon DEF HasItem
<1>8. CASE Quietly
  <2>1. r.light = NoLight => \A x \in requests : x.task = r.task /\ x.light = NoLight => x.status # COMPLETED
    <3>1. PENDING # COMPLETED
          OBVIOUS
    <3> QED
        BY <1>1, <3>1, Zenon DEF EInv, Unique, SameKey
  <2> QED
      BY <1>1, <1>2, <1>4, <1>5, <1>6, <1>8, <2>1, ItemGoes, ZenonT(60)
<1>9. CASE Effect(r.task, r.light, s)
      BY <1>1, <1>2, <1>4, <1>5, <1>6, <1>7, <1>9, EffectStep, ZenonT(40)
<1> QED
    BY <1>4, <1>8, <1>9, Zenon

(* The report of a request that was not prepared keeps the invariant.       *)
LEMMA ReportKeeps ==
    ASSUME EInv, NEW r \in requests, Report(r)
    PROVE  EInv'
<1>1. r.task \in Task /\ r.light \in Nat \cup {NoLight} /\ r.status \in Status /\ r.status # PENDING
      BY Zenon DEF EInv, TypeOK, Request, Report
<1>2. Unique'
      BY Zenon DEF Report, EInv, Unique
<1>3. ItemStep(r.task, r.light, r.status)
      BY ZenonT(60) DEF Report, ItemStep, EInv, Unique, SameKey, TypeOK
<1>4. CASE r.light = NoLight /\ r.status # COMPLETED
  <2>1. r.status = ERROR /\ Ended(st[r.task])
        BY <1>1, <1>4, Zenon DEF EInv, RequestInv
  <2>2. Neglected(r.task, r.light, r.status)
        BY <1>4, <2>1, NotifiedFacts, Zenon DEF Neglected, Sent
  <2>3. Quietly /\ cancel' = cancel
        BY <2>2, Zenon DEF Report, Notify, Quietly
  <2>4. \A x \in requests : x.task = r.task /\ x.light = NoLight => x.status # COMPLETED
        BY <1>4, Zenon DEF EInv, Unique, SameKey
  <2> QED
      BY <1>1, <1>2, <1>3, <2>3, <2>4, ItemGoes, ZenonT(60)
<1>5. CASE r.light # NoLight \/ r.status = COMPLETED
  <2>1. Live /\ r.light # NoLight => Active(st[r.task])
        BY <1>5, Zenon DEF EInv, RequestInv, Live, Open
  <2>2. /\ cancel' = cancel /\ (Quietly \/ Effect(r.task, r.light, r.status))
        /\ Live /\ ~Neglected(r.task, r.light, r.status) => Effect(r.task, r.light, r.status)
    <3>1. r.light = NoLight => r.status \in Sent
          BY <1>5 DEF Sent
    <3> QED
        BY <1>1, <2>1, <3>1, NotifyEffect, ZenonT(60) DEF Report, EInv
  <2>4. HasItem(r.task, r.light, r.status)
        BY <1>5, Zenon DEF HasItem
  <2>5. CASE Quietly /\ ~Effect(r.task, r.light, r.status)
    <3>1. ~(Live /\ r.light = NoLight)
      <4>1. r.status = COMPLETED => ~Neglected(r.task, r.light, r.status)
            BY NotifiedFacts DEF Neglected
      <4> QED
          BY <1>5, <2>2, <2>5, <4>1, Zenon
    <3> QED
        BY <1>1, <1>2, <1>3, <2>2, <2>5, <3>1, ItemGoes, ZenonT(60)
  <2>6. CASE Effect(r.task, r.light, r.status)
        BY <1>1, <1>2, <1>3, <2>2, <2>4, <2>6, EffectStep, ZenonT(40)
  <2> QED
      BY <2>2, <2>5, <2>6, Zenon
<1> QED
    BY <1>4, <1>5, Zenon

(* The report of a void task that is taken for an answer: no scan of the    *)
(* task is in execution, since the task has ended.                          *)
LEMMA UnheardKeeps ==
    ASSUME EInv, NEW r \in requests, ReportUnheard(r)
    PROVE  EInv'
<1>1. /\ requests' = requests \ {r} /\ jobs' = jobs /\ scans' = scans /\ queries' = queries
      /\ answered' \subseteq answered \cup {r.task}
      /\ Quietly /\ cancel' = cancel /\ PrepMayFail
      BY Zenon DEF ReportUnheard, Quietly
<1>2. r.task \in Task /\ st[r.task] # UNKNOWN
      BY Zenon DEF EInv, TypeOK, Request, RequestInv
<1>3. Unique' /\ jobs' \subseteq Job /\ (\A x \in jobs' : \E y \in jobs : SameKey(x, y))
      BY <1>1, ZenonT(60) DEF EInv, Unique, SameKey, TypeOK
<1>4. answered' \subseteq Task
      BY <1>1, <1>2, Zenon DEF EInv, TypeOK
<1>5. HeardInv'
      BY <1>1, Zenon DEF HeardInv
<1>6. QueryInv'
  <2>1. \A q \in queries : phase # "freed" => q.task # r.task
    <3>1. /\ \A q \in queries : phase # "freed" => \E z \in scans : z.task = q.task
          /\ \A z \in scans : st[z.task] = UNKNOWN
          BY Zenon DEF EInv, QueryInv, CallInv
    <3> QED
        BY <1>2, <3>1, Zenon
  <2>2. phase' = phase /\ st' = st /\ \A t \in Task : Parsed(t)' = Parsed(t)
        BY <1>1, Zenon DEF Quietly, taskvars, Parsed, Retrying
  <2> QED
      BY <1>1, <1>2, <1>4, <2>1, <2>2, ZenonT(60) DEF EInv, QueryInv
<1> QED
    BY <1>1, <1>3, <1>4, <1>5, <1>6, QuietStep, Zenon

(* The end of a scan: its call waits, so that it is the answer, or the      *)
(* workflow is out of the list.                                             *)
LEMMA ScanAnswers ==
    ASSUME EInv, NEW q \in queries, NEW s, ScanEnds(q, s)
    PROVE  /\ Quietly /\ cancel' = cancel
           /\ scans' = scans /\ requests' = requests /\ jobs' = jobs
<1>1. phase = "listed" => ~Numbered(q.task)
  <2> SUFFICES ASSUME phase = "listed" PROVE ~Numbered(q.task)
      BY Zenon
  <2>1. PICK z \in scans : z.task = q.task
        BY Zenon DEF EInv, QueryInv
  <2> QED
      BY <2>1, Zenon DEF EInv, CallInv, Numbered, NeedsScan, Parsed
<1> QED
    BY <1>1, ZenonT(60) DEF ScanEnds, Quietly, Notify

(* It keeps the invariant.                                                  *)
LEMMA ScanEndsKeeps ==
    ASSUME EInv, NEW q \in queries, NEW s \in Answers, ScanEnds(q, s)
    PROVE  EInv'
<1>1. /\ queries' = queries \ {q} /\ scans' = scans /\ requests' = requests /\ jobs' = jobs
      /\ answered' \subseteq answered \cup {q.task}
      BY Zenon DEF ScanEnds
<1>2. q.task \in Task
      BY Zenon DEF EInv, TypeOK, Query
<1>4. Quietly /\ cancel' = cancel
      BY ScanAnswers, Zenon
<1>5. Unique' /\ jobs' \subseteq Job /\ (\A x \in jobs' : \E y \in jobs : SameKey(x, y))
      BY <1>1, ZenonT(60) DEF EInv, Unique, SameKey, TypeOK
<1>6. answered' \subseteq Task
      BY <1>1, <1>2, Zenon DEF EInv, TypeOK
<1>7. HeardInv'
      BY <1>1, <1>4, ZenonT(60) DEF EInv, HeardInv, Live, Unreported, Quietly, taskvars
<1>8. QueryInv'
  <2>1. phase' = phase /\ st' = st /\ \A t \in Task : Parsed(t)' = Parsed(t)
        BY <1>4, Zenon DEF Quietly, taskvars, Parsed, Retrying
  <2> SUFFICES ASSUME phase # "freed"
               PROVE  /\ \A x \in queries' : /\ x.task \notin answered'
                                             /\ \E z \in scans : z.by = x.by /\ z.task = x.task
                      /\ \A t \in answered' : st[t] = UNKNOWN =>
                            ~Parsed(t) \/ \E z \in scans : z.task = t
      BY <1>1, <1>6, <2>1, ZenonT(60) DEF QueryInv
  <2>2. /\ \A x \in queries : /\ x.task \notin answered
                               /\ \E z \in scans : z.by = x.by /\ z.task = x.task
        /\ \A t \in answered : st[t] = UNKNOWN => ~Parsed(t) \/ \E z \in scans : z.task = t
        BY Zenon DEF EInv, QueryInv
  <2>3. \A x \in queries : x.task = q.task => x = q
    <3> SUFFICES ASSUME NEW x \in queries, x.task = q.task PROVE x = q
        BY Zenon
    <3>1. PICK z \in scans : z.by = x.by /\ z.task = x.task
          BY <2>2, Zenon
    <3>2. PICK y \in scans : y.by = q.by /\ y.task = q.task
          BY <2>2, Zenon
    <3>3. z.task \in Wanted(z) \cap Wanted(y) \cap Scanned
          BY <3>1, <3>2, Zenon DEF EInv, CallInv, Wanted
    <3>4. z = y
          BY <3>3, Zenon DEF EInv, CallInv
    <3>5. x.by = q.by /\ x \in Query /\ q \in Query
          BY <3>1, <3>2, <3>4, Zenon DEF EInv, TypeOK
    <3> QED
        BY <3>5 DEF Query
  <2>4. \E z \in scans : z.task = q.task
        BY <2>2, Zenon
  <2> QED
      BY <1>1, <2>2, <2>3, <2>4, ZenonT(60)
<1> QED
    BY <1>1, <1>4, <1>5, <1>6, <1>7, <1>8, QuietStep, Zenon

(* The end of a job, as the job, the script or the monitor tells it.        *)
LEMMA JobGoesKeeps ==
    ASSUME EInv, NEW j \in jobs, NEW s \in Sent \ {RUNNING},
           jobs' = jobs \ {j}, requests' = requests, UNCHANGED scanvars, Notify(j.task, j.light, s)
    PROVE  EInv'
<1>1. j.task \in Task /\ j.light \in Nat \cup {NoLight} /\ s \in Status
      BY DEF EInv, TypeOK, Job, Sent
<1>2. Live /\ j.light # NoLight => Active(st[j.task])
      BY Zenon DEF EInv, JobInv, Live, Open
<1>3. cancel' = cancel /\ (Quietly \/ Effect(j.task, j.light, s))
      BY <1>1, <1>2, NotifyEffect, ZenonT(40) DEF EInv
<1>4. Unique'
      BY Zenon DEF EInv, Unique
<1>5. ItemStep(j.task, j.light, s)
      BY ZenonT(60) DEF ItemStep, EInv, Unique, SameKey, TypeOK
<1>6. HasItem(j.task, j.light, s)
      BY Zenon DEF HasItem
<1>7. CASE Quietly
  <2>1. j.light = NoLight => \A x \in requests : x.task = j.task /\ x.light = NoLight => x.status # COMPLETED
        BY Zenon DEF EInv, Unique, SameKey
  <2> QED
      BY <1>1, <1>3, <1>4, <1>5, <1>7, <2>1, ItemGoes, ZenonT(60)
<1>8. CASE Effect(j.task, j.light, s)
      BY <1>1, <1>3, <1>4, <1>5, <1>6, <1>8, EffectStep, ZenonT(40)
<1> QED
    BY <1>3, <1>7, <1>8, Zenon

(* A job that changes its state keeps its key.                              *)
LEMMA JobMoves ==
    ASSUME EInv, NEW j \in jobs, NEW v \in {"running", "lost", "missed"},
           jobs' = (jobs \ {j}) \cup {[j EXCEPT !.state = v]}, requests' = requests
    PROVE  /\ Unique' /\ jobs' \subseteq Job
           /\ \A x \in jobs' : \E y \in jobs : SameKey(x, y)
<1> DEFINE n == [j EXCEPT !.state = v]
<1>1. n \in Job /\ n.task = j.task /\ n.light = j.light
      BY Zenon DEF EInv, TypeOK, Job
<1> HIDE DEF n
<1>2. jobs' = (jobs \ {j}) \cup {n}
      BY Zenon DEF n
<1>3. \A x \in jobs \ {j} : ~SameKey(x, n)
      BY <1>1, Zenon DEF EInv, Unique, SameKey
<1>4. Unique'
      BY <1>1, <1>2, <1>3 DEF EInv, Unique, SameKey
<1> QED
    BY <1>1, <1>2, <1>4, Zenon DEF EInv, TypeOK, SameKey

(* A job that dies, or is missed, keeps the invariant.                      *)
LEMMA JobMovesKeeps ==
    ASSUME EInv, NEW j \in jobs, NEW v \in {"lost", "missed"},
           jobs' = (jobs \ {j}) \cup {[j EXCEPT !.state = v]}, requests' = requests,
           Quietly, cancel' = cancel, UNCHANGED scanvars
    PROVE  EInv'
<1>1. j.task \in Task /\ j.light \in Nat \cup {NoLight} /\ RUNNING \in Status
      BY DEF EInv, TypeOK, Job
<1>2. Unique' /\ ItemStep(j.task, j.light, RUNNING)
      BY JobMoves, Zenon DEF ItemStep
<1>3. \A x \in requests : x.task = j.task /\ x.light = NoLight => j.light # NoLight
      BY Zenon DEF EInv, Unique, SameKey
<1> QED
    BY <1>1, <1>2, <1>3, ItemGoes, ZenonT(60)

(* The first notification of a job keeps the invariant.                     *)
LEMMA JobStartsKeeps ==
    ASSUME EInv, NEW j \in jobs, JobStarts(j)
    PROVE  EInv'
<1>1. j.task \in Task /\ j.light \in Nat \cup {NoLight} /\ RUNNING \in Status /\ RUNNING \in Sent
      BY DEF EInv, TypeOK, Job, Sent
<1>2. Live /\ j.light # NoLight => Active(st[j.task])
      BY Zenon DEF EInv, JobInv, Live, Open
<1>3. cancel' = cancel /\ (Quietly \/ Effect(j.task, j.light, RUNNING))
      BY <1>1, <1>2, NotifyEffect, Zenon DEF EInv, JobStarts
<1>4. Unique' /\ ItemStep(j.task, j.light, RUNNING)
      BY JobMoves, Zenon DEF JobStarts, ItemStep
<1>5. HasItem(j.task, j.light, RUNNING)
      BY Zenon DEF HasItem
<1>6. CASE Quietly
  <2>1. \A x \in requests : x.task = j.task /\ x.light = NoLight => j.light # NoLight
        BY Zenon DEF EInv, Unique, SameKey
  <2> QED
      BY <1>1, <1>3, <1>4, <1>6, <2>1, ItemGoes, ZenonT(60)
<1>7. CASE Effect(j.task, j.light, RUNNING)
      BY <1>1, <1>3, <1>4, <1>5, <1>7, EffectStep, ZenonT(40)
<1> QED
    BY <1>3, <1>6, <1>7, Zenon

(* Passing a request on to the resource manager keeps the invariant.        *)
LEMMA SubmitKeeps ==
    ASSUME EInv, NEW r \in requests, Submit(r)
    PROVE  EInv'
<1> DEFINE n == [task |-> r.task, light |-> r.light, state |-> "queued"]
<1>0. /\ TypeOK /\ DepsInv /\ HeardInv /\ RequestInv /\ JobInv /\ Unique /\ LightInv /\ OverInv
      /\ CallInv /\ QueryInv /\ BudgetInv /\ Orderly
      BY Zenon DEF EInv
<1>1. /\ n \in Job /\ n.task = r.task /\ n.light = r.light
      /\ r.task \in Task /\ r.light \in Nat \cup {NoLight} /\ r.status = PENDING
      BY <1>0, Zenon DEF TypeOK, Request, Job, Submit
<1>2. /\ requests' = requests \ {r} /\ jobs' = jobs \cup {n}
      /\ UNCHANGED <<phase, wstatus, cancel, residual, taskvars, execs, scanvars>>
      BY Zenon DEF Submit
<1> HIDE DEF n
<1>3. TypeOK'
      BY <1>0, <1>1, <1>2, Zenon DEF TypeOK, taskvars, scanvars
<1>4. DepsInv' /\ OverInv'
      BY <1>0, <1>2, Zenon DEF DepsInv, OverInv, Open, Passed, taskvars
<1>5. RequestInv'
      BY <1>0, <1>2, Zenon DEF RequestInv, Open, taskvars
<1>6. JobInv'
  <2>1. /\ deps[n.task] = {}
        /\ st[n.task] # UNKNOWN
        /\ n.light # NoLight => n.light \in LightOf(n.task)
        /\ n.light = NoLight => LightOf(n.task) = {}
        /\ Open => Active(st[n.task])
        BY <1>0, <1>1, Zenon DEF RequestInv
  <2> QED
      BY <1>0, <1>2, <2>1, Zenon DEF JobInv, Open, taskvars
<1>7. Unique'
      BY <1>0, <1>1, <1>2 DEF Unique, SameKey
<1>8. LightInv'
  <2> SUFFICES ASSUME Live', NEW t \in Task PROVE Cardinality(OutLights(t)') <= rlight'[t]
      BY Zenon DEF LightInv
  <2>1. OutLights(t)' = OutLights(t)
        BY <1>1, <1>2, Zenon DEF OutLights
  <2>2. Live /\ rlight' = rlight
        BY <1>2, Zenon DEF Live, taskvars
  <2> QED
      BY <1>0, <2>1, <2>2, Zenon DEF LightInv
<1>9. HeardInv'
  <2>1. Unreported' = Unreported
    <3>1. \A t : [task |-> t, light |-> NoLight, status |-> COMPLETED] # r
          BY <1>1
    <3> QED
        BY <1>2, <3>1, Zenon DEF Unreported
  <2> QED
      BY <1>0, <1>2, <2>1, Zenon DEF HeardInv, Live, taskvars
<1>10. CallInv' /\ QueryInv' /\ BudgetInv' /\ Orderly'
      BY <1>0, <1>2, ZenonT(60) DEF CallInv, QueryInv, BudgetInv, Orderly, Wanted, NeedsScan, Parsed,
                                    Retrying, taskvars, scanvars
<1> QED
    BY <1>3, <1>4, <1>5, <1>6, <1>7, <1>8, <1>9, <1>10, ZenonT(60) DEF EInv

(* The requests for the tasks of a set, all of one status and not light.    *)
LEMMA RequestsOfKind ==
    ASSUME NEW S \in SUBSET Task, NEW s \in Status
    PROVE  \A r \in [task : S, light : {NoLight}, status : {s}] :
              r \in Request /\ r.task \in S /\ r.light = NoLight /\ r.status = s
BY Zenon DEF Request

(* The part of oph_workflow_execute between two waits: it takes tasks that  *)
(* are not started yet and wait for nothing.                                *)
Having(S, fate, f) == {t \in S : fate[t] = f}
Fit(S, fate, badLight) ==
    ~PrepMayFail => badLight = {} /\ \A t \in S : fate[t] \in {"served", "void"}
Launch(S, fate, badLight) ==
    /\ S \subseteq Task /\ \A t \in S : st[t] = UNKNOWN /\ deps[t] = {}
    /\ fate \in [S -> Fates] /\ badLight \subseteq LightTask
    /\ Fit(S, fate, badLight) /\ Prepare(S, fate, badLight)
    /\ UNCHANGED <<phase, wstatus, cancel, deps, rdeps, retry, auto, marked, jobs>>

(* What it does to the statuses: those it can prepare become active, the    *)
(* others have ended, and what is below a bad one is aborted.               *)
Launched(S, fate) ==
    /\ st' \in [Task -> Status]
    /\ \A x \in AllBelow(Having(S, fate, "bad")) : x \in Task /\ deps[x] # {} /\ x \notin S
    /\ \A x \in S : /\ fate[x] = "served" => Active(st'[x])
                    /\ fate[x] = "void" => st'[x] = COMPLETED
                    /\ fate[x] \in {"wrong", "bad"} => st'[x] = ERROR
    /\ \A x \in Task \ S : \/ x \in AllBelow(Having(S, fate, "bad")) /\ st'[x] = ABORTED
                           \/ x \notin AllBelow(Having(S, fate, "bad")) /\ st'[x] = st[x]

(* That is what preparing the tasks does.                                   *)
LEMMA LaunchEffect ==
    ASSUME EInv, NEW S, NEW fate, NEW badLight, Launch(S, fate, badLight)
    PROVE  Launched(S, fate)
<1>0. TypeOK /\ DepsInv
      BY Zenon DEF EInv
<1> DEFINE good == Having(S, fate, "served")
           bad == Having(S, fate, "bad")
           void == Having(S, fate, "void")
<1>r. /\ S \subseteq Task /\ \A t \in S : st[t] = UNKNOWN /\ deps[t] = {}
      /\ bad \subseteq S /\ good \subseteq S /\ void \subseteq S
      BY Zenon DEF Launch, Having
<1>b. \A x \in AllBelow(bad) : x \in Task /\ deps[x] # {} /\ x \notin S
  <2>0. \A t \in S : ~Passed(t)
        BY <1>r DEF Passed
  <2>1. \A t \in bad : \A x \in Below(t) : x \in Task /\ deps[x] # {}
        BY <1>0, <1>r, <2>0, BelowWaits, BelowType, ZenonT(60)
  <2> QED
      BY <1>r, <2>1, Zenon DEF AllBelow
<1>1. st' = AbortBelow([t \in Task |->
              IF t \in good THEN IF LightOf(t) # {} /\ Retrying(t) THEN RUNNING ELSE PENDING
              ELSE IF t \in void THEN COMPLETED
              ELSE IF t \in S THEN ERROR ELSE st[t]], bad)
      BY Zenon DEF Launch, Prepare, Having
<1> HIDE DEF bad
<1>2. \A x \in Task :
         st'[x] = IF x \in AllBelow(bad) THEN ABORTED
                  ELSE IF x \in good THEN IF LightOf(x) # {} /\ Retrying(x) THEN RUNNING ELSE PENDING
                  ELSE IF x \in void THEN COMPLETED
                  ELSE IF x \in S THEN ERROR ELSE st[x]
      BY <1>1, Zenon DEF AbortBelow
<1>3. st' \in [Task -> Status]
  <2>1. ABORTED \in Status /\ RUNNING \in Status /\ PENDING \in Status /\ COMPLETED \in Status /\ ERROR \in Status
        OBVIOUS
  <2>2. \A x \in Task : st'[x] \in Status
        BY <1>0, <1>2, <2>1, Zenon DEF TypeOK
  <2> QED
      BY <1>1, <2>2, Zenon DEF AbortBelow
<1>4. \A x \in S : /\ fate[x] = "served" => Active(st'[x])
                   /\ fate[x] = "void" => st'[x] = COMPLETED
                   /\ fate[x] \in {"wrong", "bad"} => st'[x] = ERROR
  <2>1. \A x \in S : (x \in good <=> fate[x] = "served") /\ (x \in void <=> fate[x] = "void")
        BY Zenon DEF Having
  <2> HIDE DEF good, void
  <2>2. \A x \in S : x \notin AllBelow(bad) /\ x \in Task
        BY <1>r, <1>b, Zenon
  <2>3. Active(RUNNING) /\ Active(PENDING)
        OBVIOUS
  <2> HIDE DEF Active, Status
  <2> QED
      BY <1>2, <2>1, <2>2, <2>3, ZenonT(60)
<1>5. \A x \in Task \ S : \/ x \in AllBelow(bad) /\ st'[x] = ABORTED
                          \/ x \notin AllBelow(bad) /\ st'[x] = st[x]
      BY <1>r, <1>2, Zenon
<1> QED
    BY <1>b, <1>3, <1>4, <1>5, Zenon DEF Launched, bad

(* Nothing of the tasks it takes is in execution, so that it keeps the      *)
(* invariant as far as the calls are not concerned.                         *)
LEMMA LaunchKeeps ==
    ASSUME EInv, NEW S, NEW fate, NEW badLight, Launch(S, fate, badLight)
    PROVE  /\ st' \in [Task -> Status] /\ lst' \in [LightTask -> Status] /\ residual' \in Int
           /\ rlight' \in [Task -> Int] /\ requests' \subseteq Request
           /\ DepsInv' /\ HeardInv' /\ RequestInv' /\ JobInv' /\ Unique' /\ LightInv' /\ OverInv'
           /\ BudgetInv'
<1>0. /\ TypeOK /\ DepsInv /\ HeardInv /\ RequestInv /\ JobInv /\ Unique /\ LightInv /\ OverInv
      /\ BudgetInv
      BY Zenon DEF EInv
<1>u. /\ UNCHANGED <<phase, wstatus, cancel, deps, rdeps, retry, auto, marked, jobs>>
      /\ S \subseteq Task /\ \A t \in S : st[t] = UNKNOWN /\ deps[t] = {}
      /\ badLight \subseteq LightTask /\ \A t \in S : fate[t] \in Fates
      BY Zenon DEF Launch
<1>e. Launched(S, fate)
      BY LaunchEffect, Zenon
<1> DEFINE good == Having(S, fate, "served")
           bad == Having(S, fate, "bad")
           void == Having(S, fate, "void")
           failed == bad \cup Having(S, fate, "wrong")
           light == {p \in LightTask : p[1] \in good}
           served == {p \in light : ToBeServed(p)} \ badLight
           newLst == [p \in LightTask |-> IF p \in served THEN PENDING
                                          ELSE IF p \in badLight THEN ERROR ELSE lst[p]]
           single == [task : {t \in good : LightOf(t) = {}}, light : {NoLight}, status : {PENDING}]
           done == [task : void, light : {NoLight}, status : {COMPLETED}]
           report == [task : failed, light : {NoLight}, status : {ERROR}]
           massive == {[task |-> p[1], light |-> p[2], status |-> newLst[p]] : p \in light}
<1>g. /\ good \subseteq S /\ void \subseteq S /\ failed \subseteq S /\ bad \subseteq S
      /\ good \cap void = {} /\ good \cap failed = {} /\ void \cap failed = {}
      BY Zenon DEF Having
<1>f. /\ \A x \in good : fate[x] = "served"
      /\ \A x \in void : fate[x] = "void"
      /\ \A x \in failed : fate[x] \in {"wrong", "bad"}
      BY Zenon DEF Having
<1>q. /\ lst' = newLst /\ requests' = requests \cup (done \cup report) \cup single \cup massive
      /\ residual' = residual - AbortedBelow(bad)
      /\ rlight' = [t \in Task |-> IF t \in good THEN Cardinality(LightOf(t)) ELSE rlight[t]]
      BY Zenon DEF Launch, Prepare, Having
<1>l. /\ light \subseteq LightTask
      /\ \A p \in light : /\ p[1] \in good /\ p[1] \in Task /\ p[2] \in LightOf(p[1]) /\ p[2] \in Nat
                          /\ p = <<p[1], p[2]>>
  <2>1. light \subseteq LightTask /\ \A p \in light : p[1] \in good
        BY Zenon
  <2>2. \A p \in LightTask : /\ p[1] \in Task /\ p[2] \in LightOf(p[1]) /\ p[2] \in Nat
                             /\ p = <<p[1], p[2]>>
        BY LightFinite, SMTT(30) DEF LightTask
  <2> QED
      BY <2>1, <2>2, Zenon
<1>n. newLst \in [LightTask -> Status]
  <2>1. PENDING \in Status /\ ERROR \in Status /\ lst \in [LightTask -> Status]
        BY <1>0 DEF TypeOK
  <2> QED
      BY <2>1, Zenon
<1> HIDE DEF good, bad, void, failed
<1>v. /\ \A r \in single : /\ r \in Request /\ r.task \in good /\ LightOf(r.task) = {}
                           /\ r.light = NoLight /\ r.status = PENDING
      /\ \A r \in done : /\ r \in Request /\ r.task \in void
                         /\ r.light = NoLight /\ r.status = COMPLETED
      /\ \A r \in report : /\ r \in Request /\ r.task \in failed
                           /\ r.light = NoLight /\ r.status = ERROR
      /\ \A r \in massive : /\ r \in Request /\ r.task \in good /\ r.light \in LightOf(r.task)
                            /\ r.light \in Nat /\ r.light # NoLight
  <2> HIDE DEF newLst
  <2>0. PENDING \in Status /\ COMPLETED \in Status /\ ERROR \in Status
        OBVIOUS
  <2>1. \A r \in single : /\ r \in Request /\ r.task \in good /\ LightOf(r.task) = {}
                          /\ r.light = NoLight /\ r.status = PENDING
    <3>1. {t \in good : LightOf(t) = {}} \subseteq Task
          BY <1>u, <1>g, Zenon
    <3> QED
        BY <2>0, <3>1, RequestsOfKind, Zenon
  <2>2. \A r \in done : r \in Request /\ r.task \in void /\ r.light = NoLight /\ r.status = COMPLETED
    <3>1. void \in SUBSET Task
          BY <1>u, <1>g, Zenon
    <3> QED
        BY <2>0, <3>1, RequestsOfKind, ZenonT(60)
  <2>3. \A r \in report : r \in Request /\ r.task \in failed /\ r.light = NoLight /\ r.status = ERROR
    <3>1. failed \in SUBSET Task
          BY <1>u, <1>g, Zenon
    <3> QED
        BY <2>0, <3>1, RequestsOfKind, ZenonT(60)
  <2>4. \A r \in massive : /\ r \in Request /\ r.task \in good /\ r.light \in LightOf(r.task)
                           /\ r.light \in Nat /\ r.light # NoLight
        BY <1>l, <1>n DEF Request, NoLight
  <2> QED
      BY <2>1, <2>2, <2>3, <2>4, Zenon
<1>k. \A x, y \in massive : x.task = y.task /\ x.light = y.light => x = y
  <2> SUFFICES ASSUME NEW p \in light, NEW q \in light, p[1] = q[1], p[2] = q[2] PROVE p = q
      OBVIOUS
  <2> QED
      BY <1>l, Zenon
<1>w. \A x \in void : [task |-> x, light |-> NoLight, status |-> COMPLETED] \in done
      BY Zenon
<1> HIDE DEF single, done, report, massive, newLst, light, served
<1>s. /\ st' \in [Task -> Status]
      /\ \A x \in good : Active(st'[x]) /\ st'[x] # UNKNOWN
      /\ \A x \in void : st'[x] = COMPLETED /\ st'[x] # UNKNOWN
      /\ \A x \in failed : Ended(st'[x]) /\ st'[x] # UNKNOWN /\ st'[x] \notin {COMPLETED, SKIPPED}
  <2>1. /\ st' \in [Task -> Status]
        /\ \A x \in good : Active(st'[x])
        /\ \A x \in void : st'[x] = COMPLETED
        /\ \A x \in failed : st'[x] = ERROR
        BY <1>e, <1>f, <1>g, Zenon DEF Launched
  <2>2. Ended(ERROR) /\ ERROR # UNKNOWN /\ ERROR \notin {COMPLETED, SKIPPED} /\ COMPLETED # UNKNOWN /\ ~Active(UNKNOWN)
        OBVIOUS
  <2> HIDE DEF Active, Ended
  <2> QED
      BY <2>1, <2>2, Zenon
<1>d. S \subseteq good \cup void \cup failed
      BY <1>u, Zenon DEF good, void, failed, bad, Having, Fates
<1>x. \A x \in Task \ S : st'[x] = st[x] \/ (deps[x] # {} /\ st'[x] = ABORTED)
      BY <1>e, Zenon DEF Launched
<1>o. /\ \A r \in requests : r.task \in Task /\ r.task \notin S /\ st'[r.task] = st[r.task]
      /\ \A j \in jobs : j.task \in Task /\ j.task \notin S /\ st'[j.task] = st[j.task]
  <2>1. \A r \in requests : r.task \in Task /\ deps[r.task] = {} /\ st[r.task] # UNKNOWN
        BY <1>0, Zenon DEF TypeOK, Request, RequestInv
  <2>2. \A j \in jobs : j.task \in Task /\ deps[j.task] = {} /\ st[j.task] # UNKNOWN
        BY <1>0, Zenon DEF TypeOK, Job, JobInv
  <2> QED
      BY <1>u, <1>x, <2>1, <2>2, ZenonT(60)
<1>1. residual' \in Int
  <2>1. residual \in Int /\ AbortedBelow(bad) \in Nat /\ residual' = residual - AbortedBelow(bad)
        BY <1>0, <1>q, <1>u, <1>g, AbortedType, ZenonT(60) DEF TypeOK
  <2> QED
      BY <2>1
<1>2. rlight' \in [Task -> Int]
      BY <1>0, <1>q, LightFinite DEF TypeOK
<1>3. requests' \subseteq Request
      BY <1>0, <1>q, <1>v, ZenonT(60) DEF TypeOK
<1>p. \A d \in S : ~Passed(d)
      BY <1>u DEF Passed
<1>4. DepsInv'
  <2>1. \A x \in Task : st'[x] \notin {UNKNOWN, ABORTED} => deps[x] = {}
        BY <1>0, <1>u, <1>x, Zenon DEF DepsInv
  <2>2. \A d \in Task : Passed(d) /\ deps[d] = {} => Passed(d)'
        BY <1>p, <1>x, ZenonT(60) DEF Passed
  <2> QED
      BY <1>0, <1>u, <2>1, <2>2, DepsAssumption, ZenonT(60) DEF DepsInv
<1>5. HeardInv'
  <2> SUFFICES ASSUME Live', ~PrepMayFail, NEW x \in Task, NEW d \in deps'[x],
                      st'[d] \in {COMPLETED, SKIPPED}
               PROVE  d \in Unreported'
      BY Zenon DEF HeardInv
  <2>1. Live /\ d \in deps[x] /\ d \in Task
        BY <1>0, <1>u, Zenon DEF Live, TypeOK
  <2>2. requests \subseteq requests' /\ done \subseteq requests'
        BY <1>q, Zenon
  <2>3. CASE d \in S
    <3>1. d \in void
      <4>1. \A y \in good : st'[y] \notin {COMPLETED, SKIPPED}
            BY <1>s
      <4> QED
          BY <1>s, <1>d, <2>3, <4>1, Zenon
    <3> QED
        BY <1>w, <2>1, <2>2, <3>1, Zenon DEF Unreported
  <2>4. CASE d \notin S
    <3>1. st[d] \in {COMPLETED, SKIPPED}
      <4>1. ABORTED \notin {COMPLETED, SKIPPED}
            OBVIOUS
      <4> QED
          BY <1>x, <2>1, <2>4, <4>1, Zenon
    <3>2. d \in Unreported
          BY <1>0, <2>1, <3>1, Zenon DEF HeardInv
    <3> QED
        BY <2>2, <3>2, Zenon DEF Unreported
  <2> QED
      BY <2>3, <2>4, Zenon
<1>6. RequestInv'
  <2>2. wstatus' = wstatus /\ deps' = deps
        BY <1>u, Zenon
  <2>3. \A r \in single \cup report \cup massive \cup done : r.task \in S /\ r.task \in Task /\ deps'[r.task] = {}
        BY <1>v, <1>u, <1>g, ZenonT(60)
  <2>4. \A r \in single : LightOf(r.task) = {} /\ r.light = NoLight /\ r.status = PENDING /\ Active(st'[r.task]) /\ st'[r.task] # UNKNOWN
        BY <1>v, <1>s, ZenonT(60)
  <2>5. \A r \in report : r.light = NoLight /\ r.status = ERROR /\ Ended(st'[r.task]) /\ st'[r.task] # UNKNOWN
        BY <1>v, <1>s, ZenonT(60)
  <2>6. \A r \in massive : r.light # NoLight /\ r.light \in LightOf(r.task) /\ Active(st'[r.task]) /\ st'[r.task] # UNKNOWN
        BY <1>v, <1>s, ZenonT(60)
  <2>7. \A r \in done : /\ r.light = NoLight /\ r.status = COMPLETED /\ st'[r.task] = COMPLETED /\ st'[r.task] # UNKNOWN
                        /\ \A t \in Dependents(r.task) : r.task \in deps'[t]
    <3>1. \A x \in S : \A t \in Dependents(x) : x \in deps[t]
          BY <1>0, <1>u, <1>p, Zenon DEF Dependents, DepsInv
    <3> QED
        BY <1>v, <1>s, <2>2, <2>3, <3>1, ZenonT(60)
  <2> SUFFICES ASSUME NEW r \in requests'
               PROVE  /\ deps'[r.task] = {}
                      /\ st'[r.task] # UNKNOWN
                      /\ r.light # NoLight => r.light \in LightOf(r.task)
                      /\ r.light = NoLight /\ r.status = PENDING => LightOf(r.task) = {}
                      /\ r.light = NoLight /\ r.status # PENDING =>
                            \/ r.status = ERROR /\ Ended(st'[r.task])
                            \/ /\ r.status = COMPLETED /\ st'[r.task] = COMPLETED
                               /\ \A t \in Dependents(r.task) : r.task \in deps'[t]
                      /\ Open' /\ (r.light # NoLight \/ r.status = PENDING) => Active(st'[r.task])
      BY Zenon DEF RequestInv
  <2>8. CASE r \in requests
        BY <1>0, <1>o, <2>2, <2>8, ZenonT(60) DEF RequestInv, Open
  <2>9. PENDING # ERROR /\ PENDING # COMPLETED
        OBVIOUS
  <2>10. CASE r \in single \cup massive
        BY <2>3, <2>4, <2>6, <2>10, Zenon
  <2>11. CASE r \in report \cup done
        BY <2>3, <2>5, <2>7, <2>9, <2>11, Zenon
  <2> QED
      BY <1>q, <2>8, <2>10, <2>11, ZenonT(60)
<1>7. JobInv'
      BY <1>0, <1>u, <1>o, ZenonT(60) DEF JobInv, Open
<1>8. Unique'
  <2>1. \A r \in single \cup done \cup report \cup massive : r.task \in S
        BY <1>v, <1>g, Zenon
  <2>2. \A x, y \in single \cup done \cup report \cup massive : SameKey(x, y) => x = y
    <3>1. \A x, y \in single : SameKey(x, y) => x = y
          BY DEF single, SameKey
    <3>2. \A x, y \in report : SameKey(x, y) => x = y
          BY DEF report, SameKey
    <3>3. \A x, y \in done : SameKey(x, y) => x = y
          BY DEF done, SameKey
    <3>4. \A x \in single : \A y \in report \cup done : ~SameKey(x, y) /\ ~SameKey(y, x)
          BY <1>v, <1>g, ZenonT(60) DEF SameKey
    <3>5. \A x \in report : \A y \in done : ~SameKey(x, y) /\ ~SameKey(y, x)
          BY <1>v, <1>g, ZenonT(60) DEF SameKey
    <3>6. \A x \in single \cup report \cup done : \A y \in massive : ~SameKey(x, y) /\ ~SameKey(y, x)
          BY <1>v, ZenonT(60) DEF SameKey
    <3>7. \A x, y \in massive : SameKey(x, y) => x = y
          BY <1>k, Zenon DEF SameKey
    <3> QED
        BY <3>1, <3>2, <3>3, <3>4, <3>5, <3>6, <3>7, ZenonT(60)
  <2>3. \A x \in single \cup done \cup report \cup massive : \A y \in requests \cup jobs : ~SameKey(x, y) /\ ~SameKey(y, x)
        BY <1>o, <2>1, Zenon DEF SameKey
  <2> DEFINE new == single \cup done \cup report \cup massive
  <2>4. requests' = requests \cup new
        BY <1>q, Zenon
  <2> HIDE DEF new
  <2>5. /\ \A x, y \in new : SameKey(x, y) => x = y
        /\ \A x \in new : \A y \in requests \cup jobs : ~SameKey(x, y) /\ ~SameKey(y, x)
        BY <2>2, <2>3, Zenon DEF new
  <2> QED
      BY <1>0, <1>u, <2>4, <2>5, ZenonT(60) DEF Unique
<1>9. LightInv'
  <2> SUFFICES ASSUME Live', NEW x \in Task PROVE Cardinality(OutLights(x)') <= rlight'[x]
      BY Zenon DEF LightInv
  <2>1. CASE x \in good
    <3>1. OutLights(x)' \subseteq LightOf(x) /\ rlight'[x] = Cardinality(LightOf(x))
          BY <1>q, <2>1, Zenon DEF OutLights
    <3> QED
        BY <3>1, LightFinite, FS_Subset, ZenonT(60)
  <2>2. CASE x \notin good
    <3>1. NoLight \notin LightOf(x)
          BY LightFinite DEF NoLight
    <3>2. OutLights(x)' = OutLights(x)
          BY <1>u, <1>q, <1>v, <2>2, <3>1, ZenonT(60) DEF OutLights
    <3>3. rlight'[x] = rlight[x] /\ Live
          BY <1>q, <1>u, <2>2, ZenonT(60) DEF Live
    <3> QED
        BY <1>0, <3>2, <3>3, ZenonT(60) DEF LightInv
  <2> QED
      BY <2>1, <2>2, Zenon
<1>10. OverInv' /\ BudgetInv'
      BY <1>0, <1>u, Zenon DEF OverInv, Open, BudgetInv
<1>11. lst' \in [LightTask -> Status]
      BY <1>q, <1>n, Zenon
<1> QED
    BY <1>s, <1>1, <1>2, <1>3, <1>4, <1>5, <1>6, <1>7, <1>8, <1>9, <1>10, <1>11, ZenonT(60)

(* The call that took the tasks: it has the tasks W in its hands, of which  *)
(* S are now started; the other calls have none of those with a filter to   *)
(* be scanned.  It is over, or it waits for a scan again.                   *)
AloneWith(W, S, waiting, asked) ==
    /\ W \subseteq Task /\ S \subseteq W
    /\ waiting \subseteq scans /\ asked \subseteq queries
    /\ execs' \subseteq execs /\ answered' = answered /\ phase # "freed"
    /\ \A c \in execs' : c.tasks \cap W \cap Scanned = {}
    /\ \A z \in waiting : Wanted(z) \cap W \cap Scanned = {}
    /\ \A x \in W \cap Scanned : deps[x] = {} /\ st[x] \in {UNKNOWN, ABORTED}
    /\ \A q \in asked : \E z \in waiting : z.by = q.by /\ z.task = q.task
    /\ \A z \in scans \ waiting : z.task \in S
WaitsAgain(W, S, waiting, asked, z) ==
    /\ z \in Scan /\ z.task \in W \ S /\ z.rest \subseteq W \ S /\ z.task \notin z.rest
    /\ NeedsScan(z.task) /\ st[z.task] = UNKNOWN
    /\ scans' = waiting \cup {z}
    /\ queries' = asked \cup {[by |-> z.by, task |-> z.task]}
Resumes(W, S, waiting, asked) ==
    /\ AloneWith(W, S, waiting, asked)
    /\ \/ scans' = waiting /\ queries' = asked
       \/ \E z \in Scan : WaitsAgain(W, S, waiting, asked, z)

(* Such a call keeps what is known of the calls and the scans.              *)
LEMMA ResumesKeeps ==
    ASSUME EInv, NEW S, NEW fate, NEW badLight, Launch(S, fate, badLight),
           NEW W, NEW waiting, NEW asked, Resumes(W, S, waiting, asked)
    PROVE  /\ execs' \subseteq CallOfExecute /\ scans' \subseteq Scan /\ queries' \subseteq Query
           /\ answered' \subseteq Task /\ CallInv' /\ QueryInv'
<1>0. TypeOK /\ CallInv /\ QueryInv /\ Launched(S, fate) /\ AloneWith(W, S, waiting, asked)
      BY LaunchEffect, Zenon DEF EInv, Resumes
<1>a. /\ W \subseteq Task /\ S \subseteq W
      /\ waiting \subseteq scans /\ asked \subseteq queries
      /\ execs' \subseteq execs /\ answered' = answered /\ phase # "freed"
      /\ \A c \in execs' : c.tasks \cap W \cap Scanned = {}
      /\ \A z \in waiting : Wanted(z) \cap W \cap Scanned = {}
      /\ \A x \in W \cap Scanned : deps[x] = {} /\ st[x] \in {UNKNOWN, ABORTED}
      /\ \A q \in asked : \E z \in waiting : z.by = q.by /\ z.task = q.task
      /\ \A z \in scans \ waiting : z.task \in S
      BY <1>0, Zenon DEF AloneWith
<1>u. deps' = deps /\ auto' = auto /\ phase' = phase /\ S \subseteq Task /\ \A x \in S : st[x] = UNKNOWN
      BY Zenon DEF Launch
<1>s. /\ \A x \in Task \ S : deps[x] = {} => st'[x] = st[x]
      /\ \A x \in Task : st'[x] = UNKNOWN => x \notin S /\ st[x] = UNKNOWN
  <2>1. \A x \in Task \ S : deps[x] = {} => st'[x] = st[x]
        BY <1>0, Zenon DEF Launched
  <2>2. \A x \in S : st'[x] # UNKNOWN
    <3>1. \A x \in S : fate[x] \in {"served", "void", "wrong", "bad"}
          BY Zenon DEF Launch, Fates
    <3>2. \A x \in S : Active(st'[x]) \/ st'[x] = COMPLETED \/ st'[x] = ERROR
          BY <1>0, <3>1, Zenon DEF Launched
    <3>3. ~Active(UNKNOWN) /\ COMPLETED # UNKNOWN /\ ERROR # UNKNOWN
          OBVIOUS
    <3> HIDE DEF Active
    <3> QED
        BY <3>2, <3>3, Zenon
  <2>3. \A x \in Task \ S : st'[x] = st[x] \/ st'[x] = ABORTED
        BY <1>0, Zenon DEF Launched
  <2>4. ABORTED # UNKNOWN
        OBVIOUS
  <2> QED
      BY <2>1, <2>2, <2>3, <2>4, ZenonT(60)
<1>n. \A x \in Task : NeedsScan(x)' = NeedsScan(x) /\ Parsed(x)' = Parsed(x)
      BY <1>u, Zenon DEF NeedsScan, Parsed, Retrying
<1>t. /\ \A c \in execs : c.tasks \subseteq Task
      /\ \A z \in scans : Wanted(z) \subseteq Task /\ z.task \in Task
      BY <1>0, Zenon DEF TypeOK, CallOfExecute, Scan, Wanted
<1>1. \A c \in execs' : \A x \in c.tasks \cap Scanned : deps'[x] = {} /\ st'[x] \in {UNKNOWN, ABORTED}
  <2> SUFFICES ASSUME NEW c \in execs', NEW x \in c.tasks \cap Scanned
               PROVE  deps'[x] = {} /\ st'[x] \in {UNKNOWN, ABORTED}
      BY Zenon
  <2>1. c \in execs /\ x \in Task /\ deps[x] = {} /\ st[x] \in {UNKNOWN, ABORTED} /\ x \notin S
        BY <1>0, <1>a, <1>t, ZenonT(60) DEF CallInv
  <2> QED
      BY <1>u, <1>s, <2>1, Zenon
<1> DEFINE Kept(z) == /\ z.task \in Scanned /\ st'[z.task] = UNKNOWN
                      /\ NeedsScan(z.task)' /\ z.task \notin z.rest
                      /\ \A x \in Wanted(z) \cap Scanned : deps'[x] = {} /\ st'[x] \in {UNKNOWN, ABORTED}
<1>2. \A z \in waiting : Kept(z)
  <2> SUFFICES ASSUME NEW z \in waiting PROVE Kept(z)
      BY Zenon
  <2>1. /\ z \in scans /\ z.task \in Scanned /\ z.task \in Task /\ NeedsScan(z.task) /\ z.task \notin z.rest
        /\ z.task \in Wanted(z) /\ st[z.task] = UNKNOWN
        /\ \A x \in Wanted(z) \cap Scanned : x \in Task /\ x \notin S /\ deps[x] = {} /\ st[x] \in {UNKNOWN, ABORTED}
        BY <1>0, <1>a, <1>t, ZenonT(60) DEF CallInv, Wanted
  <2>2. \A x \in Wanted(z) \cap Scanned : deps'[x] = {} /\ st'[x] = st[x]
        BY <1>u, <1>s, <2>1, Zenon
  <2> QED
      BY <1>n, <2>1, <2>2, Zenon
<1>3. ASSUME NEW z, WaitsAgain(W, S, waiting, asked, z) PROVE Kept(z)
  <2>1. /\ z.task \in Task /\ z.task \notin S /\ NeedsScan(z.task) /\ st[z.task] = UNKNOWN /\ z.task \notin z.rest
        /\ Wanted(z) \subseteq W \ S
        BY <1>3, <1>a, Zenon DEF WaitsAgain, Wanted
  <2>2. z.task \in Scanned /\ z.task \in Wanted(z)
        BY <2>1, Zenon DEF NeedsScan, Wanted
  <2>3. \A x \in Wanted(z) \cap Scanned :
           deps'[x] = {} /\ st'[x] = st[x] /\ st[x] \in {UNKNOWN, ABORTED}
        BY <1>a, <1>u, <1>s, <2>1, ZenonT(60)
  <2> QED
      BY <1>n, <2>1, <2>2, <2>3, Zenon
<1> HIDE DEF Kept
<1>4. CallInv' /\ scans' \subseteq Scan
  <2>1. /\ \A c, d \in execs' : c # d => c.tasks \cap d.tasks \cap Scanned = {}
        /\ \A z, y \in waiting : z # y => Wanted(z) \cap Wanted(y) \cap Scanned = {}
        /\ \A c \in execs' : \A z \in waiting : c.tasks \cap Wanted(z) \cap Scanned = {}
        BY <1>0, <1>a, ZenonT(60) DEF CallInv
  <2>2. waiting \subseteq Scan
        BY <1>0, <1>a, Zenon DEF TypeOK
  <2>3. CASE scans' = waiting
        BY <1>1, <1>2, <2>1, <2>2, <2>3, ZenonT(60) DEF CallInv, Wanted, Kept
  <2>4. ASSUME NEW z \in Scan, WaitsAgain(W, S, waiting, asked, z) PROVE CallInv' /\ scans' \subseteq Scan
    <3>1. scans' = waiting \cup {z} /\ Kept(z) /\ Wanted(z) \subseteq W
          BY <1>3, <2>4, Zenon DEF WaitsAgain, Wanted
    <3>2. /\ \A y \in waiting : Wanted(z) \cap Wanted(y) \cap Scanned = {}
          /\ \A c \in execs' : c.tasks \cap Wanted(z) \cap Scanned = {}
          BY <1>a, <3>1, Zenon
    <3>3. \A y \in scans' : Kept(y)
          BY <1>2, <3>1, Zenon
    <3>4. \A x, y \in scans' : x # y => Wanted(x) \cap Wanted(y) \cap Scanned = {}
          BY <2>1, <3>1, <3>2, ZenonT(60)
    <3>5. \A c \in execs' : \A y \in scans' : c.tasks \cap Wanted(y) \cap Scanned = {}
          BY <2>1, <3>1, <3>2, Zenon
    <3>6. CallInv'
          BY <1>1, <2>1, <3>3, <3>4, <3>5, ZenonT(60) DEF CallInv, Wanted, Kept
    <3> QED
        BY <2>2, <3>1, <3>6, Zenon
  <2> QED
      BY <2>3, <2>4, Zenon DEF Resumes
<1>5. QueryInv' /\ queries' \subseteq Query
  <2>0. /\ \A q \in queries : q.task \notin answered /\ q \in Query
        /\ \A t \in answered : st[t] = UNKNOWN => ~Parsed(t) \/ \E z \in scans : z.task = t
        /\ answered \subseteq Task
        BY <1>0, <1>a, Zenon DEF QueryInv, TypeOK
  <2>1. waiting \subseteq scans' => \A t \in answered' : st'[t] = UNKNOWN =>
                                       ~Parsed(t)' \/ \E z \in scans' : z.task = t
    <3> SUFFICES ASSUME waiting \subseteq scans', NEW t \in answered, st'[t] = UNKNOWN
                 PROVE  ~Parsed(t)' \/ \E z \in scans' : z.task = t
        BY <1>a, Zenon
    <3>1. t \in Task /\ t \notin S /\ st[t] = UNKNOWN
          BY <1>s, <2>0, Zenon
    <3>2. ~Parsed(t) \/ \E z \in scans : z.task = t
          BY <2>0, <3>1, Zenon
    <3> QED
        BY <1>a, <1>n, <3>1, <3>2, Zenon
  <2>2. CASE scans' = waiting /\ queries' = asked
        BY <1>a, <1>u, <2>0, <2>1, <2>2, ZenonT(60) DEF QueryInv
  <2>3. ASSUME NEW z \in Scan, WaitsAgain(W, S, waiting, asked, z) PROVE QueryInv' /\ queries' \subseteq Query
    <3> DEFINE n == [by |-> z.by, task |-> z.task]
    <3>1. n \in Query /\ n.by = z.by /\ n.task = z.task
          BY Zenon DEF Query, Scan
    <3>2. queries' = asked \cup {n} /\ scans' = waiting \cup {z}
          BY <2>3, Zenon DEF WaitsAgain
    <3> HIDE DEF n
    <3>3. z.task \notin answered
      <4> SUFFICES ASSUME z.task \in answered PROVE FALSE
          BY Zenon
      <4>1. z.task \in W /\ z.task \notin S /\ z.task \in Scanned /\ Parsed(z.task) /\ st[z.task] = UNKNOWN
            BY <2>3, Zenon DEF WaitsAgain, NeedsScan
      <4>2. PICK y \in scans : y.task = z.task
            BY <2>0, <4>1, Zenon
      <4>3. y \in waiting /\ z.task \in Wanted(y)
            BY <1>a, <4>1, <4>2, Zenon DEF Wanted
      <4> QED
          BY <1>a, <4>1, <4>3, Zenon
    <3>4. \A q \in queries' : q \in Query /\ q.task \notin answered /\ \E y \in scans' : y.by = q.by /\ y.task = q.task
          BY <1>a, <2>0, <3>1, <3>2, <3>3, ZenonT(60)
    <3> QED
        BY <1>a, <2>1, <3>2, <3>4, ZenonT(60) DEF QueryInv
  <2> QED
      BY <2>2, <2>3, Zenon DEF Resumes
<1>6. execs' \subseteq CallOfExecute /\ answered' \subseteq Task
      BY <1>0, <1>a, Zenon DEF TypeOK
<1> QED
    BY <1>4, <1>5, <1>6, Zenon

(* The call that takes the tasks of W and starts those of S.  Of a workflow *)
(* that has ended it starts some only when it was waiting for a scan.       *)
Taken(W, S) ==
    \/ \E c \in execs : W = c.tasks /\ (S = {} \/ wstatus < COMPLETED)
    \/ \E z \in scans : W = Wanted(z) /\ z \notin scans'

Launches(S, fate, badLight) ==
    /\ Launch(S, fate, badLight)
    /\ \E W \in SUBSET Task : Taken(W, S) /\ \E waiting, asked : Resumes(W, S, waiting, asked)

(* Where the loop over the tasks starts from: the call s has its tasks for  *)
(* itself.                                                                  *)
Starting(s, fates, ready, waiting, asked) ==
    LET scanned == {s.task} \ {NoTask}
    IN  /\ AloneWith(scanned \cup s.rest, scanned, waiting, asked)
        /\ s.by \in Task \cup {NoTask} /\ s.held \subseteq Task /\ s.task \notin s.rest
        /\ ready \subseteq s.rest
        /\ \A t \in scanned \cup ready : st[t] = UNKNOWN /\ deps[t] = {}
        /\ {"wrong", "bad"} \cap fates # {} => PrepMayFail
        /\ UNCHANGED <<phase, wstatus, cancel, deps, rdeps, retry, auto, marked, jobs>>

(* What the loop comes to: a Launch, after which the call is over or waits. *)
Looped(s, ready, waiting, asked) ==
    LET scanned == {s.task} \ {NoTask}
    IN  \E now \in SUBSET ready : \E fate, badLight :
          /\ Launch(scanned \cup now, fate, badLight)
          /\ Resumes(scanned \cup s.rest, scanned \cup now, waiting, asked)

(* The loop is a Launch, and the call goes on to its end or waits again.    *)
LEMMA LoopLaunches ==
    ASSUME NEW s, NEW fates, NEW ready, NEW waiting, NEW asked,
           Starting(s, fates, ready, waiting, asked), Loop(s, fates, ready, waiting, asked)
    PROVE  Looped(s, ready, waiting, asked)
<1> DEFINE scanned == {s.task} \ {NoTask}
           W == scanned \cup s.rest
<1>0. /\ AloneWith(W, scanned, waiting, asked)
      /\ s.by \in Task \cup {NoTask} /\ s.held \subseteq Task /\ s.task \notin s.rest
      /\ ready \subseteq s.rest
      /\ \A t \in scanned \cup ready : st[t] = UNKNOWN /\ deps[t] = {}
      /\ {"wrong", "bad"} \cap fates # {} => PrepMayFail
      /\ UNCHANGED <<phase, wstatus, cancel, deps, rdeps, retry, auto, marked, jobs>>
      BY Zenon DEF Starting
<1>w. W \subseteq Task /\ scanned \subseteq W /\ ready \subseteq W /\ scanned \cap s.rest = {}
  <2>1. W \subseteq Task
        BY <1>0, Zenon DEF AloneWith
  <2>2. scanned \subseteq W /\ ready \subseteq W /\ scanned \cap s.rest = {}
        BY <1>0, Zenon
  <2> QED
      BY <2>1, <2>2, Zenon
<1> DEFINE Goes(now) ==
      \/ now = ready /\ scans' = waiting /\ queries' = asked
      \/ \E t \in ready \ now : \E rest \in SUBSET (s.rest \ (now \cup {t})) :
            /\ NeedsScan(t)
            /\ ready \subseteq now \cup {t} \cup rest
            /\ scans' = waiting \cup {[by |-> s.by, task |-> t, rest |-> rest,
                                      held |-> s.held \cup scanned \cup now]}
            /\ queries' = asked \cup {[by |-> s.by, task |-> t]}
<1>1. PICK now \in SUBSET ready :
        /\ \E fate \in [scanned \cup now -> Fates] :
           \E badLight \in SUBSET {p \in LightTask : p[1] \in scanned \cup now /\ ToBeServed(p)} :
               /\ \A t \in scanned : fate[t] \in fates
               /\ \A t \in now : fate[t] \in FatesOf(t, {x \in Task : ~NeedsScan(x)})
               /\ \A p \in badLight : PrepMayFail /\ fate[p[1]] = "served"
               /\ Prepare(scanned \cup now, fate, badLight)
        /\ Goes(now)
      BY ZenonT(60) DEF Loop
<1> DEFINE S == scanned \cup now
<1>2. PICK fate \in [S -> Fates],
           badLight \in SUBSET {p \in LightTask : p[1] \in scanned \cup now /\ ToBeServed(p)} :
               /\ \A t \in scanned : fate[t] \in fates
               /\ \A t \in now : fate[t] \in FatesOf(t, {x \in Task : ~NeedsScan(x)})
               /\ \A p \in badLight : PrepMayFail
               /\ Prepare(S, fate, badLight)
      BY <1>1, ZenonT(60)
<1>g. Goes(now)
      BY <1>1, Zenon
<1> HIDE DEF Goes
<1>s. S \subseteq W /\ S \subseteq Task /\ (\A t \in S : st[t] = UNKNOWN /\ deps[t] = {})
      BY <1>0, <1>1, <1>w, ZenonT(60)
<1>f. Fit(S, fate, badLight)
  <2>1. ASSUME ~PrepMayFail, NEW t \in S PROVE fate[t] \notin {"wrong", "bad"}
    <3>1. CASE t \in scanned
          BY <1>0, <1>2, <2>1, <3>1, Zenon
    <3>2. CASE t \in now
          BY <1>2, <2>1, <3>2, Zenon DEF FatesOf
    <3> QED
        BY <3>1, <3>2, Zenon
  <2>2. ~PrepMayFail => badLight = {}
        BY <1>2, Zenon
  <2>3. \A t \in S : fate[t] \in Fates
        BY <1>2, Zenon
  <2> HIDE DEF S
  <2> QED
      BY <2>1, <2>2, <2>3, Zenon DEF Fit, Fates
<1>3. Launch(S, fate, badLight)
  <2>1. badLight \subseteq LightTask /\ fate \in [S -> Fates] /\ Prepare(S, fate, badLight)
        BY <1>2, Zenon
  <2> HIDE DEF S
  <2> QED
      BY <1>0, <1>s, <1>f, <2>1, Zenon DEF Launch
<1>4. AloneWith(W, S, waiting, asked)
  <2>1. scanned \subseteq S
        BY Zenon
  <2> HIDE DEF S, W, scanned
  <2> QED
      BY <1>0, <1>s, <2>1, ZenonT(60) DEF AloneWith
<1>5. \/ scans' = waiting /\ queries' = asked
      \/ \E z \in Scan : WaitsAgain(W, S, waiting, asked, z)
  <2>1. ASSUME NEW t \in ready \ now, NEW rest \in SUBSET (s.rest \ (now \cup {t})), NeedsScan(t),
               scans' = waiting \cup {[by |-> s.by, task |-> t, rest |-> rest,
                                       held |-> s.held \cup scanned \cup now]},
               queries' = asked \cup {[by |-> s.by, task |-> t]}
        PROVE  \E z \in Scan : WaitsAgain(W, S, waiting, asked, z)
    <3> DEFINE z == [by |-> s.by, task |-> t, rest |-> rest, held |-> s.held \cup scanned \cup now]
    <3>1. z.by = s.by /\ z.task = t /\ z.rest = rest
          BY Zenon
    <3>2. z \in Scan
      <4>1. t \in Task /\ rest \subseteq Task /\ (s.held \cup scanned \cup now) \subseteq Task
            BY <1>0, <1>1, <1>w, <2>1, ZenonT(60)
      <4> QED
          BY <1>0, <4>1, Zenon DEF Scan
    <3>3. t \in W \ S /\ rest \subseteq W \ S /\ t \notin rest /\ st[t] = UNKNOWN
          BY <1>0, <1>1, <1>w, <2>1, ZenonT(60)
    <3>4. scans' = waiting \cup {z}
          BY <2>1, Zenon
    <3>5. queries' = asked \cup {[by |-> z.by, task |-> z.task]}
          BY <2>1, <3>1, Zenon
    <3> HIDE DEF z, S, W
    <3>6. WaitsAgain(W, S, waiting, asked, z)
          BY <2>1, <3>1, <3>2, <3>3, <3>4, <3>5, Zenon DEF WaitsAgain
    <3> QED
        BY <3>2, <3>6, Zenon
  <2> HIDE DEF S, W
  <2> QED
      BY <1>g, <2>1, ZenonT(60) DEF Goes
<1>6. Resumes(W, S, waiting, asked)
  <2> HIDE DEF S, W
  <2> QED
      BY <1>4, <1>5, Zenon DEF Resumes
<1> QED
    BY <1>1, <1>3, <1>6, ZenonT(60) DEF Looped

(* A counter of dependences at zero means that none is left.                *)
LEMMA NoneWaitedFor ==
    ASSUME TypeOK, DepsInv, NEW t \in Task, rdeps[t] = 0
    PROVE  deps[t] = {}
BY DepsFinite, FS_EmptySet, Zenon DEF DepsInv

(* The call of oph_workflow_execute, when it gets the lock.                 *)
LEMMA ExecuteLaunches ==
    ASSUME EInv, NEW c \in execs, Execute(c)
    PROVE  \E S, fate, badLight : Launches(S, fate, badLight)
<1>0. TypeOK /\ DepsInv /\ CallInv /\ QueryInv
      BY Zenon DEF EInv
<1> DEFINE s == [by |-> c.by, task |-> NoTask, rest |-> c.tasks, held |-> {}]
<1>1. s.by = c.by /\ s.task = NoTask /\ s.rest = c.tasks /\ s.held = {}
      BY Zenon
<1>2. /\ execs' = execs \ {c} /\ phase # "freed" /\ answered' = answered
      /\ UNCHANGED <<phase, wstatus, cancel, deps, rdeps, retry, auto, marked, jobs>>
      /\ Loop(s, {}, Ready(c), scans, queries)
      BY Zenon DEF Execute
<1> HIDE DEF s
<1>3. {s.task} \ {NoTask} = {} /\ ({s.task} \ {NoTask}) \cup s.rest = c.tasks
      BY <1>1, Zenon
<1>4. Ready(c) \subseteq c.tasks /\ \A t \in Ready(c) : wstatus < COMPLETED /\ st[t] = UNKNOWN /\ rdeps[t] = 0
      BY Zenon DEF Ready
<1>5. c.by \in Task \cup {NoTask} /\ c.tasks \subseteq Task
      BY <1>0, Zenon DEF TypeOK, CallOfExecute
<1>6. \A t \in Ready(c) : deps[t] = {}
      BY <1>0, <1>4, <1>5, NoneWaitedFor, Zenon
<1>7. AloneWith(c.tasks, {}, scans, queries)
  <2>1. \A d \in execs \ {c} : d.tasks \cap c.tasks \cap Scanned = {}
        BY <1>0, Zenon DEF CallInv
  <2>2. \A z \in scans : Wanted(z) \cap c.tasks \cap Scanned = {}
        BY <1>0, Zenon DEF CallInv
  <2>3. \A x \in c.tasks \cap Scanned : deps[x] = {} /\ st[x] \in {UNKNOWN, ABORTED}
        BY <1>0, Zenon DEF CallInv
  <2>4. \A q \in queries : \E z \in scans : z.by = q.by /\ z.task = q.task
        BY <1>0, <1>2, Zenon DEF QueryInv
  <2> QED
      BY <1>2, <1>5, <2>1, <2>2, <2>3, <2>4, ZenonT(60) DEF AloneWith
<1>8. Starting(s, {}, Ready(c), scans, queries)
  <2>1. NoTask \notin c.tasks
        BY <1>5, TaskAssumption, Zenon
  <2> QED
      BY <1>1, <1>2, <1>3, <1>4, <1>5, <1>6, <1>7, <2>1, ZenonT(60) DEF Starting
<1>9. PICK now \in SUBSET Ready(c) : \E fate, badLight :
         /\ Launch(({s.task} \ {NoTask}) \cup now, fate, badLight)
         /\ Resumes(({s.task} \ {NoTask}) \cup s.rest, ({s.task} \ {NoTask}) \cup now, scans, queries)
  <2>1. Looped(s, Ready(c), scans, queries)
        BY <1>2, <1>8, LoopLaunches, Zenon
  <2> QED
      BY <2>1, ZenonT(60) DEF Looped
<1>10. ({s.task} \ {NoTask}) \cup now = now
      BY <1>3, Zenon
<1>11. \E fate, badLight : Launch(now, fate, badLight) /\ Resumes(c.tasks, now, scans, queries)
      BY <1>3, <1>9, <1>10, Zenon
<1>12. Taken(c.tasks, now)
      BY <1>4, <1>9, ZenonT(60) DEF Taken
<1> QED
    BY <1>5, <1>11, <1>12, Zenon DEF Launches

(* The call goes on after a scan; asked are the scans left.                 *)
LEMMA ScanLaunches ==
    ASSUME EInv, NEW s \in scans, phase # "freed", NEW fates, NEW asked \in SUBSET queries,
           \A q \in asked : \E z \in scans \ {s} : z.by = q.by /\ z.task = q.task,
           {"wrong", "bad"} \cap fates # {} => PrepMayFail,
           Loop(s, fates, StillReady(s), scans \ {s}, asked),
           UNCHANGED <<phase, wstatus, cancel, deps, rdeps, retry, auto, marked, answered, execs, jobs>>
    PROVE  \E S, fate, badLight : Launches(S, fate, badLight)
<1>0. TypeOK /\ DepsInv /\ CallInv /\ QueryInv
      BY Zenon DEF EInv
<1>1. /\ s.by \in Task \cup {NoTask} /\ s.task \in Task /\ s.rest \subseteq Task /\ s.held \subseteq Task
      /\ s.task # NoTask
      BY <1>0, TaskAssumption, Zenon DEF TypeOK, Scan
<1>3. {s.task} \ {NoTask} = {s.task} /\ {s.task} \cup s.rest = Wanted(s) /\ Wanted(s) \subseteq Task
      BY <1>1, Zenon DEF Wanted
<1>4. StillReady(s) \subseteq s.rest /\ \A t \in StillReady(s) : st[t] = UNKNOWN /\ rdeps[t] = 0
      BY Zenon DEF StillReady
<1>5. \A t \in StillReady(s) : deps[t] = {}
      BY <1>0, <1>1, <1>4, NoneWaitedFor, Zenon
<1>6. s.task \in Scanned /\ st[s.task] = UNKNOWN /\ s.task \notin s.rest /\ deps[s.task] = {}
      BY <1>0, ZenonT(60) DEF CallInv, Wanted
<1>7. AloneWith(Wanted(s), {s.task}, scans \ {s}, asked)
  <2>1. \A d \in execs' : d.tasks \cap Wanted(s) \cap Scanned = {}
        BY <1>0, Zenon DEF CallInv
  <2>2. \A z \in scans \ {s} : Wanted(z) \cap Wanted(s) \cap Scanned = {}
        BY <1>0, Zenon DEF CallInv
  <2>3. \A x \in Wanted(s) \cap Scanned : deps[x] = {} /\ st[x] \in {UNKNOWN, ABORTED}
        BY <1>0, Zenon DEF CallInv
  <2>4. \A z \in scans \ (scans \ {s}) : z.task \in {s.task}
        BY Zenon
  <2> QED
      BY <1>3, <2>1, <2>2, <2>3, <2>4, ZenonT(60) DEF AloneWith
<1>8. Starting(s, fates, StillReady(s), scans \ {s}, asked)
      BY <1>1, <1>3, <1>4, <1>5, <1>6, <1>7, ZenonT(60) DEF Starting
<1>9. PICK now \in SUBSET StillReady(s) : \E fate, badLight :
         /\ Launch(({s.task} \ {NoTask}) \cup now, fate, badLight)
         /\ Resumes(({s.task} \ {NoTask}) \cup s.rest, ({s.task} \ {NoTask}) \cup now, scans \ {s}, asked)
  <2>1. Looped(s, StillReady(s), scans \ {s}, asked)
        BY <1>8, LoopLaunches, Zenon
  <2> QED
      BY <2>1, ZenonT(60) DEF Looped
<1>10. \E fate, badLight : /\ Launch({s.task} \cup now, fate, badLight)
                           /\ Resumes(Wanted(s), {s.task} \cup now, scans \ {s}, asked)
      BY <1>3, <1>9, Zenon
<1>11. Resumes(Wanted(s), {s.task} \cup now, scans \ {s}, asked)
      BY <1>10, Zenon
<1>12. s \notin scans'
  <2>1. CASE scans' = scans \ {s}
        BY <2>1, Zenon
  <2>2. ASSUME NEW z, WaitsAgain(Wanted(s), {s.task} \cup now, scans \ {s}, asked, z) PROVE s \notin scans'
        BY <2>2, Zenon DEF WaitsAgain
  <2> QED
      BY <1>11, <2>1, <2>2, Zenon DEF Resumes
<1>13. Taken(Wanted(s), {s.task} \cup now)
      BY <1>12, Zenon DEF Taken
<1> QED
    BY <1>3, <1>10, <1>13, Zenon DEF Launches

(* Both ways in which a scan comes to an end for its call.                  *)
LEMMA ReturnLaunches ==
    ASSUME EInv, NEW s \in scans, ScanReturns(s) \/ ScanRefused(s)
    PROVE  \E S, fate, badLight : Launches(S, fate, badLight)
<1>0. TypeOK /\ QueryInv
      BY Zenon DEF EInv
<1>1. CASE ScanReturns(s)
  <2>1. /\ phase # "freed" /\ s.task \in answered
        /\ Loop(s, FatesOf(s.task, Task), StillReady(s), scans \ {s}, queries)
        /\ UNCHANGED <<phase, wstatus, cancel, deps, rdeps, retry, auto, marked, answered, execs, jobs>>
        BY <1>1, Zenon DEF ScanReturns
  <2>2. \A q \in queries : \E z \in scans \ {s} : z.by = q.by /\ z.task = q.task
        BY <1>0, <2>1, Zenon DEF QueryInv
  <2>3. {"wrong", "bad"} \cap FatesOf(s.task, Task) # {} => PrepMayFail
        BY Zenon DEF FatesOf
  <2> QED
      BY <2>1, <2>2, <2>3, ScanLaunches, ZenonT(60)
<1>2. CASE ScanRefused(s)
  <2> DEFINE query == [by |-> s.by, task |-> s.task]
  <2>1. /\ phase # "freed" /\ PrepMayFail
        /\ Loop(s, {"wrong"}, StillReady(s), scans \ {s}, queries \ {query})
        /\ UNCHANGED <<phase, wstatus, cancel, deps, rdeps, retry, auto, marked, answered, execs, jobs>>
        BY <1>2, Zenon DEF ScanRefused
  <2>2. \A q \in queries \ {query} : \E z \in scans \ {s} : z.by = q.by /\ z.task = q.task
    <3> SUFFICES ASSUME NEW q \in queries, q # query
                 PROVE  \E z \in scans \ {s} : z.by = q.by /\ z.task = q.task
        BY Zenon
    <3>1. PICK z \in scans : z.by = q.by /\ z.task = q.task
          BY <1>0, <2>1, Zenon DEF QueryInv
    <3>2. q = [by |-> q.by, task |-> q.task]
          BY <1>0, Zenon DEF TypeOK, Query
    <3>3. z # s
          BY <3>1, <3>2, Zenon
    <3> QED
        BY <3>1, <3>3, Zenon
  <2> HIDE DEF query
  <2>3. queries \ {query} \in SUBSET queries
        BY Zenon
  <2> QED
      BY <2>1, <2>2, <2>3, ScanLaunches, ZenonT(60)
<1> QED
    BY <1>1, <1>2, Zenon

(* A call of oph_workflow_execute keeps the invariant, in each of its parts.*)
LEMMA LaunchesKeep ==
    ASSUME EInv, NEW S, NEW fate, NEW badLight, Launches(S, fate, badLight)
    PROVE  EInv'
<1>1. PICK W, waiting, asked : Resumes(W, S, waiting, asked)
      BY Zenon DEF Launches
<1>2. Launch(S, fate, badLight)
      BY Zenon DEF Launches
<1>3. /\ execs' \subseteq CallOfExecute /\ scans' \subseteq Scan /\ queries' \subseteq Query
      /\ answered' \subseteq Task /\ CallInv' /\ QueryInv'
      BY <1>1, <1>2, ResumesKeeps, Zenon
<1>4. /\ st' \in [Task -> Status] /\ lst' \in [LightTask -> Status] /\ residual' \in Int
      /\ rlight' \in [Task -> Int] /\ requests' \subseteq Request
      /\ DepsInv' /\ HeardInv' /\ RequestInv' /\ JobInv' /\ Unique' /\ LightInv' /\ OverInv' /\ BudgetInv'
      BY <1>2, LaunchKeeps, ZenonT(60)
<1>5. UNCHANGED <<phase, wstatus, cancel, deps, rdeps, retry, auto, marked, jobs>>
      BY <1>2, Zenon DEF Launch
<1>6. TypeOK'
      BY <1>3, <1>4, <1>5, Zenon DEF EInv, TypeOK
<1> QED
    BY <1>3, <1>4, <1>6, Zenon DEF EInv, Orderly

(* The steps of a cancellation and of the end of a workflow.                *)
LEMMA EndKeeps ==
    ASSUME EInv, Close \/ CancelDrops \/ CancelKills \/ \E type \in CancelTypes : Cancel(type)
    PROVE  EInv'
<1>0. /\ TypeOK /\ DepsInv /\ RequestInv /\ JobInv /\ Unique /\ LightInv /\ OverInv
      /\ CallInv /\ QueryInv /\ BudgetInv
      BY Zenon DEF EInv
<1>1. CASE Close \/ CancelDrops \/ \E type \in CancelTypes : Cancel(type)
  <2>1. /\ UNCHANGED <<residual, taskvars, execs, scanvars, requests, jobs>>
        /\ OverInv'
        /\ phase' \in {"listed", "dropped", "freed", "aborted"} /\ wstatus' \in Status
        /\ cancel' \in CancelTypes \cup {"none"}
        /\ ~Live' /\ (Open' => Open) /\ (phase' # "freed" => phase # "freed")
        BY <1>0, <1>1 DEF Close, CancelDrops, Cancel, TypeOK, OverInv, Live, Open
  <2>2. TypeOK'
        BY <1>0, <2>1, ZenonT(60) DEF TypeOK, taskvars, scanvars
  <2>3. DepsInv' /\ LightInv' /\ HeardInv' /\ BudgetInv'
        BY <1>0, <2>1, ZenonT(60) DEF DepsInv, LightInv, HeardInv, BudgetInv, Passed, taskvars
  <2>4. RequestInv' /\ JobInv' /\ Unique'
        BY <1>0, <2>1, ZenonT(60) DEF RequestInv, JobInv, Unique, taskvars
  <2>5. CallInv' /\ QueryInv'
        BY <1>0, <2>1, ZenonT(60) DEF CallInv, QueryInv, NeedsScan, Parsed, Retrying, taskvars, scanvars
  <2> QED
      BY <2>1, <2>2, <2>3, <2>4, <2>5, ZenonT(60) DEF EInv, Orderly
<1>2. CASE CancelKills
  <2>1. /\ UNCHANGED <<wstatus, cancel, residual, deps, rdeps, retry, auto, marked, rlight, execs, requests>>
        /\ scans' = scans /\ queries' = queries /\ answered' = answered
        /\ phase = "aborted" /\ phase' = "killed" /\ jobs' \subseteq jobs
        BY <1>2, ZenonT(40) DEF CancelKills, scanvars
  <2>2. /\ st' \in [Task -> Status] /\ lst' \in [LightTask -> Status]
        /\ \A t \in Task : st'[t] = st[t] \/ (Active(st[t]) /\ st'[t] = ABORTED)
    <3>0. /\ st \in [Task -> Status] /\ lst \in [LightTask -> Status] /\ ABORTED \in Status
          /\ \A t \in Task : Aborts(st[t]) => Active(st[t])
          BY <1>0 DEF TypeOK, Aborts
    <3>1. CASE cancel = "stop"
      <4>1. st' = st /\ lst' = lst
            BY <1>2, <3>1, ZenonT(40) DEF CancelKills
      <4> QED
          BY <3>0, <4>1, Zenon
    <3>2. CASE cancel # "stop"
      <4>1. /\ st' = [t \in Task |-> IF Aborts(st[t]) THEN ABORTED ELSE st[t]]
            /\ lst' = [p \in LightTask |->
                         IF Active(st[p[1]]) /\ Aborts(lst[p]) THEN ABORTED ELSE lst[p]]
            BY <1>2, <3>2, ZenonT(40) DEF CancelKills
      <4> QED
          BY <3>0, <4>1, Zenon
    <3> QED
        BY <3>1, <3>2, Zenon
  <2>3. TypeOK'
        BY <1>0, <2>1, <2>2, Zenon DEF TypeOK
  <2>u. \A t \in Task : /\ st'[t] = UNKNOWN <=> st[t] = UNKNOWN
                        /\ st'[t] = COMPLETED <=> st[t] = COMPLETED
                        /\ Ended(st[t]) => Ended(st'[t])
                        /\ st[t] = ABORTED => st'[t] = ABORTED
        BY <2>2
  <2>4. DepsInv' /\ BudgetInv'
    <3>1. \A d \in Task : Passed(d) => Passed(d)'
          BY <2>2 DEF Passed
    <3>2. \A t \in Task : st'[t] \notin {UNKNOWN, ABORTED} => st[t] \notin {UNKNOWN, ABORTED}
          BY <2>2
    <3> QED
        BY <1>0, <2>1, <3>1, <3>2, DepsAssumption, ZenonT(60) DEF DepsInv, TypeOK, BudgetInv
  <2>5. ~Live' /\ ~Open' /\ OverInv'
        BY <1>0, <2>1, Zenon DEF Live, OverInv, Open
  <2>6. RequestInv'
    <3>1. \A r \in requests : r.task \in Task
          BY <1>0, Zenon DEF TypeOK, Request
    <3> HIDE DEF Ended
    <3> QED
        BY <1>0, <2>1, <2>u, <2>5, <3>1, ZenonT(60) DEF RequestInv
  <2>7. JobInv' /\ Unique' /\ LightInv' /\ HeardInv'
    <3>1. \A j \in jobs' : j.task \in Task /\ j \in jobs
          BY <1>0, <2>1, Zenon DEF TypeOK, Job
    <3> QED
        BY <1>0, <2>1, <2>u, <2>5, <3>1, ZenonT(60) DEF JobInv, Unique, LightInv, HeardInv
  <2>8. CallInv' /\ QueryInv'
    <3>1. /\ \A c \in execs : c.tasks \subseteq Task
          /\ \A s \in scans : s.task \in Task /\ Wanted(s) \subseteq Task
          BY <1>0, Zenon DEF TypeOK, CallOfExecute, Scan, Wanted
    <3>2. \A x \in Task : st[x] \in {UNKNOWN, ABORTED} => st'[x] \in {UNKNOWN, ABORTED}
          BY <2>u, Zenon
    <3>3. \A x \in Task : (NeedsScan(x)' <=> NeedsScan(x)) /\ (Parsed(x)' <=> Parsed(x))
          BY <2>1, Zenon DEF NeedsScan, Parsed, Retrying
    <3>4. answered \subseteq Task /\ phase # "freed"
          BY <1>0, <2>1, Zenon DEF TypeOK
    <3>5. CallInv'
          BY <1>0, <2>1, <2>u, <3>1, <3>2, <3>3, ZenonT(60) DEF CallInv, Wanted
    <3>6. QueryInv'
          BY <1>0, <2>1, <2>u, <3>1, <3>3, <3>4, ZenonT(60) DEF QueryInv
    <3> QED
        BY <3>5, <3>6, Zenon
  <2> QED
      BY <2>3, <2>4, <2>5, <2>6, <2>7, <2>8, ZenonT(60) DEF EInv, Orderly
<1> QED
    BY <1>1, <1>2, Zenon

(* A call that finds the memory released.                                   *)
LEMMA DanglingKeeps ==
    ASSUME EInv, \/ \E c \in execs : ExecuteDangling(c)
                 \/ \E s \in scans : ScanDangling(s)
    PROVE  EInv'
<1>1. /\ UNCHANGED <<phase, wstatus, cancel, residual, taskvars, queries, answered, requests, jobs>>
      /\ execs' \subseteq execs /\ scans' \subseteq scans /\ phase = "freed"
      BY Zenon DEF ExecuteDangling, ScanDangling, scanvars
<1>2. TypeOK'
      BY <1>1, ZenonT(60) DEF EInv, TypeOK, taskvars
<1>3. DepsInv' /\ OverInv' /\ RequestInv' /\ JobInv' /\ Unique'
      BY <1>1, ZenonT(60) DEF EInv, DepsInv, OverInv, RequestInv, JobInv, Unique, Open, Passed, taskvars
<1>4. LightInv' /\ HeardInv' /\ BudgetInv'
      BY <1>1, ZenonT(60) DEF EInv, LightInv, HeardInv, BudgetInv, Live, OutLights, taskvars
<1>5. CallInv' /\ QueryInv'
      BY <1>1, ZenonT(60) DEF EInv, CallInv, QueryInv, NeedsScan, Parsed, Retrying, taskvars
<1> QED
    BY <1>2, <1>3, <1>4, <1>5, ZenonT(60) DEF EInv, Orderly

(* The notification is about something in execution.                        *)
InExecution(t, l) ==
    Live => /\ Active(st[t])
            /\ l = NoLight => LightOf(t) = {}
            /\ l # NoLight => l \in LightOf(t) /\ l \in OutLights(t)

(* A request to be submitted, one of a light task and a job are.            *)
LEMMA ItemsInExecution ==
    ASSUME EInv
    PROVE  /\ \A r \in requests : r.light # NoLight \/ r.status = PENDING => InExecution(r.task, r.light)
           /\ \A j \in jobs : InExecution(j.task, j.light)
BY ZenonT(60) DEF EInv, RequestInv, JobInv, InExecution, Live, Open, OutLights

(* A job that is lost, or that the monitor misses because it is.            *)
LEMMA JobIsLost ==
    ASSUME EInv, NEW j \in jobs, JobDies(j) \/ MonitorMisses(j)
    PROVE  /\ \E v \in {"lost", "missed"} : jobs' = (jobs \ {j}) \cup {[j EXCEPT !.state = v]}
           /\ UNCHANGED <<phase, wstatus, cancel, residual, taskvars, execs, scanvars, requests>>
<1>1. CASE JobDies(j)
      BY <1>1, Zenon DEF JobDies
<1>2. CASE MonitorMisses(j)
  <2>1. j.state = "lost"
        BY <1>2, Zenon DEF MonitorMisses, EInv, Orderly
  <2>2. {x \in {j} : x.state = "lost"} = {j}
        BY <2>1, Zenon
  <2> QED
      BY <1>2, <2>2, Zenon DEF MonitorMisses
<1> QED
    BY <1>1, <1>2, Zenon

(* Every step of the engine keeps the invariant.                            *)
LEMMA EInvStep == EInv /\ [Next]_vars => EInv'
<1> SUFFICES ASSUME EInv, [Next]_vars PROVE EInv'
    BY Zenon
<1>1. ASSUME NEW c \in execs, Execute(c) PROVE EInv'
      BY <1>1, ExecuteLaunches, LaunchesKeep, Zenon
<1>2. ASSUME NEW s \in scans, ScanReturns(s) \/ ScanRefused(s) PROVE EInv'
      BY <1>2, ReturnLaunches, LaunchesKeep, Zenon
<1>d. CASE \/ \E c \in execs : ExecuteDangling(c)
           \/ \E s \in scans : ScanDangling(s)
      BY <1>d, DanglingKeeps, Zenon
<1>e. ASSUME NEW q \in queries, NEW s \in Answers, ScanEnds(q, s) PROVE EInv'
      BY <1>e, ScanEndsKeeps, Zenon
<1>3. ASSUME NEW r \in requests,
             Submit(r) \/ Report(r) \/ ReportUnheard(r) \/ \E s \in Replies : Reply(r, s)
      PROVE  EInv'
      BY <1>3, SubmitKeeps, ReportKeeps, UnheardKeeps, ReplyKeeps, ZenonT(60)
<1>4. ASSUME NEW j \in jobs, JobStarts(j) PROVE EInv'
      BY <1>4, JobStartsKeeps, Zenon
<1>5. ASSUME NEW j \in jobs, JobCannotStart(j) \/ MonitorAborts(j) \/ \E s \in Outcomes : JobEnds(j, s)
      PROVE  EInv'
  <2>1. \E s \in Sent \ {RUNNING} : /\ jobs' = jobs \ {j} /\ requests' = requests /\ UNCHANGED scanvars
                                    /\ Notify(j.task, j.light, s)
        BY <1>5 DEF JobCannotStart, MonitorAborts, JobEnds, Outcomes, Sent
  <2> QED
      BY <2>1, JobGoesKeeps, ZenonT(60)
<1>6. ASSUME NEW j \in jobs, JobDies(j) \/ MonitorMisses(j) PROVE EInv'
      BY <1>6, JobIsLost, JobMovesKeeps, ZenonT(60) DEF Quietly
<1>7. CASE Close \/ CancelDrops \/ CancelKills \/ \E type \in CancelTypes : Cancel(type)
      BY <1>7, EndKeeps, Zenon
<1>8. CASE UNCHANGED vars
  <2>1. /\ Quietly /\ cancel' = cancel /\ requests' = requests /\ jobs' = jobs
        /\ scans' = scans /\ queries' = queries /\ answered' = answered
        BY <1>8, Zenon DEF vars, Quietly, taskvars
  <2>2. Unique' /\ jobs' \subseteq Job /\ \A x \in jobs' : \E y \in jobs : SameKey(x, y)
        BY <2>1, Zenon DEF EInv, Unique, SameKey, TypeOK
  <2>3. QueryInv' /\ HeardInv' /\ answered' \subseteq Task
        BY <2>1, ZenonT(60) DEF EInv, QueryInv, HeardInv, Live, Unreported, Parsed, Retrying, TypeOK,
                                Quietly, taskvars
  <2> QED
      BY <2>1, <2>2, <2>3, QuietStep, Zenon
<1> QED
    BY <1>1, <1>2, <1>d, <1>e, <1>3, <1>4, <1>5, <1>6, <1>7, <1>8, ZenonT(60) DEF Next, Quiet

(* The inductive invariant holds in every state.                            *)
LEMMA EInvariant == Orderly /\ Spec => []EInv
BY InitE, EInvStep, PTL DEF Spec

-----------------------------------------------------------------------------
(* The theorems.  They hold where the engine is Orderly: the monitor misses *)
(* only jobs that are lost, and no two calls of oph_workflow_execute get    *)
(* hold of the same task with a filter to be scanned.                       *)

(* Whatever the workflow and the configuration, the variables of the engine *)
(* keep their types: in particular residual_auto_retry_num never leaves the *)
(* range the configuration gives it.                                        *)
THEOREM EngineTypeCorrect == Orderly /\ Spec => []TypeOK
<1>1. EInv => TypeOK
      BY Zenon DEF EInv
<1> QED
    BY EInvariant, <1>1, PTL

(* Whatever the order in which the notifications come, and with retries,    *)
(* scans, failed preparations and cancellations, oph_workflow_execute       *)
(* starts a task only after all the tasks it depends on have passed.        *)
THEOREM OrderOfTheGraph == Orderly /\ Spec => []DependencesHold
<1>1. EInv => DependencesHold
  <2> SUFFICES ASSUME EInv PROVE DependencesHold
      BY Zenon
  <2>1. \A t \in Task : deps[t] = {} => \A d \in Deps[t] : Passed(d)
        BY Zenon DEF EInv, DepsInv
  <2>2. \A t \in Task : st[t] \notin {UNKNOWN, ABORTED} => deps[t] = {}
        BY Zenon DEF EInv, DepsInv
  <2>3. \A x \in requests \cup jobs : x.task \in Task /\ deps[x.task] = {}
        BY ZenonT(60) DEF EInv, TypeOK, Request, Job, RequestInv, JobInv
  <2> QED
      BY <2>1, <2>2, <2>3, ZenonT(60) DEF DependencesHold
<1> QED
    BY EInvariant, <1>1, PTL

(* residual_deps_num, which the notifications of different tasks decrement, *)
(* always counts the dependences on tasks that have not passed, or that     *)
(* oph_workflow_execute has completed and not reported yet.                 *)
THEOREM DependenceCounters == Orderly /\ Spec => []ResidualDepsExact
<1>1. EInv => ResidualDepsExact
      BY ZenonT(60) DEF EInv, DepsInv, HeardInv, Live, Listening, ResidualDepsExact
<1> QED
    BY EInvariant, <1>1, PTL

(* No task and no light task is ever in execution twice, whatever retries,  *)
(* scans and late notifications there are.                                  *)
THEOREM NoDoubleSubmission == Orderly /\ Spec => []OneAttemptAtATime
<1>1. EInv => OneAttemptAtATime
  <2>1. \A x, y : SameKey(x, y) <=> x.task = y.task /\ x.light = y.light
        BY Zenon DEF SameKey
  <2>2. \A x, y : SameKey(x, y) => SameKey(y, x)
        BY Zenon DEF SameKey
  <2> SUFFICES ASSUME EInv, NEW x \in requests \cup jobs, NEW y \in requests \cup jobs, SameKey(x, y)
               PROVE  x = y
      BY <2>1, ZenonT(60) DEF OneAttemptAtATime, Submissions
  <2> QED
      BY <2>2, Zenon DEF EInv, Unique
<1> QED
    BY EInvariant, <1>1, PTL

(* oph_workflow_set_status, which aborts what is below a failed task, never *)
(* meets a task that was started.                                           *)
THEOREM NothingStartedBelow == Orderly /\ Spec => []BelowNotStarted
<1>1. EInv => BelowNotStarted
  <2> SUFFICES ASSUME EInv, NEW t \in Task, ~Ended(st[t]), NEW d \in Below(t)
               PROVE  st[d] \in {UNKNOWN, ABORTED}
      BY Zenon DEF BelowNotStarted
  <2>1. ~Passed(t)
        BY DEF Passed
  <2>2. deps[d] # {} /\ d \in Task
        BY <2>1, BelowWaits, BelowType, ZenonT(60) DEF EInv
  <2> QED
      BY <2>2, Zenon DEF EInv, DepsInv
<1> QED
    BY EInvariant, <1>1, PTL

-----------------------------------------------------------------------------
(* What a step does to the workflow, to the statuses of its tasks, to the   *)
(* reports of the void ones and to the calls.                               *)
Shrinks == requests' \subseteq requests /\ scans' \subseteq scans

Calm ==
    /\ UNCHANGED <<phase, wstatus, residual, st, deps>>
    /\ Shrinks /\ execs' \subseteq execs
    /\ Unreported' \subseteq Unreported
    /\ Live /\ ~PrepMayFail => Unreported' = Unreported

Closing == Close \/ CancelDrops \/ \E type \in CancelTypes : Cancel(type)

TaskStep(t) ==
    /\ Live /\ Active(st[t]) /\ deps[t] = {}
    /\ NotifyTypes /\ GraphStep(t) /\ (Going(t) \/ Ending(t))
    /\ Unreported' = Unreported /\ Shrinks /\ Calls(t)

(* The report of a void task.                                               *)
VoidStep(t) ==
    /\ Live /\ t \in Unreported /\ st[t] = COMPLETED /\ deps[t] = {}
    /\ TaskCompletes(t, COMPLETED, wstatus)
    /\ Unreported' = Unreported \ {t} /\ Shrinks /\ Calls(t)

StatusStep ==
    \/ Calm \/ Closing \/ CancelKills
    \/ \E S, fate, badLight : Launches(S, fate, badLight)
    \/ \E t \in Task : TaskStep(t) \/ VoidStep(t)

(* What is known of the reports.                                            *)
LEMMA UnreportedFacts ==
    ASSUME EInv
    PROVE  /\ \A t \in Unreported : t \in Task /\ st[t] = COMPLETED /\ deps[t] = {}
           /\ \A r \in requests : r.light = NoLight /\ r.status = COMPLETED => r.task \in Unreported
<1>1. \A t \in Unreported : t \in Task /\ st[t] = COMPLETED /\ deps[t] = {}
  <2> SUFFICES ASSUME NEW t \in Unreported PROVE t \in Task /\ st[t] = COMPLETED /\ deps[t] = {}
      BY Zenon
  <2> DEFINE r == [task |-> t, light |-> NoLight, status |-> COMPLETED]
  <2>1. r \in requests /\ r.task = t /\ r.light = NoLight /\ r.status = COMPLETED /\ t \in Task
        BY Zenon DEF Unreported
  <2> HIDE DEF r
  <2>2. COMPLETED # PENDING /\ COMPLETED # ERROR
        OBVIOUS
  <2> QED
      BY <2>1, <2>2, ZenonT(60) DEF EInv, RequestInv
<1>2. \A r \in requests : r.light = NoLight /\ r.status = COMPLETED => r.task \in Unreported
  <2> SUFFICES ASSUME NEW r \in requests, r.light = NoLight, r.status = COMPLETED
               PROVE  r.task \in Unreported
      BY Zenon
  <2>1. r.task \in Task
        BY Zenon DEF EInv, TypeOK, Request
  <2>2. r = [task |-> r.task, light |-> r.light, status |-> r.status]
        BY Zenon DEF EInv, TypeOK, Request
  <2> QED
      BY <2>1, <2>2, Zenon DEF Unreported
<1> QED
    BY <1>1, <1>2, Zenon

(* A step that takes a request away, or none, and which reports it changes. *)
LEMMA UnreportedKept ==
    ASSUME EInv, NEW r, requests' = requests \ {r}
    PROVE  /\ Unreported' \subseteq Unreported
           /\ ~(r.light = NoLight /\ r.status = COMPLETED) => Unreported' = Unreported
           /\ r.light = NoLight /\ r.status = COMPLETED /\ r \in requests => Unreported' = Unreported \ {r.task}
<1>1. \A t \in Task : LET x == [task |-> t, light |-> NoLight, status |-> COMPLETED]
                      IN  x.task = t /\ x.light = NoLight /\ x.status = COMPLETED
      BY Zenon
<1>2. r \in requests => r = [task |-> r.task, light |-> r.light, status |-> r.status]
      BY Zenon DEF EInv, TypeOK, Request
<1>3. Unreported' \subseteq Unreported
      BY Zenon DEF Unreported
<1>4. ~(r.light = NoLight /\ r.status = COMPLETED) => Unreported' = Unreported
  <2> SUFFICES ASSUME ~(r.light = NoLight /\ r.status = COMPLETED), NEW t \in Unreported
               PROVE  t \in Unreported'
      BY <1>3, Zenon
  <2> DEFINE x == [task |-> t, light |-> NoLight, status |-> COMPLETED]
  <2>1. t \in Task /\ x \in requests
        BY Zenon DEF Unreported
  <2>2. x.light = NoLight /\ x.status = COMPLETED
        BY Zenon
  <2>3. x # r
        BY <2>2, Zenon
  <2> QED
      BY <2>1, <2>3, Zenon DEF Unreported
<1>5. r.light = NoLight /\ r.status = COMPLETED /\ r \in requests => Unreported' = Unreported \ {r.task}
      BY <1>1, <1>2, ZenonT(60) DEF Unreported
<1> QED
    BY <1>3, <1>4, <1>5, Zenon

(* What a notification about an active task does is a StatusStep.           *)
LEMMA EffectIsStatusStep ==
    ASSUME EInv, NEW t \in Task, NEW l, NEW s, Live => Active(st[t]) /\ deps[t] = {},
           Unreported' = Unreported, Shrinks, Quietly \/ Effect(t, l, s)
    PROVE  StatusStep
<1>1. CASE Quietly
      BY <1>1, Zenon DEF Quietly, taskvars, StatusStep, Calm
<1>2. CASE Effect(t, l, s)
      BY <1>2, Zenon DEF Effect, OwnStep, StatusStep, TaskStep
<1> QED
    BY <1>1, <1>2, Zenon

(* Every step of the engine is a StatusStep.                                *)
LEMMA StatusSteps == EInv /\ [Next]_vars => StatusStep
<1> SUFFICES ASSUME EInv, [Next]_vars PROVE StatusStep
    BY Zenon
<1>0. TypeOK /\ BudgetInv /\ RequestInv /\ JobInv
      BY Zenon DEF EInv
<1>1. ASSUME NEW r \in requests, NEW s \in Replies, Reply(r, s) PROVE StatusStep
  <2>1. /\ r.task \in Task /\ r.light \in Nat \cup {NoLight} /\ r.status = PENDING
        /\ s \in Sent /\ s \in Status /\ PENDING # COMPLETED
        BY <1>0, <1>1 DEF TypeOK, Request, Reply, Replies, Sent
  <2>2. Live => Active(st[r.task]) /\ deps[r.task] = {}
        BY <1>0, <2>1, Zenon DEF RequestInv, Live, Open
  <2>3. Quietly \/ Effect(r.task, r.light, s)
        BY <1>0, <1>1, <2>1, <2>2, NotifyEffect, ZenonT(40) DEF Reply
  <2>4. Unreported' = Unreported /\ Shrinks
        BY <1>1, <2>1, UnreportedKept, Zenon DEF Reply, scanvars, Shrinks
  <2> QED
      BY <2>1, <2>2, <2>3, <2>4, EffectIsStatusStep, ZenonT(60)
<1>2. ASSUME NEW r \in requests, Report(r) PROVE StatusStep
  <2>1. /\ r.task \in Task /\ r.light \in Nat \cup {NoLight} /\ r.status \in Status /\ r.status # PENDING
        /\ requests' = requests \ {r} /\ Notify(r.task, r.light, r.status) /\ Shrinks
        BY <1>0, <1>2, Zenon DEF TypeOK, Request, Report, scanvars, Shrinks
  <2>2. CASE r.light = NoLight /\ r.status # COMPLETED
    <3>1. r.status = ERROR /\ Ended(st[r.task])
          BY <1>0, <2>1, <2>2, Zenon DEF RequestInv
    <3>2. Neglected(r.task, r.light, r.status)
          BY <2>2, <3>1, NotifiedFacts, Zenon DEF Neglected, Sent
    <3>3. Unreported' = Unreported
          BY <2>1, <2>2, UnreportedKept, Zenon
    <3> QED
        BY <2>1, <3>2, <3>3, ZenonT(60) DEF Notify, taskvars, StatusStep, Calm
  <2>3. CASE r.light # NoLight
    <3>1. Live => Active(st[r.task]) /\ deps[r.task] = {}
          BY <1>0, <2>3, Zenon DEF RequestInv, Live, Open
    <3>2. Quietly \/ Effect(r.task, r.light, r.status)
          BY <1>0, <2>1, <2>3, <3>1, NotifyEffect, ZenonT(60)
    <3>3. Unreported' = Unreported
          BY <2>1, <2>3, UnreportedKept, Zenon
    <3> QED
        BY <2>1, <3>1, <3>2, <3>3, EffectIsStatusStep, ZenonT(60)
  <2>4. CASE r.light = NoLight /\ r.status = COMPLETED
    <3>1. r.task \in Unreported /\ st[r.task] = COMPLETED /\ deps[r.task] = {}
          BY <2>4, UnreportedFacts, Zenon
    <3>2. Unreported' = Unreported \ {r.task}
          BY <2>1, <2>4, UnreportedKept, Zenon
    <3>3. CASE Live
      <4>1. ~Neglected(r.task, r.light, r.status) /\ COMPLETED \in Sent
            BY <2>4, NotifiedFacts DEF Neglected, Sent
      <4>2. Effect(r.task, r.light, r.status)
            BY <1>0, <2>1, <2>4, <3>3, <4>1, NotifyEffect, ZenonT(60)
      <4>3. TaskCompletes(r.task, COMPLETED, wstatus) /\ Calls(r.task)
            BY <2>4, <4>2, Zenon DEF Effect, OwnStep
      <4> QED
          BY <2>1, <3>1, <3>2, <3>3, <4>3, Zenon DEF StatusStep, VoidStep
    <3>4. CASE ~Live
      <4>1. Quietly
            BY <1>0, <2>1, <3>4 DEF Notify, Quietly, Live, TypeOK
      <4> QED
          BY <2>1, <3>2, <3>4, <4>1, Zenon DEF Quietly, taskvars, StatusStep, Calm
    <3> QED
        BY <3>3, <3>4, Zenon
  <2> QED
      BY <2>2, <2>3, <2>4, Zenon
<1>3. ASSUME NEW j \in jobs, NEW s \in Sent, Notify(j.task, j.light, s), requests' = requests,
             scans' = scans
      PROVE  StatusStep
  <2>1. /\ j.task \in Task /\ j.light \in Nat \cup {NoLight} /\ s \in Status
        BY <1>0 DEF TypeOK, Job, Sent
  <2>2. Live => Active(st[j.task]) /\ deps[j.task] = {}
        BY <1>0, Zenon DEF JobInv, Live, Open
  <2>3. Quietly \/ Effect(j.task, j.light, s)
        BY <1>0, <1>3, <2>1, <2>2, NotifyEffect, Zenon
  <2>4. Unreported' = Unreported /\ Shrinks
        BY <1>3, Zenon DEF Unreported, Shrinks
  <2> QED
      BY <2>1, <2>2, <2>3, <2>4, EffectIsStatusStep, ZenonT(40)
<1>4. ASSUME NEW j \in jobs, JobStarts(j) \/ JobCannotStart(j) \/ MonitorAborts(j) \/ \E s \in Outcomes : JobEnds(j, s)
      PROVE  StatusStep
      BY <1>3, <1>4, Zenon DEF JobStarts, JobCannotStart, MonitorAborts, JobEnds, Outcomes, Sent, scanvars
<1>5. CASE \/ \E c \in execs : ExecuteDangling(c)
           \/ \E s \in scans : ScanDangling(s)
           \/ \E j \in jobs : JobDies(j) \/ MonitorMisses(j)
           \/ UNCHANGED vars
  <2>1. /\ UNCHANGED <<phase, wstatus, residual, st, deps, requests>>
        /\ execs' \subseteq execs /\ scans' \subseteq scans
        BY <1>5, Zenon DEF ExecuteDangling, ScanDangling, JobDies, MonitorMisses, taskvars, scanvars, vars
  <2> QED
      BY <2>1, Zenon DEF StatusStep, Calm, Shrinks, Unreported
<1>6. ASSUME NEW r \in requests, Submit(r) PROVE StatusStep
  <2>1. /\ UNCHANGED <<phase, wstatus, residual, st, deps, execs, scans>>
        /\ requests' = requests \ {r} /\ r.status = PENDING
        BY <1>6, Zenon DEF Submit, taskvars, scanvars
  <2>2. PENDING # COMPLETED
        OBVIOUS
  <2>3. Unreported' = Unreported
        BY <2>1, <2>2, UnreportedKept, Zenon
  <2> QED
      BY <2>1, <2>3, Zenon DEF StatusStep, Calm, Shrinks
<1>7. ASSUME NEW r \in requests, ReportUnheard(r) PROVE StatusStep
  <2>1. /\ UNCHANGED <<phase, wstatus, residual, st, deps, execs, scans>>
        /\ requests' = requests \ {r} /\ PrepMayFail
        BY <1>7, Zenon DEF ReportUnheard, taskvars
  <2>2. Unreported' \subseteq Unreported
        BY <2>1, UnreportedKept, Zenon
  <2> QED
      BY <2>1, <2>2, Zenon DEF StatusStep, Calm, Shrinks
<1>8. ASSUME NEW q \in queries, NEW s \in Answers, ScanEnds(q, s) PROVE StatusStep
  <2>1. UNCHANGED <<phase, wstatus, residual, st, deps, execs, requests, scans>>
        BY <1>8, ScanAnswers, Zenon DEF Quietly, taskvars
  <2> QED
      BY <2>1, Zenon DEF StatusStep, Calm, Shrinks, Unreported
<1>9. ASSUME NEW c \in execs, Execute(c) PROVE StatusStep
      BY <1>9, ExecuteLaunches, Zenon DEF StatusStep
<1>10. ASSUME NEW s \in scans, ScanReturns(s) \/ ScanRefused(s) PROVE StatusStep
      BY <1>10, ReturnLaunches, Zenon DEF StatusStep
<1>11. CASE Close \/ CancelDrops \/ CancelKills \/ \E type \in CancelTypes : Cancel(type)
      BY <1>11, Zenon DEF StatusStep, Closing
<1> QED
    BY <1>1, <1>2, <1>4, <1>5, <1>6, <1>7, <1>8, <1>9, <1>10, <1>11, ZenonT(60) DEF Next, Quiet

(* No step changes the status of a task that has ended.                     *)
LEMMA EndedKept ==
    ASSUME EInv, [Next]_vars, NEW t \in Task, Ended(st[t])
    PROVE  st'[t] = st[t]
<1>0. st[t] \in Status /\ st \in [Task -> Status]
      BY Zenon DEF EInv, TypeOK
<1>u. st[t] # UNKNOWN /\ ~Active(st[t])
      BY <1>0
<1>1. ASSUME NEW S, NEW fate, NEW badLight, Launches(S, fate, badLight) PROVE st'[t] = st[t]
  <2>1. Launch(S, fate, badLight) /\ Launched(S, fate)
        BY <1>1, LaunchEffect, Zenon DEF Launches
  <2>2. t \notin S
        BY <1>u, <2>1, Zenon DEF Launch
  <2>3. t \in AllBelow(Having(S, fate, "bad")) => st[t] = ABORTED
        BY <1>u, <2>1, ZenonT(60) DEF Launched, EInv, DepsInv
  <2> QED
      BY <2>1, <2>2, <2>3, Zenon DEF Launched
<1>2. ASSUME CancelKills PROVE st'[t] = st[t]
      BY <1>0, <1>2, SMTT(30) DEF CancelKills, Aborts
<1>3. ASSUME NEW x \in Task, TaskStep(x) PROVE st'[t] = st[t]
  <2>0. Active(st[x]) /\ GraphStep(x)
        BY <1>3, Zenon DEF TaskStep
  <2>1. x # t /\ (t \in Below(x) => deps[t] # {})
        BY <1>u, <2>0, BelowWaits, ActiveNotPassed, ZenonT(60) DEF EInv
  <2>2. t \in Below(x) => st[t] = ABORTED
        BY <1>u, <2>1, Zenon DEF EInv, DepsInv
  <2> QED
      BY <2>0, <2>1, <2>2, ZenonT(60) DEF GraphStep
<1>4. ASSUME Calm \/ Closing PROVE st'[t] = st[t]
      BY <1>4, Zenon DEF Calm, Closing, Close, CancelDrops, Cancel, taskvars
<1>5. ASSUME NEW x \in Task, VoidStep(x) PROVE st'[t] = st[t]
      BY <1>0, <1>5, Zenon DEF VoidStep, TaskCompletes
<1> QED
    BY <1>1, <1>2, <1>3, <1>4, <1>5, StatusSteps, ZenonT(60) DEF StatusStep

(* A task that has ended keeps its status for ever: late and repeated       *)
(* notifications, the answers of scans, the abortion of a branch and a      *)
(* cancellation leave it alone.                                             *)
THEOREM EndedForEver == Orderly /\ Spec => EndedStaysEnded
<1>1. EInv /\ [Next]_vars => [\A t \in Task : Ended(st[t]) => st'[t] = st[t]]_vars
      BY EndedKept, Zenon
<1> QED
    BY EInvariant, <1>1, PTL DEF Spec, EndedStaysEnded
=============================================================================
