----------------------------- MODULE TaskLimits -----------------------------
(***************************************************************************)
(* The limits TASK_LIMIT and CORE_LIMIT.  oph_workflow_execute passes its    *)
(* requests on one after the other; oph_serve_request makes the thread wait  *)
(* on limit_flag until there is a place, and takes the place.  The place is  *)
(* given back by oph_workflow_notify, when it is told that a task has ended. *)
(*                                                                           *)
(* A place is given back for every notification of an end that finds its     *)
(* workflow, before the engine looks at what the notification is worth: a    *)
(* request that never took a place, or the second notification of the same   *)
(* end, gives one back, too.  And a notification that finds no workflow      *)
(* gives none back.  The model keeps these cases apart with owed and extra.  *)
(*                                                                           *)
(* A scan of the file system is a request of its own: of a massive task,     *)
(* before its requests, or of an OPH_WAIT, in a thread of its own.  It takes *)
(* a place and one core, and the thread waits for its answer.  Its end is    *)
(* notified under the task it is made for: the cores of that task are given  *)
(* back, or nothing at all when its operator is known, as OPH_WAIT is.       *)
(***************************************************************************)
EXTENDS Integers, Sequences, FiniteSets

CONSTANTS
    Request,     \* the tasks, light tasks and scans to be passed on
    TaskOf,      \* [Request -> Request]: for a scan, the request of the task
                 \* it is made for; any other request itself
    Thread,      \* the calls of oph_workflow_execute under way
    Batch,       \* [Thread -> Seq(Request)]: the requests of a call, in order
    Workflow,
    Of,          \* [Request -> Workflow]
    Ncores,      \* [Request -> Nat]
    Known,       \* the requests for operators the server executes itself
    Unserved,    \* the requests that are simulated or could not be prepared
    TaskLimit,   \* oph_server_task_limit, 0: no limit
    CoreLimit    \* oph_server_core_limit, 0: no limit

ASSUME BatchAssumption ==
    /\ Batch \in [Thread -> Seq(Request)]
    /\ \A h \in Thread : \A i, k \in 1 .. Len(Batch[h]) :
         Batch[h][i] = Batch[h][k] => i = k
    /\ \A h, g \in Thread : \A i \in 1 .. Len(Batch[h]) : \A k \in 1 .. Len(Batch[g]) :
         Batch[h][i] = Batch[g][k] => h = g
ASSUME RequestAssumption ==
    /\ IsFiniteSet(Request)
    /\ TaskOf \in [Request -> Request]
    /\ Of \in [Request -> Workflow]
    /\ Ncores \in [Request -> Nat]
    /\ Known \subseteq Request
    /\ Unserved \subseteq Request
ASSUME LimitAssumption == TaskLimit \in Nat /\ CoreLimit \in Nat

VARIABLES
    task_running,  \* oph_server_task_running
    core_running,  \* oph_server_core_running
    listed,        \* the workflows in the job list
    at,            \* [Thread -> Nat]: the requests of the call behind it
    pc,            \* [Thread -> where it is in oph_serve_request]
    job,           \* [Request -> the state of the job it has become]
    sent,          \* the notifications under way: <<request, sender>>
    monitored,     \* the jobs the monitor has given up
    owed,          \* history: the requests whose place is not given back
    extra,         \* history: places given back that nobody had taken
    uneven         \* history: the requests that gave back other cores than
                   \* they had taken

vars == <<task_running, core_running, listed, at, pc, job, sent, monitored, owed, extra,
          uneven>>

PcStates == {"call", "asleep", "placed", "scanning"}
JobStates == {"none", "running", "ended", "lost", "refused", "answered"}

TypeOK ==
    /\ task_running \in Nat /\ core_running \in Nat
    /\ listed \subseteq Workflow
    /\ at \in [Thread -> Nat]
    /\ pc \in [Thread -> PcStates]
    /\ job \in [Request -> JobStates]
    /\ sent \subseteq Request \X {"job", "monitor"}
    /\ monitored \subseteq Request
    /\ owed \subseteq Request
    /\ extra \in Nat
    /\ uneven \subseteq Request

IsScan(r) == TaskOf[r] # r

(* A thread of an OPH_WAIT; it has nothing to do when the task does not     *)
(* wait for a file.                                                         *)
Polls(h) == \A i \in 1 .. Len(Batch[h]) : IsScan(Batch[h][i]) /\ TaskOf[Batch[h][i]] \in Known

Init ==
    /\ task_running = 0 /\ core_running = 0
    /\ listed = Workflow
    /\ \E idle \in SUBSET {h \in Thread : Polls(h)} :
         at = [h \in Thread |-> IF h \in idle THEN Len(Batch[h]) ELSE 0]
    /\ pc = [h \in Thread |-> "call"]
    /\ job = [r \in Request |-> "none"]
    /\ sent = {} /\ monitored = {} /\ owed = {} /\ extra = 0 /\ uneven = {}

Busy(h) == at[h] < Len(Batch[h])
Current(h) == Batch[h][at[h] + 1]

-----------------------------------------------------------------------------
(* oph_workflow_notify: "Update limits" and the broadcast, which lets every *)
(* waiting thread look again; next is the state of the threads otherwise.   *)

(* Mutant of Broadcast: only a task given back wakes the threads.           *)
BroadcastForTasks(tasks, cores, next) ==
    IF tasks # task_running
    THEN [h \in Thread |-> IF next[h] = "asleep" THEN "call" ELSE next[h]] ELSE next

(* Mutant of Broadcast: it is missing.                                      *)
NoBroadcast(tasks, cores, next) == next

Broadcast(tasks, cores, next) ==
    IF tasks # task_running \/ cores # core_running
    THEN [h \in Thread |-> IF next[h] = "asleep" THEN "call" ELSE next[h]] ELSE next

(* Mutant of TasksAfter: the counter is not guarded.                        *)
TasksBelowZero(r) == IF TaskLimit > 0 THEN task_running - 1 ELSE task_running

(* Mutant of TasksAfter: the last place is not given back.                  *)
TasksAboveOne(r) ==
    IF TaskLimit > 0 /\ task_running > 1 THEN task_running - 1 ELSE task_running

TasksAfter(r) ==
    IF TaskLimit > 0 /\ task_running > 0 THEN task_running - 1 ELSE task_running

(* The cores a request is charged for, at least one, and those its end      *)
(* gives back.                                                              *)
Charged(r) == IF IsScan(r) \/ Ncores[r] < 1 THEN 1 ELSE Ncores[r]
Returned(r) == Ncores[TaskOf[r]]

(* Mutant of CoresAfter: one core is given back, whatever was taken.        *)
OneCoreAfter(r) ==
    IF CoreLimit > 0 /\ core_running >= 1 THEN core_running - 1 ELSE core_running

CoresAfter(r) ==
    IF CoreLimit > 0 /\ core_running >= Returned(r) THEN core_running - Returned(r)
    ELSE core_running

NotifyEnd(r, next) ==
    \/ /\ Of[TaskOf[r]] \notin listed \/ TaskOf[r] \in Known
       /\ pc' = next
       /\ UNCHANGED <<task_running, core_running, owed, extra, uneven>>
    \/ /\ Of[TaskOf[r]] \in listed /\ TaskOf[r] \notin Known
       /\ task_running' = TasksAfter(r)
       /\ core_running' = CoresAfter(r)
       /\ pc' = Broadcast(TasksAfter(r), CoresAfter(r), next)
       /\ owed' = owed \ {r}
       /\ extra' = IF r \in owed THEN extra ELSE extra + 1
       /\ uneven' = IF Returned(r) = Charged(r) THEN uneven ELSE uneven \cup {r}

-----------------------------------------------------------------------------
(* oph_workflow_execute and oph_serve_request.                              *)

Advance(h) == at' = [at EXCEPT ![h] = @ + 1]

(* The requests that use no resources, also those of a task whose scan was  *)
(* refused: the end is notified at once.                                    *)
AtOnce(r) ==
    /\ ~IsScan(r)
    /\ r \in Known \cup Unserved \/ \E x \in Request : TaskOf[x] = r /\ job[x] = "refused"

ReplyAtOnce(h) ==
    /\ Busy(h) /\ pc[h] = "call"
    /\ AtOnce(Current(h))
    /\ NotifyEnd(Current(h), pc)
    /\ Advance(h)
    /\ UNCHANGED <<listed, job, sent, monitored>>

(* Mutant of Room: a place more than there are.                             *)
RoomForOneMore(r) ==
    /\ TaskLimit > 0 => task_running <= TaskLimit
    /\ CoreLimit > 0 => core_running + Charged(r) <= CoreLimit

Room(r) ==
    /\ TaskLimit > 0 => task_running < TaskLimit
    /\ CoreLimit > 0 => core_running + Charged(r) <= CoreLimit

Limited(h) == Busy(h) /\ pc[h] = "call" /\ ~AtOnce(Current(h))

WaitForPlace(h) ==
    /\ Limited(h) /\ ~Room(Current(h))
    /\ pc' = [pc EXCEPT ![h] = "asleep"]
    /\ UNCHANGED <<task_running, core_running, listed, at, job, sent, monitored, owed, extra,
                   uneven>>

TakePlace(h) ==
    /\ Limited(h) /\ Room(Current(h))
    /\ task_running' = IF TaskLimit > 0 THEN task_running + 1 ELSE task_running
    /\ core_running' =
         IF CoreLimit > 0 THEN core_running + Charged(Current(h)) ELSE core_running
    /\ pc' = [pc EXCEPT ![h] = "placed"]
    /\ owed' = owed \cup {Current(h)}
    /\ UNCHANGED <<listed, at, job, sent, monitored, extra, uneven>>

(* The command could not be formed or passed on: the error is notified.     *)
SubmitFails(h) ==
    /\ pc[h] = "placed" /\ ~IsScan(Current(h))
    /\ NotifyEnd(Current(h), [pc EXCEPT ![h] = "call"])
    /\ Advance(h)
    /\ UNCHANGED <<listed, job, sent, monitored>>

(* For a scan the call returns an error, and the task is reported later.    *)
ScanFails(h) ==
    /\ pc[h] = "placed" /\ IsScan(Current(h))
    /\ job' = [job EXCEPT ![Current(h)] = "refused"]
    /\ pc' = [pc EXCEPT ![h] = "call"]
    /\ Advance(h)
    /\ UNCHANGED <<task_running, core_running, listed, sent, monitored, owed, extra, uneven>>

Submits(h) ==
    /\ pc[h] = "placed"
    /\ job' = [job EXCEPT ![Current(h)] = "running"]
    /\ \/ /\ IsScan(Current(h))
          /\ pc' = [pc EXCEPT ![h] = "scanning"] /\ at' = at
       \/ /\ ~IsScan(Current(h))
          /\ pc' = [pc EXCEPT ![h] = "call"] /\ Advance(h)
    /\ UNCHANGED <<task_running, core_running, listed, sent, monitored, owed, extra, uneven>>

(* The thread finds the response of the scan.                               *)
ScanReturns(h) ==
    /\ pc[h] = "scanning" /\ job[Current(h)] = "answered"
    /\ pc' = [pc EXCEPT ![h] = "call"]
    /\ Advance(h)
    /\ UNCHANGED <<task_running, core_running, listed, job, sent, monitored, owed, extra,
                   uneven>>

(* pthread_cond_wait may return without a broadcast.                        *)
WakesUp(h) ==
    /\ pc[h] = "asleep"
    /\ pc' = [pc EXCEPT ![h] = "call"]
    /\ UNCHANGED <<task_running, core_running, listed, at, job, sent, monitored, owed, extra,
                   uneven>>

-----------------------------------------------------------------------------
(* The jobs and the notifications.                                          *)

(* The job ends, or the thread that submits it fails to: either notifies.   *)
JobEnds(r) ==
    /\ job[r] = "running"
    /\ job' = [job EXCEPT ![r] = "ended"]
    /\ sent' = sent \cup {<<r, "job">>}
    /\ UNCHANGED <<task_running, core_running, listed, at, pc, monitored, owed, extra,
                   uneven>>

JobVanishes(r) ==
    /\ job[r] = "running"
    /\ job' = [job EXCEPT ![r] = "lost"]
    /\ UNCHANGED <<task_running, core_running, listed, at, pc, sent, monitored, owed, extra,
                   uneven>>

(* The monitor misses a job that has not been notified yet and prepares the *)
(* notification; it is sent later, and the job's own may come before.  It   *)
(* does not look at the scans.                                              *)
MonitorGivesUp(r) ==
    /\ ~IsScan(r) /\ Of[r] \in listed /\ r \notin monitored
    /\ job[r] = "lost" \/ <<r, "job">> \in sent
    /\ monitored' = monitored \cup {r}
    /\ sent' = sent \cup {<<r, "monitor">>}
    /\ UNCHANGED <<task_running, core_running, listed, at, pc, job, owed, extra, uneven>>

Deliver(n) ==
    /\ n \in sent
    /\ sent' = sent \ {n}
    /\ NotifyEnd(n[1], pc)
    /\ job' = IF IsScan(n[1]) /\ Of[TaskOf[n[1]]] \in listed
              THEN [job EXCEPT ![n[1]] = "answered"] ELSE job
    /\ UNCHANGED <<listed, at, monitored>>

(* The workflow ends, is cancelled or expires.                              *)
Unlist(w) ==
    /\ w \in listed
    /\ listed' = listed \ {w}
    /\ UNCHANGED <<task_running, core_running, at, pc, job, sent, monitored, owed, extra,
                   uneven>>

Next ==
    \/ \E h \in Thread : \/ ReplyAtOnce(h) \/ WaitForPlace(h) \/ TakePlace(h)
                         \/ SubmitFails(h) \/ ScanFails(h) \/ Submits(h)
                         \/ ScanReturns(h) \/ WakesUp(h)
    \/ \E r \in Request : JobEnds(r) \/ JobVanishes(r) \/ MonitorGivesUp(r)
    \/ \E n \in sent : Deliver(n)
    \/ \E w \in Workflow : Unlist(w)

Spec == Init /\ [][Next]_vars

(***************************************************************************)
(* Fairness.  A thread that is not blocked goes on; a job ends or is missed *)
(* by the monitor; a notification sent is processed.  Nothing makes a       *)
(* sleeping thread wake up but the broadcast.                               *)
(***************************************************************************)
Fairness ==
    /\ \A h \in Thread : WF_vars(\/ ReplyAtOnce(h) \/ WaitForPlace(h) \/ TakePlace(h)
                                 \/ SubmitFails(h) \/ ScanFails(h) \/ Submits(h)
                                 \/ ScanReturns(h))
    /\ \A r \in Request \ (Known \cup Unserved) :
         /\ WF_vars(JobEnds(r) \/ MonitorGivesUp(r))
         /\ WF_vars(\E n \in sent : n[1] = r /\ Deliver(n))

FairSpec == Spec /\ Fairness

-----------------------------------------------------------------------------
(* Properties.                                                              *)

(* The counters never pass the limits they are compared with, whatever is   *)
(* given back too much: oph_server_core_running is unsigned and is only     *)
(* decreased when it is large enough.                                       *)
CountersWithinLimits ==
    /\ TaskLimit > 0 => task_running <= TaskLimit
    /\ CoreLimit > 0 => core_running <= CoreLimit

(* oph_server_task_running counts the places taken and not given back,      *)
(* short of those given back by notifications of requests without a place   *)
(* and by second notifications of the same end.                             *)
PlacesAccounted ==
    TaskLimit > 0 => /\ task_running <= Cardinality(owed)
                     /\ Cardinality(owed) <= task_running + extra

(* The cores the requests in R are charged for, one by one.                 *)
Units(R) == UNION {{r} \X (1 .. Charged(r)) : r \in R}
CoresOf(R) == Cardinality(Units(R))

(* As long as no such notification came, and no request ended that gives    *)
(* back other cores than it takes (one with ncores = 0, the scan of a task  *)
(* with several cores), the cores counted are exactly the cores of the      *)
(* requests whose place has not been given back.                            *)
CoresAccounted ==
    CoreLimit > 0 /\ extra = 0 /\ uneven = {} => core_running = CoresOf(owed)

(* No wake-up is lost: a thread sleeps on limit_flag only while there is no *)
(* room for its request.                                                    *)
SleepsForGoodReason ==
    \A h \in Thread : pc[h] = "asleep" => ~Room(Current(h))

(* A place is lost for good: its workflow has left the job list before the  *)
(* task was notified; it is the one of a scan of an OPH_WAIT, of a scan     *)
(* that vanished or of one refused; or cores are counted that no request    *)
(* has, because the end gave back fewer than were taken, or none as the     *)
(* counter was too small.                                                   *)
PlaceLost ==
    \/ \E r \in owed :
          \/ Of[TaskOf[r]] \notin listed
          \/ IsScan(r) /\ (TaskOf[r] \in Known \/ job[r] \in {"lost", "refused"})
    \/ CoreLimit > 0 /\ core_running > CoresOf(owed)

(* A thread that waits for a place, and whose request fits into the limits, *)
(* gets it at last, whatever is notified twice, unless a place is lost.     *)
PlaceIsGot ==
    \A h \in Thread :
        (pc[h] = "asleep" /\ (CoreLimit > 0 => Charged(Current(h)) <= CoreLimit))
            ~> (pc[h] = "placed" \/ PlaceLost)
=============================================================================
