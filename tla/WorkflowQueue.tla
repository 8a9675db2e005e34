---------------------------- MODULE WorkflowQueue ----------------------------
(***************************************************************************)
(* The admission of workflows: the job list with its farm and queue limits, *)
(* the thread that submits a workflow (oph__ophExecuteMain), the threads    *)
(* that serve notifications and start queued workflows at their end         *)
(* (oph_workflow_notify), the expiration of old workflows, OPH_CANCEL and   *)
(* the clients that wait for a synchronous workflow on termination_flag.    *)
(*                                                                          *)
(* What a started workflow does (WorkflowEngine) is reduced to "its jobs    *)
(* send notifications until one of them ends it".  The job list is a set    *)
(* with the arrival numbers of its items.                                   *)
(***************************************************************************)
EXTENDS Integers, FiniteSets, OphStatus

CONSTANTS
    Wf,          \* the workflows submitted
    Sync,        \* the ones submitted with exec_mode=sync
    Thread,      \* the threads that serve notifications and OPH_CANCEL
    FarmSize,    \* SERVER_FARM_SIZE: 0 is no limit
    QueueSize,   \* QUEUE_SIZE: 0 is no limit
    Timeout,     \* WORKFLOW_TIMEOUT
    MaxClock,    \* bound of the clock
    InitMayFail, \* preparing a workflow for its execution may fail
    Cancellable  \* the workflows for which OPH_CANCEL may come

ASSUME QueueAssumption ==
    /\ IsFiniteSet(Wf) /\ Sync \subseteq Wf /\ Cancellable \subseteq Wf
    /\ {FarmSize, QueueSize, Timeout, MaxClock} \subseteq Nat
    /\ InitMayFail \in BOOLEAN

VARIABLES
    clock,
    listed,    \* the workflows of the job list
    arrival,   \* [Wf -> Nat]: the position of insertion
    stamp,     \* [Wf -> Nat]: item->timestamp
    status,    \* wf->status
    closed,    \* wf->is_closed
    memory,    \* "live" until oph_workflow_free
    work,      \* "idle", "busy" once the first tasks are executed, "over"
    client,    \* the place of the submitting thread
    thread     \* the place of every other thread, and the workflow it serves

vars == <<clock, listed, arrival, stamp, status, closed, memory, work, client, thread>>

NoWf == "none"
Idle == [at |-> "idle", wf |-> NoWf]

TypeOK ==
    /\ clock \in 0 .. MaxClock
    /\ listed \subseteq Wf
    /\ arrival \in [Wf -> Nat]
    /\ stamp \in [Wf -> 0 .. MaxClock]
    /\ status \in [Wf -> {UNKNOWN, PENDING, RUNNING, COMPLETED, ABORTED, EXPIRED}]
    /\ closed \in [Wf -> BOOLEAN]
    /\ memory \in [Wf -> {"live", "freed"}]
    /\ work \in [Wf -> {"idle", "busy", "over"}]
    /\ client \in [Wf -> {"new",       \* not submitted yet
                          "marking",   \* in the list, to be marked as queued
                          "checking",  \* marked, about to read the status
                          "starting",  \* about to start the workflow itself
                          "waiting",   \* about to test the end of the workflow
                          "asleep",    \* in pthread_cond_wait
                          "done"}]     \* answered
    /\ thread \in [Thread -> [at : {"idle", "closing", "tail", "begin", "cancelling"},
                              wf : Wf \cup {NoWf}]]

Init ==
    /\ clock = 0
    /\ listed = {}
    /\ arrival = [w \in Wf |-> 0]
    /\ stamp = [w \in Wf |-> 0]
    /\ status = [w \in Wf |-> UNKNOWN]
    /\ closed = [w \in Wf |-> FALSE]
    /\ memory = [w \in Wf |-> "live"]
    /\ work = [w \in Wf |-> "idle"]
    /\ client = [w \in Wf |-> "new"]
    /\ thread = [h \in Thread |-> Idle]

-----------------------------------------------------------------------------
(* The job list.                                                            *)

(* Every search removes the items older than the timeout: a synchronous     *)
(* workflow becomes EXPIRED and its client is woken, an asynchronous one is *)
(* released.                                                                *)
Expired == {w \in listed : stamp[w] < clock - Timeout}
Fresh == listed \ Expired
StatusAfterFlush == [w \in Wf |-> IF w \in Expired \cap Sync THEN EXPIRED ELSE status[w]]
MemoryAfterFlush == [w \in Wf |-> IF w \in Expired \ Sync THEN "freed" ELSE memory[w]]

(* pthread_cond_broadcast(&termination_flag)                                *)
Woken(c) == [w \in Wf |-> IF c[w] = "asleep" THEN "waiting" ELSE c[w]]
ClientAfterFlush(c) == IF Expired \cap Sync # {} THEN Woken(c) ELSE c

FarmIsFull == FarmSize > 0 /\ Cardinality(listed) >= FarmSize
ListIsFull == FarmIsFull /\ QueueSize > 0 /\ Cardinality(listed) >= FarmSize + QueueSize

(* oph_find_unstarted_in_job_list                                           *)
Started(w) == status[w] # UNKNOWN
Unstarted == {w \in Fresh : ~Started(w)}
(* Mutant of MayStartOne: off by one.                                       *)
MayStartOneMore == FarmSize > 0 /\ Cardinality({w \in Fresh : Started(w)}) <= FarmSize
MayStartOne == FarmSize > 0 /\ Cardinality({w \in Fresh : Started(w)}) < FarmSize
FirstOf(S) == CHOOSE w \in S : \A v \in S : arrival[w] <= arrival[v]
-----------------------------------------------------------------------------
(* The thread that submits the workflow w.                                  *)

(* oph_wf_list_append.  The limits are tested before the old items go.      *)
AppendToList(w) ==
    /\ client[w] = "new"
    /\ \/ /\ ListIsFull
          /\ client' = [client EXCEPT ![w] = "done"]
          /\ memory' = [memory EXCEPT ![w] = "freed"]
          /\ UNCHANGED <<listed, arrival, stamp, status>>
       \/ /\ ~ListIsFull
          /\ listed' = Fresh \cup {w}
          /\ arrival' = [arrival EXCEPT ![w] = 1 + Cardinality({v \in Wf : arrival[v] > 0})]
          /\ stamp' = [stamp EXCEPT ![w] = clock]
          /\ status' = [StatusAfterFlush EXCEPT ![w] = PENDING]
          /\ memory' = MemoryAfterFlush
          /\ client' = [ClientAfterFlush(client) EXCEPT
                           ![w] = IF FarmIsFull THEN "marking" ELSE "starting"]
    /\ UNCHANGED <<clock, closed, work, thread>>

(* The workflow is in the queue; its status is written without the lock ... *)
MarkQueued(w) ==
    /\ client[w] = "marking"
    /\ status' = [status EXCEPT ![w] = UNKNOWN]
    /\ client' = [client EXCEPT ![w] = "checking"]
    /\ UNCHANGED <<clock, listed, arrival, stamp, closed, memory, work, thread>>

AfterStart(w) == IF w \in Sync THEN "waiting" ELSE "done"

(* ... and read without it.                                                 *)
CheckQueued(w) ==
    /\ client[w] = "checking"
    /\ client' = [client EXCEPT ![w] = IF Started(w) THEN "starting" ELSE AfterStart(w)]
    /\ UNCHANGED <<clock, listed, arrival, stamp, status, closed, memory, work, thread>>

(* oph_workflow_execute on the initial tasks: it does nothing for a         *)
(* workflow that has ended or has been cancelled, or that runs already.     *)
WorkAfterExecute(w) ==
    IF status[w] < COMPLETED /\ work[w] = "idle" THEN [work EXCEPT ![w] = "busy"] ELSE work

ClientStarts(w) ==
    /\ client[w] = "starting"
    /\ work' = WorkAfterExecute(w)
    /\ client' = [client EXCEPT ![w] = AfterStart(w)]
    /\ UNCHANGED <<clock, listed, arrival, stamp, status, closed, memory, thread>>

(* oph_wf_list_drop                                                         *)
DropAndFree(w, c) ==
    /\ listed' = Fresh \ {w}
    /\ status' = StatusAfterFlush
    /\ memory' = IF w \in Fresh THEN [MemoryAfterFlush EXCEPT ![w] = "freed"]
                 ELSE MemoryAfterFlush
    /\ client' = ClientAfterFlush(c)

ClientCannotStart(w) ==
    /\ InitMayFail
    /\ client[w] = "starting"
    /\ DropAndFree(w, [client EXCEPT ![w] = "done"])
    /\ UNCHANGED <<clock, arrival, stamp, closed, work, thread>>

(* The loop around pthread_cond_wait: the predicate is tested under the     *)
(* lock; a client that goes on releases the workflow.                       *)
ClientWaits(w) ==
    /\ client[w] = "waiting"
    /\ ~closed[w] /\ status[w] < ABORTED
    /\ client' = [client EXCEPT ![w] = "asleep"]
    /\ UNCHANGED <<clock, listed, arrival, stamp, status, closed, memory, work, thread>>

(* Mutant of ClientReturns: the workflow is released while still listed.    *)
ReturnsWithoutDrop(w) ==
    /\ client[w] = "waiting"
    /\ closed[w] \/ status[w] >= ABORTED
    /\ memory' = [memory EXCEPT ![w] = "freed"]
    /\ client' = [client EXCEPT ![w] = "done"]
    /\ UNCHANGED <<clock, listed, arrival, stamp, status, closed, work, thread>>

ClientReturns(w) ==
    LET aborted == ~closed[w] /\ status[w] = ABORTED
        returned == [client EXCEPT ![w] = "done"]
    IN  /\ client[w] = "waiting"
        /\ closed[w] \/ status[w] >= ABORTED
        /\ listed' = IF aborted THEN Fresh \ {w} ELSE listed
        /\ status' = IF aborted THEN StatusAfterFlush ELSE status
        /\ memory' = [IF aborted THEN MemoryAfterFlush ELSE memory EXCEPT ![w] = "freed"]
        /\ client' = IF aborted THEN ClientAfterFlush(returned) ELSE returned
        /\ UNCHANGED <<clock, arrival, stamp, closed, work, thread>>

-----------------------------------------------------------------------------
(* The threads that serve notifications.                                    *)

At(h, place, w) == thread' = [thread EXCEPT ![h] = [at |-> place, wf |-> w]]
Flush == /\ memory' = MemoryAfterFlush
         /\ client' = ClientAfterFlush(client)

(* A job of w notifies that it goes on, or that its end is the end of w.    *)
(* The handler of a workflow that is not found, or refuses the              *)
(* notification, returns without looking at the queue.                      *)
Notify(h, w, last) ==
    LET found == w \in Fresh /\ status[w] < ABORTED
    IN  /\ thread[h] = Idle
        /\ work[w] = "busy"
        /\ Flush
        /\ listed' = IF found /\ last THEN Fresh \ {w} ELSE Fresh
        /\ status' = IF found THEN [StatusAfterFlush EXCEPT ![w] = IF last THEN COMPLETED ELSE RUNNING]
                     ELSE StatusAfterFlush
        /\ work' = IF last THEN [work EXCEPT ![w] = "over"] ELSE work
        /\ IF found THEN At(h, IF last THEN "closing" ELSE "tail", w) ELSE thread' = thread
        /\ UNCHANGED <<clock, arrival, stamp, closed>>

(* Mutants of CloseWf: nobody is woken; the queue is not looked at.         *)
CloseSilently(h) ==
    LET w == thread[h].wf
    IN  /\ thread[h].at = "closing"
        /\ At(h, "tail", NoWf)
        /\ closed' = [closed EXCEPT ![w] = w \in Sync]
        /\ memory' = [memory EXCEPT ![w] = IF w \in Sync THEN @ ELSE "freed"]
        /\ UNCHANGED <<clock, listed, arrival, stamp, status, work, client>>
CloseAndForgetQueue(h) ==
    LET w == thread[h].wf
    IN  /\ thread[h].at = "closing"
        /\ At(h, "idle", NoWf)
        /\ closed' = [closed EXCEPT ![w] = w \in Sync]
        /\ memory' = [memory EXCEPT ![w] = IF w \in Sync THEN @ ELSE "freed"]
        /\ client' = Woken(client)
        /\ UNCHANGED <<clock, listed, arrival, stamp, status, work>>

(* The response is built; then a synchronous workflow is handed over to its *)
(* client, an asynchronous one is released.                                 *)
CloseWf(h) ==
    LET w == thread[h].wf
    IN  /\ thread[h].at = "closing"
        /\ At(h, "tail", NoWf)
        /\ IF w \in Sync
           THEN /\ closed' = [closed EXCEPT ![w] = TRUE]
                /\ client' = Woken(client)
                /\ memory' = memory
           ELSE /\ memory' = [memory EXCEPT ![w] = "freed"]
                /\ UNCHANGED <<closed, client>>
        /\ UNCHANGED <<clock, listed, arrival, stamp, status, work>>

(* The last thing a handler does: look for a queued workflow.               *)
LookAtQueue(h) ==
    /\ thread[h].at = "tail"
    /\ Flush
    /\ listed' = Fresh
    /\ IF MayStartOne /\ Unstarted # {}
       THEN /\ status' = [StatusAfterFlush EXCEPT ![FirstOf(Unstarted)] = PENDING]
            /\ At(h, "begin", FirstOf(Unstarted))
       ELSE /\ status' = StatusAfterFlush
            /\ At(h, "idle", NoWf)
    /\ UNCHANGED <<clock, arrival, stamp, closed, work>>

StartQueued(h) ==
    /\ thread[h].at = "begin"
    /\ work' = WorkAfterExecute(thread[h].wf)
    /\ At(h, "idle", NoWf)
    /\ UNCHANGED <<clock, listed, arrival, stamp, status, closed, memory, client>>

CannotStartQueued(h) ==
    /\ InitMayFail
    /\ thread[h].at = "begin"
    /\ DropAndFree(thread[h].wf, client)
    /\ At(h, "tail", NoWf)
    /\ UNCHANGED <<clock, arrival, stamp, closed, work>>

(* OPH_CANCEL sets the status, which wakes nobody ...                       *)
Cancel(h, w) ==
    /\ w \in Cancellable
    /\ thread[h] = Idle
    /\ w \in Fresh /\ ~closed[w] /\ status[w] < ABORTED
    /\ Flush
    /\ listed' = Fresh
    /\ status' = [StatusAfterFlush EXCEPT ![w] = ABORTED]
    /\ At(h, "cancelling", w)
    /\ UNCHANGED <<clock, arrival, stamp, closed, work>>

(* ... and notifies the engine, which drops the workflow if it still finds  *)
(* it aborted.                                                              *)
CancelNotify(h) ==
    LET w == thread[h].wf
    IN  /\ thread[h].at = "cancelling"
        /\ Flush
        /\ status' = StatusAfterFlush
        /\ listed' = IF status[w] >= ABORTED THEN Fresh \ {w} ELSE Fresh
        /\ At(h, IF w \in Fresh THEN "tail" ELSE "idle", NoWf)
        /\ UNCHANGED <<clock, arrival, stamp, closed, work>>

(* The timeout is weeks long: no thread is half way through a request when  *)
(* it elapses.  Clients waiting and workflows running may be.               *)
Tick ==
    /\ clock < MaxClock
    /\ \A h \in Thread : thread[h] = Idle
    /\ \A w \in Wf : client[w] \in {"new", "waiting", "asleep", "done"}
    /\ clock' = clock + 1
    /\ UNCHANGED <<listed, arrival, stamp, status, closed, memory, work, client, thread>>

ClientNext(w) ==
    \/ AppendToList(w) \/ MarkQueued(w) \/ CheckQueued(w) \/ ClientStarts(w)
    \/ ClientCannotStart(w) \/ ClientWaits(w) \/ ClientReturns(w)

ThreadNext(h) ==
    \/ CloseWf(h) \/ LookAtQueue(h) \/ StartQueued(h) \/ CannotStartQueued(h)
    \/ CancelNotify(h)

Next ==
    \/ \E w \in Wf : ClientNext(w)
    \/ \E h \in Thread : ThreadNext(h)
    \/ \E h \in Thread, w \in Wf :
          \/ \E last \in BOOLEAN : Notify(h, w, last)
          \/ Cancel(h, w)
    \/ Tick

Spec == Init /\ [][Next]_vars

(***************************************************************************)
(* Fairness.  Every thread goes on, and the last notification of a workflow *)
(* that runs comes at last.  A client may never come, nobody has to cancel, *)
(* and the clock is not forced to advance.                                  *)
(***************************************************************************)
Fairness ==
    /\ \A w \in Wf : /\ WF_vars(ClientNext(w) /\ client[w] # "new")
                     /\ SF_vars(\E h \in Thread : Notify(h, w, TRUE))
    /\ \A h \in Thread : WF_vars(ThreadNext(h))

FairSpec == Spec /\ Fairness

-----------------------------------------------------------------------------
(* Properties.                                                              *)

(* The workflows that hold a place of the farm: their tasks are running, or *)
(* somebody is about to start them.                                         *)
Running ==
    {w \in listed : /\ Started(w) /\ status[w] < ABORTED
                    /\ \/ work[w] = "busy" \/ client[w] = "starting"
                       \/ \E h \in Thread : thread[h] = [at |-> "begin", wf |-> w]}

(* At most FarmSize workflows run at a time, although the decision to start *)
(* one is taken in the submitting thread and in the handlers of             *)
(* notifications, and the queue mark is written without the lock.           *)
FarmNeverExceeded == FarmSize > 0 => Cardinality(Running) <= FarmSize

(* The job list never holds more workflows than farm and queue allow.       *)
QueueNeverExceeded ==
    FarmSize > 0 /\ QueueSize > 0 => Cardinality(listed) <= FarmSize + QueueSize

(* The memory of a workflow is released only once it is out of the job      *)
(* list, so no search of a later notification, cancellation or dequeue      *)
(* returns a released workflow.                                             *)
FreedIsUnlisted == \A w \in Wf : memory[w] = "freed" => w \notin listed

(* The client of a synchronous workflow that was admitted at once is        *)
(* answered in the end: by the end of the workflow, or by its expiration.   *)
AdmittedClientAnswered == \A w \in Sync : client[w] = "starting" ~> client[w] = "done"

(* A queued workflow is started in the end, or leaves the list.             *)
QueuedIsStarted ==
    \A w \in Wf : (w \in listed /\ client[w] = "checking") ~> (Started(w) \/ w \notin listed)

(* A workflow marked as queued while another one is running is started in   *)
(* the end, since every end of a workflow looks at the queue; provided that *)
(* from then on no other workflow is between its insertion and its mark,    *)
(* where it counts as running.                                              *)
QueuedBehindRunningIsStarted ==
    \A w \in Wf :
        (/\ w \in listed /\ ~Started(w) /\ client[w] # "new"
         /\ Running # {}
         /\ [](\A v \in Wf : client[v] # "marking")) ~> (Started(w) \/ w \notin listed)
=============================================================================
