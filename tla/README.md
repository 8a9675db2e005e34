# A TLA+ verification of the ESDM-PAV runtime

The ESDM-PAV runtime (a derivative of the Ophidia Server) is a multithreaded
gSOAP server.  Clients submit workflows; the server parses them, executes their
tasks in the order of a dependence graph by submitting jobs to a resource
manager, and is driven from then on by the notifications the jobs send back.
Nearly all of its state is in memory, protected by one mutex (`global_flag`)
and three condition variables; a handler takes the mutex several times and
calls other handlers in between.  This directory holds TLA+ models of that
machinery, TLC runs that check them on small instances, and TLAPS proofs.

## The parts of the system

| part | source | here |
|---|---|---|
| execution engine: `oph_workflow_execute`, `oph_workflow_notify`, `oph_workflow_set_status`, `oph_workflow_abort_task` | `oph_workflow_engine.c` | `WorkflowEngine`, `TaskGraph`, `RetryBudget` |
| job monitor: `oph_workflow_check_job_queue` | `oph_workflow_engine.c` | `MonitorMisses`, `MonitorAborts` of `WorkflowEngine`, `MonitorGivesUp` of `TaskLimits` |
| admission of workflows, job list, queue, expiration | `oph_execute_main.c`, `oph_job_list.c`, `oph_memory_job.c` | `WorkflowQueue` |
| cancellation: `OPH_CANCEL` | `oph_management_operators.c` | actions of `WorkflowEngine` and `WorkflowQueue` |
| task and core limits (`TASK_LIMIT`, `CORE_LIMIT`, `limit_flag`) | `oph_workflow_engine.c`, `oph_rmanager.c` | `TaskLimits` |
| flow control: FOR, ENDFOR, IF, ELSEIF, ELSE, ENDIF | `oph_flow_control_operators.c`, `oph_workflow_engine.c` | `FlowControl` |
| waiting tasks: WAIT, INPUT | `oph_flow_control_operators.c` | `WaitingTasks` |
| final task of a workflow, exit actions | `oph_workflow_engine.c` | not modelled |
| workflow parsing, indexing, validation of the graph | `oph_workflow/` | `DagCheck`, `FlowStructure`; the JSON parser is not modelled |
| massive operations (expansion into light tasks) | `oph_massive_operations.c`, `oph_filters.c` | the number of light tasks is a constant; the scan an execution waits for is in `WorkflowEngine` and `TaskLimits` |
| resource manager and submission | `oph_rmanager.c`, `oph_ssh_submit.c` | external side of the jobs |
| sessions, users, authorisation | `oph_auth.c`, `oph_manage_user.c` | not modelled |
| management operators (sessions, log, script, service, cluster, ...) | `oph_management_operators.c` | only `OPH_CANCEL` |
| OphidiaDB access | `oph_ophidiadb.c`, `oph_odb_job.c`, `oph_ophidiadb_fs_library.c` | a reply, or no reply (`DbMayFail`) |
| JSON responses, session reports, string parsing | `oph_json/`, `oph_session_report.c`, `oph_parser.c`, `oph_task_parser_library.c`, `oph_subset_library.c` | not modelled: text building without concurrent state |
| server start and stop, thread pool, configuration | `ssl/oph_server.c`, `gsi/`, `threads.c`, `oph_server_confs.c` | not modelled |
| generated gSOAP code | `stdsoap2.c`, `soapC.c`, `soapServer.c`, ... | not modelled: generated |

`PROJECT.json` lists every part with its sources, the definitions with the
lines they model (`map`), the runs, and the hazards of the code with the
properties that watch them.

How the parts interact: a client's thread (`oph__ophExecuteMain`) inserts its
workflow into the job list and, if the farm has room, initialises it and calls
`oph_workflow_execute`.  That handler prepares requests for the ready tasks
under `global_flag` (which it gives up in between to scan the file system for
the filter of a massive task), releases it and passes the requests on one by
one (`oph_serve_request`, which may wait on `limit_flag`).  Jobs, submission
threads, the monitor and the server itself call `oph_workflow_notify`, which
gives back the place, updates the graph under the lock, releases it, and calls
`oph_workflow_execute` for the dependents or for a retry.  The notification
that ends the workflow drops it from the list, answers the client
(`termination_flag`) and starts a queued workflow.

## The modules

| module | what it is |
|---|---|
| `OphStatus` | the job statuses with their order, and the folding of a notified status |
| `WorkflowEngine` | the engine of one workflow |
| `TaskGraph` | what the engine promises: the abstract graph of tasks it implements |
| `RetryBudget` | the engine with a history of the attempts of each task |
| `WorkflowQueue` | the job list shared by all workflows, its limits, expiration, waiting clients |
| `TaskLimits` | the limits on tasks and cores shared by all workflows |
| `DagCheck` | indexing of the dependences and the check of the graph for cycles |
| `FlowStructure` | which ENDFOR, ELSEIF, ELSE and ENDIF belong to which FOR and IF |
| `FlowControl` | the execution of a workflow with selections and loops, on the structure found |
| `WaitingTasks` | the threads of the `OPH_WAIT` tasks of one workflow, with `OPH_INPUT` |
| `MCEngine`, `MCQueue`, `MCLimits`, `MCDag`, `MCFlow`, `MCWaiting` | the instances for TLC |
| `WorkflowEngineProofs`, `EngineOutcomeProofs`, `LightTasksProofs`, `RetryBudgetProofs` | theorems and proofs about the engine: order and uniqueness; the end of a workflow and the refinement; the light tasks; the attempts |
| `WorkflowQueueProofs`, `TaskLimitsProofs`, `DagCheckProofs`, `WaitingTasksProofs` | theorems and proofs about the other components |

### WorkflowEngine

One section under `global_flag` is one step.  `execs` holds the calls of
`oph_workflow_execute` that have been decided and have not taken the lock yet,
`scans` those that have released it to wait for a scan, `queries` the scans at
the resource manager and `answered` the tasks with a response, `requests` what
a call has prepared and not passed on, `jobs` what the resource manager has;
everything may come between.  `st`, `deps`, `rdeps`,
`retry`, `auto`, `marked` are `status`, the dependences with `task_index` not
-1, `residual_deps_num`, `residual_retry_num`, `residual_auto_retry_num` and
`is_marked_for_auto_retry` of a task; `lst` and `rlight` the light tasks and
`residual_light_tasks_num`; `wstatus` and `residual` are `status` and
`residual_tasks_num` of the workflow.

`Execute` is the locked part of `oph_workflow_execute`, with `Ready` its guards.
`Loop` goes over the tasks of the argument up to the end or to the first one
whose filter needs a scan (`_oph_mf_parse_KV` unlocks, submits the scan and
waits); `ScanReturns` and `ScanRefused` take the loop up again.  The call then
looks no more at the status of the workflow, nor, of the task scanned, at
anything (`StillReady`).  `Prepare` does to every task reached what became of
it (`Fates`): its requests are prepared; it is `void`, no object matches or
`run=no`, and set to COMPLETED without the counters, which follow with the
report; its filter is `wrong`, an ERROR of which the tasks below are not told;
or its request is `bad`, an ERROR with everything below aborted.  `Submit`,
`Reply` and `Report` are the part after the lock, which a call reaches when it
has no more scan to wait for (`Passable`).  `ScanEnds` is the notification of a
scan: an answer as long as the task has no identifier, and a notification of
the task afterwards; `ReportUnheard` is a report without identifier, taken for
such an answer.  `Notify` is the locked part of
`oph_workflow_notify`: what is refused or neglected, `NotifySingle` and
`NotifyLight`, and then `TaskEnds` with its cases (completed, skipped,
`on_error=continue`, automatic retry, manual retry, failed).  `Close`,
`Cancel`, `CancelDrops` and `CancelKills` end a workflow.  A job sends its
notifications one at a time and waits for the answer, so sending and handling
are one step.

Left out: the final task and the exit actions; flow control (in `FlowControl`
and `WaitingTasks`); the data constraint between massive operations;
failed allocations; the texts of requests and responses.  The order in which
one call passes its requests on, and in which it goes over its tasks, is left
open.  A filter is scanned once; the other place where the code scans
(of the virtual file system, in the same function) is the same window.

The monitor makes its list of notifications under the lock (`MonitorMisses`)
and sends them later (`MonitorAborts`); it looks only at tasks beyond PENDING.
Which jobs it may miss is the constant `MayBeMissed`: lost ones, or also running
ones, because its list of jobs is older than its look at the tasks.

Two things break the promises of the engine, and the model has both: two calls
that wait for the scan of a common dependent both submit it, and a running job
the monitor has missed goes on beside the next attempt and reports its end.
`Orderly` excludes them: the monitor misses lost jobs only, and a task whose
filter needs a scan depends on one task at most.  The runs are instances of it
and the theorems have it as a hypothesis.  With `Scanned = {d}` (and
on_error=break) TLC finds `OneAttemptAtATime` violated, with `MayBeMissed =
{"lost", "running"}` also `EndedStaysEnded`.

### WorkflowQueue

`AppendToList`, `MarkQueued`, `CheckQueued`, `ClientStarts` (or
`ClientCannotStart`), `ClientWaits` and `ClientReturns` are the steps of the
submitting thread, in the order of `oph__ophExecuteMain`; `Notify`, `CloseWf`,
`LookAtQueue`, `StartQueued` those of a thread that serves a notification.
Every search of the list removes the expired workflows first (`Flush`).  What a
started workflow does is reduced to "its notifications come until one ends
it".  The clock advances only while no thread is between two steps on a
workflow it holds: references of running handlers to expired workflows are not
modelled, nor are the pointers of the list or the list of saved workflows.

### TaskLimits

Each thread passes the requests of one call on in order.  `WaitForPlace`,
`TakePlace` are the loop on `limit_flag`; `Broadcast`, `TasksAfter` and
`CoresAfter` the lines "Update limits" of `oph_workflow_notify`, which come
before the notification is checked.  The history variables `owed` and `extra`
tell a place given back by the one who had it from a place given back by
somebody who had none: a request that was never submitted, or a second
notification (of the monitor) of the same end.  A scan of the file system is a
request of its own (`TaskOf` is the task it is made for): of a massive task, in
front of its requests, or of an `OPH_WAIT`, in a thread of its own.  It takes a
place and one core, and the thread waits for the answer (`ScanReturns`); its end
gives back the cores of the task, or nothing when the operator of the task is
known, as `OPH_WAIT` is.  `uneven` remembers who gave back other cores than it
took.

### DagCheck

The loops of `oph_workflow_indexing`, `oph_workflow_validate` and
`oph_workflow_init` are unrolled into steps (`IndexDependence`, `BuildGraph`,
`Collect`, `NextNode`, `RemoveEdge`, `CheckEdges`, `FindInitial`), with the
variables of the code: `task_index`, `dependents`, the copy of the graph with
its counters, and the queue `S`.  So what the sort computes is stated, and
proved, by invariants.  The reference is `DependsOn`, the relation between the
names of the request: a graph is acyclic when every set of tasks has one that
depends on none of the set.  `rank` is a history variable: when a node was
removed from `S`.  `oph_workflow_validate` also refuses reserved characters in
the arguments; a request of the model is one that has none.

### FlowStructure and FlowControl

`Validate` is `oph_workflow_validate_fco`, with `NumberOf` the recursive search
of `workflow_number_of`.  It gives each operator its `parent`, `child` and
`branch_num`, on which execution relies.

In `FlowControl` a request of a flow control operator is served in one section
under the lock (`ServeTrue`, `ServeFalse`, `ServeSkipped`, `ServeElse`,
`ServeFor`, `ServeEndforAgain`, ...) and notified in another (`Deliver`); the
notifications of other tasks and the calls of `oph_workflow_execute` come
between in any order.  Leaving a branch out (`LeaveOut`) marks its tasks, takes
them from `residual_tasks_num` and rewires the ENDIF; the end of an iteration
resets the body (`Reset`) to what the FOR pushed on the stack, takes off the
dependences on tasks outside of the loop that have ended since (`Disable`), and
turns the notification of the ENDFOR into one of the FOR.  `Notify` is the part
of `oph_workflow_notify` these need: no massive tasks, cancellations or
automatic retries, which are in `WorkflowEngine`.  The values of variables and
the text of conditions are reduced to a nondeterministic verdict and a number
of iterations.  The reference (`Block`, `Loop`, `Chosen`, `Rejected`) reads the
selections and loops off the graph of the request and the verdicts.

### WaitingTasks

`at[w]` is the place of the thread of task `w` in `_oph_wait`.  Every section
under the lock is a step, and so is every access outside.  `num` is
`waiting_tasks_num`, the counter of the sleeping threads that
`oph_workflow_free` negates to leave the release to the last of them; `memory`
says whether the workflow has been released.  A thread that follows its
pointer after that sets `wild`, and the behaviour ends: nothing can be said of
what a released workflow contains.  `Crossed` marks a task that was aborted by
`OPH_INPUT` while it was looking for its file: the answer of the scan is then
taken for its end, and the end is counted twice.

## The runs

| run | instance | what it shows |
|---|---|---|
| `engine_mixed` | diamond of 4 tasks with `on_error` break, skip, continue and repeat, one massive with a scan; tasks without objects; jobs vanish; cancelled with kill or abort | order, exact counters, uniqueness of attempts, bounded attempts, no deadlock; every workflow is over at last; refinement of `TaskGraph` |
| `engine_break` | the default `on_error=break`, `AUTO_RETRY`=2, two scans, requests that cannot be prepared, database unreachable, cancelled with stop | nothing left behind, counters never too low, bounded attempts |
| `queue_limits` | 3 workflows, farm 1, queue 1, one clock tick, failing starts, cancellations | the farm is never exceeded, released means unlisted |
| `queue_live` | 3 workflows, farm 1, unlimited queue | queued workflows are started, synchronous clients answered |
| `limits` | 3 threads, 4 requests and 2 scans, 1 task, 3 cores; one `OPH_WAIT`, one unprepared request | counters within the limits and accounted for, no lost wake-up; a waiting thread gets its place, unless a place is lost |
| `dag_check` | all requests of 3 tasks with up to 2 dependences each, on 4 names, with or without duplicate names | exactly the acyclic graphs are accepted, the checks end |
| `flow` | 26 workflows of selections and loops, nested in each other, under `on_error` break, continue, skip and repeat, and 6 wrong ones | none of them ever stuck, exact counters, order, one branch selected, every iteration made, wrong structures refused |
| `waiting` | 2 `OPH_WAIT` tasks (clock, input, file, remote object, `run=no`) and another task | no thread wakes up in a released workflow, which is released at last; a wait ends when, and only when, it has a reason |
| `engine_lost_retry`, `queue_lost_start`, `queue_cancelled_client`, `flow_repeated_else` | | the disagreements below |

Bounds.  A diamond is the smallest graph with two branches that run side by
side and meet again, so common dependents, two paths to one task and a failure
in one branch while the other retries all occur.  With two scans one call
waits for the first, prepares and goes on to the second, and a branch fails
while it waits.  Two light tasks suffice for
one failing and one succeeding in either order.  With a farm of one and three
workflows one runs, one waits and one is refused.  In `limits` one
request needs every core, and the limit of one task makes the others wait; the
place given back by the unprepared request also makes threads wait for cores
alone.  The queue's clock has the two
values a workflow needs to be fresh and expired.  Three tasks with two
dependences each make every cycle up to length three, chains, joins, unknown
names and the same dependence named twice.  The workflows of `flow` have a
selection or a loop in every position of another one; two iterations show what
the second finds of the first, and one workflow has three inner ones.  Two
waiting threads are enough for one to be the last sleeper or not, and a timeout
of one second for a turn of the loop.  At most two commands of `OPH_INPUT` are
sent.

Fairness.  Every request has a thread of its own, and no thread holds
`global_flag` for ever, so handlers that can go on do (weak fairness of each).
The resource manager starts or refuses a job, a started one ends or is
missed by the monitor, and a scan ends with a notification.  Nobody has to cancel, no client has to come, the clock
does not have to advance, and a sleeping thread has to wake up only by a
broadcast.  In `WorkflowQueue` the last notification of a workflow is strongly
fair: the model has two serving threads where the server creates one per
notification.  `engine_mixed` assumes a database that answers, requests that can
be prepared, and jobs that vanish only after they have started; it and `limits`
assume a monitor that is switched on (`POLL_TIME`, 0 by default), without which
nobody ever misses a vanished job.  `waiting` asks only that threads that can
run do, that `sleep(1)` ends, and that the thread that ended the workflow
releases it; neither the file, the other task nor `OPH_INPUT` has to come.
`dag_check` is one thread in a loop.

Deadlock is checked in `engine_mixed`, `dag_check` and `flow`.  A decided
check and a workflow with nothing under way stutter; of the latter `NeverStuck`
says that it is over.  In `engine_break` a
workflow may hang, because a handler that does not reach the database gives up;
the other models stop when all has been served.

`PlaceIsGot` holds also when ends are notified twice, but not once a place is
lost for good (`PlaceLost`), which the code allows in several ways: the workflow
has left the list when its task is notified; the place is the one of a scan of
an `OPH_WAIT`, of a scan that vanished or of one that was refused; the scan of a
task took other cores than it gave back; or so many cores were given back too
early that the counter is smaller than what the next task returns, is not
decreased at all, and keeps cores nobody has.  The property says nothing about
requests wider than the limit, which wait for ever, nor about an endless stream
of narrow requests, since the model has finitely many.

## Disagreements between code and comments

* `engine_lost_retry`: a task with `on_error=repeat` set back for its next attempt
  ("Try to restart the task") is never submitted when another branch has failed before
  `oph_workflow_execute` takes the lock.
* `queue_lost_start`: the mark of a queued workflow is written after the
  insertion has released the lock; if the last running workflow ends in
  between, nobody ever starts the queued one.
* `queue_cancelled_client`: after `OPH_CANCEL` nobody wakes the client that
  waits for a synchronous workflow.
* `flow_repeated_else`: in a loop around a selection with an ELSE, the ELSE that
  is skipped holds nothing up, so its notification may come when the ENDFOR has
  already reset the loop.  It then ends the ELSE of the next iteration, and the
  tasks below it are started before the condition is evaluated.  The
  documentation of `OPH_IF` says that they are skipped when it is true.  The
  workflows of `flow` have no ELSE inside of a loop for this reason.

## The proofs

All theorems hold for every value of the constants under the named
assumptions of the modules: finite sets of tasks, workflows and requests, an
acyclic graph (which `DagCheckProofs` shows the server to ensure), `retry_num` at least -1, limits and sizes that are numbers, and
batches in which no request occurs twice.  The theorems about the engine have
`Orderly` as a hypothesis (see above).

**WorkflowEngineProofs.**  `EngineTypeCorrect`, `OrderOfTheGraph`
(`DependencesHold`), `DependenceCounters` (`ResidualDepsExact`),
`NoDoubleSubmission` (`OneAttemptAtATime`), `NothingStartedBelow`
(`BelowNotStarted`) and `EndedForEver` (`EndedStaysEnded`).  None of the
properties is inductive alone.  The invariant `EInv` adds: a task that was
started has no dependences left and a dependence taken off belongs to a task
that has passed (`DepsInv`); as long as the engine listens, what is requested
or running belongs to an active task (`RequestInv`, `JobInv`), with one item
per task or light task (`Unique`), and a massive operation counts at least its
light tasks in execution (`LightInv`), so that it cannot end, and be repeated,
while one of them runs.  A task with a filter to be scanned is in the hands of
one call only, which follows from `Orderly` (`CallInv`), and a scan under way
has a call that waits for it (`QueryInv`), so that its end is an answer and
never taken for one of the task.  The argument goes in two stages: `EndsEffect`,
`SingleEffect`, `LightEffect` and `NotifyEffect` reduce every notification to
one of a few effects on the graph (`GraphStep`), and `GraphStepKeeps` and
`EffectStep` show once that those effects keep `EInv`.

**EngineOutcomeProofs.**  `ResidualCounterEnough` (`ResidualTasksEnough`),
`ResidualCounterExact` (`ResidualTasksExact`), `CleanEnd`
(`NothingLeftBehind`), `CompletedIsDone` (`CompletedMeansDone`), and the
refinement `EngineImplementsGraph` (`ImplementsTaskGraph`).  `OInv` is
inductive relative to `EInv`.  The counter alone is not: when a request cannot
be prepared its task gets the status ERROR at once, the notification of it is
then neglected, and nobody takes it off `residual_tasks_num`; and a task
completed by `oph_workflow_execute` is counted until its report is heard.  What
the counter covers is therefore not the set of the tasks that have not ended but
a larger one (`Counted`, with the unreported ones), and while the workflow has
not failed a still larger one (`Owed`), with the tasks that failed by
themselves.  That a completed workflow has left the list with a counter of zero
(`CompletedIsOver`), that a task is given up only because of a failure above it
(`GivenUpForAReason`), and that the tasks of one call of `oph_workflow_execute`
belong together (`Together`) then give the theorems.  `ResidualCounterExact` is stated under `~PrepMayFail`,
every request can be prepared, which is also what `engine_mixed` assumes:
without it a failed preparation leaves the counter too high, as
`ResidualCounterEnough` allows.  For the refinement, the initial states map to
initial states of `TaskGraph`, and each step of the engine maps to one step of
the graph or to a stutter: the end of a task to `Finish`, with everything it
aborts, another attempt to `Retry`, a section of `oph_workflow_execute` to the
`Start` of all the tasks it prepares, the report of the last task, already
completed, to `End`, the ways to cancel to `Cancelled` and `Kill`; requests,
jobs, scans, light tasks and counters are not seen.  A task may start after the
end of the workflow if it may be in one call with a task that is scanned
(`Late`).

**LightTasksProofs.**  `LightCounterExact` (`LightTasksExact`), under the same
hypothesis.  A notification about a light task that is not active is neglected
and takes nothing off the counter, so `LInv` adds that every light task that is
counted is active and that no request still out reports an error.

**RetryBudgetProofs.**  `BoundOnAttempts` (`AttemptsBounded`).  The bound does
not follow from the number of attempts: `Budget` says what attempts and
counters are to one another, in one formula for each way to be tried again
(`Repeating`, `AtMostOnce`, `AutoSingle`, `AutoMassive`).  The last two differ
by one attempt, because a massive task gets its mark from a light task and its
counter only when it ends.

**WorkflowQueueProofs.**  `QueueTypeCorrect`, `FarmBound`
(`FarmNeverExceeded`), `QueueBound` (`QueueNeverExceeded`) and `ReleaseIsSafe`
(`FreedIsUnlisted`).  `QInv` strengthens the limit of the farm: not only the
workflows that run or are being started, but every listed one that has neither
the mark of a queued workflow nor a final status (`Occupants`) is within it,
except those whose mark is about to be written; and it adds what the steps of
the clients and of the other threads rely on (`Clients`, `Threads`), because
the checks are made in other sections than the starts.

**TaskLimitsProofs.**  `LimitsTypeCorrect`, `CountersBounded`
(`CountersWithinLimits`), `PlacesCounted` (`PlacesAccounted`), `CoresCounted`
(`CoresAccounted`) and `NoLostWakeup` (`SleepsForGoodReason`).  `LInv` adds
that a sleeping thread is at a request of its own and that a request ahead of a
thread has taken no place yet (`Fresh`), without which a place could be counted
twice.  The cores are counted as pairs of a request and a number (`Units`), so
that taking a place adds a set of as many pairs as the request has cores.
`CoresAccounted` speaks of the time before a request has ended that gives back
other cores than it took; the bounds on the counters need no such condition.

**DagCheckProofs.**  `AcceptedWorkflowsAreDags` (`AcceptedIsDag`),
`DagsAreAccepted` (`DagIsAccepted`) and `NodesQueuedOnce` (`QueuedOnce`), for
any number of tasks, names and dependences.  `DInv` follows the loops.  While
names become indexes a task is among the dependents of another as often as it
names it (`IndexInv`); while edges are removed, the two copies of an edge go
together (`Twins`), the counters are the numbers of edges left (`Counted`), a
missing edge has a source removed from the queue before its target
(`EdgesInv`), and a node without incoming edges is in the queue or was there
(`QueueInv`, `CollectInv`, `SortInv`, `EdgesLoopInv`).  If no edge is left, the
order of removal is a topological order; if one is left, the nodes never
removed are a set in which each depends on another.

**WaitingTasksProofs.**  For any number of waiting tasks and any arguments:
first `CompletionHasAReason` (`CompletedForAReason`), `AbortIsObeyed`
(`AbortObeyed`), `EndCountedOnce` (`EndedOnce`) and `NobodyIsLeftWaiting`
(`NobodyLeftWaiting`).  `WInv` follows a task from its service to the end of its
thread (`Regular`): the scan under way is the one its thread waits for
(`ScanAwaited`), the statuses the thread reads and the time it slept justify
the end it is going to notify (`WaitsInOrder`), the end is counted in its last
step (`EndsWithThread`), and an abort that found the thread asleep is carried
to that end (`AbortOnItsWay`).  All this holds of tasks that are not `Crossed`;
if there is none, `residual_tasks_num` is the number of the tasks that have not
ended, so that the workflow completes only after the last thread.

Second, `CounterIsExact` (`SleepersCounted`) and `SleepersAreSafe`
(`SleeperKeepsWorkflow`).  `SInv` adds that the counter can be negative only in
a closed workflow and that a thread that is about to release the workflow has
been the last sleeper.  The proof divides the steps into those of the engine,
those that move a thread between places where it is awake (`AwakeStep`), and
those into and out of sleep.

Of the properties named above, `BelowNotStarted`, `QueueNeverExceeded`,
`QueuedOnce` and the types of the engine and of the queue are proved and not
among those of a run; the others are both.

Only model-checked: liveness (`EventuallyOver`, `QueuedBehindRunningIsStarted`,
`AdmittedClientAnswered`, `PlaceIsGot`, `Termination`, `Reclaimed`,
`WaitEnds`), which is out of the prover's reach, and all of `FlowStructure` and
`FlowControl`, whose functions walk the graph recursively: what they compute
for every workflow is shown by induction over data, which the prover cannot do.

## What the properties leave out

Some properties name an exception, because the code does not do more:

* What is said of the engine rests on `Orderly`, and the exact counters on
  requests that can be prepared (`~PrepMayFail`).  `NothingLeftBehind` lets a
  call that was waiting for a scan submit its tasks when the workflow is over:
  it does not look at the workflow again.
* `ResidualTasksExact` and `ResidualDepsExact` count a task completed by
  `oph_workflow_execute` itself until its report is heard.
* `AbortObeyed` speaks of a thread that sleeps when the abort arrives; between
  the end of its sleep and the next section the thread overwrites the status.
* `EndedOnce`, `CompletedForAReason` and `NobodyLeftWaiting` leave out tasks
  aborted during a scan (`Crossed`).  `NobodyLeftWaiting` is about workflows that complete: in a
  failed one a thread that does not sleep may follow a pointer to a workflow
  that has been released.
* `WaitEnds` is about sleeping threads: a thread blocked for the answer of a
  scan is not woken when its workflow is cancelled.
* The end of a wait is not notified when the scan could not be submitted or
  OphidiaDB cannot be reached; the workflow then stays until it expires.
* The workflows of `flow` are block-structured and list the tasks of a branch
  before the next sub-block; `NeverStuck`, the counters and the order are claimed
  for such workflows only.  `oph_workflow_validate_fco` accepts others, which
  go wrong and which no run has: an ELSE listed first or after an empty branch is never started, an
  ENDIF that names one skipped task twice is never started, a task of a loop
  reached along two paths loses an outer dependence twice, and an IF needs no
  ENDIF (`BracketsMatch` does not ask for one).  An operator of flow control with retries, served again when
  OphidiaDB was not reached, applies its change to the graph twice.
* `QueuedBehindRunningIsStarted` assumes starts that succeed: a failed start
  does not look at the queue again.

## Not modelled

* The first of the two passes of the job monitor over a task, which only marks
  it, and the killing of starved jobs: the list of jobs is read from a buffer
  that has been released, and a list that cannot be read is an empty one, so
  that no stronger promise than "a missed job is aborted" is left to state.
* The parsing of filters and what a scan finds: the outcome is one of `Fates`.
* The final task with its exit actions: most of it builds an argument; it would
  make the end of a workflow two-staged in `WorkflowEngine`.
* Parallel FOR: the body is copied when the request is read.  `OPH_SET`, the
  values of variables, the texts of conditions.
* The pointers of the job list, where a removal may write through a released
  item, and the list of detached tasks, which is read and written without the
  lock: nothing holds of them to be stated.
* Sessions, users, tokens: credentials checked by libraries and providers, files,
  and lists of tokens that do not interact with workflows.
* Parsing, JSON, reports, SQL, the commands for the resource manager: text.
* Start and stop of the server, configuration, clients, generated code.
