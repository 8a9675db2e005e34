------------------------- MODULE WaitingTasksProofs -------------------------
(***************************************************************************)
(* The waiting tasks, for any number of them and any commands of OPH_INPUT. *)
(*                                                                          *)
(* First, how they end: for a reason, once, as an abort told them to, and   *)
(* before the workflow completes.  The inductive invariant WInv follows a   *)
(* task from its service to the end of its thread (Regular): the scan that  *)
(* is out is the one its thread waits for, the statuses the thread reads    *)
(* and the time it slept justify the end it will notify, and the end is     *)
(* counted in its last step.  A task that is aborted while it looks for its *)
(* file (Crossed) is left out, as the answer of the scan is then taken for  *)
(* its end.  Without such tasks residual_tasks_num counts the tasks that    *)
(* have not ended, so that the workflow completes after all of them.        *)
(*                                                                          *)
(* Second, the protocol of waiting_tasks_num: the counter agrees with the   *)
(* sleeping threads, and none of them wakes up in a freed workflow.  The    *)
(* inductive invariant SInv adds to the two properties that the closer gets *)
(* to work once the workflow has left the job list and that fast_exit is    *)
(* only set after it has finished.                                          *)
(***************************************************************************)
EXTENDS WaitingTasks, TLAPS

-----------------------------------------------------------------------------
(* How the waiting tasks end.                                               *)

Broken == {ERROR, ABORTED}

(* Why task w may complete.                                                 *)
MayComplete(w) == (~Looks(w) /\ counter[w] = arg[w].timeout) \/ reason[w] # {}

(* A status the thread of w may read before it ends its wait.               *)
Read(w, s) == s = WAIT \/ (s = RUNNING /\ reason[w] # {}) \/ s \in Broken

(* A status it may end with.                                                *)
Ends(w, s) == (s = COMPLETED /\ MayComplete(w)) \/ s \in Broken

Waits == {"served", "look", "answer", "blocked", "loop", "asleep"}
Replies == {"none", "found", "absent", "empty"}

(* The scan of the file system: its answer comes while the thread waits for *)
(* it, and is not mistaken for the end of the task.                         *)
ScanAwaited(w) ==
    /\ at[w] = "look" => Looks(w)
    /\ at[w] \in {"answer", "blocked"} => arg[w].type = "file"
    /\ listed =>
        /\ scan[w] => at[w] \in {"answer", "blocked"} /\ ~idjob[w] /\ response[w] = "none"
        /\ response[w] # "none" => at[w] \in {"answer", "blocked"}
        /\ arg[w].type = "file" /\ at[w] \in Waits \ {"asleep"} => status[w] < COMPLETED

(* The statuses the thread reads, and the time it sleeps.                   *)
WaitsInOrder(w) ==
    /\ at[w] \in Waits => Read(w, status[w])
    /\ at[w] \in Waits \ {"served", "asleep"} => Read(w, seen[w])
    /\ ~Looks(w) =>
        /\ at[w] \in {"submitted", "served", "loop"} => counter[w] = 0
        /\ at[w] = "asleep" /\ Finite(w) => counter[w] < arg[w].timeout
    /\ at[w] = "completing" => MayComplete(w)
    /\ at[w] = "last" => Ends(w, seen[w]) \/ (seen[w] = RUNNING /\ MayComplete(w))
    /\ at[w] \in {"force", "tell"} => Ends(w, seen[w])

(* The end is counted in the last step of the thread.                       *)
EndsWithThread(w) ==
    /\ ends[w] = 0 => outcome[w] = UNKNOWN
    /\ ends[w] # 0 => ends[w] = 1 /\ at[w] = "done"
    /\ outcome[w] = COMPLETED => MayComplete(w)

(* The way of an abort that found the thread asleep.                        *)
AbortOnItsWay(w) ==
    aborted[w] = "asleep" =>
        /\ outcome[w] # COMPLETED
        /\ \/ at[w] = "asleep" /\ status[w] \in Broken
           \/ at[w] \in {"last", "force", "tell"} /\ seen[w] \in Broken
           \/ at[w] \in {"exit", "done"}

Regular(w) == ScanAwaited(w) /\ WaitsInOrder(w) /\ EndsWithThread(w) /\ AbortOnItsWay(w)

Unended(f) == {t \in Task : f[t] = 0}

WType ==
    /\ arg \in Setups
    /\ wstatus \in Status
    /\ residual \in Int
    /\ status \in [Task -> Status]
    /\ ends \in [Task -> Nat]
    /\ outcome \in [Task -> Status]
    /\ idjob \in [Waiter -> BOOLEAN]
    /\ response \in [Waiter -> Replies]
    /\ scan \in [Waiter -> BOOLEAN]
    /\ seen \in [Waiter -> Status]
    /\ counter \in [Waiter -> Nat]
    /\ again \in [Waiter -> BOOLEAN]
    /\ reason \in [Waiter -> SUBSET {"continue", "found"}]
    /\ aborted \in [Waiter -> {"no", "looking", "asleep", "busy"}]
    /\ wild \in BOOLEAN

JobEndsOnce == ends[Job] = 0 \/ (ends[Job] = 1 /\ ~Active(status[Job]))

NobodyCrossed == \A w \in Waiter : ~Crossed(w)

WInv ==
    /\ WType
    /\ \A w \in Waiter : Crossed(w) \/ Regular(w)
    /\ JobEndsOnce
    /\ NobodyCrossed => residual = Cardinality(Unended(ends))
    /\ NobodyLeftWaiting

(* Where the threads and the workflow are.                                  *)
Stage ==
    /\ listed \in BOOLEAN
    /\ at \in [Waiter -> Places]
    /\ listed => closer \in {"none", "cancelling"}

USE DEF UNKNOWN, PENDING, WAIT, RUNNING, COMPLETED, ERROR, ABORTED, UNSELECTED, EXPIRED, Status

(* The arguments of a task.                                                 *)
LEMMA ArgType ==
    ASSUME WType, NEW w \in Waiter
    PROVE  arg[w].type \in Types /\ arg[w].timeout \in Nat \cup {-1}
BY SetupAssumption, Zenon DEF WType

(* What counts for task v does not change.                                  *)
Same(v) ==
    /\ status'[v] = status[v] /\ idjob'[v] = idjob[v] /\ response'[v] = response[v]
    /\ scan'[v] = scan[v] /\ at'[v] = at[v] /\ seen'[v] = seen[v] /\ counter'[v] = counter[v]
    /\ ends'[v] = ends[v] /\ outcome'[v] = outcome[v]
    /\ reason'[v] = reason[v] /\ aborted'[v] = aborted[v]

(* A task that the step does not touch stays as it was.                     *)
LEMMA SameKeeps ==
    ASSUME NEW v \in Waiter, Same(v), arg' = arg, listed' => listed, Crossed(v) \/ Regular(v)
    PROVE  Crossed(v)' \/ Regular(v)'
<1>1. CASE Crossed(v)
      BY <1>1, Zenon DEF Same, Crossed
<1>2. CASE Regular(v)
  <2>1. ScanAwaited(v)'
        BY <1>2, Zenon DEF Regular, Same, ScanAwaited, Looks
  <2>2. WaitsInOrder(v)'
        BY <1>2 DEF Regular, Same, WaitsInOrder, Looks, Finite, MayComplete, Read, Ends
  <2>3. EndsWithThread(v)'
        BY <1>2, Zenon DEF Regular, Same, EndsWithThread, MayComplete, Looks
  <2>4. AbortOnItsWay(v)'
        BY <1>2, Zenon DEF Regular, Same, AbortOnItsWay
  <2> QED
      BY <2>1, <2>2, <2>3, <2>4, Zenon DEF Regular
<1> QED
    BY <1>1, <1>2, Zenon

(* The end s of task t is counted.                                          *)
Counted(t, s) ==
    /\ listed /\ residual # 0
    /\ status' = [status EXCEPT ![t] = s]
    /\ residual' = residual - 1
    /\ wstatus' \in {ERROR, COMPLETED, wstatus}
    /\ wstatus' = COMPLETED => wstatus = COMPLETED \/ residual = 1
    /\ listed' \in BOOLEAN /\ (listed' => closer' = closer)
    /\ ends' = [ends EXCEPT ![t] = @ + 1]
    /\ outcome' = [outcome EXCEPT ![t] = s]

(* oph_workflow_notify counts the end or neglects it.                       *)
LEMMA NotifyCounts ==
    ASSUME NEW t, NEW s, Notify(t, s)
    PROVE  UNCHANGED <<engine, status>> \/ Counted(t, s)
<1> DEFINE new == [status EXCEPT ![t] = s]
<1>1. CASE ~listed \/ wstatus >= ABORTED \/ residual = 0 \/ (s = ERROR /\ Ended(status[t]))
      BY <1>1, Zenon DEF Notify
<1>2. CASE ~(~listed \/ wstatus >= ABORTED \/ residual = 0 \/ (s = ERROR /\ Ended(status[t])))
  <2>1. /\ status' = new /\ residual' = residual - 1
        /\ ends' = [ends EXCEPT ![t] = @ + 1] /\ outcome' = [outcome EXCEPT ![t] = s]
        /\ listed' = ~IsFinal(s, new)
        /\ closer' = IF IsFinal(s, new) THEN "closing" ELSE closer
        /\ wstatus' = IF s = ERROR \/ wstatus = ERROR THEN ERROR
                      ELSE IF IsFinal(s, new) THEN COMPLETED ELSE wstatus
        BY <1>2, Zenon DEF Notify
  <2>2. wstatus' \in {ERROR, COMPLETED, wstatus} /\ listed' \in BOOLEAN /\ (listed' => closer' = closer)
        BY <2>1, Zenon
  <2>3. wstatus' = COMPLETED => wstatus = COMPLETED \/ residual = 1
        BY <2>1 DEF IsFinal
  <2> QED
      BY <1>2, <2>1, <2>2, <2>3, Zenon DEF Counted
<1> QED
    BY <1>1, <1>2, Zenon

(* Stage is an invariant by itself.                                         *)
LEMMA StageInit == Init => Stage
BY DEF Init, Stage, Places

(* The engine lists a workflow until one thread closes or cancels it.       *)
LEMMA NotifyStage ==
    ASSUME Stage, NEW t, NEW s, Notify(t, s)
    PROVE  listed' \in BOOLEAN /\ (listed' => closer' \in {"none", "cancelling"})
BY NotifyCounts, Zenon DEF Stage, Counted, engine

(* Every step keeps Stage.                                                  *)
LEMMA StageNext == Stage /\ [Next]_vars => Stage'
<1> SUFFICES ASSUME Stage, [Next]_vars PROVE Stage'
    BY Zenon
<1> DEFINE Listing == listed' \in BOOLEAN /\ (listed' => closer' \in {"none", "cancelling"})
<1>0. listed \in BOOLEAN /\ at \in [Waiter -> Places] /\ (listed => closer \in {"none", "cancelling"})
      BY Zenon DEF Stage
<1>1. ASSUME UNCHANGED <<listed, closer>> PROVE Listing
      BY <1>0, <1>1, Zenon
<1>2. ASSUME NEW w \in Waiter, NEW p \in Places, Go(w, p) PROVE at' \in [Waiter -> Places]
      BY <1>0, <1>2, Zenon DEF Go
<1>3. ASSUME NEW s, JobEnds(s) PROVE Stage'
      BY <1>0, <1>3, NotifyStage, Zenon DEF JobEnds, local, Stage
<1>4. CASE Close \/ Cancel \/ CancelDrops
  <2>1. ASSUME Close PROVE Listing
    <3>1. ~listed
          BY <1>0, <2>1, Zenon DEF Close
    <3> QED
        BY <1>0, <2>1, <3>1, Zenon DEF Close, local
  <2>2. ASSUME Cancel PROVE Listing
        BY <1>0, <2>2, Zenon DEF Cancel
  <2>3. ASSUME CancelDrops PROVE Listing
        BY <2>3, Zenon DEF CancelDrops
  <2>4. at' = at
        BY <1>4, Zenon DEF Close, Cancel, CancelDrops, local
  <2> QED
      BY <1>0, <1>4, <2>1, <2>2, <2>3, <2>4, Zenon DEF Stage
<1>5. CASE CancelKills
      BY <1>0, <1>5, Zenon DEF CancelKills, local, Stage
<1>6. ASSUME NEW w \in Waiter, Report(w) \/ Tell(w)
      PROVE  Stage'
  <2>1. Listing
        BY <1>6, NotifyStage, Zenon DEF Report, Tell
  <2>2. at' \in [Waiter -> Places]
        BY <1>2, <1>6, Zenon DEF Report, Tell, Places
  <2> QED
      BY <2>1, <2>2, Zenon DEF Stage
<1>7. ASSUME NEW w \in Waiter,
             \/ Serve(w) \/ Refuse(w) \/ Begin(w) \/ Submit(w) \/ Answer(w) \/ Woken(w)
             \/ \E answer \in {"found", "absent"} : Probe(w, answer)
             \/ Loop(w) \/ Awake(w)
             \/ Settle(w, "completing", COMPLETED) \/ Settle(w, "failing", ERROR)
             \/ Last(w) \/ ForceNotification(w) \/ Exit(w)
      PROVE  Stage'
  <2>1. UNCHANGED <<listed, closer>>
        BY <1>7, Zenon DEF Serve, Refuse, Begin, Submit, Answer, Woken, Probe, Loop, Awake, Settle, Last,
                           ForceNotification, Exit, engine
  <2>2. \E p \in Places : Go(w, p)
    <3>1. CASE Serve(w) \/ Refuse(w) \/ Begin(w) \/ Submit(w)
          BY <3>1, Zenon DEF Serve, Refuse, Begin, Head, Submit, Places
    <3>2. CASE \/ Settle(w, "completing", COMPLETED) \/ Settle(w, "failing", ERROR)
               \/ Last(w) \/ ForceNotification(w) \/ Exit(w)
          BY <3>2, Zenon DEF Settle, Last, Leave, ForceNotification, Exit, Places
    <3>3. ASSUME NEW answer, Decide(w, answer) PROVE \E p \in Places : Go(w, p)
          BY <3>3, Zenon DEF Decide, Places
    <3>4. CASE Answer(w) \/ Woken(w) \/ \E answer \in {"found", "absent"} : Probe(w, answer)
          BY <3>3, <3>4, Zenon DEF Answer, Woken, Probe, TakeResponse, Places
    <3>5. ASSUME NEW s, NEW c, NEW n, Around(w, s, c, n) PROVE \E p \in Places : Go(w, p)
          BY <3>5, Zenon DEF Around, Places
    <3>6. CASE Loop(w) \/ Awake(w)
          BY <3>5, <3>6, Zenon DEF Loop, Awake
    <3> QED
        BY <1>7, <3>1, <3>2, <3>4, <3>6, Zenon
  <2> QED
      BY <1>1, <1>2, <2>1, <2>2, Zenon DEF Stage
<1>8. ASSUME NEW w \in Waiter, GoesWild(w) \/ \E action \in {WAIT, RUNNING, ERROR} : Input(w, action)
      PROVE  Stage'
  <2>1. UNCHANGED <<listed, closer, at>>
        BY <1>8, Zenon DEF GoesWild, Input, engine, local
  <2> QED
      BY <1>0, <1>1, <2>1, Zenon DEF Stage
<1>9. ASSUME NEW w \in Waiter, NEW answer, ScanEnds(w, answer)
      PROVE  Stage'
  <2>1. Listing
        BY <1>1, <1>9, NotifyStage, Zenon DEF ScanEnds, engine
  <2> QED
      BY <1>0, <1>9, <2>1, Zenon DEF ScanEnds, local, Stage
<1>10. CASE UNCHANGED vars
       BY <1>0, <1>10, Zenon DEF vars, engine, local, Stage
<1> QED
    BY <1>3, <1>4, <1>5, <1>6, <1>7, <1>8, <1>9, <1>10, Zenon DEF Next, Thread

(* The service of the task: it waits from now on, or is refused.            *)
LEMMA ServeRegular ==
    ASSUME WInv, Stage, NEW w \in Waiter, Regular(w), Serve(w)
    PROVE  Regular(w)'
<1>1. /\ at[w] = "submitted" /\ UNCHANGED <<arg, listed, idjob, response, scan, seen, counter,
                                            ends, outcome, reason, aborted>>
      /\ at \in [Waiter -> Places] /\ status \in [Task -> Status] /\ w \in Task
      BY Zenon DEF Serve, sent, WInv, WType, Stage, Task
<1>2. \/ at'[w] \in {"done", "refused"} /\ status' = status
      \/ at'[w] = "served" /\ status'[w] = WAIT
      BY <1>1, Zenon DEF Serve, Go, StartsToWait
<1>3. ScanAwaited(w)'
      BY <1>1, <1>2 DEF Regular, ScanAwaited, Waits, Looks
<1>4. WaitsInOrder(w)'
      BY <1>1, <1>2, Zenon DEF Regular, WaitsInOrder, Waits, Looks, Finite, Read
<1>5. EndsWithThread(w)'
      BY <1>1, <1>2, Zenon DEF Regular, EndsWithThread, MayComplete, Looks
<1>6. AbortOnItsWay(w)'
      BY <1>1, <1>2, Zenon DEF Regular, AbortOnItsWay
<1> QED
    BY <1>3, <1>4, <1>5, <1>6, Zenon DEF Regular

(* The refusal.                                                             *)
LEMMA RefuseRegular ==
    ASSUME WInv, Stage, NEW w \in Waiter, Regular(w), Refuse(w)
    PROVE  Regular(w)'
<1>1. /\ at[w] = "served" /\ UNCHANGED <<arg, listed, status, idjob, response, scan, seen, counter,
                                         ends, outcome, reason, aborted>>
      /\ at'[w] = "refused"
      BY Zenon DEF Refuse, engine, tasks, sent, Stage, Go
<1>3. ScanAwaited(w)'
      BY <1>1, Zenon DEF Regular, ScanAwaited, Waits, Looks
<1>4. WaitsInOrder(w)'
      BY <1>1, Zenon DEF Regular, WaitsInOrder, Waits, Looks, Finite, Read
<1>5. EndsWithThread(w)'
      BY <1>1, Zenon DEF Regular, EndsWithThread, MayComplete, Looks
<1>6. AbortOnItsWay(w)'
      BY <1>1, Zenon DEF Regular, AbortOnItsWay
<1> QED
    BY <1>3, <1>4, <1>5, <1>6, Zenon DEF Regular

(* The end of a task is notified in the last step of its thread.            *)
LEMMA EndRegular ==
    ASSUME WInv, Stage, NEW w \in Waiter, Regular(w), NEW s \in Status, Notify(w, s), Go(w, "done"),
           at[w] \in {"refused", "tell"}, s = COMPLETED => MayComplete(w),
           UNCHANGED <<arg, idjob, response, scan, seen, counter, reason, aborted>>,
           aborted[w] = "asleep" => s # COMPLETED
    PROVE  Regular(w)'
<1>1. /\ at'[w] = "done" /\ at[w] # "done" /\ w \in Task
      /\ ends \in [Task -> Nat] /\ outcome \in [Task -> Status]
      BY Zenon DEF Go, Stage, WInv, WType, Task
<1>2. listed' => listed
      BY NotifyCounts, Zenon DEF Counted, engine
<1>3. \/ ends'[w] = ends[w] /\ outcome'[w] = outcome[w]
      \/ ends'[w] = ends[w] + 1 /\ outcome'[w] = s
      BY <1>1, NotifyCounts DEF Counted, engine
<1>4. ends[w] = 0
      BY <1>1, Zenon DEF Regular, EndsWithThread
<1>5. ScanAwaited(w)'
      BY <1>1, <1>2, Zenon DEF Regular, ScanAwaited, Waits, Looks
<1>6. WaitsInOrder(w)'
      BY <1>1, Zenon DEF WaitsInOrder, Waits
<1>7. EndsWithThread(w)'
      BY <1>1, <1>3, <1>4 DEF Regular, EndsWithThread, MayComplete, Looks
<1>8. AbortOnItsWay(w)'
      BY <1>1, <1>3, Zenon DEF Regular, AbortOnItsWay
<1> QED
    BY <1>5, <1>6, <1>7, <1>8, Zenon DEF Regular

(* The notifications of a thread.                                           *)
LEMMA TellRegular ==
    ASSUME WInv, Stage, NEW w \in Waiter, Regular(w), Report(w) \/ Tell(w)
    PROVE  Regular(w)'
<1>1. CASE Report(w)
  <2>1. /\ at[w] = "refused" /\ Go(w, "done") /\ Notify(w, ERROR) /\ ERROR \in Status /\ ERROR # COMPLETED
        /\ UNCHANGED <<arg, idjob, response, scan, seen, counter, reason, aborted>>
        BY <1>1 DEF Report, sent
  <2> QED
      BY <2>1, EndRegular, Zenon
<1>2. CASE Tell(w)
  <2>1. /\ at[w] = "tell" /\ Go(w, "done") /\ Notify(w, NotifiedStatus(seen[w]))
        /\ UNCHANGED <<arg, idjob, response, scan, seen, counter, reason, aborted>>
        BY <1>2, Zenon DEF Tell, sent
  <2>2. (seen[w] = COMPLETED /\ MayComplete(w)) \/ seen[w] \in {ERROR, ABORTED}
        BY <2>1, Zenon DEF Regular, WaitsInOrder, Ends, Broken
  <2>3. aborted[w] = "asleep" => seen[w] \in {ERROR, ABORTED}
        BY <2>1, Zenon DEF Regular, AbortOnItsWay, Broken
  <2>4. NotifiedStatus(seen[w]) = IF seen[w] = COMPLETED THEN COMPLETED ELSE ERROR
        BY <2>2 DEF NotifiedStatus, START, UNSET_ENV, PENDING_ERROR
  <2>5. NotifiedStatus(seen[w]) \in Status
        BY <2>4
  <2> HIDE DEF NotifiedStatus
  <2> QED
      BY <2>1, <2>2, <2>3, <2>4, <2>5, EndRegular
<1> QED
    BY <1>1, <1>2, Zenon

(* The thread begins.                                                       *)
LEMMA BeginRegular ==
    ASSUME WInv, Stage, NEW w \in Waiter, Regular(w), Begin(w)
    PROVE  Regular(w)'
<1>1. /\ at[w] = "served" /\ UNCHANGED <<arg, listed, status, idjob, response, scan, counter,
                                         ends, outcome, reason, aborted>>
      /\ at \in [Waiter -> Places] /\ seen \in [Waiter -> Status]
      BY Zenon DEF Begin, engine, tasks, sent, Stage, WInv, WType
<1>2. \/ at'[w] = "done" /\ seen' = seen
      \/ at'[w] = "look" /\ Looks(w) /\ seen'[w] = status[w]
      \/ at'[w] = "loop" /\ seen'[w] = status[w]
      BY <1>1, Zenon DEF Begin, Go, Head
<1>3. ScanAwaited(w)'
      BY <1>1, <1>2, Zenon DEF Regular, ScanAwaited, Waits, Looks
<1>4. WaitsInOrder(w)'
      BY <1>1, <1>2, Zenon DEF Regular, WaitsInOrder, Waits, Looks, Finite, Read
<1>5. EndsWithThread(w)'
      BY <1>1, <1>2, Zenon DEF Regular, EndsWithThread, MayComplete, Looks
<1>6. AbortOnItsWay(w)'
      BY <1>1, <1>2, Zenon DEF Regular, AbortOnItsWay
<1> QED
    BY <1>3, <1>4, <1>5, <1>6, Zenon DEF Regular

(* What a look at the file decides.                                         *)
LEMMA DecideRegular ==
    ASSUME WInv, Stage, NEW w \in Waiter, Regular(w), NEW answer, Decide(w, answer), Looks(w),
           at[w] \in {"look", "answer", "blocked"},
           listed => ~scan[w] /\ response'[w] = "none",
           UNCHANGED <<arg, listed, status, scan, seen, ends, outcome, aborted>>
    PROVE  Regular(w)'
<1>1. /\ at \in [Waiter -> Places] /\ reason \in [Waiter -> SUBSET {"continue", "found"}]
      /\ counter \in [Waiter -> Nat]
      BY Zenon DEF Stage, WInv, WType
<1>2. \/ at'[w] = "completing" /\ reason'[w] = reason[w] \cup {"found"}
      \/ at'[w] \in {"failing", "look", "loop"} /\ reason'[w] = reason[w]
      BY <1>1, Zenon DEF Decide, Go, Because
<1>3. reason'[w] # {} \/ reason'[w] = reason[w]
      BY <1>2, Zenon
<1>4. ScanAwaited(w)'
      BY <1>1, <1>2, Zenon DEF Regular, ScanAwaited, Waits, Looks
<1>5. WaitsInOrder(w)'
      BY <1>2, <1>3, Zenon DEF Regular, WaitsInOrder, Waits, Looks, Finite, Read, MayComplete
<1>6. EndsWithThread(w)'
      BY <1>2, <1>3, Zenon DEF Regular, EndsWithThread, MayComplete, Looks
<1>7. AbortOnItsWay(w)'
      BY <1>2, Zenon DEF Regular, AbortOnItsWay
<1> QED
    BY <1>4, <1>5, <1>6, <1>7, Zenon DEF Regular

(* The steps that look for the file.                                        *)
LEMMA LookRegular ==
    ASSUME WInv, Stage, NEW w \in Waiter, Regular(w),
           \/ \E answer \in {"found", "absent"} : Probe(w, answer)
           \/ Submit(w) \/ Answer(w) \/ Woken(w)
    PROVE  Regular(w)'
<1>0. /\ at \in [Waiter -> Places] /\ idjob \in [Waiter -> BOOLEAN] /\ scan \in [Waiter -> BOOLEAN]
      /\ response \in [Waiter -> Replies]
      BY Zenon DEF Stage, WInv, WType
<1>1. ASSUME NEW answer, Probe(w, answer)
      PROVE  Regular(w)'
  <2>1. /\ at[w] = "look" /\ Looks(w) /\ Decide(w, answer) /\ UNCHANGED response
        /\ UNCHANGED <<arg, listed, status, scan, seen, ends, outcome, aborted>>
        BY <1>1, Zenon DEF Probe, engine, tasks, sent, Looks
  <2>2. listed => ~scan[w] /\ response'[w] = "none"
        BY <2>1, Zenon DEF Regular, ScanAwaited
  <2> QED
      BY <2>1, <2>2, DecideRegular, Zenon
<1>2. ASSUME TakeResponse(w), at[w] \in {"answer", "blocked"},
             UNCHANGED <<arg, listed, status, scan, seen, ends, outcome, aborted>>
      PROVE  Regular(w)'
  <2>1. Looks(w)
        BY <1>2, Zenon DEF Regular, ScanAwaited, Looks
  <2>2. listed => ~scan[w] /\ response'[w] = "none"
        BY <1>0, <1>2, Zenon DEF Regular, ScanAwaited, TakeResponse
  <2> QED
      BY <1>2, <2>1, <2>2, DecideRegular, Zenon DEF TakeResponse
<1>3. CASE Answer(w) \/ Woken(w)
  <2>1. /\ at[w] \in {"answer", "blocked"} /\ UNCHANGED <<arg, listed, status, scan, seen, ends, outcome, aborted>>
        BY <1>3, Zenon DEF Answer, Woken, engine, sent
  <2>2. CASE TakeResponse(w)
        BY <1>2, <2>1, <2>2, Zenon
  <2>3. CASE /\ (at[w] = "answer" /\ response[w] = "none" /\ Go(w, "blocked")) \/ (~listed /\ Go(w, "done"))
             /\ UNCHANGED <<idjob, response, counter, again, reason>>
    <3>1. \/ at[w] = "answer" /\ at'[w] = "blocked"
          \/ ~listed /\ at'[w] = "done"
          BY <1>0, <2>3, Zenon DEF Go
    <3>2. ScanAwaited(w)'
          BY <2>1, <2>3, <3>1, Zenon DEF Regular, ScanAwaited, Waits, Looks
    <3>3. WaitsInOrder(w)'
          BY <2>1, <2>3, <3>1, Zenon DEF Regular, WaitsInOrder, Waits, Looks, Finite, Read, MayComplete
    <3>4. EndsWithThread(w)'
          BY <2>1, <2>3, <3>1, Zenon DEF Regular, EndsWithThread, MayComplete, Looks
    <3>5. AbortOnItsWay(w)'
          BY <2>1, <3>1, Zenon DEF Regular, AbortOnItsWay
    <3> QED
        BY <3>2, <3>3, <3>4, <3>5, Zenon DEF Regular
  <2> QED
      BY <1>3, <2>2, <2>3, Zenon DEF Answer, Woken
<1>4. CASE Submit(w)
  <2>1. /\ at[w] = "look" /\ arg[w].type = "file" /\ idjob'[w] = FALSE
        /\ UNCHANGED <<arg, listed, status, response, seen, counter, ends, outcome, reason, aborted>>
        /\ (at'[w] = "failing" /\ scan'[w] = scan[w]) \/ (at'[w] = "answer" /\ scan'[w] = TRUE)
        BY <1>0, <1>4, Zenon DEF Submit, engine, sent, Go
  <2>2. ScanAwaited(w)'
        BY <2>1, Zenon DEF Regular, ScanAwaited, Waits, Looks
  <2>3. WaitsInOrder(w)'
        BY <2>1, Zenon DEF Regular, WaitsInOrder, Waits, Looks, Finite, Read, MayComplete
  <2>4. EndsWithThread(w)'
        BY <2>1, Zenon DEF Regular, EndsWithThread, MayComplete, Looks
  <2>5. AbortOnItsWay(w)'
        BY <2>1, Zenon DEF Regular, AbortOnItsWay
  <2> QED
      BY <2>2, <2>3, <2>4, <2>5, Zenon DEF Regular
<1> QED
    BY <1>1, <1>3, <1>4, Zenon

(* A turn of the inner loop, with the status s and after c seconds.         *)
LEMMA AroundRegular ==
    ASSUME WInv, Stage, NEW w \in Waiter, Regular(w), NEW s \in Status, NEW c \in Nat, NEW n, Around(w, s, c, n),
           at[w] \in {"loop", "asleep"}, Read(w, s), s = WAIT => status'[w] = WAIT \/ at[w] = "loop",
           Read(w, status'[w]), listed /\ at[w] = "loop" => status'[w] = status[w],
           ~Looks(w) /\ Finite(w) => c <= arg[w].timeout,
           aborted[w] = "asleep" => s \in Broken,
           UNCHANGED <<arg, listed, idjob, response, scan, ends, outcome, reason, aborted>>
    PROVE  Regular(w)'
<1>1. /\ at \in [Waiter -> Places] /\ seen \in [Waiter -> Status] /\ counter \in [Waiter -> Nat]
      /\ arg[w].timeout \in Nat \cup {-1}
      BY ArgType, Zenon DEF Stage, WInv, WType
<1>2. seen'[w] = s /\ counter'[w] = IF Finite(w) THEN c ELSE 0
      BY <1>1, Zenon DEF Around
<1>3. \/ at'[w] = "asleep" /\ s = WAIT /\ (Finite(w) => c < arg[w].timeout)
      \/ at'[w] = "last" /\ s # WAIT
      \/ at'[w] = "look" /\ s = WAIT /\ Looks(w)
      \/ at'[w] = "completing" /\ s = WAIT /\ ~Looks(w) /\ Finite(w) /\ c >= arg[w].timeout
      BY <1>1 DEF Around, Go, Enough, Finite
<1>4. ScanAwaited(w)'
      BY <1>3 DEF Regular, ScanAwaited, Waits, Looks
<1>5. WaitsInOrder(w)'
  <2>1. CASE at'[w] = "asleep"
        BY <1>1, <1>2, <1>3, <2>1, Zenon DEF WaitsInOrder, Waits, Looks, Finite, Read
  <2>2. CASE at'[w] = "last"
    <3>1. (s = RUNNING /\ reason[w] # {}) \/ s \in Broken
          BY <1>3, <2>2, Zenon DEF Read
    <3> QED
        BY <1>2, <2>2, <3>1, Zenon DEF WaitsInOrder, Waits, MayComplete, Ends
  <2>3. CASE at'[w] = "look"
        BY <1>2, <1>3, <2>3, Zenon DEF WaitsInOrder, Waits, Looks, Read
  <2>4. CASE at'[w] = "completing"
        BY <1>1, <1>2, <1>3, <2>4 DEF WaitsInOrder, Waits, MayComplete, Looks, Finite
  <2> QED
      BY <1>3, <2>1, <2>2, <2>3, <2>4, Zenon
<1>6. EndsWithThread(w)'
      BY DEF Regular, EndsWithThread
<1>7. AbortOnItsWay(w)'
      BY <1>2, <1>3 DEF Regular, AbortOnItsWay, Broken
<1> QED
    BY <1>4, <1>5, <1>6, <1>7, Zenon DEF Regular

(* The inner loop, entered or taken again after a second of sleep.          *)
LEMMA SleepRegular ==
    ASSUME WInv, Stage, NEW w \in Waiter, Regular(w), Loop(w) \/ Awake(w)
    PROVE  Regular(w)'
<1>0. /\ status \in [Task -> Status] /\ w \in Task /\ seen[w] \in Status /\ counter[w] \in Nat
      /\ arg[w].timeout \in Nat \cup {-1}
      BY ArgType, Zenon DEF WInv, WType, Task
<1>1. CASE Loop(w)
  <2>1. /\ at[w] = "loop" /\ Around(w, seen[w], counter[w], num)
        /\ UNCHANGED <<arg, listed, status, idjob, response, scan, ends, outcome, reason, aborted>>
        BY <1>1, Zenon DEF Loop, engine, tasks, sent
  <2>2. Read(w, seen[w]) /\ Read(w, status[w])
        BY <2>1, Zenon DEF Regular, WaitsInOrder, Waits
  <2>3. ~Looks(w) /\ Finite(w) => counter[w] <= arg[w].timeout
        BY <1>0, <2>1, Zenon DEF Regular, WaitsInOrder, Finite
  <2>4. aborted[w] # "asleep"
        BY <2>1, Zenon DEF Regular, AbortOnItsWay
  <2> QED
      BY <1>0, <2>1, <2>2, <2>3, <2>4, AroundRegular, Zenon
<1>2. CASE Awake(w)
  <2> DEFINE s == IF IsLastSleeper(num) THEN ABORTED ELSE StatusRead(w)
  <2>1. /\ at[w] = "asleep" /\ status'[w] = StatusRead(w) /\ Around(w, s, counter[w] + 1, Left(num))
        /\ UNCHANGED <<arg, listed, idjob, response, scan, ends, outcome, reason, aborted>>
        BY <1>0, <1>2, Zenon DEF Awake, engine, sent
  <2>2. Read(w, StatusRead(w))
        BY <2>1, Zenon DEF Regular, WaitsInOrder, Waits, StatusRead, Read, Broken
  <2>3. Read(w, s) /\ (s = WAIT => status'[w] = WAIT)
        BY <2>1, <2>2 DEF Read, Broken
  <2>4. ~Looks(w) /\ Finite(w) => counter[w] + 1 <= arg[w].timeout
        BY <1>0, <2>1 DEF Regular, WaitsInOrder, Finite
  <2>5. aborted[w] = "asleep" => s \in Broken
        BY <2>1, Zenon DEF Regular, AbortOnItsWay, StatusRead, Broken
  <2>6. s \in Status /\ counter[w] + 1 \in Nat
        BY <1>0, <2>3 DEF Read, Broken
  <2> HIDE DEF s
  <2> QED
      BY <2>1, <2>2, <2>3, <2>4, <2>5, <2>6, AroundRegular, Zenon
<1> QED
    BY <1>1, <1>2, Zenon

(* The end of the wait, up to the notification.                             *)
LEMMA FinishRegular ==
    ASSUME WInv, Stage, NEW w \in Waiter, Regular(w),
           \/ Settle(w, "completing", COMPLETED) \/ Settle(w, "failing", ERROR)
           \/ Last(w) \/ ForceNotification(w) \/ Exit(w)
    PROVE  Regular(w)'
<1>0. at \in [Waiter -> Places] /\ seen \in [Waiter -> Status]
      BY Zenon DEF Stage, WInv, WType
<1>1. UNCHANGED <<arg, listed, idjob, response, scan, counter, ends, outcome, reason, aborted>>
      BY Zenon DEF Settle, Last, ForceNotification, Exit, engine, tasks, sent
<1>2. \/ at[w] = "completing" /\ at'[w] = "last" /\ seen'[w] = COMPLETED
      \/ at[w] = "failing" /\ at'[w] = "last" /\ seen'[w] = ERROR
      \/ at[w] = "last" /\ at'[w] \in {"force", "exit", "done"}
           /\ seen'[w] = IF seen[w] < COMPLETED THEN COMPLETED ELSE seen[w]
      \/ at[w] = "force" /\ at'[w] = "tell" /\ seen'[w] = seen[w]
      \/ at[w] = "exit" /\ at'[w] = "done" /\ seen'[w] = seen[w]
      BY <1>0, ZenonT(60) DEF Settle, Last, ForceNotification, Exit, Go, Leave
<1>3. ScanAwaited(w)'
      BY <1>1, <1>2, Zenon DEF Regular, ScanAwaited, Waits, Looks
<1>4. WaitsInOrder(w)'
      BY <1>1, <1>2 DEF Regular, WaitsInOrder, Waits, Looks, MayComplete, Ends, Broken
<1>5. EndsWithThread(w)'
      BY <1>1, <1>2, Zenon DEF Regular, EndsWithThread, MayComplete, Looks
<1>6. AbortOnItsWay(w)'
      BY <1>1, <1>2 DEF Regular, AbortOnItsWay, Broken
<1> QED
    BY <1>3, <1>4, <1>5, <1>6, Zenon DEF Regular

(* OPH_INPUT: the abort of a task that looks for its file crosses the scan, *)
(* any other command finds the task in order and leaves it so.              *)
LEMMA InputRegular ==
    ASSUME WInv, Stage, NEW w \in Waiter, Regular(w), ~Crossed(w), NEW action \in {WAIT, RUNNING, ERROR},
           Input(w, action)
    PROVE  Crossed(w)' \/ Regular(w)'
<1>0. /\ status \in [Task -> Status] /\ w \in Task /\ status[w] \in Status
      /\ reason \in [Waiter -> SUBSET {"continue", "found"}]
      /\ aborted \in [Waiter -> {"no", "looking", "asleep", "busy"}]
      BY Zenon DEF WInv, WType, Task
<1>1. /\ listed /\ status'[w] = Commanded(status[w], action)
      /\ UNCHANGED <<arg, listed, idjob, response, scan, at, seen, counter, ends, outcome>>
      BY <1>0, Zenon DEF Input, engine, local
<1>2. /\ reason'[w] = reason[w] \/ reason'[w] # {}
      /\ action = RUNNING /\ status[w] = WAIT => reason'[w] # {}
      BY <1>0 DEF Input, Because
<1>3. aborted'[w] = IF action = ERROR /\ Active(status[w]) THEN Place(w) ELSE aborted[w]
      BY <1>0, Zenon DEF Input
<1>4. status'[w] = status[w] \/ (status[w] < action /\ status'[w] = action)
      BY <1>0, <1>1, Zenon DEF Commanded
<1>5. ASSUME action = ERROR, Active(status[w]), Place(w) = "looking"
      PROVE  Crossed(w)'
      BY <1>3, <1>5, Zenon DEF Crossed
<1>6. ASSUME ~(action = ERROR /\ Active(status[w]) /\ Place(w) = "looking")
      PROVE  Regular(w)'
  <2>1. ScanAwaited(w)'
    <3>1. arg[w].type = "file" /\ at[w] \in Waits \ {"asleep"} => status'[w] < COMPLETED
      <4>1. SUFFICES ASSUME arg[w].type = "file", at[w] \in Waits \ {"asleep"} PROVE status'[w] < COMPLETED
            BY Zenon
      <4>2. Read(w, status[w]) /\ status[w] < COMPLETED
            BY <1>1, <4>1, Zenon DEF Regular, WaitsInOrder, ScanAwaited
      <4>3. Active(status[w]) /\ Place(w) = "looking"
            BY <4>1, <4>2 DEF Active, Read, Broken, Place, Waits
      <4> QED
          BY <1>4, <1>6, <4>2, <4>3
    <3> QED
        BY <1>1, <3>1, Zenon DEF Regular, ScanAwaited, Looks
  <2>2. WaitsInOrder(w)'
    <3>1. at[w] \in Waits => Read(w, status[w])'
      <4>1. SUFFICES ASSUME at[w] \in Waits
                     PROVE  \/ status'[w] = WAIT
                            \/ status'[w] = RUNNING /\ reason'[w] # {}
                            \/ status'[w] \in Broken
            BY Zenon DEF Read
      <4>2. Read(w, status[w])
            BY <4>1, Zenon DEF Regular, WaitsInOrder
      <4> QED
          BY <1>2, <1>4, <4>2 DEF Read, Broken
    <3> QED
        BY <1>1, <1>2, <3>1 DEF Regular, WaitsInOrder, Waits, Looks, Finite, Read, MayComplete, Ends, Broken
  <2>3. EndsWithThread(w)'
        BY <1>1, <1>2, Zenon DEF Regular, EndsWithThread, MayComplete, Looks
  <2>4. AbortOnItsWay(w)'
    <3>1. CASE action = ERROR /\ Active(status[w])
      <4>1. aborted'[w] = "asleep" => at[w] = "asleep" /\ status'[w] = ERROR
            BY <1>0, <1>1, <1>3, <3>1 DEF Place, Active, Commanded
      <4>2. at[w] = "asleep" => outcome[w] # COMPLETED
            BY DEF Regular, EndsWithThread
      <4> QED
          BY <1>1, <4>1, <4>2, ZenonT(60) DEF AbortOnItsWay, Broken
    <3>2. CASE ~(action = ERROR /\ Active(status[w]))
          BY <1>1, <1>3, <1>4, <3>2 DEF Regular, AbortOnItsWay, Broken
    <3> QED
        BY <3>1, <3>2, Zenon
  <2> QED
      BY <2>1, <2>2, <2>3, <2>4, Zenon DEF Regular
<1> QED
    BY <1>5, <1>6, Zenon

(* The answer of a scan: as the task has not been aborted, it is either the *)
(* response its thread waits for or neglected.                              *)
LEMMA ScanRegular ==
    ASSUME WInv, Stage, NEW w \in Waiter, Regular(w), NEW answer, ScanEnds(w, answer)
    PROVE  /\ Regular(w)'
           /\ UNCHANGED <<engine, status>>
<1>0. /\ scan \in [Waiter -> BOOLEAN] /\ response \in [Waiter -> Replies] /\ status[w] \in Status
      BY Zenon DEF WInv, WType, Task
<1>1. /\ scan[w] /\ scan'[w] = FALSE /\ UNCHANGED <<arg, idjob, at, seen, counter, reason, aborted>>
      BY <1>0, Zenon DEF ScanEnds, local, sent
<1>2. listed => at[w] \in {"answer", "blocked"} /\ Internal(w)
      BY <1>0, <1>1 DEF Regular, ScanAwaited, Waits, Internal
<1>3. UNCHANGED <<engine, status>> /\ (listed \/ response'[w] = response[w])
  <2>1. CASE listed
        BY <1>2, <2>1, Zenon DEF ScanEnds
  <2>2. CASE ~listed
    <3>1. UNCHANGED <<engine, status>>
          BY <2>2, Zenon DEF ScanEnds, Notify
    <3> QED
        BY <2>2, <3>1, Zenon DEF ScanEnds, engine
  <2> QED
      BY <2>1, <2>2, Zenon
<1>4. UNCHANGED <<listed, ends, outcome, status>>
      BY <1>3, Zenon DEF engine
<1>5. ScanAwaited(w)'
      BY <1>1, <1>2, <1>4, ZenonT(60) DEF Regular, ScanAwaited, Looks
<1>6. WaitsInOrder(w)'
      BY <1>1, <1>4 DEF Regular, WaitsInOrder, Looks, Finite, Read, MayComplete, Ends
<1>7. EndsWithThread(w)'
      BY <1>1, <1>4, Zenon DEF Regular, EndsWithThread, MayComplete, Looks
<1>8. AbortOnItsWay(w)'
      BY <1>1, <1>4, Zenon DEF Regular, AbortOnItsWay
<1> QED
    BY <1>3, <1>5, <1>6, <1>7, <1>8, Zenon DEF Regular

(* OPH_CANCEL aborts tasks of a workflow that has left the job list.        *)
LEMMA KillRegular ==
    ASSUME WInv, Stage, NEW w \in Waiter, Regular(w), CancelKills
    PROVE  Regular(w)'
<1>0. w \in Task
      BY Zenon DEF Task
<1>1. /\ ~listed
      /\ UNCHANGED <<arg, listed, idjob, scan, at, seen, counter, ends, outcome, reason, aborted>>
      BY Zenon DEF CancelKills, Stage, local, sent
<1>2. status'[w] = status[w] \/ status'[w] = ABORTED
      BY <1>0, Zenon DEF CancelKills
<1>3. ScanAwaited(w)'
      BY <1>1, ZenonT(60) DEF Regular, ScanAwaited, Looks
<1>4. WaitsInOrder(w)'
  <2>1. status'[w] = status[w] \/ status'[w] \in Broken
        BY <1>2, Zenon DEF Broken
  <2>2. /\ at[w] \in Waits => Read(w, status'[w])
        /\ at[w] \in Waits \ {"served", "asleep"} => Read(w, seen[w])
        BY <2>1, Zenon DEF Regular, WaitsInOrder, Read
  <2> QED
      BY <1>1, <2>2, ZenonT(60) DEF Regular, WaitsInOrder, Looks, Finite, Read, MayComplete, Ends
<1>5. EndsWithThread(w)'
      BY <1>1, Zenon DEF Regular, EndsWithThread, MayComplete, Looks
<1>6. AbortOnItsWay(w)'
      BY <1>1, <1>2, Zenon DEF Regular, AbortOnItsWay, Broken
<1> QED
    BY <1>3, <1>4, <1>5, <1>6, Zenon DEF Regular

(* The steps of the thread of task w.                                       *)
ThreadStep(w) == (~Dangling(w) /\ Thread(w)) \/ Refuse(w) \/ Woken(w)

(* They keep the task in order.                                             *)
LEMMA ThreadRegular ==
    ASSUME WInv, Stage, NEW w \in Waiter, Regular(w), ThreadStep(w)
    PROVE  Regular(w)'
BY ServeRegular, RefuseRegular, TellRegular, BeginRegular, LookRegular, SleepRegular, FinishRegular, Zenon
   DEF ThreadStep, Thread

(* What a notification may count.                                           *)
LEMMA NotifiedType == ASSUME NEW s \in Status PROVE NotifiedStatus(s) \in Status
BY DEF NotifiedStatus, START, UNSET_ENV, PENDING_ERROR

(* The parts of the state a notification changes keep their types.          *)
NotifyType ==
    /\ wstatus' \in Status /\ residual' \in Int
    /\ status' \in [Task -> Status] /\ ends' \in [Task -> Nat] /\ outcome' \in [Task -> Status]
    /\ listed' => listed

(* They do when the end of a task is notified.                              *)
LEMMA NotifyKeepsType ==
    ASSUME WType, NEW t \in Task, NEW s \in Status, Notify(t, s)
    PROVE  NotifyType
<1>1. CASE UNCHANGED <<engine, status>>
      BY <1>1, Zenon DEF engine, NotifyType, WType
<1>2. CASE Counted(t, s)
      BY <1>2 DEF Counted, NotifyType, WType
<1> QED
    BY <1>1, <1>2, NotifyCounts, Zenon

(* A thread touches no other task, and its own only within the types.       *)
LEMMA ThreadFrame ==
    ASSUME WInv, Stage, NEW w \in Waiter, ThreadStep(w)
    PROVE  /\ WType'
           /\ \A v \in Waiter \ {w} : Same(v)
           /\ UNCHANGED <<arg, aborted, wild>>
           /\ listed' => listed
           /\ \A v \in Waiter : at[v] = "done" => at'[v] = "done"
<1> USE DEF WType, Same, Go
<1>0. WType /\ w \in Task /\ at \in [Waiter -> Places] /\ Waiter \subseteq Task
      BY Zenon DEF WInv, Stage, Task
<1>1. CASE Serve(w)
      BY <1>0, <1>1 DEF Serve, StartsToWait, sent
<1>2. CASE Report(w)
  <2>1. NotifyType
        BY <1>0, <1>2, NotifyKeepsType DEF Report
  <2>2. \A v \in Waiter \ {w} : status'[v] = status[v] /\ ends'[v] = ends[v] /\ outcome'[v] = outcome[v]
        BY <1>0, <1>2, NotifyCounts DEF Report, Counted, engine
  <2> QED
      BY <1>0, <1>2, <2>1, <2>2, ZenonT(60) DEF Report, NotifyType, sent
<1>3. CASE Refuse(w)
      BY <1>0, <1>3, Zenon DEF Refuse, engine, tasks, sent
<1>4. CASE Begin(w)
      BY <1>0, <1>4 DEF Begin, Head, engine, tasks, sent
<1>5. CASE Submit(w)
      BY <1>0, <1>5, ZenonT(60) DEF Submit, engine, sent
<1>6. ASSUME NEW answer, Decide(w, answer)
      PROVE  /\ again' \in [Waiter -> BOOLEAN] /\ counter' \in [Waiter -> Nat]
             /\ reason' \in [Waiter -> SUBSET {"continue", "found"}]
             /\ \A v \in Waiter \ {w} : /\ again'[v] = again[v] /\ counter'[v] = counter[v]
                                        /\ reason'[v] = reason[v] /\ at'[v] = at[v]
      BY <1>0, <1>6 DEF Decide, Because
<1>7. CASE Answer(w) \/ Woken(w)
  <2>1. CASE TakeResponse(w)
    <3>1. idjob' \in [Waiter -> BOOLEAN] /\ response' \in [Waiter -> Replies]
          BY <1>0, <2>1, Zenon DEF TakeResponse, Replies
    <3>2. \A v \in Waiter \ {w} : idjob'[v] = idjob[v] /\ response'[v] = response[v]
          BY <1>0, <2>1, ZenonT(60) DEF TakeResponse
    <3>3. /\ again' \in [Waiter -> BOOLEAN] /\ counter' \in [Waiter -> Nat]
          /\ reason' \in [Waiter -> SUBSET {"continue", "found"}]
          /\ \A v \in Waiter \ {w} : /\ again'[v] = again[v] /\ counter'[v] = counter[v]
                                     /\ reason'[v] = reason[v] /\ at'[v] = at[v]
          BY <1>6, <2>1, Zenon DEF TakeResponse
    <3>4. /\ at[w] # "done"
          /\ UNCHANGED <<arg, engine, memory, num, status, scan, seen, fast, wild, sent>>
          BY <1>7, Zenon DEF Answer, Woken
    <3> QED
        BY <1>0, <3>1, <3>2, <3>3, <3>4, ZenonT(60) DEF engine, sent
  <2>2. CASE UNCHANGED <<idjob, response, counter, again, reason>> /\ (Go(w, "blocked") \/ Go(w, "done"))
        BY <1>0, <1>7, <2>2 DEF Answer, Woken, engine, sent
  <2> QED
      BY <1>7, <2>1, <2>2, Zenon DEF Answer, Woken
<1>8. ASSUME NEW answer, Probe(w, answer)
      PROVE  /\ WType' /\ (\A v \in Waiter \ {w} : Same(v)) /\ UNCHANGED <<arg, aborted, wild>> /\ listed' = listed
             /\ \A v \in Waiter : at[v] = "done" => at'[v] = "done"
      BY <1>0, <1>6, <1>8, Zenon DEF Probe, engine, tasks, sent
<1>9. ASSUME NEW s \in Status, NEW c \in Nat, NEW n, Around(w, s, c, n)
      PROVE  /\ seen' \in [Waiter -> Status] /\ counter' \in [Waiter -> Nat] /\ again' \in [Waiter -> BOOLEAN]
             /\ \A v \in Waiter \ {w} : /\ seen'[v] = seen[v] /\ counter'[v] = counter[v]
                                        /\ at'[v] = at[v]
      BY <1>0, <1>9, ZenonT(60) DEF Around
<1>10. CASE Loop(w)
       BY <1>0, <1>9, <1>10, Zenon DEF Loop, engine, tasks, sent
<1>11. CASE Awake(w)
  <2>1. StatusRead(w) \in Status /\ counter[w] + 1 \in Nat
        BY <1>0 DEF StatusRead
  <2>2. (IF IsLastSleeper(num) THEN ABORTED ELSE StatusRead(w)) \in Status
        BY <2>1
  <2>3. /\ at[w] = "asleep"
        /\ Around(w, IF IsLastSleeper(num) THEN ABORTED ELSE StatusRead(w), counter[w] + 1, Left(num))
        BY <1>11, Zenon DEF Awake
  <2>4. /\ seen' \in [Waiter -> Status] /\ counter' \in [Waiter -> Nat] /\ again' \in [Waiter -> BOOLEAN]
        /\ \A v \in Waiter \ {w} : /\ seen'[v] = seen[v] /\ counter'[v] = counter[v] /\ at'[v] = at[v]
        BY <1>9, <2>1, <2>2, <2>3, Zenon
  <2>5. status' \in [Task -> Status] /\ \A v \in Waiter \ {w} : status'[v] = status[v]
        BY <1>0, <1>11, <2>1, ZenonT(60) DEF Awake
  <2> QED
      BY <1>0, <1>11, <2>3, <2>4, <2>5, Zenon DEF Awake, engine, sent
<1>12. CASE Settle(w, "completing", COMPLETED) \/ Settle(w, "failing", ERROR)
  <2>1. PICK s \in Status : \E here \in {"completing", "failing"} : Settle(w, here, s)
        BY <1>12
  <2>2. /\ at[w] # "done"
        /\ seen' = [seen EXCEPT ![w] = s] /\ status' = [status EXCEPT ![w] = s] /\ at' = [at EXCEPT ![w] = "last"]
        /\ UNCHANGED <<arg, engine, memory, num, idjob, response, scan, counter, again, fast, wild, reason, sent>>
        BY <2>1, Zenon DEF Settle
  <2> QED
      BY <1>0, <2>2, ZenonT(60) DEF engine, sent
<1>13. CASE Last(w)
  <2>1. \A v \in Waiter \ {w} : at'[v] = at[v]
        BY <1>0, <1>13, Zenon DEF Last, Leave
  <2> QED
      BY <1>0, <1>13, <2>1 DEF Last, engine, sent
<1>14. CASE ForceNotification(w)
       BY <1>0, <1>14 DEF ForceNotification, engine, sent
<1>15. CASE Tell(w)
  <2>1. NotifiedStatus(seen[w]) \in Status
        BY <1>0, NotifiedType, Zenon
  <2>2. NotifyType
        BY <1>0, <1>15, <2>1, NotifyKeepsType, ZenonT(60) DEF Tell
  <2>3. \A v \in Waiter \ {w} : status'[v] = status[v] /\ ends'[v] = ends[v] /\ outcome'[v] = outcome[v]
        BY <1>0, <1>15, NotifyCounts DEF Tell, Counted, engine
  <2> QED
      BY <1>0, <1>15, <2>2, <2>3, Zenon DEF Tell, NotifyType, sent
<1>16. CASE Exit(w)
       BY <1>0, <1>16, Zenon DEF Exit, engine, tasks, sent
<1> QED
    BY <1>1, <1>2, <1>3, <1>4, <1>5, <1>7, <1>8, <1>10, <1>11, <1>12, <1>13, <1>14, <1>15, <1>16, ZenonT(60) DEF ThreadStep, Thread

(* The steps that are not of a waiting thread.                              *)
EngineOnly ==
    \/ \E s \in {COMPLETED, ERROR} : JobEnds(s)
    \/ Close \/ Cancel \/ CancelDrops
    \/ \E w \in Waiter : GoesWild(w)

(* The ones of the engine and of the job touch no waiting task.             *)
LEMMA EngineFrame ==
    ASSUME WInv, Stage, EngineOnly
    PROVE  /\ WType'
           /\ \A v \in Waiter : Same(v)
           /\ UNCHANGED <<arg, aborted, at>>
           /\ listed' => listed
<1> USE DEF WType, Same
<1>0. WType /\ Job \in Task /\ Waiter \subseteq Task /\ Job \notin Waiter
      BY JobAssumption, Zenon DEF WInv, Task
<1>1. ASSUME NEW s \in {COMPLETED, ERROR}, JobEnds(s)
      PROVE  /\ WType' /\ (\A v \in Waiter : Same(v)) /\ UNCHANGED <<arg, aborted, at>> /\ (listed' => listed)
  <2>1. NotifyType
        BY <1>0, <1>1, NotifyKeepsType DEF JobEnds
  <2>2. \A v \in Waiter : status'[v] = status[v] /\ ends'[v] = ends[v] /\ outcome'[v] = outcome[v]
        BY <1>0, <1>1, NotifyCounts DEF JobEnds, Counted, engine
  <2> QED
      BY <1>0, <1>1, <2>1, <2>2, Zenon DEF JobEnds, NotifyType, local, sent
<1>2. CASE Close
      BY <1>0, <1>2, Zenon DEF Close, tasks, local, sent
<1>3. CASE Cancel
      BY <1>0, <1>3 DEF Cancel, tasks, local, sent
<1>4. CASE CancelDrops
      BY <1>0, <1>4, Zenon DEF CancelDrops, tasks, local, sent
<1>5. ASSUME NEW w \in Waiter, GoesWild(w)
      PROVE  /\ WType' /\ (\A v \in Waiter : Same(v)) /\ UNCHANGED <<arg, aborted, at>> /\ (listed' => listed)
      BY <1>0, <1>5, Zenon DEF GoesWild, engine, tasks, local, sent
<1> QED
    BY <1>1, <1>2, <1>3, <1>4, <1>5, Zenon DEF EngineOnly

(* OPH_INPUT touches its task only.                                         *)
LEMMA InputFrame ==
    ASSUME WInv, Stage, NEW w \in Waiter, NEW action \in {WAIT, RUNNING, ERROR}, Input(w, action)
    PROVE  /\ WType'
           /\ \A v \in Waiter \ {w} : Same(v)
           /\ Crossed(w) => Crossed(w)'
           /\ UNCHANGED <<arg, at, listed, wild>>
<1>0. WType /\ w \in Task /\ Waiter \subseteq Task
      BY Zenon DEF WInv, Task
<1>1. Commanded(status[w], action) \in Status
      BY <1>0 DEF Commanded, WType
<1>2. Place(w) \in {"no", "looking", "asleep", "busy"}
      BY Zenon DEF Place
<1>3. /\ status' \in [Task -> Status] /\ reason' \in [Waiter -> SUBSET {"continue", "found"}]
      /\ aborted' \in [Waiter -> {"no", "looking", "asleep", "busy"}]
      BY <1>0, <1>1, <1>2 DEF Input, WType, Because
<1>4. /\ \A v \in Waiter \ {w} : status'[v] = status[v] /\ reason'[v] = reason[v] /\ aborted'[v] = aborted[v]
      /\ Crossed(w) => aborted' = aborted
      BY <1>0, Zenon DEF Input, Because, WType
<1>5. UNCHANGED <<arg, engine, memory, num, idjob, response, scan, local, wild>>
      BY Zenon DEF Input
<1> QED
    BY <1>0, <1>3, <1>4, <1>5, Zenon DEF WType, Same, engine, local, Crossed

(* So does the answer of a scan.                                            *)
LEMMA ScanFrame ==
    ASSUME WInv, Stage, NEW w \in Waiter, NEW answer \in {"found", "absent", "empty"}, ScanEnds(w, answer)
    PROVE  /\ WType'
           /\ \A v \in Waiter \ {w} : Same(v)
           /\ UNCHANGED <<arg, at, aborted, wild>>
           /\ listed' => listed
<1>0. WType /\ w \in Task /\ Waiter \subseteq Task
      BY Zenon DEF WInv, Task
<1>1. UNCHANGED <<engine, status>> \/ \E s \in {COMPLETED, ERROR} : Notify(w, s)
      BY ZenonT(60) DEF ScanEnds
<1>2. NotifyType
  <2>1. CASE UNCHANGED <<engine, status>>
        BY <1>0, <2>1, Zenon DEF NotifyType, engine, WType
  <2>2. COMPLETED \in Status /\ ERROR \in Status
        OBVIOUS
  <2> QED
      BY <1>0, <1>1, <2>1, <2>2, NotifyKeepsType, ZenonT(60)
<1>3. \A v \in Waiter \ {w} : status'[v] = status[v] /\ ends'[v] = ends[v] /\ outcome'[v] = outcome[v]
      BY <1>0, <1>1, NotifyCounts DEF Counted, engine, WType
<1>4. response' = response \/ response' = [response EXCEPT ![w] = answer]
      BY Zenon DEF ScanEnds
<1>5. response' \in [Waiter -> Replies] /\ \A v \in Waiter \ {w} : response'[v] = response[v]
      BY <1>0, <1>4 DEF WType, Replies
<1>6. scan' = [scan EXCEPT ![w] = FALSE] /\ UNCHANGED <<arg, memory, num, idjob, local, wild, reason, sent>>
      BY Zenon DEF ScanEnds
<1> QED
    BY <1>0, <1>2, <1>3, <1>5, <1>6, Zenon DEF WType, Same, NotifyType, local, sent

(* OPH_CANCEL keeps the types.                                              *)
LEMMA KillFrame ==
    ASSUME WInv, Stage, CancelKills
    PROVE  /\ WType' /\ UNCHANGED <<arg, at, aborted, wild, listed, ends, residual, wstatus>>
           /\ status'[Job] \in {status[Job], ABORTED}
<1>0. WType /\ Waiter \subseteq Task /\ Job \in Task
      BY Zenon DEF WInv, Task
<1>1. PICK hit \in {{t \in Task : Active(status[t])}, {t \in Task : status[t] = PENDING}} :
          /\ status' = [t \in Task |-> IF t \in hit THEN ABORTED ELSE status[t]]
          /\ response' = [v \in Waiter |-> IF v \in hit THEN "absent" ELSE response[v]]
      BY Zenon DEF CancelKills
<1>2. status' \in [Task -> Status] /\ response' \in [Waiter -> Replies] /\ status'[Job] \in {status[Job], ABORTED}
      BY <1>0, <1>1 DEF WType, Replies
<1> QED
    BY <1>0, <1>2, Zenon DEF CancelKills, WType, local, sent

(* Every task stays in order, or is aborted while it looks for its file.    *)
LEMMA RegularStep ==
    ASSUME WInv, Stage, Next
    PROVE  /\ WType'
           /\ \A v \in Waiter : Crossed(v)' \/ Regular(v)'
           /\ \A v \in Waiter : Crossed(v) => Crossed(v)'
<1>0. \A v \in Waiter : Crossed(v) \/ Regular(v)
      BY Zenon DEF WInv
<1>1. ASSUME NEW w \in Waiter, ThreadStep(w)
      PROVE  /\ WType' /\ (\A v \in Waiter : Crossed(v)' \/ Regular(v)') /\ (\A v \in Waiter : Crossed(v) => Crossed(v)')
  <2>1. \A v \in Waiter : Crossed(v) => Crossed(v)'
        BY <1>1, ThreadFrame, Zenon DEF Crossed
  <2>2. \A v \in Waiter \ {w} : Crossed(v)' \/ Regular(v)'
        BY <1>0, <1>1, ThreadFrame, SameKeeps, Zenon
  <2>3. Crossed(w)' \/ Regular(w)'
        BY <1>0, <1>1, <2>1, ThreadRegular, Zenon
  <2> QED
      BY <1>1, <2>1, <2>2, <2>3, ThreadFrame, Zenon
<1>2. CASE EngineOnly
  <2>1. \A v \in Waiter : Crossed(v) => Crossed(v)'
        BY <1>2, EngineFrame, Zenon DEF Crossed
  <2> QED
      BY <1>0, <1>2, <2>1, EngineFrame, SameKeeps, Zenon
<1>3. CASE CancelKills
  <2>1. \A v \in Waiter : Crossed(v) => Crossed(v)'
        BY <1>3, KillFrame, Zenon DEF Crossed
  <2> QED
      BY <1>0, <1>3, <2>1, KillFrame, KillRegular, Zenon
<1>4. ASSUME NEW w \in Waiter, NEW action \in {WAIT, RUNNING, ERROR}, Input(w, action)
      PROVE  /\ WType' /\ (\A v \in Waiter : Crossed(v)' \/ Regular(v)') /\ (\A v \in Waiter : Crossed(v) => Crossed(v)')
  <2>1. \A v \in Waiter : Crossed(v) => Crossed(v)'
        BY <1>4, InputFrame, Zenon DEF Crossed, Same
  <2>2. \A v \in Waiter \ {w} : Crossed(v)' \/ Regular(v)'
        BY <1>0, <1>4, InputFrame, SameKeeps
  <2>3. Crossed(w)' \/ Regular(w)'
        BY <1>0, <1>4, <2>1, InputRegular, Zenon
  <2> QED
      BY <1>4, <2>1, <2>2, <2>3, InputFrame, Zenon
<1>5. ASSUME NEW w \in Waiter, NEW answer \in {"found", "absent", "empty"}, ScanEnds(w, answer)
      PROVE  /\ WType' /\ (\A v \in Waiter : Crossed(v)' \/ Regular(v)') /\ (\A v \in Waiter : Crossed(v) => Crossed(v)')
  <2>1. \A v \in Waiter : Crossed(v) => Crossed(v)'
        BY <1>5, ScanFrame, Zenon DEF Crossed
  <2>2. \A v \in Waiter \ {w} : Crossed(v)' \/ Regular(v)'
        BY <1>0, <1>5, ScanFrame, SameKeeps, Zenon
  <2>3. Crossed(w)' \/ Regular(w)'
        BY <1>0, <1>5, <2>1, ScanRegular, Zenon
  <2> QED
      BY <1>5, <2>1, <2>2, <2>3, ScanFrame, Zenon
<1> QED
    BY <1>1, <1>2, <1>3, <1>4, <1>5, Zenon DEF Next, EngineOnly, ThreadStep

(* What a step does to the ends the engine counts: nothing, or one more end *)
(* of a task that had not ended unless it was crossed.                      *)
NothingCounted ==
    /\ UNCHANGED <<ends, residual>>
    /\ status'[Job] \in {status[Job], ABORTED}
    /\ wstatus' = COMPLETED => wstatus = COMPLETED

EndCounted(t) ==
    /\ ends' = [ends EXCEPT ![t] = @ + 1]
    /\ residual' = residual - 1
    /\ NobodyCrossed \/ t = Job => ends[t] = 0
    /\ IF t = Job THEN ~Active(status'[Job]) ELSE status'[Job] = status[Job]
    /\ wstatus' = COMPLETED => wstatus = COMPLETED \/ residual = 1

Tally == NothingCounted \/ \E t \in Task : EndCounted(t)

(* A notification counts so.                                                *)
LEMMA NotifyTally ==
    ASSUME WInv, NEW t \in Task, NEW s \in Status, Notify(t, s),
           NobodyCrossed \/ t = Job => ends[t] = 0, t = Job => ~Active(s)
    PROVE  Tally
<1>0. status \in [Task -> Status] /\ Job \in Task
      BY Zenon DEF WInv, WType, Task
<1>1. CASE UNCHANGED <<engine, status>>
      BY <1>1, Zenon DEF engine, Tally, NothingCounted
<1>2. CASE Counted(t, s)
  <2>1. IF t = Job THEN ~Active(status'[Job]) ELSE status'[Job] = status[Job]
        BY <1>0, <1>2, Zenon DEF Counted
  <2>2. EndCounted(t)
        BY <1>2, <2>1, Zenon DEF Counted, EndCounted
  <2> QED
      BY <2>2, Zenon DEF Tally
<1> QED
    BY <1>1, <1>2, NotifyCounts, Zenon

(* Every step counts so.                                                    *)
LEMMA StepTally ==
    ASSUME WInv, Stage, Next
    PROVE  Tally
<1>0. /\ WType /\ Job \in Task /\ Waiter \subseteq Task /\ Job \notin Waiter
      /\ \A v \in Waiter : Crossed(v) \/ Regular(v)
      BY JobAssumption, Zenon DEF WInv, Task
<1>1. ASSUME NEW w \in Waiter, at[w] # "done"
      PROVE  NobodyCrossed \/ w = Job => ends[w] = 0
  <2>1. NobodyCrossed => Regular(w)
        BY <1>0, Zenon DEF NobodyCrossed
  <2> QED
      BY <1>0, <1>1, <2>1, Zenon DEF Regular, EndsWithThread
<1>2. ASSUME NEW s \in {COMPLETED, ERROR}, JobEnds(s)
      PROVE  Tally
  <2>1. ends[Job] = 0 /\ ~Active(s)
        BY <1>2 DEF JobEnds, WInv, JobEndsOnce, Active
  <2> QED
      BY <1>0, <1>2, <2>1, NotifyTally DEF JobEnds
<1>3. ASSUME UNCHANGED <<ends, residual, wstatus>>, status'[Job] \in {status[Job], ABORTED}
      PROVE  Tally
      BY <1>3, Zenon DEF Tally, NothingCounted
<1>4. CASE Close \/ CancelDrops
      BY <1>3, <1>4, Zenon DEF Close, CancelDrops, tasks
<1>5. CASE Cancel
      BY <1>5 DEF Cancel, tasks, Tally, NothingCounted
<1>6. CASE CancelKills
      BY <1>3, <1>6, KillFrame, Zenon
<1>7. ASSUME NEW w \in Waiter, NEW x, status' = status \/ status' = [status EXCEPT ![w] = x]
      PROVE  status'[Job] = status[Job]
      BY <1>0, <1>7, Zenon DEF WType
<1>8. ASSUME NEW w \in Waiter, Report(w) \/ Tell(w)
      PROVE  Tally
  <2>1. at[w] # "done" /\ w \in Task /\ w # Job
        BY <1>0, <1>8, ZenonT(60) DEF Report, Tell
  <2>2. \E s \in Status : Notify(w, s)
    <3>1. CASE Report(w)
      <4>1. ERROR \in Status
            OBVIOUS
      <4> QED
          BY <3>1, <4>1, Zenon DEF Report
    <3>2. CASE Tell(w)
      <4>1. seen[w] \in Status
            BY <1>0, Zenon DEF WType
      <4> QED
          BY <3>2, <4>1, NotifiedType, ZenonT(60) DEF Tell
    <3> QED
        BY <1>8, <3>1, <3>2, Zenon
  <2> QED
      BY <1>1, <2>1, <2>2, NotifyTally, Zenon
<1>9. ASSUME NEW w \in Waiter, Serve(w)
      PROVE  Tally
  <2>1. status'[Job] = status[Job]
        BY <1>7, <1>9, Zenon DEF Serve, StartsToWait
  <2> QED
      BY <1>9, <2>1 DEF Serve, StartsToWait, Tally, NothingCounted
<1>10. ASSUME NEW w \in Waiter, Refuse(w) \/ Woken(w) \/ Begin(w) \/ Submit(w) \/ Answer(w) \/ Loop(w) \/ Exit(w)
                               \/ GoesWild(w) \/ \E answer \in {"found", "absent"} : Probe(w, answer)
       PROVE  Tally
  <2>1. UNCHANGED <<engine, status>>
        BY <1>10, Zenon DEF Refuse, Woken, Begin, Submit, Answer, Loop, Exit, GoesWild, Probe, tasks
  <2> QED
      BY <1>3, <2>1, Zenon DEF engine
<1>11. ASSUME NEW w \in Waiter, Awake(w) \/ Settle(w, "completing", COMPLETED) \/ Settle(w, "failing", ERROR)
                                \/ Last(w) \/ ForceNotification(w)
                                \/ \E action \in {WAIT, RUNNING, ERROR} : Input(w, action)
       PROVE  Tally
  <2>1. UNCHANGED engine
        BY <1>11, Zenon DEF Awake, Settle, Last, ForceNotification, Input
  <2>2. status' = status \/ \E x : status' = [status EXCEPT ![w] = x]
        BY <1>11, Zenon DEF Awake, Settle, Last, ForceNotification, Input
  <2> QED
      BY <1>3, <1>7, <2>1, <2>2, Zenon DEF engine
<1>12. ASSUME NEW w \in Waiter, NEW answer \in {"found", "absent", "empty"}, ScanEnds(w, answer)
       PROVE  Tally
  <2>1. CASE Regular(w)
    <3>1. UNCHANGED <<engine, status>>
          BY <1>12, <2>1, ScanRegular, Zenon
    <3> QED
        BY <1>3, <3>1, Zenon DEF engine
  <2>2. CASE ~Regular(w)
    <3>1. ~NobodyCrossed /\ w \in Task /\ w # Job
          BY <1>0, <2>2, Zenon DEF NobodyCrossed
    <3>2. UNCHANGED <<engine, status>> \/ \E s \in {COMPLETED, ERROR} : Notify(w, s)
          BY <1>12, Zenon DEF ScanEnds
    <3>3. \A s \in {COMPLETED, ERROR} : s \in Status
          OBVIOUS
    <3> QED
        BY <1>3, <3>1, <3>2, <3>3, NotifyTally, Zenon DEF engine
  <2> QED
      BY <2>1, <2>2, Zenon
<1> QED
    BY <1>2, <1>4, <1>5, <1>6, <1>8, <1>9, <1>10, <1>11, <1>12, Zenon DEF Next, Thread

INSTANCE FiniteSetTheorems

(* The tasks whose end has not been counted are finitely many.              *)
LEMMA UnendedFinite == ASSUME NEW f PROVE IsFiniteSet(Unended(f)) /\ Cardinality(Unended(f)) \in Nat
<1>1. IsFiniteSet(Task)
      BY JobAssumption, FS_AddElement, Zenon DEF Task
<1>2. Unended(f) \in SUBSET Task
      BY Zenon DEF Unended
<1> QED
    BY <1>1, <1>2, FS_Subset, FS_CardinalityType, ZenonT(60)

(* The counters of ends stay exact.                                         *)
LEMMA TallyKeeps ==
    ASSUME WInv, Tally, NobodyCrossed' => NobodyCrossed
    PROVE  /\ JobEndsOnce'
           /\ NobodyCrossed' => residual' = Cardinality(Unended(ends'))
<1>0. /\ ends \in [Task -> Nat] /\ residual \in Int /\ Job \in Task
      /\ NobodyCrossed => residual = Cardinality(Unended(ends))
      BY ZenonT(60) DEF WInv, WType, Task
<1>1. CASE NothingCounted
      BY <1>0, <1>1 DEF NothingCounted, WInv, JobEndsOnce, Active
<1>2. ASSUME NEW t \in Task, EndCounted(t)
      PROVE  /\ JobEndsOnce'
             /\ NobodyCrossed' => residual' = Cardinality(Unended(ends'))
  <2>1. JobEndsOnce'
        BY <1>0, <1>2 DEF EndCounted, WInv, JobEndsOnce
  <2>2. ASSUME NobodyCrossed
        PROVE  residual' = Cardinality(Unended(ends'))
    <3>1. t \in Unended(ends) /\ Unended(ends') = Unended(ends) \ {t}
          BY <1>0, <1>2, <2>2 DEF EndCounted, Unended
    <3>2. Cardinality(Unended(ends')) = Cardinality(Unended(ends)) - 1
          BY <3>1, UnendedFinite, FS_RemoveElement, ZenonT(60)
    <3> QED
        BY <1>0, <1>2, <2>2, <3>2, ZenonT(60) DEF EndCounted
  <2> QED
      BY <2>1, <2>2, ZenonT(60)
<1> QED
    BY <1>1, <1>2, Zenon DEF Tally

(* A task that ends last ends alone.                                        *)
LEMMA LastEnd ==
    ASSUME WInv, NEW t \in Task, EndCounted(t), NobodyCrossed, residual = 1
    PROVE  \A v \in Waiter : ends'[v] # 0
<1>1. ends \in [Task -> Nat] /\ Cardinality(Unended(ends)) = 1 /\ Waiter \subseteq Task
      BY Zenon DEF WInv, WType, Task
<1>2. PICK x : Unended(ends) = {x}
      BY <1>1, UnendedFinite, FS_Singleton, Zenon
<1>3. t \in Unended(ends)
      BY Zenon DEF EndCounted, Unended
<1>4. \A v \in Waiter : v = t \/ ends[v] # 0
      BY <1>1, <1>2, <1>3 DEF Unended
<1> QED
    BY <1>1, <1>4 DEF EndCounted

(* A freed workflow is followed in a step of its own only.                  *)
LEMMA StillTame ==
    ASSUME WInv, Stage, Next, \A w \in Waiter : ~GoesWild(w)
    PROVE  ~wild'
<1>1. ~wild
      BY Zenon DEF Next
<1>2. ASSUME NEW s, JobEnds(s)
      PROVE  wild' = wild
      BY <1>2, Zenon DEF JobEnds
<1>3. CASE Close \/ Cancel \/ CancelDrops
      BY <1>1, <1>3, Zenon DEF Close, Cancel, CancelDrops
<1> QED
    BY <1>1, <1>2, <1>3, ThreadFrame, KillFrame, InputFrame, ScanFrame, ZenonT(60) DEF Next, ThreadStep

(* Where the threads are when the workflow completes.                       *)
LEMMA NobodyStep ==
    ASSUME WInv, Stage, Next
    PROVE  NobodyLeftWaiting'
<1>1. SUFFICES ASSUME wstatus' = COMPLETED, NobodyCrossed'
               PROVE  ~wild' /\ \A v \in Waiter : at'[v] = "done"
      BY Zenon DEF NobodyLeftWaiting, NobodyCrossed
<1>2. NobodyCrossed /\ \A v \in Waiter : Regular(v)'
      BY <1>1, RegularStep, Zenon DEF NobodyCrossed
<1>3. ~wild
      BY Zenon DEF Next
<1>4. CASE wstatus = COMPLETED
  <2>1. \A v \in Waiter : at[v] = "done"
        BY <1>2, <1>4, Zenon DEF WInv, NobodyLeftWaiting, NobodyCrossed
  <2>2. \A w \in Waiter : ~GoesWild(w)
        BY <2>1, Zenon DEF GoesWild, Dangling
  <2>3. \A v \in Waiter : at'[v] = "done"
    <3>1. ASSUME NEW w \in Waiter, ThreadStep(w)
          PROVE  \A v \in Waiter : at'[v] = "done"
          BY <2>1, <3>1, ThreadFrame, Zenon
    <3>2. CASE ~(\E w \in Waiter : ThreadStep(w))
          BY <2>1, <3>2, EngineFrame, KillFrame, InputFrame, ScanFrame, ZenonT(60) DEF Next, EngineOnly, ThreadStep
    <3> QED
        BY <3>1, <3>2, Zenon
  <2> QED
      BY <2>3, <1>3, <2>2, StillTame, ZenonT(60)
<1>5. CASE wstatus # COMPLETED
  <2>1. PICK t \in Task : EndCounted(t) /\ residual = 1
        BY <1>1, <1>5, StepTally, Zenon DEF Tally, NothingCounted, EndCounted
  <2>2. \A v \in Waiter : ends'[v] # 0
        BY <1>2, <2>1, LastEnd, ZenonT(60)
  <2>3. \A v \in Waiter : at'[v] = "done"
        BY <1>2, <2>2, Zenon DEF Regular, EndsWithThread
  <2>4. \A w \in Waiter : ~GoesWild(w)
        BY <1>1, <1>5, Zenon DEF GoesWild, engine
  <2> QED
      BY <2>3, <1>3, <2>4, StillTame, ZenonT(60)
<1> QED
    BY <1>4, <1>5, Zenon

(* The invariant holds initially.                                           *)
LEMMA WInvInit == Init => WInv
<1> SUFFICES ASSUME Init PROVE WInv
    BY Zenon
<1>0. Unended(ends) = Task /\ residual = Cardinality(Task)
      BY Zenon DEF Init, Unended
<1>1. WType
  <2>1. residual \in Int
        BY <1>0, UnendedFinite
  <2>2. status \in [Task -> Status] /\ ends \in [Task -> Nat] /\ outcome \in [Task -> Status]
        BY DEF Init
  <2>3. /\ idjob \in [Waiter -> BOOLEAN] /\ scan \in [Waiter -> BOOLEAN] /\ again \in [Waiter -> BOOLEAN]
        /\ response \in [Waiter -> Replies] /\ aborted \in [Waiter -> {"no", "looking", "asleep", "busy"}]
        BY Zenon DEF Init, Replies
  <2>4. /\ seen \in [Waiter -> Status] /\ counter \in [Waiter -> Nat]
        /\ reason \in [Waiter -> SUBSET {"continue", "found"}]
        BY DEF Init
  <2>5. wstatus \in Status
        BY DEF Init
  <2>6. arg \in Setups /\ wild \in BOOLEAN
        BY ZenonT(60) DEF Init
  <2> QED
      BY <2>1, <2>2, <2>3, <2>4, <2>5, <2>6, ZenonT(60) DEF WType
<1>2. ASSUME NEW w \in Waiter
      PROVE  Regular(w)
  <2>1. /\ at[w] = "submitted" /\ listed /\ ~scan[w] /\ response[w] = "none" /\ counter[w] = 0
        /\ ends[w] = 0 /\ outcome[w] = UNKNOWN /\ aborted[w] = "no"
        BY Zenon DEF Init, Task
  <2> QED
      BY <2>1 DEF Regular, ScanAwaited, WaitsInOrder, EndsWithThread, AbortOnItsWay, Waits
<1>3. JobEndsOnce
      BY Zenon DEF Init, JobEndsOnce, Task
<1>4. NobodyLeftWaiting
      BY DEF Init, NobodyLeftWaiting
<1> QED
    BY <1>0, <1>1, <1>2, <1>3, <1>4, ZenonT(60) DEF WInv

(* Every step keeps it.                                                     *)
LEMMA WInvNext == WInv /\ Stage /\ [Next]_vars => WInv'
<1> SUFFICES ASSUME WInv, Stage, [Next]_vars PROVE WInv'
    BY Zenon
<1>1. CASE Next
  <2>1. NobodyCrossed' => NobodyCrossed
        BY <1>1, RegularStep, Zenon DEF NobodyCrossed
  <2> QED
      BY <1>1, <2>1, RegularStep, StepTally, TallyKeeps, NobodyStep, ZenonT(60) DEF WInv
<1>2. CASE UNCHANGED vars
  <2>1. /\ UNCHANGED <<arg, listed, wstatus, residual, ends, outcome, wild, reason, aborted>>
        /\ UNCHANGED <<status, idjob, response, scan, at, seen, counter, again>>
        BY <1>2, Zenon DEF vars, engine, tasks, local, sent
  <2>2. WType' /\ JobEndsOnce' /\ NobodyLeftWaiting'
        BY <2>1, Zenon DEF WInv, WType, JobEndsOnce, NobodyLeftWaiting, Crossed
  <2>3. \A v \in Waiter : Crossed(v)' \/ Regular(v)'
        BY <2>1, SameKeeps, Zenon DEF WInv, Same
  <2>4. NobodyCrossed' => residual' = Cardinality(Unended(ends'))
        BY <2>1, Zenon DEF WInv, NobodyCrossed, Crossed
  <2> QED
      BY <2>2, <2>3, <2>4, ZenonT(60) DEF WInv
<1> QED
    BY <1>1, <1>2, Zenon

(* Both invariants hold for ever.                                           *)
LEMMA WInvariant == Spec => []WInv
BY StageInit, StageNext, WInvInit, WInvNext, PTL DEF Spec

(* A waiting task completes for a reason: it slept all its time, its file   *)
(* was found or OPH_INPUT let it continue (CompletedForAReason).            *)
THEOREM CompletionHasAReason == Spec => []CompletedForAReason
<1>1. WInv => CompletedForAReason
      BY Zenon DEF WInv, CompletedForAReason, Regular, EndsWithThread, MayComplete
<1> QED
    BY <1>1, WInvariant, PTL

(* An abort that finds the thread asleep makes the task fail, whenever the  *)
(* thread wakes up (AbortObeyed).                                           *)
THEOREM AbortIsObeyed == Spec => []AbortObeyed
<1>1. WInv => AbortObeyed
      BY Zenon DEF WInv, AbortObeyed, Regular, AbortOnItsWay, Crossed
<1> QED
    BY <1>1, WInvariant, PTL

(* The end of a task is counted once, unless an abort crosses its scan      *)
(* (EndedOnce).                                                             *)
THEOREM EndCountedOnce == Spec => []EndedOnce
<1>1. ASSUME WInv PROVE EndedOnce
  <2>1. ASSUME NEW w \in Waiter PROVE ends[w] <= 1 \/ Crossed(w)
        BY <1>1 DEF WInv, WType, Task, Regular, EndsWithThread
  <2>2. ends[Job] <= 1
        BY <1>1 DEF WInv, JobEndsOnce
  <2> QED
      BY <2>1, <2>2, ZenonT(60) DEF EndedOnce, Task
<1> QED
    BY <1>1, WInvariant, PTL

(* A workflow completes once the threads of all its waiting tasks have done *)
(* with it (NobodyLeftWaiting).                                             *)
THEOREM NobodyIsLeftWaiting == Spec => []NobodyLeftWaiting
<1>1. WInv => NobodyLeftWaiting
      BY Zenon DEF WInv
<1> QED
    BY <1>1, WInvariant, PTL

-----------------------------------------------------------------------------
(* The protocol of waiting_tasks_num.                                       *)

HIDE DEF UNKNOWN, PENDING, WAIT, RUNNING, COMPLETED, ERROR, ABORTED, UNSELECTED, EXPIRED, Status

SleepSet(f) == {w \in Waiter : f[w] = "asleep"}

Closed == closer = "done" /\ ~listed

SInv ==
    /\ num \in Int
    /\ memory \in {"held", "freed"}
    /\ listed \in BOOLEAN
    /\ at \in [Waiter -> Places]
    /\ fast \in [Waiter -> BOOLEAN]
    /\ SleepersCounted
    /\ SleeperKeepsWorkflow
    /\ listed => closer \in {"none", "cancelling"}
    /\ \A w \in Waiter : fast[w] => Closed
    /\ \A w \in Waiter : at[w] = "exit" => fast[w]

(* What a step does to the list and the closer: a workflow closed stays so. *)
EngineStep ==
    /\ listed' \in BOOLEAN
    /\ listed' => closer' \in {"none", "cancelling"}
    /\ Closed => Closed'

(* The set of sleepers is finite.                                           *)
LEMMA SleepSetFinite ==
    ASSUME NEW f
    PROVE  /\ IsFiniteSet(SleepSet(f))
           /\ Cardinality(SleepSet(f)) \in Nat
           /\ Cardinality(SleepSet(f)) = 0 <=> SleepSet(f) = {}
<1>1. SleepSet(f) \in SUBSET Waiter /\ IsFiniteSet(Waiter)
      BY JobAssumption, Zenon DEF SleepSet
<1>2. IsFiniteSet(SleepSet(f))
      BY <1>1, FS_Subset, Zenon
<1> QED
    BY <1>2, FS_CardinalityType, FS_EmptySet, Zenon

(* A thread that neither falls asleep nor wakes up leaves the set alone.    *)
LEMMA NoSleeper ==
    ASSUME NEW f \in [Waiter -> Places], NEW w \in Waiter, NEW p \in Places,
           f[w] # "asleep", p # "asleep"
    PROVE  SleepSet([f EXCEPT ![w] = p]) = SleepSet(f)
BY Zenon DEF SleepSet

(* A thread that falls asleep is one sleeper more.                          *)
LEMMA OneSleeperMore ==
    ASSUME NEW f \in [Waiter -> Places], NEW w \in Waiter, f[w] # "asleep"
    PROVE  /\ Cardinality(SleepSet([f EXCEPT ![w] = "asleep"])) = Cardinality(SleepSet(f)) + 1
           /\ SleepSet([f EXCEPT ![w] = "asleep"]) # {}
<1>1. SleepSet([f EXCEPT ![w] = "asleep"]) = SleepSet(f) \cup {w} /\ w \notin SleepSet(f)
      BY Zenon DEF SleepSet
<1>2. IsFiniteSet(SleepSet(f))
      BY SleepSetFinite, Zenon
<1>3. Cardinality(SleepSet(f) \cup {w}) = IF w \in SleepSet(f) THEN Cardinality(SleepSet(f))
                                         ELSE Cardinality(SleepSet(f)) + 1
      BY <1>2, FS_AddElement, Zenon
<1> QED
    BY <1>1, <1>3, Zenon

(* A thread that gets up is one sleeper less.                               *)
LEMMA OneSleeperLess ==
    ASSUME NEW f \in [Waiter -> Places], NEW w \in Waiter, NEW p \in Places,
           f[w] = "asleep", p # "asleep"
    PROVE  Cardinality(SleepSet([f EXCEPT ![w] = p])) = Cardinality(SleepSet(f)) - 1
<1>1. SleepSet([f EXCEPT ![w] = p]) = SleepSet(f) \ {w} /\ w \in SleepSet(f)
      BY Zenon DEF SleepSet
<1>2. IsFiniteSet(SleepSet(f))
      BY SleepSetFinite, Zenon
<1>3. Cardinality(SleepSet(f) \ {w}) = IF w \in SleepSet(f) THEN Cardinality(SleepSet(f)) - 1
                                       ELSE Cardinality(SleepSet(f))
      BY <1>2, FS_RemoveElement, Zenon
<1> QED
    BY <1>1, <1>3, Zenon

(* Asleep is the set of sleepers of at.                                     *)
LEMMA AsleepIs == Asleep = SleepSet(at) /\ Asleep' = SleepSet(at')
BY Zenon DEF Asleep, SleepSet

(* A step of the engine or of a thread that does not touch the counter, the *)
(* memory and the sleepers keeps the invariant.                             *)
LEMMA QuietStep ==
    ASSUME SInv, EngineStep, UNCHANGED <<num, memory, fast>>, at' \in [Waiter -> Places],
           SleepSet(at') = SleepSet(at), \A w \in Waiter : at'[w] = "exit" => fast[w]
    PROVE  SInv'
<1>1. Asleep' = Asleep
      BY AsleepIs, Zenon
<1>2. SleepersCounted'
      BY <1>1, Zenon DEF SInv, SleepersCounted, EngineStep, Closed
<1>3. SleeperKeepsWorkflow'
      BY <1>1, Zenon DEF SInv, SleeperKeepsWorkflow
<1> QED
    BY <1>2, <1>3, Zenon DEF SInv, EngineStep

(* A thread moves between two places where it is awake.                     *)
AwakeMove(w) ==
    /\ at[w] # "asleep"
    /\ \E p \in Places \ {"asleep"} : Go(w, p) /\ (p = "exit" => fast[w])

(* Places a thread may always go to.                                        *)
Plain == Places \ {"asleep", "exit"}

(* The ones the steps below lead to.                                        *)
LEMMA PlainPlaces ==
    /\ "done" \in Plain /\ "refused" \in Plain /\ "served" \in Plain /\ "look" \in Plain
    /\ "loop" \in Plain /\ "answer" \in Plain /\ "blocked" \in Plain /\ "completing" \in Plain
    /\ "failing" \in Plain /\ "last" \in Plain /\ "force" \in Plain /\ "tell" \in Plain
BY Zenon DEF Plain, Places

(* A move to one of them.                                                   *)
LEMMA PlainMove ==
    ASSUME NEW w, at[w] # "asleep", NEW p \in Plain, Go(w, p)
    PROVE  AwakeMove(w)
BY Zenon DEF AwakeMove, Plain

(* Where a look at the file leads to.                                       *)
LEMMA DecideMoves ==
    ASSUME NEW w, NEW answer, Decide(w, answer)
    PROVE  \E p \in Plain : Go(w, p)
<1>1. Go(w, "completing") \/ Go(w, "failing") \/ Go(w, "look") \/ Go(w, "loop")
      BY Zenon DEF Decide
<1> QED
    BY <1>1, PlainPlaces, Zenon

(* Such a move keeps the invariant.                                         *)
LEMMA AwakeStep ==
    ASSUME SInv, EngineStep, UNCHANGED <<num, memory, fast>>, NEW w \in Waiter, AwakeMove(w)
    PROVE  SInv'
<1>1. at \in [Waiter -> Places] /\ at[w] # "asleep"
      BY Zenon DEF SInv, AwakeMove
<1>2. PICK p \in Places \ {"asleep"} : Go(w, p) /\ (p = "exit" => fast[w])
      BY Zenon DEF AwakeMove
<1>3. at' = [at EXCEPT ![w] = p]
      BY <1>2, Zenon DEF Go
<1>4. SleepSet(at') = SleepSet(at)
      BY <1>1, <1>3, NoSleeper, Zenon
<1>5. \A v \in Waiter : at'[v] = "exit" => fast[v]
      BY <1>1, <1>2, <1>3, Zenon DEF SInv
<1>6. at' \in [Waiter -> Places]
      BY <1>1, <1>3, Zenon
<1> QED
    BY <1>4, <1>5, <1>6, QuietStep, Zenon

(* oph_workflow_notify.                                                     *)
LEMMA NotifyStep ==
    ASSUME SInv, NEW t, NEW s, Notify(t, s)
    PROVE  EngineStep
<1>1. CASE UNCHANGED <<engine, status>>
      BY <1>1, Zenon DEF SInv, EngineStep, engine, Closed
<1>2. CASE listed /\ \E final \in BOOLEAN : /\ listed' = ~final
                                            /\ closer' = IF final THEN "closing" ELSE closer
      BY <1>2, Zenon DEF SInv, EngineStep, Closed
<1>3. IsFinal(s, [status EXCEPT ![t] = s]) \in BOOLEAN
      BY Zenon DEF IsFinal
<1> QED
    BY <1>1, <1>2, <1>3, Zenon DEF Notify

(* Nothing changes in the engine.                                           *)
LEMMA EngineSame ==
    ASSUME SInv, UNCHANGED <<listed, closer>>
    PROVE  EngineStep
BY Zenon DEF SInv, EngineStep, Closed

(* oph_workflow_free, called once the workflow is closed.                   *)
LEMMA FreeStep ==
    ASSUME SInv, Free, Closed', EngineStep, UNCHANGED fast, at' \in [Waiter -> Places],
           SleepSet(at') = SleepSet(at), \A w \in Waiter : at'[w] = "exit" => fast[w]
    PROVE  SInv'
<1>1. Asleep' = Asleep
      BY AsleepIs, Zenon
<1>2. Cardinality(Asleep) \in Nat /\ (Cardinality(Asleep) = 0 <=> Asleep = {})
      BY AsleepIs, SleepSetFinite, Zenon
<1>3. num \in Int /\ (num = Cardinality(Asleep) \/ num = -Cardinality(Asleep))
      BY Zenon DEF SInv, SleepersCounted
<1>4. num' = -Cardinality(Asleep)
      BY <1>2, <1>3 DEF Free
<1>5. num' \in Int
      BY <1>2, <1>4
<1>6. SleepersCounted'
      BY <1>1, <1>4, Zenon DEF SleepersCounted, Closed
<1>7. num = 0 => Asleep = {}
      BY <1>2, <1>3
<1>8. SleeperKeepsWorkflow'
      BY <1>1, <1>7, Zenon DEF SInv, SleeperKeepsWorkflow, Free
<1> QED
    BY <1>5, <1>6, <1>8, Zenon DEF SInv, EngineStep, Free

(* The first turn of the inner loop.                                        *)
LEMMA LoopStep ==
    ASSUME SInv, NEW w \in Waiter, ~Dangling(w), Loop(w)
    PROVE  SInv'
<1>1. EngineStep
      BY EngineSame, Zenon DEF Loop, engine
<1>2. UNCHANGED <<memory, fast>> /\ at[w] = "loop"
      BY Zenon DEF Loop
<1>3. CASE at' = [at EXCEPT ![w] = "asleep"] /\ num' = IF num >= 0 THEN num + 1 ELSE num - 1
  <2>1. at \in [Waiter -> Places] /\ at[w] # "asleep" /\ num \in Int
        BY <1>2, Zenon DEF SInv
  <2>2. Cardinality(Asleep') = Cardinality(Asleep) + 1
        BY <1>3, <2>1, OneSleeperMore, AsleepIs, Zenon
  <2>3. Cardinality(Asleep) \in Nat
        BY SleepSetFinite, AsleepIs, Zenon
  <2>4. num' = Cardinality(Asleep') \/ (num' = -Cardinality(Asleep') /\ Closed)
        BY <1>3, <2>1, <2>2, <2>3 DEF SInv, SleepersCounted, Closed
  <2>5. SleepersCounted'
        BY <1>1, <2>4, Zenon DEF SleepersCounted, EngineStep, Closed
  <2>6. memory = "held"
        BY <1>2, Zenon DEF SInv, Dangling
  <2>7. SleeperKeepsWorkflow'
        BY <1>2, <2>6, Zenon DEF SleeperKeepsWorkflow
  <2>8. at' \in [Waiter -> Places] /\ num' \in Int /\ \A v \in Waiter : at'[v] = "exit" => fast'[v]
    <3>1. "asleep" \in Places
          BY Zenon DEF Places
    <3> QED
        BY <1>2, <1>3, <2>1, <3>1 DEF SInv
  <2> QED
      BY <1>1, <1>2, <2>5, <2>7, <2>8, Zenon DEF SInv, EngineStep
<1>4. CASE num' = num /\ \E p \in {"last", "look", "completing"} : Go(w, p)
  <2>1. AwakeMove(w)
        BY <1>2, <1>4, PlainPlaces, PlainMove, Zenon
  <2> QED
      BY <1>1, <1>2, <1>4, <2>1, AwakeStep, Zenon
<1> QED
    BY <1>3, <1>4, Zenon DEF Loop, Around, Go

(* A thread comes out of sleep(1), and sleeps again or goes on.             *)
LEMMA OutOfSleep ==
    ASSUME SInv, NEW w \in Waiter, Awake(w)
    PROVE  SInv'
<1> DEFINE n == Left(num)
           k == Cardinality(Asleep)
<1>1. EngineStep
      BY EngineSame, Zenon DEF Awake, engine
<1>2. /\ UNCHANGED memory /\ at[w] = "asleep"
      /\ at \in [Waiter -> Places] /\ fast \in [Waiter -> BOOLEAN] /\ num \in Int
      BY Zenon DEF Awake, SInv
<1>3. k \in Nat /\ k # 0 /\ Asleep # {}
      BY <1>2, SleepSetFinite, AsleepIs, Zenon DEF SleepSet
<1>4. memory = "held"
      BY <1>3, Zenon DEF SInv, SleeperKeepsWorkflow
<1>5. \/ num = k /\ n = k - 1 /\ n >= 0 /\ ~IsLastSleeper(num)
      \/ num = -k /\ n = 1 - k /\ Closed
      BY <1>2, <1>3 DEF SInv, SleepersCounted, Left, IsLastSleeper, Closed
<1>6. \A v \in Waiter : fast'[v] => Closed
      BY <1>2, <1>5, Zenon DEF SInv, Awake
<1>7. fast' \in [Waiter -> BOOLEAN] /\ \A v \in Waiter : fast[v] => fast'[v]
  <2>1. IsLastSleeper(num) \in BOOLEAN
        BY Zenon DEF IsLastSleeper
  <2> QED
      BY <1>2, <2>1, Zenon DEF Awake
<1>8. SleeperKeepsWorkflow'
      BY <1>2, <1>4, Zenon DEF SleeperKeepsWorkflow
<1>9. ASSUME at' \in [Waiter -> Places], num' \in Int, \A v \in Waiter : at'[v] # at[v] => at'[v] # "exit",
             num' = Cardinality(Asleep') \/ (num' = -Cardinality(Asleep') /\ Closed)
      PROVE  SInv'
  <2>1. SleepersCounted'
        BY <1>1, <1>9, Zenon DEF SleepersCounted, EngineStep, Closed
  <2>2. \A v \in Waiter : at'[v] = "exit" => fast'[v]
        BY <1>7, <1>9, Zenon DEF SInv
  <2>3. \A v \in Waiter : fast'[v] => Closed'
        BY <1>1, <1>6, Zenon DEF EngineStep
  <2> QED
      BY <1>1, <1>2, <1>7, <1>8, <1>9, <2>1, <2>2, <2>3, ZenonT(60) DEF SInv, EngineStep
<1>10. CASE /\ ~IsLastSleeper(num) /\ at' = [at EXCEPT ![w] = "asleep"]
            /\ num' = IF n >= 0 THEN n + 1 ELSE n - 1
  <2>1. at' = at
        BY <1>2, <1>10, Zenon
  <2>2. Asleep' = Asleep
        BY <2>1, AsleepIs, Zenon
  <2>3. num = -k /\ num # k => n # 0
        BY <1>3, <1>5, <1>10 DEF IsLastSleeper
  <2>4. num' \in Int /\ (num' = k \/ (num' = -k /\ Closed))
        BY <1>3, <1>5, <1>10, <2>3
  <2> QED
      BY <1>2, <1>9, <2>1, <2>2, <2>4, Zenon
<1>11. CASE num' = n /\ \E p \in {"last", "look", "completing"} : Go(w, p)
  <2>1. PICK p \in {"last", "look", "completing"} : Go(w, p)
        BY <1>11, Zenon
  <2>2. p \in Places /\ p # "asleep" /\ p # "exit" /\ at' = [at EXCEPT ![w] = p]
        BY <2>1, Zenon DEF Go, Places
  <2>3. Cardinality(Asleep') = k - 1
        BY <1>2, <2>2, OneSleeperLess, AsleepIs, ZenonT(60)
  <2>4. num' \in Int /\ (num' = k - 1 \/ (num' = -(k - 1) /\ Closed))
        BY <1>3, <1>5, <1>11
  <2>5. at' \in [Waiter -> Places] /\ \A v \in Waiter : at'[v] # at[v] => at'[v] # "exit"
        BY <1>2, <2>2, ZenonT(60)
  <2> QED
      BY <1>9, <2>3, <2>4, <2>5, Zenon
<1>12. \/ ~IsLastSleeper(num) /\ Go(w, "asleep") /\ num' = IF n >= 0 THEN n + 1 ELSE n - 1
       \/ num' = n /\ \E p \in {"last", "look", "completing"} : Go(w, p)
       BY DEF Awake, Around, ABORTED, WAIT
<1> QED
    BY <1>10, <1>11, <1>12, Zenon DEF Go

(* The steps of a thread that leave the counter alone.                      *)
LEMMA ThreadMoves ==
    ASSUME SInv, NEW w \in Waiter,
           \/ Serve(w) \/ Report(w) \/ Refuse(w) \/ Begin(w) \/ Submit(w) \/ Answer(w) \/ Woken(w)
           \/ \E answer \in {"found", "absent"} : Probe(w, answer)
           \/ Settle(w, "completing", COMPLETED) \/ Settle(w, "failing", ERROR)
           \/ Last(w) \/ ForceNotification(w) \/ Tell(w)
    PROVE  SInv'
<1>1. CASE Serve(w)
  <2>1. UNCHANGED <<listed, closer, num, memory, fast>>
        BY <1>1, Zenon DEF Serve
  <2>2. at[w] # "asleep" /\ (Go(w, "done") \/ Go(w, "refused") \/ Go(w, "served"))
        BY <1>1, Zenon DEF Serve
  <2>3. AwakeMove(w)
        BY <2>2, PlainPlaces, PlainMove, Zenon
  <2> QED
      BY <2>1, <2>3, AwakeStep, EngineSame, Zenon
<1>2. CASE Report(w)
  <2>1. UNCHANGED <<num, memory, fast>> /\ Notify(w, ERROR)
        BY <1>2, Zenon DEF Report
  <2>2. at[w] # "asleep" /\ Go(w, "done")
        BY <1>2, Zenon DEF Report
  <2>3. AwakeMove(w)
        BY <2>2, PlainPlaces, PlainMove, ZenonT(60)
  <2> QED
      BY <2>1, <2>3, AwakeStep, NotifyStep, Zenon
<1>3. CASE Refuse(w)
  <2>1. UNCHANGED <<listed, closer, num, memory, fast>>
        BY <1>3, Zenon DEF Refuse, engine
  <2>2. at[w] # "asleep" /\ Go(w, "refused")
        BY <1>3, Zenon DEF Refuse
  <2>3. AwakeMove(w)
        BY <2>2, PlainPlaces, PlainMove, ZenonT(60)
  <2> QED
      BY <2>1, <2>3, AwakeStep, EngineSame, Zenon
<1>4. CASE Begin(w)
  <2>1. UNCHANGED <<listed, closer, num, memory, fast>>
        BY <1>4, Zenon DEF Begin, engine
  <2>2. at[w] # "asleep" /\ (Go(w, "done") \/ Go(w, "look") \/ Go(w, "loop"))
        BY <1>4, Zenon DEF Begin, Head
  <2>3. AwakeMove(w)
        BY <2>2, PlainPlaces, PlainMove, ZenonT(60)
  <2> QED
      BY <2>1, <2>3, AwakeStep, EngineSame, Zenon
<1>5. CASE Submit(w)
  <2>1. UNCHANGED <<listed, closer, num, memory, fast>>
        BY <1>5, Zenon DEF Submit, engine
  <2>2. at[w] # "asleep" /\ (Go(w, "failing") \/ Go(w, "answer"))
        BY <1>5, Zenon DEF Submit
  <2>3. AwakeMove(w)
        BY <2>2, PlainPlaces, PlainMove, Zenon
  <2> QED
      BY <2>1, <2>3, AwakeStep, EngineSame, Zenon
<1>6. CASE Answer(w)
  <2>1. UNCHANGED <<listed, closer, num, memory, fast>> /\ at[w] # "asleep"
        BY <1>6, Zenon DEF Answer, engine
  <2>2. \E p \in Plain : Go(w, p)
        BY <1>6, DecideMoves, PlainPlaces, ZenonT(60) DEF Answer, TakeResponse
  <2> QED
      BY <2>1, <2>2, PlainMove, AwakeStep, EngineSame, Zenon
<1>7. CASE Woken(w)
  <2>1. UNCHANGED <<listed, closer, num, memory, fast>> /\ at[w] # "asleep"
        BY <1>7, Zenon DEF Woken, engine
  <2>2. \E p \in Plain : Go(w, p)
        BY <1>7, DecideMoves, PlainPlaces, ZenonT(60) DEF Woken, TakeResponse
  <2> QED
      BY <2>1, <2>2, PlainMove, AwakeStep, EngineSame, Zenon
<1>8. CASE \E answer \in {"found", "absent"} : Probe(w, answer)
  <2>1. UNCHANGED <<listed, closer, num, memory, fast>> /\ at[w] # "asleep"
        BY <1>8, Zenon DEF Probe, engine
  <2>2. \E p \in Plain : Go(w, p)
        BY <1>8, DecideMoves, ZenonT(60) DEF Probe
  <2> QED
      BY <2>1, <2>2, PlainMove, AwakeStep, EngineSame, Zenon
<1>9. CASE Settle(w, "completing", COMPLETED) \/ Settle(w, "failing", ERROR)
  <2>1. UNCHANGED <<listed, closer, num, memory, fast>>
        BY <1>9, Zenon DEF Settle, engine
  <2>2. at[w] # "asleep" /\ Go(w, "last")
        BY <1>9, Zenon DEF Settle
  <2>3. AwakeMove(w)
        BY <2>2, PlainPlaces, PlainMove, ZenonT(60)
  <2> QED
      BY <2>1, <2>3, AwakeStep, EngineSame, Zenon
<1>10. CASE Last(w)
  <2>1. UNCHANGED <<listed, closer, num, memory, fast>>
        BY <1>10, Zenon DEF Last, engine
  <2>2. at[w] # "asleep" /\ (Go(w, "force") \/ Go(w, "done") \/ (fast[w] /\ Go(w, "exit")))
        BY <1>10, Zenon DEF Last, Leave
  <2>3. "exit" \in Places \ {"asleep"}
        BY Zenon DEF Places
  <2>4. fast[w] /\ Go(w, "exit") => AwakeMove(w)
        BY <2>2, <2>3, Zenon DEF AwakeMove
  <2>5. AwakeMove(w)
        BY <2>2, <2>4, PlainPlaces, PlainMove, ZenonT(60)
  <2> QED
      BY <2>1, <2>5, AwakeStep, EngineSame, Zenon
<1>11. CASE ForceNotification(w)
  <2>1. UNCHANGED <<listed, closer, num, memory, fast>>
        BY <1>11, Zenon DEF ForceNotification, engine
  <2>2. at[w] # "asleep" /\ Go(w, "tell")
        BY <1>11, Zenon DEF ForceNotification
  <2>3. AwakeMove(w)
        BY <2>2, PlainPlaces, PlainMove, Zenon
  <2> QED
      BY <2>1, <2>3, AwakeStep, EngineSame, Zenon
<1>12. CASE Tell(w)
  <2>1. UNCHANGED <<num, memory, fast>> /\ Notify(w, NotifiedStatus(seen[w]))
        BY <1>12, Zenon DEF Tell
  <2>2. at[w] # "asleep" /\ Go(w, "done")
        BY <1>12, ZenonT(60) DEF Tell
  <2>3. AwakeMove(w)
        BY <2>2, PlainPlaces, PlainMove, ZenonT(60)
  <2> QED
      BY <2>1, <2>3, AwakeStep, NotifyStep, Zenon
<1> QED
    BY <1>1, <1>2, <1>3, <1>4, <1>5, <1>6, <1>7, <1>8, <1>9, <1>10, <1>11, <1>12, ZenonT(60)

(* The last sleeper frees the workflow, or leaves it to those who have      *)
(* fallen asleep in the meantime.                                           *)
LEMMA ExitStep ==
    ASSUME SInv, NEW w \in Waiter, Exit(w)
    PROVE  SInv'
<1>1. at[w] = "exit" /\ at \in [Waiter -> Places] /\ at' = [at EXCEPT ![w] = "done"]
      BY Zenon DEF Exit, Go, SInv
<1>2. UNCHANGED <<listed, closer, fast>> /\ Free
      BY Zenon DEF Exit, engine
<1>3. Closed'
      BY <1>1, <1>2, Zenon DEF SInv, Closed
<1>4. "done" \in Places
      BY Zenon DEF Places
<1>5. SleepSet(at') = SleepSet(at)
      BY <1>1, <1>4, NoSleeper, Zenon
<1>6. at' \in [Waiter -> Places] /\ \A v \in Waiter : at'[v] = "exit" => fast[v]
      BY <1>1, <1>4, Zenon DEF SInv
<1> QED
    BY <1>2, <1>3, <1>5, <1>6, EngineSame, FreeStep, ZenonT(60)

(* The steps that are not of a waiting thread.                              *)
LEMMA OtherSteps ==
    ASSUME SInv,
           \/ \E s \in {COMPLETED, ERROR} : JobEnds(s)
           \/ Close \/ Cancel \/ CancelDrops \/ CancelKills
           \/ \E w \in Waiter :
                 \/ GoesWild(w)
                 \/ \E action \in {WAIT, RUNNING, ERROR} : Input(w, action)
                 \/ \E answer \in {"found", "absent", "empty"} : ScanEnds(w, answer)
    PROVE  SInv'
<1>1. at \in [Waiter -> Places] /\ \A v \in Waiter : at[v] = "exit" => fast[v]
      BY Zenon DEF SInv
<1>2. ASSUME EngineStep, UNCHANGED <<num, memory, at, fast>>
      PROVE  SInv'
      BY <1>1, <1>2, QuietStep, Zenon
<1>3. CASE \E s \in {COMPLETED, ERROR} : JobEnds(s)
      BY <1>2, <1>3, NotifyStep, Zenon DEF JobEnds, local
<1>4. CASE Close
  <2>1. Free /\ UNCHANGED <<listed, at, fast>> /\ closer = "closing" /\ closer' = "done"
        BY <1>4, Zenon DEF Close, local
  <2>2. Closed' /\ EngineStep
        BY <2>1, Zenon DEF SInv, Closed, EngineStep
  <2> QED
      BY <1>1, <2>1, <2>2, FreeStep, Zenon
<1>5. CASE Cancel
  <2>1. EngineStep
        BY <1>5, Zenon DEF Cancel, EngineStep, Closed, SInv
  <2> QED
      BY <1>2, <1>5, <2>1, Zenon DEF Cancel, local
<1>6. CASE CancelDrops
  <2>1. EngineStep
        BY <1>6, Zenon DEF CancelDrops, EngineStep, Closed
  <2> QED
      BY <1>2, <1>6, <2>1, Zenon DEF CancelDrops, local
<1>7. CASE CancelKills
  <2>1. EngineStep
        BY <1>7, Zenon DEF CancelKills, EngineStep, Closed, SInv
  <2> QED
      BY <1>2, <1>7, <2>1, Zenon DEF CancelKills, local
<1>8. ASSUME NEW w \in Waiter, GoesWild(w)
      PROVE  SInv'
      BY <1>2, <1>8, EngineSame, Zenon DEF GoesWild, local, engine
<1>9. ASSUME NEW w \in Waiter, NEW action, Input(w, action)
      PROVE  SInv'
      BY <1>2, <1>9, EngineSame, Zenon DEF Input, local, engine
<1>10. ASSUME NEW w \in Waiter, NEW answer, ScanEnds(w, answer)
       PROVE  SInv'
  <2>1. EngineStep
        BY <1>10, EngineSame, NotifyStep, ZenonT(60) DEF ScanEnds, engine
  <2> QED
      BY <1>2, <1>10, <2>1, Zenon DEF ScanEnds, local
<1> QED
    BY <1>3, <1>4, <1>5, <1>6, <1>7, <1>8, <1>9, <1>10, ZenonT(60)

(* The invariant holds initially.                                           *)
LEMMA SInvInit == Init => SInv
<1> SUFFICES ASSUME Init PROVE SInv
    BY Zenon
<1>1. Asleep = {} /\ at \in [Waiter -> Places] /\ fast \in [Waiter -> BOOLEAN]
      BY Zenon DEF Init, Asleep, Places
<1>2. SleepersCounted /\ SleeperKeepsWorkflow
      BY <1>1, FS_EmptySet, Zenon DEF Init, SleepersCounted, SleeperKeepsWorkflow
<1> QED
    BY <1>1, <1>2 DEF Init, SInv

(* Every step keeps it.                                                     *)
LEMMA SInvNext == SInv /\ [Next]_vars => SInv'
<1> SUFFICES ASSUME SInv, [Next]_vars PROVE SInv'
    BY Zenon
<1>1. CASE UNCHANGED vars
      BY <1>1, Zenon DEF vars, engine, local, SInv, SleepersCounted, SleeperKeepsWorkflow, Asleep, Closed
<1>2. ASSUME NEW w \in Waiter, ~Dangling(w), Thread(w)
      PROVE  SInv'
      BY <1>2, ThreadMoves, LoopStep, OutOfSleep, ExitStep, Zenon DEF Thread
<1>3. ASSUME NEW w \in Waiter, Refuse(w) \/ Woken(w)
      PROVE  SInv'
      BY <1>3, ThreadMoves, Zenon
<1> QED
    BY <1>1, <1>2, <1>3, OtherSteps, ZenonT(60) DEF Next

(* waiting_tasks_num agrees with the sleeping threads, whatever their       *)
(* number and however the closer and they interleave.                       *)
THEOREM CounterIsExact == Spec => []SleepersCounted
<1>1. SInv => SleepersCounted
      BY Zenon DEF SInv
<1> QED
    BY <1>1, SInvInit, SInvNext, PTL DEF Spec

(* No thread wakes up in a workflow that has been freed.                    *)
THEOREM SleepersAreSafe == Spec => []SleeperKeepsWorkflow
<1>1. SInv => SleeperKeepsWorkflow
      BY Zenon DEF SInv
<1> QED
    BY <1>1, SInvInit, SInvNext, PTL DEF Spec
=============================================================================
