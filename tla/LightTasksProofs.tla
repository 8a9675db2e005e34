-------------------------- MODULE LightTasksProofs --------------------------
(***************************************************************************)
(* residual_light_tasks_num, for every workflow and every configuration in  *)
(* which the requests can be prepared.  The inductive invariant LInv adds   *)
(* to the counter of an active massive task that what it counts is active   *)
(* in the status of the light tasks, so that no notification about it is    *)
(* neglected, and that none of the requests still out reports an error.     *)
(***************************************************************************)
EXTENDS WorkflowEngineProofs

USE DEF UNKNOWN, PENDING, RUNNING, COMPLETED, ERROR, START_ERROR, EXECUTE_ERROR, SKIPPED,
        ABORTED, EXPIRED, Status, Active, Ended

(* An active task that is not massive or is in its first attempt.           *)
Fresh(t) == Active(st[t]) /\ (Retrying(t) => LightOf(t) = {})

(* The counter of t is exact; what it counts is active, so that none of its *)
(* notifications is neglected, and is submitted rather than reported.       *)
LightsCounted(t) ==
    /\ rlight[t] = Cardinality(OutLights(t))
    /\ \A l \in OutLights(t) : Active(lst[<<t, l>>])
    /\ \A r \in requests : r.task = t /\ r.light # NoLight => r.status = PENDING

LInv == ~PrepMayFail /\ Live => \A t \in Task : Fresh(t) => LightsCounted(t)

(* A light task of a task is one of the light tasks.                        *)
LEMMA LightKeys == \A t \in Task : \A l \in LightOf(t) : <<t, l>> \in LightTask
<1> SUFFICES ASSUME NEW t \in Task, NEW l \in LightOf(t) PROVE <<t, l>> \in LightTask
    BY Zenon
<1>1. l \in Light[t]
      BY Zenon DEF LightOf
<1>2. <<t, l>> \in Task \X UNION {Light[x] : x \in Task}
      BY <1>1, Zenon
<1> QED
    BY <1>2, Zenon DEF LightTask

(* What is known of a task that a step leaves alone stays true.             *)
LEMMA SameLights ==
    ASSUME NEW t \in Task, Fresh(t) => LightsCounted(t), Active(st'[t]) => Active(st[t]),
           auto'[t] = auto[t], rlight'[t] = rlight[t], OutLights(t)' = OutLights(t),
           \A l \in LightOf(t) : lst'[<<t, l>>] = lst[<<t, l>>],
           \A r \in requests' : r.task = t /\ r.light # NoLight => r \in requests
    PROVE  (Fresh(t) => LightsCounted(t))'
<1>1. Fresh(t)' => Fresh(t)
      BY Zenon DEF Fresh, Retrying
<1>2. \A l \in OutLights(t) : l \in LightOf(t)
      BY Zenon DEF OutLights
<1>3. LightsCounted(t) => LightsCounted(t)'
      BY <1>2, Zenon DEF LightsCounted
<1> QED
    BY <1>1, <1>3, Zenon

(* Nothing is counted for a task that is not massive.                       *)
LEMMA PlainLights ==
    ASSUME NEW t \in Task, LightOf(t) = {}, rlight'[t] = 0, RequestInv'
    PROVE  LightsCounted(t)'
<1>1. OutLights(t)' = {}
      BY Zenon DEF OutLights
<1>2. Cardinality(OutLights(t)') = 0
      BY <1>1, FS_EmptySet, Zenon
<1>3. \A r \in requests' : ~(r.task = t /\ r.light # NoLight)
      BY Zenon DEF RequestInv
<1> QED
    BY <1>1, <1>2, <1>3, Zenon DEF LightsCounted

(* A notification about t says nothing of the other tasks, and, as long as  *)
(* the task goes on, a light task leaves the automatic retries alone.       *)
LEMMA NotifyFrame ==
    ASSUME TypeOK, NEW t \in Task, NEW l \in Nat \cup {NoLight}, NEW s \in Status, Notify(t, l, s)
    PROVE  /\ \A x \in Task \ {t} : auto'[x] = auto[x]
           /\ \A p \in LightTask : p # <<t, l>> => lst'[p] = lst[p]
<1>t. auto \in [Task -> 0 .. AutoRetry + 1] /\ lst \in [LightTask -> Status]
      BY Zenon DEF TypeOK
<1>1. CASE UNCHANGED <<phase, wstatus, residual, taskvars, execs>>
      BY <1>1, Zenon DEF taskvars
<1>2. CASE l = NoLight /\ NotifySingle(t, s)
  <2>1. lst' = lst
        BY <1>2, Zenon DEF NotifySingle
  <2>2. \A x \in Task \ {t} : auto'[x] = auto[x]
        BY <1>t, <1>2, Zenon DEF NotifySingle, TaskEnds
  <2> QED
      BY <2>1, <2>2, Zenon
<1>3. CASE l # NoLight /\ NotifyLight(t, l, s)
  <2>1. lst' = [lst EXCEPT ![<<t, l>>] = s]
        BY <1>3, Zenon DEF NotifyLight
  <2>2. \A x \in Task \ {t} : auto'[x] = auto[x]
        BY <1>t, <1>3, Zenon DEF NotifyLight, TaskEnds
  <2>3. \A p \in LightTask : p # <<t, l>> => lst'[p] = lst[p]
        BY <1>t, <2>1, Zenon
  <2> QED
      BY <2>2, <2>3, Zenon
<1> QED
    BY <1>1, <1>2, <1>3, Zenon DEF Notify

(* What the end of a task leaves is not active.                             *)
LEMMA EndIsInactive ==
    ASSUME TypeOK, NEW t \in Task, NEW w, EndCase(t, w)
    PROVE  ~Active(st'[t])
<1>t. st \in [Task -> Status]
      BY Zenon DEF TypeOK
<1>1. ASSUME NEW v \in {COMPLETED, SKIPPED, ABORTED}, TaskCompletes(t, v, w) PROVE ~Active(st'[t])
      BY <1>t, <1>1 DEF TaskCompletes
<1>2. ASSUME NEW v \in Failures, TaskFailsAndWorkflowContinues(t, v, w) PROVE ~Active(st'[t])
  <2>1. st' = AbortBelow([st EXCEPT ![t] = v], {t})
        BY <1>2, Zenon DEF TaskFailsAndWorkflowContinues
  <2>2. st'[t] = ABORTED \/ st'[t] = v
        BY <1>t, <2>1, Zenon DEF AbortBelow
  <2> QED
      BY <2>2 DEF Failures
<1>3. ASSUME NEW n \in Int, TaskIsRetried(t, n, w) PROVE ~Active(st'[t])
      BY <1>t, <1>3 DEF TaskIsRetried
<1>4. ASSUME NEW v \in Failures, TaskFailsAndWorkflowFails(t, v) PROVE ~Active(st'[t])
      BY <1>t, <1>4 DEF TaskFailsAndWorkflowFails, Failures
<1> QED
    BY <1>1, <1>2, <1>3, <1>4, ZenonT(60) DEF EndCase

(* A light task of a task in its first attempt is notified: the counter     *)
(* follows what is in execution.                                            *)
LEMMA LightNotified ==
    ASSUME EInv, NEW t \in Task, NEW l \in LightOf(t), NEW s \in Status, l \in Nat, l # NoLight,
           Live, NotifyLight(t, l, s), Active(st[t]), requests' \subseteq requests,
           l \in OutLights(t), Fresh(t) => LightsCounted(t),
           Fresh(t) => /\ s \in Sent
                       /\ OutLights(t)' = IF s = RUNNING THEN OutLights(t) ELSE OutLights(t) \ {l}
    PROVE  (Fresh(t) => LightsCounted(t))'
<1>t. /\ lst \in [LightTask -> Status] /\ rlight \in [Task -> Int] /\ wstatus \in Status
      /\ auto \in [Task -> 0 .. AutoRetry + 1] /\ TypeOK /\ BudgetInv
      BY Zenon DEF EInv, TypeOK
<1> DEFINE m == marked[t] \/ (s = START_ERROR /\ AutoRetry > 0 /\ RetryNum[t] = 1 /\ auto[t] # 1)
           nowRunning == NotifiedStatus(s) = RUNNING \/ s = START_ERROR
           wrunning == IF nowRunning /\ wstatus < RUNNING THEN RUNNING ELSE wstatus
           left == LeftAfter(t, s)
           failed == \E j \in LightOf(t) : [lst EXCEPT ![<<t, l>>] = s][<<t, j>>] > COMPLETED
           e == IF failed THEN ERROR ELSE COMPLETED
<1>l. lst' = [lst EXCEPT ![<<t, l>>] = s]
      BY Zenon DEF NotifyLight
<1>1. CASE NotifiedStatus(s) = RUNNING \/ left > 0
  <2>1. rlight' = [rlight EXCEPT ![t] = left] /\ auto' = auto
        BY <1>1 DEF NotifyLight
  <2> SUFFICES ASSUME Fresh(t)' PROVE LightsCounted(t)'
      BY Zenon
  <2>2. Fresh(t)
        BY <2>1, Zenon DEF Fresh, Retrying
  <2>3. /\ rlight[t] = Cardinality(OutLights(t))
        /\ \A k \in OutLights(t) : k \in LightOf(t) /\ <<t, k>> \in LightTask /\ Active(lst[<<t, k>>])
        /\ \A r \in requests' : r.task = t /\ r.light # NoLight => r.status = PENDING
        BY <2>2, LightKeys, Zenon DEF LightsCounted, OutLights
  <2>4. CASE s = RUNNING
    <3>1. rlight'[t] = rlight[t] /\ OutLights(t)' = OutLights(t)
          BY <1>t, <2>1, <2>2, <2>4, NotifiedFacts, ZenonT(60) DEF LeftAfter
    <3>2. \A k \in OutLights(t) : Active(lst'[<<t, k>>])
      <4>1. lst'[<<t, l>>] = RUNNING /\ Active(RUNNING)
        <5>1. lst'[<<t, l>>] = s
              BY <1>t, <1>l, LightKeys, ZenonT(60)
        <5> QED
            BY <2>4, <5>1
      <4>2. \A k \in OutLights(t) \ {l} : Active(lst'[<<t, k>>])
            BY <1>t, <1>l, <2>3, ZenonT(60)
      <4> QED
          BY <4>1, <4>2, ZenonT(60)
    <3> QED
        BY <2>3, <3>1, <3>2, ZenonT(60) DEF LightsCounted
  <2>5. CASE s # RUNNING
    <3>1. NotifiedStatus(s) # RUNNING /\ OutLights(t)' = OutLights(t) \ {l}
          BY <2>2, <2>5, NotifiedFacts DEF Sent
    <3>2. rlight'[t] = rlight[t] - 1
          BY <1>t, <2>1, <3>1, Zenon DEF LeftAfter
    <3>3. Cardinality(OutLights(t) \ {l}) = Cardinality(OutLights(t)) - 1
          BY OutFinite, FS_RemoveElement, ZenonT(60)
    <3>4. \A k \in OutLights(t) \ {l} : Active(lst'[<<t, k>>])
          BY <1>t, <1>l, <2>3, ZenonT(60)
    <3> QED
        BY <2>3, <3>1, <3>2, <3>3, <3>4, ZenonT(60) DEF LightsCounted
  <2> QED
      BY <2>4, <2>5, ZenonT(60)
<1>2. CASE ~(NotifiedStatus(s) = RUNNING \/ left > 0)
  <2>1. TaskEnds(t, e, auto[t], m, wrunning)
        BY <1>2, ZenonT(60) DEF NotifyLight
  <2>2. e \in Sent \ {RUNNING} /\ m \in BOOLEAN /\ wrunning \in Status /\ wrunning < ABORTED
        BY <1>t DEF Sent, Live, TypeOK
  <2> HIDE DEF m, wrunning, left, e
  <2>3. EndCase(t, wrunning)
    <3>1. auto[t] \in 0 .. AutoRetry + 1 /\ phase = "listed"
          BY <1>t, Zenon DEF Live, TypeOK
    <3>2. EndsWell(t, e, auto[t], m, wrunning)
          BY <1>t, <2>1, <2>2, <3>1, ZenonT(60) DEF EndsWell
    <3> QED
        BY <3>2, EndsEffect, ZenonT(60)
  <2> QED
      BY <1>t, <2>3, EndIsInactive, ZenonT(60) DEF Fresh
<1> QED
    BY <1>1, <1>2, Zenon

(* What is in execution follows a notification about t.                     *)
OutFollows(t, l, s) ==
    /\ requests' \subseteq requests
    /\ \A x \in Task \ {t} : OutLights(x)' = OutLights(x)
    /\ Fresh(t) /\ l # NoLight =>
          /\ s \in Sent
          /\ OutLights(t)' = IF s = RUNNING THEN OutLights(t) ELSE OutLights(t) \ {l}

(* A notification keeps the counters of the light tasks exact.              *)
LEMMA LightsStep ==
    ASSUME EInv, EInv', LInv, ~PrepMayFail, NEW t \in Task, NEW l \in Nat \cup {NoLight},
           NEW s \in Status, InExecution(t, l), Notify(t, l, s), Quietly \/ Effect(t, l, s),
           OutFollows(t, l, s)
    PROVE  LInv'
<1>r. /\ RequestInv' /\ requests' \subseteq requests
      /\ \A x \in Task \ {t} : OutLights(x)' = OutLights(x)
      /\ Fresh(t) /\ l # NoLight =>
            /\ s \in Sent
            /\ OutLights(t)' = IF s = RUNNING THEN OutLights(t) ELSE OutLights(t) \ {l}
      BY Zenon DEF EInv, OutFollows
<1> SUFFICES ASSUME Live', NEW x \in Task PROVE (Fresh(x) => LightsCounted(x))'
    BY Zenon DEF LInv
<1>0. Live /\ TypeOK /\ Open
      BY Zenon DEF Quietly, Effect, Live, EInv, Open
<1>1. \A y \in Task : Fresh(y) => LightsCounted(y)
      BY <1>0, Zenon DEF LInv
<1>2. CASE x # t
  <2>1. Active(st'[x]) => Active(st[x])
        BY <1>2 DEF Quietly, Effect, GraphStep, taskvars
  <2>2. rlight'[x] = rlight[x]
        BY <1>2, Zenon DEF Quietly, Effect, taskvars
  <2>3. auto'[x] = auto[x] /\ \A k \in LightOf(x) : lst'[<<x, k>>] = lst[<<x, k>>]
        BY <1>0, <1>2, NotifyFrame, LightKeys, ZenonT(60)
  <2> QED
      BY <1>r, <1>1, <1>2, <2>1, <2>2, <2>3, SameLights, ZenonT(60)
<1>3. CASE x = t
  <2>1. /\ Active(st[t])
        /\ l = NoLight => LightOf(t) = {}
        /\ l # NoLight => l \in LightOf(t) /\ l \in OutLights(t)
        BY <1>0, Zenon DEF InExecution
  <2>2. CASE l = NoLight
    <3>1. rlight'[t] = rlight[t]
          BY <2>2, Zenon DEF Quietly, Effect, taskvars
    <3>2. OutLights(t) = {} /\ LightsCounted(t)
          BY <1>1, <2>1, <2>2, ZenonT(60) DEF OutLights, Fresh
    <3>3. rlight[t] = 0
          BY <3>2, FS_EmptySet, Zenon DEF LightsCounted
    <3> QED
        BY <1>r, <1>3, <2>1, <2>2, <3>1, <3>3, PlainLights, ZenonT(60)
  <2>3. CASE l # NoLight /\ (phase # "listed" \/ wstatus >= ABORTED \/ Neglected(t, l, s))
    <3>0. ~(wstatus >= ABORTED) /\ phase = "listed"
          BY <1>0 DEF Live, TypeOK
    <3>1. UNCHANGED taskvars /\ Neglected(t, l, s)
          BY <2>3, <3>0, Zenon DEF Notify
    <3>2. ~Active(lst[<<t, l>>])
      <4>1. lst[<<t, l>>] \in Status
            BY <1>0, <2>1, <2>3, LightKeys, ZenonT(60) DEF TypeOK
      <4>2. lst[<<t, l>>] = UNKNOWN \/ Ended(lst[<<t, l>>])
            BY <2>3, <3>1, ZenonT(60) DEF Neglected
      <4> QED
          BY <4>1, <4>2
    <3>3. ~Fresh(t)
          BY <1>1, <2>1, <2>3, <3>2, ZenonT(60) DEF LightsCounted
    <3> QED
        BY <1>3, <3>1, <3>3, ZenonT(60) DEF Fresh, Retrying, taskvars
  <2>4. CASE l # NoLight /\ ~(phase # "listed" \/ wstatus >= ABORTED \/ Neglected(t, l, s))
    <3>1. NotifyLight(t, l, s)
          BY <2>4, Zenon DEF Notify
    <3>2. l \in Nat
          BY <2>4, Zenon
    <3> QED
        BY <1>r, <1>0, <1>1, <1>3, <2>1, <2>4, <3>1, <3>2, LightNotified, ZenonT(60)
  <2> QED
      BY <2>2, <2>3, <2>4, ZenonT(60)
<1> QED
    BY <1>2, <1>3, Zenon

(* The end of what is in execution is followed.                             *)
LEMMA EndFollows ==
    ASSUME NEW t \in Task, NEW l, NEW s \in Sent, s # RUNNING, requests' \subseteq requests,
           \A x \in Task : OutLights(x)' = IF x = t THEN OutLights(x) \ {l} ELSE OutLights(x)
    PROVE  OutFollows(t, l, s)
<1>1. OutLights(t)' = OutLights(t) \ {l} /\ \A x \in Task \ {t} : OutLights(x)' = OutLights(x)
      BY Zenon
<1> QED
    BY <1>1, Zenon DEF OutFollows

(* What is in execution once a request is gone.                             *)
LEMMA RequestGone ==
    ASSUME Unique, NEW r \in requests, requests' = requests \ {r}, jobs' = jobs, NEW x \in Task
    PROVE  OutLights(x)' = IF x = r.task THEN OutLights(x) \ {r.light} ELSE OutLights(x)
<1>1. \A y \in requests \ {r} : ~SameKey(y, r)
      BY Zenon DEF Unique
<1>2. \A y \in jobs : ~SameKey(y, r)
      BY Zenon DEF Unique, SameKey
<1> QED
    BY <1>1, <1>2, Zenon DEF OutLights, SameKey

(* The same for a job that is gone.                                         *)
LEMMA JobGone ==
    ASSUME Unique, NEW j \in jobs, jobs' = jobs \ {j}, requests' = requests, NEW x \in Task
    PROVE  OutLights(x)' = IF x = j.task THEN OutLights(x) \ {j.light} ELSE OutLights(x)
<1>1. \A y \in jobs \ {j} : ~SameKey(y, j)
      BY Zenon DEF Unique
<1>2. \A y \in requests : ~SameKey(y, j)
      BY Zenon DEF Unique
<1> QED
    BY <1>1, <1>2, Zenon DEF OutLights, SameKey

(* A job that changes state is still in execution.                          *)
LEMMA JobMoved ==
    ASSUME EInv, NEW j \in jobs, NEW v \in {"running", "lost", "missed"},
           jobs' = (jobs \ {j}) \cup {[j EXCEPT !.state = v]}, requests' = requests, NEW x \in Task
    PROVE  OutLights(x)' = OutLights(x)
<1> DEFINE n == [j EXCEPT !.state = v]
<1>1. n.task = j.task /\ n.light = j.light
      BY Zenon DEF EInv, TypeOK, Job
<1> HIDE DEF n
<1>2. jobs' = (jobs \ {j}) \cup {n}
      BY Zenon DEF n
<1> QED
    BY <1>1, <1>2, ZenonT(60) DEF OutLights

(* A request answered by the manager keeps the counters exact.              *)
LEMMA ReplyLights ==
    ASSUME EInv, EInv', LInv, ~PrepMayFail, NEW r \in requests, NEW s \in Replies, Reply(r, s)
    PROVE  LInv'
<1>1. r.task \in Task /\ r.light \in Nat \cup {NoLight} /\ r.status = PENDING
      BY Zenon DEF EInv, TypeOK, Request, Reply
<1>2. s \in Sent /\ s \in Status /\ s # RUNNING
      BY DEF Replies, Sent
<1>3. Live /\ r.light # NoLight => Active(st[r.task])
      BY Zenon DEF EInv, RequestInv, Live, Open
<1>4. Notify(r.task, r.light, s) /\ requests' = requests \ {r} /\ jobs' = jobs
      BY Zenon DEF Reply
<1>5. Quietly \/ Effect(r.task, r.light, s)
      BY <1>1, <1>2, <1>3, <1>4, NotifyEffect, ZenonT(40) DEF EInv
<1>6. InExecution(r.task, r.light)
      BY <1>1, ItemsInExecution, Zenon
<1>7. \A x \in Task : OutLights(x)' = IF x = r.task THEN OutLights(x) \ {r.light} ELSE OutLights(x)
      BY <1>4, RequestGone, Zenon DEF EInv
<1>8. OutFollows(r.task, r.light, s)
  <2>1. requests' \subseteq requests
        BY <1>4, Zenon
  <2> QED
      BY <1>1, <1>2, <1>7, <2>1, EndFollows, ZenonT(60)
<1> QED
    BY <1>1, <1>2, <1>4, <1>5, <1>6, <1>8, LightsStep, ZenonT(60)

(* So does a request that reports what was known when it was prepared.      *)
LEMMA ReportLights ==
    ASSUME EInv, EInv', LInv, ~PrepMayFail, NEW r \in requests, Report(r)
    PROVE  LInv'
<1>1. r.task \in Task /\ r.light \in Nat \cup {NoLight} /\ r.status \in Status /\ r.status # PENDING
      BY Zenon DEF EInv, TypeOK, Request, Report
<1>2. Notify(r.task, r.light, r.status) /\ requests' = requests \ {r} /\ jobs' = jobs
      BY Zenon DEF Report
<1>3. \A x \in Task : OutLights(x)' = IF x = r.task THEN OutLights(x) \ {r.light} ELSE OutLights(x)
      BY <1>2, RequestGone, Zenon DEF EInv
<1>4. RequestInv' /\ requests' \subseteq requests
      BY <1>2, Zenon DEF EInv
<1>5. CASE r.light = NoLight
  <2>1. r.status \in {ERROR, COMPLETED} /\ ~Active(st[r.task]) /\ Ended(st[r.task])
    <3>1. r.status \in {ERROR, COMPLETED} /\ Ended(st[r.task])
      <4>1. Ended(COMPLETED)
            OBVIOUS
      <4> HIDE DEF Ended
      <4> QED
          BY <1>1, <1>5, <4>1, ZenonT(60) DEF EInv, RequestInv
    <3>2. st[r.task] \in Status
          BY <1>1, Zenon DEF EInv, TypeOK
    <3> QED
        BY <3>1, <3>2
  <2>2. Quietly \/ Effect(r.task, r.light, r.status)
        BY <1>1, <1>2, <1>5, <2>1, NotifyEffect, ZenonT(60) DEF EInv, Sent
  <2> SUFFICES ASSUME Live', NEW x \in Task PROVE (Fresh(x) => LightsCounted(x))'
      BY Zenon DEF LInv
  <2>4. Live /\ TypeOK
        BY <2>2, Zenon DEF Quietly, Effect, Live, EInv
  <2>5. NoLight \notin OutLights(x)
        BY LightFinite DEF NoLight, OutLights
  <2>6. OutLights(x)' = OutLights(x)
        BY <1>3, <1>5, <2>5, ZenonT(60)
  <2>7. Fresh(x) => LightsCounted(x)
        BY <2>4, Zenon DEF LInv
  <2>8. CASE x = r.task
    <3>1. Quietly => st'[x] = st[x]
          BY Zenon DEF Quietly, taskvars
    <3>2. Effect(r.task, r.light, r.status) => st'[x] = st[x]
      <4> SUFFICES ASSUME Effect(r.task, r.light, r.status) PROVE st'[x] = st[x]
          BY Zenon
      <4>1. CASE r.status = COMPLETED
        <5>1. st' = [st EXCEPT ![x] = COMPLETED] /\ st \in [Task -> Status]
              BY <1>5, <2>4, <2>8, <4>1, Zenon DEF Effect, TaskCompletes, TypeOK
        <5>2. st[x] = COMPLETED
          <6>1. COMPLETED # ERROR /\ COMPLETED # PENDING
                OBVIOUS
          <6> QED
              BY <1>5, <2>8, <4>1, <6>1, ZenonT(60) DEF EInv, RequestInv
        <5> QED
            BY <5>1, <5>2, Zenon
      <4>2. CASE r.status = ERROR
        <5>1. Neglected(r.task, r.light, r.status)
              BY <1>5, <2>1, <4>2, NotifiedFacts, ZenonT(60) DEF Neglected, Sent
        <5> QED
            BY <1>2, <2>8, <5>1, ZenonT(60) DEF Notify, taskvars
      <4> QED
          BY <2>1, <4>1, <4>2, Zenon
    <3>3. ~Active(st'[x])
          BY <2>1, <2>2, <2>8, <3>1, <3>2, Zenon
    <3> QED
        BY <3>3, Zenon DEF Fresh
  <2>9. CASE x # r.task
    <3>1. Active(st'[x]) => Active(st[x])
          BY <2>2, <2>9 DEF Quietly, Effect, GraphStep, taskvars
    <3>2. rlight'[x] = rlight[x]
          BY <2>2, <2>9, Zenon DEF Quietly, Effect, taskvars
    <3>3. auto'[x] = auto[x] /\ \A k \in LightOf(x) : lst'[<<x, k>>] = lst[<<x, k>>]
          BY <1>1, <1>2, <2>4, <2>9, NotifyFrame, LightKeys, ZenonT(60)
    <3> QED
        BY <1>4, <2>6, <2>7, <3>1, <3>2, <3>3, SameLights, ZenonT(60)
  <2> QED
      BY <2>8, <2>9, Zenon
<1>6. CASE r.light # NoLight
  <2>1. Live => Active(st[r.task])
        BY <1>6, ZenonT(60) DEF EInv, RequestInv, Live, Open
  <2>2. Quietly \/ Effect(r.task, r.light, r.status)
        BY <1>1, <1>2, <1>6, <2>1, NotifyEffect, ZenonT(60) DEF EInv
  <2>3. InExecution(r.task, r.light)
        BY <1>6, ItemsInExecution, Zenon
  <2>4. CASE Live
    <3>1. ~Fresh(r.task)
          BY <1>1, <1>6, <2>4, ZenonT(60) DEF LInv, LightsCounted
    <3>2. OutFollows(r.task, r.light, r.status)
          BY <1>3, <1>4, <3>1, ZenonT(60) DEF OutFollows
    <3> QED
        BY <1>1, <1>2, <2>2, <2>3, <3>2, LightsStep, ZenonT(60)
  <2>5. CASE ~Live
        BY <2>2, <2>5, ZenonT(60) DEF Effect, Quietly, Live, LInv
  <2> QED
      BY <2>4, <2>5, Zenon
<1> QED
    BY <1>5, <1>6, ZenonT(60)

(* A job that ends keeps the counters exact.                                *)
LEMMA JobGoesLights ==
    ASSUME EInv, EInv', LInv, ~PrepMayFail, NEW j \in jobs, NEW s \in Sent \ {RUNNING},
           jobs' = jobs \ {j}, requests' = requests, Notify(j.task, j.light, s)
    PROVE  LInv'
<1>1. j.task \in Task /\ j.light \in Nat \cup {NoLight} /\ s \in Status
      BY DEF EInv, TypeOK, Job, Sent
<1>2. Live /\ j.light # NoLight => Active(st[j.task])
      BY Zenon DEF EInv, JobInv, Live, Open
<1>3. Quietly \/ Effect(j.task, j.light, s)
      BY <1>1, <1>2, NotifyEffect, ZenonT(40) DEF EInv
<1>4. InExecution(j.task, j.light)
      BY ItemsInExecution, Zenon
<1>5. \A x \in Task : OutLights(x)' = IF x = j.task THEN OutLights(x) \ {j.light} ELSE OutLights(x)
      BY JobGone, Zenon DEF EInv
<1>6. OutFollows(j.task, j.light, s)
  <2>1. requests' \subseteq requests /\ s \in Sent /\ s # RUNNING
        BY Zenon
  <2> QED
      BY <1>1, <1>5, <2>1, EndFollows, ZenonT(60)
<1> QED
    BY <1>1, <1>3, <1>4, <1>6, LightsStep, ZenonT(60)

(* So does a job that starts.                                               *)
LEMMA JobStartsLights ==
    ASSUME EInv, EInv', LInv, ~PrepMayFail, NEW j \in jobs, JobStarts(j)
    PROVE  LInv'
<1>1. j.task \in Task /\ j.light \in Nat \cup {NoLight} /\ RUNNING \in Status /\ RUNNING \in Sent
      BY DEF EInv, TypeOK, Job, Sent
<1>2. Live /\ j.light # NoLight => Active(st[j.task])
      BY Zenon DEF EInv, JobInv, Live, Open
<1>3. Notify(j.task, j.light, RUNNING) /\ requests' = requests
      BY Zenon DEF JobStarts
<1>4. Quietly \/ Effect(j.task, j.light, RUNNING)
      BY <1>1, <1>2, <1>3, NotifyEffect, ZenonT(60) DEF EInv
<1>5. InExecution(j.task, j.light)
      BY ItemsInExecution, Zenon
<1>6. \A x \in Task : OutLights(x)' = OutLights(x)
      BY JobMoved, Zenon DEF JobStarts
<1>7. OutFollows(j.task, j.light, RUNNING)
      BY <1>1, <1>3, <1>6, ZenonT(60) DEF OutFollows
<1> QED
    BY <1>1, <1>3, <1>4, <1>5, <1>7, LightsStep, ZenonT(60)

(* oph_workflow_execute: all the light tasks of a first attempt are passed  *)
(* on, and all of them are counted.                                         *)
LEMMA LaunchLights ==
    ASSUME EInv, EInv', LInv, ~PrepMayFail, NEW S, NEW fate, NEW badLight, Launch(S, fate, badLight)
    PROVE  LInv'
<1> SUFFICES ASSUME Live', NEW x \in Task PROVE (Fresh(x) => LightsCounted(x))'
    BY Zenon DEF LInv
<1> DEFINE good == {t \in S : fate[t] = "served"}
           void == {t \in S : fate[t] = "void"}
           failed == {t \in S : fate[t] = "bad"} \cup {t \in S : fate[t] = "wrong"}
           light == {p \in LightTask : p[1] \in good}
           served == {p \in light : ToBeServed(p)}
           newLst == [p \in LightTask |-> IF p \in served THEN PENDING ELSE lst[p]]
           massive == {[task |-> p[1], light |-> p[2], status |-> newLst[p]] : p \in light}
           others == [task : void, light : {NoLight}, status : {COMPLETED}]
                     \cup [task : failed, light : {NoLight}, status : {ERROR}]
                     \cup [task : {t \in good : LightOf(t) = {}}, light : {NoLight}, status : {PENDING}]
<1>u. /\ UNCHANGED <<phase, wstatus, auto, jobs>>
      /\ badLight = {} /\ \A t \in S : fate[t] \in {"served", "void"}
      BY Zenon DEF Launch, Fit
<1>0. Live /\ Open /\ TypeOK /\ RequestInv /\ JobInv /\ RequestInv' /\ (Fresh(x) => LightsCounted(x))
      BY <1>u, Zenon DEF EInv, LInv, Live, Open
<1>p. Prepare(S, fate, {})
      BY <1>u, Zenon DEF Launch
<1>e. /\ good \subseteq Task
      /\ \A t \in good : st[t] = UNKNOWN
      /\ x \notin S => st'[x] = st[x]
      /\ x \in S /\ x \notin good => st'[x] = COMPLETED
  <2>1. Having(S, fate, "bad") = {}
        BY <1>u, Zenon DEF Having
  <2>2. AllBelow(Having(S, fate, "bad")) = {}
        BY <2>1, Zenon DEF AllBelow
  <2>3. Launched(S, fate) /\ S \subseteq Task /\ \A t \in S : st[t] = UNKNOWN
        BY LaunchEffect, Zenon DEF Launch
  <2> QED
      BY <1>u, <2>2, <2>3, ZenonT(60) DEF Launched
<1>q. /\ lst' = newLst
      /\ rlight' = [t \in Task |-> IF t \in good THEN Cardinality(LightOf(t)) ELSE rlight[t]]
      /\ \A r \in requests' : r.light # NoLight => r \in requests \/ r \in massive
      /\ massive \subseteq requests' /\ requests \subseteq requests'
  <2>1. {p \in light : ToBeServed(p)} \ {} = served /\ \A p : p \notin {}
        BY Zenon
  <2>2. lst' = newLst
    <3>1. lst' = [p \in LightTask |-> IF p \in {y \in light : ToBeServed(y)} \ {} THEN PENDING
                                      ELSE IF p \in {} THEN ERROR ELSE lst[p]]
          BY <1>p, Zenon DEF Prepare
    <3> QED
        BY <3>1, Zenon
  <2>3. requests' = requests \cup others \cup massive
    <3> DEFINE full == [p \in LightTask |-> IF p \in {y \in light : ToBeServed(y)} \ {} THEN PENDING
                                            ELSE IF p \in {} THEN ERROR ELSE lst[p]]
    <3>1. full = newLst
          BY Zenon
    <3>2. requests' = requests
             \cup ([task : void, light : {NoLight}, status : {COMPLETED}]
                   \cup [task : failed, light : {NoLight}, status : {ERROR}])
             \cup [task : {t \in good : LightOf(t) = {}}, light : {NoLight}, status : {PENDING}]
             \cup {[task |-> p[1], light |-> p[2], status |-> full[p]] : p \in light}
          BY <1>p, Zenon DEF Prepare
    <3>3. {[task |-> p[1], light |-> p[2], status |-> full[p]] : p \in light} = massive
          BY <3>1, Zenon
    <3> HIDE DEF full, massive
    <3> QED
        BY <3>2, <3>3, Zenon
  <2>4. rlight' = [t \in Task |-> IF t \in good THEN Cardinality(LightOf(t)) ELSE rlight[t]]
        BY <1>p, Zenon DEF Prepare
  <2>5. \A r \in others : r.light = NoLight
        BY Zenon
  <2> HIDE DEF others, massive, newLst, good
  <2> QED
      BY <2>2, <2>3, <2>4, <2>5, ZenonT(60)
<1>m. \A r \in massive : \E p \in light : r.task = p[1] /\ r.light = p[2] /\ r.status = newLst[p]
      OBVIOUS
<1>l. \A p \in light : p[1] \in good /\ p = <<p[1], p[2]>> /\ p \in LightTask
      BY DEF LightTask
<1>g. x \in good => x \in S
      BY Zenon
<1> HIDE DEF good, massive
<1>1. CASE x \notin S
  <2>1. \A r \in massive : r.task # x
        BY <1>m, <1>l, <1>1, <1>g, ZenonT(60)
  <2>2. OutLights(x)' = OutLights(x)
    <3>1. \A l \in LightOf(x) : l # NoLight
          BY LightFinite DEF NoLight
    <3> QED
        BY <1>q, <1>u, <2>1, <3>1, ZenonT(60) DEF OutLights
  <2>3. \A l \in LightOf(x) : lst'[<<x, l>>] = lst[<<x, l>>]
    <3>1. \A l \in LightOf(x) : <<x, l>> \in LightTask /\ <<x, l>> \notin light
          BY <1>1, <1>g, LightKeys, Zenon
    <3> QED
        BY <1>q, <3>1, Zenon
  <2>4. \A r \in requests' : r.task = x /\ r.light # NoLight => r \in requests
        BY <1>q, <2>1, Zenon
  <2>5. rlight'[x] = rlight[x] /\ auto'[x] = auto[x] /\ st'[x] = st[x]
        BY <1>q, <1>u, <1>e, <1>g, <1>1, ZenonT(60)
  <2> QED
      BY <1>0, <2>2, <2>3, <2>4, <2>5, SameLights, ZenonT(60)
<1>2. CASE x \in good
  <2> SUFFICES ASSUME Fresh(x)' PROVE LightsCounted(x)'
      BY Zenon
  <2>1. rlight'[x] = Cardinality(LightOf(x))
        BY <1>q, <1>2, ZenonT(60)
  <2>2. CASE LightOf(x) = {}
    <3>1. rlight'[x] = 0
          BY <2>1, <2>2, FS_EmptySet, ZenonT(60)
    <3> QED
        BY <1>0, <2>2, <3>1, PlainLights, ZenonT(60)
  <2>3. CASE LightOf(x) # {}
    <3>1. ~Retrying(x)
          BY <1>u, <2>3, ZenonT(60) DEF Fresh, Retrying
    <3>2. \A l \in LightOf(x) : <<x, l>> \in light /\ <<x, l>> \in served /\ newLst[<<x, l>>] = PENDING
          BY <1>2, <3>1, LightKeys, ZenonT(60) DEF ToBeServed
    <3>3. \A l \in LightOf(x) : [task |-> x, light |-> l, status |-> newLst[<<x, l>>]] \in requests'
          BY <1>q, <3>2, ZenonT(60) DEF massive
    <3>4. OutLights(x)' = LightOf(x)
          BY <3>3, ZenonT(60) DEF OutLights
    <3>5. \A l \in LightOf(x) : lst'[<<x, l>>] = PENDING
          BY <1>q, <3>2, ZenonT(60)
    <3>6. \A r \in requests : ~(r.task = x /\ r.light # NoLight)
      <4>1. ~Active(st[x])
            BY <1>e, <1>2
      <4> QED
          BY <1>0, <4>1, ZenonT(60) DEF RequestInv
    <3>7. \A r \in massive : r.task = x => r.status = PENDING
      <4> SUFFICES ASSUME NEW r \in massive, r.task = x PROVE r.status = PENDING
          BY Zenon
      <4>1. PICK p \in light : r.task = p[1] /\ r.status = newLst[p]
            BY <1>m, Zenon
      <4>2. p = <<x, p[2]>> /\ p[2] \in LightOf(x)
            BY <1>l, <4>1, ZenonT(60) DEF LightTask
      <4> QED
          BY <3>2, <4>1, <4>2, ZenonT(60)
    <3>8. Active(PENDING)
          OBVIOUS
    <3>9. \A r \in requests' : r.task = x /\ r.light # NoLight => r.status = PENDING
          BY <1>q, <3>6, <3>7, ZenonT(60)
    <3> QED
        BY <2>1, <3>4, <3>5, <3>8, <3>9, ZenonT(60) DEF LightsCounted
  <2> QED
      BY <2>2, <2>3, Zenon
<1>3. CASE x \in S /\ x \notin good
  <2>1. ~Active(COMPLETED)
        OBVIOUS
  <2> HIDE DEF Active
  <2> QED
      BY <1>e, <1>3, <2>1, ZenonT(60) DEF Fresh
<1> QED
    BY <1>1, <1>2, <1>3, ZenonT(60)

(* Every step keeps the counters of the light tasks exact.                  *)
LEMMA LInvStep == EInv /\ EInv' /\ LInv /\ [Next]_vars => LInv'
<1> SUFFICES ASSUME EInv, EInv', LInv, [Next]_vars, ~PrepMayFail PROVE LInv'
    BY Zenon DEF LInv
<1>q. ASSUME UNCHANGED <<phase, wstatus, taskvars>>, requests' \subseteq requests,
             \A x \in Task : OutLights(x)' = OutLights(x)
      PROVE  LInv'
  <2> SUFFICES ASSUME Live', NEW x \in Task PROVE (Fresh(x) => LightsCounted(x))'
      BY Zenon DEF LInv
  <2>1. Fresh(x) => LightsCounted(x)
        BY <1>q, Zenon DEF LInv, Live
  <2> QED
      BY <1>q, <2>1, SameLights, Zenon DEF taskvars
<1>0. ASSUME UNCHANGED <<phase, wstatus, taskvars, requests, jobs>> PROVE LInv'
      BY <1>q, <1>0, Zenon DEF OutLights
<1>1. ASSUME NEW c \in execs, Execute(c) \/ ExecuteDangling(c) PROVE LInv'
      BY <1>0, <1>1, ExecuteLaunches, LaunchLights, ZenonT(60) DEF ExecuteDangling, Launches
<1>s. ASSUME NEW z \in scans, ScanReturns(z) \/ ScanRefused(z) \/ ScanDangling(z) PROVE LInv'
      BY <1>0, <1>s, ReturnLaunches, LaunchLights, ZenonT(60) DEF ScanDangling, Launches
<1>a. ASSUME NEW q \in queries, NEW s \in Answers, ScanEnds(q, s) PROVE LInv'
      BY <1>0, <1>a, ScanAnswers, ZenonT(60) DEF Quietly
<1>n. ASSUME NEW r \in requests, ReportUnheard(r) PROVE LInv'
      BY <1>n, Zenon DEF ReportUnheard
<1>2. ASSUME NEW r \in requests, Submit(r) PROVE LInv'
  <2> DEFINE n == [task |-> r.task, light |-> r.light, state |-> "queued"]
  <2>1. n.task = r.task /\ n.light = r.light /\ requests' = requests \ {r} /\ jobs' = jobs \cup {n}
        BY <1>2, Zenon DEF Submit
  <2> HIDE DEF n
  <2>2. \A x \in Task : OutLights(x)' = OutLights(x)
        BY <2>1, Zenon DEF OutLights
  <2> QED
      BY <1>q, <1>2, <2>1, <2>2, ZenonT(60) DEF Submit
<1>3. ASSUME NEW r \in requests, Report(r) \/ \E s \in Replies : Reply(r, s) PROVE LInv'
      BY <1>3, ReportLights, ReplyLights, ZenonT(60)
<1>4. ASSUME NEW j \in jobs, JobStarts(j) PROVE LInv'
      BY <1>4, JobStartsLights, Zenon
<1>5. ASSUME NEW j \in jobs,
             JobCannotStart(j) \/ (\E s \in Outcomes : JobEnds(j, s)) \/ MonitorAborts(j)
      PROVE  LInv'
  <2>1. \E s \in Sent \ {RUNNING} :
           jobs' = jobs \ {j} /\ requests' = requests /\ Notify(j.task, j.light, s)
        BY <1>5 DEF JobCannotStart, JobEnds, MonitorAborts, Outcomes, Sent
  <2> QED
      BY <2>1, JobGoesLights, Zenon
<1>6. ASSUME NEW j \in jobs, JobDies(j) \/ MonitorMisses(j) PROVE LInv'
  <2>0. /\ UNCHANGED <<phase, wstatus, taskvars, requests>>
        /\ \E v \in {"running", "lost", "missed"} : jobs' = (jobs \ {j}) \cup {[j EXCEPT !.state = v]}
        BY <1>6, JobIsLost, Zenon
  <2>1. \A x \in Task : OutLights(x)' = OutLights(x)
        BY <2>0, JobMoved, Zenon
  <2> QED
      BY <1>q, <2>0, <2>1, ZenonT(60)
<1>7. CASE Close \/ CancelDrops \/ CancelKills \/ \E type \in CancelTypes : Cancel(type)
  <2>1. ~Live'
        BY <1>7 DEF Close, CancelDrops, CancelKills, Cancel, Live
  <2> QED
      BY <2>1, Zenon DEF LInv
<1>8. CASE Quiet \/ UNCHANGED vars
      BY <1>0, <1>8, Zenon DEF Quiet, vars, taskvars
<1> QED
    BY <1>1, <1>s, <1>a, <1>n, <1>2, <1>3, <1>4, <1>5, <1>6, <1>7, <1>8, ZenonT(60) DEF Next

(* As long as every request can be prepared, residual_light_tasks_num of an *)
(* active massive task in its first attempt, of a workflow listed and not   *)
(* cancelled, is the number of its light tasks in execution, in whatever  *)
(* order their requests and jobs are notified.                              *)
THEOREM LightCounterExact == Orderly /\ Spec => [](~PrepMayFail => LightTasksExact)
<1>1. Init => LInv
      BY DEF Init, LInv, Fresh
<1>2. ASSUME EInv, LInv, ~PrepMayFail PROVE LightTasksExact
  <2> SUFFICES ASSUME NEW t \in Task, Active(st[t]), Listening, ~Retrying(t)
               PROVE  rlight[t] = Cardinality({x \in requests \cup jobs : x.task = t /\ x.light # NoLight})
      BY Zenon DEF LightTasksExact
  <2> DEFINE I == {x \in requests \cup jobs : x.task = t /\ x.light # NoLight}
             f == [l \in OutLights(t) |-> CHOOSE x \in I : x.light = l]
  <2>1. Live
        BY <1>2, Zenon DEF Listening, Live
  <2>2. rlight[t] = Cardinality(OutLights(t))
        BY <1>2, <2>1, ZenonT(60) DEF LInv, Fresh, LightsCounted
  <2>3. \A x \in I : x.light \in OutLights(t)
        BY <1>2, Zenon DEF EInv, RequestInv, JobInv, OutLights
  <2>4. \A l \in OutLights(t) : \E x \in I : x.light = l
        BY LightFinite DEF OutLights, NoLight
  <2>5. \A x, y \in I : x.light = y.light => x = y
        BY <1>2, Zenon DEF EInv, Unique, SameKey
  <2> HIDE DEF I
  <2>6. /\ \A l \in OutLights(t) : f[l] \in I /\ f[l].light = l
        /\ \A x \in I : f[x.light] = x
        BY <2>3, <2>4, <2>5, ZenonT(60)
  <2>7. ExistsBijection(OutLights(t), I)
    <3>1. f \in [OutLights(t) -> I]
          BY <2>6, Zenon
    <3> HIDE DEF f
    <3>2. f \in Injection(OutLights(t), I)
          BY <2>6, <3>1 DEF Injection, IsInjective
    <3>3. f \in Surjection(OutLights(t), I)
          BY <2>3, <2>6, <3>1, ZenonT(60) DEF Surjection
    <3> QED
        BY <3>2, <3>3, Zenon DEF ExistsBijection, Bijection
  <2>8. Cardinality(I) = Cardinality(OutLights(t))
        BY <2>7, OutFinite, FS_Bijection, ZenonT(60)
  <2> QED
      BY <2>2, <2>8, Zenon DEF I
<1>3. EInv /\ LInv => (~PrepMayFail => LightTasksExact)
      BY <1>2, Zenon
<1>4. Orderly /\ Spec => []LInv
      BY <1>1, LInvStep, EInvariant, PTL DEF Spec
<1> QED
    BY <1>3, <1>4, EInvariant, PTL

=============================================================================
