------------------------- MODULE EngineOutcomeProofs -------------------------
(***************************************************************************)
(* How a workflow ends, for every workflow and every configuration: the     *)
(* counter of the residual tasks, what a completed workflow means, what is  *)
(* left behind, and the abstract graph of tasks the engine implements.      *)
(***************************************************************************)
EXTENDS WorkflowEngineProofs

USE DEF UNKNOWN, PENDING, RUNNING, COMPLETED, ERROR, START_ERROR, EXECUTE_ERROR, SKIPPED,
        ABORTED, EXPIRED, Status, Active, Ended

(* The task failed by itself: it waited for nothing.                        *)
FailedItself(t) == Ended(st[t]) /\ deps[t] = {} /\ ~Passed(t)

(* The tasks residual_tasks_num counts.                                     *)
Counted == Unended \cup Unreported

(* The tasks the counter still has to count while no task has made the      *)
(* workflow fail: a failure of a request that could not be prepared is not  *)
(* taken off.                                                               *)
Owed == Counted \cup {t \in Task : wstatus <= COMPLETED /\ FailedItself(t) /\ RetryNum[t] # 0}

CountedEnough == Open => residual >= Cardinality(Owed)

CountedExactly == Live /\ ~PrepMayFail => residual = Cardinality(Counted)

CompletedIsOver == wstatus = COMPLETED => phase \in {"dropped", "freed"} /\ residual = 0

(* A task is given up only because of a failure above it.                   *)
GivenUpForAReason ==
    Open => \A t \in Task : st[t] = ABORTED /\ deps[t] # {} =>
                \E f \in Task : t \in Below(f) /\ FailedItself(f)

(* The tasks of one call of oph_workflow_execute belong together.           *)
Together ==
    /\ \A c \in execs : \A x, y \in c.tasks : Siblings(x, y)
    /\ \A z \in scans : \A x, y \in Wanted(z) : Siblings(x, y)

OInv == CountedEnough /\ CountedExactly /\ CompletedIsOver /\ GivenUpForAReason /\ Together

-----------------------------------------------------------------------------
(* The tasks in X leave the residual ones.                                  *)
Leaves(X) ==
    /\ X \subseteq Counted
    /\ residual' = residual - Cardinality(X)
    /\ Owed' \subseteq Owed \ X
    /\ Live /\ ~PrepMayFail => Counted' = Counted \ X

(* The sets of tasks that are counted are finite.                           *)
LEMMA OwedFinite ==
    /\ Unended \subseteq Counted /\ Unreported \subseteq Counted /\ Counted \subseteq Owed /\ Owed \subseteq Task
    /\ \A X \in SUBSET Task : IsFiniteSet(X) /\ Cardinality(X) \in Nat
<1>1. \A X \in SUBSET Task : IsFiniteSet(X) /\ Cardinality(X) \in Nat
      BY TaskAssumption, FS_Subset, FS_CardinalityType, Zenon
<1> QED
    BY <1>1, Zenon DEF Owed, Counted, Unended, Unreported

(* Tasks that leave keep the counters right.                                *)
LEMMA LeavesKeeps ==
    ASSUME TypeOK, CountedEnough, CountedExactly, Open, NEW X, Leaves(X)
    PROVE  residual' >= Cardinality(Owed') /\ (Live /\ ~PrepMayFail => residual' = Cardinality(Counted'))
<1>1. /\ X \subseteq Counted /\ residual' = residual - Cardinality(X) /\ Owed' \subseteq Owed \ X
      /\ Live /\ ~PrepMayFail => Counted' = Counted \ X
      BY Zenon DEF Leaves
<1>2. /\ Counted \subseteq Owed /\ Owed \subseteq Task
      /\ \A Y \in SUBSET Task : IsFiniteSet(Y) /\ Cardinality(Y) \in Nat
      BY OwedFinite, Zenon
<1>3. Cardinality(Owed \ X) = Cardinality(Owed) - Cardinality(X)
  <2>1. Owed \cap X = X /\ IsFiniteSet(Owed)
        BY <1>1, <1>2, Zenon
  <2> QED
      BY <2>1, FS_Difference, ZenonT(60)
<1>4. Cardinality(Counted \ X) = Cardinality(Counted) - Cardinality(X)
  <2>1. Counted \cap X = X /\ IsFiniteSet(Counted)
        BY <1>1, <1>2, Zenon
  <2> QED
      BY <2>1, FS_Difference, ZenonT(60)
<1>5. Cardinality(Owed') <= Cardinality(Owed \ X)
  <2>1. IsFiniteSet(Owed \ X) /\ Owed' \in SUBSET (Owed \ X)
        BY <1>1, <1>2, Zenon
  <2> QED
      BY <2>1, FS_Subset, Zenon
<1>6. /\ Cardinality(Owed) \in Nat /\ Cardinality(X) \in Nat /\ Cardinality(Owed') \in Nat
      /\ residual \in Int
  <2>1. X \in SUBSET Task /\ Owed' \in SUBSET Task /\ Owed \in SUBSET Task
        BY <1>1, <1>2, Zenon
  <2> QED
      BY <1>2, <2>1, Zenon DEF TypeOK
<1>7. /\ residual >= Cardinality(Owed) /\ (Live /\ ~PrepMayFail => residual = Cardinality(Counted))
      BY Zenon DEF CountedEnough, CountedExactly
<1>8. residual' >= Cardinality(Owed')
      BY <1>1, <1>3, <1>5, <1>6, <1>7
<1>9. Live /\ ~PrepMayFail => residual' = Cardinality(Counted')
      BY <1>1, <1>4, <1>7, Zenon
<1> QED
    BY <1>8, <1>9, Zenon

(* No task is left uncounted once the counter is at zero.                   *)
LEMMA NothingOwed ==
    ASSUME residual >= Cardinality(Owed), residual = 0
    PROVE  Owed = {} /\ Unended = {}
<1>1. /\ Unended \subseteq Owed /\ IsFiniteSet(Owed) /\ Cardinality(Owed) \in Nat
      BY OwedFinite, Zenon
<1>2. Cardinality(Owed) = 0
      BY <1>1
<1> QED
    BY <1>1, <1>2, FS_EmptySet, Zenon

-----------------------------------------------------------------------------
(* The tasks that leave in each kind of step.                               *)

(* What a step that ends or moves the task t means for the others.          *)
LEMMA OthersOwed ==
    ASSUME EInv, NEW x \in Task, st'[x] = st[x], deps'[x] = deps[x], x \in Unreported' => x \in Unreported,
           wstatus' <= COMPLETED => wstatus <= COMPLETED
    PROVE  /\ x \in Unended' <=> x \in Unended
           /\ x \in Owed' => x \in Owed
BY Zenon DEF Owed, Counted, Unended, FailedItself, Passed

(* An active task is counted, and nobody reports it as void.                *)
LEMMA ActiveCounted ==
    ASSUME EInv, NEW t \in Task, Active(st[t])
    PROVE  t \in Unended /\ t \in Counted /\ t \in Owed /\ t \notin Unreported
<1>1. st[t] \in Status
      BY Zenon DEF EInv, TypeOK
<1>2. ~Ended(st[t]) /\ st[t] # COMPLETED
      BY <1>1
<1> QED
    BY <1>2, UnreportedFacts, Zenon DEF Unended, Counted, Owed

(* A task that goes on stays among the residual ones.                       *)
LEMMA GoingLeaves ==
    ASSUME EInv, NEW t \in Task, TaskStep(t), Going(t)
    PROVE  Leaves({})
<1>1. /\ Active(st[t]) /\ Active(st'[t]) /\ residual' = residual /\ deps' = deps
      /\ \A x \in Task \ {t} : st'[x] = st[x]
      /\ Unreported' = Unreported
      /\ wstatus' <= COMPLETED => wstatus <= COMPLETED
      BY DEF EInv, TypeOK, TaskStep, Going
<1>2. t \in Unended /\ t \in Unended' /\ t \in Owed /\ t \in Owed'
  <2>1. st[t] \in Status /\ st'[t] \in Status
        BY Zenon DEF EInv, TypeOK, TaskStep, NotifyTypes
  <2>2. ~Ended(st[t]) /\ ~Ended(st'[t])
        BY <1>1, <2>1
  <2> HIDE DEF Ended
  <2> QED
      BY <2>2, Zenon DEF Owed, Counted, Unended
<1>3. \A x \in Task \ {t} : (x \in Unended' <=> x \in Unended) /\ (x \in Owed' => x \in Owed)
      BY <1>1, OthersOwed, Zenon
<1>4. Unended' \subseteq Task /\ Unended \subseteq Task /\ Owed' \subseteq Task
      BY Zenon DEF Unended, Owed, Counted, Unreported
<1>5. Unended' = Unended /\ Owed' \subseteq Owed
      BY <1>2, <1>3, <1>4
<1>6. residual' = residual - Cardinality({})
      BY <1>1, FS_EmptySet DEF EInv, TypeOK
<1> QED
    BY <1>1, <1>5, <1>6, Zenon DEF Leaves, Counted

(* The statuses a step of oph_workflow_notify leads to.                     *)
LEMMA EndStatus ==
    ASSUME EInv, NEW w \in Status, w = wstatus \/ (wstatus < RUNNING /\ w = RUNNING)
    PROVE  w <= COMPLETED => wstatus <= COMPLETED
BY DEF EInv, TypeOK

(* A task that is tried again stays among the residual ones.                *)
LEMMA RetriedLeaves ==
    ASSUME EInv, NEW t \in Task, Active(st[t]), NEW n, NEW w \in Status, Unreported' = Unreported,
           w = wstatus \/ (wstatus < RUNNING /\ w = RUNNING), TaskIsRetried(t, n, w)
    PROVE  Leaves({})
<1>0. st \in [Task -> Status]
      BY Zenon DEF EInv, TypeOK
<1>1. /\ st' = [st EXCEPT ![t] = UNKNOWN] /\ residual' = residual /\ deps' = deps
      /\ wstatus' <= COMPLETED => wstatus <= COMPLETED
      BY EndStatus, Zenon DEF TaskIsRetried
<1>2. t \in Unended /\ t \in Unended' /\ t \in Owed /\ t \in Owed'
  <2>1. t \in Unended'
        BY <1>0, <1>1 DEF Unended
  <2> QED
      BY <2>1, ActiveCounted, Zenon DEF Owed, Counted
<1>3. \A x \in Task \ {t} : (x \in Unended' <=> x \in Unended) /\ (x \in Owed' => x \in Owed)
      BY <1>0, <1>1, OthersOwed, Zenon
<1>4. Unended' \subseteq Task /\ Unended \subseteq Task /\ Owed' \subseteq Task
      BY Zenon DEF Unended, Owed, Counted, Unreported
<1>5. Unended' = Unended /\ Owed' \subseteq Owed
      BY <1>2, <1>3, <1>4
<1>6. residual' = residual - Cardinality({})
      BY <1>1, FS_EmptySet DEF EInv, TypeOK
<1> QED
    BY <1>5, <1>6, Zenon DEF Leaves, Counted

(* A task that fails for good with the workflow leaves alone.               *)
LEMMA FailedLeaves ==
    ASSUME EInv, NEW t \in Task, Active(st[t]), NEW s \in Failures, Unreported' = Unreported,
           TaskFailsAndWorkflowFails(t, s)
    PROVE  Leaves({t})
<1>0. st \in [Task -> Status]
      BY Zenon DEF EInv, TypeOK
<1>1. /\ st' = [st EXCEPT ![t] = s] /\ residual' = residual - 1 /\ wstatus' = ERROR
      BY Zenon DEF TaskFailsAndWorkflowFails
<1>2. Unended' = Unended \ {t}
      BY <1>0, <1>1 DEF Unended, Failures
<1>3. Owed' = Counted'
      BY <1>1 DEF Owed
<1>4. t \in Counted /\ Counted \subseteq Owed /\ t \notin Unreported
      BY ActiveCounted, OwedFinite, Zenon
<1>5. residual' = residual - Cardinality({t})
      BY <1>1, FS_Singleton, Zenon
<1>6. Counted' = Counted \ {t}
      BY <1>2, <1>4, Zenon DEF Counted
<1> QED
    BY <1>3, <1>4, <1>5, <1>6, Zenon DEF Leaves

(* A task that completes, or whose failure is skipped, and a void one that  *)
(* is reported leave alone: no task given up is freed from its dependences, *)
(* because the failure above it stays.                                      *)
LEMMA CompletedLeaves ==
    ASSUME EInv, EInv', GivenUpForAReason, Live, NEW t \in Task, t \in Counted, ~FailedItself(t),
           deps[t] = {}, Unreported' = Unreported \ {t},
           NEW v \in {COMPLETED, SKIPPED, ABORTED}, v = ABORTED => RetryNum[t] < 0,
           NEW w \in Status, w = wstatus \/ (wstatus < RUNNING /\ w = RUNNING),
           TaskCompletes(t, v, w)
    PROVE  Leaves({t})
<1>0. st \in [Task -> Status] /\ deps \in [Task -> SUBSET Task]
      BY ZenonT(60) DEF EInv, TypeOK
<1>1. /\ st' = [st EXCEPT ![t] = v] /\ residual' = residual - 1 /\ deps' = Without(t)
      /\ wstatus' <= COMPLETED => wstatus <= COMPLETED
      BY EndStatus DEF TaskCompletes, EInv, TypeOK
<1>2. Unended' = Unended \ {t} /\ Counted' = Counted \ {t}
  <2>1. Unended' = Unended \ {t}
        BY <1>0, <1>1 DEF Unended
  <2> QED
      BY <2>1, Zenon DEF Counted
<1>3. Unended \subseteq Owed /\ Counted \subseteq Owed
      BY OwedFinite, Zenon
<1>4. t \notin Owed'
  <2>1. Passed(t)' /\ t \notin Counted'
        BY <1>0, <1>1, <1>2, Zenon DEF Passed
  <2> QED
      BY <2>1, Zenon DEF Owed, FailedItself
<1>5. ASSUME NEW x \in Task, x # t, x \in Owed' PROVE x \in Owed
  <2>1. st'[x] = st[x] /\ deps'[x] = deps[x] \ {t}
        BY <1>0, <1>1, <1>5, Zenon DEF Without
  <2>2. CASE deps'[x] = deps[x]
        BY <1>1, <1>5, <2>1, <2>2, OthersOwed, Zenon
  <2>3. CASE x \in Counted'
        BY <1>2, <1>3, <2>3, Zenon
  <2>4. CASE deps'[x] # deps[x] /\ x \notin Counted'
    <3>1. FailedItself(x)'
          BY <1>5, <2>4, Zenon DEF Owed
    <3>2. Ended(st[x]) /\ deps[x] # {} /\ deps'[x] = {}
          BY <2>1, <2>4, <3>1, ZenonT(60) DEF FailedItself
    <3>3. st[x] = ABORTED
          BY <3>2 DEF EInv, DepsInv
    <3>4. PICK f \in Task : x \in Below(f) /\ FailedItself(f)
          BY <3>2, <3>3, Zenon DEF GivenUpForAReason, Live, Open
    <3>5. f # t
          BY <3>4, Zenon
    <3>6. st'[f] = st[f] /\ ~Passed(f)'
          BY <1>0, <1>1, <3>4, <3>5, Zenon DEF FailedItself, Passed
    <3>7. \A d \in Below(f) : deps'[d] # {}
      <4> DEFINE S == {d \in Task : deps'[d] # {}}
      <4>1. Dependents(f) \subseteq S
            BY <3>6, Zenon DEF Dependents, EInv, DepsInv
      <4>2. \A y \in S : Dependents(y) \subseteq S
            BY ZenonT(60) DEF Dependents, EInv, DepsInv
      <4> QED
          BY <4>1, <4>2, Zenon DEF Below
    <3> QED
        BY <3>2, <3>4, <3>7, Zenon
  <2> QED
      BY <2>2, <2>3, <2>4, ZenonT(60)
<1>6. Owed' \subseteq Owed \ {t}
      BY <1>4, <1>5, Zenon DEF Owed, Counted, Unended, Unreported
<1>7. residual' = residual - Cardinality({t})
      BY <1>1, FS_Singleton, Zenon
<1> QED
    BY <1>2, <1>6, <1>7, Zenon DEF Leaves

(* A task that fails with on_error=continue leaves with the tasks below it. *)
LEMMA ContinuedLeaves ==
    ASSUME EInv, NEW t \in Task, Active(st[t]), RetryNum[t] = 0, NEW s \in Failures,
           Unreported' = Unreported,
           NEW w \in Status, w = wstatus \/ (wstatus < RUNNING /\ w = RUNNING),
           TaskFailsAndWorkflowContinues(t, s, w)
    PROVE  \E X \in SUBSET Task : Leaves(X)
<1>0. st \in [Task -> Status] /\ residual \in Int
      BY Zenon DEF EInv, TypeOK
<1> DEFINE A == {x \in AllBelow({t}) : st[x] < COMPLETED}
           X == A \cup {t}
<1>1. /\ st' = AbortBelow([st EXCEPT ![t] = s], {t}) /\ deps' = deps
      /\ residual' = residual - 1 - Cardinality(A)
      /\ wstatus' <= COMPLETED => wstatus <= COMPLETED
  <2>1. /\ st' = AbortBelow([st EXCEPT ![t] = s], {t}) /\ deps' = deps
        /\ residual' = residual - 1 - Cardinality(A)
        BY Zenon DEF TaskFailsAndWorkflowContinues, AbortedBelow
  <2>2. wstatus' = w \/ (wstatus' = COMPLETED /\ w < COMPLETED)
        BY Zenon DEF TaskFailsAndWorkflowContinues
  <2> QED
      BY <2>1, <2>2, EndStatus
<1>2. AllBelow({t}) = Below(t) /\ Below(t) \subseteq Task /\ t \notin Below(t)
      BY BelowType, AcyclicAssumption, Zenon DEF AllBelow
<1>3. /\ st'[t] = s
      /\ \A x \in Below(t) : st'[x] = ABORTED /\ deps[x] # {}
      /\ \A x \in Task \ {t} : x \notin Below(t) => st'[x] = st[x]
  <2>1. ~Passed(t)
        BY <1>0, ActiveNotPassed, Zenon
  <2>2. \A x \in Below(t) : deps[x] # {}
        BY <2>1, BelowWaits, Zenon DEF EInv
  <2> QED
      BY <1>0, <1>1, <1>2, <2>2, Zenon DEF AbortBelow
<1>4. X \subseteq Unended
      BY <1>0, <1>2 DEF Unended
<1>5. Counted' = Counted \ X
  <2>1. \A x \in X : x \notin Unended'
        BY <1>2, <1>3 DEF Unended, Failures
  <2>2. \A x \in Task \ X : x \in Unended' <=> x \in Unended
        BY <1>0, <1>2, <1>3 DEF Unended
  <2>3. Unended \subseteq Task /\ Unended' \subseteq Task
        BY Zenon DEF Unended
  <2>4. Unended' = Unended \ X
        BY <2>1, <2>2, <2>3, ZenonT(60)
  <2>5. \A x \in X : x \notin Unreported
    <3>1. t \notin Unreported
          BY ActiveCounted, Zenon
    <3>2. \A x \in A : x \notin Unreported
          BY <1>2, <1>3, UnreportedFacts, Zenon
    <3> QED
        BY <3>1, <3>2, Zenon
  <2> HIDE DEF X
  <2> QED
      BY <2>4, <2>5, Zenon DEF Counted
<1>6. Owed' \subseteq Owed \ X
  <2> SUFFICES ASSUME NEW x \in Task, x \in Owed' PROVE x \in Owed /\ x \notin X
      BY Zenon DEF Owed, Counted, Unended, Unreported
  <2>1. x \notin Below(t)
    <3>1. ASSUME x \in Below(t) PROVE FALSE
      <4>1. st'[x] = ABORTED /\ deps'[x] # {} /\ x \notin Unreported'
            BY <1>1, <1>3, <3>1, UnreportedFacts, Zenon
      <4> QED
          BY <4>1 DEF Owed, Counted, Unended, FailedItself
    <3> QED
        BY <3>1, Zenon
  <2>2. x # t
    <3>1. t \notin Unreported'
          BY ActiveCounted, Zenon
    <3> QED
        BY <1>3, <3>1 DEF Owed, Counted, Unended, Failures
  <2>3. x \in Owed
        BY <1>1, <1>3, <2>1, <2>2, OthersOwed, ZenonT(60)
  <2> QED
      BY <1>2, <2>1, <2>2, <2>3, Zenon
<1>7. residual' = residual - Cardinality(X)
  <2>1. A \subseteq Task /\ t \notin A
        BY <1>2, Zenon
  <2>2. IsFiniteSet(A) /\ Cardinality(A) \in Nat
        BY <2>1, OwedFinite, Zenon
  <2>3. Cardinality(X) = Cardinality(A) + 1
        BY <2>1, <2>2, FS_AddElement, ZenonT(60)
  <2> QED
      BY <1>0, <1>1, <2>2, <2>3
<1>8. X \in SUBSET Task
      BY <1>2, Zenon
<1> HIDE DEF X
<1> QED
    BY <1>4, <1>5, <1>6, <1>7, <1>8, Zenon DEF Leaves, Counted

(* The reports a call of oph_workflow_execute leaves: those of its void     *)
(* tasks are added.  A call that starts nothing leaves everything as it is. *)
LEMMA LaunchReports ==
    ASSUME EInv, NEW S, NEW fate, NEW badLight, Launch(S, fate, badLight)
    PROVE  Unreported' = Unreported \cup Having(S, fate, "void")
<1> DEFINE good == {t \in S : fate[t] = "served"}
           void == {t \in S : fate[t] = "void"}
           failed == {t \in S : fate[t] = "bad"} \cup {t \in S : fate[t] = "wrong"}
           light == {p \in LightTask : p[1] \in good}
           newLst == [p \in LightTask |->
                      IF p \in {x \in light : ToBeServed(x)} \ badLight THEN PENDING
                      ELSE IF p \in badLight THEN ERROR ELSE lst[p]]
           done == [task : void, light : {NoLight}, status : {COMPLETED}]
           report == [task : failed, light : {NoLight}, status : {ERROR}]
           single == [task : {t \in good : LightOf(t) = {}}, light : {NoLight}, status : {PENDING}]
           massive == {[task |-> p[1], light |-> p[2], status |-> newLst[p]] : p \in light}
<1>1. requests' = requests \cup (done \cup report) \cup single \cup massive
      BY Zenon DEF Launch, Prepare
<1>2. \A p \in light : p[2] # NoLight
  <2>1. \A p \in LightTask : p[2] \in Nat
        BY LightFinite, SMTT(30) DEF LightTask
  <2>2. \A p \in light : p[2] \in Nat
        BY <2>1, Zenon
  <2> QED
      BY <2>2 DEF NoLight
<1>3. ASSUME NEW t \in Task
      PROVE  [task |-> t, light |-> NoLight, status |-> COMPLETED] \notin report \cup single \cup massive
  <2> DEFINE r == [task |-> t, light |-> NoLight, status |-> COMPLETED]
  <2>1. r.light = NoLight /\ r.status = COMPLETED
        BY Zenon
  <2>2. \A x \in report : x.status = ERROR
        BY Zenon
  <2>3. \A x \in single : x.status = PENDING
        BY Zenon
  <2>4. \A x \in massive : x.light # NoLight
    <3> SUFFICES ASSUME NEW p \in light PROVE [task |-> p[1], light |-> p[2], status |-> newLst[p]].light # NoLight
        BY Zenon
    <3>1. [task |-> p[1], light |-> p[2], status |-> newLst[p]].light = p[2]
          BY Zenon
    <3> HIDE DEF light, newLst
    <3> QED
        BY <1>2, <3>1, Zenon
  <2>5. COMPLETED # ERROR /\ COMPLETED # PENDING
        OBVIOUS
  <2> HIDE DEF r, report, single, massive
  <2>6. r \notin report \cup single \cup massive
        BY <2>1, <2>2, <2>3, <2>4, <2>5, Zenon
  <2> QED
      BY <2>6, Zenon DEF r
<1>4. \A t \in Task : [task |-> t, light |-> NoLight, status |-> COMPLETED] \in done <=> t \in void
  <2> SUFFICES ASSUME NEW t \in Task
               PROVE  [task |-> t, light |-> NoLight, status |-> COMPLETED] \in done <=> t \in void
      BY Zenon
  <2>1. [task |-> t, light |-> NoLight, status |-> COMPLETED].task = t
        BY Zenon
  <2>2. \A x \in done : x.task \in void
        BY Zenon
  <2>3. t \in void => [task |-> t, light |-> NoLight, status |-> COMPLETED] \in done
        BY Zenon
  <2> HIDE DEF done
  <2> QED
      BY <2>1, <2>2, <2>3, Zenon
<1>5. void \subseteq Task /\ void = Having(S, fate, "void")
      BY Zenon DEF Launch, Having
<1> HIDE DEF report, single, massive, done, void
<1> QED
    BY <1>1, <1>3, <1>4, <1>5, ZenonT(60) DEF Unreported

LEMMA NothingLaunched ==
    ASSUME EInv, NEW fate, NEW badLight, Launch({}, fate, badLight)
    PROVE  st' = st /\ residual' = residual /\ requests' = requests /\ Unreported' = Unreported
<1>0. st \in [Task -> Status] /\ residual \in Int
      BY Zenon DEF EInv, TypeOK
<1>1. \A f : {t \in {} : fate[t] = f} = {}
      BY Zenon
<1>2. AllBelow({}) = {}
      BY Zenon DEF AllBelow
<1>3. AbortedBelow({}) = 0
      BY <1>2, FS_EmptySet, ZenonT(60) DEF AbortedBelow
<1>4. residual' = residual
  <2>1. residual' = residual - AbortedBelow({})
        BY <1>1, Zenon DEF Launch, Prepare
  <2> QED
      BY <1>0, <1>3, <2>1
<1>5. st' = st
  <2>1. Launched({}, fate)
        BY LaunchEffect, Zenon
  <2>2. Having({}, fate, "bad") = {}
        BY Zenon DEF Having
  <2>3. st' \in [Task -> Status] /\ \A x \in Task : st'[x] = st[x]
        BY <1>2, <2>1, <2>2, Zenon DEF Launched
  <2> QED
      BY <1>0, <2>3
<1>6. requests' = requests
  <2> DEFINE light == {p \in LightTask : p[1] \in {t \in {} : fate[t] = "served"}}
  <2>1. light = {}
        BY Zenon
  <2>2. \E F : requests' = requests
               \cup ([task : {t \in {} : fate[t] = "void"}, light : {NoLight}, status : {COMPLETED}]
                     \cup [task : {t \in {} : fate[t] = "bad"} \cup {t \in {} : fate[t] = "wrong"},
                           light : {NoLight}, status : {ERROR}])
               \cup [task : {t \in {t \in {} : fate[t] = "served"} : LightOf(t) = {}}, light : {NoLight},
                     status : {PENDING}]
               \cup {[task |-> p[1], light |-> p[2], status |-> F[p]] : p \in light}
        BY Zenon DEF Launch, Prepare
  <2>3. \A X : X = {} => [task : X, light : {NoLight}, status : {COMPLETED}] = {}
        BY Zenon
  <2>4. \A X : X = {} => [task : X, light : {NoLight}, status : {ERROR}] = {}
        BY Zenon
  <2>5. \A X : X = {} => [task : X, light : {NoLight}, status : {PENDING}] = {}
        BY Zenon
  <2>6. \A F : {[task |-> p[1], light |-> p[2], status |-> F[p]] : p \in light} = {}
        BY <2>1, Zenon
  <2> QED
      BY <2>2, <2>3, <2>4, <2>5, <2>6, ZenonT(60)
<1> QED
    BY <1>4, <1>5, <1>6, Zenon DEF Unreported

(* A call of oph_workflow_execute: the tasks below a failed preparation     *)
(* leave, the failed tasks themselves stay counted.                         *)
LEMMA LaunchLeaves ==
    ASSUME EInv, NEW S, NEW fate, NEW badLight, Launch(S, fate, badLight)
    PROVE  \E X \in SUBSET Task : Leaves(X)
<1>0. st \in [Task -> Status] /\ residual \in Int
      BY Zenon DEF EInv, TypeOK
<1> DEFINE bad == Having(S, fate, "bad")
           void == Having(S, fate, "void")
           A == {x \in AllBelow(bad) : st[x] < COMPLETED}
<1>e. /\ S \subseteq Task /\ bad \subseteq S /\ void \subseteq S
      /\ \A x \in S : st[x] = UNKNOWN /\ deps[x] = {} /\ fate[x] \in Fates
      /\ \A x \in AllBelow(bad) : x \in Task /\ deps[x] # {} /\ x \notin S
      /\ st' \in [Task -> Status]
      /\ \A x \in S : /\ fate[x] = "served" => Active(st'[x])
                      /\ fate[x] = "void" => st'[x] = COMPLETED
                      /\ fate[x] \in {"wrong", "bad"} => st'[x] = ERROR
      /\ \A x \in Task \ S : \/ x \in AllBelow(bad) /\ st'[x] = ABORTED
                             \/ x \notin AllBelow(bad) /\ st'[x] = st[x]
  <2>1. Launched(S, fate)
        BY LaunchEffect, Zenon
  <2>2. S \subseteq Task /\ \A x \in S : st[x] = UNKNOWN /\ deps[x] = {} /\ fate[x] \in Fates
        BY Zenon DEF Launch
  <2> QED
      BY <2>1, <2>2, Zenon DEF Launched, Having
<1>1. /\ deps' = deps /\ wstatus' = wstatus /\ residual' = residual - Cardinality(A)
  <2>1. residual' = residual - AbortedBelow(bad)
        BY Zenon DEF Launch, Prepare, Having
  <2> QED
      BY <2>1, Zenon DEF Launch, AbortedBelow
<1>r. Unreported' = Unreported \cup void
      BY LaunchReports, Zenon
<1> HIDE DEF bad, void
<1>v. \A x \in S : x \in void <=> fate[x] = "void"
      BY Zenon DEF Having, void
<1>2. A \subseteq Unended /\ \A x \in AllBelow(bad) : x \notin Unreported /\ x \notin Unreported'
  <2>1. A \subseteq Unended
        BY <1>0, <1>e DEF Unended
  <2> QED
      BY <1>e, <1>r, <2>1, UnreportedFacts, Zenon
<1>3. \A x \in S : x \in Unended /\ x \in Owed /\ x \notin A
  <2>1. \A x \in S : x \in Unended
        BY <1>e DEF Unended
  <2> QED
      BY <1>e, <2>1, OwedFinite, Zenon
<1>4. \A x \in Task : x \notin S /\ x \notin AllBelow(bad) =>
          /\ x \in Unended' <=> x \in Unended
          /\ x \in Unreported' <=> x \in Unreported
          /\ x \in Owed' => x \in Owed
  <2> SUFFICES ASSUME NEW x \in Task, x \notin S, x \notin AllBelow(bad)
               PROVE  /\ x \in Unended' <=> x \in Unended
                      /\ x \in Unreported' <=> x \in Unreported
                      /\ x \in Owed' => x \in Owed
      BY Zenon
  <2>1. st'[x] = st[x] /\ deps'[x] = deps[x] /\ wstatus' = wstatus
        BY <1>1, <1>e, Zenon
  <2>2. x \in Unreported' <=> x \in Unreported
        BY <1>e, <1>r, Zenon
  <2> QED
      BY <2>1, <2>2, OthersOwed, Zenon
<1>5. \A x \in AllBelow(bad) : x \notin Owed' /\ x \notin Counted'
  <2> SUFFICES ASSUME NEW x \in AllBelow(bad) PROVE x \notin Owed' /\ x \notin Counted'
      BY Zenon
  <2>1. st'[x] = ABORTED /\ deps'[x] # {} /\ x \notin Unreported'
        BY <1>1, <1>2, <1>e, Zenon
  <2>2. x \notin Unended'
        BY <2>1 DEF Unended
  <2> QED
      BY <2>1, <2>2, Zenon DEF Owed, Counted, FailedItself
<1>6. Owed' \subseteq Owed \ A
  <2>1. Owed' \subseteq Task
        BY Zenon DEF Owed, Counted, Unended, Unreported
  <2>2. \A x \in A : x \in AllBelow(bad)
        BY Zenon
  <2> HIDE DEF A
  <2> QED
      BY <1>3, <1>4, <1>5, <2>1, <2>2, ZenonT(60)
<1>7. ~PrepMayFail => Counted' = Counted \ A
  <2> SUFFICES ASSUME ~PrepMayFail PROVE Counted' = Counted \ A
      BY Zenon
  <2>0. \A x \in S : fate[x] \in {"served", "void"}
        BY Zenon DEF Launch, Fit
  <2>1. AllBelow(bad) = {} /\ A = {}
    <3>1. bad = {}
          BY <2>0, Zenon DEF Having, bad
    <3> QED
        BY <3>1, Zenon DEF AllBelow
  <2>2. \A x \in S : x \in Counted' /\ x \in Counted
    <3> SUFFICES ASSUME NEW x \in S PROVE x \in Counted'
        BY <1>3, Zenon DEF Counted
    <3>1. CASE fate[x] = "served"
      <4>1. x \in Task /\ Active(st'[x]) /\ st'[x] \in Status
            BY <1>e, <3>1, Zenon
      <4>2. x \in Unended'
            BY <4>1 DEF Unended
      <4> QED
          BY <4>2, Zenon DEF Counted
    <3>2. CASE fate[x] = "void"
          BY <1>r, <1>v, <3>2, Zenon DEF Counted
    <3> QED
        BY <2>0, <3>1, <3>2, Zenon
  <2>3. \A x \in Task : x \notin S => (x \in Counted' <=> x \in Counted)
        BY <1>4, <2>1, Zenon DEF Counted
  <2>4. Counted \subseteq Task /\ Counted' \subseteq Task
        BY Zenon DEF Counted, Unended, Unreported
  <2> QED
      BY <2>1, <2>2, <2>3, <2>4, ZenonT(60)
<1>8. A \in SUBSET Task /\ A \subseteq Counted
      BY <1>2, <1>e, Zenon DEF Counted
<1> HIDE DEF A
<1> QED
    BY <1>1, <1>6, <1>7, <1>8, ZenonT(60) DEF Leaves

(* In every step of a workflow that is not cancelled some tasks leave,      *)
(* possibly none.                                                           *)
LEMMA StepLeaves ==
    ASSUME EInv, EInv', GivenUpForAReason, [Next]_vars, Open'
    PROVE  \E X \in SUBSET Task : Leaves(X)
<1>0. residual \in Int /\ wstatus \in Status
      BY Zenon DEF EInv, TypeOK
<1>1. CASE Calm \/ Closing
  <2>1. /\ residual' = residual /\ st' = st /\ deps' = deps
        /\ wstatus' <= COMPLETED => wstatus <= COMPLETED
        BY <1>1, <1>0 DEF Calm, Closing, Close, CancelDrops, Cancel, taskvars
  <2>2. Unreported' \subseteq Unreported /\ (Live /\ ~PrepMayFail => Unreported' = Unreported)
        BY <1>1, Zenon DEF Calm, Closing, Close, CancelDrops, Cancel, Unreported
  <2>3. \A x \in Task : (x \in Unended' <=> x \in Unended) /\ (x \in Owed' => x \in Owed)
        BY <2>1, <2>2, OthersOwed, Zenon
  <2>4. Unended' \subseteq Task /\ Unended \subseteq Task /\ Owed' \subseteq Task
        BY Zenon DEF Unended, Owed, Counted, Unreported
  <2>5. Unended' = Unended \ {} /\ Owed' \subseteq Owed \ {}
        BY <2>3, <2>4, Zenon
  <2>6. residual' = residual - Cardinality({})
        BY <1>0, <2>1, FS_EmptySet
  <2>7. Leaves({})
        BY <2>2, <2>5, <2>6, Zenon DEF Leaves, Counted
  <2> QED
      BY <2>7, Zenon
<1>2. CASE CancelKills
      BY <1>2, Zenon DEF CancelKills, Open, EInv, OverInv
<1>3. ASSUME NEW S, NEW fate, NEW badLight, Launches(S, fate, badLight)
      PROVE  \E X \in SUBSET Task : Leaves(X)
      BY <1>3, LaunchLeaves, Zenon DEF Launches
<1>4. ASSUME NEW t \in Task, TaskStep(t) PROVE \E X \in SUBSET Task : Leaves(X)
  <2>1. Live /\ Active(st[t]) /\ deps[t] = {} /\ (Going(t) \/ Ending(t)) /\ Unreported' = Unreported
        BY <1>4, Zenon DEF TaskStep
  <2>2. CASE Going(t)
        BY <1>4, <2>2, GoingLeaves, Zenon
  <2>3. CASE Ending(t)
    <3>1. PICK w \in Status : (w = wstatus \/ (wstatus < RUNNING /\ w = RUNNING)) /\ EndCase(t, w)
          BY <2>3, Zenon DEF Ending
    <3>2. ASSUME NEW v \in {COMPLETED, SKIPPED, ABORTED}, v = ABORTED => RetryNum[t] < 0,
                 TaskCompletes(t, v, w)
          PROVE  Leaves({t})
      <4>1. t \in Counted /\ ~FailedItself(t) /\ Unreported' = Unreported \ {t}
            BY <2>1, ActiveCounted, Zenon DEF FailedItself, Unended
      <4> QED
          BY <2>1, <3>1, <3>2, <4>1, CompletedLeaves, ZenonT(60)
    <3>3. ASSUME NEW s \in Failures, RetryNum[t] = 0, TaskFailsAndWorkflowContinues(t, s, w)
          PROVE  \E X \in SUBSET Task : Leaves(X)
          BY <2>1, <3>1, <3>3, ContinuedLeaves, ZenonT(60)
    <3>4. ASSUME NEW n \in Int, TaskIsRetried(t, n, w) PROVE Leaves({})
          BY <2>1, <3>1, <3>4, RetriedLeaves, ZenonT(60)
    <3>5. ASSUME NEW s \in Failures, TaskFailsAndWorkflowFails(t, s) PROVE Leaves({t})
          BY <2>1, <3>5, FailedLeaves, ZenonT(60)
    <3> HIDE DEF Ended, Active, Status, COMPLETED, ERROR, ABORTED, SKIPPED
    <3> QED
        BY <3>1, <3>2, <3>3, <3>4, <3>5, ZenonT(60) DEF EndCase
  <2> QED
      BY <2>1, <2>2, <2>3, Zenon
<1>5. ASSUME NEW t \in Task, VoidStep(t) PROVE Leaves({t})
  <2>1. /\ Live /\ t \in Unreported /\ st[t] = COMPLETED /\ deps[t] = {} /\ Unreported' = Unreported \ {t}
        /\ TaskCompletes(t, COMPLETED, wstatus)
        BY <1>5, Zenon DEF VoidStep
  <2>2. t \in Counted /\ ~FailedItself(t)
        BY <2>1, Zenon DEF Counted, FailedItself, Passed
  <2>3. COMPLETED # ABORTED
        OBVIOUS
  <2> QED
      BY <1>0, <2>1, <2>2, <2>3, CompletedLeaves, ZenonT(60)
<1> QED
    BY <1>1, <1>2, <1>3, <1>4, <1>5, StatusSteps, ZenonT(60) DEF StatusStep

-----------------------------------------------------------------------------
(* The invariant is inductive.                                              *)

(* A workflow that has just been submitted.                                 *)
LEMMA InitO == Init => OInv
<1> SUFFICES ASSUME Init PROVE OInv
    BY Zenon
<1>1. Unreported = {}
      BY Zenon DEF Init, Unreported
<1>2. Counted = Task /\ Owed = Task
      BY <1>1 DEF Init, Counted, Unended, Owed, FailedItself
<1>3. Together
  <2>1. [by |-> NoTask, tasks |-> {t \in Task : Deps[t] = {}}].tasks = {t \in Task : Deps[t] = {}}
        BY Zenon
  <2>2. \A c \in execs : c.tasks = {t \in Task : Deps[t] = {}}
        BY <2>1, Zenon DEF Init
  <2>3. \A x, y : Deps[x] = {} /\ Deps[y] = {} => Siblings(x, y)
        BY Zenon DEF Siblings
  <2>4. scans = {}
        BY Zenon DEF Init
  <2> QED
      BY <2>2, <2>3, <2>4, Zenon DEF Together
<1> QED
    BY <1>2, <1>3, OwedFinite DEF Init, OInv, CountedEnough, CountedExactly, CompletedIsOver,
                                  GivenUpForAReason

(* How the workflow leaves the job list, or is declared completed.          *)
WellOver ==
    /\ phase' # "listed" => phase' = "dropped" /\ (residual' = 0 \/ NoneActive(st'))
    /\ wstatus' = COMPLETED => phase' = "dropped" /\ residual' = 0

LEMMA EndOfWorkflow ==
    ASSUME EInv, CompletedIsOver, NEW t \in Task, TaskStep(t) \/ VoidStep(t)
    PROVE  WellOver
<1>0. phase = "listed" /\ wstatus \in Status /\ wstatus # COMPLETED
      BY Zenon DEF EInv, TypeOK, TaskStep, VoidStep, Live, CompletedIsOver
<1>1. CASE Going(t)
      BY <1>0, <1>1 DEF Going, WellOver
<1>c. ASSUME NEW v, NEW w \in Status, w # COMPLETED, TaskCompletes(t, v, w) PROVE WellOver
      BY <1>0, <1>c DEF TaskCompletes, Leave, IsLast, WellOver
<1>2. ASSUME NEW w \in Status, w = wstatus \/ (wstatus < RUNNING /\ w = RUNNING), EndCase(t, w)
      PROVE  WellOver
  <2>0. w # COMPLETED
        BY <1>0, <1>2
  <2>1. ASSUME NEW v, TaskCompletes(t, v, w) PROVE WellOver
        BY <1>c, <2>0, <2>1, Zenon
  <2>2. ASSUME NEW s, TaskFailsAndWorkflowContinues(t, s, w) PROVE WellOver
        BY <1>0, <2>0, <2>2, Zenon DEF TaskFailsAndWorkflowContinues, Leave, IsLast, WellOver
  <2>3. ASSUME NEW n, TaskIsRetried(t, n, w) PROVE WellOver
        BY <1>0, <2>0, <2>3, Zenon DEF TaskIsRetried, WellOver
  <2>4. ASSUME NEW s, TaskFailsAndWorkflowFails(t, s) PROVE WellOver
        BY <1>0, <2>4 DEF TaskFailsAndWorkflowFails, Leave, WellOver
  <2> QED
      BY <1>2, <2>1, <2>2, <2>3, <2>4, ZenonT(60) DEF EndCase
<1>3. CASE VoidStep(t)
      BY <1>0, <1>c, <1>3, Zenon DEF VoidStep
<1>4. CASE TaskStep(t)
      BY <1>1, <1>2, <1>4, Zenon DEF TaskStep, Ending
<1> QED
    BY <1>3, <1>4, Zenon

(* A task is given up for a failure that stays.                             *)
LEMMA ReasonStep ==
    ASSUME EInv, EInv', GivenUpForAReason, [Next]_vars
    PROVE  GivenUpForAReason'
<1> SUFFICES ASSUME Open', NEW t \in Task, st'[t] = ABORTED, deps'[t] # {}
             PROVE  \E f \in Task : t \in Below(f) /\ FailedItself(f)'
    BY Zenon DEF GivenUpForAReason
<1>0. st \in [Task -> Status] /\ deps \in [Task -> SUBSET Task]
      BY Zenon DEF EInv, TypeOK
<1>1. ASSUME st[t] = ABORTED, Open, \A x \in Task : deps'[x] \subseteq deps[x]
      PROVE  \E f \in Task : t \in Below(f) /\ FailedItself(f)'
  <2>0. deps[t] # {}
        BY <1>1, Zenon
  <2>1. PICK f \in Task : t \in Below(f) /\ FailedItself(f)
        BY <1>1, <2>0, Zenon DEF GivenUpForAReason
  <2>2. st'[f] = st[f]
        BY <2>1, EndedKept, Zenon DEF FailedItself
  <2>3. FailedItself(f)'
        BY <1>1, <2>1, <2>2, Zenon DEF FailedItself, Passed
  <2> QED
      BY <2>1, <2>3, Zenon
<1>2. CASE Calm \/ Closing
  <2>1. st' = st /\ deps' = deps /\ Open
        BY <1>2, Zenon DEF Calm, Closing, Close, CancelDrops, Cancel, taskvars, Open
  <2> QED
      BY <1>1, <2>1, Zenon
<1>3. CASE CancelKills
  <2>1. ~Open' 
        BY <1>3, Zenon DEF CancelKills, EInv, OverInv, Open
  <2> QED
      BY <2>1, Zenon
<1>4. ASSUME NEW S, NEW fate, NEW badLight, Launches(S, fate, badLight)
      PROVE  \E f \in Task : t \in Below(f) /\ FailedItself(f)'
  <2> DEFINE bad == Having(S, fate, "bad")
  <2>1. Launch(S, fate, badLight) /\ Launched(S, fate)
        BY <1>4, LaunchEffect, Zenon DEF Launches
  <2>2. /\ S \subseteq Task /\ \A x \in S : deps[x] = {}
        /\ deps' = deps /\ wstatus' = wstatus
        /\ \A x \in bad : x \in S /\ st'[x] = ERROR
        /\ t \notin S /\ t \notin AllBelow(bad) => st'[t] = st[t]
        BY <2>1, Zenon DEF Launch, Launched, Having
  <2>4. t \notin S
        BY <2>2, Zenon
  <2> HIDE DEF bad
  <2>5. CASE t \notin AllBelow(bad)
        BY <1>1, <2>2, <2>4, <2>5, ZenonT(60) DEF Open
  <2>6. CASE t \in AllBelow(bad)
    <3>1. PICK f \in bad : t \in Below(f)
          BY <2>6, Zenon DEF AllBelow
    <3>2. f \in Task /\ st'[f] = ERROR /\ deps'[f] = {}
          BY <2>2, ZenonT(60)
    <3>3. FailedItself(f)'
          BY <3>2 DEF FailedItself, Passed
    <3> QED
        BY <3>1, <3>2, <3>3, Zenon
  <2> QED
      BY <2>5, <2>6, Zenon
<1>5. ASSUME NEW x \in Task, TaskStep(x)
      PROVE  \E f \in Task : t \in Below(f) /\ FailedItself(f)'
  <2>0. /\ Live /\ Active(st[x]) /\ deps[x] = {} /\ GraphStep(x) /\ (Going(x) \/ Ending(x))
        BY <1>5, ZenonT(60) DEF TaskStep
  <2>1. \A y \in Task : deps'[y] \subseteq deps[y]
        BY <1>0, <2>0 DEF GraphStep, Without
  <2>2. t # x
        BY <2>0, <2>1, Zenon
  <2>3. CASE st'[t] = st[t]
        BY <1>1, <2>0, <2>1, <2>3, Zenon DEF Live, Open
  <2>4. CASE st'[t] # st[t]
    <3>1. t \in Below(x)
          BY <2>0, <2>2, <2>4, Zenon DEF GraphStep
    <3>2. ~Going(x)
          BY <2>2, <2>4, Zenon DEF Going
    <3>3. PICK w \in Status : EndCase(x, w)
          BY <2>0, <3>2, Zenon DEF Ending
    <3>4. /\ \A v : ~TaskCompletes(x, v, w)
          /\ \A n : ~TaskIsRetried(x, n, w)
          /\ \A s : ~TaskFailsAndWorkflowFails(x, s)
          BY <1>0, <2>2, <2>4, Zenon DEF TaskCompletes, TaskIsRetried, TaskFailsAndWorkflowFails
    <3>5. PICK s \in Failures : RetryNum[x] = 0 /\ TaskFailsAndWorkflowContinues(x, s, w)
          BY <3>3, <3>4, Zenon DEF EndCase
    <3>6. st' = AbortBelow([st EXCEPT ![x] = s], {x}) /\ deps' = deps
          BY <3>5, Zenon DEF TaskFailsAndWorkflowContinues
    <3>7. st'[x] = s
      <4>1. x \notin AllBelow({x})
            BY AcyclicAssumption, Zenon DEF AllBelow
      <4> QED
          BY <1>0, <3>6, <4>1, ZenonT(60) DEF AbortBelow
    <3>8. FailedItself(x)'
          BY <2>0, <3>5, <3>6, <3>7, SMTT(30) DEF FailedItself, Passed, Failures
    <3> QED
        BY <3>1, <3>8, Zenon
  <2> QED
      BY <2>3, <2>4, Zenon
<1>6. ASSUME NEW x \in Task, VoidStep(x)
      PROVE  \E f \in Task : t \in Below(f) /\ FailedItself(f)'
  <2>1. Live /\ st' = [st EXCEPT ![x] = COMPLETED] /\ deps' = Without(x)
        BY <1>6, Zenon DEF VoidStep, TaskCompletes
  <2>2. st[t] = ABORTED
    <3>1. COMPLETED # ABORTED
          OBVIOUS
    <3> QED
        BY <1>0, <2>1, <3>1, Zenon
  <2>3. \A y \in Task : deps'[y] \subseteq deps[y]
        BY <2>1, Zenon DEF Without
  <2> QED
      BY <1>1, <2>1, <2>2, <2>3, Zenon DEF Live, Open
<1> QED
    BY <1>2, <1>3, <1>4, <1>5, <1>6, StatusSteps, ZenonT(60) DEF StatusStep

(* The tasks of one call belong together: it gets the dependents of a task, *)
(* a task to be tried again, or what is left of its argument after a scan.  *)
LEMMA TogetherStep ==
    ASSUME EInv, Together, [Next]_vars
    PROVE  Together'
<1>s. \A x, y : Siblings(x, y)' <=> Siblings(x, y)
      BY Zenon DEF Siblings
<1>1. ASSUME execs' \subseteq execs, scans' \subseteq scans PROVE Together'
      BY <1>1, <1>s, Zenon DEF Together, Wanted
<1>2. CASE Calm \/ Closing \/ CancelKills
  <2>1. execs' \subseteq execs /\ scans' \subseteq scans
        BY <1>2, Zenon DEF Calm, Shrinks, Closing, Close, CancelDrops, Cancel, CancelKills, scanvars
  <2> QED
      BY <1>1, <2>1, Zenon
<1>3. ASSUME NEW t \in Task, TaskStep(t) \/ VoidStep(t) PROVE Together'
  <2>1. scans' \subseteq scans /\ Calls(t)
        BY <1>3, Zenon DEF TaskStep, VoidStep, Shrinks
  <2>2. \A S : [by |-> t, tasks |-> S].tasks = S
        BY Zenon
  <2>3. \A x, y \in Dependents(t) : Siblings(x, y)
        BY Zenon DEF Dependents, Siblings
  <2>4. \A x, y \in {t} : Siblings(x, y)
        BY Zenon DEF Siblings
  <2>5. \A c \in execs' : \A x, y \in c.tasks : Siblings(x, y)
    <3> SUFFICES ASSUME NEW c \in execs' PROVE \A x, y \in c.tasks : Siblings(x, y)
        BY Zenon
    <3>1. CASE c \in execs
          BY <3>1, Zenon DEF Together
    <3>2. CASE c = [by |-> t, tasks |-> Dependents(t)]
          BY <2>2, <2>3, <3>2, Zenon
    <3>3. CASE c = [by |-> t, tasks |-> {t}]
          BY <2>2, <2>4, <3>3, Zenon
    <3> QED
        BY <2>1, <3>1, <3>2, <3>3, Zenon DEF Calls
  <2> QED
      BY <1>s, <2>1, <2>5, Zenon DEF Together, Wanted
<1>4. ASSUME NEW S, NEW fate, NEW badLight, Launches(S, fate, badLight) PROVE Together'
  <2>1. PICK W \in SUBSET Task : Taken(W, S) /\ \E waiting, asked : Resumes(W, S, waiting, asked)
        BY <1>4, Zenon DEF Launches
  <2>2. PICK waiting, asked : Resumes(W, S, waiting, asked)
        BY <2>1, Zenon
  <2>3. \A x, y \in W : Siblings(x, y)
        BY <2>1, Zenon DEF Taken, Together
  <2>4. execs' \subseteq execs /\ waiting \subseteq scans
        BY <2>2, Zenon DEF Resumes, AloneWith
  <2>5. CASE scans' = waiting
        BY <1>1, <2>4, <2>5, Zenon
  <2>6. ASSUME NEW z, WaitsAgain(W, S, waiting, asked, z) PROVE Together'
    <3>1. scans' = waiting \cup {z} /\ Wanted(z) \subseteq W
          BY <2>6, Zenon DEF WaitsAgain, Wanted
    <3> QED
        BY <1>s, <2>3, <2>4, <3>1, ZenonT(60) DEF Together, Wanted
  <2> QED
      BY <2>2, <2>5, <2>6, Zenon DEF Resumes
<1> QED
    BY <1>2, <1>3, <1>4, StatusSteps, ZenonT(60) DEF StatusStep

(* Nobody becomes open, or live, again.                                     *)
LEMMA NeverAgain ==
    ASSUME EInv, [Next]_vars
    PROVE  (Open' => Open) /\ (Live' => Live)
<1>1. CASE Calm \/ Closing \/ CancelKills
      BY <1>1 DEF Calm, Closing, Close, CancelDrops, Cancel, CancelKills, Open, Live, EInv, TypeOK
<1>2. ASSUME NEW S, NEW fate, NEW badLight, Launches(S, fate, badLight) PROVE (Open' => Open) /\ (Live' => Live)
      BY <1>2, Zenon DEF Launches, Launch, Open, Live
<1>3. ASSUME NEW t \in Task, TaskStep(t) \/ VoidStep(t) PROVE Open /\ Live
      BY <1>3, Zenon DEF TaskStep, VoidStep, Live, Open
<1> QED
    BY <1>1, <1>2, <1>3, StatusSteps, ZenonT(60) DEF StatusStep

(* Every step of the engine keeps the invariant.                            *)
LEMMA OInvStep == EInv /\ EInv' /\ OInv /\ [Next]_vars => OInv'
<1> SUFFICES ASSUME EInv, EInv', OInv, [Next]_vars PROVE OInv'
    BY Zenon
<1>0. /\ CountedEnough /\ CountedExactly /\ CompletedIsOver /\ GivenUpForAReason /\ Together
      /\ TypeOK /\ OverInv
      BY Zenon DEF OInv, EInv
<1>1. GivenUpForAReason' /\ Together'
      BY <1>0, ReasonStep, TogetherStep, Zenon
<1>2. (Open' => Open) /\ (Live' => Live) /\ (Live' => Open')
      BY NeverAgain, Zenon DEF Live, Open
<1>3. ASSUME Open'
      PROVE  residual' >= Cardinality(Owed') /\ (Live /\ ~PrepMayFail => residual' = Cardinality(Counted'))
  <2>1. PICK X \in SUBSET Task : Leaves(X)
        BY <1>0, <1>3, StepLeaves, Zenon
  <2> QED
      BY <1>0, <1>2, <1>3, <2>1, LeavesKeeps, ZenonT(60)
<1>4. CountedEnough' /\ CountedExactly'
      BY <1>2, <1>3, Zenon DEF CountedEnough, CountedExactly
<1>5. CompletedIsOver'
  <2>1. CASE Calm
        BY <1>0, <2>1, Zenon DEF Calm, CompletedIsOver
  <2>2. CASE Closing
        BY <1>0, <2>2 DEF Closing, Close, CancelDrops, Cancel, taskvars, CompletedIsOver
  <2>3. CASE CancelKills
    <3>1. wstatus' = wstatus /\ wstatus >= ABORTED
          BY <1>0, <2>3 DEF CancelKills, OverInv, Open, TypeOK
    <3> QED
        BY <3>1 DEF CompletedIsOver
  <2>4. ASSUME NEW S, NEW fate, NEW badLight, Launches(S, fate, badLight), wstatus' = COMPLETED
        PROVE  phase' \in {"dropped", "freed"} /\ residual' = 0
    <3>1. phase' = phase /\ wstatus' = wstatus /\ Launch(S, fate, badLight)
          BY <2>4, Zenon DEF Launches, Launch
    <3>2. residual = 0 /\ phase \in {"dropped", "freed"} /\ residual >= Cardinality(Owed)
      <4>1. COMPLETED < ABORTED
            OBVIOUS
      <4> QED
          BY <1>0, <2>4, <3>1, <4>1, Zenon DEF CompletedIsOver, CountedEnough, Open
    <3>3. Unended = {}
          BY <3>2, NothingOwed, Zenon
    <3>4. S = {}
      <4>1. \A x \in S : x \in Task /\ st[x] = UNKNOWN
            BY <3>1, Zenon DEF Launch
      <4>2. \A x \in S : x \in Unended
            BY <4>1 DEF Unended
      <4> QED
          BY <3>3, <4>2, Zenon
    <3> QED
        BY <3>1, <3>2, <3>4, NothingLaunched, Zenon
  <2>5. ASSUME NEW t \in Task, TaskStep(t) \/ VoidStep(t) PROVE CompletedIsOver'
        BY <1>0, <2>5, EndOfWorkflow, Zenon DEF CompletedIsOver, WellOver
  <2> QED
      BY <2>1, <2>2, <2>3, <2>4, <2>5, StatusSteps, ZenonT(60) DEF StatusStep, CompletedIsOver
<1> QED
    BY <1>1, <1>4, <1>5, Zenon DEF OInv

(* The invariants hold in every state.                                      *)
LEMMA OInvariant == Orderly /\ Spec => [](EInv /\ OInv)
BY InitE, InitO, EInvStep, OInvStep, PTL DEF Spec

(* When the workflow leaves the list by itself, no task of it is active.    *)
LEMMA LeavesCleanly ==
    ASSUME EInv, EInv', OInv, OInv', NEW t \in Task, TaskStep(t) \/ VoidStep(t), phase' = "dropped"
    PROVE  NoneActive(st')
<1>1. WellOver
      BY EndOfWorkflow, Zenon DEF OInv
<1>2. Open'
      BY Zenon DEF EInv, OverInv
<1>3. ASSUME residual' = 0 PROVE NoneActive(st')
  <2>1. Unended' \subseteq Owed' /\ IsFiniteSet(Owed') /\ Cardinality(Owed') \in Nat
    <3>1. Owed' \in SUBSET Task /\ Unended' \subseteq Owed'
          BY Zenon DEF Owed, Counted, Unended, Unreported
    <3> QED
        BY <3>1, OwedFinite, Zenon
  <2>2. Cardinality(Owed') = 0
    <3>1. residual' >= Cardinality(Owed')
          BY <1>2, Zenon DEF OInv, CountedEnough
    <3> QED
        BY <1>3, <2>1, <3>1
  <2>3. Unended' = {}
        BY <2>1, <2>2, FS_EmptySet, ZenonT(60)
  <2>4. \A x \in Task : st'[x] \in Status /\ Ended(st'[x])
        BY <2>3, Zenon DEF Unended, EInv, TypeOK
  <2> QED
      BY <2>4 DEF NoneActive
<1>4. phase' # "listed"
      BY Zenon
<1> QED
    BY <1>1, <1>3, <1>4, Zenon DEF WellOver

-----------------------------------------------------------------------------
(* The theorems.                                                            *)

(* residual_tasks_num of a workflow that is listed and not cancelled never  *)
(* drops below the number of the tasks that have not ended or whose         *)
(* completion is still to be reported, also when requests cannot be         *)
(* prepared, branches are aborted and tasks are completed without a job: no *)
(* workflow is declared over too early.                                     *)
THEOREM ResidualCounterEnough == Orderly /\ Spec => []ResidualTasksEnough
<1>1. EInv /\ OInv => ResidualTasksEnough
  <2> SUFFICES ASSUME EInv, OInv, Listening PROVE residual >= Cardinality(Counted)
      BY Zenon DEF ResidualTasksEnough, Counted
  <2>1. /\ Counted \in SUBSET Owed /\ IsFiniteSet(Owed)
        /\ Cardinality(Owed) \in Nat /\ Cardinality(Counted) \in Nat
        BY OwedFinite, Zenon
  <2>2. Cardinality(Counted) <= Cardinality(Owed)
        BY <2>1, FS_Subset, ZenonT(60)
  <2>3. residual >= Cardinality(Owed) /\ residual \in Int
        BY Zenon DEF OInv, CountedEnough, EInv, TypeOK, Listening, Open
  <2> QED
      BY <2>1, <2>2, <2>3
<1> QED
    BY OInvariant, <1>1, PTL

(* As long as every request can be prepared, residual_tasks_num of a        *)
(* workflow that is listed and not cancelled is exactly the number of the   *)
(* tasks that have not ended or whose completion, which                     *)
(* oph_workflow_execute sets without the counter, is still to be reported.  *)
THEOREM ResidualCounterExact == Orderly /\ Spec => [](~PrepMayFail => ResidualTasksExact)
<1>1. OInv => (~PrepMayFail => ResidualTasksExact)
      BY ZenonT(60) DEF OInv, CountedExactly, Counted, ResidualTasksExact, Listening, Live
<1> QED
    BY OInvariant, <1>1, PTL

(* A workflow that leaves the job list by itself leaves no request to be    *)
(* submitted and no job, whatever the order of its last notifications; and  *)
(* only a call that was waiting for a scan submits something later.         *)
THEOREM CleanEnd == Orderly /\ Spec => NothingLeftBehind
<1> DEFINE Clean ==
      /\ phase = "listed" /\ phase' = "dropped" => jobs' = {} /\ \A r \in requests' : r.status # PENDING
      /\ phase \in {"dropped", "freed"} /\ requests' \ requests # {} => \E s \in scans : s \notin scans'
<1>1. ASSUME EInv, EInv', OInv, OInv', [Next]_vars, phase = "listed", phase' = "dropped"
      PROVE  jobs' = {} /\ \A r \in requests' : r.status # PENDING
  <2>1. PICK t \in Task : TaskStep(t) \/ VoidStep(t)
    <3>1. ~(Calm \/ Closing \/ CancelKills)
          BY <1>1, Zenon DEF Calm, Closing, Close, CancelDrops, Cancel, CancelKills
    <3>2. \A S, fate, badLight : ~Launches(S, fate, badLight)
          BY <1>1, Zenon DEF Launches, Launch
    <3> QED
        BY <1>1, <3>1, <3>2, StatusSteps, Zenon DEF StatusStep
  <2>2. NoneActive(st') /\ Open'
        BY <1>1, <2>1, LeavesCleanly, Zenon DEF EInv, OverInv
  <2>3. /\ \A j \in jobs' : j.task \in Task /\ Active(st'[j.task])
        /\ \A r \in requests' : r.task \in Task /\ (r.status = PENDING => Active(st'[r.task]))
        BY <1>1, <2>2, ZenonT(60) DEF EInv, JobInv, RequestInv, TypeOK, Job, Request
  <2> QED
      BY <2>2, <2>3, Zenon DEF NoneActive
<1>2. ASSUME EInv, [Next]_vars, phase \in {"dropped", "freed"}, requests' \ requests # {}
      PROVE  \E s \in scans : s \notin scans'
  <2>1. PICK S, fate, badLight : Launches(S, fate, badLight)
    <3>1. ~Calm /\ \A t \in Task : ~TaskStep(t) /\ ~VoidStep(t)
          BY <1>2, Zenon DEF Calm, TaskStep, VoidStep, Shrinks
    <3>2. ~Closing /\ ~CancelKills
          BY <1>2, Zenon DEF Closing, Close, CancelDrops, Cancel, CancelKills
    <3> QED
        BY <1>2, <3>1, <3>2, StatusSteps, Zenon DEF StatusStep
  <2>2. S # {}
        BY <1>2, <2>1, NothingLaunched, Zenon DEF Launches
  <2>3. ~(wstatus < COMPLETED)
        BY <1>2 DEF EInv, OverInv, TypeOK
  <2> QED
      BY <2>1, <2>2, <2>3, Zenon DEF Launches, Taken
<1>3. EInv /\ EInv' /\ OInv /\ OInv' /\ [Next]_vars => [Clean]_vars
      BY <1>1, <1>2, Zenon
<1> QED
    BY OInvariant, <1>3, PTL DEF Spec, NothingLeftBehind

(* A workflow is declared COMPLETED only when every task has passed, has    *)
(* failed with on_error=continue, or was given up for such a failure.       *)
THEOREM CompletedIsDone == Orderly /\ Spec => []CompletedMeansDone
<1>1. EInv /\ OInv => CompletedMeansDone
  <2> SUFFICES ASSUME EInv, OInv, wstatus = COMPLETED, NEW t \in Task, ~Passed(t)
               PROVE  \/ Ended(st[t]) /\ RetryNum[t] = 0
                      \/ /\ st[t] = ABORTED
                         /\ \E f \in Task : t \in Below(f) /\ RetryNum[f] = 0 /\ st[f] > COMPLETED
      BY Zenon DEF CompletedMeansDone
  <2>0. st \in [Task -> Status]
        BY Zenon DEF EInv, TypeOK
  <2>o. Open
        BY DEF Open
  <2>1. residual = 0 /\ residual >= Cardinality(Owed)
        BY <2>o, Zenon DEF OInv, CompletedIsOver, CountedEnough
  <2>2. Owed = {} /\ Unended = {}
        BY <2>1, NothingOwed, Zenon
  <2>3. \A x \in Task : FailedItself(x) => RetryNum[x] = 0
        BY <2>2 DEF Owed
  <2>4. \A x \in Task : Ended(st[x])
        BY <2>2, Zenon DEF Unended
  <2>5. CASE deps[t] = {}
        BY <2>3, <2>4, <2>5, Zenon DEF FailedItself
  <2>6. CASE deps[t] # {}
    <3>1. st[t] = ABORTED
          BY <2>4, <2>6 DEF EInv, DepsInv
    <3>2. PICK f \in Task : t \in Below(f) /\ FailedItself(f)
          BY <2>o, <2>6, <3>1, Zenon DEF OInv, GivenUpForAReason
    <3>3. st[f] > COMPLETED
          BY <2>0, <3>2 DEF FailedItself, Passed
    <3> QED
        BY <2>3, <3>1, <3>2, <3>3, ZenonT(60)
  <2> QED
      BY <2>5, <2>6, Zenon
<1> QED
    BY OInvariant, <1>1, PTL

-----------------------------------------------------------------------------
(* The engine implements the abstract graph of tasks.                       *)

(* The stage of a task.                                                     *)
LEMMA StageFacts ==
    \A s \in Status :
        /\ Stage(s) \in {"todo", "active", "ok", "ko"}
        /\ Stage(s) = "todo" <=> s = UNKNOWN
        /\ Stage(s) = "active" <=> Active(s)
        /\ Stage(s) = "ok" <=> s \in {COMPLETED, SKIPPED}
BY DEF Stage

(* A task below t depends on t, or on another task below t.                 *)
LEMMA BelowHasAbove ==
    ASSUME NEW t \in Task, NEW x \in Below(t)
    PROVE  \E d \in Deps[x] : d = t \/ d \in Below(t)
<1> DEFINE S == {y \in Below(t) : \E d \in Deps[y] : d = t \/ d \in Below(t)}
<1>1. Dependents(t) \subseteq S
      BY Zenon DEF Below, Dependents
<1>2. \A y \in S : Dependents(y) \subseteq S
  <2> SUFFICES ASSUME NEW y \in Below(t), NEW d \in Dependents(y) PROVE d \in S
      BY Zenon
  <2>1. d \in Task /\ y \in Deps[d]
        BY Zenon DEF Dependents
  <2>2. d \in Below(t)
        BY <2>1, Zenon DEF Below
  <2> QED
      BY <2>1, <2>2, Zenon
<1>3. S \subseteq Task
      BY BelowType, Zenon
<1>4. x \in S
      BY <1>1, <1>2, <1>3, Zenon DEF Below
<1> QED
    BY <1>4, Zenon

(* The variables of TaskGraph, and what its steps may do to a task, in      *)
(* terms of the engine.                                                     *)
StageOf(t) == Stage(st[t])
Outcome == IF wstatus >= ABORTED THEN "cancelled" ELSE IF phase = "listed" THEN "open" ELSE "over"

LateTask == {t \in Task : \E x \in Scanned : Siblings(t, x)}
StartsOf(t) ==
    /\ StageOf(t) = "todo" /\ StageOf(t)' \in {"active", "ok", "ko"}
    /\ \A d \in Deps[t] : StageOf(d) = "ok" \/ (RetryNum[d] < 0 /\ StageOf(d) = "ko")
    /\ Outcome = "open" \/ t \in LateTask
GivenUpOf(t) ==
    /\ StageOf(t) = "todo" /\ StageOf(t)' = "ko"
    /\ \E d \in Deps[t] : StageOf(d)' = "ko"

(* Tasks that are started, or given up, make a step Start of TaskGraph.     *)
LEMMA StartMaps ==
    ASSUME TypeOK', Outcome' = Outcome,
           \A t \in Task : StageOf(t)' = StageOf(t) \/ StartsOf(t) \/ GivenUpOf(t)
    PROVE  Graph!Start
BY StageFacts, DepsAssumption, ZenonT(60)
   DEF TypeOK, Outcome, StageOf, StartsOf, LateTask, GivenUpOf, Graph!Start, Graph!StageStep, Graph!Stages, Graph!Stays,
       Graph!Starts, Graph!GivenUp, Graph!Satisfied

(* A task that ends makes a step Finish.                                    *)
LEMMA FinishMaps ==
    ASSUME TypeOK', NEW t \in Task, Outcome = "open", StageOf(t) = "active", StageOf(t)' \in {"ok", "ko"},
           \A x \in Task \ {t} : StageOf(x)' = StageOf(x) \/ GivenUpOf(x),
           Outcome' = Outcome \/ (Outcome' = "over" /\ \A x \in Task : StageOf(x)' # "active")
    PROVE  Graph!Finish(t)
BY StageFacts, DepsAssumption, Zenon
   DEF TypeOK, Outcome, StageOf, GivenUpOf, Graph!Finish, Graph!StageStep, Graph!Stages, Graph!Stays,
       Graph!GivenUp, Graph!MayBeOver

(* The report of a void task makes a step End.                              *)
LEMMA EndMaps ==
    ASSUME Outcome = "open", \A x \in Task : StageOf(x)' = StageOf(x),
           Outcome' = Outcome \/ (Outcome' = "over" /\ \A x \in Task : StageOf(x)' # "active")
    PROVE  Graph!End
BY Zenon DEF Outcome, StageOf, Graph!End, Graph!MayBeOver

(* A task that is tried again makes a step Retry.                           *)
LEMMA RetryMaps ==
    ASSUME NEW t \in Task, Outcome = "open", Outcome' = Outcome, StageOf(t) = "active",
           StageOf(t)' = "todo", \A x \in Task \ {t} : StageOf(x)' = StageOf(x)
    PROVE  Graph!Retry(t)
BY Zenon DEF Outcome, StageOf, Graph!Retry

(* A cancellation makes a step Cancelled.                                   *)
LEMMA CancelledMaps ==
    ASSUME Outcome = "open", Outcome' = "cancelled", \A t \in Task : StageOf(t)' = StageOf(t)
    PROVE  Graph!Cancelled
BY Zenon DEF Outcome, StageOf, Graph!Cancelled

(* The abortion of the tasks of a cancelled workflow makes a step Kill.     *)
LEMMA KillMaps ==
    ASSUME TypeOK', Outcome = "cancelled", Outcome' = Outcome,
           \A t \in Task : StageOf(t)' = StageOf(t) \/ (StageOf(t) = "active" /\ StageOf(t)' = "ko")
    PROVE  Graph!Kill
BY StageFacts, Zenon DEF TypeOK, Outcome, StageOf, Graph!Kill, Graph!StageStep, Graph!Stages, Graph!Stays

(* The other steps leave TaskGraph alone.                                   *)
LEMMA StutterMaps ==
    ASSUME Outcome' = Outcome, \A t \in Task : StageOf(t)' = StageOf(t)
    PROVE  UNCHANGED Graph!gvars
BY Zenon DEF Outcome, StageOf, Graph!gvars

(* A branch that is aborted: what is below t is given up, or was already.   *)
LEMMA BranchGivenUp ==
    ASSUME EInv, EInv', NEW t \in Task, ~Passed(t), StageOf(t)' = "ko",
           \A d \in Below(t) : st'[d] = ABORTED, NEW x \in Below(t)
    PROVE  StageOf(x)' = StageOf(x) \/ GivenUpOf(x)
<1>0. st \in [Task -> Status] /\ x \in Task /\ Below(t) \subseteq Task
      BY BelowType, Zenon DEF EInv, TypeOK
<1>1. deps[x] # {}
      BY BelowWaits, Zenon DEF EInv
<1>2. st[x] \in {UNKNOWN, ABORTED}
      BY <1>0, <1>1, Zenon DEF EInv, DepsInv
<1>3. \A d \in Below(t) : StageOf(d)' = "ko"
      BY StageFacts DEF StageOf, Stage
<1>4. \E d \in Deps[x] : StageOf(d)' = "ko"
      BY <1>3, BelowHasAbove, Zenon
<1>5. st[x] = ABORTED => StageOf(x)' = StageOf(x)
      BY Zenon DEF StageOf
<1>6. st[x] = UNKNOWN => StageOf(x) = "todo"
      BY <1>0, StageFacts, Zenon DEF StageOf
<1> QED
    BY <1>2, <1>3, <1>4, <1>5, <1>6, ZenonT(60) DEF GivenUpOf

(* A call of oph_workflow_execute starts tasks as TaskGraph allows.         *)
LEMMA LaunchMaps ==
    ASSUME EInv, EInv', Together, NEW S, NEW fate, NEW badLight, Launches(S, fate, badLight)
    PROVE  Graph!Start
<1>0. /\ st \in [Task -> Status] /\ st' \in [Task -> Status] /\ wstatus \in Status
      /\ TypeOK' /\ DepsInv /\ OverInv
      BY Zenon DEF EInv, TypeOK
<1>1. Launch(S, fate, badLight) /\ Launched(S, fate)
      BY LaunchEffect, Zenon DEF Launches
<1>2. phase' = phase /\ wstatus' = wstatus /\ Outcome' = Outcome
      BY <1>1, Zenon DEF Launch, Outcome
<1> DEFINE bad == Having(S, fate, "bad")
<1>3. /\ S \subseteq Task /\ bad \subseteq S
      /\ \A x \in S : st[x] = UNKNOWN /\ deps[x] = {} /\ fate[x] \in Fates
      /\ \A x \in AllBelow(bad) : x \in Task /\ x \notin S /\ st'[x] = ABORTED
      /\ \A x \in S : /\ fate[x] = "served" => Active(st'[x])
                      /\ fate[x] = "void" => st'[x] = COMPLETED
                      /\ fate[x] \in {"wrong", "bad"} => st'[x] = ERROR
      /\ \A x \in bad : st'[x] = ERROR
      /\ \A x \in Task : x \notin S /\ x \notin AllBelow(bad) => st'[x] = st[x]
      BY <1>1, Zenon DEF Launch, Launched, Having
<1> HIDE DEF bad
<1>4. \A x \in bad : StageOf(x)' = "ko" /\ ~Passed(x)
  <2>1. \A x \in bad : StageOf(x)' = "ko"
        BY <1>3 DEF StageOf, Stage
  <2>2. \A x \in bad : st[x] = UNKNOWN
        BY <1>3, Zenon
  <2>3. \A x \in bad : ~Passed(x)
        BY <2>2 DEF Passed
  <2> QED
      BY <2>1, <2>3, Zenon
<1>o. ASSUME NEW x \in S PROVE Outcome = "open" \/ x \in LateTask
  <2>1. PICK W \in SUBSET Task : Taken(W, S) /\ \E waiting, asked : Resumes(W, S, waiting, asked)
        BY Zenon DEF Launches
  <2>2. x \in W
        BY <2>1, Zenon DEF Resumes, AloneWith
  <2>3. CASE wstatus < COMPLETED
    <3>1. phase = "listed"
          BY <1>0, <2>3 DEF OverInv, Open, EInv, TypeOK
    <3>2. ~(wstatus >= ABORTED)
          BY <1>0, <2>3
    <3> QED
        BY <3>1, <3>2, ZenonT(60) DEF Outcome
  <2>4. ASSUME NEW z \in scans, W = Wanted(z) PROVE x \in LateTask
    <3>1. z.task \in Scanned /\ z.task \in Wanted(z)
          BY Zenon DEF EInv, CallInv, Wanted
    <3>2. Siblings(x, z.task)
          BY <2>2, <2>4, <3>1, Zenon DEF Together
    <3> QED
        BY <1>3, <3>1, <3>2, Zenon DEF LateTask
  <2> QED
      BY <2>1, <2>3, <2>4, Zenon DEF Taken
<1>5. ASSUME NEW x \in S PROVE StartsOf(x)
  <2>1. \A d \in Deps[x] : Passed(d) /\ d \in Task
        BY <1>0, <1>3, DepsAssumption, Zenon DEF DepsInv
  <2>2. ASSUME NEW d \in Deps[x] PROVE StageOf(d) = "ok" \/ (RetryNum[d] < 0 /\ StageOf(d) = "ko")
    <3>1. Passed(d) /\ StageOf(d) = Stage(st[d]) /\ st[d] \in Status
          BY <1>0, <2>1, Zenon DEF StageOf
    <3>2. Stage(ABORTED) = "ko"
          BY DEF Stage
    <3>3. CASE st[d] \in {COMPLETED, SKIPPED}
          BY <3>1, <3>3, StageFacts, Zenon
    <3>4. CASE RetryNum[d] < 0 /\ st[d] = ABORTED
          BY <3>1, <3>2, <3>4, ZenonT(60)
    <3> QED
        BY <3>1, <3>3, <3>4, ZenonT(60) DEF Passed
  <2>3. StageOf(x) = "todo"
        BY <1>3, StageFacts, SMTT(30) DEF StageOf
  <2>4. StageOf(x)' \in {"active", "ok", "ko"}
    <3>1. st'[x] \in Status /\ st'[x] # UNKNOWN
      <4>1. Active(st'[x]) \/ st'[x] = COMPLETED \/ st'[x] = ERROR
            BY <1>3, Zenon DEF Fates
      <4>2. st'[x] # UNKNOWN
            BY <4>1
      <4> QED
          BY <1>0, <1>3, <4>2, Zenon
    <3> QED
        BY <3>1, StageFacts, ZenonT(60) DEF StageOf
  <2> QED
      BY <1>o, <2>2, <2>3, <2>4, Zenon DEF StartsOf
<1>6. ASSUME NEW x \in AllBelow(bad) PROVE StageOf(x)' = StageOf(x) \/ GivenUpOf(x)
  <2>1. PICK t \in bad : x \in Below(t)
        BY Zenon DEF AllBelow
  <2>2. t \in Task /\ ~Passed(t) /\ StageOf(t)' = "ko"
        BY <1>3, <1>4, ZenonT(60)
  <2>3. \A d \in Below(t) : st'[d] = ABORTED
        BY <1>3, Zenon DEF AllBelow
  <2> QED
      BY <2>1, <2>2, <2>3, BranchGivenUp, ZenonT(60)
<1>7. \A x \in Task : x \notin S /\ x \notin AllBelow(bad) => StageOf(x)' = StageOf(x)
      BY <1>3, Zenon DEF StageOf
<1>8. \A x \in Task : StageOf(x)' = StageOf(x) \/ StartsOf(x) \/ GivenUpOf(x)
      BY <1>5, <1>6, <1>7, ZenonT(60)
<1> QED
    BY <1>0, <1>2, <1>8, StartMaps, ZenonT(60)

(* The report of a void task may end the workflow.                          *)
LEMMA VoidStepMaps ==
    ASSUME EInv, EInv', phase' = "dropped" => NoneActive(st'), NEW t \in Task, VoidStep(t)
    PROVE  Graph!End
<1>0. /\ st \in [Task -> Status] /\ wstatus \in Status /\ wstatus' \in Status /\ st' \in [Task -> Status]
      /\ phase = "listed" /\ wstatus < ABORTED
      BY Zenon DEF EInv, TypeOK, VoidStep, Live
<1>1. st' = st
      BY <1>0, Zenon DEF VoidStep, TaskCompletes
<1>2. phase' \in {"listed", "dropped"} /\ wstatus' \in {COMPLETED, wstatus}
      BY <1>0, Zenon DEF VoidStep, TaskCompletes, Leave
<1>3. Outcome = "open"
      BY <1>0 DEF Outcome
<1>4. ~(wstatus' >= ABORTED)
      BY <1>0, <1>2
<1>5. Outcome' = Outcome \/ (Outcome' = "over" /\ \A x \in Task : StageOf(x)' # "active")
  <2>1. CASE phase' = "listed"
        BY <1>3, <1>4, <2>1, Zenon DEF Outcome
  <2>2. CASE phase' = "dropped"
    <3>1. Outcome' = "over"
          BY <1>4, <2>2, Zenon DEF Outcome
    <3> QED
        BY <1>0, <2>2, <3>1, StageFacts, ZenonT(60) DEF StageOf, NoneActive
  <2> QED
      BY <1>2, <2>1, <2>2, Zenon
<1>6. \A x \in Task : StageOf(x)' = StageOf(x)
      BY <1>1, Zenon DEF StageOf
<1> QED
    BY <1>3, <1>5, <1>6, EndMaps, ZenonT(60)

(* A notification ends a task, or tries it again, as TaskGraph allows.      *)
LEMMA TaskStepMaps ==
    ASSUME EInv, EInv', phase' = "dropped" => NoneActive(st'), NEW t \in Task, TaskStep(t)
    PROVE  Graph!Finish(t) \/ Graph!Retry(t) \/ UNCHANGED Graph!gvars
<1>0. /\ st \in [Task -> Status] /\ st' \in [Task -> Status] /\ wstatus \in Status /\ TypeOK'
      /\ phase = "listed" /\ wstatus < ABORTED /\ Active(st[t])
      /\ phase' \in {"listed", "dropped"}
      BY Zenon DEF EInv, TypeOK, TaskStep, Live, NotifyTypes
<1>1. Outcome = "open" /\ StageOf(t) = "active"
      BY <1>0, StageFacts DEF Outcome, StageOf
<1>2. CASE Going(t)
  <2>1. StageOf(t)' = "active" /\ \A x \in Task \ {t} : StageOf(x)' = StageOf(x)
        BY <1>0, <1>2, StageFacts, ZenonT(60) DEF Going, StageOf
  <2>2. Outcome' = Outcome
        BY <1>0, <1>2 DEF Going, Outcome
  <2> QED
      BY <1>1, <2>1, <2>2, StutterMaps, ZenonT(60)
<1>3. ASSUME NEW w \in Status, w = wstatus \/ (wstatus < RUNNING /\ w = RUNNING), EndCase(t, w)
      PROVE  Graph!Finish(t) \/ Graph!Retry(t)
  <2>1. w < ABORTED
        BY <1>0, <1>3
  <2>2. ASSUME wstatus' < ABORTED
        PROVE  \/ Outcome' = Outcome
               \/ Outcome' = "over" /\ \A x \in Task : StageOf(x)' # "active"
    <3>0. wstatus' \in Status
          BY <1>0, Zenon DEF TypeOK
    <3>1. CASE phase' = "listed"
          BY <1>1, <2>2, <3>0, <3>1 DEF Outcome
    <3>2. CASE phase' = "dropped"
      <4>1. Outcome' = "over"
            BY <2>2, <3>0, <3>2 DEF Outcome
      <4>2. \A x \in Task : ~Active(st'[x])
            BY <3>2, Zenon DEF NoneActive
      <4> QED
          BY <1>0, <4>1, <4>2, StageFacts, ZenonT(60) DEF StageOf
    <3> QED
        BY <1>0, <3>1, <3>2, Zenon
  <2>3. ASSUME NEW v \in {COMPLETED, SKIPPED, ABORTED}, TaskCompletes(t, v, w) PROVE Graph!Finish(t)
    <3>0. st' = [st EXCEPT ![t] = v] /\ wstatus' \in {COMPLETED, w}
          BY <2>3, Zenon DEF TaskCompletes
    <3>1. st' = [st EXCEPT ![t] = v] /\ wstatus' < ABORTED
          BY <2>1, <3>0
    <3>2. StageOf(t)' \in {"ok", "ko"} /\ \A x \in Task \ {t} : StageOf(x)' = StageOf(x)
          BY <1>0, <3>1, StageFacts DEF StageOf
    <3>3. Outcome' = Outcome \/ (Outcome' = "over" /\ \A x \in Task : StageOf(x)' # "active")
          BY <2>2, <3>1, Zenon
    <3> QED
        BY <1>0, <1>1, <3>2, <3>3, FinishMaps, ZenonT(60)
  <2>4. ASSUME NEW s \in Failures, TaskFailsAndWorkflowContinues(t, s, w) PROVE Graph!Finish(t)
    <3>1. st' = AbortBelow([st EXCEPT ![t] = s], {t}) /\ wstatus' < ABORTED
          BY <2>1, <2>4 DEF TaskFailsAndWorkflowContinues
    <3>2. AllBelow({t}) = Below(t) /\ Below(t) \subseteq Task /\ t \notin Below(t)
          BY BelowType, AcyclicAssumption, Zenon DEF AllBelow
    <3>3. /\ st'[t] = s /\ \A x \in Below(t) : st'[x] = ABORTED
          /\ \A x \in Task \ {t} : x \notin Below(t) => st'[x] = st[x]
          BY <1>0, <3>1, <3>2, ZenonT(60) DEF AbortBelow
    <3>4. StageOf(t)' = "ko"
          BY <1>0, <3>3, StageFacts DEF StageOf, Failures
    <3>5. ~Passed(t)
          BY <1>0, ActiveNotPassed, Zenon
    <3>6. \A x \in Below(t) : StageOf(x)' = StageOf(x) \/ GivenUpOf(x)
          BY <3>3, <3>4, <3>5, BranchGivenUp, ZenonT(60)
    <3>7. \A x \in Task \ {t} : StageOf(x)' = StageOf(x) \/ GivenUpOf(x)
          BY <3>3, <3>6, Zenon DEF StageOf
    <3> QED
        BY <1>0, <1>1, <2>2, <3>1, <3>4, <3>7, FinishMaps, ZenonT(60)
  <2>5. ASSUME NEW n, TaskIsRetried(t, n, w) PROVE Graph!Retry(t)
    <3>1. st' = [st EXCEPT ![t] = UNKNOWN] /\ wstatus' < ABORTED /\ wstatus' \in Status /\ phase' = "listed"
          BY <1>0, <2>1, <2>5, Zenon DEF TaskIsRetried
    <3>2. StageOf(t)' = "todo" /\ \A x \in Task \ {t} : StageOf(x)' = StageOf(x)
          BY <1>0, <3>1, StageFacts, ZenonT(60) DEF StageOf
    <3>3. Outcome' = Outcome
          BY <1>1, <3>1 DEF Outcome
    <3> QED
        BY <1>1, <3>2, <3>3, RetryMaps, ZenonT(60)
  <2>6. ASSUME NEW s \in Failures, TaskFailsAndWorkflowFails(t, s) PROVE Graph!Finish(t)
    <3>1. st' = [st EXCEPT ![t] = s] /\ wstatus' < ABORTED
          BY <2>6 DEF TaskFailsAndWorkflowFails
    <3>2. StageOf(t)' \in {"ok", "ko"} /\ \A x \in Task \ {t} : StageOf(x)' = StageOf(x)
          BY <1>0, <3>1, StageFacts DEF StageOf, Failures
    <3>3. Outcome' = Outcome \/ (Outcome' = "over" /\ \A x \in Task : StageOf(x)' # "active")
          BY <2>2, <3>1, Zenon
    <3> QED
        BY <1>0, <1>1, <3>2, <3>3, FinishMaps, ZenonT(60)
  <2> QED
      BY <1>3, <2>3, <2>4, <2>5, <2>6, ZenonT(60) DEF EndCase
<1> QED
    BY <1>2, <1>3, Zenon DEF TaskStep, Ending

(* Every step of the engine is a step of TaskGraph, or leaves it alone.     *)
LEMMA GraphNextStep == EInv /\ EInv' /\ OInv /\ OInv' /\ [Next]_vars => [Graph!GNext]_(Graph!gvars)
<1> SUFFICES ASSUME EInv, EInv', OInv, OInv', [Next]_vars PROVE Graph!GNext \/ UNCHANGED Graph!gvars
    BY Zenon
<1>0. /\ st \in [Task -> Status] /\ st' \in [Task -> Status] /\ wstatus \in Status /\ wstatus' \in Status
      /\ TypeOK' /\ OverInv
      BY Zenon DEF EInv, TypeOK
<1>1. CASE Calm \/ Close \/ CancelDrops
  <2>1. st' = st /\ Outcome' = Outcome
        BY <1>0, <1>1, Zenon DEF Calm, Close, CancelDrops, taskvars, Outcome
  <2> QED
      BY <2>1, StutterMaps, Zenon DEF StageOf
<1>2. ASSUME NEW type \in CancelTypes, Cancel(type) PROVE Graph!GNext
  <2>1. st' = st /\ Outcome = "open" /\ Outcome' = "cancelled"
        BY <1>0, <1>2 DEF Cancel, taskvars, Outcome
  <2> QED
      BY <2>1, CancelledMaps, ZenonT(60) DEF StageOf, Graph!GNext
<1>3. CASE CancelKills
  <2>1. wstatus' = wstatus /\ phase = "aborted"
        BY <1>3, Zenon DEF CancelKills
  <2>2. Outcome = "cancelled" /\ Outcome' = Outcome
    <3>1. wstatus >= ABORTED
          BY <1>0, <2>1 DEF OverInv, Open
    <3> QED
        BY <2>1, <3>1, ZenonT(60) DEF Outcome
  <2>3. \A t \in Task : st'[t] = st[t] \/ (Active(st[t]) /\ st'[t] = ABORTED)
    <3>1. \A s : Aborts(s) => Active(s)
          BY DEF Aborts
    <3>2. st' = st \/ st' = [t \in Task |-> IF Aborts(st[t]) THEN ABORTED ELSE st[t]]
          BY <1>3, ZenonT(60) DEF CancelKills
    <3> QED
        BY <3>1, <3>2, Zenon
  <2>4. \A t \in Task : StageOf(t)' = StageOf(t) \/ (StageOf(t) = "active" /\ StageOf(t)' = "ko")
        BY <1>0, <2>3, StageFacts DEF StageOf
  <2> QED
      BY <1>0, <2>2, <2>4, KillMaps, ZenonT(60) DEF Graph!GNext
<1>4. ASSUME NEW S, NEW fate, NEW badLight, Launches(S, fate, badLight) PROVE Graph!GNext
      BY <1>4, LaunchMaps, Zenon DEF Graph!GNext, OInv
<1>5. ASSUME NEW t \in Task, TaskStep(t) \/ VoidStep(t) PROVE Graph!GNext \/ UNCHANGED Graph!gvars
  <2>1. phase' = "dropped" => NoneActive(st')
        BY <1>5, LeavesCleanly, Zenon
  <2>2. CASE TaskStep(t)
    <3>1. Graph!Finish(t) \/ Graph!Retry(t) \/ UNCHANGED Graph!gvars
          BY <2>1, <2>2, TaskStepMaps, Zenon
    <3> QED
        BY <3>1, Zenon DEF Graph!GNext
  <2>3. CASE VoidStep(t)
        BY <2>1, <2>3, VoidStepMaps, Zenon DEF Graph!GNext
  <2> QED
      BY <1>5, <2>2, <2>3, Zenon
<1> QED
    BY <1>1, <1>2, <1>3, <1>4, <1>5, StatusSteps, ZenonT(60) DEF StatusStep, Closing

(* The engine, with its counters, retries, scans, massive operations, jobs  *)
(* and handlers that overlap, implements the abstract graph of tasks:       *)
(* whatever happens to the tasks of a workflow is what TaskGraph allows.    *)
THEOREM EngineImplementsGraph == Orderly /\ Spec => ImplementsTaskGraph
<1>1. Init => Graph!GInit
      BY StageFacts DEF Init, Graph!GInit
<1> QED
    BY <1>1, OInvariant, GraphNextStep, PTL DEF Spec, ImplementsTaskGraph, Graph!GSpec
=============================================================================
