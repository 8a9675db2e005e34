-------------------------- MODULE TaskLimitsProofs --------------------------
(***************************************************************************)
(* Proofs about the limits on tasks and cores.  The inductive invariant     *)
(* LInv adds to the three properties where a thread can be (Places) and     *)
(* that a request ahead of a thread has not taken a place yet (Fresh).      *)
(* With it, what a request is charged for is what the counter of the cores  *)
(* gains with its place and loses when the place is given back.             *)
(***************************************************************************)
EXTENDS TaskLimits, FiniteSetTheorems, TLAPS

Ahead(h) == {i \in 1 .. Len(Batch[h]) : i > at[h]}

(* A thread that waits or has a place is about a request of its own.        *)
Places ==
    \A h \in Thread :
        /\ at[h] <= Len(Batch[h])
        /\ pc[h] # "call" => Busy(h)

(* Only the request a thread is passing on can have taken a place already.  *)
Fresh ==
    \A h \in Thread : \A i \in Ahead(h) :
        Batch[h][i] \in owed => i = at[h] + 1 /\ pc[h] \in {"placed", "scanning"}

LInv ==
    /\ TypeOK /\ Places /\ Fresh
    /\ CountersWithinLimits /\ PlacesAccounted /\ SleepsForGoodReason

(* What oph_workflow_notify leaves behind: pc' is next but for the threads  *)
(* the broadcast wakes, and a thread still asleep sees the same counters.   *)
Notified(next) ==
    /\ task_running' \in Nat /\ core_running' \in Nat /\ extra' \in Nat
    /\ owed' \subseteq owed /\ uneven' \subseteq Request
    /\ pc' \in [Thread -> PcStates]
    /\ \A h \in Thread : pc'[h] = next[h] \/ (next[h] = "asleep" /\ pc'[h] = "call")
    /\ \A h \in Thread : pc'[h] = "asleep" =>
         task_running' = task_running /\ core_running' = core_running
    /\ CountersWithinLimits' /\ PlacesAccounted'

(* The request a thread is at is one of the requests.                       *)
LEMMA CurrentIsRequest ==
    ASSUME TypeOK, NEW h \in Thread, Busy(h)
    PROVE  Current(h) \in Request /\ at[h] + 1 \in Ahead(h)
<1>1. Batch[h] \in Seq(Request) /\ at[h] \in Nat /\ at[h] < Len(Batch[h]) /\ Len(Batch[h]) \in Nat
      BY BatchAssumption DEF TypeOK, Busy
<1>2. at[h] + 1 \in 1 .. Len(Batch[h])
      BY <1>1
<1> QED
    BY <1>1, <1>2 DEF Current, Ahead

(* The history of the places is a finite set.                               *)
LEMMA OwedFinite ==
    ASSUME TypeOK
    PROVE  IsFiniteSet(owed) /\ Cardinality(owed) \in Nat
BY RequestAssumption, FS_Subset, FS_CardinalityType, Zenon DEF TypeOK

(* "Update limits" of oph_workflow_notify keeps the counters meaningful.    *)
LEMMA NotifyLeaves ==
    ASSUME LInv, NEW r \in Request, NEW next \in [Thread -> PcStates],
           NotifyEnd(r, next)
    PROVE  Notified(next)
<1>t. /\ task_running \in Nat /\ core_running \in Nat /\ extra \in Nat
      /\ Returned(r) \in Nat /\ TaskLimit \in Nat /\ CoreLimit \in Nat
      /\ uneven \subseteq Request
      BY RequestAssumption, LimitAssumption, Zenon DEF LInv, TypeOK, Returned
<1>c. CountersWithinLimits /\ PlacesAccounted
      BY Zenon DEF LInv
<1>1. CASE Of[TaskOf[r]] \notin listed \/ TaskOf[r] \in Known
  <2>1. /\ pc' = next /\ task_running' = task_running /\ core_running' = core_running
        /\ owed' = owed /\ extra' = extra /\ uneven' = uneven
        BY <1>1, Zenon DEF NotifyEnd
  <2> QED
      BY <2>1, <1>t, <1>c, Zenon DEF Notified, CountersWithinLimits, PlacesAccounted
<1>2. CASE Of[TaskOf[r]] \in listed /\ TaskOf[r] \notin Known
  <2>1. /\ task_running' = TasksAfter(r) /\ core_running' = CoresAfter(r)
        /\ pc' = Broadcast(TasksAfter(r), CoresAfter(r), next)
        /\ owed' = owed \ {r} /\ extra' = IF r \in owed THEN extra ELSE extra + 1
        /\ uneven' \subseteq uneven \cup {r}
        BY <1>2, Zenon DEF NotifyEnd
  <2>2. /\ task_running' \in Nat /\ core_running' \in Nat /\ extra' \in Nat
        /\ task_running' <= task_running /\ core_running' <= core_running
        /\ TaskLimit > 0 => task_running' = IF task_running > 0 THEN task_running - 1 ELSE 0
        BY <2>1, <1>t DEF TasksAfter, CoresAfter
  <2>3. CountersWithinLimits'
        BY <2>2, <1>t, <1>c DEF CountersWithinLimits
  <2>4. PlacesAccounted'
    <3>1. Cardinality(owed) \in Nat /\ Cardinality(owed') \in Nat
          /\ Cardinality(owed') = IF r \in owed THEN Cardinality(owed) - 1 ELSE Cardinality(owed)
          BY <2>1, OwedFinite, FS_RemoveElement, FS_CardinalityType, Zenon DEF LInv
    <3> QED
        BY <3>1, <2>1, <2>2, <1>t, <1>c DEF PlacesAccounted
  <2>5. /\ pc' \in [Thread -> PcStates]
        /\ \A h \in Thread : pc'[h] = next[h] \/ (next[h] = "asleep" /\ pc'[h] = "call")
        /\ \A h \in Thread : pc'[h] = "asleep" =>
             task_running' = task_running /\ core_running' = core_running
        BY <2>1, Zenon DEF Broadcast, PcStates
  <2>6. uneven' \subseteq Request
        BY <2>1, <1>t, Zenon
  <2> QED
      BY <2>6, <2>1, <2>2, <2>3, <2>4, <2>5, Zenon DEF Notified
<1> QED
    BY <1>1, <1>2, Zenon

(* A thread done with a request goes on to the next one of its batch.       *)
LEMMA GoesOn ==
    ASSUME LInv, NEW h \in Thread, Busy(h), Advance(h), owed' \subseteq owed,
           pc' \in [Thread -> PcStates], pc'[h] = "call",
           \A g \in Thread \ {h} : pc'[g] = pc[g] \/ (pc[g] = "asleep" /\ pc'[g] = "call"),
           \A g \in Thread : pc'[g] = "asleep" =>
             task_running' = task_running /\ core_running' = core_running
    PROVE  at' \in [Thread -> Nat] /\ Places' /\ Fresh' /\ SleepsForGoodReason'
<1>t. /\ at \in [Thread -> Nat] /\ pc \in [Thread -> PcStates]
      /\ \A g \in Thread : Len(Batch[g]) \in Nat
      BY BatchAssumption DEF LInv, TypeOK
<1>a. /\ at' \in [Thread -> Nat] /\ at'[h] = at[h] + 1
      /\ \A g \in Thread \ {h} : at'[g] = at[g]
      BY <1>t DEF Advance
<1>b. at[h] < Len(Batch[h])
      BY Zenon DEF Busy
<1>1. Places'
  <2> SUFFICES ASSUME NEW g \in Thread
               PROVE  /\ at'[g] <= Len(Batch[g])
                      /\ pc'[g] # "call" => at'[g] < Len(Batch[g])
      BY Zenon DEF Places, Busy
  <2>1. CASE g = h
        BY <2>1, <1>t, <1>a, <1>b
  <2>2. CASE g # h
        BY <2>2, <1>t, <1>a, Zenon DEF LInv, Places, Busy
  <2> QED
      BY <2>1, <2>2, Zenon
<1>2. Fresh'
  <2> SUFFICES ASSUME NEW g \in Thread, NEW i \in 1 .. Len(Batch[g]), i > at'[g], Batch[g][i] \in owed'
               PROVE  i = at'[g] + 1 /\ pc'[g] \in {"placed", "scanning"}
      BY Zenon DEF Fresh, Ahead
  <2>0. at'[g] \in {at[g], at[g] + 1} /\ at[g] \in Nat /\ Len(Batch[g]) \in Nat
        BY <1>t, <1>a, Zenon
  <2>1. i > at[g]
        BY <2>0
  <2>5. i \in Ahead(g) /\ Batch[g][i] \in owed
        BY <2>1, Zenon DEF Ahead
  <2>2. i = at[g] + 1 /\ pc[g] \in {"placed", "scanning"}
        BY <2>5, Zenon DEF LInv, Fresh
  <2>3. g # h
        BY <2>0, <2>2, <1>a
  <2>4. pc'[g] = pc[g]
        BY <2>2, <2>3, Zenon
  <2> QED
      BY <2>2, <2>3, <2>4, <1>a, Zenon
<1>3. SleepsForGoodReason'
  <2> SUFFICES ASSUME NEW g \in Thread, pc'[g] = "asleep"
               PROVE  ~Room(Current(g))'
      BY Zenon DEF SleepsForGoodReason
  <2>1. g # h /\ pc[g] = "asleep" /\ at'[g] = at[g]
        /\ task_running' = task_running /\ core_running' = core_running
        BY <1>a, Zenon
  <2>2. ~Room(Current(g))
        BY <2>1, Zenon DEF LInv, SleepsForGoodReason
  <2> QED
      BY <2>1, <2>2, Zenon DEF Room, Current, Charged, IsScan
<1> QED
    BY <1>a, <1>1, <1>2, <1>3, Zenon

(* Where the threads, the counters and the history stay, so does LInv.      *)
LEMMA LStutter ==
    ASSUME LInv, TypeOK',
           UNCHANGED <<task_running, core_running, at, pc, owed, extra>>
    PROVE  LInv'
BY Zenon DEF LInv, Places, Fresh, Ahead, Busy, Current, CountersWithinLimits, PlacesAccounted,
       SleepsForGoodReason, Room, Charged, IsScan

(* The empty server satisfies the invariant.                                *)
LEMMA LInit ==
    Init => LInv
<1> SUFFICES ASSUME Init PROVE LInv
    BY Zenon
<1>1. \A h \in Thread : Len(Batch[h]) \in Nat
      BY BatchAssumption
<1>2. TypeOK /\ Places /\ Fresh /\ SleepsForGoodReason
  <2>1. PICK idle : at = [h \in Thread |-> IF h \in idle THEN Len(Batch[h]) ELSE 0]
        BY Zenon DEF Init
  <2>2. at \in [Thread -> Nat] /\ \A h \in Thread : at[h] <= Len(Batch[h])
        BY <2>1, <1>1
  <2>3. pc = [h \in Thread |-> "call"] /\ owed = {}
        BY Zenon DEF Init
  <2>4. TypeOK
        BY <2>2, <2>3 DEF Init, TypeOK, PcStates, JobStates
  <2> QED
      BY <2>2, <2>3, <2>4, Zenon DEF Places, Fresh, SleepsForGoodReason
<1>3. CountersWithinLimits /\ PlacesAccounted
      BY FS_EmptySet, LimitAssumption DEF Init, CountersWithinLimits, PlacesAccounted
<1> QED
    BY <1>2, <1>3, Zenon DEF LInv

(* A request answered at once, or whose submission fails, keeps LInv.       *)
LEMMA AnsweredKeeps ==
    ASSUME LInv, NEW h \in Thread, Busy(h), pc[h] # "asleep",
           NotifyEnd(Current(h), [pc EXCEPT ![h] = "call"]), Advance(h),
           UNCHANGED <<listed, job, sent, monitored>>
    PROVE  LInv'
<1> DEFINE next == [pc EXCEPT ![h] = "call"]
<1>t. pc \in [Thread -> PcStates]
      BY Zenon DEF LInv, TypeOK
<1>n. /\ next \in [Thread -> PcStates]
      /\ next[h] = "call" /\ \A g \in Thread \ {h} : next[g] = pc[g]
      BY <1>t, Zenon DEF PcStates
<1>r. Current(h) \in Request
      BY CurrentIsRequest, Zenon DEF LInv
<1> HIDE DEF next
<1>1. NotifyEnd(Current(h), next)
      BY Zenon DEF next
<1>2. Notified(next)
      BY <1>1, <1>n, <1>r, NotifyLeaves, Zenon
<1>3. /\ pc' \in [Thread -> PcStates] /\ owed' \subseteq owed
      /\ pc'[h] = "call"
      /\ \A g \in Thread \ {h} : pc'[g] = pc[g] \/ (pc[g] = "asleep" /\ pc'[g] = "call")
      /\ \A g \in Thread : pc'[g] = "asleep" =>
           task_running' = task_running /\ core_running' = core_running
      BY <1>2, <1>n, Zenon DEF Notified
<1>4. at' \in [Thread -> Nat] /\ Places' /\ Fresh' /\ SleepsForGoodReason'
      BY <1>3, GoesOn, Zenon
<1>5. TypeOK'
      BY <1>2, <1>4, Zenon DEF Notified, LInv, TypeOK
<1> QED
    BY <1>2, <1>4, <1>5, Zenon DEF Notified, LInv

(* A notification that comes from outside keeps LInv.                       *)
LEMMA DeliverKeeps ==
    ASSUME LInv, NEW n \in sent, Deliver(n)
    PROVE  LInv'
<1>t. /\ n[1] \in Request /\ pc \in [Thread -> PcStates]
      /\ sent \subseteq Request \X {"job", "monitor"} /\ job \in [Request -> JobStates]
      BY Zenon DEF LInv, TypeOK, PcStates, JobStates
<1>1. NotifyEnd(n[1], pc) /\ sent' = sent \ {n} /\ UNCHANGED <<listed, at, monitored>>
      /\ job' \in {job, [job EXCEPT ![n[1]] = "answered"]}
      BY Zenon DEF Deliver
<1>j. job' \in [Request -> JobStates]
      BY <1>1, <1>t, Zenon DEF JobStates
<1>2. Notified(pc)
      BY <1>t, <1>1, NotifyLeaves, Zenon
<1>3. TypeOK'
      BY <1>t, <1>1, <1>2, <1>j, Zenon DEF Notified, LInv, TypeOK, PcStates, JobStates
<1>4. Places'
      BY <1>1, <1>2, Zenon DEF Notified, LInv, Places, Busy, Current
<1>5. Fresh'
      BY <1>1, <1>2, Zenon DEF Notified, LInv, Fresh, Ahead
<1>6. SleepsForGoodReason'
      BY <1>1, <1>2, Zenon DEF Notified, LInv, SleepsForGoodReason, Room, Current, Charged, IsScan
<1> QED
    BY <1>2, <1>3, <1>4, <1>5, <1>6, Zenon DEF Notified, LInv

(* Taking a place under the lock keeps LInv.                                *)
LEMMA TakePlaceKeeps ==
    ASSUME LInv, NEW h \in Thread, TakePlace(h)
    PROVE  LInv'
<1> DEFINE r == Current(h)
<1>b. Busy(h) /\ pc[h] = "call" /\ Room(r)
      BY Zenon DEF TakePlace, Limited
<1>r. r \in Request /\ at[h] + 1 \in Ahead(h) /\ r = Batch[h][at[h] + 1]
      BY <1>b, CurrentIsRequest, Zenon DEF LInv, Current
<1>f. r \notin owed
      BY <1>b, <1>r, Zenon DEF LInv, Fresh
<1> HIDE DEF r
<1>t. /\ task_running \in Nat /\ core_running \in Nat /\ extra \in Nat
      /\ Ncores[r] \in Nat /\ TaskLimit \in Nat /\ CoreLimit \in Nat
      /\ pc \in [Thread -> PcStates] /\ at \in [Thread -> Nat]
      BY <1>r, RequestAssumption, LimitAssumption, Zenon DEF LInv, TypeOK
<1>1. /\ task_running' = IF TaskLimit > 0 THEN task_running + 1 ELSE task_running
      /\ core_running' = IF CoreLimit > 0 THEN core_running + Charged(r) ELSE core_running
      /\ pc' = [pc EXCEPT ![h] = "placed"] /\ owed' = owed \cup {r}
      /\ UNCHANGED <<listed, at, job, sent, monitored, extra, uneven>>
      BY Zenon DEF TakePlace, r
<1>c. Charged(r) \in Nat /\ Charged(r) >= 1
      BY <1>t DEF Charged
<1>2. TypeOK'
      BY <1>1, <1>t, <1>r, <1>c DEF LInv, TypeOK, PcStates
<1>3. Places'
      BY <1>1, <1>b, <1>t, Zenon DEF LInv, Places, Busy, r
<1>4. Fresh'
  <2> SUFFICES ASSUME NEW g \in Thread, NEW i \in Ahead(g), Batch[g][i] \in owed \cup {r}
               PROVE  i = at[g] + 1 /\ pc'[g] \in {"placed", "scanning"}
      BY <1>1, Zenon DEF Fresh, Ahead
  <2>1. CASE Batch[g][i] \in owed
        BY <2>1, <1>1, <1>t, Zenon DEF LInv, Fresh
  <2>2. CASE Batch[g][i] = r
    <3>1. g = h /\ i = at[h] + 1
          BY <2>2, <1>r, BatchAssumption, Zenon DEF Ahead
    <3> QED
        BY <3>1, <1>1, <1>t, Zenon
  <2> QED
      BY <2>1, <2>2, Zenon
<1>5. CountersWithinLimits'
      BY <1>1, <1>b, <1>t, <1>c DEF LInv, CountersWithinLimits, Room
<1>6. PlacesAccounted'
  <2>1. Cardinality(owed') = Cardinality(owed) + 1 /\ Cardinality(owed) \in Nat
        BY <1>1, <1>f, OwedFinite, FS_AddElement, Zenon DEF LInv
  <2> QED
      BY <2>1, <1>1, <1>t DEF LInv, PlacesAccounted
<1>7. SleepsForGoodReason'
  <2> SUFFICES ASSUME NEW g \in Thread, pc'[g] = "asleep"
               PROVE  ~Room(Current(g))'
      BY Zenon DEF SleepsForGoodReason
  <2>1. pc[g] = "asleep"
        BY <1>1, <1>t, Zenon
  <2>2. ~Room(Current(g)) /\ Current(g) \in Request
        BY <2>1, CurrentIsRequest, Zenon DEF LInv, SleepsForGoodReason, Places
  <2>3. Charged(Current(g)) \in Nat /\ Charged(Current(g))' = Charged(Current(g))
        BY <2>2, <1>1, RequestAssumption, Zenon DEF Charged, Current
  <2> QED
      BY <2>2, <2>3, <1>1, <1>t, <1>c DEF Room
<1> QED
    BY <1>2, <1>3, <1>4, <1>5, <1>6, <1>7, Zenon DEF LInv

(* A thread that falls asleep, wakes up, submits or has its scan refused or *)
(* answered keeps LInv.                                                     *)
LEMMA ThreadKeeps ==
    ASSUME LInv, NEW h \in Thread,
           WaitForPlace(h) \/ WakesUp(h) \/ Submits(h) \/ ScanFails(h) \/ ScanReturns(h)
    PROVE  LInv'
<1>t. /\ pc \in [Thread -> PcStates] /\ at \in [Thread -> Nat]
      /\ job \in [Request -> JobStates]
      BY Zenon DEF LInv, TypeOK
<1>1. CASE WaitForPlace(h)
  <2>1. /\ Busy(h) /\ pc[h] = "call" /\ ~Room(Current(h))
        /\ pc' = [pc EXCEPT ![h] = "asleep"]
        /\ UNCHANGED <<task_running, core_running, listed, at, job, sent, monitored, owed, extra,
                       uneven>>
        BY <1>1, Zenon DEF WaitForPlace, Limited
  <2>2. TypeOK' /\ Places'
        BY <2>1, <1>t, Zenon DEF LInv, TypeOK, PcStates, Places, Busy, Current
  <2>3. Fresh'
        BY <2>1, <1>t, Zenon DEF LInv, Fresh, Ahead
  <2>4. CountersWithinLimits' /\ PlacesAccounted'
        BY <2>1, Zenon DEF LInv, CountersWithinLimits, PlacesAccounted
  <2>5. SleepsForGoodReason'
        BY <2>1, <1>t, Zenon DEF LInv, SleepsForGoodReason, Room, Current, Charged, IsScan
  <2> QED
      BY <2>2, <2>3, <2>4, <2>5, Zenon DEF LInv
<1>2. CASE WakesUp(h)
  <2>1. /\ pc[h] = "asleep" /\ pc' = [pc EXCEPT ![h] = "call"]
        /\ UNCHANGED <<task_running, core_running, listed, at, job, sent, monitored, owed, extra,
                       uneven>>
        BY <1>2, Zenon DEF WakesUp
  <2>2. TypeOK' /\ Places'
        BY <2>1, <1>t, Zenon DEF LInv, TypeOK, PcStates, Places, Busy, Current
  <2>3. Fresh'
        BY <2>1, <1>t, Zenon DEF LInv, Fresh, Ahead
  <2>4. CountersWithinLimits' /\ PlacesAccounted'
        BY <2>1, Zenon DEF LInv, CountersWithinLimits, PlacesAccounted
  <2>5. SleepsForGoodReason'
        BY <2>1, <1>t, Zenon DEF LInv, SleepsForGoodReason, Room, Current, Charged, IsScan
  <2> QED
      BY <2>2, <2>3, <2>4, <2>5, Zenon DEF LInv
<1>3. ASSUME pc[h] \in {"placed", "scanning"}, pc' = [pc EXCEPT ![h] = "call"], Advance(h),
             job' \in [Request -> JobStates],
             UNCHANGED <<task_running, core_running, listed, sent, monitored, owed, extra, uneven>>
      PROVE  LInv'
  <2>2. Busy(h)
        BY <1>3, Zenon DEF LInv, Places
  <2>3. at' \in [Thread -> Nat] /\ Places' /\ Fresh' /\ SleepsForGoodReason'
    <3>1. pc' \in [Thread -> PcStates] /\ pc'[h] = "call"
          /\ \A g \in Thread \ {h} : pc'[g] = pc[g]
          BY <1>3, <1>t, Zenon DEF PcStates
    <3> QED
        BY <3>1, <1>3, <2>2, GoesOn, Zenon
  <2>4. TypeOK'
        BY <1>3, <2>3, <1>t, Zenon DEF LInv, TypeOK, PcStates, JobStates
  <2>5. CountersWithinLimits' /\ PlacesAccounted'
        BY <1>3, Zenon DEF LInv, CountersWithinLimits, PlacesAccounted
  <2> QED
      BY <2>3, <2>4, <2>5, Zenon DEF LInv
<1>j. ASSUME NEW x, NEW y \in JobStates PROVE [job EXCEPT ![x] = y] \in [Request -> JobStates]
      BY <1>t, Zenon
<1>4. CASE ScanReturns(h)
      BY <1>3, <1>4, <1>t, Zenon DEF ScanReturns
<1>5. CASE ScanFails(h)
      BY <1>3, <1>5, <1>j, Zenon DEF ScanFails, JobStates
<1>6. CASE Submits(h) /\ ~IsScan(Current(h))
      BY <1>3, <1>6, <1>j, Zenon DEF Submits, JobStates
<1>7. CASE Submits(h) /\ IsScan(Current(h))
  <2>1. /\ pc[h] = "placed" /\ pc' = [pc EXCEPT ![h] = "scanning"] /\ at' = at
        /\ job' = [job EXCEPT ![Current(h)] = "running"]
        /\ UNCHANGED <<task_running, core_running, listed, sent, monitored, owed, extra, uneven>>
        BY <1>7, Zenon DEF Submits
  <2>2. job' \in [Request -> JobStates]
        BY <2>1, <1>j, Zenon DEF JobStates
  <2>3. TypeOK' /\ Places'
        BY <2>1, <2>2, <1>t, Zenon DEF LInv, TypeOK, Places, Busy, PcStates, JobStates
  <2>4. Fresh'
        BY <2>1, <1>t, Zenon DEF LInv, Fresh, Ahead
  <2>5. CountersWithinLimits' /\ PlacesAccounted'
        BY <2>1, Zenon DEF LInv, CountersWithinLimits, PlacesAccounted
  <2>6. SleepsForGoodReason'
        BY <2>1, <1>t, Zenon DEF LInv, SleepsForGoodReason, Room, Current, Charged, IsScan
  <2> QED
      BY <2>3, <2>4, <2>5, <2>6, Zenon DEF LInv
<1> QED
    BY <1>1, <1>2, <1>4, <1>5, <1>6, <1>7, Zenon

(* Every step keeps LInv.                                                   *)
LEMMA LStep ==
    LInv /\ [Next]_vars => LInv'
<1> SUFFICES ASSUME LInv, [Next]_vars PROVE LInv'
    BY Zenon
<1>1. ASSUME NEW h \in Thread, ReplyAtOnce(h) PROVE LInv'
  <2>1. Busy(h) /\ pc[h] = "call" /\ NotifyEnd(Current(h), pc) /\ Advance(h)
        /\ UNCHANGED <<listed, job, sent, monitored>>
        BY <1>1, Zenon DEF ReplyAtOnce
  <2>2. [pc EXCEPT ![h] = "call"] = pc
        BY <2>1, Zenon DEF LInv, TypeOK
  <2> QED
      BY <2>1, <2>2, AnsweredKeeps, Zenon
<1>2. ASSUME NEW h \in Thread, SubmitFails(h) PROVE LInv'
  <2>1. pc[h] = "placed" /\ NotifyEnd(Current(h), [pc EXCEPT ![h] = "call"]) /\ Advance(h)
        /\ UNCHANGED <<listed, job, sent, monitored>>
        BY <1>2, Zenon DEF SubmitFails
  <2>2. Busy(h)
        BY <2>1, Zenon DEF LInv, Places
  <2> QED
      BY <2>1, <2>2, AnsweredKeeps, Zenon
<1>3. ASSUME NEW r \in Request, JobEnds(r) \/ JobVanishes(r) \/ MonitorGivesUp(r) PROVE LInv'
  <2>1. TypeOK'
        BY <1>3 DEF LInv, TypeOK, JobStates, JobEnds, JobVanishes, MonitorGivesUp
  <2> QED
      BY <1>3, <2>1, LStutter, Zenon DEF JobEnds, JobVanishes, MonitorGivesUp
<1>4. ASSUME NEW w \in Workflow, Unlist(w) PROVE LInv'
  <2>1. TypeOK'
        BY <1>4, Zenon DEF LInv, TypeOK, Unlist
  <2> QED
      BY <1>4, <2>1, LStutter, Zenon DEF Unlist
<1>5. CASE UNCHANGED vars
  <2>1. TypeOK'
        BY <1>5, Zenon DEF LInv, TypeOK, vars
  <2> QED
      BY <1>5, <2>1, LStutter, Zenon DEF vars
<1> QED
    BY <1>1, <1>2, <1>3, <1>4, <1>5, TakePlaceKeeps, ThreadKeeps, DeliverKeeps, Zenon DEF Next

(* The inductive invariant holds in every state.                            *)
THEOREM LInvariant ==
    Spec => []LInv
BY LInit, LStep, PTL DEF Spec

(* The state of the limits keeps its types: the counters, unsigned in the   *)
(* code, are never decreased below zero.                                    *)
THEOREM LimitsTypeCorrect ==
    Spec => []TypeOK
<1>1. LInv => TypeOK
      BY Zenon DEF LInv
<1> QED
    BY <1>1, LInvariant, PTL

(* oph_server_task_running and oph_server_core_running never pass TASK_LIMIT *)
(* and CORE_LIMIT, for any number of threads, requests and notifications.    *)
THEOREM CountersBounded ==
    Spec => []CountersWithinLimits
<1>1. LInv => CountersWithinLimits
      BY Zenon DEF LInv
<1> QED
    BY <1>1, LInvariant, PTL

(* The counter of the tasks differs from the places taken and not given back *)
(* by at most the notifications that gave back a place nobody had.           *)
THEOREM PlacesCounted ==
    Spec => []PlacesAccounted
<1>1. LInv => PlacesAccounted
      BY Zenon DEF LInv
<1> QED
    BY <1>1, LInvariant, PTL

(* No thread sleeps on limit_flag while there is room for its request.      *)
THEOREM NoLostWakeup ==
    Spec => []SleepsForGoodReason
<1>1. LInv => SleepsForGoodReason
      BY Zenon DEF LInv
<1> QED
    BY <1>1, LInvariant, PTL

-----------------------------------------------------------------------------
(* The cores.                                                               *)

(* A request is charged for a number of cores.                              *)
LEMMA ChargedType == \A r \in Request : Charged(r) \in Nat /\ Charged(r) >= 1
<1>1. \A r \in Request : Ncores[r] \in Nat
      BY RequestAssumption, Zenon
<1> QED
    BY <1>1 DEF Charged

(* The cores of one request are as many as it is charged for.               *)
LEMMA UnitsOfOne ==
    ASSUME NEW r \in Request
    PROVE  LET one == {r} \X (1 .. Charged(r))
           IN  IsFiniteSet(one) /\ Cardinality(one) = Charged(r)
<1>1. Charged(r) \in Nat /\ Charged(r) >= 1
      BY ChargedType, Zenon
<1>2. IsFiniteSet(1 .. Charged(r)) /\ Cardinality(1 .. Charged(r)) = Charged(r)
      BY <1>1, FS_Interval
<1>3. IsFiniteSet({r}) /\ Cardinality({r}) = 1
      BY FS_Singleton, Zenon
<1>4. /\ IsFiniteSet({r} \X (1 .. Charged(r)))
      /\ Cardinality({r} \X (1 .. Charged(r))) = Cardinality({r}) * Cardinality(1 .. Charged(r))
      BY <1>2, <1>3, FS_Product, Zenon
<1>5. Cardinality({r}) * Cardinality(1 .. Charged(r)) = Charged(r)
      BY <1>1, <1>2, <1>3
<1> QED
    BY <1>4, <1>5, Zenon

(* The cores of some requests are finitely many.                            *)
LEMMA UnitsFinite ==
    ASSUME NEW R \in SUBSET Request
    PROVE  IsFiniteSet(Units(R)) /\ CoresOf(R) \in Nat
<1> DEFINE f == [r \in R |-> {r} \X (1 .. Charged(r))]
           T == {{r} \X (1 .. Charged(r)) : r \in R}
<1>1. IsFiniteSet(R)
      BY RequestAssumption, FS_Subset, Zenon
<1>2. f \in Surjection(R, T)
      BY Zenon DEF Surjection
<1>3. IsFiniteSet(T)
      BY <1>1, <1>2, FS_Surjection, Zenon
<1>4. \A S \in T : IsFiniteSet(S)
      BY UnitsOfOne, Zenon
<1>5. IsFiniteSet(UNION T)
      BY <1>3, <1>4, FS_UNION, Zenon
<1> QED
    BY <1>5, FS_CardinalityType, Zenon DEF Units, CoresOf

(* A request more is charged for its own cores.                             *)
LEMMA OneRequestMore ==
    ASSUME NEW R \in SUBSET Request, NEW r \in Request \ R
    PROVE  CoresOf(R \cup {r}) = CoresOf(R) + Charged(r)
<1> DEFINE one == {r} \X (1 .. Charged(r))
<1>1. Units(R \cup {r}) = Units(R) \cup one
      BY Zenon DEF Units
<1>2. ASSUME NEW p \in Units(R), p \in one PROVE FALSE
  <2>1. PICK x \in R : p \in {x} \X (1 .. Charged(x))
        BY Zenon DEF Units
  <2>2. p[1] = x /\ p[1] = r
        BY <1>2, <2>1, Zenon
  <2> QED
      BY <2>2, Zenon
<1>3. IsFiniteSet(Units(R)) /\ CoresOf(R) \in Nat /\ IsFiniteSet(one) /\ Cardinality(one) = Charged(r)
      BY UnitsFinite, UnitsOfOne, Zenon
<1>4. Charged(r) \in Nat
      BY ChargedType, Zenon
<1> HIDE DEF one
<1>5. Cardinality(Units(R) \cup one) = Cardinality(Units(R)) + Cardinality(one) - Cardinality(Units(R) \cap one)
      BY <1>3, FS_Union, Zenon
<1>6. Cardinality(Units(R) \cap one) = 0
  <2>1. Units(R) \cap one = {}
        BY <1>2, Zenon
  <2> QED
      BY <2>1, FS_EmptySet, Zenon
<1>7. CoresOf(R) = Cardinality(Units(R)) /\ CoresOf(R \cup {r}) = Cardinality(Units(R) \cup one)
      BY <1>1, Zenon DEF CoresOf
<1> QED
    BY <1>3, <1>4, <1>5, <1>6, <1>7

(* A notification gives back the cores of a request that had a place.       *)
LEMMA NotifyCores ==
    ASSUME LInv, CoresAccounted, NEW r \in Request, NEW next, NotifyEnd(r, next)
    PROVE  CoresAccounted'
<1> SUFFICES ASSUME CoreLimit > 0, extra' = 0, uneven' = {}
             PROVE  core_running' = CoresOf(owed')
    BY Zenon DEF CoresAccounted
<1>t. /\ owed \in SUBSET Request /\ core_running \in Nat /\ extra \in Nat
      /\ Returned(r) \in Nat
      BY RequestAssumption, Zenon DEF LInv, TypeOK, Returned
<1>1. CASE Of[TaskOf[r]] \notin listed \/ TaskOf[r] \in Known
  <2>1. core_running' = core_running /\ owed' = owed /\ extra = 0 /\ uneven = {}
        BY <1>1, Zenon DEF NotifyEnd
  <2> QED
      BY <2>1, Zenon DEF CoresAccounted
<1>2. CASE Of[TaskOf[r]] \in listed /\ TaskOf[r] \notin Known
  <2>1. /\ core_running' = CoresAfter(r) /\ owed' = owed \ {r}
        /\ extra' = IF r \in owed THEN extra ELSE extra + 1
        /\ uneven' = IF Returned(r) = Charged(r) THEN uneven ELSE uneven \cup {r}
        BY <1>2, Zenon DEF NotifyEnd
  <2>2. extra + 1 # 0
        BY <1>t
  <2>3. r \in owed /\ extra = 0 /\ uneven = {} /\ Charged(r) = Returned(r)
        BY <2>1, <2>2, Zenon
  <2>4. core_running = CoresOf(owed)
        BY <2>3, Zenon DEF CoresAccounted
  <2>5. owed \ {r} \in SUBSET Request /\ r \in Request \ (owed \ {r}) /\ owed = (owed \ {r}) \cup {r}
        BY <1>t, <2>3, Zenon
  <2>6. CoresOf(owed) = CoresOf(owed \ {r}) + Charged(r) /\ CoresOf(owed \ {r}) \in Nat
        BY <2>5, OneRequestMore, UnitsFinite, Zenon
  <2>8. CoresAfter(r) = CoresOf(owed \ {r})
        BY <1>t, <2>3, <2>4, <2>6 DEF CoresAfter
  <2> QED
      BY <2>1, <2>8, Zenon
<1> QED
    BY <1>1, <1>2, Zenon

(* Every step keeps the cores accounted for.                                *)
LEMMA CoresStep == LInv /\ CoresAccounted /\ [Next]_vars => CoresAccounted'
<1> SUFFICES ASSUME LInv, CoresAccounted, [Next]_vars PROVE CoresAccounted'
    BY Zenon
<1>0. ASSUME UNCHANGED <<core_running, owed, extra, uneven>> PROVE CoresAccounted'
      BY <1>0, Zenon DEF CoresAccounted
<1>1. ASSUME NEW h \in Thread, ReplyAtOnce(h) \/ SubmitFails(h) PROVE CoresAccounted'
  <2>1. Busy(h)
        BY <1>1, Zenon DEF ReplyAtOnce, SubmitFails, LInv, Places
  <2>2. Current(h) \in Request
        BY <2>1, CurrentIsRequest, Zenon DEF LInv
  <2> QED
      BY <1>1, <2>2, NotifyCores, Zenon DEF ReplyAtOnce, SubmitFails
<1>2. ASSUME NEW h \in Thread, TakePlace(h) PROVE CoresAccounted'
  <2> DEFINE r == Current(h)
  <2>1. Busy(h) /\ pc[h] = "call" /\ owed' = owed \cup {r} /\ extra' = extra /\ uneven' = uneven
        /\ core_running' = IF CoreLimit > 0 THEN core_running + Charged(r) ELSE core_running
        BY <1>2, Zenon DEF TakePlace, Limited
  <2>2. r \in Request /\ at[h] + 1 \in Ahead(h) /\ r = Batch[h][at[h] + 1]
        BY <2>1, CurrentIsRequest, Zenon DEF LInv, Current
  <2>3. r \in Request \ owed /\ owed \in SUBSET Request
        BY <2>1, <2>2, Zenon DEF LInv, Fresh, TypeOK
  <2> HIDE DEF r
  <2>4. CoresOf(owed \cup {r}) = CoresOf(owed) + Charged(r)
        BY <2>3, OneRequestMore, Zenon
  <2> QED
      BY <2>1, <2>4, Zenon DEF CoresAccounted
<1>3. ASSUME NEW n \in sent, Deliver(n) PROVE CoresAccounted'
  <2>1. n[1] \in Request
        BY Zenon DEF LInv, TypeOK
  <2> QED
      BY <1>3, <2>1, NotifyCores, Zenon DEF Deliver
<1>4. ASSUME NEW h \in Thread,
             WaitForPlace(h) \/ Submits(h) \/ WakesUp(h) \/ ScanFails(h) \/ ScanReturns(h)
      PROVE  CoresAccounted'
      BY <1>0, <1>4, Zenon DEF WaitForPlace, Submits, WakesUp, ScanFails, ScanReturns
<1>5. ASSUME NEW r \in Request, JobEnds(r) \/ JobVanishes(r) \/ MonitorGivesUp(r) PROVE CoresAccounted'
      BY <1>0, <1>5, Zenon DEF JobEnds, JobVanishes, MonitorGivesUp
<1>6. ASSUME NEW w \in Workflow, Unlist(w) PROVE CoresAccounted'
      BY <1>0, <1>6, Zenon DEF Unlist
<1>7. CASE UNCHANGED vars
      BY <1>0, <1>7, Zenon DEF vars
<1> QED
    BY <1>1, <1>2, <1>3, <1>4, <1>5, <1>6, <1>7, Zenon DEF Next

(* oph_server_core_running is the number of the cores of the requests whose *)
(* place has not been given back, as long as no notification gave back a    *)
(* place nobody had and no request ended that gives back other cores than   *)
(* it takes.                                                                *)
THEOREM CoresCounted ==
    Spec => []CoresAccounted
<1>1. Init => CoresAccounted
  <2> SUFFICES ASSUME Init PROVE core_running = CoresOf(owed)
      BY Zenon DEF CoresAccounted
  <2>1. Units(owed) = {} /\ core_running = 0
        BY Zenon DEF Init, Units
  <2> QED
      BY <2>1, FS_EmptySet, Zenon DEF CoresOf
<1> QED
    BY <1>1, CoresStep, LInvariant, PTL DEF Spec
=============================================================================
