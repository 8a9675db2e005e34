------------------------- MODULE WorkflowQueueProofs -------------------------
(***************************************************************************)
(* The limits of farm and queue, and the safety of the release of a         *)
(* workflow, for every number of workflows and threads and every limit.     *)
(***************************************************************************)
EXTENDS WorkflowQueue, FiniteSetTheorems, WellFoundedInduction, TLAPS

(* The workflows counted against the farm: listed, marked as started, not   *)
(* cancelled, and not on their way to the queue.                            *)
Occupants ==
    {w \in listed : /\ status[w] # UNKNOWN /\ status[w] < ABORTED
                    /\ client[w] # "marking"}

(* What the submitting threads rely on.                                     *)
Clients ==
    \A w \in Wf :
        /\ client[w] = "new" => w \notin listed /\ memory[w] = "live" /\ ~closed[w]
        /\ client[w] \in {"marking", "starting"} => status[w] # UNKNOWN
        /\ work[w] = "busy" => status[w] # UNKNOWN /\ client[w] \notin {"new", "marking"}
        /\ closed[w] \/ status[w] = EXPIRED \/ memory[w] = "freed" => w \notin listed

(* What the other threads rely on.                                          *)
Threads ==
    \A h \in Thread :
        LET w == thread[h].wf
        IN  /\ thread[h].at \in {"closing", "begin", "cancelling"} => w \in Wf
            /\ thread[h].at = "closing" => w \notin listed /\ client[w] # "new"
            /\ thread[h].at = "begin" => /\ status[w] # UNKNOWN
                                         /\ client[w] \notin {"new", "marking"}

Limits ==
    /\ FarmSize > 0 => Cardinality(Occupants) <= FarmSize
    /\ QueueNeverExceeded

QInv == TypeOK /\ Clients /\ Threads /\ Limits

-----------------------------------------------------------------------------
(* A set that lost members is not larger: the step of most actions.         *)
LEMMA Shrinks ==
    ASSUME NEW S, NEW T, IsFiniteSet(T), S \subseteq T
    PROVE  /\ IsFiniteSet(S) /\ Cardinality(S) \in Nat /\ Cardinality(T) \in Nat
           /\ Cardinality(S) <= Cardinality(T)
BY FS_Subset, FS_CardinalityType, Zenon

(* The removal of the old items keeps the types and changes nothing of the  *)
(* items that stay.                                                         *)
LEMMA FlushFacts ==
    ASSUME TypeOK
    PROVE  /\ Fresh \subseteq listed
           /\ StatusAfterFlush \in [Wf -> {UNKNOWN, PENDING, RUNNING, COMPLETED, ABORTED, EXPIRED}]
           /\ MemoryAfterFlush \in [Wf -> {"live", "freed"}]
           /\ \A w \in Wf : /\ w \in Fresh \/ w \notin listed => StatusAfterFlush[w] = status[w]
                            /\ w \in Fresh \/ w \notin listed => MemoryAfterFlush[w] = memory[w]
                            /\ StatusAfterFlush[w] \in {status[w], EXPIRED}
BY Zenon DEF TypeOK, Fresh, Expired, StatusAfterFlush, MemoryAfterFlush

(* A broadcast keeps the types and moves only the sleeping clients.         *)
LEMMA WakeFacts ==
    ASSUME TypeOK,
           NEW c \in [Wf -> {"new", "marking", "checking", "starting", "waiting", "asleep", "done"}]
    PROVE  /\ ClientAfterFlush(c) \in
                [Wf -> {"new", "marking", "checking", "starting", "waiting", "asleep", "done"}]
           /\ Woken(c) \in
                [Wf -> {"new", "marking", "checking", "starting", "waiting", "asleep", "done"}]
           /\ \A w \in Wf : /\ c[w] # "asleep" => ClientAfterFlush(c)[w] = c[w] /\ Woken(c)[w] = c[w]
                            /\ c[w] = "asleep" => /\ ClientAfterFlush(c)[w] \in {"asleep", "waiting"}
                                                  /\ Woken(c)[w] = "waiting"
BY Zenon DEF ClientAfterFlush, Woken

(* The queue has a first element: a set of numbers has a least one.         *)
LEMMA FirstExists ==
    ASSUME arrival \in [Wf -> Nat], NEW S, S \subseteq Wf, S # {}
    PROVE  FirstOf(S) \in S
<1> DEFINE T == {arrival[v] : v \in S}
           R == {ss \in Nat \X Nat : ss[1] < ss[2]}
<1>1. T \subseteq Nat /\ T # {}
      BY Zenon
<1>0. IsWellFoundedOn(R, Nat)
      BY NatLessThanWellFounded, Zenon DEF OpToRel
<1>2. PICK x \in T : \A y \in T : ~(<<y, x>> \in R)
  <2> HIDE DEF T, R
  <2> QED
      BY <1>0, <1>1, WFMin, Zenon
<1>3. \A y \in T : ~(y < x)
      BY <1>1, <1>2, Zenon
<1>4. PICK w \in S : arrival[w] = x
      BY Zenon
<1>5. \A v \in S : arrival[w] <= arrival[v]
      BY <1>1, <1>3, <1>4
<1> QED
    BY <1>5, Zenon DEF FirstOf

(* The empty job list satisfies the invariant.                              *)
LEMMA InitQ == Init => QInv
<1> SUFFICES ASSUME Init PROVE QInv
    BY Zenon
<1>1. TypeOK /\ Clients /\ Threads
      BY QueueAssumption DEF Init, TypeOK, Clients, Threads, Idle, UNKNOWN, EXPIRED
<1>2. Occupants = {} /\ listed = {} /\ Cardinality({}) = 0
      BY FS_EmptySet, Zenon DEF Init, Occupants
<1>3. Limits
      BY <1>2, QueueAssumption DEF Limits, QueueNeverExceeded
<1> QED
    BY <1>1, <1>3, Zenon DEF QInv

-----------------------------------------------------------------------------
(* The statuses and places used below, as provers see them.                 *)
USE DEF UNKNOWN, PENDING, RUNNING, COMPLETED, ABORTED, EXPIRED

ClientPlace == {"new", "marking", "checking", "starting", "waiting", "asleep", "done"}

(* Every step keeps the types.                                              *)
LEMMA TypeStep == QInv /\ [Next]_vars => TypeOK'
<1> SUFFICES ASSUME QInv, [Next]_vars PROVE TypeOK'
    BY Zenon
<1> USE QueueAssumption
<1>0. TypeOK /\ Threads /\ client \in [Wf -> ClientPlace]
      BY Zenon DEF QInv, TypeOK, ClientPlace
<1>f. /\ Fresh \subseteq listed
      /\ StatusAfterFlush \in [Wf -> {UNKNOWN, PENDING, RUNNING, COMPLETED, ABORTED, EXPIRED}]
      /\ MemoryAfterFlush \in [Wf -> {"live", "freed"}]
      BY <1>0, FlushFacts, Zenon
<1>w. \A c \in [Wf -> ClientPlace] : /\ ClientAfterFlush(c) \in [Wf -> ClientPlace]
                                     /\ Woken(c) \in [Wf -> ClientPlace]
      BY <1>0, WakeFacts, Zenon DEF ClientPlace
<1>c. ClientAfterFlush(client) \in [Wf -> ClientPlace] /\ Woken(client) \in [Wf -> ClientPlace]
      BY <1>0, <1>w, Zenon
<1>d. ASSUME NEW w \in Wf, NEW c \in [Wf -> ClientPlace], DropAndFree(w, c)
      PROVE  /\ listed' \subseteq Wf
             /\ status' \in [Wf -> {UNKNOWN, PENDING, RUNNING, COMPLETED, ABORTED, EXPIRED}]
             /\ memory' \in [Wf -> {"live", "freed"}]
             /\ client' \in [Wf -> ClientPlace]
      BY <1>0, <1>f, <1>w, <1>d, Zenon DEF DropAndFree, TypeOK
<1>1. ASSUME NEW w \in Wf, ClientNext(w) PROVE TypeOK'
  <2>1. CASE AppendToList(w)
    <3>1. Cardinality({v \in Wf : arrival[v] > 0}) \in Nat
          BY FS_Subset, FS_CardinalityType, Zenon
    <3> QED
        BY <1>0, <1>f, <1>c, <2>1, <3>1 DEF AppendToList, TypeOK, ClientPlace
  <2>2. CASE MarkQueued(w) \/ CheckQueued(w) \/ ClientWaits(w)
        BY <1>0, <2>2 DEF MarkQueued, CheckQueued, ClientWaits, AfterStart, TypeOK
  <2>3. CASE ClientStarts(w)
        BY <1>0, <2>3, Zenon DEF ClientStarts, AfterStart, WorkAfterExecute, TypeOK
  <2>4. CASE ClientCannotStart(w)
    <3>1. [client EXCEPT ![w] = "done"] \in [Wf -> ClientPlace]
          BY <1>0, Zenon DEF ClientPlace
    <3> QED
        BY <1>0, <1>d, <2>4, <3>1, Zenon DEF ClientCannotStart, TypeOK, ClientPlace
  <2>5. CASE ClientReturns(w)
    <3>1. [client EXCEPT ![w] = "done"] \in [Wf -> ClientPlace]
          BY <1>0, Zenon DEF ClientPlace
    <3> QED
        BY <1>0, <1>f, <1>w, <2>5, <3>1, Zenon DEF ClientReturns, TypeOK, ClientPlace
  <2> QED
      BY <1>1, <2>1, <2>2, <2>3, <2>4, <2>5, Zenon DEF ClientNext
<1>2. ASSUME NEW h \in Thread, ThreadNext(h) PROVE TypeOK'
  <2>1. CASE CloseWf(h)
    <3>1. /\ UNCHANGED <<clock, listed, arrival, stamp, status, work>>
          /\ closed' = closed \/ closed' = [closed EXCEPT ![thread[h].wf] = TRUE]
          /\ memory' = memory \/ memory' = [memory EXCEPT ![thread[h].wf] = "freed"]
          /\ client' = client \/ client' = Woken(client)
          BY <2>1, Zenon DEF CloseWf
    <3>2. thread' = [thread EXCEPT ![h] = [at |-> "tail", wf |-> NoWf]]
          BY <2>1, Zenon DEF CloseWf, At
    <3>3. /\ thread' \in [Thread -> [at : {"idle", "closing", "tail", "begin", "cancelling"},
                                     wf : Wf \cup {NoWf}]]
          BY <1>0, <3>2, Zenon DEF TypeOK
    <3>4. closed' \in [Wf -> BOOLEAN] /\ memory' \in [Wf -> {"live", "freed"}]
          BY <1>0, <3>1, Zenon DEF TypeOK
    <3>5. client' \in [Wf -> ClientPlace]
          BY <1>0, <1>c, <3>1, Zenon
    <3> QED
        BY <1>0, <3>1, <3>3, <3>4, <3>5, Zenon DEF TypeOK, ClientPlace
  <2>2. CASE LookAtQueue(h)
    <3>1. Unstarted # {} => FirstOf(Unstarted) \in Wf
      <4> SUFFICES ASSUME Unstarted # {} PROVE FirstOf(Unstarted) \in Unstarted
          BY <1>0, <1>f, Zenon DEF Unstarted, TypeOK
      <4> QED
          BY <1>0, <1>f, FirstExists, Zenon DEF Unstarted, TypeOK
    <3>2. CASE MayStartOne /\ Unstarted # {}
      <4> DEFINE f == FirstOf(Unstarted)
      <4>1. /\ f \in Wf
            /\ status' = [StatusAfterFlush EXCEPT ![f] = PENDING]
            /\ thread' = [thread EXCEPT ![h] = [at |-> "begin", wf |-> f]]
            BY <2>2, <3>1, <3>2, Zenon DEF LookAtQueue, At
      <4> HIDE DEF f
      <4> QED
          BY <1>0, <1>f, <1>c, <2>2, <4>1, Zenon DEF LookAtQueue, Flush, TypeOK, ClientPlace
    <3>3. CASE ~(MayStartOne /\ Unstarted # {})
          BY <1>0, <1>f, <1>c, <2>2, <3>3 DEF LookAtQueue, Flush, At, TypeOK, ClientPlace
    <3> QED
        BY <3>2, <3>3, Zenon
  <2>3. CASE StartQueued(h)
        BY <1>0, <2>3, Zenon DEF StartQueued, WorkAfterExecute, At, TypeOK, Threads
  <2>4. CASE CannotStartQueued(h)
        BY <1>0, <1>d, <2>4, Zenon DEF CannotStartQueued, At, TypeOK, Threads, ClientPlace
  <2>5. CASE CancelNotify(h)
        BY <1>0, <1>f, <1>w, <2>5, Zenon DEF CancelNotify, Flush, At, TypeOK, ClientPlace
  <2> QED
      BY <1>2, <2>1, <2>2, <2>3, <2>4, <2>5, Zenon DEF ThreadNext
<1>3. ASSUME NEW h \in Thread, NEW w \in Wf, NEW last \in BOOLEAN, Notify(h, w, last)
      PROVE  TypeOK'
  <2>1. /\ memory' = MemoryAfterFlush /\ client' = ClientAfterFlush(client)
        /\ UNCHANGED <<clock, arrival, stamp, closed>>
        BY <1>3, Zenon DEF Notify, Flush
  <2>l. listed' = Fresh \/ listed' = Fresh \ {w}
        BY <1>3, Zenon DEF Notify
  <2>2. status' \in [Wf -> {UNKNOWN, PENDING, RUNNING, COMPLETED, ABORTED, EXPIRED}]
        BY <1>f, <1>3, Zenon DEF Notify
  <2>3. work' = work \/ work' = [work EXCEPT ![w] = "over"]
        BY <1>3, Zenon DEF Notify
  <2>4. \/ thread' = thread
        \/ thread' = [thread EXCEPT ![h] = [at |-> "closing", wf |-> w]]
        \/ thread' = [thread EXCEPT ![h] = [at |-> "tail", wf |-> w]]
        BY <1>3, Zenon DEF Notify, At
  <2>5. listed' \subseteq Wf
        BY <1>0, <1>f, <2>l, Zenon DEF TypeOK
  <2>6. work' \in [Wf -> {"idle", "busy", "over"}]
        BY <1>0, <2>3, Zenon DEF TypeOK
  <2>7. thread' \in [Thread -> [at : {"idle", "closing", "tail", "begin", "cancelling"}, wf : Wf \cup {NoWf}]]
        BY <1>0, <2>4 DEF TypeOK
  <2> QED
      BY <1>0, <1>f, <1>c, <2>1, <2>2, <2>5, <2>6, <2>7, Zenon DEF TypeOK, ClientPlace
<1>4. ASSUME NEW h \in Thread, NEW w \in Wf, Cancel(h, w) PROVE TypeOK'
      BY <1>0, <1>f, <1>w, <1>4, Zenon DEF Cancel, Flush, At, TypeOK, ClientPlace
<1>5. CASE Tick
      BY <1>0, <1>5 DEF Tick, TypeOK
<1>6. CASE UNCHANGED vars
      BY <1>0, <1>6, Zenon DEF vars, TypeOK
<1> QED
    BY <1>1, <1>2, <1>3, <1>4, <1>5, <1>6, Zenon DEF Next

(* The clients and the threads keep what they rely on.                      *)
LEMMA PlacesStep == QInv /\ [Next]_vars => Clients' /\ Threads'
<1> SUFFICES ASSUME QInv, [Next]_vars PROVE Clients' /\ Threads'
    BY Zenon
<1>0. TypeOK /\ Clients /\ Threads /\ client \in [Wf -> ClientPlace]
      BY Zenon DEF QInv, TypeOK, ClientPlace
<1>f. /\ Fresh \subseteq listed
      /\ StatusAfterFlush \in [Wf -> {UNKNOWN, PENDING, RUNNING, COMPLETED, ABORTED, EXPIRED}]
      /\ MemoryAfterFlush \in [Wf -> {"live", "freed"}]
      /\ \A w \in Wf : /\ w \in Fresh \/ w \notin listed => StatusAfterFlush[w] = status[w]
                       /\ w \in Fresh \/ w \notin listed => MemoryAfterFlush[w] = memory[w]
                       /\ StatusAfterFlush[w] \in {status[w], EXPIRED}
      BY <1>0, FlushFacts, Zenon
<1>w. ASSUME NEW c \in [Wf -> ClientPlace]
      PROVE  /\ ClientAfterFlush(c) \in [Wf -> ClientPlace] /\ Woken(c) \in [Wf -> ClientPlace]
             /\ \A w \in Wf : /\ c[w] # "asleep" => ClientAfterFlush(c)[w] = c[w] /\ Woken(c)[w] = c[w]
                              /\ c[w] = "asleep" => /\ ClientAfterFlush(c)[w] \in {"asleep", "waiting"}
                                                    /\ Woken(c)[w] = "waiting"
      BY <1>0, WakeFacts, Zenon DEF ClientPlace
<1>c. /\ ClientAfterFlush(client) \in [Wf -> ClientPlace] /\ Woken(client) \in [Wf -> ClientPlace]
      /\ \A w \in Wf : /\ client[w] # "asleep" => /\ ClientAfterFlush(client)[w] = client[w]
                                                  /\ Woken(client)[w] = client[w]
                       /\ client[w] = "asleep" => /\ ClientAfterFlush(client)[w] \in {"asleep", "waiting"}
                                                  /\ Woken(client)[w] = "waiting"
      BY <1>0, <1>w, Zenon
<1>1. ASSUME NEW w \in Wf, ClientNext(w) PROVE Clients' /\ Threads'
  <2> DEFINE returned == [client EXCEPT ![w] = "done"]
  <2>0. /\ returned \in [Wf -> ClientPlace] /\ returned[w] = "done"
        /\ \A v \in Wf : v # w => returned[v] = client[v]
        /\ ClientAfterFlush(returned) \in [Wf -> ClientPlace]
        /\ \A v \in Wf : /\ returned[v] # "asleep" => ClientAfterFlush(returned)[v] = returned[v]
                         /\ returned[v] = "asleep" => ClientAfterFlush(returned)[v] \in {"asleep", "waiting"}
    <3>1. /\ returned \in [Wf -> ClientPlace] /\ returned[w] = "done"
          /\ \A v \in Wf : v # w => returned[v] = client[v]
          BY <1>0, Zenon DEF ClientPlace
    <3> QED
        BY <3>1, <1>w, Zenon
  <2> HIDE DEF returned
  <2>1. CASE AppendToList(w)
        BY <1>0, <1>f, <1>c, <2>1, SMTT(30) DEF AppendToList, TypeOK, Clients, Threads
  <2>2. CASE MarkQueued(w)
        BY <1>0, <2>2, SMTT(30) DEF MarkQueued, TypeOK, Clients, Threads
  <2>3. CASE CheckQueued(w)
        BY <1>0, <2>3, Zenon DEF CheckQueued, Started, AfterStart, TypeOK, Clients, Threads
  <2>4. CASE ClientWaits(w)
        BY <1>0, <2>4, Zenon DEF ClientWaits, TypeOK, Clients, Threads
  <2>5. CASE ClientStarts(w)
        BY <1>0, <2>5, ZenonT(60) DEF ClientStarts, AfterStart, WorkAfterExecute, TypeOK, Clients, Threads
  <2>6. CASE ClientCannotStart(w)
    <3>1. DropAndFree(w, returned) /\ client[w] = "starting"
          /\ UNCHANGED <<clock, arrival, stamp, closed, work, thread>>
          BY <2>6, Zenon DEF ClientCannotStart, returned
    <3> QED
        BY <1>0, <1>f, <2>0, <3>1 DEF DropAndFree, TypeOK, Clients, Threads
  <2>7. CASE ClientReturns(w)
    <3>1. CASE ~closed[w] /\ status[w] = ABORTED
      <4>1. /\ listed' = Fresh \ {w} /\ status' = StatusAfterFlush
            /\ memory' = [MemoryAfterFlush EXCEPT ![w] = "freed"]
            /\ client' = ClientAfterFlush(returned)
            /\ closed' = closed /\ work' = work /\ thread' = thread
            /\ client[w] = "waiting"
            BY <2>7, <3>1, Zenon DEF ClientReturns, returned
      <4> QED
          BY <1>0, <1>f, <2>0, <4>1 DEF TypeOK, Clients, Threads
    <3>2. CASE ~(~closed[w] /\ status[w] = ABORTED)
          BY <1>0, <2>0, <2>7, <3>2 DEF ClientReturns, returned, TypeOK, Clients, Threads
    <3> QED
        BY <3>1, <3>2, Zenon
  <2> QED
      BY <1>1, <2>1, <2>2, <2>3, <2>4, <2>5, <2>6, <2>7, Zenon DEF ClientNext
<1>2. ASSUME NEW h \in Thread, ThreadNext(h) PROVE Clients' /\ Threads'
  <2>1. CASE CloseWf(h)
        BY <1>0, <1>c, <2>1 DEF CloseWf, At, TypeOK, Clients, Threads
  <2>2. CASE LookAtQueue(h)
    <3>1. CASE MayStartOne /\ Unstarted # {}
      <4> DEFINE f == FirstOf(Unstarted)
      <4>0. Unstarted \subseteq Wf /\ arrival \in [Wf -> Nat]
            BY <1>0, <1>f, Zenon DEF Unstarted, TypeOK
      <4>1. f \in Fresh /\ status[f] = UNKNOWN
        <5>1. f \in Unstarted
              BY <4>0, <3>1, FirstExists, Zenon
        <5> QED
            BY <5>1, Zenon DEF Unstarted, Started
      <4>2. /\ status' = [StatusAfterFlush EXCEPT ![f] = PENDING]
            /\ thread' = [thread EXCEPT ![h] = [at |-> "begin", wf |-> f]]
            BY <2>2, <3>1, Zenon DEF LookAtQueue, At
      <4> HIDE DEF f
      <4> QED
          BY <1>0, <1>f, <1>c, <2>2, <4>1, <4>2, SMTT(30) DEF LookAtQueue, Flush, TypeOK, Clients, Threads
    <3>2. CASE ~(MayStartOne /\ Unstarted # {})
      <4>1. /\ listed' = Fresh /\ status' = StatusAfterFlush /\ memory' = MemoryAfterFlush
            /\ client' = ClientAfterFlush(client)
            /\ thread' = [thread EXCEPT ![h] = [at |-> "idle", wf |-> NoWf]]
            /\ closed' = closed /\ work' = work
            BY <2>2, <3>2, Zenon DEF LookAtQueue, Flush, At
      <4> QED
          BY <1>0, <1>f, <1>c, <4>1 DEF TypeOK, Clients, Threads
    <3> QED
        BY <3>1, <3>2, Zenon
  <2>3. CASE StartQueued(h)
        BY <1>0, <2>3, ZenonT(60) DEF StartQueued, WorkAfterExecute, At, TypeOK, Clients, Threads
  <2>4. CASE CannotStartQueued(h)
        BY <1>0, <1>f, <1>c, <2>4 DEF CannotStartQueued, DropAndFree, At, TypeOK, Clients, Threads
  <2>5. CASE CancelNotify(h)
        BY <1>0, <1>f, <1>c, <2>5 DEF CancelNotify, Flush, At, TypeOK, Clients, Threads
  <2> QED
      BY <1>2, <2>1, <2>2, <2>3, <2>4, <2>5, Zenon DEF ThreadNext
<1>3. ASSUME NEW h \in Thread, NEW w \in Wf, NEW last \in BOOLEAN, Notify(h, w, last)
      PROVE  Clients' /\ Threads'
  <2> DEFINE found == w \in Fresh /\ status[w] < ABORTED
  <2>0. /\ work[w] = "busy" /\ thread[h].at = "idle"
        /\ memory' = MemoryAfterFlush /\ client' = ClientAfterFlush(client) /\ closed' = closed
        /\ work' = IF last THEN [work EXCEPT ![w] = "over"] ELSE work
    <3>1. work[w] = "busy" /\ thread[h].at = "idle" /\ closed' = closed
          BY <1>3, SMTT(30) DEF Notify, Idle
    <3>2. memory' = MemoryAfterFlush /\ client' = ClientAfterFlush(client)
          BY <1>3, SMTT(30) DEF Notify, Flush
    <3>3. work' = IF last THEN [work EXCEPT ![w] = "over"] ELSE work
          BY <1>3, SMTT(30) DEF Notify
    <3> QED
        BY <3>1, <3>2, <3>3, Zenon
  <2>1. CASE ~found
    <3>1. listed' = Fresh /\ status' = StatusAfterFlush /\ thread' = thread
          BY <1>3, <2>1, Zenon DEF Notify
    <3> HIDE DEF found
    <3> QED
        BY <1>0, <1>f, <1>c, <2>0, <3>1 DEF TypeOK, Clients, Threads
  <2>2. CASE found /\ last
    <3>1. /\ listed' = Fresh \ {w} /\ status' = [StatusAfterFlush EXCEPT ![w] = COMPLETED]
          /\ thread' = [thread EXCEPT ![h] = [at |-> "closing", wf |-> w]]
          BY <1>3, <2>2, Zenon DEF Notify, At
    <3> QED
        BY <1>0, <1>f, <1>c, <2>0, <2>2, <3>1 DEF TypeOK, Clients, Threads
  <2>3. CASE found /\ ~last
    <3>1. /\ listed' = Fresh /\ status' = [StatusAfterFlush EXCEPT ![w] = RUNNING]
          /\ thread' = [thread EXCEPT ![h] = [at |-> "tail", wf |-> w]]
          BY <1>3, <2>3, Zenon DEF Notify, At
    <3> QED
        BY <1>0, <1>f, <1>c, <2>0, <2>3, <3>1 DEF TypeOK, Clients, Threads
  <2> QED
      BY <2>1, <2>2, <2>3, Zenon
<1>4. ASSUME NEW h \in Thread, NEW w \in Wf, Cancel(h, w) PROVE Clients' /\ Threads'
      BY <1>0, <1>f, <1>c, <1>4 DEF Cancel, Flush, At, TypeOK, Clients, Threads
<1>5. CASE Tick
      BY <1>0, <1>5, Zenon DEF Tick, Clients, Threads
<1>6. CASE UNCHANGED vars
      BY <1>0, <1>6, Zenon DEF vars, Clients, Threads
<1> QED
    BY <1>1, <1>2, <1>3, <1>4, <1>5, <1>6, Zenon DEF Next

-----------------------------------------------------------------------------
(* Most steps take nobody into the list or the farm.                        *)
LEMMA LimitsKept ==
    ASSUME QInv, listed' \subseteq listed, Occupants' \subseteq Occupants
    PROVE  Limits'
<1>1. IsFiniteSet(listed) /\ IsFiniteSet(Occupants)
      BY QueueAssumption, FS_Subset, Zenon DEF QInv, TypeOK, Occupants
<1>2. /\ Cardinality(listed') \in Nat /\ Cardinality(listed) \in Nat
      /\ Cardinality(Occupants') \in Nat /\ Cardinality(Occupants) \in Nat
      /\ Cardinality(listed') <= Cardinality(listed)
      /\ Cardinality(Occupants') <= Cardinality(Occupants)
      BY <1>1, Shrinks, Zenon
<1> QED
    BY <1>2, QueueAssumption DEF QInv, Limits, QueueNeverExceeded

(* One more member counts at most for one.                                  *)
LEMMA GrowsByOne ==
    ASSUME NEW S, NEW T, NEW x, IsFiniteSet(T), S \subseteq T \cup {x}
    PROVE  Cardinality(S) \in Nat /\ Cardinality(T) \in Nat /\ Cardinality(S) <= Cardinality(T) + 1
<1>1. /\ IsFiniteSet(T \cup {x}) /\ Cardinality(T) \in Nat
      /\ Cardinality(T \cup {x}) = IF x \in T THEN Cardinality(T) ELSE Cardinality(T) + 1
      BY FS_AddElement, FS_CardinalityType, Zenon
<1>2. /\ Cardinality(S) \in Nat
      /\ Cardinality(S) <= Cardinality(T \cup {x})
      BY <1>1, Shrinks, Zenon
<1> QED
    BY <1>1, <1>2

(* Every step keeps the limits of farm and queue.                           *)
LEMMA LimitsStep == QInv /\ [Next]_vars => Limits'
<1> SUFFICES ASSUME QInv, [Next]_vars PROVE Limits'
    BY Zenon
<1> USE QueueAssumption
<1>0. TypeOK /\ Clients /\ Threads /\ Limits /\ client \in [Wf -> ClientPlace]
      BY Zenon DEF QInv, TypeOK, ClientPlace
<1>f. /\ Fresh \subseteq listed
      /\ StatusAfterFlush \in [Wf -> {UNKNOWN, PENDING, RUNNING, COMPLETED, ABORTED, EXPIRED}]
      /\ \A w \in Fresh : StatusAfterFlush[w] = status[w]
      BY <1>0, FlushFacts, Zenon DEF TypeOK
<1>w. ASSUME NEW c \in [Wf -> ClientPlace]
      PROVE  /\ ClientAfterFlush(c) \in [Wf -> ClientPlace] /\ Woken(c) \in [Wf -> ClientPlace]
             /\ \A w \in Wf : c[w] = "marking" <=> ClientAfterFlush(c)[w] = "marking"
             /\ \A w \in Wf : c[w] = "marking" <=> Woken(c)[w] = "marking"
      BY <1>0, WakeFacts, Zenon DEF ClientPlace
<1>c. /\ ClientAfterFlush(client) \in [Wf -> ClientPlace]
      /\ \A w \in Wf : client[w] = "marking" <=> ClientAfterFlush(client)[w] = "marking"
      /\ \A w \in Wf : client[w] = "marking" <=> Woken(client)[w] = "marking"
      BY <1>0, <1>w, Zenon
<1>n. /\ IsFiniteSet(listed) /\ Cardinality(listed) \in Nat
      /\ listed \subseteq Wf
      BY <1>0, FS_Subset, FS_CardinalityType, Zenon DEF TypeOK
<1>1. ASSUME NEW w \in Wf, ClientNext(w) PROVE Limits'
  <2> DEFINE returned == [client EXCEPT ![w] = "done"]
  <2>0. /\ returned \in [Wf -> ClientPlace] /\ returned[w] = "done"
        /\ \A v \in Wf : v # w => returned[v] = client[v]
        /\ \A v \in Wf : returned[v] = "marking" <=> ClientAfterFlush(returned)[v] = "marking"
    <3>1. /\ returned \in [Wf -> ClientPlace] /\ returned[w] = "done"
          /\ \A v \in Wf : v # w => returned[v] = client[v]
          BY <1>0, Zenon DEF ClientPlace
    <3> QED
        BY <3>1, <1>w, Zenon
  <2> HIDE DEF returned
  <2>1. CASE AppendToList(w)
    <3>1. CASE ListIsFull
      <4>1. listed' = listed /\ Occupants' \subseteq Occupants
            BY <1>0, <2>1, <3>1, ZenonT(60) DEF AppendToList, Occupants, TypeOK, Clients
      <4> QED
          BY <4>1, LimitsKept, Zenon
    <3>2. CASE ~ListIsFull
      <4>1. /\ listed' = Fresh \cup {w} /\ status' = [StatusAfterFlush EXCEPT ![w] = PENDING]
            /\ client' = [ClientAfterFlush(client) EXCEPT
                             ![w] = IF FarmIsFull THEN "marking" ELSE "starting"]
            BY <2>1, <3>2, Zenon DEF AppendToList
      <4>2. Cardinality(listed') \in Nat /\ Cardinality(listed') <= Cardinality(listed) + 1
            BY <1>f, <1>n, <4>1, GrowsByOne, Zenon
      <4>3. QueueNeverExceeded'
            BY <1>0, <1>n, <3>2, <4>2 DEF Limits, QueueNeverExceeded, ListIsFull, FarmIsFull
      <4>4. ASSUME FarmSize > 0 PROVE Cardinality(Occupants') <= FarmSize
        <5>1. CASE FarmIsFull
          <6>1. Occupants' \subseteq Occupants
                BY <1>0, <1>f, <1>c, <4>1, <5>1 DEF Occupants, TypeOK
          <6>2. IsFiniteSet(Occupants)
                BY <1>n, FS_Subset, Zenon DEF Occupants
          <6> QED
              BY <1>0, <4>4, <6>1, <6>2, Shrinks DEF Limits
        <5>2. CASE ~FarmIsFull
          <6>1. Occupants' \subseteq listed \cup {w}
                BY <1>f, <4>1, Zenon DEF Occupants
          <6>2. Cardinality(Occupants') \in Nat /\ Cardinality(Occupants') <= Cardinality(listed) + 1
                BY <1>n, <6>1, GrowsByOne, Zenon
          <6> QED
              BY <1>n, <4>4, <5>2, <6>2 DEF FarmIsFull
        <5> QED
            BY <5>1, <5>2, Zenon
      <4> QED
          BY <4>3, <4>4, Zenon DEF Limits
    <3> QED
        BY <3>1, <3>2, Zenon
  <2>2. CASE MarkQueued(w) \/ CheckQueued(w) \/ ClientWaits(w) \/ ClientStarts(w)
    <3>1. listed' = listed /\ Occupants' \subseteq Occupants
          BY <1>0, <2>2 DEF MarkQueued, CheckQueued, ClientWaits, ClientStarts, AfterStart,
                            Occupants, TypeOK
    <3> QED
        BY <3>1, LimitsKept, Zenon
  <2>3. CASE ClientCannotStart(w)
    <3>1. DropAndFree(w, returned)
          BY <2>3, Zenon DEF ClientCannotStart, returned
    <3>2. listed' \subseteq listed /\ Occupants' \subseteq Occupants
          BY <1>0, <1>f, <2>0, <3>1, ZenonT(60) DEF DropAndFree, Occupants, TypeOK
    <3> QED
        BY <3>2, LimitsKept, Zenon
  <2>4. CASE ClientReturns(w)
    <3>1. \/ listed' = Fresh \ {w} /\ status' = StatusAfterFlush /\ client' = ClientAfterFlush(returned)
          \/ listed' = listed /\ status' = status /\ client' = returned /\ client[w] = "waiting"
          BY <2>4, Zenon DEF ClientReturns, returned
    <3>2. listed' \subseteq listed /\ Occupants' \subseteq Occupants
          BY <1>0, <1>f, <2>0, <3>1 DEF Occupants, TypeOK
    <3> QED
        BY <3>2, LimitsKept, Zenon
  <2> QED
      BY <1>1, <2>1, <2>2, <2>3, <2>4, Zenon DEF ClientNext
<1>2. ASSUME NEW h \in Thread, ThreadNext(h) PROVE Limits'
  <2>1. CASE CloseWf(h) \/ StartQueued(h)
    <3>1. listed' = listed /\ status' = status /\ client' \in {client, Woken(client)}
          BY <2>1, Zenon DEF CloseWf, StartQueued
    <3>2. listed' \subseteq listed /\ Occupants' \subseteq Occupants
          BY <1>0, <1>c, <3>1, Zenon DEF Occupants, TypeOK
    <3> QED
        BY <3>2, LimitsKept, Zenon
  <2>2. CASE LookAtQueue(h)
    <3>1. CASE MayStartOne /\ Unstarted # {}
      <4> DEFINE f == FirstOf(Unstarted)
                 S == {v \in Fresh : Started(v)}
      <4>1. /\ listed' = Fresh /\ client' = ClientAfterFlush(client)
            /\ status' = [StatusAfterFlush EXCEPT ![f] = PENDING]
            BY <2>2, <3>1, Zenon DEF LookAtQueue, Flush
      <4>2. IsFiniteSet(S) /\ Occupants' \subseteq S \cup {f}
        <5>1. IsFiniteSet(S)
              BY <1>f, <1>n, FS_Subset, Zenon
        <5> HIDE DEF f
        <5>2. Occupants' \subseteq S \cup {f}
              BY <1>f, <1>n, <4>1, Zenon DEF Occupants, Started
        <5> QED
            BY <5>1, <5>2, Zenon
      <4>3. FarmSize > 0 /\ Cardinality(S) < FarmSize
            BY <3>1, Zenon DEF MayStartOne
      <4> HIDE DEF f, S
      <4>4. /\ Cardinality(Occupants') \in Nat /\ Cardinality(S) \in Nat
            /\ Cardinality(Occupants') <= Cardinality(S) + 1
            BY <4>2, GrowsByOne, Zenon
      <4>5. Cardinality(Occupants') <= FarmSize
            BY <4>3, <4>4
      <4>6. Cardinality(listed') \in Nat /\ Cardinality(listed') <= Cardinality(listed)
            BY <1>f, <1>n, <4>1, Shrinks, Zenon
      <4> QED
          BY <1>0, <1>n, <4>5, <4>6 DEF Limits, QueueNeverExceeded
    <3>2. CASE ~(MayStartOne /\ Unstarted # {})
      <4>1. listed' = Fresh /\ client' = ClientAfterFlush(client) /\ status' = StatusAfterFlush
            BY <2>2, <3>2, Zenon DEF LookAtQueue, Flush
      <4>2. listed' \subseteq listed /\ Occupants' \subseteq Occupants
            BY <1>0, <1>f, <1>c, <4>1, Zenon DEF Occupants, TypeOK
      <4> QED
          BY <4>2, LimitsKept, Zenon
    <3> QED
        BY <3>1, <3>2, Zenon
  <2>3. CASE CannotStartQueued(h) \/ CancelNotify(h)
    <3>1. listed' \subseteq Fresh /\ client' = ClientAfterFlush(client) /\ status' = StatusAfterFlush
          BY <2>3, Zenon DEF CannotStartQueued, DropAndFree, CancelNotify, Flush
    <3>2. listed' \subseteq listed /\ Occupants' \subseteq Occupants
          BY <1>0, <1>f, <1>c, <3>1, Zenon DEF Occupants, TypeOK
    <3> QED
        BY <3>2, LimitsKept, Zenon
  <2> QED
      BY <1>2, <2>1, <2>2, <2>3, Zenon DEF ThreadNext
<1>3. ASSUME NEW h \in Thread, NEW w \in Wf, NEW last \in BOOLEAN, Notify(h, w, last)
      PROVE  Limits'
  <2>1. /\ listed' \subseteq Fresh /\ client' = ClientAfterFlush(client)
        /\ \/ status' = StatusAfterFlush
           \/ /\ status[w] < ABORTED
              /\ status' \in {[StatusAfterFlush EXCEPT ![w] = COMPLETED],
                              [StatusAfterFlush EXCEPT ![w] = RUNNING]}
        BY <1>3, Zenon DEF Notify, Flush
  <2>2. status[w] # UNKNOWN /\ client[w] # "marking"
        BY <1>0, <1>3, Zenon DEF Notify, Clients
  <2>3. listed' \subseteq listed /\ Occupants' \subseteq Occupants
        BY <1>0, <1>f, <1>c, <2>1, <2>2, ZenonT(60) DEF Occupants, TypeOK
  <2> QED
      BY <2>3, LimitsKept, Zenon
<1>4. ASSUME NEW h \in Thread, NEW w \in Wf, Cancel(h, w) PROVE Limits'
  <2>1. /\ listed' = Fresh /\ client' = ClientAfterFlush(client)
        /\ status' = [StatusAfterFlush EXCEPT ![w] = ABORTED]
        BY <1>4, Zenon DEF Cancel, Flush
  <2>2. listed' \subseteq listed /\ Occupants' \subseteq Occupants
        BY <1>0, <1>f, <1>c, <2>1 DEF Occupants, TypeOK
  <2> QED
      BY <2>2, LimitsKept, Zenon
<1>5. CASE Tick \/ UNCHANGED vars
  <2>1. listed' = listed /\ Occupants' = Occupants
        BY <1>5, Zenon DEF Tick, vars, Occupants
  <2> QED
      BY <2>1, LimitsKept, Zenon
<1> QED
    BY <1>1, <1>2, <1>3, <1>4, <1>5, Zenon DEF Next

-----------------------------------------------------------------------------
(* The inductive invariant holds in every state.                            *)
LEMMA QInvariant == Spec => []QInv
<1>1. QInv /\ [Next]_vars => QInv'
      BY TypeStep, PlacesStep, LimitsStep, Zenon DEF QInv
<1> QED
    BY InitQ, <1>1, PTL DEF Spec

(* Running workflows are occupants of the farm.                             *)
LEMMA RunningOccupy == QInv => FarmNeverExceeded
<1> SUFFICES ASSUME QInv, FarmSize > 0 PROVE Cardinality(Running) <= FarmSize
    BY Zenon DEF FarmNeverExceeded
<1>1. Running \subseteq Occupants
      BY DEF Running, Occupants, Started, QInv, TypeOK, Clients, Threads
<1>2. IsFiniteSet(Occupants)
      BY QueueAssumption, FS_Subset, Zenon DEF Occupants, QInv, TypeOK
<1> QED
    BY <1>1, <1>2, QueueAssumption, Shrinks DEF QInv, Limits

(* Whatever the number of workflows, threads and requests, the variables of *)
(* the job list, of the clients and of the handlers keep their types.       *)
THEOREM QueueTypeCorrect == Spec => []TypeOK
<1>1. QInv => TypeOK
      BY Zenon DEF QInv
<1> QED
    BY QInvariant, <1>1, PTL

(* SERVER_FARM_SIZE bounds the workflows that run at a time, although the   *)
(* decision to start one is taken by clients and by handlers, and the mark  *)
(* of a queued workflow is written without the lock.                        *)
THEOREM FarmBound == Spec => []FarmNeverExceeded
BY QInvariant, RunningOccupy, PTL

(* SERVER_FARM_SIZE and QUEUE_SIZE bound the job list.                      *)
THEOREM QueueBound == Spec => []QueueNeverExceeded
<1>1. QInv => QueueNeverExceeded
      BY Zenon DEF QInv, Limits
<1> QED
    BY QInvariant, <1>1, PTL

(* No search of the job list returns a released workflow, whichever of      *)
(* client, handler, cancellation and expiration releases it.                *)
THEOREM ReleaseIsSafe == Spec => []FreedIsUnlisted
<1>1. QInv => FreedIsUnlisted
      BY Zenon DEF QInv, Clients, FreedIsUnlisted
<1> QED
    BY QInvariant, <1>1, PTL
=============================================================================
