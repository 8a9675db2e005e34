-------------------------- MODULE RetryBudgetProofs --------------------------
(***************************************************************************)
(* The attempts a task gets, for every workflow and every configuration:    *)
(* residual_retry_num and residual_auto_retry_num, which the notifications  *)
(* of a task and of its light tasks update, bound them as on_error and      *)
(* AUTO_RETRY say.                                                          *)
(***************************************************************************)
EXTENDS RetryBudget, WorkflowEngineProofs

USE DEF UNKNOWN, PENDING, RUNNING, COMPLETED, ERROR, START_ERROR, EXECUTE_ERROR, SKIPPED,
        ABORTED, EXPIRED, Status, Active, Ended

(* What the counters of a task and its attempts so far are to one another:  *)
(* s, r, a, m are its status, residual_retry_num, residual_auto_retry_num   *)
(* and mark, n the attempts.                                                *)

(* on_error=repeat: every attempt but the first takes one of the retries.   *)
Repeating(t, s, r, n) ==
    RetryNum[t] > 1 => /\ r >= 1
                       /\ n + r <= RetryNum[t] + IF s = UNKNOWN THEN 0 ELSE 1

(* Any other on_error, without automatic retries: the first attempt only.   *)
AtMostOnce(t, s, r, n) ==
    RetryNum[t] <= 1 => /\ r <= 1
                        /\ RetryNum[t] < 1 \/ AutoRetry = 0 => n <= IF s = UNKNOWN THEN 0 ELSE 1

(* on_error=break with AUTO_RETRY, a task that is not massive: the mark     *)
(* comes with the first start error, and the counter with it.               *)
AutoSingle(t, s, a, m, n) ==
    RetryNum[t] = 1 /\ AutoRetry > 0 /\ LightOf(t) = {} =>
        IF m THEN a >= 1 /\ n + a <= AutoRetry + IF s = UNKNOWN THEN 1 ELSE 2
        ELSE a = 0 /\ n <= IF s = UNKNOWN THEN 0 ELSE 1

(* The same for a massive task: the counter starts when the task ends.      *)
AutoMassive(t, s, a, n) ==
    RetryNum[t] = 1 /\ AutoRetry > 0 /\ LightOf(t) # {} =>
        IF a > 0 THEN n + a <= AutoRetry + IF s = UNKNOWN THEN 2 ELSE 3
        ELSE n <= IF s = UNKNOWN THEN 0 ELSE 1

(* Nothing starts a task that has ended again, whatever its counters are.   *)
Within(t, s, r, a, m, n) ==
    /\ n <= Allowed(t)
    /\ Ended(s) \/ /\ Repeating(t, s, r, n) /\ AtMostOnce(t, s, r, n)
                   /\ AutoSingle(t, s, a, m, n) /\ AutoMassive(t, s, a, n)

Budget ==
    /\ attempts \in [Task -> Nat]
    /\ \A t \in Task : Within(t, st[t], retry[t], auto[t], marked[t], attempts[t])

-----------------------------------------------------------------------------
(* Facts on one task.                                                       *)

(* A task that stays as it is, or ends without an attempt being counted.    *)
LEMMA WithinKept ==
    ASSUME NEW t \in Task, NEW s \in Status, NEW r \in Int, NEW a \in Nat, NEW m \in BOOLEAN,
           NEW n \in Nat, NEW u \in Status, u = s \/ Ended(u), Within(t, s, r, a, m, n)
    PROVE  Within(t, u, r, a, m, n)
BY Zenon DEF Within

(* A task that is started: one attempt more.                                *)
LEMMA WithinStarted ==
    ASSUME NEW t \in Task, NEW r \in Int, NEW a \in Nat, NEW m \in BOOLEAN,
           NEW n \in Nat, NEW u \in Status, Active(u), Within(t, UNKNOWN, r, a, m, n)
    PROVE  Within(t, u, r, a, m, n + 1)
<1> USE RetryAssumption, ConfigAssumption
<1>e. ~Ended(UNKNOWN)
      OBVIOUS
<1>w. /\ Repeating(t, UNKNOWN, r, n) /\ AtMostOnce(t, UNKNOWN, r, n)
      /\ AutoSingle(t, UNKNOWN, a, m, n) /\ AutoMassive(t, UNKNOWN, a, n)
      BY <1>e, Zenon DEF Within
<1>1. Repeating(t, u, r, n + 1) /\ AtMostOnce(t, u, r, n + 1)
      BY <1>w DEF Repeating, AtMostOnce
<1>2. AutoSingle(t, u, a, m, n + 1)
      BY <1>w DEF AutoSingle
<1>3. AutoMassive(t, u, a, n + 1)
      BY <1>w DEF AutoMassive
<1>4. n + 1 <= Allowed(t)
      BY <1>w DEF Repeating, AtMostOnce, AutoSingle, AutoMassive, Allowed
<1> QED
    BY <1>1, <1>2, <1>3, <1>4, ZenonT(60) DEF Within

(* The end of the task t in TaskEnds: done with, or tried again.            *)
Finished(t, a) == Ended(st'[t]) /\ auto'[t] = a /\ retry'[t] = retry[t]
TriedByItself(t, a, m) ==
    /\ AutoRetry > 0 /\ m /\ RetryNum[t] = 1 /\ a # 1
    /\ st'[t] = UNKNOWN /\ retry'[t] = retry[t] /\ auto'[t] = OneAttemptLess(a)
TriedAgain(t, a) ==
    /\ RetryNum[t] > 0 /\ retry[t] > 1
    /\ st'[t] = UNKNOWN /\ retry'[t] = retry[t] - 1 /\ auto'[t] = a
GivenUp(t, a) ==
    /\ RetryNum[t] > 0 /\ retry[t] <= 1
    /\ Ended(st'[t]) /\ retry'[t] = retry[t] - 1 /\ auto'[t] = a

(* What the end of a task does to its counters.                             *)
LEMMA EndsCounters ==
    ASSUME TypeOK, NEW t \in Task, NEW s \in Sent \ {RUNNING},
           NEW a \in Nat, NEW m \in BOOLEAN, NEW w \in Status, TaskEnds(t, s, a, m, w)
    PROVE  /\ marked' = [marked EXCEPT ![t] = m]
           /\ Finished(t, a) \/ TriedByItself(t, a, m) \/ TriedAgain(t, a) \/ GivenUp(t, a)
           /\ \A x \in Task \ {t} : retry'[x] = retry[x] /\ auto'[x] = auto[x]
<1>t. /\ st \in [Task -> Status] /\ retry \in [Task -> Int] /\ auto \in [Task -> 0 .. AutoRetry + 1]
      /\ RetryNum \in [Task -> Int] /\ AutoRetry \in Nat
      BY RetryAssumption, ConfigAssumption, ZenonT(60) DEF TypeOK
<1>s. /\ s \in Status /\ Ended(s)
      /\ NotifiedStatus(s) = COMPLETED => s = COMPLETED
      BY NotifiedFacts DEF Sent
<1> DEFINE others == \A x \in Task \ {t} : retry'[x] = retry[x] /\ auto'[x] = auto[x]
           retryable == AutoRetry > 0 /\ m /\ RetryNum[t] = 1 /\ a # 1
<1>0. marked' = [marked EXCEPT ![t] = m]
      BY Zenon DEF TaskEnds
<1>1. ASSUME NEW v \in Status, Ended(v), TaskCompletes(t, v, w), auto' = [auto EXCEPT ![t] = a]
      PROVE  Finished(t, a) /\ others
      BY <1>1, <1>t, Zenon DEF TaskCompletes, Finished
<1>2. ASSUME TaskFailsAndWorkflowContinues(t, s, w), auto' = [auto EXCEPT ![t] = a]
      PROVE  Finished(t, a) /\ others
      BY <1>2, <1>t, <1>s DEF TaskFailsAndWorkflowContinues, AbortBelow, Finished
<1>3. ASSUME retryable, TaskIsRetried(t, retry[t], w), auto' = [auto EXCEPT ![t] = OneAttemptLess(a)]
      PROVE  TriedByItself(t, a, m) /\ others
      BY <1>3, <1>t, Zenon DEF TaskIsRetried, TriedByItself
<1>4. ASSUME RetryNum[t] > 0, retry[t] > 1, TaskIsRetried(t, retry[t] - 1, w), auto' = [auto EXCEPT ![t] = a]
      PROVE  TriedAgain(t, a) /\ others
      BY <1>4, <1>t, Zenon DEF TaskIsRetried, TriedAgain
<1>5. ASSUME RetryNum[t] > 0, ~(retry[t] > 1), TaskFailsAndWorkflowFails(t, s), auto' = [auto EXCEPT ![t] = a]
      PROVE  GivenUp(t, a) /\ others
      BY <1>5, <1>t, <1>s DEF TaskFailsAndWorkflowFails, GivenUp
<1> SUFFICES (Finished(t, a) \/ TriedByItself(t, a, m) \/ TriedAgain(t, a) \/ GivenUp(t, a)) /\ others
    BY <1>0, Zenon
<1> HIDE DEF others
<1>6. CASE RetryNum[t] < 0 \/ NotifiedStatus(s) = COMPLETED
  <2>1. \E v \in Status : Ended(v) /\ TaskCompletes(t, v, w) /\ auto' = [auto EXCEPT ![t] = a]
        BY <1>6, <1>s, <1>t DEF TaskEnds
  <2> QED
      BY <1>1, <2>1, Zenon
<1>7. CASE ~(RetryNum[t] < 0 \/ NotifiedStatus(s) = COMPLETED)
  <2>1. \/ TaskFailsAndWorkflowContinues(t, s, w) /\ auto' = [auto EXCEPT ![t] = a]
        \/ /\ retryable /\ TaskIsRetried(t, retry[t], w)
           /\ auto' = [auto EXCEPT ![t] = OneAttemptLess(a)]
        \/ /\ RetryNum[t] > 0 /\ auto' = [auto EXCEPT ![t] = a]
           /\ IF retry[t] > 1 THEN TaskIsRetried(t, retry[t] - 1, w) ELSE TaskFailsAndWorkflowFails(t, s)
        BY <1>7, Zenon DEF TaskEnds
  <2> HIDE DEF retryable
  <2> QED
      BY <1>2, <1>3, <1>4, <1>5, <2>1, ZenonT(60)
<1> QED
    BY <1>6, <1>7, Zenon

(* The end of a task, once its mark and its counter are set to m and a.     *)
LEMMA WithinEnds ==
    ASSUME TypeOK, NEW t \in Task, Active(st[t]), NEW n \in Nat, NEW a \in Nat, NEW m \in BOOLEAN,
           Within(t, st[t], retry[t], auto[t], marked[t], n),
           AutoSingle(t, st[t], a, m, n),
           TriedByItself(t, a, m) => AutoSingle(t, UNKNOWN, OneAttemptLess(a), m, n),
           LightOf(t) # {} => a = auto[t],
           st'[t] \in Status, retry'[t] \in Int,
           Finished(t, a) \/ TriedByItself(t, a, m) \/ TriedAgain(t, a) \/ GivenUp(t, a)
    PROVE  Within(t, st'[t], retry'[t], auto'[t], m, n)
<1>t. /\ st[t] \in Status /\ retry[t] \in Int /\ auto[t] \in Nat /\ RetryNum[t] \in Int /\ AutoRetry \in Nat
      BY RetryAssumption, ConfigAssumption DEF TypeOK
<1>e. ~Ended(st[t]) /\ ~Ended(UNKNOWN)
      BY <1>t
<1>w. /\ Repeating(t, st[t], retry[t], n) /\ AtMostOnce(t, st[t], retry[t], n)
      /\ AutoMassive(t, st[t], auto[t], n) /\ n <= Allowed(t)
      BY <1>e, Zenon DEF Within
<1>1. CASE Finished(t, a) \/ GivenUp(t, a)
      BY <1>w, <1>1, Zenon DEF Within, Finished, GivenUp
<1>2. CASE TriedByItself(t, a, m)
  <2>1. Repeating(t, st'[t], retry'[t], n) /\ AtMostOnce(t, st'[t], retry'[t], n)
        BY <1>t, <1>w, <1>2 DEF Repeating, AtMostOnce, TriedByItself
  <2>2. AutoSingle(t, st'[t], auto'[t], m, n)
        BY <1>2, Zenon DEF TriedByItself
  <2>3. AutoMassive(t, st'[t], auto'[t], n)
        BY <1>t, <1>w, <1>2 DEF AutoMassive, TriedByItself, OneAttemptLess
  <2> QED
      BY <1>w, <2>1, <2>2, <2>3, Zenon DEF Within
<1>3. CASE TriedAgain(t, a)
  <2>1. Repeating(t, st'[t], retry'[t], n) /\ AtMostOnce(t, st'[t], retry'[t], n)
        BY <1>t, <1>w, <1>3 DEF Repeating, AtMostOnce, TriedAgain
  <2>2. AutoSingle(t, st'[t], auto'[t], m, n)
        BY <1>t, <1>w, <1>3 DEF AutoSingle, TriedAgain, AtMostOnce
  <2>3. AutoMassive(t, st'[t], auto'[t], n)
        BY <1>t, <1>w, <1>3 DEF AutoMassive, TriedAgain, AtMostOnce
  <2> QED
      BY <1>w, <2>1, <2>2, <2>3, Zenon DEF Within
<1> QED
    BY <1>1, <1>2, <1>3, Zenon

(* How a notification about a task that is not massive sets its mark and    *)
(* counter, c and b so far: neither, both, or the counter goes down to one. *)
AutoSet(b, c, a, m) ==
    \/ ~c /\ ~m /\ a = 0
    \/ ~c /\ m /\ a = 1 + AutoRetry
    \/ c /\ m /\ a = IF b > 1 THEN b - 1 ELSE b

(* A task in status u, started n times, about to set them.                  *)
AutoNotified(t, u, b, c, a, m, n) ==
    /\ t \in Task /\ u \in Status /\ u # UNKNOWN /\ n \in Nat
    /\ b \in Nat /\ c \in BOOLEAN /\ a \in Nat /\ m \in BOOLEAN
    /\ AutoSingle(t, u, b, c, n)
    /\ RetryNum[t] = 1 /\ AutoRetry > 0 => AutoSet(b, c, a, m)

(* That leaves the automatic retries right, also after one more.            *)
LEMMA AutoNext ==
    ASSUME NEW t, NEW u, NEW b, NEW c, NEW a, NEW m, NEW n, AutoNotified(t, u, b, c, a, m, n)
    PROVE  /\ \A v \in Status \ {UNKNOWN} : AutoSingle(t, v, a, m, n)
           /\ m /\ a # 1 => AutoSingle(t, UNKNOWN, OneAttemptLess(a), m, n)
<1>k. AutoRetry \in Nat
      BY ConfigAssumption, Zenon
<1>n. /\ t \in Task /\ u # UNKNOWN /\ n \in Nat /\ b \in Nat /\ c \in BOOLEAN /\ a \in Nat /\ m \in BOOLEAN
      /\ AutoSingle(t, u, b, c, n) /\ (RetryNum[t] = 1 /\ AutoRetry > 0 => AutoSet(b, c, a, m))
      BY Zenon DEF AutoNotified
<1> SUFFICES ASSUME RetryNum[t] = 1, AutoRetry > 0, LightOf(t) = {}
             PROVE  /\ \A v \in Status \ {UNKNOWN} : AutoSingle(t, v, a, m, n)
                    /\ m /\ a # 1 => AutoSingle(t, UNKNOWN, OneAttemptLess(a), m, n)
    BY Zenon DEF AutoSingle
<1>1. CASE ~c /\ ~m /\ a = 0
  <2>1. n <= 1
        BY <1>n, <1>1, Zenon DEF AutoSingle
  <2> QED
      BY <1>1, <2>1, Zenon DEF AutoSingle
<1>2. CASE ~c /\ m /\ a = 1 + AutoRetry
  <2>1. n <= 1
        BY <1>n, <1>2, Zenon DEF AutoSingle
  <2>2. /\ a >= 1 /\ n + a <= AutoRetry + 2
        /\ OneAttemptLess(a) >= 1 /\ n + OneAttemptLess(a) <= AutoRetry + 1
        BY <1>k, <1>n, <1>2, <2>1 DEF OneAttemptLess
  <2> QED
      BY <1>2, <2>2, Zenon DEF AutoSingle
<1>3. CASE c /\ m /\ a = IF b > 1 THEN b - 1 ELSE b
  <2>1. b >= 1 /\ n + b <= AutoRetry + 2
        BY <1>n, <1>3, Zenon DEF AutoSingle
  <2>2. /\ a >= 1 /\ n + a <= AutoRetry + 2
        /\ a # 1 => OneAttemptLess(a) >= 1 /\ n + OneAttemptLess(a) <= AutoRetry + 1
        BY <1>k, <1>n, <1>3, <2>1 DEF OneAttemptLess
  <2> QED
      BY <1>3, <2>2, Zenon DEF AutoSingle
<1> QED
    BY <1>n, <1>1, <1>2, <1>3, Zenon DEF AutoSet

(* A notification of a task that is not massive.                            *)
LEMMA SingleBudget ==
    ASSUME TypeOK, TypeOK', NEW t \in Task, Active(st[t]), LightOf(t) = {}, NEW s \in Sent,
           NotifySingle(t, s), NEW n \in Nat, Within(t, st[t], retry[t], auto[t], marked[t], n)
    PROVE  /\ Within(t, st'[t], retry'[t], auto'[t], marked'[t], n)
           /\ \A x \in Task \ {t} : retry'[x] = retry[x] /\ auto'[x] = auto[x] /\ marked'[x] = marked[x]
<1>t. /\ st \in [Task -> Status] /\ retry \in [Task -> Int] /\ auto \in [Task -> 0 .. AutoRetry + 1]
      /\ marked \in [Task -> BOOLEAN] /\ RetryNum[t] \in Int /\ AutoRetry \in Nat
      /\ st'[t] \in Status /\ retry'[t] \in Int
      BY RetryAssumption, ConfigAssumption, Zenon DEF TypeOK
<1>e. ~Ended(st[t])
      BY <1>t
<1>w. /\ Repeating(t, st[t], retry[t], n) /\ AtMostOnce(t, st[t], retry[t], n)
      /\ AutoSingle(t, st[t], auto[t], marked[t], n) /\ n <= Allowed(t)
      BY <1>e, Zenon DEF Within
<1> DEFINE a == AutoAfter(t, s)
           m == MarkedAfter(t, s)
<1>a. /\ a \in Nat /\ m \in BOOLEAN
      BY <1>t DEF AutoAfter, MarkedAfter
<1>b. RetryNum[t] = 1 /\ AutoRetry > 0 => AutoSet(auto[t], marked[t], a, m)
      BY <1>t, <1>w DEF AutoAfter, MarkedAfter, AutoSingle, AutoSet
<1>u. st[t] # UNKNOWN /\ st[t] \in Status /\ RUNNING \in Status /\ RUNNING # UNKNOWN /\ auto[t] \in Nat
      BY <1>t
<1>v. marked[t] \in BOOLEAN
      BY <1>t, Zenon
<1> HIDE DEF a, m
<1>c. /\ AutoSingle(t, st[t], a, m, n) /\ AutoSingle(t, RUNNING, a, m, n)
      /\ m /\ a # 1 => AutoSingle(t, UNKNOWN, OneAttemptLess(a), m, n)
  <2>1. AutoNotified(t, st[t], auto[t], marked[t], a, m, n)
        BY <1>w, <1>a, <1>b, <1>u, <1>v, ZenonT(60) DEF AutoNotified
  <2> QED
      BY <1>u, <2>1, AutoNext, ZenonT(60)
<1>1. CASE s = RUNNING
  <2>1. /\ st'[t] = RUNNING /\ auto' = [auto EXCEPT ![t] = a] /\ marked' = [marked EXCEPT ![t] = m]
        /\ retry' = retry
        BY <1>t, <1>1, NotifiedFacts DEF NotifySingle, a, m
  <2>2. AutoSingle(t, st'[t], a, m, n)
        BY <1>c, <2>1, ZenonT(60)
  <2>3. /\ Repeating(t, st'[t], retry'[t], n) /\ AtMostOnce(t, st'[t], retry'[t], n)
        BY <1>t, <1>w, <2>1 DEF Repeating, AtMostOnce
  <2>4. AutoMassive(t, st'[t], a, n)
        BY Zenon DEF AutoMassive
  <2> QED
      BY <1>t, <1>w, <2>1, <2>2, <2>3, <2>4, ZenonT(60) DEF Within
<1>2. CASE s # RUNNING
  <2>1. NotifiedStatus(s) # RUNNING /\ s \in Sent \ {RUNNING} /\ wstatus \in Status
        BY <1>2, NotifiedFacts DEF Sent, TypeOK
  <2>2. TaskEnds(t, s, a, m, wstatus)
        BY <2>1, ZenonT(60) DEF NotifySingle, a, m
  <2>3. /\ marked' = [marked EXCEPT ![t] = m]
        /\ Finished(t, a) \/ TriedByItself(t, a, m) \/ TriedAgain(t, a) \/ GivenUp(t, a)
        /\ \A x \in Task \ {t} : retry'[x] = retry[x] /\ auto'[x] = auto[x]
        BY <1>a, <2>1, <2>2, EndsCounters, SMTT(30)
  <2>4. TriedByItself(t, a, m) => AutoSingle(t, UNKNOWN, OneAttemptLess(a), m, n)
        BY <1>c, Zenon DEF TriedByItself
  <2>5. Within(t, st'[t], retry'[t], auto'[t], m, n)
        BY <1>t, <1>a, <1>c, <2>3, <2>4, WithinEnds, ZenonT(60)
  <2> QED
      BY <1>t, <2>3, <2>5, ZenonT(60)
<1> QED
    BY <1>1, <1>2, Zenon

(* A notification of a light task.                                          *)
LEMMA LightBudget ==
    ASSUME TypeOK, TypeOK', NEW t \in Task, Active(st[t]), LightOf(t) # {}, NEW l \in Nat, NEW s \in Status,
           NotifyLight(t, l, s), NEW n \in Nat, Within(t, st[t], retry[t], auto[t], marked[t], n)
    PROVE  /\ Within(t, st'[t], retry'[t], auto'[t], marked'[t], n)
           /\ \A x \in Task \ {t} : retry'[x] = retry[x] /\ auto'[x] = auto[x] /\ marked'[x] = marked[x]
<1>t. /\ st \in [Task -> Status] /\ retry \in [Task -> Int] /\ auto \in [Task -> 0 .. AutoRetry + 1]
      /\ marked \in [Task -> BOOLEAN] /\ RetryNum[t] \in Int /\ AutoRetry \in Nat /\ wstatus \in Status
      /\ st'[t] \in Status /\ retry'[t] \in Int
      BY RetryAssumption, ConfigAssumption, Zenon DEF TypeOK
<1>e. ~Ended(st[t])
      BY <1>t
<1>w. /\ Repeating(t, st[t], retry[t], n) /\ AtMostOnce(t, st[t], retry[t], n)
      /\ AutoMassive(t, st[t], auto[t], n) /\ n <= Allowed(t)
      BY <1>e, Zenon DEF Within
<1>s. \A u, a, b : AutoSingle(t, u, a, b, n)
      BY Zenon DEF AutoSingle
<1> DEFINE m == marked[t] \/ (s = START_ERROR /\ AutoRetry > 0 /\ RetryNum[t] = 1 /\ auto[t] # 1)
           nowRunning == NotifiedStatus(s) = RUNNING \/ s = START_ERROR
           wrunning == IF nowRunning /\ wstatus < RUNNING THEN RUNNING ELSE wstatus
           left == LeftAfter(t, s)
           failed == \E j \in LightOf(t) : [lst EXCEPT ![<<t, l>>] = s][<<t, j>>] > COMPLETED
           e == IF failed THEN ERROR ELSE COMPLETED
<1>a. wrunning \in Status /\ m \in BOOLEAN /\ auto[t] \in Nat /\ e \in Sent \ {RUNNING}
      BY <1>t DEF Sent
<1>1. CASE NotifiedStatus(s) = RUNNING \/ left > 0
  <2>1. /\ marked' = [marked EXCEPT ![t] = m]
        /\ st' = [st EXCEPT ![t] = IF nowRunning /\ st[t] < RUNNING THEN RUNNING ELSE st[t]]
        /\ retry' = retry /\ auto' = auto
        BY <1>1, SMTT(30) DEF NotifyLight
  <2>2. Active(st'[t])
        BY <1>t, <2>1
  <2> HIDE DEF m, nowRunning
  <2>u. st[t] # UNKNOWN /\ st'[t] # UNKNOWN /\ ~Ended(st[t]) /\ ~Ended(st'[t])
        BY <1>t, <2>2
  <2>3. Repeating(t, st'[t], retry'[t], n) /\ AtMostOnce(t, st'[t], retry'[t], n)
        BY <1>w, <2>1, <2>2, <2>u, ZenonT(60) DEF Repeating, AtMostOnce
  <2>4. AutoMassive(t, st'[t], auto'[t], n)
        BY <1>w, <2>1, <2>2, <2>u, ZenonT(60) DEF AutoMassive
  <2> QED
      BY <1>t, <1>w, <1>s, <2>1, <2>3, <2>4, ZenonT(60) DEF Within
<1>2. CASE ~(NotifiedStatus(s) = RUNNING \/ left > 0)
  <2>1. TaskEnds(t, e, auto[t], m, wrunning)
        BY <1>2, ZenonT(60) DEF NotifyLight
  <2> HIDE DEF m, wrunning, e
  <2>2. /\ marked' = [marked EXCEPT ![t] = m]
        /\ Finished(t, auto[t]) \/ TriedByItself(t, auto[t], m) \/ TriedAgain(t, auto[t]) \/ GivenUp(t, auto[t])
        /\ \A x \in Task \ {t} : retry'[x] = retry[x] /\ auto'[x] = auto[x]
        BY <1>a, <2>1, EndsCounters, SMTT(30)
  <2>3. Within(t, st'[t], retry'[t], auto'[t], m, n)
        BY <1>t, <1>a, <1>s, <2>2, WithinEnds, ZenonT(60)
  <2> QED
      BY <1>t, <2>2, <2>3, ZenonT(60)
<1> QED
    BY <1>1, <1>2, Zenon

(* The report on a task that had nothing to submit: it has completed.       *)
LEMMA VoidBudget ==
    ASSUME TypeOK, BudgetInv, Live, NEW t \in Task, st[t] = COMPLETED, NotifySingle(t, COMPLETED),
           NEW n \in Nat, Within(t, st[t], retry[t], auto[t], marked[t], n)
    PROVE  /\ Within(t, st'[t], retry'[t], auto'[t], marked'[t], n)
           /\ \A x \in Task \ {t} : retry'[x] = retry[x] /\ auto'[x] = auto[x] /\ marked'[x] = marked[x]
           /\ GraphStep(t)
<1>t. /\ st \in [Task -> Status] /\ auto \in [Task -> 0 .. AutoRetry + 1] /\ wstatus \in Status
      /\ marked \in [Task -> BOOLEAN] /\ AutoRetry \in Nat
      BY ConfigAssumption, Zenon DEF TypeOK
<1>s. COMPLETED \in Sent \ {RUNNING} /\ NotifiedStatus(COMPLETED) # RUNNING /\ Ended(COMPLETED)
      BY NotifiedFacts DEF Sent
<1>1. Effect(t, NoLight, COMPLETED)
      BY <1>s, SingleEffect, Zenon
<1>2. st'[t] = COMPLETED /\ GraphStep(t)
      BY <1>t, <1>1, Zenon DEF Effect, TaskCompletes
<1> DEFINE a == AutoAfter(t, COMPLETED)
           m == MarkedAfter(t, COMPLETED)
<1>3. TaskEnds(t, COMPLETED, a, m, wstatus)
      BY <1>s, ZenonT(60) DEF NotifySingle
<1>4. a \in Nat /\ m \in BOOLEAN
      BY <1>t DEF AutoAfter, MarkedAfter
<1> HIDE DEF a, m
<1>5. /\ marked' = [marked EXCEPT ![t] = m]
      /\ \A x \in Task \ {t} : retry'[x] = retry[x] /\ auto'[x] = auto[x]
      BY <1>t, <1>s, <1>3, <1>4, EndsCounters, SMTT(30)
<1>6. Within(t, st'[t], retry'[t], auto'[t], marked'[t], n)
      BY <1>s, <1>2, Zenon DEF Within
<1> QED
    BY <1>t, <1>2, <1>5, <1>6, Zenon

-----------------------------------------------------------------------------
(* The steps of the engine, as the attempts see them.                       *)
Rest == UNCHANGED <<st, retry, auto, marked>>

(* A notification of t, or of its light task l, is processed; it is about   *)
(* something in execution, or reports that t had nothing to submit.         *)
Notified(t) ==
    /\ Live
    /\ \/ \E s \in Sent : InExecution(t, NoLight) /\ NotifySingle(t, s)
       \/ \E l \in Nat, s \in Status : InExecution(t, l) /\ NotifyLight(t, l, s)
       \/ st[t] = COMPLETED /\ NotifySingle(t, COMPLETED)

(* A notification that comes for something in execution.                    *)
LEMMA NotifyIsNotified ==
    ASSUME TypeOK, NEW t \in Task, NEW l \in Nat \cup {NoLight}, NEW s \in Status,
           l = NoLight => s \in Sent, InExecution(t, l), Notify(t, l, s)
    PROVE  Rest \/ Notified(t)
<1>1. CASE phase # "listed" \/ wstatus >= ABORTED \/ Neglected(t, l, s)
      BY <1>1 DEF Notify, Rest, taskvars, TypeOK
<1>2. CASE ~(phase # "listed" \/ wstatus >= ABORTED \/ Neglected(t, l, s))
  <2>1. Live
        BY <1>2 DEF Live, TypeOK
  <2>2. CASE l = NoLight
        BY <1>2, <2>1, <2>2, ZenonT(60) DEF Notify, Notified
  <2>3. CASE l # NoLight
        BY <1>2, <2>1, <2>3, ZenonT(60) DEF Notify, Notified
  <2> QED
      BY <2>2, <2>3, Zenon
<1> QED
    BY <1>1, <1>2, Zenon

(* Every step of the engine is one of these.                                *)
LEMMA BudgetSteps ==
    EInv /\ [Next]_vars =>
        \/ Rest \/ CancelKills
        \/ \E S, fate, badLight : Launches(S, fate, badLight)
        \/ \E t \in Task : Notified(t)
<1> SUFFICES ASSUME EInv, [Next]_vars, ~Rest, ~CancelKills,
                    \A S, fate, badLight : ~Launches(S, fate, badLight)
             PROVE  \E t \in Task : Notified(t)
    BY Zenon
<1>1. ASSUME NEW r \in requests, NEW s \in Replies, Reply(r, s) PROVE \E t \in Task : Notified(t)
  <2>1. /\ r.task \in Task /\ r.light \in Nat \cup {NoLight} /\ r.status = PENDING
        /\ s \in Sent /\ s \in Status
        BY <1>1 DEF EInv, TypeOK, Request, Reply, Replies, Sent
  <2>2. InExecution(r.task, r.light)
        BY <2>1, ItemsInExecution, Zenon
  <2>3. Notify(r.task, r.light, s) /\ TypeOK
        BY <1>1, Zenon DEF Reply, EInv
  <2> QED
      BY <2>1, <2>2, <2>3, NotifyIsNotified, ZenonT(60)
<1>2. ASSUME NEW r \in requests, Report(r) PROVE \E t \in Task : Notified(t)
  <2>1. /\ r.task \in Task /\ r.light \in Nat \cup {NoLight} /\ r.status \in Status /\ r.status # PENDING
        /\ Notify(r.task, r.light, r.status) /\ TypeOK
        BY <1>2, ZenonT(60) DEF EInv, TypeOK, Request, Report
  <2>2. CASE r.light = NoLight /\ r.status # COMPLETED
    <3>1. r.status = ERROR /\ Ended(st[r.task])
          BY <2>1, <2>2, ZenonT(60) DEF EInv, RequestInv
    <3>2. Neglected(r.task, r.light, r.status)
          BY <2>2, <3>1, NotifiedFacts, ZenonT(60) DEF Neglected, Sent
    <3> QED
        BY <2>1, <3>2, ZenonT(60) DEF Notify, taskvars, Rest
  <2>3. CASE r.light # NoLight
    <3>1. InExecution(r.task, r.light)
          BY <2>3, ItemsInExecution, Zenon
    <3> QED
        BY <2>1, <2>3, <3>1, NotifyIsNotified, ZenonT(60)
  <2>4. CASE r.light = NoLight /\ r.status = COMPLETED
    <3>1. st[r.task] = COMPLETED
      <4>1. COMPLETED # ERROR
            OBVIOUS
      <4> QED
          BY <2>1, <2>4, <4>1, Zenon DEF EInv, RequestInv
    <3>2. CASE phase # "listed" \/ wstatus >= ABORTED
          BY <2>1, <3>2 DEF Notify, Rest, taskvars, TypeOK
    <3>3. CASE ~(phase # "listed" \/ wstatus >= ABORTED)
      <4>1. Live
            BY <2>1, <3>3 DEF Live, TypeOK
      <4>2. ~Neglected(r.task, r.light, r.status)
            BY <2>4, NotifiedFacts DEF Neglected
      <4>3. NotifySingle(r.task, COMPLETED)
            BY <2>1, <2>4, <3>3, <4>2, Zenon DEF Notify
      <4> QED
          BY <2>1, <3>1, <4>1, <4>3, Zenon DEF Notified
    <3> QED
        BY <3>2, <3>3, Zenon
  <2> QED
      BY <2>2, <2>3, <2>4, ZenonT(60)
<1>3. ASSUME NEW j \in jobs, NEW s \in Sent, Notify(j.task, j.light, s) PROVE \E t \in Task : Notified(t)
  <2>1. /\ j.task \in Task /\ j.light \in Nat \cup {NoLight} /\ s \in Status /\ TypeOK
        BY DEF EInv, TypeOK, Job, Sent
  <2>2. InExecution(j.task, j.light)
        BY ItemsInExecution, Zenon
  <2> QED
      BY <1>3, <2>1, <2>2, NotifyIsNotified, ZenonT(60)
<1>4. ASSUME NEW j \in jobs, JobStarts(j) \/ JobCannotStart(j) \/ MonitorAborts(j) \/ \E s \in Outcomes : JobEnds(j, s)
      PROVE  \E t \in Task : Notified(t)
      BY <1>3, <1>4, Zenon DEF JobStarts, JobCannotStart, MonitorAborts, JobEnds, Outcomes, Sent
<1>5. CASE \/ \E c \in execs : ExecuteDangling(c)
           \/ \E z \in scans : ScanDangling(z)
           \/ \E r \in requests : Submit(r) \/ ReportUnheard(r)
           \/ Close \/ CancelDrops \/ \E type \in CancelTypes : Cancel(type)
           \/ UNCHANGED vars
  <2>1. Rest
        BY <1>5, Zenon DEF Rest, ExecuteDangling, ScanDangling, Submit, ReportUnheard, Close, CancelDrops,
              Cancel, taskvars, vars
  <2> QED
      BY <2>1, Zenon
<1>6. ASSUME NEW j \in jobs, JobDies(j) \/ MonitorMisses(j) PROVE Rest
      BY <1>6, JobIsLost, Zenon DEF Rest, taskvars
<1>7. ASSUME NEW q \in queries, NEW s \in Answers, ScanEnds(q, s) PROVE Rest
      BY <1>7, ScanAnswers, Zenon DEF Rest, Quietly, taskvars
<1>8. \A c \in execs : ~Execute(c)
      BY ExecuteLaunches, Zenon
<1>9. \A z \in scans : ~ScanReturns(z) /\ ~ScanRefused(z)
      BY ReturnLaunches, Zenon
<1> QED
    BY <1>1, <1>2, <1>4, <1>5, <1>6, <1>7, <1>8, <1>9, ZenonT(60) DEF Next, Quiet

-----------------------------------------------------------------------------
(* The invariant is inductive.                                              *)

(* No attempt has been made when the workflow is submitted.                 *)
LEMMA InitBudget == BInit => Budget
<1> SUFFICES ASSUME BInit PROVE Budget
    BY Zenon
<1>1. /\ attempts \in [Task -> Nat]
      /\ \A t \in Task : /\ st[t] = UNKNOWN /\ retry[t] = RetryNum[t] /\ auto[t] = 0 /\ ~marked[t]
                         /\ attempts[t] = 0
      BY Zenon DEF BInit, Init
<1>2. RetryNum \in [Task -> Int] /\ AutoRetry \in Nat
      BY RetryAssumption, ConfigAssumption, ZenonT(60)
<1>3. \A t \in Task : Within(t, st[t], retry[t], auto[t], marked[t], attempts[t])
      BY <1>1, <1>2 DEF Within, Repeating, AtMostOnce, AutoSingle, AutoMassive, Allowed
<1> QED
    BY <1>1, <1>3, Zenon DEF Budget

(* A task whose counters stay, and that is not set back.                    *)
LEMMA KeptBudget ==
    ASSUME TypeOK, TypeOK', Budget, NEW t \in Task,
           retry'[t] = retry[t], auto'[t] = auto[t], marked'[t] = marked[t],
           attempts'[t] = attempts[t] + (IF st[t] = UNKNOWN /\ Active(st'[t]) THEN 1 ELSE 0),
           st'[t] = st[t] \/ Ended(st'[t]) \/ (st[t] = UNKNOWN /\ Active(st'[t]))
    PROVE  Within(t, st'[t], retry'[t], auto'[t], marked'[t], attempts'[t])
<1>t. /\ st[t] \in Status /\ st'[t] \in Status /\ retry[t] \in Int /\ auto[t] \in Nat /\ marked[t] \in BOOLEAN
      /\ attempts[t] \in Nat
      BY ConfigAssumption DEF TypeOK, Budget
<1>w. Within(t, st[t], retry[t], auto[t], marked[t], attempts[t])
      BY Zenon DEF Budget
<1>1. CASE st[t] = UNKNOWN /\ Active(st'[t])
  <2>1. Within(t, st'[t], retry[t], auto[t], marked[t], attempts[t] + 1)
        BY <1>1, <1>t, <1>w, WithinStarted, ZenonT(60)
  <2> QED
      BY <1>1, <2>1, Zenon
<1>2. CASE ~(st[t] = UNKNOWN /\ Active(st'[t]))
  <2>1. Within(t, st'[t], retry[t], auto[t], marked[t], attempts[t])
        BY <1>2, <1>t, <1>w, WithinKept, ZenonT(60)
  <2>2. attempts'[t] = attempts[t]
        BY <1>2, <1>t, SMTT(30)
  <2> QED
      BY <2>1, <2>2, ZenonT(60)
<1> QED
    BY <1>1, <1>2, ZenonT(60)

(* A notification keeps every task within its attempts.                     *)
LEMMA NotifiedBudget ==
    ASSUME EInv, TypeOK', Budget, NEW x \in Task, Notified(x), NEW t \in Task,
           attempts'[t] = attempts[t] + (IF st[t] = UNKNOWN /\ Active(st'[t]) THEN 1 ELSE 0)
    PROVE  Within(t, st'[t], retry'[t], auto'[t], marked'[t], attempts'[t])
<1>t. /\ TypeOK /\ BudgetInv /\ Live /\ st \in [Task -> Status] /\ attempts[x] \in Nat
      /\ Within(x, st[x], retry[x], auto[x], marked[x], attempts[x])
      BY Zenon DEF EInv, TypeOK, Budget, Notified
<1> DEFINE Kept == /\ Within(x, st'[x], retry'[x], auto'[x], marked'[x], attempts[x])
                   /\ \A y \in Task \ {x} : /\ retry'[y] = retry[y] /\ auto'[y] = auto[y]
                                            /\ marked'[y] = marked[y]
                   /\ GraphStep(x)
<1>2. ASSUME NEW s \in Sent, InExecution(x, NoLight), NotifySingle(x, s) PROVE Active(st[x]) /\ Kept
  <2>1. LightOf(x) = {} /\ Active(st[x])
        BY <1>t, <1>2, Zenon DEF InExecution
  <2>2. Effect(x, NoLight, s)
        BY <1>t, <1>2, SingleEffect, ZenonT(60)
  <2> QED
      BY <1>t, <1>2, <2>1, <2>2, SingleBudget, ZenonT(60) DEF Effect
<1>3. ASSUME NEW l \in Nat, NEW s \in Status, InExecution(x, l), NotifyLight(x, l, s) PROVE Active(st[x]) /\ Kept
  <2>0. l # NoLight
        BY DEF NoLight
  <2>1. LightOf(x) # {} /\ Active(st[x])
        BY <1>t, <1>3, <2>0, Zenon DEF InExecution
  <2>2. Effect(x, l, s)
        BY <1>t, <1>3, <2>1, LightEffect, ZenonT(60)
  <2> QED
      BY <1>t, <1>3, <2>1, <2>2, LightBudget, ZenonT(60) DEF Effect
<1>v. ASSUME st[x] = COMPLETED, NotifySingle(x, COMPLETED) PROVE Kept
      BY <1>t, <1>v, VoidBudget, Zenon
<1>4. Kept /\ (Active(st[x]) \/ st[x] = COMPLETED)
  <2> HIDE DEF Kept
  <2> QED
      BY <1>2, <1>3, <1>v, Zenon DEF Notified
<1>5. CASE t = x
  <2>1. attempts'[x] = attempts[x]
    <3>1. st[x] # UNKNOWN
          BY <1>t, <1>4
    <3> QED
        BY <1>t, <1>5, <3>1
  <2> QED
      BY <1>4, <1>5, <2>1, ZenonT(60)
<1>6. CASE t # x
  <2>1. st'[t] = st[t] \/ Ended(st'[t])
        BY <1>4, <1>6, SMTT(30) DEF GraphStep
  <2> QED
      BY <1>t, <1>4, <1>6, <2>1, KeptBudget, ZenonT(60)
<1> QED
    BY <1>5, <1>6, Zenon

(* Every step keeps every task within its attempts.                         *)
LEMMA BudgetStep == EInv /\ EInv' /\ Budget /\ [BNext]_bvars => Budget'
<1> SUFFICES ASSUME EInv, EInv', Budget, [BNext]_bvars PROVE Budget'
    BY Zenon
<1>0. TypeOK /\ TypeOK' /\ attempts \in [Task -> Nat] /\ st \in [Task -> Status] /\ st' \in [Task -> Status]
      BY Zenon DEF EInv, TypeOK, Budget
<1>1. CASE BNext
  <2>1. /\ [Next]_vars
        /\ attempts' = [t \in Task |-> attempts[t] + IF st[t] = UNKNOWN /\ Active(st'[t]) THEN 1 ELSE 0]
        BY <1>1, Zenon DEF BNext
  <2>2. /\ attempts' \in [Task -> Nat]
        /\ \A t \in Task : attempts'[t] = attempts[t] + (IF st[t] = UNKNOWN /\ Active(st'[t]) THEN 1 ELSE 0)
        BY <1>0, <2>1
  <2> SUFFICES ASSUME NEW t \in Task PROVE Within(t, st'[t], retry'[t], auto'[t], marked'[t], attempts'[t])
      BY <2>2, Zenon DEF Budget
  <2>3. CASE Rest
        BY <1>0, <2>2, <2>3, KeptBudget, ZenonT(60) DEF Rest
  <2>4. CASE CancelKills
    <3>1. UNCHANGED <<retry, auto, marked>>
          BY <2>4, ZenonT(60) DEF CancelKills
    <3>2. st'[t] = st[t] \/ Ended(st'[t])
          BY <1>0, <2>4 DEF CancelKills, Aborts
    <3> QED
        BY <1>0, <2>2, <3>1, <3>2, KeptBudget, ZenonT(60)
  <2>5. ASSUME NEW S, NEW fate, NEW badLight, Launches(S, fate, badLight)
        PROVE  Within(t, st'[t], retry'[t], auto'[t], marked'[t], attempts'[t])
    <3>0. Launch(S, fate, badLight)
          BY <2>5, Zenon DEF Launches
    <3>1. UNCHANGED <<retry, auto, marked>> /\ fate \in [S -> Fates] /\ \A y \in S : st[y] = UNKNOWN
          BY <3>0, Zenon DEF Launch
    <3>2. Launched(S, fate)
          BY <3>0, LaunchEffect, Zenon
    <3>3. st'[t] = st[t] \/ Ended(st'[t]) \/ (st[t] = UNKNOWN /\ Active(st'[t]))
      <4>1. t \in S => fate[t] \in {"served", "void", "wrong", "bad"}
            BY <3>1, Zenon DEF Fates
      <4>2. Ended(COMPLETED) /\ Ended(ERROR) /\ Ended(ABORTED)
            OBVIOUS
      <4> HIDE DEF Ended, Active
      <4> QED
          BY <3>1, <3>2, <4>1, <4>2, ZenonT(60) DEF Launched
    <3> QED
        BY <1>0, <2>2, <3>1, <3>3, KeptBudget, ZenonT(60)
  <2>6. ASSUME NEW x \in Task, Notified(x) PROVE Within(t, st'[t], retry'[t], auto'[t], marked'[t], attempts'[t])
        BY <1>0, <2>2, <2>6, NotifiedBudget, ZenonT(60)
  <2> QED
      BY <2>1, <2>3, <2>4, <2>5, <2>6, BudgetSteps, ZenonT(60)
<1>2. CASE UNCHANGED bvars
      BY <1>2, Zenon DEF bvars, vars, Budget
<1> QED
    BY <1>1, <1>2, ZenonT(60)

(* However start errors, failures and repeated notifications follow one     *)
(* another, a task never gets more attempts than its on_error and           *)
(* AUTO_RETRY allow.                                                        *)
THEOREM BoundOnAttempts == Orderly /\ BSpec => []AttemptsBounded
<1>1. Orderly /\ BInit => EInv
      BY InitE, Zenon DEF BInit
<1>2. EInv /\ [BNext]_bvars => EInv'
  <2>1. [BNext]_bvars => [Next]_vars
        BY Zenon DEF BNext, bvars
  <2> QED
      BY <2>1, EInvStep, ZenonT(60)
<1>3. Budget => AttemptsBounded
      BY Zenon DEF Budget, Within, AttemptsBounded
<1> QED
    BY <1>1, <1>2, <1>3, InitBudget, BudgetStep, PTL DEF BSpec
=============================================================================
