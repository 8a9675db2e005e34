--------------------------- MODULE DagCheckProofs ---------------------------
(***************************************************************************)
(* The checks on a workflow decide exactly whether it is a graph without     *)
(* cycles, for any number of tasks and dependences.  The inductive invariant *)
(* DInv follows the loops:                                                   *)
(*  - while the names are turned into indexes, a task is among the dependents *)
(*    of another as often as it names it;                                    *)
(*  - while the edges are removed, the two copies of an edge are removed      *)
(*    together, the counters agree with the edges left, an incoming edge is   *)
(*    missing only if its source was removed before its target, and a task    *)
(*    without incoming edges is in S or has been removed from it.             *)
(***************************************************************************)
EXTENDS DagCheck, FiniteSetTheorems, SequenceTheorems, WellFoundedInduction, TLAPS

Edge == Task \cup {None}

Positions(s, x) == {e \in 1 .. Len(s) : s[e] = x}

Present(s) == {e \in 1 .. Len(s) : s[e] # None}

Ranked == {t \in Task : rank[t] # 0}

Sorting == pc \in {"collect", "sort", "edges"}

Types ==
    /\ name \in [Task -> Name] /\ deps \in [Task -> Seq(Name)]
    /\ task_index \in [Task -> Seq(Edge)] /\ dependents \in [Task -> Seq(Edge)]
    /\ in_edges \in [Task -> Seq(Edge)] /\ out_edges \in [Task -> Seq(Edge)]
    /\ in_num \in [Task -> Int] /\ out_num \in [Task -> Int]
    /\ S \in Seq(Task) /\ i \in Nat \ {0} /\ j \in Nat \ {0} /\ n \in Edge
    /\ pc \in {"index", "collect", "sort", "edges", "valid", "accepted", "refused"}
    /\ rank \in [Task -> Nat]

Indexed(t, d) == t < i \/ (t = i /\ d < j)

IndexInv ==
    /\ S = << >> /\ \A t \in Task : rank[t] = 0
    /\ \A t \in Task : Len(task_index[t]) = Len(deps[t])
    /\ \A t \in Task : \A d \in 1 .. Len(deps[t]) :
         IF Indexed(t, d)
         THEN task_index[t][d] \in Task /\ name[task_index[t][d]] = deps[t][d]
         ELSE task_index[t][d] = None
    /\ \A t, k \in Task :
         Cardinality(Positions(dependents[k], t)) = Cardinality(Positions(task_index[t], k))
    /\ \A k \in Task : Positions(dependents[k], None) = {}

Twins == \A t, k \in Task :
           Cardinality(Positions(out_edges[k], t)) = Cardinality(Positions(in_edges[t], k))

Counted ==
    \A t \in Task : /\ in_num[t] = Cardinality(Present(in_edges[t]))
                    /\ out_num[t] = Cardinality(Present(out_edges[t]))

SourceFirst(t, u) == rank[u] # 0 /\ (rank[t] # 0 => rank[u] < rank[t])

EdgesInv ==
    \A t \in Task :
      /\ Len(in_edges[t]) = Len(deps[t])
      /\ \A e \in 1 .. Len(deps[t]) :
           IF in_edges[t][e] # None
           THEN name[in_edges[t][e]] = deps[t][e]
           ELSE \E u \in Task : name[u] = deps[t][e] /\ SourceFirst(t, u)

Distinct == \A x, y \in 1 .. Len(S) : S[x] = S[y] => x = y

QueueInv ==
    /\ Distinct
    /\ \A x \in 1 .. Len(S) : rank[S[x]] = 0 /\ in_num[S[x]] = 0
    /\ \A t \in Task : rank[t] # 0 => in_num[t] = 0
    /\ \A t \in Task : rank[t] <= Cardinality(Ranked)

InS(t) == \E x \in 1 .. Len(S) : S[x] = t

NoOut(k) == \A e \in 1 .. Len(out_edges[k]) : out_edges[k][e] = None

CollectInv ==
    /\ Ranked = {}
    /\ \A x \in 1 .. Len(S) : S[x] < i
    /\ \A t \in Task : t < i /\ in_num[t] = 0 => InS(t)

FreeFound == \A t \in Task : in_num[t] = 0 => InS(t) \/ rank[t] # 0

SortInv ==
    /\ FreeFound
    /\ \A k \in Ranked : pc = "sort" \/ k # n => NoOut(k)

EdgesLoopInv ==
    /\ n \in Task /\ rank[n] # 0
    /\ \A e \in 1 .. Len(out_edges[n]) : e < i => out_edges[n][e] = None

DInv ==
    /\ Types
    /\ pc = "index" => IndexInv
    /\ Sorting => ~ SameName /\ Twins /\ Counted /\ EdgesInv
    /\ QueuedOnce
    /\ Sorting => QueueInv
    /\ pc = "collect" => CollectInv
    /\ pc \in {"sort", "edges"} => SortInv
    /\ pc = "edges" => EdgesLoopInv
    /\ pc \in {"valid", "accepted"} => WellFormed
    /\ pc = "accepted" => initial # {}
    /\ pc = "refused" => ~ WellFormed

-----------------------------------------------------------------------------
(* Sequences of edges *)

(* Tasks are positive numbers, so None is not one of them.                  *)
LEMMA TaskIs ==
    /\ \A t \in Task : t \in Nat /\ t >= 1 /\ t <= N /\ t # None /\ t \in Edge
    /\ None \in Edge /\ None \notin Task /\ N \in Nat
BY TasksAssumption DEF Task, None, Edge

(* The positions of a value in a sequence are finitely many.                *)
LEMMA PositionsFinite ==
    ASSUME NEW s \in Seq(Edge), NEW x
    PROVE  /\ IsFiniteSet(Positions(s, x))
           /\ Cardinality(Positions(s, x)) \in Nat
           /\ Cardinality(Positions(s, x)) = 0 <=> Positions(s, x) = {}
<1>1. Len(s) \in Nat
      BY LenProperties, Zenon
<1>2. IsFiniteSet(1 .. Len(s))
      BY <1>1, FS_Interval
<1>3. Positions(s, x) \in SUBSET (1 .. Len(s))
      BY Zenon DEF Positions
<1>4. IsFiniteSet(Positions(s, x))
      BY <1>2, <1>3, FS_Subset, Zenon
<1> QED
    BY <1>4, FS_CardinalityType, FS_EmptySet, Zenon

(* So are the edges left.                                                   *)
LEMMA PresentFinite ==
    ASSUME NEW s \in Seq(Edge)
    PROVE  /\ IsFiniteSet(Present(s))
           /\ Cardinality(Present(s)) \in Nat
           /\ Cardinality(Present(s)) = 0 <=> Present(s) = {}
<1>1. Len(s) \in Nat
      BY LenProperties, Zenon
<1>2. IsFiniteSet(1 .. Len(s))
      BY <1>1, FS_Interval
<1>3. Present(s) \in SUBSET (1 .. Len(s))
      BY Zenon DEF Present
<1>4. IsFiniteSet(Present(s))
      BY <1>2, <1>3, FS_Subset, Zenon
<1> QED
    BY <1>4, FS_CardinalityType, FS_EmptySet, Zenon

(* A sequence without None has all its edges.                               *)
LEMMA AllPresent ==
    ASSUME NEW s \in Seq(Edge), \A e \in 1 .. Len(s) : s[e] # None
    PROVE  Cardinality(Present(s)) = Len(s)
<1>1. Present(s) = 1 .. Len(s) /\ Len(s) \in Nat
      BY LenProperties, Zenon DEF Present
<1>i. 1 \in Int /\ Len(s) \in Int
      BY <1>1
<1>2. Cardinality(1 .. Len(s)) = IF 1 > Len(s) THEN 0 ELSE Len(s) - 1 + 1
      BY <1>i, FS_Interval, Zenon
<1> QED
    BY <1>1, <1>2

(* Appending a value adds one position of it.                               *)
LEMMA AppendPositions ==
    ASSUME NEW s \in Seq(Edge), NEW y \in Edge, NEW x
    PROVE  Cardinality(Positions(Append(s, y), x))
             = IF x = y THEN Cardinality(Positions(s, x)) + 1 ELSE Cardinality(Positions(s, x))
<1>1. /\ Len(s) \in Nat /\ Len(Append(s, y)) = Len(s) + 1
      /\ Append(s, y)[Len(s) + 1] = y
      /\ \A e \in 1 .. Len(s) : Append(s, y)[e] = s[e]
      BY LenProperties, AppendProperties
<1>2. CASE x = y
  <2>1. Positions(Append(s, y), x) = Positions(s, x) \cup {Len(s) + 1}
        BY <1>1, <1>2 DEF Positions
  <2>2. Len(s) + 1 \notin Positions(s, x)
        BY <1>1 DEF Positions
  <2>3. Cardinality(Positions(s, x) \cup {Len(s) + 1}) = Cardinality(Positions(s, x)) + 1
        BY <2>2, PositionsFinite, FS_AddElement, Zenon
  <2> QED
      BY <1>2, <2>1, <2>3, Zenon
<1>3. CASE x # y
  <2>1. Positions(Append(s, y), x) = Positions(s, x)
        BY <1>1, <1>3 DEF Positions
  <2> QED
      BY <1>3, <2>1, Zenon
<1> QED
    BY <1>2, <1>3, Zenon

(* Appending a task keeps the tasks before it.                              *)
LEMMA AppendedTask ==
    ASSUME NEW s \in Seq(Task), NEW t \in Task
    PROVE  /\ Append(s, t) \in Seq(Task) /\ Len(Append(s, t)) = Len(s) + 1
           /\ Append(s, t)[Len(s) + 1] = t
           /\ \A x \in 1 .. Len(s) : Append(s, t)[x] = s[x] /\ x \in 1 .. Len(Append(s, t))
<1>1. /\ Len(s) \in Nat /\ Append(s, t) \in Seq(Task) /\ Len(Append(s, t)) = Len(s) + 1
      /\ Append(s, t)[Len(s) + 1] = t
      /\ \A x \in 1 .. Len(s) : Append(s, t)[x] = s[x]
      BY LenProperties, AppendProperties
<1> QED
    BY <1>1

(* Replacing a value takes one of its positions and adds one of the other.  *)
LEMMA ExceptPositions ==
    ASSUME NEW s \in Seq(Edge), NEW e \in 1 .. Len(s), NEW y \in Edge, s[e] # y, NEW x,
           NEW r, r = [s EXCEPT ![e] = y]
    PROVE  /\ x = y => Cardinality(Positions(r, x)) = Cardinality(Positions(s, x)) + 1
           /\ x = s[e] => Cardinality(Positions(r, x)) = Cardinality(Positions(s, x)) - 1
           /\ x # y /\ x # s[e] => Positions(r, x) = Positions(s, x)
<1>1. Len(r) = Len(s) /\ \A d \in 1 .. Len(s) : r[d] = IF d = e THEN y ELSE s[d]
      BY ExceptSeq
<1>2. CASE x = y
  <2>1. Positions(r, x) = Positions(s, x) \cup {e} /\ e \notin Positions(s, x)
        BY <1>1, <1>2, Zenon DEF Positions
  <2>2. Cardinality(Positions(r, x)) = Cardinality(Positions(s, x)) + 1
        BY <2>1, PositionsFinite, FS_AddElement, Zenon
  <2> QED
      BY <1>2, <2>2, Zenon
<1>3. CASE x # y /\ x = s[e]
  <2>1. Positions(r, x) = Positions(s, x) \ {e} /\ e \in Positions(s, x)
        BY <1>1, <1>3 DEF Positions
  <2>3. IsFiniteSet(Positions(s, x))
        BY PositionsFinite, Zenon
  <2>2. Cardinality(Positions(r, x)) = Cardinality(Positions(s, x)) - 1
        BY <2>1, <2>3, FS_RemoveElement, Zenon
  <2> QED
      BY <1>3, <2>2, Zenon
<1>4. CASE x # y /\ x # s[e]
  <2>1. Positions(r, x) = Positions(s, x)
        BY <1>1, <1>4, Zenon DEF Positions
  <2> QED
      BY <1>4, <2>1, Zenon
<1> QED
    BY <1>2, <1>3, <1>4, Zenon

(* Removing an edge leaves one edge less.                                   *)
LEMMA ExceptPresent ==
    ASSUME NEW s \in Seq(Edge), NEW e \in 1 .. Len(s), s[e] # None
    PROVE  Cardinality(Present([s EXCEPT ![e] = None])) = Cardinality(Present(s)) - 1
<1> DEFINE r == [s EXCEPT ![e] = None]
<1>1. Len(r) = Len(s) /\ \A d \in 1 .. Len(s) : r[d] = IF d = e THEN None ELSE s[d]
      BY ExceptSeq DEF Edge
<1> HIDE DEF r
<1>2. Present(r) = Present(s) \ {e} /\ e \in Present(s)
      BY <1>1, Zenon DEF Present
<1>3. Cardinality(Present(r)) = Cardinality(Present(s)) - 1
      BY <1>2, PresentFinite, FS_RemoveElement, Zenon
<1> QED
    BY <1>3, Zenon DEF r

(* A set of numbers has a least element.                                    *)
LEMMA LeastIn ==
    ASSUME NEW P, P \subseteq Nat, P # {}
    PROVE  First(P) \in P /\ \A y \in P : First(P) <= y
<1> DEFINE R == {ss \in Nat \X Nat : ss[1] < ss[2]}
<1>1. IsWellFoundedOn(R, Nat)
      BY NatLessThanWellFounded, Zenon DEF OpToRel
<1>2. PICK x \in P : \A y \in P : ~ (<<y, x>> \in R)
  <2> HIDE DEF R
  <2> QED
      BY <1>1, WFMin, Zenon
<1>3. \A y \in P : ~ (y < x)
      BY <1>2, Zenon
<1>4. \A y \in P : x <= y
      BY <1>3
<1> QED
    BY <1>4, Zenon DEF First

-----------------------------------------------------------------------------
(* The steps *)

(* The invariant holds when the request has been read.                      *)
LEMMA DInvInit == Init => DInv
<1> SUFFICES ASSUME Init PROVE DInv
    BY Zenon
<1>1. name \in [Task -> Name] /\ pc = "index" /\ i = 1 /\ j = 1 /\ S = << >> /\ n = None
      BY NamingAssumption, Zenon DEF Init
<1>2. deps \in [Task -> Seq(Name)]
  <2>1. ASSUME NEW t \in Task PROVE deps[t] \in Seq(Name)
    <3>0. deps[t] \in UNION {[1 .. d -> Name] : d \in 0 .. MaxDeps}
          BY Zenon DEF Init
    <3>1. PICK d \in 0 .. MaxDeps : deps[t] \in [1 .. d -> Name]
          BY <3>0, Zenon
    <3>2. d \in Nat
          BY TasksAssumption
    <3> QED
        BY <3>1, <3>2
  <2> QED
      BY <2>1, Zenon DEF Init
<1>3. \A t \in Task : /\ task_index[t] = [d \in 1 .. Len(deps[t]) |-> None]
                      /\ Len(deps[t]) \in Nat
      BY <1>2, LenProperties, Zenon DEF Init
<1>4. task_index \in [Task -> Seq(Edge)] /\ \A t \in Task : Len(task_index[t]) = Len(deps[t])
  <2>1. \A t \in Task : task_index[t] \in [1 .. Len(deps[t]) -> Edge]
        BY <1>3, Zenon DEF Edge
  <2>2. \A t \in Task : task_index[t] \in Seq(Edge) /\ Len(task_index[t]) = Len(deps[t])
        BY <1>3, <2>1
  <2> QED
      BY <2>2, Zenon DEF Init
<1>5. /\ dependents = [t \in Task |-> << >>] /\ in_edges = [t \in Task |-> << >>]
      /\ out_edges = [t \in Task |-> << >>] /\ << >> \in Seq(Edge) /\ << >> \in Seq(Task)
      BY EmptySeq, Zenon DEF Init
<1>6. Types
      BY <1>1, <1>2, <1>4, <1>5 DEF Init, Types, Edge
<1>7. \A t \in Task : rank[t] = 0
      BY Zenon DEF Init
<1>8. IndexInv
  <2>1. ASSUME NEW t \in Task, NEW d \in 1 .. Len(deps[t])
        PROVE  ~ Indexed(t, d) /\ task_index[t][d] = None
    <3>1. t \in Nat /\ t >= 1 /\ d \in Nat /\ d >= 1
          BY <1>3, TaskIs
    <3>2. task_index[t][d] = None
          BY <1>3, Zenon
    <3>3. ~ (t < i \/ (t = i /\ d < j))
          BY <1>1, <3>1
    <3> QED
        BY <3>2, <3>3, Zenon DEF Indexed
  <2>2. ASSUME NEW t \in Task, NEW k \in Task
        PROVE  Positions(dependents[k], t) = {} /\ Positions(task_index[t], k) = {}
    <3>1. Positions(dependents[k], t) = {}
          BY <1>5 DEF Positions
    <3>2. \A e \in 1 .. Len(task_index[t]) : task_index[t][e] # k
          BY <1>3, <1>4, TaskIs, Zenon
    <3> QED
        BY <3>1, <3>2, Zenon DEF Positions
  <2>3. \A k \in Task : Positions(dependents[k], None) = {}
        BY <1>5 DEF Positions
  <2> QED
      BY <1>1, <1>4, <1>7, <2>1, <2>2, <2>3, Zenon DEF IndexInv
<1> QED
    BY <1>1, <1>6, <1>8 DEF DInv, QueuedOnce, Sorting

(* Being well-formed is a matter of the request.                            *)
LEMMA WellFormedStays ==
    ASSUME UNCHANGED wf
    PROVE  WellFormed' <=> WellFormed
BY DEF WellFormed, Acyclic, DependsOn, wf

(* What a refusal needs: a reason.                                          *)
LEMMA RefuseStep ==
    ASSUME DInv, Refuse, ~ WellFormed
    PROVE  DInv'
<1>1. Types'
      BY Zenon DEF DInv, Types, Refuse, wf, indexes, graph
<1>2. QueuedOnce'
      BY Zenon DEF DInv, QueuedOnce, Refuse
<1>3. ~ WellFormed'
      BY WellFormedStays, Zenon DEF Refuse
<1> QED
    BY <1>1, <1>2, <1>3, Zenon DEF DInv, Refuse, Sorting

(* The names are being turned into indexes.                                 *)
LEMMA IndexStill ==
    ASSUME Types', IndexInv', pc' = "index"
    PROVE  DInv'
<1>1. QueuedOnce'
      BY DEF IndexInv, QueuedOnce
<1> QED
    BY <1>1, Zenon DEF DInv, Sorting

(* A dependence is turned into an index, or is wrong.                       *)
LEMMA IndexDependenceStep ==
    ASSUME DInv, IndexDependence
    PROVE  DInv'
<1>0. /\ i \in Task /\ j \in 1 .. Len(deps[i]) /\ pc = "index"
      /\ Types /\ IndexInv /\ Len(deps[i]) \in Nat
  <2>1. Types /\ IndexInv /\ pc = "index" /\ i <= N /\ j <= Len(deps[i])
        BY Zenon DEF DInv, IndexDependence
  <2>2. i \in Nat \ {0} /\ j \in Nat \ {0} /\ deps \in [Task -> Seq(Name)]
        BY <2>1, Zenon DEF Types
  <2>3. i \in Task
        BY <2>1, <2>2, TasksAssumption DEF Task
  <2>4. Len(deps[i]) \in Nat
        BY <2>2, <2>3, LenProperties, Zenon
  <2> QED
      BY <2>1, <2>2, <2>3, <2>4
<1>1. CASE BadName(i, j)
  <2>0. Refuse
        BY <1>1, Zenon DEF IndexDependence
  <2>1. CASE deps[i][j] = name[i]
    <3>1. {i} \in SUBSET Task /\ {i} # {} /\ DependsOn(i, i)
          BY <1>0, <2>1, Zenon DEF DependsOn
    <3>2. ~ Acyclic
          BY <3>1, Zenon DEF Acyclic
    <3> QED
        BY <2>0, <3>2, RefuseStep, Zenon DEF WellFormed
  <2>2. CASE ~ \E k \in Task : name[k] = deps[i][j]
    <3>1. ~ WellFormed
          BY <1>0, <2>2, ZenonT(60) DEF WellFormed
    <3> QED
        BY <2>0, <3>1, RefuseStep, Zenon
  <2> QED
      BY <1>1, <2>1, <2>2, Zenon DEF BadName
<1>2. CASE ~ BadName(i, j)
  <2> DEFINE P == {x \in Task : name[x] = deps[i][j]}
             k == First(P)
  <2>1. k \in Task /\ name[k] = deps[i][j]
    <3>1. P \subseteq Nat /\ P # {}
          BY <1>2 DEF BadName, Task
    <3>2. First(P) \in P
      <4> HIDE DEF P
      <4> QED
          BY <3>1, LeastIn, Zenon
    <3> QED
        BY <3>2, Zenon
  <2>2. /\ task_index' = [task_index EXCEPT ![i] = [task_index[i] EXCEPT ![j] = k]]
        /\ dependents' = [dependents EXCEPT ![k] = Append(dependents[k], i)]
        /\ j' = j + 1 /\ UNCHANGED <<wf, graph, S, i, n, pc, initial, rank>>
        BY <1>2, Zenon DEF IndexDependence
  <2> HIDE DEF k, P
  <2>3. /\ task_index[i] \in Seq(Edge) /\ j \in 1 .. Len(task_index[i]) /\ k \in Edge /\ k # None
        /\ task_index[i][j] = None /\ dependents[k] \in Seq(Edge) /\ i \in Edge
    <3>1. /\ task_index \in [Task -> Seq(Edge)] /\ dependents \in [Task -> Seq(Edge)]
          /\ i \in Nat /\ j \in Nat
          BY <1>0, Zenon DEF Types
    <3>2. Len(task_index[i]) = Len(deps[i]) /\ ~ Indexed(i, j)
          BY <1>0, <3>1 DEF IndexInv, Indexed
    <3>3. task_index[i][j] = None
          BY <1>0, <3>2, Zenon DEF IndexInv
    <3> QED
        BY <1>0, <2>1, <3>1, <3>2, <3>3, TaskIs, Zenon
  <2>4. /\ task_index'[i] = [task_index[i] EXCEPT ![j] = k]
        /\ task_index'[i] \in Seq(Edge) /\ Len(task_index'[i]) = Len(task_index[i])
        /\ \A d \in 1 .. Len(task_index[i]) :
             task_index'[i][d] = IF d = j THEN k ELSE task_index[i][d]
        /\ dependents'[k] = Append(dependents[k], i) /\ dependents'[k] \in Seq(Edge)
    <3>1. task_index \in [Task -> Seq(Edge)] /\ dependents \in [Task -> Seq(Edge)]
          BY <1>0, Zenon DEF Types
    <3>2. task_index'[i] = [task_index[i] EXCEPT ![j] = k] /\ dependents'[k] = Append(dependents[k], i)
          BY <1>0, <2>1, <2>2, <3>1, Zenon
    <3> QED
        BY <2>3, <3>2, ExceptSeq, AppendProperties
  <2>5. /\ \A t \in Task : t # i => task_index'[t] = task_index[t]
        /\ \A t \in Task : t # k => dependents'[t] = dependents[t]
        BY <1>0, <2>1, <2>2, Zenon DEF Types
  <2>6. Types'
    <3>1. task_index' \in [Task -> Seq(Edge)] /\ dependents' \in [Task -> Seq(Edge)]
      <4>1. task_index \in [Task -> Seq(Edge)] /\ dependents \in [Task -> Seq(Edge)]
            BY <1>0, Zenon DEF Types
      <4> QED
          BY <1>0, <2>1, <2>2, <2>4, <4>1, ZenonT(60)
    <3>2. j' \in Nat \ {0}
          BY <1>0, <2>2
    <3> QED
        BY <1>0, <2>2, <3>1, <3>2, Zenon DEF Types, wf, graph
  <2>7. ASSUME NEW t \in Task, NEW u \in Task
        PROVE  Cardinality(Positions(dependents'[u], t)) = Cardinality(Positions(task_index'[t], u))
    <3>1. Cardinality(Positions(dependents[u], t)) = Cardinality(Positions(task_index[t], u))
          BY <1>0, Zenon DEF IndexInv
    <3>2. Cardinality(Positions(dependents'[k], t))
            = IF t = i THEN Cardinality(Positions(dependents[k], t)) + 1
              ELSE Cardinality(Positions(dependents[k], t))
          BY <2>3, <2>4, AppendPositions
    <3>4. u # None
          BY TaskIs, Zenon
    <3>3. Cardinality(Positions(task_index'[i], u))
            = IF u = k THEN Cardinality(Positions(task_index[i], u)) + 1
              ELSE Cardinality(Positions(task_index[i], u))
          BY <2>3, <2>4, <3>4, ExceptPositions
    <3> QED
        BY <2>5, <3>1, <3>2, <3>3, <3>4, Zenon
  <2>8. \A u \in Task : Positions(dependents'[u], None) = {}
    <3>1. Cardinality(Positions(dependents'[k], None)) = Cardinality(Positions(dependents[k], None))
          BY <1>0, <2>3, <2>4, AppendPositions DEF Task, None
    <3>2. Positions(dependents'[k], None) = {}
      <4>1. Positions(dependents[k], None) = {}
            BY <1>0, <2>1, Zenon DEF IndexInv
      <4>2. Cardinality(Positions(dependents[k], None)) = 0
            BY <2>3, <4>1, PositionsFinite, Zenon
      <4> QED
          BY <2>4, <3>1, <4>2, PositionsFinite, Zenon
    <3> QED
        BY <1>0, <2>5, <3>2, Zenon DEF IndexInv
  <2>9. ASSUME NEW t \in Task, NEW d \in 1 .. Len(deps[t])
        PROVE  IF Indexed(t, d)'
               THEN task_index'[t][d] \in Task /\ name[task_index'[t][d]] = deps[t][d]
               ELSE task_index'[t][d] = None
    <3>1. CASE t = i /\ d = j
      <4>1. Indexed(t, d)'
            BY <1>0, <2>2, <3>1 DEF Indexed
      <4>2. task_index'[t][d] = k
            BY <2>3, <2>4, <3>1, Zenon
      <4> QED
          BY <2>1, <3>1, <4>1, <4>2, Zenon
    <3>2. CASE ~ (t = i /\ d = j)
      <4>1. Indexed(t, d)' <=> Indexed(t, d)
        <5>1. d \in Int /\ j \in Int
              BY <1>0 DEF Types
        <5> QED
            BY <2>2, <3>2, <5>1 DEF Indexed
      <4>2. task_index'[t][d] = task_index[t][d]
            BY <1>0, <2>4, <2>5, <3>2, ZenonT(60) DEF IndexInv
      <4> QED
          BY <1>0, <4>1, <4>2, Zenon DEF IndexInv
    <3> QED
        BY <3>1, <3>2, Zenon
  <2>10. IndexInv'
    <3>1. S' = << >> /\ (\A t \in Task : rank'[t] = 0) /\ UNCHANGED <<name, deps>>
          BY <1>0, <2>2, Zenon DEF IndexInv, wf
    <3>2. \A t \in Task : Len(task_index'[t]) = Len(deps[t])
          BY <1>0, <2>4, <2>5, Zenon DEF IndexInv
    <3> QED
        BY <2>7, <2>8, <2>9, <3>1, <3>2, Zenon DEF IndexInv
  <2> QED
      BY <1>0, <2>2, <2>6, <2>10, IndexStill, Zenon
<1> QED
    BY <1>1, <1>2, Zenon

(* The dependences of a task are indexed.                                   *)
LEMMA IndexNextTaskStep ==
    ASSUME DInv, IndexNextTask
    PROVE  DInv'
<1>0. /\ Types /\ IndexInv /\ pc = "index" /\ j > Len(deps[i]) /\ i \in Nat \ {0} /\ j \in Nat
      /\ i' = i + 1 /\ j' = 1 /\ UNCHANGED <<wf, indexes, graph, S, n, pc, initial, rank>>
      BY Zenon DEF DInv, IndexNextTask, Types
<1>1. Types'
  <2>1. i' \in Nat \ {0} /\ j' \in Nat \ {0}
        BY <1>0
  <2> QED
      BY <1>0, <2>1, Zenon DEF Types, wf, indexes, graph
<1>2. ASSUME NEW t \in Task, NEW d \in 1 .. Len(deps[t])
      PROVE  Indexed(t, d)' <=> Indexed(t, d)
  <2>1. t \in Nat /\ d \in Nat /\ d >= 1 /\ d <= Len(deps[t]) /\ Len(deps[t]) \in Nat
        BY <1>0, TaskIs, LenProperties DEF Types
  <2>2. t < i + 1 \/ (t = i + 1 /\ d < 1) <=> t < i \/ (t = i /\ d < j)
        BY <1>0, <2>1
  <2> QED
      BY <1>0, <2>2, Zenon DEF Indexed
<1>3. IndexInv'
      BY <1>0, <1>2, Zenon DEF IndexInv, wf, indexes
<1> QED
    BY <1>0, <1>1, <1>3, IndexStill, Zenon

(* The graph is built from the indexes, all of them known by then.          *)
LEMMA BuildGraphStep ==
    ASSUME DInv, BuildGraph
    PROVE  DInv'
<1>0. Types /\ IndexInv /\ pc = "index" /\ i > N /\ i \in Nat \ {0}
      BY Zenon DEF DInv, BuildGraph, Types
<1>1. CASE SameName
  <2>1. ~ WellFormed
        BY <1>1, Zenon DEF WellFormed, SameName
  <2>2. Refuse
        BY <1>1, Zenon DEF BuildGraph
  <2> QED
      BY <2>1, <2>2, RefuseStep, Zenon
<1>2. CASE ~ SameName
  <2>1. /\ in_edges' = task_index /\ in_num' = [t \in Task |-> Len(deps[t])]
        /\ out_edges' = dependents /\ out_num' = [t \in Task |-> Len(dependents[t])]
        /\ i' = 1 /\ pc' = "collect" /\ UNCHANGED <<wf, indexes, S, j, n, initial, rank>>
        BY <1>2, Zenon DEF BuildGraph
  <2>2. \A t \in Task : \A d \in 1 .. Len(deps[t]) :
          task_index[t][d] \in Task /\ name[task_index[t][d]] = deps[t][d]
    <3>1. \A t \in Task : t < i
          BY <1>0, TaskIs
    <3>2. \A t \in Task : \A d \in 1 .. Len(deps[t]) : Indexed(t, d)
          BY <3>1, Zenon DEF Indexed
    <3> QED
        BY <1>0, <3>2, Zenon DEF IndexInv
  <2>3. /\ task_index \in [Task -> Seq(Edge)] /\ dependents \in [Task -> Seq(Edge)]
        /\ \A t \in Task : Len(task_index[t]) = Len(deps[t]) /\ Len(dependents[t]) \in Nat
        /\ \A t \in Task : Len(deps[t]) \in Nat
        BY <1>0, LenProperties, Zenon DEF Types, IndexInv
  <2>4. Types'
    <3>1. in_num' \in [Task -> Int] /\ out_num' \in [Task -> Int] /\ i' \in Nat \ {0}
          BY <2>1, <2>3
    <3> QED
        BY <1>0, <2>1, <2>3, <3>1, Zenon DEF Types, wf, indexes
  <2>5. Twins'
        BY <1>0, <2>1, Zenon DEF Twins, IndexInv
  <2>6. Counted'
    <3>1. ASSUME NEW t \in Task PROVE Len(deps[t]) = Cardinality(Present(task_index[t]))
      <4>1. \A e \in 1 .. Len(task_index[t]) : task_index[t][e] # None
            BY <2>2, <2>3, TaskIs, Zenon
      <4> QED
          BY <2>3, <4>1, AllPresent, Zenon
    <3>2. ASSUME NEW t \in Task PROVE Len(dependents[t]) = Cardinality(Present(dependents[t]))
      <4>1. \A e \in 1 .. Len(dependents[t]) : dependents[t][e] # None
            BY <1>0, Zenon DEF IndexInv, Positions
      <4> QED
          BY <2>3, <4>1, AllPresent, Zenon
    <3> QED
        BY <2>1, <3>1, <3>2, Zenon DEF Counted
  <2>7. EdgesInv'
        BY <2>1, <2>2, <2>3, TaskIs, Zenon DEF EdgesInv, wf
  <2>8. (~ SameName)'
        BY <1>2, <2>1, Zenon DEF SameName, wf
  <2>9. S' = << >> /\ (\A t \in Task : rank'[t] = 0) /\ Ranked' = {} /\ Len(S') = 0
        BY <1>0, <2>1, Zenon DEF IndexInv, Ranked
  <2>10. QueuedOnce' /\ QueueInv'
        BY <2>9, FS_EmptySet DEF QueuedOnce, QueueInv, Distinct
  <2>11. CollectInv'
        BY <2>1, <2>9, TaskIs DEF CollectInv
  <2> QED
      BY <2>1, <2>4, <2>5, <2>6, <2>7, <2>8, <2>10, <2>11, Zenon DEF DInv
<1> QED
    BY <1>1, <1>2, Zenon

(* One more task is looked at for S.                                        *)
LEMMA CollectStep ==
    ASSUME DInv, Collect
    PROVE  DInv'
<1>0. /\ Types /\ pc = "collect" /\ i \in Nat \ {0} /\ S \in Seq(Task) /\ Len(S) \in Nat
      /\ ~ SameName /\ Twins /\ Counted /\ EdgesInv /\ QueueInv /\ CollectInv /\ QueuedOnce
      /\ UNCHANGED <<wf, indexes, graph, j, n, initial, rank>>
      BY LenProperties, Zenon DEF DInv, Collect, Types, Sorting
<1>1. ASSUME S' \in Seq(Task), i' \in Nat \ {0}, pc' \in {"collect", "sort"}
      PROVE  Types' /\ (~ SameName)' /\ Twins' /\ Counted' /\ EdgesInv' /\ Ranked' = {}
  <2>1. Types'
        BY <1>0, <1>1, Zenon DEF Types, wf, indexes, graph
  <2>2. (~ SameName)' /\ Twins' /\ Counted'
        BY <1>0, Zenon DEF SameName, Twins, Counted, wf, graph
  <2>3. EdgesInv'
        BY <1>0 DEF EdgesInv, SourceFirst, wf, graph
  <2>4. Ranked' = {}
        BY <1>0, Zenon DEF CollectInv, Ranked
  <2> QED
      BY <2>1, <2>2, <2>3, <2>4, Zenon
<1>2. CASE i <= N /\ in_num[i] = 0
  <2>1. S' = Append(S, i) /\ i' = i + 1 /\ pc' = "collect" /\ i \in Task
        BY <1>0, <1>2, TasksAssumption DEF Collect, Task
  <2>2. /\ S' \in Seq(Task) /\ Len(S') = Len(S) + 1 /\ S'[Len(S) + 1] = i
        /\ \A x \in 1 .. Len(S) : S'[x] = S[x]
        BY <1>0, <2>1, AppendProperties
  <2>3. \A x \in 1 .. Len(S) : S[x] \in Nat /\ S[x] < i
        BY <1>0, ElementOfSeq, TaskIs, Zenon DEF CollectInv
  <2>4. Distinct'
        BY <1>0, <2>1, <2>2, <2>3 DEF Distinct, QueueInv
  <2>5. \A x \in 1 .. Len(S') : rank[S'[x]] = 0 /\ in_num[S'[x]] = 0
    <3>1. rank[i] = 0
          BY <1>0, <2>1, Zenon DEF CollectInv, Ranked
    <3> QED
        BY <1>0, <1>2, <2>2, <3>1 DEF QueueInv
  <2>6. QueuedOnce' /\ QueueInv'
        BY <1>0, <2>4, <2>5, Zenon DEF QueuedOnce, QueueInv, Distinct, Ranked, graph
  <2>7. CollectInv'
    <3>1. \A x \in 1 .. Len(S') : S'[x] < i'
          BY <1>0, <2>1, <2>2, <2>3
    <3>2. ASSUME NEW t \in Task, t < i', in_num[t] = 0 PROVE InS(t)'
      <4>1. CASE t = i
            BY <1>0, <2>2, <4>1 DEF InS
      <4>2. CASE t < i
        <5>1. PICK x \in 1 .. Len(S) : S[x] = t
              BY <1>0, <3>2, <4>2, Zenon DEF CollectInv, InS
        <5> QED
            BY <1>0, <2>2, <5>1 DEF InS
      <4> QED
          BY <1>0, <2>1, <3>2, <4>1, <4>2, TaskIs
    <3>3. Ranked' = {}
          BY <1>1, <2>1, <2>2, <1>0
    <3> QED
        BY <1>0, <3>1, <3>2, <3>3, Zenon DEF CollectInv, graph
  <2>8. i' \in Nat \ {0}
        BY <1>0, <2>1
  <2> QED
      BY <1>1, <2>1, <2>2, <2>6, <2>7, <2>8, Zenon DEF DInv, Sorting
<1>3. CASE i <= N /\ in_num[i] # 0
  <2>1. S' = S /\ i' = i + 1 /\ pc' = "collect"
        BY <1>0, <1>3, Zenon DEF Collect
  <2>2. QueuedOnce' /\ QueueInv'
        BY <1>0, <2>1, Zenon DEF QueuedOnce, QueueInv, Distinct, Ranked, graph
  <2>3. CollectInv'
    <3>1. \A x \in 1 .. Len(S) : S[x] < i'
          BY <1>0, <2>1, ElementOfSeq, TaskIs DEF CollectInv
    <3>2. ASSUME NEW t \in Task, t < i', in_num[t] = 0 PROVE InS(t)
          BY <1>0, <1>3, <2>1, <3>2, TaskIs DEF CollectInv
    <3> QED
        BY <1>0, <2>1, <3>1, <3>2, Zenon DEF CollectInv, Ranked, InS, graph
  <2>4. i' \in Nat \ {0}
        BY <1>0, <2>1
  <2> QED
      BY <1>0, <1>1, <2>1, <2>2, <2>3, <2>4, Zenon DEF DInv, Sorting
<1>4. CASE ~ (i <= N)
  <2>1. S' = S /\ i' = i /\ pc' = "sort"
        BY <1>0, <1>4, Zenon DEF Collect
  <2>2. QueuedOnce' /\ QueueInv'
        BY <1>0, <2>1, Zenon DEF QueuedOnce, QueueInv, Distinct, Ranked, graph
  <2>3. FreeFound'
    <3>1. \A t \in Task : t < i
          BY <1>0, <1>4, TaskIs
    <3> QED
        BY <1>0, <2>1, <3>1, Zenon DEF CollectInv, FreeFound, InS, graph
  <2>4. SortInv'
        BY <1>0, <1>1, <2>1, <2>3, Zenon DEF SortInv
  <2> QED
      BY <1>0, <1>1, <2>1, <2>2, <2>4, Zenon DEF DInv, Sorting
<1> QED
    BY <1>2, <1>3, <1>4, Zenon

(* What holds throughout the sort.                                          *)
SortFacts == ~ SameName /\ Twins /\ Counted /\ EdgesInv /\ QueueInv /\ SortInv

(* The ranked tasks are finitely many.                                      *)
LEMMA RankedFinite == IsFiniteSet(Ranked) /\ Cardinality(Ranked) \in Nat
<1>1. Ranked \in SUBSET Task /\ IsFiniteSet(Task)
      BY TasksAssumption, FS_Interval DEF Ranked, Task
<1> QED
    BY <1>1, FS_Subset, FS_CardinalityType, Zenon

(* The facts about S imply the property.                                    *)
LEMMA StillSorting ==
    ASSUME Types', SortFacts', pc' \in {"sort", "edges"}, pc' = "edges" => EdgesLoopInv'
    PROVE  DInv'
<1>1. QueuedOnce'
      BY Zenon DEF SortFacts, QueueInv, QueuedOnce, Distinct
<1> QED
    BY <1>1, Zenon DEF DInv, SortFacts, Sorting

(* The first node of S is removed and gets a rank above all others.         *)
LEMMA RemoveNodeStep ==
    ASSUME DInv, RemoveNode
    PROVE  DInv'
<1> DEFINE h == Head(S)
           r == 1 + Cardinality(Ranked)
<1>0. /\ Types /\ pc = "sort" /\ S \in Seq(Task) /\ Len(S) \in Nat /\ S # << >>
      /\ SortFacts /\ rank \in [Task -> Nat]
      /\ S' = Tail(S) /\ n' = h /\ i' = 1 /\ pc' = "edges" /\ rank' = [rank EXCEPT ![h] = r]
      /\ UNCHANGED <<wf, indexes, graph, j, initial>>
      BY LenProperties, Zenon DEF DInv, RemoveNode, Types, Sorting, SortFacts, Ranked
<1>1. /\ h \in Task /\ h = S[1] /\ Tail(S) \in Seq(Task) /\ Len(Tail(S)) = Len(S) - 1
      /\ Len(S) >= 1 /\ \A x \in 1 .. Len(S) - 1 : Tail(S)[x] = S[x + 1]
      BY <1>0, HeadTailProperties, EmptySeq
<1>2. r \in Nat \ {0}
      BY RankedFinite
<1> HIDE DEF h, r
<1>3. /\ rank' \in [Task -> Nat] /\ rank'[h] = r
      /\ \A t \in Task : t # h => rank'[t] = rank[t]
      BY <1>0, <1>1, <1>2, Zenon
<1>4. rank[h] = 0 /\ in_num[h] = 0
      BY <1>0, <1>1 DEF SortFacts, QueueInv
<1>5. Ranked' = Ranked \cup {h} /\ Cardinality(Ranked') = r
  <2>1. Ranked' = Ranked \cup {h} /\ h \notin Ranked
        BY <1>1, <1>2, <1>3, <1>4, Zenon DEF Ranked
  <2>2. Cardinality(Ranked \cup {h}) = Cardinality(Ranked) + 1
        BY <2>1, RankedFinite, FS_AddElement, Zenon
  <2> QED
      BY <2>1, <2>2, RankedFinite DEF r
<1>6. Types'
  <2>1. n' \in Edge /\ i' \in Nat \ {0}
        BY <1>0, <1>1, TaskIs
  <2> QED
      BY <1>0, <1>1, <1>3, <2>1, Zenon DEF Types, wf, indexes, graph
<1>7. (~ SameName)' /\ Twins' /\ Counted'
      BY <1>0, Zenon DEF SortFacts, SameName, Twins, Counted, wf, graph
<1>8. \A t \in Task : rank[t] \in Nat /\ rank[t] < r
      BY <1>0, RankedFinite DEF SortFacts, QueueInv, r
<1>9. EdgesInv'
  <2>1. ASSUME NEW t \in Task, NEW u \in Task, SourceFirst(t, u) PROVE SourceFirst(t, u)'
        BY <1>1, <1>3, <1>4, <1>8, <2>1, Zenon DEF SourceFirst
  <2> QED
      BY <1>0, <2>1, Zenon DEF SortFacts, EdgesInv, wf, graph
<1>10. QueueInv'
  <2>1. \A x \in 1 .. Len(S') : S'[x] = S[x + 1] /\ x + 1 \in 1 .. Len(S)
        BY <1>0, <1>1
  <2>2. Distinct
        BY <1>0, Zenon DEF SortFacts, QueueInv
  <2>3. Distinct'
        BY <1>0, <1>1, <2>1, <2>2 DEF Distinct
  <2>4. ASSUME NEW x \in 1 .. Len(S') PROVE rank'[S'[x]] = 0 /\ in_num[S'[x]] = 0
    <3>1. S[x + 1] # h
          BY <1>0, <1>1, <2>1, <2>2 DEF Distinct
    <3>2. S[x + 1] \in Task /\ rank[S[x + 1]] = 0 /\ in_num[S[x + 1]] = 0
          BY <1>0, <2>1, ElementOfSeq, Zenon DEF SortFacts, QueueInv
    <3> QED
        BY <1>3, <2>1, <3>1, <3>2, Zenon
  <2>5. \A t \in Task : rank'[t] # 0 => in_num[t] = 0
        BY <1>0, <1>3, <1>4, Zenon DEF SortFacts, QueueInv
  <2>6. \A t \in Task : rank'[t] <= r
        BY <1>2, <1>3, <1>8
  <2> QED
      BY <1>0, <1>5, <2>3, <2>4, <2>5, <2>6, Zenon DEF QueueInv, graph
<1>11. SortInv'
  <2>1. ASSUME NEW t \in Task, in_num[t] = 0, rank'[t] = 0 PROVE InS(t)'
    <3>1. t # h /\ rank[t] = 0
          BY <1>2, <1>3, <2>1, Zenon
    <3>2. PICK x \in 1 .. Len(S) : S[x] = t
          BY <1>0, <2>1, <3>1, Zenon DEF SortFacts, SortInv, FreeFound, InS
    <3>3. x - 1 \in 1 .. Len(S') /\ S'[x - 1] = t
          BY <1>0, <1>1, <3>1, <3>2
    <3> QED
        BY <3>3, Zenon DEF InS
  <2>2. FreeFound'
        BY <1>0, <2>1, Zenon DEF FreeFound, graph
  <2>3. ASSUME NEW k \in Ranked', k # h PROVE NoOut(k)'
        BY <1>0, <1>5, <2>3, Zenon DEF SortFacts, SortInv, NoOut, graph
  <2> QED
      BY <1>0, <2>2, <2>3, Zenon DEF SortInv
<1>12. EdgesLoopInv'
      BY <1>0, <1>1, <1>2, <1>3 DEF EdgesLoopInv
<1> QED
    BY <1>0, <1>6, <1>7, <1>9, <1>10, <1>11, <1>12, StillSorting, ZenonT(60) DEF SortFacts

(* An edge is removed at both its ends.                                     *)
LEMMA RemoveEdgeStep ==
    ASSUME DInv, RemoveEdge
    PROVE  DInv'
<1>0. /\ Types /\ pc = "edges" /\ i \in 1 .. Len(out_edges[n]) /\ n \in Task
      /\ SortFacts /\ EdgesLoopInv /\ i' = i + 1 /\ i \in Nat \ {0}
      /\ UNCHANGED <<wf, indexes, j, n, pc, initial, rank>>
      BY LenProperties DEF DInv, RemoveEdge, Types, Sorting, SortFacts, EdgesLoopInv
<1>a. /\ in_edges \in [Task -> Seq(Edge)] /\ out_edges \in [Task -> Seq(Edge)]
      /\ in_num \in [Task -> Int] /\ out_num \in [Task -> Int]
      /\ S \in Seq(Task) /\ Len(S) \in Nat /\ rank \in [Task -> Nat] /\ i' \in Nat \ {0}
      BY <1>0, LenProperties DEF Types
<1>1. CASE out_edges[n][i] = None
  <2>1. UNCHANGED <<graph, S>>
        BY <1>1, Zenon DEF RemoveEdge
  <2>2. Types'
        BY <1>0, <1>a, <2>1, Zenon DEF Types, wf, indexes, graph
  <2>3. (~ SameName)' /\ Twins' /\ Counted'
        BY <1>0, <2>1, Zenon DEF SortFacts, SameName, Twins, Counted, wf, graph
  <2>4. EdgesInv' /\ QueueInv'
    <3>1. EdgesInv'
          BY <1>0, <2>1 DEF SortFacts, EdgesInv, SourceFirst, wf, graph
    <3>2. QueueInv'
          BY <1>0, <2>1, Zenon DEF SortFacts, QueueInv, Distinct, Ranked, graph
    <3> QED
        BY <3>1, <3>2, Zenon
  <2>5. SortInv'
        BY <1>0, <2>1, Zenon DEF SortFacts, SortInv, FreeFound, InS, NoOut, Ranked, graph
  <2>6. EdgesLoopInv'
    <3>1. \A e \in 1 .. Len(out_edges[n]) : e < i + 1 => e < i \/ e = i
          BY <1>0
    <3> QED
        BY <1>0, <1>1, <2>1, <3>1, Zenon DEF EdgesLoopInv, graph
  <2> QED
      BY <1>0, <2>2, <2>3, <2>4, <2>5, <2>6, StillSorting, Zenon DEF SortFacts
<1>2. CASE out_edges[n][i] # None
  <2> DEFINE m == out_edges[n][i]
             P == Positions(in_edges[m], n)
             f == First(P)
             left == in_num[m] - 1
  <2>1. m \in Task /\ m # None
        BY <1>0, <1>a, <1>2, ElementOfSeq DEF Edge
  <2>2. P # {} /\ P \subseteq Nat /\ EdgesTo(m) = P
    <3>1. i \in Positions(out_edges[n], m)
          BY <1>0, Zenon DEF Positions
    <3>2. Cardinality(Positions(out_edges[n], m)) # 0
          BY <1>0, <1>a, <3>1, PositionsFinite, Zenon
    <3>3. Cardinality(Positions(in_edges[m], n)) # 0
          BY <1>0, <2>1, <3>2, Zenon DEF SortFacts, Twins
    <3>4. P # {}
          BY <3>3, FS_EmptySet, Zenon
    <3> QED
        BY <3>4 DEF Positions, EdgesTo
  <2>3. f \in P
    <3> HIDE DEF P
    <3> QED
        BY <2>2, LeastIn, Zenon
  <2>4. f \in 1 .. Len(in_edges[m]) /\ in_edges[m][f] = n /\ n # None
        BY <1>0, <2>3, TaskIs, Zenon DEF Positions
  <2>5. /\ out_edges' = [out_edges EXCEPT ![n] = [out_edges[n] EXCEPT ![i] = None]]
        /\ out_num' = [out_num EXCEPT ![n] = out_num[n] - 1]
        /\ in_edges' = [in_edges EXCEPT ![m] = [in_edges[m] EXCEPT ![f] = None]]
        /\ in_num' = [in_num EXCEPT ![m] = left]
        /\ S' = IF left = 0 THEN Append(S, m) ELSE S
        BY <1>2, <2>2, Zenon DEF RemoveEdge, RemoveIn, InsertIfFree
  <2> HIDE DEF m, P, f, left
  <2>6. /\ out_edges'[n] = [out_edges[n] EXCEPT ![i] = None] /\ out_edges[n] \in Seq(Edge)
        /\ in_edges'[m] = [in_edges[m] EXCEPT ![f] = None] /\ in_edges[m] \in Seq(Edge)
        /\ out_num'[n] = out_num[n] - 1 /\ in_num'[m] = in_num[m] - 1
        /\ \A t \in Task : t # n => out_edges'[t] = out_edges[t] /\ out_num'[t] = out_num[t]
        /\ \A t \in Task : t # m => in_edges'[t] = in_edges[t] /\ in_num'[t] = in_num[t]
        BY <1>0, <1>a, <2>1, <2>5, ZenonT(60) DEF left
  <2>7. /\ out_edges'[n] \in Seq(Edge) /\ Len(out_edges'[n]) = Len(out_edges[n])
        /\ \A e \in 1 .. Len(out_edges[n]) :
             out_edges'[n][e] = IF e = i THEN None ELSE out_edges[n][e]
        BY <1>0, <2>6, ExceptSeq, TaskIs
  <2>8. /\ in_edges'[m] \in Seq(Edge) /\ Len(in_edges'[m]) = Len(in_edges[m])
        /\ \A e \in 1 .. Len(in_edges[m]) :
             in_edges'[m][e] = IF e = f THEN None ELSE in_edges[m][e]
        BY <2>4, <2>6, ExceptSeq, TaskIs, SMTT(30)
  <2>9. in_num[m] # 0 /\ rank[m] = 0 /\ \A x \in 1 .. Len(S) : S[x] # m
    <3>1. f \in Present(in_edges[m])
          BY <2>4, Zenon DEF Present
    <3>2. Cardinality(Present(in_edges[m])) # 0
          BY <2>6, <3>1, PresentFinite, Zenon
    <3> QED
        BY <1>0, <2>1, <3>2, Zenon DEF SortFacts, Counted, QueueInv
  <2>10. /\ S' \in Seq(Task) /\ \A x \in 1 .. Len(S) : S'[x] = S[x] /\ x \in 1 .. Len(S')
         /\ left = 0 => Len(S') = Len(S) + 1 /\ S'[Len(S) + 1] = m
         /\ left # 0 => S' = S
    <3>1. CASE left = 0
      <4>1. S' = Append(S, m)
            BY <2>5, <3>1, Zenon
      <4>2. S \in Seq(Task) /\ m \in Task
            BY <1>a, <2>1, Zenon
      <4> QED
          BY <3>1, <4>1, <4>2, AppendedTask, Zenon
    <3>2. CASE left # 0
      <4>1. S' = S
            BY <2>5, <3>2, Zenon
      <4> QED
          BY <1>a, <3>2, <4>1, Zenon
    <3> QED
        BY <3>1, <3>2, Zenon
  <2>11. Types'
    <3>1. in_edges' \in [Task -> Seq(Edge)]
      <4>1. [in_edges[m] EXCEPT ![f] = None] \in Seq(Edge)
            BY <2>6, <2>8, Zenon
      <4> QED
          BY <1>a, <2>5, <4>1, Zenon
    <3>2. out_edges' \in [Task -> Seq(Edge)]
      <4>1. [out_edges[n] EXCEPT ![i] = None] \in Seq(Edge)
            BY <2>6, <2>7, Zenon
      <4> QED
          BY <1>a, <2>5, <4>1, Zenon
    <3>3. in_num' \in [Task -> Int]
      <4>1. left \in Int
            BY <1>a, <2>1 DEF left
      <4> QED
          BY <1>a, <2>5, <4>1, Zenon
    <3>4. out_num' \in [Task -> Int]
      <4>1. n \in Task
            BY <1>0, Zenon
      <4> QED
          BY <1>a, <2>5, <4>1
    <3> QED
        BY <1>0, <1>a, <2>10, <3>1, <3>2, <3>3, <3>4, ZenonT(60) DEF Types, wf, indexes
  <2>e. /\ i \in 1 .. Len(out_edges[n]) /\ out_edges[n] \in Seq(Edge) /\ out_edges[n][i] = m
        /\ out_edges'[n] = [out_edges[n] EXCEPT ![i] = None]
        BY <1>0, <2>6, Zenon DEF m
  <2>f. /\ f \in 1 .. Len(in_edges[m]) /\ in_edges[m] \in Seq(Edge) /\ in_edges[m][f] = n
        /\ in_edges'[m] = [in_edges[m] EXCEPT ![f] = None]
        BY <2>4, <2>6, Zenon
  <2>g. m # None /\ n # None /\ None \in Edge
        BY <2>1, <2>4, TaskIs, Zenon
  <2>12. Twins'
    <3>1. ASSUME NEW t \in Task, NEW k \in Task
          PROVE  Cardinality(Positions(out_edges'[k], t)) = Cardinality(Positions(in_edges'[t], k))
      <4>1. /\ Cardinality(Positions(out_edges[k], t)) = Cardinality(Positions(in_edges[t], k))
            /\ t # None /\ k # None /\ None \in Edge
            BY <1>0, TaskIs, Zenon DEF SortFacts, Twins
      <4>2. /\ t = m => Cardinality(Positions(out_edges'[n], t)) = Cardinality(Positions(out_edges[n], t)) - 1
            /\ t # m => Positions(out_edges'[n], t) = Positions(out_edges[n], t)
            BY <2>e, <2>g, <4>1, ExceptPositions
      <4>3. /\ k = n => Cardinality(Positions(in_edges'[m], k)) = Cardinality(Positions(in_edges[m], k)) - 1
            /\ k # n => Positions(in_edges'[m], k) = Positions(in_edges[m], k)
            BY <2>f, <2>g, <4>1, ExceptPositions, SMTT(30)
      <4> QED
          BY <2>6, <4>1, <4>2, <4>3, Zenon
    <3> QED
        BY <3>1, Zenon DEF Twins
  <2>13. Counted'
    <3>1. Cardinality(Present(out_edges'[n])) = Cardinality(Present(out_edges[n])) - 1
          BY <2>e, <2>g, ExceptPresent, Zenon
    <3>2. Cardinality(Present(in_edges'[m])) = Cardinality(Present(in_edges[m])) - 1
          BY <2>f, <2>g, ExceptPresent, Zenon
    <3> QED
        BY <1>0, <2>1, <2>6, <3>1, <3>2, ZenonT(60) DEF SortFacts, Counted
  <2>14. (~ SameName)'
        BY <1>0, Zenon DEF SortFacts, SameName, wf
  <2>15. EdgesInv'
    <3>1. ASSUME NEW t \in Task
          PROVE  /\ Len(in_edges'[t]) = Len(deps[t])
                 /\ \A e \in 1 .. Len(deps[t]) :
                      IF in_edges'[t][e] # None
                      THEN name[in_edges'[t][e]] = deps[t][e]
                      ELSE \E u \in Task : name[u] = deps[t][e] /\ SourceFirst(t, u)
      <4>1. /\ Len(in_edges[t]) = Len(deps[t])
            /\ \A e \in 1 .. Len(deps[t]) :
                 IF in_edges[t][e] # None
                 THEN name[in_edges[t][e]] = deps[t][e]
                 ELSE \E u \in Task : name[u] = deps[t][e] /\ SourceFirst(t, u)
            BY <1>0, Zenon DEF SortFacts, EdgesInv
      <4>2. CASE t # m
            BY <2>6, <4>1, <4>2, ZenonT(60)
      <4>3. CASE t = m
        <5>1. name[n] = deps[m][f] /\ SourceFirst(m, n)
              BY <1>0, <2>4, <2>9, <4>1, <4>3, Zenon DEF SourceFirst, EdgesLoopInv
        <5> QED
            BY <1>0, <2>8, <4>1, <4>3, <5>1
      <4> QED
          BY <4>2, <4>3, Zenon
    <3> QED
        BY <1>0, <3>1 DEF EdgesInv, SourceFirst, wf
  <2>16. QueueInv'
    <3>1. \A x \in 1 .. Len(S') : x \in 1 .. Len(S) \/ (left = 0 /\ x = Len(S) + 1)
      <4>1. CASE left = 0
        <5>1. Len(S') = Len(S) + 1 /\ Len(S) \in Nat
              BY <1>a, <2>10, <4>1, Zenon
        <5>2. \A x \in 1 .. Len(S) + 1 : x \in 1 .. Len(S) \/ x = Len(S) + 1
              BY <5>1
        <5> QED
            BY <4>1, <5>1, <5>2, Zenon
      <4>2. CASE left # 0
            BY <1>a, <2>10, <4>2, Zenon
      <4> QED
          BY <4>1, <4>2, Zenon
    <3>2. Distinct
          BY <1>0, Zenon DEF SortFacts, QueueInv
    <3>3. Distinct'
      <4>1. ASSUME NEW x \in 1 .. Len(S'), NEW y \in 1 .. Len(S'), S'[x] = S'[y] PROVE x = y
        <5>1. CASE x \in 1 .. Len(S) /\ y \in 1 .. Len(S)
              BY <2>10, <3>2, <4>1, <5>1, Zenon DEF Distinct
        <5>2. CASE x \notin 1 .. Len(S) \/ y \notin 1 .. Len(S)
              BY <2>9, <2>10, <3>1, <4>1, <5>2
        <5> QED
            BY <5>1, <5>2, Zenon
      <4> QED
          BY <4>1, Zenon DEF Distinct
    <3>4. \A x \in 1 .. Len(S) : S[x] \in Task /\ rank[S[x]] = 0 /\ in_num[S[x]] = 0
          BY <1>0, <1>a, ElementOfSeq, Zenon DEF SortFacts, QueueInv
    <3>5. \A x \in 1 .. Len(S') : rank[S'[x]] = 0 /\ in_num'[S'[x]] = 0
      <4>1. ASSUME NEW x \in 1 .. Len(S) PROVE rank[S'[x]] = 0 /\ in_num'[S'[x]] = 0
        <5>1. S'[x] = S[x] /\ S[x] # m
              BY <2>9, <2>10, Zenon
        <5>2. S[x] \in Task /\ rank[S[x]] = 0 /\ in_num[S[x]] = 0
              BY <3>4, Zenon
        <5>3. in_num'[S[x]] = in_num[S[x]]
              BY <2>6, <5>1, <5>2, Zenon
        <5> QED
            BY <5>1, <5>2, <5>3, Zenon
      <4>2. ASSUME left = 0 PROVE rank[S'[Len(S) + 1]] = 0 /\ in_num'[S'[Len(S) + 1]] = 0
        <5>1. S'[Len(S) + 1] = m
              BY <2>10, <4>2, Zenon
        <5>2. in_num'[m] = left
              BY <2>6, Zenon DEF left
        <5> QED
            BY <2>9, <4>2, <5>1, <5>2, Zenon
      <4> QED
          BY <3>1, <4>1, <4>2, Zenon
    <3>6. \A t \in Task : rank[t] # 0 => in_num'[t] = 0
          BY <1>0, <2>6, <2>9, Zenon DEF SortFacts, QueueInv
    <3>7. \A t \in Task : rank[t] <= Cardinality(Ranked)
          BY <1>0, Zenon DEF SortFacts, QueueInv
    <3> QED
        BY <1>0, <3>3, <3>5, <3>6, <3>7, Zenon DEF QueueInv, Ranked
  <2>17. SortInv'
    <3>1. ASSUME NEW t \in Task, InS(t) PROVE InS(t)'
          BY <2>10, <3>1, Zenon DEF InS
    <3>2. left = 0 => Len(S) + 1 \in 1 .. Len(S') /\ S'[Len(S) + 1] = m
          BY <1>a, <2>10
    <3>3. ASSUME NEW t \in Task, in_num'[t] = 0, rank[t] = 0 PROVE InS(t)'
      <4>1. CASE t = m
            BY <2>6, <3>2, <3>3, <4>1, Zenon DEF InS, left
      <4>2. CASE t # m
            BY <1>0, <2>6, <3>1, <3>3, <4>2, Zenon DEF SortFacts, SortInv, FreeFound
      <4> QED
          BY <4>1, <4>2, Zenon
    <3>5. FreeFound'
          BY <1>0, <3>3, Zenon DEF FreeFound
    <3>4. ASSUME NEW k \in Ranked, k # n PROVE NoOut(k)'
      <4>1. NoOut(k) /\ k \in Task
            BY <1>0, <3>4, Zenon DEF SortFacts, SortInv, Ranked
      <4>2. out_edges'[k] = out_edges[k]
            BY <2>6, <3>4, <4>1, Zenon
      <4> QED
          BY <4>1, <4>2, Zenon DEF NoOut
    <3> QED
        BY <1>0, <3>4, <3>5, Zenon DEF SortInv, Ranked
  <2>18. EdgesLoopInv'
    <3>1. \A e \in 1 .. Len(out_edges[n]) : e < i + 1 => e < i \/ e = i
          BY <1>0
    <3> QED
        BY <1>0, <2>7, <3>1, Zenon DEF EdgesLoopInv
  <2> QED
      BY <1>0, <2>11, <2>12, <2>13, <2>14, <2>15, <2>16, <2>17, <2>18, StillSorting, ZenonT(60) DEF SortFacts
<1> QED
    BY <1>1, <1>2, Zenon

(* The edges of a node have all been removed.                               *)
LEMMA NextNodeStep ==
    ASSUME DInv, NextNode
    PROVE  DInv'
<1>0. /\ Types /\ pc = "edges" /\ i > Len(out_edges[n]) /\ i \in Nat /\ n \in Task
      /\ SortFacts /\ EdgesLoopInv /\ pc' = "sort" /\ Len(out_edges[n]) \in Nat
      /\ UNCHANGED <<wf, indexes, graph, S, i, j, n, initial, rank>>
      BY LenProperties, Zenon DEF DInv, NextNode, Types, Sorting, SortFacts, EdgesLoopInv
<1>1. Types'
      BY <1>0, Zenon DEF Types, wf, indexes, graph
<1>2. (~ SameName)' /\ Twins' /\ Counted'
      BY <1>0, ZenonT(60) DEF SortFacts, SameName, Twins, Counted, wf, graph
<1>3. EdgesInv' /\ QueueInv'
  <2>1. EdgesInv'
        BY <1>0 DEF SortFacts, EdgesInv, SourceFirst, wf, graph
  <2>2. QueueInv'
        BY <1>0, Zenon DEF SortFacts, QueueInv, Distinct, Ranked, graph
  <2> QED
      BY <2>1, <2>2, Zenon
<1>4. NoOut(n)
      BY <1>0 DEF NoOut, EdgesLoopInv
<1>5. \A k \in Ranked : NoOut(k)
      BY <1>0, <1>4, Zenon DEF SortFacts, SortInv
<1>6. SortInv'
      BY <1>0, <1>5, Zenon DEF SortFacts, SortInv, FreeFound, InS, NoOut, Ranked, graph
<1> QED
    BY <1>0, <1>1, <1>2, <1>3, <1>6, StillSorting, Zenon DEF SortFacts

(* No edge is left, or the tasks not removed from S form a cycle.           *)
LEMMA CheckEdgesStep ==
    ASSUME DInv, CheckEdges
    PROVE  DInv'
<1>0. Types /\ pc = "sort" /\ S = << >> /\ Len(S) = 0 /\ SortFacts /\ QueuedOnce
      BY Zenon DEF DInv, CheckEdges, Sorting, SortFacts
<1>1. \A t \in Task : in_num[t] = 0 => rank[t] # 0
      BY <1>0 DEF SortFacts, SortInv, FreeFound, InS
<1>2. /\ rank \in [Task -> Nat] /\ in_edges \in [Task -> Seq(Edge)]
      /\ out_edges \in [Task -> Seq(Edge)]
      BY <1>0, Zenon DEF Types
<1>3. CASE HasEdges
  <2> DEFINE C == {t \in Task : rank[t] = 0}
  <2>1. ASSUME NEW t \in C PROVE \E u \in C : DependsOn(t, u)
    <3>1. in_num[t] # 0
          BY <1>1, Zenon
    <3>2. PICK e \in 1 .. Len(in_edges[t]) : in_edges[t][e] # None
      <4>1. Cardinality(Present(in_edges[t])) # 0
            BY <1>0, <3>1, Zenon DEF SortFacts, Counted
      <4>2. Present(in_edges[t]) # {}
            BY <4>1, FS_EmptySet, Zenon
      <4> QED
          BY <4>2, Zenon DEF Present
    <3> DEFINE u == in_edges[t][e]
    <3>3. u \in Task
          BY <1>2, <3>2, ElementOfSeq DEF Edge
    <3>4. name[u] = deps[t][e] /\ e \in 1 .. Len(deps[t])
          BY <1>0, <3>2, Zenon DEF SortFacts, EdgesInv
    <3>5. rank[u] = 0
      <4>1. SUFFICES ASSUME rank[u] # 0 PROVE FALSE
            BY Zenon
      <4>2. \A d \in 1 .. Len(out_edges[u]) : out_edges[u][d] # t
            BY <1>0, <3>3, <4>1, TaskIs DEF SortFacts, SortInv, NoOut, Ranked
      <4>3. Positions(out_edges[u], t) = {}
            BY <4>2, Zenon DEF Positions
      <4>4. Cardinality(Positions(in_edges[t], u)) = 0
            BY <1>0, <3>3, <4>3, FS_EmptySet, Zenon DEF SortFacts, Twins
      <4>5. Positions(in_edges[t], u) = {}
            BY <1>2, <4>4, PositionsFinite, Zenon
      <4> QED
          BY <3>2, <4>5, Zenon DEF Positions
    <3> QED
        BY <3>3, <3>4, <3>5, Zenon DEF DependsOn
  <2>2. C # {}
    <3>1. PICK t \in Task : in_num[t] # 0 \/ out_num[t] # 0
          BY <1>3, Zenon DEF HasEdges
    <3>2. CASE in_num[t] # 0
          BY <1>0, <3>2, Zenon DEF SortFacts, QueueInv
    <3>3. CASE out_num[t] # 0
      <4>1. PICK e \in 1 .. Len(out_edges[t]) : out_edges[t][e] # None
        <5>1. Cardinality(Present(out_edges[t])) # 0
              BY <1>0, <3>3, Zenon DEF SortFacts, Counted
        <5>2. Present(out_edges[t]) # {}
              BY <1>2, <5>1, FS_EmptySet, Zenon
        <5> QED
            BY <5>2, Zenon DEF Present
      <4> QED
          BY <1>0, <4>1, Zenon DEF SortFacts, SortInv, NoOut, Ranked
    <3> QED
        BY <3>1, <3>2, <3>3, Zenon
  <2>3. ~ WellFormed
    <3>1. C \in SUBSET Task
          BY Zenon
    <3> HIDE DEF C
    <3> QED
        BY <2>1, <2>2, <3>1, Zenon DEF WellFormed, Acyclic
  <2>4. Refuse
        BY <1>3, Zenon DEF CheckEdges
  <2> QED
      BY <2>3, <2>4, RefuseStep, Zenon
<1>4. CASE ~ HasEdges
  <2>1. pc' = "valid" /\ UNCHANGED <<wf, indexes, graph, S, i, j, n, initial, rank>>
        BY <1>4, Zenon DEF CheckEdges
  <2>2. \A t \in Task : in_num[t] = 0 /\ rank[t] # 0
        BY <1>1, <1>4, Zenon DEF HasEdges
  <2>3. ASSUME NEW t \in Task, NEW e \in 1 .. Len(deps[t])
        PROVE  \E u \in Task : name[u] = deps[t][e] /\ rank[u] < rank[t]
    <3>1. Present(in_edges[t]) = {} /\ Len(in_edges[t]) = Len(deps[t])
          BY <1>0, <1>2, <2>2, PresentFinite, Zenon DEF SortFacts, Counted, EdgesInv
    <3>2. in_edges[t][e] = None
          BY <3>1, Zenon DEF Present
    <3> QED
        BY <1>0, <2>2, <3>2, Zenon DEF SortFacts, EdgesInv, SourceFirst
  <2>4. \A t, u \in Task : name[t] = name[u] => t = u
        BY <1>0, Zenon DEF SortFacts, SameName
  <2>5. \A t, u \in Task : DependsOn(t, u) => rank[u] < rank[t]
        BY <2>3, <2>4 DEF DependsOn
  <2>6. Acyclic
    <3>1. SUFFICES ASSUME NEW C \in SUBSET Task, C # {}
                   PROVE  \E t \in C : \A u \in C : ~ DependsOn(t, u)
          BY Zenon DEF Acyclic
    <3> DEFINE P == {rank[t] : t \in C}
    <3>2. P \subseteq Nat /\ P # {}
          BY <1>2, <3>1, Zenon
    <3>3. First(P) \in P /\ \A y \in P : First(P) <= y
      <4> HIDE DEF P
      <4> QED
          BY <3>2, LeastIn, Zenon
    <3>4. PICK t \in C : rank[t] = First(P)
          BY <3>3, Zenon
    <3>5. ASSUME NEW u \in C PROVE ~ (rank[u] < rank[t])
      <4>1. rank[u] \in P /\ rank[u] \in Nat /\ rank[t] \in Nat
            BY <1>2, Zenon
      <4>2. rank[t] <= rank[u]
            BY <3>3, <3>4, <4>1, Zenon
      <4> QED
          BY <4>1, <4>2
    <3> QED
        BY <2>5, <3>5, Zenon
  <2>7. WellFormed
        BY <2>3, <2>4, <2>6, Zenon DEF WellFormed
  <2>8. WellFormed' /\ QueuedOnce'
        BY <1>0, <2>1, <2>7, WellFormedStays DEF QueuedOnce
  <2>9. Types'
        BY <1>0, <2>1, Zenon DEF Types, wf, indexes, graph
  <2> QED
      BY <2>1, <2>8, <2>9, Zenon DEF DInv, Sorting
<1> QED
    BY <1>3, <1>4, Zenon

(* A well-formed workflow has a task without dependences.                   *)
LEMMA FindInitialStep ==
    ASSUME DInv, FindInitial
    PROVE  DInv'
<1>0. /\ Types /\ pc = "valid" /\ WellFormed /\ QueuedOnce
      /\ initial' = {t \in Task : deps[t] = << >>}
      /\ UNCHANGED <<wf, indexes, graph, S, i, j, n, rank>>
      BY Zenon DEF DInv, FindInitial
<1>1. initial' # {}
  <2>1. Task \in SUBSET Task /\ Task # {}
        BY TasksAssumption DEF Task
  <2>2. PICK t \in Task : \A u \in Task : ~ DependsOn(t, u)
        BY <1>0, <2>1, Zenon DEF WellFormed, Acyclic
  <2>3. \A d \in 1 .. Len(deps[t]) : FALSE
        BY <1>0, <2>2 DEF WellFormed, DependsOn
  <2>4. deps[t] \in Seq(Name) /\ (deps[t] # << >> => Len(deps[t]) \in Nat \ {0})
        BY <1>0, EmptySeq, Zenon DEF Types
  <2>5. deps[t] = << >>
        BY <2>3, <2>4
  <2> QED
      BY <1>0, <2>5, Zenon
<1>2. pc' = "accepted"
      BY <1>1, Zenon DEF FindInitial
<1>3. WellFormed' /\ QueuedOnce'
      BY <1>0, WellFormedStays, Zenon DEF QueuedOnce
<1>4. Types'
      BY <1>0, <1>2, Zenon DEF Types, wf, indexes, graph
<1> QED
    BY <1>1, <1>2, <1>3, <1>4, Zenon DEF DInv, Sorting

-----------------------------------------------------------------------------
(* The theorems *)

(* Every step of the checks keeps the invariant.                            *)
LEMMA DInvNext == DInv /\ [Next]_vars => DInv'
<1> SUFFICES ASSUME DInv, [Next]_vars PROVE DInv'
    BY Zenon
<1>1. CASE UNCHANGED vars
  <2>1. UNCHANGED <<name, deps, task_index, dependents, in_edges, in_num, out_edges, out_num,
                    S, i, j, n, pc, initial, rank>>
        BY <1>1, Zenon DEF vars, wf, indexes, graph
  <2>2. Types' /\ QueuedOnce' /\ (IndexInv => IndexInv')
    <3>1. Types'
          BY <2>1, Zenon DEF DInv, Types
    <3>2. QueuedOnce'
          BY <2>1, Zenon DEF DInv, QueuedOnce
    <3>3. IndexInv => IndexInv'
          BY <2>1, Zenon DEF IndexInv, Indexed
    <3> QED
        BY <3>1, <3>2, <3>3, Zenon
  <2>3. /\ SameName' = SameName /\ Twins' = Twins /\ Counted' = Counted /\ EdgesInv' = EdgesInv
    <3>1. SameName' = SameName /\ Twins' = Twins
          BY <2>1, Zenon DEF SameName, Twins
    <3>2. Counted' = Counted
          BY <2>1, Zenon DEF Counted
    <3>3. EdgesInv' = EdgesInv
          BY <2>1 DEF EdgesInv, SourceFirst
    <3> QED
        BY <3>1, <3>2, <3>3, Zenon
  <2>4. QueueInv' = QueueInv /\ CollectInv' = CollectInv
        BY <2>1, Zenon DEF QueueInv, Distinct, Ranked, CollectInv, InS
  <2>5. SortInv' = SortInv /\ EdgesLoopInv' = EdgesLoopInv
        BY <2>1, Zenon DEF SortInv, FreeFound, InS, NoOut, Ranked, EdgesLoopInv
  <2>6. WellFormed' <=> WellFormed
        BY <2>1, WellFormedStays, Zenon DEF wf
  <2> QED
      BY <2>1, <2>2, <2>3, <2>4, <2>5, <2>6, Zenon DEF DInv, Sorting
<1>2. CASE Next
      BY <1>1, <1>2, IndexDependenceStep, IndexNextTaskStep, BuildGraphStep, CollectStep,
         RemoveNodeStep, RemoveEdgeStep, NextNodeStep, CheckEdgesStep, FindInitialStep
         DEF Next, Done
<1> QED
    BY <1>1, <1>2, Zenon

(* The invariant holds in every state of every execution of the checks.     *)
LEMMA DInvAlways == Spec => []DInv
BY DInvInit, DInvNext, PTL DEF Spec

(* For any number of tasks and dependences, a workflow that passes            *)
(* oph_workflow_indexing, oph_workflow_validate and oph_workflow_init has      *)
(* distinct names, dependences on its own tasks, no cycle and a first task.   *)
THEOREM AcceptedWorkflowsAreDags == Spec => []AcceptedIsDag
<1>1. DInv => AcceptedIsDag
      BY Zenon DEF DInv, AcceptedIsDag
<1> QED
    BY <1>1, DInvAlways, PTL

(* And the checks refuse no such workflow.                                    *)
THEOREM DagsAreAccepted == Spec => []DagIsAccepted
<1>1. DInv => DagIsAccepted
      BY Zenon DEF DInv, DagIsAccepted
<1> QED
    BY <1>1, DInvAlways, PTL

(* No node enters the queue of workflow_s_add twice.                          *)
THEOREM NodesQueuedOnce == Spec => []QueuedOnce
<1>1. DInv => QueuedOnce
      BY Zenon DEF DInv
<1> QED
    BY <1>1, DInvAlways, PTL

=============================================================================
