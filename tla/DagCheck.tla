------------------------------ MODULE DagCheck ------------------------------
(***************************************************************************)
(* The checks a workflow passes before it is executed: oph_workflow_indexing *)
(* turns the names of the dependences into indexes and builds the lists of   *)
(* dependents, oph_workflow_validate refuses duplicate names and, with a      *)
(* topological sort that removes the edges of a copy of the graph, cycles,    *)
(* and oph_workflow_init finds the tasks to start with.                       *)
(*                                                                           *)
(* The loops are unrolled into steps, so that what they compute is shown by   *)
(* invariants.  Tasks are numbered from 1; None is the -1 of the code.        *)
(***************************************************************************)
EXTENDS Integers, Sequences, FiniteSets

CONSTANTS
    N,          \* tasks_num
    Name,       \* the names of tasks
    Naming,     \* the ways to name the tasks that are considered
    MaxDeps     \* bound on deps_num

Task == 1 .. N
None == 0

ASSUME TasksAssumption == N \in Nat \ {0} /\ MaxDeps \in Nat
ASSUME NamingAssumption == Naming \subseteq [Task -> Name]

VARIABLES
    name,        \* task.name
    deps,        \* task.deps[].task_name
    task_index,  \* task.deps[].task_index
    dependents,  \* task.dependents_indexes
    in_edges, in_num,    \* graph[].in_edges and in_edges_num
    out_edges, out_num,  \* graph[].out_edges and out_edges_num
    S,           \* the nodes without incoming edges, first in first out
    i, j,        \* the loop counters
    n,           \* the node removed from S last
    pc,          \* the loop that is executed
    initial,     \* initial_tasks_indexes
    rank         \* history: when a node was removed from S, 0 before

wf == <<name, deps>>
indexes == <<task_index, dependents>>
graph == <<in_edges, in_num, out_edges, out_num>>
vars == <<wf, indexes, graph, S, i, j, n, pc, initial, rank>>

Init ==
    /\ name \in Naming
    /\ deps \in [Task -> UNION {[1 .. d -> Name] : d \in 0 .. MaxDeps}]
    /\ task_index = [t \in Task |-> [d \in 1 .. Len(deps[t]) |-> None]]
    /\ dependents = [t \in Task |-> << >>]
    /\ in_edges = [t \in Task |-> << >>] /\ in_num = [t \in Task |-> 0]
    /\ out_edges = [t \in Task |-> << >>] /\ out_num = [t \in Task |-> 0]
    /\ S = << >> /\ i = 1 /\ j = 1 /\ n = None
    /\ pc = "index" /\ initial = {} /\ rank = [t \in Task |-> 0]

-----------------------------------------------------------------------------
(* oph_workflow_indexing *)

First(P) == CHOOSE x \in P : \A y \in P : x <= y

Refuse ==
    /\ pc' = "refused"
    /\ UNCHANGED <<wf, indexes, graph, S, i, j, n, initial, rank>>

BadName(t, d) == deps[t][d] = name[t] \/ ~ \E k \in Task : name[k] = deps[t][d]

IndexDependence ==
    /\ pc = "index" /\ i <= N /\ j <= Len(deps[i])
    /\ \/ BadName(i, j) /\ Refuse
       \/ /\ ~ BadName(i, j)
          /\ LET k == First({x \in Task : name[x] = deps[i][j]}) IN
             /\ task_index' = [task_index EXCEPT ![i][j] = k]
             /\ dependents' = [dependents EXCEPT ![k] = Append(@, i)]
          /\ j' = j + 1
          /\ UNCHANGED <<wf, graph, S, i, n, pc, initial, rank>>

IndexNextTask ==
    /\ pc = "index" /\ i <= N /\ j > Len(deps[i])
    /\ i' = i + 1 /\ j' = 1
    /\ UNCHANGED <<wf, indexes, graph, S, n, pc, initial, rank>>

-----------------------------------------------------------------------------
(* oph_workflow_validate *)

(* The reserved characters in the keys and values of the arguments, refused  *)
(* between this test and the construction of the graph, are left out: a      *)
(* request is one that passes that test.                                     *)
SameName == \E t, u \in Task : t # u /\ name[t] = name[u]

(* Mutant of BuildGraph: duplicate names are not looked for.                *)
BuildGraphAnyway ==
    /\ pc = "index" /\ i > N
    /\ in_edges' = task_index /\ in_num' = [t \in Task |-> Len(deps[t])]
    /\ out_edges' = dependents /\ out_num' = [t \in Task |-> Len(dependents[t])]
    /\ i' = 1 /\ pc' = "collect"
    /\ UNCHANGED <<wf, indexes, S, j, n, initial, rank>>

BuildGraph ==
    /\ pc = "index" /\ i > N
    /\ \/ SameName /\ Refuse
       \/ /\ ~ SameName
          /\ in_edges' = task_index /\ in_num' = [t \in Task |-> Len(deps[t])]
          /\ out_edges' = dependents /\ out_num' = [t \in Task |-> Len(dependents[t])]
          /\ i' = 1 /\ pc' = "collect"
          /\ UNCHANGED <<wf, indexes, S, j, n, initial, rank>>

Collect ==
    /\ pc = "collect"
    /\ IF i <= N
       THEN /\ S' = IF in_num[i] = 0 THEN Append(S, i) ELSE S
            /\ i' = i + 1 /\ pc' = pc
       ELSE S' = S /\ i' = i /\ pc' = "sort"
    /\ UNCHANGED <<wf, indexes, graph, j, n, initial, rank>>

(* Mutant of RemoveNode: the node stays in S.                               *)
KeepNode ==
    /\ pc = "sort" /\ S # << >>
    /\ n' = Head(S) /\ S' = S
    /\ i' = 1 /\ pc' = "edges"
    /\ rank' = [rank EXCEPT ![n'] = 1]
    /\ UNCHANGED <<wf, indexes, graph, j, initial>>

RemoveNode ==
    /\ pc = "sort" /\ S # << >>
    /\ n' = Head(S) /\ S' = Tail(S)
    /\ i' = 1 /\ pc' = "edges"
    /\ rank' = [rank EXCEPT ![Head(S)] = 1 + Cardinality({t \in Task : rank[t] # 0})]
    /\ UNCHANGED <<wf, indexes, graph, j, initial>>

EdgesTo(m) == {e \in 1 .. Len(in_edges[m]) : in_edges[m][e] = n}

InsertIfFree(m, left) == IF left = 0 THEN Append(S, m) ELSE S

(* Mutant of RemoveIn: all the edges from n are removed, one is counted.    *)
RemoveAllIn(m) ==
    IF EdgesTo(m) = {} THEN UNCHANGED <<in_edges, in_num, S>> ELSE
    /\ in_edges' = [in_edges EXCEPT ![m] = [e \in 1 .. Len(@) |-> IF @[e] = n THEN None ELSE @[e]]]
    /\ in_num' = [in_num EXCEPT ![m] = @ - 1]
    /\ S' = InsertIfFree(m, in_num[m] - 1)

RemoveIn(m) ==
    IF EdgesTo(m) = {} THEN UNCHANGED <<in_edges, in_num, S>> ELSE
    /\ in_edges' = [in_edges EXCEPT ![m][First(EdgesTo(m))] = None]
    /\ in_num' = [in_num EXCEPT ![m] = @ - 1]
    /\ S' = InsertIfFree(m, in_num[m] - 1)

RemoveEdge ==
    /\ pc = "edges" /\ i <= Len(out_edges[n])
    /\ IF out_edges[n][i] = None THEN UNCHANGED <<graph, S>> ELSE
       /\ out_edges' = [out_edges EXCEPT ![n][i] = None]
       /\ out_num' = [out_num EXCEPT ![n] = @ - 1]
       /\ RemoveIn(out_edges[n][i])
    /\ i' = i + 1
    /\ UNCHANGED <<wf, indexes, j, n, pc, initial, rank>>

NextNode ==
    /\ pc = "edges" /\ i > Len(out_edges[n])
    /\ pc' = "sort"
    /\ UNCHANGED <<wf, indexes, graph, S, i, j, n, initial, rank>>

HasEdges == \E t \in Task : in_num[t] # 0 \/ out_num[t] # 0

CheckEdges ==
    /\ pc = "sort" /\ S = << >>
    /\ \/ HasEdges /\ Refuse
       \/ /\ ~ HasEdges /\ pc' = "valid"
          /\ UNCHANGED <<wf, indexes, graph, S, i, j, n, initial, rank>>

(* oph_workflow_init, which refuses a workflow without independent tasks     *)
FindInitial ==
    /\ pc = "valid"
    /\ initial' = {t \in Task : deps[t] = << >>}
    /\ pc' = IF initial' = {} THEN "refused" ELSE "accepted"
    /\ UNCHANGED <<wf, indexes, graph, S, i, j, n, rank>>

Decided == pc \in {"accepted", "refused"}

Done == Decided /\ UNCHANGED vars

Next ==
    \/ IndexDependence \/ IndexNextTask \/ BuildGraph \/ Collect \/ RemoveNode
    \/ RemoveEdge \/ NextNode \/ CheckEdges \/ FindInitial \/ Done

Spec == Init /\ [][Next]_vars
FairSpec == Spec /\ WF_vars(Next)

-----------------------------------------------------------------------------
(* What the checks are for.  DependsOn is the relation of the request: a     *)
(* dependence is a name; a graph is acyclic when every set of tasks has one  *)
(* that depends on no task of the set.                                       *)
DependsOn(t, u) == \E d \in 1 .. Len(deps[t]) : deps[t][d] = name[u]

Acyclic == \A C \in SUBSET Task : C # {} =>
             \E t \in C : \A u \in C : ~ DependsOn(t, u)

WellFormed ==
    /\ \A t, u \in Task : name[t] = name[u] => t = u
    /\ \A t \in Task : \A d \in 1 .. Len(deps[t]) : \E u \in Task : deps[t][d] = name[u]
    /\ Acyclic

(* A workflow that passes oph_workflow_indexing, oph_workflow_validate and    *)
(* oph_workflow_init has distinct names, dependences on existing tasks only,  *)
(* no cycle, and a task to start with.                                        *)
AcceptedIsDag == pc = "accepted" => WellFormed /\ initial # {}

(* And no such workflow is refused, as far as its graph and its names go (the *)
(* texts of the arguments are another matter, see SameName): the counters     *)
(* reach zero whatever the order of the tasks, also when a task names the     *)
(* same dependence twice.                                                     *)
DagIsAccepted == pc = "refused" => ~ WellFormed

(* Each node is in the queue S at most once and is not inserted again when it *)
(* has been removed, even if it had several edges from the same task: the      *)
(* counter in_edges_num reaches zero once.                                     *)
QueuedOnce ==
    /\ \A x, y \in 1 .. Len(S) : S[x] = S[y] => x = y
    /\ \A x \in 1 .. Len(S) : rank[S[x]] = 0

(* The sort ends for every graph, cyclic or not, so that the request is       *)
(* always answered.                                                            *)
Termination == <>Decided

=============================================================================
