---------------------------- MODULE FlowControl ----------------------------
(***************************************************************************)
(* The execution of a workflow with flow control operators.  The server       *)
(* executes OPH_IF, OPH_ELSEIF, OPH_ELSE, OPH_FOR and OPH_ENDFOR itself, and   *)
(* they change the workflow while it runs: a branch that is not selected is    *)
(* marked UNSELECTED and the graph rewired around it, an ENDFOR resets the      *)
(* body of the loop and turns its own notification into one of the FOR.         *)
(*                                                                             *)
(* oph_serve_flow_control_operator and oph_workflow_notify are two critical     *)
(* sections (global_flag); between them other notifications are handled and     *)
(* the connection to OphidiaDB can fail.  The calls of oph_workflow_execute     *)
(* and the notifications are taken in any order.  Massive tasks, cancelling     *)
(* and automatic retries are in WorkflowEngine.                                 *)
(***************************************************************************)
EXTENDS FlowStructure, FiniteSets, OphStatus

CONSTANT Workflow    \* the workflows considered: [op, deps, loops, retry_num]

VARIABLES
    g,           \* the workflow, with its lists of dependents as indexed
    structure,   \* parent, child and branch_num of the tasks
    wf,          \* what execution changes, see Started
    wstatus,     \* wf->status
    closed,      \* the workflow has left the job list, or was refused
    calls,       \* calls of oph_workflow_execute under way: <<list, task>>
    requests,    \* tasks submitted that have not ended
    notes,       \* notifications of the flow control operators under way
    verdict,     \* history: the condition as it was evaluated
    ended        \* history: how often the task has completed

vars == <<g, structure, wf, wstatus, closed, calls, requests, notes, verdict, ended>>

Task == TaskOf(g)
Parent(t) == structure.parent[t]
FlowOps == {"if", "elseif", "else", "endif", "for", "endfor"}

(* status, residual_deps_num, deps[].task_index, dependents_indexes,           *)
(* is_skipped and residual_retry_num of the tasks; residual_tasks_num; the      *)
(* stack of loops; stop: a function has returned an error.                      *)
Started(x) ==
    [status |-> [t \in TaskOf(x) |-> UNKNOWN],
     residual_deps_num |-> [t \in TaskOf(x) |-> Len(x.deps[t])],
     deps |-> x.deps, dependents |-> x.dependents,
     is_skipped |-> [t \in TaskOf(x) |-> FALSE],
     residual_retry_num |-> x.retry_num,
     residual_tasks_num |-> Len(x.op),
     stack |-> << >>, stop |-> FALSE]

(* oph__ophExecuteMain: indexing, validation, and the initial tasks.            *)
Init ==
    /\ \E x \in Workflow : g = x @@ [dependents |-> DependentsOf(x)]
    /\ structure = Validate(g)
    /\ wf = Started(g)
    /\ wstatus = PENDING /\ closed = ~ structure.ok
    /\ calls = (IF structure.ok THEN {<<"initial", None>>} ELSE {})
    /\ requests = {} /\ notes = {}
    /\ verdict = [t \in Task |-> "none"]
    /\ ended = [t \in Task |-> 0]

-----------------------------------------------------------------------------
(* The functions that walk through the graph.                                 *)

Indexes(s) == [k \in DOMAIN s |-> k]

(* oph_workflow_set_status with ABORTED, for the dependents of x.              *)
RECURSIVE AbortBelow(_, _)
AbortBelow(w, x) ==
    LET Visit(v, i) ==
            IF v.stop THEN v
            ELSE IF \/ v.status[i] # UNKNOWN /\ v.status[i] < ABORTED
                    \/ v.status[i] = UNKNOWN /\ v.residual_tasks_num = 0
            THEN [v EXCEPT !.stop = TRUE]
            ELSE AbortBelow([v EXCEPT !.status[i] = ABORTED,
                                      !.residual_tasks_num = IF v.status[i] = UNKNOWN THEN @ - 1 ELSE @], i)
    IN  FoldLeft(Visit, w, w.dependents[x])

(* Mutant of Restored: the number of dependences is not restored.                *)
RestoredButDeps(v, i, e) ==
    [v EXCEPT !.status[i] = UNKNOWN, !.is_skipped[i] = FALSE,
              !.residual_retry_num[i] = g.retry_num[i],
              !.deps[i] = e.deps[i], !.dependents[i] = e.dependents[i],
              !.residual_tasks_num = @ + 1]

(* oph_workflow_reset_task, with what the entry e of the stack has saved.      *)
Restored(v, i, e) ==
    [v EXCEPT !.status[i] = UNKNOWN, !.is_skipped[i] = FALSE,
              !.residual_retry_num[i] = g.retry_num[i],
              !.deps[i] = e.deps[i], !.residual_deps_num[i] = e.residual_deps_num[i],
              !.dependents[i] = e.dependents[i],
              !.residual_tasks_num = @ + 1]

RECURSIVE Reset(_, _, _, _)
Reset(w, x, last, e) ==
    LET Visit(v, i) ==
            IF v.status[i] = UNKNOWN THEN v
            ELSE IF i = last THEN Restored(v, i, e)
            ELSE Reset(Restored(v, i, e), i, last, e)
    IN  FoldLeft(Visit, w, w.dependents[x])

(* oph_workflow_disable_deps: the dependences on tasks outside of the loop     *)
(* that have ended meanwhile.                                                   *)

(* Mutant of Met: the FOR counts as well.                                       *)
MetOrFirst(v, i, first) == SelectSeq(v.deps[i], LAMBDA h : h # None /\ v.status[h] >= COMPLETED)

Met(v, i, first) ==
    SelectSeq(v.deps[i], LAMBDA h : h # None /\ h # first /\ v.status[h] >= COMPLETED)

RECURSIVE Disable(_, _, _, _)
Disable(w, x, first, last) ==
    LET Visit(v, i) ==
            IF v.status[i] # UNKNOWN THEN v
            ELSE LET u == [v EXCEPT !.residual_deps_num[i] = @ - Len(Met(v, i, first))]
                 IN  IF i = last THEN u ELSE Disable(u, i, first, last)
    IN  FoldLeft(Visit, w, w.dependents[x])

(* Mutant of Redirect: the dependence of the ENDIF remains to be satisfied.      *)
RedirectOnly(v, i, x, to, less) == [v EXCEPT !.deps[i] = ReplaceAll(@, x, to)]

(* oph_set_status_of_selection_block: leaves out the sub-block of p.  The index *)
(* nk of the dependent of p to be overwritten is set once, to the first one.    *)
Redirect(v, i, x, to, less) ==
    [v EXCEPT !.deps[i] = ReplaceAll(@, x, to),
              !.residual_deps_num[i] = IF less /\ Contains(v.deps[i], x) THEN @ - 1 ELSE @]

RECURSIVE LeaveOut(_, _, _, _)
LeaveOut(w, x, p, skip) ==
    LET nk == 1
        gp == GparentOf(structure.parent, p)
        Visit(v, k) ==
            LET i == v.dependents[x][k] IN
            CASE v.stop -> v
              [] ~ v.stop /\ Parent(i) = p /\ g.op[i] # "endif" -> [v EXCEPT !.is_skipped[i] = skip]
              [] ~ v.stop /\ Parent(i) = p /\ g.op[i] = "endif" /\ structure.branch_num[i] > 1 ->
                   Redirect([v EXCEPT !.dependents[p][nk] = p], i, x, i, TRUE)
              [] ~ v.stop /\ Parent(i) = p /\ g.op[i] = "endif" /\ structure.branch_num[i] <= 1 ->
                   Redirect([v EXCEPT !.dependents[p][nk] = i], i, x, p, FALSE)
              [] ~ v.stop /\ Parent(i) # p /\ g.op[i] = "endif" /\ Parent(i) = gp ->
                   Redirect([v EXCEPT !.dependents[p][nk] = i, !.dependents[gp][nk] = i], i, x, gp, TRUE)
              [] OTHER ->
                   IF v.status[i] < COMPLETED /\ v.residual_tasks_num = 0 THEN [v EXCEPT !.stop = TRUE]
                   ELSE LeaveOut([v EXCEPT !.status[i] = UNSELECTED,
                                    !.residual_tasks_num = IF v.status[i] < COMPLETED THEN @ - 1 ELSE @],
                                 i, p, skip)
    IN  FoldLeft(Visit, w, Indexes(w.dependents[x]))

-----------------------------------------------------------------------------
(* oph_workflow_execute, for the tasks of a list: those without residual       *)
(* dependences that have not been started.  The list of the dependents is read  *)
(* when it is executed.                                                         *)
Listed(c) ==
    CASE c[1] = "initial" -> {t \in Task : g.deps[t] = << >>}
      [] c[1] = "dependents" -> ToSet(wf.dependents[c[2]])
      [] c[1] = "again" -> {c[2]}

Execute(c) ==
    LET ready == IF closed \/ wstatus >= COMPLETED THEN {}
                 ELSE {t \in Listed(c) : wf.residual_deps_num[t] = 0 /\ wf.status[t] = UNKNOWN}
    IN  /\ calls' = calls \ {c}
        /\ wf' = [wf EXCEPT !.status = [t \in Task |-> IF t \in ready THEN PENDING ELSE @[t]]]
        /\ requests' = requests \cup ready
        /\ UNCHANGED <<g, structure, wstatus, closed, notes, verdict, ended>>

-----------------------------------------------------------------------------
(* oph_workflow_notify.                                                        *)

(* "Dependences": the dependents of t lose their dependence on it; one without  *)
(* residual dependences is an error, and the function returns.                  *)
Release(w, t) ==
    LET Visit(v, i) ==
            LET n == Len(SelectSeq(v.deps[i], LAMBDA d : d = t)) IN
            IF v.stop THEN v
            ELSE IF n > v.residual_deps_num[i] THEN [v EXCEPT !.stop = TRUE]
            ELSE [v EXCEPT !.deps[i] = ReplaceAll(@, t, None), !.residual_deps_num[i] = @ - n]
    IN  FoldLeft(Visit, w, w.dependents[t])

NoneActive(w) == \A t \in Task : ~ Active(w.status[t])

(* After an error return the thread does nothing more about the workflow.       *)
GiveUp(w) ==
    /\ wf' = [w EXCEPT !.stop = FALSE]
    /\ UNCHANGED <<wstatus, closed, calls, ended>>

Completes(t, w) ==
    LET u == [w EXCEPT !.status[t] = IF w.is_skipped[t] /\ @ <= COMPLETED THEN UNSELECTED ELSE @,
                       !.residual_tasks_num = @ - 1]
        v == Release(u, t)
        final == v.residual_tasks_num = 0 \/ (wstatus = ERROR /\ NoneActive(v))
    IN  IF v.stop THEN GiveUp(v)
        ELSE /\ wf' = v
             /\ wstatus' = IF final /\ wstatus # ERROR THEN COMPLETED ELSE wstatus
             /\ closed' = final
             /\ calls' = IF final THEN calls ELSE calls \cup {<<"dependents", t>>}
             /\ ended' = [ended EXCEPT ![t] = @ + 1]

FailsAndContinues(t, w) ==
    LET v == AbortBelow([w EXCEPT !.residual_tasks_num = @ - 1], t)
        final == v.residual_tasks_num = 0 \/ (wstatus = ERROR /\ NoneActive(v))
    IN  IF v.stop THEN GiveUp(v)
        ELSE /\ wf' = v
             /\ wstatus' = IF v.residual_tasks_num = 0 /\ wstatus < COMPLETED THEN COMPLETED ELSE wstatus
             /\ closed' = final
             /\ UNCHANGED <<calls, ended>>

IsRetried(t, w) ==
    /\ wf' = [w EXCEPT !.status[t] = UNKNOWN, !.residual_retry_num[t] = @ - 1]
    /\ calls' = calls \cup {<<"again", t>>}
    /\ UNCHANGED <<wstatus, closed, ended>>

Fails(t, w) ==
    /\ wf' = [w EXCEPT !.residual_tasks_num = @ - 1, !.residual_retry_num[t] = 0]
    /\ wstatus' = ERROR
    /\ closed' = NoneActive(wf')
    /\ UNCHANGED <<calls, ended>>

Neglected(t, s) ==
    \/ closed
    \/ s # COMPLETED /\ (wf.status[t] = UNKNOWN \/ wf.status[t] >= COMPLETED)

(* The notification that task t has ended with status s.                        *)
Notify(t, s) ==
    LET w == [wf EXCEPT !.status[t] = IF s # COMPLETED /\ g.retry_num[t] < 0 THEN SKIPPED ELSE s]
    IN  IF Neglected(t, s) THEN UNCHANGED <<wf, wstatus, closed, calls, ended>>
        ELSE IF wf.residual_tasks_num = 0 THEN GiveUp(w)
        ELSE IF s = COMPLETED \/ g.retry_num[t] < 0 THEN Completes(t, w)
        ELSE IF g.retry_num[t] = 0 THEN FailsAndContinues(t, w)
        ELSE IF wf.residual_retry_num[t] > 1 THEN IsRetried(t, w)
        ELSE Fails(t, w)

(* A task that is no flow control operator ends, well or not.                   *)
Ends(t, s) ==
    /\ t \in requests /\ g.op[t] \notin FlowOps
    /\ requests' = requests \ {t}
    /\ Notify(t, s)
    /\ UNCHANGED <<g, structure, notes, verdict>>

Deliver(m) ==
    /\ notes' = notes \ {m}
    /\ Notify(m.task, m.status)
    /\ UNCHANGED <<g, structure, requests, verdict>>

-----------------------------------------------------------------------------
(* oph_serve_flow_control_operator.                                            *)

(* The workflow has left the list: an error, whose notification is lost.        *)
ServeClosed(t) ==
    /\ t \in requests /\ g.op[t] \in FlowOps /\ closed
    /\ requests' = requests \ {t}
    /\ UNCHANGED <<g, structure, wf, wstatus, closed, calls, notes, verdict, ended>>

(* The outcome is notified; it is a start error if OphidiaDB cannot be reached, *)
(* which comes after the workflow has been changed.                              *)
Serve(t, s) ==
    /\ t \in requests /\ ~ closed
    /\ requests' = requests \ {t}
    /\ notes' = notes \cup {[task |-> t, status |-> s]}
    /\ UNCHANGED <<g, structure, wstatus, closed, calls, ended>>

Served == {COMPLETED, START_ERROR}

(* Mutant of Followers: the next sub-block is not skipped.                       *)
NoFollowers(t) == {}

Followers(t) == {j \in Task : Parent(j) = t /\ g.op[j] # "endif"}

(* oph_if_impl: a task that is skipped leaves out its block and the next ones;   *)
(* otherwise the condition selects its block or the next one.                    *)
ServeSkipped(t, s) ==
    /\ g.op[t] \in {"if", "elseif"} /\ wf.is_skipped[t]
    /\ wf' = [LeaveOut(wf, t, t, TRUE) EXCEPT !.stop = FALSE]
    /\ verdict' = verdict
    /\ Serve(t, s)

ServeTrue(t, s) ==
    /\ g.op[t] \in {"if", "elseif"} /\ ~ wf.is_skipped[t]
    /\ wf' = [wf EXCEPT !.is_skipped = [j \in Task |-> @[j] \/ j \in Followers(t)]]
    /\ verdict' = [verdict EXCEPT ![t] = "true"]
    /\ Serve(t, s)

ServeFalse(t, s) ==
    /\ g.op[t] \in {"if", "elseif"} /\ ~ wf.is_skipped[t]
    /\ wf' = [LeaveOut(wf, t, t, FALSE) EXCEPT !.stop = FALSE]
    /\ verdict' = [verdict EXCEPT ![t] = "false"]
    /\ Serve(t, s)

(* The condition cannot be evaluated, or the values of a loop are wrong.         *)
ServeWrong(t) ==
    /\ g.op[t] \in {"if", "elseif", "for"} /\ ~ wf.is_skipped[t]
    /\ UNCHANGED <<wf, verdict>>
    /\ Serve(t, ERROR)

(* oph_else_impl, which does nothing for OPH_ENDIF: it is never skipped.         *)
ElseImpl(w, t) ==
    IF w.is_skipped[t] THEN [LeaveOut(w, t, t, FALSE) EXCEPT !.stop = FALSE] ELSE w

ServeElse(t, s) ==
    /\ g.op[t] \in {"else", "endif"}
    /\ wf' = ElseImpl(wf, t)
    /\ verdict' = verdict
    /\ Serve(t, s)

(* oph_workflow_push saves the workflow as it is, oph_workflow_pop drops an      *)
(* entry.                                                                        *)
Pushed(w, t) ==
    [w EXCEPT !.stack = <<[caller |-> t, index |-> 0, deps |-> w.deps,
                           residual_deps_num |-> w.residual_deps_num,
                           dependents |-> w.dependents]>> \o @]
Popped(w, k) == [w EXCEPT !.stack = RemoveAt(@, k)]

(* oph_for_impl *)
ServeFor(t, s) ==
    /\ g.op[t] = "for"
    /\ wf' = Pushed(wf, t)
    /\ verdict' = verdict
    /\ Serve(t, s)

(* oph_endfor_impl *)
Loops(t) == {k \in DOMAIN wf.stack : wf.stack[k].caller = Parent(t)}
EntryOf(t) == CHOOSE k \in Loops(t) : \A h \in Loops(t) : k <= h

(* Mutant of Again: one iteration too many.                                      *)
AgainOnce(t) == Loops(t) # {} /\ wf.stack[EntryOf(t)].index < g.loops[Parent(t)]

Again(t) == Loops(t) # {} /\ wf.stack[EntryOf(t)].index + 1 < g.loops[Parent(t)]

ServeEndforAgain(t) ==
    LET k == EntryOf(t)
        p == Parent(t)
        w == [wf EXCEPT !.stack[k].index = @ + 1]
    IN  /\ g.op[t] = "endfor" /\ t \in requests /\ ~ closed /\ Again(t)
        /\ wf' = Disable(Reset(w, p, t, wf.stack[k]), p, p, t)
        /\ verdict' = [j \in Task |-> IF wf'.status[j] = UNKNOWN THEN "none" ELSE verdict[j]]
        /\ requests' = requests \ {t}
        /\ notes' = notes \cup {[task |-> p, status |-> COMPLETED]}
        /\ UNCHANGED <<g, structure, wstatus, closed, calls, ended>>

ServeEndforLast(t, s) ==
    /\ g.op[t] = "endfor" /\ ~ Again(t)
    /\ wf' = IF Loops(t) = {} THEN wf ELSE Popped(wf, EntryOf(t))
    /\ verdict' = verdict
    /\ Serve(t, s)

-----------------------------------------------------------------------------
Quiet == calls = {} /\ requests = {} /\ notes = {}

Next ==
    \/ \E c \in calls : Execute(c)
    \/ \E t \in requests :
         \/ \E s \in {COMPLETED, ERROR} : Ends(t, s)
         \/ ServeClosed(t) \/ ServeWrong(t) \/ ServeEndforAgain(t)
         \/ \E s \in Served :
              \/ ServeSkipped(t, s) \/ ServeTrue(t, s) \/ ServeFalse(t, s)
              \/ ServeElse(t, s) \/ ServeFor(t, s) \/ ServeEndforLast(t, s)
    \/ \E m \in notes : Deliver(m)
    \/ Quiet /\ UNCHANGED vars

Spec == Init /\ [][Next]_vars

-----------------------------------------------------------------------------
(* The reference: selection blocks and loops as the graph shows them.  The     *)
(* sub-block of h is what lies below h, up to the next sub-block and the ENDIF; *)
(* a loop is what lies between the FOR and its ENDFOR.                           *)
RECURSIVE BelowUntil(_, _)
BelowUntil(x, stops) ==
    UNION {{i} \cup BelowUntil(i, stops) : i \in ToSet(g.dependents[x]) \ stops}

Heads == {h \in Task : g.op[h] \in {"if", "elseif", "else"}}
Block(h) ==
    BelowUntil(h, Followers(h) \cup {e \in Task : g.op[e] = "endif" /\ Parent(e) = Top(structure.parent, h)})
Loop(f) == {f} \cup BelowUntil(f, {e \in Task : Parent(e) = f})
For == {f \in Task : g.op[f] = "for"}

Chosen(h) == verdict[h] = "true" \/ (g.op[h] = "else" /\ verdict[Parent(h)] = "false")

Rejected(h) ==
    \/ verdict[h] = "false"
    \/ Parent(h) # None /\ (verdict[Parent(h)] = "true" \/ (g.op[Parent(h)] = "elseif" /\ wf.is_skipped[Parent(h)]))

RECURSIVE Product(_)
Product(F) == IF F = {} THEN 1 ELSE LET f == CHOOSE f \in F : TRUE IN g.loops[f] * Product(F \ {f})

Passed == {COMPLETED, SKIPPED, UNSELECTED}
Notified(t) == \E m \in notes : m.task = t

(* Whatever is selected, repeated or fails, a block-structured workflow that is *)
(* still in the job list has something under way that will bring it on: the     *)
(* rewiring of the graph by oph_set_status_of_selection_block and the reset of   *)
(* a loop by oph_endfor_impl leave no task with a dependence nobody will         *)
(* release.  It is claimed for workflows in which a task of the first branch is  *)
(* listed before the ELSEIF or ELSE, no ENDIF names a task twice, a body task    *)
(* with a dependence outside of its loop is reached along one path, and the      *)
(* operators have no retries.  The validation accepts others, and they may hang: *)
(* leaving a branch out always overwrites the first dependent of the IF, were it *)
(* the ELSE.                                                                     *)
NeverStuck == Quiet => closed

(* residual_tasks_num, which decides when the workflow is over, is the number   *)
(* of the tasks that have not ended, whichever function has changed it: a loop   *)
(* adds the tasks it resets, a selection takes away those it leaves out.  An     *)
(* operator that ended before its notification is still counted.                 *)
ResidualTasksExact ==
    ~ closed =>
        wf.residual_tasks_num = Cardinality({t \in Task : wf.status[t] < COMPLETED})
                              + Cardinality({m \in notes : wf.status[m.task] >= COMPLETED})

(* residual_deps_num of a task that has not been started is the number of its   *)
(* dependences, as rewired, on tasks that have not passed, also in the next      *)
(* iterations of a loop, where oph_workflow_reset_task restores what was saved   *)
(* before the first one and oph_workflow_disable_deps corrects it.               *)
ResidualDepsExact ==
    \A t \in Task : wf.status[t] = UNKNOWN /\ ~ closed =>
        wf.residual_deps_num[t] =
            Cardinality({j \in DOMAIN wf.deps[t] :
                LET d == wf.deps[t][j] IN
                d \notin {None, t} /\ (wf.status[d] \notin Passed \/ Notified(d))})

(* The two counters by which the engine decides what to start and when the        *)
(* workflow is over stay exact through selections, loops, failures and retries.    *)
CountersExact == ResidualTasksExact /\ ResidualDepsExact

(* A task is started only after the tasks it depends on in the request, in each  *)
(* iteration anew, although the dependences are rewired and reset.  A skipped     *)
(* sub-block may still be waiting for its notification.                            *)
OrderKept ==
    \A t \in Task : wf.status[t] \notin {UNKNOWN, ABORTED, UNSELECTED} =>
        \A d \in ToSet(g.deps[t]) : wf.status[d] \in Passed \/ wf.is_skipped[d]

(* OPH_IF, OPH_ELSEIF and OPH_ELSE select at most one sub-block, the one of the   *)
(* first condition that is true: no task of another sub-block is started, and no   *)
(* task is left out unless its sub-block, or one around it, is rejected.           *)
SelectionRespected ==
    \A t \in Task :
        /\ wf.status[t] \notin {UNKNOWN, ABORTED, UNSELECTED} =>
             \A h \in Heads : t \in Block(h) => Chosen(h)
        /\ wf.status[t] = UNSELECTED =>
             \E h \in Heads : t \in {h} \cup Block(h) /\ Rejected(h)

(* When a workflow completes without failures, each task outside of selections,   *)
(* or in sub-blocks that are chosen and not repeated, has run exactly once for      *)
(* each combination of the values of the loops around it, and no loop is left on    *)
(* the stack.                                                                        *)
IterationsExact ==
    closed /\ structure.ok /\ (\A t \in Task : wf.status[t] \in Passed) =>
        /\ wf.stack = << >>
        /\ \A t \in Task :
             (\A h \in Heads : t \in Block(h) => Chosen(h) /\ \A f \in For : h \notin Loop(f)) =>
                 ended[t] = Product({f \in For : t \in Loop(f)})

(* A workflow is accepted only if every FOR has one ENDFOR and every ENDFOR its    *)
(* own FOR, above it in the graph, if ELSEIF, ELSE and ENDIF follow an IF, and if    *)
(* no sub-block is followed by two others.  An IF need not have an ENDIF: that test   *)
(* of the code never refuses anything.                                                *)
BracketsMatch ==
    structure.ok =>
        /\ \A f \in For : Cardinality({e \in Task : Parent(e) = f}) = 1
        /\ \A e \in Task :
             /\ g.op[e] = "endfor" => Parent(e) # None /\ g.op[Parent(e)] = "for" /\ e \in BelowUntil(Parent(e), {})
             /\ g.op[e] \in {"elseif", "else"} => Parent(e) # None /\ g.op[Parent(e)] \in {"if", "elseif"}
             /\ g.op[e] = "endif" => Parent(e) # None /\ g.op[Top(structure.parent, e)] = "if"
        /\ \A h \in Heads : Cardinality(Followers(h)) <= 1
=============================================================================
