--------------------------- MODULE FlowStructure ---------------------------
(***************************************************************************)
(* The structure of a workflow with flow control operators, as               *)
(* oph_workflow_validate_fco finds it in the graph: which ENDFOR belongs to   *)
(* which FOR, which ELSEIF, ELSE and ENDIF follow which IF.  A workflow g has *)
(* an operator g.op[t] and the tasks g.deps[t] it depends on, by index;       *)
(* tasks are numbered from 1.                                                 *)
(***************************************************************************)
EXTENDS Integers, Sequences, SequencesExt

None == 0        \* -1 in the code
NoGparent == -2

TaskOf(g) == DOMAIN g.op

(* oph_workflow_indexing appends task i to the dependents of each task it    *)
(* depends on, once for each dependence.                                      *)
DependentsOf(g) ==
    [k \in TaskOf(g) |->
        FlattenSeq([i \in TaskOf(g) |-> [x \in 1 .. Len(SelectSeq(g.deps[i], LAMBDA d : d = k)) |-> i]])]

RECURSIVE IsChildOf(_, _, _)
IsChildOf(g, p, c) ==
    /\ c # None
    /\ p = c \/ \E j \in ToSet(g.dependents[p]) : j # p /\ IsChildOf(g, j, c)

RECURSIVE Top(_, _)
Top(parent, k) == IF parent[k] = None THEN k ELSE Top(parent, parent[k])

GparentOf(parent, k) == IF parent[k] = None THEN NoGparent ELSE Top(parent, k)

(***************************************************************************)
(* workflow_number_of: the tasks op that can be reached from k, where pairs   *)
(* of nop and its end in between are brackets to be skipped.  s holds what    *)
(* the C function changes: level and flag, the fields parent, child,          *)
(* branch_num of the tasks, *child and the result res.                        *)
(***************************************************************************)
RECURSIVE NumberOf(_, _, _, _, _, _, _, _)
NumberOf(g, s, k, p, gp, op, nop, bracket) ==
    LET Below(v, j, bn) ==
            LET r == NumberOf(g, [v EXCEPT !.res = 0], j, p, gp, op, nop, bn)
            IN  [r EXCEPT !.res = v.res + @]
        Count(v, j) ==
            LET own == v.parent[j] \in {None, p} IN
            [v EXCEPT !.flag[j] = FALSE,
                      !.res = IF own \/ v.parent[j] = gp THEN @ + 1 ELSE @ + 2,
                      !.parent[j] = IF own THEN p ELSE @,
                      !.child[p] = IF own THEN j ELSE @,
                      !.found = IF own THEN j ELSE @,
                      !.branch_num[j] = @ + 1]
        AtLeast(v, j, bn) ==
            IF v.level[j] < bn + v.level[p] THEN [v EXCEPT !.level[j] = bn + v.level[p]] ELSE v
        End(v, j) ==
            LET bn == v.level[j] - v.level[p] IN
            IF bn > 0 THEN Below(v, j, bn - 1)
            ELSE IF v.flag[j] THEN Count(v, j) ELSE v
        Visit(v, j) ==
            IF v.res > 1 THEN v
            ELSE LET u == AtLeast(v, j, bracket) IN
                 IF g.op[j] = (IF bracket > 0 /\ nop # "for" THEN "endif" ELSE op) THEN End(u, j)
                 ELSE IF g.op[j] = nop THEN Below(AtLeast(u, j, bracket + 1), j, bracket + 1)
                 ELSE Below(u, j, bracket)
    IN  FoldLeft(Visit, s, g.dependents[k])

Search(g, s, k, gp, op, nop) ==
    NumberOf(g, [s EXCEPT !.flag = [t \in TaskOf(g) |-> TRUE], !.res = 0], k, k, gp, op, nop, 0)

(* All tasks with parent k lead to the end that was found.                   *)
Closed(g, s, k) == \A i \in TaskOf(g) : s.parent[i] = k => IsChildOf(g, i, s.found)

Wrong(s) == [s EXCEPT !.ok = FALSE]

(* Mutant of CheckFor: several ways to an ENDFOR are not refused.            *)
CheckForFound(g, s, k) ==
    LET r == Search(g, s, k, k, "endfor", "for") IN IF r.res > 0 THEN r ELSE Wrong(r)

CheckFor(g, s, k) ==
    LET r == Search(g, s, k, k, "endfor", "for")
    IN  IF r.res = 1 /\ Closed(g, r, k) THEN r ELSE Wrong(r)

(* The sub-block that follows k, if there is one.                             *)
CheckNext(g, s, k, gp) ==
    LET a == Search(g, [s EXCEPT !.found = None], k, gp, "elseif", "if")
        b == Search(g, [a EXCEPT !.found = None], k, gp, "else", "if")
    IN  IF a.res > 1 THEN Wrong(a)
        ELSE IF a.found # None THEN IF Closed(g, a, k) THEN a ELSE Wrong(a)
        ELSE IF b.res > 1 THEN Wrong(b)
        ELSE IF b.found # None THEN IF Closed(g, b, k) THEN b ELSE Wrong(b)
        ELSE b

(* The number of ENDIFs is not looked at: the code tests for a number that   *)
(* is both zero and greater than one.                                         *)
CheckIf(g, s, k) ==
    LET r == CheckNext(g, s, k, k)
        e == Search(g, r, k, k, "endif", "if")
    IN  IF ~ r.ok THEN r ELSE IF Closed(g, e, k) THEN e ELSE Wrong(e)

CheckEnd(g, s, k) ==
    LET e == Search(g, s, k, GparentOf(s.parent, k), "endif", "if")
    IN  IF e.res = 1 /\ Closed(g, e, k) THEN e ELSE Wrong(e)

CheckElseif(g, s, k) ==
    LET r == CheckNext(g, s, k, GparentOf(s.parent, k))
    IN  IF r.ok /\ r.found = None THEN CheckEnd(g, r, k) ELSE r

(* oph_workflow_validate_fco: the first wrong operator ends the loop.         *)
Validate(g) ==
    LET Check(s, k) ==
            IF ~ s.ok THEN s
            ELSE CASE g.op[k] = "for" -> CheckFor(g, s, k)
                   [] g.op[k] = "if" -> CheckIf(g, s, k)
                   [] g.op[k] = "elseif" -> CheckElseif(g, s, k)
                   [] g.op[k] = "else" -> CheckEnd(g, s, k)
                   [] OTHER -> s
        none == [t \in TaskOf(g) |-> None]
        start == [level |-> none, flag |-> none, parent |-> none, child |-> none,
                  branch_num |-> none, found |-> None, res |-> 0, ok |-> TRUE]
        s == FoldLeft(Check, start, [k \in TaskOf(g) |-> k])
    IN  [s EXCEPT !.ok = @ /\ \A k \in TaskOf(g) :
                     g.op[k] \in {"endfor", "elseif", "else", "endif"} => s.parent[k] # None]
=============================================================================
