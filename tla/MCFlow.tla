------------------------------- MODULE MCFlow -------------------------------
(***************************************************************************)
(* Workflows for FlowControl: block-structured ones, where a sub-block is    *)
(* entered through its head only and left towards the ENDIF only, and some    *)
(* that must be refused.  r is the retry_num of the tasks that are no flow     *)
(* control operators; the operators have the default, 1.  Tasks are retried     *)
(* only where nothing runs beside them: see the lost retry of WorkflowEngine.    *)
(***************************************************************************)
EXTENDS FlowControl

Wf(op, deps, r) == [op |-> op, deps |-> deps, loops |-> [t \in DOMAIN op |-> 2],
                    retry_num |-> [t \in DOMAIN op |-> IF op[t] \in FlowOps THEN 1 ELSE r]]

IfElse(r) == Wf(<<"if", "a", "else", "b", "endif">>, <<<<>>, <<1>>, <<1>>, <<3>>, <<2, 4>>>>, r)
IfOnly(r) == Wf(<<"a", "if", "b", "endif", "c">>, <<<<>>, <<1>>, <<2>>, <<3>>, <<4>>>>, r)
IfElseif(r) == Wf(<<"if", "a", "elseif", "b", "else", "c", "endif">>,
                  <<<<>>, <<1>>, <<1>>, <<3>>, <<3>>, <<5>>, <<2, 4, 6>>>>, r)
(* An IF in the second sub-block of another one. *)
IfIf(r) == Wf(<<"if", "a", "else", "if", "b", "endif", "endif">>,
              <<<<>>, <<1>>, <<1>>, <<3>>, <<4>>, <<5>>, <<2, 6>>>>, r)
(* A body task depends on a task outside of the loop that may be slower. *)
ForBody(r) == Wf(<<"x", "for", "a", "b", "endfor">>, <<<<>>, <<>>, <<1, 2>>, <<2>>, <<3, 4>>>>, r)
IfFor(r) == Wf(<<"if", "for", "a", "endfor", "else", "b", "endif">>,
               <<<<>>, <<1>>, <<2>>, <<3>>, <<1>>, <<5>>, <<4, 6>>>>, r)
ForFor(r) == Wf(<<"for", "for", "a", "endfor", "b", "endfor">>,
                <<<<>>, <<1>>, <<2>>, <<3>>, <<1>>, <<4, 5>>>>, r)
ForForLoops == [ForFor(1) EXCEPT !.loops = [t \in 1 .. 6 |-> IF t = 1 THEN 1 ELSE 3]]
ForIf(r) == Wf(<<"for", "if", "a", "endif", "b", "endfor">>,
               <<<<>>, <<1>>, <<2>>, <<3>>, <<1>>, <<4, 5>>>>, r)

Refused == {Wf(<<"for", "a">>, <<<<>>, <<1>>>>, 1),
            Wf(<<"a", "endfor">>, <<<<>>, <<1>>>>, 1),
            Wf(<<"for", "endfor", "endfor">>, <<<<>>, <<1>>, <<1>>>>, 1),
            Wf(<<"for", "for", "endfor", "endfor">>, <<<<>>, <<>>, <<1, 2>>, <<3>>>>, 1),
            Wf(<<"if", "else", "else", "endif">>, <<<<>>, <<1>>, <<1>>, <<2, 3>>>>, 1),
            Wf(<<"a", "else", "endif">>, <<<<>>, <<1>>, <<2>>>>, 1)}

Shapes == UNION {{IfElse(r), IfOnly(r), IfElseif(r), IfIf(r), ForBody(r), IfFor(r), ForFor(r), ForIf(r)} :
                 r \in {1, 0, -1}}
          \cup {IfOnly(2), ForForLoops} \cup Refused

(* A workflow that is accepted and goes wrong: the selection is repeated.         *)
RepeatedElse == {Wf(<<"for", "if", "a", "else", "b", "endif", "endfor">>,
                    <<<<>>, <<1>>, <<2>>, <<2>>, <<4>>, <<3, 5>>, <<6>>>>, 1)}
=============================================================================
