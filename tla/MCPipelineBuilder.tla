-------------------------- MODULE MCPipelineBuilder --------------------------
(***************************************************************************)
(* Small instances of PipelineBuilder for TLC: two resources a and b, one  *)
(* further name c (typed by the user, or drawn by safeName), list names l1 *)
(* and l2.                                                                 *)
(***************************************************************************)
EXTENDS BuilderGraph, TLC

CONSTANTS a, b, c, d, l1, l2

MCTaskName == {a, b, c}
MCListName == {l1, l2}
MCResource == {a, b}
MCSuffixed == [r \in {a, b} |-> {c}]

task(n, after, r) == [name |-> n, runAfter |-> after, res |-> r]

EmptyPipeline == [tasks |-> {}, finallyTasks |-> {}]
ChainPipeline == [tasks |-> {task(a, {}, a), task(b, {a}, b)}, finallyTasks |-> {}]
FinallyPipeline == [tasks |-> {task(a, {}, a)}, finallyTasks |-> {task(b, {}, b)}]

\* With the hub: a is offered, c is the safe name under which it is created if a is taken.
MCHubResource == {a, b, c}
MCHubTaskName == {a, b, c, d}
MCHubSuffixed == [r \in {a, b, c} |-> IF r = c THEN {d} ELSE {c}]
MCHubThere == {b}
MCHubListName == {l1}
MCHubExisting == {[tasks |-> {task(b, {}, b)}, finallyTasks |-> {}]}

\* The names join to one of their own, where that is a task as well.
MCSpacer(names) == IF names = {a, b} THEN c ELSE <<"parallel", names>>
MCFinallyNode == <<"finally-node">>

MCExisting == {EmptyPipeline, ChainPipeline, FinallyPipeline}
ListSymmetry == Permutations(MCListName)

\* The saved callback is dead when no search is open and no pick is pending: the next
\* search sets it anew.  A failure is dead once the resource is there for good.
Live ==
  LET there == installed \ Deletable
      fresh(S) == {[x EXCEPT !.seen = @ \ there] : x \in S}
  IN  <<group, ui, IF ui \in Search \/ pending # {} THEN callback ELSE None, installed,
        failed \ there, fresh(creating), arriving, fresh(pending), saved>>
=============================================================================
