----------------------------- MODULE BuilderGraph -----------------------------
(***************************************************************************)
(* The graph that the pipeline builder draws of its task grouping.  Nodes  *)
(* that run after the same two or more others are drawn behind one spacer, *)
(* so that n by m edges become n + m; the finally tasks are one node.      *)
(***************************************************************************)
EXTENDS PipelineBuilder

CONSTANTS
  Spacer(_),    \* id of the spacer before the nodes of these names: the names joined by '-'
  FinallyNode   \* id of the finally node

\* Names are of bounded length (nameValidationSchema).  Of the ids nothing is assumed: `a-b`
\* and `c` are joined to what `a` and `b-c` are, and a task may be called like a spacer.
ASSUME DrawingAssumption == IsFiniteSet(Name)

\* A task is drawn whether or not its reference resolves; an empty pipeline shows one node,
\* with no runAfter.
BuilderNodes ==
  IF SoloNode
    THEN {[name |-> n, runAfter |-> {}] :
            n \in IF group.listTasks = {} THEN {InitialNode} ELSE NamesOf(group.listTasks)}
    ELSE {[name |-> t.name, runAfter |-> t.runAfter] : t \in Regular(group)}

\* The nodes with the runAfters of n.
Alike(n, nodes) == {m \in nodes : m.runAfter = n.runAfter}

SpacerOf(n, nodes) == Spacer(NamesOf(Alike(n, nodes)))

\* The nodes that are drawn behind a spacer.
ParallelOf(nodes) ==
  {n \in nodes : Cardinality(n.runAfter) > 1 /\ Cardinality(NamesOf(Alike(n, nodes))) > 1}

\* Mutant: the spacer is put before the nodes and behind none.
HandleParallelForgetting(nodes) ==
  (nodes \ ParallelOf(nodes))
    \cup {[name |-> SpacerOf(n, nodes), runAfter |-> {}] : n \in ParallelOf(nodes)}
    \cup {[n EXCEPT !.runAfter = {SpacerOf(n, nodes)}] : n \in ParallelOf(nodes)}

HandleParallelToParallelNodes(nodes) ==
  (nodes \ ParallelOf(nodes))
    \cup {[name |-> SpacerOf(n, nodes), runAfter |-> n.runAfter] : n \in ParallelOf(nodes)}
    \cup {[n EXCEPT !.runAfter = {SpacerOf(n, nodes)}] : n \in ParallelOf(nodes)}

\* The nodes that no node runs after.
GetLastRegularTasks(nodes) == NamesOf(nodes) \ UNION {n.runAfter : n \in nodes}

\* What is drawn: the nodes with their spacers, and the finally node after the last of them.
DrawnNodes ==
  LET regular == HandleParallelToParallelNodes(BuilderNodes)
  IN  regular \cup {[name |-> FinallyNode, runAfter |-> GetLastRegularTasks(regular)]}

\* The edges of the drawing are the runAfters of its nodes.
Drawing ==
  [node |-> NamesOf(DrawnNodes),
   edge |-> UNION {{<<m, n.name>> : m \in n.runAfter} : n \in DrawnNodes}]

-----------------------------------------------------------------------------
\* No two of the spacers, the nodes and the finally node that are drawn have one id.
IdsApart(nodes) ==
  /\ \A m, n \in ParallelOf(nodes) : SpacerOf(m, nodes) = SpacerOf(n, nodes) => n \in Alike(m, nodes)
  /\ NamesOf(nodes) \cap {SpacerOf(n, nodes) : n \in ParallelOf(nodes)} = {}
  /\ FinallyNode \notin NamesOf(HandleParallelToParallelNodes(nodes))

\* Whatever was edited, unless ids meet, the drawing tells the order of the form: edges join
\* nodes that are drawn, a node lies behind those that run before it and behind no other,
\* spacers apart, and the finally node lies behind all.  A node lies behind those in every set
\* that holds it and, with a node, where the edges of that node come from.
DrawnAsEdited ==
  LET shown == NamesOf(BuilderNodes)
      drawn == Drawing
      backward == {S \in SUBSET drawn.node : \A e \in drawn.edge : e[2] \in S => e[1] \in S}
      Before(n) == {m \in drawn.node : \A S \in backward : n \in S => m \in S}
  IN  IdsApart(BuilderNodes) =>
        /\ drawn.edge \subseteq drawn.node \X drawn.node
        /\ \A n \in shown : Before(n) \cap shown = Ancestors(group, n) \cup {n}
        /\ Before(FinallyNode) = drawn.node
=============================================================================
