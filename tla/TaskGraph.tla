------------------------------ MODULE TaskGraph ------------------------------
(***************************************************************************)
(* The task grouping a pipeline-builder form edits, and the pure functions *)
(* (taskGrouping, data) => taskGrouping of update-utils.ts.                *)
(*                                                                         *)
(* A grouping holds five lists of nodes.  Each list is a set here: every   *)
(* function of update-utils.ts treats its lists alike under reordering,    *)
(* the one exception being `find` over duplicate names: Found is the set   *)
(* of nodes it may return.  A node keeps what the functions read: its      *)
(* name, its runAfter (a set of names, `undefined` being the empty one)    *)
(* and the name of the Task or Pipeline it refers to.                      *)
(***************************************************************************)
EXTENDS FiniteSets

CONSTANTS
  TaskName,     \* names a task can bear: resource names, their suffixed variants, typed names
  ListName,     \* the random names of list nodes
  Resource,     \* names of the Tasks and Pipelines one can add
  Suffixed,     \* Suffixed[r]: the names `r-xyz` that safeName may draw for r
  NoName        \* the name of no node

ASSUME NamesAssumption ==
  /\ Resource \subseteq TaskName
  /\ TaskName \cap ListName = {}
  /\ NoName \notin TaskName \cup ListName
  /\ Suffixed \in [Resource -> SUBSET TaskName]

Name == TaskName \cup ListName

Task == [name : TaskName, runAfter : SUBSET Name, res : Resource]
ListTask == [name : ListName, runAfter : SUBSET Name]
LoadingTask == [name : TaskName, runAfter : SUBSET Name, res : Resource, fin : BOOLEAN]

\* PipelineBuilderTaskGrouping
Grouping ==
  [tasks : SUBSET Task, listTasks : SUBSET ListTask, loadingTasks : SUBSET LoadingTask,
   finallyTasks : SUBSET Task, finallyListTasks : SUBSET ListTask]

NamesOf(S) == {t.name : t \in S}

Without(n, S) == {t \in S : t.name # n}

-----------------------------------------------------------------------------
(***************************************************************************)
(* What the functions are built from: each maps a list of nodes.           *)
(***************************************************************************)

\* Swaps one runAfter (related) for another (new).
MapReplaceRelated(new, related, S) ==
  {[t EXCEPT !.runAfter = IF related \in @ THEN (@ \ {related}) \cup {new} ELSE @] : t \in S}

\* Whoever ran after the removed node now runs after what that node ran after.
MapStitchReplace(removed, S) ==
  {[t EXCEPT !.runAfter =
      IF removed.name \in @ THEN (@ \ {removed.name}) \cup removed.runAfter ELSE @] : t \in S}

\* The related node runs after the new one, and after nothing else.
MapBeRelated(new, related, S) ==
  {[t EXCEPT !.runAfter = IF t.name = related THEN {new} ELSE @] : t \in S}

\* Whoever runs after the related node also runs after the new one.
MapAddRelated(new, related, S) ==
  {[t EXCEPT !.runAfter = IF related \in @ THEN @ \cup {new} ELSE @] : t \in S}

\* The names safeName may return: the desired one unless it is reserved.
SafeNames(reserved, desired) ==
  IF desired \in reserved THEN Suffixed[desired] \ reserved ELSE {desired}

\* The reserved names of every conversion but fixInvalidListTask's.
UsedNames(g) == NamesOf(g.tasks) \cup NamesOf(g.finallyTasks)

-----------------------------------------------------------------------------
(***************************************************************************)
(* The operations.  `new` is the name the operation draws: a fresh list    *)
(* name, or a member of SafeNames.                                         *)
(***************************************************************************)

AddListNodeBefore(g, related, new) ==
  [g EXCEPT
    !.tasks = MapBeRelated(new, related.name, @),
    !.listTasks = MapBeRelated(new, related.name, @)
                    \cup {[name |-> new, runAfter |-> related.runAfter]}]

AddListNodeAfter(g, related, new) ==
  [g EXCEPT
    !.tasks = MapReplaceRelated(new, related.name, @),
    !.listTasks = MapReplaceRelated(new, related.name, @)
                    \cup {[name |-> new, runAfter |-> {related.name}]}]

\* Mutant: whoever ran after the related node now runs after the new one alone.
AddListNodeParallelReplacing(g, related, new) ==
  [g EXCEPT
    !.tasks = MapReplaceRelated(new, related.name, @),
    !.listTasks = MapReplaceRelated(new, related.name, @)
                    \cup {[name |-> new, runAfter |-> related.runAfter]}]

AddListNodeParallel(g, related, new) ==
  [g EXCEPT
    !.tasks = MapAddRelated(new, related.name, @),
    !.listTasks = MapAddRelated(new, related.name, @)
                    \cup {[name |-> new, runAfter |-> related.runAfter]}]

AddFinallyListTask(g, new) ==
  [g EXCEPT !.finallyListTasks = @ \cup {[name |-> new, runAfter |-> {}]}]

\* The node shown as `name` becomes a task; runAfter is the one its closure captured.
ConvertListToTask(g, name, res, runAfter, new) ==
  [g EXCEPT
    !.tasks = MapReplaceRelated(new, name, @)
                \cup {[name |-> new, runAfter |-> runAfter, res |-> res]},
    !.listTasks = MapReplaceRelated(new, name, Without(name, @))]

ConvertFinallyListToTask(g, name, res, new) ==
  [g EXCEPT
    !.finallyTasks = MapReplaceRelated(new, name, @)
                       \cup {[name |-> new, runAfter |-> {}, res |-> res]},
    !.finallyListTasks = MapReplaceRelated(new, name, Without(name, @))]

\* Mutant: the loading node keeps the name of the node it replaces.
ConvertToLoadingTaskNamed(g, name, res, runAfter, fin, new) ==
  [tasks |-> Without(name, g.tasks),
   finallyTasks |-> Without(name, g.finallyTasks),
   listTasks |-> IF fin THEN {} ELSE Without(name, g.listTasks),
   finallyListTasks |-> IF fin THEN Without(name, g.finallyListTasks) ELSE {},
   loadingTasks |-> g.loadingTasks \cup
     {[name |-> name, runAfter |-> IF fin THEN {} ELSE runAfter, res |-> res, fin |-> fin]}]

\* An Artifact Hub task takes the place of the node while it is being installed.
ConvertToLoadingTask(g, name, res, runAfter, fin, new) ==
  [tasks |-> MapReplaceRelated(new, name, Without(name, g.tasks)),
   finallyTasks |-> MapReplaceRelated(new, name, Without(name, g.finallyTasks)),
   listTasks |-> IF fin THEN {} ELSE MapReplaceRelated(new, name, Without(name, g.listTasks)),
   finallyListTasks |->
     IF fin THEN MapReplaceRelated(new, name, Without(name, g.finallyListTasks)) ELSE {},
   loadingTasks |-> g.loadingTasks \cup
     {[name |-> new, runAfter |-> IF fin THEN {} ELSE runAfter, res |-> res, fin |-> fin]}]

ConvertLoadingNodeToTask(g, l, new) ==
  [g EXCEPT
    !.tasks = MapReplaceRelated(new, l.name, @)
                \cup {[name |-> new, runAfter |-> l.runAfter, res |-> l.res]},
    !.loadingTasks = MapReplaceRelated(new, l.name, Without(l.name, @))]

ConvertLoadingNodeToFinallyTask(g, l, new) ==
  [g EXCEPT
    !.finallyTasks = MapReplaceRelated(new, l.name, @)
                       \cup {[name |-> new, runAfter |-> l.runAfter, res |-> l.res]},
    !.loadingTasks = MapReplaceRelated(new, l.name, Without(l.name, @))]

\* What `find` may return for a name: one of the nodes that bear it, or a node nobody refers to.
Found(n, S) ==
  IF n \in NamesOf(S) THEN {t \in S : t.name = n} ELSE {[name |-> NoName, runAfter |-> {}]}

\* Mutant: the list node goes, and those that ran after it are left alone.
DeleteListTaskOnly(g, n, r, f) ==
  [g EXCEPT !.listTasks = Without(n, @), !.finallyListTasks = Without(n, @)]

\* r and f are what `find` returns for n among the regular and the finally list nodes.
DeleteListTask(g, n, r, f) ==
  [g EXCEPT
    !.tasks = MapStitchReplace(r, @),
    !.listTasks = MapStitchReplace(r, Without(n, @)),
    !.finallyTasks = MapStitchReplace(f, @),
    !.finallyListTasks = MapStitchReplace(f, Without(n, @))]

\* Mutant: the list nodes that ran after the task are left alone.
RemoveTaskOfTasks(g, n, r, f) ==
  [g EXCEPT
    !.tasks = MapStitchReplace(r, Without(n, @)),
    !.finallyTasks = MapStitchReplace(f, Without(n, @))]

\* r and f are what `find` returns for n among the tasks and the finally tasks.
RemoveTask(g, n, r, f) ==
  [g EXCEPT
    !.tasks = MapStitchReplace(r, Without(n, @)),
    !.listTasks = MapStitchReplace(r, @),
    !.finallyTasks = MapStitchReplace(f, Without(n, @))]

\* The named task takes the new name; whoever ran after it follows.
RenameIn(old, new, S) ==
  MapReplaceRelated(new, old, Without(old, S))
    \cup {[t EXCEPT !.name = new] : t \in {x \in S : x.name = old}}

RenameTask(g, old, new) ==
  [g EXCEPT
    !.tasks = RenameIn(old, new, @),
    !.listTasks = MapReplaceRelated(new, old, @),
    !.finallyTasks = RenameIn(old, new, @)]

\* The list nodes keep their runAfter, and the reserved names are those of `tasks` alone.
FixInvalidListTask(g, name, res, runAfter, new) ==
  [g EXCEPT
    !.tasks = MapReplaceRelated(new, name, Without(name, @))
                \cup {[name |-> new, runAfter |-> runAfter, res |-> res]}]

FixInvalidFinallyListTask(g, name, res, new) ==
  [g EXCEPT
    !.finallyTasks = MapReplaceRelated(new, name, Without(name, @))
                       \cup {[name |-> new, runAfter |-> {}, res |-> res]}]

-----------------------------------------------------------------------------
(***************************************************************************)
(* The graph of the regular (not finally) nodes of a grouping.             *)
(***************************************************************************)

Regular(g) == g.tasks \cup g.listTasks \cup {l \in g.loadingTasks : ~l.fin}

RegularNames(g) == NamesOf(Regular(g))

\* No two nodes of S bear one name.
Distinct(S) == \A s, t \in S : s.name = t.name => s = t

\* A name tells one node of the whole form.
NamesUnique(g) ==
  /\ Distinct(Regular(g))
  /\ Distinct(g.finallyTasks)
  /\ Distinct(g.finallyListTasks)
  /\ RegularNames(g) \cap (NamesOf(g.finallyTasks) \cup NamesOf(g.finallyListTasks)) = {}

\* Every runAfter of the nodes R names one of them.
Closed(R) == \A t \in R : t.runAfter \subseteq NamesOf(R)

\* Every non-empty set of names has one whose node runs after none of the others.
Acyclic(R) ==
  \A S \in SUBSET NamesOf(R) :
    S # {} => \E n \in S : \A t \in R : t.name = n => t.runAfter \cap S = {}

GraphOK(g) == NamesUnique(g) /\ Closed(Regular(g)) /\ Acyclic(Regular(g))

\* The nodes that run before n, directly or through others: those in every set that
\* holds what n runs after and, with a node, what that node runs after.
Ancestors(g, n) ==
  {m \in RegularNames(g) :
     \A S \in SUBSET RegularNames(g) :
       (\A t \in Regular(g) :
          t.name \in S \cup {n} => t.runAfter \cap RegularNames(g) \subseteq S)
       => m \in S}
=============================================================================
