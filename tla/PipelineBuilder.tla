--------------------------- MODULE PipelineBuilder ---------------------------
(***************************************************************************)
(* The pipeline builder: a form that edits the task graph of one pipeline. *)
(*                                                                         *)
(* The user adds list nodes around tasks, picks a Task or Pipeline for     *)
(* them in the quick search, renames and removes tasks, and submits.  A    *)
(* Task of Artifact Hub is created in the namespace first: a loading node  *)
(* holds its place until the namespace watch shows it or its creation      *)
(* fails.  Answers of the cluster arrive while the user edits.  The        *)
(* callback that applies a late one is that of the node on which the quick *)
(* search was opened last, and it captured a name and runAfters then.      *)
(*                                                                         *)
(* One action per handler.  The effects that convert loading nodes run     *)
(* after the render that makes a node convertible and before the next      *)
(* event that changes the graph (Settled).                                 *)
(***************************************************************************)
EXTENDS Console, TaskGraph, Naturals

CONSTANTS
  InitialNode,      \* 'initial-node', the name of the one list node of an empty pipeline
  Existing,         \* the pipelines the builder may be opened on, as [tasks, finallyTasks]
  InitiallyThere,   \* resources in the namespace when the builder opens
  HubTasks,         \* resources Artifact Hub offers ({}: the integration is off)
  Deletable,        \* resources that someone may delete meanwhile
  Typed,            \* bound: names the user may type
  MaxNodes,         \* bound: nodes of a form, with those of pending picks
  MaxInstalls       \* bound: hub requests in flight

ASSUME BuilderAssumption ==
  /\ InitialNode \notin Name
  /\ Existing \subseteq [tasks : SUBSET Task, finallyTasks : SUBSET Task]
  /\ InitiallyThere \subseteq Resource
  /\ HubTasks \subseteq Resource
  /\ Deletable \subseteq Resource
  /\ Typed \subseteq TaskName

VARIABLES
  group,      \* formData's task grouping
  ui,         \* what the user has open: a search, a name being typed, a removal to confirm
  installed,  \* the resources the namespace watches show
  failed,     \* failedTasks: resources whose creation failed
  callback,   \* savedCallback: what that of the node searched for last captured
  creating,   \* creations requested and not answered
  arriving,   \* created resources that the watch has not shown yet
  pending,    \* hub picks that are still to run the callback
  saved       \* the pipeline just saved, None while the builder is open

vars == <<group, ui, callback, installed, failed, creating, arriving, pending, saved>>

\* What the callback of a node captures when the quick search is opened on it.
Target == [name : Name \cup {InitialNode}, runAfter : SUBSET Name,
           fin : BOOLEAN, invalid : BOOLEAN]

Search == [kind : {"search"}]
Rename == [kind : {"rename"}, old : TaskName, new : TaskName]
Removal == [kind : {"remove"}, name : TaskName, group : Grouping]

\* `seen` is the failedTasks that the request's error handler captured.
Creation == [res : Resource, seen : SUBSET Resource]

\* Picks of one resource at one stage by handlers that captured the same are one element.
PendingPick == [res : Resource, seen : SUBSET Resource, stage : {"details", "create"}]

Pipeline == [tasks : SUBSET Task, finallyTasks : SUBSET Task]

\* "Nothing" is told from everything that may be open or saved.
ASSUME NoneAssumption == None \notin Search \cup Rename \cup Removal \cup Pipeline

TypeOK ==
  /\ group \in Grouping
  /\ ui \in {None} \cup Search \cup Rename \cup Removal
  /\ installed \subseteq Resource
  /\ failed \subseteq Resource
  /\ callback \in Target \cup {None}
  /\ creating \subseteq Creation
  /\ arriving \subseteq Resource
  /\ pending \subseteq PendingPick
  /\ saved \in Pipeline \cup {None}

-----------------------------------------------------------------------------
\* convertPipelineToBuilderForm
FormOf(p) ==
  [tasks |-> p.tasks, listTasks |-> {}, loadingTasks |-> {},
   finallyTasks |-> p.finallyTasks, finallyListTasks |-> {}]

\* convertBuilderFormToPipeline of a form with a task: the tasks go out as they are.
PipelineOf(g) == [tasks |-> g.tasks, finallyTasks |-> g.finallyTasks]

\* runAfterMatches, in the scope of the form's tasks and list nodes.
RunAfterMatches(g, t) ==
  /\ t.name \notin t.runAfter
  /\ t.runAfter \subseteq NamesOf(g.tasks) \cup NamesOf(g.listTasks)

\* The submit button is enabled: a task, no loading node, and the schema's runAfter tests pass.
CanSubmit(g) ==
  /\ g.tasks # {}
  /\ g.loadingTasks = {}
  /\ \A t \in g.tasks \cup g.listTasks : RunAfterMatches(g, t)

\* Tekton's admission check of a pipeline's graph (external).
TektonAccepts(p) ==
  LET g == FormOf(p) IN GraphOK(g)

Nodes(g) ==
  Cardinality(g.tasks) + Cardinality(g.listTasks) + Cardinality(g.loadingTasks)
    + Cardinality(g.finallyTasks) + Cardinality(g.finallyListTasks)

Room == Nodes(group) + Cardinality(pending) < MaxNodes

AllNames(g) ==
  RegularNames(g) \cup NamesOf(g.loadingTasks) \cup NamesOf(g.finallyTasks)
    \cup NamesOf(g.finallyListTasks)

\* findTask: the node's reference resolves.
Resolves(t) == t.res \in installed

\* Mutant: a failed install leaves its loading node for good.
ConvertibleIfInstalled(l) == l.res \in installed

\* A loading node whose Task has been installed, or has failed to be.
Convertible(l) == l.res \in installed \cup failed

\* The resources whose creation is under way.
Requested == {c.res : c \in creating}

Settled == \A l \in group.loadingTasks : ~Convertible(l)

Editing == saved = None

\* The user may start something new.
Idle == Editing /\ Settled /\ ui = None

\* An empty pipeline shows one list node, which cannot be removed.
SoloNode ==
  /\ group.tasks = {}
  /\ \A l, m \in group.listTasks : l = m
  /\ \A l \in group.loadingTasks : l.fin

ListTarget(name, runAfter, fin) ==
  [name |-> name, runAfter |-> runAfter, fin |-> fin, invalid |-> FALSE]

InvalidTarget(t, fin) ==
  [name |-> t.name, runAfter |-> IF fin THEN {} ELSE t.runAfter, fin |-> fin, invalid |-> TRUE]

\* The nodes one can open the quick search on, with what their closures hold.
Targets ==
  (IF SoloNode
     THEN {ListTarget(n, {}, FALSE) :
             n \in IF group.listTasks = {} THEN {InitialNode} ELSE NamesOf(group.listTasks)}
     ELSE {ListTarget(l.name, l.runAfter, FALSE) : l \in group.listTasks})
  \cup {InvalidTarget(t, FALSE) : t \in {x \in group.tasks : ~Resolves(x)}}
  \cup {ListTarget(l.name, {}, TRUE) : l \in group.finallyListTasks}
  \cup {InvalidTarget(t, TRUE) : t \in {x \in group.finallyTasks : ~Resolves(x)}}

Init ==
  /\ \E p \in Existing : group = FormOf(p)
  /\ installed = InitiallyThere
  /\ ui = None
  /\ callback = None
  /\ failed = {}
  /\ creating = {}
  /\ arriving = {}
  /\ pending = {}
  /\ saved = None

cluster == <<installed, failed, creating, arriving>>

-----------------------------------------------------------------------------
(***************************************************************************)
(* The user: edits of the graph.                                           *)
(***************************************************************************)

AddListNode(t, n) ==
  /\ Idle
  /\ Room
  /\ t \in group.tasks /\ Resolves(t)
  /\ n \in ListName \ AllNames(group)
  /\ group' \in {AddListNodeBefore(group, t, n), AddListNodeAfter(group, t, n),
                 AddListNodeParallel(group, t, n)}
  /\ UNCHANGED <<ui, callback, cluster, pending, saved>>

AddNewFinallyListNode(n) ==
  /\ Idle
  /\ Room
  /\ n \in ListName \ AllNames(group)
  /\ group' = AddFinallyListTask(group, n)
  /\ UNCHANGED <<ui, callback, cluster, pending, saved>>

\* DELETE_LIST_TASK of a list node, regular or finally.
RemoveListNode(n) ==
  /\ Idle
  /\ n \in NamesOf(group.finallyListTasks) \/ (~SoloNode /\ n \in NamesOf(group.listTasks))
  /\ \E r \in Found(n, group.listTasks), f \in Found(n, group.finallyListTasks) :
       group' = DeleteListTask(group, n, r, f)
  /\ UNCHANGED <<ui, callback, cluster, pending, saved>>

\* An invalid node goes at once; a valid task is removed from its sidebar, through a dialog.
RemoveInvalid(t) ==
  /\ Idle
  /\ t \in group.tasks \cup group.finallyTasks /\ ~Resolves(t)
  /\ \E r \in Found(t.name, group.tasks), f \in Found(t.name, group.finallyTasks) :
       group' = RemoveTask(group, t.name, r, f)
  /\ UNCHANGED <<ui, callback, cluster, pending, saved>>

\* The dialog's onRemove closes over the task group of the render that opened it.
AskRemove(t) ==
  /\ Idle
  /\ t \in group.tasks \cup group.finallyTasks /\ Resolves(t)
  /\ ui' = [kind |-> "remove", name |-> t.name, group |-> group]
  /\ UNCHANGED <<group, callback, cluster, pending, saved>>

ConfirmRemove ==
  /\ Editing /\ Settled /\ ui \in Removal
  /\ \E r \in Found(ui.name, ui.group.tasks), f \in Found(ui.name, ui.group.finallyTasks) :
       group' = RemoveTask(ui.group, ui.name, r, f)
  /\ ui' = None
  /\ UNCHANGED <<callback, cluster, pending, saved>>

\* A name typed in the sidebar is checked against the reserved names as it is typed ...
TypeName(t, n) ==
  /\ Idle
  /\ t \in group.tasks \cup group.finallyTasks /\ Resolves(t)
  /\ n \in Typed \ UsedNames(group)
  /\ ui' = [kind |-> "rename", old |-> t.name, new |-> n]
  /\ UNCHANGED <<group, callback, cluster, pending, saved>>

\* ... and applied when the field loses focus.
BlurName ==
  /\ Editing /\ Settled /\ ui \in Rename
  /\ group' = RenameTask(group, ui.old, ui.new)
  /\ ui' = None
  /\ UNCHANGED <<callback, cluster, pending, saved>>

OpenSearch(target) ==
  /\ Idle
  /\ target \in Targets /\ (target.name = InitialNode => Room)
  /\ ui' = [kind |-> "search"]
  /\ callback' = target
  /\ UNCHANGED <<group, cluster, pending, saved>>

\* The quick search, the name field (its error shown) or the removal dialog is dismissed.
Dismiss ==
  /\ Editing /\ Settled /\ ui # None
  /\ ui' = None
  /\ UNCHANGED <<group, callback, cluster, pending, saved>>

-----------------------------------------------------------------------------
(***************************************************************************)
(* The user: picks in the quick search.                                    *)
(***************************************************************************)

\* The saved callback runs with a resource of the cluster.
PickedFor(r) ==
  IF callback.invalid
    THEN IF callback.fin
           THEN {FixInvalidFinallyListTask(group, callback.name, r, n) :
                   n \in SafeNames(UsedNames(group), r)}
           ELSE {FixInvalidListTask(group, callback.name, r, callback.runAfter, n) :
                   n \in SafeNames(NamesOf(group.tasks), r)}
    ELSE IF callback.fin
           THEN {ConvertFinallyListToTask(group, callback.name, r, n) :
                   n \in SafeNames(UsedNames(group), r)}
           ELSE {ConvertListToTask(group, callback.name, r, callback.runAfter, n) :
                   n \in SafeNames(UsedNames(group), r)}

\* The saved callback runs with the bare name of an Artifact Hub task.
LoadingFor(r) ==
  {ConvertToLoadingTask(group, callback.name, r, callback.runAfter, callback.fin, n) :
     n \in SafeNames(UsedNames(group), r)}

\* The form is there to run a callback, which the search that a pick was made in has set.
Calling == Editing /\ Settled /\ callback # None

Searching == Calling /\ ui \in Search

PickInstalled(r) ==
  /\ Searching
  /\ r \in installed
  /\ group' \in PickedFor(r)
  /\ ui' = None
  /\ UNCHANGED <<callback, cluster, pending, saved>>

\* "Install and add": the callback runs at once and the creation is requested (the update of
\* an installed task behaves alike).
CreateAfter(r, seen) ==
  /\ Cardinality(creating) < MaxInstalls
  /\ group' \in LoadingFor(r)
  /\ creating' = creating \cup {[res |-> r, seen |-> seen]}

\* The name is found taken, in the catalog or in a task group that may be out of date: the
\* task is created under a safe name first, and the callback runs when that succeeds.
CreateFirst(r, seen, rest) ==
  /\ Cardinality(creating) < MaxInstalls
  /\ \E n \in (Resource \cap Suffixed[r]) \ (AllNames(group) \cup installed \cup Requested) :
       /\ pending' = rest \cup {[res |-> n, seen |-> seen, stage |-> "create"]}
       /\ creating' = creating \cup {[res |-> n, seen |-> seen]}

PickHub(r) ==
  /\ Searching
  /\ r \in HubTasks
  /\ CreateAfter(r, failed)
  /\ ui' = None
  /\ UNCHANGED <<callback, installed, failed, arriving, pending, saved>>

PickHubConflict(r) ==
  /\ Searching
  /\ r \in HubTasks
  /\ Room
  /\ CreateFirst(r, failed, pending)
  /\ ui' = None
  /\ UNCHANGED <<group, callback, installed, failed, arriving, saved>>

\* The content URL is not known: the dialog closes, and the details are fetched.
PickHubDetails(r) ==
  /\ Searching
  /\ r \in HubTasks
  /\ Room /\ Cardinality(pending) < MaxInstalls
  /\ pending' = pending \cup {[res |-> r, seen |-> failed, stage |-> "details"]}
  /\ ui' = None
  /\ UNCHANGED <<group, callback, cluster, saved>>

-----------------------------------------------------------------------------
(***************************************************************************)
(* Answers of Artifact Hub and of the cluster.                             *)
(***************************************************************************)

DetailsFetched(p) ==
  /\ Calling
  /\ p \in pending /\ p.stage = "details"
  /\ \/ /\ CreateFirst(p.res, p.seen, pending \ {p})
        /\ UNCHANGED group
     \/ /\ CreateAfter(p.res, p.seen)
        /\ pending' = pending \ {p}
  /\ UNCHANGED <<ui, callback, installed, failed, arriving, saved>>

\* The error is logged and the pick is forgotten.
DetailsFailed(p) ==
  /\ p \in pending /\ p.stage = "details"
  /\ pending' = pending \ {p}
  /\ UNCHANGED <<group, ui, callback, cluster, saved>>

\* The pick that the answer to a creation runs the callback of, if any.
Awaiting(c) == {p \in pending : p.stage = "create" /\ p.res = c.res /\ p.seen = c.seen}

CreateOk(c) ==
  /\ c \in creating /\ Awaiting(c) = {}
  /\ creating' = creating \ {c}
  /\ arriving' = arriving \cup {c.res}
  /\ UNCHANGED <<group, ui, callback, installed, failed, pending, saved>>

\* The creation requested under a safe name succeeds: only now does the callback run.
CreateFirstOk(c) ==
  /\ Calling
  /\ c \in creating /\ Awaiting(c) # {}
  /\ group' \in LoadingFor(c.res)
  /\ pending' = pending \ Awaiting(c)
  /\ creating' = creating \ {c}
  /\ arriving' = arriving \cup {c.res}
  /\ UNCHANGED <<ui, callback, installed, failed, saved>>

\* The error handler sets failedTasks from what it captured: another failure in between is lost.
CreateFailed(c) ==
  /\ c \in creating
  /\ creating' = creating \ {c}
  /\ failed' = c.seen \cup {c.res}
  /\ pending' = pending \ Awaiting(c)
  /\ UNCHANGED <<group, ui, callback, installed, arriving, saved>>

\* The namespace watch shows a resource that was created, or drops one that was deleted.
WatchAdded(r) ==
  /\ r \in arriving
  /\ arriving' = arriving \ {r}
  /\ installed' = installed \cup {r}
  /\ UNCHANGED <<group, ui, callback, failed, creating, pending, saved>>

WatchDeleted(r) ==
  /\ r \in Deletable \cap installed
  /\ installed' = installed \ {r}
  /\ UNCHANGED <<group, ui, callback, failed, creating, arriving, pending, saved>>

\* Mutant: the task takes the resource's name, whether or not it is in use.
LoadingCleanupUnsafe(l) ==
  /\ Editing
  /\ l \in group.loadingTasks /\ Convertible(l)
  /\ group' = IF l.fin THEN ConvertLoadingNodeToFinallyTask(group, l, l.res)
                       ELSE ConvertLoadingNodeToTask(group, l, l.res)
  /\ UNCHANGED <<ui, callback, cluster, pending, saved>>

\* useLoadingTaskCleanup and useCleanupOnFailure: each run of the effects converts one
\* node, for every conversion starts from the group of the last render.
LoadingCleanup(l) ==
  /\ Editing
  /\ l \in group.loadingTasks /\ Convertible(l)
  /\ \E n \in SafeNames(UsedNames(group), l.res) :
       group' = IF l.fin THEN ConvertLoadingNodeToFinallyTask(group, l, n)
                         ELSE ConvertLoadingNodeToTask(group, l, n)
  /\ UNCHANGED <<ui, callback, cluster, pending, saved>>

-----------------------------------------------------------------------------
\* A rejected pipeline only sets an error message; an accepted one leaves the page.  Some of
\* what was requested will be created; the handlers of the form that is gone change nothing.
Submit ==
  /\ Idle
  /\ CanSubmit(group)
  /\ TektonAccepts(PipelineOf(group))
  /\ saved' = PipelineOf(group)
  /\ \E S \in SUBSET (Requested \cup {p.res : p \in pending}) : arriving' = arriving \cup S
  /\ pending' = {}
  /\ creating' = {}
  /\ UNCHANGED <<group, ui, callback, installed, failed>>

Reopen ==
  /\ ~Editing
  /\ group' = FormOf(saved)
  /\ saved' = None
  /\ callback' = None
  /\ failed' = {}
  /\ UNCHANGED <<ui, installed, creating, arriving, pending>>

Edit ==
  \/ \E t \in group.tasks, n \in ListName : AddListNode(t, n)
  \/ \E n \in ListName : AddNewFinallyListNode(n) \/ RemoveListNode(n)
  \/ \E t \in group.tasks \cup group.finallyTasks :
       \/ RemoveInvalid(t)
       \/ AskRemove(t)
       \/ \E n \in Typed : TypeName(t, n)
  \/ ConfirmRemove
  \/ BlurName
  \/ \E target \in Targets : OpenSearch(target)
  \/ Dismiss
  \/ \E r \in installed : PickInstalled(r)

Hub ==
  \/ \E r \in HubTasks : PickHub(r) \/ PickHubConflict(r) \/ PickHubDetails(r)
  \/ \E p \in pending : DetailsFetched(p) \/ DetailsFailed(p)
  \/ \E c \in creating : CreateOk(c) \/ CreateFirstOk(c) \/ CreateFailed(c)
  \/ \E r \in arriving : WatchAdded(r)

Next ==
  \/ Edit
  \/ Hub
  \/ \E r \in Deletable : WatchDeleted(r)
  \/ \E l \in group.loadingTasks : LoadingCleanup(l)
  \/ Submit
  \/ Reopen

\* The network answers, the watch catches up and effects run; the user owes nothing.
Fairness ==
  /\ WF_vars(\E c \in creating : CreateOk(c) \/ CreateFirstOk(c) \/ CreateFailed(c))
  /\ \A r \in Resource : WF_vars(WatchAdded(r))
  /\ WF_vars(\E l \in group.loadingTasks : LoadingCleanup(l))

Spec == Init /\ [][Next]_vars /\ Fairness
-----------------------------------------------------------------------------
(***************************************************************************)
(* Properties.                                                             *)
(***************************************************************************)

\* With no hub install and no dangling reference about, the form always holds a graph one
\* can run: names unique, every runAfter a node of the graph, no cycle (update-utils.ts).
GraphInv == GraphOK(group)

\* An operation never changes which of the nodes it leaves in place runs before which,
\* directly or not: removing stitches, inserting only refines, renaming and converting
\* only relabel (update-utils.ts).
OrderKept ==
  [][\A n \in RegularNames(group) \cap RegularNames(group') :
       Ancestors(group, n) \cap RegularNames(group')
         = Ancestors(group', n) \cap RegularNames(group)]_group

\* "Trim out any runAfters pointing at list nodes" (utils.ts:513): the tasks of a pipeline
\* that is submitted run after tasks of that pipeline.
ListRunAftersTrimmed ==
  CanSubmit(group) =>
    \A t \in PipelineOf(group).tasks : t.runAfter \subseteq NamesOf(PipelineOf(group).tasks)

\* What the open dialog captured still describes the form.
CaptureCurrent ==
  /\ ui \in Search => callback \in Targets
  /\ ui \in Rename => ui.new \notin UsedNames(group)
  /\ ui \in Removal => ui.group = group

\* Also when references may be invalid and hub installs are offered, an operation that meets
\* no loading node and whose captured data is current keeps a sound graph sound; the repair
\* of an invalid regular node is the exception (fixInvalidListTask leaves the list nodes and
\* the names of the finally tasks out of account).
EditStep ==
  /\ GraphOK(group) /\ group.loadingTasks = {} /\ group'.loadingTasks = {}
  /\ CaptureCurrent
  => \/ GraphOK(group')
     \/ ui \in Search /\ callback.invalid /\ ~callback.fin /\ group' # group

EditsKeepGraph == [][EditStep]_vars

\* A loading node that becomes a task keeps the graph sound, when it is the only one and no
\* list node runs after it (convertLoadingNodeToTask rewires neither the list nodes nor,
\* under its own name, another loading node).
CleanupStep ==
  \A l \in group.loadingTasks :
    /\ LoadingCleanup(l)
    /\ GraphOK(group) /\ group.loadingTasks = {l}
    /\ \A t \in group.listTasks : l.name \notin t.runAfter
    => GraphOK(group')

CleanupKeepsGraph == [][CleanupStep]_vars

\* Every loading node is resolved in the end: its place is taken by a task, whether the
\* install succeeds or fails, so that the form can be submitted again (useLoadingTaskCleanup,
\* useCleanupOnFailure).
LoadingResolved ==
  \A n \in TaskName : []<>(n \notin NamesOf(group.loadingTasks))
=============================================================================
