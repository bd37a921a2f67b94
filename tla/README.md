# TLA+ models of the OpenShift Pipelines console plugin

The plugin is the part of the OpenShift console that shows and edits Tekton
resources. It is a browser program: React components and hooks whose state
changes in event handlers, effects and the continuations of promises. Nothing
runs in parallel, but almost everything is concurrent: an answer of the cluster,
of Artifact Hub, of Tekton Results, of Prometheus or of the multi-cluster proxy
arrives in a page that has been edited, navigated or closed since it was asked
for, and is applied by a closure that captured an older state.

This directory models the components in which that is hard, checks them with
TLC on small instances and proves what matters most with TLAPS for every value
of the constants. `PROJECT.json` maps every definition to the lines it models and
lists the runs, the hazards, the findings and the theorems. Paths below are
relative to `src/components/` of the repository.

## 1. Inventory

### Modelled

| Part | State | Operations | Interacts with | What is hard |
|---|---|---|---|---|
| **Task graph operations** `pipeline-builder/update-utils.ts` | the task grouping: tasks, list tasks, loading tasks, finally tasks, finally list tasks | add a list node before, after, parallel; add a finally list node; convert list -> task, list -> loading, loading -> task; delete; rename; repair | called by the form, the sidebar and the effects | every operation must touch several lists, and the order of the graph is only visible transitively |
| **Builder form** `pipeline-builder/{PipelineBuilderForm,hooks,validation-utils,utils}` and `resource-sidebar/` | Formik's `formData`, `savedCallback`, the sidebar's name field, the removal dialog | open, add, pick, rename, remove, submit, reopen | quick search, the namespace watch, the cluster's admission | what is captured when a dialog or a search opens is applied later; placeholders resolve at any time |
| **Builder graph** `pipeline-builder/hooks.ts`, `pipeline-topology/utils.ts` | none: nodes and edges drawn of the grouping | spacers, finally node, edges | the form | several nodes after several others are redrawn through a spacer, which must keep the order |
| **YAML editor** `pipeline-builder/{SyncedEditorField,form-switcher-validation,switch-to-form-validation-utils}` | which view, the text, the warning, `sanitizeToCallback` | switch either way, type, follow the text, repair, confirm, cancel, submit a text | the form | two views of one pipeline, one of which has no placeholders; repairs outlast what they were made for |
| **Quick search and installs** `task-quicksearch/PipelineQuickSearch.tsx`, `catalog/apis/artifactHub.ts` | items, version, abort controller, debounce timers; requests in flight, `failedTasks` | type, search, change kind; pick an installed resource, install along three paths | the form's callback, `k8sCreate`, Artifact Hub | late answers, timers of replaced functions, lost failures, names taken meanwhile |
| **Triggers** `start-pipeline/{submit-utils,remove-utils,utils}.ts` | none of its own: sequences of creations, deletions and patches on the cluster | add, remove, expose a route | the cluster, dialogs of others | any call fails or loses its answer, nothing is undone, dialogs overlap |
| **Log streaming** `logs/` | a stream per container, retries, the text so far, `activeContainers` | open, message, error, close, retry, plain read | kubelet, proxy, the status of the run | a container ends while its stream is opened again; the read that replaces it; on a hub, a read because of the run's status while the container still writes |
| **Approvals** `approval-tasks/`, `utils/approval-group-utils.ts`, `toast/` | toasts and which is tracked, the user's groups, rows' permissions, the dialog | add and take away toasts, look up groups, open, submit | the watch, access reviews, other approvers | lookups nothing cancels overwrite what others learnt; two effects share the toasts, and one may run without the other |
| **Overview and metrics** `pipelines-overview/`, `pipelines-metrics/` | per card: answers, `loaded`, `error`, timers, controllers | select, click the list's toggle, poll, answer, time out, abort; computing runs and seconds from counters | Tekton Results, or Prometheus | several requests share flags; a poll aborts the one before; a toggle sets flags for which no effect need run; counters restart |
| **Multi-cluster TaskRuns** `hooks/useMultiClusterTaskRuns.ts`, `hooks/useMultiClusterProxyService.ts`, `utils/multi-cluster-api.ts` | the returned state, four refs, the timer, the polls in flight | readiness check, poll, retry by timer, cleanup, unmount | the hub's watch, Kueue's admission, the proxy | effects run again while their predecessor awaits; a check that is marked as done before it is answered |
| **Tekton Results** `hooks/useTektonResults.ts`, `useRuns` of `hooks/useTaskRuns.ts`, `utils/tekton-results.ts` | records read, `fetchedRef`, `trRefetchKey`, `prevEtcdLengthRef` | read page by page, read again after pruning | the watch on etcd, the pruner, the feature flag | reads of successive effects share one ref; pruning is inferred from a length |

What makes each correct:

* **builder**: the graph stays one that Tekton accepts, an edit keeps the order of what it
  does not touch, and the drawing tells that order; a placeholder is always resolved;
  looking at the text and coming back keeps the form, and whatever is repaired has no
  dangling `runAfter`;
* **search**: what is listed was found for the text in the field, and the spinner turns
  exactly while something is awaited;
* **triggers**: a trigger appears and goes in one step, and only when somebody asked;
  where nothing failed, nothing is left over; every submission ends;
* **logs**: no line twice, none missing from a stream that ended unless it was read while the
  container still wrote, and retries end;
* **approvals**: who must decide is told, a toast tells what is still so, a decision the
  dialog reports is recorded and takes back nobody else's;
* **cards**: what is shown was asked for what is selected, loading ends, errors are not
  kept nor lost, and numbers account for every recorded run;
* **multi-cluster**: no TaskRuns are asked of a proxy that was not found ready, polling
  stops when it should and only then;
* **Tekton Results**: a page stops loading, ends with what is of the run and the
  namespace it is about, and a pruned run does not vanish.

### Not modelled

| Part | Why |
|---|---|
| Names, params, workspaces and resources of the form (`formData` beside the grouping) | They do not take part in the graph. One of their hazards is real and unmodelled: `updateTasks` spreads the `formData` of its closure (`PipelineBuilderForm.tsx:108`), so an install that finishes writes back params as they were. |
| Run and task status (`utils/pipeline-augment.ts`, `utils/pipeline-filter-reducer.ts`, `hooks/useTaskStatus.ts`) | Functions of conditions that Tekton sets. That the counts add up follows only from what Tekton reports of skipped and custom tasks, which is not in this repository (`pipeline-augment.ts:278`); a model would check assumptions of its own. |
| Drawing of a run, layout | The edges of a run are those of the same functions; the layout is the topology library's. |
| Start form, repository forms, Git services, PAC | One form and one request, or requests in a straight line; no step another could come between. |
| Lists and their filters, actions on runs, auto-completion | Filtering of what the hooks above return; one request each; text. |
| Percentages and ticks of charts, the sums of the K8s list | Layout; the list takes the last sample of each series whatever the time range, and nothing says otherwise. |
| The session's cache of TaskRuns (`useLinkedPipelineRunTaskStatus.tsx`) | Listed as a hazard; a cache without invalidation over the hook that is modelled. |
| Status of an approval (`utils/pipeline-approval-utils.ts`) | A function of the counts of approvers. |
| Build, scripts, translations, end-to-end tests | Not the running program. |

`PROJECT.json` gives the same reasons per component. The modelled components are the
part of the source in which state outlives a request; most of the rest is markup,
type declarations, and strings.

## 2. Modules

| Module | What it is |
|---|---|
| `Console` | what all pages share: `None` |
| `TaskGraph` | pure operators: groupings of nodes, the functions of `update-utils.ts`, what a sound graph is |
| `PipelineBuilder` (extends `TaskGraph`) | the form, its dialogs, the installs and the cluster they talk to: a state machine with one action per handler, effect or answer |
| `BuilderGraph` (extends `PipelineBuilder`) | the graph drawn of the grouping |
| `SyncedEditor` (extends `PipelineBuilder`) | the two views of the builder: its steps, and those of the YAML editor around it |
| `QuickSearch` | the search of the builder |
| `PipelineTriggers` | abstract: what the trigger dialogs promise |
| `Triggers` | the dialogs call by call, shown to implement `PipelineTriggers` |
| `LogStream`, `Approvals` | the logs of a pod; toasts, rows and dialog of approvals |
| `OverviewCards` | a card that reads summaries from Tekton Results |
| `MetricsCards`, `RunCounts` | a card that polls Prometheus; what it computes from the counters |
| `Cards` (extends `OverviewCards`, `MetricsCards`) | cards of either kind and what they promise in common |
| `MultiClusterTaskRuns` | the hook, the proxy, Kueue and the page around it |
| `TektonResults` | `useRuns` with `useTRRuns`, etcd, Tekton Results and the pruner |
| `PipelineBuilderProofs`, `SyncedEditorProofs`, `TriggersProofs`, `MultiClusterTaskRunsProofs`, `TektonResultsProofs`, `RunCountsProofs` | theorems and proofs; `PipelineBuilderProofs` begins with those of the operators of `TaskGraph` |
| `PageProofs` | those of the cards, the logs, the search and the approvals |
| `ConsolePagesProofs` | those of the pages of `MCConsolePages` together |
| `MCPipelineBuilder`, `MCTriggers`, `MCMultiClusterTaskRuns`, `MCTektonResults` | small instances for TLC |
| `MCConsolePages` | seven pages, of which one is open |

### TaskGraph, PipelineBuilder and BuilderGraph

*Data.* A node is its name, its `runAfter` and the resource it refers to; params,
workspaces and when expressions do not take part in the graph operations. The
code's arrays are sets: every function treats a list alike under reordering, with
one exception, `find` over several nodes of one name, for which `Found` is the set
of nodes that it may return. Random names (list nodes, the suffix that `safeName`
draws) are chosen from sets.

*State.* `group` is the grouping in `formData`; `ui` what is open (a search, a name
being typed, a removal to be confirmed, with the group that the dialog captured);
`callback` is `savedCallback` with what it captured; `installed` is what the watch
shows; `failed` is `failedTasks`; `creating`, `arriving` and `pending` are creations
requested, created resources not yet seen, and picks that will run the callback
later; `saved` is the pipeline just submitted.

*Actions* are one per handler: `AddListNode`, `AddNewFinallyListNode`,
`RemoveListNode`, `RemoveInvalid`, `AskRemove`/`ConfirmRemove`, `TypeName`/`BlurName`,
`OpenSearch`, `PickInstalled`, the three paths of an install (`PickHub`: requested
and the node replaced at once; `PickHubConflict`: created under a safe name first;
`PickHubDetails`: the content is looked up first), the answers (`DetailsFetched`,
`DetailsFailed`, `CreateOk`, `CreateFirstOk`, `CreateFailed`), the watch
(`WatchAdded`, `WatchDeleted`), the effects (`LoadingCleanup`), `Submit`, `Reopen`.

Modelling decisions a reader should know:

* **A late pick lands on the node of the last search.** `savedCallback` is a ref:
  a pick that waits for its details or for a creation runs whatever callback is
  there when the answer arrives. The model does the same, so a pick may replace
  another node than the one it was made for. Nothing in the repository says which
  node is right, so this is a hazard and not a finding.
* **Settled.** The effects that turn loading nodes into tasks run after the render
  that makes a node convertible; user events and answers that change the graph wait
  for them. This is what React does with effects of discrete events, and without
  it the model would interleave an edit between a render and its effects.
* **The conflict check may be stale.** The catalog items capture the names of an
  older render; the model lets both outcomes happen whatever the names are now.
* `TektonAccepts` is external: the part of Tekton's admission that is about the
  graph (unique names, `runAfter` closed, no cycle).

`BuilderGraph` computes what is drawn. The id of a spacer is the names of the nodes behind it
joined by `-` (`parallel-a-b`); names may hold dashes, so that two spacers, or a spacer and a
task, may have one id. `Spacer` is therefore any function of the names, of which nothing is
assumed, and `DrawnAsEdited` is claimed of the drawings in which no two ids are the same
(`IdsApart`). `DrawingAssumption` says that names are finitely many, as `nameValidationSchema`
bounds their length. "Lies behind" is stated by sets: `m` is before
`n` when every set of nodes that holds `n` and is closed backward along the edges holds `m`.

### SyncedEditor

A text is what the schema and the conversions look at: the tasks in their order, some of
which lack a reference, and the `runAfter` of each in its order, or none at all (`None`). A
form and a pipeline have sets of tasks; `TasksOf` is the step from the one to the other.
`entered` is a history variable: the form when its text was written. `Sync` is the effect that
follows the text; `Repair` builds the form that `sanitizeToCallback` returns, with
`safeOmit` as it is. `yup` reports the invalid places of a task's `runAfter` before the task
itself, and the tasks by their index; `Omit` takes these paths one after the other out of what is
left of the text, although their indices have been computed beforehand (`OmitRunAfters`,
`OmitTask`). So the second of two dangling `runAfter`s may stay and a valid one behind it go
(`TakenOut`), the `runAfter` of another task may be cut, or a valid task go. Where the path
leads to no task, or to one without a `runAfter`, `safeOmit` throws: then no repair is made, the
warning is shown nevertheless, and confirming it puts in the repair of an earlier text, if
there was one (`Warn`).
What may be typed is orderly (`TypingsAssumption`): each name once, and no `runAfter` in a
circle, of a finally task or of a list node. References may lack and `runAfter`s may dangle,
which is what the validation and the repair are about. The form's validation
(`switch-to-form-validation-utils.ts:27`) asks for no order: it takes a circle over into the
form, and counts the finally tasks among those one may run after. Editing such a form then
leaves a `runAfter` that names nothing (with `a` after `b`, `b` after `a` and `c` after `a`,
removing `b` makes `a` run after itself, and removing `a` leaves `c` after it), so
`RunAftersResolve` would be false of all texts; Tekton refuses them when they are submitted.
It also needs every reference to resolve: where a task's does not, the form offers to replace
it, and `fixInvalidListTask` (`update-utils.ts:390`) rewires the tasks that ran after it and
not the list nodes.

### QuickSearch

Each search carries the version it was made with; `items` remember the text and the
catalog they were found with. `typed` is the text that the current function's debounce
timer holds and `overdue` those of functions which React has replaced: nothing cancels
them, so they search later with what their function captured. Timers fire in the order
in which they were set, for all wait equally long.

### PipelineTriggers and Triggers

A trigger is a pair: an EventListener with one entry and a TriggerTemplate that exists.
The abstract state is the set of these pairs and the templates somebody has confirmed to
remove. In `Triggers` each dialog has a program counter (`pc`) that names the call it
awaits; a removal makes its plan from the list it got and issues deletions, then patches,
all of a kind at once (`Promise.all`), so that one that fails ends the wait while others
are still under way. `Fault` is the network or the cluster: a call fails, or takes effect
and its answer is lost. `exposeRoute` runs on after the dialog has closed.

The refinement is `Active` for `active`: what the dialogs leave half-done is by
definition no trigger. Listeners made elsewhere with several triggers (`Shared`) are
outside `Active`: for them the removal does the contrary of what it should (section 5).
After a failure, `CleanAtRest` does not hold, and cannot: the template goes first, and once
it is gone the dialog does not offer the trigger any more, so the listener stays until
somebody deletes it by hand (`CleanUp`).

### LogStream

A line is its number. Each container has a phase in the cluster and one in the pod that the
page has (`podSeen`), which `PodUpdate` brings later. `stream` goes from "none" through
connecting, open, retrying to one of the ends; `activeContainers` is that it is not
"none". A socket that opens again brings the log from its first line; `torn` remembers
the containers for which this happened after lines had come, because these do show lines
twice.

What a hub does depends on the status of the run as well (`RunStatus`). The property that
`Logs` gets is that the run is not `Running`, or has a completion time
(`PipelineRunLogs.tsx:175`): it is true before the run is Running and while it is Cancelling,
unlike the value of the same name at `:345`, which the polls of TaskRuns get. `pipelineStatus`
distinguishes pending, running and over, where over stands for every status after Running,
Cancelling among them; containers write on whatever it is. Two things follow, both as the code
has them:

* A container that is waiting or running is read once by the plain request
  (`Logs.tsx:282`). The comment there, "Fetch complete logs via HTTP", holds only of a
  container that has terminated: of a running one, what it writes later is never shown,
  for its stream has begun and no other one will. `early` is the history variable of these
  containers, and `WholeLogShown` says that they are the only ones whose log is not whole, only on a
  hub. Of a waiting container there is nothing to read; the page shows an error.
* The poll of a hub's pods stops with one more tick (`tickDue`): its delay becomes null, and
  `usePoll` runs its callback once in the effect in which the delay changes.

### Approvals

Of each task the model keeps whether the user and whether others have decided. A lookup
(`isUserAuthorizedForApproval`) goes through the task's groups, each answered by the cluster,
and adds what it found to the groups known *when it began*; there is one per row and one
per task for each run of `processApprovalTasks`. `missed` and `late` are history
variables which say precisely when the code cannot do better: a lookup failed or a toast
was closed; runs overlapped, or the effect that adds toasts ran alone. It depends on the access
review, the perspective and the user, on which the effect that removes them does not
(`AddToastsOnly`: `Review`, `SwitchPerspective`; who the user is does not change). Such a run
adds a second toast for a task and remembers only this one, so the first stays after the
decision, until its 25 seconds are over or the user closes it. So is `unread`, the
rows that once could not read a group of the user's: what they know of the user may stay
wrong, for a row goes by the answer to whichever lookup ends last. `First` is the order of the
list, in which a run looks its tasks up.

### OverviewCards, MetricsCards and RunCounts

`OverviewCards` is any of the five cards that read Tekton Results: a set of requests with one
`loaded` and one `error`. Time is counted in ticks, for what matters is how a refresh
interval relates to the latency of an answer and to the timeout. The list has a toggle, per
pipeline or per repository (`pageFlag`), which the URL sets in the first effects. `ChangePage`
clears what is shown and sets `loaded` to false in the click; the request follows only if an
effect is due, that is, if the toggle changed. Clicking the one that is selected leaves a list
that loads with nothing asked for, until the next poll, and with the refresh off for ever
(`list-pages/PipelineRunsListPage.tsx:171`). `clicked` is the history variable of that state;
`SettledIsShown` and `LoadingEnds` except it by name and say that it is the only one, and
only of the list.

`MetricsCards` is any of the six that poll Prometheus, each query through a hook of its own
with its own `loading`. An aborted request reports `AbortError` after the new one has
cleared the error: the model sets both in one step, since nothing can come between.

`RunCounts` is about the numbers. The controller's counters begin at zero when it restarts;
Prometheus samples them at places of a grid; what a card shows is computed from the samples
by operators with the names of the functions. `recorded` is what ended before the last
sample. A restart that is not visible in a series (it has caught up before the next sample)
cannot be found out by anybody; `hidden` names the queries to which that happened, and the
properties hold for the others. Sums run over the positions of a sequence (`SumOf`), those over the
statuses in some order (`OverStatus`). `CountAssumption` says that the statuses are finitely many,
that a run lasts at least a second, and that no status bears the name of one of the other two
queries.

### MultiClusterTaskRuns

An *execution* is one call of `startPolling`: the run and `shouldContinuePolling`
that its effect captured, and what it waits for. `loop` is the execution of the last
effect; `stale` holds cancelled ones that still await an answer, for the cleanup
clears a timer but cannot recall a request. The effect runs when its dependencies
(`Deps`) differ from those it ran with (`deps`). A request reads the cluster
(`Served`) and reaches the page (`Delivered`) in two steps, so that an answer may be
older than the page. `managed` becomes known once, after the first effect: the hook that reads
it is not loaded in the first render (`use-k8sGet-hook.ts:15`).

### TektonResults

A page is a list of a namespace or the details of one name (`limit` 1). `EtcdRuns` is
what the watch delivers; the two effects of `useRuns` and `useTRRuns` run after a
render in the order in which they are declared (`LengthEffect` before `FetchEffect`)
and before the next render (`EffectsRan`). `fetches` are the calls of `fetchResults`
in flight: each is requested, answered by Tekton Results, and delivered to the loop,
which drops it when the shared `fetchedRef` is set.

`mishaps` is a history variable. It does not influence any action; it records which
of the circumstances have occurred under which the code cannot do better than it
does, so that the properties can say precisely when they hold: reads overlapped,
a read failed, a run was pruned before the watch had shown it, or one update
replaced a run by another so that the length did not shrink.

External behaviour taken from how the code uses it: the watch of a single name
reports an error when there is no such run (`EtcdError`); events that come together are
one update; Tekton Results lists at most two pages.
Left out: `skipFetch`, and unmounting (after which React ignores the state updates).

### MCConsolePages

One page of the console is open at a time, and unmounting it ends its components; the
components share no state. So the module extends `Cards`, `RunCounts`, `LogStream`, `Approvals`,
`SyncedEditor` and `QuickSearch`, whose names do not meet; flags say which page is open,
`PagesInit` chooses it, and `PagesNext` is that page's next-state relation. What is checked is each component by itself, in one run, under the
names that the theorems have. `PagesAssumption` has TLC evaluate the assumptions of these
theorems.

## 3. Runs

State counts are distinct states; each run takes about two minutes at most on two
workers.

| Run | Checks | Shows |
|---|---|---|
| `edit` (66,184) | `GraphInv`, `DrawnAsEdited`, `OrderKept` | every sequence of local edits, on an empty pipeline, a chain and one with a finally task |
| `hub` (434,002) | `TypeOK`, `EditsKeepGraph`, `CleanupKeepsGraph`, `LoadingResolved` | edits and cleanups among installs that answer late or fail, and a resource that others delete; a loading node does not stay |
| `dialogs` (338,804) | `TypeOK`, `CleanAtRest`, `Implements`, `SubmissionsEnd`, `ExposureEnds` | one Add and two Remove dialogs, a call that fails; the refinement of `PipelineTriggers` |
| `pages` (716,787) | cards of either kind `AllShowSelected`, `AllSettleRight`, `LoadingEnds`; the numbers of metrics cards `NumbersAddUp`; logs `NoLineTwice`, `WholeLogShown`, `StreamsConnectOrEnd`; approvals `WaitingIsTold`, `ToastsAreCurrent`, `LookupsEnd`, `DecisionRecorded`; editor `LookingKeepsTheForm`, `RunAftersResolve`; search `FoundIsOfTheText`, `SpinnerAwaits`; and the types of the page that is open, `PagesTypeOK` | late, lost and reordered answers leave each page in step with what it was asked for |
| `poll` (135,290) | `TypeOK`, `ProxyConfirmedFirst`, `CheckedOnce`, `PollingStops`, `PollsUntilAdmitted`, `PollsOn`, `ReadAfterTheEnd` | when the hub asks, when it goes on and when it stops |
| `read` (576,193) | `TypeOK`, `SettledRead`, `LoadedInTheEnd`, `PrunedRunsShown` | lists and details, pruning, failures, overlapping reads, another namespace |
| `trim`, `start`, `own`, `details`, `remove`, `approve` | one property each, violated | the findings of section 5 |

*Bounds and why they are enough.*

* `edit`: up to four nodes (`MaxNodes`), three task names, two list names. Each
  operation relates at most a node, its neighbours and the new node; four nodes give
  a new node both predecessors and successors, twice, and a spacer needs four
  (`MCSpacer` gives one of them the id of a task). List
  names are symmetric (`SYMMETRY`); no liveness is checked there.
* `hub`: two nodes and one install in flight (`MaxInstalls`), four names. Two
  nodes are enough for a loading node with a neighbour that runs before or after it
  and for a pick that lands on the other one.
* `dialogs`: three templates, four listeners (one shared, one without triggers), three
  dialogs, one fault (`MaxFaults`). Two removals overlap on the same and on different
  templates, and an addition overlaps both. `MaxIteration` of `exposeRoute` is 1 instead
  of 3: each iteration is the same.
* `pages`, *overview cards*: a card with one request, one with two and the list with its toggle, two
  namespaces and time ranges, two selections or clicks (`MaxChoices`), refresh intervals of 1, 2 and 4 ticks and off,
  latencies of 0, 1 and 4 with a timeout of 3: answers faster and slower than a poll and
  those which never come.
* *logs*: two containers which together write up to two lines (`MaxLines`: the one, the other or one
  each), one fault (`MaxLogFaults`), the run pending, running or over while they write, one retry on either cluster
  (5 and 10 in the code: each retry is the same and its number only counts).
* *approvals*: four tasks in two namespaces, two of them approved through groups, one by
  name, one by the second of two groups; two changes (`MaxChanges`), three runs and a lookup that fails (`MaxLookupFaults`). Three
  initial cases (`ApprovalCases`) put the changes where they matter.
* *editor*: one resource, four names, one list node, two nodes, no installs, and four
  texts to type (`MCTypings`): one that cannot be parsed; one task with two `runAfter`s that
  dangle before a good one, of which one stays and the good one goes; a task without a reference before
  one that dangles and one that does not, of which the good one is cut instead; and two
  tasks without a reference before one that dangles, of which one stays and the task behind goes,
  so that `safeOmit` throws.
* *search*: two texts, three searches (`MaxSearches`), one change of the catalog.
* *metrics cards*: a card with one and one with two queries, two selections, any number of
  polls. *Counters*: two statuses, which last 1 and 3 seconds, four runs, four places of
  the grid, two restarts: one restart is visible in one series and not in another, and the
  two may differ.
* `poll`, `own`: two runs, one navigation (`MaxNavigations`), two cancelled
  executions (`MaxStale`). One navigation already has the effect run up to four
  times (managed, finished, navigation, pending admission). `start` needs one run.
* `read`: three runs in two namespaces, two pages, one of them created late, one
  navigation; reads that overlap are not bounded.

The `Max...` constants, `Typed` and `Typings` are the only bounds that the code does not have
(`MaxRetries`, `MaxMcRetries` and `MaxIteration` it does). The runs of the builder and `pages`
use `VIEW Live`, which forgets what is dead. The saved callback is, while no search is open and no
pick is pending: in such a state no action and no property reads it (`CaptureCurrent` does so
only under `ui \in Search`), and the only step that leads to one that does, `OpenSearch`,
overwrites it. So is, in `failed` and in the failures that a request has captured (`seen`), a
resource that is installed for good, for nobody deletes it: `failed` is read in
`Convertible`, together with `installed`, and in computing the next `failed`, and nowhere else.
`Awaiting` compares captured failures of a request and of its own pick only, as one install
is in flight.

Deadlock is checked in the builder, which can always go on. In the others the
configuration switches it off: a closed page, one whose run has finished and was
read, or a search at its bound has nothing left to do.

## 4. Fairness

Only weak fairness, and only for what the environment owes: React runs an effect that
is due (`LoadingCleanup`, `EffectRuns`, `LengthEffect`, `FetchEffect`, `Effects` of the
cards), requests are answered in one way or another (`CreateOk`/`CreateFailed`,
`CurrentStep`, `StaleStep`, `Read`/`Deliver`/`Fail`, the steps of a dialog and `Answer` of
`Triggers`, the steps of a socket, the lookups of `Approvals`, and a summary at its timeout at
the latest), a timer fires (`Poll`, `Tick`), the watch catches up (`PodUpdate`). The user, the
pruner, Kueue, other approvers, containers and the run itself owe nothing. An
answer is one of several outcomes, and fairness is of their disjunction: that a creation
succeeds in the end is not assumed.

`LoadingResolved` is checked with one install in flight and with nobody deleting what was
just installed. With two installs in flight the model has the counterexample that the code has: two failures set `failedTasks`
from the same captured list, the second forgets the first, and its loading node stays.
That is listed as a hazard. Properties of this kind are stated as `[]<>`, that what is awaited is
again and again over, which for a node that stays or a lookup that goes on says the same as
leading to its end. `LoadingEnds` of the cards holds while an answer takes less than
the refresh interval (`Patient`): otherwise every poll aborts the request before it, for
ever.

## 5. Findings

Each is a `violation` run: TLC finds the counterexample in the model of the code, and
the property states what a line of the repository says.

* `trim`: `removeListRunAfters` ("Trim out any runAfters pointing at list nodes",
  `pipeline-builder/utils.ts:513`) computes trimmed tasks, and
  `convertBuilderFormToPipeline` puts the untrimmed ones in the spec. Adding a list
  node before a task and submitting sends a `runAfter` that names no task.
* `start`: "Checks proxy readiness once, then starts polling"
  (`hooks/useMultiClusterTaskRuns.ts:114`). The check is marked as done before it is awaited;
  if a dependency changes meanwhile, the new execution sees it done and not ready and
  stops, the old one is cancelled: the proxy is ready, nothing polls, and the page, which its
  first effect has set to loaded, shows the run without TaskRuns for ever.
* `own`: the answer to a request for the run shown before replaces the data of the
  current one; only unmounting drops an answer.
* `details`: Tekton Results is read with no namespace, which stands for all of them, before
  it is known that the run was pruned (`hooks/useTaskRuns.ts:320`). That read, refused to a
  user who may not list all namespaces, sets `fetchedRef` after the effect has reset it for
  the right read: the record of the pruned run is dropped and the page ends with the error.
* `remove`: "Update all EventListeners that had more than one trigger"
  (`start-pipeline/remove-utils.ts:58`) replaces `spec.triggers` by the triggers that *match*
  the removed template: the listener keeps the removed trigger and loses the others.
* `approve`: "Only update this specific group approver"
  (`approval-tasks/modal/Approval.tsx:120`), but the patch replaces the whole list of
  approvers by the one the dialog was opened with: who decided meanwhile is put back to
  undecided.

## 6. Proofs

TLAPS checks every theorem below for all values of the constants (any names, runs,
namespaces, dialogs, cards, texts, bounds), from the named assumptions only. TLC evaluates
each assumption on the instances it checks; for the pages they are the conjuncts of
`PagesAssumption`.

**Builder, with Artifact Hub and deletions** (`NamesAssumption`, `BuilderAssumption`).
`TypeCorrect` is the type invariant. `EditsKeepTheGraph` and
`CleanupKeepsTheGraph` prove the two action properties of the `hub` run.
The invariant is `TypeOK /\ SavedOK`: what is saved has been accepted by Tekton, without which
reopening could bring in any graph. The rest is per operation, in the lemmas about `TaskGraph`:
an operation is a composition of few mappings (`MapReplaceRelated`, `MapStitchReplace`,
`MapBeRelated`, `MapAddRelated`), so there is one lemma for each shape: relabelling
a node keeps the graph (`RelabelKeeps`), stitching a removed one away
(`StitchKeeps`), inserting before, after or parallel (`Insert*Keeps`), taking a
node's place (`TakePlaceKeeps`). Acyclicity is stated as "every non-empty set of names has
one that runs after none of the others", which lets each lemma map such a set
through the operation without induction on paths.

**Builder, local edits** (`LocalAssumption`: no hub tasks, nothing deletable, existing
pipelines that Tekton has accepted and whose references resolve; the `edit` run is such an
instance). `LocalGraph` is `GraphInv`, `LocalOrder` is `OrderKept`, an action property. The invariant is `LocalInv`: the graph is
sound, there is no loading node, every reference resolves, what a search or a dialog has
captured is the current form, and what is saved was accepted. The capture is the reason
it has to be strengthened at all: a pick runs `savedCallback` on the group that an earlier
render closed over, so that soundness of `group` alone says nothing of its result. For
`OrderKept`, "runs before, directly or through others" is a statement about closed sets
of names (`DownFrom`), and `KeepsOrderFrom` reduces it to giving, for each such set
of the one graph, one of the other with the same shared names: again no
induction on paths.

**Builder, the drawing** (`LocalAssumption`, `DrawingAssumption`). `LocalDrawing` is
`DrawnAsEdited`. The graph that `LocalGraph` shows sound gives nodes that can be drawn
(`BuilderNodesAre`, `Drawable`). Where no two ids are the same (`IdsApart`, the condition of the property, not an assumption), one
spacer stands only before nodes with the same `runAfter`s, so that each
backward-closed set of the drawing, spacers apart, is a closed set of the form, and each closed set
of the form is one of the drawing with the spacers before its members added
(`DrawnOrder`). The finally node lies behind all because a finite graph without cycles has,
behind any node, one that nothing runs after (`LastExists`).

**Builder, the two views** (`EditorAssumption`: `LocalAssumption`, finite pipelines, and
references that resolve in whatever is typed; the editor of `pages` is such an instance).
`LookingKeeps` is `LookingKeepsTheForm`, `RunAftersKeep` is `RunAftersResolve`, with
`EditorTypeCorrect`. The sound graph of `LocalInv` does not survive here, for a text may give a
finally task the name of a list node's successor, and the effect that follows the text may not have
run yet. So `EditorInv` says it of the regular nodes only (`Graph(Work(group))`), and only while
the form has followed the text; in between, the placeholders alone have no circle
(`GroupOk`). Of the text (`TextOk`) it says where it comes from: either somebody typed it, and
its names are distinct and its `runAfter`s have no circle and name neither a finally task nor a
list node (`Orderly`), or its tasks are those of a form and are sound together with the form's
placeholders. That a form's tasks are finitely many is part of it (`Form`): only then does writing
them as a text lose none (`RangeOfSetToSeq`). A repair is sound when it is
computed, and its confirmation may come at any time (`ViewOk`); a form that was left as it was
when its text was written has followed it (`EnteredOk`). The steps rest on `EditKeepsSound`, that
no edit of the form loses what `Sound` says, for which the lemmas of the local edits are used on
the form without its finally tasks (`Core`), and on `RepairSound`: whichever tasks and `runAfter`s
`safeOmit` takes out of an orderly text, what is left are tasks of the text with some of their
`runAfter`s (`Left`, `OmitLeaves`), hence orderly (`OmitKeepsOrder`), so that it is
a sound graph as soon as the validation lets it through (`ValidIsGraph`, `CutSound`). What is
not let through, or throws, is no new repair.

**Triggers** (`TriggersAssumption`). `DialogsTypeCorrect`, and `DialogsImplement`: every
behaviour of the dialogs is one of `PipelineTriggers` under the mapping `Active`. The
initial states map to initial states; a step of a dialog, a call that takes effect, a
cleanup by hand or a step of `exposeRoute` maps to `Add`, `Remove`, `Confirm` or a
stutter. The invariant beside the types: generated names are fresh and belong to
one dialog (`FreshNames`, `KnownNames`); a removal has confirmed its template, and deleted it
before it lists (`RemovalOrder`); calls under way or planned are about templates that are gone,
and a patch touches only shared listeners (`CallsOk`), so that their effect
touches no active trigger (`SingleTriggers`).
`NothingLeftBehind` is `CleanAtRest`. Its invariant `RestInv` says what a dialog still owes:
without a fault, a listener without its template is about to be deleted or listed by a
removal of that template (`NoneDangles`), a template without its listener was made by an
addition that is about to create it (`NoneUnlinked`), and listeners made elsewhere stay apart
from what the dialogs make and delete (`MadeElsewhere`).

**Multi-cluster** (`HubAssumption`). `HookTypeCorrect`, `NoRequestBeforeReady`,
`ReadinessCheckedOnce`. `ProxyConfirmedFirst` and `CheckedOnce` are not inductive:
an effect reads `checked`, so the invariant adds `Remembered`, that an execution or a
readiness exists only after `checked` was set.

**Tekton Results** (`ResultsAssumption`, in which runs are finite and `None` is no
record of dependencies). `ResultsTypeCorrect` and `SerialReadsSettle` (the invariant `SettledRead`).
The strengthening is `Serial`: while no reads have overlapped, there is at most one,
it is for the namespace the effect asked for last, the ref is free for it, and
when there is none its result is there; and `Begun`: nothing is read and the ref is
not set before the first effect, nor before the feature is enabled.

**Overview and metrics** (`CardsAssumption`, `MetricsAssumption`). `CardsShow` is
`AllShowSelected` and `CardsSettleRight` is `AllSettleRight`, of `CardsSpec`, in which cards
of both kinds are open side by side; each is proved of one kind first. In `CardInv`, what is in
flight and what is shown belong to the last effects that ran, for whatever was asked for before was
aborted or cleared (`OfLastEffects`), and a card with nothing in flight has stopped loading,
with an error if its only request brought nothing, unless it is the list and its selected toggle was
clicked (`CardSettled`).
`MetricsInv` says the same of each query's hook (`PolledIsSelected`, `HookOk`), and that an
error other than an abort leaves no response.

**Counters** (`CountAssumption`). `CountersAddUp` is `NumbersAddUp`, with `CountTypeCorrect`: for any
number of samples, statuses and restarts. A sum over a sequence is a recursive function; that it has
a value, and what a longer sequence adds to it (`SumStep`), is proved by an induction that the
provers can do, over the set of the numbers for which it holds (`Ascending`), since a set of
natural numbers that is not empty has a least one. `NumbersAddUp` alone is not inductive: what the
next sample adds depends on how the counters relate to the last one. `CountInv` adds that
no counter has fallen since the last sample unless the controller restarted; that samples are in
order of their places, and the first has counted no more than was recorded; that each answer whose
restarts show adds up to what was recorded, by the reckoning of the total cards
(`Reached`) as well as by that of the bars (`Gains`), which are different algorithms in the code;
that the donut's reckoning by status never exceeds it (`Told`); and that from a sample to
the next nothing was lost or one of the two sums that an average divides shows it (`Grows`). Its lemmas
say what one more sample does to each reckoning. TLC has checked `CountInv` on the instance of
`pages` before it was proved.

**Logs** (`LogAssumption`). `LinesComeOnce` is `NoLineTwice`, `LogsAreWhole` is
`WholeLogShown`, with `LogTypeCorrect`. The invariant `LogInv`: what the page takes to
have ended has ended (`PodKnown`), and a socket's position relates to the text (`StreamOk`): what
the present socket has brought is the end of what is shown, and all of it unless an earlier
socket broke after it had brought lines; a stream that was closed has come to the end of its log,
and so has one that was fetched, unless it is `early`; a plain request is sent only for a container
that had terminated, or on a hub.

**Quick search** (`SearchAssumption`). `ListedIsOfTheText` is `FoundIsOfTheText`,
`SpinnerIsRight` is `SpinnerAwaits`, with `SearchTypeCorrect`. `SearchInv`: at most one request is
not aborted (`OneCurrent`), and what it finds is for the text whose items are listed
(`RequestOfItems`); the text in the field is what the last timer holds (`LastTyped`), and what is
listed once that has run out is for it (`ItemsOfTheText`).

**Approvals** (`ApprovalAssumption`). `WhoWaitsIsTold` is `WaitingIsTold`, `ToastsTellWhatIs` is
`ToastsAreCurrent`, `DecisionsAreRecorded` is `DecisionRecorded`, an action property, with
`ApprovalTypeCorrect`. The invariant relates the runs of the effect, of which several may be
under way, to the toasts and rows they leave: nobody is taken to be in a group without being
in it (`KnownOk`); a run looks up one task at a time (`RunsOk`); a row of one of the user's groups
knows the group or is about to find it, unless a group could not be read (`RowsOk`), so
that a dialog opened in peace records (`DialogOk`); who waits for the user is still to be
looked up by the last run, has been found by it, or has a toast of it (`LastOk`); an earlier
run that goes on overlaps the last one, and a toast is of such a run or of one after which the
adding effect ran alone, or is tracked and about who waits (`ToastsOk`). Before it was proved TLC has checked the invariant on the instance of
the `pages` run and on two larger ones, of 371,931 and 1,833,976 states.

**The pages together** (`PagesAssumption`, `EditorAssumption`). `PagesAreThemselves`: every behaviour
of the seven pages, of which one is open, is one of each component's specification, for a page that
is closed leaves the state of a component as it is, and one that is open takes its
steps. So what is proved of a component holds of what `pages` checks. `PagesTypeCorrect` is
`PagesTypeOK`, from the seven type theorems.

*What failed proofs have shown.* Two properties that had passed on small instances
were false as stated; each was corrected, is checked again and is now proved:

* `DecisionRecorded` did not mention a row that could not read a group of the user's: what the
  row knows of the user may stay wrong, and a decision then be patched into no entry of the
  list. The history variable `unread` makes the condition explicit.
* `RunAftersResolve` held of the texts that the run types, and not of all: a text
  whose `runAfter`s form a circle is valid for the form (section 2, SyncedEditor), so the texts
  are assumed `Orderly`. Nor is that enough: where a reference does not resolve, the
  replacement of the task leaves list nodes running after its old name, which TLC shows
  on an instance with such a text. The theorem therefore assumes `Resolving`.

*Only model-checked.* Liveness (`LoadingResolved`, `SubmissionsEnd`, `ExposureEnds`,
`LoadingEnds`, `StreamsConnectOrEnd`, `LookupsEnd`, `PollingStops`, `PollsUntilAdmitted`,
`PollsOn`, `ReadAfterTheEnd`, `LoadedInTheEnd`, `PrunedRunsShown`): fairness and
`ENABLED` are outside what the prover handles. The safety invariants and action
properties of all passing runs are theorems.

## 7. Plan

What the runs check of safety is proved. What could be modelled next: the session's cache of
TaskRuns, over what `TektonResults` delivers; the parts of the form that share `formData` with the
graph (names, params, workspaces); and liveness with two installs in flight, as soon as the code
adds a failure to those there are instead of to those captured.
