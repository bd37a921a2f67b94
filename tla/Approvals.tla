------------------------------- MODULE Approvals -------------------------------
(***************************************************************************)
(* The approvals that wait for the user: the toasts that tell of them, the *)
(* rows whose menu offers a decision, and the dialog that submits it.      *)
(*                                                                         *)
(* An approver is the user by name, or a group.  The console does not know *)
(* the user's groups: whoever needs them asks the cluster, one group after *)
(* the other, and adds what it finds to the groups it knew when it began.  *)
(***************************************************************************)
EXTENDS Console, Naturals, Sequences, Functions

CONSTANTS
  Tasks,       \* a sequence of approval tasks, in the order of the list
  Projects, ProjectOf,
  UserTasks,   \* tasks that name the user as an approver
  GroupsOf,    \* the groups that a task lists, in their order
  Memberships, \* the groups the user is in
  MaxChanges,  \* bound: what happens outside, changes of the namespace and the perspective
  MaxRuns,     \* bound: how often the toasts are looked up
  MaxLookupFaults    \* bound: lookups and patches that fail

VARIABLES
  tasksMounted,
  rows,       \* tasks whose row, with its menu, is on the page
  awaiting,    \* tasks that wait for approval, in the cluster
  spec,       \* of each task, who has decided: the user, the other approvers
  watched,       \* pending and spec as the watch has brought them
  project, canAccessAll,
  reviewed,   \* the answer to the access review has come
  groups,     \* currentUser.groups
  lookups,    \* isUserAuthorizedForApproval under way
  runs,       \* processApprovalTasks under way
  runNo,      \* how many there have been
  toasts,
  tracked,    \* currentToasts: the run whose toast a key stands for, or 0
  authorized, \* isAuthorized of each row
  dialog,
  unread,     \* history: tasks whose row, since the user's groups were set last, could not read
              \* a group that the user is in
  claims,     \* history: decisions that a dialog closed on, opened when no lookup was under way
              \* and the task was not unread
  missed,     \* history: tasks that the last run could not look up, or whose toast was closed
  late,       \* history: runs that overlapped, or whose toasts nobody took away
  changes, lookupFaults

inCluster == <<awaiting, spec>>
tasksPage == <<rows, watched, project, canAccessAll, reviewed>>
told == <<toasts, tracked, missed, late>>
approvalVars == <<tasksMounted, inCluster, tasksPage, groups, lookups, runs, runNo, told,
                  authorized, dialog, unread, claims, changes, lookupFaults>>

TaskSet == Range(Tasks)

\* For the modules that extend this one to assume.
ApprovalAssumption ==
  /\ Tasks \in Seq(TaskSet)
  /\ \A t \in TaskSet : GroupsOf[t] \in Seq(Range(GroupsOf[t])) /\ ProjectOf[t] \in Projects
  /\ Projects # {} /\ Projects \cap {"current", "all"} = {}
  /\ MaxRuns \in Nat /\ MaxChanges \in Nat /\ MaxLookupFaults \in Nat
  /\ None \notin [task : TaskSet, known : SUBSET UNION {Range(GroupsOf[t]) : t \in TaskSet},
                  spec : [mine : BOOLEAN, others : BOOLEAN], calm : BOOLEAN]

AllGroups == UNION {Range(GroupsOf[t]) : t \in TaskSet}
Keys == {"current", "all"} \cup Projects
RunNos == 1 .. MaxRuns
Row == 0  \* in the place of a run
Decisions == [mine : BOOLEAN, others : BOOLEAN]

Lookup == [by : RunNos \cup {Row}, task : TaskSet, known : SUBSET AllGroups, at : Nat \ {0}]
Run == [no : RunNos, left : SUBSET TaskSet, found : SUBSET TaskSet, ns : Projects,
        all : BOOLEAN, known : SUBSET AllGroups, answered : SUBSET TaskSet]
Toast == [run : RunNos, key : Keys, about : SUBSET TaskSet]

\* Tasks are looked up in the order of the list.
First(S) ==
  Tasks[CHOOSE i \in DOMAIN Tasks : Tasks[i] \in S /\ \A j \in 1 .. i - 1 : Tasks[j] \notin S]

ApprovalTypeOK ==
  /\ tasksMounted \in BOOLEAN /\ rows \subseteq TaskSet
  /\ reviewed \in BOOLEAN /\ canAccessAll \in BOOLEAN
  /\ awaiting \subseteq TaskSet /\ spec \in [TaskSet -> Decisions]
  /\ watched \in [awaiting : SUBSET TaskSet, spec : [TaskSet -> Decisions]]
  /\ project \in Projects
  /\ groups \subseteq AllGroups \cap Memberships
  /\ lookups \subseteq Lookup /\ \A l \in lookups : l.at <= Len(GroupsOf[l.task]) + 1
  /\ runs \subseteq Run
  /\ \A r \in runs : r.left # {} /\ \E l \in lookups : l.by = r.no /\ l.task = First(r.left)
  /\ runNo \in RunNos
  /\ toasts \subseteq Toast /\ tracked \in [Keys -> {0} \cup RunNos]
  /\ authorized \in [rows -> {"unknown", "yes", "no"}]
  /\ dialog = None \/ dialog \in
       [task : rows, known : SUBSET AllGroups, spec : Decisions, calm : BOOLEAN]
  /\ unread \subseteq rows /\ claims \subseteq TaskSet
  /\ missed \subseteq TaskSet /\ late \subseteq RunNos
  /\ changes \in 0 .. MaxChanges /\ lookupFaults \in 0 .. MaxLookupFaults

-----------------------------------------------------------------------------
(***************************************************************************)
(* Effects.                                                                *)
(***************************************************************************)

Answered(s) == {t \in TaskSet : s.spec[t].mine}

NewLookup(by, t, known) == [by |-> by, task |-> t, known |-> known, at |-> 1]

RowLookups(R, known) == {NewLookup(Row, t, known) : t \in R}

\* processApprovalTasks begins, for what the page shows; runs before it go on.
StartRun(n, s, ns, all, known) ==
  IF s.awaiting = {} THEN {}
  ELSE {[no |-> n, left |-> s.awaiting, found |-> {}, ns |-> ns, all |-> all, known |-> known,
         answered |-> Answered(s)]}

RunLookups(R) == {NewLookup(r.no, First(r.left), r.known) : r \in R}

ApprovalInit ==
  /\ tasksMounted \in BOOLEAN /\ rows \in SUBSET TaskSet
  /\ awaiting \in SUBSET TaskSet
  /\ spec = [t \in TaskSet |-> [mine |-> FALSE, others |-> FALSE]]
  /\ watched = [awaiting |-> awaiting, spec |-> spec]
  /\ project = CHOOSE ns \in Projects : TRUE
  /\ canAccessAll = FALSE /\ reviewed \in BOOLEAN
  /\ groups = {}
  /\ runNo \in 1 .. MaxRuns
  /\ runs = StartRun(runNo, watched, project, FALSE, {})
  /\ lookups = RunLookups(runs) \cup RowLookups(rows, {})
  /\ toasts = {}
  /\ tracked = [k \in Keys |-> 0]
  /\ authorized = [t \in rows |-> "unknown"]
  /\ dialog = None
  /\ unread = {} /\ claims = {} /\ missed = {} /\ late = {}
  /\ changes \in 0 .. MaxChanges /\ lookupFaults \in 0 .. MaxLookupFaults

\* The effect that takes the toasts away: those that a key still stands for.
\* Mutant: the toasts stay when the effect runs.
RemoveNothing == toasts' = toasts /\ tracked' = [k \in Keys |-> 0]

RemoveToasts ==
  /\ toasts' = {x \in toasts : tracked[x.key] # x.run}
  /\ tracked' = [k \in Keys |-> 0]

\* The effect that adds toasts; rows look up again when their approvers have changed.
AddToasts(s, ns, all, R) ==
  LET fresh == StartRun(runNo + 1, s, ns, all, groups)
  IN  /\ runNo' = runNo + 1
      /\ runs' = runs \cup fresh
      /\ lookups' = lookups \cup RunLookups(fresh) \cup RowLookups(R, groups)
      /\ missed' = {}

Overlapping == IF runs = {} THEN {} ELSE {r.no : r \in runs} \cup {runNo + 1}

-----------------------------------------------------------------------------
(***************************************************************************)
(* The cluster and the page.                                               *)
(***************************************************************************)

\* The next group to ask the cluster for, if the answer is not known without.
Asks(l) ==
  /\ l.task \notin UserTasks
  /\ l.at <= Len(GroupsOf[l.task]) /\ GroupsOf[l.task][l.at] \notin l.known

\* What is known without asking comes before any other event.
Ready == tasksMounted /\ \A l \in lookups : Asks(l)

Change == changes < MaxChanges /\ changes' = changes + 1
LookupFault == lookupFaults < MaxLookupFaults /\ lookupFaults' = lookupFaults + 1

\* Approved, rejected or timed out, in the cluster.
Resolve(t) ==
  /\ Ready /\ t \in awaiting /\ Change
  /\ awaiting' = awaiting \ {t}
  /\ UNCHANGED <<tasksMounted, spec, tasksPage, groups, lookups, runs, runNo, told, authorized,
                 dialog, unread, claims, lookupFaults>>

OtherDecides(t) ==
  /\ Ready /\ t \in awaiting /\ ~spec[t].others /\ Change
  /\ spec' = [spec EXCEPT ![t].others = TRUE]
  /\ UNCHANGED <<tasksMounted, awaiting, tasksPage, groups, lookups, runs, runNo, told,
                 authorized, dialog, unread, claims, lookupFaults>>

WatchUpdate ==
  /\ Ready /\ watched # [awaiting |-> awaiting, spec |-> spec] /\ runNo < MaxRuns
  /\ watched' = [awaiting |-> awaiting, spec |-> spec]
  /\ RemoveToasts
  /\ AddToasts(watched', project, canAccessAll, {t \in rows : spec[t] # watched.spec[t]})
  /\ late' = late \cup Overlapping
  /\ UNCHANGED <<tasksMounted, rows, inCluster, project, canAccessAll, reviewed, groups,
                 authorized, dialog, unread, claims, changes, lookupFaults>>

\* Mutant: the effect that adds toasts does not depend on the namespace.
NavigateQuietly(ns) ==
  /\ Ready /\ ns # project /\ Change /\ runNo < MaxRuns
  /\ project' = ns
  /\ RemoveToasts
  /\ UNCHANGED <<tasksMounted, rows, inCluster, watched, canAccessAll, reviewed, groups, lookups,
                 runs, runNo, missed, late, authorized, dialog, unread, claims, lookupFaults>>

Navigate(ns) ==
  /\ Ready /\ ns # project /\ Change /\ runNo < MaxRuns
  /\ project' = ns
  /\ RemoveToasts
  /\ AddToasts(watched, ns, canAccessAll, {})
  /\ late' = late \cup Overlapping
  /\ UNCHANGED <<tasksMounted, rows, inCluster, watched, canAccessAll, reviewed, groups,
                 authorized, dialog, unread, claims, lookupFaults>>

\* The effect that adds toasts runs without the one that takes them away: a second toast for
\* a key takes the place of the first in currentToasts, and the first stays.
AddToastsOnly(all) ==
  /\ runNo < MaxRuns
  /\ AddToasts(watched, project, all, {})
  /\ late' = late \cup Overlapping \cup 1 .. runNo

\* Only the effect that adds toasts depends on the access review.
Review(all) ==
  /\ Ready /\ ~reviewed /\ runNo < MaxRuns
  /\ reviewed' = TRUE /\ canAccessAll' = all
  /\ IF all THEN AddToastsOnly(TRUE) ELSE UNCHANGED <<runNo, runs, lookups, missed, late>>
  /\ UNCHANGED <<tasksMounted, rows, inCluster, watched, project, groups, toasts, tracked,
                 authorized, dialog, unread, claims, changes, lookupFaults>>

\* The developer's perspective or the administrator's: only the effect that adds toasts
\* depends on the path that its links begin with.
SwitchPerspective ==
  /\ Ready /\ Change
  /\ AddToastsOnly(canAccessAll)
  /\ UNCHANGED <<tasksMounted, tasksPage, inCluster, groups, toasts, tracked, authorized, dialog,
                 unread, claims, lookupFaults>>

\* After 25 seconds, or when the user closes it; not while a lookup is under way (bound).
Close(x) ==
  /\ Ready /\ runs = {} /\ x \in toasts
  /\ toasts' = toasts \ {x}
  /\ missed' = IF x.run = runNo THEN missed \cup x.about ELSE missed
  /\ UNCHANGED <<tasksMounted, inCluster, tasksPage, groups, lookups, runs, runNo, tracked, late,
                 authorized, dialog, unread, claims, changes, lookupFaults>>

-----------------------------------------------------------------------------
(***************************************************************************)
(* Who is an approver.                                                     *)
(***************************************************************************)

Known(l) == l.task \in UserTasks \/ l.at <= Len(GroupsOf[l.task])

\* The toasts of a run: one for the namespace of the page, and for the others one for all of
\* them or one for each.
ToastsOf(r) ==
  LET here == {t \in r.found : ProjectOf[t] = r.ns}
      there == r.found \ here
      Tell(k, T) == IF T = {} THEN {} ELSE {[run |-> r.no, key |-> k, about |-> T]}
  IN  Tell("current", here) \cup
      IF r.all THEN Tell("all", there)
      ELSE UNION {Tell(ns, {t \in there : ProjectOf[t] = ns}) : ns \in Projects}

Show(T) ==
  /\ toasts' = toasts \cup T
  /\ tracked' = [k \in Keys |->
                   IF \E x \in T : x.key = k
                     THEN (CHOOSE x \in T : x.key = k).run ELSE tracked[k]]

\* A lookup ends; further ones begin.
SettleLookup(l, ok, further) ==
  IF l.by = Row
    THEN /\ authorized' = [authorized EXCEPT ![l.task] = IF ok THEN "yes" ELSE "no"]
         /\ lookups' = (lookups \ {l}) \cup further
         /\ UNCHANGED <<runs, toasts, tracked>>
    ELSE LET r == CHOOSE r \in runs : r.no = l.by
             rest == [r EXCEPT !.left = @ \ {l.task},
                               !.found = IF ok THEN @ \cup ({l.task} \ r.answered) ELSE @]
             going == IF rest.left = {} THEN {} ELSE {rest}
         IN  /\ runs' = (runs \ {r}) \cup going
             /\ lookups' = (lookups \ {l}) \cup further \cup RunLookups(going)
             /\ Show(IF going = {} THEN ToastsOf(rest) ELSE {})
             /\ UNCHANGED authorized

\* Named by the user's name or by a group that is known, or not an approver.
LookKnown(l) ==
  /\ tasksMounted /\ ~Asks(l)
  /\ SettleLookup(l, Known(l), {})
  /\ UNCHANGED <<tasksMounted, inCluster, tasksPage, groups, runNo, missed, late, dialog, unread,
                 claims, changes, lookupFaults>>

\* Mutant: the groups found before are forgotten.
LearnOnly(l, g) == {g}

\* What the user's groups are set to: those that were known when the lookup began, and this one.
Learn(l, g) == l.known \cup {g}

\* Mutant: the rows' effect does not depend on the user.
LookFoundQuietly(l) ==
  /\ Ready /\ Asks(l) /\ GroupsOf[l.task][l.at] \in Memberships
  /\ groups' = Learn(l, GroupsOf[l.task][l.at]) /\ unread' = {}
  /\ SettleLookup(l, TRUE, {})
  /\ UNCHANGED <<tasksMounted, inCluster, tasksPage, runNo, missed, late, dialog, claims, changes,
                 lookupFaults>>

\* The user is in the group.  Every row depends on the user and looks up again.
LookFound(l) ==
  LET g == GroupsOf[l.task][l.at]
  IN  /\ Ready /\ Asks(l) /\ g \in Memberships
      /\ groups' = Learn(l, g) /\ unread' = {}
      /\ SettleLookup(l, TRUE, RowLookups(rows, groups'))
      /\ UNCHANGED <<tasksMounted, inCluster, tasksPage, runNo, missed, late, dialog, claims,
                     changes, lookupFaults>>

\* The user is not in the group, or it cannot be read: the next one is tried.
LookOn(l) ==
  /\ Ready /\ Asks(l)
  /\ lookups' = (lookups \ {l}) \cup {[l EXCEPT !.at = @ + 1]}
  /\ IF GroupsOf[l.task][l.at] \in Memberships
       THEN /\ LookupFault
            /\ missed' = IF l.by = runNo THEN missed \cup {l.task} ELSE missed
            /\ unread' = IF l.by = Row /\ l.known = groups THEN unread \cup {l.task} ELSE unread
       ELSE UNCHANGED <<missed, unread, lookupFaults>>
  /\ UNCHANGED <<tasksMounted, inCluster, tasksPage, groups, runs, runNo, toasts, tracked, late,
                 authorized, dialog, claims, changes>>

Look(l) == LookKnown(l) \/ LookFound(l) \/ LookOn(l)

-----------------------------------------------------------------------------
(***************************************************************************)
(* The decision.                                                           *)
(***************************************************************************)

\* The menu hands the dialog the task and the user of this moment.
OpenDialog(t) ==
  /\ Ready /\ dialog = None
  /\ authorized[t] = "yes" /\ t \in watched.awaiting
  /\ dialog' = [task |-> t, known |-> groups, spec |-> watched.spec[t],
                calm |-> lookups = {} /\ t \notin unread]
  /\ UNCHANGED <<tasksMounted, inCluster, tasksPage, groups, lookups, runs, runNo, told,
                 authorized, unread, claims, changes, lookupFaults>>

\* The user's own entry, or that of the groups the dialog knows the user to be in.
Recorded(d) == d.task \in UserTasks \/ Range(GroupsOf[d.task]) \cap d.known # {}

\* The patch replaces all approvers by those of the task that the dialog was opened with.
SubmitDecision ==
  /\ Ready /\ dialog # None
  /\ spec' = [spec EXCEPT ![dialog.task] =
                [dialog.spec EXCEPT !.mine = @ \/ Recorded(dialog)]]
  /\ claims' = IF dialog.calm THEN claims \cup {dialog.task} ELSE claims
  /\ dialog' = None
  /\ UNCHANGED <<tasksMounted, awaiting, tasksPage, groups, lookups, runs, runNo, told,
                 authorized, unread, changes, lookupFaults>>

\* After a failure, too, the user may give up.
CancelDialog ==
  /\ Ready /\ dialog # None
  /\ dialog' = None
  /\ UNCHANGED <<tasksMounted, inCluster, tasksPage, groups, lookups, runs, runNo, told,
                 authorized, unread, claims, changes, lookupFaults>>

ApprovalNext ==
  \/ \E t \in TaskSet : Resolve(t) \/ OtherDecides(t)
  \/ WatchUpdate
  \/ \E ns \in Projects : Navigate(ns)
  \/ \E all \in BOOLEAN : Review(all)
  \/ SwitchPerspective
  \/ \E x \in toasts : Close(x)
  \/ \E l \in lookups : Look(l)
  \/ \E t \in rows : OpenDialog(t)
  \/ SubmitDecision
  \/ CancelDialog

\* The cluster answers for a group, sooner or later.
ApprovalFairness == WF_approvalVars(\E l \in lookups : Look(l))

ApprovalSpec == ApprovalInit /\ [][ApprovalNext]_approvalVars /\ ApprovalFairness

-----------------------------------------------------------------------------
(***************************************************************************)
(* Properties.                                                             *)
(***************************************************************************)

Approver(t) == t \in UserTasks \/ Range(GroupsOf[t]) \cap Memberships # {}

Waiting == {t \in watched.awaiting : Approver(t) /\ ~watched.spec[t].mine}

Rest == tasksMounted /\ runs = {}

\* However updates, changes of the namespace and slow lookups overlap, once the runs are over
\* every task that waits for the user has a toast of the last run, which no effect of an
\* earlier one takes away; unless its group could not be read, or the toast was closed.
WaitingIsTold ==
  Rest => \A t \in Waiting \ missed : \E x \in toasts : x.run = runNo /\ t \in x.about

\* Once the runs are over, what a toast tells is still so, unless its run overlapped
\* another (nothing cancels one, and a key is tracked for one toast only) or after it toasts
\* were added without taking its own away (the access review came, the perspective changed).
ToastsAreCurrent ==
  Rest => \A x \in toasts : x.run \in late \/ (x.run = runNo /\ x.about \subseteq Waiting)

\* Lookups come to an end, although each group that is found makes every row look up again
\* and puts the user back to the groups known when its own lookup began.
LookupsEnd == []<>(lookups = {} \/ ~tasksMounted)

\* A dialog that was opened while no lookup was under way, and that closes as a success, has
\* recorded the user's decision, unless the row could not read a group of the user's.  (With a
\* lookup under way the group that made the user an approver may be lost for a moment; after an
\* unreadable one it may stay so, when a row goes by the answer to an older lookup.  The dialog
\* then submits an unchanged list.)
DecisionRecorded ==
  [][\A t \in claims' \ claims : spec'[t].mine]_approvalVars

\* Submitting one's own decision leaves the decisions of others alone.
KeepsOthersDecisions ==
  [][\A t \in TaskSet : spec[t].others => spec'[t].others]_approvalVars
=============================================================================
