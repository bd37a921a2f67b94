---------------------------- MODULE MCConsolePages ----------------------------
(***************************************************************************)
(* Pages of the console on small instances for TLC: each is a component of *)
(* its own, and one of them is open.                                       *)
(***************************************************************************)
EXTENDS Cards, RunCounts, LogStream, Approvals, SyncedEditor, QuickSearch, TLC

CONSTANTS ns1, ns2, t1, t2, t3, t4, g1, g2, g3, n1, n2, n3, n4, l1

\* Which page is open, where the component does not say.
VARIABLES building, lookingUp, counting

ASSUME PagesAssumption ==
  /\ CardsAssumption /\ MetricsAssumption /\ CountAssumption /\ LogAssumption
  /\ ApprovalAssumption /\ SearchAssumption

-----------------------------------------------------------------------------
(***************************************************************************)
(* Values of the constants.                                                *)
(***************************************************************************)

MCNamespaces == {ns1, ns2}

\* OverviewCards; times are in ticks, and 99 is Off.
MCWatched == {{"duration"}, {"list"}, {"donut", "line"}}
MCTimespans == {1, 7}
MCIntervals == {1, 2, 4, 99}
MCLatencies == {0, 1, 4}

\* MetricsCards
MCWatchedK8s == {{"runs"}, {"runs", "seconds"}}

\* RunCounts
MCStatus == {"success", "failed"}
MCLasts == "success" :> 1 @@ "failed" :> 3

\* Approvals: the user is in g1 and g2; t3 names the user, t4 lists first a group of others.
MCTasks == <<t1, t2, t3, t4>>
MCUserTasks == {t3}
MCMemberships == {g1, g2}
MCGroupsOf == t1 :> <<g1>> @@ t2 :> <<g2>> @@ t3 :> <<g1>> @@ t4 :> <<g3, g1>>
MCProjectOf == t1 :> ns1 @@ t2 :> ns2 @@ t3 :> ns1 @@ t4 :> ns2

\* SyncedEditor: the resource is n1; n3 is what its name may become when n1 is in use.
MCTaskName == {n1, n2, n3, n4}
MCSuffixed == [r \in {n1} |-> {n3}]

task(n, after, r) == [name |-> n, runAfter |-> after, res |-> r]
Lines(s) == [tasks |-> s, finallyTasks |-> {}]

MCExisting == {[tasks |-> {task(n1, {}, n1)}, finallyTasks |-> {task(n2, {}, n1)}]}

\* Texts to repair: of two runAfters that dangle one stays, and the good one goes; instead of
\* one that dangles the good one of another task goes; and of two tasks without a reference one
\* stays, so that the path into the task behind them leads nowhere.
MCTypings ==
  {None,
   Lines(<<task(n1, None, n1), task(n2, <<n3, n4, n1>>, n1)>>),
   Lines(<<task(n3, None, NoName), task(n1, <<n4>>, n1), task(n2, <<n1>>, n1)>>),
   Lines(<<task(n3, None, NoName), task(n2, <<>>, NoName), task(n1, <<n4>>, n1)>>)}

\* QuickSearch
MCTerms == {t1, t2}

-----------------------------------------------------------------------------
(***************************************************************************)
(* One page is open.                                                       *)
(***************************************************************************)

builderVars ==
  <<building, group, ui, installed, failed, creating, arriving, pending, saved, editor>>
otherThanBuilder == <<cardVars, varsK8s, logVars, approvalVars, lookingUp, searchVars, counting, countVars>>

\* The builder's callback is dead when no search is open: the next one sets it anew.
Live == <<otherThanBuilder, builderVars, IF ui = None THEN None ELSE callback>>

\* A fresh page whose access review is to come; a page with rows; one where nothing changes.
ApprovalCases ==
  \/ awaiting = {t1, t2} /\ rows = {} /\ reviewed = FALSE /\ runNo = 1
     /\ changes = 0 /\ lookupFaults = 0
  \/ awaiting = {t3, t4} /\ rows = {t3, t4} /\ reviewed = TRUE /\ runNo = 2
     /\ changes = 1 /\ lookupFaults = 1
  \/ awaiting = {t1, t2} /\ rows = {t1, t2} /\ reviewed = TRUE /\ runNo = 3
     /\ changes = MaxChanges /\ lookupFaults = 1

\* What is not open has no choices of its own.
PagesInit ==
  /\ \E open \in 1 .. 7 :
       cardMounted = (open = 1) /\ logMounted = (open = 2) /\ tasksMounted = (open = 3)
         /\ building = (open = 4) /\ lookingUp = (open = 5) /\ mountedK8s = (open = 6)
         /\ counting = (open = 7)
  /\ cardMounted \/ (namespace = ns1 /\ asked = {"duration"} /\ latency = 0)
  /\ logMounted \/ (managed = FALSE /\ pipelineStatus = "running")
  /\ building \/ view = "form"
  /\ mountedK8s \/ (scope = ns1 /\ askedK8s = {"runs"})
  /\ IF tasksMounted THEN ApprovalCases
     ELSE awaiting = {} /\ rows = {} /\ reviewed = TRUE /\ runNo = 1 /\ changes = 0
          /\ lookupFaults = 0
  /\ CardInit /\ InitK8s /\ LogInit /\ ApprovalInit /\ EditorInit /\ SearchInit
  /\ CountInit

NotBuilder == UNCHANGED <<building, allVars>>
NotCards == UNCHANGED <<cardVars, varsK8s>>
NotLogs == UNCHANGED logVars
NotApprovals == UNCHANGED approvalVars
NotSearch == UNCHANGED <<lookingUp, searchVars>>
NotCounts == UNCHANGED <<counting, countVars>>

PagesNext ==
  \/ cardMounted /\ CardNext /\ UNCHANGED varsK8s
       /\ NotLogs /\ NotApprovals /\ NotBuilder /\ NotSearch /\ NotCounts
  \/ mountedK8s /\ NextK8s /\ UNCHANGED cardVars
       /\ NotLogs /\ NotApprovals /\ NotBuilder /\ NotSearch /\ NotCounts
  \/ logMounted /\ LogNext
       /\ NotCards /\ NotApprovals /\ NotBuilder /\ NotSearch /\ NotCounts
  \/ tasksMounted /\ ApprovalNext
       /\ NotCards /\ NotLogs /\ NotBuilder /\ NotSearch /\ NotCounts
  \/ building /\ EditorNext /\ UNCHANGED building
       /\ NotCards /\ NotLogs /\ NotApprovals /\ NotSearch /\ NotCounts
  \/ lookingUp /\ SearchNext /\ UNCHANGED lookingUp
       /\ NotCards /\ NotLogs /\ NotApprovals /\ NotBuilder /\ NotCounts
  \/ counting /\ CountNext /\ UNCHANGED counting
       /\ NotCards /\ NotLogs /\ NotApprovals /\ NotBuilder /\ NotSearch

PagesSpec ==
  /\ PagesInit
  /\ [][PagesNext]_<<otherThanBuilder, building, allVars>>
  /\ CardFairness /\ LogFairness /\ ApprovalFairness

-----------------------------------------------------------------------------
\* Of the page that is open: what is not open does not change.
PagesTypeOK ==
  /\ cardMounted => CardTypeOK
  /\ mountedK8s => TypeOKK8s
  /\ logMounted => LogTypeOK
  /\ tasksMounted => ApprovalTypeOK
  /\ building => EditorTypeOK
  /\ lookingUp => SearchTypeOK
  /\ counting => CountTypeOK
=============================================================================
