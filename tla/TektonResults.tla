---------------------------- MODULE TektonResults ----------------------------
(***************************************************************************)
(* useRuns and useTRRuns: the runs of a page are those the cluster still   *)
(* has (a watch on etcd) and those Tekton Results keeps (read page by page *)
(* when the page is opened, and again after runs were pruned).             *)
(*                                                                         *)
(* A page is a list of a namespace's runs, or the details of the run that  *)
(* has a given name there (limit 1).  The reads that successive effects    *)
(* start are not cancelled, and share one ref, fetchedRef.                 *)
(***************************************************************************)
EXTENDS Naturals, FiniteSets

CONSTANTS
  Run,             \* runs, whatever their name and namespace
  Namespace,
  Home,            \* the namespace of each run
  Namesakes,       \* the runs that bear the name a details page is about
  PageOf,          \* the page, first or second, on which Tekton Results lists a run
  Creatable,       \* the runs that may be created while the page is open
  MayFail,         \* namespaces (None: all of them) whose reads may be refused or fail
  None,            \* no namespace, an effect that has not run yet
  MaxNavigations   \* bound: how often the page is given another namespace

ASSUME ResultsAssumption ==
  /\ IsFiniteSet(Run)
  /\ Home \in [Run -> Namespace]
  /\ None \notin Namespace \cup [ns : Namespace \cup {None}, enabled : BOOLEAN, key : Nat]
  /\ Namesakes \subseteq Run
  /\ \A n \in Namespace : Cardinality({r \in Namesakes : Home[r] = n}) <= 1
  /\ PageOf \in [Run -> {1, 2}]
  /\ Creatable \subseteq Run
  /\ MayFail \subseteq Namespace \cup {None}
  /\ MaxNavigations \in Nat

VARIABLES
  born, etcd, archive,   \* runs created, in the cluster, kept by Tekton Results
  details,               \* whether the page shows details (name and limit) or a list
  namespace, enabled,    \* the page's namespace; isTektonResultEnabled, once known
  navigations,
  loaded, watched,       \* the watch on etcd
  lengthSeen,            \* what the length effect depended on when it ran last
  prevLength,            \* prevEtcdLengthRef
  refetchKey,            \* trRefetchKey
  deps,                  \* what useTRRuns's effect depended on when it ran last
  fetchedRef,
  fetches,               \* executions of fetchResults that have not ended
  tr,                    \* useTRRuns's state, and the namespace it was read for
  mishaps                \* history: what happened that may hide a run

cluster == <<born, etcd, archive>>
page == <<details, namespace, enabled, navigations>>
watch == <<loaded, watched>>
length == <<lengthSeen, prevLength, refetchKey>>
reading == <<deps, fetchedRef, fetches, tr>>
vars == <<cluster, page, watch, length, reading, mishaps>>

NamespaceOrNone == Namespace \cup {None}

\* A read of a namespace: `data` are the records of the pages read so far.
Fetch == [id : Nat, ns : NamespaceOrNone, pg : {1, 2}, data : SUBSET Run, more : BOOLEAN,
          phase : {"requested", "answered"}]

Mishap == {"overlap", "masked", "unseen", "failed"}

-----------------------------------------------------------------------------
(***************************************************************************)
(* What useRuns derives from the state.                                    *)
(***************************************************************************)

Matches(ns, runs) ==
  {r \in runs : ns \in {None, Home[r]} /\ (details => r \in Namesakes)}

EtcdRuns == IF loaded THEN watched ELSE {}

\* A details page whose run is not in etcd: the watch reports an error.
EtcdError == details /\ loaded /\ watched = {}

QueryTr == enabled /\ (~details \/ (loaded /\ (1 > Cardinality(EtcdRuns) \/ EtcdError)))

TrNamespace == IF QueryTr THEN namespace ELSE None

LengthDeps == [length |-> Cardinality(EtcdRuns), loaded |-> loaded, error |-> EtcdError]

Deps == [ns |-> TrNamespace, enabled |-> enabled, key |-> refetchKey]

\* React runs the effects of a render before it renders again.
EffectsRan == lengthSeen = LengthDeps /\ deps = Deps

\* rResources: etcd's runs and those read from Tekton Results.
Shown == EtcdRuns \cup (IF enabled THEN tr.data ELSE {})

TypeOK ==
  /\ born \subseteq Run /\ etcd \subseteq born /\ archive \subseteq born
  /\ details \in BOOLEAN /\ namespace \in Namespace /\ enabled \in BOOLEAN
  /\ navigations \in 0 .. MaxNavigations
  /\ loaded \in BOOLEAN /\ watched \subseteq Run
  /\ lengthSeen \in [length : Nat, loaded : BOOLEAN, error : BOOLEAN] \cup {None}
  /\ prevLength \in Nat /\ refetchKey \in Nat
  /\ deps \in [ns : NamespaceOrNone, enabled : BOOLEAN, key : Nat] \cup {None}
  /\ fetchedRef \in BOOLEAN
  /\ fetches \subseteq Fetch
  /\ tr \in [data : SUBSET Run, loaded : BOOLEAN, error : BOOLEAN, ns : NamespaceOrNone]
  /\ mishaps \subseteq Mishap

Init ==
  /\ born \in {b \in SUBSET Run : Run \ Creatable \subseteq b}
  /\ etcd \in SUBSET born /\ archive = born \ etcd
  /\ details \in BOOLEAN /\ namespace \in Namespace
  /\ enabled = FALSE /\ navigations = 0
  /\ loaded = FALSE /\ watched = {}
  /\ lengthSeen = None /\ prevLength = 0 /\ refetchKey = 0
  /\ deps = None /\ fetchedRef = FALSE /\ fetches = {}
  /\ tr = [data |-> {}, loaded |-> FALSE, error |-> FALSE, ns |-> None]
  /\ mishaps = {}

-----------------------------------------------------------------------------
(***************************************************************************)
(* The cluster.                                                            *)
(***************************************************************************)

Create(r) ==
  /\ r \notin born
  /\ born' = born \cup {r} /\ etcd' = etcd \cup {r}
  /\ UNCHANGED <<archive, page, watch, length, reading, mishaps>>

\* Tekton Results records a run.
Archive(r) ==
  /\ r \in etcd \ archive
  /\ archive' = archive \cup {r}
  /\ UNCHANGED <<born, etcd, page, watch, length, reading, mishaps>>

\* A recorded run is pruned or deleted, possibly before the watch has shown it.
Prune(r) ==
  /\ r \in etcd \cap archive
  /\ etcd' = etcd \ {r}
  /\ mishaps' = IF r \in EtcdRuns THEN mishaps ELSE mishaps \cup {"unseen"}
  /\ UNCHANGED <<born, archive, page, watch, length, reading>>

-----------------------------------------------------------------------------
(***************************************************************************)
(* The page.                                                               *)
(***************************************************************************)

\* The feature flag of Tekton Results becomes known.
LearnEnabled ==
  /\ ~enabled /\ EffectsRan
  /\ enabled' = TRUE
  /\ UNCHANGED <<cluster, details, namespace, navigations, watch, length, reading, mishaps>>

\* The page is given another namespace: a new watch, and the length starts over.
Navigate(n) ==
  /\ n # namespace /\ navigations < MaxNavigations /\ EffectsRan
  /\ namespace' = n
  /\ navigations' = navigations + 1
  /\ loaded' = FALSE /\ watched' = {}
  /\ prevLength' = 0
  /\ UNCHANGED <<cluster, details, enabled, lengthSeen, refetchKey, reading, mishaps>>

\* The watch delivers what etcd has now; events that came together are one update.
WatchUpdate ==
  LET now == Matches(namespace, etcd) IN
  /\ EffectsRan
  /\ ~loaded \/ watched # now
  /\ loaded' = TRUE /\ watched' = now
  /\ mishaps' = IF loaded /\ watched \ now # {} /\ Cardinality(now) >= Cardinality(watched)
                  THEN mishaps \cup {"masked"} ELSE mishaps
  /\ UNCHANGED <<cluster, page, length, reading>>

\* Mutant: the last run of a list may go unnoticed.
ShrunkTo(n) == loaded /\ ~EtcdError /\ prevLength > 1 /\ n < prevLength

\* "if etcd returned fewer runs than before"
Shrunk(n) == loaded /\ ~EtcdError /\ prevLength > 0 /\ n < prevLength

LengthEffect ==
  /\ lengthSeen # LengthDeps
  /\ lengthSeen' = LengthDeps
  /\ prevLength' = LengthDeps.length
  /\ refetchKey' = IF Shrunk(LengthDeps.length) THEN refetchKey + 1 ELSE refetchKey
  /\ UNCHANGED <<cluster, page, watch, reading, mishaps>>

-----------------------------------------------------------------------------
(***************************************************************************)
(* useTRRuns.                                                              *)
(***************************************************************************)

\* Mutant: the cleanup leaves the ref as it is.
NoCleanup == fetchedRef

\* The cleanup of the previous effect, if there was one.
Cleanup == IF deps = None THEN fetchedRef ELSE FALSE

\* Tells executions apart: the least number that none of them bears.
NewId == {i \in 0 .. Cardinality(fetches) :
            /\ \A f \in fetches : f.id # i
            /\ \A j \in 0 .. i - 1 : \E f \in fetches : f.id = j}

\* The namespace given to Tekton Results is None, which reads all of them, as long as queryTr
\* does not hold: only isTektonResultEnabled keeps fetchResults from being called.  The
\* length effect is declared first, and runs first.
FetchEffect ==
  /\ lengthSeen = LengthDeps /\ deps # Deps
  /\ deps' = Deps
  /\ fetchedRef' = Cleanup
  /\ IF enabled
       THEN /\ \E i \in NewId :
                 fetches' = fetches \cup
                   {[id |-> i, ns |-> TrNamespace, pg |-> 1, data |-> {}, more |-> FALSE,
                     phase |-> "requested"]}
            /\ mishaps' = IF fetches # {} THEN mishaps \cup {"overlap"} ELSE mishaps
       ELSE UNCHANGED <<fetches, mishaps>>
  /\ UNCHANGED <<cluster, page, watch, length, tr>>

\* What Tekton Results answers: one record at most with a limit, else a page of them and a
\* token when there is another one.
Answers(f) ==
  LET found == Matches(f.ns, archive) IN
  IF details
    THEN {[data |-> d, more |-> FALSE] :
            d \in IF found = {} THEN {{}} ELSE {{r} : r \in found}}
    ELSE {[data |-> f.data \cup {r \in found : PageOf[r] = f.pg},
           more |-> f.pg = 1 /\ \E r \in found : PageOf[r] = 2]}

Read(f) ==
  /\ f.phase = "requested"
  /\ \E a \in Answers(f) :
       fetches' = (fetches \ {f}) \cup
         {[f EXCEPT !.phase = "answered", !.data = a.data, !.more = a.more]}
  /\ UNCHANGED <<cluster, page, watch, length, deps, fetchedRef, tr, mishaps>>

\* A page reaches the loop of fetchResults, which drops it when the ref is set; the end of
\* the loop sets the ref.
Deliver(f) ==
  /\ f.phase = "answered"
  /\ IF fetchedRef
       THEN fetches' = fetches \ {f} /\ UNCHANGED <<fetchedRef, tr>>
       ELSE /\ tr' = [data |-> f.data, loaded |-> TRUE, error |-> FALSE, ns |-> f.ns]
            /\ fetchedRef' = ~f.more
            /\ fetches' = (fetches \ {f}) \cup
                 (IF f.more THEN {[f EXCEPT !.phase = "requested", !.pg = 2]} ELSE {})
  /\ UNCHANGED <<cluster, page, watch, length, deps, mishaps>>

\* Mutant: the error of a failed read is left out of the state.
ErrorLeftOut(f) == [data |-> {}, loaded |-> TRUE, ns |-> f.ns]

\* Mutant: a failure ends the read, and nothing else.
NoErrorState(f) == tr

ErrorState(f) == [data |-> {}, loaded |-> TRUE, error |-> TRUE, ns |-> f.ns]

Fail(f) ==
  /\ f.phase = "requested" /\ f.ns \in MayFail
  /\ fetches' = fetches \ {f}
  /\ IF fetchedRef THEN UNCHANGED <<fetchedRef, tr>>
                   ELSE fetchedRef' = TRUE /\ tr' = ErrorState(f)
  /\ mishaps' = mishaps \cup {"failed"}
  /\ UNCHANGED <<cluster, page, watch, length, deps>>

-----------------------------------------------------------------------------
Next ==
  \/ \E r \in Run : Create(r) \/ Archive(r) \/ Prune(r)
  \/ LearnEnabled \/ (\E n \in Namespace : Navigate(n))
  \/ WatchUpdate \/ LengthEffect \/ FetchEffect
  \/ \E f \in fetches : Read(f) \/ Deliver(f) \/ Fail(f)

\* The watch catches up, effects run after a render, reads end.
Fairness ==
  /\ WF_vars(WatchUpdate) /\ WF_vars(LengthEffect) /\ WF_vars(FetchEffect)
  /\ WF_vars(\E f \in fetches : Read(f) \/ Deliver(f) \/ Fail(f))

Spec == Init /\ [][Next]_vars /\ Fairness

-----------------------------------------------------------------------------
(***************************************************************************)
(* Properties.                                                             *)
(***************************************************************************)

\* As long as no two reads overlapped, what is shown once they have ended was read for the
\* namespace the page asks for now: the ref that one read sets is reset for the next.
SettledRead ==
  "overlap" \notin mishaps /\ fetches = {} /\ enabled /\ deps = Deps
    => tr.loaded /\ tr.ns = TrNamespace

\* However reads overlap, fail and drop each other's pages, the page stops loading.
LoadedInTheEnd == enabled ~> tr.loaded

\* "refetch data from TR after deletion / pruning" (useTektonResults.ts:64): if no reads
\* overlap or fail, no run is pruned before the watch has shown it and no update of the watch
\* replaces a run by another, every run that Tekton Results keeps is shown in the end, whether
\* it is in etcd or not.
PrunedRunsShown ==
  <>[](mishaps = {} /\ enabled => Matches(namespace, archive) \subseteq Shown)

\* The details of a pruned run are those Tekton Results keeps of it: what "query TR only when
\* etcd returned fewer items than limit (resource pruned/deleted)" is for.
PrunedDetailsShown ==
  <>[](details /\ enabled => Matches(namespace, archive) \subseteq Shown)
=============================================================================
