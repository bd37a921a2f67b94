----------------------------- MODULE MetricsCards -----------------------------
(***************************************************************************)
(* A card of the overview without Tekton Results, or of a pipeline's       *)
(* metrics.  It polls Prometheus with one or two queries, each by a hook   *)
(* (useURLPoll) with its own answer, error and loading flag.  A request    *)
(* aborts the one before it, and the aborted one still reports.            *)
(*                                                                         *)
(* Numbers are those of RunCounts: here an answer is what it was asked     *)
(* for.                                                                    *)
(***************************************************************************)
EXTENDS Console, FiniteSets

CONSTANTS
  ScopesK8s,   \* what may be selected: a namespace and a time range
  WatchedK8s   \* the cards that may be on the page, of those below

StatusCardK8s == {"statuses", "runs"}
DurationCardK8s == {"runs", "seconds"}
AverageDurationK8s == {"runs", "seconds"}
TotalCardK8s == {"runs"}
NumbersChartK8s == {"runs"}
ListPageK8s == {"runs", "seconds"}

\* For the modules that extend or instantiate this one to assume.
MetricsAssumption ==
  /\ None \notin ScopesK8s /\ None \notin ScopesK8s \X BOOLEAN
  /\ None \notin {"AbortError", "other"}

VARIABLES
  mountedK8s,
  askedK8s,     \* the queries of the card looked at
  scope,     \* what is selected
  delay,     \* a refresh interval is chosen
  ranK8s,       \* what was selected when the effects ran last
  inFlight,  \* what a query has been asked for
  response,  \* what the answer shown was asked for
  errorK8s,     \* None, "AbortError", or any other
  loading,
  alert      \* the card's own error

selectedK8s == <<scope, delay>>
hooks == <<inFlight, response, errorK8s, loading>>
varsK8s == <<mountedK8s, askedK8s, selectedK8s, ranK8s, hooks, alert>>

TypeOKK8s ==
  /\ mountedK8s \in BOOLEAN /\ askedK8s \in WatchedK8s
  /\ scope \in ScopesK8s /\ delay \in BOOLEAN
  /\ ranK8s \in (ScopesK8s \X BOOLEAN) \cup {None}
  /\ inFlight \in [askedK8s -> ScopesK8s \cup {None}]
  /\ response \in [askedK8s -> ScopesK8s \cup {None}]
  /\ errorK8s \in [askedK8s -> {None, "AbortError", "other"}]
  /\ loading \in [askedK8s -> BOOLEAN] /\ alert \in BOOLEAN

InitK8s ==
  /\ mountedK8s \in BOOLEAN /\ askedK8s \in WatchedK8s
  /\ scope \in ScopesK8s /\ delay = TRUE
  /\ ranK8s = None
  /\ inFlight = [q \in askedK8s |-> None] /\ response = inFlight /\ errorK8s = inFlight
  /\ loading = [q \in askedK8s |-> TRUE] /\ alert = FALSE

Failed == \E q \in askedK8s : errorK8s[q] = "other"

\* The effects of the last render: those of the hooks, and that which sets the card's error.
EffectsDueK8s == ranK8s # <<scope, delay>> \/ alert # Failed

SelectK8s ==
  /\ mountedK8s /\ ~EffectsDueK8s
  /\ scope' \in ScopesK8s /\ delay' \in BOOLEAN /\ selectedK8s' # selectedK8s
  /\ UNCHANGED <<mountedK8s, askedK8s, ranK8s, hooks, alert>>

\* Mutant: the report of an abort ends the loading, as that of a failure does.
AskAbortEnds(Q) ==
  /\ inFlight' = [q \in askedK8s |-> IF q \in Q THEN scope ELSE inFlight[q]]
  /\ response' = [q \in askedK8s |-> IF q \in Q THEN None ELSE response[q]]
  /\ loading' = [q \in askedK8s |-> IF q \in Q THEN inFlight[q] = None ELSE loading[q]]
  /\ errorK8s' = [q \in askedK8s |->
       IF q \notin Q THEN errorK8s[q] ELSE IF inFlight[q] = None THEN None ELSE "AbortError"]

\* tick and safeFetch: what is shown is cleared and the request before aborted, which reports
\* so at once, before any answer can come.
Ask(Q) ==
  /\ inFlight' = [q \in askedK8s |-> IF q \in Q THEN scope ELSE inFlight[q]]
  /\ response' = [q \in askedK8s |-> IF q \in Q THEN None ELSE response[q]]
  /\ loading' = [q \in askedK8s |-> q \in Q \/ loading[q]]
  /\ errorK8s' = [q \in askedK8s |->
       IF q \notin Q THEN errorK8s[q] ELSE IF inFlight[q] = None THEN None ELSE "AbortError"]

\* The effect of the alert reads the errors of the render, before what the hooks' effects set.
EffectsK8s ==
  /\ mountedK8s /\ EffectsDueK8s
  /\ ranK8s' = selectedK8s
  /\ IF ranK8s # selectedK8s THEN Ask(askedK8s) ELSE UNCHANGED hooks
  /\ alert' = Failed
  /\ UNCHANGED <<mountedK8s, askedK8s, selectedK8s>>

\* setInterval calls what the last render has saved.
PollK8s(q) ==
  /\ mountedK8s /\ ranK8s = selectedK8s /\ delay
  /\ Ask({q})
  /\ UNCHANGED <<mountedK8s, askedK8s, selectedK8s, ranK8s, alert>>

SettleK8s(q, r, e) ==
  /\ mountedK8s /\ inFlight[q] # None
  /\ inFlight' = [inFlight EXCEPT ![q] = None]
  /\ response' = [response EXCEPT ![q] = r]
  /\ errorK8s' = [errorK8s EXCEPT ![q] = e]
  /\ loading' = [loading EXCEPT ![q] = FALSE]
  /\ UNCHANGED <<mountedK8s, askedK8s, selectedK8s, ranK8s, alert>>

AnswerK8s(q) == SettleK8s(q, inFlight[q], None)
FailK8s(q) == SettleK8s(q, None, "other")

UnmountK8s ==
  /\ mountedK8s
  /\ mountedK8s' = FALSE
  /\ inFlight' = [q \in askedK8s |-> None]
  /\ UNCHANGED <<askedK8s, selectedK8s, ranK8s, response, errorK8s, loading, alert>>

NextK8s ==
  \/ SelectK8s
  \/ EffectsK8s
  \/ \E q \in askedK8s : PollK8s(q) \/ AnswerK8s(q) \/ FailK8s(q)
  \/ UnmountK8s

SpecK8s == InitK8s /\ [][NextK8s]_varsK8s

-----------------------------------------------------------------------------
(***************************************************************************)
(* Properties.                                                             *)
(***************************************************************************)

\* Once the effects of a selection have run, nothing is shown that was asked for another one,
\* whatever was in flight (tick clears, safeFetch aborts).
ShownIsSelectedK8s ==
  \A q \in askedK8s : ranK8s = selectedK8s /\ response[q] # None => response[q] = scope

\* A query loads as long as a request is in flight, an abort it caused itself is never what
\* remains, and a card that has settled shows an alert exactly when one of its answers is
\* missing.
SettledIsShownK8s ==
  mountedK8s /\ ~EffectsDueK8s =>
    /\ \A q \in askedK8s : loading[q] <=> inFlight[q] # None
    /\ \A q \in askedK8s : errorK8s[q] = "AbortError" => loading[q]
    /\ alert => \E q \in askedK8s : response[q] = None
    /\ (\A q \in askedK8s : inFlight[q] = None) /\ ~alert => \A q \in askedK8s : response[q] = scope
=============================================================================
