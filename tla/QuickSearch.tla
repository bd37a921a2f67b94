----------------------------- MODULE QuickSearch -----------------------------
(***************************************************************************)
(* The quick search of the pipeline builder: what is typed is looked up in *)
(* the catalog at once, and in Artifact Hub, when nothing more has been    *)
(* typed for a while.  The function that searches, and its timer, are made *)
(* anew when what it captures changes; a timer of an older function runs   *)
(* on and then searches with what that one captured.                       *)
(*                                                                         *)
(* Pipelines, and the resources of another namespace, are filtered by the  *)
(* text as it is typed; that needs no state.                               *)
(***************************************************************************)
EXTENDS Console, Naturals, Sequences, FiniteSets

CONSTANTS
  Terms,        \* texts other than the empty one
  MaxSearches,  \* bound: how often searchVersionRef is incremented
  MaxRenewals   \* bound: how often the catalog changes

\* For the modules that extend or instantiate this one to assume.
SearchAssumption ==
  /\ MaxSearches \in Nat /\ MaxRenewals \in Nat
  /\ None \notin Terms
  /\ None \notin [term : Terms, catalog : 0 .. MaxRenewals, asked : BOOLEAN, answered : BOOLEAN]

VARIABLES
  kind,       \* "Task" or "Pipeline"
  term,       \* searchTerm
  items,      \* catalogItems: the text and the catalog they were found with, whether Artifact Hub
              \* was asked, and whether its answer is among them
  searching,  \* isSearching
  searchFailed,     \* isSearchError
  version,    \* searchVersionRef
  catalog,    \* the items of the catalog, by how often they have changed
  hub,        \* artifactHubIntegrationStatus; FALSE until the configuration has been read
  typed,      \* the text that the present function's timer holds
  overdue,    \* those that timers of older functions hold, as they are due
  searches    \* searches of Artifact Hub in flight

searchVars ==
  <<kind, term, items, searching, searchFailed, version, catalog, hub, typed, overdue, searches>>

Kinds == {"Task", "Pipeline"}
Closure == [kind : Kinds, catalog : 0 .. MaxRenewals, hub : BOOLEAN]

SearchTypeOK ==
  /\ kind \in Kinds
  /\ term \in Terms \cup {None}
  /\ items = None \/ items \in [term : Terms, catalog : 0 .. MaxRenewals, asked : BOOLEAN,
                                answered : BOOLEAN]
  /\ searching \in BOOLEAN /\ searchFailed \in BOOLEAN
  /\ version \in 0 .. MaxSearches
  /\ catalog \in 0 .. MaxRenewals /\ hub \in BOOLEAN
  /\ typed \in Terms \cup {None}
  /\ overdue \in Seq([term : Terms, by : Closure])
  /\ searches \subseteq [version : 0 .. MaxSearches, term : Terms, catalog : 0 .. MaxRenewals,
                         aborted : BOOLEAN]

SearchInit ==
  /\ kind = "Task" /\ term = None /\ items = None
  /\ searching = FALSE /\ searchFailed = FALSE
  /\ version = 0 /\ catalog = 0 /\ hub = FALSE
  /\ typed = None /\ overdue = <<>> /\ searches = {}

Captured == [kind |-> kind, catalog |-> catalog, hub |-> hub]

Aborted == {[r EXCEPT !.aborted = TRUE] : r \in searches}

\* Mutant: aborting is thought to be enough.
AbortInFlightSearch == version < MaxSearches /\ version' = version

\* resetInFlightSearch; whoever calls it aborts the request in flight.
ResetInFlightSearch == version < MaxSearches /\ version' = version + 1

-----------------------------------------------------------------------------
(***************************************************************************)
(* handleSearch with what it captured.                                     *)
(***************************************************************************)

\* Pipelines are not searched.
SearchNothing(by) ==
  /\ by.kind = "Pipeline"
  /\ searches' = Aborted /\ searching' = FALSE /\ searchFailed' = FALSE
  /\ UNCHANGED items

SearchEmpty(by) ==
  /\ by.kind = "Task"
  /\ searches' = Aborted /\ searching' = FALSE /\ searchFailed' = FALSE
  /\ items' = None

\* The catalog's items are there at once, those of Artifact Hub when it answers.
SearchCatalog(t, by) ==
  /\ by.kind = "Task"
  /\ items' = [term |-> t, catalog |-> by.catalog, asked |-> by.hub, answered |-> FALSE]
  /\ searching' = by.hub /\ searchFailed' = FALSE
  /\ searches' = Aborted \cup
       IF by.hub
         THEN {[version |-> version', term |-> t, catalog |-> by.catalog, aborted |-> FALSE]}
         ELSE {}

HandleSearch(t, by) ==
  /\ ResetInFlightSearch
  /\ \/ SearchNothing(by)
     \/ IF t = None THEN SearchEmpty(by) ELSE SearchCatalog(t, by)

-----------------------------------------------------------------------------
(***************************************************************************)
(* The user, the timers, Artifact Hub, and what the function depends on.   *)
(***************************************************************************)

\* The text is searched for when the timer has run out.
OnSearchChange(t) ==
  /\ t # term
  /\ term' = t /\ typed' = t
  /\ UNCHANGED <<kind, items, searching, searchFailed, version, catalog, hub, overdue, searches>>

\* The empty text at once: when the text is deleted, the search closed or a namespace selected.
\* Only the timer of the present function is stopped.
Clear ==
  /\ HandleSearch(None, Captured)
  /\ term' = None /\ typed' = None
  /\ UNCHANGED <<kind, catalog, hub, overdue>>

TimerFires ==
  /\ typed # None /\ overdue = <<>>
  /\ HandleSearch(typed, Captured)
  /\ typed' = None
  /\ UNCHANGED <<kind, term, catalog, hub, overdue>>

\* Timers are all of one length: an older one fires first.
OverdueTimerFires ==
  /\ overdue # <<>>
  /\ HandleSearch(Head(overdue).term, Head(overdue).by)
  /\ overdue' = Tail(overdue)
  /\ UNCHANGED <<kind, term, catalog, hub, typed>>

HandleKindChange(k) ==
  /\ k # kind
  /\ ResetInFlightSearch /\ searches' = Aborted
  /\ typed' = None
  /\ kind' = k /\ term' = None /\ searching' = FALSE /\ searchFailed' = FALSE
  /\ items' = IF k = "Task" THEN None ELSE items
  /\ UNCHANGED <<catalog, hub, overdue>>

\* Mutant: the timer of the function that is replaced is stopped.
RenewStopping ==
  /\ typed' = None
  /\ UNCHANGED <<kind, term, items, searching, searchFailed, version, overdue, searches>>

\* The function is made anew.
Renew ==
  /\ overdue' = IF typed = None THEN overdue ELSE Append(overdue, [term |-> typed, by |-> Captured])
  /\ typed' = None
  /\ UNCHANGED <<kind, term, items, searching, searchFailed, version, searches>>

CatalogChanges ==
  /\ catalog < MaxRenewals /\ catalog' = catalog + 1
  /\ Renew /\ UNCHANGED hub

HubKnown ==
  /\ ~hub /\ hub' = TRUE
  /\ Renew /\ UNCHANGED catalog

\* An answer of an older version is ignored.
SearchAnswer(r) ==
  /\ ~r.aborted
  /\ searches' = searches \ {r}
  /\ IF r.version = version
       THEN /\ items' = [term |-> r.term, catalog |-> r.catalog, asked |-> TRUE, answered |-> TRUE]
            /\ searching' = FALSE
       ELSE UNCHANGED <<items, searching>>
  /\ UNCHANGED <<kind, term, searchFailed, version, catalog, hub, typed, overdue>>

\* So is its failure; an aborted request ends in one.
SearchFail(r) ==
  /\ searches' = searches \ {r}
  /\ IF r.version = version
       THEN searchFailed' = TRUE /\ searching' = FALSE
       ELSE UNCHANGED <<searchFailed, searching>>
  /\ UNCHANGED <<kind, term, items, version, catalog, hub, typed, overdue>>

SearchNext ==
  \/ \E t \in Terms : OnSearchChange(t)
  \/ Clear
  \/ TimerFires
  \/ OverdueTimerFires
  \/ \E k \in Kinds : HandleKindChange(k)
  \/ CatalogChanges
  \/ HubKnown
  \/ \E r \in searches : SearchAnswer(r)
  \/ \E r \in searches : SearchFail(r)

SearchSpec == SearchInit /\ [][SearchNext]_searchVars

-----------------------------------------------------------------------------
\* When no timer runs and no search is shown to be under way, what is listed was found for the
\* text in the field, and misses Artifact Hub's answer only if an error says so; whatever was
\* typed, aborted, closed or changed before (searchVersionRef, debouncedHandleSearch).
FoundIsOfTheText ==
  kind = "Task" /\ term # None /\ typed = None /\ overdue = <<>> /\ ~searching =>
    items # None /\ items.term = term /\ (items.asked => items.answered \/ searchFailed)

\* The spinner turns just as long as an answer is awaited that will be shown, and no failure of an
\* earlier search is shown meanwhile: else it would turn for ever, or stop before the answer.
SpinnerAwaits ==
  /\ searching <=> \E r \in searches : r.version = version /\ ~r.aborted
  /\ searching => ~searchFailed
=============================================================================
