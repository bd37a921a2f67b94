---------------------------- MODULE OverviewCards ----------------------------
(***************************************************************************)
(* One card of the overview page.  It asks Tekton Results for one or       *)
(* several summaries of the namespace and the time range that the page     *)
(* shows, and asks again at every refresh interval.  All the requests of a *)
(* card share one loaded flag and one error.                               *)
(*                                                                         *)
(* The list of the runs has a toggle, per pipeline or per repository.      *)
(*                                                                         *)
(* Time passes in ticks of the shortest refresh interval in use.  Numbers  *)
(* are left out: data is what it was asked for.                            *)
(***************************************************************************)
EXTENDS Console, Naturals, FiniteSets

CONSTANTS
  Watched,           \* the cards that may be on the page, of those below
  Namespaces, Timespans,
  DefaultTimespan, DefaultInterval,
  Intervals,         \* refresh intervals in ticks, and Off
  Off,
  Timeout,           \* 90 seconds, in ticks
  Latencies,         \* how long Tekton Results takes for an answer, in ticks
  MaxChoices         \* bound: selections of the user

\* What each card asks for: every request has its controller, its state and its timer.
DurationCard == {"duration"}
NumbersChart == {"numbers"}
RunsList == {"list"}
StatusCard == {"donut", "line"}
TotalCard == {"pipelines", "repositories", "all"}

Cards == {DurationCard, NumbersChart, RunsList, StatusCard, TotalCard}

\* What the list is per: 1 is the pipeline, 2 the repository.  The other cards have no toggle.
PageFlags == {1, 2}

\* What is asked for.
Scopes == Namespaces \X Timespans \X PageFlags

\* For the modules that extend or instantiate this one to assume.
CardsAssumption ==
  /\ Watched \subseteq Cards
  /\ DefaultTimespan \in Timespans /\ DefaultInterval \in Intervals
  /\ Intervals \ {Off} \subseteq Nat
  /\ Timeout \in Nat /\ MaxChoices \in Nat
  /\ None \notin Scopes /\ None \notin Namespaces \X Timespans \X PageFlags \X Intervals

VARIABLES
  cardMounted,
  asked,     \* the card looked at
  namespace, timespan, interval,  \* the selections of the page
  pageFlag,     \* of the list
  ran,          \* the selections of the last effects
  prevNamespace,\* prevNamespaceRef of the persisted filters
  requests,     \* requests in flight
  timers,       \* ticks since the timer of a request last fired
  data,         \* what is shown for a request
  loaded, cardError,
  clicked,      \* history: the toggle that is selected was clicked, nothing asked or answered since
  latency,      \* of Tekton Results: fixed, and unknown to the page
  choices       \* selections left to the user

selected == <<namespace, timespan, interval, pageFlag, prevNamespace>>
card == <<requests, timers, data, loaded, cardError, clicked>>
cardVars == <<cardMounted, asked, selected, ran, card, latency, choices>>

Scope == <<namespace, timespan, pageFlag>>
Deps == <<namespace, timespan, pageFlag, interval>>

Request == [of : UNION Cards, scope : Scopes, age : 0 .. Timeout]

CardTypeOK ==
  /\ cardMounted \in BOOLEAN /\ asked \in Watched /\ Watched \subseteq Cards
  /\ namespace \in Namespaces /\ timespan \in Timespans /\ interval \in Intervals
  /\ ran \in (Namespaces \X Timespans \X PageFlags \X Intervals) \cup {None}
  /\ prevNamespace \in Namespaces /\ pageFlag \in PageFlags
  /\ requests \subseteq Request
  /\ \A q, s \in requests : q.of \in asked /\ (q.of = s.of => q = s)
  /\ timers \in [asked -> Nat]
  /\ interval # Off /\ ran = Deps => \A r \in asked : timers[r] <= interval
  /\ data \in [asked -> Scopes \cup {None}]
  /\ loaded \in BOOLEAN /\ cardError \in BOOLEAN /\ clicked \in BOOLEAN
  /\ latency \in Latencies
  /\ choices \in 0 .. MaxChoices

CardInit ==
  /\ cardMounted \in BOOLEAN /\ asked \in Watched
  /\ namespace \in Namespaces /\ prevNamespace = namespace
  /\ timespan = DefaultTimespan /\ interval = DefaultInterval /\ pageFlag = 1
  /\ ran = None
  /\ requests = {}
  /\ timers = [r \in asked |-> 0]
  /\ data = [r \in asked |-> None]
  /\ loaded = FALSE /\ cardError = FALSE /\ clicked = FALSE
  /\ latency \in Latencies
  /\ choices = MaxChoices

-----------------------------------------------------------------------------
(***************************************************************************)
(* The page.  A new namespace puts the time range and the interval back to *)
(* their defaults, but only in an effect that runs after those of the      *)
(* cards.                                                                  *)
(***************************************************************************)

EffectsDue == ran # Deps \/ prevNamespace # namespace

\* React runs the effects of a render before it handles the user's next event.
Select ==
  /\ cardMounted /\ ~EffectsDue /\ choices > 0
  /\ choices' = choices - 1
  /\ \/ namespace' \in Namespaces \ {namespace} /\ UNCHANGED <<timespan, interval>>
     \/ timespan' \in Timespans \ {timespan} /\ UNCHANGED <<namespace, interval>>
     \/ interval' \in Intervals \ {interval} /\ UNCHANGED <<namespace, timespan>>
  /\ UNCHANGED <<cardMounted, asked, pageFlag, prevNamespace, ran, card, latency>>

-----------------------------------------------------------------------------
(***************************************************************************)
(* The card.                                                               *)
(***************************************************************************)

NewRequest(r, scope) == [of |-> r, scope |-> scope, age |-> 0]

Others(R) == {q \in requests : q.of \notin R}

\* Mutant: the request before is not aborted.
StartOver(R, scope) ==
  /\ requests' = requests \cup {NewRequest(r, scope) : r \in R}
  /\ timers' = [r \in asked |-> IF r \in R THEN 0 ELSE timers[r]]
  /\ data' = [r \in asked |-> IF r \in R THEN None ELSE data[r]]
  /\ loaded' = FALSE /\ cardError' = FALSE /\ clicked' = FALSE

\* Abort what is in flight for R, clear what is shown of it, and ask anew.
Start(R, scope) ==
  /\ requests' = Others(R) \cup {NewRequest(r, scope) : r \in R}
  /\ timers' = [r \in asked |-> IF r \in R THEN 0 ELSE timers[r]]
  /\ data' = [r \in asked |-> IF r \in R THEN None ELSE data[r]]
  /\ loaded' = FALSE /\ cardError' = FALSE /\ clicked' = FALSE

\* The toggle of the list, which an error hides.  What is shown is cleared at once, but nothing is
\* asked for here: the effects do that, when what is selected has changed.
ChangePage(n) ==
  /\ cardMounted /\ ~EffectsDue /\ choices > 0
  /\ asked = RunsList /\ ~cardError
  /\ choices' = choices - 1
  /\ pageFlag' = n
  /\ data' = [r \in asked |-> None]
  /\ loaded' = FALSE
  /\ clicked' = (n = pageFlag)
  /\ UNCHANGED <<cardMounted, asked, namespace, timespan, interval, prevNamespace, ran, requests,
                 timers, cardError, latency>>

\* The effects of a render: those of the card, then those of the page.  The first ones set the
\* list that the URL names.
Effects ==
  /\ cardMounted /\ EffectsDue
  /\ ran' = Deps
  /\ IF ran # Deps THEN Start(asked, Scope) ELSE UNCHANGED card
  /\ prevNamespace' = namespace
  /\ IF prevNamespace # namespace
       THEN timespan' = DefaultTimespan /\ interval' = DefaultInterval
       ELSE UNCHANGED <<timespan, interval>>
  /\ IF ran = None /\ asked = RunsList THEN pageFlag' \in PageFlags ELSE UNCHANGED pageFlag
  /\ UNCHANGED <<cardMounted, asked, namespace, latency, choices>>

PollDue(r) == ~EffectsDue /\ interval # Off /\ timers[r] = interval

\* setInterval fires with the closure of the effect that set it.
Poll(r) ==
  /\ cardMounted /\ r \in asked /\ PollDue(r)
  /\ Start({r}, <<ran[1], ran[2], ran[3]>>)
  /\ UNCHANGED <<cardMounted, asked, selected, ran, latency, choices>>

\* Mutant: the answer does not end the loading.
SettleQuietly(q, d, e) ==
  /\ requests' = requests \ {q}
  /\ data' = [data EXCEPT ![q.of] = d]
  /\ cardError' = e /\ clicked' = FALSE
  /\ UNCHANGED loaded

CardSettle(q, d, e) ==
  /\ requests' = requests \ {q}
  /\ data' = [data EXCEPT ![q.of] = d]
  /\ loaded' = TRUE /\ cardError' = e /\ clicked' = FALSE

CardAnswer(q) ==
  /\ cardMounted /\ q.age = latency
  /\ CardSettle(q, q.scope, FALSE)
  /\ UNCHANGED <<cardMounted, asked, selected, ran, timers, latency, choices>>

\* A refusal, an unusable answer, or the timeout.
CardFail(q) ==
  /\ cardMounted
  /\ CardSettle(q, None, TRUE)
  /\ UNCHANGED <<cardMounted, asked, selected, ran, timers, latency, choices>>

\* An answer, a timeout and a timer that are due come before time goes on.
Tick ==
  /\ cardMounted /\ ~EffectsDue
  /\ \A q \in requests : q.age < latency /\ q.age < Timeout
  /\ \A r \in asked : ~PollDue(r)
  /\ requests # {} \/ interval # Off
  /\ requests' = {[q EXCEPT !.age = @ + 1] : q \in requests}
  /\ timers' = [r \in asked |-> IF interval = Off THEN 0 ELSE timers[r] + 1]
  /\ UNCHANGED <<cardMounted, asked, selected, ran, data, loaded, cardError, clicked, latency,
                 choices>>

\* Leaving the page aborts what is in flight and clears the timers.
CardUnmount ==
  /\ cardMounted
  /\ cardMounted' = FALSE
  /\ requests' = {}
  /\ timers' = [r \in asked |-> 0]
  /\ UNCHANGED <<asked, selected, ran, data, loaded, cardError, clicked, latency,
                 choices>>

CardNext ==
  \/ Select
  \/ \E n \in PageFlags : ChangePage(n)
  \/ Effects
  \/ \E r \in asked : Poll(r)
  \/ \E q \in requests : CardAnswer(q) \/ CardFail(q)
  \/ Tick
  \/ CardUnmount

\* Effects run, timers fire, time passes, and what can be answered is not left for ever.
CardFairness ==
  /\ WF_cardVars(Effects)
  /\ \A r \in UNION Cards : WF_cardVars(Poll(r))
  /\ WF_cardVars(Tick)
  /\ WF_cardVars(\E q \in requests : CardAnswer(q) \/ (q.age = Timeout /\ CardFail(q)))

CardSpec == CardInit /\ [][CardNext]_cardVars /\ CardFairness

-----------------------------------------------------------------------------
(***************************************************************************)
(* Properties.                                                             *)
(***************************************************************************)

\* Whatever selections overtake requests, what is shown once the effects have run was asked
\* for all that is selected (each request aborts the one before).
ShownIsSelected ==
  \A r \in asked : ~EffectsDue /\ data[r] # None => data[r] = Scope

\* When nothing is in flight a card has stopped loading and shows no error without reason; a
\* card with one request shows an error exactly when it has no data.  (With more, the answer
\* to one clears the error of another, which is then an empty chart without a word.)  But for
\* the list whose selected toggle was clicked: it is cleared and loads, with nothing asked for.
SettledIsShown ==
  cardMounted /\ ~EffectsDue /\ requests = {} =>
    LET missing == {r \in asked : data[r] = None}
    IN  /\ loaded <=> ~clicked
        /\ clicked => asked = RunsList
        /\ cardError => missing # {}
        /\ Cardinality(asked) = 1 /\ missing # {} => cardError \/ clicked

\* A request ends before the next poll aborts it.
Patient == interval = Off \/ latency < interval \/ Timeout < interval

\* A card does not load for ever, whatever is selected and however requests fail, when a
\* request ends before the next poll.  (If Tekton Results takes longer than the refresh
\* interval, every poll aborts its predecessor, which could take 90 seconds, and it does.)  The
\* list whose selected toggle was clicked waits for the next poll, without one for ever.
LoadingEnds ==
  []<>(loaded \/ ~cardMounted \/ ~Patient \/ (clicked /\ requests = {} /\ interval = Off))
=============================================================================
