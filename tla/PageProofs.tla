------------------------------ MODULE PageProofs ------------------------------
(***************************************************************************)
(* Four of the console's pages for every value of their constants: the     *)
(* overview with its cards, of either kind, the log of a pod, the quick    *)
(* search, and the approval tasks with their toasts.  Of each an inductive *)
(* invariant and what follows of it.                                       *)
(***************************************************************************)
EXTENDS Cards, LogStream, QuickSearch, Approvals, FiniteSetTheorems, WellFoundedInduction, TLAPS

-----------------------------------------------------------------------------
(***************************************************************************)
(* OverviewCards.                                                          *)
(***************************************************************************)

\* What the last effects asked for.
RanScope == <<ran[1], ran[2], ran[3]>>

\* What is in flight and what is shown belong to the last effects: whatever was asked for
\* before was aborted, or cleared.
OfLastEffects ==
  /\ \A q \in requests : ran # None /\ q.scope = RanScope
  /\ \A r \in asked : data[r] # None => ran # None /\ data[r] = RanScope

\* What is not in flight has settled.
CardSettled ==
  /\ cardError => \E r \in asked : data[r] = None
  /\ clicked => ~loaded /\ ~cardError /\ asked = RunsList
  /\ cardMounted /\ ran = Deps /\ requests = {} =>
       /\ loaded \/ clicked
       /\ \A r \in asked : asked = {r} /\ data[r] = None => cardError \/ clicked

CardInv == CardTypeOK /\ OfLastEffects /\ CardSettled

LEMMA AskedIsSome ==
  ASSUME CardsAssumption, CardTypeOK
  PROVE  asked # {} /\ asked \subseteq UNION Cards
  BY DEF CardsAssumption, CardTypeOK, Cards, DurationCard, NumbersChart, RunsList, StatusCard,
         TotalCard

LEMMA CardInitInv == ASSUME CardsAssumption, CardInit PROVE CardInv
<1>1. ran # Deps
  <2>1. Deps \in Namespaces \X Timespans \X PageFlags \X Intervals
    BY DEF CardInit, Deps, CardsAssumption, PageFlags
  <2> QED BY <2>1 DEF CardInit, CardsAssumption
<1>2. CardTypeOK
  <2>1. MaxChoices \in 0 .. MaxChoices BY DEF CardsAssumption
  <2> QED BY <1>1, <2>1 DEF CardInit, CardTypeOK, CardsAssumption, PageFlags
<1> QED BY <1>1, <1>2 DEF CardInit, CardInv, OfLastEffects, CardSettled

\* Before anything is asked the effects of the first render are due.
LEMMA EffectsFirst == ASSUME CardsAssumption, CardTypeOK, ran = Deps PROVE ran # None
<1>1. Deps \in Namespaces \X Timespans \X PageFlags \X Intervals BY DEF CardTypeOK, Deps
<1> QED BY <1>1 DEF CardsAssumption

\* What Start does to the card, whatever becomes of the rest of the page.
LEMMA StartKeeps ==
  ASSUME CardsAssumption, CardInv, NEW R \in SUBSET asked, NEW s \in Scopes, R # {},
         asked' = asked, Start(R, s)
  PROVE  /\ requests' \subseteq Request /\ requests' # {}
         /\ \A q, t \in requests' : q.of \in asked /\ (q.of = t.of => q = t)
         /\ \A q \in requests' : q \in requests \/ q.scope = s
         /\ R = asked => \A q \in requests' : q.scope = s
         /\ timers' \in [asked -> Nat]
         /\ \A r \in asked : timers'[r] \in {0, timers[r]}
         /\ R = asked => \A r \in asked : timers'[r] = 0
         /\ data' \in [asked -> Scopes \cup {None}]
         /\ \A r \in asked : data'[r] \in {None, data[r]}
         /\ R = asked => \A r \in asked : data'[r] = None
         /\ loaded' = FALSE /\ cardError' = FALSE /\ clicked' = FALSE
<1>1. \A r \in R : /\ NewRequest(r, s) \in Request
                   /\ NewRequest(r, s).of = r /\ NewRequest(r, s).scope = s
  <2>1. 0 \in 0 .. Timeout BY DEF CardsAssumption
  <2> QED BY <2>1, AskedIsSome DEF NewRequest, Request, CardInv
<1>2. requests' = Others(R) \cup {NewRequest(r, s) : r \in R} BY DEF Start
<1>3. Others(R) \subseteq requests /\ \A q \in Others(R) : q.of \notin R BY DEF Others
<1>4. requests \subseteq Request /\ \A q, t \in requests : q.of \in asked /\ (q.of = t.of => q = t)
  BY DEF CardInv, CardTypeOK
<1>5. requests' \subseteq Request /\ requests' # {} BY <1>1, <1>2, <1>3, <1>4
<1>6. \A q \in requests' : q \in Others(R) \/ \E r \in R : q = NewRequest(r, s) BY <1>2
<1>7. \A q, t \in requests' : q.of \in asked /\ (q.of = t.of => q = t)
  <2> SUFFICES ASSUME NEW q \in requests', NEW t \in requests'
               PROVE  q.of \in asked /\ (q.of = t.of => q = t)
    OBVIOUS
  <2>1. CASE q \in Others(R) /\ t \in Others(R) BY <2>1, <1>3, <1>4
  <2>2. CASE q \in Others(R) /\ t \notin Others(R) BY <2>2, <1>1, <1>3, <1>4, <1>6
  <2>3. CASE q \notin Others(R) /\ t \in Others(R) BY <2>3, <1>1, <1>3, <1>4, <1>6
  <2>4. CASE q \notin Others(R) /\ t \notin Others(R) BY <2>4, <1>1, <1>6
  <2> QED BY <2>1, <2>2, <2>3, <2>4
<1>8. \A q \in requests' : q \in requests \/ q.scope = s BY <1>1, <1>3, <1>6
<1>9. R = asked => \A q \in requests' : q.scope = s BY <1>1, <1>3, <1>4, <1>6
<1>a. timers' = [r \in asked |-> IF r \in R THEN 0 ELSE timers[r]]
      /\ data' = [r \in asked |-> IF r \in R THEN None ELSE data[r]]
      /\ loaded' = FALSE /\ cardError' = FALSE /\ clicked' = FALSE
  BY DEF Start
<1>b. timers \in [asked -> Nat] /\ data \in [asked -> Scopes \cup {None}] BY DEF CardInv, CardTypeOK
<1> QED BY <1>5, <1>7, <1>8, <1>9, <1>a, <1>b

LEMMA SelectStep == ASSUME CardsAssumption, CardInv, Select PROVE CardInv'
<1>1. UNCHANGED <<cardMounted, asked, pageFlag, prevNamespace, ran, requests, timers, data, loaded,
                  cardError, clicked, latency>>
      /\ ran = Deps
  BY DEF Select, card, EffectsDue
<1>2. /\ namespace' \in Namespaces /\ timespan' \in Timespans /\ interval' \in Intervals
      /\ Deps' # Deps
  BY DEF Select, Deps, CardInv, CardTypeOK
<1>3. choices' \in 0 .. MaxChoices BY DEF Select, CardInv, CardTypeOK, CardsAssumption
<1>4. CardTypeOK' BY <1>1, <1>2, <1>3 DEF CardInv, CardTypeOK
<1>5. OfLastEffects' /\ CardSettled'
  BY <1>1, <1>2 DEF CardInv, OfLastEffects, RanScope, CardSettled
<1> QED BY <1>4, <1>5 DEF CardInv

\* Nothing is asked for by the toggle: either it is another one, and effects are due, or the one
\* that is selected.
LEMMA ChangePageStep ==
  ASSUME CardsAssumption, CardInv, NEW n \in PageFlags, ChangePage(n)
  PROVE  CardInv'
<1>1. /\ UNCHANGED <<cardMounted, asked, namespace, timespan, interval, prevNamespace, ran, requests,
                     timers, cardError, latency>>
      /\ ran = Deps /\ pageFlag' = n /\ asked = RunsList /\ ~cardError
      /\ data' = [r \in asked |-> None] /\ loaded' = FALSE /\ clicked' = (n = pageFlag)
  BY DEF ChangePage, EffectsDue
<1>2. choices' \in 0 .. MaxChoices BY DEF ChangePage, CardInv, CardTypeOK, CardsAssumption
<1>3. n = pageFlag \/ Deps' # ran' BY <1>1 DEF Deps
<1>4. CardTypeOK' BY <1>1, <1>2 DEF CardInv, CardTypeOK
<1>5. OfLastEffects' BY <1>1 DEF CardInv, OfLastEffects, RanScope
<1>6. CardSettled' BY <1>1, <1>3 DEF CardSettled
<1> QED BY <1>4, <1>5, <1>6 DEF CardInv

LEMMA EffectsStep == ASSUME CardsAssumption, CardInv, Effects PROVE CardInv'
<1>1. /\ UNCHANGED <<cardMounted, asked, namespace, latency, choices>> /\ cardMounted
      /\ ran' = Deps /\ prevNamespace' = namespace
      /\ timespan' \in Timespans /\ interval' \in Intervals /\ pageFlag' \in PageFlags
  BY DEF Effects, CardInv, CardTypeOK, CardsAssumption
<1>2. /\ Deps \in Namespaces \X Timespans \X PageFlags \X Intervals /\ ran' # None
      /\ RanScope' = Scope /\ Scope \in Scopes
  BY <1>1 DEF CardInv, CardTypeOK, Deps, RanScope, Scope, Scopes, CardsAssumption
<1>3. CASE ran # Deps
  <2>1. Start(asked, Scope) BY <1>3 DEF Effects
  <2>2. /\ requests' \subseteq Request /\ requests' # {}
        /\ \A q, t \in requests' : q.of \in asked /\ (q.of = t.of => q = t)
        /\ \A q \in requests' : q.scope = Scope
        /\ timers' \in [asked -> Nat] /\ \A r \in asked : timers'[r] = 0
        /\ data' \in [asked -> Scopes \cup {None}] /\ \A r \in asked : data'[r] = None
        /\ loaded' = FALSE /\ cardError' = FALSE /\ clicked' = FALSE
    BY <2>1, <1>1, <1>2, StartKeeps, AskedIsSome DEF CardInv
  <2>3. interval' # Off => \A r \in asked : timers'[r] <= interval'
    BY <2>2, <1>1 DEF CardsAssumption
  <2>4. CardTypeOK' BY <2>2, <2>3, <1>1, <1>2 DEF CardInv, CardTypeOK
  <2>5. OfLastEffects' /\ CardSettled' BY <2>2, <1>1, <1>2 DEF OfLastEffects, CardSettled
  <2> QED BY <2>4, <2>5 DEF CardInv
<1>4. CASE ran = Deps
  <2>1. UNCHANGED <<requests, timers, data, loaded, cardError, clicked, ran>>
    BY <1>1, <1>4 DEF Effects, card
  <2>2. Deps' = ran' => interval' = interval BY <1>1 DEF Deps
  <2>3. CardTypeOK' BY <2>1, <2>2, <1>1, <1>2, <1>4 DEF CardInv, CardTypeOK
  <2>4. OfLastEffects' /\ CardSettled'
    BY <2>1, <1>1 DEF CardInv, OfLastEffects, RanScope, CardSettled
  <2> QED BY <2>3, <2>4 DEF CardInv
<1> QED BY <1>3, <1>4

LEMMA PollStep == ASSUME CardsAssumption, CardInv, NEW r \in asked, Poll(r) PROVE CardInv'
<1>1. /\ UNCHANGED <<cardMounted, asked, namespace, timespan, interval, pageFlag, prevNamespace, ran,
                     latency, choices>>
      /\ ran = Deps /\ Start({r}, RanScope)
  BY DEF Poll, selected, PollDue, EffectsDue, RanScope
<1>2. ran # None /\ RanScope \in Scopes
  BY <1>1, EffectsFirst DEF CardInv, CardTypeOK, RanScope, Deps, Scopes
<1>3. /\ requests' \subseteq Request /\ requests' # {}
      /\ \A q, t \in requests' : q.of \in asked /\ (q.of = t.of => q = t)
      /\ \A q \in requests' : q \in requests \/ q.scope = RanScope
      /\ timers' \in [asked -> Nat] /\ \A s \in asked : timers'[s] \in {0, timers[s]}
      /\ data' \in [asked -> Scopes \cup {None}] /\ \A s \in asked : data'[s] \in {None, data[s]}
      /\ loaded' = FALSE /\ cardError' = FALSE /\ clicked' = FALSE
  BY <1>1, <1>2, StartKeeps
<1>4. interval # Off => \A s \in asked : timers'[s] <= interval
  <2> SUFFICES ASSUME interval # Off, NEW s \in asked PROVE timers'[s] <= interval OBVIOUS
  <2>1. interval \in Nat /\ timers[s] <= interval
    BY <1>1 DEF CardInv, CardTypeOK, CardsAssumption
  <2> QED BY <2>1, <1>3
<1>5. CardTypeOK' BY <1>1, <1>3, <1>4 DEF CardInv, CardTypeOK
<1>6. OfLastEffects' BY <1>1, <1>2, <1>3 DEF CardInv, OfLastEffects, RanScope
<1>7. CardSettled' BY <1>3 DEF CardSettled
<1> QED BY <1>5, <1>6, <1>7 DEF CardInv

\* The end of a request: an answer, or an error and nothing to show.
LEMMA SettleKeeps ==
  ASSUME CardsAssumption, CardInv, NEW q \in requests, NEW d, NEW e,
         \/ d = q.scope /\ e = FALSE
         \/ d = None /\ e = TRUE,
         CardSettle(q, d, e), UNCHANGED <<cardMounted, asked, selected, ran, timers, latency,
                                          choices>>
  PROVE  CardInv'
<1>1. UNCHANGED <<cardMounted, asked, namespace, timespan, interval, pageFlag, prevNamespace, ran, timers,
                  latency, choices>>
  BY DEF selected
<1>2. /\ requests' = requests \ {q} /\ data' = [data EXCEPT ![q.of] = d]
      /\ loaded' = TRUE /\ cardError' = e /\ clicked' = FALSE
  BY DEF CardSettle
<1>3. /\ q \in Request /\ q.of \in asked /\ q.scope \in Scopes /\ q.scope # None
      /\ ran # None /\ q.scope = RanScope
      /\ data \in [asked -> Scopes \cup {None}]
  BY DEF CardInv, CardTypeOK, Request, OfLastEffects, CardsAssumption, Scopes
<1>4. /\ data' \in [asked -> Scopes \cup {None}] /\ data'[q.of] = d
      /\ \A r \in asked : r # q.of => data'[r] = data[r]
  BY <1>2, <1>3
<1>5. CardTypeOK' BY <1>1, <1>2, <1>4 DEF CardInv, CardTypeOK, Deps
<1>6. OfLastEffects' BY <1>1, <1>2, <1>3, <1>4 DEF CardInv, OfLastEffects, RanScope
<1>7. CardSettled'
  <2>1. cardError' => \E r \in asked : data'[r] = None BY <1>2, <1>3, <1>4
  <2>2. \A r \in asked : asked = {r} /\ data'[r] = None => cardError' BY <1>2, <1>3, <1>4
  <2> QED BY <2>1, <2>2, <1>1, <1>2 DEF CardSettled
<1> QED BY <1>5, <1>6, <1>7 DEF CardInv

LEMMA TickStep == ASSUME CardsAssumption, CardInv, Tick PROVE CardInv'
<1>1. /\ UNCHANGED <<cardMounted, asked, namespace, timespan, interval, pageFlag, prevNamespace, ran, data,
                     loaded, cardError, clicked, latency, choices>>
      /\ ran = Deps
      /\ requests' = {[q EXCEPT !.age = @ + 1] : q \in requests}
      /\ \A q \in requests : q.age < Timeout
      /\ timers' = [r \in asked |-> IF interval = Off THEN 0 ELSE timers[r] + 1]
      /\ \A r \in asked : interval # Off => timers[r] # interval
  BY DEF Tick, selected, EffectsDue, PollDue
<1>2. ASSUME NEW q \in requests
      PROVE  LET o == [q EXCEPT !.age = @ + 1]
             IN  o \in Request /\ o.of = q.of /\ o.scope = q.scope
  <2>1. q \in Request /\ q.age + 1 \in 0 .. Timeout
    BY <1>1 DEF CardInv, CardTypeOK, Request, CardsAssumption
  <2> QED BY <2>1 DEF Request
<1>3. \A o \in requests' : \E q \in requests : o = [q EXCEPT !.age = @ + 1] BY <1>1
<1>4. /\ requests' \subseteq Request
      /\ \A o \in requests' : o.of \in asked
      /\ \A o, t \in requests' : o.of = t.of => o = t
  <2>1. ASSUME NEW o \in requests' PROVE o \in Request /\ o.of \in asked
    <3>1. PICK q \in requests : o = [q EXCEPT !.age = @ + 1] BY <1>3
    <3> QED BY <3>1, <1>2 DEF CardInv, CardTypeOK
  <2>2. ASSUME NEW o \in requests', NEW t \in requests', o.of = t.of PROVE o = t
    <3>1. PICK q \in requests : o = [q EXCEPT !.age = @ + 1] BY <1>3
    <3>2. PICK s \in requests : t = [s EXCEPT !.age = @ + 1] BY <1>3
    <3>3. q.of = s.of BY <2>2, <3>1, <3>2, <1>2
    <3>4. q = s BY <3>3 DEF CardInv, CardTypeOK
    <3> QED BY <3>1, <3>2, <3>4
  <2> QED BY <2>1, <2>2
<1>5. timers' \in [asked -> Nat] BY <1>1 DEF CardInv, CardTypeOK
<1>6. interval # Off => \A r \in asked : timers'[r] <= interval
  <2> SUFFICES ASSUME interval # Off, NEW r \in asked PROVE timers'[r] <= interval OBVIOUS
  <2>1. interval \in Nat /\ timers[r] \in Nat /\ timers[r] <= interval
    BY <1>1 DEF CardInv, CardTypeOK, CardsAssumption
  <2> QED BY <2>1, <1>1
<1>7. CardTypeOK' BY <1>1, <1>4, <1>5, <1>6 DEF CardInv, CardTypeOK
<1>8. OfLastEffects' BY <1>1, <1>2, <1>3 DEF CardInv, OfLastEffects, RanScope
<1>9. CardSettled'
  <2>1. requests' = {} => requests = {} BY <1>1
  <2> QED BY <2>1, <1>1 DEF CardInv, CardSettled
<1> QED BY <1>7, <1>8, <1>9 DEF CardInv

LEMMA UnmountStep == ASSUME CardsAssumption, CardInv, CardUnmount PROVE CardInv'
<1>1. /\ UNCHANGED <<asked, namespace, timespan, interval, pageFlag, prevNamespace, ran, data, loaded,
                     cardError, clicked, latency, choices>>
      /\ cardMounted' = FALSE /\ requests' = {} /\ timers' = [r \in asked |-> 0]
  BY DEF CardUnmount, selected
<1>2. \A r \in asked : interval # Off => timers'[r] <= interval
  BY <1>1 DEF CardInv, CardTypeOK, CardsAssumption
<1>3. CardTypeOK' BY <1>1, <1>2 DEF CardInv, CardTypeOK
<1> QED BY <1>1, <1>3 DEF CardInv, OfLastEffects, RanScope, CardSettled

LEMMA CardNextInv == ASSUME CardsAssumption, CardInv, [CardNext]_cardVars PROVE CardInv'
<1>1. ASSUME NEW q \in requests, CardAnswer(q) \/ CardFail(q) PROVE CardInv'
  <2>1. CASE CardAnswer(q) BY <2>1, SettleKeeps DEF CardAnswer
  <2>2. CASE CardFail(q) BY <2>2, SettleKeeps DEF CardFail
  <2> QED BY <1>1, <2>1, <2>2
<1>2. CASE UNCHANGED cardVars
  <2>1. UNCHANGED <<cardMounted, asked, namespace, timespan, interval, pageFlag, prevNamespace, ran,
                    requests, timers, data, loaded, cardError, clicked, latency, choices>>
    BY <1>2 DEF cardVars, selected, card
  <2> QED BY <2>1 DEF CardInv, CardTypeOK, Deps, OfLastEffects, RanScope, CardSettled
<1> QED BY <1>1, <1>2, SelectStep, ChangePageStep, EffectsStep, PollStep, TickStep, UnmountStep DEF CardNext

\* The state of the Tekton Results cards keeps its types through any steps of theirs.
THEOREM CardsTypeCorrect == ASSUME CardsAssumption PROVE CardSpec => []CardTypeOK
<1>1. CardInit => CardInv BY CardInitInv
<1>2. CardInv /\ [CardNext]_cardVars => CardInv' BY CardNextInv
<1>3. CardInv => CardTypeOK BY DEF CardInv
<1> QED BY <1>1, <1>2, <1>3, PTL DEF CardSpec

\* What a card shows was asked for what is selected, for any cards, selections and latencies.
THEOREM CardsShowTheSelected == ASSUME CardsAssumption PROVE CardSpec => []ShownIsSelected
<1>1. CardInit => CardInv BY CardInitInv
<1>2. CardInv /\ [CardNext]_cardVars => CardInv' BY CardNextInv
<1>3. CardInv => ShownIsSelected
  BY DEF CardInv, OfLastEffects, ShownIsSelected, EffectsDue, Deps, RanScope, Scope
<1> QED BY <1>1, <1>2, <1>3, PTL DEF CardSpec

\* A card of which nothing is in flight has stopped loading, and shows an error only if something
\* is missing; a card with one request whenever it is.  The list alone is left loading, by a click
\* on the toggle that is selected.
THEOREM CardsSettle == ASSUME CardsAssumption PROVE CardSpec => []SettledIsShown
<1>1. CardInit => CardInv BY CardInitInv
<1>2. CardInv /\ [CardNext]_cardVars => CardInv' BY CardNextInv
<1>3. CardInv => SettledIsShown
  <2> DEFINE missing == {r \in asked : data[r] = None}
  <2> SUFFICES ASSUME CardInv, cardMounted, ~EffectsDue, requests = {}
               PROVE  /\ loaded <=> ~clicked
                      /\ clicked => asked = RunsList
                      /\ cardError => missing # {}
                      /\ Cardinality(asked) = 1 /\ missing # {} => cardError \/ clicked
    BY DEF SettledIsShown
  <2>1. ran = Deps BY DEF EffectsDue
  <2>2. /\ loaded <=> ~clicked
        /\ clicked => asked = RunsList
        /\ \A r \in asked : asked = {r} /\ data[r] = None => cardError \/ clicked
    BY <2>1 DEF CardInv, CardTypeOK, CardSettled
  <2>3. cardError => missing # {} BY DEF CardInv, CardSettled
  <2>4. ASSUME Cardinality(asked) = 1, missing # {} PROVE cardError \/ clicked
    <3>1. asked \in Cards BY DEF CardInv, CardTypeOK, CardsAssumption
    <3>3. \A x, y, z : IsFiniteSet({x, y, z})
      <4> SUFFICES ASSUME NEW x, NEW y, NEW z PROVE IsFiniteSet({x, y, z}) OBVIOUS
      <4>1. IsFiniteSet({x}) BY FS_Singleton
      <4>2. IsFiniteSet({x} \cup {y}) BY <4>1, FS_AddElement
      <4>3. IsFiniteSet(({x} \cup {y}) \cup {z}) BY <4>2, FS_AddElement
      <4>4. {x, y, z} = ({x} \cup {y}) \cup {z} OBVIOUS
      <4> QED BY <4>3, <4>4
    <3>4. IsFiniteSet(asked)
      <4>1. \/ asked = {"duration", "duration", "duration"}
            \/ asked = {"numbers", "numbers", "numbers"}
            \/ asked = {"list", "list", "list"}
            \/ asked = {"donut", "donut", "line"}
            \/ asked = {"pipelines", "repositories", "all"}
        BY <3>1 DEF Cards, DurationCard, NumbersChart, RunsList, StatusCard, TotalCard
      <4>2. /\ IsFiniteSet({"duration", "duration", "duration"})
            /\ IsFiniteSet({"numbers", "numbers", "numbers"})
            /\ IsFiniteSet({"list", "list", "list"})
            /\ IsFiniteSet({"donut", "donut", "line"})
            /\ IsFiniteSet({"pipelines", "repositories", "all"})
        BY <3>3, Zenon
      <4> QED BY <4>1, <4>2, Zenon
    <3>5. PICK r : asked = {r} BY <3>4, <2>4, FS_Singleton
    <3>6. data[r] = None BY <3>5, <2>4
    <3> QED BY <3>5, <3>6, <2>2
  <2> QED BY <2>2, <2>3, <2>4
<1> QED BY <1>1, <1>2, <1>3, PTL DEF CardSpec

-----------------------------------------------------------------------------
(***************************************************************************)
(* MetricsCards.                                                           *)
(***************************************************************************)

\* What is in flight and what is shown was asked for what is selected, once the effects have run.
PolledIsSelected ==
  /\ ranK8s = None => \A q \in askedK8s : inFlight[q] = None /\ response[q] = None
  /\ ranK8s = selectedK8s =>
       \A q \in askedK8s : inFlight[q] \in {None, scope} /\ response[q] \in {None, scope}

\* Of a query: what its hook says of it.
HookOk(q) ==
  /\ loading[q] <=> inFlight[q] # None
  /\ errorK8s[q] = "AbortError" => loading[q]
  /\ inFlight[q] = None => errorK8s[q] = "other" \/ response[q] # None

MetricsInv ==
  /\ TypeOKK8s /\ PolledIsSelected
  /\ mountedK8s /\ ranK8s # None => \A q \in askedK8s : HookOk(q)
  /\ \A q \in askedK8s : errorK8s[q] = "other" => response[q] = None

LEMMA MetricsInitOK == ASSUME MetricsAssumption, InitK8s PROVE MetricsInv
<1>1. /\ mountedK8s \in BOOLEAN /\ askedK8s \in WatchedK8s /\ scope \in ScopesK8s /\ delay = TRUE
      /\ ranK8s = None /\ alert = FALSE
      /\ inFlight = [q \in askedK8s |-> None] /\ response = inFlight /\ errorK8s = inFlight
      /\ loading = [q \in askedK8s |-> TRUE]
  BY DEF InitK8s
<1>2. TypeOKK8s BY <1>1 DEF TypeOKK8s
<1>3. ranK8s # selectedK8s
  <2>1. selectedK8s \in ScopesK8s \X BOOLEAN BY <1>1 DEF selectedK8s
  <2> QED BY <2>1, <1>1 DEF MetricsAssumption
<1>4. PolledIsSelected BY <1>1, <1>3 DEF PolledIsSelected
<1>5. \A q \in askedK8s : errorK8s[q] # "other"
  <2>1. \A q \in askedK8s : errorK8s[q] = None BY <1>1
  <2> QED BY <2>1 DEF MetricsAssumption
<1> QED BY <1>1, <1>2, <1>4, <1>5 DEF MetricsInv

LEMMA PageIsNot == ASSUME MetricsAssumption, TypeOKK8s PROVE selectedK8s # None
<1>1. selectedK8s \in ScopesK8s \X BOOLEAN BY DEF selectedK8s, TypeOKK8s
<1> QED BY <1>1 DEF MetricsAssumption

LEMMA MetricsSelect == ASSUME MetricsAssumption, MetricsInv, SelectK8s PROVE MetricsInv'
<1>1. /\ UNCHANGED <<mountedK8s, askedK8s, ranK8s, inFlight, response, errorK8s, loading, alert>>
      /\ ranK8s = selectedK8s /\ selectedK8s' # selectedK8s
      /\ scope' \in ScopesK8s /\ delay' \in BOOLEAN
  BY DEF SelectK8s, EffectsDueK8s, selectedK8s, hooks
<1>2. TypeOKK8s' BY <1>1 DEF MetricsInv, TypeOKK8s
<1>3. ranK8s' # selectedK8s' BY <1>1
<1>4. PolledIsSelected' BY <1>1, <1>3 DEF MetricsInv, PolledIsSelected
<1> QED BY <1>1, <1>2, <1>4 DEF MetricsInv, HookOk

\* A request of some queries: each is in flight for what is selected and shows nothing.
LEMMA AskKeeps ==
  ASSUME MetricsAssumption, MetricsInv, NEW Q \in SUBSET askedK8s, Ask(Q),
         UNCHANGED <<mountedK8s, askedK8s, scope, delay>>, ranK8s' = selectedK8s, mountedK8s,
         Q = askedK8s \/ ranK8s = selectedK8s, alert' \in BOOLEAN
  PROVE  MetricsInv'
<1>1. /\ inFlight' = [q \in askedK8s |-> IF q \in Q THEN scope ELSE inFlight[q]]
      /\ response' = [q \in askedK8s |-> IF q \in Q THEN None ELSE response[q]]
      /\ loading' = [q \in askedK8s |-> q \in Q \/ loading[q]]
      /\ errorK8s' = [q \in askedK8s |->
           IF q \notin Q THEN errorK8s[q] ELSE IF inFlight[q] = None THEN None ELSE "AbortError"]
  BY DEF Ask
<1>2. \A q \in Q : /\ inFlight'[q] = scope /\ response'[q] = None /\ loading'[q] = TRUE
                   /\ errorK8s'[q] \in {None, "AbortError"}
  BY <1>1
<1>3. \A q \in askedK8s \ Q : /\ inFlight'[q] = inFlight[q] /\ response'[q] = response[q]
                              /\ loading'[q] <=> loading[q]
                              /\ errorK8s'[q] = errorK8s[q]
  BY <1>1
<1>4. scope \in ScopesK8s /\ delay \in BOOLEAN /\ scope # None
  BY DEF MetricsInv, TypeOKK8s, MetricsAssumption
<1>5. selectedK8s' = selectedK8s /\ selectedK8s \in ScopesK8s \X BOOLEAN /\ selectedK8s # None
  BY <1>4, PageIsNot DEF selectedK8s, MetricsInv
<1>6. TypeOKK8s'
  <2>1. loading' \in [askedK8s -> BOOLEAN] BY <1>1 DEF MetricsInv, TypeOKK8s
  <2>2. inFlight' \in [askedK8s -> ScopesK8s \cup {None}]
        /\ response' \in [askedK8s -> ScopesK8s \cup {None}]
    BY <1>1, <1>4 DEF MetricsInv, TypeOKK8s
  <2>3. errorK8s' \in [askedK8s -> {None, "AbortError", "other"}]
    BY <1>1 DEF MetricsInv, TypeOKK8s
  <2> QED BY <2>1, <2>2, <2>3, <1>5 DEF MetricsInv, TypeOKK8s
<1>7. PolledIsSelected' BY <1>2, <1>3, <1>5 DEF MetricsInv, PolledIsSelected
<1>8. \A q \in askedK8s : HookOk(q)'
  <2>1. ASSUME NEW q \in Q PROVE HookOk(q)'
    <3>1. None # "other" BY DEF MetricsAssumption
    <3> QED BY <1>2, <1>4, <3>1 DEF HookOk
  <2>2. ASSUME NEW q \in askedK8s \ Q PROVE HookOk(q)'
    <3>1. ranK8s = selectedK8s /\ ranK8s # None BY <2>2, <1>5
    <3>2. HookOk(q) BY <3>1 DEF MetricsInv
    <3> QED BY <3>2, <1>3 DEF HookOk
  <2> QED BY <2>1, <2>2
<1>9. \A q \in askedK8s : errorK8s'[q] = "other" => response'[q] = None
  <2>1. \A q \in askedK8s : errorK8s[q] = "other" => response[q] = None BY DEF MetricsInv
  <2> QED BY <2>1, <1>2, <1>3
<1> QED BY <1>6, <1>7, <1>8, <1>9 DEF MetricsInv

LEMMA MetricsEffects == ASSUME MetricsAssumption, MetricsInv, EffectsK8s PROVE MetricsInv'
<1>1. /\ UNCHANGED <<mountedK8s, askedK8s, scope, delay>> /\ mountedK8s
      /\ ranK8s' = selectedK8s /\ alert' \in BOOLEAN
  BY DEF EffectsK8s, Failed, selectedK8s
<1>2. CASE ranK8s # selectedK8s BY <1>1, <1>2, AskKeeps DEF EffectsK8s
<1>3. CASE ranK8s = selectedK8s
  <2>1. UNCHANGED <<inFlight, response, errorK8s, loading, ranK8s>>
    BY <1>1, <1>3 DEF EffectsK8s, hooks
  <2> QED BY <2>1, <1>1 DEF MetricsInv, TypeOKK8s, PolledIsSelected, selectedK8s, HookOk
<1> QED BY <1>2, <1>3

LEMMA MetricsPoll ==
  ASSUME MetricsAssumption, MetricsInv, NEW q \in askedK8s, PollK8s(q)
  PROVE  MetricsInv'
<1>1. /\ UNCHANGED <<mountedK8s, askedK8s, scope, delay, alert>> /\ mountedK8s
      /\ ranK8s' = selectedK8s /\ ranK8s = selectedK8s /\ alert' \in BOOLEAN /\ Ask({q})
  BY DEF PollK8s, selectedK8s, MetricsInv, TypeOKK8s
<1> QED BY <1>1, AskKeeps

LEMMA MetricsSettle ==
  ASSUME MetricsAssumption, MetricsInv, NEW q \in askedK8s, NEW r, NEW e, SettleK8s(q, r, e),
         \/ r = inFlight[q] /\ e = None
         \/ r = None /\ e = "other"
  PROVE  MetricsInv'
<1>1. /\ inFlight' = [inFlight EXCEPT ![q] = None] /\ response' = [response EXCEPT ![q] = r]
      /\ errorK8s' = [errorK8s EXCEPT ![q] = e] /\ loading' = [loading EXCEPT ![q] = FALSE]
      /\ UNCHANGED <<mountedK8s, askedK8s, scope, delay, ranK8s, alert>>
      /\ inFlight[q] # None
  BY DEF SettleK8s, selectedK8s
<1>2. /\ inFlight'[q] = None /\ response'[q] = r /\ errorK8s'[q] = e /\ loading'[q] = FALSE
      /\ \A s \in askedK8s : s # q => /\ inFlight'[s] = inFlight[s] /\ response'[s] = response[s]
                                      /\ errorK8s'[s] = errorK8s[s] /\ loading'[s] = loading[s]
  BY <1>1 DEF MetricsInv, TypeOKK8s
<1>3. r \in ScopesK8s \cup {None} /\ e \in {None, "other"} BY DEF MetricsInv, TypeOKK8s
<1>4. TypeOKK8s' BY <1>1, <1>3 DEF MetricsInv, TypeOKK8s
<1>5. selectedK8s' = selectedK8s BY <1>1 DEF selectedK8s
<1>6. ranK8s # None BY <1>1 DEF MetricsInv, PolledIsSelected
<1>7. PolledIsSelected'
  <2> SUFFICES ASSUME ranK8s = selectedK8s, NEW s \in askedK8s
               PROVE  inFlight'[s] \in {None, scope} /\ response'[s] \in {None, scope}
    BY <1>1, <1>5, <1>6 DEF PolledIsSelected
  <2> QED BY <1>2 DEF MetricsInv, PolledIsSelected
<1>8. e # "AbortError" /\ (e = "other" <=> r = None) BY <1>1 DEF MetricsAssumption
<1>9. \A s \in askedK8s : errorK8s'[s] = "other" => response'[s] = None
  BY <1>2, <1>8 DEF MetricsInv
<1>a. mountedK8s /\ ranK8s # None => \A s \in askedK8s : HookOk(s)'
  BY <1>2, <1>8 DEF MetricsInv, HookOk
<1> QED BY <1>1, <1>4, <1>7, <1>9, <1>a DEF MetricsInv

LEMMA MetricsUnmount == ASSUME MetricsAssumption, MetricsInv, UnmountK8s PROVE MetricsInv'
<1>1. /\ mountedK8s' = FALSE /\ inFlight' = [q \in askedK8s |-> None]
      /\ UNCHANGED <<askedK8s, scope, delay, ranK8s, response, errorK8s, loading, alert>>
  BY DEF UnmountK8s, selectedK8s
<1>2. TypeOKK8s' BY <1>1 DEF MetricsInv, TypeOKK8s
<1>3. PolledIsSelected' BY <1>1 DEF MetricsInv, PolledIsSelected, selectedK8s
<1> QED BY <1>1, <1>2, <1>3 DEF MetricsInv

LEMMA MetricsNextKeeps == ASSUME MetricsAssumption, MetricsInv, [NextK8s]_varsK8s PROVE MetricsInv'
<1>1. ASSUME NEW q \in askedK8s, AnswerK8s(q) \/ FailK8s(q) PROVE MetricsInv'
  BY <1>1, MetricsSettle DEF AnswerK8s, FailK8s
<1>2. CASE UNCHANGED varsK8s
  BY <1>2 DEF varsK8s, selectedK8s, hooks, MetricsInv, TypeOKK8s, PolledIsSelected, HookOk
<1> QED BY <1>1, <1>2, MetricsSelect, MetricsEffects, MetricsPoll, MetricsUnmount DEF NextK8s

\* The state of the Prometheus cards keeps its types through any steps of theirs.
THEOREM MetricsTypeCorrect == ASSUME MetricsAssumption PROVE SpecK8s => []TypeOKK8s
<1>1. InitK8s => MetricsInv BY MetricsInitOK
<1>2. MetricsInv /\ [NextK8s]_varsK8s => MetricsInv' BY MetricsNextKeeps
<1>3. MetricsInv => TypeOKK8s BY DEF MetricsInv
<1> QED BY <1>1, <1>2, <1>3, PTL DEF SpecK8s

\* Of a card that polls, nothing is shown that was asked for another selection.
THEOREM MetricsShowTheSelected == ASSUME MetricsAssumption PROVE SpecK8s => []ShownIsSelectedK8s
<1>1. InitK8s => MetricsInv BY MetricsInitOK
<1>2. MetricsInv /\ [NextK8s]_varsK8s => MetricsInv' BY MetricsNextKeeps
<1>3. MetricsInv => ShownIsSelectedK8s
  BY DEF MetricsInv, PolledIsSelected, ShownIsSelectedK8s
<1> QED BY <1>1, <1>2, <1>3, PTL DEF SpecK8s

\* Each query loads as long as its request is in flight, no abort remains shown, and a settled
\* card shows an alert exactly when an answer is missing.
THEOREM MetricsSettleRight == ASSUME MetricsAssumption PROVE SpecK8s => []SettledIsShownK8s
<1>1. InitK8s => MetricsInv BY MetricsInitOK
<1>2. MetricsInv /\ [NextK8s]_varsK8s => MetricsInv' BY MetricsNextKeeps
<1>3. MetricsInv => SettledIsShownK8s
  <2> SUFFICES ASSUME MetricsInv, mountedK8s, ~EffectsDueK8s
               PROVE  SettledIsShownK8s
    BY DEF SettledIsShownK8s
  <2>1. ranK8s = selectedK8s /\ ranK8s # None /\ (alert <=> Failed)
    BY PageIsNot DEF EffectsDueK8s, selectedK8s, MetricsInv, TypeOKK8s, Failed
  <2>2. \A q \in askedK8s : HookOk(q) BY <2>1 DEF MetricsInv
  <2>3. \A q \in askedK8s : response[q] \in {None, scope} BY <2>1 DEF MetricsInv, PolledIsSelected
  <2>4. alert => \E q \in askedK8s : response[q] = None BY <2>1 DEF Failed, MetricsInv
  <2>5. (\A q \in askedK8s : inFlight[q] = None) /\ ~alert => \A q \in askedK8s : response[q] = scope
    BY <2>1, <2>2, <2>3 DEF Failed, HookOk
  <2> QED BY <2>2, <2>4, <2>5 DEF SettledIsShownK8s, HookOk
<1> QED BY <1>1, <1>2, <1>3, PTL DEF SpecK8s

-----------------------------------------------------------------------------
(***************************************************************************)
(* The cards of either kind.                                               *)
(***************************************************************************)

\* What any card shows was asked for what is selected, whatever was in flight.
THEOREM CardsShow ==
  ASSUME CardsAssumption, MetricsAssumption PROVE CardsSpec => []AllShowSelected
<1>1. ShownIsSelected /\ ShownIsSelectedK8s => AllShowSelected BY DEF AllShowSelected
<1> QED BY <1>1, CardsShowTheSelected, MetricsShowTheSelected, PTL DEF CardsSpec

\* Any card at rest has stopped loading and shows an error exactly with reason.
THEOREM CardsSettleRight ==
  ASSUME CardsAssumption, MetricsAssumption PROVE CardsSpec => []AllSettleRight
<1>1. SettledIsShown /\ SettledIsShownK8s => AllSettleRight BY DEF AllSettleRight
<1> QED BY <1>1, CardsSettle, MetricsSettleRight, PTL DEF CardsSpec

-----------------------------------------------------------------------------
(***************************************************************************)
(* LogStream.                                                              *)
(***************************************************************************)

\* What the page knows to have ended has ended.
PodKnown ==
  \A c \in Containers : podSeen[c] = "terminated" => phase[c] = "terminated"

\* What the present socket has brought is the end of what is shown.
Brought(c) ==
  /\ pos[c] <= Len(logText[c])
  /\ \A i \in 1 .. pos[c] : logText[c][Len(logText[c]) - pos[c] + i] = i

\* Nothing else is shown, unless an earlier socket broke after it had brought lines.
StreamOk(c) ==
  /\ pos[c] <= written[c]
  /\ stream[c] \in {"none", "http"} => pos[c] = 0 /\ Len(logText[c]) = 0
  /\ resourceStatus[c] = "terminated" => phase[c] = "terminated"
  /\ stream[c] = "http" => managed \/ resourceStatus[c] = "terminated"
  /\ stream[c] = "closed" => phase[c] = "terminated"
  /\ stream[c] = "fetched" => \A i \in 1 .. Len(logText[c]) : logText[c][i] = i
  /\ stream[c] = "fetched" /\ c \notin early =>
       phase[c] = "terminated" /\ Len(logText[c]) = written[c]
  /\ c \in early => managed /\ resourceStatus[c] # "terminated" /\ stream[c] = "fetched"
  /\ stream[c] # "fetched" => Brought(c) /\ (c \notin torn => Len(logText[c]) = pos[c])
  /\ stream[c] = "closed" => pos[c] = written[c]
  /\ stream[c] = "retrying" => attempt[c] < Retries /\ (c \in torn \/ pos[c] = 0)

LogInv == LogTypeOK /\ PodKnown /\ \A c \in Containers : StreamOk(c)

-----------------------------------------------------------------------------
LEMMA LogInitInv == ASSUME LogAssumption, LogInit PROVE LogInv
<1>1. LogTypeOK
  <2>1. Retries \in Nat /\ 0 \in 0 .. Retries /\ 0 \in 0 .. MaxLines /\ 0 \in 0 .. MaxLogFaults
    BY DEF LogAssumption, Retries
  <2>2. logText \in [Containers -> Seq(1 .. MaxLines)]
    <3>1. <<>> \in Seq(1 .. MaxLines) OBVIOUS
    <3> QED BY <3>1 DEF LogInit
  <2> QED BY <2>1, <2>2 DEF LogInit, LogTypeOK, Phase
<1>2. PodKnown BY DEF LogInit, PodKnown
<1>3. \A c \in Containers : StreamOk(c)
  <2> SUFFICES ASSUME NEW c \in Containers PROVE StreamOk(c) OBVIOUS
  <2>1. stream[c] = "none" /\ pos[c] = 0 /\ written[c] = 0 /\ logText[c] = <<>>
       /\ resourceStatus[c] = "waiting" /\ c \notin early
    BY DEF LogInit
  <2>2. Len(logText[c]) = 0 BY <2>1
  <2> QED BY <2>1, <2>2 DEF StreamOk, Brought
<1> QED BY <1>1, <1>2, <1>3 DEF LogInv

-----------------------------------------------------------------------------
(***************************************************************************)
(* The pod.  A container that has terminated writes nothing more.          *)
(***************************************************************************)

LEMMA PodStep ==
  ASSUME LogInv, UNCHANGED <<managed, sockets, logText>>,
         phase' \in [Containers -> Phase],
         written' \in [Containers -> 0 .. MaxLines],
         \A c \in Containers :
           /\ written[c] <= written'[c]
           /\ phase[c] = "terminated" => phase'[c] = "terminated" /\ written'[c] = written[c]
  PROVE  \A c \in Containers : StreamOk(c)'
<1> SUFFICES ASSUME NEW c \in Containers PROVE StreamOk(c)' OBVIOUS
<1>1. StreamOk(c) BY DEF LogInv
<1>2. UNCHANGED <<managed, stream, attempt, pos, resourceStatus, torn, early, logText>> BY DEF sockets
<1>3. pos[c] \in Nat /\ written[c] \in Nat /\ written'[c] \in Nat BY DEF LogInv, LogTypeOK
<1>4. pos[c] <= written'[c] BY <1>1, <1>3 DEF StreamOk
<1> QED BY <1>1, <1>2, <1>4 DEF StreamOk, Brought, Retries

LEMMA PodActions ==
  ASSUME LogAssumption, LogInv, NEW c \in Containers,
         StartContainer(c) \/ WriteLine(c) \/ Terminate(c)
  PROVE  LogInv'
<1>1. UNCHANGED <<logMounted, managed, podSeen, pipelineStatus, tickDue, sockets, logText, logError,
                  logFaults>>
  BY DEF StartContainer, WriteLine, Terminate
<1>2. /\ \/ phase' = phase
         \/ /\ phase[c] # "terminated"
            /\ phase' \in {[phase EXCEPT ![c] = p] : p \in {"running", "terminated"}}
      /\ \/ written' = written
         \/ /\ phase[c] = "running" /\ written[c] < MaxLines /\ phase' = phase
            /\ written' = [written EXCEPT ![c] = @ + 1]
  BY DEF StartContainer, WriteLine, Terminate, SetPhase
<1>3. /\ phase' \in [Containers -> Phase]
      /\ \A b \in Containers : phase[b] = "terminated" => phase'[b] = "terminated"
  BY <1>2 DEF LogInv, LogTypeOK, Phase
<1>a. /\ written' \in [Containers -> 0 .. MaxLines]
      /\ \A b \in Containers :
           /\ written[b] <= written'[b]
           /\ phase[b] = "terminated" => written'[b] = written[b]
  <2>1. written \in [Containers -> 0 .. MaxLines] /\ MaxLines \in Nat
    BY DEF LogInv, LogTypeOK, LogAssumption
  <2>2. CASE written' = written BY <2>1, <2>2
  <2>3. CASE written[c] < MaxLines /\ written' = [written EXCEPT ![c] = @ + 1] /\ phase[c] = "running"
    BY <2>1, <2>3
  <2> QED BY <1>2, <2>2, <2>3
<1>4. \A b \in Containers : StreamOk(b)' BY <1>1, <1>3, <1>a, PodStep
<1>5. PodKnown' BY <1>1, <1>3 DEF LogInv, PodKnown
<1>6. LogTypeOK' BY <1>1, <1>3, <1>a DEF LogInv, LogTypeOK, sockets, Retries
<1> QED BY <1>4, <1>5, <1>6 DEF LogInv

LEMMA PageActions ==
  ASSUME LogAssumption, LogInv, PodUpdate \/ RunStatus \/ LogUnmount
  PROVE  LogInv'
<1>1. UNCHANGED <<managed, phase, written, sockets, logText, logError, logFaults>>
      /\ logMounted' \in BOOLEAN /\ tickDue' \in BOOLEAN
      /\ pipelineStatus' \in {"pending", "running", "over"}
  BY DEF PodUpdate, RunStatus, LogUnmount, LogInv, LogTypeOK, pod
<1>2. podSeen' \in {podSeen, phase}
  BY DEF PodUpdate, RunStatus, LogUnmount, pod
<1>3. \A c \in Containers : StreamOk(c)'
  BY <1>1 DEF LogInv, StreamOk, Brought, Retries, sockets
<1>4. PodKnown' BY <1>1, <1>2 DEF LogInv, PodKnown
<1>5. LogTypeOK' BY <1>1, <1>2 DEF LogInv, LogTypeOK, sockets, Retries
<1> QED BY <1>3, <1>4, <1>5 DEF LogInv

-----------------------------------------------------------------------------
(***************************************************************************)
(* The streams.  A step of one leaves the others alone.                    *)
(***************************************************************************)

LEMMA OtherStreams ==
  ASSUME LogInv, UNCHANGED <<managed, phase, written>>, NEW c \in Containers,
         NEW d \in Containers, d # c,
         stream'[d] = stream[d], attempt'[d] = attempt[d], pos'[d] = pos[d],
         logText'[d] = logText[d], resourceStatus'[d] = resourceStatus[d],
         d \in torn' <=> d \in torn, d \in early' <=> d \in early
  PROVE  StreamOk(d)'
  BY DEF LogInv, StreamOk, Brought, Retries

LEMMA StartStreamStep ==
  ASSUME LogInv, NEW c \in Containers, StartStream(c)
  PROVE  LogInv'
<1>1. UNCHANGED <<logMounted, managed, phase, written, podSeen, pipelineStatus, tickDue, attempt, pos,
                  logText, logError, torn, early, logFaults>>
  BY DEF StartStream, pod
<1>2. /\ stream[c] = "none"
      /\ stream' = [stream EXCEPT ![c] = IF ShouldUseHttp(c) THEN "http" ELSE "connecting"]
      /\ resourceStatus' = [resourceStatus EXCEPT ![c] = podSeen[c]]
  BY DEF StartStream, To
<1>3. resourceStatus'[c] = podSeen[c] /\ (podSeen[c] = "terminated" => phase[c] = "terminated")
  BY <1>2 DEF LogInv, LogTypeOK, PodKnown
<1>4. LogTypeOK' BY <1>1, <1>2 DEF LogInv, LogTypeOK, Retries
<1>5. PodKnown' BY <1>1 DEF LogInv, PodKnown
<1>6. StreamOk(c)'
  BY <1>1, <1>2, <1>3 DEF LogInv, LogTypeOK, StreamOk, ShouldUseHttp, Brought, Retries
<1>7. \A d \in Containers : d # c => StreamOk(d)'
  <2>1. \A d \in Containers : d # c =>
          stream'[d] = stream[d] /\ resourceStatus'[d] = resourceStatus[d]
    BY <1>2 DEF LogInv, LogTypeOK
  <2> QED BY <2>1, <1>1, OtherStreams
<1> QED BY <1>4, <1>5, <1>6, <1>7 DEF LogInv

LEMMA FetchTextStep ==
  ASSUME LogAssumption, LogInv, NEW c \in Containers, FetchText(c)
  PROVE  LogInv'
<1>1. UNCHANGED <<logMounted, managed, phase, written, podSeen, pipelineStatus, tickDue, attempt, pos,
                  resourceStatus, torn>>
  BY DEF FetchText, pod
<1>2. /\ stream[c] = "http"
      /\ \/ /\ phase[c] # "waiting"
            /\ stream' = [stream EXCEPT ![c] = "fetched"]
            /\ logText' = [logText EXCEPT ![c] = IF Log(c) = <<>> THEN @ ELSE Shown(c, Log(c))]
            /\ early' = IF phase[c] = "terminated" THEN early ELSE early \cup {c}
            /\ UNCHANGED <<logError, logFaults>>
         \/ /\ logFaults' = logFaults \/ (logFaults < MaxLogFaults /\ logFaults' = logFaults + 1)
            /\ stream' = [stream EXCEPT ![c] = "unreadable"]
            /\ logError' = TRUE /\ UNCHANGED <<logText, early>>
  BY DEF FetchText, To, LogFault
<1>3. /\ stream' \in [Containers -> {"none", "http", "connecting", "open", "retrying"} \cup Ended]
      /\ stream'[c] \in {"fetched", "unreadable"}
      /\ \A d \in Containers : d # c => stream'[d] = stream[d]
      /\ early' \subseteq Containers /\ \A d \in Containers : d # c => (d \in early' <=> d \in early)
  BY <1>2 DEF LogInv, LogTypeOK, Ended
<1>4. written[c] \in 0 .. MaxLines /\ logText[c] \in Seq(1 .. MaxLines) /\ MaxLines \in Nat
  BY DEF LogInv, LogTypeOK, LogAssumption
<1>5. Log(c) \in Seq(1 .. MaxLines) /\ Len(Log(c)) = written[c]
      /\ \A i \in 1 .. written[c] : Log(c)[i] = i
  BY <1>4 DEF Log
<1>a. pos[c] = 0 /\ Len(logText[c]) = 0 /\ c \notin early /\ StreamOk(c)
  BY <1>2 DEF LogInv, StreamOk
<1>d. Shown(c, Log(c)) = Log(c)
  <2>1. logText[c] = <<>> BY <1>4, <1>a
  <2> QED BY <2>1, <1>5 DEF Shown
<1>6. /\ logText' \in [Containers -> Seq(1 .. MaxLines)]
      /\ \A d \in Containers : d # c => logText'[d] = logText[d]
  <2>1. logText \in [Containers -> Seq(1 .. MaxLines)] BY DEF LogInv, LogTypeOK
  <2>2. logText' = logText \/ \E s \in Seq(1 .. MaxLines) : logText' = [logText EXCEPT ![c] = s]
    BY <1>2, <1>4, <1>5, <1>d
  <2> QED BY <2>1, <2>2
<1>7. logFaults' \in 0 .. MaxLogFaults BY <1>2 DEF LogInv, LogTypeOK, LogAssumption
<1>8. LogTypeOK' BY <1>1, <1>2, <1>3, <1>6, <1>7 DEF LogInv, LogTypeOK, Retries
<1>9. PodKnown' BY <1>1 DEF LogInv, PodKnown
<1>b. StreamOk(c)'
  <2>1. CASE /\ stream'[c] = "fetched"
             /\ logText' = [logText EXCEPT ![c] = IF Log(c) = <<>> THEN @ ELSE Shown(c, Log(c))]
             /\ early' = IF phase[c] = "terminated" THEN early ELSE early \cup {c}
    <3>1. logText'[c] = IF Log(c) = <<>> THEN logText[c] ELSE Log(c)
      BY <2>1, <1>d DEF LogInv, LogTypeOK
    <3>2. Len(logText'[c]) = written[c] /\ \A i \in 1 .. written[c] : logText'[c][i] = i
      <4>1. CASE Log(c) = <<>>
        <5>1. written[c] = 0 BY <4>1, <1>5
        <5> QED BY <3>1, <4>1, <5>1, <1>a
      <4>2. CASE Log(c) # <<>> BY <3>1, <4>2, <1>5
      <4> QED BY <4>1, <4>2
    <3>3. c \notin early' => phase[c] = "terminated" BY <2>1
    <3>4. c \in early' => phase[c] # "terminated" BY <2>1, <1>a
    <3>5. resourceStatus[c] = "terminated" => phase[c] = "terminated" BY <1>a DEF StreamOk
    <3>6. managed \/ resourceStatus[c] = "terminated" BY <1>2, <1>a DEF StreamOk
    <3> QED BY <2>1, <3>2, <3>3, <3>4, <3>5, <3>6, <1>1, <1>a, <1>4 DEF StreamOk
  <2>2. CASE stream'[c] = "unreadable" /\ logText' = logText /\ early' = early
    BY <2>2, <1>1, <1>2, <1>a DEF StreamOk, Brought, Retries
  <2> QED BY <2>1, <2>2, <1>2, <1>3 DEF LogInv, LogTypeOK
<1>c. \A d \in Containers : d # c => StreamOk(d)' BY <1>1, <1>3, <1>6, OtherStreams
<1> QED BY <1>8, <1>9, <1>b, <1>c DEF LogInv

LEMMA OpenStep ==
  ASSUME LogInv, NEW c \in Containers, Open(c)
  PROVE  LogInv'
<1>1. UNCHANGED <<logMounted, managed, phase, written, podSeen, pipelineStatus, tickDue, attempt, pos,
                  resourceStatus, logText, logError, torn, early, logFaults>>
  BY DEF Open, pod
<1>2. stream[c] = "connecting" /\ stream' = [stream EXCEPT ![c] = "open"] BY DEF Open, To
<1>4. LogTypeOK' BY <1>1, <1>2 DEF LogInv, LogTypeOK, Retries
<1>5. PodKnown' BY <1>1 DEF LogInv, PodKnown
<1>6. StreamOk(c)' BY <1>1, <1>2 DEF LogInv, LogTypeOK, StreamOk, Brought, Retries
<1>7. \A d \in Containers : d # c => StreamOk(d)'
  <2>1. \A d \in Containers : d # c => stream'[d] = stream[d] BY <1>2 DEF LogInv, LogTypeOK
  <2> QED BY <2>1, <1>1, OtherStreams
<1> QED BY <1>4, <1>5, <1>6, <1>7 DEF LogInv

\* The next line goes to the end of what is shown.
LEMMA MessageStep ==
  ASSUME LogAssumption, LogInv, NEW c \in Containers, Message(c)
  PROVE  LogInv'
<1>1. UNCHANGED <<logMounted, managed, phase, written, podSeen, pipelineStatus, tickDue, stream, attempt,
                  resourceStatus, torn, early, logFaults>>
  BY DEF Message, pod
<1>2. /\ stream[c] = "open" /\ pos[c] < written[c] /\ logError' = FALSE
      /\ pos' = [pos EXCEPT ![c] = @ + 1]
      /\ logText' = [logText EXCEPT ![c] = Append(@, pos[c] + 1)]
  BY DEF Message
<1>3. /\ written[c] \in 0 .. MaxLines /\ pos[c] \in Nat /\ MaxLines \in Nat
      /\ logText[c] \in Seq(1 .. MaxLines)
  BY DEF LogInv, LogTypeOK, LogAssumption
<1>4. /\ pos'[c] = pos[c] + 1 /\ logText'[c] = Append(logText[c], pos[c] + 1)
      /\ \A d \in Containers : d # c => pos'[d] = pos[d] /\ logText'[d] = logText[d]
  BY <1>2 DEF LogInv, LogTypeOK
<1>5. pos[c] + 1 \in 1 .. MaxLines BY <1>2, <1>3
<1>6. /\ pos' \in [Containers -> 0 .. MaxLines]
      /\ logText' \in [Containers -> Seq(1 .. MaxLines)]
  BY <1>2, <1>3, <1>5 DEF LogInv, LogTypeOK
<1>7. LogTypeOK' BY <1>1, <1>2, <1>6 DEF LogInv, LogTypeOK, Retries
<1>8. PodKnown' BY <1>1 DEF LogInv, PodKnown
<1>9. StreamOk(c)'
  <2>1. /\ Len(logText'[c]) = Len(logText[c]) + 1 /\ Len(logText[c]) \in Nat
        /\ logText'[c][Len(logText[c]) + 1] = pos[c] + 1
        /\ \A i \in 1 .. Len(logText[c]) : logText'[c][i] = logText[c][i]
    BY <1>3, <1>4, <1>5
  <2>2. Brought(c) /\ (c \notin torn => Len(logText[c]) = pos[c]) BY <1>2 DEF LogInv, StreamOk
  <2>3. Brought(c)'
    <3>1. pos'[c] <= Len(logText'[c]) BY <2>1, <2>2, <1>3, <1>4 DEF Brought
    <3>2. ASSUME NEW i \in 1 .. pos[c] + 1
          PROVE  logText'[c][Len(logText[c]) - pos[c] + i] = i
      <4>1. CASE i = pos[c] + 1
        <5>1. Len(logText[c]) - pos[c] + i = Len(logText[c]) + 1 BY <4>1, <1>3, <2>1
        <5> QED BY <5>1, <4>1, <2>1
      <4>2. CASE i \in 1 .. pos[c]
        <5>1. Len(logText[c]) - pos[c] + i \in 1 .. Len(logText[c])
          <6>1. pos[c] <= Len(logText[c]) BY <2>2 DEF Brought
          <6> QED BY <6>1, <4>2, <2>1, <1>3
        <5> QED BY <5>1, <4>2, <2>1, <2>2 DEF Brought
      <4> QED BY <4>1, <4>2, <1>3
    <3>3. Len(logText'[c]) - pos'[c] = Len(logText[c]) - pos[c]
      <4>1. \A x, y \in Nat : (x + 1) - (y + 1) = x - y OBVIOUS
      <4>2. Len(logText'[c]) = Len(logText[c]) + 1 /\ Len(logText[c]) \in Nat BY <2>1
      <4>3. pos'[c] = pos[c] + 1 /\ pos[c] \in Nat BY <1>3, <1>4
      <4> QED BY ONLY <4>1, <4>2, <4>3
    <3> QED BY <3>1, <3>2, <3>3, <1>4 DEF Brought
  <2>4. pos'[c] <= written[c] BY <1>2, <1>3, <1>4
  <2>5. c \notin torn' => Len(logText'[c]) = pos'[c] BY <2>1, <2>2, <1>1, <1>4
  <2>6. stream'[c] = "open" /\ written'[c] = written[c] BY <1>1, <1>2
  <2>7. c \notin early' /\ (resourceStatus'[c] = "terminated" => phase'[c] = "terminated")
    BY <1>1, <1>2 DEF LogInv, StreamOk
  <2> QED BY <2>3, <2>4, <2>5, <2>6, <2>7 DEF StreamOk
<1>a. \A d \in Containers : d # c => StreamOk(d)' BY <1>1, <1>4, OtherStreams
<1> QED BY <1>7, <1>8, <1>9, <1>a DEF LogInv

\* Why a socket may come to be closed, and what it then is to be opened again.
SocketTo(c, next) ==
  /\ stream[c] \in {"connecting", "open"}
  /\ stream' = [stream EXCEPT ![c] = next]
  /\ next = "closed" => phase[c] = "terminated" /\ pos[c] = written[c]
  /\ next = "retrying" => attempt[c] < Retries /\ (pos[c] > 0 => c \in torn')
  /\ logError' \in {logError, TRUE}

\* The end of a socket, whatever ends it: of the stream only its state changes.
LEMMA SocketEnds ==
  ASSUME LogAssumption, LogInv, NEW c \in Containers,
         UNCHANGED <<logMounted, managed, phase, written, podSeen, pipelineStatus, tickDue, attempt, pos,
                     resourceStatus, logText, early>>,
         torn' \in {torn, torn \cup {c}},
         logFaults' = logFaults \/ (logFaults < MaxLogFaults /\ logFaults' = logFaults + 1),
         NEW next \in {"closed", "cut", "retrying", "gaveUp", "stopped"},
         SocketTo(c, next)
  PROVE  LogInv'
<1>1. /\ stream' = [stream EXCEPT ![c] = next]
      /\ next = "closed" => phase[c] = "terminated" /\ pos[c] = written[c]
      /\ next = "retrying" => attempt[c] < Retries /\ (pos[c] > 0 => c \in torn')
      /\ logError' \in {logError, TRUE} /\ stream[c] \in {"connecting", "open"}
  BY DEF SocketTo
<1>2. /\ stream' \in [Containers -> {"none", "http", "connecting", "open", "retrying"} \cup Ended]
      /\ stream'[c] = next
      /\ \A d \in Containers : d # c => stream'[d] = stream[d]
  BY <1>1 DEF LogInv, LogTypeOK, Ended
<1>3. logFaults' \in 0 .. MaxLogFaults BY DEF LogInv, LogTypeOK, LogAssumption
<1>4. LogTypeOK' BY <1>1, <1>2, <1>3 DEF LogInv, LogTypeOK, Retries
<1>5. PodKnown' BY DEF LogInv, PodKnown
<1>6. StreamOk(c)'
  <2>1. StreamOk(c) /\ pos[c] \in Nat BY DEF LogInv, LogTypeOK
  <2>2. Brought(c)' BY <2>1, <1>1 DEF StreamOk, Brought
  <2>3. c \notin torn' => Len(logText[c]) = pos[c] BY <2>1, <1>1 DEF StreamOk
  <2>4. next = "retrying" => attempt'[c] < Retries' /\ (c \in torn' \/ pos'[c] = 0)
    BY <2>1, <1>1 DEF Retries
  <2> QED BY <2>1, <2>2, <2>3, <2>4, <1>1, <1>2 DEF StreamOk
<1>7. \A d \in Containers : d # c => StreamOk(d)' BY <1>2, OtherStreams
<1> QED BY <1>4, <1>5, <1>6, <1>7 DEF LogInv

LEMMA SocketErrorStep ==
  ASSUME LogAssumption, LogInv, NEW c \in Containers, SocketError(c)
  PROVE  LogInv'
<1>1. /\ UNCHANGED <<logMounted, managed, phase, written, podSeen, pipelineStatus, tickDue, attempt, pos,
                     resourceStatus, logText, early>>
      /\ logFaults' = logFaults \/ (logFaults < MaxLogFaults /\ logFaults' = logFaults + 1)
  BY DEF SocketError, pod, LogFault
<1>2. torn' \in {torn, torn \cup {c}} /\ (pos[c] > 0 => c \in torn') BY DEF SocketError
<1>3. PICK next \in {"closed", "cut", "retrying", "gaveUp", "stopped"} : SocketTo(c, next)
  BY <1>2 DEF SocketError, HandleError, To, SocketTo
<1> QED BY <1>1, <1>2, <1>3, SocketEnds

LEMMA SocketCloseStep ==
  ASSUME LogAssumption, LogInv, NEW c \in Containers, SocketClose(c)
  PROVE  LogInv'
<1>1. /\ UNCHANGED <<logMounted, managed, phase, written, podSeen, pipelineStatus, tickDue, attempt, pos,
                     resourceStatus, logText, early>>
      /\ logFaults' = logFaults \/ (logFaults < MaxLogFaults /\ logFaults' = logFaults + 1)
  BY DEF SocketClose, pod, LogFault
<1>2. torn' \in {torn, torn \cup {c}} BY DEF SocketClose
<1>3. PICK next \in {"closed", "cut", "retrying", "gaveUp", "stopped"} : SocketTo(c, next)
  <2>1. CASE managed /\ pos[c] = 0
    <3>1. ~(pos[c] > 0) BY <2>1
    <3>2. stream[c] = "open" /\ HandleError(c) BY <2>1 DEF SocketClose
    <3> QED BY <3>1, <3>2 DEF HandleError, To, SocketTo
  <2>2. CASE ~(managed /\ pos[c] = 0)
    BY <2>2 DEF SocketClose, To, SocketTo
  <2> QED BY <2>1, <2>2
<1> QED BY <1>1, <1>2, <1>3, SocketEnds

LEMMA RetryStep ==
  ASSUME LogAssumption, LogInv, NEW c \in Containers, Retry(c)
  PROVE  LogInv'
<1>1. UNCHANGED <<logMounted, managed, phase, written, podSeen, pipelineStatus, tickDue, resourceStatus,
                  logText, logError, torn, early, logFaults>>
      /\ stream[c] = "retrying"
  BY DEF Retry, pod
<1>2. StreamOk(c) /\ attempt[c] \in 0 .. Retries /\ Retries \in Nat /\ pos[c] \in Nat
      /\ 0 \in 0 .. MaxLines /\ written[c] \in Nat
  BY DEF LogInv, LogTypeOK, LogAssumption, Retries
<1>3. CASE stream' = [stream EXCEPT ![c] = "stopped"] /\ UNCHANGED <<attempt, pos>>
  <2>1. stream'[c] = "stopped" /\ \A d \in Containers : d # c => stream'[d] = stream[d]
    BY <1>3 DEF LogInv, LogTypeOK
  <2>2. LogTypeOK' BY <1>1, <1>3 DEF LogInv, LogTypeOK, Ended, Retries
  <2>3. StreamOk(c)' BY <1>1, <1>2, <1>3, <2>1 DEF StreamOk, Brought
  <2>4. \A d \in Containers : d # c => StreamOk(d)' BY <1>1, <1>3, <2>1, OtherStreams
  <2>5. PodKnown' BY <1>1 DEF LogInv, PodKnown
  <2> QED BY <2>2, <2>3, <2>4, <2>5 DEF LogInv
<1>4. CASE /\ stream' = [stream EXCEPT ![c] = "connecting"]
           /\ attempt' = [attempt EXCEPT ![c] = @ + 1]
           /\ pos' = [pos EXCEPT ![c] = 0]
  <2>1. /\ stream'[c] = "connecting" /\ pos'[c] = 0
        /\ \A d \in Containers : d # c =>
             stream'[d] = stream[d] /\ attempt'[d] = attempt[d] /\ pos'[d] = pos[d]
    BY <1>4 DEF LogInv, LogTypeOK
  <2>2. attempt[c] + 1 \in 0 .. Retries BY <1>1, <1>2 DEF StreamOk
  <2>3. attempt' \in [Containers -> 0 .. Retries] BY <1>4, <2>2 DEF LogInv, LogTypeOK
  <2>4. LogTypeOK' BY <1>1, <1>2, <1>4, <2>3 DEF LogInv, LogTypeOK, Retries
  <2>5. c \notin torn => Len(logText[c]) = 0 BY <1>1, <1>2 DEF StreamOk
  <2>6. logText[c] \in Seq(1 .. MaxLines) BY DEF LogInv, LogTypeOK
  <2>7. StreamOk(c)' BY <1>1, <1>2, <2>1, <2>5, <2>6 DEF StreamOk, Brought
  <2>8. \A d \in Containers : d # c => StreamOk(d)' BY <1>1, <2>1, OtherStreams
  <2>9. PodKnown' BY <1>1 DEF LogInv, PodKnown
  <2> QED BY <2>4, <2>7, <2>8, <2>9 DEF LogInv
<1> QED BY <1>3, <1>4 DEF Retry, To

LEMMA LogNextInv == ASSUME LogAssumption, LogInv, [LogNext]_logVars PROVE LogInv'
<1>1. ASSUME NEW c \in Containers, SocketStep(c) PROVE LogInv'
  BY <1>1, StartStreamStep, FetchTextStep, OpenStep, MessageStep, SocketCloseStep, RetryStep,
     SocketErrorStep DEF SocketStep
<1>2. CASE UNCHANGED logVars
  BY <1>2 DEF logVars, pod, sockets, LogInv, LogTypeOK, PodKnown, StreamOk, Brought, Retries
<1> QED BY <1>1, <1>2, PodActions, PageActions DEF LogNext

\* Every action keeps the types: a socket is never opened more often than the code allows.
THEOREM LogTypeCorrect == ASSUME LogAssumption PROVE LogSpec => []LogTypeOK
<1>1. LogInit => LogInv BY LogInitInv
<1>2. LogInv /\ [LogNext]_logVars => LogInv' BY LogNextInv
<1>3. LogInv => LogTypeOK BY DEF LogInv
<1> QED BY <1>1, <1>2, <1>3, PTL DEF LogSpec

\* No line is shown twice or out of order but for a connection that broke in the middle, with
\* any number of containers and retries and whenever the page learns of the pod's phases.
THEOREM LinesComeOnce == ASSUME LogAssumption PROVE LogSpec => []NoLineTwice
<1>1. LogInit => LogInv BY LogInitInv
<1>2. LogInv /\ [LogNext]_logVars => LogInv' BY LogNextInv
<1>3. LogInv => NoLineTwice
  <2> SUFFICES ASSUME LogInv, NEW c \in Containers \ torn, NEW i \in DOMAIN logText[c]
               PROVE  logText[c][i] = i
    BY DEF NoLineTwice
  <2>1. /\ StreamOk(c) /\ pos[c] \in Nat /\ written[c] \in Nat
        /\ logText[c] \in Seq(1 .. MaxLines)
    BY DEF LogInv, LogTypeOK
  <2>2. i \in 1 .. Len(logText[c]) BY <2>1
  <2>3. CASE stream[c] = "fetched" BY <2>1, <2>2, <2>3 DEF StreamOk
  <2>4. CASE stream[c] # "fetched"
    <3>1. Len(logText[c]) = pos[c] /\ Brought(c) BY <2>1, <2>4 DEF StreamOk
    <3>2. Len(logText[c]) - pos[c] + i = i BY <2>1, <2>2, <3>1
    <3> QED BY <2>2, <3>1, <3>2 DEF Brought
  <2> QED BY <2>3, <2>4
<1> QED BY <1>1, <1>2, <1>3, PTL DEF LogSpec

\* A stream that has ended as it should has left no line out, but for a container that a hub
\* was asked for before it had terminated.
THEOREM LogsAreWhole == ASSUME LogAssumption PROVE LogSpec => []WholeLogShown
<1>1. LogInit => LogInv BY LogInitInv
<1>2. LogInv /\ [LogNext]_logVars => LogInv' BY LogNextInv
<1>3. LogInv => WholeLogShown
  <2> SUFFICES ASSUME LogInv PROVE WholeLogShown OBVIOUS
  <2>a. \A c \in early : managed /\ resourceStatus[c] # "terminated" /\ stream[c] = "fetched"
    BY DEF LogInv, LogTypeOK, StreamOk
  <2> SUFFICES ASSUME NEW c \in Containers \ early, stream[c] \in {"fetched", "closed"}
               PROVE  /\ written[c] <= Len(logText[c])
                      /\ \A i \in 1 .. written[c] : logText[c][Len(logText[c]) - written[c] + i] = i
    BY <2>a DEF WholeLogShown
  <2>1. /\ StreamOk(c) /\ written[c] \in Nat /\ logText[c] \in Seq(1 .. MaxLines)
    BY DEF LogInv, LogTypeOK
  <2>2. CASE stream[c] = "fetched"
    <3>1. Len(logText[c]) = written[c] /\ \A i \in 1 .. written[c] : logText[c][i] = i
      BY <2>1, <2>2 DEF StreamOk
    <3>2. \A i \in 1 .. written[c] : Len(logText[c]) - written[c] + i = i BY <2>1, <3>1
    <3> QED BY <2>1, <3>1, <3>2
  <2>3. CASE stream[c] = "closed"
    <3>1. Brought(c) /\ pos[c] = written[c] BY <2>1, <2>3 DEF StreamOk
    <3> QED BY <3>1 DEF Brought
  <2> QED BY <2>2, <2>3
<1> QED BY <1>1, <1>2, <1>3, PTL DEF LogSpec

-----------------------------------------------------------------------------
(***************************************************************************)
(* QuickSearch.                                                            *)
(***************************************************************************)

SearchItem == [term : Terms, catalog : 0 .. MaxRenewals, asked : BOOLEAN, answered : BOOLEAN]
SearchRequest == [version : 0 .. MaxSearches, term : Terms, catalog : 0 .. MaxRenewals,
            aborted : BOOLEAN]
SearchTimer == [term : Terms, by : Closure]

\* A request is aborted exactly when another search has begun since; so there is at most one
\* that is not.
OneCurrent ==
  /\ \A r \in searches : r.version <= version /\ (r.aborted <=> r.version # version)
  /\ \A r, q \in searches : r.version = q.version => r = q

\* What the current request finds is for the text whose items are listed already.
RequestOfItems ==
  \A r \in searches : r.version = version => items # None /\ items.term = r.term

\* The text in the field is what the last timer holds, once it has run out what is listed.
LastTyped ==
  /\ typed # None => typed = term
  /\ term # None /\ typed = None /\ overdue # <<>> =>
       overdue[Len(overdue)].term = term /\ overdue[Len(overdue)].by.kind = kind

\* What is listed is for the text, and misses an answer only while that is awaited.
ItemsOfTheText ==
  kind = "Task" /\ term # None /\ typed = None /\ overdue = <<>> =>
    /\ items # None /\ items.term = term
    /\ items.asked => items.answered \/ searchFailed \/ searching

SearchInv ==
  /\ SearchTypeOK /\ OneCurrent /\ RequestOfItems
  /\ LastTyped /\ SpinnerAwaits /\ ItemsOfTheText

-----------------------------------------------------------------------------
LEMMA SearchInitInv == ASSUME SearchAssumption, SearchInit PROVE SearchInv
<1>1. SearchTypeOK
  <2>1. <<>> \in Seq([term : Terms, by : Closure]) OBVIOUS
  <2>2. 0 \in 0 .. MaxSearches /\ 0 \in 0 .. MaxRenewals BY DEF SearchAssumption
  <2> QED BY <2>1, <2>2 DEF SearchInit, SearchTypeOK, Kinds
<1> QED BY <1>1 DEF SearchInit, SearchInv, OneCurrent, RequestOfItems, LastTyped, SpinnerAwaits,
                    ItemsOfTheText

LEMMA CapturedType == ASSUME SearchTypeOK PROVE Captured \in Closure
  BY DEF SearchTypeOK, Captured, Closure, Kinds

\* Whatever begins a search aborts what is in flight and leaves it behind by its version.
LEMMA AbortedOld ==
  ASSUME SearchAssumption, SearchTypeOK, OneCurrent, ResetInFlightSearch
  PROVE  /\ version \in Nat /\ version' = version + 1 /\ version' \in 0 .. MaxSearches
         /\ Aborted \subseteq SearchRequest
         /\ \A r \in Aborted : r.version < version' /\ r.aborted = TRUE
         /\ \A r, q \in Aborted : r.version = q.version => r = q
<1>1. version \in Nat /\ version' = version + 1 /\ version' \in 0 .. MaxSearches
  BY DEF ResetInFlightSearch, SearchTypeOK, SearchAssumption
<1>2. \A r \in searches : r \in SearchRequest BY DEF SearchTypeOK, SearchRequest
<1>3. \A r \in searches :
        LET a == [r EXCEPT !.aborted = TRUE]
        IN  a \in SearchRequest /\ a.version = r.version /\ a.aborted = TRUE
  BY <1>2 DEF SearchRequest
<1>4. \A r \in searches : r.version \in Nat /\ r.version <= version
  BY <1>2 DEF OneCurrent, SearchRequest
<1>5. Aborted \subseteq SearchRequest BY <1>3 DEF Aborted
<1>6. ASSUME NEW a \in Aborted PROVE a.version < version' /\ a.aborted = TRUE
  <2>1. PICK r \in searches : a = [r EXCEPT !.aborted = TRUE] BY <1>6 DEF Aborted
  <2> QED BY <2>1, <1>1, <1>3, <1>4
<1>7. ASSUME NEW a \in Aborted, NEW b \in Aborted, a.version = b.version PROVE a = b
  <2>1. PICK r \in searches : a = [r EXCEPT !.aborted = TRUE] BY <1>7 DEF Aborted
  <2>2. PICK q \in searches : b = [q EXCEPT !.aborted = TRUE] BY <1>7 DEF Aborted
  <2>3. r.version = q.version BY <2>1, <2>2, <1>3, <1>7
  <2> QED BY <2>1, <2>2, <2>3 DEF OneCurrent
<1> QED BY <1>1, <1>5, <1>6, <1>7

\* A search leaves what is in flight behind.  For a task its items are those of the text, and
\* it awaits an answer unless nobody is asked; for a pipeline it does nothing else.
LEMMA HandleSearchKeeps ==
  ASSUME SearchAssumption, SearchInv, NEW t \in Terms \cup {None}, NEW by \in Closure,
         HandleSearch(t, by)
  PROVE  /\ version' \in 0 .. MaxSearches /\ searching' \in BOOLEAN /\ searchFailed' \in BOOLEAN
         /\ items' = None \/ items' \in SearchItem
         /\ searches' \subseteq SearchRequest
         /\ OneCurrent' /\ RequestOfItems' /\ SpinnerAwaits'
         /\ by.kind = "Task" /\ t # None =>
              /\ items' # None /\ items'.term = t
              /\ ~searching' => ~items'.asked
<1>1. /\ version \in Nat /\ version' = version + 1 /\ version' \in 0 .. MaxSearches
      /\ Aborted \subseteq SearchRequest
      /\ \A r \in Aborted : r.version < version' /\ r.aborted = TRUE
      /\ \A r, q \in Aborted : r.version = q.version => r = q
  BY AbortedOld DEF HandleSearch, SearchInv
<1>a. \A r \in Aborted : r.version \in Nat /\ r.version # version' /\ r.version <= version'
  BY <1>1 DEF SearchRequest
<1>2. CASE SearchNothing(by) \/ (t = None /\ SearchEmpty(by))
  <2>1. searches' = Aborted /\ searching' = FALSE /\ searchFailed' = FALSE
    BY <1>2 DEF SearchNothing, SearchEmpty
  <2>2. items' = None \/ items' \in SearchItem
    BY <1>2 DEF SearchNothing, SearchEmpty, SearchInv, SearchTypeOK, SearchItem
  <2>3. by.kind = "Pipeline" \/ t = None BY <1>2 DEF SearchNothing
  <2>4. OneCurrent' BY <1>1, <1>a, <2>1 DEF OneCurrent
  <2>5. RequestOfItems' /\ SpinnerAwaits'
    BY <1>a, <2>1 DEF RequestOfItems, SpinnerAwaits
  <2> QED BY <1>1, <2>1, <2>2, <2>3, <2>4, <2>5
<1>3. CASE t # None /\ SearchCatalog(t, by)
  <2> DEFINE new == [version |-> version', term |-> t, catalog |-> by.catalog, aborted |-> FALSE]
  <2>1. /\ items' = [term |-> t, catalog |-> by.catalog, asked |-> by.hub, answered |-> FALSE]
        /\ searching' = by.hub /\ searchFailed' = FALSE
        /\ searches' = Aborted \cup IF by.hub THEN {new} ELSE {}
    BY <1>3 DEF SearchCatalog
  <2>2. by.catalog \in 0 .. MaxRenewals /\ by.hub \in BOOLEAN /\ t \in Terms
    BY <1>3 DEF Closure
  <2>3. items' \in SearchItem /\ items'.term = t /\ items'.asked = by.hub BY <2>1, <2>2 DEF SearchItem
  <2>4. items' # None BY <2>3 DEF SearchAssumption, SearchItem
  <2>5. new \in SearchRequest /\ new.version = version' /\ new.aborted = FALSE /\ new.term = t
    BY <2>2, <1>1 DEF SearchRequest
  <2>6. OneCurrent'
    <3>1. \A r \in searches' : r \in Aborted \/ r = new BY <2>1
    <3>2. new.version <= version' BY <1>1, <2>5
    <3>3. \A r \in searches' : r.version <= version' /\ (r.aborted <=> r.version # version')
      BY <1>1, <1>a, <2>5, <3>1, <3>2
    <3> QED BY <1>1, <1>a, <2>5, <3>1, <3>3 DEF OneCurrent
  <2>7. RequestOfItems' BY <1>a, <2>1, <2>3, <2>4, <2>5 DEF RequestOfItems
  <2>8. SpinnerAwaits' BY <1>a, <2>1, <2>2, <2>5 DEF SpinnerAwaits
  <2>9. searches' \subseteq SearchRequest BY <1>1, <2>1, <2>5
  <2> HIDE DEF new
  <2> QED BY <1>1, <2>1, <2>2, <2>3, <2>4, <2>6, <2>7, <2>8, <2>9
<1> QED BY <1>2, <1>3 DEF HandleSearch

-----------------------------------------------------------------------------
(***************************************************************************)
(* One lemma per action.                                                   *)
(***************************************************************************)

LEMMA OnSearchChangeStep ==
  ASSUME SearchAssumption, SearchInv, NEW t \in Terms, OnSearchChange(t)
  PROVE  SearchInv'
<1>1. UNCHANGED <<kind, items, searching, searchFailed, version, catalog, hub, overdue, searches>>
      /\ term' = t /\ typed' = t /\ t # None
  BY DEF OnSearchChange, SearchAssumption
<1> QED BY <1>1 DEF SearchInv, SearchTypeOK, OneCurrent, RequestOfItems, LastTyped, SpinnerAwaits,
                    ItemsOfTheText

LEMMA ClearStep ==
  ASSUME SearchAssumption, SearchInv, Clear
  PROVE  SearchInv'
<1>1. /\ HandleSearch(None, Captured) /\ term' = None /\ typed' = None
      /\ UNCHANGED <<kind, catalog, hub, overdue>>
  BY DEF Clear
<1>2. Captured \in Closure BY CapturedType DEF SearchInv
<1>3. SearchTypeOK'
  BY <1>1, <1>2, HandleSearchKeeps DEF SearchInv, SearchTypeOK, SearchItem, SearchRequest
<1>4. OneCurrent' /\ RequestOfItems' /\ SpinnerAwaits' BY <1>1, <1>2, HandleSearchKeeps
<1>5. LastTyped' /\ ItemsOfTheText' BY <1>1 DEF LastTyped, ItemsOfTheText
<1> QED BY <1>3, <1>4, <1>5 DEF SearchInv

LEMMA TimerFiresStep ==
  ASSUME SearchAssumption, SearchInv, TimerFires
  PROVE  SearchInv'
<1>1. /\ typed # None /\ overdue = <<>> /\ HandleSearch(typed, Captured) /\ typed' = None
      /\ UNCHANGED <<kind, term, catalog, hub, overdue>>
  BY DEF TimerFires
<1>2. Captured \in Closure /\ Captured.kind = kind BY CapturedType DEF SearchInv, Captured
<1>3. typed \in Terms /\ typed = term BY <1>1 DEF SearchInv, SearchTypeOK, LastTyped
<1>4. SearchTypeOK'
  BY <1>1, <1>2, <1>3, HandleSearchKeeps DEF SearchInv, SearchTypeOK, SearchItem, SearchRequest
<1>5. OneCurrent' /\ RequestOfItems' /\ SpinnerAwaits' BY <1>1, <1>2, <1>3, HandleSearchKeeps
<1>6. LastTyped' BY <1>1 DEF LastTyped
<1>7. ItemsOfTheText'
  <2>1. kind = "Task" => /\ items' # None /\ items'.term = term
                         /\ ~searching' => ~items'.asked
    BY <1>1, <1>2, <1>3, HandleSearchKeeps
  <2> QED BY <2>1, <1>1 DEF ItemsOfTheText
<1> QED BY <1>4, <1>5, <1>6, <1>7 DEF SearchInv

\* The timer of an older function: the last of them holds the text unless a newer one does.
LEMMA OverdueTimerFiresStep ==
  ASSUME SearchAssumption, SearchInv, OverdueTimerFires
  PROVE  SearchInv'
<1> DEFINE first == Head(overdue)
<1>1. /\ overdue # <<>> /\ HandleSearch(first.term, first.by) /\ overdue' = Tail(overdue)
      /\ UNCHANGED <<kind, term, catalog, hub, typed>>
  BY DEF OverdueTimerFires
<1>2. overdue \in Seq(SearchTimer) BY DEF SearchInv, SearchTypeOK, SearchTimer
<1>3. /\ Tail(overdue) \in Seq(SearchTimer) /\ Len(Tail(overdue)) = Len(overdue) - 1
      /\ Len(overdue) \in Nat /\ Len(overdue) >= 1
      /\ first = overdue[1] /\ first \in SearchTimer
      /\ \A i \in 1 .. Len(overdue) - 1 : Tail(overdue)[i] = overdue[i + 1]
  BY <1>1, <1>2
<1>4. first.term \in Terms /\ first.by \in Closure BY <1>3 DEF SearchTimer
<1>5. SearchTypeOK'
  BY <1>1, <1>3, <1>4, HandleSearchKeeps
  DEF SearchInv, SearchTypeOK, SearchItem, SearchRequest, SearchTimer
<1>6. OneCurrent' /\ RequestOfItems' /\ SpinnerAwaits' BY <1>1, <1>4, HandleSearchKeeps
<1>7. LastTyped'
  <2> SUFFICES ASSUME term # None, typed = None, overdue' # <<>>
               PROVE  overdue'[Len(overdue')].term = term /\ overdue'[Len(overdue')].by.kind = kind
    BY <1>1 DEF LastTyped, SearchInv
  <2>1. Len(overdue') \in Nat /\ Len(overdue') >= 1 BY <1>1, <1>3
  <2>2. overdue'[Len(overdue')] = overdue[Len(overdue)] BY <1>1, <1>3, <2>1
  <2> QED BY <2>2, <1>1 DEF SearchInv, LastTyped
<1>8. ItemsOfTheText'
  <2> SUFFICES ASSUME kind = "Task", term # None, typed = None, overdue' = <<>>
               PROVE  items' # None /\ items'.term = term /\ (~searching' => ~items'.asked)
    BY <1>1 DEF ItemsOfTheText
  <2>1. Len(overdue) = 1
    <3>1. Len(overdue') = 0 OBVIOUS
    <3>2. Len(overdue') = Len(overdue) - 1 /\ Len(overdue) \in Nat BY <1>1, <1>3
    <3>3. \A n \in Nat : n - 1 = 0 => n = 1 OBVIOUS
    <3> QED BY ONLY <3>1, <3>2, <3>3
  <2>2. first.term = term /\ first.by.kind = kind BY <2>1, <1>1, <1>3 DEF SearchInv, LastTyped
  <2> QED BY <2>2, <1>1, <1>4, HandleSearchKeeps
<1> QED BY <1>5, <1>6, <1>7, <1>8 DEF SearchInv

LEMMA HandleKindChangeStep ==
  ASSUME SearchAssumption, SearchInv, NEW k \in Kinds, HandleKindChange(k)
  PROVE  SearchInv'
<1>1. /\ ResetInFlightSearch /\ searches' = Aborted /\ typed' = None /\ kind' = k /\ term' = None
      /\ searching' = FALSE /\ searchFailed' = FALSE /\ items' \in {items, None}
      /\ UNCHANGED <<catalog, hub, overdue>>
  BY DEF HandleKindChange
<1>2. /\ version' \in 0 .. MaxSearches /\ Aborted \subseteq SearchRequest
      /\ \A r \in Aborted : r.version < version' /\ r.aborted = TRUE
      /\ \A r, q \in Aborted : r.version = q.version => r = q
  BY <1>1, AbortedOld DEF SearchInv
<1>3. \A r \in Aborted : r.version # version' /\ r.version <= version' BY <1>2 DEF SearchRequest
<1>4. SearchTypeOK' BY <1>1, <1>2 DEF SearchInv, SearchTypeOK, SearchRequest
<1>5. OneCurrent' /\ RequestOfItems' /\ SpinnerAwaits'
  BY <1>1, <1>2, <1>3 DEF OneCurrent, RequestOfItems, SpinnerAwaits
<1>6. LastTyped' /\ ItemsOfTheText' BY <1>1 DEF LastTyped, ItemsOfTheText
<1> QED BY <1>4, <1>5, <1>6 DEF SearchInv

LEMMA RenewStep ==
  ASSUME SearchAssumption, SearchInv, CatalogChanges \/ HubKnown
  PROVE  SearchInv'
<1> DEFINE last == [term |-> typed, by |-> Captured]
<1>1. /\ overdue' = IF typed = None THEN overdue ELSE Append(overdue, last)
      /\ typed' = None
      /\ UNCHANGED <<kind, term, items, searching, searchFailed, version, searches>>
  BY DEF CatalogChanges, HubKnown, Renew
<1>2. catalog' \in 0 .. MaxRenewals /\ hub' \in BOOLEAN
  <2>1. catalog \in 0 .. MaxRenewals /\ hub \in BOOLEAN /\ MaxRenewals \in Nat
    BY DEF SearchInv, SearchTypeOK, SearchAssumption
  <2>2. CASE CatalogChanges BY <2>1, <2>2 DEF CatalogChanges
  <2>3. CASE HubKnown BY <2>1, <2>3 DEF HubKnown
  <2> QED BY <2>2, <2>3
<1>3. /\ Captured \in Closure /\ Captured.kind = kind
      /\ overdue \in Seq(SearchTimer) /\ (typed # None => last \in SearchTimer)
  BY CapturedType DEF SearchInv, SearchTypeOK, Captured, SearchTimer
<1>4. overdue' \in Seq(SearchTimer) BY <1>1, <1>3
<1>5. SearchTypeOK' BY <1>1, <1>2, <1>4 DEF SearchInv, SearchTypeOK, SearchTimer
<1>6. OneCurrent' /\ RequestOfItems' /\ SpinnerAwaits'
  BY <1>1 DEF SearchInv, OneCurrent, RequestOfItems, SpinnerAwaits
<1>7. CASE typed = None
  <2>1. LastTyped' /\ ItemsOfTheText' BY <1>1, <1>7 DEF SearchInv, LastTyped, ItemsOfTheText
  <2> QED BY <1>5, <1>6, <2>1 DEF SearchInv
<1>8. CASE typed # None
  <2>1. overdue' = Append(overdue, last) /\ last \in SearchTimer BY <1>1, <1>3, <1>8
  <2>2. overdue' # <<>> /\ overdue'[Len(overdue')] = last BY <2>1, <1>3
  <2>3. last.term = term /\ last.by.kind = kind BY <1>3, <1>8 DEF SearchInv, LastTyped
  <2>4. LastTyped' /\ ItemsOfTheText' BY <1>1, <2>2, <2>3 DEF LastTyped, ItemsOfTheText
  <2> QED BY <1>5, <1>6, <2>4 DEF SearchInv
<1> QED BY <1>7, <1>8

LEMMA AnswerStep ==
  ASSUME SearchAssumption, SearchInv, NEW r \in searches, SearchAnswer(r)
  PROVE  SearchInv'
<1>1. /\ ~r.aborted /\ searches' = searches \ {r}
      /\ UNCHANGED <<kind, term, searchFailed, version, catalog, hub, typed, overdue>>
  BY DEF SearchAnswer
<1>2. r.version = version BY <1>1 DEF SearchInv, OneCurrent
<1>3. /\ items' = [term |-> r.term, catalog |-> r.catalog, asked |-> TRUE, answered |-> TRUE]
      /\ searching' = FALSE
  BY <1>2 DEF SearchAnswer
<1>4. r.term \in Terms /\ r.catalog \in 0 .. MaxRenewals BY DEF SearchInv, SearchTypeOK
<1>5. items' \in SearchItem /\ items'.term = r.term /\ items'.answered = TRUE
  BY <1>3, <1>4 DEF SearchItem
<1>6. items' # None BY <1>5 DEF SearchAssumption, SearchItem
<1>7. SearchTypeOK' BY <1>1, <1>3, <1>5 DEF SearchInv, SearchTypeOK, SearchItem
<1>8. \A q \in searches' : q \in searches /\ q.version # version'
  BY <1>1, <1>2 DEF SearchInv, OneCurrent
<1>9. OneCurrent' /\ RequestOfItems' /\ SpinnerAwaits'
  BY <1>1, <1>3, <1>8 DEF SearchInv, OneCurrent, RequestOfItems, SpinnerAwaits
<1>a. LastTyped' BY <1>1 DEF SearchInv, LastTyped
<1>b. ItemsOfTheText'
  <2> SUFFICES ASSUME kind = "Task", term # None, typed = None, overdue = <<>>
               PROVE  items'.term = term
    BY <1>1, <1>5, <1>6 DEF ItemsOfTheText
  <2>1. items.term = term BY DEF SearchInv, ItemsOfTheText
  <2>2. items.term = r.term BY <1>2 DEF SearchInv, RequestOfItems
  <2> QED BY <2>1, <2>2, <1>5
<1> QED BY <1>7, <1>9, <1>a, <1>b DEF SearchInv

LEMMA FailStep ==
  ASSUME SearchAssumption, SearchInv, NEW r \in searches, SearchFail(r)
  PROVE  SearchInv'
<1>1. /\ searches' = searches \ {r}
      /\ UNCHANGED <<kind, term, items, version, catalog, hub, typed, overdue>>
      /\ IF r.version = version THEN searchFailed' = TRUE /\ searching' = FALSE
         ELSE UNCHANGED <<searchFailed, searching>>
  BY DEF SearchFail
<1>2. SearchTypeOK' BY <1>1 DEF SearchInv, SearchTypeOK
<1>3. OneCurrent' /\ RequestOfItems' /\ LastTyped'
  BY <1>1 DEF SearchInv, OneCurrent, RequestOfItems, LastTyped
<1>4. SpinnerAwaits'
  <2>1. CASE r.version = version
    <3>1. \A q \in searches' : q.version # version BY <1>1, <2>1 DEF SearchInv, OneCurrent
    <3> QED BY <3>1, <1>1, <2>1 DEF SpinnerAwaits
  <2>2. CASE r.version # version BY <1>1, <2>2 DEF SearchInv, SpinnerAwaits
  <2> QED BY <2>1, <2>2
<1>5. ItemsOfTheText' BY <1>1 DEF SearchInv, ItemsOfTheText
<1> QED BY <1>2, <1>3, <1>4, <1>5 DEF SearchInv

LEMMA SearchNextInv == ASSUME SearchAssumption, SearchInv, [SearchNext]_searchVars PROVE SearchInv'
<1>1. CASE UNCHANGED searchVars
  BY <1>1 DEF searchVars, SearchInv, SearchTypeOK, OneCurrent, RequestOfItems, LastTyped, SpinnerAwaits,
              ItemsOfTheText
<1> QED BY <1>1, OnSearchChangeStep, ClearStep, TimerFiresStep, OverdueTimerFiresStep,
           HandleKindChangeStep, RenewStep, AnswerStep, FailStep DEF SearchNext

\* The state of the quick search keeps its types through any steps of it.
THEOREM SearchTypeCorrect == ASSUME SearchAssumption PROVE SearchSpec => []SearchTypeOK
<1>1. SearchInit => SearchInv BY SearchInitInv
<1>2. SearchInv /\ [SearchNext]_searchVars => SearchInv' BY SearchNextInv
<1>3. SearchInv => SearchTypeOK BY DEF SearchInv
<1> QED BY <1>1, <1>2, <1>3, PTL DEF SearchSpec

\* However searches are begun, aborted, answered late or overtaken by timers of older functions,
\* the spinner turns just as long as an answer is awaited that will be shown.
THEOREM SpinnerIsRight == ASSUME SearchAssumption PROVE SearchSpec => []SpinnerAwaits
<1>1. SearchInit => SearchInv BY SearchInitInv
<1>2. SearchInv /\ [SearchNext]_searchVars => SearchInv' BY SearchNextInv
<1>3. SearchInv => SpinnerAwaits BY DEF SearchInv
<1> QED BY <1>1, <1>2, <1>3, PTL DEF SearchSpec

\* What is listed in the end is what was found for the text in the field.
THEOREM ListedIsOfTheText == ASSUME SearchAssumption PROVE SearchSpec => []FoundIsOfTheText
<1>1. SearchInit => SearchInv BY SearchInitInv
<1>2. SearchInv /\ [SearchNext]_searchVars => SearchInv' BY SearchNextInv
<1>3. SearchInv => FoundIsOfTheText BY DEF SearchInv, ItemsOfTheText, FoundIsOfTheText
<1> QED BY <1>1, <1>2, <1>3, PTL DEF SearchSpec

-----------------------------------------------------------------------------
(***************************************************************************)
(* Approvals: operators.                                                   *)
(***************************************************************************)

\* A set of numbers that is not empty has a least one.
LEMMA LeastPlace ==
  ASSUME NEW T, T \subseteq Nat, T # {}
  PROVE  \E x \in T : \A y \in T : x <= y
<1>1. PICK x \in T : \A y \in T : ~(<<y, x>> \in OpToRel(<, Nat))
  BY NatLessThanWellFounded, WFMin, Zenon
<1>2. \A y \in T : ~(y < x) BY <1>1 DEF OpToRel
<1> QED BY <1>2

\* What is looked up next is one of those that are left.
LEMMA FirstIsIn ==
  ASSUME ApprovalAssumption, NEW S, S \subseteq TaskSet, S # {}
  PROVE  First(S) \in S
<1> DEFINE At == {i \in DOMAIN Tasks : Tasks[i] \in S}
<1>1. DOMAIN Tasks = 1 .. Len(Tasks) BY DEF ApprovalAssumption
<1>2. At \subseteq Nat /\ At # {} BY <1>1 DEF TaskSet, Range
<1>3. PICK i \in At : \A j \in At : i <= j BY <1>2, LeastPlace
<1>4. \A j \in 1 .. i - 1 : Tasks[j] \notin S BY <1>1, <1>3
<1>5. \E k \in DOMAIN Tasks : Tasks[k] \in S /\ \A j \in 1 .. k - 1 : Tasks[j] \notin S
  BY <1>3, <1>4
<1> QED BY <1>5 DEF First

LEMMA NewLookupOk ==
  ASSUME NEW by \in RunNos \cup {Row}, NEW t \in TaskSet, NEW known \in SUBSET AllGroups
  PROVE  /\ NewLookup(by, t, known) \in Lookup
         /\ NewLookup(by, t, known).by = by /\ NewLookup(by, t, known).task = t
         /\ NewLookup(by, t, known).known = known /\ NewLookup(by, t, known).at = 1
  BY DEF NewLookup, Lookup

LEMMA GroupsAre ==
  ASSUME ApprovalAssumption, NEW t \in TaskSet
  PROVE  /\ Len(GroupsOf[t]) \in Nat /\ DOMAIN GroupsOf[t] = 1 .. Len(GroupsOf[t])
         /\ Range(GroupsOf[t]) \subseteq AllGroups
         /\ \A i \in 1 .. Len(GroupsOf[t]) : GroupsOf[t][i] \in Range(GroupsOf[t])
<1>1. GroupsOf[t] \in Seq(Range(GroupsOf[t])) BY DEF ApprovalAssumption
<1> QED BY <1>1 DEF AllGroups, Range

-----------------------------------------------------------------------------
(***************************************************************************)
(* Approvals: the inductive invariant.                                     *)
(***************************************************************************)

\* None of the groups that a lookup has gone by is one of the user's.
NoneBefore(l) ==
  \A i \in 1 .. Len(GroupsOf[l.task]) : i < l.at => GroupsOf[l.task][i] \notin Memberships

\* Nobody is taken to be in a group without being in it, and only rows look up for rows.
KnownOk ==
  /\ \A l \in lookups : l.known \subseteq Memberships /\ (l.by = Row => l.task \in rows)
  /\ \A r \in runs : r.known \subseteq Memberships

\* A run looks up one task at a time, and no two runs have a number in common.
RunsOk ==
  /\ \A r \in runs : r.no <= runNo
  /\ \A r, q \in runs : r.no = q.no => r = q
  /\ \A l \in lookups : l.by # Row => \E r \in runs : r.no = l.by /\ l.task = First(r.left)
  /\ \A l, m \in lookups : l.by # Row /\ l.by = m.by => l = m

\* A row of one of the user's groups knows the group, or is about to find it.
RowsOk ==
  /\ \A t \in rows : authorized[t] = "yes" => Approver(t)
  /\ \A t \in rows \ unread :
       Approver(t) /\ t \notin UserTasks =>
         \/ Range(GroupsOf[t]) \cap groups # {}
         \/ \E l \in lookups : l.by = Row /\ l.task = t /\ l.known = groups /\ NoneBefore(l)

DialogOk == dialog # None /\ dialog.calm => Recorded(dialog)

\* The last run is about what the watch has brought, and whoever waits for the user is still to
\* be looked up by it, has been found by it, or has a toast of it.
LastOk ==
  /\ \A r \in runs : r.no = runNo =>
       /\ r.answered = Answered(watched)
       /\ r.left \subseteq watched.awaiting /\ r.found \subseteq Waiting
  /\ \A l \in lookups : l.by = runNo /\ l.task \notin missed => NoneBefore(l)
  /\ \A t \in Waiting \ missed :
       \/ \E r \in runs : r.no = runNo /\ t \in r.left \cup r.found
       \/ \E x \in toasts : x.run = runNo /\ t \in x.about

\* An earlier run that goes on overlaps the last one; a toast of no such run is tracked.
ToastsOk ==
  /\ \A r \in runs : r.no = runNo \/ {r.no, runNo} \subseteq late
  /\ \A x \in toasts :
       /\ x.run <= runNo
       /\ x.run \in late \/ (x.run = runNo /\ tracked[x.key] = runNo /\ x.about \subseteq Waiting)

ApprovalInv ==
  /\ ApprovalTypeOK /\ KnownOk /\ RunsOk
  /\ RowsOk /\ DialogOk /\ LastOk /\ ToastsOk

\* The types of what is under way.
WorkType ==
  /\ runNo \in RunNos
  /\ runs \subseteq Run /\ lookups \subseteq Lookup
  /\ \A l \in lookups : l.at <= Len(GroupsOf[l.task]) + 1
  /\ \A r \in runs : r.left # {} /\ \E l \in lookups : l.by = r.no /\ l.task = First(r.left)

WatchType == [awaiting : SUBSET TaskSet, spec : [TaskSet -> Decisions]]

-----------------------------------------------------------------------------
(***************************************************************************)
(* Approvals: a run begins with the first of its tasks, rows with theirs.  *)
(***************************************************************************)

LEMMA StartRunOk ==
  ASSUME ApprovalAssumption, NEW n \in RunNos, NEW s \in WatchType, NEW ns \in Projects,
         NEW all \in BOOLEAN, NEW known \in SUBSET AllGroups,
         NEW r \in StartRun(n, s, ns, all, known)
  PROVE  /\ r \in Run /\ r.no = n /\ r.known = known /\ r.answered = Answered(s)
         /\ r.left = s.awaiting /\ r.left # {} /\ r.found = {}
         /\ r = [no |-> n, left |-> s.awaiting, found |-> {}, ns |-> ns, all |-> all,
                 known |-> known, answered |-> Answered(s)]
<1>1. /\ s.awaiting # {}
      /\ r = [no |-> n, left |-> s.awaiting, found |-> {}, ns |-> ns, all |-> all,
              known |-> known, answered |-> Answered(s)]
  BY DEF StartRun
<1>2. Answered(s) \in SUBSET TaskSet /\ s.awaiting \in SUBSET TaskSet BY DEF Answered, WatchType
<1> QED BY <1>1, <1>2 DEF Run

LEMMA RunLookupsOk ==
  ASSUME ApprovalAssumption, NEW R, R \subseteq Run, \A r \in R : r.left # {}
  PROVE  /\ \A l \in RunLookups(R) : \E r \in R :
              l \in Lookup /\ l.by = r.no /\ l.task = First(r.left) /\ l.known = r.known
                /\ l.at = 1 /\ l.at <= Len(GroupsOf[l.task]) + 1
         /\ \A r \in R : \E l \in RunLookups(R) : l.by = r.no /\ l.task = First(r.left)
         /\ (\A r, q \in R : r.no = q.no => r = q) =>
              \A l, m \in RunLookups(R) : l.by = m.by => l = m
<1> DEFINE Of(r) == NewLookup(r.no, First(r.left), r.known)
<1>1. ASSUME NEW r \in R
      PROVE  /\ Of(r) \in Lookup /\ Of(r).by = r.no /\ Of(r).task = First(r.left)
             /\ Of(r).known = r.known /\ Of(r).at = 1
             /\ Of(r).at <= Len(GroupsOf[Of(r).task]) + 1
  <2>1. r.no \in RunNos /\ r.known \in SUBSET AllGroups /\ r.left \subseteq TaskSet BY DEF Run
  <2>2. First(r.left) \in TaskSet BY <2>1, FirstIsIn
  <2>3. Len(GroupsOf[First(r.left)]) \in Nat BY <2>2, GroupsAre
  <2> HIDE DEF Of
  <2>4. Of(r) = NewLookup(r.no, First(r.left), r.known) BY DEF Of
  <2>5. /\ Of(r) \in Lookup /\ Of(r).by = r.no /\ Of(r).task = First(r.left)
        /\ Of(r).known = r.known /\ Of(r).at = 1
    BY <2>1, <2>2, <2>4, NewLookupOk
  <2> QED BY <2>3, <2>5
<1>2. RunLookups(R) = {Of(r) : r \in R} BY DEF RunLookups
<1> HIDE DEF Of
<1>3. ASSUME NEW l \in RunLookups(R), NEW m \in RunLookups(R), l.by = m.by,
             \A r, q \in R : r.no = q.no => r = q
      PROVE  l = m
  <2>1. PICK r \in R : l = Of(r) BY <1>2
  <2>2. PICK q \in R : m = Of(q) BY <1>2
  <2>3. r = q BY <2>1, <2>2, <1>1, <1>3
  <2> QED BY <2>1, <2>2, <2>3
<1> QED BY <1>1, <1>2, <1>3

LEMMA RowLookupsOk ==
  ASSUME ApprovalAssumption, NEW R \in SUBSET TaskSet, NEW known \in SUBSET AllGroups
  PROVE  /\ \A l \in RowLookups(R, known) :
              l \in Lookup /\ l.by = Row /\ l.task \in R /\ l.known = known /\ l.at = 1
                /\ l.at <= Len(GroupsOf[l.task]) + 1
         /\ \A t \in R : \E l \in RowLookups(R, known) :
              l.by = Row /\ l.task = t /\ l.known = known /\ l.at = 1
<1>1. ASSUME NEW t \in R
      PROVE  LET l == NewLookup(Row, t, known)
             IN  /\ l \in Lookup /\ l.by = Row /\ l.task = t /\ l.known = known /\ l.at = 1
                 /\ l.at <= Len(GroupsOf[l.task]) + 1
  <2>1. Len(GroupsOf[t]) \in Nat BY GroupsAre
  <2>2. Row \in RunNos \cup {Row} OBVIOUS
  <2> DEFINE l == NewLookup(Row, t, known)
  <2>3. l \in Lookup /\ l.by = Row /\ l.task = t /\ l.known = known /\ l.at = 1
    BY <2>2, NewLookupOk
  <2> HIDE DEF l
  <2>4. l.at <= Len(GroupsOf[l.task]) + 1 BY <2>1, <2>3
  <2> QED BY <2>3, <2>4 DEF l
<1>2. RowLookups(R, known) = {NewLookup(Row, t, known) : t \in R} BY DEF RowLookups
<1> QED BY <1>1, <1>2

\* Before the first group no group has been gone by.
LEMMA NoneBeforeFirst ==
  ASSUME NEW l, l.at = 1 PROVE NoneBefore(l)
  BY DEF NoneBefore

LEMMA ApprovalInitInv == ASSUME ApprovalAssumption, ApprovalInit PROVE ApprovalInv
<1>1. /\ rows \subseteq TaskSet /\ watched \in WatchType /\ project \in Projects
      /\ runNo \in RunNos /\ {} \in SUBSET AllGroups /\ groups = {}
  BY DEF ApprovalInit, ApprovalAssumption, WatchType, Decisions, RunNos
<1>2. \A r \in runs : /\ r \in Run /\ r.no = runNo /\ r.known = {} /\ r.answered = Answered(watched)
                      /\ r.left = watched.awaiting /\ r.left # {} /\ r.found = {}
  <2>1. runs = StartRun(runNo, watched, project, FALSE, {}) BY DEF ApprovalInit
  <2>2. canAccessAll = FALSE /\ canAccessAll \in BOOLEAN BY DEF ApprovalInit
  <2>3. \A r \in StartRun(runNo, watched, project, canAccessAll, {}) :
          /\ r \in Run /\ r.no = runNo /\ r.known = {} /\ r.answered = Answered(watched)
          /\ r.left = watched.awaiting /\ r.left # {} /\ r.found = {}
    BY <1>1, <2>2, StartRunOk
  <2> QED BY <2>1, <2>2, <2>3
<1>3. \A r, q \in runs : r = q BY DEF ApprovalInit, StartRun
<1>4. watched.awaiting # {} => runs # {} BY DEF ApprovalInit, StartRun
<1>5. lookups = RunLookups(runs) \cup RowLookups(rows, {}) BY DEF ApprovalInit
<1>6. /\ \A l \in RunLookups(runs) : \E r \in runs :
           l \in Lookup /\ l.by = r.no /\ l.task = First(r.left) /\ l.known = r.known
             /\ l.at = 1 /\ l.at <= Len(GroupsOf[l.task]) + 1
      /\ \A r \in runs : \E l \in RunLookups(runs) : l.by = r.no /\ l.task = First(r.left)
      /\ \A l, m \in RunLookups(runs) : l.by = m.by => l = m
  <2>1. runs \subseteq Run /\ \A r \in runs : r.left # {} BY <1>2
  <2>2. \A r, q \in runs : r.no = q.no => r = q BY <1>3
  <2> QED BY <2>1, <2>2, RunLookupsOk
<1>7. /\ \A l \in RowLookups(rows, {}) :
           l \in Lookup /\ l.by = Row /\ l.task \in rows /\ l.known = {} /\ l.at = 1
             /\ l.at <= Len(GroupsOf[l.task]) + 1
      /\ \A t \in rows : \E l \in RowLookups(rows, {}) :
           l.by = Row /\ l.task = t /\ l.known = {} /\ l.at = 1
  BY <1>1, RowLookupsOk
<1>8. WorkType
  BY <1>1, <1>2, <1>5, <1>6, <1>7 DEF WorkType
<1>9. ApprovalTypeOK
  <2>1. toasts \subseteq Toast /\ tracked \in [Keys -> {0} \cup RunNos] BY DEF ApprovalInit
  <2>2. authorized \in [rows -> {"unknown", "yes", "no"}] BY DEF ApprovalInit
  <2>3. spec \in [TaskSet -> Decisions] BY DEF ApprovalInit, Decisions
  <2> QED BY <1>1, <1>8, <2>1, <2>2, <2>3 DEF ApprovalInit, ApprovalTypeOK, WorkType, WatchType
<1>a. KnownOk BY <1>2, <1>5, <1>6, <1>7 DEF KnownOk, RunNos, Row, Run
<1>b. RunsOk
  <2>1. \A r \in runs : r.no \in 1 .. MaxRuns BY <1>2 DEF Run, RunNos
  <2> QED BY <1>1, <1>2, <1>3, <1>5, <1>6, <1>7, <2>1 DEF RunsOk, RunNos, Row, ApprovalAssumption
<1>c. \A l \in lookups : NoneBefore(l) BY <1>5, <1>6, <1>7, NoneBeforeFirst
<1>d. RowsOk
  <2>1. \A t \in rows : authorized[t] # "yes" BY DEF ApprovalInit
  <2>2. ASSUME NEW t \in rows
        PROVE  \E l \in lookups : l.by = Row /\ l.task = t /\ l.known = groups /\ NoneBefore(l)
    <3>1. PICK l \in RowLookups(rows, {}) : l.by = Row /\ l.task = t /\ l.known = {} BY <1>7
    <3>2. l \in lookups BY <1>5
    <3> QED BY <1>1, <1>c, <3>1, <3>2
  <2> QED BY <2>1, <2>2 DEF RowsOk
<1>e. DialogOk BY DEF DialogOk, ApprovalInit
<1>f. LastOk
  <2>1. Waiting \subseteq watched.awaiting BY DEF Waiting
  <2> QED BY <1>2, <1>4, <1>c, <2>1 DEF LastOk
<1>g. ToastsOk BY <1>2 DEF ToastsOk, ApprovalInit
<1> QED BY <1>9, <1>a, <1>b, <1>d, <1>e, <1>f, <1>g DEF ApprovalInv

-----------------------------------------------------------------------------
(***************************************************************************)
(* Approvals: the toasts again; none of the run before is tracked.         *)
(***************************************************************************)

LEMMA AddKeeps ==
  ASSUME ApprovalAssumption, ApprovalInv, NEW ns \in Projects, NEW all \in BOOLEAN,
         NEW R \in SUBSET rows, runNo < MaxRuns, watched' \in WatchType,
         AddToasts(watched', ns, all, R),
         toasts' \subseteq toasts, \A x \in toasts' : x.run \in late',
         late \cup Overlapping \subseteq late',
         UNCHANGED <<rows, groups, authorized, unread>>
  PROVE  WorkType' /\ KnownOk' /\ RunsOk' /\ RowsOk' /\ LastOk' /\ ToastsOk'
<1> DEFINE fresh == StartRun(runNo + 1, watched', ns, all, groups)
<1>1. /\ runNo' = runNo + 1 /\ runs' = runs \cup fresh /\ missed' = {}
      /\ lookups' = lookups \cup RunLookups(fresh) \cup RowLookups(R, groups)
  BY DEF AddToasts
<1>2. /\ runNo \in 1 .. MaxRuns /\ MaxRuns \in Nat /\ runNo + 1 \in RunNos /\ runNo \in Int
      /\ rows \subseteq TaskSet /\ groups \in SUBSET AllGroups /\ groups \subseteq Memberships
  BY DEF ApprovalInv, ApprovalTypeOK, RunNos, ApprovalAssumption
<1>3. \A r \in fresh :
        /\ r \in Run /\ r.no = runNo + 1 /\ r.known = groups
        /\ r.answered = Answered(watched') /\ r.left = watched'.awaiting /\ r.left # {}
        /\ r.found = {}
  BY <1>2, StartRunOk
<1>4. (\A r, q \in fresh : r = q) /\ (watched'.awaiting # {} => fresh # {}) BY DEF StartRun
<1> HIDE DEF fresh
<1>5. /\ \A l \in RunLookups(fresh) : \E r \in fresh :
           l \in Lookup /\ l.by = r.no /\ l.task = First(r.left) /\ l.known = r.known
             /\ l.at = 1 /\ l.at <= Len(GroupsOf[l.task]) + 1
      /\ \A r \in fresh : \E l \in RunLookups(fresh) : l.by = r.no /\ l.task = First(r.left)
      /\ \A l, m \in RunLookups(fresh) : l.by = m.by => l = m
  <2>1. fresh \subseteq Run /\ \A r \in fresh : r.left # {} BY <1>3
  <2>2. \A r, q \in fresh : r.no = q.no => r = q BY <1>4
  <2> QED BY <2>1, <2>2, RunLookupsOk
<1>6. \A l \in RowLookups(R, groups) :
        l \in Lookup /\ l.by = Row /\ l.task \in R /\ l.known = groups /\ l.at = 1
          /\ l.at <= Len(GroupsOf[l.task]) + 1
  BY <1>2, RowLookupsOk
<1>7. WorkType /\ KnownOk /\ RunsOk /\ RowsOk /\ LastOk /\ ToastsOk
  BY DEF ApprovalInv, ApprovalTypeOK, WorkType
<1>8. /\ \A r \in runs : r \in Run /\ r.no <= runNo /\ r.no \in Int
      /\ \A l \in lookups : l.by \in Int /\ l.by <= runNo
  <2>1. \A r \in runs : r \in Run /\ r.no <= runNo /\ r.no \in Int
    BY <1>7 DEF WorkType, RunsOk, Run, RunNos
  <2>2. \A l \in lookups : l.by \in RunNos \cup {Row} BY <1>7 DEF WorkType, Lookup
  <2> QED BY <1>2, <1>7, <2>1, <2>2 DEF RunsOk, RunNos, Row
<1>9. WorkType'
  <2>1. \A r \in runs' : r.left # {} /\ \E l \in lookups' : l.by = r.no /\ l.task = First(r.left)
    BY <1>1, <1>3, <1>5, <1>7 DEF WorkType
  <2>2. \A l \in lookups' : l \in Lookup /\ l.at <= Len(GroupsOf[l.task]) + 1
    BY <1>1, <1>5, <1>6, <1>7 DEF WorkType
  <2>3. runs' \subseteq Run BY <1>1, <1>3, <1>8
  <2> QED BY <1>1, <1>2, <2>1, <2>2, <2>3 DEF WorkType
<1>a. KnownOk'
  <2>1. \A l \in RunLookups(fresh) : l.by # Row /\ l.known \subseteq Memberships
    BY <1>2, <1>3, <1>5 DEF Row
  <2>2. \A l \in lookups' : l.known \subseteq Memberships /\ (l.by = Row => l.task \in rows)
    BY <1>1, <1>2, <1>6, <1>7, <2>1 DEF KnownOk
  <2>3. \A r \in runs' : r.known \subseteq Memberships BY <1>1, <1>2, <1>3, <1>7 DEF KnownOk
  <2> QED BY <2>2, <2>3 DEF KnownOk
<1>b. RunsOk'
  <2>1. \A r \in runs' : r.no <= runNo' BY <1>1, <1>2, <1>3, <1>8
  <2>2. \A r, q \in runs' : r.no = q.no => r = q
    BY <1>1, <1>2, <1>3, <1>4, <1>7, <1>8 DEF RunsOk
  <2>3. \A l \in lookups' : l.by # Row => \E r \in runs' : r.no = l.by /\ l.task = First(r.left)
    BY <1>1, <1>5, <1>6, <1>7 DEF RunsOk
  <2>4. \A l \in RunLookups(fresh) : l.by = runNo + 1 BY <1>3, <1>5
  <2>5. ASSUME NEW l \in lookups', NEW m \in lookups', l.by # Row, l.by = m.by PROVE l = m
    <3>1. l \in RunLookups(fresh) \cup lookups /\ m \in RunLookups(fresh) \cup lookups
      BY <1>1, <1>6, <2>5
    <3>2. \A k \in lookups : k.by # runNo + 1 BY <1>2, <1>8
    <3>3. CASE l \in lookups /\ m \in lookups BY <2>5, <3>3, <1>7 DEF RunsOk
    <3>4. CASE l \in RunLookups(fresh) /\ m \in RunLookups(fresh) BY <2>5, <3>4, <1>5
    <3> QED BY <2>4, <2>5, <3>1, <3>2, <3>3, <3>4
  <2> QED BY <2>1, <2>2, <2>3, <2>5 DEF RunsOk
<1>c. RowsOk'
  <2>1. lookups \subseteq lookups' BY <1>1
  <2> QED BY <1>7, <2>1 DEF RowsOk, Approver, NoneBefore
<1>d. LastOk'
  <2>1. ASSUME NEW r \in runs', r.no = runNo' PROVE r \in fresh BY <1>1, <1>2, <1>8, <2>1
  <2>2. \A r \in fresh : /\ r.answered = Answered(watched') /\ r.left \subseteq watched'.awaiting
                         /\ r.found \subseteq Waiting'
    BY <1>3
  <2>3. ASSUME NEW l \in lookups', l.by = runNo' PROVE NoneBefore(l)
    <3>1. l \notin lookups BY <1>1, <1>2, <1>8, <2>3
    <3>2. l.at = 1 BY <1>1, <1>5, <1>6, <3>1
    <3> QED BY <3>2, NoneBeforeFirst
  <2>4. ASSUME NEW t \in Waiting' PROVE \E r \in runs' : r.no = runNo' /\ t \in r.left
    <3>1. t \in watched'.awaiting BY DEF Waiting
    <3>2. PICK r \in fresh : TRUE BY <1>4, <3>1
    <3> QED BY <1>1, <1>3, <3>1, <3>2
  <2>5. Answered(watched)' = Answered(watched') BY DEF Answered
  <2>6. \A l : NoneBefore(l)' <=> NoneBefore(l) BY DEF NoneBefore
  <2> QED BY <2>1, <2>2, <2>3, <2>4, <2>5, <2>6 DEF LastOk
<1>e. ToastsOk'
  <2>1. ASSUME NEW r \in runs' PROVE r.no = runNo' \/ {r.no, runNo'} \subseteq late'
    <3>1. CASE r \in fresh BY <1>1, <1>3, <3>1
    <3>2. CASE r \in runs BY <1>1, <3>2 DEF Overlapping
    <3> QED BY <1>1, <3>1, <3>2
  <2>2. \A x \in toasts' : x.run <= runNo'
    <3>1. \A x \in toasts : x \in Toast /\ x.run <= runNo BY <1>7 DEF ApprovalInv, ApprovalTypeOK, ToastsOk
    <3>2. \A x \in toasts : x.run \in Int BY <3>1 DEF Toast, RunNos
    <3> QED BY <1>1, <1>2, <3>1, <3>2
  <2> QED BY <2>1, <2>2 DEF ToastsOk
<1> QED BY <1>9, <1>a, <1>b, <1>c, <1>d, <1>e

-----------------------------------------------------------------------------
(***************************************************************************)
(* Approvals: a lookup ends.                                               *)
(***************************************************************************)

\* The toasts of a run are about what it has found, and about all of it.
LEMMA ToastsOfOk ==
  ASSUME ApprovalAssumption, NEW r \in Run
  PROVE  /\ \A x \in ToastsOf(r) : x \in Toast /\ x.run = r.no /\ x.about \subseteq r.found
         /\ \A t \in r.found : \E x \in ToastsOf(r) : t \in x.about
<1> DEFINE here == {t \in r.found : ProjectOf[t] = r.ns}
           there == r.found \ here
           Tell(k, T) == IF T = {} THEN {} ELSE {[run |-> r.no, key |-> k, about |-> T]}
           Of(ns) == {t \in there : ProjectOf[t] = ns}
<1>1. r.no \in RunNos /\ r.found \subseteq TaskSet BY DEF Run
<1>2. ToastsOf(r) = Tell("current", here) \cup
        IF r.all THEN Tell("all", there) ELSE UNION {Tell(ns, Of(ns)) : ns \in Projects}
  BY DEF ToastsOf
<1>3. \A t \in TaskSet : ProjectOf[t] \in Projects BY DEF ApprovalAssumption
<1>4. ASSUME NEW k \in Keys, NEW T \in SUBSET r.found
      PROVE  /\ \A x \in Tell(k, T) : x \in Toast /\ x.run = r.no /\ x.about \subseteq r.found
             /\ \A t \in T : \E x \in Tell(k, T) : t \in x.about
  <2> DEFINE x == [run |-> r.no, key |-> k, about |-> T]
  <2>1. x \in Toast /\ x.run = r.no /\ x.about = T BY <1>1 DEF Toast
  <2>2. Tell(k, T) = IF T = {} THEN {} ELSE {x} OBVIOUS
  <2> HIDE DEF x, Tell
  <2> QED BY <2>1, <2>2
<1>5. {"current", "all"} \subseteq Keys /\ Projects \subseteq Keys BY DEF Keys
<1>6. here \subseteq r.found /\ there \subseteq r.found /\ \A ns : Of(ns) \subseteq r.found
  OBVIOUS
<1>7. here \cup there = r.found /\ \A t \in there : t \in Of(ProjectOf[t]) /\ ProjectOf[t] \in Projects
  BY <1>1, <1>3
<1> HIDE DEF here, there, Tell, Of
<1>8. ASSUME NEW x \in ToastsOf(r)
      PROVE  x \in Toast /\ x.run = r.no /\ x.about \subseteq r.found
  <2>1. CASE x \in Tell("current", here) BY <2>1, <1>4, <1>5, <1>6
  <2>2. CASE x \in Tell("all", there) BY <2>2, <1>4, <1>5, <1>6
  <2>3. CASE x \in UNION {Tell(ns, Of(ns)) : ns \in Projects}
    <3>1. PICK ns \in Projects : x \in Tell(ns, Of(ns)) BY <2>3
    <3> QED BY <3>1, <1>4, <1>5, <1>6
  <2> QED BY <1>2, <2>1, <2>2, <2>3
<1>9. ASSUME NEW t \in r.found PROVE \E x \in ToastsOf(r) : t \in x.about
  <2>1. CASE t \in here
    <3>1. \E x \in Tell("current", here) : t \in x.about BY <2>1, <1>4, <1>5, <1>6
    <3> QED BY <3>1, <1>2
  <2>2. CASE t \in there /\ r.all
    <3>1. \E x \in Tell("all", there) : t \in x.about BY <2>2, <1>4, <1>5, <1>6
    <3> QED BY <3>1, <2>2, <1>2
  <2>3. CASE t \in there /\ ~r.all
    <3>1. t \in Of(ProjectOf[t]) /\ ProjectOf[t] \in Projects BY <2>3, <1>7
    <3>2. \E x \in Tell(ProjectOf[t], Of(ProjectOf[t])) : t \in x.about
      BY <3>1, <1>4, <1>5, <1>6
    <3> QED BY <3>1, <3>2, <2>3, <1>2
  <2> QED BY <1>7, <2>1, <2>2, <2>3
<1> QED BY <1>8, <1>9

\* The toasts that are shown are those their keys stand for.
LEMMA ShowOk ==
  ASSUME ApprovalInv, NEW n \in RunNos, NEW T, \A x \in T : x \in Toast /\ x.run = n, Show(T)
  PROVE  /\ toasts' = toasts \cup T /\ toasts' \subseteq Toast
         /\ tracked' \in [Keys -> {0} \cup RunNos]
         /\ \A x \in T : tracked'[x.key] = n
         /\ \A k \in Keys : tracked'[k] \in {tracked[k], n}
         /\ T = {} => tracked' = tracked
<1>1. toasts \subseteq Toast /\ tracked \in [Keys -> {0} \cup RunNos]
  BY DEF ApprovalInv, ApprovalTypeOK
<1>2. /\ toasts' = toasts \cup T
      /\ tracked' = [k \in Keys |-> IF \E x \in T : x.key = k
                                      THEN (CHOOSE x \in T : x.key = k).run ELSE tracked[k]]
  BY DEF Show
<1>3. \A k \in Keys : tracked'[k] = IF \E x \in T : x.key = k THEN n ELSE tracked[k]
  <2> SUFFICES ASSUME NEW k \in Keys, \E x \in T : x.key = k
               PROVE  (CHOOSE x \in T : x.key = k).run = n
    BY <1>2
  <2>1. (CHOOSE x \in T : x.key = k) \in T OBVIOUS
  <2> QED BY <2>1
<1>4. tracked' \in [Keys -> {0} \cup RunNos]
  <2>1. \A k \in Keys : tracked'[k] \in {0} \cup RunNos BY <1>1, <1>3
  <2> QED BY <1>2, <2>1
<1>5. \A x \in T : x.key \in Keys BY DEF Toast
<1>6. T = {} => tracked' = tracked BY <1>1, <1>2
<1> QED BY <1>1, <1>2, <1>3, <1>4, <1>5, <1>6

LEMMA TheRun ==
  ASSUME ApprovalAssumption, ApprovalInv, NEW l \in lookups, l.by # Row
  PROVE  LET r == CHOOSE r \in runs : r.no = l.by
         IN  /\ r \in runs /\ r \in Run /\ r.no = l.by
             /\ l.task = First(r.left) /\ l.task \in r.left
<1> DEFINE r == CHOOSE r \in runs : r.no = l.by
<1>1. \E q \in runs : q.no = l.by /\ l.task = First(q.left) BY DEF ApprovalInv, RunsOk
<1>2. r \in runs /\ r.no = l.by BY <1>1
<1>3. l.task = First(r.left) BY <1>1, <1>2 DEF ApprovalInv, RunsOk
<1>4. r \in Run /\ r.left # {} /\ r.left \subseteq TaskSet
  <2>1. r \in Run /\ r.left # {} BY <1>2 DEF ApprovalInv, ApprovalTypeOK
  <2> QED BY <2>1 DEF Run
<1> QED BY <1>2, <1>3, <1>4, FirstIsIn

\* What further lookups have to be: those of rows, from what is known of the user.
ForRows(further) ==
  \A k \in further :
    /\ k \in Lookup /\ k.by = Row /\ k.task \in rows /\ k.known \subseteq Memberships
    /\ k.at <= Len(GroupsOf[k.task]) + 1

\* Toasts and rows have their types, and who is told to be an approver is one.
ShownOk ==
  /\ toasts \subseteq Toast /\ tracked \in [Keys -> {0} \cup RunNos]
  /\ authorized \in [rows -> {"unknown", "yes", "no"}]
  /\ \A t \in rows : authorized[t] = "yes" => Approver(t)

LEMMA SettleOfRow ==
  ASSUME ApprovalAssumption, ApprovalInv, NEW l \in lookups, l.by = Row, NEW ok \in BOOLEAN,
         NEW further, ForRows(further), SettleLookup(l, ok, further), ok => Approver(l.task),
         UNCHANGED <<rows, watched, runNo, missed, late>>
  PROVE  WorkType' /\ KnownOk' /\ RunsOk' /\ LastOk' /\ ToastsOk' /\ ShownOk'
<1>1. /\ authorized' = [authorized EXCEPT ![l.task] = IF ok THEN "yes" ELSE "no"]
      /\ lookups' = (lookups \ {l}) \cup further
      /\ UNCHANGED <<runs, toasts, tracked>>
  BY DEF SettleLookup
<1>2. WorkType /\ KnownOk /\ RunsOk /\ RowsOk /\ LastOk /\ ToastsOk
  BY DEF ApprovalInv, ApprovalTypeOK, WorkType
<1>3. \A r \in runs : r.no # Row /\ r.no \in RunNos BY <1>2 DEF WorkType, Run, RunNos, Row
<1>4. runNo # Row BY <1>2 DEF WorkType, RunNos, Row
<1>5. WorkType'
  <2>1. \A r \in runs : \E k \in lookups' : k.by = r.no /\ k.task = First(r.left)
    BY <1>1, <1>2, <1>3 DEF WorkType
  <2>2. \A k \in lookups' : k \in Lookup /\ k.at <= Len(GroupsOf[k.task]) + 1
    BY <1>1, <1>2 DEF WorkType, ForRows
  <2> QED BY <1>1, <1>2, <2>1, <2>2 DEF WorkType
<1>6. KnownOk' BY <1>1, <1>2 DEF KnownOk, ForRows
<1>7. RunsOk' BY <1>1, <1>2 DEF RunsOk, ForRows
<1>8. LastOk'
  <2>1. \A k \in lookups' : k.by = runNo => k \in lookups BY <1>1, <1>4 DEF ForRows
  <2> QED BY <1>1, <1>2, <2>1 DEF LastOk, Waiting, Approver, Answered, NoneBefore
<1>9. ToastsOk' BY <1>1, <1>2 DEF ToastsOk, Waiting, Approver
<1>a. ShownOk'
  <2>1. /\ authorized \in [rows -> {"unknown", "yes", "no"}] /\ toasts \subseteq Toast
        /\ tracked \in [Keys -> {0} \cup RunNos]
    BY DEF ApprovalInv, ApprovalTypeOK
  <2>2. authorized' \in [rows -> {"unknown", "yes", "no"}] BY <1>1, <2>1
  <2>3. \A t \in rows : authorized'[t] = "yes" => Approver(t)
    <3>1. \A t \in rows : t # l.task => authorized'[t] = authorized[t] BY <1>1, <2>1
    <3>2. l.task \in rows => authorized'[l.task] = IF ok THEN "yes" ELSE "no" BY <1>1, <2>1
    <3> QED BY <1>2, <3>1, <3>2 DEF RowsOk
  <2> QED BY <1>1, <2>1, <2>2, <2>3 DEF ShownOk, Approver
<1> QED BY <1>5, <1>6, <1>7, <1>8, <1>9, <1>a

\* A run goes on with what is left of it, or shows its toasts.
LEMMA SettleOfRun ==
  ASSUME ApprovalAssumption, ApprovalInv, NEW l \in lookups, l.by # Row, NEW ok \in BOOLEAN,
         NEW further, ForRows(further), SettleLookup(l, ok, further), ok => Approver(l.task),
         Approver(l.task) /\ NoneBefore(l) => ok,
         UNCHANGED <<rows, watched, runNo, missed, late>>
  PROVE  WorkType' /\ KnownOk' /\ RunsOk' /\ LastOk' /\ ToastsOk' /\ ShownOk'
<1> DEFINE r == CHOOSE r \in runs : r.no = l.by
           rest == [r EXCEPT !.left = @ \ {l.task},
                             !.found = IF ok THEN @ \cup ({l.task} \ r.answered) ELSE @]
           going == IF rest.left = {} THEN {} ELSE {rest}
           T == IF going = {} THEN ToastsOf(rest) ELSE {}
<1>1. /\ runs' = (runs \ {r}) \cup going
      /\ lookups' = (lookups \ {l}) \cup further \cup RunLookups(going)
      /\ Show(T) /\ UNCHANGED authorized
  BY DEF SettleLookup
<1>2. r \in runs /\ r \in Run /\ r.no = l.by /\ l.task \in r.left BY TheRun
<1>3. /\ rest \in Run /\ rest.no = r.no /\ rest.known = r.known /\ rest.answered = r.answered
      /\ rest.left = r.left \ {l.task}
      /\ rest.found = IF ok THEN r.found \cup ({l.task} \ r.answered) ELSE r.found
  BY <1>2 DEF Run
<1> HIDE DEF r, rest
<1>4. /\ \A q \in going : q = rest /\ q \in Run /\ q.left # {}
      /\ rest.left # {} => rest \in going
  BY <1>3
<1>5. WorkType /\ KnownOk /\ RunsOk /\ RowsOk /\ LastOk /\ ToastsOk
  BY DEF ApprovalInv, ApprovalTypeOK, WorkType
<1>6. T = {} \/ (T = ToastsOf(rest) /\ rest.left = {}) BY <1>4
<1>7. rest.left = {} => T = ToastsOf(rest) OBVIOUS
<1> HIDE DEF going, T
<1>8. /\ \A k \in RunLookups(going) :
           k \in Lookup /\ k.by = r.no /\ k.task = First(rest.left) /\ k.known = r.known
             /\ k.at = 1 /\ k.at <= Len(GroupsOf[k.task]) + 1 /\ going = {rest}
      /\ \A q \in going : \E k \in RunLookups(going) : k.by = q.no /\ k.task = First(q.left)
      /\ \A k, m \in RunLookups(going) : k.by = m.by => k = m
  <2>1. going \subseteq Run /\ \A q \in going : q.left # {} BY <1>4
  <2>2. \A p, q \in going : p.no = q.no => p = q BY <1>4
  <2>3. \A q \in going : q.no = r.no /\ q.known = r.known /\ q.left = rest.left /\ going = {rest}
    BY <1>3, <1>4
  <2>4. /\ \A k \in RunLookups(going) : \E q \in going :
             k \in Lookup /\ k.by = q.no /\ k.task = First(q.left) /\ k.known = q.known
               /\ k.at = 1 /\ k.at <= Len(GroupsOf[k.task]) + 1
        /\ \A q \in going : \E k \in RunLookups(going) : k.by = q.no /\ k.task = First(q.left)
        /\ \A k, m \in RunLookups(going) : k.by = m.by => k = m
    BY <2>1, <2>2, RunLookupsOk
  <2> QED BY <2>3, <2>4
<1>9. /\ \A q \in runs : q # r => q.no # r.no
      /\ \A k \in lookups : k.by = r.no => k = l
  BY <1>2, <1>5 DEF RunsOk
<1>a. r.no \in RunNos /\ r.no # Row BY <1>2 DEF Run, RunNos, Row
<1>b. /\ \A x \in T : x \in Toast /\ x.run = r.no /\ x.about \subseteq rest.found
      /\ rest.left = {} => \A t \in rest.found : \E x \in T : t \in x.about
  <2>1. /\ \A x \in ToastsOf(rest) : x \in Toast /\ x.run = rest.no /\ x.about \subseteq rest.found
        /\ \A t \in rest.found : \E x \in ToastsOf(rest) : t \in x.about
    BY <1>3, ToastsOfOk
  <2> QED BY <2>1, <1>3, <1>6, <1>7
<1>c. /\ toasts' = toasts \cup T /\ toasts' \subseteq Toast
      /\ tracked' \in [Keys -> {0} \cup RunNos]
      /\ \A x \in T : tracked'[x.key] = r.no
      /\ \A k \in Keys : tracked'[k] \in {tracked[k], r.no}
      /\ T = {} => tracked' = tracked
  <2>1. \A x \in T : x \in Toast /\ x.run = r.no BY <1>b
  <2>2. Show(T) BY <1>1
  <2> QED BY <1>a, <2>1, <2>2, ShowOk

<1>d. WorkType'
  <2>1. ASSUME NEW q \in runs' PROVE q.left # {} /\ \E k \in lookups' : k.by = q.no /\ k.task = First(q.left)
    <3>1. CASE q \in runs \ {r}
      <4>1. PICK k \in lookups : k.by = q.no /\ k.task = First(q.left) BY <3>1, <1>5 DEF WorkType
      <4>2. k # l BY <3>1, <4>1, <1>2, <1>9
      <4> QED BY <3>1, <4>1, <4>2, <1>1, <1>5 DEF WorkType
    <3>2. CASE q \in going BY <3>2, <1>1, <1>4, <1>8
    <3> QED BY <1>1, <3>1, <3>2
  <2>2. \A k \in lookups' : k \in Lookup /\ k.at <= Len(GroupsOf[k.task]) + 1
    BY <1>1, <1>5, <1>8 DEF WorkType, ForRows
  <2>3. runs' \subseteq Run BY <1>1, <1>4, <1>5 DEF WorkType
  <2> QED BY <1>5, <2>1, <2>2, <2>3 DEF WorkType
<1>e. KnownOk'
  <2>1. r.known \subseteq Memberships BY <1>2, <1>5 DEF KnownOk
  <2>2. \A k \in lookups' : k.known \subseteq Memberships /\ (k.by = Row => k.task \in rows)
    BY <1>1, <1>5, <1>8, <1>a, <2>1 DEF KnownOk, ForRows
  <2>3. \A q \in runs' : q.known \subseteq Memberships BY <1>1, <1>3, <1>4, <1>5, <2>1 DEF KnownOk
  <2> QED BY <2>2, <2>3 DEF KnownOk
<1>f. RunsOk'
  <2>1. \A q \in runs' : q.no <= runNo' BY <1>1, <1>2, <1>3, <1>4, <1>5 DEF RunsOk
  <2>2. \A p, q \in runs' : p.no = q.no => p = q BY <1>1, <1>3, <1>4, <1>5, <1>9 DEF RunsOk
  <2>3. ASSUME NEW k \in lookups', k.by # Row
        PROVE  \E q \in runs' : q.no = k.by /\ k.task = First(q.left)
    <3>1. CASE k \in lookups /\ k # l
      <4>1. PICK q \in runs : q.no = k.by /\ k.task = First(q.left) BY <2>3, <3>1, <1>5 DEF RunsOk
      <4>2. q # r BY <3>1, <4>1, <1>9
      <4> QED BY <4>1, <4>2, <1>1
    <3>2. CASE k \in RunLookups(going) BY <3>2, <1>1, <1>3, <1>8
    <3> QED BY <1>1, <2>3, <3>1, <3>2 DEF ForRows
  <2>4. ASSUME NEW k \in lookups', NEW m \in lookups', k.by # Row, k.by = m.by PROVE k = m
    <3>1. k \in (lookups \ {l}) \cup RunLookups(going) /\ m \in (lookups \ {l}) \cup RunLookups(going)
      BY <1>1, <2>4 DEF ForRows
    <3>2. CASE k \in lookups \ {l} /\ m \in lookups \ {l} BY <2>4, <3>2, <1>5 DEF RunsOk
    <3>3. CASE k \in RunLookups(going) /\ m \in RunLookups(going) BY <2>4, <3>3, <1>8
    <3> QED BY <2>4, <3>1, <3>2, <3>3, <1>8, <1>9
  <2> QED BY <2>1, <2>2, <2>3, <2>4 DEF RunsOk
<1>g. r.no = runNo => /\ r.answered = Answered(watched) /\ rest.left \subseteq watched.awaiting
                      /\ rest.found \subseteq Waiting
  <2> SUFFICES ASSUME r.no = runNo PROVE /\ r.answered = Answered(watched)
                                         /\ rest.left \subseteq watched.awaiting
                                         /\ rest.found \subseteq Waiting
    OBVIOUS
  <2>1. /\ r.answered = Answered(watched) /\ r.left \subseteq watched.awaiting
        /\ r.found \subseteq Waiting
    BY <1>2, <1>5 DEF LastOk
  <2>2. l.task \in TaskSet BY <1>2 DEF Run
  <2>3. ok /\ l.task \notin r.answered => l.task \in Waiting
    BY <1>2, <2>1, <2>2 DEF Waiting, Answered
  <2> QED BY <1>3, <2>1, <2>3
<1>h. LastOk'
  <2>1. \A q \in runs' : q.no = runNo =>
          q.answered = Answered(watched) /\ q.left \subseteq watched.awaiting /\ q.found \subseteq Waiting
    BY <1>1, <1>3, <1>4, <1>5, <1>g DEF LastOk
  <2>2. \A k \in lookups' : k.by = runNo /\ k.task \notin missed => NoneBefore(k)
    <3>1. runNo # Row BY <1>5 DEF WorkType, RunNos, Row
    <3>2. \A k \in RunLookups(going) : NoneBefore(k) BY <1>8, NoneBeforeFirst
    <3> QED BY <1>1, <1>5, <3>1, <3>2 DEF LastOk, ForRows
  <2>3. ASSUME NEW t \in Waiting \ missed
        PROVE  \/ \E q \in runs' : q.no = runNo /\ t \in q.left \cup q.found
               \/ \E x \in toasts' : x.run = runNo /\ t \in x.about
    <3>1. CASE \E x \in toasts : x.run = runNo /\ t \in x.about BY <3>1, <1>c
    <3>2. CASE \E q \in runs \ {r} : q.no = runNo /\ t \in q.left \cup q.found BY <3>2, <1>1
    <3>3. CASE r.no = runNo /\ t \in r.left \cup r.found
      <4>1. t \in rest.left \cup rest.found
        <5>1. CASE t = l.task
          <6>1. ok
            <7>1. NoneBefore(l) BY <3>3, <5>1, <1>2, <1>5 DEF LastOk
            <7> QED BY <5>1, <7>1 DEF Waiting
          <6>2. t \notin r.answered BY <3>3, <1>2, <1>5 DEF LastOk, Waiting, Answered
          <6> QED BY <5>1, <6>1, <6>2, <1>3
        <5>2. CASE t # l.task BY <3>3, <5>2, <1>3
        <5> QED BY <5>1, <5>2
      <4>2. CASE rest.left # {} BY <3>3, <4>1, <4>2, <1>1, <1>3, <1>4
      <4>3. CASE rest.left = {} BY <3>3, <4>1, <4>3, <1>b, <1>c
      <4> QED BY <4>2, <4>3
    <3> QED BY <1>5, <3>1, <3>2, <3>3 DEF LastOk
  <2>4. Waiting' = Waiting /\ Answered(watched)' = Answered(watched) /\ \A k : NoneBefore(k)' <=> NoneBefore(k)
    BY DEF Waiting, Approver, Answered, NoneBefore
  <2> QED BY <2>1, <2>2, <2>3, <2>4 DEF LastOk
<1>i. ToastsOk'
  <2>1. \A q \in runs' : q.no = runNo \/ {q.no, runNo} \subseteq late
    BY <1>1, <1>2, <1>3, <1>4, <1>5 DEF ToastsOk
  <2>2. ASSUME NEW x \in toasts'
        PROVE  /\ x.run <= runNo
               /\ x.run \in late \/ (x.run = runNo /\ tracked'[x.key] = runNo /\ x.about \subseteq Waiting)
    <3>1. r.no <= runNo /\ (r.no = runNo \/ {r.no, runNo} \subseteq late)
      BY <1>2, <1>5 DEF RunsOk, ToastsOk
    <3>2. CASE x \in T
      <4>1. CASE r.no = runNo BY <3>1, <3>2, <4>1, <1>b, <1>c, <1>g
      <4>2. CASE {r.no, runNo} \subseteq late BY <3>1, <3>2, <4>2, <1>b
      <4> QED BY <3>1, <4>1, <4>2
    <3>3. CASE x \in toasts
      <4>1. x.key \in Keys BY <3>3 DEF ApprovalInv, ApprovalTypeOK, Toast
      <4>2. x.run <= runNo BY <3>3, <1>5 DEF ToastsOk
      <4>3. tracked'[x.key] \in {tracked[x.key], r.no} BY <4>1, <1>c
      <4> QED BY <3>1, <3>3, <4>2, <4>3, <1>5 DEF ToastsOk
    <3> QED BY <1>c, <3>2, <3>3
  <2> QED BY <2>1, <2>2 DEF ToastsOk, Waiting, Approver
<1>j. ShownOk'
  <2>1. authorized \in [rows -> {"unknown", "yes", "no"}] BY DEF ApprovalInv, ApprovalTypeOK
  <2> QED BY <2>1, <1>1, <1>5, <1>c DEF ShownOk, RowsOk, Approver
<1> QED BY <1>d, <1>e, <1>f, <1>h, <1>i, <1>j

LEMMA Settles ==
  ASSUME ApprovalAssumption, ApprovalInv, NEW l \in lookups, NEW ok \in BOOLEAN,
         NEW further, ForRows(further), SettleLookup(l, ok, further), ok => Approver(l.task),
         Approver(l.task) /\ NoneBefore(l) => ok,
         UNCHANGED <<rows, watched, runNo, missed, late>>
  PROVE  /\ WorkType' /\ KnownOk' /\ RunsOk' /\ LastOk' /\ ToastsOk' /\ ShownOk'
         /\ (lookups \ {l}) \cup further \subseteq lookups'
<1>1. (lookups \ {l}) \cup further \subseteq lookups' BY DEF SettleLookup
<1> QED BY <1>1, SettleOfRow, SettleOfRun

-----------------------------------------------------------------------------
(***************************************************************************)
(* Approvals: each action keeps the invariant.                             *)
(***************************************************************************)

\* What a lookup knows of its next group, or that there is none.
LEMMA LookupAt ==
  ASSUME ApprovalAssumption, ApprovalInv, NEW l \in lookups
  PROVE  /\ l \in Lookup /\ l.task \in TaskSet /\ l.at \in Nat \ {0}
         /\ l.at <= Len(GroupsOf[l.task]) + 1 /\ Len(GroupsOf[l.task]) \in Nat
         /\ l.known \in SUBSET AllGroups /\ l.known \subseteq Memberships
         /\ l.at <= Len(GroupsOf[l.task]) =>
              GroupsOf[l.task][l.at] \in Range(GroupsOf[l.task]) \cap AllGroups
<1>1. l \in Lookup /\ l.at <= Len(GroupsOf[l.task]) + 1 /\ l.known \subseteq Memberships
  BY DEF ApprovalInv, ApprovalTypeOK, KnownOk
<1>2. l.task \in TaskSet /\ l.at \in Nat \ {0} /\ l.known \in SUBSET AllGroups
  BY <1>1 DEF Lookup
<1> QED BY <1>1, <1>2, GroupsAre

LEMMA LookKnownStep ==
  ASSUME ApprovalAssumption, ApprovalInv, NEW l \in lookups, LookKnown(l)
  PROVE  ApprovalInv'
<1>1. /\ SettleLookup(l, Known(l), {})
      /\ UNCHANGED <<tasksMounted, inCluster, tasksPage, groups, runNo, missed, late, dialog,
                     unread, claims, changes, lookupFaults>>
      /\ ~Asks(l)
  BY DEF LookKnown
<1>2. Known(l) \in BOOLEAN BY DEF Known
<1>3. Known(l) => /\ l.task \in UserTasks
                     \/ GroupsOf[l.task][l.at] \in Range(GroupsOf[l.task]) \cap l.known
                  /\ Approver(l.task)
  BY <1>1, LookupAt DEF Known, Asks, Approver
<1>4. Approver(l.task) /\ NoneBefore(l) => Known(l)
  <2> SUFFICES ASSUME Approver(l.task), l.task \notin UserTasks, ~(l.at <= Len(GroupsOf[l.task]))
               PROVE  ~NoneBefore(l)
    BY DEF Known
  <2>1. PICK g \in Range(GroupsOf[l.task]) : g \in Memberships BY DEF Approver
  <2>2. l.task \in TaskSet /\ l.at \in Nat /\ Len(GroupsOf[l.task]) \in Nat BY LookupAt
  <2>3. PICK i \in 1 .. Len(GroupsOf[l.task]) : g = GroupsOf[l.task][i]
    BY <2>2, GroupsAre DEF Range
  <2>4. i < l.at BY <2>2, <2>3
  <2> QED BY <2>1, <2>3, <2>4 DEF NoneBefore
<1>5. ForRows({}) BY DEF ForRows
<1>6. /\ WorkType' /\ KnownOk' /\ RunsOk' /\ LastOk' /\ ToastsOk' /\ ShownOk'
      /\ lookups \ {l} \subseteq lookups'
  BY <1>1, <1>2, <1>3, <1>4, <1>5, Settles DEF tasksPage
<1>7. ApprovalTypeOK'
  BY <1>1, <1>6 DEF ApprovalInv, ApprovalTypeOK, WorkType, ShownOk, inCluster, tasksPage
<1>8. RowsOk'
  <2>1. ASSUME NEW t \in rows \ unread, Approver(t), t \notin UserTasks
        PROVE  \/ Range(GroupsOf[t]) \cap groups # {}
               \/ \E k \in lookups' : k.by = Row /\ k.task = t /\ k.known = groups /\ NoneBefore(k)
    <3>1. CASE Range(GroupsOf[t]) \cap groups # {} BY <3>1
    <3>2. ASSUME NEW k \in lookups, k.by = Row, k.task = t, k.known = groups, NoneBefore(k)
          PROVE  \/ Range(GroupsOf[t]) \cap groups # {}
                 \/ k \in lookups'
      BY <1>3, <1>4, <1>6, <2>1, <3>2
    <3> QED BY <2>1, <3>1, <3>2 DEF ApprovalInv, RowsOk
  <2>2. rows' = rows /\ unread' = unread /\ groups' = groups BY <1>1 DEF tasksPage
  <2> QED BY <1>6, <2>1, <2>2 DEF RowsOk, ShownOk, Approver, NoneBefore
<1>9. DialogOk' BY <1>1 DEF ApprovalInv, DialogOk, Recorded
<1> QED BY <1>6, <1>7, <1>8, <1>9 DEF ApprovalInv

LEMMA LookFoundStep ==
  ASSUME ApprovalAssumption, ApprovalInv, NEW l \in lookups, LookFound(l)
  PROVE  ApprovalInv'
<1> DEFINE g == GroupsOf[l.task][l.at]
<1>1. /\ SettleLookup(l, TRUE, RowLookups(rows, groups'))
      /\ UNCHANGED <<tasksMounted, inCluster, tasksPage, runNo, missed, late, dialog, claims,
                     changes, lookupFaults>>
      /\ groups' = l.known \cup {g} /\ unread' = {}
      /\ g \in Memberships /\ Asks(l)
  BY DEF LookFound, Learn
<1>2. /\ g \in Range(GroupsOf[l.task]) \cap AllGroups
      /\ groups' \in SUBSET AllGroups /\ groups' \subseteq Memberships
  BY <1>1, LookupAt DEF Asks
<1>3. Approver(l.task) BY <1>1, <1>2 DEF Approver
<1>4. rows \subseteq TaskSet /\ rows' = rows /\ watched' = watched
  BY <1>1 DEF ApprovalInv, ApprovalTypeOK, tasksPage
<1> HIDE DEF g
<1> DEFINE further == RowLookups(rows, groups')
<1>5. /\ \A k \in further :
           k \in Lookup /\ k.by = Row /\ k.task \in rows /\ k.known = groups' /\ k.at = 1
             /\ k.at <= Len(GroupsOf[k.task]) + 1
      /\ \A t \in rows : \E k \in further :
           k.by = Row /\ k.task = t /\ k.known = groups' /\ k.at = 1
  BY <1>2, <1>4, RowLookupsOk
<1>6. SettleLookup(l, TRUE, further) BY <1>1
<1> HIDE DEF further
<1>7. ForRows(further) BY <1>2, <1>5 DEF ForRows
<1>8. /\ WorkType' /\ KnownOk' /\ RunsOk' /\ LastOk' /\ ToastsOk' /\ ShownOk'
      /\ further \subseteq lookups'
  BY <1>1, <1>3, <1>4, <1>6, <1>7, Settles
<1>9. ApprovalTypeOK'
  BY <1>1, <1>2, <1>8 DEF ApprovalInv, ApprovalTypeOK, WorkType, ShownOk, inCluster, tasksPage
<1>a. RowsOk'
  <2>1. ASSUME NEW t \in rows
        PROVE  \E k \in lookups' : k.by = Row /\ k.task = t /\ k.known = groups' /\ NoneBefore(k)
    BY <1>5, <1>8, NoneBeforeFirst
  <2> QED BY <1>4, <1>8, <2>1 DEF RowsOk, ShownOk, Approver, NoneBefore
<1>b. DialogOk' BY <1>1 DEF ApprovalInv, DialogOk, Recorded
<1> QED BY <1>8, <1>9, <1>a, <1>b DEF ApprovalInv

LEMMA LookOnStep ==
  ASSUME ApprovalAssumption, ApprovalInv, NEW l \in lookups, LookOn(l)
  PROVE  ApprovalInv'
<1> DEFINE next == [l EXCEPT !.at = @ + 1]
           g == GroupsOf[l.task][l.at]
<1>1. /\ lookups' = (lookups \ {l}) \cup {next} /\ Asks(l)
      /\ UNCHANGED <<tasksMounted, inCluster, tasksPage, groups, runs, runNo, toasts, tracked,
                     late, authorized, dialog, claims, changes>>
  BY DEF LookOn
<1>2. \/ /\ g \in Memberships /\ lookupFaults' \in 0 .. MaxLookupFaults
         /\ missed' = (IF l.by = runNo THEN missed \cup {l.task} ELSE missed)
         /\ unread' = (IF l.by = Row /\ l.known = groups THEN unread \cup {l.task} ELSE unread)
      \/ g \notin Memberships /\ UNCHANGED <<missed, unread, lookupFaults>>
  BY DEF LookOn, LookupFault, ApprovalInv, ApprovalTypeOK, ApprovalAssumption
<1>3. /\ l \in Lookup /\ l.task \in TaskSet /\ l.at \in Nat \ {0}
      /\ l.at <= Len(GroupsOf[l.task]) /\ Len(GroupsOf[l.task]) \in Nat
      /\ l.known \subseteq Memberships
  BY <1>1, LookupAt DEF Asks
<1>4. /\ next \in Lookup /\ next.by = l.by /\ next.task = l.task /\ next.known = l.known
      /\ next.at = l.at + 1 /\ next.at <= Len(GroupsOf[next.task]) + 1
  BY <1>3 DEF Lookup
<1>5. g \notin Memberships /\ NoneBefore(l) => NoneBefore(next)
  <2> SUFFICES ASSUME g \notin Memberships, NoneBefore(l),
                      NEW i \in 1 .. Len(GroupsOf[next.task]), i < next.at
               PROVE  GroupsOf[next.task][i] \notin Memberships
    BY DEF NoneBefore
  <2>1. i < l.at \/ i = l.at BY <1>3, <1>4
  <2> QED BY <1>3, <1>4, <2>1 DEF NoneBefore
<1> HIDE DEF next, g
<1>6. WorkType /\ KnownOk /\ RunsOk /\ RowsOk /\ LastOk /\ ToastsOk
  BY DEF ApprovalInv, ApprovalTypeOK, WorkType
<1>7. /\ rows' = rows /\ watched' = watched /\ missed \subseteq missed' /\ unread \subseteq unread'
      /\ missed' \subseteq missed \cup {l.task}
      /\ unread' \subseteq unread \cup {l.task} /\ (unread' = unread \/ l.task \in rows)
  BY <1>1, <1>2, <1>6 DEF tasksPage, KnownOk
<1>8. WorkType'
  <2>1. ASSUME NEW r \in runs PROVE \E k \in lookups' : k.by = r.no /\ k.task = First(r.left)
    <3>1. PICK k \in lookups : k.by = r.no /\ k.task = First(r.left) BY <1>6 DEF WorkType
    <3> QED BY <3>1, <1>1, <1>4
  <2> QED BY <2>1, <1>1, <1>4, <1>6 DEF WorkType
<1>9. ApprovalTypeOK'
  <2>1. missed' \subseteq TaskSet /\ unread' \subseteq rows /\ lookupFaults' \in 0 .. MaxLookupFaults
    BY <1>2, <1>3, <1>7 DEF ApprovalInv, ApprovalTypeOK
  <2> QED BY <1>1, <1>8, <2>1 DEF ApprovalInv, ApprovalTypeOK, WorkType, inCluster, tasksPage
<1>a. KnownOk' BY <1>1, <1>4, <1>6, <1>7 DEF KnownOk
<1>b. RunsOk' BY <1>1, <1>4, <1>6 DEF RunsOk
<1>c. RowsOk'
  <2>1. ASSUME NEW t \in rows \ unread', Approver(t), t \notin UserTasks
        PROVE  \/ Range(GroupsOf[t]) \cap groups # {}
               \/ \E k \in lookups' : k.by = Row /\ k.task = t /\ k.known = groups /\ NoneBefore(k)
    <3>1. CASE Range(GroupsOf[t]) \cap groups # {} BY <3>1
    <3>2. ASSUME NEW k \in lookups, k.by = Row, k.task = t, k.known = groups, NoneBefore(k)
          PROVE  \E m \in lookups' : m.by = Row /\ m.task = t /\ m.known = groups /\ NoneBefore(m)
      <4>1. CASE k # l BY <3>2, <4>1, <1>1
      <4>2. CASE k = l
        <5>1. g \notin Memberships BY <2>1, <3>2, <4>2, <1>2
        <5> QED BY <3>2, <4>2, <5>1, <1>1, <1>4, <1>5
      <4> QED BY <4>1, <4>2
    <3> QED BY <2>1, <3>1, <3>2, <1>6, <1>7 DEF RowsOk
  <2>2. groups' = groups /\ authorized' = authorized BY <1>1
  <2> QED BY <1>6, <1>7, <2>1, <2>2 DEF RowsOk, Approver, NoneBefore
<1>d. LastOk'
  <2>1. ASSUME NEW k \in lookups', k.by = runNo, k.task \notin missed' PROVE NoneBefore(k)
    <3>1. CASE k \in lookups BY <2>1, <3>1, <1>6, <1>7 DEF LastOk
    <3>2. CASE k = next
      <4>1. l.by = runNo /\ l.task \notin missed' BY <2>1, <3>2, <1>4
      <4>2. NoneBefore(l) BY <4>1, <1>6, <1>7 DEF LastOk
      <4>3. g \notin Memberships BY <4>1, <1>2
      <4> QED BY <3>2, <4>2, <4>3, <1>5
    <3> QED BY <1>1, <3>1, <3>2
  <2> QED BY <1>1, <1>6, <1>7, <2>1 DEF LastOk, Waiting, Approver, Answered, NoneBefore
<1>e. ToastsOk' BY <1>1, <1>6, <1>7 DEF ToastsOk, Waiting, Approver
<1>f. DialogOk' BY <1>1 DEF ApprovalInv, DialogOk, Recorded
<1> QED BY <1>9, <1>a, <1>b, <1>c, <1>d, <1>e, <1>f DEF ApprovalInv

\* What leaves the toasts, the lookups and what the watch has brought as they are.
LEMMA QuietKeeps ==
  ASSUME ApprovalInv,
         UNCHANGED <<tasksMounted, tasksPage, groups, lookups, runs, runNo, told, authorized,
                     unread, lookupFaults>>
  PROVE  WorkType' /\ KnownOk' /\ RunsOk' /\ RowsOk' /\ LastOk' /\ ToastsOk'
<1>1. WorkType' BY DEF ApprovalInv, ApprovalTypeOK, WorkType
<1>2. KnownOk' /\ RunsOk' BY DEF ApprovalInv, KnownOk, RunsOk, tasksPage
<1>3. RowsOk' BY DEF ApprovalInv, RowsOk, Approver, NoneBefore, tasksPage
<1>4. LastOk' BY DEF ApprovalInv, LastOk, Waiting, Approver, Answered, NoneBefore, tasksPage, told
<1>5. ToastsOk' BY DEF ApprovalInv, ToastsOk, Waiting, Approver, tasksPage, told
<1> QED BY <1>1, <1>2, <1>3, <1>4, <1>5

LEMMA ClusterSteps ==
  ASSUME ApprovalAssumption, ApprovalInv, NEW t \in TaskSet, Resolve(t) \/ OtherDecides(t)
  PROVE  ApprovalInv'
<1>1. /\ UNCHANGED <<tasksMounted, tasksPage, groups, lookups, runs, runNo, told, authorized,
                     dialog, unread, claims, lookupFaults>>
      /\ changes < MaxChanges /\ changes' = changes + 1
      /\ awaiting' \subseteq awaiting
      /\ spec' = spec \/ spec' = [spec EXCEPT ![t].others = TRUE]
  BY DEF Resolve, OtherDecides, Change
<1>2. spec' \in [TaskSet -> Decisions]
  <2>1. spec \in [TaskSet -> Decisions] BY DEF ApprovalInv, ApprovalTypeOK
  <2>2. [spec[t] EXCEPT !.others = TRUE] \in Decisions BY <2>1 DEF Decisions
  <2> QED BY <1>1, <2>1, <2>2
<1>3. changes' \in 0 .. MaxChanges BY <1>1 DEF ApprovalInv, ApprovalTypeOK, ApprovalAssumption
<1>4. WorkType' /\ KnownOk' /\ RunsOk' /\ RowsOk' /\ LastOk' /\ ToastsOk' BY <1>1, QuietKeeps
<1>5. ApprovalTypeOK'
  BY <1>1, <1>2, <1>3, <1>4 DEF ApprovalInv, ApprovalTypeOK, WorkType, tasksPage, told
<1>6. DialogOk' BY <1>1 DEF ApprovalInv, DialogOk, Recorded
<1> QED BY <1>4, <1>5, <1>6 DEF ApprovalInv

\* A row that offers a decision when nothing is looked up knows why the user is an approver.
LEMMA DialogSteps ==
  ASSUME ApprovalAssumption, ApprovalInv, (\E t \in rows : OpenDialog(t)) \/ SubmitDecision \/ CancelDialog
  PROVE  ApprovalInv'
<1>1. UNCHANGED <<tasksMounted, awaiting, tasksPage, groups, lookups, runs, runNo, told,
                  authorized, unread, changes, lookupFaults>>
  BY DEF OpenDialog, SubmitDecision, CancelDialog, inCluster
<1>2. WorkType' /\ KnownOk' /\ RunsOk' /\ RowsOk' /\ LastOk' /\ ToastsOk' BY <1>1, QuietKeeps
<1>3. ASSUME NEW t \in rows, OpenDialog(t) PROVE ApprovalInv'
  <2>1. /\ UNCHANGED <<spec, claims>> /\ authorized[t] = "yes"
        /\ dialog' = [task |-> t, known |-> groups, spec |-> watched.spec[t],
                      calm |-> lookups = {} /\ t \notin unread]
    BY <1>3 DEF OpenDialog, inCluster
  <2>2. t \in TaskSet /\ groups \in SUBSET AllGroups /\ watched.spec[t] \in Decisions
    BY DEF ApprovalInv, ApprovalTypeOK
  <2>3. dialog' \in [task : rows, known : SUBSET AllGroups, spec : Decisions, calm : BOOLEAN]
    BY <2>1, <2>2
  <2>4. ApprovalTypeOK'
    BY <1>1, <1>2, <2>1, <2>3 DEF ApprovalInv, ApprovalTypeOK, WorkType, tasksPage, told
  <2>5. DialogOk'
    <3>1. dialog'.task = t /\ dialog'.known = groups /\ (dialog'.calm => lookups = {} /\ t \notin unread)
      BY <2>1
    <3>2. Approver(t) BY <2>1 DEF ApprovalInv, RowsOk
    <3>3. lookups = {} /\ t \notin unread =>
            t \in UserTasks \/ Range(GroupsOf[t]) \cap groups # {}
      BY <3>2 DEF ApprovalInv, RowsOk
    <3> QED BY <3>1, <3>3 DEF DialogOk, Recorded
  <2> QED BY <1>2, <2>4, <2>5 DEF ApprovalInv
<1>4. CASE SubmitDecision
  <2>1. /\ dialog # None /\ dialog' = None
        /\ spec' = [spec EXCEPT ![dialog.task] = [dialog.spec EXCEPT !.mine = @ \/ Recorded(dialog)]]
        /\ claims' \subseteq claims \cup {dialog.task}
    BY <1>4 DEF SubmitDecision
  <2>2. dialog.task \in TaskSet /\ dialog.spec \in Decisions
    BY <2>1 DEF ApprovalInv, ApprovalTypeOK
  <2>3. [dialog.spec EXCEPT !.mine = @ \/ Recorded(dialog)] \in Decisions
    BY <2>2 DEF Decisions, Recorded
  <2>4. spec' \in [TaskSet -> Decisions] /\ claims' \subseteq TaskSet
    BY <2>1, <2>2, <2>3 DEF ApprovalInv, ApprovalTypeOK
  <2>5. ApprovalTypeOK'
    BY <1>1, <1>2, <2>1, <2>4 DEF ApprovalInv, ApprovalTypeOK, WorkType, tasksPage, told
  <2>6. DialogOk' BY <2>1 DEF DialogOk
  <2> QED BY <1>2, <2>5, <2>6 DEF ApprovalInv
<1>5. CASE CancelDialog
  <2>1. dialog' = None /\ UNCHANGED <<spec, claims>> BY <1>5 DEF CancelDialog, inCluster
  <2>2. ApprovalTypeOK'
    BY <1>1, <1>2, <2>1 DEF ApprovalInv, ApprovalTypeOK, WorkType, tasksPage, told
  <2>3. DialogOk' BY <2>1 DEF DialogOk
  <2> QED BY <1>2, <2>2, <2>3 DEF ApprovalInv
<1> QED BY <1>3, <1>4, <1>5

\* The effect leaves no tracked toast; any other toast is of a run that overlapped.
LEMMA RemoveToastsOk ==
  ASSUME ApprovalInv, RemoveToasts
  PROVE  /\ toasts' \subseteq toasts /\ \A x \in toasts' : x.run \in late
         /\ toasts' \subseteq Toast /\ tracked' \in [Keys -> {0} \cup RunNos]
<1>1. /\ toasts' = {x \in toasts : tracked[x.key] # x.run}
      /\ tracked' = [k \in Keys |-> 0]
  BY DEF RemoveToasts
<1>2. \A x \in toasts : x.run \in late \/ (x.run = runNo /\ tracked[x.key] = runNo)
  BY DEF ApprovalInv, ToastsOk
<1> QED BY <1>1, <1>2 DEF ApprovalInv, ApprovalTypeOK

LEMMA OverlappingOk ==
  ASSUME ApprovalAssumption, ApprovalInv, runNo < MaxRuns
  PROVE  Overlapping \subseteq RunNos /\ runNo + 1 \in RunNos /\ 1 .. runNo \subseteq RunNos
<1>1. /\ runNo \in 1 .. MaxRuns /\ MaxRuns \in Nat
      /\ \A r \in runs : r.no \in 1 .. MaxRuns
  BY DEF ApprovalInv, ApprovalTypeOK, RunNos, Run, ApprovalAssumption
<1>2. runNo + 1 \in 1 .. MaxRuns /\ 1 .. runNo \subseteq 1 .. MaxRuns BY <1>1
<1> QED BY <1>1, <1>2 DEF Overlapping, RunNos

LEMMA WatchUpdateStep ==
  ASSUME ApprovalAssumption, ApprovalInv, WatchUpdate PROVE ApprovalInv'
<1> DEFINE R == {t \in rows : spec[t] # watched.spec[t]}
<1>1. /\ watched' = [awaiting |-> awaiting, spec |-> spec] /\ RemoveToasts
      /\ AddToasts(watched', project, canAccessAll, R)
      /\ late' = late \cup Overlapping /\ runNo < MaxRuns
      /\ UNCHANGED <<tasksMounted, rows, inCluster, project, canAccessAll, reviewed, groups,
                     authorized, dialog, unread, claims, changes, lookupFaults>>
  BY DEF WatchUpdate
<1>2. R \in SUBSET rows OBVIOUS
<1> HIDE DEF R
<1>3. /\ watched' \in WatchType /\ project \in Projects /\ canAccessAll \in BOOLEAN
      /\ groups' = groups /\ unread' = unread
  BY <1>1 DEF ApprovalInv, ApprovalTypeOK, WatchType
<1>4. /\ toasts' \subseteq toasts /\ \A x \in toasts' : x.run \in late'
      /\ toasts' \subseteq Toast /\ tracked' \in [Keys -> {0} \cup RunNos]
  BY <1>1, RemoveToastsOk
<1>5. WorkType' /\ KnownOk' /\ RunsOk' /\ RowsOk' /\ LastOk' /\ ToastsOk'
  BY <1>1, <1>2, <1>3, <1>4, AddKeeps
<1>6. late' \subseteq RunNos /\ missed' = {}
  <2>1. late \subseteq RunNos BY DEF ApprovalInv, ApprovalTypeOK
  <2>2. late' \subseteq RunNos BY <1>1, <2>1, OverlappingOk
  <2> QED BY <1>1, <2>2 DEF AddToasts
<1>7. ApprovalTypeOK'
  BY <1>1, <1>3, <1>4, <1>5, <1>6 DEF ApprovalInv, ApprovalTypeOK, WorkType, WatchType, inCluster
<1>8. DialogOk' BY <1>1 DEF ApprovalInv, DialogOk, Recorded
<1> QED BY <1>5, <1>7, <1>8 DEF ApprovalInv

LEMMA NavigateStep ==
  ASSUME ApprovalAssumption, ApprovalInv, NEW ns \in Projects, Navigate(ns) PROVE ApprovalInv'
<1>1. /\ project' = ns /\ RemoveToasts /\ watched' = watched
      /\ AddToasts(watched, ns, canAccessAll, {})
      /\ late' = late \cup Overlapping /\ runNo < MaxRuns
      /\ changes < MaxChanges /\ changes' = changes + 1
      /\ UNCHANGED <<tasksMounted, rows, inCluster, watched, canAccessAll, reviewed, groups,
                     authorized, dialog, unread, claims, lookupFaults>>
  BY DEF Navigate, Change
<1>2. /\ watched' \in WatchType /\ canAccessAll \in BOOLEAN /\ {} \in SUBSET rows
      /\ groups' = groups /\ unread' = unread
  BY <1>1 DEF ApprovalInv, ApprovalTypeOK, WatchType
<1>3. AddToasts(watched', ns, canAccessAll, {}) BY <1>1
<1>4. /\ toasts' \subseteq toasts /\ \A x \in toasts' : x.run \in late'
      /\ toasts' \subseteq Toast /\ tracked' \in [Keys -> {0} \cup RunNos]
  BY <1>1, RemoveToastsOk
<1>5. WorkType' /\ KnownOk' /\ RunsOk' /\ RowsOk' /\ LastOk' /\ ToastsOk'
  BY <1>1, <1>2, <1>3, <1>4, AddKeeps
<1>6. late' \subseteq RunNos /\ missed' = {} /\ changes' \in 0 .. MaxChanges
  <2>1. late \subseteq RunNos /\ changes \in 0 .. MaxChanges BY DEF ApprovalInv, ApprovalTypeOK
  <2>2. MaxChanges \in Nat BY DEF ApprovalAssumption
  <2>3. changes' \in 0 .. MaxChanges BY <1>1, <2>1, <2>2
  <2>4. late' \subseteq RunNos BY <1>1, <2>1, OverlappingOk
  <2> QED BY <1>1, <2>3, <2>4 DEF AddToasts
<1>7. ApprovalTypeOK'
  BY <1>1, <1>2, <1>4, <1>5, <1>6 DEF ApprovalInv, ApprovalTypeOK, WorkType, WatchType, inCluster
<1>8. DialogOk' BY <1>1 DEF ApprovalInv, DialogOk, Recorded
<1> QED BY <1>5, <1>7, <1>8 DEF ApprovalInv

\* The toasts of earlier runs stay, and count as late from then on.
LEMMA AddOnlyKeeps ==
  ASSUME ApprovalAssumption, ApprovalInv, NEW all \in BOOLEAN, AddToastsOnly(all),
         UNCHANGED <<rows, watched, project, groups, toasts, tracked, authorized, unread>>
  PROVE  /\ WorkType' /\ KnownOk' /\ RunsOk' /\ RowsOk' /\ LastOk' /\ ToastsOk'
         /\ late' \subseteq RunNos /\ missed' \subseteq TaskSet
<1>1. /\ watched' = watched /\ watched' \in WatchType /\ project \in Projects
      /\ {} \in SUBSET rows /\ toasts \subseteq Toast
  BY DEF ApprovalInv, ApprovalTypeOK, WatchType
<1>2. /\ runNo < MaxRuns /\ AddToasts(watched', project, all, {})
      /\ late' = late \cup Overlapping \cup 1 .. runNo
  BY <1>1 DEF AddToastsOnly
<1>3. \A x \in toasts' : x.run \in late'
  <2>1. \A x \in toasts : x.run \in RunNos /\ x.run <= runNo
    BY <1>1 DEF ApprovalInv, ToastsOk, Toast
  <2>2. runNo \in 1 .. MaxRuns BY DEF ApprovalInv, ApprovalTypeOK, RunNos
  <2>3. \A x \in toasts : x.run \in 1 .. runNo BY <2>1, <2>2 DEF RunNos
  <2> QED BY <1>2, <2>3
<1>4. toasts' \subseteq toasts /\ late \cup Overlapping \subseteq late' BY <1>2
<1>5. late' \subseteq RunNos /\ missed' = {}
  BY <1>2, OverlappingOk DEF ApprovalInv, ApprovalTypeOK, AddToasts
<1> QED BY <1>1, <1>2, <1>3, <1>4, <1>5, AddKeeps

LEMMA ReviewStep ==
  ASSUME ApprovalAssumption, ApprovalInv, NEW all \in BOOLEAN, Review(all) PROVE ApprovalInv'
<1>1. /\ reviewed' = TRUE /\ canAccessAll' = all
      /\ UNCHANGED <<tasksMounted, rows, inCluster, watched, project, groups, toasts, tracked,
                     authorized, dialog, unread, claims, changes, lookupFaults>>
      /\ IF all THEN AddToastsOnly(TRUE) ELSE UNCHANGED <<runNo, runs, lookups, missed, late>>
  BY DEF Review
<1>2. WorkType' /\ KnownOk' /\ RunsOk' /\ RowsOk' /\ LastOk' /\ ToastsOk'
      /\ late' \subseteq RunNos /\ missed' \subseteq TaskSet
  <2>1. CASE all BY <1>1, <2>1, AddOnlyKeeps
  <2>2. CASE ~all
    <3>1. UNCHANGED <<rows, groups, lookups, runs, runNo, toasts, tracked, missed, late,
                      authorized, unread, watched>>
      BY <1>1, <2>2
    <3>2. WorkType' BY <3>1 DEF ApprovalInv, ApprovalTypeOK, WorkType
    <3>3. KnownOk' /\ RunsOk' BY <3>1 DEF ApprovalInv, KnownOk, RunsOk
    <3>4. RowsOk' BY <3>1 DEF ApprovalInv, RowsOk, Approver, NoneBefore
    <3>5. LastOk' BY <3>1 DEF ApprovalInv, LastOk, Waiting, Approver, Answered, NoneBefore
    <3>6. ToastsOk' BY <3>1 DEF ApprovalInv, ToastsOk, Waiting, Approver
    <3> QED BY <3>1, <3>2, <3>3, <3>4, <3>5, <3>6 DEF ApprovalInv, ApprovalTypeOK
  <2> QED BY <2>1, <2>2
<1>3. watched' \in WatchType BY <1>1 DEF ApprovalInv, ApprovalTypeOK, WatchType
<1>4. ApprovalTypeOK'
  BY <1>1, <1>2, <1>3 DEF ApprovalInv, ApprovalTypeOK, WorkType, WatchType, inCluster
<1>5. DialogOk' BY <1>1 DEF ApprovalInv, DialogOk, Recorded
<1> QED BY <1>2, <1>4, <1>5 DEF ApprovalInv

LEMMA SwitchStep ==
  ASSUME ApprovalAssumption, ApprovalInv, SwitchPerspective PROVE ApprovalInv'
<1>1. /\ changes < MaxChanges /\ changes' = changes + 1 /\ AddToastsOnly(canAccessAll)
      /\ UNCHANGED <<tasksMounted, tasksPage, inCluster, groups, toasts, tracked, authorized,
                     dialog, unread, claims, lookupFaults>>
  BY DEF SwitchPerspective, Change
<1>2. /\ UNCHANGED <<rows, watched, project, canAccessAll, reviewed>>
      /\ canAccessAll \in BOOLEAN /\ watched' \in WatchType
  BY <1>1 DEF tasksPage, ApprovalInv, ApprovalTypeOK, WatchType
<1>3. WorkType' /\ KnownOk' /\ RunsOk' /\ RowsOk' /\ LastOk' /\ ToastsOk'
      /\ late' \subseteq RunNos /\ missed' \subseteq TaskSet
  BY <1>1, <1>2, AddOnlyKeeps
<1>4. changes' \in 0 .. MaxChanges
  <2>1. changes \in 0 .. MaxChanges /\ MaxChanges \in Nat
    BY DEF ApprovalInv, ApprovalTypeOK, ApprovalAssumption
  <2> QED BY <1>1, <2>1
<1>5. ApprovalTypeOK'
  BY <1>1, <1>2, <1>3, <1>4 DEF ApprovalInv, ApprovalTypeOK, WorkType, WatchType, inCluster
<1>6. DialogOk' BY <1>1 DEF ApprovalInv, DialogOk, Recorded
<1> QED BY <1>3, <1>5, <1>6 DEF ApprovalInv

LEMMA CloseStep ==
  ASSUME ApprovalAssumption, ApprovalInv, NEW x \in toasts, Close(x) PROVE ApprovalInv'
<1>1. /\ toasts' = toasts \ {x}
      /\ missed' = IF x.run = runNo THEN missed \cup x.about ELSE missed
      /\ UNCHANGED <<tasksMounted, inCluster, tasksPage, groups, lookups, runs, runNo, tracked, late,
                     authorized, dialog, unread, claims, changes, lookupFaults>>
  BY DEF Close
<1>2. rows' = rows /\ watched' = watched BY <1>1 DEF tasksPage
<1>3. x \in Toast /\ missed' \subseteq TaskSet BY <1>1 DEF ApprovalInv, ApprovalTypeOK, Toast
<1>4. ApprovalTypeOK'
  BY <1>1, <1>3 DEF ApprovalInv, ApprovalTypeOK, inCluster, tasksPage
<1>5. KnownOk' /\ RunsOk' BY <1>1, <1>2 DEF ApprovalInv, KnownOk, RunsOk
<1>6. RowsOk' BY <1>1, <1>2 DEF ApprovalInv, RowsOk, Approver, NoneBefore
<1>7. LastOk'
  <2>1. ASSUME NEW t \in Waiting \ missed', NEW y \in toasts, y.run = runNo, t \in y.about
        PROVE  y \in toasts'
    BY <1>1, <2>1
  <2>2. missed \subseteq missed' BY <1>1
  <2> QED BY <1>1, <1>2, <2>1, <2>2 DEF ApprovalInv, LastOk, Waiting, Approver, Answered, NoneBefore
<1>8. ToastsOk' BY <1>1, <1>2 DEF ApprovalInv, ToastsOk, Waiting, Approver
<1>9. DialogOk' BY <1>1 DEF ApprovalInv, DialogOk, Recorded
<1> QED BY <1>4, <1>5, <1>6, <1>7, <1>8, <1>9 DEF ApprovalInv

LEMMA ApprovalNextInv == ASSUME ApprovalAssumption, ApprovalInv, [ApprovalNext]_approvalVars PROVE ApprovalInv'
<1>1. CASE UNCHANGED approvalVars
  <2>1. UNCHANGED <<tasksMounted, inCluster, tasksPage, groups, lookups, runs, runNo, told,
                    authorized, dialog, unread, claims, changes, lookupFaults>>
    BY <1>1 DEF approvalVars
  <2>2. WorkType' /\ KnownOk' /\ RunsOk' /\ RowsOk' /\ LastOk' /\ ToastsOk' BY <2>1, QuietKeeps
  <2>3. ApprovalTypeOK'
    BY <2>1, <2>2 DEF ApprovalInv, ApprovalTypeOK, WorkType, inCluster, tasksPage, told
  <2>4. DialogOk' BY <2>1 DEF ApprovalInv, DialogOk, Recorded
  <2> QED BY <2>2, <2>3, <2>4 DEF ApprovalInv
<1>2. ASSUME NEW l \in lookups, Look(l) PROVE ApprovalInv'
  BY <1>2, LookKnownStep, LookFoundStep, LookOnStep DEF Look
<1>3. ASSUME NEW t \in rows, OpenDialog(t) PROVE ApprovalInv' BY <1>3, DialogSteps
<1> QED
  BY <1>1, <1>2, <1>3, ClusterSteps, WatchUpdateStep, NavigateStep, ReviewStep,
     SwitchStep, CloseStep, DialogSteps
  DEF ApprovalNext

-----------------------------------------------------------------------------
(***************************************************************************)
(* Approvals: theorems.                                                    *)
(***************************************************************************)

\* Every action keeps the types: each run looks up one of the tasks it has left, and nobody is
\* taken to be in a group without being in it.
THEOREM ApprovalTypeCorrect ==
  ASSUME ApprovalAssumption PROVE ApprovalSpec => []ApprovalTypeOK
<1>1. ApprovalInit => ApprovalInv BY ApprovalInitInv
<1>2. ApprovalInv /\ [ApprovalNext]_approvalVars => ApprovalInv' BY ApprovalNextInv
<1>3. ApprovalInv => ApprovalTypeOK BY DEF ApprovalInv
<1> QED BY <1>1, <1>2, <1>3, PTL DEF ApprovalSpec

\* With any number of tasks, groups, updates and overlapping runs: when the runs are over, every
\* task that waits for the user has a toast of the last run.
THEOREM WhoWaitsIsTold == ASSUME ApprovalAssumption PROVE ApprovalSpec => []WaitingIsTold
<1>1. ApprovalInit => ApprovalInv BY ApprovalInitInv
<1>2. ApprovalInv /\ [ApprovalNext]_approvalVars => ApprovalInv' BY ApprovalNextInv
<1>3. ApprovalInv => WaitingIsTold BY DEF ApprovalInv, LastOk, WaitingIsTold, Rest
<1> QED BY <1>1, <1>2, <1>3, PTL DEF ApprovalSpec

\* With any number of tasks, groups, updates and overlapping runs: a toast of a run that neither
\* overlapped another nor came before the access review tells what is so.
THEOREM ToastsTellWhatIs == ASSUME ApprovalAssumption PROVE ApprovalSpec => []ToastsAreCurrent
<1>1. ApprovalInit => ApprovalInv BY ApprovalInitInv
<1>2. ApprovalInv /\ [ApprovalNext]_approvalVars => ApprovalInv' BY ApprovalNextInv
<1>3. ApprovalInv => ToastsAreCurrent BY DEF ApprovalInv, ToastsOk, ToastsAreCurrent, Rest
<1> QED BY <1>1, <1>2, <1>3, PTL DEF ApprovalSpec

\* With any groups, and lookups that fail in any order: a dialog that was opened while nothing
\* was looked up, for a row that could read the user's groups, records the user's decision.
THEOREM DecisionsAreRecorded == ASSUME ApprovalAssumption PROVE ApprovalSpec => DecisionRecorded
<1>1. ApprovalInit => ApprovalInv BY ApprovalInitInv
<1>2. ApprovalInv /\ [ApprovalNext]_approvalVars => ApprovalInv' BY ApprovalNextInv
<1>3. ApprovalInv /\ [ApprovalNext]_approvalVars => [\A t \in claims' \ claims : spec'[t].mine]_approvalVars
  <2> SUFFICES ASSUME ApprovalInv, ApprovalNext, NEW t \in claims' \ claims PROVE spec'[t].mine
    OBVIOUS
  <2>1. SubmitDecision
    <3>1. ASSUME NEW l \in lookups, Look(l) PROVE claims' = claims
      BY <3>1 DEF Look, LookKnown, LookFound, LookOn
    <3>2. ASSUME NEW u \in rows, OpenDialog(u) PROVE claims' = claims BY <3>2 DEF OpenDialog
    <3>3. ASSUME NEW u \in TaskSet, Resolve(u) \/ OtherDecides(u) PROVE claims' = claims
      BY <3>3 DEF Resolve, OtherDecides
    <3>4. ASSUME NEW x \in toasts, Close(x) PROVE claims' = claims BY <3>4 DEF Close
    <3>5. ASSUME NEW ns \in Projects, Navigate(ns) PROVE claims' = claims BY <3>5 DEF Navigate
    <3>6. ASSUME NEW all \in BOOLEAN, Review(all) PROVE claims' = claims BY <3>6 DEF Review
    <3>7. WatchUpdate \/ SwitchPerspective \/ CancelDialog => claims' = claims
      BY DEF WatchUpdate, SwitchPerspective, CancelDialog
    <3> QED BY <3>1, <3>2, <3>3, <3>4, <3>5, <3>6, <3>7 DEF ApprovalNext
  <2>2. /\ dialog # None /\ dialog.calm /\ t = dialog.task
        /\ spec' = [spec EXCEPT ![dialog.task] = [dialog.spec EXCEPT !.mine = @ \/ Recorded(dialog)]]
    BY <2>1 DEF SubmitDecision
  <2>3. Recorded(dialog) BY <2>2 DEF ApprovalInv, DialogOk
  <2>4. spec \in [TaskSet -> Decisions] /\ t \in TaskSet /\ dialog.spec \in Decisions
    BY <2>2 DEF ApprovalInv, ApprovalTypeOK
  <2>5. spec'[t] = [dialog.spec EXCEPT !.mine = @ \/ Recorded(dialog)] BY <2>2, <2>4
  <2> QED BY <2>3, <2>4, <2>5 DEF Decisions
<1> QED BY <1>1, <1>2, <1>3, PTL DEF ApprovalSpec, DecisionRecorded
=============================================================================
