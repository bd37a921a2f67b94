---------------------- MODULE MultiClusterTaskRunsProofs ----------------------
(***************************************************************************)
(* The polling of MultiClusterTaskRuns for any PipelineRuns, any number of *)
(* navigations and of cancelled executions: the hook keeps its shape, asks *)
(* for the readiness of the proxy once, and requests nothing before.       *)
(***************************************************************************)
EXTENDS MultiClusterTaskRuns, TLAPS

Unanswered == {l \in stale : l.phase = "checking"}

\* What has to be known of the refs for CheckedOnce to be inductive: whoever awaits the
\* readiness has marked it as asked for, and it is not known before it is answered.
Remembered ==
  /\ loop # None /\ loop.phase = "checking" => checked /\ ~ready /\ Unanswered = {}
  /\ Unanswered # {} => checked
  /\ ready => checked
  /\ state.proxyUnavailable => checked /\ Unanswered = {}

IInv == TypeOK /\ ProxyConfirmedFirst /\ CheckedOnce /\ Remembered

-----------------------------------------------------------------------------
(***************************************************************************)
(* The parts of a step.                                                    *)
(***************************************************************************)

LEMMA StartedType ==
  ASSUME TypeOK, NEW p \in {"checking", "requested"}
  PROVE  /\ Started(p) \in Execution
         /\ Started(p).phase = p
  BY DEF TypeOK, Started, Execution, ShouldContinuePolling, ShouldFetch, State

LEMMA AbandonedType ==
  ASSUME TypeOK
  PROVE  /\ Abandoned \subseteq Execution
         /\ \A l \in Abandoned : loop # None /\ l = loop
  BY DEF TypeOK, Abandoned

LEMMA AnswerStateType ==
  ASSUME NEW l \in Execution
  PROVE  /\ AnswerState(l) \in State
         /\ ~AnswerState(l).proxyUnavailable
  BY DEF AnswerState, State, Data, Execution

LEMMA UnavailableType == Unavailable \in State /\ Unavailable.proxyUnavailable
  BY DEF Unavailable, State

LEMMA RequestType ==
  ASSUME NEW l \in Execution, NEW a \in Answer
  PROVE  Request(l, a) \in Execution /\ Request(l, a).phase = "answered"
  BY DEF Request, Execution, Answer

LEMMA NextPollType ==
  ASSUME NEW l \in Execution
  PROVE  /\ NextPoll(l) \in Execution \cup {None}
         /\ NextPoll(l) # None => NextPoll(l).phase = "timer"
  BY DEF NextPoll, Execution

LEMMA InitIInv == Init => IInv
<1> SUFFICES ASSUME Init PROVE IInv OBVIOUS
<1>1. state \in State /\ ~state.proxyUnavailable BY DEF Init, State
<1>2. navigations \in 0 .. MaxNavigations BY HubAssumption DEF Init
<1>3. admitted \subseteq Run /\ done \subseteq Run BY DEF Init
<1>4. TypeOK BY <1>1, <1>2, <1>3 DEF Init, TypeOK
<1>5. ProxyConfirmedFirst /\ CheckedOnce /\ Remembered
  BY <1>1 DEF Init, ProxyConfirmedFirst, CheckedOnce, Remembered, Unanswered
<1> QED BY <1>4, <1>5 DEF IInv

-----------------------------------------------------------------------------
(***************************************************************************)
(* One lemma per kind of step.                                             *)
(***************************************************************************)

\* The page and the clusters change nothing the invariant speaks of but its types.
LEMMA EnvironmentStep ==
  ASSUME IInv,
         LearnManaged \/ LearnFinished \/ \E r \in Run : Navigate(r) \/ Admit(r) \/ Finish(r)
  PROVE  IInv'
<1>1. TypeOK'
  <2>1. CASE LearnManaged BY <2>1, SMT DEF IInv, TypeOK, LearnManaged, refs, clusters
  <2>2. CASE LearnFinished BY <2>2, SMT DEF IInv, TypeOK, LearnFinished, refs, clusters
  <2>3. ASSUME NEW r \in Run, Navigate(r) PROVE TypeOK'
    <3>1. navigations' \in 0 .. MaxNavigations
      BY <2>3, HubAssumption DEF IInv, TypeOK, Navigate
    <3>2. finished' \in BOOLEAN
      <4>1. finished' = FALSE \/ finished' = (r \in done) BY <2>3 DEF Navigate
      <4>2. FALSE \in BOOLEAN /\ (r \in done) \in BOOLEAN OBVIOUS
      <4> QED BY <4>1, <4>2, Zenon
    <3>3. /\ shown' = r
          /\ UNCHANGED <<mounted, managed, state, refs, deps, loop, stale, clusters>>
      BY <2>3 DEF Navigate
    <3> QED BY <3>1, <3>2, <3>3, SMT DEF IInv, TypeOK, refs, clusters
  <2>4. ASSUME NEW r \in Run, Admit(r) PROVE TypeOK'
    BY <2>4, SMT DEF IInv, TypeOK, Admit, refs, page
  <2>5. ASSUME NEW r \in Run, Finish(r) PROVE TypeOK'
    BY <2>5, SMT DEF IInv, TypeOK, Finish, refs, page
  <2> QED BY <2>1, <2>2, <2>3, <2>4, <2>5
<1>2. UNCHANGED <<state, refs, loop, stale>>
  BY DEF LearnManaged, LearnFinished, Navigate, Admit, Finish
<1> QED
  BY <1>1, <1>2 DEF IInv, ProxyConfirmedFirst, CheckedOnce, Remembered, Unanswered, refs

\* Leaving the page abandons the execution that awaits an answer, if there is one.
LEMMA UnmountStep ==
  ASSUME IInv, Unmount
  PROVE  IInv'
<1> USE DEF IInv, Unmount, refs
<1>1. Abandoned \subseteq Execution /\ \A l \in Abandoned : loop # None /\ l = loop
  BY AbandonedType
<1>2. TypeOK' BY <1>1 DEF TypeOK, clusters
<1>3. ProxyConfirmedFirst' BY <1>1 DEF ProxyConfirmedFirst
<1>4. CheckedOnce' BY <1>1 DEF CheckedOnce, Remembered, Unanswered
<1>5. Remembered' BY <1>1 DEF CheckedOnce, Remembered, Unanswered
<1> QED BY <1>2, <1>3, <1>4, <1>5

LEMMA EffectStep ==
  ASSUME IInv, EffectRuns
  PROVE  IInv'
<1> USE DEF IInv
<1>1. Abandoned \subseteq Execution /\ \A l \in Abandoned : loop # None /\ l = loop
  BY AbandonedType
<1>2. Deps \in [fetch : BOOLEAN, cont : BOOLEAN, run : Run]
  BY DEF TypeOK, Deps, ShouldFetch, ShouldContinuePolling, State
<1>3. /\ stale' = stale \cup Abandoned /\ deps' = Deps
      /\ UNCHANGED <<page, ready, clusters>>
  BY DEF EffectRuns
<1>4. CASE ShouldFetch /\ StartPolling
  <2>1. /\ checked' = TRUE /\ state' = state
        /\ \/ ~checked /\ loop' = Started("checking")
           \/ checked /\ ready /\ loop' = Started("requested")
           \/ checked /\ ~ready /\ loop' = None
    BY <1>4 DEF StartPolling, TypeOK
  <2>2. /\ Started("checking") \in Execution /\ Started("checking").phase = "checking"
        /\ Started("requested") \in Execution /\ Started("requested").phase = "requested"
    BY StartedType
  <2>3. TypeOK' BY <1>1, <1>2, <1>3, <2>1, <2>2 DEF TypeOK, page, clusters
  <2>4. ProxyConfirmedFirst' BY <1>1, <1>3, <2>1, <2>2 DEF ProxyConfirmedFirst
  <2>5. CheckedOnce'
    BY <1>1, <1>3, <2>1, <2>2 DEF CheckedOnce, ProxyConfirmedFirst, Remembered, Unanswered
  <2>6. Remembered'
    BY <1>1, <1>3, <2>1, <2>2 DEF CheckedOnce, ProxyConfirmedFirst, Remembered, Unanswered
  <2> QED BY <2>3, <2>4, <2>5, <2>6
<1>5. CASE ~ShouldFetch /\ state' = [state EXCEPT !.loaded = TRUE] /\ loop' = None /\ UNCHANGED checked
  <2>1. state' \in State /\ state'.proxyUnavailable = state.proxyUnavailable
    BY <1>5 DEF TypeOK, State
  <2>2. TypeOK' BY <1>1, <1>2, <1>3, <1>5, <2>1 DEF TypeOK, page, clusters
  <2>3. ProxyConfirmedFirst' BY <1>1, <1>3, <1>5 DEF ProxyConfirmedFirst
  <2>4. CheckedOnce' BY <1>1, <1>3, <1>5, <2>1 DEF CheckedOnce, Remembered, Unanswered
  <2>5. Remembered' BY <1>1, <1>3, <1>5, <2>1 DEF CheckedOnce, Remembered, Unanswered
  <2> QED BY <2>2, <2>3, <2>4, <2>5
<1> QED BY <1>4, <1>5 DEF EffectRuns

\* The answer of the readiness check finds no other check under way.
LEMMA CheckStep ==
  ASSUME IInv, NEW ok \in BOOLEAN,
         CheckAnswered(ok) \/ \E l \in stale : StaleCheckAnswered(l, ok)
  PROVE  IInv'
<1> USE DEF IInv
<1>1. Unavailable \in State /\ Unavailable.proxyUnavailable BY UnavailableType
<1>2. CASE CheckAnswered(ok)
  <2> USE DEF CheckAnswered
  <2>1. loop \in Execution /\ checked /\ ~ready /\ Unanswered = {} /\ ~state.proxyUnavailable
    BY <1>2 DEF TypeOK, Remembered, CheckedOnce
  <2>2. \A l \in stale : l.phase = "checking" => FALSE BY <2>1 DEF Unanswered
  <2>3. \A l \in stale : ready BY <2>2 DEF ProxyConfirmedFirst
  <2>4. stale = {} BY <2>1, <2>3
  <2>5. /\ state' \in State
        /\ ok => state' = state /\ loop' = [loop EXCEPT !.phase = "requested"]
        /\ ~ok => loop' = None
    BY <1>1, <1>2 DEF TypeOK, SetState
  <2>6. [loop EXCEPT !.phase = "requested"] \in Execution
        /\ [loop EXCEPT !.phase = "requested"].phase = "requested"
    BY <2>1 DEF Execution
  <2>7. TypeOK' BY <1>2, <2>1, <2>5, <2>6 DEF TypeOK, page, clusters
  <2>8. ProxyConfirmedFirst' BY <1>2, <2>4, <2>5, <2>6 DEF ProxyConfirmedFirst
  <2>9. CheckedOnce' BY <1>2, <2>1, <2>4, <2>5, <2>6 DEF CheckedOnce
  <2>10. Remembered' BY <1>2, <2>1, <2>4, <2>5, <2>6 DEF Remembered, Unanswered
  <2> QED BY <2>7, <2>8, <2>9, <2>10
<1>3. ASSUME NEW l \in stale, StaleCheckAnswered(l, ok) PROVE IInv'
  <2> USE DEF StaleCheckAnswered
  <2>1. loop = None /\ ~ready /\ checked /\ ~state.proxyUnavailable
    BY <1>3 DEF Remembered, CheckedOnce, Unanswered
  <2>2. stale = {l}
    BY <1>3, <2>1 DEF ProxyConfirmedFirst, CheckedOnce
  <2>3. /\ stale' = {} /\ loop' = None /\ checked' /\ ready' = ok
        /\ state' \in State
        /\ ok => state' = state
    BY <1>1, <1>3, <2>1, <2>2 DEF TypeOK, SetState
  <2>4. TypeOK' BY <1>3, <2>3 DEF TypeOK, page, clusters
  <2>5. ProxyConfirmedFirst' BY <2>3 DEF ProxyConfirmedFirst
  <2>6. CheckedOnce' BY <2>1, <2>3 DEF CheckedOnce
  <2>7. Remembered' BY <2>1, <2>3 DEF Remembered, Unanswered
  <2> QED BY <2>4, <2>5, <2>6, <2>7
<1> QED BY <1>2, <1>3

\* An execution that polls goes from a request to its answer, the timer and the next request.
LEMMA PollStep ==
  ASSUME IInv, (\E a \in Answer : Served(a)) \/ Delivered \/ TimerFires
  PROVE  IInv'
<1> USE DEF IInv
<1>1. /\ loop \in Execution /\ loop.phase # "checking" /\ ready /\ loop # None
      /\ UNCHANGED <<page, refs, deps, stale, clusters>>
  BY DEF Served, Delivered, TimerFires, TypeOK, ProxyConfirmedFirst
<1>2. /\ loop' \in Execution \cup {None}
      /\ loop' # None => loop'.phase # "checking"
  <2>1. ASSUME NEW a \in Answer, Served(a)
        PROVE  loop' \in Execution /\ loop'.phase = "answered"
    BY <1>1, <2>1, RequestType DEF Served
  <2>2. CASE Delivered BY <1>1, <2>2, NextPollType DEF Delivered
  <2>3. CASE TimerFires BY <1>1, <2>3 DEF TimerFires, Execution
  <2> QED BY <2>1, <2>2, <2>3
<1>3. ~state.proxyUnavailable BY <1>1 DEF CheckedOnce
<1>4. state' \in State /\ ~state'.proxyUnavailable
  <2>1. CASE Delivered
    BY <1>1, <1>3, <2>1, AnswerStateType DEF Delivered, SetState, TypeOK
  <2>2. CASE ~Delivered BY <1>3, <2>2 DEF Served, TimerFires, TypeOK
  <2> QED BY <2>1, <2>2
<1>5. TypeOK' BY <1>1, <1>2, <1>4 DEF TypeOK, page, refs, clusters
<1>6. ProxyConfirmedFirst' BY <1>1, <1>2 DEF ProxyConfirmedFirst, refs
<1>7. CheckedOnce' BY <1>1, <1>4 DEF CheckedOnce, refs
<1>8. Remembered' BY <1>1, <1>2, <1>4 DEF Remembered, Unanswered, refs, CheckedOnce
<1> QED BY <1>5, <1>6, <1>7, <1>8

LEMMA StalePollStep ==
  ASSUME IInv, NEW l \in stale, (\E a \in Answer : StaleServed(l, a)) \/ StaleDelivered(l)
  PROVE  IInv'
<1> USE DEF IInv
<1>1. /\ l \in Execution /\ l.phase # "checking" /\ ready
      /\ UNCHANGED <<page, refs, deps, loop, clusters>>
  BY DEF StaleServed, StaleDelivered, TypeOK, ProxyConfirmedFirst
<1>2. /\ stale' \subseteq Execution
      /\ \A m \in stale' : m \in stale \/ m.phase # "checking"
  <2>1. ASSUME NEW a \in Answer, StaleServed(l, a)
        PROVE  /\ stale' \subseteq Execution
               /\ \A m \in stale' : m \in stale \/ m.phase # "checking"
    BY <1>1, <2>1, RequestType DEF StaleServed, TypeOK
  <2>2. CASE StaleDelivered(l) BY <2>2 DEF StaleDelivered, TypeOK
  <2> QED BY <2>1, <2>2
<1>3. ~state.proxyUnavailable BY <1>1 DEF CheckedOnce
<1>4. state' \in State /\ ~state'.proxyUnavailable
  <2>1. CASE StaleDelivered(l)
    BY <1>1, <1>3, <2>1, AnswerStateType DEF StaleDelivered, SetState, TypeOK
  <2>2. CASE ~StaleDelivered(l) BY <1>3, <2>2 DEF StaleServed, TypeOK
  <2> QED BY <2>1, <2>2
<1>5. TypeOK' BY <1>1, <1>2, <1>4 DEF TypeOK, page, refs, clusters
<1>6. ProxyConfirmedFirst' BY <1>1, <1>2 DEF ProxyConfirmedFirst, refs
<1>7. CheckedOnce' BY <1>1, <1>2, <1>4 DEF CheckedOnce, refs
<1>8. Remembered' BY <1>1, <1>2, <1>4 DEF Remembered, Unanswered, refs, CheckedOnce
<1> QED BY <1>5, <1>6, <1>7, <1>8

-----------------------------------------------------------------------------
\* The inductive invariant: what the refs remember fits what the loops are waiting for.
THEOREM Invariance == Spec => []IInv
<1>1. IInv /\ [Next]_vars => IInv'
  <2> SUFFICES ASSUME IInv, [Next]_vars PROVE IInv' OBVIOUS
  <2>1. CASE LearnManaged \/ LearnFinished \/ \E r \in Run : Navigate(r) \/ Admit(r) \/ Finish(r)
    BY <2>1, EnvironmentStep
  <2>2. CASE Unmount BY <2>2, UnmountStep
  <2>3. CASE EffectRuns BY <2>3, EffectStep
  <2>4. CASE CurrentStep BY <2>4, CheckStep, PollStep DEF CurrentStep
  <2>5. CASE \E l \in stale : StaleStep(l) BY <2>5, CheckStep, StalePollStep DEF StaleStep
  <2>6. CASE UNCHANGED vars
    BY <2>6 DEF vars, page, refs, clusters, IInv, TypeOK, ProxyConfirmedFirst, CheckedOnce,
                Remembered, Unanswered
  <2> QED BY <2>1, <2>2, <2>3, <2>4, <2>5, <2>6 DEF Next
<1> QED BY <1>1, InitIInv, PTL DEF Spec

\* Whatever answers arrive, however late, the hook and its executions keep their shape.
THEOREM HookTypeCorrect == Spec => []TypeOK
<1>1. IInv => TypeOK BY DEF IInv
<1> QED BY <1>1, Invariance, PTL

\* No TaskRuns are requested before the proxy was found ready, by the execution of any effect.
THEOREM NoRequestBeforeReady == Spec => []ProxyConfirmedFirst
<1>1. IInv => ProxyConfirmedFirst BY DEF IInv
<1> QED BY <1>1, Invariance, PTL

\* At most one readiness check is ever under way, and an unavailable proxy stays so.
THEOREM ReadinessCheckedOnce == Spec => []CheckedOnce
<1>1. IInv => CheckedOnce BY DEF IInv
<1> QED BY <1>1, Invariance, PTL
=============================================================================
