------------------------- MODULE MultiClusterTaskRuns -------------------------
(***************************************************************************)
(* useMultiClusterTaskRuns: on a hub cluster, the TaskRuns of a            *)
(* PipelineRun that Kueue sent to a spoke cluster are polled through a     *)
(* proxy.                                                                  *)
(*                                                                         *)
(* React runs the hook's effect again whenever what it depends on has      *)
(* changed since it ran last; the cleanup of the previous one cancels its  *)
(* execution of startPolling, but not the answers it awaits.  `loop` is    *)
(* the execution of the last effect, `stale` those of earlier ones that    *)
(* still await an answer.                                                  *)
(***************************************************************************)
EXTENDS Naturals, FiniteSets

CONSTANTS
  Run,             \* names of PipelineRuns
  None,            \* no execution, no TaskRuns, an effect that has not run yet
  MaxNavigations,  \* bound: how often the page is given another PipelineRun
  MaxStale         \* bound: cancelled executions that still await an answer

ASSUME HubAssumption ==
  /\ MaxNavigations \in Nat /\ MaxStale \in Nat
  /\ None \notin [run : Run, final : BOOLEAN]

VARIABLES
  mounted,      \* mountedRef
  managed,      \* isResourceManagedByKueue: known once TektonConfig is loaded
  shown,        \* pipelineRunName
  finished,     \* pipelineRunFinished
  state,        \* the hook's state, which it returns
  checked,      \* proxyCheckedRef
  ready,        \* proxyReadyRef
  deps,         \* the dependencies the effect ran with last
  loop,         \* the execution of startPolling by the last effect
  stale,        \* cancelled executions that still await an answer
  admitted,     \* PipelineRuns admitted to a spoke cluster
  done,         \* PipelineRuns that have finished
  navigations   \* how often the page was given another PipelineRun

page == <<mounted, managed, shown, finished, navigations>>
clusters == <<admitted, done>>
refs == <<checked, ready>>
vars == <<page, state, refs, deps, loop, stale, clusters>>

\* The TaskRuns of a run, complete (final) when they were read after its end.
Data == [run : Run, final : BOOLEAN]

State == [data : Data \cup {None}, loaded : BOOLEAN, error : BOOLEAN,
          pendingAdmission : BOOLEAN, proxyUnavailable : BOOLEAN]

\* An execution captured the run and shouldContinuePolling.
Execution == [run : Run, cont : BOOLEAN, phase : {"checking", "requested", "answered", "timer"},
              answer : {"none", "items", "final", "conflict", "error"}]

ShouldFetch == managed

\* Mutant: a PipelineRun that has finished is not polled until it is admitted.
ShouldContinueInProgress == ShouldFetch /\ ~state.proxyUnavailable /\ ~finished

ShouldContinuePolling ==
  ShouldFetch /\ ~state.proxyUnavailable /\ (~finished \/ state.pendingAdmission)

\* `run` stands for the identity of fetchTaskRuns.
Deps == [fetch |-> ShouldFetch, cont |-> ShouldContinuePolling, run |-> shown]

TypeOK ==
  /\ mounted \in BOOLEAN /\ managed \in BOOLEAN /\ finished \in BOOLEAN
  /\ shown \in Run
  /\ state \in State
  /\ checked \in BOOLEAN /\ ready \in BOOLEAN
  /\ deps \in [fetch : BOOLEAN, cont : BOOLEAN, run : Run] \cup {None}
  /\ loop \in Execution \cup {None}
  /\ stale \subseteq Execution
  /\ admitted \subseteq Run /\ done \subseteq Run
  /\ navigations \in 0 .. MaxNavigations

Init ==
  /\ mounted = TRUE /\ managed = FALSE
  /\ shown \in Run
  /\ finished = FALSE
  /\ state = [data |-> None, loaded |-> FALSE, error |-> FALSE,
              pendingAdmission |-> FALSE, proxyUnavailable |-> FALSE]
  /\ checked = FALSE /\ ready = FALSE
  /\ deps = None
  /\ loop = None /\ stale = {}
  /\ admitted \in SUBSET Run /\ done \in SUBSET admitted
  /\ navigations = 0

-----------------------------------------------------------------------------
(***************************************************************************)
(* The page and the clusters.                                              *)
(***************************************************************************)

\* TektonConfig is loaded, and this is a hub whose runs Kueue manages.  The hook that reads
\* it is not loaded in the first render, so that the first effect never fetches.
LearnManaged ==
  /\ mounted /\ ~managed /\ deps # None
  /\ managed' = TRUE
  /\ UNCHANGED <<mounted, shown, finished, navigations, state, refs, deps, loop, stale, clusters>>

\* The watch of the hub shows that the PipelineRun has finished.
LearnFinished ==
  /\ mounted /\ ~finished /\ shown \in done
  /\ finished' = TRUE
  /\ UNCHANGED <<mounted, managed, shown, navigations, state, refs, deps, loop, stale, clusters>>

\* The mounted hook is given another PipelineRun.
Navigate(r) ==
  /\ mounted /\ r # shown /\ navigations < MaxNavigations
  /\ shown' = r
  /\ finished' \in {FALSE, (r \in done)}
  /\ navigations' = navigations + 1
  /\ UNCHANGED <<mounted, managed, state, refs, deps, loop, stale, clusters>>

\* Mutant: a missing execution is not told from one that awaits an answer.
AbandonedUnchecked == IF loop # None /\ loop.phase = "timer" THEN {} ELSE {loop}

\* Executions that a cleanup leaves behind: a timer is cleared, an awaited answer is not.
Abandoned == IF loop # None /\ loop.phase # "timer" THEN {loop} ELSE {}

Unmount ==
  /\ mounted
  /\ mounted' = FALSE
  /\ stale' = stale \cup Abandoned
  /\ loop' = None
  /\ UNCHANGED <<managed, shown, finished, navigations, state, refs, deps, clusters>>

Admit(r) ==
  /\ r \notin admitted
  /\ admitted' = admitted \cup {r}
  /\ UNCHANGED <<page, state, refs, deps, loop, stale, done>>

\* A run may also end, cancelled, without having been admitted.
Finish(r) ==
  /\ r \notin done
  /\ done' = done \cup {r}
  /\ UNCHANGED <<page, state, refs, deps, loop, stale, admitted>>

-----------------------------------------------------------------------------
(***************************************************************************)
(* The effect and its executions of startPolling.                          *)
(***************************************************************************)

Started(phase) ==
  [run |-> shown, cont |-> ShouldContinuePolling, phase |-> phase, answer |-> "none"]

\* Mutant: once the readiness has been asked for, TaskRuns are requested.
StartIfChecked ==
  /\ checked' = TRUE
  /\ loop' = Started(IF checked THEN "requested" ELSE "checking")
  /\ UNCHANGED state

\* Mutant: that the readiness was asked for is not remembered.
StartUnchecked ==
  /\ checked' = checked
  /\ loop' = Started("checking")
  /\ UNCHANGED state

\* Mutant: nothing is fetched when polling would not go on.
StartIfContinuing ==
  /\ checked' = TRUE
  /\ loop' = IF ~checked THEN Started("checking")
             ELSE IF ready /\ ShouldContinuePolling THEN Started("requested") ELSE None
  /\ UNCHANGED state

\* startPolling up to its first await: the proxy is asked once; unless it is known to be
\* ready, nothing more is done.
StartPolling ==
  /\ checked' = TRUE
  /\ loop' = IF ~checked THEN Started("checking")
             ELSE IF ready THEN Started("requested") ELSE None
  /\ UNCHANGED state

EffectRuns ==
  /\ mounted /\ deps # Deps
  /\ Cardinality(stale \cup Abandoned) <= MaxStale
  /\ deps' = Deps
  /\ stale' = stale \cup Abandoned
  /\ \/ /\ ShouldFetch
        /\ StartPolling
     \/ /\ ~ShouldFetch
        /\ state' = [state EXCEPT !.loaded = TRUE]
        /\ loop' = None
        /\ UNCHANGED checked
  /\ UNCHANGED <<page, ready, clusters>>

\* An answer changes the state only of a mounted hook.
SetState(s) == state' = IF mounted THEN s ELSE state

Unavailable ==
  [data |-> None, loaded |-> TRUE, error |-> FALSE,
   pendingAdmission |-> FALSE, proxyUnavailable |-> TRUE]

\* checkReady answers the execution of the last effect: it goes on to poll, or gives up.
CheckAnswered(ok) ==
  /\ loop # None /\ loop.phase = "checking"
  /\ ready' = ok
  /\ IF ok THEN loop' = [loop EXCEPT !.phase = "requested"] /\ UNCHANGED state
           ELSE loop' = None /\ SetState(Unavailable)
  /\ UNCHANGED <<page, checked, deps, stale, clusters>>

\* It answers one that was cancelled meanwhile, whose poll returns at once.
StaleCheckAnswered(l, ok) ==
  /\ l \in stale /\ l.phase = "checking"
  /\ ready' = ok
  /\ IF ok THEN UNCHANGED state ELSE SetState(Unavailable)
  /\ stale' = stale \ {l}
  /\ UNCHANGED <<page, checked, deps, loop, clusters>>

\* What the proxy reads for a run: 409 before its admission, its TaskRuns, or an error.
AnswersFor(r) ==
  {"error", IF r \notin admitted THEN "conflict" ELSE IF r \in done THEN "final" ELSE "items"}

Request(l, a) == [l EXCEPT !.phase = "answered", !.answer = a]

Served(a) ==
  /\ loop # None /\ loop.phase = "requested"
  /\ a \in AnswersFor(loop.run)
  /\ loop' = Request(loop, a)
  /\ UNCHANGED <<page, state, refs, deps, stale, clusters>>

StaleServed(l, a) ==
  /\ l \in stale /\ l.phase = "requested"
  /\ a \in AnswersFor(l.run)
  /\ stale' = (stale \ {l}) \cup {Request(l, a)}
  /\ UNCHANGED <<page, state, refs, deps, loop, clusters>>

\* fetchTaskRuns after its await.
AnswerState(l) ==
  [data |-> IF l.answer \in {"items", "final"}
              THEN [run |-> l.run, final |-> l.answer = "final"] ELSE None,
   loaded |-> TRUE, error |-> l.answer = "error",
   pendingAdmission |-> l.answer = "conflict", proxyUnavailable |-> FALSE]

\* Mutant: the next poll is scheduled whatever was captured.
NextPollAlways(l) == [l EXCEPT !.phase = "timer", !.answer = "none"]

\* Mutant: no other poll is scheduled.
NextPollNever(l) == None

\* poll after its await: the next one is scheduled if polling was to go on when the effect ran.
NextPoll(l) == IF l.cont THEN [l EXCEPT !.phase = "timer", !.answer = "none"] ELSE None

Delivered ==
  /\ loop # None /\ loop.phase = "answered"
  /\ SetState(AnswerState(loop))
  /\ loop' = NextPoll(loop)
  /\ UNCHANGED <<page, refs, deps, stale, clusters>>

StaleDelivered(l) ==
  /\ l \in stale /\ l.phase = "answered"
  /\ SetState(AnswerState(l))
  /\ stale' = stale \ {l}
  /\ UNCHANGED <<page, refs, deps, loop, clusters>>

TimerFires ==
  /\ loop # None /\ loop.phase = "timer"
  /\ loop' = [loop EXCEPT !.phase = "requested"]
  /\ UNCHANGED <<page, state, refs, deps, stale, clusters>>

-----------------------------------------------------------------------------
Answer == {"items", "final", "conflict", "error"}

CurrentStep ==
  \/ \E ok \in BOOLEAN : CheckAnswered(ok)
  \/ \E a \in Answer : Served(a)
  \/ Delivered
  \/ TimerFires

StaleStep(l) ==
  \/ \E ok \in BOOLEAN : StaleCheckAnswered(l, ok)
  \/ \E a \in Answer : StaleServed(l, a)
  \/ StaleDelivered(l)

Next ==
  \/ LearnManaged \/ LearnFinished \/ Unmount
  \/ \E r \in Run : Navigate(r) \/ Admit(r) \/ Finish(r)
  \/ EffectRuns
  \/ CurrentStep
  \/ \E l \in stale : StaleStep(l)

\* React runs effects after a render, requests are answered, timers fire.
Fairness ==
  /\ WF_vars(EffectRuns)
  /\ WF_vars(CurrentStep)
  /\ WF_vars(\E l \in stale : StaleStep(l))

Spec == Init /\ [][Next]_vars /\ Fairness

-----------------------------------------------------------------------------
(***************************************************************************)
(* Properties.                                                             *)
(***************************************************************************)

\* "Start polling only after the proxy is confirmed ready" (lines 118-119): no execution, of
\* whichever effect, has requested TaskRuns of a proxy that was not found ready.
ProxyConfirmedFirst ==
  \A l \in stale \cup ({loop} \ {None}) : l.phase # "checking" => ready

\* The readiness of the proxy is asked for once, whatever the effects that run meanwhile, and
\* an unavailable proxy stays so (line 131).
CheckedOnce ==
  /\ \A l \in stale : l.phase = "checking" => loop = None /\ ~ready
  /\ \A l, m \in stale : l.phase = "checking" /\ m.phase = "checking" => l = m
  /\ state.proxyUnavailable => loop = None /\ ~ready

\* "Whether the PipelineRun has finished (stops polling)" (line 33): when polling should not
\* go on for good, requests end.
PollingStops == <>[](~ShouldContinuePolling) => <>[](loop = None /\ stale = {})

\* "pending admission state" (line 27): as long as the last answer says that the run was not
\* admitted, finished or not, it is asked for again and again.
PollsUntilAdmitted ==
  []<>(\/ ~(mounted /\ managed /\ state.pendingAdmission)
       \/ loop # None /\ loop.phase = "requested")

\* "polling while PipelineRun is in progress" (line 27): an execution that has begun to poll
\* is followed by another request, of it or of its successor, while the run is in progress.
PollsOn ==
  (mounted /\ managed /\ ~finished /\ loop # None /\ loop.phase # "checking")
    ~> (~mounted \/ finished \/ (loop # None /\ loop.phase = "requested"))

\* Once the page has learnt that the run it polls has finished, the TaskRuns are read once
\* more, after the end, unless that read fails or another run is shown: the effect runs again
\* and fetches even though it will not go on polling.
ReadAfterTheEnd ==
  (mounted /\ managed /\ finished /\ loop # None /\ loop.phase # "checking")
    ~> (~mounted \/ ~finished \/ (loop # None /\ loop.answer \in {"final", "conflict", "error"}))

\* "Checks proxy readiness once, then starts polling for TaskRuns." (line 114): once the proxy
\* is found ready, a page that stays mounted gets an answer for the TaskRuns: some of them,
\* that the run is not admitted, or an error.
StartsPolling ==
  (mounted /\ ready)
    ~> (~mounted \/ state.data # None \/ state.pendingAdmission \/ state.error)

\* "The PipelineRun name to filter TaskRuns" (line 30): a page that stays with a run ends up
\* showing no other run's TaskRuns.
ShowsItsOwnRun == <>[](mounted /\ state.data # None => state.data.run = shown)
=============================================================================
