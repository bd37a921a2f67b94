-------------------------------- MODULE Triggers --------------------------------
(***************************************************************************)
(* The Add Trigger and Remove Trigger dialogs of a pipeline.  A trigger is *)
(* two objects of the cluster: a TriggerTemplate, and an EventListener     *)
(* with an entry in spec.triggers that refers to it by name.  Each dialog  *)
(* makes a series of calls; a call can fail, or take effect while its      *)
(* answer is lost, and what earlier calls did is not undone.  Several      *)
(* dialogs, of one user or of several, run at the same time: closing one   *)
(* does not stop its calls.                                                *)
(*                                                                         *)
(* The order of spec.triggers is left out: an entry is a pair of the       *)
(* template's name and a number that tells entries of one template apart.  *)
(***************************************************************************)
EXTENDS Naturals, FiniteSets

CONSTANTS
  Templates, Listeners,  \* names of TriggerTemplates and EventListeners
  Shared,                \* listeners made elsewhere, with several triggers
  Triggerless,           \* listeners made elsewhere, without spec.triggers
  InitTemplates,         \* templates there are at first
  InitListeners,         \* listeners there are at first, but for triggerless ones
  Adders, Removers,      \* dialogs
  None,                  \* nothing is selected
  Entries,               \* entries of spec.triggers: <<template, number>>
  MaxIteration,          \* the last iteration of exposeRoute, 3 in the code
  MaxFaults              \* bound: calls that fail, or whose answer is lost

ASSUME TriggersAssumption ==
  /\ InitTemplates \subseteq Templates
  /\ InitListeners \subseteq Listeners
  /\ Shared \subseteq InitListeners /\ Triggerless \subseteq InitListeners
  /\ Shared \cap Triggerless = {}
  /\ Adders \cap Removers = {}
  /\ None \notin Templates /\ None \notin Listeners
  /\ Entries \subseteq Templates \X Nat
  /\ \A t \in Templates : <<t, 1>> \in Entries
  /\ MaxIteration \in Nat /\ MaxFaults \in Nat

VARIABLES
  templates,  \* the TriggerTemplates of the namespace
  listeners,  \* its EventListeners
  triggers,   \* spec.triggers of a listener
  taken,      \* names used so far: generated names are not used again
  pc,         \* what a dialog awaits; "form" while it can be edited
  selected,   \* the template of a dialog
  linking,    \* the listener an Add dialog creates
  plan,       \* the patches of a removal, made from the list it got
  calls,      \* deletions and patches of listeners that are under way
  expose,     \* exposeRoute of a listener
  looks,      \* its iteration
  faults,     \* calls that failed, or whose answer was lost
  confirmed   \* templates whose removal was submitted

cluster == <<templates, listeners, triggers, taken>>
dialogs == <<pc, selected, linking, plan, confirmed>>
routes == <<expose, looks>>
vars == <<cluster, dialogs, calls, routes, faults>>

Dialogs == Adders \cup Removers
Names == Templates \cup Listeners

Call == [kind : {"delete", "patch"}, template : Templates, listener : Listeners,
         triggers : SUBSET Entries]

TypeOK ==
  /\ templates \subseteq Templates /\ listeners \subseteq Listeners
  /\ triggers \in [Listeners -> SUBSET Entries]
  /\ templates \cup listeners \subseteq taken /\ taken \subseteq Names
  /\ pc \in [Dialogs -> {"form", "createTemplate", "createListener", "deleteTemplate",
                         "list", "deleteListeners", "patchListeners"}]
  /\ selected \in [Dialogs -> Templates \cup {None}]
  /\ linking \in [Adders -> Listeners \cup {None}]
  /\ plan \in [Removers -> SUBSET Call]
  /\ calls \subseteq Call
  /\ expose \in [Listeners -> {"no", "look", "service", "route", "default", "done",
                               "reported", "silent"}]
  /\ looks \in [Listeners -> 0 .. MaxIteration]
  /\ faults \in 0 .. MaxFaults
  /\ confirmed \subseteq Templates

TemplatesOf(l) == {e[1] : e \in triggers[l]}

SingleTrigger(l) == \E e \in Entries : triggers[l] = {e}

Init ==
  /\ templates = InitTemplates
  /\ listeners \in SUBSET InitListeners
  /\ InitListeners \ Triggerless \subseteq listeners
  /\ triggers \in [Listeners -> SUBSET Entries]
  /\ \A l \in Listeners :
       /\ TemplatesOf(l) \subseteq templates
       /\ l \in Listeners \ InitListeners \/ l \in Triggerless => triggers[l] = {}
       /\ l \in InitListeners \ (Shared \cup Triggerless) => SingleTrigger(l)
       /\ l \in InitListeners \cap Shared => triggers[l] # {} /\ ~SingleTrigger(l)
  /\ taken = InitTemplates \cup InitListeners
  /\ pc = [d \in Dialogs |-> "form"]
  /\ selected = [d \in Dialogs |-> None]
  /\ linking = [d \in Adders |-> None]
  /\ plan = [d \in Removers |-> {}]
  /\ calls = {}
  /\ expose = [l \in Listeners |-> "no"]
  /\ looks = [l \in Listeners |-> 0]
  /\ faults = 0
  /\ confirmed = {}

-----------------------------------------------------------------------------
(***************************************************************************)
(* A dialog.  SetSubmitError ends a failed submission: the dialog can be   *)
(* edited again and keeps its selection.                                   *)
(***************************************************************************)

Advance(d, next) == pc' = [pc EXCEPT ![d] = next]

SetSubmitError(d) == Advance(d, "form")

\* A call fails at a fault of the network or of the cluster.
Fault == faults < MaxFaults /\ faults' = faults + 1

\* Submitting an Add dialog draws the names of the objects to create.
SubmitAdd(d) ==
  /\ pc[d] = "form"
  /\ \E t \in Templates \ taken, l \in Listeners \ taken :
       /\ selected' = [selected EXCEPT ![d] = t]
       /\ linking' = [linking EXCEPT ![d] = l]
       /\ taken' = taken \cup {t, l}
  /\ Advance(d, "createTemplate")
  /\ UNCHANGED <<templates, listeners, triggers, plan, calls, routes, faults, confirmed>>

CreateTemplate(d) ==
  /\ pc[d] = "createTemplate"
  /\ \/ /\ templates' = templates \cup {selected[d]}
        /\ Advance(d, "createListener")
        /\ UNCHANGED faults
     \/ /\ Fault
        /\ templates' \in {templates, templates \cup {selected[d]}}
        /\ SetSubmitError(d)
  /\ UNCHANGED <<listeners, triggers, taken, selected, linking, plan, calls, routes, confirmed>>

\* Mutant: the listener may be created before the template it refers to.
CreateListenerEarly(d) ==
  /\ pc[d] \in {"createTemplate", "createListener"}
  /\ listeners' = listeners \cup {linking[d]}
  /\ triggers' = [triggers EXCEPT ![linking[d]] = {<<selected[d], 1>>}]
  /\ expose' = [expose EXCEPT ![linking[d]] = "look"]
  /\ Advance(d, "form")
  /\ UNCHANGED <<templates, taken, selected, linking, plan, calls, looks, faults, confirmed>>

\* The listener that refers to the template; a success closes the dialog and
\* calls exposeRoute, which nobody waits for.
CreateListener(d) ==
  /\ pc[d] = "createListener"
  /\ LET l == linking[d]
         Created == /\ listeners' = listeners \cup {l}
                    /\ triggers' = [triggers EXCEPT ![l] = {<<selected[d], 1>>}]
     IN \/ Created /\ expose' = [expose EXCEPT ![l] = "look"] /\ UNCHANGED faults
        \/ Fault /\ UNCHANGED expose /\ (Created \/ UNCHANGED <<listeners, triggers>>)
  /\ Advance(d, "form")
  /\ UNCHANGED <<templates, taken, selected, linking, plan, calls, looks, confirmed>>

-----------------------------------------------------------------------------
(***************************************************************************)
(* Removing a trigger.                                                     *)
(***************************************************************************)

RefersTo(l, t) == t \in TemplatesOf(l)

\* The selector offers, for each listener, a template of its pipeline that exists and that
\* the listener refers to; which pipeline a template runs is left open.
Pick(d, t) ==
  /\ pc[d] = "form" /\ t # selected[d]
  /\ t \in templates
  /\ \E l \in listeners : RefersTo(l, t)
  /\ selected' = [selected EXCEPT ![d] = t]
  /\ UNCHANGED <<cluster, pc, linking, plan, calls, routes, faults, confirmed>>

\* The selected template may be gone by now.
SubmitRemove(d) ==
  /\ pc[d] = "form" /\ selected[d] # None
  /\ Advance(d, "deleteTemplate")
  /\ confirmed' = confirmed \cup {selected[d]}
  /\ UNCHANGED <<cluster, selected, linking, plan, calls, routes, faults>>

DeleteTemplate(d) ==
  /\ pc[d] = "deleteTemplate"
  /\ LET t == selected[d]
     IN \/ /\ t \in templates
           /\ templates' = templates \ {t}
           /\ Advance(d, "list")
           /\ UNCHANGED faults
        \/ /\ t \notin templates
           /\ SetSubmitError(d)
           /\ UNCHANGED <<templates, faults>>
        \/ /\ Fault
           /\ templates' \in {templates, templates \ {t}}
           /\ SetSubmitError(d)
  /\ UNCHANGED <<listeners, triggers, taken, selected, linking, plan, calls, routes, confirmed>>

\* Mutant: every listener with a trigger matches.
MatchingAll(t) == {l \in listeners : triggers[l] # {}}

\* matchingEventListeners
Matching(t) == {l \in listeners : RefersTo(l, t)}

\* What the patch of a shared listener leaves of its triggers.
Kept(l, t) == {e \in triggers[l] : e[1] = t}

DeletionOf(l, t) == [kind |-> "delete", template |-> t, listener |-> l, triggers |-> {}]
PatchOf(l, t) == [kind |-> "patch", template |-> t, listener |-> l, triggers |-> Kept(l, t)]

\* The list of the listeners; one without spec.triggers breaks the search.
List(d) ==
  /\ pc[d] = "list"
  /\ LET t == selected[d]
         single == {l \in Matching(t) : SingleTrigger(l)}
     IN \/ /\ listeners \cap Triggerless = {}
           /\ calls' = calls \cup {DeletionOf(l, t) : l \in single}
           /\ plan' = [plan EXCEPT ![d] = {PatchOf(l, t) : l \in Matching(t) \ single}]
           /\ Advance(d, "deleteListeners")
           /\ UNCHANGED faults
        \/ /\ listeners \cap Triggerless # {}
           /\ SetSubmitError(d)
           /\ UNCHANGED <<calls, plan, faults>>
        \/ /\ Fault
           /\ SetSubmitError(d)
           /\ UNCHANGED <<calls, plan>>
  /\ UNCHANGED <<cluster, selected, linking, routes, confirmed>>

Effect(c) ==
  IF c.kind = "delete" THEN listeners' = listeners \ {c.listener} /\ UNCHANGED triggers
  ELSE triggers' = [triggers EXCEPT ![c.listener] = c.triggers] /\ UNCHANGED listeners

Waiting == {"deleteListeners", "patchListeners"}

\* Promise.all: the first failure ends the removal, the other calls go on.
Rejected(c) ==
  pc' = [d \in Dialogs |-> IF pc[d] \in Waiting /\ selected[d] = c.template
                             THEN "form" ELSE pc[d]]

\* Mutant: the failure of one call is not noticed, the dialog goes on waiting for it.
AnswerSwallowed(c) ==
  /\ IF c.listener \in listeners THEN Effect(c) ELSE UNCHANGED <<listeners, triggers>>
  /\ calls' = IF c.listener \in listeners THEN calls \ {c} ELSE calls
  /\ UNCHANGED <<templates, taken, dialogs, routes, faults>>

Answer(c) ==
  /\ \/ c.listener \in listeners /\ Effect(c) /\ UNCHANGED <<pc, faults>>
     \/ c.listener \notin listeners /\ Rejected(c) /\ UNCHANGED <<listeners, triggers, faults>>
     \/ /\ Fault /\ Rejected(c)
        /\ \/ c.listener \in listeners /\ Effect(c)
           \/ UNCHANGED <<listeners, triggers>>
  /\ calls' = calls \ {c}
  /\ UNCHANGED <<templates, taken, selected, linking, plan, confirmed, routes>>

CallsOf(d) == {c \in calls : c.template = selected[d]}

IssuePatches(d) ==
  /\ pc[d] = "deleteListeners" /\ CallsOf(d) = {}
  /\ calls' = calls \cup plan[d]
  /\ plan' = [plan EXCEPT ![d] = {}]
  /\ Advance(d, "patchListeners")
  /\ UNCHANGED <<cluster, selected, linking, routes, faults, confirmed>>

\* The dialog closes; opened again, nothing is selected.
Removed(d) ==
  /\ pc[d] = "patchListeners" /\ CallsOf(d) = {}
  /\ Advance(d, "form")
  /\ selected' = [selected EXCEPT ![d] = None]
  /\ UNCHANGED <<cluster, linking, plan, calls, routes, faults, confirmed>>

\* Somebody deletes a listener whose template is missing by hand.
CleanUp(l) ==
  /\ l \in listeners \ (Shared \cup Triggerless)
  /\ TemplatesOf(l) \cap templates = {}
  /\ listeners' = listeners \ {l}
  /\ UNCHANGED <<templates, triggers, taken, dialogs, calls, routes, faults>>

-----------------------------------------------------------------------------
(***************************************************************************)
(* exposeRoute: the Route to a listener the console made.                  *)
(***************************************************************************)

To(l, next) == expose' = [expose EXCEPT ![l] = next]

\* Mutant: the iteration is not passed on for good.
LookForever(l) ==
  /\ expose[l] = "look"
  /\ \/ To(l, "service") /\ UNCHANGED looks
     \/ looks' = [looks EXCEPT ![l] = (@ + 1) % (MaxIteration + 1)] /\ UNCHANGED expose
  /\ UNCHANGED <<cluster, dialogs, calls, faults>>

\* Mutant: one iteration too many.
LookOnceMore(l) ==
  /\ expose[l] = "look" /\ l \in listeners
  /\ IF looks[l] <= MaxIteration THEN looks' = [looks EXCEPT ![l] = @ + 1] /\ UNCHANGED expose
                      ELSE To(l, "default") /\ UNCHANGED looks
  /\ UNCHANGED <<cluster, dialogs, calls, faults>>

\* k8sGet of the listener.  It is not in the try block: when it fails nobody
\* is told.  While its controller has not named a service, a timer looks again,
\* MaxIteration times.
Look(l) ==
  /\ expose[l] = "look"
  /\ \/ /\ l \in listeners
        /\ To(l, "service")
        /\ UNCHANGED <<looks, faults>>
     \/ /\ l \in listeners
        /\ IF looks[l] < MaxIteration THEN looks' = [looks EXCEPT ![l] = @ + 1] /\ UNCHANGED expose
                           ELSE To(l, "default") /\ UNCHANGED looks
        /\ UNCHANGED faults
     \/ l \notin listeners /\ To(l, "silent") /\ UNCHANGED <<looks, faults>>
     \/ Fault /\ To(l, "silent") /\ UNCHANGED looks
  /\ UNCHANGED <<cluster, dialogs, calls>>

\* k8sGet of the service, which is gone some time after its listener.
GetService(l) ==
  /\ expose[l] = "service"
  /\ \/ To(l, "route") /\ UNCHANGED faults
     \/ l \notin listeners /\ To(l, "reported") /\ UNCHANGED faults
     \/ Fault /\ To(l, "reported")
  /\ UNCHANGED <<cluster, dialogs, calls, looks>>

\* k8sCreate of the Route, to the service found or to the usual name of one.
CreateRoute(l) ==
  /\ expose[l] \in {"route", "default"}
  /\ \/ To(l, "done") /\ UNCHANGED faults
     \/ Fault /\ To(l, "reported")
  /\ UNCHANGED <<cluster, dialogs, calls, looks>>

-----------------------------------------------------------------------------
AddStep(d) == CreateTemplate(d) \/ CreateListener(d)
RemoveStep(d) == DeleteTemplate(d) \/ List(d) \/ IssuePatches(d) \/ Removed(d)
ExposeStep(l) == Look(l) \/ GetService(l) \/ CreateRoute(l)

Next ==
  \/ \E d \in Adders : SubmitAdd(d) \/ AddStep(d)
  \/ \E d \in Removers : SubmitRemove(d) \/ RemoveStep(d) \/ \E t \in Templates : Pick(d, t)
  \/ \E c \in calls : Answer(c)
  \/ \E l \in Listeners : CleanUp(l) \/ ExposeStep(l)

\* Calls are answered and the code that awaits them runs; users owe nothing.
Fairness ==
  /\ \A d \in Adders : WF_vars(AddStep(d))
  /\ \A d \in Removers : WF_vars(RemoveStep(d))
  /\ WF_vars(\E c \in calls : Answer(c))
  /\ \A l \in Listeners \ InitListeners : WF_vars(ExposeStep(l))

Spec == Init /\ [][Next]_vars /\ Fairness

-----------------------------------------------------------------------------
(***************************************************************************)
(* What the dialogs promise, and what they leave behind.                   *)
(***************************************************************************)

\* The triggers that listeners with a single trigger start.
Active == {p \in (listeners \ Shared) \X templates : RefersTo(p[1], p[2])}

PT == INSTANCE PipelineTriggers WITH active <- Active

\* The calls of both dialogs, in any order and with any failures, implement the
\* promise: a trigger appears and goes in one step, appears only when it was
\* asked for, and goes only when its template's removal was confirmed
\* (submitTrigger and removeTrigger).
Implements == PT!Spec

AtRest == calls = {} /\ \A d \in Dialogs : pc[d] = "form"

\* When no call has failed and no dialog is at work, no listener refers to a
\* missing template, and no template a dialog created is without a listener,
\* whatever removals of the same trigger overlapped (removeTrigger deletes the
\* template first, submitTrigger creates it first).
CleanAtRest ==
  faults = 0 /\ AtRest /\ listeners \cap Triggerless = {} =>
    /\ \A l \in listeners \ Shared : TemplatesOf(l) \subseteq templates
    /\ \A t \in templates \ InitTemplates : \E l \in listeners : RefersTo(l, t)

\* A submission comes to an end: the dialog closes or shows an error and can be
\* edited, however calls fail or overlap (isSubmitting follows the promise that
\* handleSubmit returns).
SubmissionsEnd == \A d \in Dialogs : []<>(pc[d] = "form")

\* After an Add dialog has closed, the attempts to expose the listener end,
\* after a bounded number of looks, with a Route, a report or a failed look, although
\* nobody awaits them (exposeRoute).
ExposureEnds ==
  \A l \in Listeners \ InitListeners :
    []<>(expose[l] \notin {"look", "service", "route", "default"})

\* Removing a trigger leaves the others of a shared listener as they are
\* (removeTrigger patches it with the triggers it keeps).
KeepsOtherTriggers ==
  [][\A l \in Listeners, t \in Templates :
       l \in listeners /\ RefersTo(l, t) /\ t \in templates
         => t \in confirmed' \/ (l \in listeners' /\ t \in {e[1] : e \in triggers'[l]})]_vars
=============================================================================
