---------------------------- MODULE PipelineTriggers ----------------------------
(***************************************************************************)
(* What the Add Trigger and Remove Trigger dialogs promise of the triggers *)
(* of a namespace: a trigger is an EventListener that starts a run from a  *)
(* TriggerTemplate that exists.  It appears when it was asked for, and     *)
(* goes only together with every other trigger of a template somebody      *)
(* confirmed to remove.                                                    *)
(***************************************************************************)
CONSTANTS
  Templates,   \* names of TriggerTemplates
  Listeners    \* names of EventListeners

VARIABLES
  active,      \* the triggers: pairs of a listener and its template
  confirmed    \* templates whose removal somebody has confirmed

vars == <<active, confirmed>>

Init ==
  /\ active \subseteq Listeners \X Templates
  /\ confirmed = {}

Confirm(t) ==
  /\ confirmed' = confirmed \cup {t}
  /\ UNCHANGED active

\* A new listener starts runs from a new template.
Add(l, t) ==
  /\ \A p \in active : p[1] # l /\ p[2] # t
  /\ active' = active \cup {<<l, t>>}
  /\ UNCHANGED confirmed

\* No listener starts runs from the template any more; other triggers stay.
Remove(t) ==
  /\ t \in confirmed
  /\ active' = {p \in active : p[2] # t}
  /\ UNCHANGED confirmed

Next == \E t \in Templates : Confirm(t) \/ Remove(t) \/ \E l \in Listeners : Add(l, t)

Spec == Init /\ [][Next]_vars
=============================================================================
