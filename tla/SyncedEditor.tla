----------------------------- MODULE SyncedEditor -----------------------------
(***************************************************************************)
(* The two views of the pipeline builder.  Switching to the YAML view      *)
(* writes the form as text.  While the text is shown, an effect brings the *)
(* form's tasks into line with it whenever it is valid; placeholders are   *)
(* kept, for the text has none.  Switching back takes a valid text over.   *)
(* Of an invalid one a repair is made and the user is warned; a confirmed  *)
(* warning puts the repair made last into the form.                        *)
(*                                                                         *)
(* Of a text, its tasks in their order, and their runAfters in theirs.  A  *)
(* task without a reference to a Task is invalid, and so is a runAfter     *)
(* that names no node.                                                     *)
(***************************************************************************)
EXTENDS PipelineBuilder, Sequences, SequencesExt

CONSTANTS
  Typings  \* bound: what the user may type: texts, and None for one that cannot be parsed

VARIABLES
  opened,    \* existingPipeline; a new pipeline has no tasks
  view,      \* editorType, which localStorage keeps from one visit to the next
  text,      \* yamlData; None in the form view, which leaves it to be written anew
  warning,   \* yamlWarning
  repaired,  \* sanitizeToCallback: the form it returns
  entered    \* history: the form when the text was written of it, until either is changed

editor == <<opened, view, text, warning, repaired, entered>>
allVars == <<vars, editor>>

\* A task of a text may have no runAfter at all.
TextTask == [name : TaskName, runAfter : {None} \cup Seq(Name), res : Resource \cup {NoName}]

IsText(t) == /\ DOMAIN t = {"tasks", "finallyTasks"}
             /\ t.tasks \in Seq(TextTask) /\ t.finallyTasks \subseteq Task

After(task) == IF task.runAfter = None THEN {} ELSE Range(task.runAfter)

\* The tasks of a text, as a form or a pipeline has them.
TasksOf(t) == {[task EXCEPT !.runAfter = After(task)] : task \in Range(t.tasks)}

\* Its tasks have names of their own and wait neither for one another in a circle nor for a
\* finally task or a list node.  The form's validation asks for none of this; Tekton's does.
Orderly(t) ==
  /\ \A i, j \in DOMAIN t.tasks : t.tasks[i].name = t.tasks[j].name => i = j
  /\ NamesOf(Range(t.tasks)) \cap NamesOf(t.finallyTasks) = {}
  /\ \A task \in Range(t.tasks) :
       After(task) \cap (NamesOf(t.finallyTasks) \cup ListName) = {}
  /\ Acyclic(TasksOf(t))

\* What is typed is orderly, though it may lack references and name tasks that are not there.
ASSUME TypingsAssumption ==
  /\ None \notin Seq(Name)
  /\ \A t \in Typings \ {None} : IsText(t) /\ Orderly(t)

EditorTypeOK ==
  /\ TypeOK
  /\ opened \in Pipeline
  /\ view \in {"form", "yaml"}
  /\ text = None \/ IsText(text)
  /\ warning \in BOOLEAN
  /\ repaired \in Grouping \cup {None}
  /\ entered \in Grouping \cup {None}

-----------------------------------------------------------------------------
(***************************************************************************)
(* From the form to the text and back.                                     *)
(***************************************************************************)

\* Where the form has no tasks the pipeline it was opened with gives its own.
TextOf(g, p) ==
  LET written == SetToSeq(IF g.tasks = {} THEN p.tasks ELSE g.tasks)
  IN  [tasks |-> [i \in DOMAIN written |-> [written[i] EXCEPT !.runAfter = SetToSeq(@)]],
       finallyTasks |-> g.finallyTasks]

\* The text of a builder that opens is that of an empty form.
InitialText(p) == TextOf(FormOf([tasks |-> {}, finallyTasks |-> {}]), p)

\* Mutant: what the text does not have is gone.
FormDataOfText(g, t) == FormOf([tasks |-> TasksOf(t), finallyTasks |-> t.finallyTasks])

\* getFormData.  A list node runs after what it did, as far as the form before has it.
GetFormData(g, t) ==
  LET known == NamesOf(g.tasks) \cup NamesOf(g.listTasks)
  IN  [g EXCEPT
        !.tasks = TasksOf(t),
        !.finallyTasks = t.finallyTasks,
        !.listTasks = {[l EXCEPT !.runAfter = {n \in @ : n # l.name /\ n \in known}] : l \in @}]

\* The tasks that a task of the text may name in its runAfter.
Referable(g, t) == NamesOf(Range(t.tasks)) \cup NamesOf(t.finallyTasks) \cup NamesOf(g.listTasks)

\* The places of a runAfter that are invalid.
Dangling(g, t, task) ==
  IF task.runAfter = None THEN {}
  ELSE {j \in DOMAIN task.runAfter :
          task.runAfter[j] = task.name \/ task.runAfter[j] \notin Referable(g, t)}

Undefined(t) == {i \in DOMAIN t.tasks : t.tasks[i].res = NoName}

\* validateFormData
Valid(g, t) == Undefined(t) = {} /\ \A task \in Range(t.tasks) : Dangling(g, t, task) = {}

(***************************************************************************)
(* safeOmit, of one path after the other: for each task those into its     *)
(* runAfter, then its own.  Each takes a place out of the list that those  *)
(* before it have left: of two invalid entries the second may stay and the *)
(* one behind it go, and the path into a runAfter may lead to that of      *)
(* another task.  Where it leads nowhere safeOmit throws: None.            *)
(***************************************************************************)
TakenOut(s, places) ==
  LET rest[i \in 0 .. Len(s)] ==
        IF i = 0 THEN s
        ELSE IF i \in places \cap DOMAIN rest[i - 1] THEN RemoveAt(rest[i - 1], i)
        ELSE rest[i - 1]
  IN  rest[Len(s)]

OmitRunAfters(tasks, i, places) ==
  IF tasks = None \/ places = {} THEN tasks
  ELSE IF i \notin DOMAIN tasks \/ tasks[i].runAfter = None THEN None
  ELSE [tasks EXCEPT ![i].runAfter = TakenOut(@, places)]

OmitTask(tasks, i, undefined) ==
  IF tasks # None /\ i \in undefined \cap DOMAIN tasks THEN RemoveAt(tasks, i) ELSE tasks

Omit(g, t) ==
  LET cut[i \in 0 .. Len(t.tasks)] ==
        IF i = 0 THEN t.tasks
        ELSE OmitTask(OmitRunAfters(cut[i - 1], i, Dangling(g, t, t.tasks[i])), i, Undefined(t))
      left == cut[Len(t.tasks)]
  IN  IF left = None THEN None ELSE [t EXCEPT !.tasks = left]

\* Mutant: the form's tasks are a copy of that array.
CutCopy(g, t) == GetFormData(g, t)

\* getValidatedFormAndYaml: the form's tasks are the array that is being cut.
Cut(g, t) == GetFormData([g EXCEPT !.tasks = TasksOf(t)], t)

\* handleSanitizeToFormError: two attempts, or the form as it is; None where it throws.
Repair(g, t) ==
  LET g0 == GetFormData(g, t)
      once == Omit(g0, t)
      again == Omit(Cut(g0, once), once)
  IN  IF once = None THEN None
      ELSE IF Valid(Cut(g0, once), once) THEN Cut(g0, once)
      ELSE IF again = None THEN None
      ELSE IF Valid(Cut(g0, again), again) THEN Cut(g0, again)
      ELSE g

-----------------------------------------------------------------------------
(***************************************************************************)
(* The views.                                                              *)
(***************************************************************************)

EditorInit ==
  /\ Init
  /\ opened = PipelineOf(group)
  /\ view \in {"form", "yaml"}
  /\ text = IF view = "yaml" THEN InitialText(opened) ELSE None
  /\ warning = FALSE
  /\ repaired = None
  /\ entered = None

TextValid == text # None /\ Valid(group, text)

\* The effect that follows the text has nothing to do.
Synced == view = "yaml" /\ Editing /\ TextValid => GetFormData(group, text) = group

Sync ==
  /\ ~Synced
  /\ group' = GetFormData(group, text)
  /\ UNCHANGED <<ui, callback, cluster, pending, saved, editor>>

\* What PipelineBuilder does in the form view, and what happens to it in either: the quick
\* search, its callbacks and the effects of its installs outlast the form they were opened in.
BuilderStep ==
  /\ Synced
  /\ \/ view = "form" /\ Edit
     \/ Hub
     \/ \E r \in Deletable : WatchDeleted(r)
     \/ \E l \in group.loadingTasks : LoadingCleanup(l)
  /\ entered' = IF group' = group THEN entered ELSE None
  /\ UNCHANGED <<opened, view, text, warning, repaired>>

Quiet == Idle /\ Synced

ToYAML ==
  /\ Quiet /\ view = "form"
  /\ view' = "yaml" /\ text' = TextOf(group, opened)
  /\ entered' = IF group.tasks = {} THEN None ELSE group
  /\ UNCHANGED <<vars, opened, warning, repaired>>

Type(t) ==
  /\ Quiet /\ view = "yaml" /\ t # text
  /\ text' = t /\ entered' = None
  /\ UNCHANGED <<vars, opened, view, warning, repaired>>

\* A valid text is taken over.  A warning given before stays.
ToForm ==
  /\ Quiet /\ view = "yaml" /\ TextValid
  /\ group' = GetFormData(group, text)
  /\ view' = "form" /\ text' = None
  /\ UNCHANGED <<ui, callback, cluster, pending, saved, opened, warning, repaired, entered>>

\* Of a text that cannot be parsed there is no repair, nor where making one throws: that of an
\* earlier text remains.
Warn ==
  /\ Quiet /\ view = "yaml" /\ ~TextValid
  /\ warning' = TRUE
  /\ LET made == IF text = None THEN None ELSE Repair(group, text)
     IN  repaired' = IF made = None THEN repaired ELSE made
  /\ UNCHANGED <<vars, opened, view, text, entered>>

\* "Switch and delete", in whichever view the warning still stands.
Confirm ==
  /\ Quiet /\ warning
  /\ warning' = FALSE
  /\ group' = IF repaired = None THEN group ELSE repaired
  /\ view' = "form" /\ text' = None /\ entered' = None
  /\ UNCHANGED <<ui, callback, cluster, pending, saved, opened, repaired>>

Cancel ==
  /\ Quiet /\ warning
  /\ warning' = FALSE
  /\ UNCHANGED <<vars, opened, view, text, repaired, entered>>

SubmitForm ==
  /\ view = "form" /\ Submit
  /\ UNCHANGED editor

\* The text is sent as it is, loading nodes or not.
SubmitText ==
  /\ Quiet /\ view = "yaml" /\ text # None /\ Undefined(text) = {}
  /\ LET p == [tasks |-> TasksOf(text), finallyTasks |-> text.finallyTasks]
     IN  TektonAccepts(p) /\ p.tasks # {} /\ saved' = p
  /\ \E S \in SUBSET (Requested \cup {p.res : p \in pending}) : arriving' = arriving \cup S
  /\ pending' = {} /\ creating' = {}
  /\ UNCHANGED <<group, ui, callback, installed, failed, editor>>

\* The builder opens in the view that was used last.
ReopenBuilder ==
  /\ Reopen
  /\ opened' = saved
  /\ text' = IF view = "yaml" THEN InitialText(saved) ELSE None
  /\ warning' = FALSE /\ repaired' = None /\ entered' = None
  /\ UNCHANGED view

EditorNext ==
  \/ BuilderStep
  \/ Sync
  \/ ToYAML
  \/ \E t \in Typings : Type(t)
  \/ ToForm
  \/ Warn
  \/ Confirm
  \/ Cancel
  \/ SubmitForm
  \/ SubmitText
  \/ ReopenBuilder

EditorSpec == EditorInit /\ [][EditorNext]_allVars

-----------------------------------------------------------------------------
(***************************************************************************)
(* Properties.                                                             *)
(***************************************************************************)

\* A look at the text changes nothing: as long as neither is edited the form keeps its tasks,
\* its placeholders and their order, while the effect follows the text and when one switches
\* back; with no install about, for a list node loses its place after a loading node
\* (getFormData).
LookingKeepsTheForm == Synced /\ entered # None => group = entered

\* Whatever orderly text is typed, repaired, switched and edited, in any order, no node of the
\* form runs after one that is not there; with no install about, and with references that
\* resolve, for the repair of one that does not leaves the list nodes running after the node it
\* replaces (validRunAfter, safeOmit; fixInvalidListTask).
RunAftersResolve ==
  Synced => \A t \in group.tasks \cup group.listTasks :
    t.runAfter \subseteq RegularNames(group) \cup NamesOf(group.loadingTasks)
=============================================================================
