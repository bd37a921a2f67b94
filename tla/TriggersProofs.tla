----------------------------- MODULE TriggersProofs -----------------------------
(***************************************************************************)
(* The dialogs of Triggers for any templates, listeners and dialogs and    *)
(* any number of faults: they keep their shape and implement               *)
(* PipelineTriggers, whatever calls fail or overlap.                       *)
(***************************************************************************)
EXTENDS Triggers, TLAPS

Pending(d) == pc[d] \in {"createTemplate", "createListener"}

\* The names an Add dialog has drawn are its own.
FreshNames == \A d \in Adders : Pending(d) =>
  /\ selected[d] \in (Templates \cap taken) \ confirmed
  /\ linking[d] \in (Listeners \cap taken) \ listeners
  /\ \A r \in Removers : selected[r] # selected[d]
  /\ \A l \in Listeners : \A e \in triggers[l] : e[1] # selected[d]
  /\ \A c \in calls : c.kind = "delete" => c.listener # linking[d]
  /\ \A d2 \in Adders : d2 # d /\ Pending(d2) =>
       selected[d2] # selected[d] /\ linking[d2] # linking[d]
  /\ pc[d] = "createTemplate" => selected[d] \notin templates
  /\ pc[d] = "createListener" => selected[d] \in templates

KnownNames ==
  /\ confirmed \subseteq taken
  /\ \A r \in Removers : selected[r] \in taken \cup {None}
  /\ \A l \in Listeners : \A e \in triggers[l] : e[1] \in taken

\* A removal has deleted its template before it looks for listeners.
RemovalOrder ==
  /\ \A r \in Removers :
       /\ ~Pending(r)
       /\ pc[r] # "form" => selected[r] \in confirmed
       /\ pc[r] \in {"list", "deleteListeners", "patchListeners"} => selected[r] \notin templates
  /\ \A d \in Adders : pc[d] = "form" \/ Pending(d)

CallOk(c) ==
  /\ c.template \in confirmed \ templates
  /\ \A e \in c.triggers : e[1] = c.template
  /\ c.kind = "patch" => c.listener \in Shared
  /\ c.kind = "delete" =>
       /\ c.listener \in taken
       /\ c.listener \in Shared \/ \A e \in triggers[c.listener] : e[1] = c.template

CallsOk ==
  /\ \A c \in calls : CallOk(c)
  /\ \A r \in Removers : \A c \in plan[r] : c.kind = "patch" /\ CallOk(c)

SingleTriggers == \A l \in Listeners \ Shared : triggers[l] = {} \/ SingleTrigger(l)

IInv == TypeOK /\ FreshNames /\ KnownNames /\ RemovalOrder /\ CallsOk /\ SingleTriggers

-----------------------------------------------------------------------------
LEMMA EntryOf ==
  ASSUME NEW e \in Entries
  PROVE  e[1] \in Templates
  BY TriggersAssumption

LEMMA InitIInv == Init => IInv
<1> SUFFICES ASSUME Init PROVE IInv OBVIOUS
<1>1. TypeOK
  <2>1. faults \in 0 .. MaxFaults BY TriggersAssumption DEF Init
  <2>2. looks \in [Listeners -> 0 .. MaxIteration] BY TriggersAssumption DEF Init
  <2>3. pc \in [Dialogs -> {"form", "createTemplate", "createListener", "deleteTemplate",
                         "list", "deleteListeners", "patchListeners"}]
        /\ selected \in [Dialogs -> Templates \cup {None}]
        /\ linking \in [Adders -> Listeners \cup {None}]
        /\ plan \in [Removers -> SUBSET Call]
    BY DEF Init
  <2>4. /\ templates \subseteq Templates /\ listeners \subseteq Listeners
        /\ templates \cup listeners \subseteq taken /\ taken \subseteq Names
    BY TriggersAssumption DEF Init, Names
  <2> QED BY <2>1, <2>2, <2>3, <2>4 DEF Init, TypeOK
<1>2. FreshNames /\ RemovalOrder BY DEF Init, FreshNames, RemovalOrder, Pending, Dialogs
<1>3. CallsOk BY DEF Init, CallsOk
<1>4. KnownNames
  <2>1. \A r \in Removers : selected[r] = None BY DEF Init, Dialogs
  <2>2. \A l \in Listeners : \A e \in triggers[l] : e[1] \in templates
    BY DEF Init, TemplatesOf
  <2> QED BY <2>1, <2>2 DEF Init, KnownNames
<1>5. SingleTriggers BY DEF Init, SingleTriggers, SingleTrigger
<1> QED BY <1>1, <1>2, <1>3, <1>4, <1>5 DEF IInv

-----------------------------------------------------------------------------
(***************************************************************************)
(* One lemma per action.                                                   *)
(***************************************************************************)

LEMMA SubmitAddStep ==
  ASSUME IInv, NEW d \in Adders, SubmitAdd(d)
  PROVE  IInv'
<1> PICK t \in Templates \ taken, l \in Listeners \ taken :
      /\ selected' = [selected EXCEPT ![d] = t]
      /\ linking' = [linking EXCEPT ![d] = l]
      /\ taken' = taken \cup {t, l}
  BY DEF SubmitAdd
<1>1. pc' = [pc EXCEPT ![d] = "createTemplate"] BY DEF SubmitAdd, Advance
<1>a. /\ d \in Dialogs /\ Adders \subseteq Dialogs /\ Removers \subseteq Dialogs
      /\ \A r \in Removers : r # d
  BY TriggersAssumption DEF Dialogs
<1>2. TypeOK' BY <1>1, <1>a DEF SubmitAdd, IInv, TypeOK, Names, routes
<1>b. UNCHANGED <<templates, listeners, triggers, plan, calls, confirmed>> BY DEF SubmitAdd
<1>c. /\ \A r \in Dialogs : r # d => pc'[r] = pc[r] /\ selected'[r] = selected[r]
      /\ \A r \in Adders : r # d => linking'[r] = linking[r]
      /\ pc'[d] = "createTemplate" /\ selected'[d] = t /\ linking'[d] = l
  BY <1>1, <1>a DEF IInv, TypeOK
<1>3. KnownNames' BY <1>a, <1>b, <1>c DEF IInv, KnownNames
<1>4. RemovalOrder' BY <1>a, <1>b, <1>c DEF IInv, RemovalOrder, Pending
<1>5. CallsOk' BY <1>b DEF IInv, CallsOk, CallOk
<1>6. SingleTriggers' BY <1>b DEF IInv, SingleTriggers, SingleTrigger
<1>7. FreshNames'
  <2> SUFFICES ASSUME NEW x \in Adders, Pending(x)'
               PROVE  /\ selected'[x] \in (Templates \cap taken') \ confirmed'
                      /\ linking'[x] \in (Listeners \cap taken') \ listeners'
                      /\ \A r \in Removers : selected'[r] # selected'[x]
                      /\ \A k \in Listeners : \A e \in triggers'[k] : e[1] # selected'[x]
                      /\ \A c \in calls' : c.kind = "delete" => c.listener # linking'[x]
                      /\ \A d2 \in Adders : d2 # x /\ Pending(d2)' =>
                           selected'[d2] # selected'[x] /\ linking'[d2] # linking'[x]
                      /\ pc'[x] = "createTemplate" => selected'[x] \notin templates'
                      /\ pc'[x] = "createListener" => selected'[x] \in templates'
    BY DEF FreshNames
  <2>1. \A r \in Adders : r # d /\ Pending(r)' => Pending(r) BY <1>a, <1>c DEF Pending
  <2>2. CASE x = d
    <3>1. \A r \in Removers : selected'[r] # t
      BY <1>a, <1>c, TriggersAssumption DEF IInv, KnownNames
    <3>2. \A k \in Listeners : \A e \in triggers'[k] : e[1] # t BY <1>b DEF IInv, KnownNames
    <3>3. \A c \in calls' : c.kind = "delete" => c.listener # l BY <1>b DEF IInv, CallsOk, CallOk
    <3>4. \A d2 \in Adders : d2 # d /\ Pending(d2)' => selected'[d2] # t /\ linking'[d2] # l
      BY <2>1, <1>a, <1>c DEF IInv, FreshNames
    <3>5. t \notin templates' /\ l \notin listeners' /\ t \notin confirmed'
      BY <1>b DEF IInv, TypeOK, KnownNames
    <3> QED BY <3>1, <3>2, <3>3, <3>4, <3>5, <2>2, <1>c
  <2>3. CASE x # d
    <3>1. Pending(x) BY <2>1, <2>3
    <3>2. \A d2 \in Adders : d2 # x /\ Pending(d2)' =>
             selected'[d2] # selected'[x] /\ linking'[d2] # linking'[x]
      BY <2>1, <2>3, <3>1, <1>a, <1>c DEF IInv, FreshNames
    <3> QED BY <3>1, <3>2, <2>3, <1>a, <1>b, <1>c DEF IInv, FreshNames
  <2> QED BY <2>2, <2>3
<1> QED BY <1>2, <1>3, <1>4, <1>5, <1>6, <1>7 DEF IInv

LEMMA CreateTemplateStep ==
  ASSUME IInv, NEW d \in Adders, CreateTemplate(d)
  PROVE  IInv'
<1>a. /\ d \in Dialogs /\ Adders \subseteq Dialogs /\ Removers \subseteq Dialogs
      /\ \A r \in Removers : r # d
  BY TriggersAssumption DEF Dialogs
<1>b. UNCHANGED <<listeners, triggers, taken, selected, linking, plan, calls, confirmed>>
      /\ UNCHANGED routes
  BY DEF CreateTemplate
<1>c. Pending(d) /\ pc[d] = "createTemplate" BY DEF CreateTemplate, Pending
<1>d. /\ selected[d] \in (Templates \cap taken) \ confirmed
      /\ \A r \in Removers : selected[r] # selected[d]
      /\ \A x \in Adders : x # d /\ Pending(x) => selected[x] # selected[d]
  BY <1>c DEF IInv, FreshNames
<1>e. PICK next \in {"createListener", "form"} :
        /\ pc' = [pc EXCEPT ![d] = next]
        /\ templates' \in {templates, templates \cup {selected[d]}}
        /\ next = "createListener" => selected[d] \in templates'
        /\ faults' \in {faults} \cup (IF faults < MaxFaults THEN {faults + 1} ELSE {})
  BY DEF CreateTemplate, Advance, SetSubmitError, Fault
<1>f. /\ \A r \in Dialogs : r # d => pc'[r] = pc[r]
      /\ pc'[d] = next
  BY <1>a, <1>e DEF IInv, TypeOK
<1>1. TypeOK'
  <2>1. faults' \in 0 .. MaxFaults BY <1>e, TriggersAssumption DEF IInv, TypeOK
  <2>2. templates' \subseteq Templates /\ templates' \subseteq taken
    BY <1>d, <1>e DEF IInv, TypeOK
  <2>3. pc' \in [Dialogs -> {"form", "createTemplate", "createListener", "deleteTemplate",
                         "list", "deleteListeners", "patchListeners"}]
    BY <1>e DEF IInv, TypeOK
  <2> QED BY <2>1, <2>2, <2>3, <1>b DEF IInv, TypeOK, routes
<1>2. KnownNames' BY <1>b DEF IInv, KnownNames
<1>3. RemovalOrder'
  BY <1>a, <1>b, <1>d, <1>e, <1>f DEF IInv, RemovalOrder, Pending
<1>4. CallsOk' BY <1>b, <1>d, <1>e DEF IInv, CallsOk, CallOk
<1>5. SingleTriggers' BY <1>b DEF IInv, SingleTriggers, SingleTrigger
<1>6. FreshNames'
  <2>1. \A x \in Adders : Pending(x)' => Pending(x) BY <1>a, <1>c, <1>f DEF Pending
  <2>2. \A x \in Adders : pc'[x] = "createTemplate" => x # d /\ pc[x] = "createTemplate"
    BY <1>a, <1>e, <1>f
  <2>3. \A x \in Adders : pc'[x] = "createListener" =>
          selected[x] \in templates'
    BY <1>a, <1>e, <1>f DEF IInv, FreshNames, Pending
  <2>4. \A x \in Adders : pc'[x] = "createTemplate" => selected[x] \notin templates'
    BY <2>2, <1>d, <1>e DEF IInv, FreshNames, Pending
  <2> QED BY <2>1, <2>3, <2>4, <1>b DEF IInv, FreshNames
<1> QED BY <1>1, <1>2, <1>3, <1>4, <1>5, <1>6 DEF IInv

LEMMA CreateListenerStep ==
  ASSUME IInv, NEW d \in Adders, CreateListener(d)
  PROVE  IInv'
<1> DEFINE l == linking[d]
<1> DEFINE t == selected[d]
<1>a. /\ d \in Dialogs /\ Adders \subseteq Dialogs /\ Removers \subseteq Dialogs
      /\ \A r \in Removers : r # d
  BY TriggersAssumption DEF Dialogs
<1>b. UNCHANGED <<templates, taken, selected, linking, plan, calls, confirmed, looks>>
  BY DEF CreateListener
<1>c. Pending(d) BY DEF CreateListener, Pending
<1>d. /\ t \in (Templates \cap taken) \ confirmed
      /\ l \in (Listeners \cap taken) \ listeners
      /\ \A c \in calls : c.kind = "delete" => c.listener # l
      /\ \A x \in Adders : x # d /\ Pending(x) => selected[x] # t /\ linking[x] # l
  BY <1>c DEF IInv, FreshNames
<1>e. /\ listeners' \in {listeners, listeners \cup {l}}
      /\ triggers' \in {triggers, [triggers EXCEPT ![l] = {<<t, 1>>}]}
      /\ expose' \in {expose, [expose EXCEPT ![l] = "look"]}
      /\ faults' \in {faults} \cup (IF faults < MaxFaults THEN {faults + 1} ELSE {})
  BY DEF CreateListener, Fault
<1>f. /\ \A r \in Dialogs : r # d => pc'[r] = pc[r]
      /\ pc'[d] = "form" /\ pc' = [pc EXCEPT ![d] = "form"]
  BY <1>a DEF IInv, TypeOK, CreateListener, Advance
<1>g. <<t, 1>> \in Entries BY <1>d, TriggersAssumption
<1>h. /\ \A k \in Listeners : triggers'[k] = triggers[k] \/ (k = l /\ triggers'[k] = {<<t, 1>>})
      /\ triggers' \in [Listeners -> SUBSET Entries]
  BY <1>d, <1>e, <1>g DEF IInv, TypeOK
<1>1. TypeOK'
  <2>1. faults' \in 0 .. MaxFaults BY <1>e, TriggersAssumption DEF IInv, TypeOK
  <2>2. listeners' \subseteq Listeners /\ listeners' \subseteq taken
    BY <1>d, <1>e DEF IInv, TypeOK
  <2>3. pc' \in [Dialogs -> {"form", "createTemplate", "createListener", "deleteTemplate",
                         "list", "deleteListeners", "patchListeners"}]
    BY <1>f DEF IInv, TypeOK
  <2>4. expose' \in [Listeners -> {"no", "look", "service", "route", "default", "done",
                               "reported", "silent"}]
    BY <1>e DEF IInv, TypeOK
  <2> QED BY <2>1, <2>2, <2>3, <2>4, <1>b, <1>h DEF IInv, TypeOK
<1>2. KnownNames' BY <1>b, <1>d, <1>h DEF IInv, KnownNames
<1>3. RemovalOrder' BY <1>a, <1>b, <1>f DEF IInv, RemovalOrder, Pending
<1>4. CallsOk'
  <2>1. \A c \in Call : CallOk(c) /\ (c.kind = "delete" => c.listener # l) => CallOk(c)'
    BY <1>b, <1>h DEF CallOk, Call
  <2>2. \A r \in Removers : \A c \in plan[r] : c \in Call /\ c.kind # "delete"
    BY DEF IInv, TypeOK, CallsOk
  <2>3. \A c \in calls : c \in Call BY DEF IInv, TypeOK
  <2> QED BY <2>1, <2>2, <2>3, <1>b, <1>d DEF IInv, CallsOk
<1>5. SingleTriggers' BY <1>g, <1>h DEF IInv, SingleTriggers, SingleTrigger
<1>6. FreshNames'
  <2>1. \A x \in Adders : Pending(x)' => x # d /\ Pending(x) /\ pc'[x] = pc[x]
    BY <1>a, <1>f DEF Pending
  <2>2. \A x \in Adders : Pending(x)' =>
          /\ \A k \in Listeners : \A e \in triggers'[k] : e[1] # selected[x]
          /\ linking[x] \notin listeners'
    BY <2>1, <1>d, <1>e, <1>h DEF IInv, FreshNames
  <2> QED BY <2>1, <2>2, <1>b DEF IInv, FreshNames
<1> QED BY <1>1, <1>2, <1>3, <1>4, <1>5, <1>6 DEF IInv

LEMMA PickStep ==
  ASSUME IInv, NEW d \in Removers, NEW t \in Templates, Pick(d, t)
  PROVE  IInv'
<1>a. d \in Dialogs /\ Adders \subseteq Dialogs /\ Removers \subseteq Dialogs
      /\ \A x \in Adders : x # d
  BY TriggersAssumption DEF Dialogs
<1>b. UNCHANGED <<templates, listeners, triggers, taken, pc, linking, plan, calls, confirmed, faults>>
      /\ UNCHANGED routes
  BY DEF Pick, cluster
<1>c. selected' = [selected EXCEPT ![d] = t] /\ pc[d] = "form" /\ t \in templates
  BY DEF Pick
<1>d. PICK l \in listeners : RefersTo(l, t) BY DEF Pick
<1>e. l \in Listeners /\ \E e \in triggers[l] : e[1] = t
  BY <1>d DEF IInv, TypeOK, RefersTo, TemplatesOf
<1>f. /\ \A r \in Dialogs : r # d => selected'[r] = selected[r]
      /\ selected'[d] = t
  BY <1>a, <1>c DEF IInv, TypeOK
<1>1. TypeOK' BY <1>b, <1>c DEF IInv, TypeOK, routes
<1>2. KnownNames' BY <1>a, <1>b, <1>c, <1>f DEF IInv, KnownNames, TypeOK
<1>3. RemovalOrder' BY <1>a, <1>b, <1>c, <1>f DEF IInv, RemovalOrder, Pending
<1>4. CallsOk' BY <1>b DEF IInv, CallsOk, CallOk
<1>5. SingleTriggers' BY <1>b DEF IInv, SingleTriggers, SingleTrigger
<1>6. FreshNames'
  <2>1. \A x \in Adders : Pending(x)' => Pending(x) /\ selected'[x] = selected[x]
    BY <1>a, <1>b, <1>f DEF Pending
  <2>2. \A x \in Adders : Pending(x) => selected[x] # t
    BY <1>e DEF IInv, FreshNames
  <2>3. \A x \in Adders : Pending(x)' => \A r \in Removers : selected'[r] # selected'[x]
    BY <2>1, <2>2, <1>a, <1>f DEF IInv, FreshNames
  <2>4. \A x \in Adders : selected'[x] = selected[x] BY <1>a, <1>f
  <2> QED BY <2>1, <2>3, <2>4, <1>b DEF IInv, FreshNames, Pending
<1> QED BY <1>1, <1>2, <1>3, <1>4, <1>5, <1>6 DEF IInv

LEMMA SubmitRemoveStep ==
  ASSUME IInv, NEW d \in Removers, SubmitRemove(d)
  PROVE  IInv'
<1>a. d \in Dialogs /\ Adders \subseteq Dialogs /\ Removers \subseteq Dialogs
      /\ \A x \in Adders : x # d
  BY TriggersAssumption DEF Dialogs
<1>b. UNCHANGED <<templates, listeners, triggers, taken, selected, linking, plan, calls, faults>>
      /\ UNCHANGED routes
  BY DEF SubmitRemove, cluster
<1>c. /\ selected[d] \in Templates \cap taken
      /\ confirmed' = confirmed \cup {selected[d]}
      /\ pc' = [pc EXCEPT ![d] = "deleteTemplate"]
  BY <1>a DEF SubmitRemove, Advance, IInv, TypeOK, KnownNames
<1>d. /\ \A r \in Dialogs : r # d => pc'[r] = pc[r]
      /\ pc'[d] = "deleteTemplate"
  BY <1>a, <1>c DEF IInv, TypeOK
<1>1. TypeOK' BY <1>b, <1>c DEF IInv, TypeOK, routes
<1>2. KnownNames' BY <1>b, <1>c DEF IInv, KnownNames
<1>3. RemovalOrder' BY <1>a, <1>b, <1>c, <1>d DEF IInv, RemovalOrder, Pending
<1>4. CallsOk' BY <1>b, <1>c DEF IInv, CallsOk, CallOk
<1>5. SingleTriggers' BY <1>b DEF IInv, SingleTriggers, SingleTrigger
<1>6. FreshNames'
  <2>1. \A x \in Adders : Pending(x)' => Pending(x) /\ pc'[x] = pc[x] BY <1>a, <1>d DEF Pending
  <2>2. \A x \in Adders : Pending(x) => selected[x] \notin confirmed'
    BY <1>c DEF IInv, FreshNames
  <2> QED BY <2>1, <2>2, <1>b DEF IInv, FreshNames
<1> QED BY <1>1, <1>2, <1>3, <1>4, <1>5, <1>6 DEF IInv

\* A step of a Remove dialog that changes, of what the invariant speaks of, at most
\* where it stands and the templates, which can only become fewer.
LEMMA RemoverMoves ==
  ASSUME IInv, NEW d \in Removers,
         UNCHANGED <<listeners, triggers, taken, linking, plan, calls, confirmed, routes>>,
         NEW next \in {"form", "list"}, pc' = [pc EXCEPT ![d] = next],
         selected' \in {selected, [selected EXCEPT ![d] = None]},
         next # "form" => selected' = selected /\ pc[d] # "form" /\ selected[d] \notin templates',
         templates' \subseteq templates, templates \ templates' \subseteq {selected[d]},
         pc[d] # "form",
         faults' \in {faults} \cup (IF faults < MaxFaults THEN {faults + 1} ELSE {})
  PROVE  IInv'
<1>a. d \in Dialogs /\ Adders \subseteq Dialogs /\ Removers \subseteq Dialogs
      /\ \A x \in Adders : x # d
  BY TriggersAssumption DEF Dialogs
<1>b. /\ \A r \in Dialogs : r # d => pc'[r] = pc[r] /\ selected'[r] = selected[r]
      /\ pc'[d] = next /\ selected'[d] \in {selected[d], None}
  BY <1>a DEF IInv, TypeOK
<1>1. TypeOK'
  <2>1. faults' \in 0 .. MaxFaults BY TriggersAssumption DEF IInv, TypeOK
  <2>2. pc' \in [Dialogs -> {"form", "createTemplate", "createListener", "deleteTemplate",
                         "list", "deleteListeners", "patchListeners"}]
        /\ selected' \in [Dialogs -> Templates \cup {None}]
    BY DEF IInv, TypeOK
  <2>3. templates' \subseteq Templates /\ templates' \subseteq taken BY DEF IInv, TypeOK
  <2> QED BY <2>1, <2>2, <2>3 DEF IInv, TypeOK, routes
<1>2. KnownNames' BY <1>a, <1>b DEF IInv, KnownNames
<1>3. RemovalOrder' BY <1>a, <1>b DEF IInv, RemovalOrder, Pending
<1>4. CallsOk' BY DEF IInv, CallsOk, CallOk
<1>5. SingleTriggers' BY DEF IInv, SingleTriggers, SingleTrigger
<1>6. FreshNames'
  <2>1. \A x \in Adders : /\ Pending(x)' => Pending(x)
                          /\ pc'[x] = pc[x] /\ selected'[x] = selected[x]
    BY <1>a, <1>b DEF Pending
  <2>2. \A x \in Adders : Pending(x) => \A r \in Removers : selected'[r] # selected'[x]
    BY <2>1, <1>a, <1>b, TriggersAssumption DEF IInv, FreshNames
  <2>3. \A x \in Adders : Pending(x) =>
          /\ pc[x] = "createListener" => selected[x] \in templates'
          /\ pc[x] = "createTemplate" => selected[x] \notin templates'
    BY DEF IInv, FreshNames
  <2> QED BY <2>1, <2>2, <2>3 DEF IInv, FreshNames
<1> QED BY <1>1, <1>2, <1>3, <1>4, <1>5, <1>6 DEF IInv

LEMMA DeleteTemplateStep ==
  ASSUME IInv, NEW d \in Removers, DeleteTemplate(d)
  PROVE  IInv'
<1>1. UNCHANGED <<listeners, triggers, taken, linking, plan, calls, confirmed, routes>>
  BY DEF DeleteTemplate
<1>2. selected' = selected /\ pc[d] = "deleteTemplate" BY DEF DeleteTemplate
<1>3. CASE /\ pc' = [pc EXCEPT ![d] = "list"] /\ UNCHANGED faults
           /\ templates' = templates \ {selected[d]}
  BY <1>1, <1>2, <1>3, RemoverMoves
<1>4. CASE /\ pc' = [pc EXCEPT ![d] = "form"]
           /\ templates' \in {templates, templates \ {selected[d]}}
           /\ faults' \in {faults} \cup (IF faults < MaxFaults THEN {faults + 1} ELSE {})
  BY <1>1, <1>2, <1>4, RemoverMoves
<1> QED BY <1>3, <1>4 DEF DeleteTemplate, Advance, SetSubmitError, Fault

LEMMA RemovedStep ==
  ASSUME IInv, NEW d \in Removers, Removed(d)
  PROVE  IInv'
<1>1. /\ UNCHANGED <<listeners, triggers, taken, linking, plan, calls, confirmed, routes>>
      /\ UNCHANGED <<templates, faults>>
      /\ selected' = [selected EXCEPT ![d] = None] /\ pc[d] = "patchListeners"
      /\ pc' = [pc EXCEPT ![d] = "form"]
  BY DEF Removed, Advance, cluster
<1> QED BY <1>1, RemoverMoves

LEMMA CallTypes ==
  ASSUME TypeOK, NEW l \in Listeners, NEW t \in Templates
  PROVE  DeletionOf(l, t) \in Call /\ PatchOf(l, t) \in Call
<1>1. Kept(l, t) \in SUBSET Entries BY DEF TypeOK, Kept
<1> QED BY <1>1 DEF DeletionOf, PatchOf, Call

LEMMA ListStep ==
  ASSUME IInv, NEW d \in Removers, List(d)
  PROVE  IInv'
<1> DEFINE t == selected[d]
<1>1. /\ UNCHANGED <<templates, listeners, triggers, taken, linking, confirmed, routes>>
      /\ selected' = selected /\ pc[d] = "list"
  BY DEF List, cluster
<1>2. CASE /\ UNCHANGED <<calls, plan>> /\ pc' = [pc EXCEPT ![d] = "form"]
           /\ faults' \in {faults} \cup (IF faults < MaxFaults THEN {faults + 1} ELSE {})
  BY <1>1, <1>2, RemoverMoves
<1>3. ASSUME NEW single, single = {l \in Matching(t) : SingleTrigger(l)},
             calls' = calls \cup {DeletionOf(l, t) : l \in single},
             plan' = [plan EXCEPT ![d] = {PatchOf(l, t) : l \in Matching(t) \ single}],
             pc' = [pc EXCEPT ![d] = "deleteListeners"], UNCHANGED faults
      PROVE  IInv'
  <2>a. /\ d \in Dialogs /\ Adders \subseteq Dialogs /\ Removers \subseteq Dialogs
        /\ \A x \in Adders : x # d
    BY TriggersAssumption DEF Dialogs
  <2>b. /\ \A r \in Dialogs : r # d => pc'[r] = pc[r]
        /\ pc'[d] = "deleteListeners"
    BY <1>3, <2>a DEF IInv, TypeOK
  <2>c. t \in Templates /\ t \in confirmed \ templates
    BY <1>1 DEF IInv, RemovalOrder, TypeOK
  <2>d. \A l \in Matching(t) : l \in listeners /\ l \in Listeners /\ \E e \in triggers[l] : e[1] = t
    BY DEF Matching, IInv, TypeOK, RefersTo, TemplatesOf
  <2>e. \A l \in Matching(t) \ single : l \in Shared
    BY <1>3, <2>d DEF IInv, SingleTriggers
  <2>f. \A l \in single : \A e \in triggers[l] : e[1] = t
    BY <1>3, <2>d DEF SingleTrigger
  <2>g. \A l \in single : /\ DeletionOf(l, t) \in Call
                          /\ DeletionOf(l, t).kind = "delete"
                          /\ DeletionOf(l, t).template = t
                          /\ DeletionOf(l, t).listener = l
                          /\ DeletionOf(l, t).triggers = {}
    BY <1>3, <2>c, <2>d, CallTypes DEF IInv, DeletionOf
  <2>h. \A l \in Matching(t) : /\ PatchOf(l, t) \in Call
                               /\ PatchOf(l, t).kind = "patch"
                               /\ PatchOf(l, t).template = t
                               /\ PatchOf(l, t).listener = l
                               /\ \A e \in PatchOf(l, t).triggers : e[1] = t
    BY <2>c, <2>d, CallTypes DEF IInv, PatchOf, Kept
  <2>1. TypeOK'
    <3>1. calls' \subseteq Call BY <1>3, <2>g DEF IInv, TypeOK
    <3>2. plan' \in [Removers -> SUBSET Call]
      BY <1>3, <2>h DEF IInv, TypeOK
    <3>3. pc' \in [Dialogs -> {"form", "createTemplate", "createListener", "deleteTemplate",
                         "list", "deleteListeners", "patchListeners"}]
      BY <1>3 DEF IInv, TypeOK
    <3> QED BY <3>1, <3>2, <3>3, <1>1, <1>3 DEF IInv, TypeOK, routes
  <2>2. KnownNames' BY <1>1 DEF IInv, KnownNames
  <2>3. RemovalOrder' BY <1>1, <2>a, <2>b DEF IInv, RemovalOrder, Pending
  <2>4. CallsOk'
    <3>1. \A l \in single : CallOk(DeletionOf(l, t))
      BY <1>1, <1>3, <2>c, <2>d, <2>f, <2>g DEF CallOk, IInv, TypeOK
    <3>2. \A l \in Matching(t) \ single : CallOk(PatchOf(l, t))
      BY <1>1, <2>c, <2>e, <2>h DEF CallOk
    <3>3. \A r \in Removers : plan'[r] = plan[r] \/
            plan'[r] = {PatchOf(l, t) : l \in Matching(t) \ single}
      BY <1>3 DEF IInv, TypeOK
    <3>4. \A c \in calls' : CallOk(c) BY <1>3, <3>1 DEF IInv, CallsOk
    <3>5. \A r \in Removers : \A c \in plan'[r] : c.kind = "patch" /\ CallOk(c)
      <4> SUFFICES ASSUME NEW r \in Removers, NEW c \in plan'[r]
                   PROVE  c.kind = "patch" /\ CallOk(c)
        OBVIOUS
      <4>1. CASE c \in plan[r] BY <4>1 DEF IInv, CallsOk
      <4>2. CASE c \in {PatchOf(l, t) : l \in Matching(t) \ single}
        BY <4>2, <3>2, <2>h
      <4> QED BY <4>1, <4>2, <3>3
    <3> QED BY <3>4, <3>5, <1>1 DEF CallsOk, CallOk
  <2>5. SingleTriggers' BY <1>1 DEF IInv, SingleTriggers, SingleTrigger
  <2>6. FreshNames'
    <3>1. \A x \in Adders : Pending(x)' => Pending(x) /\ pc'[x] = pc[x]
      BY <2>a, <2>b DEF Pending
    <3>2. \A x \in Adders : Pending(x) =>
            \A c \in calls' : c.kind = "delete" => c.listener # linking[x]
      BY <1>3, <2>d, <2>g DEF IInv, FreshNames
    <3> QED BY <3>1, <3>2, <1>1 DEF IInv, FreshNames
  <2> QED BY <2>1, <2>2, <2>3, <2>4, <2>5, <2>6 DEF IInv
<1>4. CASE /\ calls' = calls \cup {DeletionOf(l, t) : l \in {l \in Matching(t) : SingleTrigger(l)}}
           /\ plan' = [plan EXCEPT ![d] =
                {PatchOf(l, t) : l \in Matching(t) \ {l \in Matching(t) : SingleTrigger(l)}}]
           /\ pc' = [pc EXCEPT ![d] = "deleteListeners"] /\ UNCHANGED faults
  BY <1>3, <1>4
<1> QED BY <1>2, <1>4 DEF List, Advance, SetSubmitError, Fault

LEMMA IssuePatchesStep ==
  ASSUME IInv, NEW d \in Removers, IssuePatches(d)
  PROVE  IInv'
<1>1. /\ UNCHANGED <<templates, listeners, triggers, taken, selected, linking, confirmed, faults>>
      /\ UNCHANGED routes
      /\ pc[d] = "deleteListeners" /\ pc' = [pc EXCEPT ![d] = "patchListeners"]
      /\ calls' = calls \cup plan[d] /\ plan' = [plan EXCEPT ![d] = {}]
  BY DEF IssuePatches, cluster, Advance
<1>a. /\ d \in Dialogs /\ Adders \subseteq Dialogs /\ Removers \subseteq Dialogs
      /\ \A x \in Adders : x # d
  BY TriggersAssumption DEF Dialogs
<1>b. /\ \A r \in Dialogs : r # d => pc'[r] = pc[r]
      /\ pc'[d] = "patchListeners"
  BY <1>1, <1>a DEF IInv, TypeOK
<1>c. \A r \in Removers : plan'[r] = plan[r] \/ plan'[r] = {} BY <1>1 DEF IInv, TypeOK
<1>2. TypeOK' BY <1>1 DEF IInv, TypeOK, routes
<1>3. KnownNames' BY <1>1 DEF IInv, KnownNames
<1>4. RemovalOrder' BY <1>1, <1>a, <1>b DEF IInv, RemovalOrder, Pending
<1>5. CallsOk' BY <1>1, <1>c DEF IInv, CallsOk, CallOk
<1>6. SingleTriggers' BY <1>1 DEF IInv, SingleTriggers, SingleTrigger
<1>7. FreshNames'
  <2>1. \A x \in Adders : Pending(x)' => Pending(x) /\ pc'[x] = pc[x]
    BY <1>a, <1>b DEF Pending
  <2>2. \A c \in calls' : c.kind = "delete" => c \in calls
    BY <1>1 DEF IInv, CallsOk
  <2> QED BY <2>1, <2>2, <1>1 DEF IInv, FreshNames
<1> QED BY <1>2, <1>3, <1>4, <1>5, <1>6, <1>7 DEF IInv

LEMMA AnswerStep ==
  ASSUME IInv, NEW c \in calls, Answer(c)
  PROVE  IInv'
<1>1. /\ UNCHANGED <<templates, taken, selected, linking, plan, confirmed, routes>>
      /\ calls' = calls \ {c}
  BY DEF Answer
<1>2. c \in Call /\ CallOk(c) BY DEF IInv, TypeOK, CallsOk
<1>3. pc' \in {pc, [d \in Dialogs |-> IF pc[d] \in Waiting /\ selected[d] = c.template
                                        THEN "form" ELSE pc[d]]}
  BY DEF Answer, Rejected
<1>4. \A d \in Dialogs : pc'[d] = pc[d] \/ (pc[d] \in Waiting /\ pc'[d] = "form")
  BY <1>3
<1>5. faults' \in {faults} \cup (IF faults < MaxFaults THEN {faults + 1} ELSE {})
  BY DEF Answer, Fault
<1>6. /\ listeners' \subseteq listeners
      /\ \/ triggers' = triggers
         \/ c.listener \in Shared /\ triggers' = [triggers EXCEPT ![c.listener] = c.triggers]
  BY <1>2 DEF Answer, Effect, CallOk, Call
<1>7. \A l \in Listeners : triggers'[l] = triggers[l]
                             \/ (l \in Shared /\ l = c.listener /\ triggers'[l] = c.triggers)
  BY <1>6 DEF IInv, TypeOK
<1>8. Adders \subseteq Dialogs /\ Removers \subseteq Dialogs BY DEF Dialogs
<1>9. TypeOK'
  <2>1. faults' \in 0 .. MaxFaults BY <1>5, TriggersAssumption DEF IInv, TypeOK
  <2>2. pc' \in [Dialogs -> {"form", "createTemplate", "createListener", "deleteTemplate",
                         "list", "deleteListeners", "patchListeners"}]
    BY <1>3 DEF IInv, TypeOK
  <2>3. triggers' \in [Listeners -> SUBSET Entries] BY <1>2, <1>6 DEF IInv, TypeOK, Call
  <2> QED BY <2>1, <2>2, <2>3, <1>1, <1>6 DEF IInv, TypeOK, routes
<1>10. KnownNames'
  <2>1. \A e \in c.triggers : e[1] \in taken BY <1>2 DEF CallOk, IInv, KnownNames
  <2> QED BY <2>1, <1>1, <1>7 DEF IInv, KnownNames
<1>11. RemovalOrder' BY <1>1, <1>4, <1>8 DEF IInv, RemovalOrder, Pending, Waiting
<1>12. CallsOk'
  <2>1. \A x \in Call : CallOk(x) => CallOk(x)' BY <1>1, <1>7 DEF CallOk, Call
  <2>2. calls \subseteq Call /\ \A r \in Removers : plan[r] \subseteq Call BY DEF IInv, TypeOK
  <2> QED BY <2>1, <2>2, <1>1 DEF IInv, CallsOk
<1>13. SingleTriggers' BY <1>7 DEF IInv, SingleTriggers, SingleTrigger
<1>14. FreshNames'
  <2>1. \A x \in Adders : Pending(x)' => Pending(x) /\ pc'[x] = pc[x]
    BY <1>4, <1>8 DEF Pending, Waiting
  <2>2. \A x \in Adders : Pending(x) =>
          \A l \in Listeners : \A e \in triggers'[l] : e[1] # selected[x]
    BY <1>2, <1>7 DEF CallOk, IInv, FreshNames
  <2> QED BY <2>1, <2>2, <1>1, <1>6 DEF IInv, FreshNames
<1> QED BY <1>9, <1>10, <1>11, <1>12, <1>13, <1>14 DEF IInv

LEMMA CleanUpStep ==
  ASSUME IInv, NEW l \in Listeners, CleanUp(l)
  PROVE  IInv'
<1>1. /\ UNCHANGED <<templates, triggers, taken, pc, selected, linking, plan, calls, confirmed, faults>>
      /\ UNCHANGED routes
      /\ listeners' \subseteq listeners
  BY DEF CleanUp, dialogs
<1>2. TypeOK' BY <1>1 DEF IInv, TypeOK, routes
<1>3. KnownNames' /\ RemovalOrder' BY <1>1 DEF IInv, KnownNames, RemovalOrder, Pending
<1>4. CallsOk' BY <1>1 DEF IInv, CallsOk, CallOk
<1>5. SingleTriggers' BY <1>1 DEF IInv, SingleTriggers, SingleTrigger
<1>6. FreshNames' BY <1>1 DEF IInv, FreshNames, Pending
<1> QED BY <1>2, <1>3, <1>4, <1>5, <1>6 DEF IInv

LEMMA ExposeStepPreserves ==
  ASSUME IInv, NEW l \in Listeners, ExposeStep(l)
  PROVE  IInv'
<1>1. UNCHANGED <<templates, listeners, triggers, taken, pc, selected, linking, plan, calls, confirmed>>
  BY DEF ExposeStep, Look, GetService, CreateRoute, cluster, dialogs
<1>2. faults' \in 0 .. MaxFaults
  BY TriggersAssumption
     DEF ExposeStep, Look, GetService, CreateRoute, Fault, IInv, TypeOK
<1>3. looks' \in [Listeners -> 0 .. MaxIteration]
  <2>1. looks' = looks \/ (looks[l] < MaxIteration /\ looks' = [looks EXCEPT ![l] = @ + 1])
    BY DEF ExposeStep, Look, GetService, CreateRoute
  <2> QED BY <2>1, TriggersAssumption DEF IInv, TypeOK
<1>4. expose' \in [Listeners -> {"no", "look", "service", "route", "default", "done",
                               "reported", "silent"}]
  BY DEF ExposeStep, Look, GetService, CreateRoute, To, IInv, TypeOK
<1>5. TypeOK' BY <1>1, <1>2, <1>3, <1>4 DEF IInv, TypeOK
<1>6. KnownNames' /\ RemovalOrder' BY <1>1 DEF IInv, KnownNames, RemovalOrder, Pending
<1>7. CallsOk' BY <1>1 DEF IInv, CallsOk, CallOk
<1>8. SingleTriggers' BY <1>1 DEF IInv, SingleTriggers, SingleTrigger
<1>9. FreshNames' BY <1>1 DEF IInv, FreshNames, Pending
<1> QED BY <1>5, <1>6, <1>7, <1>8, <1>9 DEF IInv

LEMMA NextIInv == IInv /\ [Next]_vars => IInv'
<1> SUFFICES ASSUME IInv, [Next]_vars PROVE IInv' OBVIOUS
<1>1. ASSUME NEW d \in Adders, SubmitAdd(d) \/ AddStep(d) PROVE IInv'
  BY <1>1, SubmitAddStep, CreateTemplateStep, CreateListenerStep DEF AddStep
<1>2. ASSUME NEW d \in Removers,
             SubmitRemove(d) \/ RemoveStep(d) \/ \E t \in Templates : Pick(d, t)
      PROVE  IInv'
  BY <1>2, SubmitRemoveStep, PickStep, DeleteTemplateStep, ListStep, IssuePatchesStep, RemovedStep
     DEF RemoveStep
<1>3. ASSUME NEW c \in calls, Answer(c) PROVE IInv' BY <1>3, AnswerStep
<1>4. ASSUME NEW l \in Listeners, CleanUp(l) \/ ExposeStep(l) PROVE IInv'
  BY <1>4, CleanUpStep, ExposeStepPreserves
<1>5. CASE UNCHANGED vars
  <2>1. UNCHANGED <<templates, listeners, triggers, taken, pc, selected, linking, plan, calls,
                    confirmed, expose, looks, faults>>
    BY <1>5 DEF vars, cluster, dialogs, routes
  <2> QED BY <2>1 DEF IInv, TypeOK, FreshNames, KnownNames, RemovalOrder, CallsOk, CallOk,
                      SingleTriggers, SingleTrigger, Pending
<1> QED BY <1>1, <1>2, <1>3, <1>4, <1>5 DEF Next

\* The state of the dialogs, their calls and the cluster keeps its shape for any
\* dialogs and faults (submitTrigger, removeTrigger, exposeRoute).
THEOREM DialogsTypeCorrect == Spec => []TypeOK
<1>1. IInv => TypeOK BY DEF IInv
<1> QED BY <1>1, InitIInv, NextIInv, PTL DEF Spec

-----------------------------------------------------------------------------
(***************************************************************************)
(* The refinement: which steps change the triggers, and how.               *)
(***************************************************************************)

\* Steps that leave the templates and what listeners outside Shared start alone.
LEMMA SameActive ==
  ASSUME UNCHANGED <<templates, listeners, triggers>>
  PROVE  Active' = Active
  BY DEF Active, RefersTo, TemplatesOf

LEMMA ActivePair ==
  ASSUME NEW l, NEW t
  PROVE  <<l, t>> \in Active <=> /\ l \in listeners \ Shared /\ t \in templates
                                 /\ \E e \in triggers[l] : e[1] = t
  BY DEF Active, RefersTo, TemplatesOf

LEMMA ActivePairNext ==
  ASSUME NEW l, NEW t
  PROVE  <<l, t>> \in Active' <=> /\ l \in listeners' \ Shared /\ t \in templates'
                                  /\ \E e \in triggers'[l] : e[1] = t
  BY DEF Active, RefersTo, TemplatesOf

LEMMA ActiveIsPairs == \A p \in Active : p = <<p[1], p[2]>>
  BY DEF Active

LEMMA ActiveIsPairsNext == \A p \in Active' : p = <<p[1], p[2]>>
  BY DEF Active

\* A template nobody refers to starts nothing.
LEMMA CreateTemplateRefines ==
  ASSUME IInv, NEW d \in Adders, CreateTemplate(d)
  PROVE  UNCHANGED <<Active, confirmed>>
<1>1. UNCHANGED <<listeners, triggers, confirmed>> BY DEF CreateTemplate
<1>2. templates' \in {templates, templates \cup {selected[d]}}
  BY DEF CreateTemplate
<1>3. \A l \in Listeners : \A e \in triggers[l] : e[1] # selected[d]
  BY DEF CreateTemplate, IInv, FreshNames, Pending
<1>4. listeners \subseteq Listeners BY DEF IInv, TypeOK
<1>5. Active' = Active BY <1>1, <1>2, <1>3, <1>4 DEF Active, RefersTo, TemplatesOf
<1> QED BY <1>1, <1>5

LEMMA CreateListenerRefines ==
  ASSUME IInv, NEW d \in Adders, CreateListener(d)
  PROVE  [PT!Next]_(PT!vars)
<1> DEFINE l == linking[d]
<1> DEFINE t == selected[d]
<1>1. UNCHANGED <<templates, confirmed>> BY DEF CreateListener
<1>2. /\ t \in Templates /\ t \in templates /\ l \in Listeners /\ l \notin listeners
      /\ \A k \in Listeners : \A e \in triggers[k] : e[1] # t
  BY DEF CreateListener, IInv, FreshNames, Pending
<1>3. listeners \subseteq Listeners /\ triggers \in [Listeners -> SUBSET Entries]
  BY DEF IInv, TypeOK
<1>4. CASE UNCHANGED <<listeners, triggers>>
  BY <1>1, <1>4, SameActive DEF PT!vars
<1>5. CASE listeners' = listeners \cup {l} /\ triggers' = [triggers EXCEPT ![l] = {<<t, 1>>}]
  <2>1. triggers'[l] = {<<t, 1>>} /\ \A k \in listeners : triggers'[k] = triggers[k]
    BY <1>2, <1>3, <1>5
  <2>2. CASE l \in Shared
    <3>1. Active' = Active
      BY <1>1, <1>5, <2>1, <2>2 DEF Active, RefersTo, TemplatesOf
    <3> QED BY <3>1, <1>1 DEF PT!vars
  <2>3. CASE l \notin Shared
    <3>1. \A p \in Active : p[1] # l /\ p[2] # t
      BY <1>2, <1>3 DEF Active, RefersTo, TemplatesOf
    <3>2. Active' = Active \cup {<<l, t>>}
      <4>1. \A u : <<l, u>> \in Active' <=> u = t
        <5> SUFFICES ASSUME NEW u PROVE <<l, u>> \in Active' <=> u = t OBVIOUS
        <5>1. (\E e \in triggers'[l] : e[1] = u) <=> u = t BY <2>1
        <5> QED BY <5>1, <1>1, <1>2, <1>5, <2>3, ActivePairNext
      <4>2. ASSUME NEW k, NEW u, k # l
            PROVE  <<k, u>> \in Active' <=> <<k, u>> \in Active
        <5>1. <<k, u>> \in Active' <=> /\ k \in listeners' \ Shared /\ u \in templates'
                                       /\ \E e \in triggers'[k] : e[1] = u
          BY ActivePairNext
        <5>2. <<k, u>> \in Active <=> /\ k \in listeners \ Shared /\ u \in templates
                                      /\ \E e \in triggers[k] : e[1] = u
          BY ActivePair
        <5> QED BY <4>2, <5>1, <5>2, <1>1, <1>5, <2>1
      <4>3. ASSUME NEW p
            PROVE  p \in Active' <=> p \in Active \cup {<<l, t>>}
        <5>1. CASE p = <<p[1], p[2]>> /\ p[1] = l BY <5>1, <4>1, <3>1
        <5>2. CASE p = <<p[1], p[2]>> /\ p[1] # l BY <5>2, <4>2
        <5> QED BY <5>1, <5>2, ActiveIsPairs, ActiveIsPairsNext
      <4> QED BY <4>3
    <3>3. PT!Add(l, t) BY <3>1, <3>2, <1>1 DEF PT!Add
    <3> QED BY <3>3, <1>2 DEF PT!Next
  <2> QED BY <2>2, <2>3
<1> QED BY <1>4, <1>5 DEF CreateListener

LEMMA DeleteTemplateRefines ==
  ASSUME IInv, NEW d \in Removers, DeleteTemplate(d)
  PROVE  [PT!Next]_(PT!vars)
<1> DEFINE t == selected[d]
<1>1. UNCHANGED <<listeners, triggers, confirmed>> BY DEF DeleteTemplate
<1>2. t \in confirmed /\ t \in Templates
  BY DEF DeleteTemplate, IInv, RemovalOrder, TypeOK
<1>3. templates' \in {templates, templates \ {t}} BY DEF DeleteTemplate
<1>4. CASE templates' = templates BY <1>1, <1>4, SameActive DEF PT!vars
<1>5. CASE templates' = templates \ {t}
  <2>1. Active' = {p \in Active : p[2] # t}
    BY <1>1, <1>5 DEF Active, RefersTo, TemplatesOf
  <2>2. PT!Remove(t) BY <2>1, <1>1, <1>2 DEF PT!Remove
  <2> QED BY <2>2, <1>2 DEF PT!Next
<1> QED BY <1>3, <1>4, <1>5

\* The listeners a removal deletes start nothing any more, those it patches are shared.
LEMMA AnswerRefines ==
  ASSUME IInv, NEW c \in calls, Answer(c)
  PROVE  UNCHANGED <<Active, confirmed>>
<1>1. UNCHANGED <<templates, confirmed>> BY DEF Answer
<1>2. c \in Call /\ CallOk(c) BY DEF IInv, TypeOK, CallsOk
<1>3. listeners \subseteq Listeners /\ triggers \in [Listeners -> SUBSET Entries]
  BY DEF IInv, TypeOK
<1>4. CASE UNCHANGED <<listeners, triggers>> BY <1>1, <1>4, SameActive
<1>5. CASE c.kind = "delete" /\ Effect(c)
  <2>1. listeners' = listeners \ {c.listener} /\ UNCHANGED triggers BY <1>5 DEF Effect
  <2>2. c.listener \in Shared \/ \A e \in triggers[c.listener] : e[1] \notin templates
    BY <1>2, <1>5 DEF CallOk
  <2>3. Active' = Active
    BY <1>1, <2>1, <2>2 DEF Active, RefersTo, TemplatesOf
  <2> QED BY <2>3, <1>1
<1>6. CASE c.kind # "delete" /\ Effect(c)
  <2>1. /\ triggers' = [triggers EXCEPT ![c.listener] = c.triggers] /\ UNCHANGED listeners
        /\ c.listener \in Shared
    BY <1>2, <1>6 DEF Effect, CallOk, Call
  <2>2. \A l \in listeners \ Shared : triggers'[l] = triggers[l] BY <1>3, <2>1
  <2>3. Active' = Active BY <1>1, <2>1, <2>2 DEF Active, RefersTo, TemplatesOf
  <2> QED BY <2>3, <1>1
<1> QED BY <1>4, <1>5, <1>6 DEF Answer

LEMMA CleanUpRefines ==
  ASSUME IInv, NEW l \in Listeners, CleanUp(l)
  PROVE  UNCHANGED <<Active, confirmed>>
<1>1. /\ UNCHANGED <<templates, triggers, confirmed>> /\ listeners' = listeners \ {l}
      /\ TemplatesOf(l) \cap templates = {}
  BY DEF CleanUp, dialogs
<1>2. Active' = Active BY <1>1 DEF Active, RefersTo, TemplatesOf
<1> QED BY <1>1, <1>2

LEMMA NextRefines == IInv /\ [Next]_vars => [PT!Next]_(PT!vars)
<1> SUFFICES ASSUME IInv, [Next]_vars PROVE [PT!Next]_(PT!vars) OBVIOUS
<1>1. ASSUME NEW d \in Adders, SubmitAdd(d) \/ AddStep(d) PROVE [PT!Next]_(PT!vars)
  <2>1. CASE SubmitAdd(d) BY <2>1, SameActive DEF SubmitAdd, PT!vars
  <2>2. CASE CreateTemplate(d) BY <2>2, CreateTemplateRefines DEF PT!vars
  <2>3. CASE CreateListener(d) BY <2>3, CreateListenerRefines
  <2> QED BY <1>1, <2>1, <2>2, <2>3 DEF AddStep
<1>2. ASSUME NEW d \in Removers,
             SubmitRemove(d) \/ RemoveStep(d) \/ \E t \in Templates : Pick(d, t)
      PROVE  [PT!Next]_(PT!vars)
  <2>1. CASE SubmitRemove(d)
    <3>1. /\ UNCHANGED <<templates, listeners, triggers>>
          /\ confirmed' = confirmed \cup {selected[d]} /\ selected[d] \in Templates
      BY <2>1 DEF SubmitRemove, cluster, IInv, TypeOK, Dialogs
    <3>2. PT!Confirm(selected[d]) BY <3>1, SameActive DEF PT!Confirm
    <3> QED BY <3>1, <3>2 DEF PT!Next
  <2>2. CASE DeleteTemplate(d) BY <2>2, DeleteTemplateRefines
  <2>3. CASE List(d) \/ IssuePatches(d) \/ Removed(d)
    BY <2>3, SameActive DEF List, IssuePatches, Removed, cluster, PT!vars
  <2>4. CASE \E t \in Templates : Pick(d, t)
    BY <2>4, SameActive DEF Pick, cluster, PT!vars
  <2> QED BY <1>2, <2>1, <2>2, <2>3, <2>4 DEF RemoveStep
<1>3. ASSUME NEW c \in calls, Answer(c) PROVE [PT!Next]_(PT!vars)
  BY <1>3, AnswerRefines DEF PT!vars
<1>4. ASSUME NEW l \in Listeners, CleanUp(l) \/ ExposeStep(l) PROVE [PT!Next]_(PT!vars)
  <2>1. CASE CleanUp(l) BY <2>1, CleanUpRefines DEF PT!vars
  <2>2. CASE ExposeStep(l)
    BY <2>2, SameActive
       DEF ExposeStep, Look, GetService, CreateRoute, cluster, dialogs, PT!vars
  <2> QED BY <1>4, <2>1, <2>2
<1>5. CASE UNCHANGED vars BY <1>5, SameActive DEF vars, cluster, dialogs, PT!vars
<1> QED BY <1>1, <1>2, <1>3, <1>4, <1>5 DEF Next

\* The dialogs implement PipelineTriggers for any dialogs, templates and
\* listeners: whatever fails or overlaps, a trigger of an unshared listener
\* appears and goes in one step, and goes only if its removal was confirmed.
THEOREM DialogsImplement == Spec => Implements
<1>1. Init => PT!Init
  <2> SUFFICES ASSUME Init PROVE PT!Init OBVIOUS
  <2>1. IInv BY InitIInv
  <2>2. Active \subseteq Listeners \X Templates BY <2>1 DEF IInv, TypeOK, Active
  <2>3. confirmed = {} BY DEF Init
  <2> QED BY <2>2, <2>3 DEF PT!Init
<1> QED BY <1>1, InitIInv, NextIInv, NextRefines, PTL DEF Spec, Implements, PT!Spec

-----------------------------------------------------------------------------
(***************************************************************************)
(* What is left at rest, when no call has failed and every list could be   *)
(* searched.                                                               *)
(***************************************************************************)

\* The dialogs' own names are not among them; what a removal leaves of a shared listener is of
\* its first triggers; a listener without triggers is never found, hence never deleted.
MadeElsewhere ==
  /\ InitListeners \subseteq taken
  /\ \A l \in Triggerless : triggers[l] = {}
  /\ \A l \in Shared : \A e \in triggers[l] : e[1] \in InitTemplates
  /\ \A c \in calls : c.kind = "delete" => c.listener \notin Triggerless
  /\ \A c \in calls : c.kind = "patch" => \A e \in c.triggers : e[1] \in InitTemplates
  /\ \A r \in Removers : \A c \in plan[r] : \A e \in c.triggers : e[1] \in InitTemplates

NoFailure == faults = 0 /\ listeners \cap Triggerless = {}

\* A template that is gone is that of a dialog about to list, or its listener's deletion is on
\* its way.
NoneDangles ==
  \A l \in listeners \ Shared : \A e \in triggers[l] :
    \/ e[1] \in templates
    \/ \E r \in Removers : pc[r] = "list" /\ selected[r] = e[1]
    \/ \E c \in calls : c.kind = "delete" /\ c.listener = l

\* A template made by a dialog has its listener, or the dialog is about to create it.
NoneUnlinked ==
  \A t \in templates \ InitTemplates :
    \/ \E d \in Adders : pc[d] = "createListener" /\ selected[d] = t
    \/ \E l \in listeners : \E e \in triggers[l] : e[1] = t

RestInv == MadeElsewhere /\ (NoFailure => NoneDangles /\ NoneUnlinked)

\* The listener a dialog creates is none of those made elsewhere, not even one that is gone.
OwnNames == \A d \in Adders : Pending(d) => linking[d] \notin InitListeners

LEMMA OwnNamesInit == Init => OwnNames
  BY DEF Init, OwnNames, Pending, Dialogs

LEMMA OwnNamesStep == ASSUME IInv, RestInv, OwnNames, [Next]_vars PROVE OwnNames'
<1>1. Adders \subseteq Dialogs /\ Removers \subseteq Dialogs /\ Adders \cap Removers = {}
  BY TriggersAssumption DEF Dialogs
<1>2. CASE \E d \in Adders : SubmitAdd(d)
  <2>1. PICK d \in Adders : SubmitAdd(d) BY <1>2
  <2>2. \A x \in Adders : x # d => pc'[x] = pc[x] /\ linking'[x] = linking[x]
    BY <2>1, <1>1 DEF SubmitAdd, Advance, IInv, TypeOK
  <2>3. linking'[d] \notin taken BY <2>1 DEF SubmitAdd, IInv, TypeOK
  <2>4. InitListeners \subseteq taken BY DEF RestInv, MadeElsewhere
  <2> QED BY <2>2, <2>3, <2>4 DEF OwnNames, Pending
<1>3. CASE UNCHANGED linking /\ \A x \in Adders : Pending(x)' => Pending(x)
  BY <1>3 DEF OwnNames
<1>4. ASSUME NEW d \in Dialogs, UNCHANGED linking,
             \E next \in {"form", "createListener", "deleteTemplate", "list", "deleteListeners",
                          "patchListeners"} :
               /\ pc' = [pc EXCEPT ![d] = next]
               /\ next = "createListener" => pc[d] = "createTemplate"
      PROVE  OwnNames'
  <2>1. \A x \in Dialogs : pc'[x] = pc[x] \/ (x = d /\ pc'[x] # "createTemplate"
                             /\ (pc'[x] = "createListener" => pc[x] = "createTemplate"))
    BY <1>4 DEF IInv, TypeOK
  <2>2. \A x \in Adders : Pending(x)' => Pending(x) BY <2>1, <1>1 DEF Pending
  <2> QED BY <2>2, <1>4 DEF OwnNames
<1>5. ASSUME NEW d \in Adders, AddStep(d) PROVE OwnNames'
  BY <1>4, <1>5, <1>1 DEF AddStep, CreateTemplate, CreateListener, Advance, SetSubmitError
<1>6. ASSUME NEW d \in Removers, SubmitRemove(d) \/ RemoveStep(d) PROVE OwnNames'
  BY <1>4, <1>6, <1>1
     DEF SubmitRemove, RemoveStep, DeleteTemplate, List, IssuePatches, Removed, Advance,
         SetSubmitError, cluster
<1>7. ASSUME NEW c \in calls, Answer(c) PROVE OwnNames'
  <2>1. UNCHANGED linking BY <1>7 DEF Answer
  <2>2. \A x \in Dialogs : pc'[x] = pc[x] \/ pc'[x] = "form" BY <1>7 DEF Answer, Rejected
  <2> QED BY <2>1, <2>2, <1>1, <1>3 DEF Pending
<1>8. CASE \/ \E d \in Removers, t \in Templates : Pick(d, t)
           \/ \E l \in Listeners : CleanUp(l) \/ ExposeStep(l)
           \/ UNCHANGED vars
  <2>1. UNCHANGED <<pc, linking>>
    BY <1>8 DEF Pick, CleanUp, ExposeStep, Look, GetService, CreateRoute, dialogs, vars
  <2> QED BY <2>1, <1>3 DEF Pending
<1> QED BY <1>2, <1>5, <1>6, <1>7, <1>8 DEF Next

LEMMA RestInit == Init => RestInv
<1> SUFFICES ASSUME Init PROVE RestInv OBVIOUS
<1>1. MadeElsewhere
  <2>1. \A l \in Shared : \A e \in triggers[l] : e[1] \in InitTemplates
    BY TriggersAssumption DEF Init, TemplatesOf
  <2> QED BY <2>1, TriggersAssumption DEF Init, MadeElsewhere
<1>2. NoneDangles
  <2>1. \A l \in listeners : \A e \in triggers[l] : e[1] \in templates
    BY TriggersAssumption DEF Init, TemplatesOf
  <2> QED BY <2>1 DEF NoneDangles
<1>3. NoneUnlinked BY DEF Init, NoneUnlinked
<1> QED BY <1>1, <1>2, <1>3 DEF RestInv

\* Steps that change neither the cluster nor what a removal has under way.
LEMMA RestUnchanged ==
  ASSUME IInv, RestInv, UNCHANGED <<templates, listeners, triggers, plan, calls>>,
         taken \subseteq taken', faults' \in Nat, faults' = 0 => faults = 0,
         \A r \in Removers : pc[r] = "list" => pc'[r] = "list" /\ selected'[r] = selected[r],
         \A d \in Adders : pc[d] = "createListener" =>
           pc'[d] = "createListener" /\ selected'[d] = selected[d]
  PROVE  RestInv'
<1>1. MadeElsewhere' BY DEF RestInv, MadeElsewhere
<1>2. NoFailure' => NoFailure BY DEF NoFailure
<1>3. NoneDangles => NoneDangles' BY DEF NoneDangles
<1>4. NoneUnlinked => NoneUnlinked' BY DEF NoneUnlinked
<1> QED BY <1>1, <1>2, <1>3, <1>4 DEF RestInv

LEMMA SubmitRest ==
  ASSUME IInv, RestInv, NEW d \in Dialogs,
         \/ d \in Adders /\ SubmitAdd(d)
         \/ d \in Removers /\ (SubmitRemove(d) \/ \E t \in Templates : Pick(d, t))
  PROVE  RestInv'
<1>1. /\ UNCHANGED <<templates, listeners, triggers, plan, calls, faults>>
      /\ taken \subseteq taken' /\ pc[d] = "form"
      /\ \A x \in Dialogs : x # d => pc'[x] = pc[x] /\ selected'[x] = selected[x]
  BY DEF SubmitAdd, SubmitRemove, Pick, Advance, cluster, IInv, TypeOK
<1>2. Adders \subseteq Dialogs /\ Removers \subseteq Dialogs BY DEF Dialogs
<1>3. faults \in Nat BY TriggersAssumption DEF IInv, TypeOK
<1>4. \A x \in Dialogs : pc[x] # "form" => pc'[x] = pc[x] /\ selected'[x] = selected[x]
  BY <1>1
<1> QED BY <1>1, <1>2, <1>3, <1>4, RestUnchanged

LEMMA CreateTemplateRest ==
  ASSUME IInv, RestInv, NEW d \in Adders, CreateTemplate(d)
  PROVE  RestInv'
<1>1. /\ UNCHANGED <<listeners, triggers, taken, selected, plan, calls>>
      /\ templates \subseteq templates' /\ faults \in Nat
      /\ \/ /\ templates' = templates \cup {selected[d]} /\ UNCHANGED faults
            /\ pc' = [pc EXCEPT ![d] = "createListener"]
         \/ faults' = faults + 1
  BY TriggersAssumption DEF CreateTemplate, Advance, Fault, IInv, TypeOK
<1>2. MadeElsewhere' BY <1>1 DEF RestInv, MadeElsewhere
<1>3. ASSUME NoFailure' PROVE NoneDangles' /\ NoneUnlinked'
  <2>1. /\ templates' = templates \cup {selected[d]} /\ faults = 0 /\ NoFailure
        /\ pc' = [pc EXCEPT ![d] = "createListener"]
    BY <1>1, <1>3 DEF NoFailure
  <2>2. d \in Dialogs /\ pc'[d] = "createListener"
        /\ \A x \in Dialogs : x # d => pc'[x] = pc[x]
    BY <2>1 DEF IInv, TypeOK, Dialogs
  <2>3. \A r \in Removers : pc'[r] = pc[r]
    BY <2>2, TriggersAssumption DEF Dialogs
  <2>4. NoneDangles' BY <1>1, <2>1, <2>3 DEF RestInv, NoneDangles
  <2>5. \A x \in Adders : pc[x] = "createListener" => pc'[x] = "createListener"
    BY <2>2 DEF Dialogs
  <2>6. NoneUnlinked' BY <1>1, <2>1, <2>2, <2>5 DEF RestInv, NoneUnlinked
  <2> QED BY <2>4, <2>6
<1> QED BY <1>2, <1>3 DEF RestInv

LEMMA CreateListenerRest ==
  ASSUME IInv, RestInv, OwnNames, NEW d \in Adders, CreateListener(d)
  PROVE  RestInv'
<1> DEFINE l == linking[d]
<1> DEFINE t == selected[d]
<1>1. /\ UNCHANGED <<templates, taken, selected, plan, calls>> /\ faults \in Nat
      /\ \/ /\ listeners' = listeners \cup {l} /\ triggers' = [triggers EXCEPT ![l] = {<<t, 1>>}]
            /\ faults' \in {faults, faults + 1}
         \/ UNCHANGED <<listeners, triggers>> /\ faults' = faults + 1
      /\ pc' = [pc EXCEPT ![d] = "form"]
  BY TriggersAssumption DEF CreateListener, Advance, Fault, IInv, TypeOK
<1>2. /\ Pending(d) /\ d \in Dialogs
      /\ l \in (Listeners \cap taken) \ listeners /\ t \in templates
      /\ \A c \in calls : c.kind = "delete" => c.listener # l
  BY DEF CreateListener, Pending, IInv, FreshNames, Dialogs
<1>3. /\ \A x \in Dialogs : x # d => pc'[x] = pc[x]
      /\ \A r \in Removers : pc'[r] = pc[r]
      /\ \A x \in Adders : x # d => pc'[x] = pc[x]
  BY <1>1, <1>2, TriggersAssumption DEF IInv, TypeOK, Dialogs
<1>4. l \notin InitListeners /\ l \notin Shared /\ l \notin Triggerless
  BY <1>2, TriggersAssumption DEF OwnNames
<1>5. /\ listeners \subseteq listeners' /\ listeners' \subseteq listeners \cup {l}
      /\ \A k \in Listeners : k # l => triggers'[k] = triggers[k]
      /\ l \in listeners' => triggers'[l] = {<<t, 1>>}
  BY <1>1, <1>2 DEF IInv, TypeOK
<1>6. Shared \subseteq Listeners /\ Triggerless \subseteq Listeners /\ listeners \subseteq Listeners
  BY TriggersAssumption DEF IInv, TypeOK
<1>7. MadeElsewhere'
  <2>1. \A k \in Shared \cup Triggerless : triggers'[k] = triggers[k] BY <1>4, <1>5, <1>6
  <2> QED BY <2>1, <1>1 DEF RestInv, MadeElsewhere
<1>8. ASSUME NoFailure' PROVE NoneDangles' /\ NoneUnlinked'
  <2>1. NoFailure /\ l \in listeners' BY <1>1, <1>4, <1>5, <1>8 DEF NoFailure
  <2>2. NoneDangles'
    <3> SUFFICES ASSUME NEW k \in listeners' \ Shared, NEW e \in triggers'[k]
                 PROVE  \/ e[1] \in templates
                        \/ \E r \in Removers : pc'[r] = "list" /\ selected'[r] = e[1]
                        \/ \E c \in calls : c.kind = "delete" /\ c.listener = k
      BY <1>1 DEF NoneDangles
    <3>1. CASE k = l BY <3>1, <1>2, <1>5
    <3>2. CASE k # l BY <3>2, <2>1, <1>1, <1>3, <1>5, <1>6 DEF RestInv, NoneDangles
    <3> QED BY <3>1, <3>2
  <2>3. NoneUnlinked'
    <3> SUFFICES ASSUME NEW u \in templates \ InitTemplates
                 PROVE  \/ \E x \in Adders : pc'[x] = "createListener" /\ selected'[x] = u
                        \/ \E k \in listeners' : \E e \in triggers'[k] : e[1] = u
      BY <1>1 DEF NoneUnlinked
    <3>1. CASE u = t
      <4>1. <<t, 1>> \in triggers'[l] BY <2>1, <1>5
      <4> QED BY <4>1, <3>1, <2>1
    <3>2. CASE \E x \in Adders : x # d /\ pc[x] = "createListener" /\ selected[x] = u
      BY <3>2, <1>1, <1>3
    <3>3. CASE \E k \in listeners : \E e \in triggers[k] : e[1] = u
      BY <3>3, <1>2, <1>5, <1>6
    <3> QED BY <3>1, <3>2, <3>3, <2>1 DEF RestInv, NoneUnlinked
  <2> QED BY <2>2, <2>3
<1> QED BY <1>7, <1>8 DEF RestInv

\* Who deletes a template lists next.
LEMMA DeleteTemplateRest ==
  ASSUME IInv, RestInv, NEW d \in Removers, DeleteTemplate(d)
  PROVE  RestInv'
<1>1. /\ UNCHANGED <<listeners, triggers, taken, selected, plan, calls>> /\ faults \in Nat
      /\ pc[d] = "deleteTemplate" /\ templates' \subseteq templates
      /\ \/ /\ templates' = templates \ {selected[d]} /\ pc' = [pc EXCEPT ![d] = "list"]
            /\ UNCHANGED faults
         \/ templates' = templates /\ pc' = [pc EXCEPT ![d] = "form"] /\ UNCHANGED faults
         \/ faults' = faults + 1
  BY TriggersAssumption DEF DeleteTemplate, Advance, SetSubmitError, Fault, IInv, TypeOK
<1>2. d \in Dialogs /\ Adders \subseteq Dialogs /\ Removers \subseteq Dialogs
      /\ \A x \in Adders : x # d
  BY TriggersAssumption DEF Dialogs
<1>3. MadeElsewhere' BY <1>1 DEF RestInv, MadeElsewhere
<1>4. ASSUME NoFailure' PROVE NoneDangles' /\ NoneUnlinked'
  <2>1. NoFailure /\ faults' # faults + 1 BY <1>1, <1>4 DEF NoFailure
  <2>2. \A x \in Dialogs : x # d => pc'[x] = pc[x] BY <1>1, <2>1 DEF IInv, TypeOK
  <2>3. \A x \in Adders : pc'[x] = pc[x] BY <1>2, <2>2
  <2>4. \A r \in Removers : pc[r] = "list" => pc'[r] = "list" BY <1>1, <1>2, <2>2
  <2>5. NoneUnlinked' BY <1>1, <2>1, <2>3 DEF RestInv, NoneUnlinked
  <2>6. CASE templates' = templates BY <1>1, <2>1, <2>4, <2>5, <2>6 DEF RestInv, NoneDangles
  <2>7. CASE templates' = templates \ {selected[d]} /\ pc' = [pc EXCEPT ![d] = "list"]
    <3>1. pc'[d] = "list" BY <2>7, <1>2 DEF IInv, TypeOK
    <3>2. NoneDangles' BY <1>1, <2>1, <2>4, <2>7, <3>1 DEF RestInv, NoneDangles
    <3> QED BY <3>2, <2>5
  <2> QED BY <1>1, <2>1, <2>6, <2>7
<1> QED BY <1>3, <1>4 DEF RestInv

\* The list finds every listener of the template; one that is not shared has no other trigger
\* and is deleted.
LEMMA ListRest ==
  ASSUME IInv, RestInv, NEW d \in Removers, List(d)
  PROVE  RestInv'
<1> DEFINE t == selected[d]
<1> DEFINE single == {l \in Matching(t) : SingleTrigger(l)}
<1>1. /\ UNCHANGED <<templates, listeners, triggers, taken, selected>> /\ faults \in Nat
      /\ pc[d] = "list"
      /\ \/ /\ calls' = calls \cup {DeletionOf(l, t) : l \in single}
            /\ plan' = [plan EXCEPT ![d] = {PatchOf(l, t) : l \in Matching(t) \ single}]
            /\ pc' = [pc EXCEPT ![d] = "deleteListeners"]
            /\ UNCHANGED faults
         \/ UNCHANGED <<calls, plan>> /\ (faults' = faults + 1 \/ listeners \cap Triggerless # {})
  BY TriggersAssumption DEF List, Advance, SetSubmitError, Fault, cluster, IInv, TypeOK
<1>2. d \in Dialogs /\ Adders \subseteq Dialogs /\ Removers \subseteq Dialogs
      /\ \A x \in Adders : x # d
  BY TriggersAssumption DEF Dialogs
<1>3. \A l \in Matching(t) : l \in listeners /\ l \in Listeners /\ \E e \in triggers[l] : e[1] = t
  BY DEF Matching, IInv, TypeOK, RefersTo, TemplatesOf
<1>4. \A l \in Matching(t) :
        /\ DeletionOf(l, t).kind = "delete" /\ DeletionOf(l, t).listener = l
        /\ DeletionOf(l, t).triggers = {}
        /\ PatchOf(l, t).kind = "patch" /\ PatchOf(l, t).triggers \subseteq triggers[l]
  BY DEF DeletionOf, PatchOf, Kept
<1>5. MadeElsewhere'
  <2>1. CASE UNCHANGED <<calls, plan>> BY <2>1, <1>1 DEF RestInv, MadeElsewhere
  <2>2. CASE /\ calls' = calls \cup {DeletionOf(l, t) : l \in single}
             /\ plan' = [plan EXCEPT ![d] = {PatchOf(l, t) : l \in Matching(t) \ single}]
    <3>1. \A l \in Matching(t) : l \notin Triggerless BY <1>3 DEF RestInv, MadeElsewhere
    <3>2. \A l \in Matching(t) \ single : l \in Shared
      BY <1>3 DEF IInv, SingleTriggers
    <3>3. \A l \in Matching(t) \ single : \A e \in PatchOf(l, t).triggers : e[1] \in InitTemplates
      BY <1>4, <3>2 DEF RestInv, MadeElsewhere
    <3>4. \A c \in calls' : c \in calls \/ (c.kind = "delete" /\ c.listener \notin Triggerless)
      BY <2>2, <1>4, <3>1
    <3>5. \A r \in Removers : plan'[r] = plan[r] \/
            plan'[r] = {PatchOf(l, t) : l \in Matching(t) \ single}
      BY <2>2 DEF IInv, TypeOK
    <3>6. \A r \in Removers : \A c \in plan'[r] : \A e \in c.triggers : e[1] \in InitTemplates
      <4> SUFFICES ASSUME NEW r \in Removers, NEW c \in plan'[r], NEW e \in c.triggers
                   PROVE  e[1] \in InitTemplates
        OBVIOUS
      <4>1. CASE c \in plan[r] BY <4>1 DEF RestInv, MadeElsewhere
      <4>2. CASE c \in {PatchOf(l, t) : l \in Matching(t) \ single} BY <4>2, <3>3
      <4> QED BY <4>1, <4>2, <3>5
    <3>7. \A c \in calls' : c.kind = "patch" => \A e \in c.triggers : e[1] \in InitTemplates
      BY <3>4 DEF RestInv, MadeElsewhere
    <3>8. \A c \in calls' : c.kind = "delete" => c.listener \notin Triggerless
      BY <3>4 DEF RestInv, MadeElsewhere
    <3> QED BY <1>1, <3>6, <3>7, <3>8 DEF RestInv, MadeElsewhere
  <2> QED BY <1>1, <2>1, <2>2
<1>6. ASSUME NoFailure' PROVE NoneDangles' /\ NoneUnlinked'
  <2>1. /\ NoFailure
        /\ calls' = calls \cup {DeletionOf(l, t) : l \in single}
        /\ pc' = [pc EXCEPT ![d] = "deleteListeners"]
    BY <1>1, <1>6 DEF NoFailure
  <2>2. /\ \A x \in Dialogs : x # d => pc'[x] = pc[x]
        /\ \A x \in Adders : pc'[x] = pc[x]
    BY <1>2, <2>1 DEF IInv, TypeOK
  <2>3. NoneUnlinked' BY <1>1, <2>1, <2>2 DEF RestInv, NoneUnlinked
  <2>4. NoneDangles'
    <3> SUFFICES ASSUME NEW l \in listeners \ Shared, NEW e \in triggers[l], e[1] \notin templates
                 PROVE  \/ \E r \in Removers : pc'[r] = "list" /\ selected'[r] = e[1]
                        \/ \E c \in calls' : c.kind = "delete" /\ c.listener = l
      BY <1>1 DEF NoneDangles
    <3>1. CASE \E r \in Removers : r # d /\ pc[r] = "list" /\ selected[r] = e[1]
      BY <3>1, <1>1, <1>2, <2>2
    <3>2. CASE e[1] = t
      <4>1. l \in Matching(t) BY <3>2 DEF Matching, RefersTo, TemplatesOf
      <4>2. l \in single
        <5>1. l \in Listeners BY <1>3, <4>1
        <5> QED BY <4>1, <5>1 DEF IInv, SingleTriggers
      <4> QED BY <4>1, <4>2, <1>4, <2>1
    <3>3. CASE \E c \in calls : c.kind = "delete" /\ c.listener = l BY <3>3, <2>1
    <3> QED BY <3>1, <3>2, <3>3, <2>1 DEF RestInv, NoneDangles
  <2> QED BY <2>3, <2>4
<1> QED BY <1>5, <1>6 DEF RestInv

LEMMA EndRest ==
  ASSUME IInv, RestInv, NEW d \in Removers, IssuePatches(d) \/ Removed(d)
  PROVE  RestInv'
<1>1. /\ UNCHANGED <<templates, listeners, triggers, taken, faults>>
      /\ pc[d] \in {"deleteListeners", "patchListeners"}
      /\ \A x \in Dialogs : x # d => pc'[x] = pc[x] /\ selected'[x] = selected[x]
      /\ calls' \in {calls, calls \cup plan[d]}
      /\ plan' \in {plan, [plan EXCEPT ![d] = {}]}
  BY DEF IssuePatches, Removed, Advance, cluster, IInv, TypeOK
<1>2. /\ Adders \subseteq Dialogs /\ Removers \subseteq Dialogs
      /\ \A x \in Dialogs : pc[x] \in {"list", "createListener"} =>
           pc'[x] = pc[x] /\ selected'[x] = selected[x]
  BY <1>1 DEF Dialogs
<1>3. \A c \in plan[d] : c.kind = "patch" BY DEF IInv, CallsOk
<1>4. \A r \in Removers : plan'[r] \in {plan[r], {}} BY <1>1 DEF IInv, TypeOK
<1>5. MadeElsewhere'
  <2>1. \A c \in calls' : /\ c.kind = "delete" => c.listener \notin Triggerless
                          /\ c.kind = "patch" => \A e \in c.triggers : e[1] \in InitTemplates
    BY <1>1, <1>3 DEF RestInv, MadeElsewhere
  <2>2. \A r \in Removers : \A c \in plan'[r] : \A e \in c.triggers : e[1] \in InitTemplates
    BY <1>4 DEF RestInv, MadeElsewhere
  <2> QED BY <2>1, <2>2, <1>1 DEF RestInv, MadeElsewhere
<1>6. NoFailure' => NoFailure BY <1>1 DEF NoFailure
<1>7. NoneDangles => NoneDangles' BY <1>1, <1>2 DEF NoneDangles
<1>8. NoneUnlinked => NoneUnlinked' BY <1>1, <1>2 DEF NoneUnlinked
<1> QED BY <1>5, <1>6, <1>7, <1>8 DEF RestInv

\* A deletion that takes effect, or finds its listener gone, leaves nothing of it behind.
LEMMA AnswerRest ==
  ASSUME IInv, RestInv, NEW c \in calls, Answer(c)
  PROVE  RestInv'
<1>1. /\ UNCHANGED <<templates, taken, selected, plan>> /\ calls' = calls \ {c} /\ faults \in Nat
      /\ \A x \in Dialogs : pc[x] \in {"list", "createListener"} => pc'[x] = pc[x]
  BY TriggersAssumption DEF Answer, Rejected, Waiting, IInv, TypeOK
<1>2. /\ c \in Call /\ CallOk(c)
      /\ c.kind = "delete" => c.listener \notin Triggerless
      /\ c.kind = "patch" => \A e \in c.triggers : e[1] \in InitTemplates
  BY DEF IInv, TypeOK, CallsOk, RestInv, MadeElsewhere
<1>3. /\ \/ UNCHANGED <<listeners, triggers>> /\ (faults' = faults => c.listener \notin listeners)
         \/ /\ c.kind = "delete" /\ listeners' = listeners \ {c.listener} /\ UNCHANGED triggers
         \/ /\ c.kind = "patch" /\ UNCHANGED listeners
            /\ triggers' = [triggers EXCEPT ![c.listener] = c.triggers]
      /\ faults' \in {faults, faults + 1}
  BY <1>1, <1>2 DEF Answer, Effect, Call, Fault
<1>4. \A l \in Listeners :
        \/ triggers'[l] = triggers[l]
        \/ l = c.listener /\ l \in Shared /\ c.kind = "patch" /\ triggers'[l] = c.triggers
  BY <1>2, <1>3 DEF IInv, TypeOK, CallOk
<1>5. Adders \subseteq Dialogs /\ Removers \subseteq Dialogs BY DEF Dialogs
<1>6. /\ Shared \subseteq Listeners /\ Triggerless \subseteq Listeners
      /\ Shared \cap Triggerless = {} /\ listeners \subseteq Listeners
  BY TriggersAssumption DEF IInv, TypeOK
<1>7. MadeElsewhere'
  <2>1. \A l \in Triggerless : triggers'[l] = {} BY <1>4, <1>6 DEF RestInv, MadeElsewhere
  <2>2. \A l \in Shared : \A e \in triggers'[l] : e[1] \in InitTemplates
    BY <1>2, <1>4, <1>6 DEF RestInv, MadeElsewhere
  <2> QED BY <2>1, <2>2, <1>1 DEF RestInv, MadeElsewhere
<1>8. ASSUME NoFailure' PROVE NoneDangles' /\ NoneUnlinked'
  <2>1. NoFailure /\ faults' = faults BY <1>1, <1>2, <1>3, <1>8 DEF NoFailure
  <2>2. listeners' \subseteq listeners BY <1>3
  <2>3. c.kind = "delete" => c.listener \notin listeners' BY <1>3, <2>1
  <2>4. NoneDangles'
    <3> SUFFICES ASSUME NEW l \in listeners' \ Shared, NEW e \in triggers'[l], e[1] \notin templates
                 PROVE  \/ \E r \in Removers : pc'[r] = "list" /\ selected'[r] = e[1]
                        \/ \E x \in calls' : x.kind = "delete" /\ x.listener = l
      BY <1>1 DEF NoneDangles
    <3>1. l \in listeners \ Shared /\ e \in triggers[l] BY <2>2, <1>4, <1>6
    <3>2. CASE \E r \in Removers : pc[r] = "list" /\ selected[r] = e[1]
      BY <3>2, <1>1, <1>5
    <3>3. CASE \E x \in calls : x.kind = "delete" /\ x.listener = l
      BY <3>3, <2>3, <1>1
    <3> QED BY <3>1, <3>2, <3>3, <2>1 DEF RestInv, NoneDangles
  <2>5. NoneUnlinked'
    <3> SUFFICES ASSUME NEW t \in templates \ InitTemplates
                 PROVE  \/ \E d \in Adders : pc'[d] = "createListener" /\ selected'[d] = t
                        \/ \E l \in listeners' : \E e \in triggers'[l] : e[1] = t
      BY <1>1 DEF NoneUnlinked
    <3>1. CASE \E d \in Adders : pc[d] = "createListener" /\ selected[d] = t
      BY <3>1, <1>1, <1>5
    <3>2. ASSUME NEW l \in listeners, NEW e \in triggers[l], e[1] = t
          PROVE  l \in listeners' /\ e \in triggers'[l]
      <4>1. l \notin Shared BY <3>2 DEF RestInv, MadeElsewhere
      <4>2. c.kind = "delete" => c.listener # l BY <3>2, <4>1, <1>2 DEF CallOk
      <4> QED BY <4>1, <4>2, <1>3, <1>4, <1>6
    <3> QED BY <3>1, <3>2, <2>1 DEF RestInv, NoneUnlinked
  <2> QED BY <2>4, <2>5
<1> QED BY <1>7, <1>8 DEF RestInv

LEMMA CleanUpRest ==
  ASSUME IInv, RestInv, NEW l \in Listeners, CleanUp(l)
  PROVE  RestInv'
<1>1. /\ UNCHANGED <<templates, triggers, taken, pc, selected, plan, calls, faults>>
      /\ listeners' = listeners \ {l} /\ l \notin Triggerless
      /\ \A e \in triggers[l] : e[1] \notin templates
  BY DEF CleanUp, dialogs, TemplatesOf
<1>2. MadeElsewhere' BY <1>1 DEF RestInv, MadeElsewhere
<1>3. NoFailure' => NoFailure BY <1>1 DEF NoFailure
<1>4. NoneDangles => NoneDangles' BY <1>1 DEF NoneDangles
<1>5. NoneUnlinked => NoneUnlinked' BY <1>1 DEF NoneUnlinked
<1> QED BY <1>2, <1>3, <1>4, <1>5 DEF RestInv

LEMMA RestNext == ASSUME IInv, RestInv, OwnNames, [Next]_vars PROVE RestInv'
<1>1. Adders \subseteq Dialogs /\ Removers \subseteq Dialogs /\ faults \in Nat
  BY TriggersAssumption DEF Dialogs, IInv, TypeOK
<1>2. ASSUME NEW d \in Adders, SubmitAdd(d) \/ AddStep(d) PROVE RestInv'
  BY <1>1, <1>2, SubmitRest, CreateTemplateRest, CreateListenerRest DEF AddStep
<1>3. ASSUME NEW d \in Removers,
             SubmitRemove(d) \/ RemoveStep(d) \/ \E t \in Templates : Pick(d, t)
      PROVE  RestInv'
  BY <1>1, <1>3, SubmitRest, DeleteTemplateRest, ListRest, EndRest DEF RemoveStep
<1>4. ASSUME NEW l \in Listeners, ExposeStep(l) PROVE RestInv'
  <2>1. /\ UNCHANGED <<templates, listeners, triggers, taken, pc, selected, plan, calls>>
        /\ faults' \in {faults, faults + 1}
    BY <1>4 DEF ExposeStep, Look, GetService, CreateRoute, Fault, cluster, dialogs
  <2> QED BY <2>1, <1>1, RestUnchanged
<1>5. CASE UNCHANGED vars
  <2>1. UNCHANGED <<templates, listeners, triggers, taken, pc, selected, plan, calls, faults>>
    BY <1>5 DEF vars, cluster, dialogs
  <2> QED BY <2>1, <1>1, RestUnchanged
<1> QED BY <1>2, <1>3, <1>4, <1>5, AnswerRest, CleanUpRest DEF Next

\* When no call has failed, dialogs that have ended leave no listener without its template and
\* no template without its listener, whatever removals overlapped, for any number of dialogs.
THEOREM NothingLeftBehind == Spec => []CleanAtRest
<1>1. Init => IInv /\ RestInv /\ OwnNames BY InitIInv, RestInit, OwnNamesInit
<1>2. IInv /\ RestInv /\ OwnNames /\ [Next]_vars => (IInv /\ RestInv /\ OwnNames)'
  BY NextIInv, RestNext, OwnNamesStep
<1>3. IInv /\ RestInv => CleanAtRest
  <2> SUFFICES ASSUME RestInv, faults = 0, AtRest, listeners \cap Triggerless = {}
               PROVE  /\ \A l \in listeners \ Shared : TemplatesOf(l) \subseteq templates
                      /\ \A t \in templates \ InitTemplates : \E l \in listeners : RefersTo(l, t)
    BY DEF CleanAtRest
  <2>1. NoneDangles /\ NoneUnlinked BY DEF RestInv, NoFailure
  <2>2. calls = {} /\ (\A d \in Adders : pc[d] = "form") /\ (\A d \in Removers : pc[d] = "form")
    BY DEF AtRest, Dialogs
  <2> QED BY <2>1, <2>2 DEF NoneDangles, NoneUnlinked, TemplatesOf, RefersTo
<1> QED BY <1>1, <1>2, <1>3, PTL DEF Spec
================================================================================
