------------------------- MODULE PipelineBuilderProofs -------------------------
(***************************************************************************)
(* Theorems about the pipeline builder, for every set of names, resources, *)
(* pipelines it is opened on and bounds: first what the operations of      *)
(* TaskGraph return and preserve, for every grouping, then the builder.    *)
(***************************************************************************)
EXTENDS BuilderGraph, FiniteSetTheorems, WellFoundedInduction, TLAPS

-----------------------------------------------------------------------------
(***************************************************************************)
(* TaskGraph: types.                                                       *)
(***************************************************************************)

LEMMA MapReplaceType ==
  ASSUME NEW new \in Name, NEW old
  PROVE  /\ \A S \in SUBSET Task : MapReplaceRelated(new, old, S) \in SUBSET Task
         /\ \A S \in SUBSET ListTask : MapReplaceRelated(new, old, S) \in SUBSET ListTask
         /\ \A S \in SUBSET LoadingTask : MapReplaceRelated(new, old, S) \in SUBSET LoadingTask
  BY DEF MapReplaceRelated, Task, ListTask, LoadingTask

LEMMA MapStitchType ==
  ASSUME NEW r, r.runAfter \in SUBSET Name
  PROVE  /\ \A S \in SUBSET Task : MapStitchReplace(r, S) \in SUBSET Task
         /\ \A S \in SUBSET ListTask : MapStitchReplace(r, S) \in SUBSET ListTask
  BY DEF MapStitchReplace, Task, ListTask

LEMMA MapInsertType ==
  ASSUME NEW new \in Name, NEW old
  PROVE  /\ \A S \in SUBSET Task :
              MapBeRelated(new, old, S) \in SUBSET Task /\ MapAddRelated(new, old, S) \in SUBSET Task
         /\ \A S \in SUBSET ListTask :
              /\ MapBeRelated(new, old, S) \in SUBSET ListTask
              /\ MapAddRelated(new, old, S) \in SUBSET ListTask
  BY DEF MapBeRelated, MapAddRelated, Task, ListTask

LEMMA WithoutType ==
  ASSUME NEW T, NEW S \in SUBSET T, NEW n
  PROVE  Without(n, S) \in SUBSET T
  BY DEF Without

LEMMA AddListNodeType ==
  ASSUME NEW g \in Grouping, NEW t \in g.tasks, NEW n \in ListName
  PROVE  /\ AddListNodeBefore(g, t, n) \in Grouping
         /\ AddListNodeAfter(g, t, n) \in Grouping
         /\ AddListNodeParallel(g, t, n) \in Grouping
<1>1. g.tasks \in SUBSET Task /\ g.listTasks \in SUBSET ListTask
  BY DEF Grouping
<1>2. n \in Name /\ t.name \in Name /\ t.runAfter \in SUBSET Name
  BY <1>1 DEF Task, Name
<1>3. AddListNodeBefore(g, t, n) \in Grouping
  <2>1. [name |-> n, runAfter |-> t.runAfter] \in ListTask
    BY <1>2 DEF ListTask
  <2> QED BY <1>1, <1>2, <2>1, MapInsertType DEF AddListNodeBefore, Grouping
<1>4. AddListNodeAfter(g, t, n) \in Grouping
  <2>1. [name |-> n, runAfter |-> {t.name}] \in ListTask
    BY <1>2 DEF ListTask
  <2> QED BY <1>1, <1>2, <2>1, MapReplaceType DEF AddListNodeAfter, Grouping
<1>5. AddListNodeParallel(g, t, n) \in Grouping
  <2>1. [name |-> n, runAfter |-> t.runAfter] \in ListTask
    BY <1>2 DEF ListTask
  <2> QED BY <1>1, <1>2, <2>1, MapInsertType DEF AddListNodeParallel, Grouping
<1> QED BY <1>3, <1>4, <1>5
-----------------------------------------------------------------------------
(***************************************************************************)
(* TaskGraph: graphs.  R is the graph before an operation and Q the one    *)
(* after it; each lemma names the shape of change of a family of           *)
(* operations.                                                             *)
(***************************************************************************)

LEMMA NamesOfMember ==
  ASSUME NEW R, NEW t \in R
  PROVE  t.name \in NamesOf(R)
  BY DEF NamesOf

LEMMA NamesOfPick ==
  ASSUME NEW R, NEW n \in NamesOf(R)
  PROVE  \E t \in R : t.name = n
  BY DEF NamesOf

\* Q is R without the node x, whose place in runAfters its own runAfter takes.
Stitches(R, Q, x) ==
  /\ \A q \in Q : \E t \in R :
       /\ q.name = t.name /\ t.name # x.name
       /\ q.runAfter = IF x.name \in t.runAfter
                         THEN (t.runAfter \ {x.name}) \cup x.runAfter
                         ELSE t.runAfter
  /\ \A t \in R : t.name # x.name => \E q \in Q : q.name = t.name

\* Q is R with `new` for the name `old`.
Relabels(R, Q, old, new) ==
  /\ \A q \in Q : \E t \in R :
       /\ q.name = IF t.name = old THEN new ELSE t.name
       /\ q.runAfter = IF old \in t.runAfter
                         THEN (t.runAfter \ {old}) \cup {new}
                         ELSE t.runAfter
  /\ \A t \in R : \E q \in Q : q.name = IF t.name = old THEN new ELSE t.name

\* A new node runs after what x ran after, and x after it alone.
InsertsBefore(R, Q, x, new) ==
  /\ new \notin NamesOf(R) /\ NamesOf(Q) = NamesOf(R) \cup {new}
  /\ \A q \in Q :
       \/ q.name = new /\ q.runAfter = x.runAfter
       \/ \E t \in R : /\ q.name = t.name
                       /\ t.name = x.name => q.runAfter = {new}
                       /\ t.name # x.name => q.runAfter = t.runAfter

\* A new node runs after x, and whoever ran after x runs after the new one.
InsertsAfter(R, Q, x, new) ==
  /\ new \notin NamesOf(R) /\ NamesOf(Q) = NamesOf(R) \cup {new}
  /\ \A q \in Q :
       \/ q.name = new /\ q.runAfter = {x.name}
       \/ \E t \in R : /\ q.name = t.name
                       /\ q.runAfter = IF x.name \in t.runAfter
                                         THEN (t.runAfter \ {x.name}) \cup {new}
                                         ELSE t.runAfter

\* A new node runs beside x: after the same nodes and before the same nodes.
InsertsParallel(R, Q, x, new) ==
  /\ new \notin NamesOf(R) /\ NamesOf(Q) = NamesOf(R) \cup {new}
  /\ \A q \in Q :
       \/ q.name = new /\ q.runAfter = x.runAfter
       \/ \E t \in R : /\ q.name = t.name
                       /\ q.runAfter = IF x.name \in t.runAfter
                                         THEN t.runAfter \cup {new}
                                         ELSE t.runAfter

\* A node is removed, and whoever ran after it runs after what it ran after.
LEMMA StitchKeeps ==
  ASSUME NEW R, NEW Q, NEW x \in R,
         Distinct(R), Closed(R), Acyclic(R), Stitches(R, Q, x)
  PROVE  Closed(Q) /\ Acyclic(Q)
<1> USE NamesOfMember, NamesOfPick DEF Stitches
<1>1. x.name \notin x.runAfter
  <2>1. {x.name} \in SUBSET NamesOf(R) /\ {x.name} # {}
    OBVIOUS
  <2>2. PICK n \in {x.name} : \A t \in R : t.name = n => t.runAfter \cap {x.name} = {}
    BY <2>1 DEF Acyclic
  <2> QED BY <2>2
<1>2. NamesOf(Q) = NamesOf(R) \ {x.name}
  <2>1. ASSUME NEW n \in NamesOf(Q) PROVE n \in NamesOf(R) \ {x.name}
    <3>1. PICK q \in Q : q.name = n
      OBVIOUS
    <3> QED BY <3>1
  <2>2. ASSUME NEW n \in NamesOf(R) \ {x.name} PROVE n \in NamesOf(Q)
    <3>1. PICK t \in R : t.name = n
      OBVIOUS
    <3> QED BY <3>1
  <2> QED BY <2>1, <2>2
<1>3. Closed(Q)
  <2>1. SUFFICES ASSUME NEW q \in Q PROVE q.runAfter \subseteq NamesOf(R) \ {x.name}
    BY <1>2 DEF Closed
  <2>2. PICK t \in R :
          q.runAfter = IF x.name \in t.runAfter
                         THEN (t.runAfter \ {x.name}) \cup x.runAfter
                         ELSE t.runAfter
    OBVIOUS
  <2>3. t.runAfter \subseteq NamesOf(R) /\ x.runAfter \subseteq NamesOf(R)
    BY DEF Closed
  <2> QED BY <1>1, <2>2, <2>3
<1>4. Acyclic(Q)
  <2>1. SUFFICES ASSUME NEW S \in SUBSET NamesOf(Q), S # {}
                 PROVE  \E n \in S : \A q \in Q : q.name = n => q.runAfter \cap S = {}
    BY DEF Acyclic
  <2>2. S \cup {x.name} \in SUBSET NamesOf(R) /\ S \in SUBSET NamesOf(R)
    BY <1>2
  <2>3. PICK n \in S \cup {x.name} :
          \A t \in R : t.name = n => t.runAfter \cap (S \cup {x.name}) = {}
    BY <2>2 DEF Acyclic
  <2>4. CASE n = x.name
    <3>1. PICK m \in S : \A t \in R : t.name = m => t.runAfter \cap S = {}
      BY <2>1, <2>2 DEF Acyclic
    <3>2. ASSUME NEW q \in Q, q.name = m PROVE q.runAfter \cap S = {}
      <4>1. PICK t \in R :
              /\ q.name = t.name
              /\ q.runAfter \subseteq t.runAfter \cup x.runAfter
        OBVIOUS
      <4>2. t.runAfter \cap S = {}
        BY <3>1, <3>2, <4>1
      <4>3. x.runAfter \cap S = {}
        BY <2>3, <2>4
      <4> QED BY <4>1, <4>2, <4>3
    <3> QED BY <3>2
  <2>5. CASE n # x.name
    <3>1. ASSUME NEW q \in Q, q.name = n PROVE q.runAfter \cap S = {}
      <4>1. PICK t \in R :
              /\ q.name = t.name
              /\ q.runAfter = IF x.name \in t.runAfter
                                THEN (t.runAfter \ {x.name}) \cup x.runAfter
                                ELSE t.runAfter
        OBVIOUS
      <4>2. t.runAfter \cap (S \cup {x.name}) = {}
        BY <2>3, <3>1, <4>1
      <4> QED BY <4>1, <4>2
    <3> QED BY <2>5, <3>1
  <2> QED BY <2>4, <2>5
<1> QED BY <1>3, <1>4

\* A node takes a name that no other bears.
LEMMA RelabelKeeps ==
  ASSUME NEW R, NEW Q, NEW old, NEW new, new \notin NamesOf(R) \ {old},
         Closed(R), Acyclic(R), Relabels(R, Q, old, new)
  PROVE  Closed(Q) /\ Acyclic(Q)
<1> USE NamesOfMember, NamesOfPick DEF Relabels
<1> DEFINE Image(n) == IF n = old THEN new ELSE n
<1>1. \A n \in NamesOf(R) : Image(n) \in NamesOf(Q)
  OBVIOUS
<1>2. Closed(Q)
  <2>1. SUFFICES ASSUME NEW q \in Q, NEW m \in q.runAfter PROVE m \in NamesOf(Q)
    BY DEF Closed
  <2>2. PICK t \in R : q.runAfter = IF old \in t.runAfter
                             THEN (t.runAfter \ {old}) \cup {new}
                             ELSE t.runAfter
    OBVIOUS
  <2>3. t.runAfter \subseteq NamesOf(R)
    BY DEF Closed
  <2>4. CASE old \in t.runAfter
    BY <1>1, <2>2, <2>3, <2>4
  <2>5. CASE old \notin t.runAfter
    BY <1>1, <2>2, <2>3, <2>5
  <2> QED BY <2>4, <2>5
<1>3. Acyclic(Q)
  <2>1. SUFFICES ASSUME NEW S \in SUBSET NamesOf(Q), S # {}
                 PROVE  \E n \in S : \A q \in Q : q.name = n => q.runAfter \cap S = {}
    BY DEF Acyclic
  <2> DEFINE S0 == {n \in NamesOf(R) : Image(n) \in S}
  <2>2. S0 \in SUBSET NamesOf(R) /\ S0 # {}
    <3>1. PICK s \in S : TRUE
      BY <2>1
    <3>2. PICK q \in Q : q.name = s
      OBVIOUS
    <3>3. PICK t \in R : q.name = IF t.name = old THEN new ELSE t.name
      OBVIOUS
    <3>4. t.name \in S0
      BY <3>2, <3>3
    <3> QED BY <3>4
  <2>3. PICK n \in S0 : \A t \in R : t.name = n => t.runAfter \cap S0 = {}
    BY <2>2 DEF Acyclic
  <2>4. SUFFICES ASSUME NEW q \in Q, q.name = Image(n), NEW m \in q.runAfter \cap S
                 PROVE  FALSE
    OBVIOUS
  <2>5. PICK t \in R :
          /\ q.name = IF t.name = old THEN new ELSE t.name
          /\ q.runAfter = IF old \in t.runAfter
                             THEN (t.runAfter \ {old}) \cup {new}
                             ELSE t.runAfter
    OBVIOUS
  <2>6. t.name = n
    BY <2>4, <2>5
  <2>7. t.runAfter \subseteq NamesOf(R)
    BY DEF Closed
  <2>8. \E k \in t.runAfter : m = Image(k)
    BY <2>5, <2>7
  <2> QED BY <2>3, <2>6, <2>7, <2>8
<1> QED BY <1>2, <1>3

LEMMA InsertBeforeKeeps ==
  ASSUME NEW R, NEW Q, NEW x \in R, NEW new, Distinct(R), Closed(R), Acyclic(R),
         InsertsBefore(R, Q, x, new)
  PROVE  Closed(Q) /\ Acyclic(Q)
<1> USE NamesOfMember, NamesOfPick DEF InsertsBefore
<1>1. \A t \in R : t.runAfter \subseteq NamesOf(R) /\ new \notin t.runAfter
  BY DEF Closed
<1>2. Closed(Q)
  BY <1>1 DEF Closed
<1>3. Acyclic(Q)
  <2>1. SUFFICES ASSUME NEW S \in SUBSET NamesOf(Q), S # {}
                 PROVE  \E n \in S : \A q \in Q : q.name = n => q.runAfter \cap S = {}
    BY DEF Acyclic
  <2> DEFINE S0 == S \ {new}
  <2>2. S0 \in SUBSET NamesOf(R)
    OBVIOUS
  <2>3. CASE S0 = {}
    <3>1. new \in S
      BY <2>1, <2>3
    <3>2. ASSUME NEW q \in Q, q.name = new PROVE q.runAfter \cap S = {}
      <4>1. q.runAfter = x.runAfter
        BY <3>2
      <4> QED BY <1>1, <2>3, <4>1
    <3> QED BY <3>1, <3>2
  <2>4. CASE S0 # {}
    <3>1. PICK n \in S0 : \A t \in R : t.name = n => t.runAfter \cap S0 = {}
      BY <2>2, <2>4 DEF Acyclic
    <3>2. CASE n = x.name /\ new \in S
      <4>1. ASSUME NEW q \in Q, q.name = new PROVE q.runAfter \cap S = {}
        <5>1. q.runAfter = x.runAfter
          BY <4>1
        <5> QED BY <1>1, <3>1, <3>2, <5>1
      <4> QED BY <3>2, <4>1
    <3>3. CASE ~(n = x.name /\ new \in S)
      <4>1. ASSUME NEW q \in Q, q.name = n PROVE q.runAfter \cap S = {}
        <5>1. PICK t \in R : /\ q.name = t.name
                             /\ t.name = x.name => q.runAfter = {new}
                             /\ t.name # x.name => q.runAfter = t.runAfter
          BY <4>1
        <5>2. t.runAfter \cap S = {}
          BY <1>1, <3>1, <4>1, <5>1
        <5> QED BY <3>3, <4>1, <5>1, <5>2
      <4> QED BY <4>1
    <3> QED BY <3>2, <3>3
  <2> QED BY <2>3, <2>4
<1> QED BY <1>2, <1>3

LEMMA InsertAfterKeeps ==
  ASSUME NEW R, NEW Q, NEW x \in R, NEW new, Distinct(R), Closed(R), Acyclic(R),
         InsertsAfter(R, Q, x, new)
  PROVE  Closed(Q) /\ Acyclic(Q)
<1> USE NamesOfMember, NamesOfPick DEF InsertsAfter
<1>1. \A t \in R : t.runAfter \subseteq NamesOf(R) /\ new \notin t.runAfter
  BY DEF Closed
<1>2. Closed(Q)
  <2>1. SUFFICES ASSUME NEW q \in Q PROVE q.runAfter \subseteq NamesOf(R) \cup {new}
    BY DEF Closed
  <2>2. CASE q.runAfter = {x.name}
    BY <2>2
  <2>3. CASE q.runAfter # {x.name}
    <3>1. PICK t \in R : q.runAfter = IF x.name \in t.runAfter
                                        THEN (t.runAfter \ {x.name}) \cup {new}
                                        ELSE t.runAfter
      BY <2>3
    <3> QED BY <1>1, <3>1
  <2> QED BY <2>2, <2>3
<1>3. Acyclic(Q)
  <2>1. SUFFICES ASSUME NEW S \in SUBSET NamesOf(Q), S # {}
                 PROVE  \E n \in S : \A q \in Q : q.name = n => q.runAfter \cap S = {}
    BY DEF Acyclic
  <2> DEFINE S0 == S \ {new}
  <2>2. S0 \in SUBSET NamesOf(R)
    OBVIOUS
  <2>3. CASE new \in S /\ x.name \notin S
    <3>1. ASSUME NEW q \in Q, q.name = new PROVE q.runAfter \cap S = {}
      <4>1. q.runAfter = {x.name}
        BY <3>1
      <4> QED BY <2>3, <4>1
    <3> QED BY <2>3, <3>1
  <2>4. CASE ~(new \in S /\ x.name \notin S)
    <3>1. S0 # {}
      BY <2>1, <2>4
    <3>2. PICK n \in S0 : \A t \in R : t.name = n => t.runAfter \cap S0 = {}
      BY <2>2, <3>1 DEF Acyclic
    <3>3. ASSUME NEW q \in Q, q.name = n PROVE q.runAfter \cap S = {}
      <4>1. PICK t \in R : /\ q.name = t.name
                           /\ q.runAfter = IF x.name \in t.runAfter
                                             THEN (t.runAfter \ {x.name}) \cup {new}
                                             ELSE t.runAfter
        BY <3>3
      <4>2. t.runAfter \cap S = {}
        BY <1>1, <3>2, <3>3, <4>1
      <4>3. CASE x.name \in S
        <5>1. x.name \notin t.runAfter
          BY <4>2, <4>3
        <5> QED BY <4>1, <4>2, <5>1
      <4>4. CASE x.name \notin S
        <5>1. new \notin S
          BY <2>4, <4>4
        <5> QED BY <4>1, <4>2, <5>1
      <4> QED BY <4>3, <4>4
    <3> QED BY <3>3
  <2> QED BY <2>3, <2>4
<1> QED BY <1>2, <1>3

LEMMA InsertParallelKeeps ==
  ASSUME NEW R, NEW Q, NEW x \in R, NEW new, Distinct(R), Closed(R), Acyclic(R),
         InsertsParallel(R, Q, x, new)
  PROVE  Closed(Q) /\ Acyclic(Q)
<1> USE NamesOfMember, NamesOfPick DEF InsertsParallel
<1>1. \A t \in R : t.runAfter \subseteq NamesOf(R) /\ new \notin t.runAfter
  BY DEF Closed
<1>2. Closed(Q)
  <2>1. SUFFICES ASSUME NEW q \in Q PROVE q.runAfter \subseteq NamesOf(R) \cup {new}
    BY DEF Closed
  <2>2. \E t \in R : q.runAfter \subseteq t.runAfter \cup {new}
    OBVIOUS
  <2> QED BY <1>1, <2>2
<1>3. Acyclic(Q)
  <2>1. SUFFICES ASSUME NEW S \in SUBSET NamesOf(Q), S # {}
                 PROVE  \E n \in S : \A q \in Q : q.name = n => q.runAfter \cap S = {}
    BY DEF Acyclic
  \* The related node stands for the new one.
  <2> DEFINE S0 == IF new \in S THEN (S \ {new}) \cup {x.name} ELSE S
  <2>2. S0 \in SUBSET NamesOf(R) /\ S0 # {}
    BY <2>1
  <2> HIDE DEF S0
  <2>3. PICK n \in S0 : \A t \in R : t.name = n => t.runAfter \cap S0 = {}
    BY <2>2 DEF Acyclic
  <2> USE DEF S0
  <2>4. CASE new \in S /\ n = x.name
    <3>1. ASSUME NEW q \in Q, q.name = new PROVE q.runAfter \cap S = {}
      <4>1. q.runAfter = x.runAfter
        BY <3>1
      <4>2. x.runAfter \cap S0 = {}
        BY <2>3, <2>4
      <4> QED BY <1>1, <2>4, <4>1, <4>2
    <3> QED BY <2>4, <3>1
  <2>5. CASE ~(new \in S /\ n = x.name)
    <3>1. n \in S /\ n # new
      BY <2>2, <2>3, <2>5
    <3>2. ASSUME NEW q \in Q, q.name = n PROVE q.runAfter \cap S = {}
      <4>1. PICK t \in R : /\ q.name = t.name
                           /\ q.runAfter = IF x.name \in t.runAfter
                                             THEN t.runAfter \cup {new}
                                             ELSE t.runAfter
        BY <3>1, <3>2
      <4>2. t.runAfter \cap S0 = {}
        BY <2>3, <3>2, <4>1
      <4>3. CASE new \in S
        <5>1. x.name \notin t.runAfter
          BY <4>2, <4>3
        <5> QED BY <1>1, <4>1, <4>2, <4>3, <5>1
      <4>4. CASE new \notin S
        BY <4>1, <4>2, <4>4
      <4> QED BY <4>3, <4>4
    <3> QED BY <3>1, <3>2
  <2> QED BY <2>4, <2>5
<1> QED BY <1>2, <1>3

-----------------------------------------------------------------------------
(***************************************************************************)
(* Order.  A set of names is closed downwards from n when it holds what n  *)
(* runs after and, with a node, what that node runs after; the ancestors   *)
(* of n are the nodes in all such sets.                                    *)
(***************************************************************************)

DownFrom(R, n, S) ==
  /\ S \in SUBSET NamesOf(R)
  /\ \A t \in R : t.name \in S \cup {n} => t.runAfter \cap NamesOf(R) \subseteq S

AncestorsIn(R, n) == {m \in NamesOf(R) : \A S : DownFrom(R, n, S) => m \in S}

LEMMA AncestorsAre ==
  ASSUME NEW g, NEW n
  PROVE  Ancestors(g, n) = AncestorsIn(Regular(g), n)
  BY DEF Ancestors, AncestorsIn, DownFrom, RegularNames

\* The nodes that are in both graphs run in the same order in both.
KeepsOrder(R, Q) ==
  \A n \in NamesOf(R) \cap NamesOf(Q) :
    AncestorsIn(R, n) \cap NamesOf(Q) = AncestorsIn(Q, n) \cap NamesOf(R)

\* What a downward closed set of one graph shows of the other: it is enough to find, for each
\* such set of either graph, one of the other graph with no more of the shared names.
LEMMA KeepsOrderFrom ==
  ASSUME NEW R, NEW Q,
         \A n \in NamesOf(R) \cap NamesOf(Q) : \A S :
           /\ DownFrom(R, n, S) => \E U : DownFrom(Q, n, U) /\ U \cap NamesOf(R) \subseteq S
           /\ DownFrom(Q, n, S) => \E U : DownFrom(R, n, U) /\ U \cap NamesOf(Q) \subseteq S
  PROVE  KeepsOrder(R, Q)
<1>1. SUFFICES ASSUME NEW n \in NamesOf(R) \cap NamesOf(Q), NEW m \in NamesOf(R) \cap NamesOf(Q)
               PROVE  m \in AncestorsIn(R, n) <=> m \in AncestorsIn(Q, n)
  BY DEF KeepsOrder, AncestorsIn
<1>2. ASSUME m \in AncestorsIn(R, n), NEW S, DownFrom(Q, n, S) PROVE m \in S
  <2>1. PICK U : DownFrom(R, n, U) /\ U \cap NamesOf(Q) \subseteq S
    BY <1>2
  <2>2. m \in U
    BY <1>2, <2>1 DEF AncestorsIn
  <2> QED BY <2>1, <2>2
<1>3. ASSUME m \in AncestorsIn(Q, n), NEW S, DownFrom(R, n, S) PROVE m \in S
  <2>1. PICK U : DownFrom(Q, n, U) /\ U \cap NamesOf(R) \subseteq S
    BY <1>3
  <2>2. m \in U
    BY <1>3, <2>1 DEF AncestorsIn
  <2> QED BY <2>1, <2>2
<1> QED BY <1>1, <1>2, <1>3 DEF AncestorsIn

LEMMA SameOrder ==
  ASSUME NEW R
  PROVE  KeepsOrder(R, R)
  BY DEF KeepsOrder

LEMMA StitchOrder ==
  ASSUME NEW R, NEW Q, NEW x \in R, Distinct(R), Stitches(R, Q, x)
  PROVE  KeepsOrder(R, Q)
<1> USE NamesOfMember, NamesOfPick DEF Stitches
<1> DEFINE After(t) == IF x.name \in t.runAfter THEN (t.runAfter \ {x.name}) \cup x.runAfter
                                                ELSE t.runAfter
<1>1. NamesOf(Q) = NamesOf(R) \ {x.name}
  <2>1. ASSUME NEW n \in NamesOf(Q) PROVE n \in NamesOf(R) \ {x.name}
    <3>1. PICK q \in Q : q.name = n
      OBVIOUS
    <3> QED BY <3>1
  <2>2. ASSUME NEW n \in NamesOf(R) \ {x.name} PROVE n \in NamesOf(Q)
    <3>1. PICK t \in R : t.name = n
      OBVIOUS
    <3> QED BY <3>1
  <2> QED BY <2>1, <2>2
<1>2. \A q \in Q : \E t \in R : q.name = t.name /\ q.runAfter = After(t)
  OBVIOUS
<1> HIDE DEF After
<1>3. ASSUME NEW t \in R, t.name # x.name
      PROVE  \E q \in Q : q.name = t.name /\ q.runAfter = After(t)
  <2>1. PICK q \in Q : q.name = t.name
    BY <1>3
  <2>2. PICK s \in R : q.name = s.name /\ q.runAfter = After(s)
    BY <1>2
  <2>3. s = t
    <3>1. s.name = t.name
      BY <2>1, <2>2
    <3> QED BY <3>1 DEF Distinct
  <2> QED BY <2>1, <2>2, <2>3
<1> USE DEF After
<1>4. \A t \in R : t.name = x.name => t = x
  BY DEF Distinct
<1>5. ASSUME NEW n \in NamesOf(R) \cap NamesOf(Q), NEW S, DownFrom(R, n, S)
      PROVE  \E U : DownFrom(Q, n, U) /\ U \cap NamesOf(R) \subseteq S
  <2> DEFINE U == S \ {x.name}
  <2>1. ASSUME NEW q \in Q, q.name \in U \cup {n}, NEW m \in q.runAfter \cap NamesOf(Q)
        PROVE  m \in U
    <3>1. PICK t \in R : q.name = t.name /\ q.runAfter = After(t)
      BY <1>2
    <3>2. t.runAfter \cap NamesOf(R) \subseteq S
      BY <1>5, <2>1, <3>1 DEF DownFrom
    <3>3. x.name \in t.runAfter => x.runAfter \cap NamesOf(R) \subseteq S
      BY <1>5, <3>2 DEF DownFrom
    <3>4. m \in NamesOf(R) /\ m # x.name
      BY <1>1, <2>1
    <3> QED BY <2>1, <3>1, <3>2, <3>3, <3>4
  <2>2. U \in SUBSET NamesOf(Q)
    BY <1>1, <1>5 DEF DownFrom
  <2>3. DownFrom(Q, n, U)
    BY <2>1, <2>2 DEF DownFrom
  <2> QED BY <2>3
<1>6. ASSUME NEW n \in NamesOf(R) \cap NamesOf(Q), NEW S, DownFrom(Q, n, S)
      PROVE  \E U : DownFrom(R, n, U) /\ U \cap NamesOf(Q) \subseteq S
  <2> DEFINE P == \E t \in R : /\ t.name \in S \cup {n} /\ t.name # x.name
                               /\ x.name \in t.runAfter
             U == S \cup (IF P THEN {x.name} ELSE {})
  <2>1. ASSUME NEW t \in R, t.name \in S \cup {n} PROVE t.name # x.name /\ After(t) \cap NamesOf(Q) \subseteq S
    <3>1. t.name # x.name
      BY <1>1, <1>6, <2>1 DEF DownFrom
    <3>2. PICK q \in Q : q.name = t.name /\ q.runAfter = After(t)
      BY <1>3, <3>1
    <3> QED BY <1>6, <2>1, <3>1, <3>2 DEF DownFrom
  <2>2. ASSUME P PROVE x.runAfter \cap NamesOf(Q) \subseteq S
    <3>1. PICK t \in R : t.name \in S \cup {n} /\ x.name \in t.runAfter
      BY <2>2
    <3> QED BY <2>1, <3>1
  <2>3. ASSUME NEW t \in R, t.name \in U \cup {n}, NEW m \in t.runAfter \cap NamesOf(R)
        PROVE  m \in U
    <3>1. CASE t.name \in S \cup {n}
      <4>1. CASE m = x.name
        BY <2>1, <2>3, <3>1, <4>1
      <4>2. CASE m # x.name
        BY <1>1, <2>1, <2>3, <3>1, <4>2
      <4> QED BY <4>1, <4>2
    <3>2. CASE t.name \notin S \cup {n}
      <4>1. P /\ t = x
        BY <1>4, <2>3, <3>2
      <4> QED BY <1>1, <2>2, <2>3, <4>1
    <3> QED BY <3>1, <3>2
  <2>4. U \in SUBSET NamesOf(R) /\ U \cap NamesOf(Q) \subseteq S
    BY <1>1, <1>6 DEF DownFrom
  <2> HIDE DEF U
  <2>5. DownFrom(R, n, U)
    BY <2>3, <2>4 DEF DownFrom
  <2> QED BY <2>4, <2>5
<1>7. \A n \in NamesOf(R) \cap NamesOf(Q) : \A S :
        /\ DownFrom(R, n, S) => \E U : DownFrom(Q, n, U) /\ U \cap NamesOf(R) \subseteq S
        /\ DownFrom(Q, n, S) => \E U : DownFrom(R, n, U) /\ U \cap NamesOf(Q) \subseteq S
  BY <1>5, <1>6
<1> QED BY <1>7, KeepsOrderFrom

LEMMA RelabelOrder ==
  ASSUME NEW R, NEW Q, NEW old, NEW new, new \notin NamesOf(R) \ {old},
         Distinct(R), Closed(R), Relabels(R, Q, old, new)
  PROVE  KeepsOrder(R, Q)
<1> USE NamesOfMember, NamesOfPick DEF Relabels
<1> DEFINE Image(n) == IF n = old THEN new ELSE n
           After(t) == IF old \in t.runAfter THEN (t.runAfter \ {old}) \cup {new} ELSE t.runAfter
<1>1. \A n \in NamesOf(R) : Image(n) \in NamesOf(Q)
  OBVIOUS
<1>2. ASSUME NEW n \in NamesOf(Q) PROVE \E k \in NamesOf(R) : n = Image(k)
  <2>1. PICK q \in Q : q.name = n
    OBVIOUS
  <2>2. PICK t \in R : q.name = IF t.name = old THEN new ELSE t.name
    OBVIOUS
  <2> QED BY <2>1, <2>2
<1>3. \A j, k \in NamesOf(R) : Image(j) = Image(k) => j = k
  OBVIOUS
<1>4. \A q \in Q : \E t \in R : q.name = Image(t.name) /\ q.runAfter = After(t)
  OBVIOUS
<1>5. \A t \in R : \E q \in Q : q.name = Image(t.name) /\ q.runAfter = After(t)
  <2>1. SUFFICES ASSUME NEW t \in R PROVE \E q \in Q : q.name = Image(t.name) /\ q.runAfter = After(t)
    OBVIOUS
  <2>2. PICK q \in Q : q.name = Image(t.name)
    OBVIOUS
  <2>3. PICK s \in R : q.name = Image(s.name) /\ q.runAfter = After(s)
    BY <1>4
  <2>4. s.name = t.name
    BY <1>3, <2>2, <2>3
  <2>5. s = t
    BY <2>4 DEF Distinct
  <2> QED BY <2>2, <2>3, <2>5
<1>6. \A t \in R : t.runAfter \subseteq NamesOf(R) /\ After(t) = {Image(k) : k \in t.runAfter}
  BY DEF Closed
<1>7. \A n \in NamesOf(R) \cap NamesOf(Q) : n = Image(n)
  BY <1>2
<1> HIDE DEF Image, After
<1>8. ASSUME NEW n \in NamesOf(R) \cap NamesOf(Q), NEW S, DownFrom(R, n, S)
      PROVE  \E U : DownFrom(Q, n, U) /\ U \cap NamesOf(R) \subseteq S
  <2> DEFINE U == {Image(k) : k \in S}
  <2>1. S \in SUBSET NamesOf(R)
    BY <1>8 DEF DownFrom
  <2>2. ASSUME NEW q \in Q, q.name \in U \cup {n}, NEW m \in q.runAfter
        PROVE  m \in U
    <3>1. PICK t \in R : q.name = Image(t.name) /\ q.runAfter = After(t)
      BY <1>4
    <3>2. t.name \in S \cup {n}
      BY <1>3, <1>7, <2>1, <2>2, <3>1
    <3>3. t.runAfter \subseteq S
      BY <1>6, <1>8, <3>2 DEF DownFrom
    <3> QED BY <1>6, <2>2, <3>1, <3>3
  <2>3. U \in SUBSET NamesOf(Q)
    BY <1>1, <2>1
  <2>4. U \cap NamesOf(R) \subseteq S
    <3>1. ASSUME NEW k \in S, Image(k) \in NamesOf(R) PROVE Image(k) \in S
      <4>1. Image(Image(k)) = Image(k)
        BY <1>1, <1>7, <2>1, <3>1
      <4>2. Image(k) = k
        BY <1>3, <2>1, <3>1, <4>1
      <4> QED BY <4>2
    <3> QED BY <3>1
  <2>5. DownFrom(Q, n, U)
    BY <2>2, <2>3 DEF DownFrom
  <2> QED BY <2>4, <2>5
<1>9. ASSUME NEW n \in NamesOf(R) \cap NamesOf(Q), NEW S, DownFrom(Q, n, S)
      PROVE  \E U : DownFrom(R, n, U) /\ U \cap NamesOf(Q) \subseteq S
  <2> DEFINE U == {k \in NamesOf(R) : Image(k) \in S}
  <2>1. ASSUME NEW t \in R, t.name \in U \cup {n}, NEW m \in t.runAfter
        PROVE  m \in U
    <3>1. PICK q \in Q : q.name = Image(t.name) /\ q.runAfter = After(t)
      BY <1>5
    <3>2. q.name \in S \cup {n}
      BY <1>7, <2>1, <3>1
    <3>3. q.runAfter \cap NamesOf(Q) \subseteq S
      BY <1>9, <3>2 DEF DownFrom
    <3>4. m \in NamesOf(R) /\ Image(m) \in q.runAfter
      BY <1>6, <2>1, <3>1
    <3> QED BY <1>1, <3>3, <3>4
  <2>2. U \cap NamesOf(Q) \subseteq S
    BY <1>7
  <2>3. DownFrom(R, n, U)
    BY <2>1 DEF DownFrom
  <2> QED BY <2>2, <2>3
<1>10. \A n \in NamesOf(R) \cap NamesOf(Q) : \A S :
         /\ DownFrom(R, n, S) => \E U : DownFrom(Q, n, U) /\ U \cap NamesOf(R) \subseteq S
         /\ DownFrom(Q, n, S) => \E U : DownFrom(R, n, U) /\ U \cap NamesOf(Q) \subseteq S
  BY <1>8, <1>9
<1> QED BY <1>10, KeepsOrderFrom

\* A node is put in: it runs after A, and what each other node t runs after becomes F[t].  Who
\* runs after the new node ran after A, and lost at most what the new one runs after.
Inserts(R, Q, new, A, F) ==
  /\ new \notin NamesOf(R) /\ NamesOf(Q) = NamesOf(R) \cup {new}
  /\ A \subseteq NamesOf(R)
  /\ \A q \in Q :
       \/ q.name = new /\ q.runAfter = A
       \/ \E t \in R : q.name = t.name /\ q.runAfter = F[t]
  /\ \A t \in R :
       /\ F[t] \subseteq t.runAfter \cup {new} /\ t.runAfter \subseteq F[t] \cup A
       /\ new \notin F[t] => t.runAfter = F[t]
       /\ new \in F[t] => \/ A \subseteq t.runAfter
                          \/ \E s \in R : s.name \in t.runAfter /\ A \subseteq s.runAfter

LEMMA InsertOrder ==
  ASSUME NEW R, NEW Q, NEW new, NEW A, NEW F, Distinct(R), Closed(R), Inserts(R, Q, new, A, F)
  PROVE  KeepsOrder(R, Q)
<1> USE NamesOfMember, NamesOfPick DEF Inserts
<1>1. ASSUME NEW t \in R PROVE \E q \in Q : q.name = t.name /\ q.runAfter = F[t]
  <2>1. PICK q \in Q : q.name = t.name
    OBVIOUS
  <2>2. q.name # new
    BY <2>1
  <2>3. PICK s \in R : q.name = s.name /\ q.runAfter = F[s]
    BY <2>2
  <2>4. s = t
    BY <2>1, <2>3 DEF Distinct
  <2> QED BY <2>1, <2>3, <2>4
<1>2. \E q \in Q : q.name = new /\ q.runAfter = A
  <2>1. PICK q \in Q : q.name = new
    OBVIOUS
  <2>2. ~\E t \in R : q.name = t.name
    BY <2>1
  <2> QED BY <2>1, <2>2
<1>3. \A t \in R : t.runAfter \subseteq NamesOf(R) /\ F[t] \subseteq NamesOf(Q)
  BY DEF Closed
<1>4. ASSUME NEW n \in NamesOf(R) \cap NamesOf(Q), NEW S, DownFrom(R, n, S)
      PROVE  \E U : DownFrom(Q, n, U) /\ U \cap NamesOf(R) \subseteq S
  <2> DEFINE P == \E t \in R : t.name \in S \cup {n} /\ new \in F[t]
             U == S \cup (IF P THEN {new} ELSE {})
  <2>1. S \in SUBSET NamesOf(R)
    BY <1>4 DEF DownFrom
  <2>2. \A t \in R : t.name \in S \cup {n} => t.runAfter \subseteq S
    BY <1>3, <1>4 DEF DownFrom
  <2>3. ASSUME P PROVE A \subseteq S
    <3>1. PICK t \in R : t.name \in S \cup {n} /\ new \in F[t]
      BY <2>3
    <3>2. CASE A \subseteq t.runAfter
      BY <2>2, <3>1, <3>2
    <3>3. CASE \E s \in R : s.name \in t.runAfter /\ A \subseteq s.runAfter
      BY <2>2, <3>1, <3>3
    <3> QED BY <3>1, <3>2, <3>3
  <2>4. ASSUME NEW q \in Q, q.name \in U \cup {n} PROVE q.runAfter \subseteq U
    <3>1. CASE q.name = new /\ q.runAfter = A
      <4>1. P
        BY <2>1, <2>4, <3>1
      <4> QED BY <2>3, <3>1, <4>1
    <3>2. ASSUME NEW t \in R, q.name = t.name, q.runAfter = F[t] PROVE q.runAfter \subseteq U
      <4>1. t.name \in S \cup {n}
        BY <2>4, <3>2
      <4>2. t.runAfter \subseteq S
        BY <2>2, <4>1
      <4>3. F[t] \subseteq t.runAfter \cup {new}
        OBVIOUS
      <4> QED BY <3>2, <4>1, <4>2, <4>3
    <3> QED BY <3>1, <3>2
  <2>5. U \in SUBSET NamesOf(Q) /\ U \cap NamesOf(R) \subseteq S
    BY <2>1
  <2> HIDE DEF U
  <2>6. DownFrom(Q, n, U)
    BY <2>4, <2>5 DEF DownFrom
  <2> QED BY <2>5, <2>6
<1>5. ASSUME NEW n \in NamesOf(R) \cap NamesOf(Q), NEW S, DownFrom(Q, n, S)
      PROVE  \E U : DownFrom(R, n, U) /\ U \cap NamesOf(Q) \subseteq S
  <2> DEFINE U == S \ {new}
  <2>1. ASSUME new \in S PROVE A \subseteq S
    BY <1>2, <1>5, <2>1 DEF DownFrom
  <2>2. ASSUME NEW t \in R, t.name \in U \cup {n} PROVE t.runAfter \subseteq U
    <3>1. F[t] \subseteq S
      BY <1>1, <1>3, <1>5, <2>2 DEF DownFrom
    <3>2. t.runAfter \subseteq S
      BY <2>1, <3>1
    <3> QED BY <1>3, <3>2
  <2>3. U \in SUBSET NamesOf(R) /\ U \cap NamesOf(Q) \subseteq S
    BY <1>5 DEF DownFrom
  <2> HIDE DEF U
  <2>4. DownFrom(R, n, U)
    BY <2>2, <2>3 DEF DownFrom
  <2> QED BY <2>3, <2>4
<1>6. \A n \in NamesOf(R) \cap NamesOf(Q) : \A S :
        /\ DownFrom(R, n, S) => \E U : DownFrom(Q, n, U) /\ U \cap NamesOf(R) \subseteq S
        /\ DownFrom(Q, n, S) => \E U : DownFrom(R, n, U) /\ U \cap NamesOf(Q) \subseteq S
  BY <1>4, <1>5
<1> QED BY <1>6, KeepsOrderFrom

LEMMA InsertBeforeOrder ==
  ASSUME NEW R, NEW Q, NEW x \in R, NEW new, Distinct(R), Closed(R),
         InsertsBefore(R, Q, x, new)
  PROVE  KeepsOrder(R, Q)
<1> USE DEF InsertsBefore
<1> DEFINE F == [t \in R |-> IF t.name = x.name THEN {new} ELSE t.runAfter]
<1>1. \A t \in R : /\ t.runAfter \subseteq NamesOf(R) /\ new \notin t.runAfter
                   /\ t.name = x.name => t = x
  BY DEF Closed, Distinct
<1>2. \A q \in Q :
        \/ q.name = new /\ q.runAfter = x.runAfter
        \/ \E t \in R : q.name = t.name /\ q.runAfter = F[t]
  OBVIOUS
<1>3. \A t \in R :
        /\ F[t] \subseteq t.runAfter \cup {new} /\ t.runAfter \subseteq F[t] \cup x.runAfter
        /\ new \notin F[t] => t.runAfter = F[t]
        /\ new \in F[t] => \/ x.runAfter \subseteq t.runAfter
                           \/ \E s \in R : s.name \in t.runAfter /\ x.runAfter \subseteq s.runAfter
  BY <1>1
<1> HIDE DEF F
<1>5. Inserts(R, Q, new, x.runAfter, F)
  BY <1>1, <1>2, <1>3 DEF Inserts
<1> QED BY <1>5, InsertOrder

LEMMA InsertAfterOrder ==
  ASSUME NEW R, NEW Q, NEW x \in R, NEW new, Distinct(R), Closed(R),
         InsertsAfter(R, Q, x, new)
  PROVE  KeepsOrder(R, Q)
<1> USE DEF InsertsAfter
<1> DEFINE F == [t \in R |-> IF x.name \in t.runAfter THEN (t.runAfter \ {x.name}) \cup {new}
                                                     ELSE t.runAfter]
<1>1. \A t \in R : new \notin t.runAfter
  BY DEF Closed
<1>2. \A q \in Q :
        \/ q.name = new /\ q.runAfter = {x.name}
        \/ \E t \in R : q.name = t.name /\ q.runAfter = F[t]
  OBVIOUS
<1>3. \A t \in R :
        /\ F[t] \subseteq t.runAfter \cup {new} /\ t.runAfter \subseteq F[t] \cup {x.name}
        /\ new \notin F[t] => t.runAfter = F[t]
        /\ new \in F[t] => \/ {x.name} \subseteq t.runAfter
                           \/ \E s \in R : s.name \in t.runAfter /\ {x.name} \subseteq s.runAfter
  BY <1>1
<1>4. {x.name} \subseteq NamesOf(R)
  BY NamesOfMember
<1> HIDE DEF F
<1>5. Inserts(R, Q, new, {x.name}, F)
  BY <1>4, <1>2, <1>3 DEF Inserts
<1> QED BY <1>5, InsertOrder

LEMMA InsertParallelOrder ==
  ASSUME NEW R, NEW Q, NEW x \in R, NEW new, Distinct(R), Closed(R),
         InsertsParallel(R, Q, x, new)
  PROVE  KeepsOrder(R, Q)
<1> USE DEF InsertsParallel
<1> DEFINE F == [t \in R |-> IF x.name \in t.runAfter THEN t.runAfter \cup {new} ELSE t.runAfter]
<1>1. \A t \in R : t.runAfter \subseteq NamesOf(R) /\ new \notin t.runAfter
  BY DEF Closed
<1>2. \A q \in Q :
        \/ q.name = new /\ q.runAfter = x.runAfter
        \/ \E t \in R : q.name = t.name /\ q.runAfter = F[t]
  OBVIOUS
<1>3. \A t \in R :
        /\ F[t] \subseteq t.runAfter \cup {new} /\ t.runAfter \subseteq F[t] \cup x.runAfter
        /\ new \notin F[t] => t.runAfter = F[t]
        /\ new \in F[t] => \/ x.runAfter \subseteq t.runAfter
                           \/ \E s \in R : s.name \in t.runAfter /\ x.runAfter \subseteq s.runAfter
  BY <1>1
<1> HIDE DEF F
<1>5. Inserts(R, Q, new, x.runAfter, F)
  BY <1>1, <1>2, <1>3 DEF Inserts
<1> QED BY <1>5, InsertOrder

-----------------------------------------------------------------------------
(***************************************************************************)
(* Types of the operations' results.                                       *)
(***************************************************************************)

LEMMA AddFinallyListTaskType ==
  ASSUME NEW g \in Grouping, NEW n \in ListName
  PROVE  AddFinallyListTask(g, n) \in Grouping
<1>1. [name |-> n, runAfter |-> {}] \in ListTask
  BY DEF ListTask
<1> QED BY <1>1 DEF AddFinallyListTask, Grouping

LEMMA ConvertListToTaskType ==
  ASSUME NEW g \in Grouping, NEW name, NEW res \in Resource, NEW runAfter \in SUBSET Name,
         NEW new \in TaskName
  PROVE  /\ ConvertListToTask(g, name, res, runAfter, new) \in Grouping
         /\ ConvertFinallyListToTask(g, name, res, new) \in Grouping
<1>1. /\ g.tasks \in SUBSET Task /\ g.finallyTasks \in SUBSET Task
      /\ Without(name, g.listTasks) \in SUBSET ListTask
      /\ Without(name, g.finallyListTasks) \in SUBSET ListTask
  BY WithoutType DEF Grouping
<1>2. /\ new \in Name
      /\ [name |-> new, runAfter |-> runAfter, res |-> res] \in Task
      /\ [name |-> new, runAfter |-> {}, res |-> res] \in Task
  BY DEF Task, Name
<1>3. /\ MapReplaceRelated(new, name, g.tasks) \in SUBSET Task
      /\ MapReplaceRelated(new, name, g.finallyTasks) \in SUBSET Task
      /\ MapReplaceRelated(new, name, Without(name, g.listTasks)) \in SUBSET ListTask
      /\ MapReplaceRelated(new, name, Without(name, g.finallyListTasks)) \in SUBSET ListTask
  BY <1>1, <1>2, MapReplaceType
<1> QED BY <1>2, <1>3 DEF ConvertListToTask, ConvertFinallyListToTask, Grouping

LEMMA ConvertToLoadingTaskType ==
  ASSUME NEW g \in Grouping, NEW name, NEW res \in Resource, NEW runAfter \in SUBSET Name,
         NEW fin \in BOOLEAN, NEW new \in TaskName
  PROVE  ConvertToLoadingTask(g, name, res, runAfter, fin, new) \in Grouping
<1>1. /\ Without(name, g.tasks) \in SUBSET Task
      /\ Without(name, g.finallyTasks) \in SUBSET Task
      /\ Without(name, g.listTasks) \in SUBSET ListTask
      /\ Without(name, g.finallyListTasks) \in SUBSET ListTask
      /\ g.loadingTasks \in SUBSET LoadingTask
  BY WithoutType DEF Grouping
<1>2. /\ new \in Name
      /\ (IF fin THEN {} ELSE runAfter) \in SUBSET Name
  BY DEF Name
<1>3. [name |-> new, runAfter |-> IF fin THEN {} ELSE runAfter, res |-> res, fin |-> fin]
        \in LoadingTask
  BY <1>2 DEF LoadingTask
<1>4. /\ MapReplaceRelated(new, name, Without(name, g.tasks)) \in SUBSET Task
      /\ MapReplaceRelated(new, name, Without(name, g.finallyTasks)) \in SUBSET Task
      /\ MapReplaceRelated(new, name, Without(name, g.listTasks)) \in SUBSET ListTask
      /\ MapReplaceRelated(new, name, Without(name, g.finallyListTasks)) \in SUBSET ListTask
  BY <1>1, <1>2, MapReplaceType
<1> QED BY <1>1, <1>3, <1>4 DEF ConvertToLoadingTask, Grouping

LEMMA ConvertLoadingNodeType ==
  ASSUME NEW g \in Grouping, NEW l \in g.loadingTasks, NEW new \in TaskName
  PROVE  /\ ConvertLoadingNodeToTask(g, l, new) \in Grouping
         /\ ConvertLoadingNodeToFinallyTask(g, l, new) \in Grouping
<1>1. /\ g.tasks \in SUBSET Task /\ g.finallyTasks \in SUBSET Task
      /\ l \in LoadingTask
      /\ Without(l.name, g.loadingTasks) \in SUBSET LoadingTask
  BY WithoutType DEF Grouping
<1>2. /\ new \in Name
      /\ [name |-> new, runAfter |-> l.runAfter, res |-> l.res] \in Task
  BY <1>1 DEF Task, LoadingTask, Name
<1>3. /\ MapReplaceRelated(new, l.name, g.tasks) \in SUBSET Task
      /\ MapReplaceRelated(new, l.name, g.finallyTasks) \in SUBSET Task
      /\ MapReplaceRelated(new, l.name, Without(l.name, g.loadingTasks)) \in SUBSET LoadingTask
  BY <1>1, <1>2, MapReplaceType
<1> QED BY <1>2, <1>3 DEF ConvertLoadingNodeToTask, ConvertLoadingNodeToFinallyTask, Grouping

LEMMA FixInvalidType ==
  ASSUME NEW g \in Grouping, NEW name, NEW res \in Resource, NEW runAfter \in SUBSET Name,
         NEW new \in TaskName
  PROVE  /\ FixInvalidListTask(g, name, res, runAfter, new) \in Grouping
         /\ FixInvalidFinallyListTask(g, name, res, new) \in Grouping
<1>1. /\ Without(name, g.tasks) \in SUBSET Task
      /\ Without(name, g.finallyTasks) \in SUBSET Task
  BY WithoutType DEF Grouping
<1>2. /\ new \in Name
      /\ [name |-> new, runAfter |-> runAfter, res |-> res] \in Task
      /\ [name |-> new, runAfter |-> {}, res |-> res] \in Task
  BY DEF Task, Name
<1>3. /\ MapReplaceRelated(new, name, Without(name, g.tasks)) \in SUBSET Task
      /\ MapReplaceRelated(new, name, Without(name, g.finallyTasks)) \in SUBSET Task
  BY <1>1, <1>2, MapReplaceType
<1> QED BY <1>2, <1>3 DEF FixInvalidListTask, FixInvalidFinallyListTask, Grouping

LEMMA FoundType ==
  ASSUME NEW n, NEW S, S \in SUBSET Task \/ S \in SUBSET ListTask, NEW r \in Found(n, S)
  PROVE  r.runAfter \in SUBSET Name
  BY DEF Found, Task, ListTask

LEMMA DeleteListTaskType ==
  ASSUME NEW g \in Grouping, NEW n,
         NEW r \in Found(n, g.listTasks), NEW f \in Found(n, g.finallyListTasks)
  PROVE  DeleteListTask(g, n, r, f) \in Grouping
<1>1. /\ g.tasks \in SUBSET Task /\ g.finallyTasks \in SUBSET Task
      /\ g.listTasks \in SUBSET ListTask /\ g.finallyListTasks \in SUBSET ListTask
      /\ Without(n, g.listTasks) \in SUBSET ListTask
      /\ Without(n, g.finallyListTasks) \in SUBSET ListTask
  BY WithoutType DEF Grouping
<1>2. r.runAfter \in SUBSET Name /\ f.runAfter \in SUBSET Name
  BY <1>1, FoundType
<1>3. /\ MapStitchReplace(r, g.tasks) \in SUBSET Task
      /\ MapStitchReplace(r, Without(n, g.listTasks)) \in SUBSET ListTask
      /\ MapStitchReplace(f, g.finallyTasks) \in SUBSET Task
      /\ MapStitchReplace(f, Without(n, g.finallyListTasks)) \in SUBSET ListTask
  BY <1>1, <1>2, MapStitchType
<1> QED BY <1>3 DEF DeleteListTask, Grouping

LEMMA RemoveTaskType ==
  ASSUME NEW g \in Grouping, NEW n,
         NEW r \in Found(n, g.tasks), NEW f \in Found(n, g.finallyTasks)
  PROVE  RemoveTask(g, n, r, f) \in Grouping
<1>1. /\ g.tasks \in SUBSET Task /\ g.finallyTasks \in SUBSET Task
      /\ g.listTasks \in SUBSET ListTask
      /\ Without(n, g.tasks) \in SUBSET Task
      /\ Without(n, g.finallyTasks) \in SUBSET Task
  BY WithoutType DEF Grouping
<1>2. r.runAfter \in SUBSET Name /\ f.runAfter \in SUBSET Name
  BY <1>1, FoundType
<1>3. /\ MapStitchReplace(r, Without(n, g.tasks)) \in SUBSET Task
      /\ MapStitchReplace(r, g.listTasks) \in SUBSET ListTask
      /\ MapStitchReplace(f, Without(n, g.finallyTasks)) \in SUBSET Task
  BY <1>1, <1>2, MapStitchType
<1> QED BY <1>3 DEF RemoveTask, Grouping

LEMMA RenameTaskType ==
  ASSUME NEW g \in Grouping, NEW old, NEW new \in TaskName
  PROVE  RenameTask(g, old, new) \in Grouping
<1>1. ASSUME NEW S \in SUBSET Task PROVE RenameIn(old, new, S) \in SUBSET Task
  <2>1. Without(old, S) \in SUBSET Task /\ new \in Name
    BY WithoutType DEF Name
  <2>2. MapReplaceRelated(new, old, Without(old, S)) \in SUBSET Task
    BY <2>1, MapReplaceType
  <2>3. {[t EXCEPT !.name = new] : t \in {x \in S : x.name = old}} \in SUBSET Task
    BY DEF Task
  <2> QED BY <2>2, <2>3 DEF RenameIn
<1>2. ASSUME NEW S \in SUBSET ListTask PROVE MapReplaceRelated(new, old, S) \in SUBSET ListTask
  <2>1. new \in Name
    BY DEF Name
  <2> QED BY <2>1, MapReplaceType
<1> QED BY <1>1, <1>2 DEF RenameTask, Grouping

-----------------------------------------------------------------------------
(***************************************************************************)
(* The maps over lists of nodes: names stay, and stay distinct.            *)
(***************************************************************************)

Node == Task \cup ListTask \cup LoadingTask

LEMMA WithRunAfter ==
  ASSUME NEW t \in Node, NEW A
  PROVE  /\ [t EXCEPT !.runAfter = A].name = t.name
         /\ [t EXCEPT !.runAfter = A].runAfter = A
  BY DEF Node, Task, ListTask, LoadingTask

LEMMA ImageNodes ==
  ASSUME NEW S, NEW F, \A t \in S : F[t].name = t.name
  PROVE  /\ NamesOf({F[t] : t \in S}) = NamesOf(S)
         /\ Distinct(S) => Distinct({F[t] : t \in S})
<1>1. NamesOf({F[t] : t \in S}) = NamesOf(S)
  BY DEF NamesOf
<1>2. ASSUME Distinct(S) PROVE Distinct({F[t] : t \in S})
  BY <1>2 DEF Distinct
<1> QED BY <1>1, <1>2

LEMMA MapReplaceNodes ==
  ASSUME NEW new, NEW old, NEW S \in SUBSET Node
  PROVE  /\ \A q \in MapReplaceRelated(new, old, S) : \E t \in S :
              /\ q.name = t.name
              /\ q.runAfter = IF old \in t.runAfter THEN (t.runAfter \ {old}) \cup {new} ELSE t.runAfter
         /\ NamesOf(MapReplaceRelated(new, old, S)) = NamesOf(S)
         /\ Distinct(S) => Distinct(MapReplaceRelated(new, old, S))
<1> DEFINE After(t) == IF old \in t.runAfter THEN (t.runAfter \ {old}) \cup {new} ELSE t.runAfter
           F == [t \in S |-> [t EXCEPT !.runAfter = After(t)]]
<1>1. MapReplaceRelated(new, old, S) = {F[t] : t \in S}
  BY DEF MapReplaceRelated
<1> HIDE DEF After
<1>2. ASSUME NEW t \in S PROVE F[t].name = t.name /\ F[t].runAfter = After(t)
  <2>1. F[t] = [t EXCEPT !.runAfter = After(t)]
    OBVIOUS
  <2> HIDE DEF F
  <2> QED BY <2>1, WithRunAfter
<1> HIDE DEF F
<1>3. ASSUME NEW q \in MapReplaceRelated(new, old, S)
      PROVE  \E t \in S : q.name = t.name /\ q.runAfter = After(t)
  <2>1. PICK t \in S : q = F[t]
    BY <1>1
  <2> QED BY <1>2, <2>1
<1>4. /\ NamesOf({F[t] : t \in S}) = NamesOf(S)
      /\ Distinct(S) => Distinct({F[t] : t \in S})
  BY <1>2, ImageNodes
<1> QED BY <1>1, <1>3, <1>4, Zenon DEF After

LEMMA MapStitchNodes ==
  ASSUME NEW x, NEW S \in SUBSET Node
  PROVE  /\ \A q \in MapStitchReplace(x, S) : \E t \in S :
              /\ q.name = t.name
              /\ q.runAfter = IF x.name \in t.runAfter
                                THEN (t.runAfter \ {x.name}) \cup x.runAfter
                                ELSE t.runAfter
         /\ NamesOf(MapStitchReplace(x, S)) = NamesOf(S)
         /\ Distinct(S) => Distinct(MapStitchReplace(x, S))
<1> DEFINE After(t) == IF x.name \in t.runAfter
                                THEN (t.runAfter \ {x.name}) \cup x.runAfter
                                ELSE t.runAfter
           F == [t \in S |-> [t EXCEPT !.runAfter = After(t)]]
<1>1. MapStitchReplace(x, S) = {F[t] : t \in S}
  BY DEF MapStitchReplace
<1> HIDE DEF After
<1>2. ASSUME NEW t \in S PROVE F[t].name = t.name /\ F[t].runAfter = After(t)
  <2>1. F[t] = [t EXCEPT !.runAfter = After(t)]
    OBVIOUS
  <2> HIDE DEF F
  <2> QED BY <2>1, WithRunAfter
<1> HIDE DEF F
<1>3. ASSUME NEW q \in MapStitchReplace(x, S)
      PROVE  \E t \in S : q.name = t.name /\ q.runAfter = After(t)
  <2>1. PICK t \in S : q = F[t]
    BY <1>1
  <2> QED BY <1>2, <2>1
<1>4. /\ NamesOf({F[t] : t \in S}) = NamesOf(S)
      /\ Distinct(S) => Distinct({F[t] : t \in S})
  BY <1>2, ImageNodes
<1> QED BY <1>1, <1>3, <1>4, Zenon DEF After

LEMMA MapBeNodes ==
  ASSUME NEW new, NEW related, NEW S \in SUBSET Node
  PROVE  /\ \A q \in MapBeRelated(new, related, S) : \E t \in S :
              /\ q.name = t.name
              /\ t.name = related => q.runAfter = {new}
              /\ t.name # related => q.runAfter = t.runAfter
         /\ NamesOf(MapBeRelated(new, related, S)) = NamesOf(S)
         /\ Distinct(S) => Distinct(MapBeRelated(new, related, S))
<1> DEFINE After(t) == IF t.name = related THEN {new} ELSE t.runAfter
           F == [t \in S |-> [t EXCEPT !.runAfter = After(t)]]
<1>1. MapBeRelated(new, related, S) = {F[t] : t \in S}
  BY DEF MapBeRelated
<1> HIDE DEF After
<1>2. ASSUME NEW t \in S PROVE F[t].name = t.name /\ F[t].runAfter = After(t)
  <2>1. F[t] = [t EXCEPT !.runAfter = After(t)]
    OBVIOUS
  <2> HIDE DEF F
  <2> QED BY <2>1, WithRunAfter
<1> HIDE DEF F
<1>3. ASSUME NEW q \in MapBeRelated(new, related, S)
      PROVE  \E t \in S : q.name = t.name /\ q.runAfter = After(t)
  <2>1. PICK t \in S : q = F[t]
    BY <1>1
  <2> QED BY <1>2, <2>1
<1>4. /\ NamesOf({F[t] : t \in S}) = NamesOf(S)
      /\ Distinct(S) => Distinct({F[t] : t \in S})
  BY <1>2, ImageNodes
<1> QED BY <1>1, <1>3, <1>4, Zenon DEF After

LEMMA MapAddNodes ==
  ASSUME NEW new, NEW related, NEW S \in SUBSET Node
  PROVE  /\ \A q \in MapAddRelated(new, related, S) : \E t \in S :
              /\ q.name = t.name
              /\ q.runAfter = IF related \in t.runAfter THEN t.runAfter \cup {new} ELSE t.runAfter
         /\ NamesOf(MapAddRelated(new, related, S)) = NamesOf(S)
         /\ Distinct(S) => Distinct(MapAddRelated(new, related, S))
<1> DEFINE After(t) == IF related \in t.runAfter THEN t.runAfter \cup {new} ELSE t.runAfter
           F == [t \in S |-> [t EXCEPT !.runAfter = After(t)]]
<1>1. MapAddRelated(new, related, S) = {F[t] : t \in S}
  BY DEF MapAddRelated
<1> HIDE DEF After
<1>2. ASSUME NEW t \in S PROVE F[t].name = t.name /\ F[t].runAfter = After(t)
  <2>1. F[t] = [t EXCEPT !.runAfter = After(t)]
    OBVIOUS
  <2> HIDE DEF F
  <2> QED BY <2>1, WithRunAfter
<1> HIDE DEF F
<1>3. ASSUME NEW q \in MapAddRelated(new, related, S)
      PROVE  \E t \in S : q.name = t.name /\ q.runAfter = After(t)
  <2>1. PICK t \in S : q = F[t]
    BY <1>1
  <2> QED BY <1>2, <2>1
<1>4. /\ NamesOf({F[t] : t \in S}) = NamesOf(S)
      /\ Distinct(S) => Distinct({F[t] : t \in S})
  BY <1>2, ImageNodes
<1> QED BY <1>1, <1>3, <1>4, Zenon DEF After

LEMMA MapReplaceUnion ==
  ASSUME NEW new, NEW old, NEW A, NEW B
  PROVE  MapReplaceRelated(new, old, A \cup B) = MapReplaceRelated(new, old, A) \cup MapReplaceRelated(new, old, B)
  BY DEF MapReplaceRelated

LEMMA MapStitchUnion ==
  ASSUME NEW x, NEW A, NEW B
  PROVE  MapStitchReplace(x, A \cup B) = MapStitchReplace(x, A) \cup MapStitchReplace(x, B)
  BY DEF MapStitchReplace

LEMMA MapBeUnion ==
  ASSUME NEW new, NEW related, NEW A, NEW B
  PROVE  MapBeRelated(new, related, A \cup B) = MapBeRelated(new, related, A) \cup MapBeRelated(new, related, B)
  BY DEF MapBeRelated

LEMMA MapAddUnion ==
  ASSUME NEW new, NEW related, NEW A, NEW B
  PROVE  MapAddRelated(new, related, A \cup B) = MapAddRelated(new, related, A) \cup MapAddRelated(new, related, B)
  BY DEF MapAddRelated

LEMMA NamesOfUnion ==
  ASSUME NEW A, NEW B
  PROVE  NamesOf(A \cup B) = NamesOf(A) \cup NamesOf(B)
  BY DEF NamesOf

LEMMA DistinctAdd ==
  ASSUME NEW S, NEW x, Distinct(S), x.name \notin NamesOf(S)
  PROVE  /\ Distinct(S \cup {x})
         /\ NamesOf(S \cup {x}) = NamesOf(S) \cup {x.name}
  BY DEF Distinct, NamesOf

LEMMA WithoutNames ==
  ASSUME NEW S, NEW n
  PROVE  /\ NamesOf(Without(n, S)) = NamesOf(S) \ {n}
         /\ Distinct(S) => Distinct(Without(n, S))
         /\ n \notin NamesOf(S) => Without(n, S) = S
  BY DEF Without, NamesOf, Distinct

-----------------------------------------------------------------------------
(***************************************************************************)
(* The operations keep the graph of a form without loading nodes sound.    *)
(***************************************************************************)

LEMMA Lists ==
  ASSUME NEW g \in Grouping
  PROVE  /\ g.tasks \in SUBSET Node /\ g.listTasks \in SUBSET Node
         /\ g.tasks \cup g.listTasks \in SUBSET Node
         /\ g.finallyTasks \in SUBSET Node /\ g.finallyListTasks \in SUBSET Node
         /\ NamesOf(g.tasks) \subseteq TaskName /\ NamesOf(g.finallyTasks) \subseteq TaskName
         /\ NamesOf(g.listTasks) \subseteq ListName
         /\ NamesOf(g.finallyListTasks) \subseteq ListName
  BY DEF Grouping, Node, Task, ListTask, NamesOf

LEMMA RegularLists ==
  ASSUME NEW g, g.loadingTasks = {}
  PROVE  /\ Regular(g) = g.tasks \cup g.listTasks
         /\ RegularNames(g) = NamesOf(g.tasks) \cup NamesOf(g.listTasks)
  BY NamesOfUnion DEF Regular, RegularNames

\* h is sound, and the nodes it shares with g run in the same order.
StaysSound(g, h) == GraphOK(h) /\ KeepsOrder(Regular(g), Regular(h))

LEMMA AddListNodeKeeps ==
  ASSUME NEW g \in Grouping, g.loadingTasks = {}, GraphOK(g), NEW t \in g.tasks, NEW n,
         n \notin RegularNames(g) \cup NamesOf(g.finallyTasks) \cup NamesOf(g.finallyListTasks)
  PROVE  /\ StaysSound(g, AddListNodeBefore(g, t, n))
         /\ StaysSound(g, AddListNodeAfter(g, t, n))
         /\ StaysSound(g, AddListNodeParallel(g, t, n))
<1> DEFINE R == g.tasks \cup g.listTasks
<1>1. /\ R \in SUBSET Node /\ Regular(g) = R /\ RegularNames(g) = NamesOf(R)
      /\ t \in R /\ n \notin NamesOf(R)
      /\ Distinct(R) /\ Closed(R) /\ Acyclic(R)
  BY Lists, RegularLists DEF GraphOK, NamesUnique, RegularNames
<1> HIDE DEF R
<1>2. ASSUME NEW h, NEW M, NEW x,
             h.loadingTasks = {}, h.tasks \cup h.listTasks = M \cup {x},
             h.finallyTasks = g.finallyTasks, h.finallyListTasks = g.finallyListTasks,
             Distinct(M), NamesOf(M) = NamesOf(R), x.name = n,
             Closed(M \cup {x}), Acyclic(M \cup {x}), KeepsOrder(R, M \cup {x})
      PROVE  StaysSound(g, h)
  <2>1. Regular(h) = M \cup {x} /\ RegularNames(h) = NamesOf(M \cup {x})
    BY <1>2, RegularLists DEF RegularNames
  <2>2. Distinct(M \cup {x}) /\ NamesOf(M \cup {x}) = NamesOf(R) \cup {n}
    <3>1. x.name \notin NamesOf(M)
      BY <1>1, <1>2
    <3>2. Distinct(M \cup {x}) /\ NamesOf(M \cup {x}) = NamesOf(M) \cup {x.name}
      BY <1>2, <3>1, DistinctAdd
    <3> QED BY <1>2, <3>2
  <2>3. NamesUnique(h)
    BY <1>1, <1>2, <2>1, <2>2 DEF GraphOK, NamesUnique
  <2> QED BY <1>1, <1>2, <2>1, <2>3 DEF GraphOK, StaysSound
<1>3. StaysSound(g, AddListNodeBefore(g, t, n))
  <2> DEFINE h == AddListNodeBefore(g, t, n)
             M == MapBeRelated(n, t.name, R)
             x == [name |-> n, runAfter |-> t.runAfter]
  <2>1. /\ h.loadingTasks = {} /\ h.finallyTasks = g.finallyTasks
        /\ h.finallyListTasks = g.finallyListTasks
        /\ h.tasks = MapBeRelated(n, t.name, g.tasks)
        /\ h.listTasks = MapBeRelated(n, t.name, g.listTasks) \cup {x}
    BY DEF AddListNodeBefore, Grouping
  <2>2. h.tasks \cup h.listTasks = M \cup {x}
    <3>1. M = MapBeRelated(n, t.name, g.tasks) \cup MapBeRelated(n, t.name, g.listTasks)
      BY MapBeUnion DEF R
    <3> HIDE DEF h, M, x
    <3> QED BY <2>1, <3>1
  <2>3. /\ \A q \in M : \E s \in R :
              /\ q.name = s.name
              /\ s.name = t.name => q.runAfter = {n}
              /\ s.name # t.name => q.runAfter = s.runAfter
        /\ NamesOf(M) = NamesOf(R) /\ Distinct(M)
    BY <1>1, MapBeNodes
  <2>4. x.name = n /\ x.runAfter = t.runAfter
    OBVIOUS
  <2> HIDE DEF h, M, x
  <2>5. NamesOf(M \cup {x}) = NamesOf(R) \cup {n}
    <3>1. x.name \notin NamesOf(M)
      BY <1>1, <2>3, <2>4
    <3>2. NamesOf(M \cup {x}) = NamesOf(M) \cup {x.name}
      BY <2>3, <3>1, DistinctAdd
    <3> QED BY <2>3, <2>4, <3>2
  <2>6. Closed(M \cup {x}) /\ Acyclic(M \cup {x}) /\ KeepsOrder(R, M \cup {x})
    <3>1. InsertsBefore(R, M \cup {x}, t, n)
      BY <1>1, <2>3, <2>4, <2>5 DEF InsertsBefore
    <3> QED BY <1>1, <3>1, InsertBeforeKeeps, InsertBeforeOrder
  <2>7. StaysSound(g, h)
    BY <1>2, <2>1, <2>2, <2>3, <2>4, <2>6
  <2> QED BY <2>7 DEF h
<1>4. StaysSound(g, AddListNodeAfter(g, t, n))
  <2> DEFINE h == AddListNodeAfter(g, t, n)
             M == MapReplaceRelated(n, t.name, R)
             x == [name |-> n, runAfter |-> {t.name}]
  <2>1. /\ h.loadingTasks = {} /\ h.finallyTasks = g.finallyTasks
        /\ h.finallyListTasks = g.finallyListTasks
        /\ h.tasks = MapReplaceRelated(n, t.name, g.tasks)
        /\ h.listTasks = MapReplaceRelated(n, t.name, g.listTasks) \cup {x}
    BY DEF AddListNodeAfter, Grouping
  <2>2. h.tasks \cup h.listTasks = M \cup {x}
    <3>1. M = MapReplaceRelated(n, t.name, g.tasks) \cup MapReplaceRelated(n, t.name, g.listTasks)
      BY MapReplaceUnion DEF R
    <3> HIDE DEF h, M, x
    <3> QED BY <2>1, <3>1
  <2>3. /\ \A q \in M : \E s \in R :
              /\ q.name = s.name
              /\ q.runAfter = IF t.name \in s.runAfter
                                THEN (s.runAfter \ {t.name}) \cup {n}
                                ELSE s.runAfter
        /\ NamesOf(M) = NamesOf(R) /\ Distinct(M)
    BY <1>1, MapReplaceNodes
  <2>4. x.name = n /\ x.runAfter = {t.name}
    OBVIOUS
  <2> HIDE DEF h, M, x
  <2>5. NamesOf(M \cup {x}) = NamesOf(R) \cup {n}
    <3>1. x.name \notin NamesOf(M)
      BY <1>1, <2>3, <2>4
    <3>2. NamesOf(M \cup {x}) = NamesOf(M) \cup {x.name}
      BY <2>3, <3>1, DistinctAdd
    <3> QED BY <2>3, <2>4, <3>2
  <2>6. Closed(M \cup {x}) /\ Acyclic(M \cup {x}) /\ KeepsOrder(R, M \cup {x})
    <3>1. InsertsAfter(R, M \cup {x}, t, n)
      BY <1>1, <2>3, <2>4, <2>5 DEF InsertsAfter
    <3> QED BY <1>1, <3>1, InsertAfterKeeps, InsertAfterOrder
  <2>7. StaysSound(g, h)
    BY <1>2, <2>1, <2>2, <2>3, <2>4, <2>6
  <2> QED BY <2>7 DEF h
<1>5. StaysSound(g, AddListNodeParallel(g, t, n))
  <2> DEFINE h == AddListNodeParallel(g, t, n)
             M == MapAddRelated(n, t.name, R)
             x == [name |-> n, runAfter |-> t.runAfter]
  <2>1. /\ h.loadingTasks = {} /\ h.finallyTasks = g.finallyTasks
        /\ h.finallyListTasks = g.finallyListTasks
        /\ h.tasks = MapAddRelated(n, t.name, g.tasks)
        /\ h.listTasks = MapAddRelated(n, t.name, g.listTasks) \cup {x}
    BY DEF AddListNodeParallel, Grouping
  <2>2. h.tasks \cup h.listTasks = M \cup {x}
    <3>1. M = MapAddRelated(n, t.name, g.tasks) \cup MapAddRelated(n, t.name, g.listTasks)
      BY MapAddUnion DEF R
    <3> HIDE DEF h, M, x
    <3> QED BY <2>1, <3>1
  <2>3. /\ \A q \in M : \E s \in R :
              /\ q.name = s.name
              /\ q.runAfter = IF t.name \in s.runAfter THEN s.runAfter \cup {n} ELSE s.runAfter
        /\ NamesOf(M) = NamesOf(R) /\ Distinct(M)
    BY <1>1, MapAddNodes
  <2>4. x.name = n /\ x.runAfter = t.runAfter
    OBVIOUS
  <2> HIDE DEF h, M, x
  <2>5. NamesOf(M \cup {x}) = NamesOf(R) \cup {n}
    <3>1. x.name \notin NamesOf(M)
      BY <1>1, <2>3, <2>4
    <3>2. NamesOf(M \cup {x}) = NamesOf(M) \cup {x.name}
      BY <2>3, <3>1, DistinctAdd
    <3> QED BY <2>3, <2>4, <3>2
  <2>6. Closed(M \cup {x}) /\ Acyclic(M \cup {x}) /\ KeepsOrder(R, M \cup {x})
    <3>1. InsertsParallel(R, M \cup {x}, t, n)
      BY <1>1, <2>3, <2>4, <2>5 DEF InsertsParallel
    <3> QED BY <1>1, <3>1, InsertParallelKeeps, InsertParallelOrder
  <2>7. StaysSound(g, h)
    BY <1>2, <2>1, <2>2, <2>3, <2>4, <2>6
  <2> QED BY <2>7 DEF h
<1> QED BY <1>3, <1>4, <1>5

LEMMA NoSelfRunAfter ==
  ASSUME NEW R, Acyclic(R), NEW t \in R
  PROVE  t.name \notin t.runAfter
<1>1. {t.name} \in SUBSET NamesOf(R) /\ {t.name} # {}
  BY NamesOfMember
<1>2. PICK n \in {t.name} : \A s \in R : s.name = n => s.runAfter \cap {t.name} = {}
  BY <1>1 DEF Acyclic
<1> QED BY <1>2

LEMMA WithoutUnion ==
  ASSUME NEW n, NEW A, NEW B
  PROVE  Without(n, A \cup B) = Without(n, A) \cup Without(n, B)
  BY DEF Without

LEMMA DistinctSplit ==
  ASSUME NEW A, NEW B
  PROVE  /\ Distinct(A \cup B) => Distinct(A) /\ Distinct(B)
         /\ Distinct(A) /\ Distinct(B) /\ NamesOf(A) \cap NamesOf(B) = {} => Distinct(A \cup B)
<1>1. ASSUME Distinct(A \cup B) PROVE Distinct(A) /\ Distinct(B)
  BY <1>1 DEF Distinct
<1>2. ASSUME Distinct(A), Distinct(B), NamesOf(A) \cap NamesOf(B) = {}
      PROVE  Distinct(A \cup B)
  BY <1>2, NamesOfMember DEF Distinct
<1> QED BY <1>1, <1>2

\* What is to be shown of a form without loading nodes.
LEMMA GraphFrom ==
  ASSUME NEW h, NEW Q, h.loadingTasks = {}, h.tasks \cup h.listTasks = Q,
         Distinct(Q), Closed(Q), Acyclic(Q),
         Distinct(h.finallyTasks), Distinct(h.finallyListTasks),
         NamesOf(Q) \cap (NamesOf(h.finallyTasks) \cup NamesOf(h.finallyListTasks)) = {}
  PROVE  GraphOK(h) /\ Regular(h) = Q
<1>1. Regular(h) = Q /\ RegularNames(h) = NamesOf(Q)
  BY RegularLists DEF RegularNames
<1> QED BY <1>1 DEF GraphOK, NamesUnique

\* What is known of one.
LEMMA GraphOf ==
  ASSUME NEW g \in Grouping, g.loadingTasks = {}, GraphOK(g), NEW R, R = g.tasks \cup g.listTasks
  PROVE  /\ R \in SUBSET Node /\ Regular(g) = R /\ RegularNames(g) = NamesOf(R)
         /\ NamesOf(R) = NamesOf(g.tasks) \cup NamesOf(g.listTasks)
         /\ NamesOf(R) \subseteq Name
         /\ Distinct(R) /\ Closed(R) /\ Acyclic(R)
         /\ Distinct(g.finallyTasks) /\ Distinct(g.finallyListTasks)
         /\ NamesOf(R) \cap (NamesOf(g.finallyTasks) \cup NamesOf(g.finallyListTasks)) = {}
<1>1. Regular(g) = R /\ RegularNames(g) = NamesOf(R)
  BY RegularLists DEF RegularNames
<1>2. R \in SUBSET Node
  BY Lists
<1>3. NamesOf(R) = NamesOf(g.tasks) \cup NamesOf(g.listTasks)
  BY NamesOfUnion
<1>4. NamesOf(R) \subseteq Name
  BY <1>3, Lists DEF Name
<1> QED BY <1>1, <1>2, <1>3, <1>4 DEF GraphOK, NamesUnique

LEMMA AddFinallyListTaskKeeps ==
  ASSUME NEW g \in Grouping, g.loadingTasks = {}, GraphOK(g), NEW n,
         n \notin RegularNames(g) \cup NamesOf(g.finallyTasks) \cup NamesOf(g.finallyListTasks)
  PROVE  StaysSound(g, AddFinallyListTask(g, n))
<1> DEFINE h == AddFinallyListTask(g, n)
           R == g.tasks \cup g.listTasks
           x == [name |-> n, runAfter |-> {}]
<1>1. /\ h.loadingTasks = {} /\ h.finallyTasks = g.finallyTasks
      /\ h.finallyListTasks = g.finallyListTasks \cup {x}
      /\ h.tasks \cup h.listTasks = R
  BY DEF AddFinallyListTask, Grouping
<1>2. x.name = n
  OBVIOUS
<1> HIDE DEF h, x
<1>3. /\ Regular(g) = R /\ RegularNames(g) = NamesOf(R)
      /\ Distinct(R) /\ Closed(R) /\ Acyclic(R)
      /\ Distinct(g.finallyTasks) /\ Distinct(g.finallyListTasks)
      /\ NamesOf(R) \cap (NamesOf(g.finallyTasks) \cup NamesOf(g.finallyListTasks)) = {}
  BY GraphOf
<1> HIDE DEF R
<1>4. /\ Distinct(g.finallyListTasks \cup {x})
      /\ NamesOf(g.finallyListTasks \cup {x}) = NamesOf(g.finallyListTasks) \cup {n}
  BY <1>2, <1>3, DistinctAdd
<1>5. StaysSound(g, h)
  <2>1. NamesOf(R) \cap (NamesOf(h.finallyTasks) \cup NamesOf(h.finallyListTasks)) = {}
    BY <1>1, <1>3, <1>4
  <2> QED BY <1>1, <1>3, <1>4, <2>1, GraphFrom, SameOrder DEF StaysSound
<1> QED BY <1>5 DEF h

\* A new node takes the place of one.
LEMMA TakePlaceKeeps ==
  ASSUME NEW R \in SUBSET Node, Distinct(R), Closed(R), Acyclic(R), NEW l \in R, NEW old, old = l.name,
         NEW new, new \notin NamesOf(R) \ {old},
         NEW x, x.name = new, x.runAfter = l.runAfter,
         NEW Q, Q = MapReplaceRelated(new, old, Without(old, R)) \cup {x}
  PROVE  /\ Distinct(Q) /\ Closed(Q) /\ Acyclic(Q) /\ KeepsOrder(R, Q)
         /\ NamesOf(Q) = (NamesOf(R) \ {old}) \cup {new}
<1> DEFINE W == Without(old, R)
           M == MapReplaceRelated(new, old, W)
<1>1. W \in SUBSET Node /\ W \in SUBSET R /\ \A t \in R : t.name # old => t \in W
  BY DEF Without
<1>2. NamesOf(W) = NamesOf(R) \ {old} /\ Distinct(W)
  BY WithoutNames
<1> HIDE DEF W
<1>3. /\ \A q \in M : \E t \in W :
           /\ q.name = t.name
           /\ q.runAfter = IF old \in t.runAfter
                             THEN (t.runAfter \ {old}) \cup {new}
                             ELSE t.runAfter
      /\ NamesOf(M) = NamesOf(W) /\ Distinct(M)
  BY <1>1, <1>2, MapReplaceNodes
<1>4. Q = M \cup {x}
  BY DEF W
<1> HIDE DEF M
<1>5. Distinct(Q) /\ NamesOf(Q) = (NamesOf(R) \ {old}) \cup {new}
  <2>1. x.name \notin NamesOf(M)
    BY <1>2, <1>3
  <2>2. Distinct(M \cup {x}) /\ NamesOf(M \cup {x}) = NamesOf(M) \cup {x.name}
    BY <1>3, <2>1, DistinctAdd
  <2> QED BY <1>2, <1>3, <1>4, <2>2
<1>6. ASSUME NEW q \in Q
      PROVE  \E t \in R :
               /\ q.name = IF t.name = old THEN new ELSE t.name
               /\ q.runAfter = IF old \in t.runAfter
                                 THEN (t.runAfter \ {old}) \cup {new}
                                 ELSE t.runAfter
  <2>1. CASE q = x
    <3>1. old \notin l.runAfter
      BY NoSelfRunAfter
    <3> QED BY <2>1, <3>1
  <2>2. CASE q \in M
    <3>1. PICK t \in W :
            /\ q.name = t.name
            /\ q.runAfter = IF old \in t.runAfter
                              THEN (t.runAfter \ {old}) \cup {new}
                              ELSE t.runAfter
      BY <1>3, <2>2
    <3>2. t \in R /\ t.name # old
      BY <1>1, <1>2, NamesOfMember
    <3> QED BY <3>1, <3>2
  <2> QED BY <1>4, <2>1, <2>2
<1>7. ASSUME NEW t \in R
      PROVE  \E q \in Q : q.name = IF t.name = old THEN new ELSE t.name
  <2>1. (IF t.name = old THEN new ELSE t.name) \in NamesOf(Q)
    BY <1>5, NamesOfMember
  <2> QED BY <2>1, NamesOfPick
<1>8. Closed(Q) /\ Acyclic(Q) /\ KeepsOrder(R, Q)
  <2>1. Relabels(R, Q, old, new)
    BY <1>6, <1>7 DEF Relabels
  <2> QED BY <2>1, RelabelKeeps, RelabelOrder
<1> QED BY <1>5, <1>8

\* ConvertListToTask in place of a list node of the graph, or of the initial node of an
\* empty one.
LEMMA ConvertListToTaskKeeps ==
  ASSUME NEW g \in Grouping, g.loadingTasks = {}, GraphOK(g), NEW name, NEW res,
         NEW runAfter, NEW new \in TaskName, new \notin UsedNames(g),
         \/ \E l \in g.listTasks : l.name = name /\ l.runAfter = runAfter
         \/ g.tasks = {} /\ g.listTasks = {} /\ runAfter = {}
  PROVE  StaysSound(g, ConvertListToTask(g, name, res, runAfter, new))
<1> DEFINE h == ConvertListToTask(g, name, res, runAfter, new)
           R == g.tasks \cup g.listTasks
           x == [name |-> new, runAfter |-> runAfter, res |-> res]
           Q == MapReplaceRelated(new, name, Without(name, R)) \cup {x}
<1>1. /\ h.loadingTasks = {} /\ h.finallyTasks = g.finallyTasks
      /\ h.finallyListTasks = g.finallyListTasks
      /\ h.tasks = MapReplaceRelated(new, name, g.tasks) \cup {x}
      /\ h.listTasks = MapReplaceRelated(new, name, Without(name, g.listTasks))
  BY DEF ConvertListToTask, Grouping
<1>2. x.name = new /\ x.runAfter = runAfter
  OBVIOUS
<1> HIDE DEF h, x
<1>3. new \notin NamesOf(g.listTasks) \cup NamesOf(g.finallyListTasks)
  BY Lists, NamesAssumption
<1>4. new \notin NamesOf(R) \cup NamesOf(g.finallyTasks) \cup NamesOf(g.finallyListTasks)
  BY <1>3, NamesOfUnion DEF UsedNames
<1>5. /\ R \in SUBSET Node /\ Regular(g) = R /\ Distinct(R) /\ Closed(R) /\ Acyclic(R)
      /\ Distinct(g.finallyTasks) /\ Distinct(g.finallyListTasks)
      /\ NamesOf(R) \cap (NamesOf(g.finallyTasks) \cup NamesOf(g.finallyListTasks)) = {}
  BY GraphOf
<1>6. h.tasks \cup h.listTasks = Q
  <2>1. Without(name, g.tasks) = g.tasks
    <3>1. CASE \E l \in g.listTasks : l.name = name
      <4>1. name \in ListName
        BY <3>1 DEF Grouping, ListTask
      <4> QED BY <4>1, Lists, NamesAssumption, WithoutNames
    <3>2. CASE g.tasks = {}
      BY <3>2 DEF Without
    <3> QED BY <3>1, <3>2
  <2>2. Without(name, R) = g.tasks \cup Without(name, g.listTasks)
    BY <2>1, WithoutUnion
  <2>3. MapReplaceRelated(new, name, Without(name, R))
          = MapReplaceRelated(new, name, g.tasks)
              \cup MapReplaceRelated(new, name, Without(name, g.listTasks))
    <3> HIDE DEF R
    <3>1. MapReplaceRelated(new, name, g.tasks \cup Without(name, g.listTasks))
            = MapReplaceRelated(new, name, g.tasks)
                \cup MapReplaceRelated(new, name, Without(name, g.listTasks))
      BY MapReplaceUnion
    <3> QED BY <2>2, <3>1
  <2> HIDE DEF R
  <2> QED BY <1>1, <2>3
<1> HIDE DEF R, Q
<1>7. /\ Distinct(Q) /\ Closed(Q) /\ Acyclic(Q) /\ KeepsOrder(R, Q)
      /\ NamesOf(Q) \subseteq NamesOf(R) \cup {new}
  <2>1. CASE \E l \in g.listTasks : l.name = name /\ l.runAfter = runAfter
    <3>1. PICK l \in R : l.name = name /\ l.runAfter = runAfter
      BY <2>1 DEF R
    <3>2. Q = MapReplaceRelated(new, name, Without(name, R)) \cup {x}
      BY DEF Q
    <3> QED BY <1>2, <1>4, <1>5, <3>1, <3>2, TakePlaceKeeps
  <2>2. CASE g.tasks = {} /\ g.listTasks = {} /\ runAfter = {}
    <3>1. Q = {x}
      BY <2>2 DEF Q, R, Without, MapReplaceRelated
    <3> QED BY <1>2, <2>2, <3>1 DEF Distinct, Closed, Acyclic, KeepsOrder, NamesOf, R
  <2> QED BY <2>1, <2>2
<1>8. StaysSound(g, h)
  <2>1. NamesOf(Q) \cap (NamesOf(h.finallyTasks) \cup NamesOf(h.finallyListTasks)) = {}
    BY <1>1, <1>4, <1>5, <1>7
  <2> QED BY <1>1, <1>5, <1>6, <1>7, <2>1, GraphFrom DEF StaysSound
<1> QED BY <1>8 DEF h

\* A finally list node, or an invalid finally task, becomes a task.
LEMMA ConvertFinallyKeeps ==
  ASSUME NEW g \in Grouping, g.loadingTasks = {}, GraphOK(g), NEW name, NEW res,
         NEW new \in TaskName, new \notin UsedNames(g)
  PROVE  /\ StaysSound(g, ConvertFinallyListToTask(g, name, res, new))
         /\ StaysSound(g, FixInvalidFinallyListTask(g, name, res, new))
<1> DEFINE R == g.tasks \cup g.listTasks
           x == [name |-> new, runAfter |-> {}, res |-> res]
<1>1. x.name = new
  OBVIOUS
<1> HIDE DEF x
<1>2. new \notin NamesOf(g.listTasks) \cup NamesOf(g.finallyListTasks)
  BY Lists, NamesAssumption
<1>3. new \notin NamesOf(R) \cup NamesOf(g.finallyTasks) \cup NamesOf(g.finallyListTasks)
  BY <1>2, NamesOfUnion DEF UsedNames
<1>4. /\ Regular(g) = R /\ Distinct(R) /\ Closed(R) /\ Acyclic(R)
      /\ Distinct(g.finallyTasks) /\ Distinct(g.finallyListTasks)
      /\ NamesOf(R) \cap (NamesOf(g.finallyTasks) \cup NamesOf(g.finallyListTasks)) = {}
  BY GraphOf
<1>5. g.finallyTasks \in SUBSET Node /\ g.finallyListTasks \in SUBSET Node
  BY Lists
<1>6. ASSUME NEW S \in SUBSET Node, Distinct(S)
      PROVE  LET M == MapReplaceRelated(new, name, Without(name, S))
             IN  Distinct(M) /\ NamesOf(M) \subseteq NamesOf(S)
  <2>1. Without(name, S) \in SUBSET Node
    BY DEF Without
  <2> QED BY <1>6, <2>1, WithoutNames, MapReplaceNodes
<1>7. StaysSound(g, ConvertFinallyListToTask(g, name, res, new))
  <2> DEFINE h == ConvertFinallyListToTask(g, name, res, new)
             M == MapReplaceRelated(new, name, g.finallyTasks)
  <2>1. /\ h.loadingTasks = {} /\ h.tasks \cup h.listTasks = R
        /\ h.finallyTasks = M \cup {x}
        /\ h.finallyListTasks = MapReplaceRelated(new, name, Without(name, g.finallyListTasks))
    BY DEF ConvertFinallyListToTask, Grouping, x
  <2> HIDE DEF h
  <2>2. Distinct(M) /\ NamesOf(M) = NamesOf(g.finallyTasks)
    BY <1>4, <1>5, MapReplaceNodes
  <2> HIDE DEF M, R
  <2>3. /\ Distinct(h.finallyTasks)
        /\ NamesOf(h.finallyTasks) = NamesOf(g.finallyTasks) \cup {new}
    <3>1. x.name \notin NamesOf(M)
      BY <1>1, <1>3, <2>2
    <3>2. Distinct(M \cup {x}) /\ NamesOf(M \cup {x}) = NamesOf(M) \cup {x.name}
      BY <2>2, <3>1, DistinctAdd
    <3> QED BY <1>1, <2>1, <2>2, <3>2
  <2>4. /\ Distinct(h.finallyListTasks)
        /\ NamesOf(h.finallyListTasks) \subseteq NamesOf(g.finallyListTasks)
    BY <1>4, <1>5, <1>6, <2>1
  <2>5. NamesOf(R) \cap (NamesOf(h.finallyTasks) \cup NamesOf(h.finallyListTasks)) = {}
    BY <1>3, <1>4, <2>3, <2>4
  <2>6. StaysSound(g, h)
    BY <1>4, <2>1, <2>3, <2>4, <2>5, GraphFrom, SameOrder DEF StaysSound
  <2> QED BY <2>6 DEF h
<1>8. StaysSound(g, FixInvalidFinallyListTask(g, name, res, new))
  <2> DEFINE h == FixInvalidFinallyListTask(g, name, res, new)
             M == MapReplaceRelated(new, name, Without(name, g.finallyTasks))
  <2>1. /\ h.loadingTasks = {} /\ h.tasks \cup h.listTasks = R
        /\ h.finallyTasks = M \cup {x}
        /\ h.finallyListTasks = g.finallyListTasks
    BY DEF FixInvalidFinallyListTask, Grouping, x
  <2> HIDE DEF h
  <2>2. Distinct(M) /\ NamesOf(M) \subseteq NamesOf(g.finallyTasks)
    BY <1>4, <1>5, <1>6
  <2> HIDE DEF M, R
  <2>3. /\ Distinct(h.finallyTasks)
        /\ NamesOf(h.finallyTasks) \subseteq NamesOf(g.finallyTasks) \cup {new}
    <3>1. x.name \notin NamesOf(M)
      BY <1>1, <1>3, <2>2
    <3>2. Distinct(M \cup {x}) /\ NamesOf(M \cup {x}) = NamesOf(M) \cup {x.name}
      BY <2>2, <3>1, DistinctAdd
    <3> QED BY <1>1, <2>1, <2>2, <3>2
  <2>4. NamesOf(R) \cap (NamesOf(h.finallyTasks) \cup NamesOf(h.finallyListTasks)) = {}
    BY <1>3, <1>4, <2>1, <2>3
  <2>5. StaysSound(g, h)
    BY <1>4, <2>1, <2>3, <2>4, GraphFrom, SameOrder DEF StaysSound
  <2> QED BY <2>5 DEF h
<1> QED BY <1>7, <1>8

\* The node found for n, or one that bears no name of the graph, is stitched away.
LEMMA StitchAway ==
  ASSUME NEW R \in SUBSET Node, Distinct(R), Closed(R), Acyclic(R), NEW n, NEW r,
         \/ r \in R /\ r.name = n
         \/ r.name \notin NamesOf(R) /\ n \notin NamesOf(R)
  PROVE  LET Q == MapStitchReplace(r, Without(n, R))
         IN  /\ Distinct(Q) /\ Closed(Q) /\ Acyclic(Q) /\ KeepsOrder(R, Q)
             /\ NamesOf(Q) \subseteq NamesOf(R)
<1> DEFINE W == Without(n, R)
           Q == MapStitchReplace(r, W)
<1>1. W \in SUBSET Node /\ W \in SUBSET R /\ \A t \in R : t.name # n => t \in W
  BY DEF Without
<1>2. NamesOf(W) = NamesOf(R) \ {n} /\ Distinct(W)
  BY WithoutNames
<1> HIDE DEF W
<1>3. /\ \A q \in Q : \E t \in W :
           /\ q.name = t.name
           /\ q.runAfter = IF r.name \in t.runAfter
                             THEN (t.runAfter \ {r.name}) \cup r.runAfter
                             ELSE t.runAfter
      /\ NamesOf(Q) = NamesOf(W) /\ Distinct(Q)
  BY <1>1, <1>2, MapStitchNodes
<1> HIDE DEF Q
<1>4. Closed(Q) /\ Acyclic(Q) /\ KeepsOrder(R, Q)
  <2>1. CASE r \in R /\ r.name = n
    <3>1. ASSUME NEW q \in Q
          PROVE  \E t \in R :
                   /\ q.name = t.name /\ t.name # r.name
                   /\ q.runAfter = IF r.name \in t.runAfter
                                     THEN (t.runAfter \ {r.name}) \cup r.runAfter
                                     ELSE t.runAfter
      <4>1. PICK t \in W :
              /\ q.name = t.name
              /\ q.runAfter = IF r.name \in t.runAfter
                                THEN (t.runAfter \ {r.name}) \cup r.runAfter
                                ELSE t.runAfter
        BY <1>3
      <4>2. t \in R /\ t.name # r.name
        BY <1>1, <1>2, <2>1, NamesOfMember
      <4> QED BY <4>1, <4>2
    <3>2. ASSUME NEW t \in R, t.name # r.name PROVE \E q \in Q : q.name = t.name
      <4>1. t.name \in NamesOf(Q)
        BY <1>2, <1>3, <2>1, <3>2, NamesOfMember
      <4> QED BY <4>1, NamesOfPick
    <3>3. Stitches(R, Q, r)
      BY <3>1, <3>2 DEF Stitches
    <3> QED BY <2>1, <3>3, StitchKeeps, StitchOrder
  <2>2. CASE r.name \notin NamesOf(R) /\ n \notin NamesOf(R)
    <3> DEFINE o == r.name
    <3>1. W = R
      BY <2>2, WithoutNames DEF W
    <3>2. ASSUME NEW q \in Q
          PROVE  \E t \in R : q.name = t.name /\ t.name # o /\ o \notin t.runAfter
                              /\ q.runAfter = t.runAfter
      <4>1. PICK t \in R :
              /\ q.name = t.name
              /\ q.runAfter = IF r.name \in t.runAfter
                                THEN (t.runAfter \ {r.name}) \cup r.runAfter
                                ELSE t.runAfter
        BY <1>3, <3>1
      <4>2. t.runAfter \subseteq NamesOf(R) /\ t.name \in NamesOf(R)
        BY NamesOfMember DEF Closed
      <4> QED BY <2>2, <4>1, <4>2
    <3>3. ASSUME NEW t \in R PROVE t.name # o /\ \E q \in Q : q.name = t.name
      <4>1. t.name \in NamesOf(Q) /\ t.name \in NamesOf(R)
        BY <1>3, <3>1, NamesOfMember
      <4> QED BY <2>2, <4>1, NamesOfPick
    <3> HIDE DEF o
    <3>4. Relabels(R, Q, o, o)
      BY <3>2, <3>3 DEF Relabels
    <3> QED BY <3>4, RelabelKeeps, RelabelOrder
  <2> QED BY <2>1, <2>2
<1>5. NamesOf(Q) \subseteq NamesOf(R)
  BY <1>2, <1>3
<1> QED BY <1>3, <1>4, <1>5 DEF Q, W

LEMMA FoundIn ==
  ASSUME NEW n, NEW S, NEW r \in Found(n, S)
  PROVE  \/ r \in S /\ r.name = n
         \/ r.name = NoName /\ n \notin NamesOf(S)
  BY DEF Found

LEMMA DeleteListTaskKeeps ==
  ASSUME NEW g \in Grouping, g.loadingTasks = {}, GraphOK(g), NEW n \in ListName,
         NEW r \in Found(n, g.listTasks), NEW f \in Found(n, g.finallyListTasks)
  PROVE  StaysSound(g, DeleteListTask(g, n, r, f))
<1> DEFINE h == DeleteListTask(g, n, r, f)
           R == g.tasks \cup g.listTasks
           Q == MapStitchReplace(r, Without(n, R))
<1>1. /\ h.loadingTasks = {}
      /\ h.tasks = MapStitchReplace(r, g.tasks)
      /\ h.listTasks = MapStitchReplace(r, Without(n, g.listTasks))
      /\ h.finallyTasks = MapStitchReplace(f, g.finallyTasks)
      /\ h.finallyListTasks = MapStitchReplace(f, Without(n, g.finallyListTasks))
  BY DEF DeleteListTask, Grouping
<1> HIDE DEF h
<1>2. /\ R \in SUBSET Node /\ Regular(g) = R /\ Distinct(R) /\ Closed(R) /\ Acyclic(R)
      /\ NamesOf(R) = NamesOf(g.tasks) \cup NamesOf(g.listTasks) /\ NamesOf(R) \subseteq Name
      /\ Distinct(g.finallyTasks) /\ Distinct(g.finallyListTasks)
      /\ NamesOf(R) \cap (NamesOf(g.finallyTasks) \cup NamesOf(g.finallyListTasks)) = {}
  BY GraphOf
<1>3. n \notin NamesOf(g.tasks)
  BY Lists, NamesAssumption
<1>4. h.tasks \cup h.listTasks = Q
  <2>1. Without(n, R) = g.tasks \cup Without(n, g.listTasks)
    BY <1>3, WithoutNames, WithoutUnion
  <2> HIDE DEF R
  <2>2. MapStitchReplace(r, g.tasks \cup Without(n, g.listTasks))
          = MapStitchReplace(r, g.tasks) \cup MapStitchReplace(r, Without(n, g.listTasks))
    BY MapStitchUnion
  <2> QED BY <1>1, <2>1, <2>2
<1>5. \/ r \in R /\ r.name = n
      \/ r.name \notin NamesOf(R) /\ n \notin NamesOf(R)
  <2>1. \/ r \in g.listTasks /\ r.name = n
        \/ r.name = NoName /\ n \notin NamesOf(g.listTasks)
    BY FoundIn
  <2>2. NoName \notin Name
    BY NamesAssumption DEF Name
  <2>3. g.listTasks \subseteq R
    OBVIOUS
  <2> HIDE DEF R, Q
  <2> QED BY <1>2, <1>3, <2>1, <2>2, <2>3
<1> HIDE DEF R
<1>6. /\ Distinct(Q) /\ Closed(Q) /\ Acyclic(Q) /\ KeepsOrder(R, Q)
      /\ NamesOf(Q) \subseteq NamesOf(R)
  BY <1>2, <1>5, StitchAway
<1> HIDE DEF Q
<1>7. /\ Distinct(h.finallyTasks) /\ Distinct(h.finallyListTasks)
      /\ NamesOf(h.finallyTasks) \subseteq NamesOf(g.finallyTasks)
      /\ NamesOf(h.finallyListTasks) \subseteq NamesOf(g.finallyListTasks)
  <2>1. /\ g.finallyTasks \in SUBSET Node
        /\ Without(n, g.finallyListTasks) \in SUBSET Node
    BY Lists DEF Without
  <2>2. /\ Distinct(Without(n, g.finallyListTasks))
        /\ NamesOf(Without(n, g.finallyListTasks)) \subseteq NamesOf(g.finallyListTasks)
    BY <1>2, WithoutNames
  <2> QED BY <1>1, <1>2, <2>1, <2>2, MapStitchNodes
<1>8. StaysSound(g, h)
  <2>1. NamesOf(Q) \cap (NamesOf(h.finallyTasks) \cup NamesOf(h.finallyListTasks)) = {}
    BY <1>2, <1>6, <1>7
  <2> QED BY <1>1, <1>2, <1>4, <1>6, <1>7, <2>1, GraphFrom DEF StaysSound
<1> QED BY <1>8 DEF h

LEMMA RemoveTaskKeeps ==
  ASSUME NEW g \in Grouping, g.loadingTasks = {}, GraphOK(g), NEW n \in TaskName,
         NEW r \in Found(n, g.tasks), NEW f \in Found(n, g.finallyTasks)
  PROVE  StaysSound(g, RemoveTask(g, n, r, f))
<1> DEFINE h == RemoveTask(g, n, r, f)
           R == g.tasks \cup g.listTasks
           Q == MapStitchReplace(r, Without(n, R))
<1>1. /\ h.loadingTasks = {}
      /\ h.tasks = MapStitchReplace(r, Without(n, g.tasks))
      /\ h.listTasks = MapStitchReplace(r, g.listTasks)
      /\ h.finallyTasks = MapStitchReplace(f, Without(n, g.finallyTasks))
      /\ h.finallyListTasks = g.finallyListTasks
  BY DEF RemoveTask, Grouping
<1> HIDE DEF h
<1>2. /\ R \in SUBSET Node /\ Regular(g) = R /\ Distinct(R) /\ Closed(R) /\ Acyclic(R)
      /\ NamesOf(R) = NamesOf(g.tasks) \cup NamesOf(g.listTasks) /\ NamesOf(R) \subseteq Name
      /\ Distinct(g.finallyTasks) /\ Distinct(g.finallyListTasks)
      /\ NamesOf(R) \cap (NamesOf(g.finallyTasks) \cup NamesOf(g.finallyListTasks)) = {}
  BY GraphOf
<1>3. n \notin NamesOf(g.listTasks)
  BY Lists, NamesAssumption
<1>4. h.tasks \cup h.listTasks = Q
  <2>1. Without(n, R) = Without(n, g.tasks) \cup g.listTasks
    BY <1>3, WithoutNames, WithoutUnion
  <2> HIDE DEF R
  <2>2. MapStitchReplace(r, Without(n, g.tasks) \cup g.listTasks)
          = MapStitchReplace(r, Without(n, g.tasks)) \cup MapStitchReplace(r, g.listTasks)
    BY MapStitchUnion
  <2> QED BY <1>1, <2>1, <2>2
<1>5. \/ r \in R /\ r.name = n
      \/ r.name \notin NamesOf(R) /\ n \notin NamesOf(R)
  <2>1. \/ r \in g.tasks /\ r.name = n
        \/ r.name = NoName /\ n \notin NamesOf(g.tasks)
    BY FoundIn
  <2>2. NoName \notin Name
    BY NamesAssumption DEF Name
  <2>3. g.tasks \subseteq R
    OBVIOUS
  <2> HIDE DEF R, Q
  <2> QED BY <1>2, <1>3, <2>1, <2>2, <2>3
<1> HIDE DEF R
<1>6. /\ Distinct(Q) /\ Closed(Q) /\ Acyclic(Q) /\ KeepsOrder(R, Q)
      /\ NamesOf(Q) \subseteq NamesOf(R)
  BY <1>2, <1>5, StitchAway
<1> HIDE DEF Q
<1>7. /\ Distinct(h.finallyTasks)
      /\ NamesOf(h.finallyTasks) \subseteq NamesOf(g.finallyTasks)
  <2>1. Without(n, g.finallyTasks) \in SUBSET Node
    BY Lists DEF Without
  <2>2. /\ Distinct(Without(n, g.finallyTasks))
        /\ NamesOf(Without(n, g.finallyTasks)) \subseteq NamesOf(g.finallyTasks)
    BY <1>2, WithoutNames
  <2> QED BY <1>1, <2>1, <2>2, MapStitchNodes
<1>8. StaysSound(g, h)
  <2>1. NamesOf(Q) \cap (NamesOf(h.finallyTasks) \cup NamesOf(h.finallyListTasks)) = {}
    BY <1>1, <1>2, <1>6, <1>7
  <2> QED BY <1>1, <1>2, <1>4, <1>6, <1>7, <2>1, GraphFrom DEF StaysSound
<1> QED BY <1>8 DEF h

\* RenameIn over one list, or over the lists of a graph together.
LEMMA RenameInNodes ==
  ASSUME NEW S \in SUBSET Node, NEW old, NEW new, new \notin NamesOf(S), Distinct(S),
         NEW Q, Q = RenameIn(old, new, S)
  PROVE  /\ Distinct(Q)
         /\ NamesOf(Q) = IF old \in NamesOf(S) THEN (NamesOf(S) \ {old}) \cup {new}
                                               ELSE NamesOf(S)
         /\ \A q \in Q : \E t \in S :
              \/ /\ t.name # old /\ q.name = t.name
                 /\ q.runAfter = IF old \in t.runAfter
                                   THEN (t.runAfter \ {old}) \cup {new}
                                   ELSE t.runAfter
              \/ /\ t.name = old /\ q.name = new
                 /\ q.runAfter = t.runAfter
<1> DEFINE W == Without(old, S)
           M == MapReplaceRelated(new, old, W)
           B == {x \in S : x.name = old}
           N == {[t EXCEPT !.name = new] : t \in B}
<1>1. Q = M \cup N
  BY DEF RenameIn
<1>2. /\ W \in SUBSET Node /\ W \in SUBSET S /\ \A t \in W : t.name # old
      /\ NamesOf(W) = NamesOf(S) \ {old} /\ Distinct(W)
  <2>1. NamesOf(W) = NamesOf(S) \ {old} /\ Distinct(W)
    BY WithoutNames
  <2>2. W \in SUBSET Node /\ W \in SUBSET S /\ \A t \in W : t.name # old
    BY DEF Without
  <2> QED BY <2>1, <2>2
<1> HIDE DEF W
<1>3. /\ \A q \in M : \E t \in W :
           /\ q.name = t.name
           /\ q.runAfter = IF old \in t.runAfter
                             THEN (t.runAfter \ {old}) \cup {new}
                             ELSE t.runAfter
      /\ NamesOf(M) = NamesOf(W) /\ Distinct(M)
  BY <1>2, MapReplaceNodes
<1>4. /\ B \in SUBSET S /\ \A t \in B : t.name = old
      /\ \A s, t \in B : s = t
      /\ B = {} <=> old \notin NamesOf(S)
  BY DEF Distinct, NamesOf
<1>5. \A q \in N : \E t \in B : q.name = new /\ q.runAfter = t.runAfter
  <2>1. \A t \in B : /\ [t EXCEPT !.name = new].name = new
                     /\ [t EXCEPT !.name = new].runAfter = t.runAfter
    BY <1>4 DEF Node, Task, ListTask, LoadingTask
  <2> QED BY <2>1
<1>6. Distinct(N) /\ NamesOf(N) = IF old \in NamesOf(S) THEN {new} ELSE {}
  <2>1. \A s, t \in N : s = t
    BY <1>4
  <2>2. N = {} <=> B = {}
    OBVIOUS
  <2> HIDE DEF N, B
  <2>3. Distinct(N)
    BY <2>1 DEF Distinct
  <2>4. NamesOf(N) = IF N = {} THEN {} ELSE {new}
    BY <1>5 DEF NamesOf
  <2> QED BY <1>4, <2>2, <2>3, <2>4
<1> HIDE DEF M, N, B
<1>7. Distinct(M \cup N)
  <2>1. NamesOf(M) \cap NamesOf(N) = {}
    BY <1>2, <1>3, <1>6
  <2> QED BY <1>3, <1>6, <2>1, DistinctSplit
<1>8. NamesOf(M \cup N) = IF old \in NamesOf(S) THEN (NamesOf(S) \ {old}) \cup {new}
                                                ELSE NamesOf(S)
  <2>1. NamesOf(M \cup N) = NamesOf(M) \cup NamesOf(N)
    BY NamesOfUnion
  <2> QED BY <1>2, <1>3, <1>6, <2>1
<1>9. ASSUME NEW q \in M \cup N
      PROVE  \E t \in S :
              \/ /\ t.name # old /\ q.name = t.name
                 /\ q.runAfter = IF old \in t.runAfter
                                   THEN (t.runAfter \ {old}) \cup {new}
                                   ELSE t.runAfter
              \/ /\ t.name = old /\ q.name = new
                 /\ q.runAfter = t.runAfter
  <2>1. CASE q \in M
    BY <1>2, <1>3, <2>1
  <2>2. CASE q \in N
    BY <1>4, <1>5, <2>2
  <2> QED BY <2>1, <2>2
<1> QED BY <1>1, <1>7, <1>8, <1>9

LEMMA RenameInKeeps ==
  ASSUME NEW S \in SUBSET Node, NEW old, NEW new, new \notin NamesOf(S),
         Distinct(S), Closed(S), Acyclic(S),
         NEW Q, Q = RenameIn(old, new, S)
  PROVE  Closed(Q) /\ Acyclic(Q) /\ KeepsOrder(S, Q)
<1>1. /\ NamesOf(Q) = IF old \in NamesOf(S) THEN (NamesOf(S) \ {old}) \cup {new}
                                            ELSE NamesOf(S)
      /\ \A q \in Q : \E t \in S :
           \/ /\ t.name # old /\ q.name = t.name
              /\ q.runAfter = IF old \in t.runAfter
                                THEN (t.runAfter \ {old}) \cup {new}
                                ELSE t.runAfter
           \/ /\ t.name = old /\ q.name = new
              /\ q.runAfter = t.runAfter
  BY RenameInNodes
<1>2. ASSUME NEW q \in Q
      PROVE  \E t \in S :
               /\ q.name = IF t.name = old THEN new ELSE t.name
               /\ q.runAfter = IF old \in t.runAfter
                                 THEN (t.runAfter \ {old}) \cup {new}
                                 ELSE t.runAfter
  <2>1. PICK t \in S :
           \/ /\ t.name # old /\ q.name = t.name
              /\ q.runAfter = IF old \in t.runAfter
                                THEN (t.runAfter \ {old}) \cup {new}
                                ELSE t.runAfter
           \/ /\ t.name = old /\ q.name = new
              /\ q.runAfter = t.runAfter
    BY <1>1
  <2>2. t.name \notin t.runAfter
    BY NoSelfRunAfter
  <2> QED BY <2>1, <2>2
<1>3. ASSUME NEW t \in S
      PROVE  \E q \in Q : q.name = IF t.name = old THEN new ELSE t.name
  <2>1. (IF t.name = old THEN new ELSE t.name) \in NamesOf(Q)
    BY <1>1, NamesOfMember
  <2> QED BY <2>1, NamesOfPick
<1>4. Relabels(S, Q, old, new)
  BY <1>2, <1>3 DEF Relabels
<1> QED BY <1>4, RelabelKeeps, RelabelOrder

LEMMA RenameTaskKeeps ==
  ASSUME NEW g \in Grouping, g.loadingTasks = {}, GraphOK(g), NEW old \in TaskName,
         NEW new \in TaskName, new \notin UsedNames(g)
  PROVE  StaysSound(g, RenameTask(g, old, new))
<1> DEFINE h == RenameTask(g, old, new)
           R == g.tasks \cup g.listTasks
           Q == RenameIn(old, new, R)
<1>1. /\ h.loadingTasks = {}
      /\ h.tasks = RenameIn(old, new, g.tasks)
      /\ h.listTasks = MapReplaceRelated(new, old, g.listTasks)
      /\ h.finallyTasks = RenameIn(old, new, g.finallyTasks)
      /\ h.finallyListTasks = g.finallyListTasks
  BY DEF RenameTask, Grouping
<1> HIDE DEF h
<1>2. /\ R \in SUBSET Node /\ Regular(g) = R /\ Distinct(R) /\ Closed(R) /\ Acyclic(R)
      /\ NamesOf(R) = NamesOf(g.tasks) \cup NamesOf(g.listTasks)
      /\ Distinct(g.finallyTasks) /\ Distinct(g.finallyListTasks)
      /\ NamesOf(R) \cap (NamesOf(g.finallyTasks) \cup NamesOf(g.finallyListTasks)) = {}
  BY GraphOf
<1>3. /\ new \notin NamesOf(R) \cup NamesOf(g.finallyTasks) \cup NamesOf(g.finallyListTasks)
      /\ old \notin NamesOf(g.listTasks)
  BY <1>2, Lists, NamesAssumption DEF UsedNames
<1>4. h.tasks \cup h.listTasks = Q
  <2>1. \A t \in g.listTasks : t.name # old
    BY <1>3, NamesOfMember
  <2>2. Without(old, R) = Without(old, g.tasks) \cup g.listTasks
    BY <1>3, WithoutNames, WithoutUnion
  <2>3. {x \in R : x.name = old} = {x \in g.tasks : x.name = old}
    BY <2>1
  <2> HIDE DEF R
  <2>4. MapReplaceRelated(new, old, Without(old, g.tasks) \cup g.listTasks)
          = MapReplaceRelated(new, old, Without(old, g.tasks))
              \cup MapReplaceRelated(new, old, g.listTasks)
    BY MapReplaceUnion
  <2> DEFINE N == {[t EXCEPT !.name = new] : t \in {x \in R : x.name = old}}
  <2>5. Q = MapReplaceRelated(new, old, Without(old, R)) \cup N
    BY DEF RenameIn
  <2>6. RenameIn(old, new, g.tasks) = MapReplaceRelated(new, old, Without(old, g.tasks)) \cup N
    BY <2>3 DEF RenameIn
  <2> HIDE DEF N, Q
  <2> QED BY <1>1, <2>2, <2>4, <2>5, <2>6
<1> HIDE DEF R
<1>5. /\ Distinct(Q) /\ Closed(Q) /\ Acyclic(Q) /\ KeepsOrder(R, Q)
      /\ NamesOf(Q) = IF old \in NamesOf(R) THEN (NamesOf(R) \ {old}) \cup {new}
                                            ELSE NamesOf(R)
  BY <1>2, <1>3, RenameInNodes, RenameInKeeps
<1> HIDE DEF Q
<1>6. /\ Distinct(h.finallyTasks)
      /\ NamesOf(h.finallyTasks) =
           IF old \in NamesOf(g.finallyTasks) THEN (NamesOf(g.finallyTasks) \ {old}) \cup {new}
                                              ELSE NamesOf(g.finallyTasks)
  <2>1. g.finallyTasks \in SUBSET Node /\ new \notin NamesOf(g.finallyTasks)
    BY <1>3, Lists
  <2>2. Distinct(g.finallyTasks)
    BY <1>2
  <2>3. ASSUME NEW S \in SUBSET Node, new \notin NamesOf(S), Distinct(S),
               NEW F, F = RenameIn(old, new, S)
        PROVE  /\ Distinct(F)
               /\ NamesOf(F) = IF old \in NamesOf(S) THEN (NamesOf(S) \ {old}) \cup {new}
                                                     ELSE NamesOf(S)
    BY <2>3, RenameInNodes
  <2>4. h.finallyTasks = RenameIn(old, new, g.finallyTasks)
    BY <1>1
  <2> QED BY <2>1, <2>2, <2>3, <2>4
<1>7. StaysSound(g, h)
  <2>1. NamesOf(Q) \cap (NamesOf(h.finallyTasks) \cup NamesOf(h.finallyListTasks)) = {}
    BY <1>1, <1>2, <1>3, <1>5, <1>6
  <2> QED BY <1>1, <1>2, <1>4, <1>5, <1>6, <2>1, GraphFrom DEF StaysSound
<1> QED BY <1>7 DEF h

\* The only loading node of a form becomes a task, and no list node runs after it.
LEMMA ConvertLoadingNodeToTaskKeeps ==
  ASSUME NEW g \in Grouping, NEW l, g.loadingTasks = {l}, ~l.fin, GraphOK(g),
         \A t \in g.listTasks : l.name \notin t.runAfter,
         NEW new \in TaskName, new \notin UsedNames(g)
  PROVE  GraphOK(ConvertLoadingNodeToTask(g, l, new))
<1> DEFINE h == ConvertLoadingNodeToTask(g, l, new)
           T == g.tasks
           L == g.listTasks
           o == l.name
           M == MapReplaceRelated(new, o, T)
           x == [name |-> new, runAfter |-> l.runAfter, res |-> l.res]
           R == Regular(g)
           Q == (M \cup {x}) \cup L
<1>1. /\ h.loadingTasks = {} /\ h.tasks \cup h.listTasks = Q
      /\ h.finallyTasks = g.finallyTasks /\ h.finallyListTasks = g.finallyListTasks
  BY DEF ConvertLoadingNodeToTask, Grouping, Without, MapReplaceRelated
<1>2. x.name = new /\ x.runAfter = l.runAfter
  OBVIOUS
<1>3. R = (T \cup L) \cup {l}
  BY DEF Regular
<1>4. /\ T \in SUBSET Task /\ L \in SUBSET ListTask /\ l \in LoadingTask
      /\ T \in SUBSET Node
      /\ NamesOf(T) \subseteq TaskName /\ NamesOf(L) \subseteq ListName
  BY Lists DEF Grouping
<1>5. /\ Distinct(R) /\ Closed(R) /\ Acyclic(R)
      /\ Distinct(g.finallyTasks) /\ Distinct(g.finallyListTasks)
      /\ NamesOf(R) \cap (NamesOf(g.finallyTasks) \cup NamesOf(g.finallyListTasks)) = {}
  BY DEF GraphOK, NamesUnique, RegularNames
<1>6. \A t \in T \cup L : t.name # l.name
  <2>1. l \notin Task /\ l \notin ListTask
    <3>1. DOMAIN l = {"name", "runAfter", "res", "fin"}
      BY <1>4 DEF LoadingTask
    <3>2. \A t \in Task : "fin" \notin DOMAIN t
      BY DEF Task
    <3>3. \A t \in ListTask : "fin" \notin DOMAIN t
      BY DEF ListTask
    <3> QED BY <3>1, <3>2, <3>3
  <2> QED BY <1>3, <1>4, <1>5, <2>1 DEF Distinct
<1>7. \A t \in L : o \notin t.runAfter
  OBVIOUS
<1>8. l.name = o
  OBVIOUS
<1>9. l.name \notin l.runAfter
  BY <1>3, <1>5, NoSelfRunAfter
<1>10. new \notin NamesOf(T) /\ new \notin NamesOf(L) /\ new \notin NamesOf(g.finallyTasks)
       /\ new \notin NamesOf(g.finallyListTasks)
  BY <1>4, Lists, NamesAssumption DEF UsedNames
<1> HIDE DEF h, T, L, o, x, R
<1>11. NamesOf(R) = NamesOf(T) \cup NamesOf(L) \cup {o}
  <2>1. NamesOf({l}) = {o}
    BY <1>8 DEF NamesOf
  <2>2. NamesOf((T \cup L) \cup {l}) = NamesOf(T \cup L) \cup NamesOf({l})
    BY NamesOfUnion
  <2>3. NamesOf(T \cup L) = NamesOf(T) \cup NamesOf(L)
    BY NamesOfUnion
  <2> QED BY <1>3, <2>1, <2>2, <2>3
<1>12. Distinct(T) /\ Distinct(L)
  BY <1>3, <1>5, DistinctSplit
<1>13. /\ \A q \in M : \E t \in T :
            /\ q.name = t.name
            /\ q.runAfter = IF o \in t.runAfter THEN (t.runAfter \ {o}) \cup {new} ELSE t.runAfter
       /\ NamesOf(M) = NamesOf(T) /\ Distinct(M)
  BY <1>4, <1>12, MapReplaceNodes
<1> HIDE DEF M
<1>14. Distinct(M \cup {x}) /\ NamesOf(M \cup {x}) = NamesOf(T) \cup {new}
  <2>1. x.name \notin NamesOf(M)
    BY <1>2, <1>10, <1>13
  <2>2. Distinct(M \cup {x}) /\ NamesOf(M \cup {x}) = NamesOf(M) \cup {x.name}
    BY <1>13, <2>1, DistinctAdd
  <2> QED BY <1>2, <1>13, <2>2
<1>15. Distinct(Q) /\ NamesOf(Q) = NamesOf(T) \cup {new} \cup NamesOf(L)
  <2>1. NamesOf(M \cup {x}) \cap NamesOf(L) = {}
    BY <1>4, <1>10, <1>14, NamesAssumption
  <2>2. Distinct(Q)
    BY <1>12, <1>14, <2>1, DistinctSplit
  <2> QED BY <1>14, <2>2, NamesOfUnion
<1>16. ASSUME NEW q \in Q
       PROVE  \E t \in R :
                /\ q.name = IF t.name = o THEN new ELSE t.name
                /\ q.runAfter = IF o \in t.runAfter
                                  THEN (t.runAfter \ {o}) \cup {new}
                                  ELSE t.runAfter
  <2>1. CASE q \in M
    <3>1. PICK t \in T :
            /\ q.name = t.name
            /\ q.runAfter = IF o \in t.runAfter THEN (t.runAfter \ {o}) \cup {new} ELSE t.runAfter
      BY <1>13, <2>1
    <3>2. t \in R /\ t.name # o
      BY <1>3, <1>6, <1>8
    <3> QED BY <3>1, <3>2
  <2>2. CASE q = x
    BY <1>2, <1>3, <1>8, <1>9, <2>2
  <2>3. CASE q \in L
    <3>1. q \in R /\ q.name # o /\ o \notin q.runAfter
      BY <1>3, <1>6, <1>7, <1>8, <2>3
    <3> QED BY <3>1
  <2> QED BY <2>1, <2>2, <2>3
<1>17. ASSUME NEW t \in R
       PROVE  \E q \in Q : q.name = IF t.name = o THEN new ELSE t.name
  <2>1. (IF t.name = o THEN new ELSE t.name) \in NamesOf(Q)
    BY <1>11, <1>15, NamesOfMember
  <2> QED BY <2>1, NamesOfPick
<1> HIDE DEF Q
<1>18. Closed(Q) /\ Acyclic(Q)
  <2>1. Relabels(R, Q, o, new)
    BY <1>16, <1>17 DEF Relabels
  <2>2. new \notin NamesOf(R) \ {o}
    BY <1>10, <1>11
  <2> QED BY <1>5, <2>1, <2>2, RelabelKeeps
<1>19. GraphOK(h)
  <2>1. NamesOf(Q) \cap (NamesOf(h.finallyTasks) \cup NamesOf(h.finallyListTasks)) = {}
    BY <1>1, <1>5, <1>10, <1>11, <1>15
  <2> QED BY <1>1, <1>5, <1>15, <1>18, <2>1, GraphFrom
<1> QED BY <1>19 DEF h

LEMMA ConvertLoadingNodeToFinallyTaskKeeps ==
  ASSUME NEW g \in Grouping, NEW l, g.loadingTasks = {l}, l.fin, GraphOK(g),
         NEW new \in TaskName, new \notin UsedNames(g)
  PROVE  GraphOK(ConvertLoadingNodeToFinallyTask(g, l, new))
<1> DEFINE h == ConvertLoadingNodeToFinallyTask(g, l, new)
           M == MapReplaceRelated(new, l.name, g.finallyTasks)
           x == [name |-> new, runAfter |-> l.runAfter, res |-> l.res]
           R == Regular(g)
<1>1. /\ h.loadingTasks = {} /\ h.tasks \cup h.listTasks = R
      /\ h.finallyTasks = M \cup {x} /\ h.finallyListTasks = g.finallyListTasks
  BY DEF ConvertLoadingNodeToFinallyTask, Grouping, Without, MapReplaceRelated, Regular
<1>2. x.name = new
  OBVIOUS
<1>3. R = g.tasks \cup g.listTasks
  BY DEF Regular
<1>4. /\ Distinct(R) /\ Closed(R) /\ Acyclic(R)
      /\ Distinct(g.finallyTasks) /\ Distinct(g.finallyListTasks)
      /\ NamesOf(R) \cap (NamesOf(g.finallyTasks) \cup NamesOf(g.finallyListTasks)) = {}
  BY DEF GraphOK, NamesUnique, RegularNames
<1>5. NamesOf(R) = NamesOf(g.tasks) \cup NamesOf(g.listTasks)
  BY <1>3, NamesOfUnion
<1>6. new \notin NamesOf(R) /\ new \notin NamesOf(g.finallyTasks)
  BY <1>5, Lists, NamesAssumption DEF UsedNames
<1> HIDE DEF h, x, R
<1>7. Distinct(M) /\ NamesOf(M) = NamesOf(g.finallyTasks)
  <2>1. g.finallyTasks \in SUBSET Node
    BY Lists
  <2> QED BY <1>4, <2>1, MapReplaceNodes
<1> HIDE DEF M
<1>8. Distinct(M \cup {x}) /\ NamesOf(M \cup {x}) = NamesOf(g.finallyTasks) \cup {new}
  <2>1. x.name \notin NamesOf(M)
    BY <1>2, <1>6, <1>7
  <2>2. Distinct(M \cup {x}) /\ NamesOf(M \cup {x}) = NamesOf(M) \cup {x.name}
    BY <1>7, <2>1, DistinctAdd
  <2> QED BY <1>2, <1>7, <2>2
<1>9. GraphOK(h)
  <2>1. NamesOf(R) \cap (NamesOf(h.finallyTasks) \cup NamesOf(h.finallyListTasks)) = {}
    BY <1>1, <1>4, <1>6, <1>8
  <2> QED BY <1>1, <1>4, <1>8, <2>1, GraphFrom
<1> QED BY <1>9 DEF h

-----------------------------------------------------------------------------
(***************************************************************************)
(* The builder: types.                                                     *)
(***************************************************************************)

LEMMA SafeNamesType ==
  ASSUME NEW reserved, NEW r \in Resource
  PROVE  SafeNames(reserved, r) \subseteq TaskName
<1>1. r \in TaskName /\ Suffixed[r] \subseteq TaskName
  BY NamesAssumption
<1> QED BY <1>1 DEF SafeNames

LEMMA FormOfType ==
  ASSUME NEW p \in Pipeline
  PROVE  FormOf(p) \in Grouping
  BY DEF FormOf, Pipeline, Grouping

LEMMA TargetsType ==
  ASSUME group \in Grouping
  PROVE  Targets \subseteq Target
<1>1. /\ group.tasks \subseteq Task /\ group.finallyTasks \subseteq Task
      /\ group.listTasks \subseteq ListTask /\ group.finallyListTasks \subseteq ListTask
  BY DEF Grouping
<1>2. \A t \in Task : \A fin \in BOOLEAN : InvalidTarget(t, fin) \in Target
  BY DEF Task, InvalidTarget, Target, Name
<1>3. \A n \in Name \cup {InitialNode} : \A A \in SUBSET Name : \A fin \in BOOLEAN :
        ListTarget(n, A, fin) \in Target
  BY DEF ListTarget, Target
<1>4. \A l \in ListTask : l.name \in Name /\ l.runAfter \in SUBSET Name
  BY DEF ListTask, Name
<1>5. NamesOf(group.listTasks) \subseteq Name
  BY <1>1, <1>4 DEF NamesOf
<1> HIDE DEF Target, Name
<1>6. {InvalidTarget(t, FALSE) : t \in {x \in group.tasks : ~Resolves(x)}} \subseteq Target
  BY <1>1, <1>2
<1>7. {InvalidTarget(t, TRUE) : t \in {x \in group.finallyTasks : ~Resolves(x)}} \subseteq Target
  BY <1>1, <1>2
<1>8. {ListTarget(l.name, {}, TRUE) : l \in group.finallyListTasks} \subseteq Target
  BY <1>1, <1>3, <1>4
<1>9. {ListTarget(l.name, l.runAfter, FALSE) : l \in group.listTasks} \subseteq Target
  BY <1>1, <1>3, <1>4
<1>10. {ListTarget(n, {}, FALSE) :
          n \in IF group.listTasks = {} THEN {InitialNode} ELSE NamesOf(group.listTasks)}
         \subseteq Target
  BY <1>3, <1>5
<1> QED BY <1>6, <1>7, <1>8, <1>9, <1>10 DEF Targets

LEMMA LoadingForType ==
  ASSUME group \in Grouping, callback \in Target, NEW r \in Resource
  PROVE  LoadingFor(r) \subseteq Grouping
<1>1. callback.runAfter \in SUBSET Name /\ callback.fin \in BOOLEAN
  BY DEF Target
<1>2. \A n \in SafeNames(UsedNames(group), r) :
        ConvertToLoadingTask(group, callback.name, r, callback.runAfter, callback.fin, n)
          \in Grouping
  BY <1>1, SafeNamesType, ConvertToLoadingTaskType
<1> QED BY <1>2 DEF LoadingFor

LEMMA PickedForType ==
  ASSUME group \in Grouping, callback \in Target, NEW r \in Resource
  PROVE  PickedFor(r) \subseteq Grouping
<1>1. callback.runAfter \in SUBSET Name
  BY DEF Target
<1>2. \A n \in TaskName :
        /\ FixInvalidFinallyListTask(group, callback.name, r, n) \in Grouping
        /\ FixInvalidListTask(group, callback.name, r, callback.runAfter, n) \in Grouping
        /\ ConvertFinallyListToTask(group, callback.name, r, n) \in Grouping
        /\ ConvertListToTask(group, callback.name, r, callback.runAfter, n) \in Grouping
  BY <1>1, FixInvalidType, ConvertListToTaskType
<1>3. /\ SafeNames(UsedNames(group), r) \subseteq TaskName
      /\ SafeNames(NamesOf(group.tasks), r) \subseteq TaskName
  BY SafeNamesType
<1> QED BY <1>2, <1>3 DEF PickedFor

LEMMA CreateFirstType ==
  ASSUME TypeOK, NEW seen \in SUBSET Resource, NEW r, NEW rest \in SUBSET PendingPick,
         CreateFirst(r, seen, rest)
  PROVE  pending' \subseteq PendingPick /\ creating' \subseteq Creation
<1>1. PICK n \in Resource :
        /\ pending' = rest \cup {[res |-> n, seen |-> seen, stage |-> "create"]}
        /\ creating' = creating \cup {[res |-> n, seen |-> seen]}
  BY DEF CreateFirst
<1>2. [res |-> n, seen |-> seen, stage |-> "create"] \in PendingPick
  BY DEF PendingPick
<1>3. [res |-> n, seen |-> seen] \in Creation
  BY DEF Creation
<1> QED BY <1>1, <1>2, <1>3 DEF TypeOK

LEMMA CreateAfterType ==
  ASSUME TypeOK, NEW seen \in SUBSET Resource, NEW r \in Resource, callback \in Target,
         CreateAfter(r, seen)
  PROVE  group' \in Grouping /\ creating' \subseteq Creation
<1>1. [res |-> r, seen |-> seen] \in Creation
  BY DEF Creation
<1>2. group' \in Grouping
  BY LoadingForType DEF CreateAfter, TypeOK
<1> QED BY <1>1, <1>2 DEF CreateAfter, TypeOK

LEMMA TypeStep ==
  ASSUME TypeOK, [Next]_vars
  PROVE  TypeOK'
<1> USE BuilderAssumption DEF TypeOK, cluster
<1>1. ASSUME NEW t \in group.tasks, NEW n \in ListName, AddListNode(t, n) PROVE TypeOK'
  <2>1. group' \in Grouping
    BY <1>1, AddListNodeType DEF AddListNode
  <2> QED BY <1>1, <2>1 DEF AddListNode
<1>2. ASSUME NEW n \in ListName, AddNewFinallyListNode(n) PROVE TypeOK'
  <2>1. group' \in Grouping
    BY <1>2, AddFinallyListTaskType DEF AddNewFinallyListNode
  <2> QED BY <1>2, <2>1 DEF AddNewFinallyListNode
<1>3. ASSUME NEW n \in ListName, RemoveListNode(n) PROVE TypeOK'
  <2>1. group' \in Grouping
    BY <1>3, DeleteListTaskType DEF RemoveListNode
  <2> QED BY <1>3, <2>1 DEF RemoveListNode
<1>4. ASSUME NEW t \in group.tasks \cup group.finallyTasks, RemoveInvalid(t) PROVE TypeOK'
  <2>1. group' \in Grouping
    BY <1>4, RemoveTaskType DEF RemoveInvalid
  <2> QED BY <1>4, <2>1 DEF RemoveInvalid
<1>5. ASSUME NEW t \in group.tasks \cup group.finallyTasks, AskRemove(t) PROVE TypeOK'
  <2>1. t.name \in TaskName
    BY DEF Grouping, Task
  <2>2. ui' \in Removal
    BY <1>5, <2>1 DEF AskRemove, Removal
  <2> QED BY <1>5, <2>2 DEF AskRemove
<1>6. ASSUME NEW t \in group.tasks \cup group.finallyTasks, NEW n \in Typed, TypeName(t, n)
      PROVE  TypeOK'
  <2>1. t.name \in TaskName
    BY DEF Grouping, Task
  <2>2. ui' \in Rename
    BY <1>6, <2>1 DEF TypeName, Rename
  <2> QED BY <1>6, <2>2 DEF TypeName
<1>7. CASE ConfirmRemove
  <2>1. ui.group \in Grouping
    BY <1>7 DEF ConfirmRemove, Removal
  <2>2. group' \in Grouping
    BY <1>7, <2>1, RemoveTaskType DEF ConfirmRemove
  <2> QED BY <1>7, <2>2 DEF ConfirmRemove
<1>8. CASE BlurName
  <2>1. ui.new \in TaskName
    BY <1>8 DEF BlurName, Rename
  <2>2. group' \in Grouping
    BY <1>8, <2>1, RenameTaskType DEF BlurName
  <2> QED BY <1>8, <2>2 DEF BlurName
<1>9. ASSUME NEW target \in Targets, OpenSearch(target) PROVE TypeOK'
  <2>1. target \in Target
    BY TargetsType
  <2>2. ui' \in Search
    BY <1>9 DEF OpenSearch, Search
  <2> QED BY <1>9, <2>1, <2>2 DEF OpenSearch
<1>10. CASE Dismiss
  BY <1>10 DEF Dismiss
<1>11. ASSUME Calling PROVE callback \in Target
  BY <1>11 DEF Calling
<1>12. ASSUME NEW r \in installed, PickInstalled(r) PROVE TypeOK'
  <2>1. group' \in Grouping
    BY <1>11, <1>12, PickedForType DEF PickInstalled, Searching
  <2> QED BY <1>12, <2>1 DEF PickInstalled
<1>13. ASSUME NEW r \in HubTasks, PickHub(r) PROVE TypeOK'
  <2>1. group' \in Grouping /\ creating' \subseteq Creation
    BY <1>11, <1>13, CreateAfterType DEF PickHub, Searching
  <2> QED BY <1>13, <2>1 DEF PickHub
<1>14. ASSUME NEW r \in HubTasks, PickHubConflict(r) PROVE TypeOK'
  <2>1. pending' \subseteq PendingPick /\ creating' \subseteq Creation
    BY <1>14, CreateFirstType DEF PickHubConflict
  <2> QED BY <1>14, <2>1 DEF PickHubConflict
<1>15. ASSUME NEW r \in HubTasks, PickHubDetails(r) PROVE TypeOK'
  <2>1. [res |-> r, seen |-> failed, stage |-> "details"] \in PendingPick
    BY DEF PendingPick
  <2> QED BY <1>15, <2>1 DEF PickHubDetails
<1>16. ASSUME NEW p \in pending PROVE p.res \in Resource /\ p.seen \in SUBSET Resource
  BY DEF PendingPick
<1>17. ASSUME NEW p \in pending, DetailsFetched(p) PROVE TypeOK'
  <2>1. CASE CreateFirst(p.res, p.seen, pending \ {p}) /\ UNCHANGED group
    <3>1. pending \ {p} \in SUBSET PendingPick
      OBVIOUS
    <3>2. pending' \subseteq PendingPick /\ creating' \subseteq Creation
      BY <1>16, <2>1, <3>1, CreateFirstType
    <3> QED BY <1>17, <2>1, <3>2 DEF DetailsFetched
  <2>2. CASE CreateAfter(p.res, p.seen) /\ pending' = pending \ {p}
    <3>1. group' \in Grouping /\ creating' \subseteq Creation
      BY <1>11, <1>16, <1>17, <2>2, CreateAfterType DEF DetailsFetched
    <3> QED BY <1>17, <2>2, <3>1 DEF DetailsFetched
  <2> QED BY <1>17, <2>1, <2>2 DEF DetailsFetched
<1>18. ASSUME NEW p \in pending, DetailsFailed(p) PROVE TypeOK'
  BY <1>18 DEF DetailsFailed
<1>19. ASSUME NEW c \in creating PROVE c.res \in Resource /\ c.seen \in SUBSET Resource
  BY DEF Creation
<1>20. ASSUME NEW c \in creating, CreateOk(c) \/ CreateFirstOk(c) \/ CreateFailed(c) PROVE TypeOK'
  <2>1. CASE CreateOk(c)
    BY <1>19, <2>1 DEF CreateOk
  <2>2. CASE CreateFirstOk(c)
    <3>1. group' \in Grouping
      BY <1>11, <1>19, <2>2, LoadingForType DEF CreateFirstOk
    <3> QED BY <1>19, <2>2, <3>1 DEF CreateFirstOk
  <2>3. CASE CreateFailed(c)
    BY <1>19, <2>3 DEF CreateFailed
  <2> QED BY <1>20, <2>1, <2>2, <2>3
<1>21. ASSUME NEW r \in arriving, WatchAdded(r) PROVE TypeOK'
  BY <1>21 DEF WatchAdded
<1>22. ASSUME NEW r \in Deletable, WatchDeleted(r) PROVE TypeOK'
  BY <1>22 DEF WatchDeleted
<1>23. ASSUME NEW l \in group.loadingTasks, LoadingCleanup(l) PROVE TypeOK'
  <2>1. l.res \in Resource
    BY DEF Grouping, LoadingTask
  <2>2. group' \in Grouping
    BY <1>23, <2>1, SafeNamesType, ConvertLoadingNodeType DEF LoadingCleanup
  <2> QED BY <1>23, <2>2 DEF LoadingCleanup
<1>24. CASE Submit
  <2>1. PipelineOf(group) \in Pipeline
    BY DEF PipelineOf, Pipeline, Grouping
  <2>2. Requested \cup {p.res : p \in pending} \subseteq Resource
    BY <1>16, <1>19 DEF Requested
  <2>3. arriving' \subseteq Resource
    BY <1>24, <2>2 DEF Submit
  <2> QED BY <1>24, <2>1, <2>3 DEF Submit
<1>25. CASE Reopen
  <2>1. saved \in Pipeline
    BY <1>25 DEF Reopen, Editing
  <2>2. group' \in Grouping
    BY <1>25, <2>1, FormOfType DEF Reopen
  <2> QED BY <1>25, <2>2 DEF Reopen
<1>26. CASE UNCHANGED vars
  BY <1>26 DEF vars
<1>27. CASE Edit
  BY <1>27, <1>1, <1>2, <1>3, <1>4, <1>5, <1>6, <1>7, <1>8, <1>9, <1>10, <1>12 DEF Edit
<1>28. CASE Hub
  BY <1>28, <1>13, <1>14, <1>15, <1>17, <1>18, <1>20, <1>21 DEF Hub
<1> QED BY <1>22, <1>23, <1>24, <1>25, <1>26, <1>27, <1>28 DEF Next

\* Whatever the user, the hub and the cluster do, the form stays a form: each node has the
\* shape its list demands, and what the callbacks of its nodes captured are nodes of a form.
THEOREM TypeCorrect == Spec => []TypeOK
<1>1. Init => TypeOK
  <2>1. ASSUME NEW p \in Existing PROVE FormOf(p) \in Grouping
    BY BuilderAssumption, FormOfType DEF Pipeline
  <2> QED BY <2>1, BuilderAssumption DEF Init, TypeOK
<1>2. TypeOK /\ [Next]_vars => TypeOK'
  BY TypeStep
<1> QED BY <1>1, <1>2, PTL DEF Spec

-----------------------------------------------------------------------------
(***************************************************************************)
(* The graph.                                                              *)
(***************************************************************************)

LEMMA SafeNamesFresh ==
  ASSUME NEW reserved, NEW r \in Resource, NEW n \in SafeNames(reserved, r)
  PROVE  n \in TaskName /\ n \notin reserved
<1>1. n \notin reserved
  BY DEF SafeNames
<1> QED BY <1>1, SafeNamesType

\* What the callback of a list node captured: its own runAfter, or nothing for the one
\* node of an empty pipeline.
LEMMA ListTargetNode ==
  ASSUME Closed(group.tasks \cup group.listTasks), Acyclic(group.tasks \cup group.listTasks),
         NEW target \in Targets, ~target.invalid, ~target.fin
  PROVE  \/ \E l \in group.listTasks : l.name = target.name /\ l.runAfter = target.runAfter
         \/ group.tasks = {} /\ group.listTasks = {} /\ target.runAfter = {}
<1>1. target \notin {InvalidTarget(t, FALSE) : t \in {x \in group.tasks : ~Resolves(x)}}
  BY DEF InvalidTarget
<1>2. target \notin {InvalidTarget(t, TRUE) : t \in {x \in group.finallyTasks : ~Resolves(x)}}
  BY DEF InvalidTarget
<1>3. target \notin {ListTarget(l.name, {}, TRUE) : l \in group.finallyListTasks}
  BY DEF ListTarget
<1>4. CASE ~SoloNode
  <2>1. target \in {ListTarget(l.name, l.runAfter, FALSE) : l \in group.listTasks}
    BY <1>1, <1>2, <1>3, <1>4, Zenon DEF Targets
  <2>2. PICK l \in group.listTasks : target = ListTarget(l.name, l.runAfter, FALSE)
    BY <2>1
  <2>3. target.name = l.name /\ target.runAfter = l.runAfter
    BY <2>2 DEF ListTarget
  <2> QED BY <2>3
<1>5. CASE SoloNode
  <2> DEFINE N == IF group.listTasks = {} THEN {InitialNode} ELSE NamesOf(group.listTasks)
  <2>0. target \in {ListTarget(n, {}, FALSE) : n \in N}
    BY <1>1, <1>2, <1>3, <1>5, Zenon DEF Targets
  <2>1. PICK n \in N : target = ListTarget(n, {}, FALSE)
    BY <2>0
  <2>2. target.name = n /\ target.runAfter = {}
    BY <2>1 DEF ListTarget
  <2>3. group.tasks = {} /\ \A l, m \in group.listTasks : l = m
    BY <1>5 DEF SoloNode
  <2>4. CASE group.listTasks = {}
    BY <2>2, <2>3, <2>4
  <2>5. CASE group.listTasks # {}
    <3>1. PICK l \in group.listTasks : l.name = n
      BY <2>1, <2>5 DEF NamesOf
    <3> DEFINE R == group.tasks \cup group.listTasks
    <3>2. Closed(R) /\ Acyclic(R)
      OBVIOUS
    <3>3. R = {l}
      BY <2>3, <3>1
    <3> HIDE DEF R
    <3>4. NamesOf(R) = {l.name} /\ l \in R
      BY <3>3 DEF NamesOf
    <3>5. l.runAfter \subseteq {l.name} /\ l.name \notin l.runAfter
      BY <3>2, <3>4, NoSelfRunAfter DEF Closed
    <3>6. l.runAfter = {}
      BY <3>5
    <3> QED BY <2>2, <3>1, <3>6
  <2> QED BY <2>4, <2>5
<1> QED BY <1>4, <1>5

LEMMA PickedForKeeps ==
  ASSUME group \in Grouping, group.loadingTasks = {}, GraphOK(group),
         callback \in Targets, ~callback.invalid \/ callback.fin,
         NEW r \in Resource, NEW h \in PickedFor(r)
  PROVE  StaysSound(group, h)
<1>1. callback.runAfter \in SUBSET Name
  BY TargetsType DEF Target
<1>2. CASE callback.fin
  <2>1. PICK n \in SafeNames(UsedNames(group), r) :
          \/ h = FixInvalidFinallyListTask(group, callback.name, r, n)
          \/ h = ConvertFinallyListToTask(group, callback.name, r, n)
    BY <1>2 DEF PickedFor
  <2>2. n \in TaskName /\ n \notin UsedNames(group)
    BY SafeNamesFresh
  <2>3. /\ StaysSound(group, FixInvalidFinallyListTask(group, callback.name, r, n))
        /\ StaysSound(group, ConvertFinallyListToTask(group, callback.name, r, n))
    BY <2>2, ConvertFinallyKeeps
  <2> QED BY <2>1, <2>3
<1>3. CASE ~callback.fin
  <2>1. PICK n \in SafeNames(UsedNames(group), r) :
          h = ConvertListToTask(group, callback.name, r, callback.runAfter, n)
    BY <1>3 DEF PickedFor
  <2>2. n \in TaskName /\ n \notin UsedNames(group)
    BY SafeNamesFresh
  <2>3. \/ \E l \in group.listTasks : l.name = callback.name /\ l.runAfter = callback.runAfter
        \/ group.tasks = {} /\ group.listTasks = {} /\ callback.runAfter = {}
    BY <1>3, ListTargetNode, GraphOf
  <2>4. StaysSound(group, ConvertListToTask(group, callback.name, r, callback.runAfter, n))
    BY <2>2, <2>3, ConvertListToTaskKeeps
  <2> QED BY <2>1, <2>4
<1> QED BY <1>2, <1>3

LEMMA LoadingForLoads ==
  ASSUME NEW r, NEW h \in LoadingFor(r)
  PROVE  h.loadingTasks # {}
<1>1. PICK n : h = ConvertToLoadingTask(group, callback.name, r, callback.runAfter, callback.fin, n)
  BY DEF LoadingFor
<1>2. \E x : x \in h.loadingTasks
  BY <1>1 DEF ConvertToLoadingTask
<1> QED BY <1>2

\* A pipeline was saved only if its graph was accepted.
SavedOK == saved # None => TektonAccepts(saved)

LEMMA SavedStep ==
  ASSUME SavedOK, [Next]_vars
  PROVE  SavedOK'
<1> USE DEF SavedOK
<1>1. CASE Submit
  <2>1. saved' = PipelineOf(group) /\ TektonAccepts(PipelineOf(group))
    BY <1>1 DEF Submit
  <2> QED BY <2>1 DEF TektonAccepts
<1>2. CASE Reopen
  BY <1>2 DEF Reopen
<1>3. CASE UNCHANGED saved
  BY <1>3 DEF TektonAccepts
<1>4. CASE Edit \/ Hub
  <2>1. UNCHANGED saved
    BY <1>4 DEF Edit, AddListNode, AddNewFinallyListNode, RemoveListNode, RemoveInvalid,
      AskRemove, ConfirmRemove, TypeName, BlurName, OpenSearch, Dismiss, PickInstalled,
      Hub, PickHub, PickHubConflict, PickHubDetails, DetailsFetched, DetailsFailed,
      CreateFirstOk, CreateOk, CreateFailed, WatchAdded
  <2> QED BY <1>3, <2>1
<1>5. CASE \/ \E r \in Deletable : WatchDeleted(r)
           \/ \E l \in group.loadingTasks : LoadingCleanup(l)
           \/ UNCHANGED vars
  BY <1>3, <1>5 DEF WatchDeleted, LoadingCleanup, vars
<1> QED BY <1>1, <1>2, <1>4, <1>5 DEF Next

\* A step of a sound form without loading nodes, by operations whose captured data is current.
LEMMA SoundStep ==
  ASSUME TypeOK, [Next]_vars, ~Reopen,
         GraphOK(group), group.loadingTasks = {}, group'.loadingTasks = {}, CaptureCurrent,
         ~(ui \in Search /\ callback.invalid /\ ~callback.fin /\ group' # group)
  PROVE  StaysSound(group, group')
<1>1. group \in Grouping
  BY DEF TypeOK
<1>2. CASE UNCHANGED group
  BY <1>2, SameOrder DEF StaysSound
<1>3. RegularNames(group) \subseteq AllNames(group)
      /\ NamesOf(group.finallyTasks) \subseteq AllNames(group)
      /\ NamesOf(group.finallyListTasks) \subseteq AllNames(group)
  BY DEF AllNames
<1>4. ASSUME NEW t \in group.tasks, NEW n \in ListName, AddListNode(t, n) PROVE StaysSound(group, group')
  <2>1. n \notin RegularNames(group) \cup NamesOf(group.finallyTasks)
                   \cup NamesOf(group.finallyListTasks)
    BY <1>3, <1>4 DEF AddListNode
  <2>2. \/ group' = AddListNodeBefore(group, t, n)
        \/ group' = AddListNodeAfter(group, t, n)
        \/ group' = AddListNodeParallel(group, t, n)
    BY <1>4 DEF AddListNode
  <2>3. /\ StaysSound(group, AddListNodeBefore(group, t, n))
        /\ StaysSound(group, AddListNodeAfter(group, t, n))
        /\ StaysSound(group, AddListNodeParallel(group, t, n))
    BY <1>1, <2>1, AddListNodeKeeps
  <2> QED BY <2>2, <2>3
<1>5. ASSUME NEW n \in ListName, AddNewFinallyListNode(n) PROVE StaysSound(group, group')
  <2>1. n \notin RegularNames(group) \cup NamesOf(group.finallyTasks)
                   \cup NamesOf(group.finallyListTasks)
    BY <1>3, <1>5 DEF AddNewFinallyListNode
  <2>2. group' = AddFinallyListTask(group, n)
    BY <1>5 DEF AddNewFinallyListNode
  <2> QED BY <1>1, <2>1, <2>2, AddFinallyListTaskKeeps
<1>6. ASSUME NEW n \in ListName, RemoveListNode(n) PROVE StaysSound(group, group')
  <2>1. PICK r \in Found(n, group.listTasks), f \in Found(n, group.finallyListTasks) :
          group' = DeleteListTask(group, n, r, f)
    BY <1>6 DEF RemoveListNode
  <2> QED BY <1>1, <2>1, DeleteListTaskKeeps
<1>7. ASSUME NEW t \in group.tasks \cup group.finallyTasks, RemoveInvalid(t)
      PROVE  StaysSound(group, group')
  <2>1. PICK n \in TaskName : n = t.name
    BY <1>1 DEF Grouping, Task
  <2>2. PICK r \in Found(n, group.tasks), f \in Found(n, group.finallyTasks) :
          group' = RemoveTask(group, n, r, f)
    BY <1>7, <2>1 DEF RemoveInvalid
  <2> QED BY <1>1, <2>2, RemoveTaskKeeps
<1>8. CASE ConfirmRemove
  <2>1. ui \in Removal /\ ui.group = group
    BY <1>8 DEF ConfirmRemove, CaptureCurrent
  <2>2. PICK n \in TaskName : n = ui.name
    BY <2>1 DEF Removal
  <2>3. PICK r \in Found(n, group.tasks), f \in Found(n, group.finallyTasks) :
          group' = RemoveTask(group, n, r, f)
    BY <1>8, <2>1, <2>2 DEF ConfirmRemove
  <2> QED BY <1>1, <2>3, RemoveTaskKeeps
<1>9. CASE BlurName
  <2>1. ui \in Rename /\ ui.new \notin UsedNames(group)
    BY <1>9 DEF BlurName, CaptureCurrent
  <2>2. PICK old \in TaskName, new \in TaskName : old = ui.old /\ new = ui.new
    BY <2>1 DEF Rename
  <2>3. new \notin UsedNames(group) /\ group' = RenameTask(group, old, new)
    BY <1>9, <2>1, <2>2 DEF BlurName
  <2> QED BY <1>1, <2>3, RenameTaskKeeps
<1>10. ASSUME NEW r \in installed, PickInstalled(r) PROVE StaysSound(group, group')
  <2>1. ui \in Search /\ callback \in Targets /\ group' \in PickedFor(r)
    BY <1>10 DEF PickInstalled, Searching, CaptureCurrent
  <2>2. CASE group' = group
    BY <1>2, <2>2
  <2>3. CASE group' # group
    <3>1. ~callback.invalid \/ callback.fin
      BY <2>1, <2>3
    <3>2. r \in Resource
      BY DEF TypeOK
    <3> QED BY <1>1, <2>1, <3>1, <3>2, PickedForKeeps
  <2> QED BY <2>2, <2>3
<1>11. ASSUME NEW r, group' \in LoadingFor(r) PROVE FALSE
  BY <1>11, LoadingForLoads
<1>12. CASE Hub
  <2>1. UNCHANGED group \/ \E r : group' \in LoadingFor(r)
    BY <1>12 DEF Hub, PickHub, PickHubConflict, PickHubDetails, DetailsFetched, DetailsFailed,
      CreateFirstOk, CreateOk, CreateFailed, WatchAdded, CreateAfter, cluster
  <2> QED BY <1>2, <1>11, <2>1
<1>13. CASE Edit
  <2>1. ASSUME NEW t, AskRemove(t) PROVE UNCHANGED group
    BY <2>1 DEF AskRemove
  <2>2. ASSUME NEW t, NEW n, TypeName(t, n) PROVE UNCHANGED group
    BY <2>2 DEF TypeName
  <2>3. ASSUME NEW target, OpenSearch(target) \/ Dismiss PROVE UNCHANGED group
    BY <2>3 DEF OpenSearch, Dismiss
  <2> QED BY <1>2, <1>4, <1>5, <1>6, <1>7, <1>8, <1>9, <1>10, <1>13, <2>1, <2>2, <2>3 DEF Edit
<1>14. CASE \/ \E r \in Deletable : WatchDeleted(r)
            \/ \E l \in group.loadingTasks : LoadingCleanup(l)
            \/ Submit
            \/ UNCHANGED vars
  <2>1. UNCHANGED group
    BY <1>14 DEF WatchDeleted, Submit, vars
  <2> QED BY <1>2, <2>1
<1> QED BY <1>12, <1>13, <1>14 DEF Next

LEMMA EditStepHolds ==
  ASSUME TypeOK, SavedOK, [Next]_vars
  PROVE  EditStep
<1>1. SUFFICES ASSUME GraphOK(group), group.loadingTasks = {}, group'.loadingTasks = {},
                      CaptureCurrent,
                      ~(ui \in Search /\ callback.invalid /\ ~callback.fin /\ group' # group)
               PROVE  GraphOK(group')
  BY DEF EditStep
<1>2. CASE Reopen
  BY <1>2 DEF Reopen, Editing, SavedOK, TektonAccepts
<1>3. CASE ~Reopen
  BY <1>1, <1>3, SoundStep DEF StaysSound
<1> QED BY <1>2, <1>3

LEMMA CleanupStepHolds ==
  ASSUME TypeOK
  PROVE  CleanupStep
<1>1. SUFFICES ASSUME NEW l \in group.loadingTasks, LoadingCleanup(l),
                      GraphOK(group), group.loadingTasks = {l},
                      \A t \in group.listTasks : l.name \notin t.runAfter
               PROVE  GraphOK(group')
  BY DEF CleanupStep
<1>2. group \in Grouping
  BY DEF TypeOK
<1>3. PICK n \in SafeNames(UsedNames(group), l.res) :
        group' = IF l.fin THEN ConvertLoadingNodeToFinallyTask(group, l, n)
                          ELSE ConvertLoadingNodeToTask(group, l, n)
  BY <1>1 DEF LoadingCleanup
<1>4. n \in TaskName /\ n \notin UsedNames(group)
  <2>1. l.res \in Resource
    BY <1>2 DEF Grouping, LoadingTask
  <2> QED BY <2>1, SafeNamesFresh
<1>5. CASE l.fin
  BY <1>1, <1>2, <1>3, <1>4, <1>5, ConvertLoadingNodeToFinallyTaskKeeps
<1>6. CASE ~l.fin
  BY <1>1, <1>2, <1>3, <1>4, <1>6, ConvertLoadingNodeToTaskKeeps
<1> QED BY <1>5, <1>6

\* The invariants the step lemmas rest on.
LEMMA Invariants == Spec => [](TypeOK /\ SavedOK)
<1>1. Init => SavedOK
  BY DEF Init, SavedOK
<1>2. SavedOK /\ [Next]_vars => SavedOK'
  BY SavedStep
<1>3. Spec => []SavedOK
  BY <1>1, <1>2, PTL DEF Spec
<1> QED BY <1>3, TypeCorrect, PTL

\* An edit whose captured data is current, with no loading node about, keeps the names of
\* the form unique, its runAfters closed and its graph without a cycle; repairing an invalid
\* regular node is left out.
THEOREM EditsKeepTheGraph == Spec => EditsKeepGraph
<1>1. TypeOK /\ SavedOK /\ [Next]_vars => [EditStep]_vars
  BY EditStepHolds
<1> QED BY <1>1, Invariants, PTL DEF Spec, EditsKeepGraph

\* So does the task that takes the place of the only loading node, when no list node runs
\* after that.
THEOREM CleanupKeepsTheGraph == Spec => CleanupKeepsGraph
<1>1. TypeOK /\ SavedOK /\ [Next]_vars => [CleanupStep]_vars
  BY CleanupStepHolds
<1> QED BY <1>1, Invariants, PTL DEF Spec, CleanupKeepsGraph

-----------------------------------------------------------------------------
(***************************************************************************)
(* Without Artifact Hub and without dangling references.                   *)
(***************************************************************************)

\* The resources that the tasks of a form refer to.
Refs(g) == {t.res : t \in g.tasks \cup g.finallyTasks}

\* The integration is off, nobody deletes a resource, and the builder opens on pipelines that
\* the cluster has accepted and whose references resolve.
LocalAssumption ==
  /\ HubTasks = {} /\ Deletable = {}
  /\ \A p \in Existing : TektonAccepts(p) /\ Refs(FormOf(p)) \subseteq InitiallyThere

\* The form then never has a loading node or an invalid one, and what an open search, name
\* field or dialog captured is current, for nothing else can happen meanwhile.
LocalInv ==
  /\ GraphOK(group) /\ group.loadingTasks = {}
  /\ installed = InitiallyThere /\ arriving = {} /\ creating = {} /\ pending = {}
  /\ Refs(group) \subseteq installed
  /\ CaptureCurrent
  /\ saved # None =>
       /\ ui = None /\ saved \in Pipeline /\ saved = PipelineOf(group)
       /\ TektonAccepts(saved) /\ Refs(FormOf(saved)) \subseteq installed

LEMMA MapsKeepRefs ==
  ASSUME NEW S \in SUBSET Task, NEW T, \A t \in S : t.res \in T
  PROVE  /\ \A x, y : \A t \in MapReplaceRelated(x, y, S) : t.res \in T
         /\ \A x : \A t \in MapStitchReplace(x, S) : t.res \in T
         /\ \A x, y : \A t \in MapBeRelated(x, y, S) : t.res \in T
         /\ \A x, y : \A t \in MapAddRelated(x, y, S) : t.res \in T
         /\ \A x : Without(x, S) \in SUBSET Task /\ \A t \in Without(x, S) : t.res \in T
<1>1. ASSUME NEW t \in Task, NEW A PROVE [t EXCEPT !.runAfter = A].res = t.res
  BY DEF Task
<1>2. ASSUME NEW x, NEW y, NEW t \in MapReplaceRelated(x, y, S) PROVE t.res \in T
  <2>1. PICK u \in S : \E A : t = [u EXCEPT !.runAfter = A]
    BY DEF MapReplaceRelated
  <2> QED BY <1>1, <2>1
<1>3. ASSUME NEW x, NEW t \in MapStitchReplace(x, S) PROVE t.res \in T
  <2>1. PICK u \in S : \E A : t = [u EXCEPT !.runAfter = A]
    BY DEF MapStitchReplace
  <2> QED BY <1>1, <2>1
<1>4. ASSUME NEW x, NEW y, NEW t \in MapBeRelated(x, y, S) PROVE t.res \in T
  <2>1. PICK u \in S : \E A : t = [u EXCEPT !.runAfter = A]
    BY DEF MapBeRelated
  <2> QED BY <1>1, <2>1
<1>5. ASSUME NEW x, NEW y, NEW t \in MapAddRelated(x, y, S) PROVE t.res \in T
  <2>1. PICK u \in S : \E A : t = [u EXCEPT !.runAfter = A]
    BY DEF MapAddRelated
  <2> QED BY <1>1, <2>1
<1>6. \A x : Without(x, S) \in SUBSET Task /\ \A t \in Without(x, S) : t.res \in T
  BY DEF Without
<1> QED BY <1>2, <1>3, <1>4, <1>5, <1>6

LEMMA AddListNodeRefs ==
  ASSUME NEW g \in Grouping, NEW t, NEW n
  PROVE  /\ Refs(AddListNodeBefore(g, t, n)) \subseteq Refs(g)
         /\ Refs(AddListNodeAfter(g, t, n)) \subseteq Refs(g)
         /\ Refs(AddListNodeParallel(g, t, n)) \subseteq Refs(g)
         /\ Refs(AddFinallyListTask(g, n)) = Refs(g)
<1>1. g.tasks \in SUBSET Task /\ \A x \in g.tasks : x.res \in Refs(g)
  BY DEF Grouping, Refs
<1>3. /\ \A x \in MapBeRelated(n, t.name, g.tasks) : x.res \in Refs(g)
      /\ \A x \in MapReplaceRelated(n, t.name, g.tasks) : x.res \in Refs(g)
      /\ \A x \in MapAddRelated(n, t.name, g.tasks) : x.res \in Refs(g)
  BY <1>1, MapsKeepRefs
<1>4. \A x \in g.finallyTasks : x.res \in Refs(g)
  BY DEF Refs
<1>5. /\ AddListNodeBefore(g, t, n).tasks = MapBeRelated(n, t.name, g.tasks)
      /\ AddListNodeAfter(g, t, n).tasks = MapReplaceRelated(n, t.name, g.tasks)
      /\ AddListNodeParallel(g, t, n).tasks = MapAddRelated(n, t.name, g.tasks)
      /\ AddFinallyListTask(g, n).tasks = g.tasks
  BY DEF AddListNodeBefore, AddListNodeAfter, AddListNodeParallel, AddFinallyListTask, Grouping
<1>6. /\ AddListNodeBefore(g, t, n).finallyTasks = g.finallyTasks
      /\ AddListNodeAfter(g, t, n).finallyTasks = g.finallyTasks
      /\ AddListNodeParallel(g, t, n).finallyTasks = g.finallyTasks
      /\ AddFinallyListTask(g, n).finallyTasks = g.finallyTasks
  BY DEF AddListNodeBefore, AddListNodeAfter, AddListNodeParallel, AddFinallyListTask, Grouping
<1>7. \A h : /\ \A x \in h.tasks : x.res \in Refs(g)
             /\ \A x \in h.finallyTasks : x.res \in Refs(g)
             => Refs(h) \subseteq Refs(g)
  BY DEF Refs
<1>8. Refs(AddFinallyListTask(g, n)) = Refs(g)
  BY <1>5, <1>6 DEF Refs
<1> QED BY <1>3, <1>4, <1>5, <1>6, <1>7, <1>8, Zenon

LEMMA RemoveRefs ==
  ASSUME NEW g \in Grouping, NEW n, NEW r, NEW f
  PROVE  /\ Refs(DeleteListTask(g, n, r, f)) \subseteq Refs(g)
         /\ Refs(RemoveTask(g, n, r, f)) \subseteq Refs(g)
<1>1. /\ g.tasks \in SUBSET Task /\ \A x \in g.tasks : x.res \in Refs(g)
      /\ g.finallyTasks \in SUBSET Task /\ \A x \in g.finallyTasks : x.res \in Refs(g)
  BY DEF Grouping, Refs
<1>2. /\ \A x \in MapStitchReplace(r, g.tasks) : x.res \in Refs(g)
      /\ \A x \in MapStitchReplace(f, g.finallyTasks) : x.res \in Refs(g)
      /\ Without(n, g.tasks) \in SUBSET Task /\ \A x \in Without(n, g.tasks) : x.res \in Refs(g)
      /\ Without(n, g.finallyTasks) \in SUBSET Task
      /\ \A x \in Without(n, g.finallyTasks) : x.res \in Refs(g)
  BY <1>1, MapsKeepRefs
<1>3. /\ \A x \in MapStitchReplace(r, Without(n, g.tasks)) : x.res \in Refs(g)
      /\ \A x \in MapStitchReplace(f, Without(n, g.finallyTasks)) : x.res \in Refs(g)
  BY <1>2, MapsKeepRefs
<1>4. /\ DeleteListTask(g, n, r, f).tasks = MapStitchReplace(r, g.tasks)
      /\ DeleteListTask(g, n, r, f).finallyTasks = MapStitchReplace(f, g.finallyTasks)
      /\ RemoveTask(g, n, r, f).tasks = MapStitchReplace(r, Without(n, g.tasks))
      /\ RemoveTask(g, n, r, f).finallyTasks = MapStitchReplace(f, Without(n, g.finallyTasks))
  BY DEF DeleteListTask, RemoveTask, Grouping
<1>5. \A h : /\ \A x \in h.tasks : x.res \in Refs(g)
             /\ \A x \in h.finallyTasks : x.res \in Refs(g)
             => Refs(h) \subseteq Refs(g)
  BY DEF Refs
<1> QED BY <1>2, <1>3, <1>4, <1>5, Zenon

LEMMA RenameRefs ==
  ASSUME NEW g \in Grouping, NEW old, NEW new
  PROVE  Refs(RenameTask(g, old, new)) \subseteq Refs(g)
<1>1. ASSUME NEW S \in SUBSET Task, \A x \in S : x.res \in Refs(g)
      PROVE  \A x \in RenameIn(old, new, S) : x.res \in Refs(g)
  <2>1. \A x \in MapReplaceRelated(new, old, Without(old, S)) : x.res \in Refs(g)
    BY <1>1, MapsKeepRefs
  <2>2. ASSUME NEW t \in S PROVE [t EXCEPT !.name = new].res \in Refs(g)
    BY <1>1, <2>2 DEF Task
  <2> QED BY <2>1, <2>2 DEF RenameIn
<1>2. /\ g.tasks \in SUBSET Task /\ \A x \in g.tasks : x.res \in Refs(g)
      /\ g.finallyTasks \in SUBSET Task /\ \A x \in g.finallyTasks : x.res \in Refs(g)
  BY DEF Grouping, Refs
<1>3. /\ RenameTask(g, old, new).tasks = RenameIn(old, new, g.tasks)
      /\ RenameTask(g, old, new).finallyTasks = RenameIn(old, new, g.finallyTasks)
  BY DEF RenameTask, Grouping
<1>4. \A h : /\ \A x \in h.tasks : x.res \in Refs(g)
             /\ \A x \in h.finallyTasks : x.res \in Refs(g)
             => Refs(h) \subseteq Refs(g)
  BY DEF Refs
<1> QED BY <1>1, <1>2, <1>3, <1>4, Zenon

LEMMA ConvertRefs ==
  ASSUME NEW g \in Grouping, NEW name, NEW res, NEW A, NEW new
  PROVE  /\ Refs(ConvertListToTask(g, name, res, A, new)) \subseteq Refs(g) \cup {res}
         /\ Refs(ConvertFinallyListToTask(g, name, res, new)) \subseteq Refs(g) \cup {res}
<1>1. /\ g.tasks \in SUBSET Task /\ \A x \in g.tasks : x.res \in Refs(g)
      /\ g.finallyTasks \in SUBSET Task /\ \A x \in g.finallyTasks : x.res \in Refs(g)
  BY DEF Grouping, Refs
<1>2. /\ \A x \in MapReplaceRelated(new, name, g.tasks) : x.res \in Refs(g)
      /\ \A x \in MapReplaceRelated(new, name, g.finallyTasks) : x.res \in Refs(g)
  BY <1>1, MapsKeepRefs
<1>3. \A B : [name |-> new, runAfter |-> B, res |-> res].res = res
  OBVIOUS
<1>4. /\ ConvertListToTask(g, name, res, A, new).tasks
           = MapReplaceRelated(new, name, g.tasks)
               \cup {[name |-> new, runAfter |-> A, res |-> res]}
      /\ ConvertListToTask(g, name, res, A, new).finallyTasks = g.finallyTasks
      /\ ConvertFinallyListToTask(g, name, res, new).finallyTasks
           = MapReplaceRelated(new, name, g.finallyTasks)
               \cup {[name |-> new, runAfter |-> {}, res |-> res]}
      /\ ConvertFinallyListToTask(g, name, res, new).tasks = g.tasks
  BY DEF ConvertListToTask, ConvertFinallyListToTask, Grouping
<1> DEFINE R == Refs(g) \cup {res}
<1>5. \A h : (\A x \in h.tasks : x.res \in R) /\ (\A x \in h.finallyTasks : x.res \in R)
             => Refs(h) \subseteq R
  BY DEF Refs
<1>6. /\ \A x \in ConvertListToTask(g, name, res, A, new).tasks : x.res \in R
      /\ \A x \in ConvertListToTask(g, name, res, A, new).finallyTasks : x.res \in R
  BY <1>1, <1>2, <1>3, <1>4
<1>7. /\ \A x \in ConvertFinallyListToTask(g, name, res, new).tasks : x.res \in R
      /\ \A x \in ConvertFinallyListToTask(g, name, res, new).finallyTasks : x.res \in R
  BY <1>1, <1>2, <1>3, <1>4
<1> QED BY <1>5, <1>6, <1>7

\* Every operation but the hub's leaves the loading nodes as they are.
LEMMA EditsKeepLoading ==
  ASSUME NEW g \in Grouping
  PROVE  /\ \A t, n : /\ AddListNodeBefore(g, t, n).loadingTasks = g.loadingTasks
                      /\ AddListNodeAfter(g, t, n).loadingTasks = g.loadingTasks
                      /\ AddListNodeParallel(g, t, n).loadingTasks = g.loadingTasks
         /\ \A n : AddFinallyListTask(g, n).loadingTasks = g.loadingTasks
         /\ \A n, r, f : /\ DeleteListTask(g, n, r, f).loadingTasks = g.loadingTasks
                         /\ RemoveTask(g, n, r, f).loadingTasks = g.loadingTasks
         /\ \A old, new : RenameTask(g, old, new).loadingTasks = g.loadingTasks
         /\ \A name, res, A, new :
              /\ ConvertListToTask(g, name, res, A, new).loadingTasks = g.loadingTasks
              /\ ConvertFinallyListToTask(g, name, res, new).loadingTasks = g.loadingTasks
  BY DEF Grouping, AddListNodeBefore, AddListNodeAfter, AddListNodeParallel, AddFinallyListTask,
    DeleteListTask, RemoveTask, RenameTask, ConvertListToTask, ConvertFinallyListToTask


LEMMA NoInvalidTarget ==
  ASSUME Refs(group) \subseteq installed, NEW target \in Targets
  PROVE  ~target.invalid
<1>1. \A t \in group.tasks \cup group.finallyTasks : Resolves(t)
  BY DEF Refs, Resolves
<1>2. /\ {x \in group.tasks : ~Resolves(x)} = {}
      /\ {x \in group.finallyTasks : ~Resolves(x)} = {}
  BY <1>1
<1>3. \A n, A, fin : ~ListTarget(n, A, fin).invalid
  BY DEF ListTarget
<1> HIDE DEF Resolves
<1>4. \/ target \in {ListTarget(n, {}, FALSE) :
             n \in IF group.listTasks = {} THEN {InitialNode} ELSE NamesOf(group.listTasks)}
      \/ target \in {ListTarget(l.name, l.runAfter, FALSE) : l \in group.listTasks}
      \/ target \in {ListTarget(l.name, {}, TRUE) : l \in group.finallyListTasks}
  BY <1>2, Zenon DEF Targets
<1> QED BY <1>3, <1>4

\* What an edit may do to the form, as far as references and loading nodes go.
LEMMA LocalEdit ==
  ASSUME group \in Grouping, group.loadingTasks = {}, Refs(group) \subseteq installed,
         CaptureCurrent, Edit
  PROVE  /\ group'.loadingTasks = {} /\ Refs(group') \subseteq installed
         /\ UNCHANGED <<installed, arriving, creating, pending, saved>>
<1> USE DEF cluster
<1>1. group \in Grouping /\ group.loadingTasks = {} /\ Refs(group) \subseteq installed
  OBVIOUS
<1> DEFINE Goal == /\ group'.loadingTasks = {} /\ Refs(group') \subseteq installed
                   /\ UNCHANGED <<installed, arriving, creating, pending, saved>>
<1>2. ASSUME NEW t \in group.tasks, NEW n \in ListName, AddListNode(t, n) PROVE Goal
  <2>1. \/ group' = AddListNodeBefore(group, t, n)
        \/ group' = AddListNodeAfter(group, t, n)
        \/ group' = AddListNodeParallel(group, t, n)
    BY <1>2 DEF AddListNode
  <2>2. group'.loadingTasks = {} /\ Refs(group') \subseteq installed
    BY <1>1, <2>1, AddListNodeRefs, EditsKeepLoading
  <2> QED BY <1>2, <2>2 DEF AddListNode
<1>3. ASSUME NEW n \in ListName, AddNewFinallyListNode(n) PROVE Goal
  <2>1. group'.loadingTasks = {} /\ Refs(group') \subseteq installed
    BY <1>1, <1>3, AddListNodeRefs, EditsKeepLoading DEF AddNewFinallyListNode
  <2> QED BY <1>3, <2>1 DEF AddNewFinallyListNode
<1>4. ASSUME NEW n \in ListName, RemoveListNode(n) PROVE Goal
  <2>1. \E r, f : group' = DeleteListTask(group, n, r, f)
    BY <1>4 DEF RemoveListNode
  <2>2. group'.loadingTasks = {} /\ Refs(group') \subseteq installed
    BY <1>1, <2>1, RemoveRefs, EditsKeepLoading
  <2> QED BY <1>4, <2>2 DEF RemoveListNode
<1>5. ASSUME NEW t \in group.tasks \cup group.finallyTasks, RemoveInvalid(t) PROVE Goal
  <2>1. Resolves(t)
    BY <1>1 DEF Refs, Resolves
  <2> QED BY <1>5, <2>1 DEF RemoveInvalid
<1>6. ASSUME NEW t, AskRemove(t) PROVE Goal
  BY <1>1, <1>6 DEF AskRemove
<1>7. ASSUME NEW t, NEW n, TypeName(t, n) PROVE Goal
  BY <1>1, <1>7 DEF TypeName
<1>8. CASE ConfirmRemove
  <2>1. ui.group = group
    BY <1>8 DEF ConfirmRemove, CaptureCurrent
  <2>2. \E r, f : group' = RemoveTask(group, ui.name, r, f)
    BY <1>8, <2>1 DEF ConfirmRemove
  <2>3. group'.loadingTasks = {} /\ Refs(group') \subseteq installed
    BY <1>1, <2>2, RemoveRefs, EditsKeepLoading
  <2> QED BY <1>8, <2>3 DEF ConfirmRemove
<1>9. CASE BlurName
  <2>1. group'.loadingTasks = {} /\ Refs(group') \subseteq installed
    BY <1>1, <1>9, RenameRefs, EditsKeepLoading DEF BlurName
  <2> QED BY <1>9, <2>1 DEF BlurName
<1>10. ASSUME NEW target, OpenSearch(target) PROVE Goal
  BY <1>1, <1>10 DEF OpenSearch
<1>11. CASE Dismiss
  BY <1>1, <1>11 DEF Dismiss
<1>12. ASSUME NEW r \in installed, PickInstalled(r) PROVE Goal
  <2>1. callback \in Targets
    BY <1>12 DEF PickInstalled, Searching, CaptureCurrent
  <2>2. ~callback.invalid
    BY <1>1, <2>1, NoInvalidTarget
  <2>3. \/ \E n : group' = ConvertFinallyListToTask(group, callback.name, r, n)
        \/ \E n : group' = ConvertListToTask(group, callback.name, r, callback.runAfter, n)
    BY <1>12, <2>2 DEF PickInstalled, PickedFor
  <2>4. group'.loadingTasks = {} /\ Refs(group') \subseteq installed
    BY <1>1, <2>3, ConvertRefs, EditsKeepLoading
  <2> QED BY <1>12, <2>4 DEF PickInstalled
<1> QED BY <1>2, <1>3, <1>4, <1>5, <1>6, <1>7, <1>8, <1>9, <1>10, <1>11, <1>12 DEF Edit

\* What is open after an edit was opened by it.
LEMMA LocalCapture ==
  ASSUME Edit
  PROVE  Editing /\ CaptureCurrent'
<1> USE NoneAssumption DEF cluster
<1>1. ASSUME ui' = None PROVE CaptureCurrent'
  BY <1>1 DEF CaptureCurrent
<1>2. ASSUME NEW t \in group.tasks, NEW n \in ListName, AddListNode(t, n)
      PROVE  Editing /\ CaptureCurrent'
  BY <1>1, <1>2 DEF AddListNode, Idle
<1>3. ASSUME NEW n \in ListName, AddNewFinallyListNode(n) \/ RemoveListNode(n)
      PROVE  Editing /\ CaptureCurrent'
  BY <1>1, <1>3 DEF AddNewFinallyListNode, RemoveListNode, Idle
<1>4. ASSUME NEW t, RemoveInvalid(t) PROVE Editing /\ CaptureCurrent'
  BY <1>1, <1>4 DEF RemoveInvalid, Idle
<1>5. ASSUME NEW t, AskRemove(t) PROVE Editing /\ CaptureCurrent'
  <2>1. ui'.kind = "remove" /\ ui'.group = group'
    BY <1>5 DEF AskRemove
  <2>2. ui' \notin Search \cup Rename
    BY <2>1 DEF Search, Rename
  <2> QED BY <1>5, <2>1, <2>2 DEF AskRemove, Idle, CaptureCurrent
<1>6. ASSUME NEW t, NEW n, TypeName(t, n) PROVE Editing /\ CaptureCurrent'
  <2>1. ui'.kind = "rename" /\ ui'.new \notin UsedNames(group)'
    BY <1>6 DEF TypeName, UsedNames
  <2>2. ui' \notin Search \cup Removal
    BY <2>1 DEF Search, Removal
  <2> QED BY <1>6, <2>1, <2>2 DEF TypeName, Idle, CaptureCurrent
<1>7. CASE ConfirmRemove \/ BlurName \/ Dismiss \/ \E r \in installed : PickInstalled(r)
  BY <1>1, <1>7 DEF ConfirmRemove, BlurName, Dismiss, PickInstalled, Searching, Calling
<1>8. ASSUME NEW target \in Targets, OpenSearch(target) PROVE Editing /\ CaptureCurrent'
  <2>1. UNCHANGED <<group, installed>> /\ callback' = target /\ ui'.kind = "search"
    BY <1>8 DEF OpenSearch
  <2>2. Targets' = Targets
    BY <2>1 DEF Targets, SoloNode, Resolves
  <2>3. ui' \notin Rename \cup Removal
    BY <2>1 DEF Rename, Removal
  <2> QED BY <1>8, <2>1, <2>2, <2>3 DEF OpenSearch, Idle, CaptureCurrent
<1> QED BY <1>2, <1>3, <1>4, <1>5, <1>6, <1>7, <1>8 DEF Edit

LEMMA LocalStep ==
  ASSUME LocalAssumption, TypeOK, LocalInv, [Next]_vars
  PROVE  LocalInv'
<1>1. GraphOK(group')
  <2>1. SavedOK
    BY DEF LocalInv, SavedOK
  <2>2. EditStep
    BY <2>1, EditStepHolds
  <2>3. group'.loadingTasks = {}
    <3>1. CASE Edit
      BY <3>1, LocalEdit DEF TypeOK, LocalInv
    <3>2. CASE Reopen
      BY <3>2 DEF Reopen, FormOf
    <3>3. CASE \/ Hub \/ Submit \/ UNCHANGED vars
               \/ \E r \in Deletable : WatchDeleted(r)
               \/ \E l \in group.loadingTasks : LoadingCleanup(l)
      BY <3>3 DEF LocalAssumption, LocalInv, Hub, Submit, vars
    <3> QED BY <3>1, <3>2, <3>3 DEF Next
  <2>4. ui \in Search => ~callback.invalid
    BY NoInvalidTarget DEF LocalInv, CaptureCurrent
  <2> QED BY <2>2, <2>3, <2>4 DEF EditStep, LocalInv
<1>2. CASE Edit
  <2>1. saved = None /\ CaptureCurrent'
    BY <1>2, LocalCapture DEF Editing
  <2>2. /\ group'.loadingTasks = {} /\ Refs(group') \subseteq installed
        /\ UNCHANGED <<installed, arriving, creating, pending, saved>>
    BY <1>2, LocalEdit DEF TypeOK, LocalInv
  <2> QED BY <1>1, <2>1, <2>2 DEF LocalInv
<1>3. CASE Submit
  <2>1. /\ UNCHANGED <<group, ui, callback, installed>> /\ ui = None
        /\ pending' = {} /\ creating' = {}
        /\ saved' = PipelineOf(group) /\ TektonAccepts(PipelineOf(group))
    BY <1>3 DEF Submit, Idle
  <2>2. arriving' = {}
    <3>1. Requested \cup {p.res : p \in pending} = {}
      BY DEF LocalInv, Requested
    <3> QED BY <1>3, <3>1 DEF Submit, LocalInv
  <2>3. CaptureCurrent'
    BY <2>1, NoneAssumption DEF CaptureCurrent
  <2>4. saved' \in Pipeline
    BY <2>1 DEF PipelineOf, Pipeline, TypeOK, Grouping
  <2>5. Refs(FormOf(saved')) = Refs(group)
    BY <2>1 DEF Refs, FormOf, PipelineOf
  <2>6. group'.loadingTasks = {} /\ Refs(group') \subseteq installed'
    BY <2>1 DEF LocalInv
  <2>7. TektonAccepts(saved') /\ Refs(FormOf(saved')) \subseteq installed'
    BY <2>1, <2>5 DEF LocalInv
  <2>8. installed' = InitiallyThere
    BY <2>1 DEF LocalInv
  <2> QED BY <1>1, <2>1, <2>2, <2>3, <2>4, <2>6, <2>7, <2>8 DEF LocalInv, TektonAccepts
<1>4. CASE Reopen
  <2>1. /\ group' = FormOf(saved) /\ saved' = None /\ saved # None
        /\ UNCHANGED <<ui, installed, creating, arriving, pending>>
    BY <1>4 DEF Reopen, Editing
  <2>2. CaptureCurrent'
    BY <2>1, NoneAssumption DEF LocalInv, CaptureCurrent
  <2>3. group'.loadingTasks = {}
    BY <2>1 DEF FormOf
  <2> QED BY <1>1, <2>1, <2>2, <2>3 DEF LocalInv
<1>5. CASE UNCHANGED vars
  <2>1. CaptureCurrent'
    BY <1>5 DEF vars, LocalInv, CaptureCurrent, Targets, SoloNode, Resolves, UsedNames
  <2> QED BY <1>1, <1>5, <2>1 DEF vars, LocalInv, TektonAccepts
<1>6. ~(Hub \/ (\E r \in Deletable : WatchDeleted(r)) \/ \E l \in group.loadingTasks : LoadingCleanup(l))
  BY DEF LocalAssumption, LocalInv, Hub
<1> QED BY <1>2, <1>3, <1>4, <1>5, <1>6 DEF Next

LEMMA LocalInit ==
  ASSUME LocalAssumption
  PROVE  Init => LocalInv
<1> SUFFICES ASSUME Init PROVE LocalInv OBVIOUS
<1>1. PICK p \in Existing : group = FormOf(p)
  BY DEF Init
<1>2. GraphOK(group) /\ Refs(group) \subseteq InitiallyThere
  BY <1>1 DEF LocalAssumption, TektonAccepts
<1>3. group.loadingTasks = {}
  BY <1>1 DEF FormOf
<1>4. CaptureCurrent
  BY NoneAssumption DEF Init, CaptureCurrent
<1> QED BY <1>2, <1>3, <1>4 DEF Init, LocalInv

\* Without Artifact Hub, deletions and dangling references the form always holds a graph one can
\* run: whatever is inserted, picked, renamed, removed, saved and opened again, in any order,
\* names stay unique, every runAfter names a node, and no cycle comes about.
THEOREM LocalGraph ==
  ASSUME LocalAssumption
  PROVE  Spec => []GraphInv
<1>1. Init => LocalInv
  BY LocalInit
<1>2. TypeOK /\ LocalInv /\ [Next]_vars => LocalInv'
  BY LocalStep
<1>3. LocalInv => GraphInv
  BY DEF LocalInv, GraphInv
<1> QED BY <1>1, <1>2, <1>3, TypeCorrect, PTL DEF Spec

\* A form that is opened again is the part of the graph that was submitted: its tasks, none of
\* which runs after a list node.
LEMMA PartOrder ==
  ASSUME NEW R, NEW Q \in SUBSET R, Distinct(R), Closed(Q)
  PROVE  KeepsOrder(R, Q)
<1> USE NamesOfMember, NamesOfPick
<1>1. NamesOf(Q) \subseteq NamesOf(R)
  BY DEF NamesOf
<1>2. \A t \in R : t.name \in NamesOf(Q) => t \in Q
  BY DEF Distinct
<1>3. ASSUME NEW n \in NamesOf(R) \cap NamesOf(Q), NEW S, DownFrom(R, n, S)
      PROVE  \E U : DownFrom(Q, n, U) /\ U \cap NamesOf(R) \subseteq S
  <2>1. DownFrom(Q, n, S \cap NamesOf(Q))
    BY <1>1, <1>3 DEF DownFrom
  <2> QED BY <2>1
<1>4. ASSUME NEW n \in NamesOf(R) \cap NamesOf(Q), NEW S, DownFrom(Q, n, S)
      PROVE  DownFrom(R, n, S)
  BY <1>1, <1>2, <1>4 DEF DownFrom, Closed
<1>5. \A n \in NamesOf(R) \cap NamesOf(Q) : \A S :
        /\ DownFrom(R, n, S) => \E U : DownFrom(Q, n, U) /\ U \cap NamesOf(R) \subseteq S
        /\ DownFrom(Q, n, S) => \E U : DownFrom(R, n, U) /\ U \cap NamesOf(Q) \subseteq S
  BY <1>3, <1>4
<1> QED BY <1>5, KeepsOrderFrom

LEMMA OrderStep ==
  ASSUME TypeOK, LocalInv, LocalInv', [Next]_vars
  PROVE  KeepsOrder(Regular(group), Regular(group'))
<1>1. CASE Reopen
  <2>1. group' = FormOf(PipelineOf(group)) /\ TektonAccepts(PipelineOf(group))
    BY <1>1 DEF Reopen, Editing, LocalInv
  <2>2. Regular(group') = group.tasks
    BY <2>1 DEF FormOf, PipelineOf, Regular
  <2>3. group.tasks \subseteq Regular(group)
    BY DEF Regular
  <2>4. Distinct(Regular(group)) /\ Closed(Regular(group'))
    BY DEF LocalInv, GraphOK, NamesUnique
  <2> QED BY <2>2, <2>3, <2>4, PartOrder
<1>2. CASE ~Reopen
  <2>1. ui \in Search => ~callback.invalid
    BY NoInvalidTarget DEF LocalInv, CaptureCurrent
  <2>2. StaysSound(group, group')
    BY <1>2, <2>1, SoundStep DEF LocalInv
  <2> QED BY <2>2 DEF StaysSound
<1> QED BY <1>1, <1>2

\* No insertion, removal, rename, pick or reopening then changes which of the nodes it leaves
\* in place runs before which, directly or through others.
THEOREM LocalOrder ==
  ASSUME LocalAssumption
  PROVE  Spec => OrderKept
<1>1. Init => LocalInv
  BY LocalInit
<1>2. TypeOK /\ LocalInv /\ [Next]_vars => LocalInv'
  BY LocalStep
<1>3. TypeOK /\ LocalInv /\ LocalInv' /\ [Next]_vars
      => [\A n \in RegularNames(group) \cap RegularNames(group') :
            Ancestors(group, n) \cap RegularNames(group')
              = Ancestors(group', n) \cap RegularNames(group)]_group
  BY OrderStep, AncestorsAre DEF KeepsOrder, RegularNames
<1> QED BY <1>1, <1>2, <1>3, TypeCorrect, PTL DEF Spec, OrderKept

-----------------------------------------------------------------------------
(***************************************************************************)
(* The drawing.                                                            *)
(***************************************************************************)

\* A set of finite sets that is not empty has one of which no other part is in it.
LEMMA LeastSet ==
  ASSUME NEW T, T # {}, \A N \in T : IsFiniteSet(N)
  PROVE  \E N \in T : \A M \in T : M \subseteq N => M = N
<1>1. \A N \in T : Cardinality(N) \in Nat
  BY FS_CardinalityType
<1> DEFINE K == {Cardinality(N) : N \in T}
<1>2. PICK x \in K : \A y \in K : ~(<<y, x>> \in OpToRel(<, Nat))
  <2>1. K \subseteq Nat /\ K # {}
    BY <1>1
  <2> HIDE DEF K
  <2> QED BY <2>1, NatLessThanWellFounded, WFMin, Zenon
<1>3. PICK N \in T : Cardinality(N) = x
  OBVIOUS
<1>4. ASSUME NEW M \in T, M \subseteq N, M # N PROVE FALSE
  <2>1. /\ M \in SUBSET N /\ IsFiniteSet(N)
        /\ Cardinality(M) \in Nat /\ Cardinality(N) \in Nat
    BY <1>1, <1>4
  <2>2. Cardinality(M) < Cardinality(N)
    BY <1>4, <2>1, FS_Subset
  <2> QED BY <1>2, <1>3, <2>1, <2>2 DEF OpToRel
<1> QED BY <1>4

\* In a finite graph without cycles no names but none have each another one behind them.
LEMMA LastExists ==
  ASSUME NEW N, Acyclic(N), NEW U \in SUBSET NamesOf(N), IsFiniteSet(U),
         \A u \in U : \E t \in N : t.name \in U /\ u \in t.runAfter
  PROVE  U = {}
<1> SUFFICES ASSUME U # {} PROVE FALSE
  OBVIOUS
<1> DEFINE Followed(V) == V # {} /\ \A u \in V : \E t \in N : t.name \in V /\ u \in t.runAfter
           T == {V \in SUBSET U : Followed(V)}
<1>1. U \in T
  OBVIOUS
<1>2. \A V \in T : IsFiniteSet(V)
  BY FS_Subset
<1>3. PICK V \in T : \A W \in T : W \subseteq V => W = V
  <2> HIDE DEF T
  <2> QED BY <1>1, <1>2, LeastSet
<1>4. PICK s \in V : \A t \in N : t.name = s => t.runAfter \cap V = {}
  BY <1>3 DEF Acyclic
<1>5. ASSUME NEW u \in V PROVE \E t \in N : t.name \in V \ {s} /\ u \in t.runAfter
  <2>1. PICK t \in N : t.name \in V /\ u \in t.runAfter
    BY <1>3
  <2>2. t.name # s
    BY <1>4, <2>1
  <2> QED BY <2>1, <2>2
<1>6. V \ {s} \in T
  <2>1. V \ {s} \in SUBSET U /\ V \ {s} # {}
    BY <1>3, <1>5
  <2>2. \A u \in V \ {s} : \E t \in N : t.name \in V \ {s} /\ u \in t.runAfter
    BY <1>5
  <2>3. Followed(V \ {s})
    BY <2>1, <2>2
  <2> HIDE DEF Followed
  <2> QED BY <2>1, <2>3
<1>7. V \ {s} # V /\ V \ {s} \subseteq V
  OBVIOUS
<1> HIDE DEF T
<1> QED BY <1>3, <1>6, <1>7

\* A set that holds, with a node that is drawn, those that it is drawn behind.
Backward(S) == \A r \in DrawnNodes : r.name \in S => r.runAfter \subseteq S

\* The nodes of a graph that one can draw.
Drawable(N) ==
  /\ \A n \in N : n = [name |-> n.name, runAfter |-> n.runAfter]
  /\ Distinct(N) /\ Closed(N) /\ Acyclic(N) /\ IsFiniteSet(NamesOf(N))

\* What is drawn of N in terms of N: which names, what leads to what, and what is last.
NamesDrawn(N) ==
  LET R == HandleParallelToParallelNodes(N)
  IN  /\ \A x : x \in NamesOf(R)
                <=> x \in NamesOf(N) \/ \E p \in ParallelOf(N) : x = SpacerOf(p, N)
      /\ NamesOf(DrawnNodes) = NamesOf(R) \cup {FinallyNode}

EdgesDrawn(N) ==
  LET P == ParallelOf(N)
  IN  \A S : Backward(S)
        <=> /\ \A t \in N \ P : t.name \in S => t.runAfter \subseteq S
            /\ \A p \in P : p.name \in S => SpacerOf(p, N) \in S
            /\ \A p \in P : SpacerOf(p, N) \in S => p.runAfter \subseteq S
            /\ FinallyNode \in S
                 => GetLastRegularTasks(HandleParallelToParallelNodes(N)) \subseteq S

LastDrawn(N) ==
  LET R == HandleParallelToParallelNodes(N)
  IN  \A x : x \in GetLastRegularTasks(R)
              <=> /\ x \in NamesOf(R)
                  /\ \A t \in N : x \notin t.runAfter
                  /\ \A p \in ParallelOf(N) : x # SpacerOf(p, N)

LEMMA DrawnShape ==
  ASSUME NEW N, N = BuilderNodes, Drawable(N)
  PROVE  NamesDrawn(N) /\ EdgesDrawn(N) /\ LastDrawn(N)
<1> DEFINE P == ParallelOf(N)
           R == HandleParallelToParallelNodes(N)
           sp == [p \in P |-> SpacerOf(p, N)]
           A == {[name |-> SpacerOf(p, N), runAfter |-> p.runAfter] : p \in P}
           B == {[p EXCEPT !.runAfter = {SpacerOf(p, N)}] : p \in P}
           last == [name |-> FinallyNode, runAfter |-> GetLastRegularTasks(R)]
<1>1. R = (N \ P) \cup A \cup B
  BY DEF HandleParallelToParallelNodes, ParallelOf, SpacerOf
<1>2. P \subseteq N
  BY DEF ParallelOf
<1>3. DrawnNodes = R \cup {last}
  BY DEF DrawnNodes
<1>4. \A p \in P : sp[p] = SpacerOf(p, N)
  OBVIOUS
<1> HIDE DEF R, P, sp
<1>5. /\ \A r \in A : \E p \in P : r.name = sp[p] /\ r.runAfter = p.runAfter
      /\ \A p \in P : \E r \in A : r.name = sp[p] /\ r.runAfter = p.runAfter
  <2> DEFINE h == [p \in P |-> [name |-> SpacerOf(p, N), runAfter |-> p.runAfter]]
  <2>1. \A p \in P : h[p].name = sp[p] /\ h[p].runAfter = p.runAfter
    BY <1>4
  <2>2. A = {h[p] : p \in P}
    OBVIOUS
  <2> HIDE DEF A, h
  <2> QED BY <2>1, <2>2
<1>6. /\ \A r \in B : \E p \in P : r.name = p.name /\ r.runAfter = {sp[p]}
      /\ \A p \in P : \E r \in B : r.name = p.name /\ r.runAfter = {sp[p]}
  <2> DEFINE h == [p \in P |-> [p EXCEPT !.runAfter = {SpacerOf(p, N)}]]
  <2>1. ASSUME NEW p \in P PROVE h[p].name = p.name /\ h[p].runAfter = {sp[p]}
    <3>1. p = [name |-> p.name, runAfter |-> p.runAfter]
      BY <1>2 DEF Drawable
    <3>2. h[p] = [p EXCEPT !.runAfter = {SpacerOf(p, N)}]
      OBVIOUS
    <3> HIDE DEF h
    <3> QED BY <1>4, <3>1, <3>2
  <2>2. B = {h[p] : p \in P}
    OBVIOUS
  <2> HIDE DEF B, h
  <2> QED BY <2>1, <2>2
<1> HIDE DEF A, B
<1>7. \A x : x \in NamesOf(R) <=> x \in NamesOf(N) \/ \E p \in P : x = sp[p]
  <2>1. ASSUME NEW x \in NamesOf(R) PROVE x \in NamesOf(N) \/ \E p \in P : x = sp[p]
    BY <1>1, <1>2, <1>5, <1>6 DEF NamesOf
  <2>2. ASSUME NEW x \in NamesOf(N) PROVE x \in NamesOf(R)
    <3>1. PICK t \in N : t.name = x
      BY DEF NamesOf
    <3>2. \E r \in R : r.name = x
      BY <1>1, <1>6, <3>1
    <3> QED BY <3>2 DEF NamesOf
  <2>3. ASSUME NEW p \in P PROVE sp[p] \in NamesOf(R)
    <3>1. \E r \in R : r.name = sp[p]
      BY <1>1, <1>5
    <3> QED BY <3>1 DEF NamesOf
  <2> QED BY <2>1, <2>2, <2>3
<1>8. NamesOf(DrawnNodes) = NamesOf(R) \cup {FinallyNode}
  <2>1. last.name = FinallyNode
    OBVIOUS
  <2> HIDE DEF last
  <2> QED BY <1>3, <2>1 DEF NamesOf
<1>9. ASSUME NEW S
      PROVE  Backward(S)
               <=> /\ \A t \in N \ P : t.name \in S => t.runAfter \subseteq S
                   /\ \A p \in P : p.name \in S => sp[p] \in S
                   /\ \A p \in P : sp[p] \in S => p.runAfter \subseteq S
                   /\ FinallyNode \in S => GetLastRegularTasks(R) \subseteq S
  <2>1. Backward(S) <=> /\ \A r \in R : r.name \in S => r.runAfter \subseteq S
                        /\ FinallyNode \in S => GetLastRegularTasks(R) \subseteq S
    <3>1. last.name = FinallyNode /\ last.runAfter = GetLastRegularTasks(R)
      OBVIOUS
    <3> HIDE DEF last
    <3> QED BY <1>3, <3>1 DEF Backward
  <2>2. (\A r \in R : r.name \in S => r.runAfter \subseteq S)
          <=> /\ \A t \in N \ P : t.name \in S => t.runAfter \subseteq S
              /\ \A r \in A : r.name \in S => r.runAfter \subseteq S
              /\ \A r \in B : r.name \in S => r.runAfter \subseteq S
    BY <1>1
  <2>3. (\A r \in A : r.name \in S => r.runAfter \subseteq S)
          <=> \A p \in P : sp[p] \in S => p.runAfter \subseteq S
    BY <1>5, Zenon
  <2>4. (\A r \in B : r.name \in S => r.runAfter \subseteq S)
          <=> \A p \in P : p.name \in S => sp[p] \in S
    <3>1. ASSUME \A r \in B : r.name \in S => r.runAfter \subseteq S, NEW p \in P, p.name \in S
          PROVE  sp[p] \in S
      BY <1>6, <3>1
    <3>2. ASSUME \A p \in P : p.name \in S => sp[p] \in S, NEW r \in B, r.name \in S
          PROVE  r.runAfter \subseteq S
      BY <1>6, <3>2
    <3> QED BY <3>1, <3>2
  <2> QED BY <2>1, <2>2, <2>3, <2>4
<1>10. ASSUME NEW x
       PROVE  x \in UNION {r.runAfter : r \in R}
                <=> \/ \E t \in N : x \in t.runAfter
                    \/ \E p \in P : x = sp[p]
  <2>1. x \in UNION {r.runAfter : r \in R} <=> \E r \in R : x \in r.runAfter
    OBVIOUS
  <2>2. (\E r \in R : x \in r.runAfter)
          <=> \/ \E t \in N \ P : x \in t.runAfter
              \/ \E r \in A : x \in r.runAfter
              \/ \E r \in B : x \in r.runAfter
    BY <1>1
  <2>3. (\E r \in A : x \in r.runAfter) <=> \E p \in P : x \in p.runAfter
    BY <1>5, Zenon
  <2>4. (\E r \in B : x \in r.runAfter) <=> \E p \in P : x = sp[p]
    <3>1. ASSUME NEW r \in B, x \in r.runAfter PROVE \E p \in P : x = sp[p]
      BY <1>6, <3>1
    <3>2. ASSUME NEW p \in P, x = sp[p] PROVE \E r \in B : x \in r.runAfter
      BY <1>6, <3>2
    <3> QED BY <3>1, <3>2
  <2> QED BY <1>2, <2>1, <2>2, <2>3, <2>4
<1>11. \A x : x \in GetLastRegularTasks(R)
          <=> /\ x \in NamesOf(R)
              /\ \A t \in N : x \notin t.runAfter
              /\ \A p \in P : x # sp[p]
  BY <1>10 DEF GetLastRegularTasks
<1>12. NamesDrawn(N)
  BY <1>4, <1>7, <1>8 DEF NamesDrawn, R, P
<1>13. EdgesDrawn(N)
  BY <1>4, <1>9 DEF EdgesDrawn, R, P
<1>14. LastDrawn(N)
  BY <1>4, <1>11 DEF LastDrawn, R, P
<1> QED BY <1>12, <1>13, <1>14

LEMMA AncestorsDown ==
  ASSUME NEW N, NEW n
  PROVE  DownFrom(N, n, AncestorsIn(N, n))
<1> DEFINE A == AncestorsIn(N, n)
<1>1. A \in SUBSET NamesOf(N)
  BY DEF AncestorsIn
<1>2. ASSUME NEW t \in N, t.name \in A \cup {n}, NEW x \in t.runAfter \cap NamesOf(N)
      PROVE  x \in A
  <2> SUFFICES ASSUME NEW S, DownFrom(N, n, S) PROVE x \in S
    BY <1>2 DEF AncestorsIn
  <2>1. t.name \in S \cup {n}
    BY <1>2 DEF AncestorsIn
  <2> QED BY <1>2, <2>1 DEF DownFrom
<1> HIDE DEF A
<1>3. DownFrom(N, n, A)
  BY <1>1, <1>2 DEF DownFrom
<1> QED BY <1>3 DEF A

\* Unless ids meet, spacers apart, the drawing has the order of its nodes, and the finally node is behind
\* all of them.
LEMMA DrawnOrder ==
  ASSUME NEW N, N = BuilderNodes, Drawable(N), IdsApart(N)
  PROVE  /\ Backward(NamesOf(DrawnNodes))
         /\ NamesOf(N) \subseteq NamesOf(DrawnNodes) /\ FinallyNode \in NamesOf(DrawnNodes)
         /\ \A m, n \in NamesOf(N) :
              (\A S \in SUBSET NamesOf(DrawnNodes) : Backward(S) /\ n \in S => m \in S)
                <=> m \in AncestorsIn(N, n) \cup {n}
         /\ \A S : Backward(S) /\ FinallyNode \in S => NamesOf(DrawnNodes) \subseteq S
<1> DEFINE P == ParallelOf(N)
           R == HandleParallelToParallelNodes(N)
           Last == GetLastRegularTasks(R)
           Sp(p) == SpacerOf(p, N)
           Shown == NamesOf(N)
           Drawn == NamesOf(DrawnNodes)
<1>1. /\ NamesOf(R) = Shown \cup {Sp(p) : p \in P}
      /\ Drawn = NamesOf(R) \cup {FinallyNode}
  <2>1. NamesDrawn(N)
    BY DrawnShape
  <2>2. \A x : x \in NamesOf(R) <=> x \in NamesOf(N) \/ \E p \in P : x = SpacerOf(p, N)
    BY <2>1 DEF NamesDrawn
  <2>3. Drawn = NamesOf(R) \cup {FinallyNode}
    BY <2>1 DEF NamesDrawn
  <2> HIDE DEF P, R, Drawn
  <2> QED BY <2>2, <2>3
<1>2. \A S : Backward(S)
         <=> /\ \A t \in N \ P : t.name \in S => t.runAfter \subseteq S
             /\ \A p \in P : p.name \in S => Sp(p) \in S
             /\ \A p \in P : Sp(p) \in S => p.runAfter \subseteq S
             /\ FinallyNode \in S => Last \subseteq S
  <2>1. EdgesDrawn(N)
    BY DrawnShape
  <2> QED BY <2>1 DEF EdgesDrawn
<1>3. \A x : x \in Last
               <=> /\ x \in NamesOf(R)
                   /\ \A t \in N : x \notin t.runAfter
                   /\ \A p \in P : x # Sp(p)
  <2>1. LastDrawn(N)
    BY DrawnShape
  <2> QED BY <2>1 DEF LastDrawn
<1>4. /\ Distinct(N) /\ Acyclic(N) /\ IsFiniteSet(Shown)
      /\ \A t \in N : t.name \in Shown /\ t.runAfter \subseteq Shown
      /\ FinallyNode \notin Shown /\ P \subseteq N
      /\ \A p \in P : Sp(p) \notin Shown /\ Sp(p) # FinallyNode
      /\ \A p, q \in P : Sp(p) = Sp(q) => p.runAfter = q.runAfter
  <2>1. P \subseteq N
    BY DEF ParallelOf
  <2>2. \A p, q \in P : Sp(p) = Sp(q) => p.runAfter = q.runAfter
    BY DEF IdsApart, Alike
  <2>3. FinallyNode \notin NamesOf(R) /\ \A p \in P : Sp(p) \notin Shown
    BY DEF IdsApart
  <2>4. \A t \in N : t.name \in Shown /\ t.runAfter \subseteq Shown
    BY NamesOfMember DEF Drawable, Closed
  <2>5. FinallyNode \notin Shown /\ \A p \in P : Sp(p) # FinallyNode
    <3> HIDE DEF P, R, Sp, Shown, Drawn
    <3> QED BY <1>1, <2>3
  <2> QED BY <2>1, <2>2, <2>3, <2>4, <2>5 DEF Drawable
<1> HIDE DEF P, R, Last, Sp, Shown, Drawn
<1>5. Backward(Drawn)
  <2>1. /\ \A t \in N \ P : t.name \in Drawn => t.runAfter \subseteq Drawn
        /\ \A p \in P : p.name \in Drawn => Sp(p) \in Drawn
        /\ \A p \in P : Sp(p) \in Drawn => p.runAfter \subseteq Drawn
    BY <1>1, <1>4
  <2>2. Last \subseteq Drawn
    BY <1>1, <1>3
  <2> QED BY <1>2, <2>1, <2>2
\* What a node of the form leads to when one goes back in it, and in the drawing.
<1>6. ASSUME NEW n \in Shown
      PROVE  LET A == AncestorsIn(N, n) \cup {n}
                 S == A \cup {Sp(p) : p \in {q \in P : q.name \in A}}
             IN  S \in SUBSET Drawn /\ Backward(S)
  <2> DEFINE A == AncestorsIn(N, n) \cup {n}
             S == A \cup {Sp(p) : p \in {q \in P : q.name \in A}}
  <2>1. A \subseteq Shown
    BY DEF AncestorsIn, Shown
  <2>2. ASSUME NEW t \in N, t.name \in A PROVE t.runAfter \subseteq A
    BY <1>4, <2>2, AncestorsDown DEF DownFrom, Shown
  <2> HIDE DEF A
  <2>3. S \in SUBSET Drawn
    BY <1>1, <2>1
  <2>4. ASSUME NEW x \in Shown, x \in S PROVE x \in A
    BY <1>4, <2>4
  <2>5. ASSUME NEW t \in N, t.name \in S PROVE t.name \in A /\ t.runAfter \subseteq S
    BY <1>4, <2>2, <2>4, <2>5
  <2>6. ASSUME NEW p \in P, Sp(p) \in S PROVE p.runAfter \subseteq S
    <3>1. PICK q \in P : q.name \in A /\ Sp(q) = Sp(p)
      BY <1>4, <2>1, <2>6
    <3> QED BY <1>4, <2>2, <3>1
  <2>7. ASSUME NEW p \in P, p.name \in S PROVE Sp(p) \in S
    BY <1>4, <2>5, <2>7
  <2>8. FinallyNode \notin S
    BY <1>4, <2>1
  <2> HIDE DEF S
  <2>9. Backward(S)
    BY <1>2, <1>4, <2>5, <2>6, <2>7, <2>8
  <2> QED BY <2>3, <2>9 DEF A, S
<1>7. ASSUME NEW S, Backward(S), NEW t \in N, t.name \in S PROVE t.runAfter \subseteq S
  BY <1>2, <1>7
<1>8. ASSUME NEW m \in Shown, NEW n \in Shown,
             \A S \in SUBSET Drawn : Backward(S) /\ n \in S => m \in S
      PROVE  m \in AncestorsIn(N, n) \cup {n}
  <2> DEFINE A == AncestorsIn(N, n) \cup {n}
             S == A \cup {Sp(p) : p \in {q \in P : q.name \in A}}
  <2>1. S \in SUBSET Drawn /\ Backward(S) /\ n \in S
    BY <1>6
  <2>2. m \in S
    <3> HIDE DEF S
    <3> QED BY <1>8, <2>1
  <2> QED BY <1>4, <2>2
<1>9. ASSUME NEW m \in Shown, NEW n \in Shown, m \in AncestorsIn(N, n) \cup {n},
             NEW S \in SUBSET Drawn, Backward(S), n \in S
      PROVE  m \in S
  <2>1. DownFrom(N, n, S \cap NamesOf(N))
    BY <1>7, <1>9 DEF DownFrom
  <2> QED BY <1>9, <2>1 DEF AncestorsIn
<1>10. ASSUME NEW S, Backward(S), FinallyNode \in S PROVE Drawn \subseteq S
  <2> DEFINE U == Shown \ S
  <2>1. Last \subseteq S
    BY <1>2, <1>10
  <2>2. ASSUME NEW u \in U PROVE \E t \in N : t.name \in U /\ u \in t.runAfter
    <3>1. u \notin Last /\ u \in NamesOf(R) /\ \A p \in P : u # Sp(p)
      BY <1>1, <1>4, <2>1, <2>2
    <3>2. PICK t \in N : u \in t.runAfter
      BY <1>3, <3>1
    <3>3. t.name \notin S
      BY <1>7, <1>10, <2>2, <3>2
    <3> QED BY <1>4, <3>2, <3>3
  <2>3. U \in SUBSET NamesOf(N) /\ IsFiniteSet(U)
    BY <1>4, FS_Subset DEF Shown
  <2>4. U = {}
    <3> HIDE DEF U
    <3> QED BY <1>4, <2>2, <2>3, LastExists
  <2>5. \A p \in P : Sp(p) \in S
    BY <1>2, <1>4, <1>10, <2>4
  <2> QED BY <1>1, <1>10, <2>4, <2>5
<1> QED BY <1>1, <1>5, <1>8, <1>9, <1>10 DEF Shown, Drawn

\* The nodes that are drawn have the names, the runAfters and the order of those of the form.
LEMMA BuilderNodesAre ==
  ASSUME group \in Grouping, group.loadingTasks = {}, GraphOK(group),
         NEW N, N = BuilderNodes
  PROVE  Drawable(N) /\ \A n \in NamesOf(N) : Ancestors(group, n) = AncestorsIn(N, n)
<1> DEFINE R == Regular(group)
           f == [t \in R |-> [name |-> t.name, runAfter |-> t.runAfter]]
           solo == [name |-> InitialNode, runAfter |-> {}]
<1>1. /\ R = group.tasks \cup group.listTasks
      /\ NamesOf(R) \subseteq Name /\ Distinct(R) /\ Closed(R) /\ Acyclic(R)
  BY GraphOf
<1>2. N = {f[t] : t \in R} \/ (N = {solo} /\ R = {})
  <2>1. CASE ~SoloNode
    BY <2>1 DEF BuilderNodes
  <2>2. CASE SoloNode /\ group.listTasks = {}
    BY <1>1, <2>2 DEF BuilderNodes, SoloNode
  <2>3. CASE SoloNode /\ group.listTasks # {}
    <3>1. PICK l \in group.listTasks : R = {l}
      BY <1>1, <2>3 DEF SoloNode
    <3>2. N = {[name |-> n, runAfter |-> {}] : n \in {l.name}}
      BY <1>1, <2>3, <3>1 DEF BuilderNodes, SoloNode, NamesOf
    <3>3. l.runAfter = {}
      <4>1. NamesOf(R) = {l.name}
        BY <3>1 DEF NamesOf
      <4>2. l.runAfter \subseteq {l.name} /\ l.runAfter \cap {l.name} = {}
        BY <1>1, <3>1, <4>1 DEF Closed, Acyclic
      <4> QED BY <4>2
    <3> QED BY <3>1, <3>2, <3>3
  <2> QED BY <2>1, <2>2, <2>3
<1>3. CASE N = {f[t] : t \in R}
  <2>1. \A t \in R : f[t].name = t.name /\ f[t].runAfter = t.runAfter
                     /\ f[t] = [name |-> f[t].name, runAfter |-> f[t].runAfter]
    OBVIOUS
  <2> HIDE DEF f, R
  <2>2. /\ \A n \in N : /\ n = [name |-> n.name, runAfter |-> n.runAfter]
                        /\ \E t \in R : n = f[t] /\ n.name = t.name /\ n.runAfter = t.runAfter
        /\ \A t \in R : \E n \in N : n.name = t.name /\ n.runAfter = t.runAfter
    <3>1. ASSUME NEW n \in N
          PROVE  /\ n = [name |-> n.name, runAfter |-> n.runAfter]
                 /\ \E t \in R : n = f[t] /\ n.name = t.name /\ n.runAfter = t.runAfter
      <4>1. PICK t \in R : n = f[t]
        BY <1>3
      <4> QED BY <2>1, <4>1
    <3>2. ASSUME NEW t \in R
          PROVE  \E n \in N : n.name = t.name /\ n.runAfter = t.runAfter
      <4>1. f[t] \in N
        BY <1>3
      <4> QED BY <2>1, <4>1
    <3> QED BY <3>1, <3>2
  <2>3. NamesOf(N) = NamesOf(R)
    BY <2>2 DEF NamesOf
  <2>4. Distinct(N)
    BY <1>1, <2>2 DEF Distinct
  <2>5. Closed(N) /\ Acyclic(N)
    <3>1. Closed(N)
      BY <1>1, <2>2, <2>3 DEF Closed
    <3>2. ASSUME NEW S \in SUBSET NamesOf(N), S # {}
          PROVE  \E n \in S : \A t \in N : t.name = n => t.runAfter \cap S = {}
      <4>1. PICK n \in S : \A t \in R : t.name = n => t.runAfter \cap S = {}
        BY <1>1, <2>3, <3>2 DEF Acyclic
      <4> QED BY <2>2, <4>1
    <3> QED BY <3>1, <3>2 DEF Acyclic
  <2>6. Drawable(N)
    <3>1. NamesOf(N) \in SUBSET Name /\ IsFiniteSet(Name)
      BY <1>1, <2>3, DrawingAssumption
    <3>2. IsFiniteSet(NamesOf(N))
      BY <3>1, FS_Subset
    <3> QED BY <2>2, <2>4, <2>5, <3>2 DEF Drawable
  <2>7. \A n, S : DownFrom(N, n, S) <=> DownFrom(R, n, S)
    BY <2>2, <2>3 DEF DownFrom
  <2>8. \A n : AncestorsIn(N, n) = AncestorsIn(R, n)
    BY <2>3, <2>7 DEF AncestorsIn
  <2> QED BY <2>6, <2>8, AncestorsAre DEF R
<1>4. CASE N = {solo} /\ R = {}
  <2>1. NamesOf(N) = {InitialNode} /\ NamesOf(R) = {}
    BY <1>4 DEF NamesOf
  <2>2. Distinct(N) /\ Closed(N) /\ Acyclic(N)
    BY <1>4, <2>1 DEF Distinct, Closed, Acyclic
  <2>3. Drawable(N)
    <3>1. \A n \in N : n = [name |-> n.name, runAfter |-> n.runAfter]
      BY <1>4
    <3>2. IsFiniteSet(NamesOf(N))
      BY <2>1, FS_Singleton
    <3> QED BY <2>2, <3>1, <3>2 DEF Drawable
  <2>4. DownFrom(N, InitialNode, {})
    BY <1>4 DEF DownFrom
  <2>5. AncestorsIn(N, InitialNode) = {}
    BY <2>4 DEF AncestorsIn
  <2>6. Ancestors(group, InitialNode) = {}
    BY <2>1, AncestorsAre DEF AncestorsIn
  <2> QED BY <2>1, <2>3, <2>5, <2>6
<1> QED BY <1>2, <1>3, <1>4

LEMMA DrawingIs ==
  /\ Drawing.node = NamesOf(DrawnNodes)
  /\ \A S : (\A e \in Drawing.edge : e[2] \in S => e[1] \in S) <=> Backward(S)
  /\ Drawing.edge \subseteq Drawing.node \X Drawing.node <=> Backward(NamesOf(DrawnNodes))
<1> DEFINE E == Drawing.edge
           V == NamesOf(DrawnNodes)
<1>1. Drawing.node = V
  BY DEF Drawing
<1>2. /\ \A e \in E : \E r \in DrawnNodes : \E m \in r.runAfter : e = <<m, r.name>>
      /\ \A r \in DrawnNodes : \A m \in r.runAfter : <<m, r.name>> \in E
  BY DEF Drawing
<1>3. \A r \in DrawnNodes : r.name \in V
  BY NamesOfMember
<1> HIDE DEF E, V
<1>4. ASSUME NEW S
      PROVE  (\A e \in E : e[2] \in S => e[1] \in S) <=> Backward(S)
  <2>1. ASSUME \A e \in E : e[2] \in S => e[1] \in S, NEW r \in DrawnNodes, r.name \in S,
               NEW m \in r.runAfter
        PROVE  m \in S
    <3>1. <<m, r.name>> \in E
      BY <1>2
    <3> QED BY <2>1, <3>1
  <2>2. ASSUME Backward(S), NEW e \in E, e[2] \in S PROVE e[1] \in S
    <3>1. PICK r \in DrawnNodes : \E m \in r.runAfter : e = <<m, r.name>>
      BY <1>2
    <3> QED BY <2>2, <3>1 DEF Backward
  <2> QED BY <2>1, <2>2 DEF Backward
<1>5. E \subseteq V \X V <=> Backward(V)
  <2>1. ASSUME E \subseteq V \X V, NEW r \in DrawnNodes, NEW m \in r.runAfter PROVE m \in V
    <3>1. <<m, r.name>> \in E
      BY <1>2
    <3> QED BY <2>1, <3>1
  <2>2. ASSUME Backward(V), NEW e \in E PROVE e \in V \X V
    <3>1. PICK r \in DrawnNodes : \E m \in r.runAfter : e = <<m, r.name>>
      BY <1>2
    <3> QED BY <1>3, <2>2, <3>1 DEF Backward
  <2> QED BY <2>1, <2>2 DEF Backward
<1> QED BY <1>1, <1>4, <1>5 DEF E, V

LEMMA DrawingTells ==
  ASSUME group \in Grouping, group.loadingTasks = {}, GraphOK(group)
  PROVE  DrawnAsEdited
<1> SUFFICES ASSUME NEW N, N = BuilderNodes, IdsApart(N) PROVE DrawnAsEdited
  BY DEF DrawnAsEdited
<1> DEFINE V == Drawing.node
           back == {S \in SUBSET V : \A e \in Drawing.edge : e[2] \in S => e[1] \in S}
           Before(n) == {m \in V : \A S \in back : n \in S => m \in S}
<1>1. Drawable(N) /\ \A n \in NamesOf(N) : Ancestors(group, n) = AncestorsIn(N, n)
  BY BuilderNodesAre
<1>2. /\ V = NamesOf(DrawnNodes)
      /\ \A S : S \in back <=> S \in SUBSET V /\ Backward(S)
      /\ Drawing.edge \subseteq V \X V <=> Backward(V)
  BY DrawingIs
<1>3. /\ Backward(V) /\ NamesOf(N) \subseteq V /\ FinallyNode \in V
      /\ \A m, n \in NamesOf(N) :
            (\A S \in SUBSET V : Backward(S) /\ n \in S => m \in S)
              <=> m \in AncestorsIn(N, n) \cup {n}
      /\ \A S : Backward(S) /\ FinallyNode \in S => V \subseteq S
  BY <1>1, <1>2, DrawnOrder
<1> HIDE DEF V, back
<1>4. ASSUME NEW n \in NamesOf(N)
      PROVE  Before(n) \cap NamesOf(N) = Ancestors(group, n) \cup {n}
  <2>1. AncestorsIn(N, n) \subseteq NamesOf(N)
    BY DEF AncestorsIn
  <2>2. \A m \in NamesOf(N) : m \in Before(n) <=> m \in AncestorsIn(N, n) \cup {n}
    BY <1>2, <1>3
  <2> QED BY <1>1, <2>1, <2>2
<1>5. Before(FinallyNode) = V
  BY <1>2, <1>3
<1> QED BY <1>2, <1>3, <1>4, <1>5 DEF DrawnAsEdited, V, back

\* Whatever is edited, and whatever ids names are joined to, a drawing in which no two ids are
\* the same tells the order of the form: a spacer stands for exactly the edges that it
\* replaces, and the finally node is behind all others
\* (handleParallelToParallelNodes, getBuilderEdgesFromNodes, useConnectFinally).
THEOREM LocalDrawing ==
  ASSUME LocalAssumption
  PROVE  Spec => []DrawnAsEdited
<1>1. Init => LocalInv
  BY LocalInit
<1>2. TypeOK /\ LocalInv /\ [Next]_vars => LocalInv'
  BY LocalStep
<1>3. TypeOK /\ LocalInv => DrawnAsEdited
  BY DrawingTells DEF TypeOK, LocalInv
<1> QED BY <1>1, <1>2, <1>3, TypeCorrect, PTL DEF Spec

=============================================================================
