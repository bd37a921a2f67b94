-------------------------- MODULE SyncedEditorProofs --------------------------
(***************************************************************************)
(* The two views of the pipeline builder, without Artifact Hub and with    *)
(* references that resolve: for any names, resources, pipelines and texts. *)
(***************************************************************************)
EXTENDS SyncedEditor, PipelineBuilderProofs, FiniteSetTheorems, SequenceTheorems,
        WellFoundedInduction

-----------------------------------------------------------------------------
(***************************************************************************)
(* Sequences and finite sets.                                              *)
(***************************************************************************)

LEMMA RangeOfSetToSeq ==
  ASSUME NEW S, IsFiniteSet(S)
  PROVE  SetToSeq(S) \in Seq(S) /\ Range(SetToSeq(S)) = S
<1> DEFINE n == Cardinality(S)
<1>1. n \in Nat /\ ExistsBijection(1 .. n, S)
  BY FS_CardinalityType
<1>2. PICK b : b \in Bijection(1 .. n, S)
  BY <1>1 DEF ExistsBijection
<1>3. b \in [1 .. n -> S] /\ IsInjective(b)
  BY <1>2 DEF Bijection, Injection
<1>4. SetToSeq(S) \in [1 .. n -> S] /\ IsInjective(SetToSeq(S))
  BY <1>3, Zenon DEF SetToSeq
<1> DEFINE f == SetToSeq(S)
<1> HIDE DEF f
<1>5. f \in Injection(1 .. n, S)
  BY <1>4 DEF f, Injection
<1>6. IsFiniteSet(1 .. n) /\ Cardinality(1 .. n) = n
  BY <1>1, FS_Interval
<1>7. f \in Surjection(1 .. n, S)
  BY <1>5, <1>6, FS_Injection
<1>8. f \in Seq(S)
  BY <1>1, <1>4 DEF f
<1>9. Range(f) = S
  BY <1>4, <1>7 DEF f, Range, Surjection
<1> QED BY <1>8, <1>9 DEF f

LEMMA FiniteRange ==
  ASSUME NEW S, NEW s \in Seq(S)
  PROVE  IsFiniteSet(Range(s)) /\ Range(s) \subseteq S
<1>1. Len(s) \in Nat /\ s \in [1 .. Len(s) -> S] /\ DOMAIN s = 1 .. Len(s)
  BY LenProperties
<1>2. IsFiniteSet(1 .. Len(s))
  BY <1>1, FS_Interval
<1>3. s \in Surjection(1 .. Len(s), Range(s))
  BY <1>1 DEF Surjection, Range
<1> QED BY <1>1, <1>2, <1>3, FS_Surjection DEF Range

\* A set of numbers that is not empty has a least one.
LEMMA LeastNat ==
  ASSUME NEW T, T \subseteq Nat, T # {}
  PROVE  \E x \in T : \A y \in T : x <= y
<1>1. PICK x \in T : \A y \in T : ~(<<y, x>> \in OpToRel(<, Nat))
  BY NatLessThanWellFounded, WFMin, Zenon
<1>2. \A y \in T : ~(y < x) BY <1>1 DEF OpToRel
<1> QED BY <1>2

LEMMA RemoveAtType ==
  ASSUME NEW S, NEW s \in Seq(S), NEW i \in DOMAIN s, NEW r, r = RemoveAt(s, i)
  PROVE  /\ r \in Seq(S) /\ i \in 1 .. Len(s) /\ Len(r) = Len(s) - 1
         /\ \A j \in 1 .. Len(s) - 1 : r[j] = s[IF j < i THEN j ELSE j + 1]
<1> DEFINE p == SubSeq(s, 1, i - 1)
<1> DEFINE q == SubSeq(s, i + 1, Len(s))
<1>1. Len(s) \in Nat /\ DOMAIN s = 1 .. Len(s) /\ \A j \in 1 .. Len(s) : s[j] \in S
  BY LenProperties
<1>2. p \in Seq(S) /\ Len(p) = i - 1 /\ \A j \in 1 .. i - 1 : p[j] = s[j]
  BY <1>1, SubSeqProperties
<1>3. q \in Seq(S) /\ Len(q) = Len(s) - i /\ \A j \in 1 .. Len(s) - i : q[j] = s[i + j]
  BY <1>1, SubSeqProperties
<1>4. r = p \o q
  BY DEF RemoveAt
<1> HIDE DEF p, q
<1>5. /\ r \in Seq(S) /\ Len(r) = Len(p) + Len(q)
      /\ \A j \in 1 .. Len(p) : r[j] = p[j]
      /\ \A j \in 1 .. Len(q) : r[Len(p) + j] = q[j]
  <2>1. /\ p \o q \in Seq(S) /\ Len(p \o q) = Len(p) + Len(q)
        /\ \A j \in 1 .. Len(p) + Len(q) : (p \o q)[j] = IF j <= Len(p) THEN p[j] ELSE q[j - Len(p)]
    BY <1>2, <1>3, ConcatProperties, Zenon
  <2>2. Len(p) \in Nat /\ Len(q) \in Nat
    BY <1>2, <1>3, LenProperties
  <2>3. /\ r \in Seq(S) /\ Len(r) = Len(p) + Len(q)
        /\ \A j \in 1 .. Len(p) + Len(q) : r[j] = IF j <= Len(p) THEN p[j] ELSE q[j - Len(p)]
    BY <1>4, <2>1, Zenon
  <2>4. \A j \in 1 .. Len(p) : r[j] = p[j]
    BY <2>2, <2>3
  <2>5. ASSUME NEW j \in 1 .. Len(q) PROVE r[Len(p) + j] = q[j]
    <3>1. Len(p) + j \in 1 .. Len(p) + Len(q) /\ ~(Len(p) + j <= Len(p)) /\ (Len(p) + j) - Len(p) = j
      BY <2>2
    <3> QED BY <2>3, <3>1
  <2> QED BY <2>3, <2>4, <2>5
<1>6. ASSUME NEW j \in 1 .. Len(s) - 1 PROVE r[j] = s[IF j < i THEN j ELSE j + 1]
  <2>1. CASE j < i
    <3>1. j \in 1 .. i - 1 /\ j \in 1 .. Len(p)
      BY <1>1, <1>2, <2>1
    <3>2. r[j] = p[j] /\ p[j] = s[j]
      BY <1>2, <1>5, <3>1
    <3> QED BY <2>1, <3>2
  <2>2. CASE ~(j < i)
    <3>1. j - (i - 1) \in 1 .. Len(s) - i /\ r[j] = q[j - (i - 1)]
      <4>1. j - (i - 1) \in 1 .. Len(q) /\ Len(p) + (j - (i - 1)) = j
        BY <1>1, <1>2, <1>3, <2>2
      <4> QED BY <1>3, <1>5, <4>1
    <3>2. q[j - (i - 1)] = s[i + (j - (i - 1))] /\ i + (j - (i - 1)) = j + 1
      BY <1>1, <1>3, <3>1
    <3> QED BY <2>2, <3>1, <3>2
  <2> QED BY <2>1, <2>2
<1> QED BY <1>1, <1>2, <1>3, <1>5, <1>6

\* What is left of a list has nothing that the list did not have.
LEMMA TakenOutType ==
  ASSUME NEW S, NEW s \in Seq(S), NEW places
  PROVE  TakenOut(s, places) \in Seq(S)
<1> DEFINE N == Len(s)
<1> DEFINE Body(f, i) == IF i = 0 THEN s
                         ELSE IF i \in places \cap DOMAIN f[i - 1] THEN RemoveAt(f[i - 1], i)
                         ELSE f[i - 1]
<1> DEFINE Upto(n, f) == f \in [0 .. n -> Seq(S)] /\ \A i \in 0 .. n : f[i] = Body(f, i)
<1>1. N \in Nat
  BY LenProperties
<1> HIDE DEF N
<1>2. \E f : Upto(0, f)
  <2>1. Upto(0, [i \in 0 .. 0 |-> s])
    OBVIOUS
  <2> QED BY <2>1
<1>3. ASSUME NEW n \in Nat, NEW f, Upto(n, f) PROVE \E g : Upto(n + 1, g)
  <2> DEFINE last == IF n + 1 \in places \cap DOMAIN f[n] THEN RemoveAt(f[n], n + 1) ELSE f[n]
  <2> DEFINE g == [i \in 0 .. n + 1 |-> IF i = n + 1 THEN last ELSE f[i]]
  <2>1. f[n] \in Seq(S)
    BY <1>3
  <2>2. last \in Seq(S)
    BY <2>1, RemoveAtType
  <2> HIDE DEF last
  <2>3. g \in [0 .. n + 1 -> Seq(S)]
    BY <1>3, <2>2
  <2>4. ASSUME NEW i \in 0 .. n PROVE g[i] = Body(g, i)
    <3>1. g[i] = f[i] /\ (i # 0 => g[i - 1] = f[i - 1])
      OBVIOUS
    <3>2. f[i] = Body(f, i)
      BY <1>3
    <3> HIDE DEF g
    <3> QED BY <3>1, <3>2
  <2>5. g[n + 1] = last /\ g[n] = f[n]
    OBVIOUS
  <2> HIDE DEF g
  <2>6. g[n + 1] = Body(g, n + 1)
    BY <2>5 DEF last
  <2> HIDE DEF Body
  <2>7. \A i \in 0 .. n + 1 : g[i] = Body(g, i)
    BY <2>4, <2>6
  <2>8. Upto(n + 1, g)
    BY <2>3, <2>7
  <2> QED BY <2>8, Zenon
<1> HIDE DEF Upto
<1>4. \A n \in Nat : \E f : Upto(n, f)
  <2> SUFFICES ASSUME \E n \in Nat : ~\E f : Upto(n, f) PROVE FALSE
    OBVIOUS
  <2> DEFINE T == {n \in Nat : ~\E f : Upto(n, f)}
  <2>1. PICK m \in T : \A k \in T : m <= k
    BY LeastNat
  <2>2. m # 0
    BY <1>2
  <2>3. m - 1 \in Nat /\ m - 1 \notin T /\ (m - 1) + 1 = m
    BY <2>1, <2>2
  <2> QED BY <1>3, <2>3
<1>5. PICK f : Upto(N, f)
  BY <1>1, <1>4
<1> DEFINE F == CHOOSE h : h = [i \in 0 .. N |-> Body(h, i)]
<1>6. f = [i \in 0 .. N |-> Body(f, i)]
  BY <1>5 DEF Upto
<1>7. F = [i \in 0 .. N |-> Body(F, i)]
  BY <1>6, Zenon
<1> HIDE DEF F
<1>8. \A i \in 0 .. N : F[i] = Body(F, i)
  BY <1>7
<1>9. \A n \in Nat : n <= N => F[n] \in Seq(S)
  <2> SUFFICES ASSUME \E n \in Nat : n <= N /\ F[n] \notin Seq(S) PROVE FALSE
    OBVIOUS
  <2> DEFINE T == {n \in Nat : n <= N /\ F[n] \notin Seq(S)}
  <2>1. PICK m \in T : \A k \in T : m <= k
    BY LeastNat
  <2>2. m \in 0 .. N /\ F[m] = Body(F, m)
    BY <1>1, <1>8, <2>1
  <2>3. m # 0
    BY <2>1, <2>2
  <2>4. m - 1 \in Nat /\ F[m - 1] \in Seq(S)
    BY <1>1, <2>1, <2>3
  <2>5. Body(F, m) \in Seq(S)
    BY <2>3, <2>4, RemoveAtType
  <2> QED BY <2>1, <2>2, <2>5
<1>10. F[N] \in Seq(S)
  BY <1>1, <1>9
<1>11. TakenOut(s, places) = F[N]
  BY DEF TakenOut, F, N
<1> QED BY <1>10, <1>11

\* What of a text has a reference refers to what is there.
Resolving(t) == \A task \in Range(t.tasks) \cup t.finallyTasks :
                  task.res \in InitiallyThere \cup {NoName}

\* So does what is opened and what is typed.
EditorAssumption ==
  /\ LocalAssumption
  /\ \A p \in Existing : IsFiniteSet(p.tasks)
  /\ \A t \in Typings \ {None} : Resolving(t)

-----------------------------------------------------------------------------
(***************************************************************************)
(* The inductive invariant.                                                *)
(***************************************************************************)

\* The form without what runs in the end, which a text may give names of its tasks.
Core(g) == [g EXCEPT !.finallyTasks = {}, !.finallyListTasks = {}]

Work(g) == g.tasks \cup g.listTasks

Graph(R) == Distinct(R) /\ Closed(R) /\ Acyclic(R)

Form(g) ==
  /\ g \in Grouping /\ g.loadingTasks = {}
  /\ Refs(g) \subseteq InitiallyThere /\ IsFiniteSet(g.tasks) /\ IsFiniteSet(g.listTasks)

\* A form one can edit.
Sound(g) == Form(g) /\ Graph(Work(g))

\* A pipeline one can open.
Accepted(p) == p \in Pipeline /\ TektonAccepts(p) /\ Form(FormOf(p))

\* The form's tasks may just have been replaced, but not its placeholders.
GroupOk ==
  /\ Form(group)
  /\ Distinct(group.listTasks) /\ Acyclic(group.listTasks)
  /\ Synced => Graph(Work(group))

\* Either was typed, or has taken the tasks of a form or of the pipeline that was opened.
TextOk(t) ==
  /\ IsText(t) /\ Resolving(t)
  /\ \/ Orderly(t)
     \/ Undefined(t) = {} /\ Graph(TasksOf(t) \cup group.listTasks)

ViewOk ==
  /\ view \in {"form", "yaml"}
  /\ IF view = "form" THEN text = None ELSE ui = None
  /\ text # None => TextOk(text)
  /\ repaired # None => Sound(repaired)

\* While neither is edited, the form is what the text was written of, and the effect has
\* nothing to do.
EnteredOk == entered # None => group = entered /\ Synced

EditorInv ==
  /\ EditorTypeOK /\ GroupOk /\ ViewOk /\ EnteredOk
  /\ installed = InitiallyThere /\ arriving = {} /\ creating = {} /\ pending = {}
  /\ CaptureCurrent
  /\ Accepted(opened)
  /\ saved # None => ui = None /\ Accepted(saved)
-----------------------------------------------------------------------------
(***************************************************************************)
(* Edits of the form keep it sound.                                        *)
(***************************************************************************)

LEMMA MapsKeepFinite ==
  ASSUME NEW S, IsFiniteSet(S)
  PROVE  /\ \A x, y : /\ IsFiniteSet(MapReplaceRelated(x, y, S))
                      /\ IsFiniteSet(MapBeRelated(x, y, S))
                      /\ IsFiniteSet(MapAddRelated(x, y, S))
                      /\ IsFiniteSet(RenameIn(x, y, S))
         /\ \A x : IsFiniteSet(MapStitchReplace(x, S)) /\ IsFiniteSet(Without(x, S))
<1>1. ASSUME NEW T, IsFiniteSet(T), NEW f, f \in [T -> Range(f)]
      PROVE  IsFiniteSet({f[t] : t \in T})
  <2>1. f \in Surjection(T, {f[t] : t \in T})
    BY <1>1 DEF Surjection
  <2> QED BY <1>1, <2>1, FS_Surjection
<1>2. ASSUME NEW T, NEW x, IsFiniteSet(T) PROVE IsFiniteSet(Without(x, T))
  <2>1. Without(x, T) \in SUBSET T
    BY DEF Without
  <2> QED BY <1>2, <2>1, FS_Subset
<1>3. ASSUME NEW T, NEW x, NEW y, IsFiniteSet(T) PROVE IsFiniteSet(MapReplaceRelated(x, y, T))
  <2> DEFINE f == [t \in T |-> [t EXCEPT !.runAfter = IF y \in @ THEN (@ \ {y}) \cup {x} ELSE @]]
  <2>1. MapReplaceRelated(x, y, T) = {f[t] : t \in T}
    BY DEF MapReplaceRelated
  <2>2. f \in [T -> Range(f)]
    BY DEF Range
  <2> HIDE DEF f
  <2> QED BY <1>1, <1>3, <2>1, <2>2
<1>4. ASSUME NEW x, NEW y PROVE IsFiniteSet(MapBeRelated(x, y, S))
  <2> DEFINE f == [t \in S |-> [t EXCEPT !.runAfter = IF t.name = y THEN {x} ELSE @]]
  <2>1. MapBeRelated(x, y, S) = {f[t] : t \in S}
    BY DEF MapBeRelated
  <2>2. f \in [S -> Range(f)]
    BY DEF Range
  <2> HIDE DEF f
  <2> QED BY <1>1, <2>1, <2>2
<1>5. ASSUME NEW x, NEW y PROVE IsFiniteSet(MapAddRelated(x, y, S))
  <2> DEFINE f == [t \in S |-> [t EXCEPT !.runAfter = IF y \in @ THEN @ \cup {x} ELSE @]]
  <2>1. MapAddRelated(x, y, S) = {f[t] : t \in S}
    BY DEF MapAddRelated
  <2>2. f \in [S -> Range(f)]
    BY DEF Range
  <2> HIDE DEF f
  <2> QED BY <1>1, <2>1, <2>2
<1>6. ASSUME NEW x PROVE IsFiniteSet(MapStitchReplace(x, S))
  <2> DEFINE f == [t \in S |-> [t EXCEPT !.runAfter =
                                  IF x.name \in @ THEN (@ \ {x.name}) \cup x.runAfter ELSE @]]
  <2>1. MapStitchReplace(x, S) = {f[t] : t \in S}
    BY DEF MapStitchReplace
  <2>2. f \in [S -> Range(f)]
    BY DEF Range
  <2> HIDE DEF f
  <2> QED BY <1>1, <2>1, <2>2
<1>7. ASSUME NEW x, NEW y PROVE IsFiniteSet(RenameIn(x, y, S))
  <2> DEFINE T == {t \in S : t.name = x}
  <2> DEFINE f == [t \in T |-> [t EXCEPT !.name = y]]
  <2>1. T \in SUBSET S
    OBVIOUS
  <2>2. IsFiniteSet(T)
    BY <2>1, FS_Subset
  <2>3. f \in [T -> Range(f)]
    BY DEF Range
  <2>4. {[t EXCEPT !.name = y] : t \in T} = {f[t] : t \in T}
    OBVIOUS
  <2> HIDE DEF f
  <2> DEFINE A == {[t EXCEPT !.name = y] : t \in T}
  <2> DEFINE B == MapReplaceRelated(y, x, Without(x, S))
  <2>5. IsFiniteSet(A)
    BY <1>1, <2>2, <2>3, <2>4
  <2>6. IsFiniteSet(B)
    BY <1>2, <1>3
  <2>7. RenameIn(x, y, S) = B \cup A
    BY Zenon DEF RenameIn
  <2> HIDE DEF A, B
  <2> QED BY <2>5, <2>6, <2>7, FS_Union
<1> QED BY <1>2, <1>3, <1>4, <1>5, <1>6, <1>7

LEMMA CoreIs ==
  ASSUME NEW g \in Grouping
  PROVE  /\ Core(g) \in Grouping
         /\ Core(g).tasks = g.tasks /\ Core(g).listTasks = g.listTasks
         /\ Core(g).loadingTasks = g.loadingTasks
         /\ Core(g).finallyTasks = {} /\ Core(g).finallyListTasks = {}
         /\ UsedNames(Core(g)) \subseteq UsedNames(g)
         /\ RegularNames(Core(g)) = RegularNames(g)
<1>1. /\ Core(g) \in Grouping
      /\ Core(g).tasks = g.tasks /\ Core(g).listTasks = g.listTasks
      /\ Core(g).loadingTasks = g.loadingTasks
      /\ Core(g).finallyTasks = {} /\ Core(g).finallyListTasks = {}
  BY DEF Core, Grouping
<1>2. NamesOf({}) = {}
  BY DEF NamesOf
<1> QED BY <1>1, <1>2 DEF UsedNames, RegularNames, Regular

LEMMA CoreGraph ==
  ASSUME NEW g \in Grouping, g.loadingTasks = {}
  PROVE  GraphOK(Core(g)) <=> Graph(Work(g))
<1>1. Regular(Core(g)) = Work(g)
  BY CoreIs DEF Regular, Work
<1>2. NamesOf({}) = {} /\ Distinct({})
  BY DEF NamesOf, Distinct
<1> QED BY <1>1, <1>2, CoreIs DEF GraphOK, NamesUnique, Graph

LEMMA GraphOfForm ==
  ASSUME NEW h, h.loadingTasks = {}, GraphOK(h)
  PROVE  Graph(Work(h))
<1>1. Regular(h) = Work(h)
  BY RegularLists DEF Work
<1> QED BY <1>1 DEF GraphOK, NamesUnique, Graph

\* What an operation makes of the core is as much of what it makes of the form.
LEMMA WorkOf ==
  ASSUME NEW g \in Grouping
  PROVE  /\ \A t, n :
              /\ Work(AddListNodeBefore(g, t, n)) = Work(AddListNodeBefore(Core(g), t, n))
              /\ Work(AddListNodeAfter(g, t, n)) = Work(AddListNodeAfter(Core(g), t, n))
              /\ Work(AddListNodeParallel(g, t, n)) = Work(AddListNodeParallel(Core(g), t, n))
         /\ \A n : Work(AddFinallyListTask(g, n)) = Work(g)
         /\ \A name, res, A, new :
              /\ Work(ConvertListToTask(g, name, res, A, new))
                   = Work(ConvertListToTask(Core(g), name, res, A, new))
              /\ Work(ConvertFinallyListToTask(g, name, res, new)) = Work(g)
         /\ \A n, r, f, e :
              /\ Work(DeleteListTask(g, n, r, f)) = Work(DeleteListTask(Core(g), n, r, e))
              /\ Work(RemoveTask(g, n, r, f)) = Work(RemoveTask(Core(g), n, r, e))
         /\ \A old, new : Work(RenameTask(g, old, new)) = Work(RenameTask(Core(g), old, new))
<1> DEFINE c == Core(g)
<1>1. c \in Grouping /\ c.tasks = g.tasks /\ c.listTasks = g.listTasks
  BY CoreIs
<1> HIDE DEF c
<1>2. \A t, n :
        /\ Work(AddListNodeBefore(g, t, n)) = Work(AddListNodeBefore(c, t, n))
        /\ Work(AddListNodeAfter(g, t, n)) = Work(AddListNodeAfter(c, t, n))
        /\ Work(AddListNodeParallel(g, t, n)) = Work(AddListNodeParallel(c, t, n))
  BY <1>1 DEF Work, Grouping, AddListNodeBefore, AddListNodeAfter, AddListNodeParallel
<1>3. \A n : Work(AddFinallyListTask(g, n)) = Work(g)
  BY DEF Work, Grouping, AddFinallyListTask
<1>4. \A name, res, A, new :
        /\ Work(ConvertListToTask(g, name, res, A, new))
             = Work(ConvertListToTask(c, name, res, A, new))
        /\ Work(ConvertFinallyListToTask(g, name, res, new)) = Work(g)
  BY <1>1 DEF Work, Grouping, ConvertListToTask, ConvertFinallyListToTask
<1>5. \A n, r, f, e :
        /\ Work(DeleteListTask(g, n, r, f)) = Work(DeleteListTask(c, n, r, e))
        /\ Work(RemoveTask(g, n, r, f)) = Work(RemoveTask(c, n, r, e))
  BY <1>1 DEF Work, Grouping, DeleteListTask, RemoveTask
<1>6. \A old, new : Work(RenameTask(g, old, new)) = Work(RenameTask(c, old, new))
  BY <1>1 DEF Work, Grouping, RenameTask
<1> QED BY <1>2, <1>3, <1>4, <1>5, <1>6 DEF c

LEMMA WorkKept ==
  ASSUME NEW g \in Grouping, g.loadingTasks = {}, Graph(Work(g))
  PROVE  /\ \A t \in g.tasks : \A n : n \notin RegularNames(g) =>
              /\ Graph(Work(AddListNodeBefore(g, t, n)))
              /\ Graph(Work(AddListNodeAfter(g, t, n)))
              /\ Graph(Work(AddListNodeParallel(g, t, n)))
         /\ \A name, res, A : \A new \in TaskName :
              /\ new \notin UsedNames(g)
              /\ \/ \E l \in g.listTasks : l.name = name /\ l.runAfter = A
                 \/ g.tasks = {} /\ g.listTasks = {} /\ A = {}
              => Graph(Work(ConvertListToTask(g, name, res, A, new)))
         /\ \A n \in ListName : \A f : \A r \in Found(n, g.listTasks) :
              Graph(Work(DeleteListTask(g, n, r, f)))
         /\ \A n \in TaskName : \A f : \A r \in Found(n, g.tasks) :
              Graph(Work(RemoveTask(g, n, r, f)))
         /\ \A old, new \in TaskName :
              new \notin UsedNames(g) => Graph(Work(RenameTask(g, old, new)))
<1> DEFINE c == Core(g)
<1>1. /\ c \in Grouping /\ c.tasks = g.tasks /\ c.listTasks = g.listTasks /\ c.loadingTasks = {}
      /\ c.finallyTasks = {} /\ c.finallyListTasks = {}
      /\ UsedNames(c) \subseteq UsedNames(g) /\ RegularNames(c) = RegularNames(g)
  BY CoreIs
<1>2. GraphOK(c)
  BY CoreGraph
<1>3. NamesOf({}) = {}
  BY DEF NamesOf
<1>4. ASSUME NEW h, h.loadingTasks = {}, StaysSound(c, h) PROVE Graph(Work(h))
  BY <1>4, GraphOfForm DEF StaysSound
<1>5. ASSUME NEW n PROVE \E e : e \in Found(n, {})
  BY <1>3 DEF Found
<1>6. /\ \A t, n : /\ Work(AddListNodeBefore(g, t, n)) = Work(AddListNodeBefore(c, t, n))
                   /\ Work(AddListNodeAfter(g, t, n)) = Work(AddListNodeAfter(c, t, n))
                   /\ Work(AddListNodeParallel(g, t, n)) = Work(AddListNodeParallel(c, t, n))
      /\ \A name, res, A, new : Work(ConvertListToTask(g, name, res, A, new))
                                  = Work(ConvertListToTask(c, name, res, A, new))
      /\ \A n, r, f, e :
           /\ Work(DeleteListTask(g, n, r, f)) = Work(DeleteListTask(c, n, r, e))
           /\ Work(RemoveTask(g, n, r, f)) = Work(RemoveTask(c, n, r, e))
      /\ \A old, new : Work(RenameTask(g, old, new)) = Work(RenameTask(c, old, new))
  BY WorkOf
<1> HIDE DEF c
<1>7. ASSUME NEW t \in g.tasks, NEW n, n \notin RegularNames(g)
      PROVE  /\ Graph(Work(AddListNodeBefore(g, t, n)))
             /\ Graph(Work(AddListNodeAfter(g, t, n)))
             /\ Graph(Work(AddListNodeParallel(g, t, n)))
  <2>1. /\ StaysSound(c, AddListNodeBefore(c, t, n))
        /\ StaysSound(c, AddListNodeAfter(c, t, n))
        /\ StaysSound(c, AddListNodeParallel(c, t, n))
    BY <1>1, <1>2, <1>3, <1>7, AddListNodeKeeps
  <2> QED BY <1>1, <1>4, <1>6, <2>1, EditsKeepLoading
<1>8. ASSUME NEW name, NEW res, NEW A, NEW new \in TaskName, new \notin UsedNames(g),
             \/ \E l \in g.listTasks : l.name = name /\ l.runAfter = A
             \/ g.tasks = {} /\ g.listTasks = {} /\ A = {}
      PROVE  Graph(Work(ConvertListToTask(g, name, res, A, new)))
  <2>1. new \notin UsedNames(c)
    BY <1>1, <1>8
  <2>2. StaysSound(c, ConvertListToTask(c, name, res, A, new))
    BY <1>1, <1>2, <1>8, <2>1, ConvertListToTaskKeeps
  <2> QED BY <1>1, <1>4, <1>6, <2>2, EditsKeepLoading
<1>9. ASSUME NEW n \in ListName, NEW f, NEW r \in Found(n, g.listTasks)
      PROVE  Graph(Work(DeleteListTask(g, n, r, f)))
  <2>1. PICK e : e \in Found(n, {})
    BY <1>5
  <2>2. StaysSound(c, DeleteListTask(c, n, r, e))
    BY <1>1, <1>2, <2>1, DeleteListTaskKeeps
  <2> QED BY <1>1, <1>4, <1>6, <2>2, EditsKeepLoading
<1>10. ASSUME NEW n \in TaskName, NEW f, NEW r \in Found(n, g.tasks)
       PROVE  Graph(Work(RemoveTask(g, n, r, f)))
  <2>1. PICK e : e \in Found(n, {})
    BY <1>5
  <2>2. StaysSound(c, RemoveTask(c, n, r, e))
    BY <1>1, <1>2, <2>1, RemoveTaskKeeps
  <2> QED BY <1>1, <1>4, <1>6, <2>2, EditsKeepLoading
<1>11. ASSUME NEW old \in TaskName, NEW new \in TaskName, new \notin UsedNames(g)
       PROVE  Graph(Work(RenameTask(g, old, new)))
  <2>1. new \notin UsedNames(c)
    BY <1>1, <1>11
  <2>2. StaysSound(c, RenameTask(c, old, new))
    BY <1>1, <1>2, <2>1, RenameTaskKeeps
  <2> QED BY <1>1, <1>4, <1>6, <2>2, EditsKeepLoading
<1> QED BY <1>7, <1>8, <1>9, <1>10, <1>11

\* As many nodes as there were, or one more or less.
Finite(g) == IsFiniteSet(g.tasks) /\ IsFiniteSet(g.listTasks)

LEMMA FiniteKept ==
  ASSUME NEW g \in Grouping, Finite(g)
  PROVE  /\ \A t, n : /\ Finite(AddListNodeBefore(g, t, n))
                      /\ Finite(AddListNodeAfter(g, t, n))
                      /\ Finite(AddListNodeParallel(g, t, n))
         /\ \A n : Finite(AddFinallyListTask(g, n))
         /\ \A name, res, A, new : /\ Finite(ConvertListToTask(g, name, res, A, new))
                                   /\ Finite(ConvertFinallyListToTask(g, name, res, new))
         /\ \A n, r, f : Finite(DeleteListTask(g, n, r, f)) /\ Finite(RemoveTask(g, n, r, f))
         /\ \A old, new : Finite(RenameTask(g, old, new))
<1> DEFINE Kept(S) ==
      /\ \A x, y : /\ IsFiniteSet(MapReplaceRelated(x, y, S)) /\ IsFiniteSet(MapBeRelated(x, y, S))
                   /\ IsFiniteSet(MapAddRelated(x, y, S)) /\ IsFiniteSet(RenameIn(x, y, S))
      /\ \A x : IsFiniteSet(MapStitchReplace(x, S)) /\ IsFiniteSet(Without(x, S))
<1>1. \A S : IsFiniteSet(S) => Kept(S)
  BY MapsKeepFinite
<1>2. Kept(g.tasks) /\ Kept(g.listTasks) /\ IsFiniteSet(g.tasks) /\ IsFiniteSet(g.listTasks)
  BY <1>1 DEF Finite
<1>3. \A S, x : IsFiniteSet(S) => IsFiniteSet(S \cup {x})
  BY FS_AddElement
<1>4. \A t, n : /\ Finite(AddListNodeBefore(g, t, n))
                /\ Finite(AddListNodeAfter(g, t, n))
                /\ Finite(AddListNodeParallel(g, t, n))
  BY <1>2, <1>3 DEF Finite, Grouping, AddListNodeBefore, AddListNodeAfter, AddListNodeParallel
<1>5. /\ \A n : Finite(AddFinallyListTask(g, n))
      /\ \A name, res, new : Finite(ConvertFinallyListToTask(g, name, res, new))
  BY <1>2 DEF Finite, Grouping, AddFinallyListTask, ConvertFinallyListToTask
<1>6. ASSUME NEW name, NEW res, NEW A, NEW new PROVE Finite(ConvertListToTask(g, name, res, A, new))
  <2> DEFINE h == ConvertListToTask(g, name, res, A, new)
  <2>1. h.tasks = MapReplaceRelated(new, name, g.tasks)
                    \cup {[name |-> new, runAfter |-> A, res |-> res]}
    BY DEF Grouping, ConvertListToTask
  <2>2. h.listTasks = MapReplaceRelated(new, name, Without(name, g.listTasks))
    BY DEF Grouping, ConvertListToTask
  <2> HIDE DEF h
  <2>3. IsFiniteSet(h.tasks)
    <3>1. IsFiniteSet(MapReplaceRelated(new, name, g.tasks))
      BY <1>2
    <3> QED BY <2>1, <3>1, FS_AddElement
  <2>4. IsFiniteSet(h.listTasks)
    BY <1>1, <1>2, <2>2
  <2> QED BY <2>3, <2>4 DEF Finite, h
<1>7. ASSUME NEW n, NEW r, NEW f PROVE Finite(DeleteListTask(g, n, r, f))
  BY <1>1, <1>2 DEF Finite, Grouping, DeleteListTask
<1>8. ASSUME NEW n, NEW r, NEW f PROVE Finite(RemoveTask(g, n, r, f))
  BY <1>1, <1>2 DEF Finite, Grouping, RemoveTask
<1>9. \A old, new : Finite(RenameTask(g, old, new))
  BY <1>2 DEF Finite, Grouping, RenameTask
<1> QED BY <1>4, <1>5, <1>6, <1>7, <1>8, <1>9

\* An edit keeps the form sound.
LEMMA EditKeepsSound ==
  ASSUME group \in Grouping, group.loadingTasks = {}, Refs(group) \subseteq installed,
         installed \subseteq Resource, ui \in {None} \cup Search \cup Rename \cup Removal,
         Graph(Work(group)), Finite(group), CaptureCurrent, Edit
  PROVE  Graph(Work(group')) /\ Finite(group')
<1> DEFINE Goal == Graph(Work(group')) /\ Finite(group')
<1>1. CASE UNCHANGED group
  BY <1>1
<1>2. RegularNames(group) \subseteq AllNames(group)
  BY DEF AllNames
<1>3. ASSUME NEW t \in group.tasks, NEW n \in ListName, AddListNode(t, n) PROVE Goal
  <2>1. n \notin RegularNames(group)
    BY <1>2, <1>3 DEF AddListNode
  <2>2. \/ group' = AddListNodeBefore(group, t, n)
        \/ group' = AddListNodeAfter(group, t, n)
        \/ group' = AddListNodeParallel(group, t, n)
    BY <1>3 DEF AddListNode
  <2> QED BY <2>1, <2>2, WorkKept, FiniteKept
<1>4. ASSUME NEW n \in ListName, AddNewFinallyListNode(n) PROVE Goal
  <2>1. group' = AddFinallyListTask(group, n)
    BY <1>4 DEF AddNewFinallyListNode
  <2> QED BY <2>1, WorkOf, FiniteKept
<1>5. ASSUME NEW n \in ListName, RemoveListNode(n) PROVE Goal
  <2>1. PICK r \in Found(n, group.listTasks) : \E f : group' = DeleteListTask(group, n, r, f)
    BY <1>5 DEF RemoveListNode
  <2> QED BY <2>1, WorkKept, FiniteKept
<1>6. ASSUME NEW t \in group.tasks \cup group.finallyTasks, RemoveInvalid(t) PROVE Goal
  <2>1. Resolves(t)
    BY DEF Refs, Resolves
  <2> QED BY <1>6, <2>1 DEF RemoveInvalid
<1>7. CASE ConfirmRemove
  <2>1. ui \in Removal /\ ui.group = group
    BY <1>7 DEF ConfirmRemove, CaptureCurrent
  <2>2. PICK n \in TaskName : n = ui.name
    BY <2>1 DEF Removal
  <2>3. PICK r \in Found(n, group.tasks) : \E f : group' = RemoveTask(group, n, r, f)
    BY <1>7, <2>1, <2>2 DEF ConfirmRemove
  <2> QED BY <2>3, WorkKept, FiniteKept
<1>8. CASE BlurName
  <2>1. ui \in Rename /\ ui.new \notin UsedNames(group)
    BY <1>8 DEF BlurName, CaptureCurrent
  <2>2. PICK old \in TaskName, new \in TaskName : old = ui.old /\ new = ui.new
    BY <2>1 DEF Rename
  <2>3. new \notin UsedNames(group) /\ group' = RenameTask(group, old, new)
    BY <1>8, <2>1, <2>2 DEF BlurName
  <2> QED BY <2>3, WorkKept, FiniteKept
<1>9. ASSUME NEW r \in installed, PickInstalled(r) PROVE Goal
  <2>1. callback \in Targets /\ group' \in PickedFor(r)
    BY <1>9 DEF PickInstalled, Searching, CaptureCurrent
  <2>2. ~callback.invalid
    BY <2>1, NoInvalidTarget
  <2>3. CASE callback.fin
    <3>1. PICK n : group' = ConvertFinallyListToTask(group, callback.name, r, n)
      BY <2>1, <2>2, <2>3 DEF PickedFor
    <3> QED BY <3>1, WorkOf, FiniteKept
  <2>4. CASE ~callback.fin
    <3>1. PICK n \in SafeNames(UsedNames(group), r) :
            group' = ConvertListToTask(group, callback.name, r, callback.runAfter, n)
      BY <2>1, <2>2, <2>4 DEF PickedFor
    <3>2. n \in TaskName /\ n \notin UsedNames(group)
      BY SafeNamesFresh
    <3>3. \/ \E l \in group.listTasks : l.name = callback.name /\ l.runAfter = callback.runAfter
          \/ group.tasks = {} /\ group.listTasks = {} /\ callback.runAfter = {}
      BY <2>1, <2>2, <2>4, ListTargetNode DEF Graph, Work
    <3> QED BY <3>1, <3>2, <3>3, WorkKept, FiniteKept
  <2> QED BY <2>3, <2>4
<1>10. ASSUME NEW t, AskRemove(t) PROVE UNCHANGED group
  BY <1>10 DEF AskRemove
<1>11. ASSUME NEW t, NEW n, TypeName(t, n) PROVE UNCHANGED group
  BY <1>11 DEF TypeName
<1>12. ASSUME NEW target, OpenSearch(target) \/ Dismiss PROVE UNCHANGED group
  BY <1>12 DEF OpenSearch, Dismiss
<1> QED BY <1>1, <1>3, <1>4, <1>5, <1>6, <1>7, <1>8, <1>9, <1>10, <1>11, <1>12 DEF Edit
-----------------------------------------------------------------------------
(***************************************************************************)
(* From a text to the form.                                                *)
(***************************************************************************)

\* Fewer nodes with fewer runAfters make no circle.
LEMMA AcyclicLess ==
  ASSUME NEW R, NEW Q, Acyclic(R),
         \A q \in Q : \E t \in R : q.name = t.name /\ q.runAfter \subseteq t.runAfter
  PROVE  Acyclic(Q)
<1>1. NamesOf(Q) \subseteq NamesOf(R)
  BY DEF NamesOf
<1>2. ASSUME NEW S \in SUBSET NamesOf(Q), S # {}
      PROVE  \E n \in S : \A q \in Q : q.name = n => q.runAfter \cap S = {}
  <2>1. PICK n \in S : \A t \in R : t.name = n => t.runAfter \cap S = {}
    BY <1>1, <1>2 DEF Acyclic
  <2>2. \A q \in Q : q.name = n => q.runAfter \cap S = {}
    BY <2>1
  <2> QED BY <2>2
<1> QED BY <1>2 DEF Acyclic

\* Tasks that run after tasks, and list nodes that run after either.
LEMMA GraphOfParts ==
  ASSUME NEW T, NEW L, Distinct(T), Distinct(L), NamesOf(T) \cap NamesOf(L) = {},
         Acyclic(T), Acyclic(L),
         \A t \in T : t.runAfter \subseteq NamesOf(T),
         \A l \in L : l.runAfter \subseteq NamesOf(T) \cup NamesOf(L)
  PROVE  Graph(T \cup L)
<1> DEFINE R == T \cup L
<1>1. NamesOf(R) = NamesOf(T) \cup NamesOf(L)
  BY NamesOfUnion
<1>2. Distinct(R)
  BY DistinctSplit
<1>3. Closed(R)
  BY <1>1 DEF Closed
<1>4. ASSUME NEW S \in SUBSET NamesOf(R), S # {}
      PROVE  \E n \in S : \A t \in R : t.name = n => t.runAfter \cap S = {}
  <2>1. CASE S \cap NamesOf(T) = {}
    <3>1. S \subseteq NamesOf(L)
      BY <1>1, <2>1
    <3>2. PICK n \in S : \A t \in L : t.name = n => t.runAfter \cap S = {}
      BY <1>4, <3>1 DEF Acyclic
    <3>3. \A t \in T : t.name # n
      BY <2>1, NamesOfMember
    <3> QED BY <3>2, <3>3
  <2>2. CASE S \cap NamesOf(T) # {}
    <3>1. PICK n \in S \cap NamesOf(T) :
            \A t \in T : t.name = n => t.runAfter \cap (S \cap NamesOf(T)) = {}
      BY <2>2 DEF Acyclic
    <3>2. \A t \in T : t.name = n => t.runAfter \cap S = {}
      BY <3>1
    <3>3. \A l \in L : l.name # n
      BY <3>1, NamesOfMember
    <3> QED BY <3>1, <3>2, <3>3
  <2> QED BY <2>1, <2>2
<1> QED BY <1>2, <1>3, <1>4 DEF Graph, Acyclic

\* L and M are the same list nodes, but that those of M may run after less.
Fewer(L, M) ==
  /\ \A m \in M : \E l \in L : m.name = l.name /\ m.runAfter \subseteq l.runAfter
  /\ NamesOf(M) = NamesOf(L)
  /\ Distinct(L) => Distinct(M)

LEMMA FewerKeepsGraph ==
  ASSUME NEW T, NEW L, NEW M, NamesOf(T) \cap NamesOf(L) = {}, Graph(T \cup L), Fewer(L, M)
  PROVE  Graph(T \cup M)
<1>1. NamesOf(T \cup L) = NamesOf(T \cup M)
  <2>1. NamesOf(T \cup L) = NamesOf(T) \cup NamesOf(L)
    BY NamesOfUnion
  <2>2. NamesOf(T \cup M) = NamesOf(T) \cup NamesOf(M)
    BY NamesOfUnion
  <2> QED BY <2>1, <2>2 DEF Fewer
<1>2. \A q \in T \cup M : \E t \in T \cup L : q.name = t.name /\ q.runAfter \subseteq t.runAfter
  BY DEF Fewer
<1>3. Distinct(T \cup M)
  BY DistinctSplit DEF Graph, Fewer
<1>4. Acyclic(T \cup M)
  BY <1>2, AcyclicLess DEF Graph
<1>5. Closed(T \cup M)
  BY <1>1, <1>2 DEF Graph, Closed
<1> QED BY <1>3, <1>4, <1>5 DEF Graph

\* What a form takes from the tasks of a text.
LEMMA AfterType ==
  ASSUME NEW x \in TextTask
  PROVE  After(x) \in SUBSET Name
<1>1. x.runAfter = None \/ x.runAfter \in Seq(Name)
  BY DEF TextTask
<1> QED BY <1>1, FiniteRange DEF After

FormTask == [name : TaskName, runAfter : SUBSET Name, res : Resource \cup {NoName}]

LEMMA TextTasks ==
  ASSUME NEW t, IsText(t)
  PROVE  /\ Range(t.tasks) \subseteq TextTask
         /\ TasksOf(t) \in SUBSET FormTask /\ IsFiniteSet(TasksOf(t))
         /\ NamesOf(TasksOf(t)) = NamesOf(Range(t.tasks))
         /\ \A k \in TasksOf(t) : \E x \in Range(t.tasks) :
              k.name = x.name /\ k.res = x.res /\ k.runAfter = After(x)
         /\ \A x \in Range(t.tasks) : \E k \in TasksOf(t) :
              k.name = x.name /\ k.res = x.res /\ k.runAfter = After(x)
<1> DEFINE T == Range(t.tasks)
<1> DEFINE F == [x \in T |-> [x EXCEPT !.runAfter = After(x)]]
<1>1. t.tasks \in Seq(TextTask)
  BY DEF IsText
<1>2. T \subseteq TextTask /\ IsFiniteSet(T)
  BY <1>1, FiniteRange
<1>3. ASSUME NEW x \in T
      PROVE  /\ F[x] \in FormTask /\ F[x].name = x.name /\ F[x].res = x.res
             /\ F[x].runAfter = After(x)
  BY <1>2, AfterType DEF TextTask, FormTask
<1>4. TasksOf(t) = {F[x] : x \in T} /\ F \in [T -> TasksOf(t)]
  BY DEF TasksOf
<1> HIDE DEF T, F
<1>5. F \in Surjection(T, TasksOf(t))
  BY <1>4 DEF Surjection
<1>6. IsFiniteSet(TasksOf(t))
  BY <1>2, <1>5, FS_Surjection
<1>7. NamesOf(TasksOf(t)) = NamesOf(T)
  BY <1>3, <1>4 DEF NamesOf
<1>8. /\ TasksOf(t) \in SUBSET FormTask
      /\ \A k \in TasksOf(t) : \E x \in T : k.name = x.name /\ k.res = x.res /\ k.runAfter = After(x)
      /\ \A x \in T : \E k \in TasksOf(t) : k.name = x.name /\ k.res = x.res /\ k.runAfter = After(x)
  BY <1>3, <1>4
<1> QED BY <1>2, <1>6, <1>7, <1>8 DEF T

LEMMA FormDataIs ==
  ASSUME NEW g \in Grouping, NEW t, NEW h, h = GetFormData(g, t)
  PROVE  /\ h.tasks = TasksOf(t) /\ h.finallyTasks = t.finallyTasks
         /\ h.loadingTasks = g.loadingTasks /\ h.finallyListTasks = g.finallyListTasks
         /\ h.listTasks \in SUBSET ListTask /\ Fewer(g.listTasks, h.listTasks)
         /\ \A l \in h.listTasks : /\ l.runAfter \subseteq NamesOf(g.tasks) \cup NamesOf(g.listTasks)
                                   /\ l.name \notin l.runAfter
         /\ IsFiniteSet(g.listTasks) => IsFiniteSet(h.listTasks)
         /\ TasksOf(t) \in SUBSET Task /\ t.finallyTasks \in SUBSET Task => h \in Grouping
<1> DEFINE L == g.listTasks
<1> DEFINE known == NamesOf(g.tasks) \cup NamesOf(L)
<1> DEFINE F == [l \in L |-> [l EXCEPT !.runAfter = {n \in @ : n # l.name /\ n \in known}]]
<1> DEFINE M == {F[l] : l \in L}
<1>1. h = [g EXCEPT !.tasks = TasksOf(t), !.finallyTasks = t.finallyTasks, !.listTasks = M]
  BY DEF GetFormData
<1>2. L \in SUBSET ListTask
  BY DEF Grouping
<1>3. \A l \in L : /\ F[l] \in ListTask /\ F[l].name = l.name
                   /\ F[l].runAfter = {n \in l.runAfter : n # l.name /\ n \in known}
  BY <1>2 DEF ListTask
<1> HIDE DEF F
<1>4. NamesOf(M) = NamesOf(L) /\ (Distinct(L) => Distinct(M))
  <2>1. \A l \in L : F[l].name = l.name
    BY <1>3
  <2> HIDE DEF L
  <2> QED BY <2>1, ImageNodes
<1>5. \A m \in M : /\ m \in ListTask /\ m.runAfter \subseteq known /\ m.name \notin m.runAfter
                   /\ \E l \in L : m.name = l.name /\ m.runAfter \subseteq l.runAfter
  BY <1>3
<1>9. IsFiniteSet(L) => IsFiniteSet(M)
  <2>1. F \in Surjection(L, M)
    BY DEF F, Surjection
  <2> HIDE DEF M
  <2> QED BY <2>1, FS_Surjection
<1> HIDE DEF M
<1>6. M \in SUBSET ListTask
  BY <1>5
<1>7. /\ h.tasks = TasksOf(t) /\ h.finallyTasks = t.finallyTasks /\ h.listTasks = M
      /\ h.loadingTasks = g.loadingTasks /\ h.finallyListTasks = g.finallyListTasks
  BY <1>1 DEF Grouping
<1>8. TasksOf(t) \in SUBSET Task /\ t.finallyTasks \in SUBSET Task => h \in Grouping
  BY <1>1, <1>6 DEF Grouping
<1> QED BY <1>4, <1>5, <1>7, <1>8, <1>9 DEF Fewer

\* Nothing changes where the text has the tasks of a form that is a graph.
LEMMA FormDataSame ==
  ASSUME NEW g \in Grouping, g.loadingTasks = {}, Graph(Work(g)), NEW t,
         TasksOf(t) = g.tasks, t.finallyTasks = g.finallyTasks
  PROVE  GetFormData(g, t) = g
<1> DEFINE L == g.listTasks
<1> DEFINE known == NamesOf(g.tasks) \cup NamesOf(L)
<1> DEFINE M == {[l EXCEPT !.runAfter = {n \in @ : n # l.name /\ n \in known}] : l \in L}
<1>1. L \in SUBSET ListTask
  BY DEF Grouping
<1>2. ASSUME NEW l \in L PROVE {n \in l.runAfter : n # l.name /\ n \in known} = l.runAfter
  <2>1. l \in Work(g) /\ NamesOf(Work(g)) = known
    BY NamesOfUnion DEF Work
  <2>2. l.runAfter \subseteq known /\ l.name \notin l.runAfter
    BY <2>1, NoSelfRunAfter DEF Graph, Closed
  <2> QED BY <2>2
<1>3. ASSUME NEW l \in L
      PROVE  [l EXCEPT !.runAfter = {n \in @ : n # l.name /\ n \in known}] = l
  BY <1>1, <1>2 DEF ListTask
<1>4. M = L
  BY <1>3
<1>5. GetFormData(g, t) = [g EXCEPT !.tasks = g.tasks, !.finallyTasks = g.finallyTasks,
                                    !.listTasks = M]
  BY DEF GetFormData
<1> HIDE DEF M
<1>6. [g EXCEPT !.tasks = g.tasks, !.finallyTasks = g.finallyTasks, !.listTasks = L] = g
  BY DEF Grouping
<1> QED BY <1>4, <1>5, <1>6

\* A text with references everywhere is one of tasks.
LEMMA TasksOfText ==
  ASSUME NEW t, IsText(t), Resolving(t), Undefined(t) = {}
  PROVE  /\ TasksOf(t) \in SUBSET Task /\ t.finallyTasks \in SUBSET Task
         /\ IsFiniteSet(TasksOf(t))
         /\ \A task \in TasksOf(t) \cup t.finallyTasks : task.res \in InitiallyThere
<1>1. t.finallyTasks \in SUBSET Task
  BY DEF IsText
<1>2. /\ IsFiniteSet(TasksOf(t)) /\ TasksOf(t) \subseteq FormTask
      /\ \A k \in TasksOf(t) : \E x \in Range(t.tasks) : k.res = x.res
  BY TextTasks
<1>3. \A task \in Range(t.tasks) : task.res # NoName
  BY DEF Undefined, Range
<1>4. \A k \in TasksOf(t) : k.res # NoName /\ k.res \in InitiallyThere \cup {NoName}
  BY <1>2, <1>3 DEF Resolving
<1>5. TasksOf(t) \in SUBSET Task
  BY <1>2, <1>4 DEF FormTask, Task
<1>6. \A task \in Task : task.res # NoName
  BY NamesAssumption DEF Task
<1> QED BY <1>1, <1>2, <1>4, <1>5, <1>6 DEF Resolving

\* What the form takes from a text can be edited on where it is a graph.
LEMMA FormOfText ==
  ASSUME NEW g \in Grouping, g.loadingTasks = {}, IsFiniteSet(g.listTasks), NEW t,
         NEW h, h = GetFormData(g, t), IsText(t), Resolving(t), Undefined(t) = {}
  PROVE  Form(h)
<1>1. /\ TasksOf(t) \in SUBSET Task /\ t.finallyTasks \in SUBSET Task
      /\ IsFiniteSet(TasksOf(t))
      /\ \A task \in TasksOf(t) \cup t.finallyTasks : task.res \in InitiallyThere
  BY TasksOfText
<1>2. /\ h \in Grouping /\ h.loadingTasks = {} /\ IsFiniteSet(h.listTasks)
      /\ h.tasks = TasksOf(t) /\ h.finallyTasks = t.finallyTasks
  BY <1>1, FormDataIs
<1> QED BY <1>1, <1>2 DEF Form, Refs

LEMMA OrderlyTasks ==
  ASSUME NEW t, IsText(t), Orderly(t)
  PROVE  /\ Distinct(TasksOf(t)) /\ Acyclic(TasksOf(t))
         /\ \A k \in TasksOf(t) : k.runAfter \cap (NamesOf(t.finallyTasks) \cup ListName) = {}
<1>1. \A x, y \in Range(t.tasks) : x.name = y.name => x = y
  BY DEF Orderly, Range
<1>2. \A x \in Range(t.tasks) : [x EXCEPT !.runAfter = After(x)].name = x.name
  <2>1. Range(t.tasks) \subseteq TextTask
    BY TextTasks
  <2> QED BY <2>1 DEF TextTask
<1>3. Distinct(TasksOf(t))
  <2> SUFFICES ASSUME NEW k \in TasksOf(t), NEW m \in TasksOf(t), k.name = m.name
               PROVE  k = m
    BY DEF Distinct
  <2>1. PICK x \in Range(t.tasks) : k = [x EXCEPT !.runAfter = After(x)]
    BY DEF TasksOf
  <2>2. PICK y \in Range(t.tasks) : m = [y EXCEPT !.runAfter = After(y)]
    BY DEF TasksOf
  <2>3. x = y
    BY <1>1, <1>2, <2>1, <2>2
  <2> QED BY <2>1, <2>2, <2>3
<1> QED BY <1>3, TextTasks DEF Orderly

\* Where nothing dangles, the tasks run after what they may refer to.
LEMMA NoneDangles ==
  ASSUME NEW g, NEW t, NEW x, Dangling(g, t, x) = {}
  PROVE  After(x) \subseteq Referable(g, t)
  BY DEF Dangling, After, Range

\* In a valid text that is orderly the tasks run after tasks of it.
LEMMA ValidIsGraph ==
  ASSUME NEW g, NEW t, IsText(t), Orderly(t), Valid(g, t),
         NEW L \in SUBSET ListTask, Distinct(L), Acyclic(L), NamesOf(g.listTasks) = NamesOf(L),
         \A l \in L : l.runAfter \subseteq NamesOf(TasksOf(t)) \cup NamesOf(L)
  PROVE  Graph(TasksOf(t) \cup L)
<1> DEFINE T == TasksOf(t)
<1>1. /\ T \subseteq FormTask /\ NamesOf(T) = NamesOf(Range(t.tasks))
      /\ \A k \in T : \E x \in Range(t.tasks) : k.runAfter = After(x)
  BY TextTasks
<1>2. NamesOf(T) \subseteq TaskName /\ NamesOf(L) \subseteq ListName
  BY <1>1 DEF NamesOf, FormTask, ListTask
<1>3. ASSUME NEW k \in T PROVE k.runAfter \subseteq NamesOf(T)
  <2>1. PICK x \in Range(t.tasks) : k.runAfter = After(x)
    BY <1>1
  <2>2. After(x) \subseteq Referable(g, t)
    BY NoneDangles DEF Valid
  <2>3. k.runAfter \cap (NamesOf(t.finallyTasks) \cup ListName) = {}
    BY OrderlyTasks
  <2> QED BY <1>1, <1>2, <2>1, <2>2, <2>3 DEF Referable
<1>4. NamesOf(T) \cap NamesOf(L) = {}
  BY <1>2, NamesAssumption
<1>5. /\ Distinct(T) /\ Acyclic(T)
      /\ \A l \in L : l.runAfter \subseteq NamesOf(T) \cup NamesOf(L)
  BY OrderlyTasks
<1> HIDE DEF T
<1>6. Graph(T \cup L)
  BY <1>3, <1>4, <1>5, GraphOfParts
<1> QED BY <1>6 DEF T

\* A text that is written of a form is valid.
LEMMA GraphIsValid ==
  ASSUME NEW g, NEW t, IsText(t), Undefined(t) = {}, Graph(TasksOf(t) \cup g.listTasks)
  PROVE  Valid(g, t)
<1> DEFINE R == TasksOf(t) \cup g.listTasks
<1>1. NamesOf(R) \subseteq Referable(g, t)
  BY NamesOfUnion, TextTasks DEF Referable
<1>2. ASSUME NEW x \in Range(t.tasks) PROVE Dangling(g, t, x) = {}
  <2>1. PICK k \in R : k.name = x.name /\ k.runAfter = After(x)
    BY TextTasks
  <2> HIDE DEF R
  <2>2. After(x) \subseteq NamesOf(R) /\ x.name \notin After(x)
    BY <2>1, NoSelfRunAfter DEF Graph, Closed, R
  <2> QED BY <1>1, <2>2 DEF Dangling, After, Range
<1> QED BY <1>2 DEF Valid

(***************************************************************************)
(* What is left of a text when runAfters and tasks are taken out, be they  *)
(* the wrong ones: its tasks are the text's, with some of their runAfters. *)
(***************************************************************************)
Left(t, s) ==
  /\ s \in Seq(TextTask)
  /\ \A i, j \in DOMAIN s : s[i].name = s[j].name => i = j
  /\ \A i \in DOMAIN s : \E x \in Range(t.tasks) :
       s[i].name = x.name /\ s[i].res = x.res /\ After(s[i]) \subseteq After(x)

LEMMA OmitTaskLeaves ==
  ASSUME NEW t, NEW s, s # None => Left(t, s), NEW i, NEW undefined,
         NEW r, r = OmitTask(s, i, undefined)
  PROVE  r # None => Left(t, r)
<1>1. CASE r = s
  BY <1>1
<1>2. CASE r # s
  <2>1. /\ s # None /\ i \in DOMAIN s /\ r = RemoveAt(s, i)
        /\ Left(t, s) /\ s \in Seq(TextTask)
    BY <1>2 DEF OmitTask, Left
  <2>2. Len(s) \in Nat /\ DOMAIN s = 1 .. Len(s)
    BY <2>1, LenProperties
  <2>3. /\ r \in Seq(TextTask) /\ i \in 1 .. Len(s) /\ Len(r) = Len(s) - 1
        /\ \A j \in 1 .. Len(s) - 1 : r[j] = s[IF j < i THEN j ELSE j + 1]
    BY <2>1, RemoveAtType
  <2>4. DOMAIN r = 1 .. Len(s) - 1
    BY <2>3, LenProperties
  <2> DEFINE at(j) == IF j < i THEN j ELSE j + 1
  <2>5. \A j \in DOMAIN r : at(j) \in DOMAIN s /\ r[j] = s[at(j)]
    BY <2>2, <2>3, <2>4
  <2>6. \A j, k \in DOMAIN r : at(j) = at(k) => j = k
    BY <2>2, <2>3, <2>4
  <2> HIDE DEF at
  <2> QED BY <2>1, <2>3, <2>5, <2>6 DEF Left
<1> QED BY <1>1, <1>2

LEMMA OmitRunAftersLeaves ==
  ASSUME NEW t, NEW s, s # None => Left(t, s), NEW i, NEW places,
         NEW r, r = OmitRunAfters(s, i, places)
  PROVE  r # None => Left(t, r)
<1>1. CASE r = s \/ r = None
  BY <1>1
<1>2. CASE r # s /\ r # None
  <2>1. /\ s # None /\ i \in DOMAIN s /\ s[i].runAfter # None
        /\ r = [s EXCEPT ![i].runAfter = TakenOut(@, places)]
        /\ Left(t, s) /\ s \in Seq(TextTask)
    BY <1>2 DEF OmitRunAfters, Left
  <2>2. Len(s) \in Nat /\ DOMAIN s = 1 .. Len(s) /\ \A j \in DOMAIN s : s[j] \in TextTask
    BY <2>1, LenProperties
  <2>3. s[i].runAfter \in Seq(Name)
    BY <2>1, <2>2 DEF TextTask
  <2> DEFINE A == TakenOut(s[i].runAfter, places)
  <2>4. A \in Seq(Range(s[i].runAfter)) /\ A \in Seq(Name)
    <3>1. s[i].runAfter \in Seq(Range(s[i].runAfter))
      BY <2>3, LenProperties DEF Range
    <3> QED BY <2>3, <3>1, TakenOutType
  <2>5. A # None /\ Range(A) \subseteq Range(s[i].runAfter)
    BY <2>4, FiniteRange, TypingsAssumption
  <2> HIDE DEF A
  <2>6. r = [s EXCEPT ![i] = [s[i] EXCEPT !.runAfter = A]]
    BY <2>1 DEF A
  <2> DEFINE y == [s[i] EXCEPT !.runAfter = A]
  <2>7. /\ y \in TextTask /\ y.name = s[i].name /\ y.res = s[i].res /\ y.runAfter = A
    BY <2>1, <2>2, <2>4 DEF TextTask
  <2> HIDE DEF y
  <2>8. After(y) \subseteq After(s[i])
    BY <2>1, <2>5, <2>7 DEF After
  <2>9. DOMAIN r = DOMAIN s /\ r[i] = y /\ \A j \in DOMAIN s : j # i => r[j] = s[j]
    BY <2>1, <2>6 DEF y
  <2>10. r \in Seq(TextTask)
    BY <2>1, <2>6, <2>7 DEF y
  <2>11. \A j \in DOMAIN r :
           r[j].name = s[j].name /\ r[j].res = s[j].res /\ After(r[j]) \subseteq After(s[j])
    BY <2>7, <2>8, <2>9
  <2>12. \A j, k \in DOMAIN r : r[j].name = r[k].name => j = k
    BY <2>1, <2>9, <2>11 DEF Left
  <2>13. \A j \in DOMAIN r : \E x \in Range(t.tasks) :
           r[j].name = x.name /\ r[j].res = x.res /\ After(r[j]) \subseteq After(x)
    <3> TAKE j \in DOMAIN r
    <3>1. PICK x \in Range(t.tasks) :
            s[j].name = x.name /\ s[j].res = x.res /\ After(s[j]) \subseteq After(x)
      BY <2>1, <2>9 DEF Left
    <3> QED BY <2>11, <3>1
  <2> QED BY <2>10, <2>12, <2>13 DEF Left
<1> QED BY <1>1, <1>2

LEMMA OmitLeaves ==
  ASSUME NEW g, NEW t, IsText(t), Orderly(t), NEW o, o = Omit(g, t), o # None
  PROVE  \E s : Left(t, s) /\ o = [t EXCEPT !.tasks = s]
<1> DEFINE N == Len(t.tasks)
<1> DEFINE Step(s, i) ==
      OmitTask(OmitRunAfters(s, i, Dangling(g, t, t.tasks[i])), i, Undefined(t))
<1> DEFINE Body(f, i) == IF i = 0 THEN t.tasks ELSE Step(f[i - 1], i)
<1> DEFINE Upto(n, f) == DOMAIN f = 0 .. n /\ f = [i \in 0 .. n |-> Body(f, i)]
<1>1. t.tasks \in Seq(TextTask) /\ N \in Nat
  BY LenProperties DEF IsText
<1>2. Left(t, t.tasks)
  BY <1>1 DEF Left, Orderly, Range
<1>3. ASSUME NEW s, s # None => Left(t, s), NEW i PROVE Step(s, i) # None => Left(t, Step(s, i))
  <2> DEFINE r == OmitRunAfters(s, i, Dangling(g, t, t.tasks[i]))
  <2>1. r # None => Left(t, r)
    BY <1>3, OmitRunAftersLeaves
  <2> HIDE DEF r
  <2>2. OmitTask(r, i, Undefined(t)) # None => Left(t, OmitTask(r, i, Undefined(t)))
    BY <2>1, OmitTaskLeaves
  <2> QED BY <2>2 DEF r
<1> HIDE DEF N, Step
<1>4. \E f : Upto(0, f)
  <2>1. Upto(0, [i \in 0 .. 0 |-> t.tasks])
    OBVIOUS
  <2> QED BY <2>1
<1>5. ASSUME NEW n \in Nat, NEW f, Upto(n, f) PROVE \E h : Upto(n + 1, h)
  <2> DEFINE h == [i \in 0 .. n + 1 |-> IF i = n + 1 THEN Step(f[n], n + 1) ELSE f[i]]
  <2>1. ASSUME NEW i \in 0 .. n PROVE h[i] = Body(h, i)
    <3>1. h[i] = f[i] /\ (i # 0 => h[i - 1] = f[i - 1])
      OBVIOUS
    <3>2. f[i] = Body(f, i)
      BY <1>5
    <3> HIDE DEF h
    <3> QED BY <3>1, <3>2
  <2>2. h[n + 1] = Step(f[n], n + 1) /\ h[n] = f[n] /\ DOMAIN h = 0 .. n + 1
    OBVIOUS
  <2>3. h = [i \in 0 .. n + 1 |-> h[i]]
    OBVIOUS
  <2> HIDE DEF h
  <2>4. h[n + 1] = Body(h, n + 1)
    BY <2>2
  <2> HIDE DEF Body
  <2>5. \A i \in 0 .. n + 1 : h[i] = Body(h, i)
    BY <2>1, <2>4
  <2>6. h = [i \in 0 .. n + 1 |-> Body(h, i)]
    BY <2>3, <2>5, Zenon
  <2>7. Upto(n + 1, h)
    BY <2>2, <2>6
  <2> QED BY <2>7, Zenon
<1> HIDE DEF Upto
<1>6. \A n \in Nat : \E f : Upto(n, f)
  <2> SUFFICES ASSUME \E n \in Nat : ~\E f : Upto(n, f) PROVE FALSE
    OBVIOUS
  <2> DEFINE T == {n \in Nat : ~\E f : Upto(n, f)}
  <2>1. PICK m \in T : \A k \in T : m <= k
    BY LeastNat
  <2>2. m # 0
    BY <1>4
  <2>3. m - 1 \in Nat /\ m - 1 \notin T /\ (m - 1) + 1 = m
    BY <2>1, <2>2
  <2> QED BY <1>5, <2>3
<1>7. PICK f : Upto(N, f)
  BY <1>1, <1>6 DEF N
<1> DEFINE F == CHOOSE h : h = [i \in 0 .. N |-> Body(h, i)]
<1>8. f = [i \in 0 .. N |-> Body(f, i)]
  BY <1>7 DEF Upto
<1>9. F = [i \in 0 .. N |-> Body(F, i)]
  BY <1>8, Zenon
<1> HIDE DEF F
<1>10. \A i \in 0 .. N : F[i] = Body(F, i)
  BY <1>9
<1>11. \A n \in Nat : n <= N => (F[n] # None => Left(t, F[n]))
  <2> SUFFICES ASSUME \E n \in Nat : n <= N /\ ~(F[n] # None => Left(t, F[n])) PROVE FALSE
    OBVIOUS
  <2> DEFINE T == {n \in Nat : n <= N /\ ~(F[n] # None => Left(t, F[n]))}
  <2>1. PICK m \in T : \A k \in T : m <= k
    BY LeastNat
  <2>2. m \in 0 .. N /\ F[m] = Body(F, m)
    BY <1>1, <1>10, <2>1 DEF N
  <2>3. m # 0
    BY <1>2, <2>1, <2>2
  <2>4. m - 1 \in Nat /\ (F[m - 1] # None => Left(t, F[m - 1]))
    BY <1>1, <2>1, <2>3 DEF N
  <2>5. F[m] = Step(F[m - 1], m)
    BY <2>2, <2>3
  <2> QED BY <1>3, <2>1, <2>4, <2>5
<1>12. o = IF F[N] = None THEN None ELSE [t EXCEPT !.tasks = F[N]]
  BY DEF Omit, F, N, Step
<1> QED BY <1>1, <1>11, <1>12 DEF N

\* So what is left is as orderly as the text was.
LEMMA OmitKeepsOrder ==
  ASSUME NEW g, NEW t, IsText(t), Orderly(t), Resolving(t), NEW o, o = Omit(g, t), o # None
  PROVE  IsText(o) /\ Orderly(o) /\ Resolving(o)
<1> DEFINE T == TasksOf(t)
<1>1. PICK s : Left(t, s) /\ o = [t EXCEPT !.tasks = s]
  BY OmitLeaves
<1>2. o.tasks = s /\ o.finallyTasks = t.finallyTasks /\ DOMAIN o = DOMAIN t
  BY <1>1 DEF IsText
<1>3. IsText(o)
  BY <1>1, <1>2 DEF IsText, Left
<1>4. \A q \in Range(o.tasks) : \E x \in Range(t.tasks) :
        q.name = x.name /\ q.res = x.res /\ After(q) \subseteq After(x)
  BY <1>1, <1>2 DEF Left, Range
<1>5. \A k \in TasksOf(o) : \E x \in T : k.name = x.name /\ k.runAfter \subseteq x.runAfter
  <2> TAKE k \in TasksOf(o)
  <2>1. PICK q \in Range(o.tasks) : k.name = q.name /\ k.runAfter = After(q)
    BY <1>3, TextTasks
  <2>2. PICK x \in Range(t.tasks) : q.name = x.name /\ After(q) \subseteq After(x)
    BY <1>4
  <2> QED BY <2>1, <2>2, TextTasks
<1>6. Acyclic(TasksOf(o))
  BY <1>5, AcyclicLess, OrderlyTasks
<1>7. NamesOf(Range(o.tasks)) \subseteq NamesOf(Range(t.tasks))
  BY <1>4 DEF NamesOf
<1>8. Orderly(o)
  BY <1>1, <1>2, <1>4, <1>6, <1>7 DEF Orderly, Left
<1>9. Resolving(o)
  BY <1>2, <1>4 DEF Resolving
<1> QED BY <1>3, <1>8, <1>9

\* A repair that is valid can be edited on.
LEMMA CutSound ==
  ASSUME NEW g \in Grouping, g.loadingTasks = {}, IsFiniteSet(g.listTasks),
         Distinct(g.listTasks), Acyclic(g.listTasks), NEW u, u.finallyTasks \in SUBSET Task,
         NEW g0, g0 = GetFormData(g, u), NEW t, IsText(t), Orderly(t), Resolving(t), Valid(Cut(g0, t), t)
  PROVE  Sound(Cut(g0, t))
<1> DEFINE T == TasksOf(t)
<1> DEFINE g1 == [g0 EXCEPT !.tasks = T]
<1> DEFINE h == Cut(g0, t)
<1>1. Undefined(t) = {}
  BY DEF Valid
<1>2. T \in SUBSET Task
  BY <1>1, TasksOfText
<1>3. /\ g0.listTasks \in SUBSET ListTask /\ Fewer(g.listTasks, g0.listTasks)
      /\ g0.loadingTasks = {} /\ IsFiniteSet(g0.listTasks)
  BY FormDataIs
<1>4. /\ g1 \in Grouping /\ g1.tasks = T /\ g1.listTasks = g0.listTasks /\ g1.loadingTasks = {}
  BY <1>2, <1>3 DEF GetFormData, Grouping
<1> HIDE DEF g1
<1>5. h = GetFormData(g1, t)
  BY DEF Cut, g1
<1> HIDE DEF h
<1>6. Form(h)
  BY <1>1, <1>3, <1>4, <1>5, FormOfText
<1>7. /\ h.tasks = T /\ h.listTasks \in SUBSET ListTask /\ Fewer(g1.listTasks, h.listTasks)
      /\ \A l \in h.listTasks : l.runAfter \subseteq NamesOf(g1.tasks) \cup NamesOf(g1.listTasks)
  BY <1>4, <1>5, FormDataIs
<1>8. /\ Distinct(g0.listTasks) /\ Acyclic(g0.listTasks)
  BY <1>3, AcyclicLess DEF Fewer
<1>9. /\ Distinct(h.listTasks) /\ Acyclic(h.listTasks)
      /\ \A l \in h.listTasks : l.runAfter \subseteq NamesOf(T) \cup NamesOf(h.listTasks)
  BY <1>4, <1>7, <1>8, AcyclicLess DEF Fewer
<1>10. Graph(T \cup h.listTasks)
  BY <1>7, <1>9, ValidIsGraph DEF h
<1> QED BY <1>6, <1>7, <1>10 DEF Sound, Work, h

LEMMA SoundParts ==
  ASSUME NEW g, Sound(g)
  PROVE  /\ g \in Grouping /\ g.loadingTasks = {} /\ IsFiniteSet(g.listTasks)
         /\ Distinct(g.listTasks) /\ Acyclic(g.listTasks)
<1>1. /\ g \in Grouping /\ g.loadingTasks = {} /\ IsFiniteSet(g.listTasks)
      /\ Graph(g.tasks \cup g.listTasks)
  BY DEF Sound, Form, Work
<1>2. Acyclic(g.listTasks)
  BY <1>1, AcyclicLess DEF Graph
<1> QED BY <1>1, <1>2, DistinctSplit DEF Graph

LEMMA RepairSound ==
  ASSUME NEW g, Sound(g), NEW t, IsText(t), Orderly(t), Resolving(t), Repair(g, t) # None
  PROVE  Sound(Repair(g, t))
<1> DEFINE g0 == GetFormData(g, t)
<1> DEFINE once == Omit(g0, t)
<1> DEFINE again == Omit(Cut(g0, once), once)
<1>1. /\ g \in Grouping /\ g.loadingTasks = {} /\ IsFiniteSet(g.listTasks)
      /\ Distinct(g.listTasks) /\ Acyclic(g.listTasks)
  BY SoundParts
<1>2. t.finallyTasks \in SUBSET Task
  BY DEF IsText
<1>3. once # None => IsText(once) /\ Orderly(once) /\ Resolving(once)
  BY OmitKeepsOrder
<1>4. once # None /\ again # None => IsText(again) /\ Orderly(again) /\ Resolving(again)
  BY <1>3, OmitKeepsOrder
<1>5. once # None /\ Valid(Cut(g0, once), once) => Sound(Cut(g0, once))
  BY <1>1, <1>2, <1>3, CutSound
<1>6. once # None /\ again # None /\ Valid(Cut(g0, again), again) => Sound(Cut(g0, again))
  BY <1>1, <1>2, <1>4, CutSound
<1>7. Repair(g, t) = IF once = None THEN None
                     ELSE IF Valid(Cut(g0, once), once) THEN Cut(g0, once)
                     ELSE IF again = None THEN None
                     ELSE IF Valid(Cut(g0, again), again) THEN Cut(g0, again)
                     ELSE g
  BY DEF Repair
<1> HIDE DEF g0, once, again
<1> QED BY <1>5, <1>6, <1>7

-----------------------------------------------------------------------------
(***************************************************************************)
(* Every step keeps the invariant.                                         *)
(***************************************************************************)

LEMMA TextOfOk ==
  ASSUME NEW g, Sound(g), NEW p, Accepted(p), NEW t, t = TextOf(g, p)
  PROVE  /\ IsText(t) /\ Resolving(t) /\ Undefined(t) = {}
         /\ Graph(TasksOf(t) \cup g.listTasks)
         /\ t.finallyTasks = g.finallyTasks
         /\ g.tasks # {} => TasksOf(t) = g.tasks
<1> DEFINE S == IF g.tasks = {} THEN p.tasks ELSE g.tasks
<1>1. /\ g \in Grouping /\ g.loadingTasks = {} /\ IsFiniteSet(g.tasks) /\ IsFiniteSet(g.listTasks)
      /\ Refs(g) \subseteq InitiallyThere /\ Graph(g.tasks \cup g.listTasks)
      /\ g.tasks \in SUBSET Task /\ g.finallyTasks \in SUBSET Task /\ g.listTasks \in SUBSET ListTask
  BY DEF Sound, Form, Work, Grouping
<1>2. /\ p.tasks \in SUBSET Task /\ IsFiniteSet(p.tasks)
      /\ \A x \in p.tasks : x.res \in InitiallyThere
  BY DEF Accepted, Form, FormOf, Refs, Pipeline
<1>3. Graph(p.tasks)
  <2>1. GraphOK(FormOf(p)) /\ FormOf(p).loadingTasks = {} /\ Work(FormOf(p)) = p.tasks
    BY DEF Accepted, TektonAccepts, FormOf, Work
  <2> QED BY <2>1, GraphOfForm
<1>4. /\ S \in SUBSET Task /\ IsFiniteSet(S) /\ \A x \in S : x.res \in InitiallyThere
  BY <1>1, <1>2 DEF Refs
<1> DEFINE w == SetToSeq(S)
<1> DEFINE lines == [i \in DOMAIN w |-> [w[i] EXCEPT !.runAfter = SetToSeq(@)]]
<1>5. t = [tasks |-> lines, finallyTasks |-> g.finallyTasks]
  BY DEF TextOf
<1>6. Graph(S \cup g.listTasks)
  <2>1. CASE g.tasks = {}
    <3>1. /\ Distinct(p.tasks) /\ Closed(p.tasks) /\ Acyclic(p.tasks)
          /\ Distinct(g.listTasks) /\ Closed(g.listTasks) /\ Acyclic(g.listTasks)
      BY <1>1, <1>3, <2>1 DEF Graph
    <3>2. NamesOf(p.tasks) \subseteq TaskName /\ NamesOf(g.listTasks) \subseteq ListName
      BY <1>1, <1>2 DEF NamesOf, Task, ListTask
    <3>3. NamesOf(p.tasks) \cap NamesOf(g.listTasks) = {}
      BY <3>2, NamesAssumption
    <3>4. /\ \A x \in p.tasks : x.runAfter \subseteq NamesOf(p.tasks)
          /\ \A l \in g.listTasks : l.runAfter \subseteq NamesOf(p.tasks) \cup NamesOf(g.listTasks)
      BY <3>1 DEF Closed
    <3> QED BY <2>1, <3>1, <3>3, <3>4, GraphOfParts
  <2> QED BY <1>1, <2>1
<1>7. \A x \in S : IsFiniteSet(x.runAfter)
  <2> DEFINE R == S \cup g.listTasks
  <2>1. IsFiniteSet(R)
    BY <1>1, <1>4, FS_Union
  <2> DEFINE f == [x \in R |-> x.name]
  <2>2. f \in Surjection(R, NamesOf(R))
    BY DEF NamesOf, Surjection
  <2>3. IsFiniteSet(NamesOf(R))
    BY <2>1, <2>2, FS_Surjection
  <2>4. \A x \in S : x.runAfter \in SUBSET NamesOf(R)
    BY <1>6 DEF Graph, Closed
  <2> HIDE DEF R
  <2> QED BY <2>3, <2>4, FS_Subset
<1> HIDE DEF S
<1>8. w \in Seq(S) /\ Range(w) = S
  BY <1>4, RangeOfSetToSeq
<1>9. Len(w) \in Nat /\ DOMAIN w = 1 .. Len(w) /\ \A i \in DOMAIN w : w[i] \in S
  BY <1>8, LenProperties
<1> HIDE DEF w
<1>10. ASSUME NEW x \in S
       PROVE  /\ SetToSeq(x.runAfter) \in Seq(Name) /\ SetToSeq(x.runAfter) # None
              /\ Range(SetToSeq(x.runAfter)) = x.runAfter /\ x \in Task
  <2>1. x \in Task /\ x.runAfter \subseteq Name
    BY <1>4 DEF Task
  <2>2. /\ SetToSeq(x.runAfter) \in Seq(x.runAfter)
        /\ Range(SetToSeq(x.runAfter)) = x.runAfter
    BY <1>7, RangeOfSetToSeq
  <2>3. SetToSeq(x.runAfter) \in Seq(Name)
    BY <2>1, <2>2
  <2> QED BY <2>1, <2>2, <2>3, TypingsAssumption
<1>11. ASSUME NEW i \in DOMAIN w
       PROVE  /\ lines[i] \in TextTask /\ lines[i].res = w[i].res /\ lines[i].res # NoName
              /\ lines[i].name = w[i].name
              /\ [lines[i] EXCEPT !.runAfter = After(lines[i])] = w[i]
  <2>1. w[i] \in S
    BY <1>9
  <2> DEFINE a == SetToSeq(w[i].runAfter)
  <2>2. /\ a \in Seq(Name) /\ a # None /\ Range(a) = w[i].runAfter /\ w[i] \in Task
    BY <1>10, <2>1
  <2>3. lines[i] = [w[i] EXCEPT !.runAfter = a]
    OBVIOUS
  <2> HIDE DEF a, lines
  <2>4. /\ lines[i] = [name |-> w[i].name, runAfter |-> a, res |-> w[i].res]
        /\ w[i].name \in TaskName /\ w[i].res \in Resource /\ w[i].res # NoName
    BY <2>2, <2>3, NamesAssumption DEF Task
  <2>5. After(lines[i]) = w[i].runAfter
    BY <2>2, <2>4 DEF After
  <2>6. lines[i] \in TextTask
    BY <2>2, <2>4 DEF TextTask
  <2>7. [lines[i] EXCEPT !.runAfter = After(lines[i])] = w[i]
    BY <2>2, <2>4, <2>5 DEF Task
  <2> QED BY <2>4, <2>6, <2>7
<1>12. DOMAIN lines = DOMAIN w
  OBVIOUS
<1>13. lines \in Seq(TextTask)
  <2>1. lines = [i \in 1 .. Len(w) |-> lines[i]]
    BY <1>9
  <2> HIDE DEF lines
  <2>2. lines \in [1 .. Len(w) -> TextTask]
    BY <1>9, <1>11, <2>1
  <2> QED BY <1>9, <2>2
<1> HIDE DEF lines
<1>14. t.tasks = lines /\ t.finallyTasks = g.finallyTasks /\ DOMAIN t = {"tasks", "finallyTasks"}
  BY <1>5
<1>15. TasksOf(t) = S
  <2>1. Range(t.tasks) = {lines[i] : i \in DOMAIN w}
    BY <1>12, <1>14 DEF Range
  <2>2. S = {w[i] : i \in DOMAIN w}
    BY <1>8 DEF Range
  <2>3. TasksOf(t) = {[x EXCEPT !.runAfter = After(x)] : x \in {lines[i] : i \in DOMAIN w}}
    BY <2>1 DEF TasksOf
  <2> QED BY <1>11, <2>2, <2>3
<1>16. IsText(t)
  BY <1>1, <1>13, <1>14 DEF IsText
<1>17. Resolving(t)
  <2>1. \A x \in Range(t.tasks) : x.res \in InitiallyThere
    BY <1>4, <1>9, <1>11, <1>12, <1>14 DEF Range
  <2> QED BY <1>1, <1>14, <2>1 DEF Resolving, Refs
<1>18. Undefined(t) = {}
  BY <1>11, <1>12, <1>14 DEF Undefined
<1> QED BY <1>6, <1>14, <1>15, <1>16, <1>17, <1>18 DEF S

\* The text of a builder that opens is as good as the pipeline.
LEMMA InitialTextOk ==
  ASSUME NEW p, Accepted(p), NEW t, t = InitialText(p)
  PROVE  IsText(t) /\ Resolving(t) /\ Undefined(t) = {} /\ Graph(TasksOf(t))
<1> DEFINE g == FormOf([tasks |-> {}, finallyTasks |-> {}])
<1>1. /\ g \in Grouping /\ g.loadingTasks = {} /\ g.tasks = {} /\ g.listTasks = {}
      /\ g.finallyTasks = {}
  BY DEF FormOf, Grouping
<1>2. t = TextOf(g, p)
  BY DEF InitialText
<1> HIDE DEF g
<1>3. IsFiniteSet(g.tasks) /\ IsFiniteSet(g.listTasks)
  BY <1>1, FS_EmptySet
<1>4. Work(g) = {} /\ Refs(g) = {}
  BY <1>1 DEF Work, Refs
<1>5. Graph({})
  BY DEF Graph, Distinct, Closed, Acyclic, NamesOf
<1>6. Sound(g)
  BY <1>1, <1>3, <1>4, <1>5 DEF Sound, Form
<1>7. /\ IsText(t) /\ Resolving(t) /\ Undefined(t) = {}
      /\ Graph(TasksOf(t) \cup g.listTasks)
  BY <1>2, <1>6, TextOfOk
<1> QED BY <1>1, <1>7

LEMMA FormOfAccepted ==
  ASSUME NEW p, Accepted(p)
  PROVE  Sound(FormOf(p)) /\ FormOf(p).listTasks = {}
<1>1. FormOf(p).loadingTasks = {} /\ FormOf(p).listTasks = {}
  BY DEF FormOf
<1>2. GraphOK(FormOf(p)) /\ Form(FormOf(p))
  BY DEF Accepted, TektonAccepts
<1> QED BY <1>1, <1>2, GraphOfForm DEF Sound

LEMMA EditorInitHolds ==
  ASSUME EditorAssumption, EditorInit
  PROVE  EditorInv
<1>1. PICK p \in Existing : group = FormOf(p)
  BY DEF EditorInit, Init
<1>2. p \in Pipeline
  BY <1>1, BuilderAssumption DEF Pipeline
<1>3. opened = p
  BY <1>1, <1>2 DEF EditorInit, FormOf, PipelineOf, Pipeline
<1>4. group \in Grouping
  BY <1>1, <1>2, FormOfType
<1>5. Form(FormOf(p))
  <2>1. FormOf(p).tasks = p.tasks /\ FormOf(p).loadingTasks = {} /\ FormOf(p).listTasks = {}
    BY DEF FormOf
  <2>2. /\ IsFiniteSet(p.tasks) /\ Refs(FormOf(p)) \subseteq InitiallyThere
        /\ IsFiniteSet(FormOf(p).listTasks)
    BY <2>1, FS_EmptySet DEF EditorAssumption, LocalAssumption
  <2> QED BY <1>1, <1>4, <2>1, <2>2 DEF Form
<1>6. Accepted(p)
  BY <1>2, <1>5 DEF EditorAssumption, LocalAssumption, Accepted
<1>7. Sound(group) /\ group.listTasks = {}
  BY <1>1, <1>6, FormOfAccepted
<1>8. GroupOk
  BY <1>7, SoundParts DEF GroupOk, Sound
<1>9. IsText(InitialText(p)) /\ TextOk(InitialText(p))
  BY <1>6, <1>7, InitialTextOk DEF TextOk
<1>10. /\ view \in {"form", "yaml"} /\ (view = "form" => text = None)
       /\ (view = "yaml" => text = InitialText(p))
       /\ warning = FALSE /\ repaired = None /\ entered = None
       /\ ui = None /\ callback = None /\ failed = {} /\ saved = None
       /\ installed = InitiallyThere /\ arriving = {} /\ creating = {} /\ pending = {}
  BY <1>3 DEF EditorInit, Init
<1>11. CaptureCurrent
  BY <1>10, NoneAssumption DEF CaptureCurrent
<1>12. EditorTypeOK
  BY <1>2, <1>3, <1>4, <1>9, <1>10, BuilderAssumption DEF EditorTypeOK, TypeOK
<1>13. ViewOk /\ EnteredOk
  BY <1>9, <1>10 DEF ViewOk, EnteredOk
<1> QED BY <1>3, <1>6, <1>8, <1>10, <1>11, <1>12, <1>13 DEF EditorInv

\* Where the effect has nothing to do the form can be edited.
LEMMA SyncedIsSound ==
  ASSUME EditorInv, Synced
  PROVE  Sound(group)
  BY DEF EditorInv, GroupOk, Sound

\* The effect takes over what the text has.  It may run twice, for the list nodes lose what the
\* form before it did not have.
LEMMA SyncStep ==
  ASSUME EditorInv, Sync
  PROVE  EditorInv'
<1> DEFINE T == TasksOf(text)
<1>1. /\ view = "yaml" /\ Editing /\ text # None /\ Valid(group, text) /\ ~Synced
      /\ group' = GetFormData(group, text)
      /\ UNCHANGED <<ui, callback, installed, failed, creating, arriving, pending, saved>>
      /\ UNCHANGED <<opened, view, text, warning, repaired, entered>>
  BY DEF Sync, Synced, TextValid, cluster, editor
<1>2. /\ Form(group) /\ Distinct(group.listTasks) /\ Acyclic(group.listTasks)
      /\ group \in Grouping /\ group.loadingTasks = {} /\ IsFiniteSet(group.listTasks)
  BY DEF EditorInv, GroupOk, Form
<1>3. IsText(text) /\ Resolving(text) /\ Undefined(text) = {} /\ TextOk(text)
  BY <1>1 DEF EditorInv, ViewOk, TextOk, Valid
<1>4. T \in SUBSET Task /\ text.finallyTasks \in SUBSET Task
  BY <1>3, TasksOfText
<1>5. /\ group'.tasks = T /\ group'.listTasks \in SUBSET ListTask
      /\ Fewer(group.listTasks, group'.listTasks) /\ group' \in Grouping
  BY <1>1, <1>2, <1>4, FormDataIs
<1>6. Form(group')
  BY <1>1, <1>2, <1>3, FormOfText
<1>7. Distinct(group'.listTasks) /\ Acyclic(group'.listTasks)
  BY <1>2, <1>5, AcyclicLess DEF Fewer
<1>8. NamesOf(T) \cap NamesOf(group.listTasks) = {}
  <2>1. NamesOf(T) \subseteq TaskName /\ NamesOf(group.listTasks) \subseteq ListName
    BY <1>2, <1>4 DEF NamesOf, Task, Grouping, ListTask
  <2> QED BY <2>1, NamesAssumption
<1>9. Orderly(text) \/ Graph(T \cup group'.listTasks)
  BY <1>3, <1>5, <1>8, FewerKeepsGraph DEF TextOk
<1>10. ASSUME Synced' PROVE Graph(Work(group'))
  <2>1. Valid(group', text)
    BY <1>1, <1>5 DEF Valid, Dangling, Referable, Fewer
  <2>2. GetFormData(group', text) = group'
    BY <1>1, <1>10, <2>1 DEF Synced, TextValid, Editing
  <2>3. \A l \in group'.listTasks : l.runAfter \subseteq NamesOf(T) \cup NamesOf(group'.listTasks)
    BY <1>5, <2>2, FormDataIs
  <2>4. Orderly(text) => Graph(T \cup group'.listTasks)
    BY <1>3, <1>5, <1>7, <2>1, <2>3, ValidIsGraph
  <2> QED BY <1>5, <1>9, <2>4 DEF Work
<1>11. GroupOk'
  BY <1>6, <1>7, <1>10 DEF GroupOk
<1>12. TextOk(text)'
  BY <1>1, <1>3, <1>9 DEF TextOk
<1>13. ui = None /\ entered = None
  BY <1>1 DEF EditorInv, ViewOk, EnteredOk
<1>14. CaptureCurrent'
  BY <1>1, <1>13, NoneAssumption DEF CaptureCurrent
<1>15. EditorTypeOK'
  BY <1>1, <1>5 DEF EditorInv, EditorTypeOK, TypeOK
<1>16. ViewOk' /\ EnteredOk'
  BY <1>1, <1>12, <1>13 DEF EditorInv, ViewOk, EnteredOk
<1> QED BY <1>1, <1>11, <1>14, <1>15, <1>16 DEF EditorInv, Editing

\* Without the hub the form is edited in its own view.
LEMMA BuilderStepKeeps ==
  ASSUME EditorAssumption, EditorInv, BuilderStep
  PROVE  EditorInv'
<1>1. view = "form" /\ Edit
  <2>1. HubTasks = {} /\ Deletable = {} /\ pending = {} /\ creating = {} /\ arriving = {}
    BY DEF EditorAssumption, LocalAssumption, EditorInv
  <2>2. group.loadingTasks = {}
    BY DEF EditorInv, GroupOk, Form
  <2>3. ~Hub
    BY <2>1 DEF Hub
  <2> QED BY <2>1, <2>2, <2>3 DEF BuilderStep
<1>2. /\ UNCHANGED <<opened, view, text, warning, repaired>>
      /\ entered' = IF group' = group THEN entered ELSE None
  BY DEF BuilderStep
<1>3. Sound(group)
  BY SyncedIsSound DEF BuilderStep
<1>4. TypeOK /\ TypeOK'
  <2>1. TypeOK
    BY DEF EditorInv, EditorTypeOK
  <2> QED BY <1>1, <2>1, TypeStep DEF Next
<1>5. /\ group \in Grouping /\ group.loadingTasks = {} /\ Refs(group) \subseteq installed
      /\ Graph(Work(group)) /\ Finite(group) /\ CaptureCurrent
      /\ installed = InitiallyThere
  BY <1>3 DEF Sound, Form, EditorInv, Finite
<1>6. /\ group'.loadingTasks = {} /\ Refs(group') \subseteq installed
      /\ UNCHANGED <<installed, arriving, creating, pending, saved>>
  BY <1>1, <1>5, LocalEdit
<1>7. Graph(Work(group')) /\ Finite(group')
  BY <1>1, <1>4, <1>5, EditKeepsSound DEF TypeOK
<1>8. Editing /\ CaptureCurrent'
  BY <1>1, LocalCapture
<1>9. Sound(group')
  BY <1>4, <1>5, <1>6, <1>7 DEF TypeOK, Sound, Form, Finite
<1>10. GroupOk'
  BY <1>9, SoundParts DEF GroupOk, Sound
<1>11. view' = "form" /\ text' = None /\ ~(view' = "yaml")
  BY <1>1, <1>2 DEF EditorInv, ViewOk
<1>12. ViewOk'
  BY <1>2, <1>11 DEF EditorInv, ViewOk
<1>13. EnteredOk'
  BY <1>2, <1>11 DEF EditorInv, EnteredOk, Synced
<1>14. EditorTypeOK'
  BY <1>2, <1>4, <1>11 DEF EditorInv, EditorTypeOK
<1> QED BY <1>2, <1>5, <1>6, <1>8, <1>10, <1>12, <1>13, <1>14 DEF EditorInv, Editing

LEMMA ToYAMLStep ==
  ASSUME EditorInv, ToYAML
  PROVE  EditorInv'
<1>1. /\ Synced /\ saved = None /\ ui = None /\ view = "form" /\ view' = "yaml"
      /\ text' = TextOf(group, opened)
      /\ entered' = IF group.tasks = {} THEN None ELSE group
      /\ UNCHANGED <<vars, opened, warning, repaired>>
  BY DEF ToYAML, Quiet, Idle, Editing
<1>2. Sound(group) /\ group \in Grouping /\ group.loadingTasks = {} /\ Graph(Work(group))
  BY <1>1, SyncedIsSound DEF Sound, Form
<1>3. /\ IsText(text') /\ Resolving(text') /\ Undefined(text') = {}
      /\ Graph(TasksOf(text') \cup group.listTasks)
      /\ text'.finallyTasks = group.finallyTasks
      /\ group.tasks # {} => TasksOf(text') = group.tasks
  BY <1>1, <1>2, TextOfOk DEF EditorInv
<1>4. TextOk(text)'
  BY <1>1, <1>3 DEF TextOk, vars
<1>5. GroupOk'
  BY <1>1, <1>2, SoundParts DEF GroupOk, Sound, vars
<1>6. ViewOk'
  BY <1>1, <1>4 DEF EditorInv, ViewOk, vars
<1>7. entered' # None => group' = entered' /\ GetFormData(group', text') = group'
  BY <1>1, <1>2, <1>3, FormDataSame DEF vars
<1>8. EnteredOk'
  BY <1>7 DEF EnteredOk, Synced
<1>9. CaptureCurrent'
  BY <1>1, NoneAssumption DEF CaptureCurrent, vars
<1>10. EditorTypeOK'
  BY <1>1, <1>2, <1>3 DEF EditorInv, EditorTypeOK, TypeOK, vars
<1> QED BY <1>1, <1>5, <1>6, <1>8, <1>9, <1>10 DEF EditorInv, vars

LEMMA TypeTextStep ==
  ASSUME EditorAssumption, EditorInv, NEW t \in Typings, Type(t)
  PROVE  EditorInv'
<1>1. /\ Synced /\ saved = None /\ ui = None /\ view = "yaml"
      /\ text' = t /\ entered' = None
      /\ UNCHANGED <<vars, opened, view, warning, repaired>>
  BY DEF Type, Quiet, Idle, Editing
<1>2. Sound(group)
  BY <1>1, SyncedIsSound
<1>3. t # None => IsText(t) /\ Orderly(t) /\ Resolving(t)
  BY TypingsAssumption DEF EditorAssumption
<1>4. GroupOk'
  BY <1>1, <1>2, SoundParts DEF GroupOk, Sound, vars
<1>5. t # None => TextOk(t)'
  BY <1>3 DEF TextOk
<1>6. ViewOk' /\ EnteredOk'
  BY <1>1, <1>5 DEF EditorInv, ViewOk, EnteredOk, vars
<1>7. CaptureCurrent'
  BY <1>1, NoneAssumption DEF CaptureCurrent, vars
<1>8. EditorTypeOK'
  BY <1>1, <1>3 DEF EditorInv, EditorTypeOK, TypeOK, vars
<1> QED BY <1>1, <1>4, <1>6, <1>7, <1>8 DEF EditorInv, vars

\* What the text has has been taken over already.
LEMMA ToFormStep ==
  ASSUME EditorInv, ToForm
  PROVE  EditorInv'
<1>1. /\ Synced /\ saved = None /\ ui = None
      /\ view' = "form" /\ text' = None /\ group' = group
      /\ UNCHANGED <<ui, callback, cluster, pending, saved, opened, warning, repaired, entered>>
  BY DEF ToForm, Quiet, Idle, Editing, Synced
<1>2. Sound(group)
  BY <1>1, SyncedIsSound
<1>3. GroupOk'
  BY <1>1, <1>2, SoundParts DEF GroupOk, Sound
<1>4. ViewOk' /\ EnteredOk'
  BY <1>1 DEF EditorInv, ViewOk, EnteredOk, Synced
<1>5. CaptureCurrent'
  BY <1>1, NoneAssumption DEF CaptureCurrent
<1>6. EditorTypeOK'
  BY <1>1 DEF EditorInv, EditorTypeOK, TypeOK, cluster
<1> QED BY <1>1, <1>3, <1>4, <1>5, <1>6 DEF EditorInv, cluster

\* Only a text that one typed is invalid, and of such a one the repair is sound.
LEMMA WarnStep ==
  ASSUME EditorInv, Warn
  PROVE  EditorInv'
<1>1. /\ Synced /\ saved = None /\ ui = None /\ ~TextValid
      /\ warning' = TRUE
      /\ \/ repaired' = repaired
         \/ text # None /\ repaired' = Repair(group, text)
      /\ UNCHANGED <<vars, opened, view, text, entered>>
  BY DEF Warn, Quiet, Idle, Editing
<1>2. Sound(group)
  BY <1>1, SyncedIsSound
<1>3. repaired' # None => Sound(repaired')
  <2>1. CASE repaired' = repaired
    BY <1>1, <2>1 DEF EditorInv, ViewOk
  <2>2. CASE text # None /\ repaired' = Repair(group, text)
    <3>1. TextOk(text) /\ ~Valid(group, text)
      BY <1>1, <2>2 DEF EditorInv, ViewOk, TextValid
    <3>2. Orderly(text)
      BY <3>1, GraphIsValid DEF TextOk
    <3> QED BY <1>1, <1>2, <2>2, <3>1, <3>2, RepairSound DEF TextOk
  <2> QED BY <1>1, <2>1, <2>2
<1>4. GroupOk'
  BY <1>1, <1>2, SoundParts DEF GroupOk, Sound, vars
<1>5. text' # None => TextOk(text)'
  BY <1>1 DEF EditorInv, ViewOk, TextOk, vars
<1>6. ViewOk'
  BY <1>1, <1>3, <1>5 DEF EditorInv, ViewOk, vars
<1>7. EnteredOk'
  BY <1>1 DEF EditorInv, EnteredOk, Synced, Editing, TextValid, vars
<1>8. CaptureCurrent'
  BY <1>1, NoneAssumption DEF CaptureCurrent, vars
<1>9. EditorTypeOK'
  BY <1>1, <1>3 DEF EditorInv, EditorTypeOK, TypeOK, Sound, Form, vars
<1> QED BY <1>1, <1>4, <1>6, <1>7, <1>8, <1>9 DEF EditorInv, vars

\* The repair that is put into the form was sound when it was made, and a form has no memory.
LEMMA ConfirmStep ==
  ASSUME EditorInv, Confirm
  PROVE  EditorInv'
<1>1. /\ Synced /\ saved = None /\ ui = None /\ warning' = FALSE
      /\ group' = IF repaired = None THEN group ELSE repaired
      /\ view' = "form" /\ text' = None /\ entered' = None
      /\ UNCHANGED <<ui, callback, cluster, pending, saved, opened, repaired>>
  BY DEF Confirm, Quiet, Idle, Editing
<1>2. Sound(group')
  BY <1>1, SyncedIsSound DEF EditorInv, ViewOk
<1>3. GroupOk'
  BY <1>2, SoundParts DEF GroupOk, Sound
<1>4. ViewOk' /\ EnteredOk'
  BY <1>1 DEF EditorInv, ViewOk, EnteredOk
<1>5. CaptureCurrent'
  BY <1>1, NoneAssumption DEF CaptureCurrent
<1>6. EditorTypeOK'
  BY <1>1, <1>2 DEF EditorInv, EditorTypeOK, TypeOK, cluster, Sound, Form
<1> QED BY <1>1, <1>3, <1>4, <1>5, <1>6 DEF EditorInv, cluster

LEMMA CancelStep ==
  ASSUME EditorInv, Cancel
  PROVE  EditorInv'
<1>1. /\ Synced /\ ui = None /\ warning' = FALSE
      /\ UNCHANGED <<vars, opened, view, text, repaired, entered>>
  BY DEF Cancel, Quiet, Idle
<1>2. GroupOk'
  BY <1>1, SyncedIsSound, SoundParts DEF GroupOk, Sound, vars
<1>3. text' # None => TextOk(text)'
  BY <1>1 DEF EditorInv, ViewOk, TextOk, vars
<1>4. ViewOk'
  BY <1>1, <1>3 DEF EditorInv, ViewOk, vars
<1>5. EnteredOk'
  BY <1>1 DEF EditorInv, EnteredOk, Synced, Editing, TextValid, vars
<1>6. CaptureCurrent'
  BY <1>1, NoneAssumption DEF CaptureCurrent, vars
<1>7. EditorTypeOK'
  BY <1>1 DEF EditorInv, EditorTypeOK, TypeOK, vars
<1> QED BY <1>1, <1>2, <1>4, <1>5, <1>6, <1>7 DEF EditorInv, vars

LEMMA StutterStep ==
  ASSUME EditorInv, UNCHANGED allVars
  PROVE  EditorInv'
<1>1. UNCHANGED <<vars, opened, view, text, warning, repaired, entered>>
  BY DEF allVars, editor
<1>2. Synced' = Synced
  BY <1>1 DEF Synced, Editing, TextValid, vars
<1>3. GroupOk'
  BY <1>1, <1>2 DEF EditorInv, GroupOk, vars
<1>4. text' # None => TextOk(text)'
  BY <1>1 DEF EditorInv, ViewOk, TextOk, vars
<1>5. ViewOk' /\ EnteredOk'
  BY <1>1, <1>2, <1>4 DEF EditorInv, ViewOk, EnteredOk, vars
<1>6. CaptureCurrent'
  BY <1>1 DEF EditorInv, CaptureCurrent, Targets, SoloNode, Resolves, UsedNames, vars
<1>7. EditorTypeOK'
  BY <1>1 DEF EditorInv, EditorTypeOK, TypeOK, vars
<1> QED BY <1>1, <1>3, <1>5, <1>6, <1>7 DEF EditorInv, vars

\* Nothing is installed, so nothing arrives when a form or a text is submitted.
LEMMA NothingArrives ==
  ASSUME EditorInv
  PROVE  Requested \cup {p.res : p \in pending} = {}
  BY DEF EditorInv, Requested

LEMMA SubmitFormStep ==
  ASSUME EditorInv, SubmitForm
  PROVE  EditorInv'
<1>1. /\ view = "form" /\ ui = None
      /\ saved' = PipelineOf(group) /\ TektonAccepts(PipelineOf(group))
      /\ pending' = {} /\ creating' = {}
      /\ UNCHANGED <<group, ui, callback, installed, failed>>
      /\ UNCHANGED <<opened, view, text, warning, repaired, entered>>
  BY DEF SubmitForm, Submit, Idle, editor
<1>2. arriving' = {}
  BY NothingArrives DEF SubmitForm, Submit, EditorInv
<1>3. Synced /\ Synced'
  BY <1>1 DEF Synced
<1>4. Sound(group)
  BY <1>3, SyncedIsSound
<1>5. Accepted(saved')
  <2> DEFINE p == PipelineOf(group)
  <2>1. /\ FormOf(p).tasks = group.tasks /\ FormOf(p).finallyTasks = group.finallyTasks
        /\ FormOf(p).loadingTasks = {} /\ IsFiniteSet(FormOf(p).listTasks)
    BY FS_EmptySet DEF FormOf, PipelineOf
  <2>2. p \in Pipeline
    BY <1>4 DEF PipelineOf, Pipeline, Sound, Form, Grouping
  <2>3. Form(FormOf(p))
    BY <1>4, <2>1, <2>2, FormOfType DEF Sound, Form, Refs
  <2> QED BY <1>1, <2>2, <2>3 DEF Accepted
<1>6. GroupOk'
  BY <1>1, <1>4, SoundParts DEF GroupOk, Sound
<1>7. text' # None => TextOk(text)'
  BY <1>1 DEF EditorInv, ViewOk, TextOk
<1>8. ViewOk' /\ EnteredOk'
  BY <1>1, <1>3, <1>7 DEF EditorInv, ViewOk, EnteredOk
<1>9. CaptureCurrent'
  BY <1>1, NoneAssumption DEF CaptureCurrent
<1>10. EditorTypeOK'
  BY <1>1, <1>2, <1>5 DEF EditorInv, EditorTypeOK, TypeOK, Accepted
<1> QED BY <1>1, <1>2, <1>5, <1>6, <1>8, <1>9, <1>10 DEF EditorInv

\* A text that Tekton accepts is one of a pipeline that can be opened.
LEMMA SubmitTextStep ==
  ASSUME EditorInv, SubmitText
  PROVE  EditorInv'
<1> DEFINE p == [tasks |-> TasksOf(text), finallyTasks |-> text.finallyTasks]
<1>1. /\ Synced /\ ui = None /\ view = "yaml" /\ text # None /\ Undefined(text) = {}
      /\ TektonAccepts(p) /\ saved' = p
      /\ pending' = {} /\ creating' = {}
      /\ UNCHANGED <<group, ui, callback, installed, failed>>
      /\ UNCHANGED <<opened, view, text, warning, repaired, entered>>
  BY DEF SubmitText, Quiet, Idle, editor
<1>2. arriving' = {}
  BY NothingArrives DEF SubmitText, EditorInv
<1>3. Sound(group)
  BY <1>1, SyncedIsSound
<1>4. /\ TasksOf(text) \in SUBSET Task /\ text.finallyTasks \in SUBSET Task
      /\ IsFiniteSet(TasksOf(text))
      /\ \A task \in TasksOf(text) \cup text.finallyTasks : task.res \in InitiallyThere
  BY <1>1, TasksOfText DEF EditorInv, ViewOk, TextOk
<1>5. Accepted(p)
  <2>1. p \in Pipeline
    BY <1>4 DEF Pipeline
  <2>2. /\ FormOf(p).tasks = TasksOf(text) /\ FormOf(p).finallyTasks = text.finallyTasks
        /\ FormOf(p).loadingTasks = {} /\ IsFiniteSet(FormOf(p).listTasks)
    BY FS_EmptySet DEF FormOf
  <2>3. Form(FormOf(p))
    BY <1>4, <2>1, <2>2, FormOfType DEF Form, Refs
  <2> QED BY <1>1, <2>1, <2>3 DEF Accepted
<1>6. saved' # None /\ saved' \in Pipeline
  BY <1>1, <1>5, NoneAssumption DEF Accepted
<1> HIDE DEF p
<1>7. GroupOk'
  BY <1>1, <1>3, SoundParts DEF GroupOk, Sound
<1>8. text' # None => TextOk(text)'
  BY <1>1 DEF EditorInv, ViewOk, TextOk
<1>9. ViewOk' /\ EnteredOk'
  BY <1>1, <1>6, <1>8 DEF EditorInv, ViewOk, EnteredOk, Synced, Editing
<1>10. CaptureCurrent'
  BY <1>1, NoneAssumption DEF CaptureCurrent
<1>11. EditorTypeOK'
  BY <1>1, <1>2, <1>6 DEF EditorInv, EditorTypeOK, TypeOK
<1> QED BY <1>1, <1>2, <1>5, <1>7, <1>9, <1>10, <1>11 DEF EditorInv

LEMMA ReopenStep ==
  ASSUME EditorInv, ReopenBuilder
  PROVE  EditorInv'
<1>1. /\ saved # None /\ group' = FormOf(saved) /\ saved' = None /\ callback' = None
      /\ failed' = {} /\ UNCHANGED <<ui, installed, creating, arriving, pending>>
      /\ opened' = saved /\ warning' = FALSE /\ repaired' = None /\ entered' = None
      /\ text' = (IF view = "yaml" THEN InitialText(saved) ELSE None) /\ view' = view
  BY DEF ReopenBuilder, Reopen, Editing
<1>2. ui = None /\ Accepted(saved)
  BY <1>1 DEF EditorInv
<1>3. Sound(group') /\ group'.listTasks = {}
  BY <1>1, <1>2, FormOfAccepted
<1>4. GroupOk'
  BY <1>3, SoundParts DEF GroupOk, Sound
<1>5. text' # None =>
        /\ IsText(text') /\ Resolving(text') /\ Undefined(text') = {}
        /\ Graph(TasksOf(text'))
  BY <1>1, <1>2, InitialTextOk
<1>6. text' # None => TextOk(text)'
  BY <1>3, <1>5 DEF TextOk
<1>7. ViewOk' /\ EnteredOk'
  BY <1>1, <1>2, <1>6 DEF EditorInv, ViewOk, EnteredOk
<1>8. CaptureCurrent'
  BY <1>1, <1>2, NoneAssumption DEF CaptureCurrent
<1>9. EditorTypeOK'
  BY <1>1, <1>2, <1>3, <1>5 DEF EditorInv, EditorTypeOK, TypeOK, Accepted, Sound, Form
<1> QED BY <1>1, <1>2, <1>4, <1>7, <1>8, <1>9 DEF EditorInv

LEMMA EditorSteps ==
  ASSUME EditorAssumption, EditorInv, [EditorNext]_allVars
  PROVE  EditorInv'
<1>1. CASE BuilderStep
  BY <1>1, BuilderStepKeeps
<1>2. CASE Sync
  BY <1>2, SyncStep
<1>3. CASE ToYAML
  BY <1>3, ToYAMLStep
<1>4. CASE \E t \in Typings : Type(t)
  BY <1>4, TypeTextStep
<1>5. CASE ToForm
  BY <1>5, ToFormStep
<1>6. CASE Warn
  BY <1>6, WarnStep
<1>7. CASE Confirm
  BY <1>7, ConfirmStep
<1>8. CASE Cancel
  BY <1>8, CancelStep
<1>9. CASE SubmitForm
  BY <1>9, SubmitFormStep
<1>10. CASE SubmitText
  BY <1>10, SubmitTextStep
<1>11. CASE ReopenBuilder
  BY <1>11, ReopenStep
<1>12. CASE UNCHANGED allVars
  BY <1>12, StutterStep
<1> QED BY <1>1, <1>2, <1>3, <1>4, <1>5, <1>6, <1>7, <1>8, <1>9, <1>10, <1>11, <1>12 DEF EditorNext

LEMMA EditorInvariant ==
  ASSUME EditorAssumption
  PROVE  EditorSpec => []EditorInv
<1>1. EditorInit => EditorInv
  BY EditorInitHolds
<1>2. EditorInv /\ [EditorNext]_allVars => EditorInv'
  BY EditorSteps
<1> QED BY <1>1, <1>2, PTL DEF EditorSpec

\* Whatever is typed, repaired, switched and edited, the views hold a form, a text and a repair
\* of the shapes that the code declares for them.
THEOREM EditorTypeCorrect ==
  ASSUME EditorAssumption
  PROVE  EditorSpec => []EditorTypeOK
<1>1. EditorInv => EditorTypeOK
  BY DEF EditorInv
<1> QED BY <1>1, EditorInvariant, PTL

\* A look at the text changes nothing: until the form or the text is edited, the effect that
\* follows the text and the switch back leave every task and every placeholder as it was
\* (getFormData of SyncedEditorField's effect).
THEOREM LookingKeeps ==
  ASSUME EditorAssumption
  PROVE  EditorSpec => []LookingKeepsTheForm
<1>1. EditorInv => LookingKeepsTheForm
  BY DEF EditorInv, EnteredOk, LookingKeepsTheForm
<1> QED BY <1>1, EditorInvariant, PTL

\* Whatever orderly texts are typed, however a repair goes wrong about what it takes out and
\* however late it is confirmed, no node of the form runs after one that is not there
\* (safeOmit, validRunAfter, handleSanitizeToFormError).
THEOREM RunAftersKeep ==
  ASSUME EditorAssumption
  PROVE  EditorSpec => []RunAftersResolve
<1>1. ASSUME EditorInv PROVE RunAftersResolve
  <2> SUFFICES ASSUME Synced, NEW t \in group.tasks \cup group.listTasks
               PROVE  t.runAfter \subseteq RegularNames(group) \cup NamesOf(group.loadingTasks)
    BY DEF RunAftersResolve
  <2>1. Closed(Work(group)) /\ group.loadingTasks = {}
    BY <1>1, SyncedIsSound DEF Sound, Form, Graph
  <2>2. RegularNames(group) = NamesOf(Work(group))
    BY <2>1, RegularLists DEF RegularNames, Work
  <2> QED BY <2>1, <2>2 DEF Closed, Work
<1> QED BY <1>1, EditorInvariant, PTL
=============================================================================
