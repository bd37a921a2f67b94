-------------------------- MODULE TektonResultsProofs --------------------------
(***************************************************************************)
(* The reads of TektonResults for any runs, namespaces, failures and       *)
(* number of navigations: the hook keeps its shape, and reads that do not  *)
(* overlap leave what was asked for last.                                  *)
(***************************************************************************)
EXTENDS TektonResults, FiniteSetTheorems, TLAPS

\* While reads do not overlap: there is one at most, of the namespace the effect asked for
\* last, and the ref is free for it; without one, its result is there.
Serial ==
  "overlap" \notin mishaps =>
    /\ \A f, g \in fetches : f = g
    /\ fetches # {} => ~fetchedRef
    /\ \A f \in fetches : f.ns = deps.ns
    /\ fetches = {} /\ deps # None /\ deps.enabled => tr.loaded /\ tr.ns = deps.ns

\* Nothing is read before the feature is known to be enabled.
Begun ==
  /\ deps = None => fetches = {} /\ ~fetchedRef
  /\ fetches # {} => enabled
  /\ deps # None /\ deps.enabled => enabled

IInv == TypeOK /\ Serial /\ Begun

-----------------------------------------------------------------------------
(***************************************************************************)
(* The parts of a step.                                                    *)
(***************************************************************************)

LEMMA LengthDepsType ==
  ASSUME TypeOK
  PROVE  LengthDeps \in [length : Nat, loaded : BOOLEAN, error : BOOLEAN]
<1>1. EtcdRuns \subseteq Run BY DEF TypeOK, EtcdRuns
<1>2. IsFiniteSet(EtcdRuns) BY <1>1, ResultsAssumption, FS_Subset
<1>3. Cardinality(EtcdRuns) \in Nat BY <1>2, FS_CardinalityType
<1> QED BY <1>3 DEF LengthDeps, TypeOK, EtcdError

LEMMA DepsType ==
  ASSUME TypeOK
  PROVE  Deps \in [ns : NamespaceOrNone, enabled : BOOLEAN, key : Nat]
  BY DEF TypeOK, Deps, TrNamespace, NamespaceOrNone

LEMMA DepsFields == Deps.ns = TrNamespace /\ Deps.enabled = enabled
  BY DEF Deps

\* An effect that has run is told from one that has not.
LEMMA DepsKnown ==
  ASSUME TypeOK
  PROVE  Deps # None
  BY DepsType, ResultsAssumption DEF NamespaceOrNone

LEMMA TrNamespaceType ==
  ASSUME TypeOK
  PROVE  TrNamespace \in NamespaceOrNone
  BY DEF TypeOK, TrNamespace, NamespaceOrNone

LEMMA AnswersType ==
  ASSUME TypeOK, NEW f \in fetches, NEW a \in Answers(f)
  PROVE  a.data \in SUBSET Run /\ a.more \in BOOLEAN
<1>1. Matches(f.ns, archive) \subseteq Run BY DEF TypeOK, Matches
<1>2. f.data \subseteq Run BY DEF TypeOK, Fetch
<1>3. CASE details
  <2>1. PICK d \in IF Matches(f.ns, archive) = {} THEN {{}} ELSE {{r} : r \in Matches(f.ns, archive)} :
          a = [data |-> d, more |-> FALSE]
    BY <1>3 DEF Answers
  <2>2. d \subseteq Run BY <1>1
  <2>3. a.data = d /\ a.more = FALSE BY <2>1
  <2> QED BY <2>2, <2>3
<1>4. CASE ~details
  <2> DEFINE d == f.data \cup {r \in Matches(f.ns, archive) : PageOf[r] = f.pg}
             m == f.pg = 1 /\ \E r \in Matches(f.ns, archive) : PageOf[r] = 2
  <2>1. a = [data |-> d, more |-> m] BY <1>4 DEF Answers
  <2>2. d \subseteq Run BY <1>1, <1>2
  <2>3. m \in BOOLEAN BY Zenon
  <2> HIDE DEF d, m
  <2>4. a.data = d /\ a.more = m BY <2>1
  <2> QED BY <2>2, <2>3, <2>4
<1> QED BY <1>3, <1>4

LEMMA InitIInv == Init => IInv
<1> SUFFICES ASSUME Init PROVE IInv OBVIOUS
<1>1. navigations \in 0 .. MaxNavigations BY ResultsAssumption DEF Init
<1>2. born \subseteq Run /\ etcd \subseteq born /\ archive \subseteq born BY DEF Init
<1>3. tr \in [data : SUBSET Run, loaded : BOOLEAN, error : BOOLEAN, ns : NamespaceOrNone]
  BY DEF Init, NamespaceOrNone
<1>4. TypeOK BY <1>1, <1>2, <1>3 DEF Init, TypeOK
<1>5. Serial /\ Begun BY DEF Init, Serial, Begun
<1> QED BY <1>4, <1>5 DEF IInv

-----------------------------------------------------------------------------
(***************************************************************************)
(* One lemma per kind of step.                                             *)
(***************************************************************************)

\* The cluster, the watch and the page leave the reads alone.
LEMMA PageStep ==
  ASSUME IInv,
         \/ \E r \in Run : Create(r) \/ Archive(r) \/ Prune(r)
         \/ LearnEnabled \/ (\E n \in Namespace : Navigate(n)) \/ WatchUpdate
  PROVE  IInv'
<1> USE DEF IInv
<1>1. UNCHANGED reading /\ (enabled => enabled') /\ ("overlap" \in mishaps => "overlap" \in mishaps')
  BY DEF Create, Archive, Prune, LearnEnabled, Navigate, WatchUpdate, page
<1>2. UNCHANGED <<deps, fetchedRef, fetches, tr>> BY <1>1 DEF reading
<1>3. TypeOK'
  <2>1. ASSUME NEW r \in Run, Create(r) PROVE TypeOK'
    BY <2>1, <1>2 DEF TypeOK, Create, page, watch, length
  <2>2. ASSUME NEW r \in Run, Archive(r) PROVE TypeOK'
    BY <2>2, <1>2 DEF TypeOK, Archive, page, watch, length
  <2>3. ASSUME NEW r \in Run, Prune(r) PROVE TypeOK'
    BY <2>3, <1>2 DEF TypeOK, Prune, page, watch, length, Mishap
  <2>4. CASE LearnEnabled
    BY <2>4, <1>2 DEF TypeOK, LearnEnabled, cluster, watch, length
  <2>5. ASSUME NEW n \in Namespace, Navigate(n) PROVE TypeOK'
    <3>1. navigations' \in 0 .. MaxNavigations
      BY <2>5, ResultsAssumption DEF TypeOK, Navigate
    <3> QED BY <2>5, <3>1, <1>2 DEF TypeOK, Navigate, cluster
  <2>6. CASE WatchUpdate
    <3>1. watched' \subseteq Run BY <2>6 DEF WatchUpdate, Matches, TypeOK
    <3>2. mishaps' \subseteq Mishap BY <2>6 DEF WatchUpdate, TypeOK, Mishap
    <3> QED BY <2>6, <3>1, <3>2, <1>2 DEF TypeOK, WatchUpdate, cluster, page, length
  <2> QED BY <2>1, <2>2, <2>3, <2>4, <2>5, <2>6
<1>4. Serial' BY <1>1, <1>2 DEF Serial
<1>5. Begun' BY <1>1, <1>2 DEF Begun
<1> QED BY <1>3, <1>4, <1>5

LEMMA LengthStep ==
  ASSUME IInv, LengthEffect
  PROVE  IInv'
<1> USE DEF IInv
<1>1. LengthDeps \in [length : Nat, loaded : BOOLEAN, error : BOOLEAN] BY LengthDepsType
<1>2. UNCHANGED <<enabled, deps, fetchedRef, fetches, tr, mishaps>>
  BY DEF LengthEffect, reading, page
<1>3. TypeOK' BY <1>1, <1>2 DEF TypeOK, LengthEffect, cluster, page, watch
<1>4. Serial' BY <1>2 DEF Serial
<1>5. Begun' BY <1>2 DEF Begun
<1> QED BY <1>3, <1>4, <1>5

\* The cleanup frees the ref; a read that finds another one under way is an overlap.
LEMMA EffectStep ==
  ASSUME IInv, FetchEffect
  PROVE  IInv'
<1> USE DEF IInv
<1>1. Deps \in [ns : NamespaceOrNone, enabled : BOOLEAN, key : Nat]
      /\ Deps.ns = TrNamespace /\ Deps.enabled = enabled
  BY DepsType, DepsFields
<1>2. deps' = Deps /\ fetchedRef' = FALSE /\ UNCHANGED <<cluster, page, watch, length, tr>>
  BY DEF FetchEffect, Cleanup, Begun, TypeOK
<1>3. deps' # None /\ deps'.ns = TrNamespace /\ deps'.enabled = enabled
  BY <1>1, <1>2, DepsKnown
<1>4. CASE enabled
  <2>1. PICK i \in NewId :
          fetches' = fetches \cup
            {[id |-> i, ns |-> TrNamespace, pg |-> 1, data |-> {}, more |-> FALSE,
              phase |-> "requested"]}
    BY <1>4 DEF FetchEffect
  <2> DEFINE new == [id |-> i, ns |-> TrNamespace, pg |-> 1, data |-> {}, more |-> FALSE,
                     phase |-> "requested"]
  <2>2. i \in Nat BY DEF NewId
  <2>3. new \in Fetch /\ new.ns = TrNamespace BY <2>2, TrNamespaceType DEF Fetch
  <2>4. mishaps' = IF fetches # {} THEN mishaps \cup {"overlap"} ELSE mishaps
    BY <1>4 DEF FetchEffect
  <2> HIDE DEF new
  <2>5. fetches' = fetches \cup {new} BY <2>1 DEF new
  <2>6. TypeOK'
    BY <1>1, <1>2, <2>3, <2>4, <2>5 DEF TypeOK, cluster, page, watch, length, Mishap
  <2>7. Serial'
    <3> SUFFICES ASSUME "overlap" \notin mishaps' PROVE Serial' BY DEF Serial
    <3>1. fetches' = {new} BY <2>4, <2>5
    <3> QED BY <1>1, <1>2, <2>3, <3>1 DEF Serial
  <2>8. Begun' BY <1>1, <1>2, <1>3, <1>4 DEF Begun, page
  <2> QED BY <2>6, <2>7, <2>8
<1>5. CASE ~enabled
  <2>1. UNCHANGED <<fetches, mishaps>> /\ fetches = {} /\ enabled' = enabled
    BY <1>2, <1>5 DEF FetchEffect, Begun, page
  <2>2. TypeOK' BY <1>1, <1>2, <2>1 DEF TypeOK, cluster, page, watch, length
  <2>3. Serial' BY <1>1, <1>2, <1>5, <2>1 DEF Serial
  <2>4. Begun' BY <1>1, <1>2, <1>3, <1>5, <2>1 DEF Begun
  <2> QED BY <2>2, <2>3, <2>4
<1> QED BY <1>4, <1>5 DEF TypeOK

LEMMA ReadStep ==
  ASSUME IInv, NEW f \in fetches, Read(f)
  PROVE  IInv'
<1> USE DEF IInv
<1>1. PICK a \in Answers(f) :
        fetches' = (fetches \ {f}) \cup
          {[f EXCEPT !.phase = "answered", !.data = a.data, !.more = a.more]}
  BY DEF Read
<1> DEFINE g == [f EXCEPT !.phase = "answered", !.data = a.data, !.more = a.more]
<1>2. a.data \in SUBSET Run /\ a.more \in BOOLEAN BY AnswersType
<1>3. g \in Fetch /\ g.ns = f.ns BY <1>2 DEF TypeOK, Fetch
<1> HIDE DEF g
<1>4. fetches' = (fetches \ {f}) \cup {g} BY <1>1 DEF g
<1>5. UNCHANGED <<cluster, page, watch, length, deps, fetchedRef, tr, mishaps>> BY DEF Read
<1>6. TypeOK' BY <1>3, <1>4, <1>5 DEF TypeOK, cluster, page, watch, length
<1>7. Serial' BY <1>3, <1>4, <1>5 DEF Serial
<1>8. Begun' BY <1>4, <1>5 DEF Begun, page
<1> QED BY <1>6, <1>7, <1>8

LEMMA DeliverStep ==
  ASSUME IInv, NEW f \in fetches, Deliver(f)
  PROVE  IInv'
<1> USE DEF IInv
<1>1. UNCHANGED <<cluster, page, watch, length, deps, mishaps>> BY DEF Deliver
<1>2. f \in Fetch BY DEF TypeOK
<1>3. CASE fetchedRef
  <2>1. fetches' = fetches \ {f} /\ UNCHANGED <<fetchedRef, tr>> BY <1>3 DEF Deliver
  <2>2. TypeOK' BY <1>1, <2>1 DEF TypeOK, cluster, page, watch, length
  <2>3. Serial' BY <1>1, <1>3, <2>1 DEF Serial
  <2>4. Begun' BY <1>1, <2>1 DEF Begun, page
  <2> QED BY <2>2, <2>3, <2>4
<1>4. CASE ~fetchedRef
  <2> DEFINE g == [f EXCEPT !.phase = "requested", !.pg = 2]
  <2>1. g \in Fetch /\ g.ns = f.ns BY <1>2 DEF Fetch
  <2>2. /\ tr' = [data |-> f.data, loaded |-> TRUE, error |-> FALSE, ns |-> f.ns]
        /\ fetchedRef' = ~f.more
        /\ fetches' = (fetches \ {f}) \cup (IF f.more THEN {g} ELSE {})
    BY <1>4 DEF Deliver
  <2> HIDE DEF g
  <2>3. f.more \in BOOLEAN /\ f.data \in SUBSET Run /\ f.ns \in NamespaceOrNone
    BY <1>2 DEF Fetch
  <2>4. tr'.loaded /\ tr'.ns = f.ns BY <2>2
  <2>5. TypeOK' BY <1>1, <2>1, <2>2, <2>3 DEF TypeOK, cluster, page, watch, length
  <2>6. Serial'
    <3> SUFFICES ASSUME "overlap" \notin mishaps' PROVE Serial' BY DEF Serial
    <3>1. fetches = {f} /\ f.ns = deps.ns BY <1>1 DEF Serial
    <3>2. CASE f.more BY <1>1, <2>1, <2>2, <3>1, <3>2 DEF Serial
    <3>3. CASE ~f.more BY <1>1, <2>2, <2>4, <3>1, <3>3 DEF Serial
    <3> QED BY <2>3, <3>2, <3>3
  <2>7. Begun' BY <1>1, <2>2 DEF Begun, page
  <2> QED BY <2>5, <2>6, <2>7
<1> QED BY <1>3, <1>4 DEF TypeOK

LEMMA FailStep ==
  ASSUME IInv, NEW f \in fetches, Fail(f)
  PROVE  IInv'
<1> USE DEF IInv
<1>1. /\ UNCHANGED <<cluster, page, watch, length, deps>>
      /\ fetches' = fetches \ {f} /\ mishaps' = mishaps \cup {"failed"}
  BY DEF Fail
<1>2. f.ns \in NamespaceOrNone BY DEF TypeOK, Fetch
<1>3. ErrorState(f) \in [data : SUBSET Run, loaded : BOOLEAN, error : BOOLEAN, ns : NamespaceOrNone]
      /\ ErrorState(f).loaded /\ ErrorState(f).ns = f.ns
  BY <1>2 DEF ErrorState
<1>4. CASE fetchedRef
  <2>1. UNCHANGED <<fetchedRef, tr>> BY <1>4 DEF Fail
  <2>2. TypeOK' BY <1>1, <2>1 DEF TypeOK, cluster, page, watch, length, Mishap
  <2>3. Serial' BY <1>1, <1>4, <2>1 DEF Serial
  <2>4. Begun' BY <1>1, <2>1 DEF Begun, page
  <2> QED BY <2>2, <2>3, <2>4
<1>5. CASE ~fetchedRef
  <2>1. fetchedRef' = TRUE /\ tr' = ErrorState(f) BY <1>5 DEF Fail
  <2>2. TypeOK' BY <1>1, <1>3, <2>1 DEF TypeOK, cluster, page, watch, length, Mishap
  <2>3. Serial'
    <3> SUFFICES ASSUME "overlap" \notin mishaps' PROVE Serial' BY DEF Serial
    <3>1. fetches = {f} /\ f.ns = deps.ns BY <1>1 DEF Serial
    <3> QED BY <1>1, <1>3, <2>1, <3>1 DEF Serial
  <2>4. Begun' BY <1>1, <2>1 DEF Begun, page
  <2> QED BY <2>2, <2>3, <2>4
<1> QED BY <1>4, <1>5 DEF TypeOK

-----------------------------------------------------------------------------
\* The inductive invariant: without overlaps there is one read at most, of what is selected.
THEOREM Invariance == Spec => []IInv
<1>1. IInv /\ [Next]_vars => IInv'
  <2> SUFFICES ASSUME IInv, [Next]_vars PROVE IInv' OBVIOUS
  <2>1. CASE \/ \E r \in Run : Create(r) \/ Archive(r) \/ Prune(r)
             \/ LearnEnabled \/ (\E n \in Namespace : Navigate(n)) \/ WatchUpdate
    BY <2>1, PageStep
  <2>2. CASE LengthEffect BY <2>2, LengthStep
  <2>3. CASE FetchEffect BY <2>3, EffectStep
  <2>4. CASE \E f \in fetches : Read(f) \/ Deliver(f) \/ Fail(f)
    BY <2>4, ReadStep, DeliverStep, FailStep
  <2>5. CASE UNCHANGED vars
    BY <2>5 DEF vars, cluster, page, watch, length, reading, IInv, TypeOK, Serial, Begun
  <2> QED BY <2>1, <2>2, <2>3, <2>4, <2>5 DEF Next
<1> QED BY <1>1, InitIInv, PTL DEF Spec

\* However reads overlap, fail and are dropped, the hooks' state keeps its shape.
THEOREM ResultsTypeCorrect == Spec => []TypeOK
<1>1. IInv => TypeOK BY DEF IInv
<1> QED BY <1>1, Invariance, PTL

\* Reads that never overlapped leave what was read for the namespace now asked for: the
\* cleanup frees the ref for each of them.
THEOREM SerialReadsSettle == Spec => []SettledRead
<1>1. IInv => SettledRead
  <2> SUFFICES ASSUME IInv, "overlap" \notin mishaps, fetches = {}, enabled, deps = Deps
               PROVE  tr.loaded /\ tr.ns = TrNamespace
    BY DEF SettledRead
  <2>1. deps.ns = TrNamespace /\ deps.enabled BY DepsFields
  <2>2. deps # None BY DepsKnown DEF IInv
  <2> QED BY <2>1, <2>2 DEF IInv, Serial
<1> QED BY <1>1, Invariance, PTL
=============================================================================
