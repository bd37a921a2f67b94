--------------------------- MODULE RunCountsProofs ---------------------------
(***************************************************************************)
(* The numbers that the overview computes from the controller's counters,  *)
(* for any statuses, durations, restarts and places of the grid.           *)
(***************************************************************************)
EXTENDS RunCounts, Integers, FiniteSetTheorems, SequenceTheorems, WellFoundedInduction, TLAPS

-----------------------------------------------------------------------------
(***************************************************************************)
(* Sums.                                                                   *)
(***************************************************************************)

LEMMA LeastOf ==
  ASSUME NEW T, T \subseteq Nat, T # {}
  PROVE  \E m \in T : \A k \in T : m <= k
<1>1. PICK m \in T : \A k \in T : ~(<<k, m>> \in OpToRel(<, Nat))
  BY NatLessThanWellFounded, WFMin, Zenon
<1>2. \A k \in T : ~(k < m)
  BY <1>1 DEF OpToRel
<1> QED BY <1>2

\* Induction over the numbers that belong to a set.
LEMMA Ascending ==
  ASSUME NEW S, 0 \in S, \A n \in Nat : n \in S => n + 1 \in S
  PROVE  Nat \subseteq S
<1> SUFFICES ASSUME Nat \ S # {} PROVE FALSE
  OBVIOUS
<1>1. PICK m \in Nat \ S : \A k \in Nat \ S : m <= k
  BY LeastOf
<1>2. m - 1 \in Nat /\ (m - 1) + 1 = m
  OBVIOUS
<1>3. m - 1 \in S
  BY <1>1, <1>2
<1> QED BY <1>2, <1>3

\* What the positions of a sequence add up to, one after the other.
AddsUp(s, v, n) == s = [k \in 0 .. n |-> IF k = 0 THEN 0 ELSE s[k - 1] + v[k]]

LEMMA SumExists ==
  ASSUME NEW v, NEW K \in Nat, \A k \in 1 .. K : v[k] \in Int
  PROVE  \E s \in [0 .. K -> Int] : AddsUp(s, v, K)
<1> DEFINE S == {n \in Nat : n <= K => \E s \in [0 .. n -> Int] : AddsUp(s, v, n)}
<1>1. 0 \in S
  <2> DEFINE z == [k \in 0 .. 0 |-> 0]
  <2>1. z \in [0 .. 0 -> Int] /\ AddsUp(z, v, 0)
    BY DEF AddsUp
  <2> QED BY <2>1
<1>2. ASSUME NEW n \in Nat, n \in S PROVE n + 1 \in S
  <2> SUFFICES ASSUME n + 1 <= K
               PROVE  \E t \in [0 .. n + 1 -> Int] : AddsUp(t, v, n + 1)
    OBVIOUS
  <2>1. PICK s \in [0 .. n -> Int] : AddsUp(s, v, n)
    BY <1>2
  <2>2. \A k \in 0 .. n : s[k] = IF k = 0 THEN 0 ELSE s[k - 1] + v[k]
    BY <2>1 DEF AddsUp
  <2> DEFINE t == [k \in 0 .. n + 1 |-> IF k = n + 1 THEN s[n] + v[n + 1] ELSE s[k]]
  <2>3. v[n + 1] \in Int /\ s[n] \in Int
    OBVIOUS
  <2>4. t \in [0 .. n + 1 -> Int]
    BY <2>3
  <2>5. ASSUME NEW k \in 0 .. n + 1 PROVE t[k] = IF k = 0 THEN 0 ELSE t[k - 1] + v[k]
    <3>1. CASE k = n + 1
      BY <3>1
    <3>2. CASE k # n + 1
      BY <2>2, <3>2
    <3> QED BY <3>1, <3>2
  <2> HIDE DEF t
  <2>6. AddsUp(t, v, n + 1)
    BY <2>4, <2>5 DEF AddsUp
  <2> QED BY <2>4, <2>6
<1> HIDE DEF S
<1>3. K \in S
  BY <1>1, <1>2, Ascending
<1> QED BY <1>3 DEF S

\* As far as two sequences agree, so do the sums.
LEMMA SumsAgree ==
  ASSUME NEW v, NEW w, NEW K \in Nat, NEW M \in Nat, K <= M,
         NEW s, AddsUp(s, v, K), NEW t, AddsUp(t, w, M),
         \A k \in 1 .. K : v[k] = w[k]
  PROVE  \A k \in 0 .. K : s[k] = t[k]
<1> DEFINE S == {n \in Nat : n <= K => s[n] = t[n]}
<1>1. /\ \A k \in 0 .. K : s[k] = IF k = 0 THEN 0 ELSE s[k - 1] + v[k]
      /\ \A k \in 0 .. M : t[k] = IF k = 0 THEN 0 ELSE t[k - 1] + w[k]
  BY DEF AddsUp
<1>2. 0 \in S
  BY <1>1
<1>3. ASSUME NEW n \in Nat, n \in S PROVE n + 1 \in S
  <2> SUFFICES ASSUME n + 1 <= K PROVE s[n + 1] = t[n + 1]
    OBVIOUS
  <2>1. s[n + 1] = s[n] + v[n + 1] /\ t[n + 1] = t[n] + w[n + 1]
    BY <1>1
  <2> QED BY <1>3, <2>1
<1> HIDE DEF S
<1>4. Nat \subseteq S
  BY <1>2, <1>3, Ascending
<1> QED BY <1>4 DEF S

\* The sum, and the sums on the way to it.
LEMMA SumIs ==
  ASSUME NEW K \in Nat, NEW v \in [1 .. K -> Int]
  PROVE  \E s \in [0 .. K -> Int] :
           /\ s[0] = 0 /\ SumOf(v) = s[K]
           /\ \A n \in Nat : n < K => s[n + 1] = s[n] + v[n + 1]
<1> DEFINE c == CHOOSE s : AddsUp(s, v, K)
<1>1. PICK s \in [0 .. K -> Int] : AddsUp(s, v, K)
  BY SumExists
<1>2. AddsUp(c, v, K)
  BY <1>1, Zenon
<1>3. Len(v) = K
  BY LenProperties
<1>4. SumOf(v) = c[K]
  BY <1>3 DEF SumOf, AddsUp
<1> HIDE DEF c
<1>5. \A k \in 0 .. K : c[k] = s[k]
  BY <1>1, <1>2, SumsAgree
<1>6. \A k \in 0 .. K : s[k] = IF k = 0 THEN 0 ELSE s[k - 1] + v[k]
  BY <1>1 DEF AddsUp
<1>7. s[0] = 0
  BY <1>6
<1>8. ASSUME NEW n \in Nat, n < K PROVE s[n + 1] = s[n] + v[n + 1]
  <2>1. n + 1 \in 0 .. K /\ n + 1 # 0 /\ (n + 1) - 1 = n
    BY <1>8
  <2> QED BY <1>6, <2>1
<1>9. SumOf(v) = s[K]
  BY <1>4, <1>5
<1> QED BY <1>7, <1>8, <1>9

LEMMA SumInt ==
  ASSUME NEW K \in Nat, NEW v \in [1 .. K -> Int]
  PROVE  SumOf(v) \in Int
<1>1. PICK s \in [0 .. K -> Int] : SumOf(v) = s[K]
  BY SumIs
<1> QED BY <1>1

LEMMA SumEmpty ==
  ASSUME NEW v \in [1 .. 0 -> Int]
  PROVE  SumOf(v) = 0
<1>1. PICK s \in [0 .. 0 -> Int] : s[0] = 0 /\ SumOf(v) = s[0]
  BY SumIs
<1> QED BY <1>1

\* The sum of the first n + 1 is that of the first n and the next one.
LEMMA SumStep ==
  ASSUME NEW K \in Nat, NEW v \in [1 .. K + 1 -> Int], NEW w \in [1 .. K -> Int],
         \A k \in 1 .. K : w[k] = v[k]
  PROVE  SumOf(v) = SumOf(w) + v[K + 1]
<1>1. PICK s \in [0 .. K + 1 -> Int] :
         /\ s[0] = 0 /\ SumOf(v) = s[K + 1]
         /\ \A n \in Nat : n < K + 1 => s[n + 1] = s[n] + v[n + 1]
  <2>1. K + 1 \in Nat
    OBVIOUS
  <2> QED BY <2>1, SumIs
<1>2. PICK t \in [0 .. K -> Int] :
         /\ t[0] = 0 /\ SumOf(w) = t[K]
         /\ \A n \in Nat : n < K => t[n + 1] = t[n] + w[n + 1]
  BY SumIs
<1> DEFINE S == {n \in Nat : n <= K => s[n] = t[n]}
<1>3. 0 \in S
  BY <1>1, <1>2
<1>4. ASSUME NEW n \in Nat, n \in S PROVE n + 1 \in S
  <2> SUFFICES ASSUME n < K PROVE s[n + 1] = t[n + 1]
    OBVIOUS
  <2>1. s[n + 1] = s[n] + v[n + 1] /\ t[n + 1] = t[n] + w[n + 1]
    BY <1>1, <1>2
  <2> QED BY <1>4, <2>1
<1> HIDE DEF S
<1>5. K \in S
  BY <1>3, <1>4, Ascending
<1>6. s[K] = t[K]
  BY <1>5 DEF S
<1> QED BY <1>1, <1>2, <1>6

\* Sums are linear, and grow with what they add up.
IsPlus(K, u, v, w) ==
  /\ K \in Nat /\ u \in [1 .. K -> Int] /\ v \in [1 .. K -> Int] /\ w \in [1 .. K -> Int]
  /\ \A k \in 1 .. K : w[k] = u[k] + v[k]

IsTimes(K, u, m, w) ==
  /\ K \in Nat /\ m \in Int /\ u \in [1 .. K -> Int] /\ w \in [1 .. K -> Int]
  /\ \A k \in 1 .. K : w[k] = u[k] * m

LEMMA SumPlus ==
  ASSUME NEW K, NEW u, NEW v, NEW w, IsPlus(K, u, v, w)
  PROVE  SumOf(w) = SumOf(u) + SumOf(v)
<1>0. /\ K \in Nat /\ u \in [1 .. K -> Int] /\ v \in [1 .. K -> Int] /\ w \in [1 .. K -> Int]
      /\ \A k \in 1 .. K : w[k] = u[k] + v[k]
  BY DEF IsPlus
<1>1. PICK x \in [0 .. K -> Int] :
         /\ x[0] = 0 /\ SumOf(u) = x[K]
         /\ \A n \in Nat : n < K => x[n + 1] = x[n] + u[n + 1]
  BY <1>0, SumIs
<1>2. PICK y \in [0 .. K -> Int] :
         /\ y[0] = 0 /\ SumOf(v) = y[K]
         /\ \A n \in Nat : n < K => y[n + 1] = y[n] + v[n + 1]
  BY <1>0, SumIs
<1>3. PICK z \in [0 .. K -> Int] :
         /\ z[0] = 0 /\ SumOf(w) = z[K]
         /\ \A n \in Nat : n < K => z[n + 1] = z[n] + w[n + 1]
  BY <1>0, SumIs
<1> DEFINE S == {n \in Nat : n <= K => z[n] = x[n] + y[n]}
<1>4. 0 \in S
  BY <1>0, <1>1, <1>2, <1>3
<1>5. ASSUME NEW n \in Nat, n \in S PROVE n + 1 \in S
  <2> SUFFICES ASSUME n < K PROVE z[n + 1] = x[n + 1] + y[n + 1]
    BY <1>0
  <2>1. /\ x[n + 1] = x[n] + u[n + 1] /\ y[n + 1] = y[n] + v[n + 1]
        /\ z[n + 1] = z[n] + w[n + 1]
    BY <1>1, <1>2, <1>3
  <2>2. w[n + 1] = u[n + 1] + v[n + 1] /\ u[n + 1] \in Int /\ v[n + 1] \in Int
    BY <1>0
  <2>3. x[n] \in Int /\ y[n] \in Int /\ z[n] = x[n] + y[n]
    BY <1>0, <1>5
  <2> QED BY <2>1, <2>2, <2>3
<1> HIDE DEF S
<1>6. K \in S
  BY <1>0, <1>4, <1>5, Ascending
<1>7. z[K] = x[K] + y[K]
  BY <1>6 DEF S
<1> QED BY <1>1, <1>2, <1>3, <1>7

LEMMA SumTimes ==
  ASSUME NEW K, NEW u, NEW m, NEW w, IsTimes(K, u, m, w)
  PROVE  SumOf(w) = SumOf(u) * m
<1>0. /\ K \in Nat /\ m \in Int /\ u \in [1 .. K -> Int] /\ w \in [1 .. K -> Int]
      /\ \A k \in 1 .. K : w[k] = u[k] * m
  BY DEF IsTimes
<1>1. PICK x \in [0 .. K -> Int] :
         /\ x[0] = 0 /\ SumOf(u) = x[K]
         /\ \A n \in Nat : n < K => x[n + 1] = x[n] + u[n + 1]
  BY <1>0, SumIs
<1>2. PICK z \in [0 .. K -> Int] :
         /\ z[0] = 0 /\ SumOf(w) = z[K]
         /\ \A n \in Nat : n < K => z[n + 1] = z[n] + w[n + 1]
  BY <1>0, SumIs
<1> DEFINE S == {n \in Nat : n <= K => z[n] = x[n] * m}
<1>3. 0 \in S
  BY <1>0, <1>1, <1>2
<1>4. ASSUME NEW n \in Nat, n \in S PROVE n + 1 \in S
  <2> SUFFICES ASSUME n < K PROVE z[n + 1] = x[n + 1] * m
    BY <1>0
  <2>1. x[n + 1] = x[n] + u[n + 1] /\ z[n + 1] = z[n] + w[n + 1]
    BY <1>1, <1>2
  <2>2. w[n + 1] = u[n + 1] * m /\ u[n + 1] \in Int
    BY <1>0
  <2>3. x[n] \in Int /\ z[n] = x[n] * m
    BY <1>0, <1>4
  <2>4. \A p, q \in Int : p * m + q * m = (p + q) * m
    BY <1>0
  <2> QED BY <2>1, <2>2, <2>3, <2>4
<1> HIDE DEF S
<1>5. K \in S
  BY <1>0, <1>3, <1>4, Ascending
<1>6. z[K] = x[K] * m
  BY <1>5 DEF S
<1> QED BY <1>1, <1>2, <1>6

LEMMA SumMonotone ==
  ASSUME NEW K \in Nat, NEW u \in [1 .. K -> Int], NEW w \in [1 .. K -> Int],
         \A k \in 1 .. K : u[k] <= w[k]
  PROVE  SumOf(u) <= SumOf(w)
<1>1. PICK x \in [0 .. K -> Int] :
         /\ x[0] = 0 /\ SumOf(u) = x[K]
         /\ \A n \in Nat : n < K => x[n + 1] = x[n] + u[n + 1]
  BY SumIs
<1>2. PICK z \in [0 .. K -> Int] :
         /\ z[0] = 0 /\ SumOf(w) = z[K]
         /\ \A n \in Nat : n < K => z[n + 1] = z[n] + w[n + 1]
  BY SumIs
<1> DEFINE S == {n \in Nat : n <= K => x[n] <= z[n]}
<1>3. 0 \in S
  BY <1>1, <1>2
<1>4. ASSUME NEW n \in Nat, n \in S PROVE n + 1 \in S
  <2> SUFFICES ASSUME n < K PROVE x[n + 1] <= z[n + 1]
    OBVIOUS
  <2>1. x[n + 1] = x[n] + u[n + 1] /\ z[n + 1] = z[n] + w[n + 1]
    BY <1>1, <1>2
  <2>2. u[n + 1] <= w[n + 1] /\ u[n + 1] \in Int /\ w[n + 1] \in Int
    OBVIOUS
  <2>3. x[n] \in Int /\ z[n] \in Int /\ x[n] <= z[n]
    BY <1>4
  <2>4. \A p, q, i, j \in Int : p <= q /\ i <= j => p + i <= q + j
    OBVIOUS
  <2>5. x[n] + u[n + 1] <= z[n] + w[n + 1]
    BY <2>2, <2>3, <2>4
  <2> QED BY <2>1, <2>5
<1> HIDE DEF S
<1>5. K \in S
  BY <1>3, <1>4, Ascending
<1>6. x[K] <= z[K]
  BY <1>5 DEF S
<1> QED BY <1>1, <1>2, <1>6

\* A sum of natural numbers is one, and no less than any of them.
LEMMA SumNat ==
  ASSUME NEW K \in Nat, NEW v \in [1 .. K -> Nat]
  PROVE  SumOf(v) \in Nat /\ \A k \in 1 .. K : v[k] <= SumOf(v)
<1>1. PICK x \in [0 .. K -> Int] :
         /\ x[0] = 0 /\ SumOf(v) = x[K]
         /\ \A n \in Nat : n < K => x[n + 1] = x[n] + v[n + 1]
  <2>1. v \in [1 .. K -> Int]
    OBVIOUS
  <2> QED BY <2>1, SumIs
<1> DEFINE S == {n \in Nat : n <= K => x[n] \in Nat /\ \A k \in 1 .. n : v[k] <= x[n]}
<1>2. 0 \in S
  BY <1>1
<1>3. ASSUME NEW n \in Nat, n \in S PROVE n + 1 \in S
  <2> SUFFICES ASSUME n < K
               PROVE  x[n + 1] \in Nat /\ \A k \in 1 .. n + 1 : v[k] <= x[n + 1]
    OBVIOUS
  <2>1. x[n + 1] = x[n] + v[n + 1] /\ v[n + 1] \in Nat
    BY <1>1
  <2>2. x[n] \in Nat /\ \A k \in 1 .. n : v[k] <= x[n]
    BY <1>3
  <2>3. x[n + 1] \in Nat /\ x[n] <= x[n + 1] /\ v[n + 1] <= x[n + 1]
    BY <2>1, <2>2
  <2>4. ASSUME NEW k \in 1 .. n + 1 PROVE v[k] <= x[n + 1]
    <3>1. v[k] \in Nat /\ (k \in 1 .. n \/ k = n + 1)
      OBVIOUS
    <3> QED BY <2>2, <2>3, <3>1
  <2> QED BY <2>3, <2>4
<1> HIDE DEF S
<1>4. K \in S
  BY <1>2, <1>3, Ascending
<1>5. x[K] \in Nat /\ \A k \in 1 .. K : v[k] <= x[K]
  BY <1>4 DEF S
<1> QED BY <1>1, <1>5

-----------------------------------------------------------------------------
(***************************************************************************)
(* Sums over the statuses.                                                 *)
(***************************************************************************)

LEMMA OrderIs ==
  ASSUME CountAssumption
  PROVE  /\ Len(Order) \in Nat /\ Order \in [1 .. Len(Order) -> Status]
         /\ \A s \in Status : \E i \in 1 .. Len(Order) : Order[i] = s
<1> DEFINE n == Cardinality(Status)
<1>1. n \in Nat /\ ExistsBijection(1 .. n, Status)
  BY FS_CardinalityType DEF CountAssumption
<1>2. PICK b : b \in Bijection(1 .. n, Status)
  BY <1>1 DEF ExistsBijection
<1>3. b \in [1 .. n -> Status] /\ IsInjective(b)
  BY <1>2 DEF Bijection, Injection
<1>4. Order \in [1 .. n -> Status] /\ IsInjective(Order)
  BY <1>3, Zenon DEF Order, SetToSeq
<1>5. Order \in Injection(1 .. n, Status)
  BY <1>4 DEF Injection
<1>6. IsFiniteSet(1 .. n) /\ Cardinality(1 .. n) = n
  BY <1>1, FS_Interval
<1>7. Order \in Surjection(1 .. n, Status)
  BY <1>5, <1>6, FS_Injection DEF CountAssumption
<1>8. Order \in Seq(Status) /\ Len(Order) = n
  BY <1>1, <1>4, LenProperties
<1> QED BY <1>1, <1>4, <1>7, <1>8 DEF Surjection

\* The positions of a function of the status.
Positions(f) == [i \in 1 .. Len(Order) |-> f[Order[i]]]

LEMMA PositionsNat ==
  ASSUME CountAssumption, NEW f \in Counts
  PROVE  /\ OverStatus(f) = SumOf(Positions(f))
         /\ Positions(f) \in [1 .. Len(Order) -> Nat]
         /\ Positions(f) \in [1 .. Len(Order) -> Int]
         /\ \A i \in 1 .. Len(Order) : Positions(f)[i] = f[Order[i]]
         /\ Len(Order) \in Nat
<1>1. \A i \in 1 .. Len(Order) : f[Order[i]] \in Nat
  BY OrderIs DEF Counts
<1> QED BY <1>1, OrderIs DEF OverStatus, Positions

LEMMA OverNat ==
  ASSUME CountAssumption, NEW f \in Counts
  PROVE  OverStatus(f) \in Nat /\ \A s \in Status : f[s] <= OverStatus(f)
<1>1. /\ SumOf(Positions(f)) \in Nat
      /\ \A i \in 1 .. Len(Order) : Positions(f)[i] <= SumOf(Positions(f))
  BY PositionsNat, SumNat
<1>2. \A i \in 1 .. Len(Order) : f[Order[i]] <= OverStatus(f)
  BY <1>1, PositionsNat
<1>3. \A s \in Status : f[s] <= OverStatus(f)
  BY <1>2, OrderIs
<1> QED BY <1>1, <1>3, PositionsNat

LEMMA OverPlus ==
  ASSUME CountAssumption, NEW f \in Counts, NEW g \in Counts, NEW h \in Counts,
         \A s \in Status : h[s] = f[s] + g[s]
  PROVE  OverStatus(h) = OverStatus(f) + OverStatus(g)
<1>1. \A i \in 1 .. Len(Order) : h[Order[i]] = f[Order[i]] + g[Order[i]]
  BY OrderIs
<1>2. \A i \in 1 .. Len(Order) : Positions(h)[i] = Positions(f)[i] + Positions(g)[i]
  BY <1>1, PositionsNat
<1>3. /\ Positions(f) \in [1 .. Len(Order) -> Int] /\ Positions(g) \in [1 .. Len(Order) -> Int]
      /\ Positions(h) \in [1 .. Len(Order) -> Int] /\ Len(Order) \in Nat
  BY PositionsNat
<1>4. IsPlus(Len(Order), Positions(f), Positions(g), Positions(h))
  BY <1>2, <1>3 DEF IsPlus
<1>5. SumOf(Positions(h)) = SumOf(Positions(f)) + SumOf(Positions(g))
  BY <1>4, SumPlus
<1> QED BY <1>5, PositionsNat

LEMMA OverTimes ==
  ASSUME CountAssumption, NEW f \in Counts, NEW m \in Nat, NEW h \in Counts,
         \A s \in Status : h[s] = f[s] * m
  PROVE  OverStatus(h) = OverStatus(f) * m
<1>1. \A i \in 1 .. Len(Order) : h[Order[i]] = f[Order[i]] * m
  BY OrderIs
<1>2. \A i \in 1 .. Len(Order) : Positions(h)[i] = Positions(f)[i] * m
  BY <1>1, PositionsNat
<1>3. /\ Positions(f) \in [1 .. Len(Order) -> Int] /\ Positions(h) \in [1 .. Len(Order) -> Int]
      /\ Len(Order) \in Nat /\ m \in Int
  BY PositionsNat
<1>4. IsTimes(Len(Order), Positions(f), m, Positions(h))
  BY <1>2, <1>3 DEF IsTimes
<1>5. SumOf(Positions(h)) = SumOf(Positions(f)) * m
  BY <1>4, SumTimes
<1> QED BY <1>5, PositionsNat

LEMMA OverMonotone ==
  ASSUME CountAssumption, NEW f \in Counts, NEW g \in Counts,
         \A s \in Status : f[s] <= g[s]
  PROVE  OverStatus(f) <= OverStatus(g)
<1>1. \A i \in 1 .. Len(Order) : f[Order[i]] <= g[Order[i]]
  BY OrderIs
<1>2. \A i \in 1 .. Len(Order) : Positions(f)[i] <= Positions(g)[i]
  BY <1>1, PositionsNat
<1>3. /\ Positions(f) \in [1 .. Len(Order) -> Int] /\ Positions(g) \in [1 .. Len(Order) -> Int]
      /\ Len(Order) \in Nat
  BY PositionsNat
<1>4. SumOf(Positions(f)) <= SumOf(Positions(g))
  BY <1>2, <1>3, SumMonotone
<1> QED BY <1>4, PositionsNat

\* The seconds of the runs of each status.
Spent(d) == [s \in Status |-> d[s] * Lasts[s]]

LEMMA SpentIs ==
  ASSUME CountAssumption, NEW d \in Counts
  PROVE  Spent(d) \in Counts /\ Seconds(d) = OverStatus(Spent(d))
<1>1. \A s \in Status : d[s] \in Nat /\ Lasts[s] \in Nat
  BY DEF CountAssumption, Counts
<1>2. \A p, q \in Nat : p * q \in Nat
  OBVIOUS
<1>3. \A s \in Status : d[s] * Lasts[s] \in Nat
  BY <1>1, <1>2
<1> QED BY <1>3 DEF Spent, Seconds, Counts

\* Runs and seconds are numbers, and there are some unless all counters are zero.
LEMMA RunsAre ==
  ASSUME CountAssumption, NEW d \in Counts
  PROVE  /\ Runs(d) \in Nat /\ Seconds(d) \in Nat
         /\ \A s \in Status : d[s] <= Runs(d)
         /\ d # Zero => Runs(d) > 0 /\ Seconds(d) > 0
<1>1. Runs(d) \in Nat /\ \A s \in Status : d[s] <= Runs(d)
  BY OverNat DEF Runs
<1>2. Seconds(d) \in Nat /\ \A s \in Status : Spent(d)[s] <= Seconds(d)
  BY SpentIs, OverNat
<1>3. ASSUME d # Zero PROVE Runs(d) > 0 /\ Seconds(d) > 0
  <2>1. PICK s \in Status : d[s] # 0
    BY <1>3 DEF Zero, Counts
  <2>2. d[s] \in Nat /\ d[s] > 0
    BY <2>1 DEF Counts
  <2>3. Lasts[s] \in Nat /\ Lasts[s] > 0
    BY DEF CountAssumption
  <2>4. \A p, q \in Nat : p > 0 /\ q > 0 => p * q \in Nat /\ p * q > 0
    OBVIOUS
  <2>5. Spent(d)[s] \in Nat /\ Spent(d)[s] > 0
    BY <2>2, <2>3, <2>4 DEF Spent
  <2> QED BY <1>1, <1>2, <2>2, <2>5
<1> QED BY <1>1, <1>2, <1>3

Plus(c, d) == [s \in Status |-> c[s] + d[s]]
Minus(d, c) == [s \in Status |-> d[s] - c[s]]
Below(c, d) == \A s \in Status : c[s] <= d[s]

LEMMA RunsPlus ==
  ASSUME CountAssumption, NEW c \in Counts, NEW d \in Counts
  PROVE  /\ Plus(c, d) \in Counts
         /\ Runs(Plus(c, d)) = Runs(c) + Runs(d)
         /\ Seconds(Plus(c, d)) = Seconds(c) + Seconds(d)
<1>1. /\ Plus(c, d) \in Counts
      /\ \A s \in Status : Plus(c, d)[s] = c[s] + d[s] /\ c[s] \in Nat /\ d[s] \in Nat
  BY DEF Plus, Counts
<1>2. Runs(Plus(c, d)) = Runs(c) + Runs(d)
  BY <1>1, OverPlus DEF Runs
<1>3. \A p, q, l \in Nat : (p + q) * l = p * l + q * l
  OBVIOUS
<1>4. \A s \in Status : Lasts[s] \in Nat
  BY DEF CountAssumption
<1>5. \A s \in Status : (c[s] + d[s]) * Lasts[s] = c[s] * Lasts[s] + d[s] * Lasts[s]
  BY <1>1, <1>3, <1>4
<1>6. \A s \in Status : Spent(Plus(c, d))[s] = Spent(c)[s] + Spent(d)[s]
  BY <1>1, <1>5 DEF Spent
<1>7. Seconds(Plus(c, d)) = Seconds(c) + Seconds(d)
  BY <1>1, <1>6, OverPlus, SpentIs
<1> QED BY <1>1, <1>2, <1>7

LEMMA RunsMinus ==
  ASSUME CountAssumption, NEW c \in Counts, NEW d \in Counts, Below(c, d)
  PROVE  /\ Minus(d, c) \in Counts
         /\ Runs(c) + Runs(Minus(d, c)) = Runs(d)
         /\ Seconds(c) + Seconds(Minus(d, c)) = Seconds(d)
<1>1. Minus(d, c) \in Counts
  BY DEF Minus, Counts, Below
<1>2. Plus(c, Minus(d, c)) = d
  <2>1. \A s \in Status : c[s] + (d[s] - c[s]) = d[s]
    BY DEF Counts
  <2> QED BY <2>1 DEF Plus, Minus, Counts
<1> QED BY <1>1, <1>2, RunsPlus

LEMMA RunsZero ==
  ASSUME CountAssumption
  PROVE  Zero \in Counts /\ Runs(Zero) = 0 /\ Seconds(Zero) = 0
<1>1. Zero \in Counts /\ Plus(Zero, Zero) = Zero
  BY DEF Zero, Counts, Plus
<1>2. Runs(Zero) \in Nat /\ Seconds(Zero) \in Nat
  BY <1>1, RunsAre
<1>3. Runs(Zero) = Runs(Zero) + Runs(Zero) /\ Seconds(Zero) = Seconds(Zero) + Seconds(Zero)
  BY <1>1, RunsPlus
<1>4. \A p \in Nat : p = p + p => p = 0
  OBVIOUS
<1> QED BY <1>1, <1>2, <1>3, <1>4

LEMMA LeastLast ==
  ASSUME CountAssumption
  PROVE  \E s \in Status : \A q \in Status : Lasts[s] <= Lasts[q]
<1> DEFINE T == {Lasts[q] : q \in Status}
<1>1. T \subseteq Nat /\ T # {}
  BY DEF CountAssumption
<1>2. PICK m \in T : \A k \in T : m <= k
  BY <1>1, LeastOf
<1> QED BY <1>2

LEMMA GreatestLast ==
  ASSUME CountAssumption
  PROVE  \E t \in Status : \A q \in Status : Lasts[q] <= Lasts[t]
<1> DEFINE total == OverStatus(Lasts)
           T == {total - Lasts[q] : q \in Status}
<1>1. Lasts \in Counts
  BY DEF CountAssumption, Counts
<1>2. total \in Nat /\ \A q \in Status : Lasts[q] \in Nat /\ Lasts[q] <= total
  BY <1>1, OverNat DEF Counts
<1> HIDE DEF total
<1>3. T \subseteq Nat /\ T # {}
  BY <1>2 DEF CountAssumption
<1>4. PICK m \in T : \A k \in T : m <= k
  BY <1>3, LeastOf
<1>5. PICK t \in Status : m = total - Lasts[t]
  BY <1>4
<1>6. \A q \in Status : total - Lasts[t] <= total - Lasts[q]
  BY <1>4, <1>5
<1>7. \A q \in Status : Lasts[q] <= Lasts[t]
  BY <1>2, <1>6
<1> QED BY <1>7

\* What every run lasts, if it lasts m seconds.
Scaled(d, m) == [q \in Status |-> d[q] * m]

LEMMA ScaledIs ==
  ASSUME CountAssumption, NEW d \in Counts, NEW m \in Nat
  PROVE  Scaled(d, m) \in Counts /\ OverStatus(Scaled(d, m)) = Runs(d) * m
<1>1. \A p, q \in Nat : p * q \in Nat
  OBVIOUS
<1>2. \A q \in Status : d[q] \in Nat
  BY DEF Counts
<1>3. \A q \in Status : d[q] * m \in Nat
  BY <1>1, <1>2
<1>4. Scaled(d, m) \in Counts /\ \A q \in Status : Scaled(d, m)[q] = d[q] * m
  BY <1>3 DEF Scaled, Counts
<1> QED BY <1>4, OverTimes DEF Runs

\* The average over runs lies between the shortest and the longest of them.
LEMMA PlausibleIs ==
  ASSUME CountAssumption, NEW d \in Counts
  PROVE  Plausible(<<Seconds(d), Runs(d)>>)
<1>1. PICK s \in Status : \A q \in Status : Lasts[s] <= Lasts[q]
  BY LeastLast
<1>2. PICK t \in Status : \A q \in Status : Lasts[q] <= Lasts[t]
  BY GreatestLast
<1>3. \A q \in Status : Lasts[q] \in Nat /\ d[q] \in Nat
  BY DEF CountAssumption, Counts
<1>4. \A n, x, y \in Nat : x <= y => n * x <= n * y
  OBVIOUS
<1>5. \A q \in Status : d[q] * Lasts[s] <= d[q] * Lasts[q] /\ d[q] * Lasts[q] <= d[q] * Lasts[t]
  BY <1>1, <1>2, <1>3, <1>4
<1>6. \A q \in Status : Scaled(d, Lasts[s])[q] <= Spent(d)[q]
                        /\ Spent(d)[q] <= Scaled(d, Lasts[t])[q]
  BY <1>5 DEF Scaled, Spent
<1>7. /\ Scaled(d, Lasts[s]) \in Counts /\ Scaled(d, Lasts[t]) \in Counts
      /\ OverStatus(Scaled(d, Lasts[s])) = Runs(d) * Lasts[s]
      /\ OverStatus(Scaled(d, Lasts[t])) = Runs(d) * Lasts[t]
  BY <1>3, ScaledIs
<1>8. Spent(d) \in Counts /\ Seconds(d) = OverStatus(Spent(d))
  BY SpentIs
<1>9. Runs(d) * Lasts[s] <= Seconds(d) /\ Seconds(d) <= Runs(d) * Lasts[t]
  BY <1>6, <1>7, <1>8, OverMonotone
<1> QED BY <1>9, Zenon DEF Plausible

-----------------------------------------------------------------------------
(***************************************************************************)
(* What one more value adds to what the cards make of a series.            *)
(***************************************************************************)

LastOf(v) == IF v = << >> THEN 0 ELSE v[Len(v)]
Gain(v, x) == IF x < LastOf(v) THEN x ELSE x - LastOf(v)

\* What each value adds: all of it, if it is the first or less than the one before.
Gains(v) ==
  [i \in 1 .. Len(v) |->
     IF i = 1 THEN v[1] ELSE IF v[i] < v[i - 1] THEN v[i] ELSE v[i] - v[i - 1]]

\* What was reached before each fall.
Falls(v) == [i \in 1 .. Len(v) - 1 |-> IF v[i + 1] < v[i] THEN v[i] ELSE 0]

LEMMA SeriesAppend ==
  ASSUME NEW v \in Seq(Nat), NEW x \in Nat
  PROVE  /\ Len(v) \in Nat /\ v \in [1 .. Len(v) -> Nat]
         /\ Append(v, x) \in Seq(Nat) /\ Append(v, x) # << >>
         /\ Len(Append(v, x)) = Len(v) + 1 /\ Append(v, x)[Len(v) + 1] = x
         /\ \A i \in 1 .. Len(v) : Append(v, x)[i] = v[i]
         /\ Append(v, x) \in [1 .. Len(v) + 1 -> Nat]
         /\ (v = << >> <=> Len(v) = 0)
<1>1. /\ Append(v, x) \in Seq(Nat) /\ Append(v, x) # << >>
      /\ Len(Append(v, x)) = Len(v) + 1
      /\ \A i \in 1 .. Len(v) : Append(v, x)[i] = v[i]
      /\ Append(v, x)[Len(v) + 1] = x
  BY AppendProperties
<1>2. Len(v) \in Nat /\ v \in [1 .. Len(v) -> Nat]
  BY LenProperties
<1>3. Append(v, x) \in [1 .. Len(v) + 1 -> Nat]
  BY <1>1, LenProperties
<1>4. v = << >> <=> Len(v) = 0
  BY EmptySeq, <1>2
<1> QED BY <1>1, <1>2, <1>3, <1>4

LEMMA FallsType ==
  ASSUME NEW v \in Seq(Nat)
  PROVE  v # << >> => Len(v) - 1 \in Nat /\ Falls(v) \in [1 .. Len(v) - 1 -> Int]
<1>1. Len(v) \in Nat /\ v \in [1 .. Len(v) -> Nat] /\ (v = << >> <=> Len(v) = 0)
  BY SeriesAppend
<1>2. \A i \in 1 .. Len(v) - 1 : v[i] \in Int
  BY <1>1
<1> QED BY <1>1, <1>2 DEF Falls

LEMMA GainsType ==
  ASSUME NEW v \in Seq(Nat)
  PROVE  Gains(v) \in [1 .. Len(v) -> Nat] /\ Gains(v) \in [1 .. Len(v) -> Int]
<1>1. Len(v) \in Nat /\ v \in [1 .. Len(v) -> Nat]
  BY SeriesAppend
<1>2. ASSUME NEW i \in 1 .. Len(v) PROVE Gains(v)[i] \in Nat
  <2>1. CASE i = 1
    BY <1>1, <2>1 DEF Gains
  <2>2. CASE i # 1
    <3>1. i - 1 \in 1 .. Len(v)
      BY <1>1, <2>2
    <3>2. v[i] \in Nat /\ v[i - 1] \in Nat
      BY <1>1, <3>1
    <3> QED BY <2>2, <3>2 DEF Gains
  <2> QED BY <2>1, <2>2
<1>3. Gains(v) = [i \in 1 .. Len(v) |-> Gains(v)[i]]
  BY DEF Gains
<1> QED BY <1>2, <1>3

LEMMA ReachedAppend ==
  ASSUME NEW v \in Seq(Nat), NEW x \in Nat
  PROVE  Reached(v) \in Int /\ Reached(Append(v, x)) = Reached(v) + Gain(v, x)
<1> DEFINE n == Len(v)  w == Append(v, x)
<1>1. /\ n \in Nat /\ v \in [1 .. n -> Nat] /\ w # << >> /\ Len(w) = n + 1 /\ w[n + 1] = x
      /\ \A i \in 1 .. n : w[i] = v[i]
      /\ w \in Seq(Nat)
      /\ (v = << >> <=> n = 0)
  BY SeriesAppend
<1> HIDE DEF w
<1>2. Falls(w) \in [1 .. n -> Int]
  <2>1. Falls(w) \in [1 .. Len(w) - 1 -> Int]
    BY <1>1, FallsType
  <2>2. Len(w) - 1 = n
    BY <1>1
  <2> QED BY <2>1, <2>2
<1>3. Reached(w) = x + SumOf(Falls(w))
  BY <1>1 DEF Reached, Falls
<1>4. CASE v = << >>
  <2>1. n = 0
    BY <1>1, <1>4
  <2>2. SumOf(Falls(w)) = 0
    BY <1>2, <2>1, SumEmpty
  <2>3. Reached(v) = 0 /\ Gain(v, x) = x
    BY <1>4 DEF Reached, Gain, LastOf
  <2> QED BY <1>3, <2>2, <2>3 DEF w
<1>5. CASE v # << >>
  <2> DEFINE m == n - 1
  <2>1. m \in Nat /\ m + 1 = n /\ v[n] \in Nat
    BY <1>1, <1>5
  <2>2. Falls(v) \in [1 .. m -> Int]
    BY <1>5, FallsType
  <2>3. \A i \in 1 .. m : i \in 1 .. n /\ i + 1 \in 1 .. n
    BY <2>1
  <2>4. \A i \in 1 .. m : Falls(v)[i] = Falls(w)[i]
    BY <1>1, <2>1, <2>3 DEF Falls
  <2>5. Falls(w)[n] = IF x < v[n] THEN v[n] ELSE 0
    BY <1>1, <2>1 DEF Falls
  <2>6. Falls(w) \in [1 .. m + 1 -> Int]
    BY <1>2, <2>1
  <2> HIDE DEF m, n
  <2>7. SumOf(Falls(w)) = SumOf(Falls(v)) + Falls(w)[m + 1]
    BY <2>1, <2>2, <2>4, <2>6, SumStep
  <2>8. Reached(v) = v[n] + SumOf(Falls(v))
    BY <1>5 DEF Reached, Falls, n
  <2>9. SumOf(Falls(v)) \in Int
    BY <2>1, <2>2, SumInt
  <2>10. Gain(v, x) = IF x < v[n] THEN x ELSE x - v[n]
    BY <1>5 DEF Gain, LastOf, n
  <2> QED BY <1>3, <2>1, <2>5, <2>7, <2>8, <2>9, <2>10 DEF w
<1> QED BY <1>4, <1>5

LEMMA GainsAppend ==
  ASSUME NEW v \in Seq(Nat), NEW x \in Nat
  PROVE  SumOf(Gains(v)) \in Nat /\ SumOf(Gains(Append(v, x))) = SumOf(Gains(v)) + Gain(v, x)
<1> DEFINE n == Len(v)  w == Append(v, x)
<1>1. /\ n \in Nat /\ v \in [1 .. n -> Nat] /\ w # << >> /\ Len(w) = n + 1 /\ w[n + 1] = x
      /\ \A i \in 1 .. n : w[i] = v[i]
      /\ w \in Seq(Nat)
      /\ (v = << >> <=> n = 0)
  BY SeriesAppend
<1> HIDE DEF w
<1>2. Gains(w) \in [1 .. n + 1 -> Int] /\ Gains(v) \in [1 .. n -> Int] /\ Gains(v) \in [1 .. n -> Nat]
  <2>1. Gains(w) \in [1 .. Len(w) -> Int]
    BY <1>1, GainsType
  <2> QED BY <1>1, <2>1, GainsType
<1>3. ASSUME NEW i \in 1 .. n PROVE Gains(v)[i] = Gains(w)[i]
  <2>1. i \in 1 .. Len(w) /\ w[i] = v[i] /\ w[1] = v[1]
    BY <1>1
  <2>2. i # 1 => w[i - 1] = v[i - 1]
    <3>1. i # 1 => i - 1 \in 1 .. n
      BY <1>1
    <3> QED BY <1>1, <3>1
  <2>3. Gains(v)[i] = IF i = 1 THEN v[1] ELSE IF v[i] < v[i - 1] THEN v[i] ELSE v[i] - v[i - 1]
    BY DEF Gains
  <2>4. Gains(w)[i] = IF i = 1 THEN w[1] ELSE IF w[i] < w[i - 1] THEN w[i] ELSE w[i] - w[i - 1]
    BY <2>1 DEF Gains
  <2>5. CASE i = 1
    BY <2>1, <2>3, <2>4, <2>5
  <2>6. CASE i # 1
    BY <2>1, <2>2, <2>3, <2>4, <2>6
  <2> QED BY <2>5, <2>6
<1>4. Gains(w)[n + 1] = Gain(v, x)
  <2>1. CASE n = 0
    BY <1>1, <2>1 DEF Gains, Gain, LastOf
  <2>2. CASE n # 0
    <3>1. n \in 1 .. n /\ (n + 1) - 1 = n /\ n + 1 # 1 /\ n + 1 \in 1 .. n + 1
      BY <1>1, <2>2
    <3>2. Gains(w)[n + 1] = IF x < w[n] THEN x ELSE x - w[n]
      BY <1>1, <3>1 DEF Gains
    <3>3. Gain(v, x) = IF x < v[n] THEN x ELSE x - v[n]
      BY <1>1, <2>2 DEF Gain, LastOf
    <3> QED BY <1>1, <3>1, <3>2, <3>3
  <2> QED BY <2>1, <2>2
<1> HIDE DEF n
<1>5. SumOf(Gains(w)) = SumOf(Gains(v)) + Gains(w)[n + 1]
  BY <1>1, <1>2, <1>3, SumStep
<1>6. SumOf(Gains(v)) \in Nat
  BY <1>1, <1>2, SumNat
<1> QED BY <1>4, <1>5, <1>6 DEF w

-----------------------------------------------------------------------------
(***************************************************************************)
(* The invariant.                                                          *)
(***************************************************************************)

\* A total card and the bars account for total.
Shows(v, total) == Reached(v) = total /\ SumOf(Gains(v)) = total

\* What the bars by status add up to, before the first tick counts.
Told(s) == SumOf(Gains(ByStatus(s)))

\* From one sample to the next nothing is lost, or one of the answers shows that it is.
Grows(i) ==
  \/ Below(samples[i - 1].counts, samples[i].counts)
  \/ AllRuns[i] < AllRuns[i - 1] \/ AllSeconds[i] < AllSeconds[i - 1]
  \/ {"runs", "seconds"} \subseteq hidden

CountInv ==
  /\ CountTypeOK
  /\ ~restarted => Below(LastCounts, counter)
  /\ \A i \in DOMAIN samples : samples[1].at <= samples[i].at /\ samples[i].at <= passed
  /\ IF samples = << >> THEN recorded = Zero ELSE Below(samples[1].counts, recorded)
  /\ "runs" \notin hidden => Shows(AllRuns, Runs(recorded))
  /\ "seconds" \notin hidden => Shows(AllSeconds, Seconds(recorded))
  /\ \A s \in Status :
       Told(s) <= recorded[s] /\ (s \notin hidden => Told(s) = recorded[s])
  /\ \A i \in DOMAIN samples : i > 1 => Grows(i)

-----------------------------------------------------------------------------
(***************************************************************************)
(* The answers to the queries.                                             *)
(***************************************************************************)

LEMMA IsSeries ==
  ASSUME NEW n \in Nat, NEW v \in [1 .. n -> Nat]
  PROVE  v \in Seq(Nat) /\ Len(v) = n
<1>1. v \in Seq(Nat)
  OBVIOUS
<1>2. Len(v) \in Nat /\ DOMAIN v = 1 .. Len(v)
  BY <1>1, LenProperties
<1>3. 1 .. n = 1 .. Len(v)
  BY <1>2
<1> QED BY <1>1, <1>2, <1>3

LEMMA AppendIs ==
  ASSUME NEW n \in Nat, NEW v \in [1 .. n -> Nat], NEW w \in [1 .. n + 1 -> Nat],
         \A i \in 1 .. n : w[i] = v[i]
  PROVE  w = Append(v, w[n + 1])
<1> DEFINE x == w[n + 1]  a == Append(v, x)
<1>1. x \in Nat /\ n + 1 \in Nat
  OBVIOUS
<1>2. v \in Seq(Nat) /\ Len(v) = n /\ w \in Seq(Nat) /\ Len(w) = n + 1
  BY <1>1, IsSeries
<1>3. /\ a \in Seq(Nat) /\ Len(a) = n + 1 /\ a[n + 1] = x
      /\ \A i \in 1 .. n : a[i] = v[i]
  BY <1>1, <1>2, SeriesAppend
<1>4. \A i \in 1 .. n + 1 : i \in 1 .. n \/ i = n + 1
  OBVIOUS
<1> HIDE DEF a
<1>5. \A i \in 1 .. n + 1 : w[i] = a[i]
  BY <1>3, <1>4
<1>6. w = a
  BY <1>2, <1>3, <1>5, SeqEqual
<1> QED BY <1>6 DEF a

LEMMA SamplesAre ==
  ASSUME CountTypeOK
  PROVE  /\ Len(samples) \in Nat /\ DOMAIN samples = 1 .. Len(samples)
         /\ (samples = << >> <=> Len(samples) = 0)
         /\ \A i \in 1 .. Len(samples) :
              /\ samples[i].counts \in Counts /\ samples[i].counts # Zero
              /\ samples[i].at \in 1 .. MaxPlaces
<1> DEFINE Sample == [at : 1 .. MaxPlaces, counts : Counts \ {Zero}]
<1>1. samples \in Seq(Sample)
  BY DEF CountTypeOK
<1> HIDE DEF Sample
<1>2. Len(samples) \in Nat /\ DOMAIN samples = 1 .. Len(samples)
  BY <1>1, LenProperties
<1>3. \A i \in 1 .. Len(samples) : samples[i] \in Sample
  BY <1>1, ElementOfSeq
<1>4. samples = << >> <=> Len(samples) = 0
  BY <1>1, <1>2, EmptySeq
<1> QED BY <1>2, <1>3, <1>4 DEF Sample

LEMMA LastIs ==
  ASSUME CountAssumption, CountTypeOK
  PROVE  /\ LastCounts \in Counts /\ (samples # << >> => LastCounts # Zero)
         /\ (samples = << >> => LastCounts = Zero)
<1>1. Zero \in Counts
  BY RunsZero
<1>2. samples # << >> => Len(samples) \in 1 .. Len(samples)
  BY SamplesAre
<1> QED BY <1>1, <1>2, SamplesAre DEF LastCounts

LEMMA AnswersAre ==
  ASSUME CountAssumption, CountTypeOK
  PROVE  /\ AllRuns \in [1 .. Len(samples) -> Nat]
         /\ AllSeconds \in [1 .. Len(samples) -> Nat]
         /\ \A s \in Status : ByStatus(s) \in [1 .. Len(samples) -> Nat]
<1>1. ASSUME NEW i \in 1 .. Len(samples)
      PROVE  /\ Runs(samples[i].counts) \in Nat /\ Seconds(samples[i].counts) \in Nat
             /\ \A s \in Status : samples[i].counts[s] \in Nat
  <2>1. samples[i].counts \in Counts
    BY SamplesAre
  <2>2. Runs(samples[i].counts) \in Nat /\ Seconds(samples[i].counts) \in Nat
    BY <2>1, RunsAre
  <2> QED BY <2>1, <2>2 DEF Counts
<1>2. DOMAIN samples = 1 .. Len(samples)
  BY SamplesAre
<1> QED BY <1>1, <1>2 DEF AllRuns, AllSeconds, ByStatus

\* The last values are those of the last sample.
LEMMA AnswersEnd ==
  ASSUME CountAssumption, CountTypeOK
  PROVE  /\ AllRuns \in Seq(Nat) /\ LastOf(AllRuns) = Runs(LastCounts)
         /\ AllSeconds \in Seq(Nat) /\ LastOf(AllSeconds) = Seconds(LastCounts)
         /\ \A s \in Status :
              ByStatus(s) \in Seq(Nat) /\ LastOf(ByStatus(s)) = LastCounts[s]
<1> DEFINE n == Len(samples)
<1>1. n \in Nat /\ DOMAIN samples = 1 .. n /\ (samples = << >> <=> n = 0)
  BY SamplesAre
<1>2. /\ AllRuns \in [1 .. n -> Nat] /\ AllSeconds \in [1 .. n -> Nat]
      /\ \A s \in Status : ByStatus(s) \in [1 .. n -> Nat]
  BY AnswersAre
<1>3. ASSUME NEW v \in [1 .. n -> Nat]
      PROVE  v \in Seq(Nat) /\ LastOf(v) = IF n = 0 THEN 0 ELSE v[n]
  <2>1. v \in Seq(Nat) /\ Len(v) = n
    BY <1>1, IsSeries
  <2>2. v = << >> <=> n = 0
    BY <2>1, EmptySeq
  <2> QED BY <2>1, <2>2 DEF LastOf
<1>4. CASE n = 0
  <2>1. LastCounts = Zero /\ Runs(Zero) = 0 /\ Seconds(Zero) = 0 /\ \A s \in Status : Zero[s] = 0
    BY <1>1, <1>4, RunsZero DEF LastCounts, Zero
  <2> QED BY <1>2, <1>3, <1>4, <2>1
<1>5. CASE n # 0
  <2>1. n \in 1 .. n /\ LastCounts = samples[n].counts
    BY <1>1, <1>5 DEF LastCounts
  <2>2. AllRuns[n] = Runs(LastCounts) /\ AllSeconds[n] = Seconds(LastCounts)
        /\ \A s \in Status : ByStatus(s)[n] = LastCounts[s]
    BY <1>1, <2>1 DEF AllRuns, AllSeconds, ByStatus
  <2> QED BY <1>2, <1>3, <1>5, <2>2
<1> QED BY <1>4, <1>5

\* A sample takes its place at the end of each answer.
LEMMA AnswersNext ==
  ASSUME CountAssumption, CountTypeOK, NEW x \in 1 .. MaxPlaces, counter # Zero,
         samples' = Append(samples, [at |-> x, counts |-> counter])
  PROVE  /\ samples' \in Seq([at : 1 .. MaxPlaces, counts : Counts \ {Zero}])
         /\ samples' # << >> /\ DOMAIN samples' = 1 .. Len(samples) + 1
         /\ samples'[Len(samples) + 1] = [at |-> x, counts |-> counter]
         /\ \A i \in 1 .. Len(samples) : samples'[i] = samples[i]
         /\ AllRuns' = Append(AllRuns, Runs(counter))
         /\ AllSeconds' = Append(AllSeconds, Seconds(counter))
         /\ \A s \in Status : ByStatus(s)' = Append(ByStatus(s), counter[s])
<1> DEFINE Sample == [at : 1 .. MaxPlaces, counts : Counts \ {Zero}]
           n == Len(samples)
<1>1. counter \in Counts /\ [at |-> x, counts |-> counter] \in Sample /\ samples \in Seq(Sample)
  BY DEF CountTypeOK
<1>2. n \in Nat /\ DOMAIN samples = 1 .. n
  BY SamplesAre
<1> HIDE DEF Sample
<1>3. /\ samples' \in Seq(Sample) /\ samples' # << >> /\ Len(samples') = n + 1
      /\ samples'[n + 1] = [at |-> x, counts |-> counter]
      /\ \A i \in 1 .. n : samples'[i] = samples[i]
  BY <1>1, AppendProperties
<1>4. DOMAIN samples' = 1 .. n + 1
  BY <1>3, LenProperties
<1>5. Runs(counter) \in Nat /\ Seconds(counter) \in Nat /\ \A s \in Status : counter[s] \in Nat
  BY <1>1, RunsAre DEF Counts
<1>6. samples'[n + 1].counts = counter /\ n + 1 \in 1 .. n + 1
  BY <1>2, <1>3
<1>7. \A i \in 1 .. n + 1 : i \in 1 .. n \/ i = n + 1
  BY <1>2
<1>8. \A i \in 1 .. n : i \in 1 .. n + 1
  BY <1>2
<1> HIDE DEF n
<1>9. AllRuns' = Append(AllRuns, Runs(counter))
  <2>1. AllRuns \in [1 .. n -> Nat]
    BY AnswersAre DEF n
  <2>2. AllRuns' = [i \in 1 .. n + 1 |-> Runs(samples'[i].counts)]
    BY <1>4 DEF AllRuns
  <2>3. \A i \in 1 .. n : AllRuns[i] = Runs(samples[i].counts)
    BY <1>2 DEF AllRuns
  <2>4. \A i \in 1 .. n : AllRuns'[i] = AllRuns[i]
    BY <1>3, <1>8, <2>2, <2>3
  <2>5. AllRuns'[n + 1] = Runs(counter)
    BY <1>6, <2>2
  <2>6. \A i \in 1 .. n + 1 : AllRuns'[i] \in Nat
    BY <1>5, <1>7, <2>1, <2>4, <2>5
  <2>7. AllRuns' \in [1 .. n + 1 -> Nat]
    BY <2>2, <2>6
  <2> QED BY <1>2, <2>1, <2>4, <2>5, <2>7, AppendIs
<1>10. AllSeconds' = Append(AllSeconds, Seconds(counter))
  <2>1. AllSeconds \in [1 .. n -> Nat]
    BY AnswersAre DEF n
  <2>2. AllSeconds' = [i \in 1 .. n + 1 |-> Seconds(samples'[i].counts)]
    BY <1>4 DEF AllSeconds
  <2>3. \A i \in 1 .. n : AllSeconds[i] = Seconds(samples[i].counts)
    BY <1>2 DEF AllSeconds
  <2>4. \A i \in 1 .. n : AllSeconds'[i] = AllSeconds[i]
    BY <1>3, <1>8, <2>2, <2>3
  <2>5. AllSeconds'[n + 1] = Seconds(counter)
    BY <1>6, <2>2
  <2>6. \A i \in 1 .. n + 1 : AllSeconds'[i] \in Nat
    BY <1>5, <1>7, <2>1, <2>4, <2>5
  <2>7. AllSeconds' \in [1 .. n + 1 -> Nat]
    BY <2>2, <2>6
  <2> QED BY <1>2, <2>1, <2>4, <2>5, <2>7, AppendIs
<1>11. ASSUME NEW s \in Status PROVE ByStatus(s)' = Append(ByStatus(s), counter[s])
  <2> DEFINE w == [i \in DOMAIN samples' |-> samples'[i].counts[s]]
  <2>1. ByStatus(s) \in [1 .. n -> Nat] /\ ByStatus(s)' = w
    BY AnswersAre DEF n, ByStatus
  <2>2. \A i \in 1 .. n : ByStatus(s)[i] = samples[i].counts[s]
    BY <1>2 DEF ByStatus
  <2>3. w = [i \in 1 .. n + 1 |-> samples'[i].counts[s]]
    BY <1>4
  <2> HIDE DEF w
  <2>4. \A i \in 1 .. n : w[i] = ByStatus(s)[i]
    BY <1>3, <1>8, <2>2, <2>3
  <2>5. w[n + 1] = counter[s]
    BY <1>6, <2>3
  <2>6. \A i \in 1 .. n + 1 : w[i] \in Nat
    BY <1>5, <1>7, <2>1, <2>4, <2>5
  <2>7. w \in [1 .. n + 1 -> Nat]
    BY <2>3, <2>6
  <2> QED BY <1>2, <2>1, <2>4, <2>5, <2>7, AppendIs
<1> QED BY <1>3, <1>4, <1>9, <1>10, <1>11 DEF n, Sample

\* What a sample adds to a series is what the runs since the last one add to its total, where the
\* series shows a restart, and never more.
LEMMA GainIs ==
  ASSUME NEW v, LastOf(v) \in Nat, NEW x \in Nat, NEW added \in Nat,
         IF restarted THEN added = x ELSE LastOf(v) + added = x
  PROVE  /\ Gain(v, x) <= added
         /\ ~Hides(x, LastOf(v)) => Gain(v, x) = added
<1>1. CASE restarted
  BY <1>1 DEF Gain, Hides
<1>2. CASE ~restarted
  BY <1>2 DEF Gain, Hides
<1> QED BY <1>1, <1>2

-----------------------------------------------------------------------------
(***************************************************************************)
(* Every step preserves it.                                                *)
(***************************************************************************)

\* What has run since the last sample, but for what a restart took before it.
Added == IF restarted THEN counter ELSE Minus(counter, LastCounts)

LEMMA AddedIs ==
  ASSUME CountAssumption, CountTypeOK, ~restarted => Below(LastCounts, counter)
  PROVE  /\ Added \in Counts
         /\ IF restarted THEN Runs(Added) = Runs(counter)
            ELSE Runs(LastCounts) + Runs(Added) = Runs(counter)
         /\ IF restarted THEN Seconds(Added) = Seconds(counter)
            ELSE Seconds(LastCounts) + Seconds(Added) = Seconds(counter)
         /\ \A s \in Status : IF restarted THEN Added[s] = counter[s]
                              ELSE LastCounts[s] + Added[s] = counter[s]
         /\ Plus(recorded, Added) \in Counts
         /\ [s \in Status |->
               recorded[s] + counter[s] - IF restarted THEN 0 ELSE LastCounts[s]]
              = Plus(recorded, Added)
<1>1. counter \in Counts /\ recorded \in Counts /\ LastCounts \in Counts
  BY LastIs DEF CountTypeOK
<1>2. \A s \in Status : counter[s] \in Nat /\ recorded[s] \in Nat /\ LastCounts[s] \in Nat
  BY <1>1 DEF Counts
<1>3. CASE restarted
  <2>1. Added = counter
    BY <1>3 DEF Added
  <2>2. \A s \in Status : recorded[s] + counter[s] - 0 = recorded[s] + Added[s]
    BY <1>2, <2>1
  <2> QED BY <1>1, <1>3, <2>1, <2>2, RunsPlus DEF Plus
<1>4. CASE ~restarted
  <2>1. Added = Minus(counter, LastCounts) /\ Below(LastCounts, counter)
    BY <1>4 DEF Added
  <2>2. /\ Added \in Counts
        /\ Runs(LastCounts) + Runs(Added) = Runs(counter)
        /\ Seconds(LastCounts) + Seconds(Added) = Seconds(counter)
    BY <1>1, <2>1, RunsMinus
  <2>3. \A s \in Status : Added[s] = counter[s] - LastCounts[s]
    BY <2>1 DEF Minus
  <2>4. \A s \in Status : LastCounts[s] + Added[s] = counter[s]
                          /\ recorded[s] + counter[s] - LastCounts[s] = recorded[s] + Added[s]
    BY <1>2, <2>3
  <2> QED BY <1>1, <1>4, <2>2, <2>4, RunsPlus DEF Plus
<1> QED BY <1>3, <1>4

LEMMA CountTypeNext ==
  ASSUME CountAssumption, CountTypeOK, ~restarted => Below(LastCounts, counter),
         [CountNext]_countVars
  PROVE  CountTypeOK'
<1>1. ASSUME NEW s \in Status, RunEnds(s) PROVE CountTypeOK'
  <2>1. [counter EXCEPT ![s] = @ + 1] \in Counts
    BY DEF CountTypeOK, Counts
  <2> QED BY <1>1, <2>1 DEF RunEnds, CountTypeOK
<1>2. CASE Restart
  <2>1. restarts - 1 \in 0 .. MaxRestarts
    BY <1>2 DEF Restart, CountTypeOK, CountAssumption
  <2> QED BY <1>2, <2>1, RunsZero DEF Restart, CountTypeOK
<1>3. CASE Scrape
  <2>1. passed' \in 0 .. MaxPlaces /\ passed' \in 1 .. MaxPlaces
    BY <1>3 DEF Scrape, CountTypeOK, CountAssumption
  <2>2. CASE counter = Zero
    BY <1>3, <2>1, <2>2 DEF Scrape, CountTypeOK
  <2>3. CASE counter # Zero
    <3>1. samples' = Append(samples, [at |-> passed', counts |-> counter])
      BY <1>3, <2>3 DEF Scrape
    <3>2. samples' \in Seq([at : 1 .. MaxPlaces, counts : Counts \ {Zero}])
      BY <2>1, <2>3, <3>1, AnswersNext
    <3>3. recorded' \in Counts
      BY <1>3, <2>3, AddedIs DEF Scrape
    <3>4. hidden' \subseteq Status \cup {"runs", "seconds"}
      BY <1>3, <2>3 DEF Scrape, CountTypeOK
    <3>5. counter' = counter /\ restarts' = restarts /\ restarted' = FALSE
      BY <1>3, <2>3 DEF Scrape
    <3> QED BY <2>1, <3>2, <3>3, <3>4, <3>5 DEF CountTypeOK
  <2> QED BY <2>2, <2>3
<1>4. CASE UNCHANGED countVars
  BY <1>4 DEF countVars, CountTypeOK
<1> QED BY <1>1, <1>2, <1>3, <1>4 DEF CountNext

\* Nothing is recorded by a step that takes no sample.
LEMMA Unsampled ==
  ASSUME CountInv, CountTypeOK', UNCHANGED <<samples, recorded, hidden>>, passed <= passed',
         ~restarted' => Below(LastCounts, counter')
  PROVE  CountInv'
<1>1. /\ LastCounts' = LastCounts /\ AllRuns' = AllRuns /\ AllSeconds' = AllSeconds
      /\ \A s \in Status : Told(s)' = Told(s)
      /\ \A i \in DOMAIN samples : Grows(i)' <=> Grows(i)
  BY DEF LastCounts, AllRuns, AllSeconds, Told, ByStatus, Grows
<1>2. /\ \A i \in DOMAIN samples : samples[1].at <= samples[i].at /\ samples[i].at <= passed
      /\ IF samples = << >> THEN recorded = Zero ELSE Below(samples[1].counts, recorded)
      /\ "runs" \notin hidden => Shows(AllRuns, Runs(recorded))
      /\ "seconds" \notin hidden => Shows(AllSeconds, Seconds(recorded))
      /\ \A s \in Status : Told(s) <= recorded[s] /\ (s \notin hidden => Told(s) = recorded[s])
      /\ \A i \in DOMAIN samples : i > 1 => Grows(i)
  BY DEF CountInv
<1>3. \A i \in DOMAIN samples : samples[i].at <= passed'
  <2>1. passed \in Nat /\ passed' \in Nat
    BY DEF CountInv, CountTypeOK
  <2>2. \A i \in DOMAIN samples : samples[i].at \in Nat
    BY SamplesAre DEF CountInv
  <2> QED BY <1>2, <2>1, <2>2
<1> QED BY <1>1, <1>2, <1>3 DEF CountInv

\* A sample.
LEMMA Sampled ==
  ASSUME CountAssumption, CountInv, CountTypeOK', Scrape, counter # Zero
  PROVE  CountInv'
<1> DEFINE n == Len(samples)
<1>1. /\ CountTypeOK /\ (~restarted => Below(LastCounts, counter))
      /\ \A i \in DOMAIN samples : samples[1].at <= samples[i].at /\ samples[i].at <= passed
      /\ IF samples = << >> THEN recorded = Zero ELSE Below(samples[1].counts, recorded)
      /\ "runs" \notin hidden => Shows(AllRuns, Runs(recorded))
      /\ "seconds" \notin hidden => Shows(AllSeconds, Seconds(recorded))
      /\ \A s \in Status : Told(s) <= recorded[s] /\ (s \notin hidden => Told(s) = recorded[s])
      /\ \A i \in DOMAIN samples : i > 1 => Grows(i)
  BY DEF CountInv
<1>2. /\ passed' = passed + 1 /\ counter' = counter /\ restarted' = FALSE
      /\ samples' = Append(samples, [at |-> passed', counts |-> counter])
      /\ recorded' = Plus(recorded, Added)
  BY <1>1, AddedIs DEF Scrape
<1>3. /\ hidden \subseteq hidden'
      /\ \A s \in Status : Hides(counter[s], LastCounts[s]) => s \in hidden'
      /\ Hides(Runs(counter), Runs(LastCounts)) => "runs" \in hidden'
      /\ Hides(Seconds(counter), Seconds(LastCounts)) => "seconds" \in hidden'
  BY DEF Scrape
<1>4. /\ Added \in Counts
      /\ IF restarted THEN Runs(Added) = Runs(counter)
         ELSE Runs(LastCounts) + Runs(Added) = Runs(counter)
      /\ IF restarted THEN Seconds(Added) = Seconds(counter)
         ELSE Seconds(LastCounts) + Seconds(Added) = Seconds(counter)
      /\ \A s \in Status : IF restarted THEN Added[s] = counter[s]
                           ELSE LastCounts[s] + Added[s] = counter[s]
  BY <1>1, AddedIs
<1>5. /\ counter \in Counts /\ recorded \in Counts /\ LastCounts \in Counts /\ recorded' \in Counts
      /\ passed \in Nat /\ passed' \in 1 .. MaxPlaces /\ passed' \in Nat
  BY <1>1, <1>2, LastIs DEF CountTypeOK, CountAssumption
<1>6. /\ samples' # << >> /\ DOMAIN samples' = 1 .. n + 1
      /\ samples'[n + 1] = [at |-> passed', counts |-> counter]
      /\ \A i \in 1 .. n : samples'[i] = samples[i]
      /\ AllRuns' = Append(AllRuns, Runs(counter))
      /\ AllSeconds' = Append(AllSeconds, Seconds(counter))
      /\ \A s \in Status : ByStatus(s)' = Append(ByStatus(s), counter[s])
  BY <1>1, <1>2, <1>5, AnswersNext
<1>7. /\ n \in Nat /\ DOMAIN samples = 1 .. n /\ (samples = << >> <=> n = 0)
      /\ \A i \in 1 .. n : samples[i].counts \in Counts /\ samples[i].at \in Nat
  BY <1>1, SamplesAre DEF CountAssumption
<1>8. /\ AllRuns \in Seq(Nat) /\ LastOf(AllRuns) = Runs(LastCounts)
      /\ AllSeconds \in Seq(Nat) /\ LastOf(AllSeconds) = Seconds(LastCounts)
      /\ \A s \in Status : ByStatus(s) \in Seq(Nat) /\ LastOf(ByStatus(s)) = LastCounts[s]
  BY <1>1, AnswersEnd
<1>9. /\ \A d \in Counts : Runs(d) \in Nat /\ Seconds(d) \in Nat /\ \A s \in Status : d[s] \in Nat
      /\ Runs(recorded') = Runs(recorded) + Runs(Added)
      /\ Seconds(recorded') = Seconds(recorded) + Seconds(Added)
      /\ \A s \in Status : recorded'[s] = recorded[s] + Added[s]
  <2>1. \A d \in Counts : Runs(d) \in Nat /\ Seconds(d) \in Nat /\ \A s \in Status : d[s] \in Nat
    BY RunsAre DEF Counts
  <2>2. /\ Runs(recorded') = Runs(recorded) + Runs(Added)
        /\ Seconds(recorded') = Seconds(recorded) + Seconds(Added)
    BY <1>2, <1>4, <1>5, RunsPlus
  <2>3. \A s \in Status : recorded'[s] = recorded[s] + Added[s]
    BY <1>2 DEF Plus
  <2> QED BY <2>1, <2>2, <2>3
<1> HIDE DEF n
<1>10. ASSUME NEW v \in Seq(Nat), NEW total \in Nat, NEW added \in Nat, NEW x \in Nat,
              Shows(v, total), Gain(v, x) = added
       PROVE  Shows(Append(v, x), total + added)
  BY <1>10, ReachedAppend, GainsAppend DEF Shows
<1>11. ~restarted' => Below(LastCounts', counter')
  <2>1. Len(samples') = n + 1
    <3>1. samples' \in Seq([at : 1 .. MaxPlaces, counts : Counts \ {Zero}])
      BY DEF CountTypeOK
    <3>2. Len(samples') \in Nat /\ DOMAIN samples' = 1 .. Len(samples')
      BY <3>1, LenProperties
    <3> QED BY <1>6, <1>7, <3>2
  <2>2. LastCounts' = counter
    BY <1>6, <2>1 DEF LastCounts
  <2> QED BY <1>2, <1>5, <2>2 DEF Below, Counts
<1>12. ASSUME NEW i \in DOMAIN samples'
       PROVE  samples'[1].at <= samples'[i].at /\ samples'[i].at <= passed'
  <2>1. i \in 1 .. n \/ i = n + 1
    BY <1>6, <1>7
  <2>2. CASE i \in 1 .. n
    <3>1. samples'[i] = samples[i] /\ samples'[1] = samples[1] /\ 1 \in 1 .. n
      BY <1>6, <1>7, <2>2
    <3>2. samples[1].at <= samples[i].at /\ samples[i].at <= passed
      BY <1>1, <1>7, <2>2
    <3>3. samples[i].at \in Nat
      BY <1>7, <2>2
    <3>4. samples[i].at <= passed'
      BY <1>2, <1>5, <3>2, <3>3
    <3> QED BY <3>1, <3>2, <3>4
  <2>3. CASE i = n + 1
    <3>1. samples'[i].at = passed'
      BY <1>6, <2>3
    <3>2. CASE n = 0
      BY <1>5, <2>3, <3>1, <3>2
    <3>3. CASE n # 0
      <4>1. 1 \in 1 .. n
        BY <1>7, <3>3
      <4>2. samples'[1] = samples[1] /\ samples[1].at \in Nat /\ samples[1].at <= passed
        BY <1>1, <1>6, <1>7, <4>1
      <4>3. samples[1].at <= passed'
        BY <1>2, <1>5, <4>2
      <4> QED BY <1>5, <3>1, <4>2, <4>3
    <3> QED BY <3>2, <3>3
  <2> QED BY <2>1, <2>2, <2>3
<1>13. Below(samples'[1].counts, recorded')
  <2>1. CASE n = 0
    <3>1. samples'[1].counts = counter
      BY <1>6, <2>1
    <3>2. LastCounts = Zero /\ recorded = Zero
      BY <1>1, <1>7, <2>1, LastIs
    <3>3. \A s \in Status : LastCounts[s] = 0
      BY <3>2 DEF Zero
    <3>4. \A s \in Status : Added[s] = counter[s]
      BY <1>4, <1>9, <3>3
    <3>5. \A s \in Status : counter[s] <= recorded'[s]
      BY <1>5, <1>9, <3>4
    <3> QED BY <3>1, <3>5 DEF Below
  <2>2. CASE n # 0
    <3>1. samples'[1] = samples[1] /\ samples[1].counts \in Counts
      BY <1>6, <1>7, <2>2
    <3>2. \A s \in Status : samples[1].counts[s] <= recorded[s]
      BY <1>1, <1>7, <2>2 DEF Below
    <3>3. \A s \in Status : samples[1].counts[s] \in Nat /\ recorded[s] \in Nat /\ Added[s] \in Nat
      BY <1>4, <1>5, <1>9, <3>1
    <3>4. \A s \in Status : samples[1].counts[s] <= recorded'[s]
      BY <1>9, <3>2, <3>3
    <3> QED BY <3>1, <3>4 DEF Below
  <2> QED BY <2>1, <2>2
<1>14. "runs" \notin hidden' => Shows(AllRuns', Runs(recorded'))
  <2> SUFFICES ASSUME "runs" \notin hidden' PROVE Shows(AllRuns', Runs(recorded'))
    OBVIOUS
  <2>1. Shows(AllRuns, Runs(recorded)) /\ ~Hides(Runs(counter), Runs(LastCounts))
    BY <1>1, <1>3
  <2>2. /\ Runs(recorded) \in Nat /\ Runs(Added) \in Nat /\ Runs(counter) \in Nat
        /\ LastOf(AllRuns) \in Nat
    BY <1>4, <1>5, <1>8, <1>9
  <2>3. Gain(AllRuns, Runs(counter)) = Runs(Added)
    BY <1>4, <1>8, <2>1, <2>2, GainIs
  <2> QED BY <1>6, <1>8, <1>9, <1>10, <2>1, <2>2, <2>3
<1>15. "seconds" \notin hidden' => Shows(AllSeconds', Seconds(recorded'))
  <2> SUFFICES ASSUME "seconds" \notin hidden' PROVE Shows(AllSeconds', Seconds(recorded'))
    OBVIOUS
  <2>1. Shows(AllSeconds, Seconds(recorded)) /\ ~Hides(Seconds(counter), Seconds(LastCounts))
    BY <1>1, <1>3
  <2>2. /\ Seconds(recorded) \in Nat /\ Seconds(Added) \in Nat /\ Seconds(counter) \in Nat
        /\ LastOf(AllSeconds) \in Nat
    BY <1>4, <1>5, <1>8, <1>9
  <2>3. Gain(AllSeconds, Seconds(counter)) = Seconds(Added)
    BY <1>4, <1>8, <2>1, <2>2, GainIs
  <2> QED BY <1>6, <1>8, <1>9, <1>10, <2>1, <2>2, <2>3
<1>16. ASSUME NEW s \in Status
       PROVE  Told(s)' <= recorded'[s] /\ (s \notin hidden' => Told(s)' = recorded'[s])
  <2> DEFINE v == ByStatus(s)
  <2>1. /\ v \in Seq(Nat) /\ LastOf(v) = LastCounts[s] /\ LastOf(v) \in Nat
        /\ counter[s] \in Nat /\ Added[s] \in Nat /\ recorded[s] \in Nat
    BY <1>4, <1>5, <1>8, <1>9
  <2>2. Told(s)' = SumOf(Gains(Append(v, counter[s])))
    BY <1>6 DEF Told
  <2>3. Told(s) = SumOf(Gains(v))
    BY DEF Told
  <2>4. /\ Told(s) <= recorded[s] /\ (s \notin hidden' => Told(s) = recorded[s])
        /\ (s \notin hidden' => ~Hides(counter[s], LastCounts[s]))
    BY <1>1, <1>3
  <2>5. IF restarted THEN Added[s] = counter[s] ELSE LastOf(v) + Added[s] = counter[s]
    BY <1>4, <2>1
  <2> HIDE DEF v
  <2>6. /\ SumOf(Gains(v)) \in Nat
        /\ SumOf(Gains(Append(v, counter[s]))) = SumOf(Gains(v)) + Gain(v, counter[s])
    BY <2>1, GainsAppend
  <2>7. /\ Gain(v, counter[s]) <= Added[s]
        /\ (s \notin hidden' => Gain(v, counter[s]) = Added[s])
    BY <2>1, <2>4, <2>5, GainIs
  <2>8. Gain(v, counter[s]) \in Int
    BY <2>1 DEF Gain
  <2>9. recorded'[s] = recorded[s] + Added[s]
    BY <1>9
  <2> HIDE DEF Told
  <2>10. Told(s)' = Told(s) + Gain(v, counter[s]) /\ Told(s) \in Nat
    BY <2>2, <2>3, <2>6
  <2> QED BY <2>1, <2>4, <2>7, <2>8, <2>9, <2>10
<1>17. ASSUME NEW i \in DOMAIN samples', i > 1 PROVE Grows(i)'
  <2>1. i \in 1 .. n \/ i = n + 1
    BY <1>6, <1>7
  <2>2. /\ \A j \in 1 .. n : AllRuns'[j] = AllRuns[j] /\ AllSeconds'[j] = AllSeconds[j]
        /\ AllRuns'[n + 1] = Runs(counter) /\ AllSeconds'[n + 1] = Seconds(counter)
    <3>1. Runs(counter) \in Nat /\ Seconds(counter) \in Nat
      BY <1>5, <1>9
    <3>2. Len(AllRuns) = n /\ Len(AllSeconds) = n
      BY <1>1, <1>7, AnswersAre, IsSeries DEF n
    <3>3. ASSUME NEW v \in Seq(Nat), NEW x \in Nat, Len(v) = n
          PROVE  Append(v, x)[n + 1] = x /\ \A j \in 1 .. n : Append(v, x)[j] = v[j]
      BY <3>3, SeriesAppend
    <3>4. /\ AllRuns'[n + 1] = Runs(counter) /\ \A j \in 1 .. n : AllRuns'[j] = AllRuns[j]
      BY <1>6, <1>8, <3>1, <3>2, <3>3
    <3>5. AllSeconds'[n + 1] = Seconds(counter) /\ \A j \in 1 .. n : AllSeconds'[j] = AllSeconds[j]
      BY <1>6, <1>8, <3>1, <3>2, <3>3
    <3> QED BY <3>4, <3>5
  <2>3. CASE i \in 1 .. n
    <3>1. i - 1 \in 1 .. n /\ Grows(i)
      BY <1>1, <1>7, <1>17, <2>3
    <3>2. samples'[i] = samples[i] /\ samples'[i - 1] = samples[i - 1]
      BY <1>6, <2>3, <3>1
    <3>3. /\ AllRuns'[i] = AllRuns[i] /\ AllRuns'[i - 1] = AllRuns[i - 1]
          /\ AllSeconds'[i] = AllSeconds[i] /\ AllSeconds'[i - 1] = AllSeconds[i - 1]
      BY <2>2, <2>3, <3>1
    <3> QED BY <1>3, <3>1, <3>2, <3>3 DEF Grows
  <2>4. CASE i = n + 1
    <3>1. n \in 1 .. n /\ i - 1 = n /\ samples # << >>
      BY <1>7, <1>17, <2>4
    <3>2. LastCounts = samples[n].counts /\ samples'[n] = samples[n] /\ samples'[i].counts = counter
      BY <1>6, <2>4, <3>1 DEF LastCounts, n
    <3>3. AllRuns'[i - 1] = Runs(LastCounts) /\ AllSeconds'[i - 1] = Seconds(LastCounts)
      BY <1>7, <2>2, <3>1, <3>2 DEF AllRuns, AllSeconds
    <3>4. CASE ~restarted
      BY <1>1, <3>1, <3>2, <3>4 DEF Grows
    <3>5. CASE restarted
      <4>1. Runs(LastCounts) > 0 /\ Seconds(LastCounts) > 0
        BY <1>1, <3>1, LastIs, RunsAre
      <4>2. \/ Runs(counter) < Runs(LastCounts) \/ Seconds(counter) < Seconds(LastCounts)
            \/ {"runs", "seconds"} \subseteq hidden'
        <5>1. Runs(counter) \in Nat /\ Runs(LastCounts) \in Nat /\ Seconds(counter) \in Nat
              /\ Seconds(LastCounts) \in Nat
          BY <1>5, <1>9
        <5> QED BY <1>3, <3>5, <4>1, <5>1 DEF Hides
      <4> QED BY <2>2, <2>4, <3>3, <4>2 DEF Grows
    <3> QED BY <3>4, <3>5
  <2> QED BY <2>1, <2>3, <2>4
<1> QED BY <1>6, <1>11, <1>12, <1>13, <1>14, <1>15, <1>16, <1>17 DEF CountInv

LEMMA CountNextInv ==
  ASSUME CountAssumption, CountInv, [CountNext]_countVars
  PROVE  CountInv'
<1>1. CountTypeOK /\ (~restarted => Below(LastCounts, counter)) /\ counter \in Counts
  BY DEF CountInv, CountTypeOK
<1>2. CountTypeOK'
  BY <1>1, CountTypeNext
<1>3. passed \in Nat /\ passed' \in Nat
  BY <1>1, <1>2 DEF CountTypeOK
<1>4. ASSUME NEW s \in Status, RunEnds(s) PROVE CountInv'
  <2>1. Below(LastCounts, counter) => Below(LastCounts, counter')
    <3>1. counter' = [counter EXCEPT ![s] = @ + 1]
      BY <1>4 DEF RunEnds
    <3>2. LastCounts \in Counts
      BY <1>1, LastIs
    <3>3. \A q \in Status : counter[q] \in Nat /\ LastCounts[q] \in Nat
      BY <1>1, <3>2 DEF Counts
    <3>4. \A q \in Status : counter'[q] = counter[q] \/ counter'[q] = counter[q] + 1
      BY <1>1, <3>1 DEF Counts
    <3>5. \A q \in Status : LastCounts[q] <= counter[q] => LastCounts[q] <= counter'[q]
      BY <3>3, <3>4
    <3> QED BY <3>5 DEF Below
  <2>2. /\ UNCHANGED <<samples, recorded, hidden>> /\ passed <= passed'
        /\ restarted' = restarted
    BY <1>3, <1>4 DEF RunEnds
  <2> QED BY <1>1, <1>2, <2>1, <2>2, Unsampled
<1>5. CASE Restart
  BY <1>2, <1>3, <1>5, Unsampled DEF Restart
<1>6. CASE Scrape
  <2>1. CASE counter = Zero
    <3>1. /\ UNCHANGED <<samples, recorded, hidden>> /\ passed <= passed'
          /\ restarted' = restarted /\ counter' = counter
      BY <1>3, <1>6, <2>1 DEF Scrape
    <3> QED BY <1>1, <1>2, <3>1, Unsampled
  <2> QED BY <1>2, <1>6, <2>1, Sampled
<1>7. CASE UNCHANGED countVars
  <2>1. /\ UNCHANGED <<samples, recorded, hidden>> /\ passed <= passed'
        /\ restarted' = restarted /\ counter' = counter
    BY <1>3, <1>7 DEF countVars
  <2> QED BY <1>1, <1>2, <2>1, Unsampled
<1> QED BY <1>4, <1>5, <1>6, <1>7 DEF CountNext

-----------------------------------------------------------------------------
(***************************************************************************)
(* What the invariant says of the numbers.                                 *)
(***************************************************************************)

\* The bars of all runs are what the samples add.
LEMMA BarsAre ==
  ASSUME CountAssumption, CountTypeOK
  PROVE  MetricsToSummary = Gains(AllRuns)
<1> DEFINE n == Len(samples)  v == AllRuns
<1>1. n \in Nat /\ DOMAIN samples = 1 .. n /\ v \in [1 .. n -> Nat] /\ Len(v) = n
  BY SamplesAre, AnswersAre, IsSeries
<1> HIDE DEF v
<1>2. MetricsToSummary = [i \in 1 .. n |->
         IF v[i] < (IF i > 1 THEN v[i - 1] ELSE 0) THEN v[i]
         ELSE v[i] - (IF i > 1 THEN v[i - 1] ELSE 0)]
  BY <1>1, Zenon DEF MetricsToSummary, v
<1>3. Gains(v) = [i \in 1 .. n |->
         IF i = 1 THEN v[1] ELSE IF v[i] < v[i - 1] THEN v[i] ELSE v[i] - v[i - 1]]
  BY <1>1, Zenon DEF Gains
<1> HIDE DEF n
<1>4. ASSUME NEW i \in 1 .. n PROVE MetricsToSummary[i] = Gains(v)[i]
  <2>1. v[i] \in Nat
    BY <1>1
  <2>2. CASE i = 1
    BY <1>2, <1>3, <2>1, <2>2
  <2>3. CASE i # 1
    <3>1. i > 1
      BY <1>1, <2>3
    <3> QED BY <1>2, <1>3, <2>3, <3>1
  <2> QED BY <2>2, <2>3
<1> QED BY <1>2, <1>3, <1>4 DEF v

\* A sum of which only the first is not zero.
LEMMA SumFirst ==
  ASSUME NEW K \in Nat, K > 0, NEW v \in [1 .. K -> Int], \A k \in 1 .. K : k > 1 => v[k] = 0
  PROVE  SumOf(v) = v[1]
<1>1. PICK x \in [0 .. K -> Int] :
         /\ x[0] = 0 /\ SumOf(v) = x[K]
         /\ \A n \in Nat : n < K => x[n + 1] = x[n] + v[n + 1]
  BY SumIs
<1> DEFINE S == {n \in Nat : n < K => x[n + 1] = v[1]}
<1>2. 0 \in S
  <2>1. x[0 + 1] = x[0] + v[0 + 1] /\ v[1] \in Int
    BY <1>1
  <2> QED BY <1>1, <2>1
<1>3. ASSUME NEW n \in Nat, n \in S PROVE n + 1 \in S
  <2> SUFFICES ASSUME n + 1 < K PROVE x[(n + 1) + 1] = v[1]
    OBVIOUS
  <2>1. x[(n + 1) + 1] = x[n + 1] + v[(n + 1) + 1]
    BY <1>1
  <2>2. v[(n + 1) + 1] = 0 /\ v[1] \in Int
    OBVIOUS
  <2>3. x[n + 1] = v[1]
    BY <1>3
  <2> QED BY <2>1, <2>2, <2>3
<1> HIDE DEF S
<1>4. Nat \subseteq S
  BY <1>2, <1>3, Ascending
<1>5. K - 1 \in Nat /\ K - 1 < K /\ (K - 1) + 1 = K
  OBVIOUS
<1>6. x[K] = v[1]
  BY <1>4, <1>5 DEF S
<1> QED BY <1>1, <1>6

Matches(tick) == \E j \in DOMAIN samples : samples[j].at = tick

LEMMA IncrementsAre ==
  ASSUME CountAssumption, CountTypeOK, NEW s \in Status, NEW tick
  PROVE  /\ GetIncrementedValues(s, tick) \in [1 .. Len(samples) -> Int]
         /\ \A i \in 1 .. Len(samples) :
              GetIncrementedValues(s, tick)[i]
                = IF i = 1 /\ Matches(tick) THEN 0 ELSE Gains(ByStatus(s))[i]
<1> DEFINE n == Len(samples)  v == ByStatus(s)  w == GetIncrementedValues(s, tick)
<1>1. n \in Nat /\ DOMAIN samples = 1 .. n /\ v \in [1 .. n -> Nat] /\ Len(v) = n
  BY SamplesAre, AnswersAre, IsSeries
<1> HIDE DEF v
<1>2. w = [i \in 1 .. n |->
         IF i = 1 THEN IF Matches(tick) THEN 0 ELSE v[1]
         ELSE IF v[i] >= v[i - 1] THEN v[i] - v[i - 1] ELSE v[i]]
  BY <1>1, Zenon DEF GetIncrementedValues, v, Matches
<1>3. Gains(v) = [i \in 1 .. n |->
         IF i = 1 THEN v[1] ELSE IF v[i] < v[i - 1] THEN v[i] ELSE v[i] - v[i - 1]]
  BY <1>1, Zenon DEF Gains
<1> HIDE DEF n, w
<1>4. ASSUME NEW i \in 1 .. n
      PROVE  /\ w[i] = IF i = 1 /\ Matches(tick) THEN 0 ELSE Gains(v)[i]
             /\ w[i] \in Int
  <2>1. v[i] \in Nat
    BY <1>1
  <2>2. CASE i = 1
    BY <1>2, <1>3, <2>1, <2>2
  <2>3. CASE i # 1
    <3>1. i - 1 \in 1 .. n
      BY <1>1, <2>3
    <3>2. v[i - 1] \in Nat
      BY <1>1, <3>1
    <3> QED BY <1>2, <1>3, <2>1, <2>3, <3>2
  <2> QED BY <2>2, <2>3
<1>5. w \in [1 .. n -> Int]
  BY <1>2, <1>4
<1> QED BY <1>4, <1>5 DEF n, v, w

\* The statuses of the donut, and the first sample's.
LEMMA StatusIs ==
  ASSUME CountAssumption, CountTypeOK, samples # << >>, NEW s \in Status, NEW tick
  PROVE  GetStatusSummary(s, tick)
           = IF Matches(tick) THEN Told(s) - samples[1].counts[s] ELSE Told(s)
<1> DEFINE n == Len(samples)  g == Gains(ByStatus(s))  w == GetIncrementedValues(s, tick)
           e == [i \in 1 .. n |-> IF i = 1 /\ Matches(tick) THEN g[1] ELSE 0]
<1>1. n \in Nat /\ n > 0 /\ DOMAIN samples = 1 .. n /\ 1 \in 1 .. n
  BY SamplesAre
<1>2. ByStatus(s) \in [1 .. n -> Nat] /\ ByStatus(s) \in Seq(Nat) /\ Len(ByStatus(s)) = n
  BY <1>1, AnswersAre, IsSeries
<1>3. g \in [1 .. n -> Int]
  BY <1>2, GainsType
<1>4. /\ w \in [1 .. n -> Int]
      /\ \A i \in 1 .. n : w[i] = IF i = 1 /\ Matches(tick) THEN 0 ELSE g[i]
  BY IncrementsAre
<1>5. g[1] = samples[1].counts[s] /\ g[1] \in Int
  <2>1. g[1] = ByStatus(s)[1]
    BY <1>1, <1>2 DEF Gains
  <2> QED BY <1>1, <1>3, <2>1 DEF ByStatus
<1>6. GetStatusSummary(s, tick) = SumOf(w) /\ Told(s) = SumOf(g)
  BY DEF GetStatusSummary, Told
<1> HIDE DEF g, w, n
<1>7. /\ e \in [1 .. n -> Int] /\ e[1] = IF Matches(tick) THEN g[1] ELSE 0
      /\ \A k \in 1 .. n : e[k] = IF k = 1 /\ Matches(tick) THEN g[1] ELSE 0
  BY <1>1, <1>5
<1> HIDE DEF e
<1>8. SumOf(e) = e[1]
  <2>1. \A k \in 1 .. n : k > 1 => e[k] = 0
    BY <1>1, <1>7
  <2> QED BY <1>1, <1>7, <2>1, SumFirst
<1>9. IsPlus(n, w, e, g)
  <2>1. \A k \in 1 .. n : g[k] = w[k] + e[k]
    BY <1>3, <1>4, <1>7
  <2> QED BY <1>1, <1>3, <1>4, <1>7, <2>1 DEF IsPlus
<1>10. SumOf(g) = SumOf(w) + SumOf(e)
  BY <1>9, SumPlus
<1>11. SumOf(w) \in Int
  BY <1>1, <1>4, SumInt
<1> QED BY <1>5, <1>6, <1>7, <1>8, <1>10, <1>11

\* The part of TotalsAccount for a tick.
LEMMA TotalsAre ==
  ASSUME CountAssumption, CountInv, samples # << >>
  PROVE  /\ "runs" \notin hidden =>
              /\ Reached(AllRuns) = Runs(recorded)
              /\ SumOf(MetricsToSummary) = Runs(recorded)
         /\ "seconds" \notin hidden => Reached(AllSeconds) = Seconds(recorded)
         /\ AllRuns[1] = Runs(samples[1].counts) /\ AllSeconds[1] = Seconds(samples[1].counts)
         /\ samples[1].counts \in Counts /\ recorded \in Counts
         /\ Below(samples[1].counts, recorded)
<1>1. CountTypeOK
  BY DEF CountInv
<1>2. 1 \in DOMAIN samples /\ samples[1].counts \in Counts /\ recorded \in Counts
  BY <1>1, SamplesAre DEF CountTypeOK
<1>3. AllRuns[1] = Runs(samples[1].counts) /\ AllSeconds[1] = Seconds(samples[1].counts)
  BY <1>2 DEF AllRuns, AllSeconds
<1>4. MetricsToSummary = Gains(AllRuns)
  BY <1>1, BarsAre
<1> QED BY <1>2, <1>3, <1>4 DEF CountInv, Shows

\* What was counted before the first tick.
Before(tick) == IF IsMatching(tick) THEN samples[1].counts ELSE Zero

\* The totals from a tick on.
LEMMA TotalsFrom ==
  ASSUME CountAssumption, CountInv, samples # << >>, NEW tick
  PROVE  /\ Before(tick) \in Counts /\ Below(Before(tick), recorded)
         /\ "runs" \notin hidden =>
              GetTotalPipelineRuns(tick) = Runs(recorded) - Runs(Before(tick))
         /\ "seconds" \notin hidden =>
              GetTotalPipelineRunsDuration(tick) = Seconds(recorded) - Seconds(Before(tick))
<1>1. CASE IsMatching(tick)
  BY <1>1, TotalsAre DEF Before, GetTotalPipelineRuns, GetTotalPipelineRunsDuration, GetTotal
<1>2. CASE ~IsMatching(tick)
  <2>1. Before(tick) = Zero
    BY <1>2 DEF Before
  <2>2. Below(Zero, recorded)
    BY TotalsAre DEF Below, Zero, Counts
  <2> QED BY <1>2, <2>1, <2>2, RunsZero, TotalsAre
          DEF GetTotalPipelineRuns, GetTotalPipelineRunsDuration, GetTotal
<1> QED BY <1>1, <1>2

LEMMA TotalsOk ==
  ASSUME CountAssumption, CountInv, samples # << >>
  PROVE  TotalsAccount
<1> SUFFICES ASSUME NEW tick \in 0 .. MaxPlaces
             PROVE  /\ "runs" \notin hidden =>
                         /\ GetTotalPipelineRuns(tick) + Runs(Before(tick)) = Runs(recorded)
                         /\ SumOf(MetricsToSummary) = Runs(recorded)
                    /\ "seconds" \notin hidden =>
                         GetTotalPipelineRunsDuration(tick) + Seconds(Before(tick))
                           = Seconds(recorded)
  BY Zenon DEF TotalsAccount, Before
<1>1. /\ Before(tick) \in Counts
      /\ "runs" \notin hidden =>
           GetTotalPipelineRuns(tick) = Runs(recorded) - Runs(Before(tick))
      /\ "seconds" \notin hidden =>
           GetTotalPipelineRunsDuration(tick) = Seconds(recorded) - Seconds(Before(tick))
  BY TotalsFrom
<1>2. /\ Runs(recorded) \in Nat /\ Runs(Before(tick)) \in Nat
      /\ Seconds(recorded) \in Nat /\ Seconds(Before(tick)) \in Nat
  BY <1>1, TotalsAre, RunsAre
<1> QED BY <1>1, <1>2, TotalsAre

LEMMA StatusesOk ==
  ASSUME CountAssumption, CountInv, samples # << >>
  PROVE  StatusesWithinTotal
<1> SUFFICES ASSUME NEW tick \in 0 .. MaxPlaces, "runs" \notin hidden
             PROVE  /\ GetStatusSummary(Success, tick) <= GetTotalPipelineRuns(tick)
                    /\ hidden \subseteq {"seconds"}
                         /\ (tick # 0 => samples = << >> \/ tick <= samples[1].at) =>
                         OverStatus([s \in Status |-> GetStatusSummary(s, tick)])
                           = GetTotalPipelineRuns(tick)
  BY DEF StatusesWithinTotal
<1>1. CountTypeOK
  BY DEF CountInv
<1>2. /\ Before(tick) \in Counts /\ recorded \in Counts /\ Below(Before(tick), recorded)
      /\ GetTotalPipelineRuns(tick) = Runs(recorded) - Runs(Before(tick))
      /\ samples[1].counts \in Counts
  BY TotalsFrom, TotalsAre
<1> DEFINE rest == Minus(recorded, Before(tick))
<1>3. /\ rest \in Counts /\ Runs(Before(tick)) + Runs(rest) = Runs(recorded)
      /\ \A s \in Status : rest[s] = recorded[s] - Before(tick)[s]
  BY <1>2, RunsMinus DEF Minus
<1> HIDE DEF rest
<1>4. /\ Runs(recorded) \in Nat /\ Runs(Before(tick)) \in Nat /\ Runs(rest) \in Nat
      /\ \A s \in Status : rest[s] <= Runs(rest)
  BY <1>2, <1>3, RunsAre
<1>5. GetTotalPipelineRuns(tick) = Runs(rest)
  BY <1>2, <1>3, <1>4
<1>6. \A s \in Status : /\ samples[1].counts[s] \in Nat /\ recorded[s] \in Nat /\ rest[s] \in Nat
                        /\ Before(tick)[s] = IF IsMatching(tick) THEN samples[1].counts[s] ELSE 0
  BY <1>2, <1>3 DEF Counts, Before, Zero
<1>7. \A s \in Status : /\ Told(s) \in Nat /\ Told(s) <= recorded[s]
                        /\ (s \notin hidden => Told(s) = recorded[s])
  <2>1. \A s \in Status : Told(s) \in Nat
    BY <1>1, AnswersEnd, GainsAppend DEF Told
  <2> QED BY <2>1 DEF CountInv
<1>8. \A s \in Status :
        GetStatusSummary(s, tick)
          = IF Matches(tick) THEN Told(s) - samples[1].counts[s] ELSE Told(s)
  BY <1>1, StatusIs
<1>9. IsMatching(tick) => Matches(tick)
  <2>1. 1 \in DOMAIN samples
    BY <1>1, SamplesAre
  <2> QED BY <2>1 DEF IsMatching, Matches
<1>10. ASSUME NEW s \in Status PROVE GetStatusSummary(s, tick) <= rest[s]
  <2> DEFINE first == samples[1].counts[s]
  <2>1. /\ first \in Nat /\ recorded[s] \in Nat /\ Told(s) \in Nat /\ Told(s) <= recorded[s]
        /\ rest[s] = recorded[s] - Before(tick)[s]
        /\ Before(tick)[s] = IF IsMatching(tick) THEN first ELSE 0
        /\ GetStatusSummary(s, tick) = IF Matches(tick) THEN Told(s) - first ELSE Told(s)
    BY <1>3, <1>6, <1>7, <1>8
  <2> HIDE DEF first
  <2>2. CASE IsMatching(tick)
    BY <1>9, <2>1, <2>2
  <2>3. CASE ~IsMatching(tick)
    BY <2>1, <2>3
  <2> QED BY <2>2, <2>3
<1>11. GetStatusSummary(Success, tick) <= GetTotalPipelineRuns(tick)
  <2>1. Success \in Status
    BY DEF CountAssumption
  <2>2. GetStatusSummary(Success, tick) \in Int
    BY <1>6, <1>7, <1>8, <2>1
  <2> QED BY <1>4, <1>5, <1>6, <1>10, <2>1, <2>2
<1>12. ASSUME hidden \subseteq {"seconds"}, tick # 0 => tick <= samples[1].at
       PROVE  OverStatus([s \in Status |-> GetStatusSummary(s, tick)]) = GetTotalPipelineRuns(tick)
  <2>1. Matches(tick) => IsMatching(tick)
    <3> SUFFICES ASSUME NEW j \in DOMAIN samples, samples[j].at = tick
                 PROVE  samples[1].at = tick
      BY DEF Matches, IsMatching
    <3>1. /\ samples[1].at <= samples[j].at
          /\ samples[1].at \in 1 .. MaxPlaces /\ samples[j].at \in 1 .. MaxPlaces
      BY <1>1, SamplesAre DEF CountInv
    <3>2. samples[1].at \in Nat /\ samples[j].at \in Nat /\ samples[j].at # 0
      BY <3>1 DEF CountAssumption
    <3> QED BY <1>12, <3>1, <3>2
  <2>2. \A s \in Status : s \notin hidden
    BY <1>12 DEF CountAssumption
  <2>3. \A s \in Status : GetStatusSummary(s, tick) = rest[s]
    BY <1>3, <1>6, <1>7, <1>8, <1>9, <2>1, <2>2
  <2>4. [s \in Status |-> GetStatusSummary(s, tick)] = rest
    BY <1>3, <2>3 DEF Counts
  <2> QED BY <1>5, <2>4 DEF Runs
<1> QED BY <1>11, <1>12

LEMMA AveragesOk ==
  ASSUME CountAssumption, CountInv, samples # << >>
  PROVE  AveragesPlausible
<1>1. CountTypeOK
  BY DEF CountInv
<1>2. ASSUME ~{"runs", "seconds"} \subseteq hidden,
             NEW i \in DOMAIN samples, NEW n \in 0 .. Len(samples)
      PROVE  Plausible(AverageDuration(i, n))
  <2> DEFINE r == AllRuns
             d == [j \in DOMAIN samples |-> IF j <= n THEN AllSeconds[j] ELSE 0]
  <2>1. /\ Len(samples) \in Nat /\ i \in 1 .. Len(samples) /\ n \in Nat
        /\ (i # 1 => i > 1 /\ i - 1 \in DOMAIN samples /\ i - 1 < i)
    BY <1>1, SamplesAre
  <2>2. \A j \in DOMAIN samples :
          /\ samples[j].counts \in Counts
          /\ r[j] = Runs(samples[j].counts) /\ r[j] \in Nat
          /\ d[j] = (IF j <= n THEN Seconds(samples[j].counts) ELSE 0) /\ d[j] \in Nat
    <3>1. \A j \in DOMAIN samples : samples[j].counts \in Counts
      BY <1>1, SamplesAre
    <3>2. \A j \in DOMAIN samples : /\ AllRuns[j] = Runs(samples[j].counts)
                                    /\ AllSeconds[j] = Seconds(samples[j].counts)
      BY DEF AllRuns, AllSeconds
    <3> QED BY <3>1, <3>2, RunsAre
  <2>3. AverageDuration(i, n)
          = IF i = 1 \/ d[i] < d[i - 1] \/ r[i] < r[i - 1] THEN <<d[i], r[i]>>
            ELSE <<d[i] - d[i - 1], r[i] - r[i - 1]>>
    BY Zenon DEF AverageDuration
  <2> HIDE DEF r, d
  <2>4. CASE i > n
    <3>1. d[i] = 0
      BY <2>1, <2>2, <2>4
    <3>2. CASE i = 1 \/ d[i] < d[i - 1] \/ r[i] < r[i - 1]
      BY <2>3, <3>1, <3>2 DEF Plausible
    <3>3. CASE ~(i = 1 \/ d[i] < d[i - 1] \/ r[i] < r[i - 1])
      <4>1. d[i - 1] \in Nat
        BY <2>1, <2>2, <3>3
      <4>2. d[i] - d[i - 1] = 0
        BY <3>1, <3>3, <4>1
      <4> QED BY <2>3, <3>3, <4>2 DEF Plausible
    <3> QED BY <3>2, <3>3
  <2>5. CASE i <= n
    <3>1. d[i] = Seconds(samples[i].counts) /\ r[i] = Runs(samples[i].counts)
      BY <2>2, <2>5
    <3>2. CASE i = 1 \/ d[i] < d[i - 1] \/ r[i] < r[i - 1]
      <4>1. AverageDuration(i, n) = <<Seconds(samples[i].counts), Runs(samples[i].counts)>>
        BY <2>3, <3>1, <3>2
      <4> QED BY <2>2, <4>1, PlausibleIs
    <3>3. CASE ~(i = 1 \/ d[i] < d[i - 1] \/ r[i] < r[i - 1])
      <4> DEFINE b == samples[i - 1].counts  c == samples[i].counts
      <4>1. b \in Counts /\ c \in Counts /\ i > 1 /\ i - 1 <= n /\ i - 1 \in DOMAIN samples
        BY <2>1, <2>2, <2>5, <3>3
      <4>2. d[i - 1] = Seconds(b) /\ r[i - 1] = Runs(b)
        BY <2>2, <4>1
      <4>3. Grows(i)
        BY <4>1 DEF CountInv
      <4>4. /\ AllRuns[i] = Runs(c) /\ AllRuns[i - 1] = Runs(b)
            /\ AllSeconds[i] = Seconds(c) /\ AllSeconds[i - 1] = Seconds(b)
        BY <4>1 DEF AllRuns, AllSeconds
      <4>5. Below(b, c)
        BY <1>2, <3>1, <3>3, <4>2, <4>3, <4>4 DEF Grows
      <4> HIDE DEF b, c
      <4>6. /\ Minus(c, b) \in Counts
            /\ Runs(b) + Runs(Minus(c, b)) = Runs(c)
            /\ Seconds(b) + Seconds(Minus(c, b)) = Seconds(c)
        BY <4>1, <4>5, RunsMinus
      <4>7. /\ Runs(b) \in Nat /\ Seconds(b) \in Nat
            /\ Runs(Minus(c, b)) \in Nat /\ Seconds(Minus(c, b)) \in Nat
        BY <4>1, <4>6, RunsAre
      <4>8. d[i] - d[i - 1] = Seconds(Minus(c, b)) /\ r[i] - r[i - 1] = Runs(Minus(c, b))
        BY <3>1, <4>2, <4>6, <4>7 DEF c
      <4>9. AverageDuration(i, n) = <<Seconds(Minus(c, b)), Runs(Minus(c, b))>>
        BY <2>3, <3>3, <4>8
      <4> QED BY <4>6, <4>9, PlausibleIs
    <3> QED BY <3>2, <3>3
  <2>6. i > n \/ i <= n
    BY <2>1
  <2> QED BY <2>4, <2>5, <2>6
<1>3. ASSUME {"runs", "seconds"} \cap hidden = {}, NEW tick \in 0 .. MaxPlaces
      PROVE  Plausible(<<GetTotalPipelineRunsDuration(tick), GetTotalPipelineRuns(tick)>>)
  <2> DEFINE b == Before(tick)
  <2>1. /\ b \in Counts /\ Below(b, recorded) /\ recorded \in Counts
        /\ GetTotalPipelineRuns(tick) = Runs(recorded) - Runs(b)
        /\ GetTotalPipelineRunsDuration(tick) = Seconds(recorded) - Seconds(b)
    BY <1>3, TotalsFrom, TotalsAre
  <2> HIDE DEF b
  <2>2. /\ Minus(recorded, b) \in Counts
        /\ Runs(b) + Runs(Minus(recorded, b)) = Runs(recorded)
        /\ Seconds(b) + Seconds(Minus(recorded, b)) = Seconds(recorded)
    BY <2>1, RunsMinus
  <2>3. /\ Runs(b) \in Nat /\ Seconds(b) \in Nat
        /\ Runs(Minus(recorded, b)) \in Nat /\ Seconds(Minus(recorded, b)) \in Nat
    BY <2>1, <2>2, RunsAre
  <2>4. /\ GetTotalPipelineRuns(tick) = Runs(Minus(recorded, b))
        /\ GetTotalPipelineRunsDuration(tick) = Seconds(Minus(recorded, b))
    BY <2>1, <2>2, <2>3
  <2> QED BY <2>2, <2>4, PlausibleIs
<1> QED BY <1>2, <1>3 DEF AveragesPlausible

-----------------------------------------------------------------------------
(***************************************************************************)
(* The theorems.                                                           *)
(***************************************************************************)

LEMMA CountInvariance ==
  ASSUME CountAssumption
  PROVE  CountSpec => []CountInv
<1>1. CountInit => CountInv
  <2> SUFFICES ASSUME CountInit PROVE CountInv
    OBVIOUS
  <2>1. CountTypeOK
    <3>1. samples \in Seq([at : 1 .. MaxPlaces, counts : Counts \ {Zero}])
      BY EmptySeq DEF CountInit
    <3>2. 0 \in 0 .. MaxPlaces /\ MaxRestarts \in 0 .. MaxRestarts
      BY DEF CountAssumption
    <3> QED BY <3>1, <3>2, RunsZero DEF CountInit, CountTypeOK
  <2>2. samples = << >> /\ recorded = Zero /\ counter = Zero /\ hidden = {}
    BY DEF CountInit
  <2>3. Below(LastCounts, counter)
    BY <2>2 DEF LastCounts, Below, Zero
  <2>4. DOMAIN samples = {}
    BY <2>2
  <2>5. /\ AllRuns \in Seq(Nat) /\ AllRuns = << >> /\ AllSeconds = << >>
        /\ \A s \in Status : ByStatus(s) = << >>
    BY <2>2 DEF AllRuns, AllSeconds, ByStatus
  <2>6. Reached(<< >>) = 0 /\ SumOf(Gains(<< >>)) = 0
    <3>1. Gains(<< >>) \in [1 .. 0 -> Int]
      BY DEF Gains
    <3> QED BY <3>1, SumEmpty DEF Reached
  <2>7. \A s \in Status : Told(s) = 0 /\ recorded[s] = 0
    BY <2>2, <2>5, <2>6 DEF Told, Zero
  <2> QED BY <2>1, <2>2, <2>3, <2>4, <2>5, <2>6, <2>7, RunsZero DEF CountInv, Shows
<1>2. CountInv /\ [CountNext]_countVars => CountInv'
  BY CountNextInv
<1> QED BY <1>1, <1>2, PTL DEF CountSpec

\* The counters, the samples and the history have their types.
THEOREM CountTypeCorrect ==
  ASSUME CountAssumption
  PROVE  CountSpec => []CountTypeOK
<1>1. CountInv => CountTypeOK
  BY DEF CountInv
<1> QED BY <1>1, CountInvariance, PTL

\* However often the controller restarts, the total cards, the donut, the bars and the averages
\* account for every recorded run, wherever the answers show the restarts.
THEOREM CountersAddUp ==
  ASSUME CountAssumption
  PROVE  CountSpec => []NumbersAddUp
<1>1. CountInv => NumbersAddUp
  BY TotalsOk, StatusesOk, AveragesOk DEF NumbersAddUp, CountInv
<1> QED BY <1>1, CountInvariance, PTL
=============================================================================
