--------------------------- MODULE AnalysisProofs ---------------------------
(***************************************************************************)
(* Proofs about Analysis, for every set of frameworks, trials, arguments   *)
(* and lists, and any number of trials.                                    *)
(***************************************************************************)
EXTENDS Analysis, OrderItemsProofs, FiniteSetTheorems

-----------------------------------------------------------------------------
(* What MapThenSumSet adds up is a natural number. *)

Countable(v, S) == IsFiniteSet(S) /\ \A i \in S : v[i] \in Nat

(* The recursion of MapThenSumSet over the subsets of S. *)
Some(s) == CHOOSE x \in s : TRUE
Fold(v, f, S) ==
    f = [s \in SUBSET S |-> IF s = {} THEN 0 ELSE v[Some(s)] + f[s \ {Some(s)}]]

(* Taking an element out of a part of S. *)
LEMMA Sizes ==
    ASSUME NEW v, NEW S, Countable(v, S), NEW s \in SUBSET S
    PROVE  /\ Cardinality(s) \in Nat /\ Cardinality(s) <= Cardinality(S)
           /\ Cardinality(s) = 0 <=> s = {}
           /\ s # {} => /\ Cardinality(s \ {Some(s)}) = Cardinality(s) - 1
                        /\ s \ {Some(s)} \in SUBSET S /\ v[Some(s)] \in Nat
  <1>1. IsFiniteSet(s) /\ Cardinality(s) <= Cardinality(S)
    BY FS_Subset DEF Countable
  <1>2. Cardinality(s) \in Nat /\ (Cardinality(s) = 0 <=> s = {})
    BY <1>1, FS_CardinalityType, FS_EmptySet
  <1>3. s # {} => Some(s) \in s
    BY DEF Some
  <1>4. s # {} => Cardinality(s \ {Some(s)}) = Cardinality(s) - 1
    BY <1>1, <1>3, FS_RemoveElement
  <1> QED  BY <1>1, <1>2, <1>3, <1>4 DEF Countable

(* The recursion has a solution, built up one size of set after another. *)
LEMMA FoldExists ==
    ASSUME NEW v, NEW S, Countable(v, S)
    PROVE  \E f : Fold(v, f, S)
  <1> DEFINE Small(n) == {s \in SUBSET S : Cardinality(s) <= n}
             Step(f, s) == IF s = {} THEN 0 ELSE v[Some(s)] + f[s \ {Some(s)}]
             Good(f, n) == /\ f \in [Small(n) -> Nat]
                           /\ \A s \in Small(n) : f[s] = Step(f, s)
             N == {n \in Nat : \E f : Good(f, n)}
  <1>sizes. \A s \in SUBSET S :
              /\ Cardinality(s) \in Nat /\ Cardinality(s) <= Cardinality(S)
              /\ Cardinality(s) = 0 <=> s = {}
    BY Sizes
  <1>1. 0 \in N
    <2>1. \A s \in Small(0) : s = {}
      BY <1>sizes
    <2>2. Good([s \in Small(0) |-> 0], 0)
      BY <2>1
    <2> QED  BY <2>2
  <1>2. ASSUME NEW n \in Nat, n \in N PROVE n + 1 \in N
    <2>1. PICK f : Good(f, n)
      BY <1>2
    <2> DEFINE g == [s \in Small(n + 1) |-> Step(f, s)]
    <2>2. ASSUME NEW s \in Small(n + 1), s # {}
          PROVE  /\ s \ {Some(s)} \in Small(n) /\ s \ {Some(s)} \in Small(n + 1)
                 /\ v[Some(s)] \in Nat
      <3>1. /\ s \in SUBSET S /\ Cardinality(s) \in Nat
            /\ Cardinality(s \ {Some(s)}) = Cardinality(s) - 1
            /\ s \ {Some(s)} \in SUBSET S /\ v[Some(s)] \in Nat
        BY <2>2, Sizes
      <3> QED  BY <2>2, <3>1
    <2>3. ASSUME NEW s \in Small(n) PROVE s \in Small(n + 1)
      BY <1>sizes, <2>3
    <2> HIDE DEF Small
    <2>4. g \in [Small(n + 1) -> Nat]
      <3>1. \A s \in Small(n + 1) : Step(f, s) \in Nat
        BY <2>1, <2>2
      <3> QED  BY <3>1
    <2>5. \A s \in Small(n) : g[s] = f[s]
      BY <2>1, <2>3
    <2>6. ASSUME NEW s \in Small(n + 1) PROVE g[s] = Step(g, s)
      <3>1. CASE s = {}
        BY <3>1
      <3>2. CASE s # {}
        <4>1. g[s \ {Some(s)}] = f[s \ {Some(s)}]
          BY <2>2, <2>5, <3>2
        <4>2. g[s] = v[Some(s)] + f[s \ {Some(s)}]
          BY <3>2
        <4> HIDE DEF g
        <4> QED  BY <3>2, <4>1, <4>2
      <3> QED  BY <3>1, <3>2
    <2> HIDE DEF g, Step
    <2>7. Good(g, n + 1)
      BY <2>4, <2>6
    <2> HIDE DEF Good
    <2> QED  BY <2>7
  <1>3. Cardinality(S) \in N /\ Small(Cardinality(S)) = SUBSET S
    <2>1. Nat \subseteq N
      <3> HIDE DEF N
      <3> QED  BY <1>1, <1>2, Induction
    <2>2. Cardinality(S) \in Nat
      BY FS_CardinalityType DEF Countable
    <2> QED  BY <2>1, <2>2, Sizes
  <1>4. PICK f : Good(f, Cardinality(S))
    BY <1>3
  <1> HIDE DEF Small
  <1> DEFINE h == [s \in SUBSET S |-> Step(f, s)]
  <1>5. f \in [SUBSET S -> Nat] /\ \A s \in SUBSET S : f[s] = h[s]
    BY <1>3, <1>4
  <1>6. f = h
    <2>1. h \in [SUBSET S -> {h[s] : s \in SUBSET S}]
      OBVIOUS
    <2> HIDE DEF h
    <2> QED  BY <1>5, <2>1
  <1> QED  BY <1>6 DEF Fold

(* The sum of natural numbers is one. *)
LEMMA SumIsNat ==
    ASSUME NEW v, Countable(v, DOMAIN v)
    PROVE  MapThenSumSet(LAMBDA i : v[i], DOMAIN v) \in Nat
  <1> DEFINE S == DOMAIN v
             f == CHOOSE t : Fold(v, t, S)
  <1>1. Fold(v, f, S)
    BY FoldExists
  <1>2. MapThenSumSet(LAMBDA i : v[i], S) = f[S]
    BY Zenon DEF MapThenSumSet, MapThenFoldSet, Fold, Some
  <1> HIDE DEF f, S
  <1>3. \A s \in SUBSET S : f[s] = IF s = {} THEN 0 ELSE v[Some(s)] + f[s \ {Some(s)}]
    <2> DEFINE h == [s \in SUBSET S |-> IF s = {} THEN 0 ELSE v[Some(s)] + f[s \ {Some(s)}]]
    <2>1. f = h
      BY <1>1 DEF Fold
    <2>2. \A s \in SUBSET S : h[s] = IF s = {} THEN 0 ELSE v[Some(s)] + f[s \ {Some(s)}]
      OBVIOUS
    <2> HIDE DEF h
    <2> QED  BY <2>1, <2>2
  <1>4. Countable(v, S)
    BY DEF S
  <1>sizes. \A s \in SUBSET S :
              /\ Cardinality(s) \in Nat /\ Cardinality(s) <= Cardinality(S)
              /\ Cardinality(s) = 0 <=> s = {}
    BY <1>4, Sizes
  <1> DEFINE N == {n \in Nat : \A s \in SUBSET S : Cardinality(s) = n => f[s] \in Nat}
  <1>5. 0 \in N
    <2>1. \A s \in SUBSET S : Cardinality(s) = 0 => f[s] = 0
      BY <1>3, <1>4, Sizes
    <2> QED  BY <2>1
  <1>6. ASSUME NEW n \in Nat, n \in N PROVE n + 1 \in N
    <2> SUFFICES ASSUME NEW s \in SUBSET S, Cardinality(s) = n + 1
                 PROVE  f[s] \in Nat
      OBVIOUS
    <2> DEFINE t == s \ {Some(s)}
    <2>1. s # {}
      BY <1>sizes
    <2>2. Cardinality(t) = n /\ t \in SUBSET S /\ v[Some(s)] \in Nat
      BY <1>4, <2>1, Sizes
    <2>3. f[s] = v[Some(s)] + f[t]
      BY <1>3, <2>1
    <2> HIDE DEF t
    <2>4. f[t] \in Nat
      BY <1>6, <2>2
    <2> QED  BY <2>2, <2>3, <2>4
  <1>7. Nat \subseteq N
    <2> HIDE DEF N
    <2> QED  BY <1>5, <1>6, Induction
  <1>8. f[S] \in Nat
    BY <1>4, <1>7, Sizes
  <1> QED  BY <1>2, <1>8 DEF S

-----------------------------------------------------------------------------
(* Statistics and BuildResults *)

StatOK(s) == /\ s.n \in Nat /\ s.num \in Nat /\ s.den \in Nat
             /\ s.n > 0 => s.den > 0

(* The statistics of rates divided by a positive number. *)
LEMMA StatisticsFacts ==
    ASSUME NEW v, Countable(v, DOMAIN v), NEW c \in Nat, c > 0
    PROVE  /\ StatOK(Statistics(v, c))
           /\ Statistics(v, c).n = Cardinality(DOMAIN v)
           /\ Statistics(v, c).num = Statistics(v, 1).num
           /\ Statistics(v, c).den = Cardinality(DOMAIN v) * c
  <1> DEFINE n == Cardinality(DOMAIN v)
             sum == MapThenSumSet(LAMBDA i : v[i], DOMAIN v)
  <1>1. n \in Nat /\ sum \in Nat
    BY SumIsNat, FS_CardinalityType DEF Countable
  <1>2. /\ Statistics(v, c) = [n |-> n, num |-> sum, den |-> n * c, ci |-> n >= 2]
        /\ Statistics(v, 1) = [n |-> n, num |-> sum, den |-> n * 1, ci |-> n >= 2]
    BY DEF Statistics
  <1> HIDE DEF n, sum
  <1>3. n * c \in Nat /\ (n > 0 => n * c > 0)
    BY <1>1
  <1>4. /\ Statistics(v, c).n = n /\ Statistics(v, c).num = sum
        /\ Statistics(v, c).den = n * c /\ Statistics(v, 1).num = sum
    BY <1>2
  <1> QED  BY <1>1, <1>3, <1>4 DEF StatOK, n

(* The fields of a trial that the analysis computes. *)
LEMMA TrialFacts ==
    ASSUME NEW t \in Kinds
    PROVE  /\ Cores(t) \in Nat /\ TotalRps(t) \in Nat
           /\ JsonRps(t) # NoValue => JsonRps(t) \in Nat
           /\ t.burn_in \in BOOLEAN
  <1>1. /\ t.burn_in \in BOOLEAN
        /\ t.secs \in Nat /\ t.reqs \in Nat /\ t.app_cores \in Nat
        /\ t.json \in Nat \union {NoValue}
        /\ t.preflight \in [{"app", "db", "loadgen"} -> Nat]
    BY KindsAssumption
  <1>2. t.preflight["app"] \in Nat /\ t.preflight["db"] \in Nat /\ t.preflight["loadgen"] \in Nat
    BY <1>1
  <1> QED  BY <1>1, <1>2 DEF Cores, TotalRps, JsonRps

(* A list of trials some of which may have been left out. *)
TrialList(u) == /\ IsFiniteSet(DOMAIN u) /\ DOMAIN u \subseteq Nat
                /\ \A i \in DOMAIN u : u[i] \in Kinds

(* The json rates of those that have one, and those whose cores are known. *)
Rates(u) == RestrictValues([i \in DOMAIN u |-> JsonRps(u[i])], LAMBDA v : v # NoValue)
WithCores(u) == {i \in DOMAIN u : Cores(u[i]) > 0}

LEMMA MinFacts ==
    ASSUME NEW S \in SUBSET Nat, S # {}
    PROVE  Min(S) \in S /\ \A x \in S : Min(S) <= x
  <1>1. \E n \in S : \A m \in S : n <= m
    BY Least
  <1> QED  BY <1>1, Zenon DEF Min

LEMMA RatesFacts ==
    ASSUME NEW u, TrialList(u)
    PROVE  /\ Countable(Rates(u), DOMAIN Rates(u))
           /\ Cardinality(DOMAIN Rates(u)) <= Cardinality(DOMAIN u)
  <1> DEFINE all == [i \in DOMAIN u |-> JsonRps(u[i])]
             S == {i \in DOMAIN u : JsonRps(u[i]) # NoValue}
  <1>1. Rates(u) = [i \in S |-> all[i]]
    BY DEF Rates, RestrictValues, Restrict
  <1>2. S \in SUBSET DOMAIN u /\ \A i \in S : all[i] = JsonRps(u[i])
    OBVIOUS
  <1>3. \A i \in S : JsonRps(u[i]) \in Nat
    BY TrialFacts DEF TrialList
  <1>4. IsFiniteSet(S) /\ Cardinality(S) <= Cardinality(DOMAIN u)
    BY <1>2, FS_Subset DEF TrialList
  <1> HIDE DEF S, all
  <1> QED  BY <1>1, <1>2, <1>3, <1>4 DEF Countable

(* What build_results makes of the trials. *)
LEMMA BuildFacts ==
    ASSUME NEW u, TrialList(u)
    PROVE  LET r == BuildResults(u) IN
           /\ r.rps = Statistics(Rates(u), 1)
           /\ r.rps_per_core = IF WithCores(u) = {} THEN NoStatistics
                               ELSE Statistics(Rates(u), Cores(u[Min(WithCores(u))]))
           /\ r.cores = IF WithCores(u) = {} THEN NoValue
                        ELSE Min({Cores(u[i]) : i \in WithCores(u)})
    BY DEF BuildResults, Rates, WithCores

LEMMA FirstCores ==
    ASSUME NEW u, TrialList(u), WithCores(u) # {}
    PROVE  /\ Min(WithCores(u)) \in DOMAIN u
           /\ Cores(u[Min(WithCores(u))]) \in Nat /\ Cores(u[Min(WithCores(u))]) > 0
  <1>1. WithCores(u) \in SUBSET Nat
    BY DEF WithCores, TrialList
  <1>2. Min(WithCores(u)) \in WithCores(u)
    BY <1>1, MinFacts
  <1> QED  BY <1>2, TrialFacts DEF WithCores, TrialList

(* The statistics of a file are well formed: a mean has a positive divisor. *)
LEMMA BuildTypes ==
    ASSUME NEW u, TrialList(u)
    PROVE  /\ StatOK(BuildResults(u).rps) /\ StatOK(BuildResults(u).rps_per_core)
           /\ BuildResults(u).rps.n <= Cardinality(DOMAIN u)
  <1>1. Countable(Rates(u), DOMAIN Rates(u)) /\ Cardinality(DOMAIN Rates(u)) <= Cardinality(DOMAIN u)
    BY RatesFacts
  <1>2. StatOK(NoStatistics)
    BY DEF StatOK, NoStatistics
  <1>3. WithCores(u) # {} => StatOK(Statistics(Rates(u), Cores(u[Min(WithCores(u))])))
    BY <1>1, FirstCores, StatisticsFacts
  <1>4. StatOK(Statistics(Rates(u), 1)) /\ Statistics(Rates(u), 1).n = Cardinality(DOMAIN Rates(u))
    BY <1>1, StatisticsFacts
  <1> QED  BY <1>1, <1>2, <1>3, <1>4, BuildFacts

-----------------------------------------------------------------------------
(* The ranking of report.py *)

(* Comparing fractions by cross-multiplication is transitive. *)
LEMMA Cross ==
    ASSUME NEW a \in Nat, NEW c \in Nat, NEW e \in Nat,
           NEW b \in Nat, NEW d \in Nat, NEW f \in Nat, b > 0, d > 0, f > 0,
           a * d >= c * b, c * f >= e * d
    PROVE  /\ a * f >= e * b
           /\ a * d > c * b \/ c * f > e * d => a * f > e * b
  <1> DEFINE ad == a * d
             cb == c * b
             cf == c * f
             ed == e * d
             af == a * f
             eb == e * b
  <1>1. {ad, cb, cf, ed, af, eb} \subseteq Nat
    OBVIOUS
  <1>2. ad * f = af * d /\ cb * f = cf * b /\ ed * b = eb * d
    OBVIOUS
  <1>3. ad >= cb /\ cf >= ed
    OBVIOUS
  <1> HIDE DEF ad, cb, cf, ed, af, eb
  <1>4. \A x, y, z \in Nat : z > 0 => /\ x >= y => x * z >= y * z
                                      /\ x > y => x * z > y * z
    <2> SUFFICES ASSUME NEW x \in Nat, NEW y \in Nat, NEW z \in Nat, z > 0
                 PROVE  (x >= y => x * z >= y * z) /\ (x > y => x * z > y * z)
      OBVIOUS
    <2>1. x * z - y * z = (x - y) * z
      OBVIOUS
    <2>2. x >= y => (x - y) * z >= 0
      OBVIOUS
    <2>3. x > y => (x - y) * z > 0
      OBVIOUS
    <2>4. x * z \in Nat /\ y * z \in Nat
      OBVIOUS
    <2> QED  BY <2>1, <2>2, <2>3, <2>4
  <1>5. {ad * f, cb * f, cf * b, ed * b, af * d, eb * d} \subseteq Nat
    BY <1>1
  <1>6. ad * f >= cb * f /\ cf * b >= ed * b
    BY <1>1, <1>3, <1>4
  <1>7. af * d >= eb * d
    BY <1>2, <1>5, <1>6
  <1>8. af >= eb
    <2>1. eb > af => eb * d > af * d
      BY <1>1, <1>4
    <2> QED  BY <1>1, <1>5, <1>7, <2>1
  <1>9. ASSUME ad > cb \/ cf > ed PROVE af > eb
    <2>1. ad * f > cb * f \/ cf * b > ed * b
      BY <1>1, <1>4, <1>9
    <2>2. af * d > eb * d
      BY <1>2, <1>5, <1>6, <2>1
    <2>3. eb >= af => eb * d >= af * d
      BY <1>1, <1>4
    <2> QED  BY <1>1, <1>5, <2>2, <2>3
  <1> QED  BY <1>8, <1>9 DEF ad, cb, cf, ed, af, eb

(* A row of the comparison has the rate of its trials. *)
RowOK(row) ==
    /\ row.framework \in Names
    /\ StatOK(row.rps_per_core)
    /\ row.rps_per_core = BuildResults(row.usable).rps_per_core

(* No two rows are of one framework. *)
Table(rows) ==
    /\ IsFiniteSet(DOMAIN rows) /\ DOMAIN rows \subseteq Nat
    /\ \A i \in DOMAIN rows : RowOK(rows[i])
    /\ \A i, j \in DOMAIN rows : i # j => rows[i].framework # rows[j].framework

LEMMA KeyFacts ==
    ASSUME NEW r, StatOK(r.rps_per_core)
    PROVE  /\ SortKey(r).num \in Nat /\ SortKey(r).den \in Nat /\ SortKey(r).den > 0
  <1>1. CASE r.rps_per_core.n = 0
    BY <1>1 DEF SortKey
  <1>2. CASE r.rps_per_core.n # 0
    BY <1>2 DEF SortKey, StatOK
  <1> QED  BY <1>1, <1>2

(* Higher is a strict order, and so is what it does not tell apart. *)
LEMMA HigherFacts ==
    ASSUME NEW r, NEW s, NEW t, StatOK(r.rps_per_core), StatOK(s.rps_per_core),
           StatOK(t.rps_per_core)
    PROVE  /\ Higher(r, s) => ~Higher(s, r)
           /\ ~Higher(s, r) /\ ~Higher(t, s) => ~Higher(t, r)
           /\ ~Higher(s, r) /\ ~Higher(t, s) /\ (Higher(r, s) \/ Higher(s, t)) => Higher(r, t)
  <1> DEFINE a == SortKey(r).num
             b == SortKey(r).den
             c == SortKey(s).num
             d == SortKey(s).den
             e == SortKey(t).num
             f == SortKey(t).den
  <1>1. /\ a \in Nat /\ b \in Nat /\ b > 0 /\ c \in Nat /\ d \in Nat /\ d > 0
        /\ e \in Nat /\ f \in Nat /\ f > 0
    BY KeyFacts
  <1>2. /\ Higher(r, s) <=> a * d > c * b
        /\ Higher(s, r) <=> c * b > a * d
        /\ Higher(s, t) <=> c * f > e * d
        /\ Higher(t, s) <=> e * d > c * f
        /\ Higher(r, t) <=> a * f > e * b
        /\ Higher(t, r) <=> e * b > a * f
    BY DEF Higher
  <1> HIDE DEF a, b, c, d, e, f
  <1>3. a * d \in Nat /\ c * b \in Nat /\ c * f \in Nat /\ e * d \in Nat /\ a * f \in Nat /\ e * b \in Nat
    BY <1>1
  <1>4. a * d >= c * b /\ c * f >= e * d =>
            /\ a * f >= e * b
            /\ a * d > c * b \/ c * f > e * d => a * f > e * b
    BY <1>1, Cross
  <1> QED  BY <1>2, <1>3, <1>4

(* Above puts the rows in a total order. *)
LEMMA AboveFacts ==
    ASSUME NEW rows, Table(rows), NEW i \in DOMAIN rows, NEW j \in DOMAIN rows,
           NEW k \in DOMAIN rows
    PROVE  /\ ~Above(rows, i, i)
           /\ Above(rows, i, j) => ~Above(rows, j, i)
           /\ i # j => Above(rows, i, j) \/ Above(rows, j, i)
           /\ Above(rows, i, j) /\ Above(rows, j, k) => Above(rows, i, k)
  <1>1. i \in Nat /\ j \in Nat /\ k \in Nat
    BY DEF Table
  <1>2. \A x, y, z \in DOMAIN rows :
           /\ Higher(rows[x], rows[y]) => ~Higher(rows[y], rows[x])
           /\ ~Higher(rows[y], rows[x]) /\ ~Higher(rows[z], rows[y]) => ~Higher(rows[z], rows[x])
           /\ /\ ~Higher(rows[y], rows[x]) /\ ~Higher(rows[z], rows[y])
              /\ Higher(rows[x], rows[y]) \/ Higher(rows[y], rows[z])
              => Higher(rows[x], rows[z])
    <2>1. \A x \in DOMAIN rows : StatOK(rows[x].rps_per_core)
      BY DEF Table, RowOK
    <2> QED  BY <2>1, HigherFacts
  <1>3. ~Above(rows, i, i)
    BY <1>1, <1>2 DEF Above
  <1>4. Above(rows, i, j) => ~Above(rows, j, i)
    BY <1>1, <1>2 DEF Above
  <1>5. i # j => Above(rows, i, j) \/ Above(rows, j, i)
    BY <1>1, <1>2 DEF Above
  <1>6. ASSUME Above(rows, i, j), Above(rows, j, k) PROVE Above(rows, i, k)
    <2>1. ~Higher(rows[j], rows[i]) /\ ~Higher(rows[k], rows[j])
      BY <1>2, <1>6 DEF Above
    <2>2. CASE Higher(rows[i], rows[j]) \/ Higher(rows[j], rows[k])
      BY <1>2, <2>1, <2>2 DEF Above
    <2>3. CASE i < j /\ j < k
      <3>1. i < k /\ ~Higher(rows[k], rows[i])
        BY <1>1, <1>2, <2>1, <2>3
      <3> QED  BY <3>1 DEF Above
    <2> QED  BY <1>6, <2>2, <2>3 DEF Above
  <1> QED  BY <1>3, <1>4, <1>5, <1>6

(* The place of a row is one more than the number of rows above it: no two rows
   have one place, and every place is taken. *)
AllAbove(rows, i) == {j \in DOMAIN rows : Above(rows, j, i)}

LEMMA Places ==
    ASSUME NEW rows, Table(rows)
    PROVE  /\ Cardinality(DOMAIN rows) \in Nat
           /\ \A i \in DOMAIN rows : Cardinality(AllAbove(rows, i)) \in 0 .. (Cardinality(DOMAIN rows) - 1)
           /\ \A i, j \in DOMAIN rows : Above(rows, i, j) =>
                 Cardinality(AllAbove(rows, i)) < Cardinality(AllAbove(rows, j))
  <1> DEFINE D == DOMAIN rows
             A(i) == AllAbove(rows, i)
  <1>1. IsFiniteSet(D) /\ Cardinality(D) \in Nat
    BY FS_CardinalityType DEF Table
  <1>2. ASSUME NEW i \in D PROVE A(i) \in SUBSET D /\ i \notin A(i)
    BY AboveFacts DEF AllAbove
  <1>3. ASSUME NEW i \in D
        PROVE  /\ IsFiniteSet(A(i)) /\ Cardinality(A(i)) \in Nat
               /\ Cardinality(A(i)) < Cardinality(D)
    <2>1. IsFiniteSet(A(i)) /\ Cardinality(A(i)) <= Cardinality(D) /\ Cardinality(D) # Cardinality(A(i))
      BY <1>1, <1>2, FS_Subset
    <2>2. Cardinality(A(i)) \in Nat
      BY <2>1, FS_CardinalityType
    <2> QED  BY <1>1, <2>1, <2>2
  <1>4. ASSUME NEW i \in D, NEW j \in D, Above(rows, i, j)
        PROVE  Cardinality(A(i)) < Cardinality(A(j))
    <2>1. A(i) \in SUBSET A(j)
      BY <1>4, AboveFacts DEF AllAbove
    <2>2. i \in A(j) /\ i \notin A(i)
      BY <1>2, <1>4 DEF AllAbove
    <2>3. Cardinality(A(i)) <= Cardinality(A(j)) /\ Cardinality(A(j)) # Cardinality(A(i))
      BY <1>3, <2>1, <2>2, FS_Subset
    <2> QED  BY <1>3, <2>3
  <1> QED  BY <1>1, <1>3, <1>4

LEMMA EveryPlaceTaken ==
    ASSUME NEW rows, Table(rows), NEW k \in 1 .. Cardinality(DOMAIN rows)
    PROVE  \E i \in DOMAIN rows : Cardinality(AllAbove(rows, i)) = k - 1
  <1> DEFINE D == DOMAIN rows
             n == Cardinality(D)
             p == [i \in D |-> Cardinality(AllAbove(rows, i)) + 1]
  <1>1. n \in Nat /\ IsFiniteSet(D) /\ IsFiniteSet(1 .. n) /\ Cardinality(1 .. n) = n
    <2>1. n \in Nat
      BY Places
    <2>2. IsFiniteSet(1 .. n) /\ Cardinality(1 .. n) = IF 1 > n THEN 0 ELSE n - 1 + 1
      BY <2>1, FS_Interval
    <2> HIDE DEF n
    <2> QED  BY <2>1, <2>2 DEF Table
  <1>2. \A i \in D : Cardinality(AllAbove(rows, i)) \in 0 .. (n - 1)
    BY Places
  <1>3. \A i, j \in D : Cardinality(AllAbove(rows, i)) = Cardinality(AllAbove(rows, j)) => i = j
    <2> SUFFICES ASSUME NEW i \in D, NEW j \in D, i # j
                 PROVE  Cardinality(AllAbove(rows, i)) # Cardinality(AllAbove(rows, j))
      OBVIOUS
    <2>1. Above(rows, i, j) \/ Above(rows, j, i)
      BY AboveFacts
    <2> QED  BY <1>1, <1>2, <2>1, Places
  <1> HIDE DEF n, D
  <1>4. p \in [D -> 1 .. n] /\ IsInjective(p)
    <2>1. \A i \in D : Cardinality(AllAbove(rows, i)) + 1 \in 1 .. n
      BY <1>1, <1>2
    <2>2. \A i, j \in D : p[i] = p[j] => i = j
      BY <1>1, <1>2, <1>3
    <2> QED  BY <2>1, <2>2 DEF IsInjective
  <1>5. p \in Injection(D, 1 .. n)
    BY <1>4 DEF Injection
  <1>6. p \in Surjection(D, 1 .. n)
    <2>1. Cardinality(D) = Cardinality(1 .. n)
      BY <1>1 DEF n
    <2> QED  BY <1>1, <1>5, <2>1, FS_Injection
  <1>7. PICK i \in D : p[i] = k
    BY <1>6 DEF Surjection, n, D
  <1>8. Cardinality(AllAbove(rows, i)) = k - 1
    BY <1>1, <1>2, <1>7 DEF n, D
  <1> QED  BY <1>8 DEF D

(* The row at place k of the ranking is the one with k - 1 rows above it. *)
At(rows, k) == CHOOSE i \in DOMAIN rows : Cardinality(AllAbove(rows, i)) = k - 1

LEMMA RankedFacts ==
    ASSUME NEW rows, Table(rows)
    PROVE  LET n == Cardinality(DOMAIN rows) IN
           /\ n \in Nat /\ DOMAIN Ranked(rows) = 1 .. n
           /\ \A k \in 1 .. n : Ranked(rows)[k] = rows[At(rows, k)] /\ At(rows, k) \in DOMAIN rows
           /\ \A k, l \in 1 .. n : k < l => Above(rows, At(rows, k), At(rows, l))
           /\ \A i \in DOMAIN rows : \E k \in 1 .. n : At(rows, k) = i
  <1> DEFINE n == Cardinality(DOMAIN rows)
             C(i) == Cardinality(AllAbove(rows, i))
  <1>1. n \in Nat /\ \A i \in DOMAIN rows : C(i) \in 0 .. (n - 1)
    BY Places
  <1>2. Ranked(rows) = [k \in 1 .. n |-> rows[At(rows, k)]]
    BY DEF Ranked, At, AllAbove
  <1>3. \A k \in 1 .. n : At(rows, k) \in DOMAIN rows /\ C(At(rows, k)) = k - 1
    <2> SUFFICES ASSUME NEW k \in 1 .. n
                 PROVE  At(rows, k) \in DOMAIN rows /\ C(At(rows, k)) = k - 1
      OBVIOUS
    <2>1. \E i \in DOMAIN rows : C(i) = k - 1
      BY EveryPlaceTaken
    <2> HIDE DEF n, C
    <2>2. At(rows, k) = CHOOSE i \in DOMAIN rows : C(i) = k - 1
      BY DEF At, C
    <2> QED  BY <2>1, <2>2
  <1>4. ASSUME NEW i \in DOMAIN rows, NEW j \in DOMAIN rows PROVE C(i) < C(j) => Above(rows, i, j)
    <2>1. C(i) \in Nat /\ C(j) \in Nat
      BY <1>1
    <2>2. Above(rows, j, i) => C(j) < C(i)
      BY Places
    <2>3. i # j => Above(rows, i, j) \/ Above(rows, j, i)
      BY AboveFacts
    <2> HIDE DEF C
    <2> QED  BY <2>1, <2>2, <2>3
  <1>5. ASSUME NEW i \in DOMAIN rows PROVE \E k \in 1 .. n : At(rows, k) = i
    <2> DEFINE k == C(i) + 1
    <2>1. C(i) \in 0 .. (n - 1)
      BY <1>1
    <2>2. k \in 1 .. n /\ k - 1 = C(i)
      <3> HIDE DEF C, n
      <3> QED  BY <1>1, <2>1
    <2>3. At(rows, k) \in DOMAIN rows /\ C(At(rows, k)) = C(i)
      <3> HIDE DEF C, n, k
      <3> QED  BY <1>3, <2>2
    <2>4. At(rows, k) # i => Above(rows, At(rows, k), i) \/ Above(rows, i, At(rows, k))
      BY <2>3, AboveFacts
    <2>5. At(rows, k) = i
      BY <1>1, <2>3, <2>4, Places
    <2> QED  BY <2>2, <2>5
  <1>6. ASSUME NEW k \in 1 .. n, NEW l \in 1 .. n, k < l PROVE Above(rows, At(rows, k), At(rows, l))
    <2>1. C(At(rows, k)) < C(At(rows, l))
      <3> HIDE DEF C, n
      <3>1. C(At(rows, k)) = k - 1 /\ C(At(rows, l)) = l - 1
        BY <1>3
      <3> QED  BY <1>1, <1>6, <3>1
    <2> QED  BY <1>3, <1>4, <2>1
  <1>7. DOMAIN Ranked(rows) = 1 .. n
    BY <1>2
  <1> HIDE DEF C
  <1> QED  BY <1>1, <1>2, <1>3, <1>5, <1>6, <1>7

(* The ranking of a table is a table with the same rows. *)
LEMMA RankedIsTable ==
    ASSUME NEW rows, Table(rows)
    PROVE  /\ Table(Ranked(rows)) /\ Range(Ranked(rows)) = Range(rows)
           /\ Cardinality(DOMAIN Ranked(rows)) = Cardinality(DOMAIN rows)
  <1> DEFINE n == Cardinality(DOMAIN rows)
             R == Ranked(rows)
  <1>1. /\ n \in Nat /\ DOMAIN R = 1 .. n
        /\ \A k \in 1 .. n : R[k] = rows[At(rows, k)] /\ At(rows, k) \in DOMAIN rows
        /\ \A k, l \in 1 .. n : k < l => Above(rows, At(rows, k), At(rows, l))
        /\ \A i \in DOMAIN rows : \E k \in 1 .. n : At(rows, k) = i
    BY RankedFacts
  <1> HIDE DEF n, R
  <1>2. IsFiniteSet(1 .. n) /\ Cardinality(1 .. n) = n
    <2>1. IsFiniteSet(1 .. n) /\ Cardinality(1 .. n) = IF 1 > n THEN 0 ELSE n - 1 + 1
      BY <1>1, FS_Interval
    <2> QED  BY <1>1, <2>1
  <1>3. \A k, l \in 1 .. n : k # l => At(rows, k) # At(rows, l)
    <2> SUFFICES ASSUME NEW k \in 1 .. n, NEW l \in 1 .. n, k # l, At(rows, k) = At(rows, l)
                 PROVE  FALSE
      OBVIOUS
    <2>1. k < l \/ l < k
      BY <1>1
    <2>2. Above(rows, At(rows, k), At(rows, k))
      BY <1>1, <2>1
    <2> QED  BY <1>1, <2>2, AboveFacts
  <1>4. Range(R) = Range(rows)
    BY <1>1 DEF Range
  <1>5. \A k \in 1 .. n : RowOK(R[k])
    BY <1>1 DEF Table
  <1>6. \A k, l \in 1 .. n : k # l => R[k].framework # R[l].framework
    BY <1>1, <1>3 DEF Table
  <1>7. Table(R)
    BY <1>1, <1>2, <1>5, <1>6 DEF Table
  <1> QED  BY <1>1, <1>2, <1>4, <1>7 DEF n, R

(* The order MatrixIsRanked asks for. *)
InOrder(t) ==
    \A i, j \in DOMAIN t :
        i < j /\ t[j].rps_per_core.n > 0 /\ t[j].rps_per_core.num > 0 =>
          /\ t[i].rps_per_core.n > 0
          /\ t[i].rps_per_core.num * t[j].rps_per_core.den
               >= t[j].rps_per_core.num * t[i].rps_per_core.den

LEMMA RankedIsInOrder ==
    ASSUME NEW rows, Table(rows)
    PROVE  InOrder(Ranked(rows))
  <1> DEFINE n == Cardinality(DOMAIN rows)
             R == Ranked(rows)
  <1> SUFFICES ASSUME NEW i \in DOMAIN R, NEW j \in DOMAIN R, i < j,
                      R[j].rps_per_core.n > 0, R[j].rps_per_core.num > 0
               PROVE  /\ R[i].rps_per_core.n > 0
                      /\ R[i].rps_per_core.num * R[j].rps_per_core.den
                           >= R[j].rps_per_core.num * R[i].rps_per_core.den
    BY DEF InOrder
  <1> DEFINE hi == R[i]
             lo == R[j]
             a == hi.rps_per_core.num
             b == hi.rps_per_core.den
             c == lo.rps_per_core.num
             d == lo.rps_per_core.den
  <1>1. ~Higher(lo, hi)
    <2>1. At(rows, i) \in DOMAIN rows /\ At(rows, j) \in DOMAIN rows
      BY RankedFacts
    <2>2. hi = rows[At(rows, i)] /\ lo = rows[At(rows, j)] /\ Above(rows, At(rows, i), At(rows, j))
      BY RankedFacts
    <2>3. StatOK(rows[At(rows, i)].rps_per_core) /\ StatOK(rows[At(rows, j)].rps_per_core)
      BY <2>1 DEF Table, RowOK
    <2>4. Higher(hi, lo) => ~Higher(lo, hi)
      BY <2>2, <2>3, HigherFacts
    <2> HIDE DEF hi, lo
    <2> QED  BY <2>2, <2>4 DEF Above
  <1>2. StatOK(hi.rps_per_core) /\ StatOK(lo.rps_per_core)
    BY RankedIsTable DEF Table, RowOK
  <1> HIDE DEF R, hi, lo
  <1>3. /\ a \in Nat /\ b \in Nat /\ c \in Nat /\ d \in Nat
        /\ hi.rps_per_core.n \in Nat /\ lo.rps_per_core.n \in Nat
    BY <1>2 DEF StatOK
  <1>4. SortKey(lo).num = c /\ SortKey(lo).den = d
    BY <1>3 DEF SortKey, lo
  <1>5. CASE hi.rps_per_core.n = 0
    <2>1. SortKey(hi).num = 0 /\ SortKey(hi).den = 1
      BY <1>5 DEF SortKey
    <2>2. ~(c * 1 > 0 * d) /\ c > 0
      BY <1>1, <1>4, <2>1 DEF Higher, lo
    <2> HIDE DEF a, b, c, d
    <2> QED  BY <1>3, <2>2
  <1>6. CASE hi.rps_per_core.n > 0
    <2>1. SortKey(hi).num = a /\ SortKey(hi).den = b
      BY <1>3, <1>6 DEF SortKey
    <2>2. ~(c * b > a * d)
      BY <1>1, <1>4, <2>1 DEF Higher
    <2>3. c * b \in Nat /\ a * d \in Nat
      BY <1>3
    <2>4. a * d >= c * b
      <3> HIDE DEF a, b, c, d
      <3> QED  BY <2>2, <2>3
    <2> QED  BY <1>6, <2>4 DEF hi, lo, a, b, c, d
  <1> QED  BY <1>3, <1>5, <1>6 DEF hi

-----------------------------------------------------------------------------
(* The results files of aggregate.py *)

(* A file made with --framework has trials of that framework only. *)
EnvelopeOK(e, fw) ==
    /\ e.state = "written" /\ TrialList(e.usable)
    /\ e.trials_total = e.discarded_burnin + e.skipped_no_data + Cardinality(DOMAIN e.usable)
    /\ \A i \in DOMAIN e.usable : ~e.usable[i].burn_in /\ TotalRps(e.usable[i]) > 0
    /\ e.filter => \A i \in DOMAIN e.usable : e.usable[i].framework = fw
    /\ e.results = BuildResults(e.usable)

LEMMA UsableFacts ==
    ASSUME NEW ts
    PROVE  /\ DOMAIN Usable(ts) = {i \in DOMAIN ts : ~ts[i].burn_in /\ TotalRps(ts[i]) > 0}
           /\ \A i \in DOMAIN Usable(ts) : Usable(ts)[i] = ts[i]
    BY DEF Usable, RestrictValues, Restrict

LEMMA ChosenFacts ==
    ASSUME NEW ts, NEW fw, NEW filter \in BOOLEAN
    PROVE  /\ DOMAIN Chosen(ts, fw, filter) =
                {i \in DOMAIN ts : Loads(ts[i]) /\ (filter => ts[i].framework = fw)}
           /\ \A i \in DOMAIN Chosen(ts, fw, filter) : Chosen(ts, fw, filter)[i] = ts[i]
    BY DEF Chosen, RestrictValues, Restrict

(* Leaving trials out of a list leaves a list. *)
LEMMA Sublist ==
    ASSUME NEW ts, TrialList(ts), NEW u, DOMAIN u \subseteq DOMAIN ts,
           \A i \in DOMAIN u : u[i] = ts[i]
    PROVE  TrialList(u)
  <1>1. IsFiniteSet(DOMAIN u)
    BY FS_Subset DEF TrialList
  <1> QED  BY <1>1 DEF TrialList

(* The three classes of aggregate.py are a partition of the trials. *)
LEMMA ThreeClasses ==
    ASSUME NEW ts, TrialList(ts)
    PROVE  Cardinality(DOMAIN ts) =
             Cardinality({i \in DOMAIN ts : ts[i].burn_in})
             + Cardinality({i \in DOMAIN ts : ~ts[i].burn_in /\ TotalRps(ts[i]) <= 0})
             + Cardinality(DOMAIN Usable(ts))
  <1> DEFINE D == DOMAIN ts
             B == {i \in D : ts[i].burn_in}
             S == {i \in D : ~ts[i].burn_in /\ TotalRps(ts[i]) <= 0}
             U == {i \in D : ~ts[i].burn_in /\ TotalRps(ts[i]) > 0}
  <1>1. \A i \in D : TotalRps(ts[i]) \in Nat
    BY TrialFacts DEF TrialList
  <1>2. D = (B \union S) \union U /\ B \intersect S = {} /\ (B \union S) \intersect U = {}
    BY <1>1
  <1>3. B \in SUBSET D /\ S \in SUBSET D /\ U \in SUBSET D
    OBVIOUS
  <1>4. IsFiniteSet(B) /\ IsFiniteSet(S) /\ IsFiniteSet(U)
    BY <1>3, FS_Subset DEF TrialList
  <1> HIDE DEF B, S, U
  <1>5. /\ IsFiniteSet(B \union S)
        /\ Cardinality(B \union S) = Cardinality(B) + Cardinality(S) - Cardinality({})
    BY <1>2, <1>4, FS_Union
  <1>6. Cardinality((B \union S) \union U)
          = Cardinality(B \union S) + Cardinality(U) - Cardinality({})
    BY <1>2, <1>4, <1>5, FS_Union
  <1>7. Cardinality({}) = 0 /\ Cardinality(B) \in Nat /\ Cardinality(S) \in Nat /\ Cardinality(U) \in Nat
    BY <1>4, FS_EmptySet, FS_CardinalityType
  <1>8. Cardinality(D) = Cardinality(B) + Cardinality(S) + Cardinality(U)
    BY <1>2, <1>5, <1>6, <1>7
  <1> QED  BY <1>8, UsableFacts DEF B, S, U

(* The file written for a list of trials. *)
LEMMA EnvelopeFacts ==
    ASSUME NEW ts, TrialList(ts), NEW args, NEW filter, NEW fw,
           filter => \A i \in DOMAIN ts : ts[i].framework = fw
    PROVE  EnvelopeOK(Envelope(ts, args, filter), fw)
  <1> DEFINE e == Envelope(ts, args, filter)
             u == Usable(ts)
  <1>1. /\ e.state = "written" /\ e.usable = u /\ e.filter = filter
        /\ e.trials_total = Cardinality(DOMAIN ts)
        /\ e.discarded_burnin = Cardinality({i \in DOMAIN ts : ts[i].burn_in})
        /\ e.skipped_no_data = Cardinality({i \in DOMAIN ts :
                                  ~ts[i].burn_in /\ TotalRps(ts[i]) <= 0})
        /\ e.results = BuildResults(u)
    BY DEF Envelope
  <1>2. TrialList(u)
    BY UsableFacts, Sublist
  <1>3. \A i \in DOMAIN u : ~u[i].burn_in /\ TotalRps(u[i]) > 0
    BY UsableFacts
  <1>4. filter => \A i \in DOMAIN u : u[i].framework = fw
    BY UsableFacts
  <1> HIDE DEF e
  <1>5. e.trials_total = e.discarded_burnin + e.skipped_no_data + Cardinality(DOMAIN u)
    BY <1>1, ThreeClasses
  <1> HIDE DEF u
  <1> QED  BY <1>1, <1>2, <1>3, <1>4, <1>5 DEF EnvelopeOK, e

LEMMA SeqDomain ==
    ASSUME NEW S, NEW q \in Seq(S)
    PROVE  IsFiniteSet(DOMAIN q) /\ DOMAIN q \subseteq Nat
  <1>1. DOMAIN q = 1 .. Len(q) /\ Len(q) \in Nat
    OBVIOUS
  <1>2. IsFiniteSet(1 .. Len(q)) /\ 1 .. Len(q) \subseteq Nat
    BY <1>1, FS_Interval
  <1> QED  BY <1>1, <1>2

(* The trial directories. *)
RunsInv ==
    DOMAIN runs \subseteq 1 .. MaxTrials /\ \A d \in DOMAIN runs : runs[d] \in Kinds

(* What resolve_dir and load_trial read. *)
LEMMA ReadFacts ==
    ASSUME RunsInv, NEW args \in Seq(Nat)
    PROVE  LET named == {i \in DOMAIN args : args[i] \in DOMAIN runs} IN
           /\ TrialList(Read(args))
           /\ named = {} => Read(args) = runs
           /\ named # {} => /\ DOMAIN Read(args) = named
                            /\ \A i \in named : Read(args)[i] = runs[args[i]]
  <1> DEFINE named == {i \in DOMAIN args : args[i] \in DOMAIN runs}
             nm == [i \in named |-> args[i]]
  <1>1. Read(args) = IF DOMAIN nm = {} THEN runs ELSE [i \in DOMAIN nm |-> runs[nm[i]]]
    BY DEF Read, Resolved, RestrictValues, Restrict
  <1>2. DOMAIN nm = named /\ \A i \in named : nm[i] = args[i]
    OBVIOUS
  <1>3. IsFiniteSet(DOMAIN runs) /\ DOMAIN runs \subseteq Nat /\ IsFiniteSet(DOMAIN args)
        /\ DOMAIN args \subseteq Nat
    <2>1. IsFiniteSet(1 .. MaxTrials) /\ 1 .. MaxTrials \subseteq Nat
      BY MaxTrialsAssumption, FS_Interval
    <2>2. IsFiniteSet(DOMAIN runs) /\ DOMAIN runs \subseteq Nat
      BY <2>1, FS_Subset DEF RunsInv
    <2> QED  BY <2>2, SeqDomain
  <1>4. IsFiniteSet(named) /\ named \subseteq Nat
    BY <1>3, FS_Subset
  <1>5. \A d \in DOMAIN runs : runs[d] \in Kinds
    BY DEF RunsInv
  <1>6. named = {} => Read(args) = runs
    BY <1>1, <1>2
  <1>7. named # {} => /\ DOMAIN Read(args) = named
                      /\ \A i \in named : Read(args)[i] = runs[args[i]]
    <2> HIDE DEF nm
    <2> QED  BY <1>1, <1>2
  <1>8. named = {} => TrialList(Read(args))
    BY <1>3, <1>5, <1>6 DEF TrialList
  <1>9. named # {} => TrialList(Read(args))
    BY <1>4, <1>5, <1>7 DEF TrialList
  <1> QED  BY <1>6, <1>7, <1>8, <1>9

(* aggregate.py leaves an empty file, or one that is well formed. *)
LEMMA OutputFacts ==
    ASSUME RunsInv, NEW args \in Seq(Nat), NEW fw, NEW filter \in BOOLEAN
    PROVE  Output(fw, args, filter) = Empty \/ EnvelopeOK(Output(fw, args, filter), fw)
  <1> DEFINE ts == Chosen(Read(args), fw, filter)
  <1>1. TrialList(Read(args))
    BY ReadFacts
  <1>2. /\ DOMAIN ts \subseteq DOMAIN Read(args) /\ \A i \in DOMAIN ts : ts[i] = Read(args)[i]
        /\ filter => \A i \in DOMAIN ts : ts[i].framework = fw
    <2> DEFINE rd == Read(args)
    <2> HIDE DEF rd
    <2>1. /\ DOMAIN Chosen(rd, fw, filter) =
                {i \in DOMAIN rd : Loads(rd[i]) /\ (filter => rd[i].framework = fw)}
          /\ \A i \in DOMAIN Chosen(rd, fw, filter) : Chosen(rd, fw, filter)[i] = rd[i]
      BY ChosenFacts
    <2>2. ts = Chosen(rd, fw, filter)
      BY DEF rd
    <2> HIDE DEF ts
    <2>3. /\ DOMAIN ts \subseteq DOMAIN rd /\ \A i \in DOMAIN ts : ts[i] = rd[i]
          /\ filter => \A i \in DOMAIN ts : ts[i].framework = fw
      BY <2>1, <2>2
    <2> QED  BY <2>3 DEF rd
  <1> HIDE DEF ts
  <1>3. TrialList(ts)
    BY <1>1, <1>2, Sublist
  <1>4. EnvelopeOK(Envelope(ts, args, filter), fw)
    BY <1>2, <1>3, EnvelopeFacts
  <1> QED  BY <1>4 DEF Output, ts

-----------------------------------------------------------------------------
(* The inductive invariant: what every file is, whatever has been run since it
   was written. *)
ResultsInv ==
    /\ DOMAIN results = Names
    /\ \A fw \in Names : \/ results[fw] = Missing \/ results[fw] = Empty
                         \/ EnvelopeOK(results[fw], fw)

AnalysisInv ==
    /\ RunsInv
    /\ ResultsInv
    /\ Table(compare.rows)
    /\ Table(report) /\ InOrder(report)

(* A row is made of the file of its framework, or of no file. *)
LEMMA RowFacts ==
    ASSUME ResultsInv, NEW fw \in Names, results[fw] # Empty
    PROVE  Row(fw).framework = fw /\ RowOK(Row(fw))
  <1>1. CASE results[fw] = Missing
    <2>1. Row(fw) = [framework |-> fw, usable |-> <<>>, rps_per_core |-> NoStatistics]
      BY <1>1 DEF Row
    <2>2. StatOK(NoStatistics)
      BY DEF StatOK, NoStatistics
    <2>3. BuildResults(<<>>).rps_per_core = NoStatistics
      <3>1. WithCores(<<>>) = {} /\ TrialList(<<>>)
        BY FS_EmptySet DEF WithCores, TrialList
      <3> QED  BY <3>1, BuildFacts
    <2>4. /\ Row(fw).framework = fw /\ Row(fw).usable = <<>>
          /\ Row(fw).rps_per_core = NoStatistics
      BY <2>1
    <2> QED  BY <2>2, <2>3, <2>4 DEF RowOK
  <1>2. CASE results[fw] # Missing
    <2> DEFINE e == results[fw]
               s == e.results.rps_per_core
    <2>1. EnvelopeOK(e, fw)
      BY <1>2 DEF ResultsInv
    <2>2. Row(fw) = [framework |-> fw, usable |-> e.usable, rps_per_core |-> s]
      BY <1>2 DEF Row
    <2> HIDE DEF e
    <2>3. StatOK(s)
      BY <2>1, BuildTypes DEF EnvelopeOK
    <2> HIDE DEF s
    <2>4. /\ Row(fw).framework = fw /\ Row(fw).usable = e.usable
          /\ Row(fw).rps_per_core = s
      BY <2>2
    <2>5. s = BuildResults(e.usable).rps_per_core
      BY <2>1 DEF EnvelopeOK, s
    <2> QED  BY <2>3, <2>4, <2>5 DEF RowOK
  <1> QED  BY <1>1, <1>2

(* compare.py works on a list of different frameworks. *)
LEMMA ComparedFacts ==
    ASSUME NEW list \in Lists
    PROVE  LET l == Compared(list) IN
           /\ IsFiniteSet(DOMAIN l) /\ DOMAIN l \subseteq Nat
           /\ \A i \in DOMAIN l : l[i] \in Names
           /\ \A i, j \in DOMAIN l : l[i] = l[j] => i = j
  <1>1. CASE list # <<>>
    <2>1. list \in Seq(Names) /\ \A i, j \in DOMAIN list : list[i] = list[j] => i = j
      BY ListsAssumption DEF IsInjective
    <2>2. \A i \in DOMAIN list : list[i] \in Names
      BY <2>1
    <2> QED  BY <1>1, <2>1, <2>2, SeqDomain DEF Compared
  <1>2. CASE list = <<>>
    <2> DEFINE S == {i \in DOMAIN Frameworks : results[Frameworks[i]] # Missing}
    <2>1. Compared(list) = [i \in S |-> Frameworks[i]]
      BY <1>2 DEF Compared, RestrictValues, Restrict
    <2>2. Frameworks \in Seq(Names) /\ \A i, j \in DOMAIN Frameworks : Frameworks[i] = Frameworks[j] => i = j
      BY FrameworksAssumption DEF IsInjective
    <2>3. \A i \in DOMAIN Frameworks : Frameworks[i] \in Names
      BY <2>2
    <2>4. IsFiniteSet(DOMAIN Frameworks) /\ DOMAIN Frameworks \subseteq Nat
      BY <2>2, SeqDomain
    <2>5. S \subseteq DOMAIN Frameworks
      OBVIOUS
    <2>6. IsFiniteSet(S) /\ S \subseteq Nat
      BY <2>4, <2>5, FS_Subset
    <2> HIDE DEF S
    <2> QED  BY <2>1, <2>2, <2>3, <2>5, <2>6
  <1> QED  BY <1>1, <1>2

(* One row per framework, none of two. *)
LEMMA RowsAreATable ==
    ASSUME ResultsInv, NEW list \in Lists,
           \A i \in DOMAIN Compared(list) : results[Compared(list)[i]] # Empty
    PROVE  LET rows == Rows(Compared(list)) IN
           /\ Table(rows)
           /\ {rows[i].framework : i \in DOMAIN rows} = Range(Compared(list))
  <1> DEFINE l == Compared(list)
             rows == Rows(l)
  <1>1. /\ IsFiniteSet(DOMAIN l) /\ DOMAIN l \subseteq Nat
        /\ \A i \in DOMAIN l : l[i] \in Names
        /\ \A i, j \in DOMAIN l : l[i] = l[j] => i = j
    BY ComparedFacts
  <1>2. \A i \in DOMAIN l : Row(l[i]).framework = l[i] /\ RowOK(Row(l[i]))
    BY <1>1, RowFacts
  <1> HIDE DEF l
  <1>3. DOMAIN rows = DOMAIN l /\ \A i \in DOMAIN l : rows[i] = Row(l[i])
    BY DEF Rows
  <1> HIDE DEF rows
  <1>4. Table(rows)
    BY <1>1, <1>2, <1>3 DEF Table
  <1>5. {rows[i].framework : i \in DOMAIN rows} = {l[i] : i \in DOMAIN l}
    BY <1>2, <1>3
  <1> QED  BY <1>4, <1>5 DEF l, rows, Range

LEMMA EmptyTable == Table(<<>>) /\ InOrder(<<>>)
  <1>1. DOMAIN <<>> = {}
    OBVIOUS
  <1> QED  BY <1>1, FS_EmptySet DEF Table, InOrder

LEMMA AnalysisInit == Init => AnalysisInv
  <1> SUFFICES ASSUME Init PROVE AnalysisInv
    OBVIOUS
  <1>1. RunsInv
    BY DEF Init, RunsInv
  <1>2. ResultsInv
    BY DEF Init, ResultsInv
  <1>3. compare.rows = <<>> /\ report = <<>>
    BY DEF Init
  <1> QED  BY <1>1, <1>2, <1>3, EmptyTable DEF AnalysisInv

(* Every program leaves the invariant: each writes one file and reads files that
   the invariant says are well formed. *)
LEMMA AnalysisStep == AnalysisInv /\ [Next]_vars => AnalysisInv'
  <1> SUFFICES ASSUME AnalysisInv, [Next]_vars PROVE AnalysisInv'
    OBVIOUS
  <1>inv. /\ RunsInv /\ ResultsInv
          /\ Table(compare.rows) /\ Table(report) /\ InOrder(report)
    BY DEF AnalysisInv
  <1>1. CASE AddTrial
    <2>1. RunsInv'
      BY <1>1, <1>inv DEF AddTrial, RunsInv
    <2>2. UNCHANGED <<results, compare, report>>
      BY <1>1 DEF AddTrial
    <2> QED  BY <1>inv, <2>1, <2>2 DEF AnalysisInv, ResultsInv
  <1>2. CASE Report
    <2>1. report' = Ranked(compare.rows) /\ UNCHANGED <<runs, results, compare>>
      BY <1>2 DEF Report
    <2>2. Table(Ranked(compare.rows)) /\ InOrder(Ranked(compare.rows))
      BY <1>inv, RankedIsTable, RankedIsInOrder
    <2> QED  BY <1>inv, <2>1, <2>2 DEF AnalysisInv, RunsInv, ResultsInv
  <1>3. ASSUME NEW fw \in Names, NEW args \in Arguments, NEW filter \in BOOLEAN,
               Aggregate(fw, args, filter)
        PROVE  AnalysisInv'
    <2> DEFINE out == Output(fw, args, filter)
    <2>1. results' = [results EXCEPT ![fw] = out] /\ UNCHANGED <<runs, compare, report>>
      BY <1>3 DEF Aggregate
    <2>2. out = Empty \/ EnvelopeOK(out, fw)
      BY <1>inv, ArgumentsAssumption, OutputFacts
    <2> HIDE DEF out
    <2>3. ResultsInv'
      BY <1>inv, <2>1, <2>2 DEF ResultsInv
    <2> QED  BY <1>inv, <2>1, <2>3 DEF AnalysisInv, RunsInv
  <1>4. ASSUME NEW list \in Lists, Compare(list) PROVE AnalysisInv'
    <2>1. /\ compare' = [list |-> list, rows |-> Rows(Compared(list))]
          /\ UNCHANGED <<runs, results, report>>
          /\ \A i \in DOMAIN Compared(list) : results[Compared(list)[i]] # Empty
      BY <1>4 DEF Compare
    <2>2. Table(Rows(Compared(list)))
      BY <1>inv, <2>1, RowsAreATable
    <2>3. compare'.rows = Rows(Compared(list))
      BY <2>1
    <2>4. Table(compare'.rows)
      BY <2>2, <2>3
    <2> QED  BY <1>inv, <2>1, <2>4 DEF AnalysisInv, RunsInv, ResultsInv
  <1>5. CASE UNCHANGED vars
    BY <1>5, <1>inv DEF vars, AnalysisInv, RunsInv, ResultsInv
  <1> QED  BY <1>1, <1>2, <1>3, <1>4, <1>5 DEF Next

(* What each file is holds whatever is run, in any order and any number of times. *)
THEOREM FilesAreWellFormed == Spec => []AnalysisInv
  <1> QED  BY AnalysisInit, AnalysisStep, PTL DEF Spec

-----------------------------------------------------------------------------
(* The properties *)

LEMMA WrittenFacts ==
    ASSUME ResultsInv
    PROVE  /\ \A fw \in Names : results[fw].state \in {"missing", "empty", "written"}
           /\ \A fw \in Written : EnvelopeOK(results[fw], fw)
  <1>1. Missing.state = "missing" /\ Empty.state = "empty"
    BY DEF Missing, Empty
  <1>2. \A fw \in Names : EnvelopeOK(results[fw], fw) => results[fw].state = "written"
    BY DEF EnvelopeOK
  <1> QED  BY <1>1, <1>2 DEF ResultsInv, Written

(* The files and the tables have their types: no row is of an unknown framework,
   and no mean is over more values than there were trials. *)
THEOREM AnalysisTyping == Spec => []TypeOK
  <1>1. AnalysisInv => TypeOK
    <2> SUFFICES ASSUME AnalysisInv PROVE TypeOK
      OBVIOUS
    <2>1. /\ \A fw \in Names : results[fw].state \in {"missing", "empty", "written"}
          /\ \A fw \in Written : EnvelopeOK(results[fw], fw)
      BY WrittenFacts DEF AnalysisInv
    <2>2. ASSUME NEW fw \in Written
          PROVE  results[fw].results.rps.n <= Cardinality(DOMAIN results[fw].usable)
      <3>1. EnvelopeOK(results[fw], fw)
        BY <2>1
      <3>2. TrialList(results[fw].usable) /\ results[fw].results = BuildResults(results[fw].usable)
        BY <3>1 DEF EnvelopeOK
      <3>3. BuildResults(results[fw].usable).rps.n <= Cardinality(DOMAIN results[fw].usable)
        BY <3>2, BuildTypes
      <3> QED  BY <3>2, <3>3
    <2>3. /\ \A i \in DOMAIN compare.rows : compare.rows[i].framework \in Names
          /\ \A i \in DOMAIN report : report[i].framework \in Names
      BY DEF AnalysisInv, Table, RowOK
    <2> QED  BY <2>1, <2>2, <2>3 DEF TypeOK, AnalysisInv, RunsInv, ResultsInv
  <1> QED  BY <1>1, FilesAreWellFormed, PTL

(* The counts aggregate.py prints add up for any list of trials, and no burn-in
   or dead trial is in a mean. *)
THEOREM CountsAddUp == Spec => []TrialsAccountedFor
  <1>1. AnalysisInv => TrialsAccountedFor
    BY WrittenFacts DEF AnalysisInv, TrialsAccountedFor, EnvelopeOK
  <1> QED  BY <1>1, FilesAreWellFormed, PTL

(* The published table is in order and has no framework twice, for any number of
   frameworks, ties and missing values included. *)
THEOREM TableIsRanked == Spec => []MatrixIsRanked
  <1>1. AnalysisInv => MatrixIsRanked
    <2> SUFFICES ASSUME AnalysisInv, NEW i \in DOMAIN report, NEW j \in DOMAIN report, i < j
                 PROVE  /\ report[j].rps_per_core.n > 0 /\ report[j].rps_per_core.num > 0 =>
                             /\ report[i].rps_per_core.n > 0
                             /\ report[i].rps_per_core.num * report[j].rps_per_core.den
                                  >= report[j].rps_per_core.num * report[i].rps_per_core.den
                        /\ report[i].framework # report[j].framework
      BY DEF MatrixIsRanked
    <2>1. Table(report) /\ InOrder(report)
      BY DEF AnalysisInv
    <2>2. i \in Nat /\ j \in Nat
      BY <2>1 DEF Table
    <2>3. i # j
      BY <2>2
    <2>4. report[i].framework # report[j].framework
      BY <2>1, <2>3 DEF Table
    <2> QED  BY <2>1, <2>4 DEF InOrder
  <1> QED  BY <1>1, FilesAreWellFormed, PTL

(* No step of the pipeline loses a framework: compare.py has a row for each it
   was asked for, and report.py publishes every row. *)
THEOREM EveryFrameworkIsShown == Spec => NothingLeftOut
  <1> DEFINE Kept ==
        /\ compare' # compare =>
             {compare'.rows[i].framework : i \in DOMAIN compare'.rows} = Range(Compared(compare'.list))
        /\ report' # report =>
             /\ Range(report') = Range(compare.rows)
             /\ Cardinality(DOMAIN report') = Cardinality(DOMAIN compare.rows)
  <1>1. AnalysisInv /\ [Next]_vars => Kept
    <2> SUFFICES ASSUME AnalysisInv, [Next]_vars PROVE Kept
      OBVIOUS
    <2>1. CASE UNCHANGED <<compare, report>>
      BY <2>1
    <2>2. CASE Report
      <3>1. report' = Ranked(compare.rows) /\ compare' = compare
        BY <2>2 DEF Report
      <3>2. /\ Range(Ranked(compare.rows)) = Range(compare.rows)
            /\ Cardinality(DOMAIN Ranked(compare.rows)) = Cardinality(DOMAIN compare.rows)
        BY RankedIsTable DEF AnalysisInv
      <3> QED  BY <3>1, <3>2
    <2>3. ASSUME NEW list \in Lists, Compare(list) PROVE Kept
      <3>1. /\ compare' = [list |-> list, rows |-> Rows(Compared(list))]
            /\ report' = report
            /\ \A i \in DOMAIN Compared(list) : results[Compared(list)[i]] # Empty
        BY <2>3 DEF Compare
      <3>2. {Rows(Compared(list))[i].framework : i \in DOMAIN Rows(Compared(list))}
              = Range(Compared(list))
        BY <3>1, RowsAreATable DEF AnalysisInv
      <3>3. compare'.list = list /\ compare'.rows = Rows(Compared(list))
        BY <3>1
      <3> QED  BY <3>1, <3>2, <3>3
    <2> QED  BY <2>1, <2>2, <2>3 DEF Next, AddTrial, Aggregate, vars
  <1> QED  BY <1>1, FilesAreWellFormed, PTL DEF Spec, NothingLeftOut

(* The trials of a list that the file is made of. *)
LEMMA RangeOfUsable ==
    ASSUME NEW ts, NEW fw, NEW filter \in BOOLEAN
    PROVE  Range(Usable(Chosen(ts, fw, filter))) =
             {ts[i] : i \in {i \in DOMAIN ts :
                /\ Loads(ts[i]) /\ (filter => ts[i].framework = fw)
                /\ ~ts[i].burn_in /\ TotalRps(ts[i]) > 0}}
  <1> DEFINE c == Chosen(ts, fw, filter)
             u == Usable(c)
  <1>1. /\ DOMAIN c = {i \in DOMAIN ts : Loads(ts[i]) /\ (filter => ts[i].framework = fw)}
        /\ \A i \in DOMAIN c : c[i] = ts[i]
    BY ChosenFacts
  <1> HIDE DEF c
  <1>2. /\ DOMAIN u = {i \in DOMAIN c : ~c[i].burn_in /\ TotalRps(c[i]) > 0}
        /\ \A i \in DOMAIN u : u[i] = c[i]
    BY UsableFacts
  <1> HIDE DEF u
  <1>3. DOMAIN u = {i \in DOMAIN ts :
                      /\ Loads(ts[i]) /\ (filter => ts[i].framework = fw)
                      /\ ~ts[i].burn_in /\ TotalRps(ts[i]) > 0}
    BY <1>1, <1>2
  <1>4. \A i \in DOMAIN u : u[i] = ts[i]
    BY <1>1, <1>2
  <1>5. {u[i] : i \in DOMAIN u} = {ts[i] : i \in DOMAIN u}
    BY <1>4
  <1> QED  BY <1>3, <1>5 DEF Range, c, u

(* A trial that aggregate.py uses, as FileIsWhatWasAsked says it. *)
Counts(t, fw, filter) ==
    /\ t.summary /\ ~t.burn_in /\ t.secs > 0 /\ t.reqs > 0
    /\ filter => t.framework = fw

LEMMA CountsFacts ==
    ASSUME NEW t \in Kinds, NEW fw, NEW filter \in BOOLEAN
    PROVE  Counts(t, fw, filter) <=> /\ Loads(t) /\ (filter => t.framework = fw)
                                     /\ ~t.burn_in /\ TotalRps(t) > 0
  <1>1. t.secs \in Nat /\ t.reqs \in Nat
    BY KindsAssumption
  <1>2. TotalRps(t) > 0 <=> t.secs > 0 /\ t.reqs > 0
    BY <1>1 DEF TotalRps
  <1> QED  BY <1>2 DEF Counts, Loads

LEMMA UsesWhatIsAsked ==
    ASSUME RunsInv, NEW args \in Seq(Nat), NEW fw, NEW filter \in BOOLEAN
    PROVE  LET here == {d \in Range(args) : d \in DOMAIN runs}
               asked == IF here = {} THEN DOMAIN runs ELSE here
           IN  Range(Usable(Chosen(Read(args), fw, filter))) =
                 {runs[d] : d \in {d \in asked : Counts(runs[d], fw, filter)}}
  <1> DEFINE here == {d \in Range(args) : d \in DOMAIN runs}
             named == {i \in DOMAIN args : args[i] \in DOMAIN runs}
             rd == Read(args)
             U == Range(Usable(Chosen(rd, fw, filter)))
  <1>1. here = {args[i] : i \in named}
    BY DEF Range
  <1>2. /\ TrialList(rd)
        /\ named = {} => rd = runs
        /\ named # {} => DOMAIN rd = named /\ \A i \in named : rd[i] = runs[args[i]]
    BY ReadFacts
  <1> HIDE DEF here, named, rd
  <1>3. U = {rd[i] : i \in {i \in DOMAIN rd : Counts(rd[i], fw, filter)}}
    <2> DEFINE S == {i \in DOMAIN rd : Counts(rd[i], fw, filter)}
               T == {i \in DOMAIN rd : /\ Loads(rd[i]) /\ (filter => rd[i].framework = fw)
                                       /\ ~rd[i].burn_in /\ TotalRps(rd[i]) > 0}
    <2>1. U = {rd[i] : i \in T}
      BY RangeOfUsable
    <2>2. \A i \in DOMAIN rd : rd[i] \in Kinds
      BY <1>2 DEF TrialList
    <2>3. S = T
      BY <2>2, CountsFacts
    <2> HIDE DEF S, T, U
    <2>4. U = {rd[i] : i \in S}
      BY <2>1, <2>3
    <2> QED  BY <2>4 DEF S
  <1> HIDE DEF U
  <1>4. CASE named = {}
    <2>1. here = {} /\ rd = runs
      BY <1>1, <1>2, <1>4
    <2>2. U = {runs[d] : d \in {d \in DOMAIN runs : Counts(runs[d], fw, filter)}}
      BY <1>3, <2>1
    <2> QED  BY <2>1, <2>2 DEF U, here, rd
  <1>5. CASE named # {}
    <2>1. here # {}
      BY <1>1, <1>5
    <2>2. U = {runs[d] : d \in {d \in here : Counts(runs[d], fw, filter)}}
      BY <1>1, <1>2, <1>3, <1>5
    <2> QED  BY <2>1, <2>2 DEF U, here, rd
  <1> QED  BY <1>4, <1>5

(* A results file is made of exactly the trials it was asked for, for any
   arguments, whatever trials there are. *)
THEOREM FilesAreComplete == Spec => FileIsWhatWasAsked
  <1> DEFINE Asked(fw) ==
        LET e == results'[fw] IN
        e # results[fw] /\ e.state = "written" =>
          LET here == {d \in Range(e.args) : d \in DOMAIN runs}
              asked == IF here = {} THEN DOMAIN runs ELSE here
          IN  Range(e.usable) = {runs[d] : d \in {d \in asked : Counts(runs[d], fw, e.filter)}}
  <1>1. AnalysisInv /\ [Next]_vars => \A fw \in Names : Asked(fw)
    <2> SUFFICES ASSUME AnalysisInv, [Next]_vars, NEW fw \in Names PROVE Asked(fw)
      OBVIOUS
    <2>1. CASE results' = results
      BY <2>1
    <2>2. ASSUME NEW g \in Names, NEW args \in Arguments, NEW filter \in BOOLEAN,
                 Aggregate(g, args, filter)
          PROVE  Asked(fw)
      <3>1. results' = [results EXCEPT ![g] = Output(g, args, filter)]
        BY <2>2 DEF Aggregate
      <3>2. CASE g # fw
        BY <3>1, <3>2 DEF AnalysisInv, ResultsInv
      <3>3. CASE g = fw
        <4> DEFINE ts == Chosen(Read(args), fw, filter)
                   e == Envelope(ts, args, filter)
        <4>1. results'[fw] = Output(fw, args, filter)
          BY <3>1, <3>3 DEF AnalysisInv, ResultsInv
        <4>2. Output(fw, args, filter) = Empty \/ Output(fw, args, filter) = e
          BY DEF Output
        <4>3. e.usable = Usable(ts) /\ e.args = args /\ e.filter = filter
          BY DEF Envelope
        <4>4. RunsInv /\ args \in Seq(Nat)
          BY ArgumentsAssumption DEF AnalysisInv
        <4>5. LET here == {d \in Range(args) : d \in DOMAIN runs}
                  asked == IF here = {} THEN DOMAIN runs ELSE here
              IN  Range(Usable(ts)) = {runs[d] : d \in {d \in asked : Counts(runs[d], fw, filter)}}
          BY <4>4, UsesWhatIsAsked
        <4>6. Empty.state # "written"
          BY DEF Empty
        <4> HIDE DEF e, ts
        <4>7. results'[fw].state = "written" => results'[fw] = e
          BY <4>1, <4>2, <4>6
        <4> QED  BY <4>3, <4>5, <4>7
      <3> QED  BY <3>2, <3>3
    <2> QED  BY <2>1, <2>2 DEF Next, AddTrial, Report, Compare, vars
  <1>2. (\A fw \in Names : Asked(fw)) =>
          \A fw \in Names : LET e == results'[fw] IN
            e # results[fw] /\ e.state = "written" =>
              LET here == {d \in Range(e.args) : d \in DOMAIN runs}
                  asked == IF here = {} THEN DOMAIN runs ELSE here
              IN  Range(e.usable) =
                    {runs[d] : d \in {d \in asked :
                       /\ runs[d].summary /\ ~runs[d].burn_in
                       /\ runs[d].secs > 0 /\ runs[d].reqs > 0
                       /\ e.filter => runs[d].framework = fw}}
    BY DEF Counts
  <1> HIDE DEF Asked
  <1> QED  BY <1>1, <1>2, FilesAreWellFormed, PTL DEF Spec, FileIsWhatWasAsked
=============================================================================
