-------------------------- MODULE OrderItemsProofs --------------------------
(***************************************************************************)
(* Facts about OrderItems: what its recursion computes, by induction over  *)
(* the natural numbers.                                                    *)
(***************************************************************************)
EXTENDS OrderItems, WellFoundedInduction, TLAPS

-----------------------------------------------------------------------------
(* Induction over the natural numbers, as a fact about sets of them. *)

LEMMA Least ==
    ASSUME NEW T \in SUBSET Nat, T # {}
    PROVE  \E n \in T : \A m \in T : n <= m
  <1>1. PICK n \in T : \A m \in T : ~(<<m, n>> \in OpToRel(<, Nat))
    BY NatLessThanWellFounded, WFMin, Zenon
  <1>2. \A m \in T : ~(m < n)
    BY <1>1, Zenon DEF OpToRel
  <1> QED  BY <1>2

LEMMA Induction ==
    ASSUME NEW S, 0 \in S, \A n \in Nat : n \in S => n + 1 \in S
    PROVE  Nat \subseteq S
  <1> SUFFICES ASSUME Nat \ S # {} PROVE FALSE
    OBVIOUS
  <1>1. PICK n \in Nat \ S : \A m \in Nat \ S : n <= m
    BY Least
  <1>2. n # 0 /\ n - 1 \in Nat /\ n - 1 \notin Nat \ S
    BY <1>1
  <1>3. (n - 1) + 1 \in S /\ (n - 1) + 1 = n
    BY <1>2
  <1> QED  BY <1>1, <1>3

-----------------------------------------------------------------------------
(* Recursion over 0 .. n: s[0] = base and s[i] = g[i, s[i - 1]]. *)

Solves(s, n, base, g) ==
    /\ s[0] = base
    /\ \A i \in 1 .. n : s[i] = g[<<i, s[i - 1]>>]

LEMMA Recursion ==
    ASSUME NEW n \in Nat, NEW V, NEW base \in V, NEW g \in [(1 .. n) \X V -> V]
    PROVE  \E s \in [0 .. n -> V] : Solves(s, n, base, g)
  <1> DEFINE S == {k \in Nat : k <= n => \E s \in [0 .. k -> V] : Solves(s, k, base, g)}
  <1>1. 0 \in S
    <2> DEFINE s == [i \in 0 .. 0 |-> base]
    <2>1. s \in [0 .. 0 -> V] /\ Solves(s, 0, base, g)
      BY DEF Solves
    <2> QED  BY <2>1
  <1>2. ASSUME NEW k \in Nat, k \in S PROVE k + 1 \in S
    <2> SUFFICES ASSUME k + 1 <= n
                 PROVE  \E s \in [0 .. (k + 1) -> V] : Solves(s, k + 1, base, g)
      OBVIOUS
    <2>1. PICK s \in [0 .. k -> V] : Solves(s, k, base, g)
      BY <1>2
    <2> DEFINE v == g[<<k + 1, s[k]>>]
               t == [i \in 0 .. (k + 1) |-> IF i = k + 1 THEN v ELSE s[i]]
    <2>2. v \in V
      <3>1. k + 1 \in 1 .. n /\ s[k] \in V
        BY <2>1
      <3> QED  BY <3>1
    <2> HIDE DEF v
    <2>3. t \in [0 .. (k + 1) -> V]
      BY <2>1, <2>2
    <2>4. t[k + 1] = v /\ \A i \in 0 .. k : t[i] = s[i]
      OBVIOUS
    <2> HIDE DEF t
    <2>5. ASSUME NEW i \in 1 .. (k + 1) PROVE t[i] = g[<<i, t[i - 1]>>]
      <3>1. CASE i = k + 1
        <4>1. i - 1 = k /\ k \in 0 .. k
          BY <3>1
        <4> QED  BY <2>4, <3>1, <4>1 DEF v
      <3>2. CASE i \in 1 .. k
        <4>1. t[i] = s[i] /\ t[i - 1] = s[i - 1]
          BY <2>4, <3>2
        <4> QED  BY <2>1, <3>2, <4>1 DEF Solves
      <3> QED  BY <3>1, <3>2
    <2>6. Solves(t, k + 1, base, g)
      BY <2>1, <2>4, <2>5 DEF Solves
    <2> QED  BY <2>3, <2>6
  <1>3. n \in S
    <2> HIDE DEF S
    <2>1. Nat \subseteq S
      BY <1>1, <1>2, Induction
    <2> QED  BY <2>1
  <1> QED  BY <1>3

-----------------------------------------------------------------------------
(* The running total of the units an order asks for. *)

Amounts(items) ==
    /\ Len(items) \in Nat
    /\ \A i \in 1 .. Len(items) : items[i].quantity \in Nat

RunningTotal(u, items, p) ==
    u = [i \in 0 .. Len(items) |-> IF i = 0 THEN 0 ELSE u[i - 1] + Part(items, p, i)]

LEMMA Parts ==
    ASSUME NEW items, Amounts(items), NEW p, NEW i \in 1 .. Len(items)
    PROVE  Part(items, p, i) \in Nat
  BY DEF Part, Amounts

LEMMA RunningTotalExists ==
    ASSUME NEW items, Amounts(items), NEW p
    PROVE  \E u : RunningTotal(u, items, p)
  <1> DEFINE n == Len(items)
             a == [i \in 1 .. n |-> Part(items, p, i)]
             g == [x \in (1 .. n) \X Nat |-> x[2] + a[x[1]]]
  <1>1. n \in Nat
    BY DEF Amounts
  <1>2. a \in [1 .. n -> Nat]
    BY Parts
  <1>3. \A i \in 1 .. n : a[i] = Part(items, p, i)
    OBVIOUS
  <1> HIDE DEF n, a
  <1>4. g \in [(1 .. n) \X Nat -> Nat]
    BY <1>2
  <1>5. PICK u \in [0 .. n -> Nat] : Solves(u, n, 0, g)
    <2> HIDE DEF g
    <2> QED  BY <1>1, <1>4, Recursion
  <1>6. \A i \in 1 .. n : u[i] = u[i - 1] + Part(items, p, i)
    <2> TAKE i \in 1 .. n
    <2>1. u[i - 1] \in Nat /\ i \in 1 .. n
      BY <1>1, <1>5
    <2>2. g[<<i, u[i - 1]>>] = u[i - 1] + a[i]
      BY <2>1
    <2> QED  BY <1>3, <1>5, <2>2 DEF Solves
  <1> DEFINE w == [i \in 0 .. n |-> IF i = 0 THEN 0 ELSE u[i - 1] + Part(items, p, i)]
  <1>7. \A i \in 0 .. n : u[i] = w[i]
    BY <1>1, <1>5, <1>6 DEF Solves
  <1>8. u = w
    BY <1>5, <1>7
  <1> QED  BY <1>8 DEF RunningTotal, n

LEMMA UnitsFacts ==
    ASSUME NEW items, Amounts(items), NEW p
    PROVE  /\ UnitsUpTo(items, p)[0] = 0
           /\ \A i \in 1 .. Len(items) :
                 UnitsUpTo(items, p)[i] = UnitsUpTo(items, p)[i - 1] + Part(items, p, i)
           /\ \A i \in 0 .. Len(items) : UnitsUpTo(items, p)[i] \in Nat
  <1> DEFINE u == UnitsUpTo(items, p)
             n == Len(items)
  <1>1. RunningTotal(u, items, p)
    <2>1. u = CHOOSE t : RunningTotal(t, items, p)
      BY Zenon DEF UnitsUpTo, RunningTotal
    <2> QED  BY <2>1, RunningTotalExists
  <1>2. n \in Nat /\ \A i \in 1 .. n : Part(items, p, i) \in Nat
    BY Parts DEF Amounts
  <1>w. u = [i \in 0 .. n |-> IF i = 0 THEN 0 ELSE u[i - 1] + Part(items, p, i)]
    BY <1>1 DEF RunningTotal
  <1> HIDE DEF u, n
  <1>3. u[0] = 0
    BY <1>2, <1>w
  <1>4. \A i \in 1 .. n : u[i] = u[i - 1] + Part(items, p, i)
    <2> TAKE i \in 1 .. n
    <2> DEFINE w == [j \in 0 .. n |-> IF j = 0 THEN 0 ELSE u[j - 1] + Part(items, p, j)]
    <2>1. u = w
      BY <1>w
    <2>2. w[i] = u[i - 1] + Part(items, p, i)
      BY <1>2
    <2> HIDE DEF w
    <2> QED  BY <2>1, <2>2
  <1>5. \A i \in 0 .. n : u[i] \in Nat
    <2> DEFINE S == {k \in Nat : k <= n => u[k] \in Nat}
    <2>1. 0 \in S
      BY <1>3
    <2>2. ASSUME NEW k \in Nat, k \in S PROVE k + 1 \in S
      <3> SUFFICES ASSUME k + 1 <= n PROVE u[k + 1] \in Nat
        OBVIOUS
      <3>1. k + 1 \in 1 .. n /\ u[k] \in Nat /\ (k + 1) - 1 = k
        BY <1>2, <2>2
      <3>2. u[k + 1] = u[k] + Part(items, p, k + 1)
        BY <1>4, <3>1
      <3> QED  BY <1>2, <3>1, <3>2
    <2>3. Nat \subseteq S
      <3> HIDE DEF S
      <3> QED  BY <2>1, <2>2, Induction
    <2> QED  BY <1>2, <2>3
  <1> QED  BY <1>3, <1>4, <1>5 DEF u, n

LEMMA UnitsGrow ==
    ASSUME NEW items, Amounts(items), NEW p, NEW i \in 0 .. Len(items)
    PROVE  UnitsUpTo(items, p)[i] <= Units(items, p)
  <1> DEFINE u == UnitsUpTo(items, p)
             S == {n \in Nat : i + n <= Len(items) => u[i] <= u[i + n]}
  <1>1. /\ \A j \in 1 .. Len(items) : u[j] = u[j - 1] + Part(items, p, j)
        /\ \A j \in 0 .. Len(items) : u[j] \in Nat
    BY UnitsFacts
  <1> HIDE DEF u
  <1>2. Len(items) \in Nat /\ i \in Nat /\ i + 0 = i /\ u[i] \in Nat
    BY <1>1
  <1>3. 0 \in S
    BY <1>2
  <1>4. ASSUME NEW n \in Nat, n \in S PROVE n + 1 \in S
    <2> SUFFICES ASSUME i + (n + 1) <= Len(items) PROVE u[i] <= u[i + (n + 1)]
      BY <1>2
    <2>1. /\ i + (n + 1) \in 1 .. Len(items) /\ i + n \in 0 .. Len(items)
          /\ (i + (n + 1)) - 1 = i + n /\ u[i] <= u[i + n]
      BY <1>2, <1>4
    <2>2. u[i + (n + 1)] = u[i + n] + Part(items, p, i + (n + 1))
      BY <1>1, <2>1
    <2>3. Part(items, p, i + (n + 1)) \in Nat /\ u[i + n] \in Nat
      BY <1>1, <2>1, Parts
    <2> QED  BY <1>2, <2>1, <2>2, <2>3
  <1>5. Nat \subseteq S
    <2> HIDE DEF S
    <2> QED  BY <1>3, <1>4, Induction
  <1>6. Len(items) - i \in S /\ i + (Len(items) - i) = Len(items)
    <2>1. Len(items) - i \in Nat
      BY <1>2
    <2> QED  BY <1>2, <1>5, <2>1
  <1> QED  BY <1>6 DEF u, Units

(* What the first items take of a product, some item among them asks for. *)
LEMMA UnitsHaveAnItem ==
    ASSUME NEW items, Amounts(items), NEW p, NEW i \in 0 .. Len(items),
           UnitsUpTo(items, p)[i] # 0
    PROVE  \E j \in 1 .. i : items[j].product = p
  <1> SUFFICES ASSUME \A j \in 1 .. i : items[j].product # p PROVE FALSE
    OBVIOUS
  <1> DEFINE u == UnitsUpTo(items, p)
             S == {n \in Nat : n <= i => u[n] = 0}
  <1>1. /\ u[0] = 0 /\ Len(items) \in Nat
        /\ \A j \in 1 .. Len(items) : u[j] = u[j - 1] + Part(items, p, j)
    BY UnitsFacts
  <1> HIDE DEF u
  <1>2. 0 \in S
    BY <1>1
  <1>3. ASSUME NEW n \in Nat, n \in S PROVE n + 1 \in S
    <2> SUFFICES ASSUME n + 1 <= i PROVE u[n + 1] = 0
      OBVIOUS
    <2>1. /\ n + 1 \in 1 .. i /\ n + 1 \in 1 .. Len(items) /\ (n + 1) - 1 = n
          /\ u[n] = 0
      BY <1>1, <1>3
    <2>2. Part(items, p, n + 1) = 0
      BY <2>1 DEF Part
    <2>3. u[n + 1] = u[n] + Part(items, p, n + 1)
      BY <1>1, <2>1
    <2> QED  BY <2>1, <2>2, <2>3
  <1>4. Nat \subseteq S
    <2> HIDE DEF S
    <2> QED  BY <1>2, <1>3, Induction
  <1>5. u[i] = 0
    BY <1>4
  <1> QED  BY <1>5 DEF u

(* One item more adds what it asks for. *)
LEMMA UnitsOfOneMore ==
    ASSUME NEW a, Amounts(a), NEW b, Amounts(b), NEW p, Len(b) = Len(a) + 1,
           \A i \in 1 .. Len(a) : Part(b, p, i) = Part(a, p, i)
    PROVE  Units(b, p) = Units(a, p) + Part(b, p, Len(b))
  <1> DEFINE n == Len(a)
             u == UnitsUpTo(a, p)
             w == UnitsUpTo(b, p)
             S == {k \in Nat : k <= n => w[k] = u[k]}
  <1>1. /\ n \in Nat /\ u[0] = 0 /\ w[0] = 0
        /\ \A j \in 1 .. n : u[j] = u[j - 1] + Part(a, p, j)
        /\ \A j \in 1 .. n + 1 : w[j] = w[j - 1] + Part(b, p, j)
    BY UnitsFacts DEF Amounts
  <1>2. \A j \in 1 .. n : Part(b, p, j) = Part(a, p, j)
    OBVIOUS
  <1> HIDE DEF n, u, w
  <1>3. 0 \in S
    BY <1>1
  <1>4. ASSUME NEW k \in Nat, k \in S PROVE k + 1 \in S
    <2> SUFFICES ASSUME k + 1 <= n PROVE w[k + 1] = u[k + 1]
      OBVIOUS
    <2>1. /\ k + 1 \in 1 .. n /\ k + 1 \in 1 .. n + 1 /\ (k + 1) - 1 = k
          /\ w[k] = u[k]
      BY <1>1, <1>4
    <2> QED  BY <1>1, <1>2, <2>1
  <1>5. Nat \subseteq S
    <2> HIDE DEF S
    <2> QED  BY <1>3, <1>4, Induction
  <1>6. w[n] = u[n] /\ n + 1 \in 1 .. n + 1 /\ (n + 1) - 1 = n
    BY <1>1, <1>5
  <1>7. w[n + 1] = u[n] + Part(b, p, n + 1)
    BY <1>1, <1>6
  <1> QED  BY <1>7 DEF n, u, w, Units
=============================================================================
