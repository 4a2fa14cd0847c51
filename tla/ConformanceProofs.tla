------------------------- MODULE ConformanceProofs --------------------------
(***************************************************************************)
(* Proofs about Conformance, for every seed, every other client and any    *)
(* number of requests, restarts, faults and late answers.                  *)
(***************************************************************************)
EXTENDS Conformance, OrderItemsProofs, FiniteSetTheorems

-----------------------------------------------------------------------------
(* The calls of the suite. *)

LEMMA NoBodyType == NoBody \in Posted /\ NoCall \in Request /\ NoCall.id = 0
  <1>1. <<>> \in Seq(Item)
    OBVIOUS
  <1> QED  BY <1>1, WordsAssumption DEF NoBody, NoCall, Posted, Request, Routes

LEMMA BodyTypes ==
    /\ Body(<<"p1", "p2">>) \in Posted /\ Body(<<"p3">>) \in Posted
    /\ Body(<<"p4">>) \in Posted
    /\ Body(<<"p1", "p2">>).items =
          <<[product |-> "p1", quantity |-> 1], [product |-> "p2", quantity |-> 1]>>
    /\ Body(<<"p3">>).items = <<[product |-> "p3", quantity |-> 1]>>
    /\ Body(<<"p1", "p2">>).customer = "known" /\ Body(<<"p3">>).customer = "known"
    /\ Body(<<"p1", "p2">>).form = "object" /\ Body(<<"p3">>).form = "object"
  <1> DEFINE One(p) == <<[product |-> p, quantity |-> 1]>>
             Two == <<[product |-> "p1", quantity |-> 1], [product |-> "p2", quantity |-> 1]>>
             Made(items) == [form |-> "object", customer |-> "known", items |-> items]
  <1>1. Body(<<"p3">>) = Made(One("p3")) /\ Body(<<"p4">>) = Made(One("p4"))
    BY DEF Body
  <1>2. Body(<<"p1", "p2">>) = Made(Two)
    BY DEF Body
  <1>3. Two \in Seq(Item) /\ One("p3") \in Seq(Item) /\ One("p4") \in Seq(Item)
    BY WordsAssumption DEF Item
  <1>4. \A s \in Seq(Item) : /\ Made(s) \in Posted /\ Made(s).items = s
                             /\ Made(s).customer = "known" /\ Made(s).form = "object"
    BY WordsAssumption DEF Posted
  <1> HIDE DEF Made
  <1>5. /\ Made(Two) \in Posted /\ Made(Two).items = Two
        /\ Made(Two).customer = "known" /\ Made(Two).form = "object"
    BY <1>3, <1>4, Zenon
  <1>6. /\ Made(One("p3")) \in Posted /\ Made(One("p3")).items = One("p3")
        /\ Made(One("p3")).customer = "known" /\ Made(One("p3")).form = "object"
        /\ Made(One("p4")) \in Posted
    BY <1>3, <1>4, Zenon
  <1> QED  BY <1>1, <1>2, <1>5, <1>6, Zenon

(* What the tests ask and want. *)
LEMMA TestFacts ==
    ASSUME NEW id \in Int
    PROVE  /\ Tests(id)[1] = [call |-> Get(id, "health", "none"), want |-> 200, kind |-> "ok"]
           /\ Tests(id)[2] = [call |-> Get(id, "json", "none"), want |-> 200, kind |-> "service"]
           /\ Tests(id)[3] = [call |-> Get(id, "product", "p1"), want |-> 200, kind |-> "product"]
           /\ Tests(id)[4] = [call |-> Get(id, "product", "p999"), want |-> 404, kind |-> "error"]
           /\ Tests(id)[5] = [call |-> Get(id, "metrics", "none"), want |-> 200, kind |-> "text"]
           /\ Tests(id)[6] = [call |-> Get(id, "dashboard", "30"), want |-> 200, kind |-> "table"]
           /\ Tests(id)[7] = [call |-> Call(id, "orders", "none", "create", Body(<<"p1", "p2">>)),
                              want |-> 201, kind |-> "order"]
           /\ Tests(id)[8] = [call |-> Call(id, "orders", "none", "none", Body(<<"p4">>)),
                              want |-> 400, kind |-> "error"]
           /\ Tests(id)[9] = [call |-> Call(id, "orders", "none", "replay", Body(<<"p3">>)),
                              want |-> 201, kind |-> "order"]
  BY DEF Tests

LEMMA CallTypes ==
    ASSUME NEW id \in Int, NEW t \in 1 .. 9
    PROVE  LET c == Tests(id)[t].call
           IN  /\ c \in Request /\ c.id = id
               /\ c.key = "create" => t = 7 /\ Len(c.body.items) = 2
               /\ t = 7 => c.key = "create"
               /\ t = 9 => c.key = "replay"
  <1> DEFINE Typed(c) == c \in Request /\ c.id = id
  <1>1. \A route \in Routes, arg, key \in Words, b \in Posted :
           /\ Typed(Call(id, route, arg, key, b))
           /\ Call(id, route, arg, key, b).key = key
           /\ Call(id, route, arg, key, b).body = b
    BY DEF Call, Request
  <1> HIDE DEF Typed
  <1>0. /\ "none" \in Words /\ "create" \in Words /\ "replay" \in Words
        /\ "orders" \in Routes /\ NoBody \in Posted
    BY WordsAssumption, NoBodyType DEF Routes
  <1>2. \A route \in Routes, arg \in Words :
           Typed(Get(id, route, arg)) /\ Get(id, route, arg).key = "none"
    BY <1>0, <1>1 DEF Get
  <1> DEFINE B2 == Body(<<"p1", "p2">>)
             B3 == Body(<<"p3">>)
             B4 == Body(<<"p4">>)
  <1>3. Len(B2.items) = 2
    BY BodyTypes
  <1>4. B2 \in Posted /\ B3 \in Posted /\ B4 \in Posted
    BY BodyTypes
  <1> DEFINE C(i) == Tests(id)[i].call
  <1>5. /\ C(1) = Get(id, "health", "none") /\ C(2) = Get(id, "json", "none")
        /\ C(3) = Get(id, "product", "p1") /\ C(4) = Get(id, "product", "p999")
        /\ C(5) = Get(id, "metrics", "none") /\ C(6) = Get(id, "dashboard", "30")
        /\ C(7) = Call(id, "orders", "none", "create", B2)
        /\ C(8) = Call(id, "orders", "none", "none", B4)
        /\ C(9) = Call(id, "orders", "none", "replay", B3)
    BY DEF Tests
  <1> HIDE DEF C, B2, B3, B4
  <1>6. \A i \in 1 .. 6 : Typed(C(i)) /\ C(i).key = "none"
    BY <1>2, <1>5, WordsAssumption DEF Routes
  <1>7. /\ Typed(C(7)) /\ C(7).key = "create" /\ C(7).body = B2
        /\ Typed(C(8)) /\ C(8).key = "none"
        /\ Typed(C(9)) /\ C(9).key = "replay"
    BY <1>0, <1>4, <1>5 DEF Call, Request, Typed
  <1> QED  BY <1>3, <1>6, <1>7 DEF C, Typed

-----------------------------------------------------------------------------
(* The total of an order. *)

Sums(u, items) ==
    u = [i \in 0 .. Len(items) |-> IF i = 0 THEN 0 ELSE Plus(u[i - 1], Amount(items[i]))]

(* The seed's prices and stock bound what one line costs. *)
LineMax == MaxPrice * MaxStock

LEMMA LineBound ==
    ASSUME NEW q \in 0 .. MaxStock, NEW c \in 100 .. MaxPrice
    PROVE  c * q \in 0 .. LineMax
  <1> DEFINE x == c * q
             y == MaxPrice * q
  <1>1. x <= y /\ x >= 0 /\ x \in Int
    BY SMT DEF MaxPrice, MaxStock
  <1>2. y <= LineMax /\ LineMax \in Nat /\ y \in Int
    BY SMT DEF LineMax, MaxPrice, MaxStock
  <1> HIDE DEF x, y
  <1>3. x \in 0 .. LineMax
    BY <1>1, <1>2, SMT
  <1> QED  BY <1>3 DEF x

(* Twenty lines of what the seed has in stock never exceed total_cents. *)
LEMMA TotalBound ==
    ASSUME NEW n \in 0 .. 20, NEW items, Len(items) = n,
           \A i \in 1 .. n : /\ items[i].product \in Products
                            /\ items[i].quantity \in 0 .. MaxStock
    PROVE  Total(items) \in Nat
  <1> DEFINE a == [i \in 1 .. n |-> Amount(items[i])]
             g == [x \in (1 .. n) \X Int |-> Plus(x[2], a[x[1]])]
             u == TotalUpTo(items)
             S == {k \in Nat : k <= n => u[k] \in 0 .. k * LineMax}
  <1>1. n \in Nat /\ n <= 20
    OBVIOUS
  <1>2. \A i \in 1 .. n : Amount(items[i]) \in 0 .. LineMax
    <2> TAKE i \in 1 .. n
    <2> DEFINE p == items[i].product
               c == Price[p]
               q == items[i].quantity
    <2>1. q \in 0 .. MaxStock /\ p \in Products
      OBVIOUS
    <2>2. c \in 100 .. MaxPrice
      <3> HIDE DEF p
      <3>1. Price \in [Products -> 100 .. MaxPrice]
        BY SeedAssumption
      <3> QED  BY <2>1, <3>1
    <2>3. Amount(items[i]) = c * q
      BY DEF Amount
    <2> HIDE DEF c, q
    <2> QED  BY <2>1, <2>2, <2>3, LineBound, Zenon
  <1>3. a \in [1 .. n -> Int] /\ \A i \in 1 .. n : a[i] = Amount(items[i])
    BY <1>2
  <1>4. u = CHOOSE t : Sums(t, items)
    BY Zenon DEF TotalUpTo, Sums
  <1> HIDE DEF a, u
  <1>5. g \in [(1 .. n) \X Int -> Int]
    BY <1>3, SMT DEF Plus, MaxInt32
  <1>6. PICK s \in [0 .. n -> Int] : Solves(s, n, 0, g)
    <2> HIDE DEF g
    <2>1. 0 \in Int
      OBVIOUS
    <2> QED  BY <1>1, <1>5, <2>1, Recursion, Zenon
  <1>7. \A i \in 1 .. n : s[i] = Plus(s[i - 1], Amount(items[i]))
    <2> TAKE i \in 1 .. n
    <2>1. s[i - 1] \in Int /\ i \in 1 .. n
      BY <1>1, <1>6
    <2>2. g[<<i, s[i - 1]>>] = Plus(s[i - 1], a[i])
      BY <2>1
    <2> QED  BY <1>3, <1>6, <2>2 DEF Solves
  <1> DEFINE w == [i \in 0 .. n |-> IF i = 0 THEN 0 ELSE Plus(s[i - 1], Amount(items[i]))]
  <1>8. \A i \in 0 .. n : s[i] = w[i]
    BY <1>1, <1>6, <1>7 DEF Solves
  <1>9. s = w
    BY <1>6, <1>8
  <1>10. Sums(u, items)
    <2>1. Sums(s, items)
      BY <1>9 DEF Sums
    <2> QED  BY <1>4, <2>1, Zenon
  <1>11. u = [i \in 0 .. n |-> IF i = 0 THEN 0 ELSE Plus(u[i - 1], Amount(items[i]))]
    BY <1>10 DEF Sums
  <1>12. 0 \in S
    BY <1>1, <1>11, SMT DEF LineMax, MaxPrice, MaxStock
  <1>13. ASSUME NEW k \in Nat, k \in S PROVE k + 1 \in S
    <2> SUFFICES ASSUME k + 1 <= n PROVE u[k + 1] \in 0 .. (k + 1) * LineMax
      OBVIOUS
    <2>1. /\ k + 1 \in 1 .. n /\ (k + 1) - 1 = k /\ u[k] \in 0 .. k * LineMax
          /\ k <= 19
      BY <1>1, <1>13
    <2>2. Amount(items[k + 1]) \in 0 .. LineMax
      BY <1>2, <2>1
    <2>3. u[k + 1] = Plus(u[k], Amount(items[k + 1]))
      <3> DEFINE h == [i \in 0 .. n |-> IF i = 0 THEN 0 ELSE Plus(u[i - 1], Amount(items[i]))]
      <3>1. u = h
        BY <1>11
      <3>2. h[k + 1] = Plus(u[k], Amount(items[k + 1]))
        BY <1>1, <2>1
      <3> HIDE DEF h
      <3> QED  BY <3>1, <3>2
    <2> DEFINE x == u[k]
               y == Amount(items[k + 1])
    <2>4. x \in Int /\ y \in Int /\ 0 <= x /\ x <= k * LineMax /\ 0 <= y /\ y <= LineMax
      <3>1. LineMax \in Nat /\ k * LineMax \in Nat
        BY SMT DEF LineMax, MaxPrice, MaxStock
      <3> HIDE DEF x, y
      <3>2. x \in 0 .. k * LineMax /\ y \in 0 .. LineMax
        BY <2>1, <2>2 DEF x, y
      <3> QED  BY <3>1, <3>2
    <2>5. u[k + 1] = Plus(x, y)
      BY <2>3
    <2> HIDE DEF x, y
    <2>6. x + y <= (k + 1) * LineMax /\ (k + 1) * LineMax <= MaxInt32
      BY <2>1, <2>4, SMT DEF LineMax, MaxInt32, MaxPrice, MaxStock
    <2>7. Plus(x, y) = x + y
      BY <2>1, <2>4, <2>6, SMT DEF Plus, LineMax, MaxInt32, MaxPrice, MaxStock
    <2> QED  BY <2>4, <2>5, <2>6, <2>7, SMT DEF LineMax, MaxPrice, MaxStock
  <1>14. Nat \subseteq S
    <2> HIDE DEF S
    <2> QED  BY <1>12, <1>13, Induction
  <1>15. u[n] \in Nat
    BY <1>1, <1>14, SMT DEF LineMax, MaxPrice, MaxStock
  <1> QED  BY <1>15 DEF Total, u

-----------------------------------------------------------------------------
(* The inductive invariants. *)

OrderRow == [id : Nat, key : Words, items : Seq(Item), total : Int]

(* The rows of orders: only create_order's own keys, and under the key of the
   seventh test what that test posts. *)
RowsOK ==
    /\ orders \in Seq(OrderRow)
    /\ \A i \in DOMAIN orders :
          /\ orders[i].key \notin {"none", "notUuid"}
          /\ orders[i].key = "create" => Len(orders[i].items) = 2

(* The requests, and the requests of the answers. *)
RowInv ==
    /\ RowsOK
    /\ \A r \in inbox : r.id # 0 /\ (r.key = "create" => Len(r.body.items) = 2)
    /\ \A a \in answers : a.request \in Request /\ a.request.id # 0

AnswerStatus(a) ==
    /\ a.status \in {200, 201, 400, 404, 409, 422, 500}
    /\ a.status = 500 <=> a.error # "none"
    /\ a.error # "total"

(* An order that was acknowledged is there, under the key of its request. *)
Acknowledged(a) == a.status = 201 => a.body.id \in OrdersOf(a.request.key)

AnswerInv == \A a \in answers : AnswerStatus(a) /\ Acknowledged(a)

(* Where the suite is, and which call it waits for. *)
SuiteInv ==
    /\ passed + failed = test - 1
    /\ phase = "waiting" => test = 1
    /\ phase = "waiting" /\ call # NoCall => call.id > 0 /\ call = Get(call.id, "health", "none")
    /\ phase = "running" /\ call # NoCall =>
          test <= 9 /\ call.id > 0 /\ call = Tests(call.id)[test].call
    /\ phase = "ended" => call = NoCall
    /\ exit = 0 => test = 10 /\ failed = 0

(* What the tests that have passed leave in the database. *)
PassedInv ==
    /\ failed = 0 /\ test > 7 => OrdersOf("create") # {}
    /\ failed = 0 /\ test > 9 => OrdersOf("replay") # {}
    /\ first # 0 => first \in OrdersOf("replay")

SoldOut == \E p \in {"p1", "p2", "p3"} : stock[p] = 0

Asks(r, t) == r.id > 0 /\ r = Tests(r.id)[t].call

(* As long as nothing has gone wrong, the application and the database are up
   and every call of the suite gets the answer it wants. *)
CauseInv ==
    /\ causes = {} =>
          /\ dbUp
          /\ app # "up" => inbox = {} /\ answers = {} /\ phase # "running"
          /\ phase = "running" => observed
          /\ \A a \in answers : a.error = "none" => observed
          /\ \A r \in inbox : r.id > 0 /\ r.route = "metrics" => observed
          /\ \A a \in answers, t \in 1 .. 9 :
                Asks(a.request, t) => Passes(t, a) \/ SoldOut
    /\ FailureHasCause

Inv ==
    TypeOK /\ RowInv /\ OrdersMatchStock /\ AnswerInv /\ SuiteInv /\ PassedInv /\ CauseInv

-----------------------------------------------------------------------------
(* The database. *)

LEMMA MaxStockType == MaxStock \in Nat
  BY SMT DEF MaxStock

LEMMA RequestFacts ==
    ASSUME NEW r \in Request
    PROVE  /\ r.body.items \in Seq(Item) /\ Amounts(r.body.items)
           /\ r.key \in Words /\ r.id \in Int /\ r.route \in Routes
           /\ DOMAIN r.body.items = 1 .. Len(r.body.items)
           /\ \A i \in 1 .. Len(r.body.items) : r.body.items[i].quantity \in Nat
  <1>1. /\ r.body.items \in Seq(Item) /\ r.key \in Words /\ r.id \in Int
        /\ r.route \in Routes
    BY DEF Request, Posted
  <1> DEFINE items == r.body.items
  <1>2. /\ DOMAIN items = 1 .. Len(items) /\ Len(items) \in Nat
        /\ \A i \in 1 .. Len(items) : items[i].quantity \in Nat
    <2> HIDE DEF items
    <2>1. items \in Seq(Item)
      BY <1>1 DEF items
    <2>2. DOMAIN items = 1 .. Len(items) /\ Len(items) \in Nat
      BY <2>1
    <2>3. \A i \in 1 .. Len(items) : items[i] \in Item
      BY <2>1
    <2>4. \A x \in Item : x.quantity \in Nat
      BY DEF Item
    <2> QED  BY <2>2, <2>3, <2>4
  <1> QED  BY <1>1, <1>2 DEF Amounts

(* What reaches the INSERT has a total. *)
LEMMA InsertsTotal ==
    ASSUME TypeOK, NEW r \in Request, WellFormed(r),
           Named(r.body.items) \subseteq Products, InStock(r.body.items)
    PROVE  Total(r.body.items) \in Nat
  <1> DEFINE items == r.body.items
             n == Len(items)
  <1>0. n \in 1 .. 20
    BY DEF WellFormed, ParseBody
  <1>1. n \in 0 .. 20
    <2> HIDE DEF n
    <2> QED  BY <1>0
  <1>2. ASSUME NEW i \in 1 .. n
        PROVE  items[i].product \in Products /\ items[i].quantity \in 0 .. MaxStock
    <2>1. i \in DOMAIN items /\ items[i].quantity \in Nat
      BY RequestFacts
    <2> DEFINE p == items[i].product
               q == items[i].quantity
    <2>2. p \in Products
      BY <2>1 DEF Named
    <2>3. stock[p] >= q
      BY <2>1 DEF InStock
    <2>4. stock \in [Products -> 0 .. MaxStock]
      BY DEF TypeOK
    <2>5. q \in Nat
      BY <2>1
    <2> HIDE DEF p, q
    <2>6. q \in 0 .. MaxStock
      BY <2>2, <2>3, <2>4, <2>5, MaxStockType
    <2> QED  BY <2>2, <2>6 DEF p, q
  <1> HIDE DEF items, n
  <1>3. Len(items) = n
    BY DEF n
  <1>4. Total(items) \in Nat
    BY <1>1, <1>2, <1>3, TotalBound
  <1> QED  BY <1>4 DEF items

(* What the INSERT leaves in the tables. *)
LEMMA StoreFacts ==
    ASSUME TypeOK, RowInv, NEW r \in Request, Stores(r), Insert(r)
    PROVE  LET n == Len(orders) + 1 IN
           /\ orders' \in Seq(OrderRow) /\ Len(orders') = n
           /\ \A i \in DOMAIN orders : orders'[i] = orders[i]
           /\ DOMAIN orders' = DOMAIN orders \cup {n} /\ n \notin DOMAIN orders
           /\ orders'[n].key = r.key /\ orders'[n].items = r.body.items
           /\ stock' \in [Products -> 0 .. MaxStock]
           /\ \A p \in Products : /\ stock'[p] = stock[p] - Units(r.body.items, p)
                                  /\ stock'[p] <= stock[p]
  <1> DEFINE items == r.body.items
             row == [id |-> Len(orders) + 1, key |-> r.key,
                     items |-> items, total |-> Total(items)]
             n == Len(orders) + 1
  <1>1. items \in Seq(Item) /\ Amounts(items) /\ r.key \in Words
        /\ DOMAIN items = 1 .. Len(items) /\ Len(items) \in Nat
    BY RequestFacts DEF Amounts
  <1>2. /\ WellFormed(r) /\ Named(items) \subseteq Products /\ InStock(items)
        /\ StockSuffices(items)
    BY DEF Stores, Inserts, Reaches
  <1>3. Total(items) \in Nat
    BY <1>2, InsertsTotal
  <1>4. orders \in Seq(OrderRow) /\ Len(orders) \in Nat
    BY DEF RowInv, RowsOK
  <1>5. orders' = Append(orders, row)
    BY DEF Insert
  <1>6. stock' = [p \in Products |-> stock[p] - Units(items, p)]
    BY DEF Insert
  <1> HIDE DEF items
  <1>7. row \in OrderRow /\ row.key = r.key /\ row.items = items
    BY <1>1, <1>3, <1>4 DEF OrderRow
  <1> HIDE DEF row
  <1>8. /\ orders' \in Seq(OrderRow) /\ Len(orders') = n
        /\ \A i \in DOMAIN orders : orders'[i] = orders[i]
        /\ DOMAIN orders' = DOMAIN orders \cup {n} /\ n \notin DOMAIN orders
        /\ orders'[n] = row
    BY <1>4, <1>5, <1>7
  <1>9. ASSUME NEW p \in Products
        PROVE  Units(items, p) \in Nat /\ Units(items, p) <= stock[p]
    <2>1. Units(items, p) \in Nat
      BY <1>1, UnitsFacts DEF Units
    <2>2. stock[p] \in 0 .. MaxStock
      BY DEF TypeOK
    <2>3. CASE p \in Named(items)
      BY <1>2, <2>1, <2>3 DEF StockSuffices
    <2>4. CASE p \notin Named(items)
      <3>1. \A j \in 1 .. Len(items) : items[j].product # p
        BY <1>1, <2>4 DEF Named
      <3>2. Len(items) \in 0 .. Len(items)
        BY <1>1
      <3>3. Units(items, p) = 0
        BY <1>1, <3>1, <3>2, UnitsHaveAnItem DEF Units
      <3> QED  BY <2>2, <3>3, MaxStockType
    <2> QED  BY <2>1, <2>3, <2>4
  <1>10. ASSUME NEW p \in Products
         PROVE  /\ stock'[p] = stock[p] - Units(items, p)
                /\ stock'[p] <= stock[p] /\ stock'[p] \in 0 .. MaxStock
    <2>1. stock'[p] = stock[p] - Units(items, p)
      BY <1>6
    <2>2. stock[p] \in 0 .. MaxStock
      BY DEF TypeOK
    <2>3. Units(items, p) \in Nat /\ Units(items, p) <= stock[p]
      BY <1>9
    <2> DEFINE u == Units(items, p)
    <2> HIDE DEF u
    <2>4. stock'[p] = stock[p] - u /\ u \in Nat /\ u <= stock[p]
      BY <2>1, <2>3 DEF u
    <2>5. stock'[p] <= stock[p] /\ stock'[p] \in 0 .. MaxStock
      BY <2>2, <2>4, MaxStockType
    <2> QED  BY <2>1, <2>5
  <1>11. stock' \in [Products -> 0 .. MaxStock]
    BY <1>6, <1>10
  <1> QED  BY <1>7, <1>8, <1>10, <1>11 DEF items

LEMMA TakenFacts ==
    ASSUME NEW o \in Seq(OrderRow), NEW p, NEW t,
           t = [i \in DOMAIN o |-> [product |-> p, quantity |-> Units(o[i].items, p)]]
    PROVE  /\ Len(t) = Len(o) /\ Amounts(t)
           /\ \A i \in 1 .. Len(o) : /\ Part(t, p, i) = Units(o[i].items, p)
                                    /\ Units(o[i].items, p) \in Nat
  <1> DEFINE n == Len(o)
  <1>1. n \in Nat /\ DOMAIN o = 1 .. n /\ \A i \in 1 .. n : o[i] \in OrderRow
    OBVIOUS
  <1>2. ASSUME NEW i \in 1 .. n PROVE Units(o[i].items, p) \in Nat
    <2> DEFINE items == o[i].items
    <2>1. items \in Seq(Item)
      BY <1>1 DEF OrderRow
    <2> HIDE DEF items
    <2>2. Len(items) \in Nat /\ \A j \in 1 .. Len(items) : items[j] \in Item
      BY <2>1
    <2>3. Amounts(items)
      BY <2>2 DEF Amounts, Item
    <2>4. Len(items) \in 0 .. Len(items)
      BY <2>2
    <2> QED  BY <2>3, <2>4, UnitsFacts DEF Units, items
  <1>3. t = [i \in 1 .. n |-> [product |-> p, quantity |-> Units(o[i].items, p)]]
    BY <1>1
  <1> HIDE DEF n
  <1>4. Len(t) = n
    BY <1>1, <1>3
  <1>5. ASSUME NEW i \in 1 .. n
        PROVE  t[i].product = p /\ t[i].quantity = Units(o[i].items, p)
    BY <1>3
  <1> QED  BY <1>1, <1>2, <1>4, <1>5 DEF n, Amounts, Part

(* What the INSERT takes from the stock is what its order adds to the account. *)
LEMMA StoreMatchesStock ==
    ASSUME TypeOK, RowInv, OrdersMatchStock, NEW r \in Request, Stores(r), Insert(r)
    PROVE  OrdersMatchStock'
  <1> DEFINE n == Len(orders)
  <1>1. /\ orders' \in Seq(OrderRow) /\ Len(orders') = n + 1
        /\ \A i \in DOMAIN orders : orders'[i] = orders[i]
        /\ DOMAIN orders' = DOMAIN orders \cup {n + 1} /\ n + 1 \notin DOMAIN orders
        /\ orders'[n + 1].key = r.key /\ orders'[n + 1].items = r.body.items
        /\ \A p \in Products : stock'[p] = stock[p] - Units(r.body.items, p)
    BY StoreFacts, Zenon
  <1>2. orders \in Seq(OrderRow)
    BY DEF RowInv, RowsOK
  <1>3. n \in Nat /\ DOMAIN orders = 1 .. n
    BY <1>2
  <1>4. \A i, j \in DOMAIN orders' : orders'[i].key = orders'[j].key => i = j
    <2>1. \A i \in DOMAIN orders : orders'[i].key # r.key
      BY <1>1 DEF Stores, OrdersOf
    <2>2. \A i, j \in DOMAIN orders : orders'[i].key = orders'[j].key => i = j
      BY <1>1 DEF OrdersMatchStock
    <2> QED  BY <1>1, <2>1, <2>2
  <1>5. ASSUME NEW p \in Products PROVE Stock0[p] - stock'[p] = Units(Taken(p)', p)
    <2> DEFINE a == Taken(p)
               b == Taken(p)'
               x == Units(r.body.items, p)
    <2>1. /\ Len(a) = n /\ Amounts(a)
          /\ \A i \in 1 .. n : Part(a, p, i) = Units(orders[i].items, p)
      BY <1>2, TakenFacts DEF Taken
    <2>2. /\ Len(b) = n + 1 /\ Amounts(b)
          /\ \A i \in 1 .. n + 1 : /\ Part(b, p, i) = Units(orders'[i].items, p)
                                   /\ Units(orders'[i].items, p) \in Nat
      BY <1>1, TakenFacts DEF Taken
    <2> HIDE DEF a, b, n
    <2>3. \A i \in 1 .. n : Part(b, p, i) = Part(a, p, i)
      <3> TAKE i \in 1 .. n
      <3>1. i \in 1 .. n + 1 /\ i \in DOMAIN orders
        BY <1>3
      <3>2. orders'[i] = orders[i]
        BY <1>1, <3>1
      <3> QED  BY <2>1, <2>2, <3>1, <3>2
    <2>4. Part(b, p, n + 1) = x /\ x \in Nat
      BY <1>1, <1>3, <2>2
    <2>5. Units(b, p) = Units(a, p) + x
      BY <2>1, <2>2, <2>3, <2>4, UnitsOfOneMore
    <2>6. Stock0[p] - stock[p] = Units(a, p) /\ stock'[p] = stock[p] - x
      BY <1>1 DEF OrdersMatchStock, a
    <2>7. Stock0[p] \in Int /\ stock[p] \in Int
      BY SeedAssumption, MaxStockType DEF TypeOK
    <2> HIDE DEF x
    <2>8. Stock0[p] - stock'[p] = Units(b, p)
      BY <2>4, <2>5, <2>6, <2>7
    <2> QED  BY <2>8 DEF b
  <1> QED  BY <1>4, <1>5 DEF OrdersMatchStock

(* A step leaves the tables as they are or stores the order of a request. *)
DbStep == UNCHANGED dbVars \/ \E r \in inbox : Stores(r) /\ Insert(r)

LEMMA DbFacts ==
    ASSUME TypeOK, RowInv, OrdersMatchStock, DbStep
    PROVE  /\ RowsOK' /\ OrdersMatchStock' /\ stock' \in [Products -> 0 .. MaxStock]
           /\ \A k : OrdersOf(k) \subseteq OrdersOf(k)'
           /\ SoldOut => SoldOut'
  <1>1. CASE UNCHANGED dbVars
    <2>1. orders' = orders /\ stock' = stock
      BY <1>1 DEF dbVars
    <2>2. RowsOK /\ stock \in [Products -> 0 .. MaxStock]
      BY DEF RowInv, TypeOK
    <2>3. RowsOK' /\ SoldOut' = SoldOut /\ \A k : OrdersOf(k)' = OrdersOf(k)
      BY <2>1, <2>2 DEF RowsOK, SoldOut, OrdersOf
    <2>4. OrdersMatchStock'
      <3>1. \A p \in Products : Taken(p)' = Taken(p)
        BY <2>1 DEF Taken
      <3> QED  BY <2>1, <3>1 DEF OrdersMatchStock
    <2> QED  BY <2>1, <2>2, <2>3, <2>4
  <1>2. ASSUME NEW r \in inbox, Stores(r), Insert(r)
        PROVE  /\ RowsOK' /\ OrdersMatchStock' /\ stock' \in [Products -> 0 .. MaxStock]
               /\ \A k : OrdersOf(k) \subseteq OrdersOf(k)'
               /\ SoldOut => SoldOut'
    <2> DEFINE n == Len(orders) + 1
    <2>1. r \in Request
      BY DEF TypeOK
    <2>2. /\ orders' \in Seq(OrderRow)
          /\ \A i \in DOMAIN orders : orders'[i] = orders[i]
          /\ DOMAIN orders' = DOMAIN orders \cup {n}
          /\ orders'[n].key = r.key /\ orders'[n].items = r.body.items
          /\ stock' \in [Products -> 0 .. MaxStock]
          /\ \A p \in Products : stock'[p] <= stock[p]
      BY <1>2, <2>1, StoreFacts, Zenon
    <2>3. /\ r.key \notin {"none", "notUuid"}
          /\ r.key = "create" => Len(r.body.items) = 2
      BY <1>2 DEF Stores, Inserts, Reaches, WellFormed, RowInv
    <2> HIDE DEF n
    <2>4. RowsOK'
      BY <2>2, <2>3 DEF RowsOK, RowInv
    <2>5. \A k : OrdersOf(k) \subseteq OrdersOf(k)'
      BY <2>2 DEF OrdersOf
    <2>6. SoldOut => SoldOut'
      <3> SUFFICES ASSUME NEW p \in {"p1", "p2", "p3"}, stock[p] = 0 PROVE stock'[p] = 0
        BY DEF SoldOut
      <3>1. p \in Products
        BY ProductsAssumption
      <3>2. stock'[p] \in 0 .. MaxStock /\ stock'[p] <= 0
        BY <2>2, <3>1
      <3> QED  BY <3>2, MaxStockType
    <2>7. OrdersMatchStock'
      BY <1>2, <2>1, StoreMatchesStock
    <2> QED  BY <2>2, <2>4, <2>5, <2>6, <2>7
  <1> QED  BY <1>1, <1>2 DEF DbStep

-----------------------------------------------------------------------------
(* The answers of the application. *)

LEMMA AsksFacts ==
    ASSUME NEW r \in Request, NEW t \in 1 .. 9, Asks(r, t)
    PROVE  /\ t = 1 => r.route = "health"
           /\ t = 2 => r.route = "json"
           /\ t = 3 => r.route = "product" /\ r.arg = "p1"
           /\ t = 4 => r.route = "product" /\ r.arg = "p999"
           /\ t = 5 => r.route = "metrics"
           /\ t = 6 => r.route = "dashboard" /\ r.arg = "30"
           /\ t = 7 => /\ r.route = "orders" /\ r.key = "create"
                       /\ r.body = Body(<<"p1", "p2">>)
           /\ t = 8 => r.route = "orders" /\ r.key = "none"
           /\ t = 9 => r.route = "orders" /\ r.key = "replay" /\ r.body = Body(<<"p3">>)
  <1> DEFINE B2 == Body(<<"p1", "p2">>)
             B3 == Body(<<"p3">>)
             B4 == Body(<<"p4">>)
             C(i) == Tests(r.id)[i].call
  <1>1. r = C(t) /\ t \in 1 .. 9
    BY DEF Asks
  <1>2. /\ C(1) = Get(r.id, "health", "none") /\ C(2) = Get(r.id, "json", "none")
        /\ C(3) = Get(r.id, "product", "p1") /\ C(4) = Get(r.id, "product", "p999")
        /\ C(5) = Get(r.id, "metrics", "none") /\ C(6) = Get(r.id, "dashboard", "30")
        /\ C(7) = Call(r.id, "orders", "none", "create", B2)
        /\ C(8) = Call(r.id, "orders", "none", "none", B4)
        /\ C(9) = Call(r.id, "orders", "none", "replay", B3)
    BY DEF Tests
  <1> HIDE DEF B2, B3, B4, C
  <1>3. /\ C(1).route = "health" /\ C(2).route = "json"
        /\ C(3).route = "product" /\ C(3).arg = "p1"
        /\ C(4).route = "product" /\ C(4).arg = "p999"
        /\ C(5).route = "metrics"
        /\ C(6).route = "dashboard" /\ C(6).arg = "30"
    BY <1>2 DEF Get, Call
  <1>4. /\ C(7).route = "orders" /\ C(7).key = "create" /\ C(7).body = B2
        /\ C(8).route = "orders" /\ C(8).key = "none"
        /\ C(9).route = "orders" /\ C(9).key = "replay" /\ C(9).body = B3
    BY <1>2 DEF Call
  <1> QED  BY <1>1, <1>3, <1>4 DEF B2, B3

(* What test t wants of an answer. *)
Good(t, status, body) ==
    \/ t = 1 /\ status = 200 /\ body.kind = "ok"
    \/ t = 2 /\ status = 200 /\ body.kind = "service"
    \/ t = 3 /\ status = 200 /\ body.kind = "product"
    \/ t = 4 /\ status = 404 /\ body.kind = "error"
    \/ t = 5 /\ status = 200 /\ body.kind = "text" /\ body.histogram
    \/ t = 6 /\ status = 200 /\ body.kind = "table"
    \/ /\ t = 7 /\ status = 201 /\ body.kind = "order"
       /\ body.status = "pending" /\ body.lines = 2
    \/ t = 8 /\ status = 400 /\ body.kind = "error"
    \/ t = 9 /\ status = 201 /\ body.kind = "order"

LEMMA PassesFacts ==
    ASSUME NEW a, NEW t \in 1 .. 9
    PROVE  Passes(t, a) <=> Good(t, a.status, a.body)
  <1> DEFINE W(i) == Tests(0)[i].want
             K(i) == Tests(0)[i].kind
  <1>1. /\ W(1) = 200 /\ W(2) = 200 /\ W(3) = 200 /\ W(4) = 404 /\ W(5) = 200
        /\ W(6) = 200 /\ W(7) = 201 /\ W(8) = 400 /\ W(9) = 201
    BY DEF Tests
  <1>2. /\ K(1) = "ok" /\ K(2) = "service" /\ K(3) = "product" /\ K(4) = "error"
        /\ K(5) = "text" /\ K(6) = "table" /\ K(7) = "order" /\ K(8) = "error"
        /\ K(9) = "order"
    BY DEF Tests
  <1>3. Passes(t, a) <=> /\ a.status = W(t) /\ a.body.kind = K(t)
                         /\ t = 5 => a.body.histogram
                         /\ t = 7 => a.body.status = "pending" /\ a.body.lines = 2
    BY DEF Passes
  <1> HIDE DEF W, K
  <1> QED  BY <1>1, <1>2, <1>3 DEF Good

(* The orders of the suite are well-formed, one of each product: what keeps one
   from being stored is that a product is sold out. *)
LEMMA SuiteOrders ==
    ASSUME TypeOK, NEW r \in Request, NEW t \in {7, 9}, Asks(r, t)
    PROVE  /\ WellFormed(r) /\ r.body.customer = "known"
           /\ Named(r.body.items) \subseteq {"p1", "p2", "p3"}
           /\ InStock(r.body.items) => StockSuffices(r.body.items)
           /\ ~InStock(r.body.items) => SoldOut
  <1> DEFINE One == <<[product |-> "p3", quantity |-> 1]>>
             Two == <<[product |-> "p1", quantity |-> 1], [product |-> "p2", quantity |-> 1]>>
             b == r.body
             items == b.items
  <1>1. /\ r.key \in {"create", "replay"} /\ b.customer = "known" /\ b.form = "object"
        /\ items = One \/ items = Two
    <2>1. CASE t = 7
      <3>1. r.key = "create" /\ b = Body(<<"p1", "p2">>)
        BY <2>1, AsksFacts
      <3>2. b.items = Two /\ b.customer = "known" /\ b.form = "object"
        BY <3>1, BodyTypes, Zenon
      <3> QED  BY <3>1, <3>2
    <2>2. CASE t = 9
      <3>1. r.key = "replay" /\ b = Body(<<"p3">>)
        BY <2>2, AsksFacts
      <3>2. b.items = One /\ b.customer = "known" /\ b.form = "object"
        BY <3>1, BodyTypes, Zenon
      <3> QED  BY <3>1, <3>2
    <2> QED  BY <2>1, <2>2
  <1> HIDE DEF b, items
  <1>2. /\ Len(items) \in 1 .. 2 /\ DOMAIN items = 1 .. Len(items)
        /\ \A i \in DOMAIN items : /\ items[i].quantity = 1
                                   /\ items[i].product \in {"p1", "p2", "p3"}
        /\ \A i, j \in DOMAIN items : items[i].product = items[j].product => i = j
    <2>1. CASE items = One
      BY <2>1
    <2>2. CASE items = Two
      BY <2>2
    <2> QED  BY <1>1, <2>1, <2>2
  <1> HIDE DEF One, Two
  <1>3. Len(items) \in Nat /\ Len(items) \in 1 .. 20 /\ Amounts(items)
    <2> DEFINE n == Len(items)
    <2> HIDE DEF n
    <2>1. n \in 1 .. 2
      BY <1>2 DEF n
    <2>2. n \in Nat /\ n \in 1 .. 20
      BY <2>1
    <2> QED  BY <1>2, <2>2 DEF Amounts, n
  <1>4. ParseBody(b)
    BY <1>1, <1>2, <1>3 DEF ParseBody, items
  <1>5. WellFormed(r)
    BY <1>1, <1>4 DEF WellFormed, b
  <1>6. Named(items) \subseteq {"p1", "p2", "p3"}
    BY <1>2 DEF Named
  <1>7. ASSUME NEW p PROVE Units(items, p) <= 1
    <2> DEFINE u == UnitsUpTo(items, p)
               n == Len(items)
    <2>1. /\ u[0] = 0
          /\ \A i \in 1 .. n : u[i] = u[i - 1] + Part(items, p, i)
      BY <1>3, UnitsFacts
    <2>2. /\ \A i \in 1 .. n : Part(items, p, i) \in {0, 1}
          /\ n = 2 => Part(items, p, 1) + Part(items, p, 2) <= 1
      BY <1>2 DEF Part
    <2> HIDE DEF u, n
    <2>3. n \in 1 .. 2
      BY <1>2 DEF n
    <2>4. u[1] = Part(items, p, 1) /\ Part(items, p, 1) \in {0, 1}
      BY <2>1, <2>2, <2>3
    <2>5. n = 2 => u[2] = Part(items, p, 1) + Part(items, p, 2)
      BY <2>1, <2>4
    <2>6. u[n] <= 1
      BY <2>2, <2>3, <2>4, <2>5
    <2> QED  BY <2>6 DEF Units, u, n
  <1>8. \A p \in {"p1", "p2", "p3"} : stock[p] \in Nat
    BY ProductsAssumption, MaxStockType DEF TypeOK
  <1>9. ASSUME InStock(items), NEW p \in Named(items) PROVE stock[p] >= Units(items, p)
    <2>1. PICK i \in DOMAIN items : p = items[i].product
      BY DEF Named
    <2>2. stock[p] >= 1 /\ stock[p] \in Nat
      BY <1>2, <1>8, <1>9, <2>1 DEF InStock
    <2>3. Units(items, p) <= 1 /\ Units(items, p) \in Nat
      <3>1. Len(items) \in 0 .. Len(items)
        BY <1>3
      <3> QED  BY <1>3, <1>7, <3>1, UnitsFacts DEF Units
    <2> QED  BY <2>2, <2>3
  <1>10. ~InStock(items) => SoldOut
    BY <1>2, <1>8 DEF InStock, SoldOut
  <1>11. InStock(items) => StockSuffices(items)
    BY <1>9 DEF StockSuffices
  <1> QED  BY <1>1, <1>5, <1>6, <1>10, <1>11 DEF b, items

(* What an answer a to request r is: known to be right if the database is up and
   the suite asked. *)
Outcome(r, a) ==
    /\ a.request = r /\ AnswerStatus(a)
    /\ a.status = 201 => a.body.id \in OrdersOf(r.key)'
    /\ a.error = "none" => observed'
    /\ \A t \in 1 .. 9 : dbUp /\ (r.route = "metrics" => observed) /\ Asks(r, t)
                            => Passes(t, a) \/ SoldOut

HandleFrame(r) ==
    /\ app = "up" /\ inbox' = inbox \ {r}
    /\ UNCHANGED <<app, settings, dbUp, blocked>>
    /\ DbStep
    /\ observed' \in BOOLEAN /\ (observed => observed')

Answers(r) ==
    HandleFrame(r) /\ \E a : answers' = answers \cup {a} /\ Outcome(r, a)

(* The suite asks r as test t, and can expect an answer. *)
Expects(r, t) == dbUp /\ (r.route = "metrics" => observed) /\ Asks(r, t)

LEMMA Answered ==
    ASSUME observed \in BOOLEAN, app = "up", DbStep,
           NEW r, NEW status \in {200, 201, 400, 404, 409, 422}, NEW body,
           Answer(r, status, body),
           status = 201 => body.id \in OrdersOf(r.key)',
           \A t \in 1 .. 9 : Expects(r, t) => Good(t, status, body) \/ SoldOut
    PROVE  Answers(r)
  <1> DEFINE a == [request |-> r, status |-> status, body |-> body, error |-> "none"]
  <1>1. /\ inbox' = inbox \ {r} /\ UNCHANGED <<app, settings, dbUp, blocked>> /\ observed' = TRUE
        /\ answers' = answers \cup {a}
    BY DEF Answer, Reply
  <1>2. a.request = r /\ a.status = status /\ a.body = body /\ a.error = "none"
    OBVIOUS
  <1> HIDE DEF a
  <1>3. \A t \in 1 .. 9 : Expects(r, t) => Passes(t, a) \/ SoldOut
    BY <1>2, PassesFacts
  <1>4. AnswerStatus(a)
    BY <1>2 DEF AnswerStatus
  <1>5. Outcome(r, a)
    BY <1>1, <1>2, <1>3, <1>4 DEF Outcome, Expects
  <1>6. HandleFrame(r)
    BY <1>1 DEF HandleFrame
  <1> QED  BY <1>1, <1>5, <1>6 DEF Answers

LEMMA Raised ==
    ASSUME observed \in BOOLEAN, app = "up", DbStep, NEW r,
           NEW error \in {"connection", "range", "customer", "stock"}, Raise(r, error),
           \A t \in 1 .. 9 : Expects(r, t) => SoldOut
    PROVE  Answers(r)
  <1> DEFINE a == [request |-> r, status |-> 500, body |-> [kind |-> "error"],
                   error |-> error]
  <1>1. /\ inbox' = inbox \ {r} /\ UNCHANGED <<app, settings, dbUp, blocked>> /\ observed' = observed
        /\ answers' = answers \cup {a}
    BY DEF Raise, Reply
  <1>2. a.request = r /\ a.status = 500 /\ a.error = error
    OBVIOUS
  <1> HIDE DEF a
  <1>3. AnswerStatus(a)
    BY <1>2 DEF AnswerStatus
  <1>4. Outcome(r, a)
    BY <1>1, <1>2, <1>3 DEF Outcome, Expects
  <1>5. HandleFrame(r)
    BY <1>1 DEF HandleFrame
  <1> QED  BY <1>1, <1>4, <1>5 DEF Answers

LEMMA ReadAnswers ==
    ASSUME TypeOK, NEW r \in inbox,
           GetJson(r) \/ GetHealth(r) \/ GetMetrics(r) \/ NoRoute(r) \/ GetProduct(r)
             \/ GetDashboard(r)
    PROVE  Answers(r)
  <1> USE DEF Takes
  <1>0. r \in Request /\ observed \in BOOLEAN
    BY DEF TypeOK
  <1>db. UNCHANGED dbVars => DbStep
    BY DEF DbStep
  <1>asks. \A t \in 1 .. 9 : Expects(r, t) =>
             /\ t = 1 => r.route = "health"
             /\ t = 2 => r.route = "json"
             /\ t = 3 => r.route = "product" /\ r.arg = "p1"
             /\ t = 4 => r.route = "product" /\ r.arg = "p999"
             /\ t = 5 => r.route = "metrics"
             /\ t = 6 => r.route = "dashboard" /\ r.arg = "30"
             /\ t \in 7 .. 9 => r.route = "orders"
             /\ dbUp /\ (t = 5 => observed)
    BY <1>0, AsksFacts DEF Expects
  <1>1. CASE GetJson(r)
    BY <1>0, <1>1, <1>db, <1>asks, Answered DEF GetJson, Good
  <1>2. CASE GetHealth(r)
    BY <1>0, <1>2, <1>db, <1>asks, Answered DEF GetHealth, Good
  <1>3. CASE GetMetrics(r)
    BY <1>0, <1>3, <1>db, <1>asks, Answered DEF GetMetrics, Good
  <1>4. CASE NoRoute(r)
    BY <1>0, <1>4, <1>db, <1>asks, Answered DEF NoRoute, Good
  <1>5. CASE GetProduct(r)
    <2>0. app = "up" /\ r.route = "product" /\ DbStep
      BY <1>5, <1>db DEF GetProduct
    <2>1. CASE r.arg = "notInt" /\ Answer(r, 422, [kind |-> "error"])
      BY <1>0, <1>asks, <2>0, <2>1, Answered DEF Good
    <2>2. CASE r.arg # "notInt" /\ ~dbUp /\ Raise(r, "connection")
      BY <1>0, <1>asks, <2>0, <2>2, Raised
    <2>3. CASE r.arg = "huge" /\ dbUp /\ Raise(r, "range")
      BY <1>0, <1>asks, <2>0, <2>3, Raised
    <2>4. CASE r.arg \in Products /\ dbUp /\ Answer(r, 200, [kind |-> "product"])
      BY <1>0, <1>asks, <2>0, <2>4, Answered, ProductsAssumption DEF Good
    <2>5. CASE r.arg \notin Products \cup {"notInt", "huge"} /\ dbUp
                 /\ Answer(r, 404, [kind |-> "error"])
      BY <1>0, <1>asks, <2>0, <2>5, Answered, ProductsAssumption DEF Good
    <2> QED  BY <1>5, <2>1, <2>2, <2>3, <2>4, <2>5 DEF GetProduct, Queries, Breaks
  <1>6. CASE GetDashboard(r)
    <2>0. app = "up" /\ r.route = "dashboard" /\ DbStep
      BY <1>6, <1>db DEF GetDashboard
    <2>1. CASE r.arg = "notInt" /\ Answer(r, 400, [kind |-> "error"])
      BY <1>0, <1>asks, <2>0, <2>1, Answered DEF Good
    <2>2. CASE r.arg # "notInt" /\ dbUp /\ Answer(r, 200, [kind |-> "table"])
      BY <1>0, <1>asks, <2>0, <2>2, Answered DEF Good
    <2>3. CASE r.arg # "notInt" /\ ~dbUp /\ Raise(r, "connection")
      BY <1>0, <1>asks, <2>0, <2>3, Raised
    <2> QED  BY <1>6, <2>1, <2>2, <2>3 DEF GetDashboard, Queries, Breaks
  <1> QED  BY <1>1, <1>2, <1>3, <1>4, <1>5, <1>6

LEMMA OrderAnswers ==
    ASSUME TypeOK, RowInv, NEW r \in inbox,
           RefuseOrder(r) \/ UnknownProduct(r) \/ InsufficientStock(r) \/ ReplayOrder(r)
             \/ StoreOrder(r) \/ OrderRaises(r) \/ OrderDisconnected(r)
    PROVE  Answers(r)
  <1> DEFINE items == r.body.items
             none == [kind |-> "error"]
  <1>0. r \in Request /\ observed \in BOOLEAN
    BY DEF TypeOK
  <1>db. UNCHANGED dbVars => DbStep
    BY DEF DbStep
  <1>up. app = "up" /\ r.route = "orders"
    BY DEF RefuseOrder, UnknownProduct, InsufficientStock, ReplayOrder, StoreOrder, OrderRaises,
           OrderDisconnected, Stores, Inserts, Reaches, Takes
  <1>asks. \A t \in 1 .. 9 : Expects(r, t) =>
             /\ t \in {7, 8, 9} /\ dbUp
             /\ t = 7 => r.key = "create"
             /\ t = 8 => ~WellFormed(r)
             /\ t # 8 => /\ WellFormed(r) /\ r.body.customer = "known"
                         /\ Named(items) \subseteq {"p1", "p2", "p3"}
                         /\ InStock(items) => StockSuffices(items)
                         /\ ~InStock(items) => SoldOut
    <2> SUFFICES ASSUME NEW t \in 1 .. 9, Asks(r, t)
                 PROVE  /\ t \in {7, 8, 9}
                        /\ t = 7 => r.key = "create"
                        /\ t = 8 => ~WellFormed(r)
                        /\ t # 8 => /\ WellFormed(r) /\ r.body.customer = "known"
                                    /\ Named(items) \subseteq {"p1", "p2", "p3"}
                                    /\ InStock(items) => StockSuffices(items)
                                    /\ ~InStock(items) => SoldOut
      BY DEF Expects
    <2>1. t \in {7, 8, 9} /\ (t = 7 => r.key = "create") /\ (t = 8 => r.key = "none")
      BY <1>0, <1>up, AsksFacts
    <2>2. t = 8 => ~WellFormed(r)
      BY <2>1 DEF WellFormed
    <2>3. t # 8 => t \in {7, 9}
      BY <2>1
    <2> QED  BY <1>0, <2>1, <2>2, <2>3, SuiteOrders
  <1>p. {"p1", "p2", "p3"} \subseteq Products
    BY ProductsAssumption
  <1> HIDE DEF items
  <1>1. CASE RefuseOrder(r)
    <2>1. ~WellFormed(r) /\ Answer(r, 400, none) /\ DbStep
      BY <1>1, <1>db DEF RefuseOrder
    <2> QED  BY <1>0, <1>up, <1>asks, <2>1, Answered DEF Good
  <1>2. CASE UnknownProduct(r)
    <2>1. /\ WellFormed(r) /\ Answer(r, 400, none) /\ DbStep
          /\ ~(Named(items) \subseteq Products)
      BY <1>2, <1>db DEF UnknownProduct, Reaches, items
    <2>2. \A t \in 1 .. 9 : ~Expects(r, t)
      BY <1>asks, <1>p, <2>1
    <2> QED  BY <1>0, <1>up, <2>1, <2>2, Answered
  <1>3. CASE InsufficientStock(r)
    <2>1. WellFormed(r) /\ Answer(r, 409, none) /\ DbStep /\ ~InStock(items)
      BY <1>3, <1>db DEF InsufficientStock, Reaches, items
    <2>2. \A t \in 1 .. 9 : Expects(r, t) => SoldOut
      BY <1>asks, <2>1
    <2> QED  BY <1>0, <1>up, <2>1, <2>2, Answered
  <1>4. CASE ReplayOrder(r)
    <2>1. PICK i \in OrdersOf(r.key) : Answer(r, 201, OrderBody(i, orders[i].items))
      BY <1>4 DEF ReplayOrder
    <2>2. WellFormed(r) /\ UNCHANGED dbVars
      BY <1>4 DEF ReplayOrder, Inserts, Reaches
    <2> DEFINE body == OrderBody(i, orders[i].items)
    <2>3. /\ body.kind = "order" /\ body.id = i /\ body.status = "pending"
          /\ body.lines = Len(orders[i].items)
      BY DEF OrderBody
    <2>4. r.key = "create" => Len(orders[i].items) = 2
      BY DEF OrdersOf, RowInv, RowsOK
    <2>5. i \in OrdersOf(r.key)'
      BY <2>2 DEF OrdersOf, dbVars
    <2> HIDE DEF body
    <2>6. \A t \in 1 .. 9 : Expects(r, t) => Good(t, 201, body)
      BY <1>asks, <2>2, <2>3, <2>4 DEF Good
    <2>7. Answer(r, 201, body)
      BY <2>1 DEF body
    <2> QED  BY <1>0, <1>db, <1>up, <2>2, <2>3, <2>5, <2>6, <2>7, Answered
  <1>5. CASE StoreOrder(r)
    <2> DEFINE n == Len(orders) + 1
               body == OrderBody(n, r.body.items)
    <2>1. Stores(r) /\ Insert(r) /\ Answer(r, 201, body) /\ WellFormed(r)
      BY <1>5 DEF StoreOrder, Stores, Inserts, Reaches
    <2>2. DbStep
      BY <2>1 DEF DbStep
    <2>3. /\ body.kind = "order" /\ body.id = n /\ body.status = "pending"
          /\ body.lines = Len(r.body.items)
      BY DEF OrderBody
    <2>4. r.key = "create" => Len(r.body.items) = 2
      BY DEF RowInv
    <2>5. n \in OrdersOf(r.key)'
      <3>1. n \in DOMAIN orders' /\ orders'[n].key = r.key
        BY <1>0, <2>1, StoreFacts
      <3> QED  BY <3>1 DEF OrdersOf
    <2> HIDE DEF n, body
    <2>6. \A t \in 1 .. 9 : Expects(r, t) => Good(t, 201, body)
      BY <1>asks, <2>1, <2>3, <2>4 DEF Good
    <2> QED  BY <1>0, <1>up, <2>1, <2>2, <2>3, <2>5, <2>6, Answered
  <1>6. CASE OrderRaises(r)
    <2>1. WellFormed(r) /\ UNCHANGED dbVars
      BY <1>6 DEF OrderRaises, Reaches
    <2>2. CASE /\ "huge" \in Named(items) \/ r.body.customer = "huge"
               /\ Raise(r, "range")
      <3>1. \A t \in 1 .. 9 : ~Expects(r, t)
        BY <1>asks, <2>1, <2>2
      <3> QED  BY <1>0, <1>db, <1>up, <2>1, <2>2, <3>1, Raised
    <2>3. CASE Named(items) \subseteq Products /\ InStock(items) /\ Total(items) = -1
      <3>1. Total(items) \in Nat
        BY <1>0, <2>1, <2>3, InsertsTotal DEF items
      <3> QED  BY <2>3, <3>1
    <2>4. CASE /\ Inserts(r) /\ OrdersOf(r.key) = {} /\ ~Stores(r)
               /\ Raise(r, IF r.body.customer = "unknown" THEN "customer" ELSE "stock")
      <3> DEFINE error == IF r.body.customer = "unknown" THEN "customer" ELSE "stock"
      <3>1. error \in {"customer", "stock"} /\ Raise(r, error)
        BY <2>4
      <3>2. InStock(items) /\ ~(r.body.customer # "unknown" /\ StockSuffices(items))
        BY <2>4 DEF Inserts, Stores, items
      <3> HIDE DEF error
      <3>3. \A t \in 1 .. 9 : ~Expects(r, t)
        BY <1>asks, <2>1, <3>2
      <3> QED  BY <1>0, <1>db, <1>up, <2>1, <3>1, <3>3, Raised
    <2> QED  BY <1>6, <2>2, <2>3, <2>4 DEF OrderRaises, items
  <1>7. CASE OrderDisconnected(r)
    <2>1. ~dbUp /\ Raise(r, "connection") /\ DbStep
      BY <1>7, <1>db DEF OrderDisconnected, Breaks
    <2>2. \A t \in 1 .. 9 : ~Expects(r, t)
      BY <2>1 DEF Expects
    <2> QED  BY <1>0, <1>up, <2>1, <2>2, Raised
  <1> QED  BY <1>1, <1>2, <1>3, <1>4, <1>5, <1>6, <1>7

LEMMA HandleAnswers ==
    ASSUME TypeOK, RowInv, NEW r \in inbox, Handle(r)
    PROVE  Answers(r)
  BY ReadAnswers, OrderAnswers DEF Handle

-----------------------------------------------------------------------------
(* Every step keeps the invariants. *)

LEMMA InvInit == Init => Inv
  <1> SUFFICES ASSUME Init PROVE Inv
    OBVIOUS
  <1> USE DEF Init, AppInit
  <1>1. TypeOK
    <2>1. stock \in [Products -> 0 .. MaxStock] /\ call \in Request /\ settings \in Settings
      BY NoBodyType, SeedAssumption
    <2>2. passed + failed < 10 /\ test \in 1 .. 10 /\ exit \in {-1, 0, 1, 2}
      OBVIOUS
    <2> QED  BY <2>1, <2>2 DEF TypeOK
  <1>2. RowInv
    <2>1. <<>> \in Seq(OrderRow) /\ DOMAIN <<>> = {}
      OBVIOUS
    <2> QED  BY <2>1 DEF RowInv, RowsOK
  <1>3. OrdersMatchStock
    <2>1. orders \in Seq(OrderRow) /\ DOMAIN orders = {} /\ Len(orders) = 0
      OBVIOUS
    <2>2. ASSUME NEW p \in Products PROVE Stock0[p] - stock[p] = Units(Taken(p), p)
      <3> DEFINE t == Taken(p)
      <3>0. Len(t) = Len(orders) /\ Amounts(t)
        <4> HIDE DEF Init, AppInit
        <4> QED  BY <2>1, TakenFacts DEF Taken
      <3> HIDE DEF t
      <3>1. Len(t) = 0 /\ Amounts(t)
        BY <2>1, <3>0
      <3>2. Units(t, p) = 0
        BY <3>1, UnitsFacts DEF Units
      <3>3. Stock0[p] \in Int /\ stock[p] = Stock0[p]
        BY SeedAssumption, MaxStockType
      <3>4. Stock0[p] - stock[p] = Units(t, p)
        BY <3>2, <3>3
      <3> QED  BY <3>4 DEF t
    <2> QED  BY <2>1, <2>2 DEF OrdersMatchStock
  <1>4. AnswerInv /\ SuiteInv /\ PassedInv /\ CauseInv
    BY DEF AnswerInv, SuiteInv, PassedInv, CauseInv, FailureHasCause
  <1> QED  BY <1>1, <1>2, <1>3, <1>4 DEF Inv

(* What a step that leaves the suite alone keeps. *)
LEMMA SuiteKept ==
    ASSUME Inv, DbStep, UNCHANGED suiteVars
    PROVE  SuiteInv' /\ PassedInv' /\ OrdersMatchStock' /\ RowsOK' /\ (SoldOut => SoldOut')
  <1>1. /\ RowsOK' /\ OrdersMatchStock' /\ \A k : OrdersOf(k) \subseteq OrdersOf(k)'
        /\ SoldOut => SoldOut'
    BY DbFacts DEF Inv
  <1>2. PassedInv'
    BY <1>1 DEF Inv, PassedInv, suiteVars
  <1>3. SuiteInv'
    BY DEF Inv, SuiteInv, suiteVars
  <1> QED  BY <1>1, <1>2, <1>3

(* Answers stay acknowledged. *)
LEMMA AnswersKept ==
    ASSUME Inv, DbStep, NEW a \in answers
    PROVE  AnswerStatus(a)' /\ Acknowledged(a)'
  <1>1. \A k : OrdersOf(k) \subseteq OrdersOf(k)'
    BY DbFacts DEF Inv
  <1> QED  BY <1>1 DEF Inv, AnswerInv, AnswerStatus, Acknowledged

LEMMA StartStep ==
    ASSUME Inv, Start, UNCHANGED <<suiteVars, envVars, causes>>
    PROVE  Inv'
  <1>0. DbStep
    BY DEF Start, DbStep
  <1>1. SuiteInv' /\ PassedInv' /\ OrdersMatchStock' /\ RowsOK'
    BY <1>0, SuiteKept
  <1>2. TypeOK'
    BY DEF Inv, TypeOK, Start, suiteVars, envVars, dbVars
  <1>3. RowInv'
    BY <1>1 DEF Inv, RowInv, Start
  <1>4. AnswerInv'
    BY <1>0, AnswersKept DEF AnswerInv, Start
  <1>5. CauseInv'
    BY DEF Inv, CauseInv, FailureHasCause, Start, suiteVars, envVars, dbVars
  <1> QED  BY <1>1, <1>2, <1>3, <1>4, <1>5 DEF Inv

LEMMA HandleStep ==
    ASSUME Inv, NEW r \in inbox, Handle(r), UNCHANGED <<suiteVars, envVars, causes>>
    PROVE  Inv'
  <1>0. Answers(r) /\ r \in Request /\ r.id # 0
    BY HandleAnswers DEF Inv, TypeOK, RowInv
  <1>f. HandleFrame(r)
    BY <1>0 DEF Answers
  <1>a. PICK a : answers' = answers \cup {a} /\ Outcome(r, a)
    BY <1>0 DEF Answers
  <1>db. DbStep
    BY <1>f DEF HandleFrame
  <1>1. SuiteInv' /\ PassedInv' /\ OrdersMatchStock' /\ RowsOK' /\ (SoldOut => SoldOut')
    BY <1>db, SuiteKept
  <1>2. TypeOK'
    <2>1. stock' \in [Products -> 0 .. MaxStock]
      BY <1>db, DbFacts DEF Inv
    <2>2. \A b \in answers' : b.status \in {200, 201, 400, 404, 409, 422, 500}
      BY <1>a DEF Inv, TypeOK, Outcome, AnswerStatus
    <2> QED  BY <1>f, <2>1, <2>2 DEF Inv, TypeOK, HandleFrame, suiteVars, envVars
  <1>3. RowInv'
    BY <1>0, <1>1, <1>f, <1>a DEF Inv, RowInv, HandleFrame, Outcome
  <1>4. AnswerInv'
    <2>1. AnswerStatus(a)' /\ Acknowledged(a)'
      BY <1>a DEF Outcome, AnswerStatus, Acknowledged
    <2> QED  BY <1>a, <1>db, <2>1, AnswersKept DEF AnswerInv
  <1>5. CauseInv'
    <2>1. FailureHasCause'
      BY <1>1 DEF Inv, CauseInv, FailureHasCause, SoldOut, suiteVars
    <2>2. SUFFICES ASSUME causes = {} PROVE CauseInv'
      BY <2>1 DEF CauseInv
    <2>3. /\ dbUp' /\ app' = "up"
          /\ phase' = "running" => observed'
          /\ \A b \in answers' : b.error = "none" => observed'
          /\ \A q \in inbox' : q.id > 0 /\ q.route = "metrics" => observed'
      BY <1>f, <1>a, <2>2 DEF Inv, CauseInv, HandleFrame, Outcome, suiteVars
    <2>4. ASSUME NEW b \in answers', NEW t \in 1 .. 9, Asks(b.request, t)
          PROVE  Passes(t, b) \/ SoldOut'
      <3>1. CASE b \in answers
        BY <1>1, <2>2, <2>4, <3>1 DEF Inv, CauseInv
      <3>2. CASE b = a
        <4>1. r.id > 0 /\ Asks(r, t)
          BY <1>a, <2>4, <3>2 DEF Outcome, Asks
        <4>2. dbUp /\ (r.route = "metrics" => observed)
          BY <2>2, <4>1 DEF Inv, CauseInv
        <4> QED  BY <1>1, <1>a, <3>2, <4>1, <4>2 DEF Outcome
      <3> QED  BY <1>a, <3>1, <3>2
    <2>5. \A b \in answers', t \in 1 .. 9 : Asks(b.request, t)' => Passes(t, b)' \/ SoldOut'
      BY <2>4 DEF Asks, Passes
    <2> QED  BY <2>1, <2>3, <2>5 DEF CauseInv
  <1> QED  BY <1>1, <1>2, <1>3, <1>4, <1>5 DEF Inv

LEMMA BlockStep ==
    ASSUME Inv, ReplaysBlock, UNCHANGED <<suiteVars, envVars, causes>>
    PROVE  Inv'
  <1>u. /\ UNCHANGED <<app, settings, dbUp, inbox, answers, observed, orders, stock, others>>
        /\ UNCHANGED suiteVars /\ UNCHANGED causes /\ blocked' = TRUE
    BY DEF ReplaysBlock, dbVars, envVars
  <1>0. DbStep
    BY <1>u DEF DbStep, dbVars
  <1>1. SuiteInv' /\ PassedInv' /\ OrdersMatchStock' /\ RowsOK'
    BY <1>0, SuiteKept
  <1>2. TypeOK'
    BY <1>u DEF Inv, TypeOK, suiteVars
  <1>3. RowInv'
    BY <1>1, <1>u DEF Inv, RowInv
  <1>4. AnswerInv'
    BY <1>u, <1>0, AnswersKept DEF AnswerInv
  <1>5. CauseInv'
    BY <1>u DEF Inv, CauseInv, FailureHasCause, SoldOut, Asks, Passes, suiteVars
  <1> QED  BY <1>1, <1>2, <1>3, <1>4, <1>5 DEF Inv

LEMMA OtherClientStep ==
    ASSUME Inv, OtherClient
    PROVE  Inv'
  <1>0. PICK q \in OtherRequests : inbox' = inbox \cup {[q EXCEPT !.id = -others']}
    BY DEF OtherClient
  <1> DEFINE r == [q EXCEPT !.id = -others']
  <1>r. r \in Request /\ r.id \in Int /\ r.id < 0 /\ r.key # "create"
    <2>1. others' \in Nat /\ others' > 0 /\ q \in Request /\ q.key # "create"
      BY RequestsAssumption DEF OtherClient, Inv, TypeOK, SuiteKeys
    <2> QED  BY <2>1 DEF Request
  <1> HIDE DEF r
  <1>i. inbox' = inbox \cup {r}
    BY <1>0 DEF r
  <1>u. UNCHANGED <<app, settings, dbUp, blocked, answers, observed, orders, stock, causes>>
        /\ UNCHANGED suiteVars /\ others' \in Nat
    BY DEF OtherClient, dbVars, Inv, TypeOK
  <1>db. DbStep
    BY <1>u DEF DbStep, dbVars
  <1>1. SuiteInv' /\ PassedInv' /\ OrdersMatchStock' /\ RowsOK'
    BY <1>u, <1>db, SuiteKept
  <1>2. TypeOK'
    BY <1>r, <1>i, <1>u DEF Inv, TypeOK, suiteVars
  <1>3. RowInv'
    BY <1>1, <1>r, <1>i, <1>u DEF Inv, RowInv
  <1>4. AnswerInv'
    BY <1>db, <1>u, AnswersKept DEF AnswerInv
  <1>5. CauseInv'
    <2>1. app = "up"
      BY DEF OtherClient
    <2>2. \A x \in inbox' : x.id > 0 => x \in inbox
      BY <1>r, <1>i
    <2> QED  BY <1>u, <2>1, <2>2
             DEF Inv, CauseInv, FailureHasCause, suiteVars, SoldOut, Asks, Passes
  <1> QED  BY <1>1, <1>2, <1>3, <1>4, <1>5 DEF Inv

(* A trouble is a cause. *)
LEMMA TroubleCause ==
    ASSUME NEW cause \in {"restart", "fault", "timeout"}, causes \subseteq {"restart", "fault", "timeout"},
           causes' = causes \cup {cause}
    PROVE  CauseInv' /\ causes' \subseteq {"restart", "fault", "timeout"}
  BY DEF CauseInv, FailureHasCause

LEMMA StopStep ==
    ASSUME Inv, Stop, Trouble("restart")
    PROVE  Inv'
  <1>u. /\ UNCHANGED suiteVars /\ UNCHANGED <<orders, stock, settings, dbUp, observed, others>>
        /\ app' = "off" /\ inbox' = {} /\ blocked' = FALSE /\ answers' = {}
        /\ causes' = causes \cup {"restart"}
    BY DEF Stop, Trouble, dbVars
  <1>db. DbStep
    BY <1>u DEF DbStep, dbVars
  <1>1. SuiteInv' /\ PassedInv' /\ OrdersMatchStock' /\ RowsOK'
    BY <1>u, <1>db, SuiteKept
  <1>2. CauseInv' /\ causes' \subseteq {"restart", "fault", "timeout"}
    BY <1>u, TroubleCause DEF Inv, TypeOK
  <1>3. TypeOK'
    BY <1>2, <1>u DEF Inv, TypeOK, suiteVars
  <1>4. RowInv' /\ AnswerInv'
    BY <1>1, <1>u DEF RowInv, AnswerInv
  <1> QED  BY <1>1, <1>2, <1>3, <1>4 DEF Inv

LEMMA FaultStep ==
    ASSUME Inv, Fault, Trouble("fault")
    PROVE  Inv'
  <1>u. /\ UNCHANGED suiteVars
        /\ UNCHANGED <<app, inbox, blocked, answers, orders, stock, settings, observed, others>>
        /\ dbUp' \in BOOLEAN /\ causes' = causes \cup {"fault"}
    BY DEF Fault, Trouble, dbVars
  <1>db. DbStep
    BY <1>u DEF DbStep, dbVars
  <1>1. SuiteInv' /\ PassedInv' /\ OrdersMatchStock' /\ RowsOK'
    BY <1>u, <1>db, SuiteKept
  <1>2. CauseInv' /\ causes' \subseteq {"restart", "fault", "timeout"}
    BY <1>u, TroubleCause DEF Inv, TypeOK
  <1>3. TypeOK'
    BY <1>2, <1>u DEF Inv, TypeOK, suiteVars
  <1>4. RowInv'
    BY <1>1, <1>u DEF Inv, RowInv
  <1>5. AnswerInv'
    BY <1>db, <1>u, AnswersKept DEF AnswerInv
  <1> QED  BY <1>1, <1>2, <1>3, <1>4, <1>5 DEF Inv

(* The order is stored although its answer says that the connection broke. *)
LEMMA CommitStep ==
    ASSUME Inv, NEW r \in inbox, CommitUnacknowledged(r), Trouble("fault")
    PROVE  Inv'
  <1> DEFINE a == [request |-> r, status |-> 500, body |-> [kind |-> "error"],
                   error |-> "connection"]
  <1>u. /\ UNCHANGED suiteVars /\ UNCHANGED <<app, settings, blocked, observed, others>>
        /\ dbUp' = FALSE /\ causes' = causes \cup {"fault"}
        /\ inbox' = inbox \ {r} /\ answers' = answers \cup {a}
    BY DEF CommitUnacknowledged, Trouble
  <1>a. a.request = r /\ a.status = 500 /\ a.error = "connection"
    OBVIOUS
  <1> HIDE DEF a
  <1>db. DbStep
    BY DEF DbStep, CommitUnacknowledged
  <1>1. SuiteInv' /\ PassedInv' /\ OrdersMatchStock' /\ RowsOK'
    BY <1>u, <1>db, SuiteKept
  <1>2. CauseInv' /\ causes' \subseteq {"restart", "fault", "timeout"}
    BY <1>u, TroubleCause DEF Inv, TypeOK
  <1>r. r \in Request /\ r.id # 0 /\ stock' \in [Products -> 0 .. MaxStock]
    BY <1>db, DbFacts DEF Inv, TypeOK, RowInv
  <1>3. TypeOK'
    <2>1. \A b \in answers' : b.status \in {200, 201, 400, 404, 409, 422, 500}
      BY <1>u, <1>a DEF Inv, TypeOK
    <2> QED  BY <1>2, <1>u, <1>r, <2>1 DEF Inv, TypeOK, suiteVars
  <1>4. RowInv'
    BY <1>1, <1>u, <1>a, <1>r DEF Inv, RowInv
  <1>5. AnswerInv'
    <2>1. AnswerStatus(a)' /\ Acknowledged(a)'
      BY <1>a DEF AnswerStatus, Acknowledged
    <2> QED  BY <1>db, <1>u, <2>1, AnswersKept DEF AnswerInv
  <1> QED  BY <1>1, <1>2, <1>3, <1>4, <1>5 DEF Inv

LEMMA SendStep ==
    ASSUME Inv, NEW c \in Request, Send(c), c.id = sent + 1,
           UNCHANGED <<phase, test, first, passed, failed, exit, envVars>>,
           c.key = "create" => Len(c.body.items) = 2,
           \/ phase = "waiting" /\ c = Get(c.id, "health", "none")
           \/ phase = "running" /\ test <= 9 /\ c = Tests(c.id)[test].call
    PROVE  Inv'
  <1>u. /\ UNCHANGED <<app, settings, dbUp, blocked, answers, observed, orders, stock, causes>>
        /\ inbox' = inbox \cup {c} /\ call' = c /\ sent' = sent + 1 /\ others' = others
        /\ app = "up"
    BY DEF Send, dbVars, envVars
  <1>c. c.id > 0 /\ c.id \in Int /\ sent' \in Nat
    BY <1>u DEF Inv, TypeOK
  <1>db. DbStep
    BY <1>u DEF DbStep, dbVars
  <1>1. RowsOK' /\ OrdersMatchStock' /\ \A k : OrdersOf(k) \subseteq OrdersOf(k)'
    BY <1>db, DbFacts DEF Inv
  <1>2. TypeOK'
    BY <1>u, <1>c DEF Inv, TypeOK
  <1>3. RowInv'
    BY <1>1, <1>u, <1>c DEF Inv, RowInv
  <1>4. AnswerInv'
    BY <1>db, <1>u, AnswersKept DEF AnswerInv
  <1>5. SuiteInv'
    BY <1>u, <1>c DEF Inv, SuiteInv
  <1>6. PassedInv'
    BY <1>1 DEF Inv, PassedInv
  <1>7. CauseInv'
    <2>1. phase # "running" => c.route # "metrics"
      BY DEF Get, Call
    <2>2. causes = {} => \A x \in inbox' : x.id > 0 /\ x.route = "metrics" => observed
      BY <1>u, <2>1 DEF Inv, CauseInv
    <2> QED  BY <1>u, <2>2 DEF Inv, CauseInv, FailureHasCause, SoldOut, Asks, Passes
  <1> QED  BY <1>1, <1>2, <1>3, <1>4, <1>5, <1>6, <1>7 DEF Inv

LEMMA PollStep ==
    ASSUME Inv, Poll
    PROVE  Inv'
  <1> DEFINE c == Get(sent + 1, "health", "none")
  <1>1. sent + 1 \in Int /\ NoBody \in Posted
    BY NoBodyType DEF Inv, TypeOK
  <1>2. c \in Request /\ c.id = sent + 1 /\ c.key = "none"
    BY <1>1, WordsAssumption DEF Get, Call, Request, Routes
  <1>3. c = Get(c.id, "health", "none")
    BY <1>2
  <1> HIDE DEF c
  <1>4. Send(c) /\ UNCHANGED <<phase, test, first, passed, failed, exit, envVars>>
        /\ phase = "waiting"
    BY DEF Poll, c
  <1> QED  BY <1>2, <1>3, <1>4, SendStep

LEMMA RunTestStep ==
    ASSUME Inv, RunTest
    PROVE  Inv'
  <1> DEFINE c == Tests(sent + 1)[test].call
  <1>1. sent + 1 \in Int /\ test \in 1 .. 9
    BY DEF Inv, TypeOK, RunTest
  <1>2. /\ c \in Request /\ c.id = sent + 1
        /\ c.key = "create" => Len(c.body.items) = 2
    BY <1>1, CallTypes
  <1>3. c = Tests(c.id)[test].call
    BY <1>2, Zenon
  <1> HIDE DEF c
  <1>4. Send(c) /\ UNCHANGED <<phase, test, first, passed, failed, exit, envVars>>
        /\ phase = "running" /\ test <= 9
    BY DEF RunTest, c
  <1> QED  BY <1>2, <1>3, <1>4, SendStep

(* The call that an answer is to. *)
LEMMA AnsweredCall ==
    ASSUME Inv, NEW a \in AnswerTo(call)
    PROVE  /\ a \in answers /\ a.request = call /\ call # NoCall
           /\ AnswerStatus(a) /\ Acknowledged(a)
  <1>1. a \in answers /\ a.request = call /\ call.id # 0
    BY DEF AnswerTo, Inv, RowInv
  <1> QED  BY <1>1, NoBodyType DEF Inv, AnswerInv

LEMMA HealthyStep ==
    ASSUME Inv, Healthy
    PROVE  Inv'
  <1>0. PICK a \in AnswerTo(call) : answers' = answers \ {a} /\ a.status = 200
    BY DEF Healthy
  <1>a. a \in answers /\ call # NoCall /\ a.error = "none"
    BY <1>0, AnsweredCall DEF AnswerStatus
  <1>u. /\ UNCHANGED <<app, settings, dbUp, blocked, inbox, observed, orders, stock, causes>>
        /\ UNCHANGED <<test, sent, first, passed, failed, exit, others>>
        /\ call' = NoCall /\ phase = "waiting" /\ phase' = "running"
    BY DEF Healthy, dbVars, envVars
  <1>db. DbStep
    BY <1>u DEF DbStep, dbVars
  <1>1. RowsOK' /\ OrdersMatchStock' /\ \A k : OrdersOf(k) \subseteq OrdersOf(k)'
    BY <1>db, DbFacts DEF Inv
  <1>2. TypeOK'
    BY <1>0, <1>u, NoBodyType DEF Inv, TypeOK
  <1>3. RowInv'
    BY <1>0, <1>1, <1>u DEF Inv, RowInv
  <1>4. AnswerInv'
    BY <1>0, <1>db, AnswersKept DEF AnswerInv
  <1>5. SuiteInv'
    BY <1>u DEF Inv, SuiteInv
  <1>6. PassedInv'
    BY <1>1, <1>u DEF Inv, PassedInv
  <1>7. CauseInv'
    BY <1>0, <1>a, <1>u DEF Inv, CauseInv, FailureHasCause, SoldOut, Asks, Passes
  <1> QED  BY <1>1, <1>2, <1>3, <1>4, <1>5, <1>6, <1>7 DEF Inv

LEMMA ReceiveStep ==
    ASSUME Inv, Receive
    PROVE  Inv'
  <1>0. PICK a \in AnswerTo(call) :
           /\ answers' = answers \ {a}
           /\ IF Again(a)
              THEN first' = a.body.id /\ UNCHANGED <<test, passed, failed>>
              ELSE Finish(TestPasses(a)) /\ UNCHANGED first
    BY DEF Receive
  <1>a. /\ a \in answers /\ a.request = call /\ call # NoCall
        /\ AnswerStatus(a) /\ Acknowledged(a)
    BY <1>0, AnsweredCall
  <1>u. /\ UNCHANGED <<app, settings, dbUp, blocked, inbox, observed, orders, stock, causes>>
        /\ UNCHANGED <<phase, sent, exit, others>>
        /\ call' = NoCall /\ phase = "running"
    BY DEF Receive, dbVars, envVars
  <1>c. /\ test \in 1 .. 9 /\ call.id > 0 /\ call = Tests(call.id)[test].call
        /\ call \in Request /\ call.id \in Int
    BY <1>a, <1>u DEF Inv, SuiteInv, TypeOK, Request
  <1>k. (test = 7 => call.key = "create") /\ (test = 9 => call.key = "replay")
    BY <1>c, CallTypes
  <1>p. Passes(test, a) /\ test \in {7, 9} => a.body.id \in OrdersOf(call.key)
    BY <1>a, <1>c, PassesFacts DEF Acknowledged, Good
  <1>db. DbStep
    BY <1>u DEF DbStep, dbVars
  <1>o. \A k : OrdersOf(k)' = OrdersOf(k)
    BY <1>u DEF OrdersOf
  <1>1. RowsOK' /\ OrdersMatchStock'
    BY <1>db, DbFacts DEF Inv
  <1>f. \/ Again(a) /\ first' = a.body.id /\ UNCHANGED <<test, passed, failed>>
        \/ /\ ~Again(a) /\ TestPasses(a) /\ UNCHANGED <<first, failed>>
           /\ test' = test + 1 /\ passed' = passed + 1
        \/ /\ ~Again(a) /\ ~TestPasses(a) /\ UNCHANGED <<first, passed>>
           /\ test' = test + 1 /\ failed' = failed + 1
    BY <1>0 DEF Finish
  <1>n. passed \in Nat /\ failed \in Nat /\ passed + failed = test - 1
    BY DEF Inv, TypeOK, SuiteInv
  <1>s. /\ test' \in 1 .. 10 /\ passed' \in Nat /\ failed' \in Nat
        /\ passed' + failed' = test' - 1 /\ passed' + failed' < 10
    BY <1>c, <1>f, <1>n
  <1>2. TypeOK'
    <2>1. \A b \in answers' : b.status \in {200, 201, 400, 404, 409, 422, 500}
      BY <1>0 DEF Inv, TypeOK
    <2>2. call' \in Request
      BY <1>u, NoBodyType
    <2> QED  BY <1>u, <1>s, <2>1, <2>2 DEF Inv, TypeOK
  <1>3. RowInv'
    BY <1>0, <1>1, <1>u DEF Inv, RowInv
  <1>4. AnswerInv'
    BY <1>0, <1>db, AnswersKept DEF AnswerInv
  <1>5. SuiteInv'
    <2>1. exit # 0
      BY <1>c DEF Inv, SuiteInv
    <2> QED  BY <1>u, <1>s, <2>1 DEF SuiteInv
  <1>6. PassedInv'
    <2>1. CASE Again(a)
      BY <1>f, <1>k, <1>o, <1>p, <2>1 DEF Again, Inv, PassedInv
    <2>2. CASE ~Again(a) /\ TestPasses(a)
      <3>1. Passes(test, a)
        BY <2>2 DEF TestPasses
      <3>2. UNCHANGED <<first, failed>> /\ test' = test + 1
        BY <1>f, <2>2
      <3>3. failed = 0 /\ test + 1 > 7 => OrdersOf("create") # {}
        BY <1>c, <1>k, <1>p, <3>1 DEF Inv, PassedInv
      <3>4. failed = 0 /\ test + 1 > 9 => OrdersOf("replay") # {}
        BY <1>c, <1>k, <1>p, <3>1 DEF Inv, PassedInv
      <3> QED  BY <1>o, <3>2, <3>3, <3>4 DEF Inv, PassedInv
    <2>3. CASE ~Again(a) /\ ~TestPasses(a)
      BY <1>f, <1>n, <1>o, <2>3 DEF Inv, PassedInv
    <2> QED  BY <2>1, <2>2, <2>3
  <1>7. CauseInv'
    <2>1. ASSUME causes = {}, ~SoldOut PROVE Again(a) \/ TestPasses(a)
      <3>1. Passes(test, a)
        BY <1>a, <1>c, <2>1 DEF Inv, CauseInv, Asks
      <3>2. CASE test = 9 /\ first # 0
        <4>1. first \in OrdersOf("replay") /\ a.body.id \in OrdersOf("replay")
          BY <1>k, <1>p, <3>1, <3>2 DEF Inv, PassedInv
        <4>2. first = a.body.id
          BY <4>1 DEF OrdersOf, Inv, OrdersMatchStock
        <4> QED  BY <3>1, <4>2 DEF TestPasses
      <3> QED  BY <3>1, <3>2 DEF Again, TestPasses
    <2>2. FailureHasCause'
      <3>1. failed > 0 => causes # {} \/ SoldOut
        BY DEF Inv, CauseInv, FailureHasCause, SoldOut
      <3>2. failed' > 0 => causes # {} \/ SoldOut
        BY <1>f, <2>1, <3>1
      <3> QED  BY <1>u, <3>2 DEF FailureHasCause, SoldOut
    <2> QED  BY <1>0, <1>u, <2>2 DEF Inv, CauseInv, SoldOut, Asks, Passes
  <1> QED  BY <1>1, <1>2, <1>3, <1>4, <1>5, <1>6, <1>7 DEF Inv

LEMMA FailsFacts ==
    ASSUME Inv, Fails
    PROVE  /\ UNCHANGED <<app, settings, dbUp, blocked, answers, observed, orders, stock, others>>
           /\ call' = NoCall /\ inbox' \subseteq inbox
           /\ CauseInv' /\ causes' \subseteq {"restart", "fault", "timeout"}
           /\ RowInv' /\ OrdersMatchStock' /\ AnswerInv'
           /\ \A k : OrdersOf(k)' = OrdersOf(k)
  <1>1. /\ UNCHANGED <<app, settings, dbUp, blocked, answers, observed, orders, stock, others>>
        /\ call' = NoCall /\ inbox' \subseteq inbox
    BY DEF Fails, dbVars
  <1>2. CauseInv' /\ causes' \subseteq {"restart", "fault", "timeout"}
    <2>1. causes' = causes \cup {"restart"} \/ causes' = causes \cup {"timeout"}
      BY DEF Fails
    <2> QED  BY <2>1, TroubleCause DEF Inv, TypeOK
  <1>db. DbStep
    BY <1>1 DEF DbStep, dbVars
  <1>3. RowsOK' /\ OrdersMatchStock'
    BY <1>db, DbFacts DEF Inv
  <1>4. RowInv'
    BY <1>1, <1>3 DEF Inv, RowInv
  <1>5. AnswerInv'
    BY <1>1, <1>db, AnswersKept DEF AnswerInv
  <1>6. \A k : OrdersOf(k)' = OrdersOf(k)
    BY <1>1 DEF OrdersOf
  <1> QED  BY <1>1, <1>2, <1>3, <1>4, <1>5, <1>6

LEMMA PollFailsStep ==
    ASSUME Inv, PollFails
    PROVE  Inv'
  <1>u. Fails /\ UNCHANGED <<phase, test, sent, first, passed, failed, exit>>
    BY DEF PollFails
  <1>1. TypeOK'
    BY <1>u, FailsFacts, NoBodyType DEF Inv, TypeOK
  <1>2. SuiteInv' /\ PassedInv'
    BY <1>u, FailsFacts DEF Inv, SuiteInv, PassedInv
  <1> QED  BY <1>1, <1>2, <1>u, FailsFacts DEF Inv

LEMMA TestRaisesStep ==
    ASSUME Inv, TestRaises
    PROVE  Inv'
  <1>u. /\ Fails /\ UNCHANGED <<phase, sent, first, exit>> /\ phase = "running" /\ test <= 9
        /\ passed' = passed /\ failed' = failed + 1 /\ test' = test + 1
    BY DEF TestRaises, Finish
  <1>n. /\ passed \in Nat /\ failed \in Nat /\ passed + failed = test - 1 /\ test \in 1 .. 9
    BY <1>u DEF Inv, TypeOK, SuiteInv
  <1>s. /\ test' \in 1 .. 10 /\ passed' \in Nat /\ failed' \in Nat /\ failed' > 0
        /\ passed' + failed' = test' - 1 /\ passed' + failed' < 10
    BY <1>u, <1>n
  <1>1. TypeOK'
    BY <1>u, <1>s, FailsFacts, NoBodyType DEF Inv, TypeOK
  <1>2. SuiteInv'
    <2>1. exit # 0
      BY <1>n DEF Inv, SuiteInv
    <2> QED  BY <1>u, <1>s, <2>1, FailsFacts DEF SuiteInv
  <1>3. PassedInv'
    BY <1>u, <1>s, FailsFacts DEF Inv, PassedInv
  <1> QED  BY <1>1, <1>2, <1>3, <1>u, FailsFacts DEF Inv

(* The suite ends: NotUp and Report. *)
LEMMA EndStep ==
    ASSUME Inv, NotUp \/ Report
    PROVE  Inv'
  <1>u. /\ UNCHANGED <<app, settings, dbUp, blocked, inbox, answers, observed, orders, stock>>
        /\ UNCHANGED <<test, call, sent, first, passed, failed, others, causes>>
        /\ phase' = "ended" /\ exit' \in {0, 1, 2}
        /\ exit' = 0 => test = 10 /\ failed = 0
    BY DEF NotUp, Report, appVars, dbVars, envVars
  <1>db. DbStep
    BY <1>u DEF DbStep, dbVars
  <1>1. RowsOK' /\ OrdersMatchStock' /\ \A k : OrdersOf(k) \subseteq OrdersOf(k)'
    BY <1>db, DbFacts DEF Inv
  <1>2. TypeOK'
    BY <1>u DEF Inv, TypeOK
  <1>3. RowInv'
    BY <1>1, <1>u DEF Inv, RowInv
  <1>4. AnswerInv'
    BY <1>u, <1>db, AnswersKept DEF AnswerInv
  <1>5. SuiteInv'
    <2>1. call = NoCall
      BY DEF NotUp, Report, Inv, SuiteInv
    <2> QED  BY <1>u, <2>1 DEF Inv, SuiteInv
  <1>6. PassedInv'
    BY <1>1, <1>u DEF Inv, PassedInv
  <1>7. CauseInv'
    BY <1>u DEF Inv, CauseInv, FailureHasCause, SoldOut, Asks, Passes
  <1> QED  BY <1>1, <1>2, <1>3, <1>4, <1>5, <1>6, <1>7 DEF Inv

LEMMA InvStep ==
    ASSUME Inv, [Next]_vars
    PROVE  Inv'
  <1>1. CASE Suite
    BY <1>1, PollStep, HealthyStep, PollFailsStep, EndStep, RunTestStep, ReceiveStep,
       TestRaisesStep DEF Suite
  <1>2. CASE Application
    BY <1>2, StartStep, BlockStep, HandleStep DEF Application
  <1>3. CASE OtherClient
    BY <1>3, OtherClientStep
  <1>4. CASE Stop /\ Trouble("restart")
    BY <1>4, StopStep
  <1>5. CASE Fault /\ Trouble("fault")
    BY <1>5, FaultStep
  <1>6. CASE (\E r \in inbox : CommitUnacknowledged(r)) /\ Trouble("fault")
    BY <1>6, CommitStep
  <1>7. CASE UNCHANGED vars
    <2>u. /\ UNCHANGED <<app, settings, dbUp, blocked, inbox, answers, observed, orders, stock, others>>
          /\ UNCHANGED suiteVars /\ UNCHANGED causes
      BY <1>7 DEF vars, appVars, envVars
    <2>db. DbStep
      BY <2>u DEF DbStep, dbVars
    <2>1. SuiteInv' /\ PassedInv' /\ OrdersMatchStock' /\ RowsOK'
      BY <2>u, <2>db, SuiteKept
    <2>2. TypeOK'
      BY <2>u DEF Inv, TypeOK, suiteVars
    <2>3. RowInv'
      BY <2>1, <2>u DEF Inv, RowInv
    <2>4. AnswerInv'
      BY <2>u, <2>db, AnswersKept DEF AnswerInv
    <2>5. CauseInv'
      BY <2>u DEF Inv, CauseInv, FailureHasCause, SoldOut, Asks, Passes, suiteVars
    <2> QED  BY <2>1, <2>2, <2>3, <2>4, <2>5 DEF Inv
  <1> QED  BY <1>1, <1>2, <1>3, <1>4, <1>5, <1>6, <1>7 DEF Next

LEMMA InvHolds == Spec => []Inv
  BY InvInit, InvStep, PTL DEF Spec

(* Every variable of the suite and of the application stays in its type, the
   stock between zero and what the seed gave included. *)
THEOREM ConformanceTyping == Spec => []TypeOK
  BY InvHolds, PTL DEF Inv

(* create_order never computes a total that total_cents cannot hold: no answer
   is the exception of that INSERT, whatever prices and stock the seed drew
   from its ranges and whatever the clients post. *)
THEOREM TotalsAlwaysFit == Spec => []TotalsFit
  <1>1. Inv => TotalsFit
    BY DEF Inv, AnswerInv, AnswerStatus, TotalsFit
  <1> QED  BY <1>1, InvHolds, PTL

(* create_order behind the suite, another client, restarts and broken commits:
   no key has two orders, and the stock is what the orders leave of the seed's. *)
THEOREM StockIsAccountedFor == Spec => []OrdersMatchStock
  BY InvHolds, PTL DEF Inv

(* run.py ends with status 0 only if the orders its tests claim are there, one
   for each key. *)
THEOREM SuccessTold == Spec => []SuccessIsReal
  <1>1. ASSUME Inv PROVE SuccessIsReal
    <2> SUFFICES ASSUME exit = 0 PROVE SuccessIsReal
      BY DEF SuccessIsReal
    <2>1. OrdersOf("create") # {} /\ OrdersOf("replay") # {}
      BY <1>1 DEF Inv, SuiteInv, PassedInv
    <2>2. ASSUME NEW k \in SuiteKeys PROVE Cardinality(OrdersOf(k)) = 1
      <3>1. PICK i : i \in OrdersOf(k)
        BY <2>1 DEF SuiteKeys
      <3>2. OrdersOf(k) = {i}
        BY <1>1, <3>1 DEF OrdersOf, Inv, OrdersMatchStock
      <3> QED  BY <3>2, FS_Singleton
    <2>3. \A i \in OrdersOf("create") : Len(orders[i].items) = 2
      BY <1>1 DEF OrdersOf, Inv, RowInv, RowsOK
    <2>4. OrdersOf("none") = {}
      BY <1>1 DEF OrdersOf, Inv, RowInv, RowsOK
    <2> QED  BY <2>2, <2>3, <2>4 DEF SuccessIsReal
  <1> QED  BY <1>1, InvHolds, PTL

(* A test of run.py fails only after a restart, a fault or a time-out, or when a
   product of the suite is sold out. *)
THEOREM FailuresAreExplained == Spec => []FailureHasCause
  <1>1. Inv => FailureHasCause
    BY DEF Inv, CauseInv
  <1> QED  BY <1>1, InvHolds, PTL
=============================================================================
