----------------------------- MODULE PythonApp -----------------------------
(***************************************************************************)
(* The FastAPI application, apps/python/main.py: its start, its six        *)
(* endpoints with their validation, the latency middleware and the         *)
(* database it uses.  An order is written in one step here; OrderWrite has *)
(* the statements and the interleavings of that step.                      *)
(*                                                                         *)
(* Data.  A JSON value that is not a positive integer is the quantity 0,   *)
(* the product or the customer "notInt": parse_body treats them alike.     *)
(* "huge" is an integer beyond a bigint.  An answer is its status, what    *)
(* its body is, and the exception behind a status 500.                     *)
(***************************************************************************)
EXTENDS Integers, Sequences, FiniteSets, OrderItems

CONSTANTS Products,   \* the ids of the products
          Price,      \* their prices
          Stock0,     \* the stock the seed gave them
          Settings,   \* the environments [dsn, poolSize] it may be started in
          Words       \* the texts a request may have: ids, keys, customers, ...

(* The highest price and the highest stock the seed draws. *)
MaxPrice == 99999
MaxStock == 999

ASSUME SeedAssumption ==
    /\ Price \in [Products -> 100 .. MaxPrice]
    /\ Stock0 \in [Products -> 0 .. MaxStock]

MaxInt32 == 2147483647
Routes == {"health", "json", "product", "metrics", "dashboard", "orders", "other"}

Item == [product : Words, quantity : Nat]
Posted == [form : Words, customer : Words, items : Seq(Item)]
Request == [id : Int, route : Routes, arg : Words, key : Words, body : Posted]

VARIABLES app,        \* "off", "up", or "failed": the lifespan did not start
          settings,   \* the environment of the process
          dbUp,       \* the database answers
          inbox,      \* the requests the process has taken and not answered
          blocked,    \* every connection of the pool is held by a request that waits
                      \* for another one
          answers,    \* the answers on their way to the clients
          observed,   \* the latency histogram has a sample
          orders,     \* the orders table: [id, key, items, total]
          stock       \* products.stock

appVars == <<app, settings, dbUp, inbox, blocked, answers, observed, orders, stock>>
dbVars == <<orders, stock>>

AppInit ==
    /\ app = "off" /\ dbUp = TRUE
    /\ settings \in Settings
    /\ inbox = {} /\ blocked = FALSE /\ answers = {} /\ observed = FALSE
    /\ orders = <<>> /\ stock = Stock0
-----------------------------------------------------------------------------
(* The process *)

(* run, lifespan and create_pool: without a usable environment, or when the
   pool cannot connect, the application does not start. *)
Start ==
    /\ app # "up"
    /\ app' = IF settings.dsn /\ settings.poolSize > 0 /\ dbUp THEN "up" ELSE "failed"
    /\ observed' = FALSE
    /\ UNCHANGED <<settings, dbUp, inbox, blocked, answers, dbVars>>

(* The process ends.  What it had not answered is lost, and so is what had not
   left it: the clients see their connections closed. *)
Stop ==
    /\ app = "up"
    /\ app' = "off"
    /\ inbox' = {} /\ blocked' = FALSE /\ answers' = {}
    /\ UNCHANGED <<settings, dbUp, observed, dbVars>>

(* The database goes away, or comes back. *)
Fault ==
    /\ dbUp' = ~dbUp
    /\ UNCHANGED <<app, settings, inbox, blocked, answers, observed, dbVars>>
-----------------------------------------------------------------------------
(* Answers *)

Reply(r, status, body, error) ==
    /\ inbox' = inbox \ {r}
    /\ answers' = answers \cup
         {[request |-> r, status |-> status, body |-> body, error |-> error]}
    /\ UNCHANGED <<app, settings, dbUp, blocked>>

(* Mutant: the middleware returns the answer without observing it. *)
AnswerUnobserved(r, status, body) ==
    /\ Reply(r, status, body, "none")
    /\ UNCHANGED observed

(* track_latency: the answer of the handler is observed, under the label
   normalize_path gives its path, then returned. *)
Answer(r, status, body) ==
    /\ Reply(r, status, body, "none")
    /\ observed' = TRUE

(* An exception passes through track_latency, which observes nothing, and the
   server answers 500. *)
Raise(r, error) ==
    /\ Reply(r, 500, [kind |-> "error"], error)
    /\ UNCHANGED observed

Takes(r, route) == app = "up" /\ r \in inbox /\ r.route = route

(* The request gets a connection from the pool, and the database answers on it
   or does not.  Without one it waits, with no time limit. *)
Queries == ~blocked /\ dbUp
Breaks == ~blocked /\ ~dbUp
-----------------------------------------------------------------------------
(* The endpoints without a database *)

GetJson(r) == Takes(r, "json") /\ Answer(r, 200, [kind |-> "service"]) /\ UNCHANGED dbVars

GetHealth(r) == Takes(r, "health") /\ Answer(r, 200, [kind |-> "ok"]) /\ UNCHANGED dbVars

(* A histogram with labels has no line until a label has been observed. *)
GetMetrics(r) ==
    /\ Takes(r, "metrics")
    /\ Answer(r, 200, [kind |-> "text", histogram |-> observed])
    /\ UNCHANGED dbVars

NoRoute(r) == Takes(r, "other") /\ Answer(r, 404, [kind |-> "error"]) /\ UNCHANGED dbVars
-----------------------------------------------------------------------------
(* The reads *)

(* FastAPI refuses an id that is no int; asyncpg one that is no bigint. *)
GetProduct(r) ==
    /\ Takes(r, "product")
    /\ \/ r.arg = "notInt" /\ Answer(r, 422, [kind |-> "error"])
       \/ r.arg # "notInt" /\ Breaks /\ Raise(r, "connection")
       \/ r.arg = "huge" /\ Queries /\ Raise(r, "range")
       \/ r.arg \in Products /\ Queries /\ Answer(r, 200, [kind |-> "product"])
       \/ r.arg \notin Products \cup {"notInt", "huge"} /\ Queries
            /\ Answer(r, 404, [kind |-> "error"])
    /\ UNCHANGED dbVars

(* days is cut to 1 .. 365, so that every integer is accepted. *)
GetDashboard(r) ==
    /\ Takes(r, "dashboard")
    /\ \/ r.arg = "notInt" /\ Answer(r, 400, [kind |-> "error"])
       \/ r.arg # "notInt" /\ Queries /\ Answer(r, 200, [kind |-> "table"])
       \/ r.arg # "notInt" /\ Breaks /\ Raise(r, "connection")
    /\ UNCHANGED dbVars
-----------------------------------------------------------------------------
(* POST /orders *)

(* Mutant: the number of items is not limited. *)
ParseBodyNoLimit(b) ==
    /\ b.form = "object" /\ b.customer # "notInt" /\ b.items # <<>>
    /\ \A i \in DOMAIN b.items : /\ b.items[i].product # "notInt"
                                 /\ b.items[i].quantity \in 1 .. 1000

ParseBody(b) ==
    /\ b.form = "object"
    /\ b.customer # "notInt"
    /\ Len(b.items) \in 1 .. 20
    /\ \A i \in DOMAIN b.items : /\ b.items[i].product # "notInt"
                                 /\ b.items[i].quantity \in 1 .. 1000

(* A request that create_order takes a connection for. *)
WellFormed(r) == r.key \notin {"none", "notUuid"} /\ ParseBody(r.body)

Named(items) == {items[i].product : i \in DOMAIN items}

(* -1 when the sum is beyond an integer column. *)
Plus(t, amount) == IF t = -1 \/ amount > MaxInt32 - t THEN -1 ELSE t + amount

Amount(item) == Price[item.product] * item.quantity

(* The total of the items, of the first i of them in TotalUpTo(items)[i]. *)
TotalUpTo(items) ==
    LET sum[i \in 0 .. Len(items)] == IF i = 0 THEN 0 ELSE Plus(sum[i - 1], Amount(items[i]))
    IN  sum

Total(items) == TotalUpTo(items)[Len(items)]

(* Mutant: idempotency_key is not unique. *)
OrdersOfNone(key) == {}

(* The orders that INSERT ... ON CONFLICT (idempotency_key) meets. *)
OrdersOf(key) == {i \in DOMAIN orders : orders[i].key = key}

OrderBody(id, items) == [kind |-> "order", id |-> id, lines |-> Len(items), status |-> "pending"]

(* The header or the body is refused before the database is involved. *)
RefuseOrder(r) ==
    /\ Takes(r, "orders") /\ ~WellFormed(r)
    /\ Answer(r, 400, [kind |-> "error"])
    /\ UNCHANGED dbVars

Reaches(r) == Takes(r, "orders") /\ WellFormed(r) /\ Queries

(* The products are locked one by one, in the order of their ids: the first
   that does not exist ends the request. *)
UnknownProduct(r) ==
    /\ Reaches(r)
    /\ ~(Named(r.body.items) \subseteq Products \cup {"huge"})
    /\ Answer(r, 400, [kind |-> "error"])
    /\ UNCHANGED dbVars

(* Every line is compared with the stock by itself. *)
InStock(items) == \A i \in DOMAIN items : stock[items[i].product] >= items[i].quantity

InsufficientStock(r) ==
    /\ Reaches(r)
    /\ Named(r.body.items) \subseteq Products
    /\ ~InStock(r.body.items)
    /\ Answer(r, 409, [kind |-> "error"])
    /\ UNCHANGED dbVars

(* What reaches the INSERT into orders. *)
Inserts(r) ==
    /\ Reaches(r)
    /\ Named(r.body.items) \subseteq Products
    /\ InStock(r.body.items)
    /\ r.body.customer # "huge"
    /\ Total(r.body.items) # -1

(* The key has an order already: it is read, on a second connection beside the
   one the request holds, and returned. *)
ReplayOrder(r) ==
    /\ Inserts(r)
    /\ settings.poolSize > 1
    /\ \E i \in OrdersOf(r.key) :
          Answer(r, 201, OrderBody(i, orders[i].items))
    /\ UNCHANGED dbVars

(* As many replays as there are connections hold them all; each waits for the
   second one, and none gets it. *)
ReplaysBlock ==
    /\ \E S \in SUBSET inbox :
          /\ Cardinality(S) = settings.poolSize
          /\ \A r \in S : Inserts(r) /\ OrdersOf(r.key) # {}
    /\ app = "up" /\ ~blocked
    /\ blocked' = TRUE
    /\ UNCHANGED <<app, settings, dbUp, inbox, answers, observed, dbVars>>

(* Mutant: there is no CHECK on products.stock. *)
StockUnchecked(items) == TRUE

(* The CHECK on products.stock sees the lines of a product together. *)
StockSuffices(items) == \A p \in Named(items) : stock[p] >= Units(items, p)

Insert(r) ==
    /\ orders' = Append(orders, [id |-> Len(orders) + 1, key |-> r.key,
                                 items |-> r.body.items, total |-> Total(r.body.items)])
    /\ stock' = [p \in Products |-> stock[p] - Units(r.body.items, p)]

Stores(r) ==
    /\ Inserts(r) /\ OrdersOf(r.key) = {}
    /\ r.body.customer # "unknown"
    /\ StockSuffices(r.body.items)

StoreOrder(r) ==
    /\ Stores(r)
    /\ Insert(r)
    /\ Answer(r, 201, OrderBody(Len(orders) + 1, r.body.items))

(* create_order rolls back and raises: a number that is no bigint, a total that
   is no integer, a customer there is not, more than the stock. *)
OrderRaises(r) ==
    /\ Reaches(r)
    /\ \/ /\ Named(r.body.items) \subseteq Products \cup {"huge"}
          /\ "huge" \in Named(r.body.items)
          /\ Raise(r, "range")
       \/ /\ Named(r.body.items) \subseteq Products
          /\ InStock(r.body.items)
          /\ \/ r.body.customer = "huge" /\ Raise(r, "range")
             \/ /\ r.body.customer # "huge" /\ Total(r.body.items) = -1
                /\ Raise(r, "total")
       \/ /\ Inserts(r) /\ OrdersOf(r.key) = {}
          /\ ~Stores(r)
          /\ Raise(r, IF r.body.customer = "unknown" THEN "customer" ELSE "stock")
    /\ UNCHANGED dbVars

(* The connection breaks: nothing is stored, unless it broke between the
   commit and its acknowledgement. *)
OrderDisconnected(r) ==
    /\ Takes(r, "orders") /\ WellFormed(r) /\ Breaks
    /\ Raise(r, "connection")
    /\ UNCHANGED dbVars

CommitUnacknowledged(r) ==
    /\ Stores(r)
    /\ Insert(r)
    /\ dbUp' = FALSE
    /\ inbox' = inbox \ {r}
    /\ answers' = answers \cup
         {[request |-> r, status |-> 500, body |-> [kind |-> "error"], error |-> "connection"]}
    /\ UNCHANGED <<app, settings, blocked, observed>>

Handle(r) ==
    \/ GetJson(r) \/ GetHealth(r) \/ GetMetrics(r) \/ NoRoute(r)
    \/ GetProduct(r) \/ GetDashboard(r)
    \/ RefuseOrder(r) \/ UnknownProduct(r) \/ InsufficientStock(r)
    \/ ReplayOrder(r) \/ StoreOrder(r) \/ OrderRaises(r) \/ OrderDisconnected(r)
=============================================================================
