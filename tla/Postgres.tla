------------------------------ MODULE Postgres ------------------------------
(***************************************************************************)
(* What POST /orders needs of PostgreSQL and of infra/postgres/init/       *)
(* 01-schema.sql.  The tables hold committed rows.  A connection carries   *)
(* at most one transaction (READ COMMITTED); its uncommitted writes stay   *)
(* in work[c], invisible to every other connection, until COMMIT applies   *)
(* them.  A statement sent on a connection that is outside a transaction   *)
(* commits by itself.  Row locks and pending unique keys make other        *)
(* connections wait: the operators below say when a statement can proceed, *)
(* the actions of OrderWrite put them in their guards.                     *)
(*                                                                         *)
(* inventory_ledger is append-only and only its sum per product matters,   *)
(* so ledger[p] is the sum of the deltas of p.  Prices are left out, and   *)
(* of totals all but whether total_cents takes them.                       *)
(***************************************************************************)
EXTENDS Integers

CONSTANTS Customers,  \* ids of the rows of the customers table
          Products,   \* ids of the rows of the products table
          InitStock,  \* seeded products.stock, per product
          Keys,       \* idempotency keys
          Requests,   \* HTTP requests; an order remembers the one it is from
          Conns       \* the connections of the app's pool (DB_POOL_SIZE)

ASSUME ProductsAssumption == Products \subseteq Nat
ASSUME InitStockAssumption == InitStock \in [Products -> Nat]

VARIABLES stock,      \* products.stock
          ledger,     \* sum of inventory_ledger.delta, per product
          orders,     \* rows of orders
          lines,      \* rows of order_items
          nextId,     \* the identity sequence of orders.id: never rolled back
          txn,        \* per connection: outside a transaction, in one, in a failed one
          rowLocks,   \* per connection: products rows locked FOR UPDATE
          work        \* per connection: the uncommitted writes

tables == <<stock, ledger, orders, lines>>
session == <<txn, rowLocks, work>>
db == <<stock, ledger, orders, lines, nextId, txn, rowLocks, work>>

Order == [id : Nat, key : Keys, by : Requests]
Line == [order : Nat, ln : Nat, product : Products, quantity : Nat]
Work == [ins : SUBSET Order, lns : SUBSET Line,
         led : [Products -> Int], dec : [Products -> Int]]

Zero == [p \in Products |-> 0]
NoWork == [ins |-> {}, lns |-> {}, led |-> Zero, dec |-> Zero]

(* q at product p and zero elsewhere. *)
Only(p, q) == [x \in Products |-> IF x = p THEN q ELSE 0]

(* The four writes of POST /orders. *)
NewOrder(o) == [ins |-> {o}, lns |-> {}, led |-> Zero, dec |-> Zero]
NewLine(l) == [ins |-> {}, lns |-> {l}, led |-> Zero, dec |-> Zero]
NewDelta(p, d) == [ins |-> {}, lns |-> {}, led |-> Only(p, d), dec |-> Zero]
TakeStock(p, q) == [ins |-> {}, lns |-> {}, led |-> Zero, dec |-> Only(p, q)]

Merge(w, v) == [ins |-> w.ins \cup v.ins,
                lns |-> w.lns \cup v.lns,
                led |-> [p \in Products |-> w.led[p] + v.led[p]],
                dec |-> [p \in Products |-> w.dec[p] + v.dec[p]]]

PgTypeOK ==
    /\ stock \in [Products -> Int]
    /\ ledger \in [Products -> Int]
    /\ orders \in SUBSET Order
    /\ lines \in SUBSET Line
    /\ nextId \in Nat
    /\ txn \in [Conns -> {"idle", "open", "failed"}]
    /\ rowLocks \in [Conns -> SUBSET Products]
    /\ work \in [Conns -> Work]

PgInit ==
    /\ stock = InitStock
    /\ ledger = Zero
    /\ orders = {}
    /\ lines = {}
    /\ nextId = 1
    /\ txn = [c \in Conns |-> "idle"]
    /\ rowLocks = [c \in Conns |-> {}]
    /\ work = [c \in Conns |-> NoWork]

-----------------------------------------------------------------------------
(* Visibility and waiting. *)

VisibleStock(c, p) == stock[p] - work[c].dec[p]
VisibleOrders(c) == orders \cup work[c].ins

(* No other transaction holds the row: FOR UPDATE, UPDATE and the key-share
   lock a foreign key takes wait until this holds. *)
RowFree(c, p) == \A d \in Conns \ {c} : p \notin rowLocks[d]

(* No other transaction has inserted the key and is still open: the unique
   index makes an INSERT wait for its outcome. *)
KeySettled(c, k) == \A d \in Conns \ {c} : \A o \in work[d].ins : o.key # k

(* Mutant: orders.idempotency_key is not unique. *)
KeyTakenNever(c, k) == FALSE

KeyTaken(c, k) == \E o \in VisibleOrders(c) : o.key = k

-----------------------------------------------------------------------------
(* Statements. *)

Apply(w) ==
    /\ stock' = [p \in Products |-> stock[p] - w.dec[p]]
    /\ ledger' = [p \in Products |-> ledger[p] + w.led[p]]
    /\ orders' = orders \cup w.ins
    /\ lines' = lines \cup w.lns

Begin(c) == txn' = [txn EXCEPT ![c] = IF @ = "idle" THEN "open" ELSE @]

(* Write w and, in a transaction, lock the rows in L until its end. *)
Execute(c, w, L) ==
    /\ UNCHANGED txn
    /\ \/ /\ txn[c] = "open"
          /\ work' = [work EXCEPT ![c] = Merge(work[c], w)]
          /\ rowLocks' = [rowLocks EXCEPT ![c] = @ \cup L]
          /\ UNCHANGED tables
       \/ /\ txn[c] = "idle"
          /\ Apply(w)
          /\ UNCHANGED <<rowLocks, work>>

(* A statement that errors undoes itself and poisons the transaction; its
   locks stay until the ROLLBACK. *)
StatementError(c) ==
    /\ txn' = [txn EXCEPT ![c] = IF @ = "open" THEN "failed" ELSE @]
    /\ UNCHANGED <<stock, ledger, orders, lines, rowLocks, work>>

EndSession(c) ==
    /\ txn' = [txn EXCEPT ![c] = "idle"]
    /\ rowLocks' = [rowLocks EXCEPT ![c] = {}]
    /\ work' = [work EXCEPT ![c] = NoWork]

Rollback(c) == EndSession(c) /\ UNCHANGED tables

(* COMMIT outside a transaction only warns; of a failed one it rolls back. *)
CommitTx(c) ==
    /\ EndSession(c)
    /\ IF txn[c] = "open" THEN Apply(work[c]) ELSE UNCHANGED tables

(* The server drops every session of an app that died. *)
DropSessions ==
    /\ txn' = [c \in Conns |-> "idle"]
    /\ rowLocks' = [c \in Conns |-> {}]
    /\ work' = [c \in Conns |-> NoWork]
    /\ UNCHANGED tables
=============================================================================
