-------------------------- MODULE OrderWriteProofs --------------------------
(***************************************************************************)
(* Proofs about OrderWrite, for every set of requests, keys, products,     *)
(* connections and workloads: types and keys for all applications; then,   *)
(* for those that never come back to a connection they have given back     *)
(* (all but Node), PoolInv (a handler is alone on its connection), on top  *)
(* of it TxInv (what its transaction has written so far), and AckInv.      *)
(***************************************************************************)
EXTENDS OrderInvariant, TLAPS

(* What the eight control flows have in common: the order of the statements of
   createOrder and the statuses a refusal can have. *)
LEMMA FlowFacts ==
    ASSUME NEW a \in Apps
    PROVE  /\ CreateOrder(a).begin = "lock"
           /\ CreateOrder(a).lock = "check"
           /\ CreateOrder(a).check = "insert"
           /\ CreateOrder(a).insert = "item"
           /\ CreateOrder(a).item = "ledger"
           /\ CreateOrder(a).ledger = "stock"
           /\ CreateOrder(a).stock = "commit"
           /\ CreateOrder(a).commit = "respond"
           /\ CreateOrder(a).unknown \in {400, 500}
           /\ CreateOrder(a).short \in {409, 500}
           /\ a # "phoenix" => /\ CreateOrder(a).unknown = 400
                                /\ CreateOrder(a).short = 409
  <1> USE DEF CreateOrder
  <1>1. CASE a = "go"  BY <1>1 DEF GoCreateOrder
  <1>2. CASE a = "rust"  BY <1>2 DEF RustCreateOrder
  <1>3. CASE a = "node"  BY <1>3 DEF NodeCreateOrder
  <1>4. CASE a = "bun"  BY <1>4 DEF BunCreateOrder
  <1>5. CASE a = "python"  BY <1>5 DEF PythonCreateOrder
  <1>6. CASE a = "aspnet"  BY <1>6 DEF AspnetCreateOrder
  <1>7. CASE a = "spring"  BY <1>7 DEF SpringCreateOrder
  <1>8. CASE a = "phoenix"  BY <1>8 DEF PhoenixCreateOrder
  <1> QED  BY <1>1, <1>2, <1>3, <1>4, <1>5, <1>6, <1>7, <1>8 DEF Apps

(* What their replays have in common: a failed replay of a handler that holds
   its connection goes through the error path, of one that does not is over,
   except in Node, the only one to come back to the client it released. *)
LEMMA ReplayFacts ==
    ASSUME NEW a \in Apps
    PROVE  /\ Replay(a).endTx \in BOOLEAN
           /\ Replay(a).keepConn \in BOOLEAN
           /\ Replay(a).keepConn => Replay(a).onError = "abort"
           /\ ~Replay(a).keepConn =>
                 Replay(a).onError = IF a = "node" THEN "strayRollback" ELSE "done"
           /\ ~Replay(a).endTx => Replay(a).keepConn
  <1> USE DEF Replay
  <1>1. CASE a = "go"  BY <1>1 DEF GoReplay
  <1>2. CASE a = "rust"  BY <1>2 DEF RustReplay
  <1>3. CASE a = "node"  BY <1>3 DEF NodeReplay
  <1>4. CASE a = "bun"  BY <1>4 DEF BunReplay
  <1>5. CASE a = "python"  BY <1>5 DEF PythonReplay
  <1>6. CASE a = "aspnet"  BY <1>6 DEF AspnetReplay
  <1>7. CASE a = "spring"  BY <1>7 DEF SpringReplay
  <1>8. CASE a = "phoenix"  BY <1>8 DEF PhoenixReplay
  <1> QED  BY <1>1, <1>2, <1>3, <1>4, <1>5, <1>6, <1>7, <1>8 DEF Apps

-----------------------------------------------------------------------------
(* The database's operators keep its state well typed. *)

LEMMA WorkTypes ==
    /\ NoWork \in Work
    /\ \A w, v \in Work : Merge(w, v) \in Work
    /\ \A o \in Order : NewOrder(o) \in Work
    /\ \A l \in Line : NewLine(l) \in Work
    /\ \A p \in Products, q \in Int : /\ NewDelta(p, q) \in Work
                                      /\ TakeStock(p, q) \in Work
  BY DEF NoWork, Work, Merge, Zero, Only, NewOrder, NewLine, NewDelta, TakeStock

LEMMA ApplyTypes ==
    ASSUME PgTypeOK, NEW w \in Work, Apply(w)
    PROVE  /\ stock' \in [Products -> Int]
           /\ ledger' \in [Products -> Int]
           /\ orders' \in SUBSET Order
           /\ lines' \in SUBSET Line
  BY DEF PgTypeOK, Apply, Work

LEMMA ExecuteTypes ==
    ASSUME PgTypeOK, NEW c \in Conns, NEW w \in Work,
           NEW L \in SUBSET Products, Execute(c, w, L), nextId' \in Nat
    PROVE  PgTypeOK'
  <1>1. Merge(work[c], w) \in Work
    BY WorkTypes DEF PgTypeOK
  <1>2. CASE txn[c] = "open"
    BY <1>1, <1>2 DEF PgTypeOK, Execute, tables
  <1>3. CASE txn[c] = "idle"
    <2>1. Apply(w) /\ UNCHANGED <<txn, rowLocks, work>>
      BY <1>3 DEF Execute
    <2> QED  BY <2>1, ApplyTypes DEF PgTypeOK
  <1> QED  BY <1>2, <1>3 DEF Execute

LEMMA EndTypes ==
    ASSUME PgTypeOK, NEW c \in Conns, nextId' \in Nat,
           CommitTx(c) \/ Rollback(c) \/ StatementError(c)
    PROVE  PgTypeOK'
  <1>1. CASE Rollback(c)
    BY <1>1, WorkTypes DEF PgTypeOK, Rollback, EndSession, tables
  <1>2. CASE StatementError(c)
    BY <1>2 DEF PgTypeOK, StatementError
  <1>3. CASE CommitTx(c)
    <2>1. work[c] \in Work
      BY DEF PgTypeOK
    <2>2. /\ stock' \in [Products -> Int]
          /\ ledger' \in [Products -> Int]
          /\ orders' \in SUBSET Order
          /\ lines' \in SUBSET Line
      BY <1>3, <2>1, ApplyTypes DEF CommitTx, tables, PgTypeOK
    <2> QED
      BY <1>3, <2>2, WorkTypes DEF PgTypeOK, CommitTx, EndSession
  <1> QED  BY <1>1, <1>2, <1>3

-----------------------------------------------------------------------------
(* Type correctness, for all eight applications.  HandlerInv is needed for it:
   a statement is well typed because its handler has a connection, is at one of
   its items and has found the item's product in the products table. *)

LEMMA Bodies ==
    ASSUME TypeOK, NEW r \in Requests
    PROVE  /\ app \in Apps
           /\ Key(r) \in Keys
           /\ Items(r) \in Seq(Item)
           /\ Wanted(r) \in SUBSET Nat
           /\ \A i \in 1 .. Len(Items(r)) : /\ Items(r)[i].product \in Wanted(r)
                                            /\ Items(r)[i].quantity \in Nat
  <1>1. app \in Apps /\ body[r] \in Body
    BY AppsAssumption, WorkloadsAssumption DEF TypeOK
  <1>2. Items(r) \in Seq(Item) /\ Key(r) \in Keys
    BY <1>1 DEF Body, Items, Key
  <1>3. DOMAIN Items(r) = 1 .. Len(Items(r))
    BY <1>2
  <1>4. \A i \in 1 .. Len(Items(r)) : Items(r)[i] \in Item
    BY <1>2
  <1> QED  BY <1>1, <1>2, <1>3, <1>4 DEF Wanted, Item

LEMMA CurrentItem ==
    ASSUME TypeOK, HandlerInv, NEW r \in Requests,
           pc[r] \in {"item", "ledger", "stock"}
    PROVE  /\ conn[r] \in Conns
           /\ Current(r).product \in Products
           /\ Current(r).product \in got[r]
           /\ Current(r).quantity \in Nat
           /\ idx[r] \in 1 .. Len(Items(r))
  <1>1. /\ conn[r] \in Conns
        /\ Wanted(r) \subseteq got[r]
        /\ idx[r] \in 1 .. Len(Items(r))
    BY DEF HandlerInv, RefersTo, Stray, InTx, Statements, InFlight
  <1>2. got[r] \subseteq Products
    BY DEF TypeOK
  <1> QED  BY <1>1, <1>2, Bodies DEF Current

LEMMA TypeInit == Init => TypeOK /\ HandlerInv
  <1> SUFFICES ASSUME Init PROVE TypeOK /\ HandlerInv
    OBVIOUS
  <1>1. PgTypeOK
    BY WorkTypes, InitStockAssumption DEF Init, PgInit, PgTypeOK, Zero
  <1>2. TypeOK
    BY <1>1 DEF Init, TypeOK, Labels, Codes, Zero
  <1>3. HandlerInv
    BY DEF Init, HandlerInv, RefersTo, Stray, InTx, Statements, Replaying, InFlight
  <1> QED  BY <1>2, <1>3

LEMMA TypeStep ==
    ASSUME TypeOK, HandlerInv, NEW r \in Requests, Step(r) \/ Faulty(r)
    PROVE  TypeOK' /\ HandlerInv'
  <1> USE DEF Goto, Refuse, PoolRelease, Throw
  <1>1. /\ H.begin = "lock" /\ H.lock = "check" /\ H.check = "insert"
        /\ H.insert = "item" /\ H.item = "ledger" /\ H.ledger = "stock"
        /\ H.stock = "commit" /\ H.commit = "respond"
        /\ H.unknown \in Codes /\ H.short \in Codes
        /\ R.endTx \in BOOLEAN /\ R.keepConn \in BOOLEAN
        /\ R.keepConn => R.onError = "abort"
        /\ R.onError \in {"abort", "done", "strayRollback"}
        /\ R.onError = "abort" => R.keepConn
    BY Bodies, FlowFacts, ReplayFacts DEF H, R, Codes
  <1>2. pc[r] \in InTx \cup {"respond", "abort"} \cup Stray
           => conn[r] \in Conns
    BY DEF HandlerInv, RefersTo, Stray
  <1>3. CASE Receive(r)
    <2>0. ~Invalid(r) => idx[r] \in 1 .. Len(Items(r))
      BY <1>3, Bodies DEF Receive, HandlerInv, Invalid
    <2>1. PgTypeOK'
      BY <1>3 DEF Receive, TypeOK, PgTypeOK, db
    <2>2. TypeOK'
      <3>1. (\E o \in orders : o.key = Key(r)) =>
               (CHOOSE o \in orders : o.key = Key(r)) \in orders
        OBVIOUS
      <3>2. prior' \in [Requests -> Nat]
        BY <1>3, <3>1 DEF Receive, TypeOK, PgTypeOK, Order
      <3>3. pc' \in [Requests -> Labels]
        BY <1>3 DEF Receive, Goto, TypeOK, Labels
      <3>4. code' \in [Requests -> Codes]
        <4>1. code' = code \/ code' = [code EXCEPT ![r] = 400]
          BY <1>3 DEF Receive
        <4> QED  BY <4>1 DEF TypeOK, Codes
      <3> QED  BY <1>3, <2>1, <3>2, <3>3, <3>4 DEF Receive, TypeOK
    <2>3. HandlerInv'
      BY <1>1, <1>2, <1>3, <2>0 DEF Receive, HandlerInv, RefersTo, Stray, R, H, InTx, Statements, Replaying, InFlight, Wanted, Items, TypeOK
    <2> QED  BY <2>2, <2>3
  <1>4. CASE BeginTx(r)
    <2>1. PgTypeOK'
      BY <1>4 DEF BeginTx, FreeConns, Begin, tables, TypeOK, PgTypeOK
    <2>2. TypeOK'
      BY <1>1, <1>4, <2>1 DEF BeginTx, TypeOK, Labels, Statements, Codes, FreeConns
    <2>3. HandlerInv'
      BY <1>1, <1>2, <1>4 DEF BeginTx, HandlerInv, RefersTo, Stray, R, H, InTx, Statements, Replaying, InFlight, Wanted, Items, TypeOK, FreeConns
    <2> QED  BY <2>2, <2>3
  <1>5. CASE LockProduct(r)
    <2>1. PgTypeOK'
      <3>1. PICK p \in Products : Execute(conn[r], NoWork, {p})
        BY <1>5 DEF LockProduct
      <3>2. conn[r] \in Conns /\ nextId' \in Nat
        BY <1>2, <1>5 DEF LockProduct, InTx, Statements, TypeOK, PgTypeOK
      <3> QED  BY <3>1, <3>2, ExecuteTypes, WorkTypes DEF TypeOK
    <2>2. TypeOK'
      <3>1. PICK p \in Products :
               /\ got' = [got EXCEPT ![r] = @ \cup {p}]
               /\ seen' = [seen EXCEPT ![r][p] = VisibleStock(conn[r], p)]
        BY <1>5 DEF LockProduct
      <3>2. conn[r] \in Conns
        BY <1>2, <1>5 DEF LockProduct, InTx, Statements
      <3>3. VisibleStock(conn[r], p) \in Int
        BY <3>2 DEF VisibleStock, TypeOK, PgTypeOK, Work
      <3>4. got' \in [Requests -> SUBSET Products]
        BY <3>1 DEF TypeOK
      <3>5. seen' \in [Requests -> [Products -> Int]]
        BY <3>1, <3>3 DEF TypeOK
      <3>6. pc' \in [Requests -> Labels]
        BY <1>1, <1>5 DEF LockProduct, TypeOK, Labels, Statements
      <3> QED  BY <1>5, <2>1, <3>4, <3>5, <3>6 DEF LockProduct, TypeOK
    <2>3. HandlerInv'
      BY <1>1, <1>2, <1>5 DEF LockProduct, HandlerInv, RefersTo, Stray, R, H, InTx, Statements, Replaying, InFlight, Wanted, Items, TypeOK
    <2> QED  BY <2>2, <2>3
  <1>6. CASE UnknownProduct(r)
    <2>1. PgTypeOK'
      BY <1>6 DEF UnknownProduct, TypeOK, PgTypeOK, db
    <2>2. TypeOK'
      BY <1>1, <1>6, <2>1 DEF UnknownProduct, TypeOK, Labels, Statements, Codes
    <2>3. HandlerInv'
      BY <1>1, <1>2, <1>6 DEF UnknownProduct, HandlerInv, RefersTo, Stray, R, H, InTx, Statements, Replaying, InFlight, Wanted, Items, TypeOK
    <2> QED  BY <2>2, <2>3
  <1>7. CASE CheckStock(r)
    <2>1. PgTypeOK'
      BY <1>7 DEF CheckStock, TypeOK, PgTypeOK, db
    <2>2. TypeOK'
      <3>1. pc' \in [Requests -> Labels]
        BY <1>1, <1>7 DEF CheckStock, TypeOK, Labels, Statements
      <3>2. code' \in [Requests -> Codes]
        BY <1>1, <1>7 DEF CheckStock, TypeOK, Codes
      <3> QED  BY <1>7, <2>1, <3>1, <3>2 DEF CheckStock, TypeOK
    <2>3. HandlerInv'
      <3>1. pc' = [pc EXCEPT ![r] = "insert"] \/ pc' = [pc EXCEPT ![r] = "abort"]
        BY <1>1, <1>7 DEF CheckStock
      <3>2. UNCHANGED <<app, body, conn, got, idx>> /\ pc[r] = "check"
        BY <1>7 DEF CheckStock
      <3> QED  BY <1>2, <3>1, <3>2 DEF HandlerInv, RefersTo, Stray, R, H, InTx, Statements, Replaying, InFlight, Wanted, Items, TypeOK
    <2> QED  BY <2>2, <2>3
  <1>8. CASE InsertOrder(r)
    <2>1. PgTypeOK'
      <3>1. NewOrder([id |-> nextId, key |-> Key(r), by |-> r]) \in Work
        BY WorkTypes, Bodies, CurrentItem, <1>8 DEF InsertOrder, Line, Order, TypeOK, PgTypeOK
      <3>2. conn[r] \in Conns /\ nextId' \in Nat
        BY <1>2, <1>8 DEF InsertOrder, InTx, Statements, TypeOK, PgTypeOK
      <3> QED  BY <1>8, <3>1, <3>2, CurrentItem, ExecuteTypes DEF TypeOK, InsertOrder
    <2>2. TypeOK'
      BY <1>1, <1>8, <2>1 DEF InsertOrder, TypeOK, Labels, Statements, Codes, PgTypeOK
    <2>3. HandlerInv'
      BY <1>1, <1>2, <1>8 DEF InsertOrder, HandlerInv, RefersTo, Stray, R, H, InTx, Statements, Replaying, InFlight, Wanted, Items, TypeOK, PgTypeOK
    <2> QED  BY <2>2, <2>3
  <1>9. CASE InsertConflict(r)
    <2>1. PgTypeOK'
      <3>1. conn[r] \in Conns /\ nextId' \in Nat
        BY <1>2, <1>9 DEF InsertConflict, InTx, Statements, TypeOK, PgTypeOK
      <3>2. CASE R.endTx
        BY <1>9, <3>1, <3>2, EndTypes DEF InsertConflict, TypeOK
      <3>3. CASE ~R.endTx
        BY <1>9, <3>1, <3>3 DEF InsertConflict, TypeOK, PgTypeOK, tables, session
      <3> QED  BY <3>2, <3>3
    <2>2. PICK l \in {"replayOrder", "strayRollback"} : pc' = [pc EXCEPT ![r] = l]
      BY <1>9 DEF InsertConflict
    <2>3. code' = code \/ code' = [code EXCEPT ![r] = 500]
      BY <1>9 DEF InsertConflict
    <2>4. owner' = owner \/ owner' = [owner EXCEPT ![conn[r]] = NoOwner]
      BY <1>9 DEF InsertConflict
    <2>5. \/ conn' = conn
          \/ /\ conn' = [conn EXCEPT ![r] = NoConn] /\ l = "replayOrder"
             /\ ~R.keepConn /\ R.onError # "strayRollback"
      <3>1. [conn EXCEPT ![r] = conn[r]] = conn
        BY DEF TypeOK
      <3>2. pc'[r] = l
        BY <2>2 DEF TypeOK
      <3>3. conn' # conn => pc'[r] = "replayOrder"
        BY <1>9 DEF InsertConflict, TypeOK
      <3> QED  BY <1>9, <3>1, <3>2, <3>3 DEF InsertConflict
    <2>6. TypeOK'
      <3>1. pc' \in [Requests -> Labels]
        BY <2>2 DEF TypeOK, Labels
      <3>2. code' \in [Requests -> Codes]
        BY <2>3 DEF TypeOK, Codes
      <3>3. conn' \in [Requests -> Conns \cup {NoConn}]
        BY <2>5 DEF TypeOK
      <3>4. owner' \in [Conns -> Requests \cup {NoOwner}]
        BY <2>4 DEF TypeOK
      <3> QED  BY <1>9, <2>1, <3>1, <3>2, <3>3, <3>4 DEF InsertConflict, TypeOK
    <2>7. HandlerInv'
      <3>1. UNCHANGED <<app, body, got, idx>> /\ pc[r] = "insert"
        BY <1>9 DEF InsertConflict
      <3> QED  BY <1>2, <2>2, <2>5, <3>1 DEF HandlerInv, RefersTo, Stray, R, H, InTx, Statements, Replaying, InFlight, Wanted, Items, TypeOK
    <2> QED  BY <2>6, <2>7
  <1>10. CASE InsertItem(r)
    <2>1. PgTypeOK'
      <3>1. NewLine([order |-> oid[r], ln |-> idx[r], product |-> Current(r).product,
                     quantity |-> Current(r).quantity]) \in Work
        BY WorkTypes, Bodies, CurrentItem, <1>10 DEF InsertItem, Line, Order, TypeOK, PgTypeOK
      <3>2. conn[r] \in Conns /\ nextId' \in Nat
        BY <1>2, <1>10 DEF InsertItem, InTx, Statements, TypeOK, PgTypeOK
      <3> QED  BY <1>10, <3>1, <3>2, CurrentItem, ExecuteTypes DEF TypeOK, InsertItem
    <2>2. TypeOK'
      BY <1>1, <1>10, <2>1 DEF InsertItem, TypeOK, Labels, Statements, Codes
    <2>3. HandlerInv'
      BY <1>1, <1>2, <1>10 DEF InsertItem, HandlerInv, RefersTo, Stray, R, H, InTx, Statements, Replaying, InFlight, Wanted, Items, TypeOK
    <2> QED  BY <2>2, <2>3
  <1>11. CASE InsertLedger(r)
    <2>1. PgTypeOK'
      <3>1. NewDelta(Current(r).product, -Current(r).quantity) \in Work
        BY WorkTypes, Bodies, CurrentItem, <1>11 DEF InsertLedger, Line, Order, TypeOK, PgTypeOK
      <3>2. conn[r] \in Conns /\ nextId' \in Nat
        BY <1>2, <1>11 DEF InsertLedger, InTx, Statements, TypeOK, PgTypeOK
      <3> QED  BY <1>11, <3>1, <3>2, CurrentItem, ExecuteTypes DEF TypeOK, InsertLedger
    <2>2. TypeOK'
      BY <1>1, <1>11, <2>1 DEF InsertLedger, TypeOK, Labels, Statements, Codes
    <2>3. HandlerInv'
      BY <1>1, <1>2, <1>11 DEF InsertLedger, HandlerInv, RefersTo, Stray, R, H, InTx, Statements, Replaying, InFlight, Wanted, Items, TypeOK
    <2> QED  BY <2>2, <2>3
  <1>12. CASE DecrementStock(r)
    <2>1. PgTypeOK'
      <3>1. TakeStock(Current(r).product, Current(r).quantity) \in Work
        BY WorkTypes, Bodies, CurrentItem, <1>12 DEF DecrementStock, Line, Order, TypeOK, PgTypeOK
      <3>2. conn[r] \in Conns /\ nextId' \in Nat
        BY <1>2, <1>12 DEF DecrementStock, InTx, Statements, TypeOK, PgTypeOK
      <3> QED  BY <1>12, <3>1, <3>2, CurrentItem, ExecuteTypes DEF TypeOK, DecrementStock
    <2>2. TypeOK'
      <3>1. pc' \in [Requests -> Labels]
        BY <1>1, <1>12 DEF DecrementStock, TypeOK, Labels, Statements
      <3>2. code' \in [Requests -> Codes]
        BY <1>1, <1>12 DEF DecrementStock, TypeOK, Codes
      <3>3. idx' \in [Requests -> Nat]
        <4>1. idx' = idx \/ idx' = [idx EXCEPT ![r] = idx[r] + 1]
          BY <1>12 DEF DecrementStock
        <4> QED  BY <4>1 DEF TypeOK
      <3> QED  BY <1>12, <2>1, <3>1, <3>2, <3>3 DEF DecrementStock, TypeOK
    <2>3. HandlerInv'
      BY <1>1, <1>2, <1>12, CurrentItem, Bodies DEF DecrementStock, HandlerInv, RefersTo, Stray, R, H, InTx, Statements, Replaying, InFlight, Wanted, Items, TypeOK
    <2> QED  BY <2>2, <2>3
  <1>13. CASE WriteError(r)
    <2>1. PgTypeOK'
      <3>1. conn[r] \in Conns /\ nextId' \in Nat
        BY <1>2, <1>13 DEF WriteError, InTx, Statements, TypeOK, PgTypeOK, ConstraintError
      <3> QED  BY <1>13, <3>1, EndTypes DEF WriteError, TypeOK
    <2>2. TypeOK'
      BY <1>1, <1>13, <2>1 DEF WriteError, TypeOK, Labels, Statements, Codes, ConstraintError
    <2>3. HandlerInv'
      BY <1>1, <1>2, <1>13 DEF WriteError, HandlerInv, RefersTo, Stray, R, H, InTx, Statements, Replaying, InFlight, Wanted, Items, TypeOK, ConstraintError
    <2> QED  BY <2>2, <2>3
  <1>14. CASE Commit(r)
    <2>1. PgTypeOK'
      <3>1. conn[r] \in Conns /\ nextId' \in Nat
        BY <1>2, <1>14 DEF Commit, InTx, Statements, TypeOK, PgTypeOK
      <3> QED  BY <1>14, <3>1, EndTypes DEF Commit, TypeOK
    <2>2. TypeOK'
      BY <1>1, <1>14, <2>1 DEF Commit, TypeOK, Labels, Statements, Codes
    <2>3. HandlerInv'
      BY <1>1, <1>2, <1>14 DEF Commit, HandlerInv, RefersTo, Stray, R, H, InTx, Statements, Replaying, InFlight, Wanted, Items, TypeOK
    <2> QED  BY <2>2, <2>3
  <1>15. CASE Respond(r)
    <2>1. PgTypeOK'
      BY <1>15 DEF Respond, TypeOK, PgTypeOK, db
    <2>2. \/ /\ pc' = [pc EXCEPT ![r] = "done"]
             /\ conn' = [conn EXCEPT ![r] = NoConn]
             /\ owner' = [owner EXCEPT ![conn[r]] = NoOwner]
          \/ /\ pc' = [pc EXCEPT ![r] = "strayRollback"]
             /\ UNCHANGED <<conn, owner>>
      BY <1>15 DEF Respond
    <2>3. \E s \in {201, 500} : code' = [code EXCEPT ![r] = s]
      BY <1>15 DEF Respond
    <2>4. TypeOK'
      <3>1. pc' \in [Requests -> Labels]
        BY <2>2 DEF TypeOK, Labels
      <3>2. code' \in [Requests -> Codes]
        BY <2>3 DEF TypeOK, Codes
      <3>3. /\ conn' \in [Requests -> Conns \cup {NoConn}]
            /\ owner' \in [Conns -> Requests \cup {NoOwner}]
        BY <2>2 DEF TypeOK
      <3> QED  BY <1>15, <2>1, <3>1, <3>2, <3>3 DEF Respond, TypeOK
    <2>5. HandlerInv'
      <3>1. UNCHANGED <<app, body, got, idx>> /\ pc[r] = "respond"
        BY <1>15 DEF Respond
      <3> QED  BY <1>2, <2>2, <3>1 DEF HandlerInv, RefersTo, Stray, R, H, InTx, Statements, Replaying, InFlight, Wanted, Items, TypeOK
    <2> QED  BY <2>4, <2>5
  <1>16. CASE Abort(r)
    <2>1. PgTypeOK'
      <3>1. conn[r] \in Conns /\ nextId' \in Nat
        BY <1>2, <1>16 DEF Abort, InTx, Stray, Statements, TypeOK, PgTypeOK
      <3>2. CommitTx(conn[r]) \/ Rollback(conn[r])
        BY <1>16 DEF Abort
      <3> QED  BY <3>1, <3>2, EndTypes DEF TypeOK
    <2>2. \/ /\ pc' = [pc EXCEPT ![r] = "done"]
             /\ conn' = [conn EXCEPT ![r] = NoConn]
             /\ owner' = [owner EXCEPT ![conn[r]] = NoOwner]
          \/ /\ pc' = [pc EXCEPT ![r] = "strayRollback"]
             /\ UNCHANGED <<conn, owner>>
      BY <1>16 DEF Abort
    <2>3. code' = code \/ code' = [code EXCEPT ![r] = 500]
      BY <1>16 DEF Abort
    <2>4. TypeOK'
      <3>1. pc' \in [Requests -> Labels]
        BY <2>2 DEF TypeOK, Labels
      <3>2. code' \in [Requests -> Codes]
        BY <2>3 DEF TypeOK, Codes
      <3>3. /\ conn' \in [Requests -> Conns \cup {NoConn}]
            /\ owner' \in [Conns -> Requests \cup {NoOwner}]
        BY <2>2 DEF TypeOK
      <3> QED  BY <1>16, <2>1, <3>1, <3>2, <3>3 DEF Abort, TypeOK
    <2>5. HandlerInv'
      <3>1. UNCHANGED <<app, body, got, idx>> /\ pc[r] = "abort"
        BY <1>16 DEF Abort
      <3> QED  BY <1>2, <2>2, <3>1 DEF HandlerInv, RefersTo, Stray, R, H, InTx, Statements, Replaying, InFlight, Wanted, Items, TypeOK
    <2> QED  BY <2>4, <2>5
  <1>17. CASE ReplayOrder(r)
    <2>1. PgTypeOK'
      BY <1>17 DEF ReplayOrder, TypeOK, PgTypeOK, db
    <2>2. TypeOK'
      <3>1. pc' \in [Requests -> Labels]
        BY <1>1, <1>17 DEF ReplayOrder, TypeOK, Labels, Statements
      <3>2. code' \in [Requests -> Codes]
        BY <1>1, <1>17 DEF ReplayOrder, TypeOK, Codes
      <3>3. oid' \in [Requests -> Nat]
        BY <1>2, <1>17 DEF ReplayOrder, InTx, Statements, TypeOK, PgTypeOK, Order
      <3> QED  BY <1>17, <2>1, <3>1, <3>2, <3>3 DEF ReplayOrder, TypeOK
    <2>3. HandlerInv'
      <3>1. CASE pc' = [pc EXCEPT ![r] = "replayItems"]
        BY <1>1, <1>2, <1>17, <3>1 DEF ReplayOrder, HandlerInv, RefersTo, Stray, R, H, InTx, Statements, Replaying, InFlight, Wanted, Items, TypeOK
      <3>2. CASE pc' = [pc EXCEPT ![r] = IF R.keepConn THEN "abort" ELSE "done"]
        BY <1>1, <1>2, <1>17, <3>2 DEF ReplayOrder, HandlerInv, RefersTo, Stray, R, H, InTx, Statements, Replaying, InFlight, Wanted, Items, TypeOK
      <3> QED  BY <1>17, <3>1, <3>2 DEF ReplayOrder, Goto
    <2> QED  BY <2>2, <2>3
  <1>18. CASE ReplayItems(r)
    <2>1. PgTypeOK'
      <3>1. CASE R.keepConn
        <4>1. conn[r] \in Conns /\ nextId' \in Nat
          BY <1>18, <3>1 DEF ReplayItems, HandlerInv, RefersTo, Stray, Replaying, TypeOK, PgTypeOK
        <4> QED  BY <1>18, <3>1, <4>1, EndTypes DEF ReplayItems, TypeOK
      <3>2. CASE ~R.keepConn
        BY <1>18, <3>2 DEF ReplayItems, TypeOK, PgTypeOK, tables, session
      <3> QED  BY <3>1, <3>2
    <2>2. TypeOK'
      BY <1>1, <1>18, <2>1 DEF ReplayItems, TypeOK, Labels, Statements, Codes
    <2>3. HandlerInv'
      BY <1>1, <1>2, <1>18 DEF ReplayItems, HandlerInv, RefersTo, Stray, R, H, InTx, Statements, Replaying, InFlight, Wanted, Items, TypeOK
    <2> QED  BY <2>2, <2>3
  <1>19. CASE StrayRollback(r)
    <2>1. PgTypeOK'
      <3>1. conn[r] \in Conns /\ nextId' \in Nat
        BY <1>2, <1>19 DEF StrayRollback, InTx, Stray, Statements, TypeOK, PgTypeOK
      <3> QED  BY <1>19, <3>1, EndTypes DEF StrayRollback, TypeOK
    <2>2. TypeOK'
      BY <1>1, <1>19, <2>1 DEF StrayRollback, TypeOK, Labels, Statements, Codes
    <2>3. HandlerInv'
      BY <1>1, <1>2, <1>19 DEF StrayRollback, HandlerInv, RefersTo, Stray, R, H, InTx, Statements, Replaying, InFlight, Wanted, Items, TypeOK
    <2> QED  BY <2>2, <2>3
  <1>20. CASE StatementFails(r)
    <2>1. PgTypeOK'
      <3>1. conn[r] \in Conns /\ nextId' \in Nat
        BY <1>2, <1>20 DEF StatementFails, InTx, Statements, TypeOK, PgTypeOK
      <3> QED  BY <1>20, <3>1, EndTypes DEF StatementFails, TypeOK
    <2>2. TypeOK'
      BY <1>1, <1>20, <2>1 DEF StatementFails, TypeOK, Labels, Statements, Codes, Fault
    <2>3. HandlerInv'
      BY <1>1, <1>2, <1>20 DEF StatementFails, HandlerInv, RefersTo, Stray, R, H, InTx, Statements, Replaying, InFlight, Wanted, Items, TypeOK, Fault
    <2> QED  BY <2>2, <2>3
  <1>21. CASE CommitFails(r)
    <2>1. PgTypeOK'
      <3>1. conn[r] \in Conns /\ nextId' \in Nat
        BY <1>2, <1>21 DEF CommitFails, InTx, Statements, TypeOK, PgTypeOK
      <3> QED  BY <1>21, <3>1, EndTypes DEF CommitFails, TypeOK
    <2>2. TypeOK'
      BY <1>1, <1>21, <2>1 DEF CommitFails, TypeOK, Labels, Statements, Codes, Fault
    <2>3. HandlerInv'
      BY <1>1, <1>2, <1>21 DEF CommitFails, HandlerInv, RefersTo, Stray, R, H, InTx, Statements, Replaying, InFlight, Wanted, Items, TypeOK, Fault
    <2> QED  BY <2>2, <2>3
  <1>22. CASE PoolTimeout(r)
    <2>1. PgTypeOK'
      BY <1>22 DEF PoolTimeout, TypeOK, PgTypeOK, db
    <2>2. TypeOK'
      BY <1>1, <1>22, <2>1 DEF PoolTimeout, TypeOK, Labels, Statements, Codes, Fault
    <2>3. HandlerInv'
      BY <1>1, <1>2, <1>22 DEF PoolTimeout, HandlerInv, RefersTo, Stray, R, H, InTx, Statements, Replaying, InFlight, Wanted, Items, TypeOK, Fault
    <2> QED  BY <2>2, <2>3
  <1>23. CASE ReplayFails(r)
    <2>1. PgTypeOK'
      BY <1>23 DEF ReplayFails, TypeOK, PgTypeOK, db
    <2>2. TypeOK'
      BY <1>1, <1>23, <2>1 DEF ReplayFails, TypeOK, Labels, Statements, Codes, Fault
    <2>3. HandlerInv'
      BY <1>1, <1>2, <1>23 DEF ReplayFails, HandlerInv, RefersTo, Stray, R, H, InTx, Statements, Replaying, InFlight, Wanted, Items, TypeOK, Fault
    <2> QED  BY <2>2, <2>3
  <1> QED
    BY <1>3, <1>4, <1>5, <1>6, <1>7, <1>8, <1>9, <1>10, <1>11, <1>12, <1>13, <1>14, <1>15, <1>16, <1>17, <1>18, <1>19, <1>20, <1>21, <1>22, <1>23 DEF Step, Faulty

LEMMA TypeNext ==
    ASSUME TypeOK, HandlerInv, [Next]_vars
    PROVE  TypeOK' /\ HandlerInv'
  <1>1. CASE Restart
    <2>1. TypeOK'
      BY <1>1, WorkTypes DEF Restart, DropSessions, tables, Fault, TypeOK, PgTypeOK,
         Labels
    <2>2. HandlerInv'
      BY <1>1 DEF Restart, HandlerInv, RefersTo, Stray, InTx, Statements, Replaying,
         InFlight, TypeOK
    <2> QED  BY <2>1, <2>2
  <1>2. CASE UNCHANGED vars
    BY <1>2 DEF vars, db, TypeOK, PgTypeOK, HandlerInv, RefersTo, Stray, R, InFlight,
       Wanted, Items
  <1> QED  BY <1>1, <1>2, TypeStep DEF Next, Finished

(* Every reachable state is well typed and every handler is where HandlerInv
   says, whatever the application, the workload and the faults. *)
THEOREM Typing == Spec => [](TypeOK /\ HandlerInv)
  <1>1. Init => TypeOK /\ HandlerInv
    BY TypeInit
  <1>2. (TypeOK /\ HandlerInv) /\ [Next]_vars => (TypeOK /\ HandlerInv)'
    BY TypeNext
  <1> QED  BY <1>1, <1>2, PTL DEF Spec

(* Every variable of every application keeps its type, through any number of
   requests, faults and restarts. *)
THEOREM OrderTyping == Spec => []TypeOK
  BY Typing, PTL

-----------------------------------------------------------------------------
(* At most one order per idempotency key, for all eight applications.  KeyInv
   extends OneOrderPerKey to the orders that open transactions have inserted:
   this is what the unique index's wait (KeySettled) preserves. *)

(* A statement that inserts no order. *)
LEMMA KeyOtherWrite ==
    ASSUME PgTypeOK, KeyInv, NEW c \in Conns, NEW w \in Work, w.ins = {},
           NEW L, Execute(c, w, L), nextId' = nextId
    PROVE  KeyInv'
  <1>1. orders' = orders /\ \A d \in Conns : work'[d].ins = work[d].ins
    <2>1. CASE txn[c] = "open"
      BY <2>1 DEF Execute, tables, Merge, PgTypeOK
    <2>2. CASE txn[c] = "idle"
      BY <2>2 DEF Execute, Apply
    <2> QED  BY <2>1, <2>2 DEF Execute
  <1> QED  BY <1>1 DEF KeyInv, OneOrderPerKey

(* The INSERT that returned an id. *)
LEMMA KeyInsert ==
    ASSUME PgTypeOK, KeyInv, NEW c \in Conns, NEW k \in Keys,
           NEW r \in Requests, KeySettled(c, k), ~KeyTaken(c, k),
           Execute(c, NewOrder([id |-> nextId, key |-> k, by |-> r]), {}),
           nextId' = nextId + 1
    PROVE  KeyInv'
  <1> DEFINE new == [id |-> nextId, key |-> k, by |-> r]
  <1>1. new.id = nextId /\ new.key = k
    OBVIOUS
  <1>2. /\ \A d \in Conns : \A o \in work[d].ins : o.key # k /\ o.id \in Nat
        /\ \A o \in orders : o.key # k /\ o.id \in Nat
    BY DEF KeySettled, KeyTaken, VisibleOrders, PgTypeOK, Work, Order
  <1>3. \/ /\ orders' = orders
           /\ work'[c].ins = work[c].ins \cup {new}
           /\ \A d \in Conns : d # c => work'[d] = work[d]
        \/ orders' = orders \cup {new} /\ work' = work
    <2>1. CASE txn[c] = "open"
      BY <2>1 DEF Execute, tables, Merge, NewOrder, PgTypeOK
    <2>2. CASE txn[c] = "idle"
      BY <2>2 DEF Execute, Apply, NewOrder
    <2> QED  BY <2>1, <2>2 DEF Execute
  <1> HIDE DEF new
  <1>4. nextId \in Nat
    BY DEF PgTypeOK
  <1>5. CASE /\ orders' = orders
             /\ work'[c].ins = work[c].ins \cup {new}
             /\ \A d \in Conns : d # c => work'[d] = work[d]
    BY <1>1, <1>2, <1>4, <1>5 DEF KeyInv, OneOrderPerKey
  <1>6. CASE orders' = orders \cup {new} /\ work' = work
    BY <1>1, <1>2, <1>4, <1>6 DEF KeyInv, OneOrderPerKey
  <1> QED  BY <1>3, <1>5, <1>6

(* COMMIT moves a transaction's order to the table; everything else that ends
   a transaction forgets it.  Ids only grow. *)
LEMMA KeyEnd ==
    ASSUME PgTypeOK, KeyInv, NEW c \in Conns, nextId' \in {nextId, nextId + 1},
           CommitTx(c) \/ Rollback(c) \/ StatementError(c)
    PROVE  KeyInv'
  <1>1. /\ \A d \in Conns : \A o \in work[d].ins : o.id \in Nat
        /\ \A o \in orders : o.id \in Nat
        /\ nextId \in Nat
    BY DEF PgTypeOK, Work, Order
  <1>2. \A d \in Conns : work'[d].ins = {} \/ (d # c /\ work'[d] = work[d])
                            \/ (work'[d] = work[d] /\ orders' = orders)
    BY DEF CommitTx, Rollback, StatementError, EndSession, NoWork, PgTypeOK
  <1>3. orders' = orders \/ (orders' = orders \cup work[c].ins /\ work'[c].ins = {})
    BY DEF CommitTx, Rollback, StatementError, EndSession, NoWork, PgTypeOK,
           Apply, tables
  <1>4. CASE orders' = orders
    BY <1>1, <1>2, <1>4 DEF KeyInv, OneOrderPerKey
  <1>5. CASE orders' = orders \cup work[c].ins /\ work'[c].ins = {}
    BY <1>1, <1>2, <1>5 DEF KeyInv, OneOrderPerKey
  <1> QED  BY <1>3, <1>4, <1>5

LEMMA KeySame ==
    ASSUME KeyInv, UNCHANGED <<orders, work, nextId>>
    PROVE  KeyInv'
  BY DEF KeyInv, OneOrderPerKey

-----------------------------------------------------------------------------
LEMMA KeyStep ==
    ASSUME TypeOK, HandlerInv, KeyInv, NEW r \in Requests, Step(r) \/ Faulty(r)
    PROVE  KeyInv'
  <1>1. pc[r] \in InTx \cup {"respond", "abort"} \cup Stray
           => conn[r] \in Conns
    BY DEF HandlerInv, RefersTo, Stray
  <1>2. PgTypeOK /\ nextId \in Nat
    BY DEF TypeOK, PgTypeOK
  <1>3. CASE Receive(r) \/ UnknownProduct(r) \/ CheckStock(r) \/ Respond(r)
             \/ ReplayOrder(r) \/ PoolTimeout(r)
             \/ ReplayFails(r)
    BY <1>3, KeySame DEF Receive, UnknownProduct, CheckStock, Respond,
       ReplayOrder, PoolTimeout, ReplayFails, db
  <1>4. CASE BeginTx(r)
    BY <1>4, KeySame DEF BeginTx, tables
  <1>5. CASE LockProduct(r)
    <2>1. PICK p \in Products : Execute(conn[r], NoWork, {p})
      BY <1>5 DEF LockProduct
    <2>2. NoWork.ins = {} /\ NoWork \in Work
      BY WorkTypes DEF NoWork
    <2>3. conn[r] \in Conns
      BY <1>1, <1>5 DEF LockProduct, InTx, Statements
    <2> QED  BY <1>2, <1>5, <2>1, <2>2, <2>3, KeyOtherWrite DEF LockProduct
  <1>6. CASE InsertOrder(r)
    <2>1. conn[r] \in Conns
      BY <1>1, <1>6 DEF InsertOrder, InTx, Statements
    <2> QED  BY <1>2, <1>6, <2>1, KeyInsert, Bodies DEF InsertOrder
  <1>7. CASE InsertConflict(r)
    <2>1. conn[r] \in Conns
      BY <1>1, <1>7 DEF InsertConflict, InTx, Statements
    <2>2. CASE R.endTx
      BY <1>2, <1>7, <2>1, <2>2, KeyEnd DEF InsertConflict
    <2>3. CASE ~R.endTx
      <3>1. UNCHANGED <<orders, work>> /\ nextId' = nextId + 1
        BY <1>7, <2>3 DEF InsertConflict, tables, session
      <3>2. /\ \A d \in Conns : \A o \in work[d].ins : o.id \in Nat
            /\ \A o \in orders : o.id \in Nat
        BY <1>2 DEF PgTypeOK, Work, Order
      <3> QED  BY <1>2, <3>1, <3>2 DEF KeyInv, OneOrderPerKey
    <2> QED  BY <2>2, <2>3
  <1>8. CASE InsertItem(r)
    <2> DEFINE l == [order |-> oid[r], ln |-> idx[r],
                     product |-> Current(r).product,
                     quantity |-> Current(r).quantity]
    <2>1. conn[r] \in Conns /\ l \in Line
      BY <1>8, CurrentItem DEF InsertItem, Line, TypeOK
    <2>2. NewLine(l) \in Work /\ NewLine(l).ins = {}
      BY <2>1, WorkTypes DEF NewLine
    <2> QED  BY <1>2, <1>8, <2>1, <2>2, KeyOtherWrite DEF InsertItem
  <1>9. CASE InsertLedger(r)
    <2> DEFINE w == NewDelta(Current(r).product, -Current(r).quantity)
    <2>1. conn[r] \in Conns /\ w \in Work /\ w.ins = {}
      BY <1>9, CurrentItem, WorkTypes DEF InsertLedger, NewDelta
    <2> QED  BY <1>2, <1>9, <2>1, KeyOtherWrite DEF InsertLedger
  <1>10. CASE DecrementStock(r)
    <2> DEFINE w == TakeStock(Current(r).product, Current(r).quantity)
    <2>1. conn[r] \in Conns /\ w \in Work /\ w.ins = {}
      BY <1>10, CurrentItem, WorkTypes DEF DecrementStock, TakeStock
    <2> QED  BY <1>2, <1>10, <2>1, KeyOtherWrite DEF DecrementStock
  <1>11. CASE WriteError(r) \/ StatementFails(r)
    <2>1. /\ conn[r] \in Conns /\ StatementError(conn[r])
          /\ nextId' \in {nextId, nextId + 1}
      BY <1>1, <1>11 DEF WriteError, ConstraintError, StatementFails, InTx,
         Statements
    <2> QED  BY <1>2, <2>1, KeyEnd
  <1>12. CASE Commit(r) \/ CommitFails(r)
    <2>1. conn[r] \in Conns /\ (CommitTx(conn[r]) \/ Rollback(conn[r]))
             /\ nextId' = nextId
      BY <1>1, <1>12 DEF Commit, CommitFails, InTx
    <2> QED  BY <1>2, <2>1, KeyEnd
  <1>13. CASE Abort(r) \/ StrayRollback(r)
    <2>1. /\ conn[r] \in Conns /\ nextId' = nextId
          /\ CommitTx(conn[r]) \/ Rollback(conn[r])
      BY <1>1, <1>13 DEF Abort, StrayRollback, Stray
    <2> QED  BY <1>2, <2>1, KeyEnd
  <1>14. CASE ReplayItems(r)
    <2>1. CASE R.keepConn
      <3>1. conn[r] \in Conns
        BY <1>14, <2>1 DEF ReplayItems, HandlerInv, RefersTo, Stray, Replaying
      <3> QED  BY <1>2, <1>14, <2>1, <3>1, KeyEnd DEF ReplayItems
    <2>2. CASE ~R.keepConn
      BY <1>14, <2>2, KeySame DEF ReplayItems, tables, session
    <2> QED  BY <2>1, <2>2
  <1> QED
    BY <1>3, <1>4, <1>5, <1>6, <1>7, <1>8, <1>9, <1>10, <1>11, <1>12, <1>13,
       <1>14 DEF Step, Faulty

(* Keys and ids stay unique over the tables and every open transaction. *)
THEOREM KeysAreUnique == Spec => []KeyInv
  <1>1. Init => KeyInv
    BY DEF Init, PgInit, KeyInv, OneOrderPerKey, NoWork
  <1>2. TypeOK /\ HandlerInv /\ KeyInv /\ [Next]_vars => KeyInv'
    <2> SUFFICES ASSUME TypeOK, HandlerInv, KeyInv, [Next]_vars PROVE KeyInv'
      OBVIOUS
    <2>1. CASE Restart
      BY <2>1 DEF Restart, DropSessions, tables, NoWork, KeyInv, OneOrderPerKey
    <2>2. CASE UNCHANGED vars
      BY <2>2, KeySame DEF vars, db
    <2> QED  BY <2>1, <2>2, KeyStep DEF Next, Finished
  <1> QED  BY <1>1, <1>2, Typing, PTL DEF Spec

(* "The framework must not create a duplicate row": no application, however
   its requests overlap, fail and are retried, stores two orders under one
   idempotency key, and no two orders share an id. *)
THEOREM NoDuplicateOrder == Spec => []OneOrderPerKey
  <1>1. KeyInv => OneOrderPerKey
    BY DEF KeyInv
  <1> QED  BY <1>1, KeysAreUnique, PTL
-----------------------------------------------------------------------------
(* The connection pool and the transactions, for all applications but Node. *)

NoNode == "node" \notin AppsUnderTest

(* No session but that of connection c changes. *)
OnlySession(c) ==
    \A d \in Conns \ {c} : /\ txn'[d] = txn[d]
                           /\ rowLocks'[d] = rowLocks[d]
                           /\ work'[d] = work[d]

(* Every statement acts on the session of its own connection only. *)
LEMMA StatementsAreLocal ==
    ASSUME PgTypeOK, NEW c \in Conns
    PROVE  /\ \A w, L : Execute(c, w, L) => OnlySession(c)
           /\ CommitTx(c) => OnlySession(c) /\ Clean(c)'
           /\ Rollback(c) => OnlySession(c) /\ Clean(c)'
           /\ StatementError(c) => OnlySession(c)
  <1>1. ASSUME NEW w, NEW L, Execute(c, w, L) PROVE OnlySession(c)
    BY <1>1 DEF Execute, OnlySession, PgTypeOK
  <1>2. EndSession(c) => OnlySession(c) /\ Clean(c)'
    BY DEF EndSession, OnlySession, Clean, PgTypeOK, NoWork, Zero
  <1>3. StatementError(c) => OnlySession(c)
    BY DEF StatementError, OnlySession, PgTypeOK
  <1> QED  BY <1>1, <1>2, <1>3 DEF CommitTx, Rollback

(* Without Node, a handler that does not keep its connection for the replay
   does not refer to it afterwards either. *)
LEMMA SafeReplay ==
    ASSUME TypeOK, NoNode
    PROVE  /\ R.onError # "strayRollback"
           /\ R.onError = IF R.keepConn THEN "abort" ELSE "done"
           /\ R.keepConn \in BOOLEAN /\ R.endTx \in BOOLEAN
           /\ ~R.endTx => R.keepConn
  BY AppsAssumption, ReplayFacts DEF TypeOK, NoNode, R

LEMMA Flow ==
    ASSUME TypeOK
    PROVE  /\ H.begin = "lock" /\ H.lock = "check" /\ H.check = "insert"
           /\ H.insert = "item" /\ H.item = "ledger" /\ H.ledger = "stock"
           /\ H.stock = "commit" /\ H.commit = "respond"
           /\ H.unknown \in {400, 500} /\ H.short \in {409, 500}
           /\ app # "phoenix" => H.unknown = 400 /\ H.short = 409
  BY AppsAssumption, FlowFacts DEF TypeOK, H

-----------------------------------------------------------------------------
(* The four ways a step can use the pool. *)

(* Work on the connection the handler has. *)
LEMMA PoolKeep ==
    ASSUME TypeOK, PoolInv, NEW r \in Requests, NEW l, RefersTo(r),
           UNCHANGED <<app, conn, owner>>, pc' = [pc EXCEPT ![r] = l],
           RefersTo(r)', l \notin Stray, OnlySession(conn[r]),
           l = "respond" => Clean(conn[r])'
    PROVE  PoolInv'
  <1>1. conn[r] \in Conns /\ owner[conn[r]] = r
    BY DEF PoolInv
  <1>2. \A q \in Requests : q # r => pc'[q] = pc[q] /\ RefersTo(q)' = RefersTo(q)
    BY DEF TypeOK, RefersTo, R
  <1>3. \A c \in Conns : c # conn[r] => Clean(c)' = Clean(c)
    BY DEF OnlySession, Clean
  <1>4. pc'[r] = l
    BY DEF TypeOK
  <1>5. \A q \in Requests : pc[q] = "respond" => RefersTo(q)
    BY DEF RefersTo
  <1> QED  BY <1>1, <1>2, <1>3, <1>4, <1>5, NullAssumption DEF PoolInv

(* Give it back, clean. *)
LEMMA PoolGive ==
    ASSUME TypeOK, PoolInv, NEW r \in Requests, NEW l, RefersTo(r),
           NEW g \in Conns, g = conn[r], UNCHANGED app, PoolRelease(g),
           conn' = [conn EXCEPT ![r] = NoConn], pc' = [pc EXCEPT ![r] = l],
           ~RefersTo(r)', OnlySession(g), Clean(g)'
    PROVE  PoolInv'
  <1>1. owner[g] = r
    BY DEF PoolInv
  <1>2. \A q \in Requests : q # r => pc'[q] = pc[q] /\ RefersTo(q)' = RefersTo(q)
                                       /\ conn'[q] = conn[q]
    BY DEF TypeOK, RefersTo, R
  <1>3. \A c \in Conns : c # g => Clean(c)' = Clean(c) /\ owner'[c] = owner[c]
    BY DEF OnlySession, Clean, PoolRelease, TypeOK
  <1>4. conn'[r] = NoConn /\ owner'[g] = NoOwner /\ pc'[r] = l /\ l # "respond"
             /\ l \notin Stray
    BY <1>1 DEF TypeOK, PoolRelease, RefersTo
  <1>5. \A q \in Requests : pc[q] = "respond" => RefersTo(q)
    BY DEF RefersTo
  <1>6. \A q \in Requests : RefersTo(q) /\ q # r => conn[q] # g
    BY <1>1 DEF PoolInv
  <1>7. \A q \in Requests :
           IF RefersTo(q)' THEN conn'[q] \in Conns /\ owner'[conn'[q]] = q
                           ELSE conn'[q] = NoConn
    BY <1>1, <1>2, <1>3, <1>4, <1>6 DEF PoolInv
  <1>8. \A c \in Conns :
           \/ owner'[c] = NoOwner /\ Clean(c)'
           \/ /\ owner'[c] \in Requests
              /\ RefersTo(owner[c])' /\ conn'[owner'[c]] = c
    <2> TAKE c \in Conns
    <2>1. CASE c = g  BY <1>4, <2>1
    <2>2. CASE c # g
      BY <1>2, <1>3, <2>2 DEF PoolInv
    <2> QED  BY <2>1, <2>2
  <1>9. \A q \in Requests : pc'[q] = "respond" => Clean(conn[q])'
    BY <1>2, <1>3, <1>4, <1>5, <1>6 DEF PoolInv
  <1>10. \A q \in Requests : pc'[q] \notin Stray
    BY <1>2, <1>4 DEF PoolInv
  <1> QED  BY <1>7, <1>8, <1>9, <1>10 DEF PoolInv

(* Do without one. *)
LEMMA PoolOutside ==
    ASSUME TypeOK, PoolInv, NEW r \in Requests, NEW l, ~RefersTo(r),
           UNCHANGED <<app, conn, owner, txn, rowLocks, work>>,
           pc' = [pc EXCEPT ![r] = l], ~RefersTo(r)'
    PROVE  PoolInv'
  <1>1. \A q \in Requests : q # r => pc'[q] = pc[q] /\ RefersTo(q)' = RefersTo(q)
    BY DEF TypeOK, RefersTo, R
  <1>2. \A c : Clean(c)' = Clean(c)
    BY DEF Clean
  <1>3. pc'[r] = l /\ l # "respond" /\ l \notin Stray
    BY DEF TypeOK, RefersTo
  <1> QED  BY <1>1, <1>2, <1>3, NullAssumption DEF PoolInv

(* Take one that nobody has. *)
LEMMA PoolTake ==
    ASSUME TypeOK, PoolInv, NEW r \in Requests, NEW l, NEW c \in Conns,
           owner[c] = NoOwner, ~RefersTo(r), UNCHANGED app,
           owner' = [owner EXCEPT ![c] = r], conn' = [conn EXCEPT ![r] = c],
           pc' = [pc EXCEPT ![r] = l], RefersTo(r)', l # "respond",
           l \notin Stray, OnlySession(c)
    PROVE  PoolInv'
  <1>1. \A q \in Requests : q # r => pc'[q] = pc[q] /\ RefersTo(q)' = RefersTo(q)
                                       /\ conn'[q] = conn[q]
    BY DEF TypeOK, RefersTo, R
  <1>2. \A d \in Conns : d # c => Clean(d)' = Clean(d) /\ owner'[d] = owner[d]
    BY DEF OnlySession, Clean, TypeOK
  <1>3. conn'[r] = c /\ owner'[c] = r /\ pc'[r] = l
    BY DEF TypeOK
  <1>4. \A q \in Requests : RefersTo(q) => conn[q] # c
    BY NullAssumption DEF PoolInv
  <1>5. \A q \in Requests : pc[q] = "respond" => RefersTo(q)
    BY DEF RefersTo
  <1>6. \A d \in Conns : owner[d] # r
    BY NullAssumption DEF PoolInv
  <1> QED  BY <1>1, <1>2, <1>3, <1>4, <1>5, <1>6, NullAssumption DEF PoolInv

-----------------------------------------------------------------------------
(* Steps at which a handler surely has a connection, or surely has none. *)
LEMMA Refers ==
    ASSUME TypeOK, NoNode, PoolInv, NEW r \in Requests
    PROVE  /\ pc[r] \in InTx \cup {"respond", "abort"} => RefersTo(r)
           /\ pc[r] \in {"new", "acquire", "done", "lost"} => ~RefersTo(r)
           /\ pc[r] \in Replaying => (RefersTo(r) <=> R.keepConn)
           /\ RefersTo(r) => conn[r] \in Conns /\ owner[conn[r]] = r
  BY SafeReplay DEF RefersTo, Stray, PoolInv, InTx, Statements, Replaying

(* So release() does not throw. *)
LEMMA NoThrow ==
    ASSUME TypeOK, NoNode, PoolInv, NEW r \in Requests,
           pc[r] \in InTx \cup {"respond", "abort"}
    PROVE  ~ReleaseThrows(r)
  BY Refers, NullAssumption DEF ReleaseThrows

LEMMA SafeRelease ==
    ASSUME TypeOK, NoNode, PoolInv, NEW r \in Requests
    PROVE  /\ Respond(r) => /\ code' = [code EXCEPT ![r] = 201]
                            /\ pc' = [pc EXCEPT ![r] = "done"]
                            /\ conn' = [conn EXCEPT ![r] = NoConn]
           /\ Abort(r) => /\ code' = code
                          /\ pc' = [pc EXCEPT ![r] = "done"]
                          /\ conn' = [conn EXCEPT ![r] = NoConn]
           /\ InsertConflict(r) => /\ code' = code
                                   /\ pc' = [pc EXCEPT ![r] = "replayOrder"]
                                   /\ \/ conn' = conn
                                      \/ conn' = [conn EXCEPT ![r] = NoConn]
  <1>1. pc[r] \in {"respond", "abort", "insert"} => ~ReleaseThrows(r)
    BY NoThrow DEF InTx, Statements
  <1> QED
    BY <1>1, SafeReplay DEF Respond, Abort, InsertConflict, Goto

LEMMA RefersNext ==
    ASSUME TypeOK, NoNode, NEW r \in Requests, NEW l,
           pc' = [pc EXCEPT ![r] = l], UNCHANGED app
    PROVE  /\ l \in InTx \cup {"respond", "abort"} => RefersTo(r)'
           /\ l \in {"acquire", "done"} => ~RefersTo(r)'
           /\ l \in Replaying => (RefersTo(r)' <=> R.keepConn)
  BY SafeReplay DEF RefersTo, Stray, InTx, Statements, Replaying, TypeOK, R

LEMMA PoolStep ==
    ASSUME TypeOK, HandlerInv, NoNode, PoolInv, NEW r \in Requests,
           Step(r) \/ Faulty(r)
    PROVE  PoolInv'
  <1> USE DEF Goto, Refuse
  <1>1. PgTypeOK
    BY DEF TypeOK
  <1>2. CASE Receive(r)
    <2>1. PICK l \in {"acquire", "done"} : pc' = [pc EXCEPT ![r] = l]
      BY <1>2 DEF Receive
    <2>2. /\ UNCHANGED <<app, conn, owner, txn, rowLocks, work>>
          /\ pc[r] = "new"
      BY <1>2 DEF Receive, db
    <2> QED  BY <2>1, <2>2, Refers, RefersNext, PoolOutside
  <1>3. CASE BeginTx(r)
    <2>1. PICK c \in Conns : /\ owner[c] = NoOwner
                             /\ owner' = [owner EXCEPT ![c] = r]
                             /\ conn' = [conn EXCEPT ![r] = c]
                             /\ Begin(c)
      BY <1>3 DEF BeginTx, FreeConns
    <2>2. /\ pc' = [pc EXCEPT ![r] = "lock"] /\ pc[r] = "acquire"
          /\ UNCHANGED <<app, rowLocks, work>>
      BY <1>3, Flow DEF BeginTx
    <2>3. OnlySession(c)
      BY <1>1, <2>1, <2>2 DEF OnlySession, Begin, PgTypeOK
    <2>4. "lock" \in InTx /\ "lock" \notin Stray
      BY DEF InTx, Statements, Stray
    <2> QED  BY <2>1, <2>2, <2>3, <2>4, Refers, RefersNext, PoolTake
  <1>4. CASE LockProduct(r) \/ InsertOrder(r) \/ InsertItem(r)
             \/ InsertLedger(r) \/ DecrementStock(r)
    <2>1. /\ pc[r] \in InTx
          /\ UNCHANGED <<app, conn, owner>>
          /\ \E w, L : Execute(conn[r], w, L)
      BY <1>4 DEF LockProduct, InsertOrder, InsertItem, InsertLedger,
         DecrementStock, InTx, Statements
    <2>2. PICK l \in InTx : pc' = [pc EXCEPT ![r] = l]
      <3>1. CASE LockProduct(r)
        <4>1. PICK p \in Products :
                 pc' = [pc EXCEPT ![r] = IF Wanted(r) \subseteq got[r] \cup {p}
                                         THEN "check" ELSE "lock"]
          BY <3>1, Flow DEF LockProduct
        <4> QED  BY <4>1 DEF InTx, Statements
      <3>2. CASE InsertOrder(r) \/ InsertItem(r) \/ InsertLedger(r)
        BY <3>2, Flow DEF InsertOrder, InsertItem, InsertLedger, InTx, Statements
      <3>3. CASE DecrementStock(r)
        BY <3>3, Flow DEF DecrementStock, InTx, Statements
      <3> QED  BY <1>4, <3>1, <3>2, <3>3
    <2>3. l # "respond" /\ l \notin Stray
      BY DEF InTx, Statements, Stray
    <2>4. conn[r] \in Conns /\ OnlySession(conn[r])
      BY <1>1, <2>1, Refers, StatementsAreLocal
    <2> QED  BY <2>1, <2>2, <2>3, <2>4, Refers, RefersNext, PoolKeep
  <1>5. CASE UnknownProduct(r) \/ CheckStock(r)
    <2>1. /\ pc[r] \in InTx
          /\ UNCHANGED <<app, conn, owner, txn, rowLocks, work>>
      BY <1>5 DEF UnknownProduct, CheckStock, InTx, Statements, db
    <2>2. PICK l \in {"insert", "abort"} : pc' = [pc EXCEPT ![r] = l]
      BY <1>5, Flow DEF UnknownProduct, CheckStock
    <2>3. /\ l # "respond" /\ l \notin Stray
          /\ l \in InTx \cup {"respond", "abort"}
      BY DEF InTx, Statements, Stray
    <2>4. OnlySession(conn[r])
      BY <2>1 DEF OnlySession
    <2> QED  BY <2>1, <2>2, <2>3, <2>4, Refers, RefersNext, PoolKeep
  <1>6. CASE WriteError(r) \/ StatementFails(r)
    <2>1. /\ pc[r] \in InTx
          /\ UNCHANGED <<app, conn, owner>>
          /\ pc' = [pc EXCEPT ![r] = "abort"]
          /\ StatementError(conn[r])
      BY <1>6 DEF WriteError, ConstraintError, StatementFails, InTx, Statements
    <2>2. conn[r] \in Conns /\ OnlySession(conn[r]) /\ "abort" \notin Stray
      BY <1>1, <2>1, Refers, StatementsAreLocal DEF Stray
    <2> QED  BY <2>1, <2>2, Refers, RefersNext, PoolKeep
  <1>7. CASE Commit(r) \/ CommitFails(r)
    <2>1. /\ pc[r] \in InTx
          /\ UNCHANGED <<app, conn, owner>>
          /\ CommitTx(conn[r]) \/ Rollback(conn[r])
      BY <1>7 DEF Commit, CommitFails, InTx
    <2>2. PICK l \in {"respond", "abort"} : pc' = [pc EXCEPT ![r] = l]
      BY <1>7, Flow DEF Commit, CommitFails
    <2>3. PICK c \in Conns : c = conn[r]
      BY <2>1, Refers
    <2>4. OnlySession(c) /\ Clean(c)'
      BY <1>1, <2>1, <2>3, StatementsAreLocal
    <2>5. OnlySession(conn[r]) /\ Clean(conn[r])' /\ l \notin Stray
      BY <2>1, <2>3, <2>4 DEF Stray
    <2> QED  BY <2>1, <2>2, <2>5, Refers, RefersNext, PoolKeep
  <1>8. CASE Respond(r)
    <2>1. /\ pc[r] = "respond"
          /\ UNCHANGED <<app, txn, rowLocks, work>>
          /\ PoolRelease(conn[r])
          /\ conn' = [conn EXCEPT ![r] = NoConn]
          /\ pc' = [pc EXCEPT ![r] = "done"]
      BY <1>8, NoThrow DEF Respond, db
    <2>2. PICK c \in Conns : c = conn[r]
      BY <2>1, Refers
    <2>3. Clean(c)' /\ OnlySession(c)
      BY <2>1, <2>2 DEF PoolInv, Clean, OnlySession
    <2> QED  BY <2>1, <2>2, <2>3, Refers, RefersNext, PoolGive
  <1>9. CASE Abort(r)
    <2>1. /\ pc[r] = "abort"
          /\ UNCHANGED app
          /\ CommitTx(conn[r]) \/ Rollback(conn[r])
          /\ PoolRelease(conn[r])
          /\ conn' = [conn EXCEPT ![r] = NoConn]
          /\ pc' = [pc EXCEPT ![r] = "done"]
      BY <1>9, NoThrow DEF Abort
    <2>2. PICK c \in Conns : c = conn[r]
      BY <2>1, Refers
    <2>3. Clean(c)' /\ OnlySession(c)
      BY <1>1, <2>1, <2>2, StatementsAreLocal
    <2> QED  BY <2>1, <2>2, <2>3, Refers, RefersNext, PoolGive
  <1>10. CASE InsertConflict(r)
    <2>1. pc[r] \in InTx /\ UNCHANGED app
      BY <1>10 DEF InsertConflict, InTx, Statements
    <2>2. PICK c \in Conns : c = conn[r]
      BY <2>1, Refers
    <2>3. OnlySession(c)
      <3>1. CASE R.endTx
        BY <1>1, <1>10, <2>2, <3>1, StatementsAreLocal DEF InsertConflict
      <3>2. CASE ~R.endTx
        BY <1>10, <3>2 DEF InsertConflict, OnlySession, session
      <3> QED  BY <3>1, <3>2
    <2>4. CASE R.keepConn
      <3>1. UNCHANGED <<conn, owner>> /\ pc' = [pc EXCEPT ![r] = "replayOrder"]
        BY <1>10, <2>4 DEF InsertConflict
      <3>2. "replayOrder" \in Replaying \ Stray
        BY DEF Replaying, Stray
      <3> QED  BY <2>1, <2>2, <2>3, <2>4, <3>1, <3>2, Refers, RefersNext, PoolKeep
    <2>5. CASE ~R.keepConn
      <3>1. ~ReleaseThrows(r)
        BY <2>1, NoThrow
      <3>2. /\ PoolRelease(c)
            /\ conn' = [conn EXCEPT ![r] = NoConn]
            /\ pc' = [pc EXCEPT ![r] = "replayOrder"]
        BY <1>10, <2>2, <2>5, <3>1, SafeReplay DEF InsertConflict
      <3>3. Clean(c)'
        BY <1>1, <1>10, <2>2, <2>5, SafeReplay, StatementsAreLocal
        DEF InsertConflict
      <3>4. "replayOrder" \in Replaying
        BY DEF Replaying
      <3> QED
        BY <2>1, <2>2, <2>3, <2>5, <3>2, <3>3, <3>4, Refers, RefersNext, PoolGive
    <2> QED  BY <2>4, <2>5, SafeReplay
  <1>11. CASE ReplayOrder(r) \/ ReplayFails(r)
    <2>1. /\ pc[r] \in Replaying
          /\ UNCHANGED <<app, conn, owner, txn, rowLocks, work>>
      BY <1>11 DEF ReplayOrder, ReplayFails, Replaying, db
    <2>2. PICK l \in {"replayItems", IF R.keepConn THEN "abort" ELSE "done"} :
             pc' = [pc EXCEPT ![r] = l]
      BY <1>11, SafeReplay DEF ReplayOrder, ReplayFails
    <2>3. l # "respond" /\ l \notin Stray /\ OnlySession(conn[r])
      BY <2>1, <2>2 DEF OnlySession, Stray
    <2>4. RefersTo(r)' <=> R.keepConn
      BY <2>1, <2>2, RefersNext, SafeReplay DEF Replaying
    <2> QED  BY <2>1, <2>2, <2>3, <2>4, Refers, PoolKeep, PoolOutside
  <1>12. CASE ReplayItems(r)
    <2>1. /\ pc[r] \in Replaying /\ UNCHANGED app
          /\ pc' = [pc EXCEPT ![r] = "done"]
          /\ conn' = [conn EXCEPT ![r] = NoConn]
      BY <1>12 DEF ReplayItems, Replaying
    <2>2. CASE R.keepConn
      <3>1. PICK c \in Conns : c = conn[r]
        BY <2>1, <2>2, Refers
      <3>2. PoolRelease(c) /\ OnlySession(c) /\ Clean(c)'
        BY <1>1, <1>12, <2>2, <3>1, StatementsAreLocal DEF ReplayItems
      <3> QED  BY <2>1, <2>2, <3>1, <3>2, Refers, RefersNext, PoolGive
    <2>3. CASE ~R.keepConn
      <3>1. conn[r] = NoConn
        BY <2>1, <2>3, Refers DEF PoolInv
      <3>2. UNCHANGED <<conn, owner, txn, rowLocks, work>>
        BY <1>12, <2>1, <2>3, <3>1 DEF ReplayItems, session, TypeOK
      <3> QED  BY <2>1, <2>3, <3>2, Refers, RefersNext, PoolOutside
    <2> QED  BY <2>2, <2>3, SafeReplay
  <1>13. CASE PoolTimeout(r)
    <2>1. /\ pc[r] = "acquire" /\ pc' = [pc EXCEPT ![r] = "done"]
          /\ UNCHANGED <<app, conn, owner, txn, rowLocks, work>>
      BY <1>13 DEF PoolTimeout, db
    <2> QED  BY <2>1, Refers, RefersNext, PoolOutside
  <1>14. ~StrayRollback(r)
    BY DEF StrayRollback, PoolInv, Stray
  <1> QED
    BY <1>2, <1>3, <1>4, <1>5, <1>6, <1>7, <1>8, <1>9, <1>10, <1>11, <1>12,
       <1>13, <1>14 DEF Step, Faulty

LEMMA PoolNext ==
    ASSUME TypeOK, HandlerInv, NoNode, PoolInv, [Next]_vars
    PROVE  PoolInv'
  <1>1. CASE Restart
    <2>1. \A r \in Requests : pc'[r] \in {"new", "done", "lost"} /\ conn'[r] = NoConn
      BY <1>1 DEF Restart, InFlight
    <2>2. \A r \in Requests : ~RefersTo(r)' /\ pc'[r] \notin Stray
      BY <2>1 DEF RefersTo, InTx, Statements, Stray, Replaying
    <2>3. \A c \in Conns : owner'[c] = NoOwner /\ Clean(c)'
      BY <1>1 DEF Restart, DropSessions, Clean, NoWork, Zero
    <2> QED  BY <2>1, <2>2, <2>3 DEF PoolInv
  <1>2. CASE UNCHANGED vars
    BY <1>2 DEF vars, db, PoolInv, RefersTo, R, Clean
  <1> QED  BY <1>1, <1>2, PoolStep DEF Next, Finished

(* A handler is alone on its connection from BEGIN until it gives it back, and
   what it gives back is outside any transaction. *)
THEOREM PoolDiscipline ==
    ASSUME NoNode PROVE Spec => []PoolInv
  <1>1. Init => PoolInv
    BY DEF Init, PgInit, PoolInv, RefersTo, InTx, Statements, Stray, Replaying,
       Clean
  <1>2. TypeOK /\ HandlerInv /\ PoolInv /\ [Next]_vars => PoolInv'
    BY PoolNext
  <1> QED  BY <1>1, <1>2, Typing, PTL DEF Spec

(* Two handlers never speak on one connection, an idle connection carries no
   transaction and no lock, and none is leaked by a handler that has ended: in
   every application but Node. *)
THEOREM ExclusiveConnections ==
    ASSUME NoNode PROVE Spec => []ConnectionsAreExclusive
  <1>1. TypeOK /\ PoolInv => ConnectionsAreExclusive
    <2> SUFFICES ASSUME TypeOK, PoolInv PROVE ConnectionsAreExclusive
      OBVIOUS
    <2>1. \A r \in Requests : RefersTo(r) => InFlight(r)
      BY DEF RefersTo, InFlight, InTx, Statements, Stray, Replaying
    <2> QED  BY <2>1, NullAssumption DEF PoolInv, ConnectionsAreExclusive
  <1> QED  BY <1>1, Typing, PoolDiscipline, PTL

NoPython == "python" \notin AppsUnderTest

(* Only Python's replay reads through the pool with its own connection in hand. *)
LEMMA PoolReplays ==
    ASSUME NEW a \in Apps, a # "python", Replay(a).via = "pool"
    PROVE  ~Replay(a).keepConn
  <1> USE DEF Replay
  <1>1. CASE a = "go"  BY <1>1 DEF GoReplay
  <1>2. CASE a = "rust"  BY <1>2 DEF RustReplay
  <1>3. CASE a = "node"  BY <1>3 DEF NodeReplay
  <1>4. CASE a = "bun"  BY <1>4 DEF BunReplay
  <1>6. CASE a = "aspnet"  BY <1>6 DEF AspnetReplay
  <1>7. CASE a = "spring"  BY <1>7 DEF SpringReplay
  <1>8. CASE a = "phoenix"  BY <1>8 DEF PhoenixReplay
  <1> QED  BY <1>1, <1>2, <1>3, <1>4, <1>6, <1>7, <1>8 DEF Apps

(* In every application but Python and Node, a handler that asks the pool for
   the connection of its replay has given its own back: no number of replays
   can use up the pool and then wait for each other. *)
THEOREM NothingHeldWhileWaiting ==
    ASSUME NoNode, NoPython PROVE Spec => []NoHoldAndWait
  <1>1. TypeOK /\ PoolInv => NoHoldAndWait
    <2> SUFFICES ASSUME TypeOK, PoolInv, NEW r \in Requests,
                        pc[r] \in Replaying, R.via = "pool", NEW c \in Conns
                 PROVE  owner[c] # r
      BY DEF NoHoldAndWait, Replaying
    <2>1. ~R.keepConn
      BY AppsAssumption, PoolReplays DEF TypeOK, NoPython, R
    <2>2. ~RefersTo(r)
      BY <2>1, SafeReplay DEF RefersTo, InTx, Statements, Stray, Replaying
    <2> QED  BY <2>2, NullAssumption DEF PoolInv
  <1> QED  BY <1>1, Typing, PoolDiscipline, PTL

-----------------------------------------------------------------------------
(* What the transactions write: the ledger and the stock agree, and a 201 names
   a durable order. *)

(* A step of r that touches no other handler's locals or session. *)
LEMMA TxFrame ==
    ASSUME TypeOK, NoNode, PoolInv, TxInv, NEW r \in Requests, NEW c,
           c = conn[r] \/ c = conn'[r],
           \A q \in Requests : RefersTo(q) /\ q # r => conn[q] # c,
           OnlySession(c), UNCHANGED <<app, body>>,
           \A q \in Requests \ {r} : /\ pc'[q] = pc[q] /\ conn'[q] = conn[q]
                                     /\ oid'[q] = oid[q] /\ idx'[q] = idx[q],
           TxAt(r)'
    PROVE  TxInv'
  <1> SUFFICES ASSUME NEW q \in Requests, q # r PROVE TxAt(q)'
    BY DEF TxInv
  <1>1. CASE ~RefersTo(q)
    BY <1>1 DEF TxAt, InTx, Statements, RefersTo, R
  <1>2. CASE RefersTo(q)
    <2>1. conn[q] \in Conns /\ conn[q] # c
      BY <1>2, Refers
    <2>2. /\ txn'[conn[q]] = txn[conn[q]] /\ work'[conn[q]] = work[conn[q]]
          /\ pc'[q] = pc[q] /\ conn'[q] = conn[q]
      BY <2>1 DEF OnlySession
    <2>3. Pending(q)' = Pending(q) /\ \A p : Uncharged(q, p)' = Uncharged(q, p)
      BY DEF Pending, Uncharged, Current, Items, Key
    <2>4. TxAt(q)
      BY DEF TxInv
    <2> QED  BY <2>2, <2>3, <2>4 DEF TxAt, R
  <1> QED  BY <1>1, <1>2

(* The connection of r is nobody else's. *)
LEMMA Alone ==
    ASSUME TypeOK, NoNode, PoolInv, NEW r \in Requests, RefersTo(r)
    PROVE  \A q \in Requests : RefersTo(q) /\ q # r => conn[q] # conn[r]
  BY Refers

(* A handler that leaves its transaction, or was never in one. *)
LEMMA TxOut ==
    ASSUME TypeOK, NoNode, PoolInv, TxInv, NEW r \in Requests, NEW l,
           l \notin InTx, pc' = [pc EXCEPT ![r] = l],
           OnlySession(conn[r]), UNCHANGED <<app, body, idx>>,
           \A q \in Requests \ {r} : conn'[q] = conn[q] /\ oid'[q] = oid[q],
           l = "abort" \/ (l \in Replaying /\ R.keepConn) =>
              (txn'[conn'[r]] = "open" => work'[conn'[r]] = NoWork)
    PROVE  TxInv'
  <1>1. \A q \in Requests : RefersTo(q) /\ q # r => conn[q] # conn[r]
    BY Refers, NullAssumption DEF PoolInv
  <1>2. pc'[r] = l /\ \A q \in Requests \ {r} : pc'[q] = pc[q]
    BY DEF TypeOK
  <1>3. TxAt(r)'
    BY <1>2 DEF TxAt, InTx, Statements, R
  <1> QED  BY <1>1, <1>2, <1>3, TxFrame

(* A statement inside the transaction adds its write to the transaction's. *)
LEMMA TxWrite ==
    ASSUME TypeOK, NoNode, PoolInv, TxInv, NEW r \in Requests,
           pc[r] \in InTx, NEW w, NEW L, Execute(conn[r], w, L),
           UNCHANGED <<app, body, conn>>, NEW l, pc' = [pc EXCEPT ![r] = l],
           \A q \in Requests \ {r} : oid'[q] = oid[q] /\ idx'[q] = idx[q],
           (txn'[conn[r]] = "open" /\ work'[conn[r]] = Merge(work[conn[r]], w))
              => TxAt(r)'
    PROVE  TxInv'
  <1>1. RefersTo(r) /\ conn[r] \in Conns /\ PgTypeOK
    BY Refers DEF TypeOK
  <1>2. txn[conn[r]] = "open"
    BY DEF TxInv, TxAt
  <1>3. txn'[conn[r]] = "open" /\ work'[conn[r]] = Merge(work[conn[r]], w)
    BY <1>1, <1>2 DEF Execute, PgTypeOK
  <1>4. OnlySession(conn[r])
    BY <1>1, StatementsAreLocal
  <1>5. \A q \in Requests \ {r} : pc'[q] = pc[q]
    BY DEF TypeOK
  <1> QED  BY <1>1, <1>3, <1>4, <1>5, Alone, TxFrame

LEMMA MergeNoWork == Merge(NoWork, NoWork) = NoWork
  BY DEF Merge, NoWork, Zero

LEMMA TxStep ==
    ASSUME TypeOK, HandlerInv, NoNode, PoolInv, TxInv, NEW r \in Requests,
           Step(r) \/ Faulty(r)
    PROVE  TxInv'
  <1> USE DEF Goto, Refuse
  <1> DEFINE c == conn[r]
  <1>1. PgTypeOK /\ TxAt(r)
    BY DEF TypeOK, TxInv
  <1>2. pc[r] \in InTx \cup {"respond", "abort"} => c \in Conns /\ RefersTo(r)
    BY Refers
  <1>3. CASE BeginTx(r)
    <2>1. PICK d \in Conns : /\ owner[d] = NoOwner
                             /\ conn' = [conn EXCEPT ![r] = d]
                             /\ Begin(d)
      BY <1>3 DEF BeginTx, FreeConns
    <2>2. Clean(d) /\ \A q \in Requests : RefersTo(q) => conn[q] # d
      BY <2>1, NullAssumption DEF PoolInv
    <2>3. /\ pc' = [pc EXCEPT ![r] = "lock"]
          /\ UNCHANGED <<app, body, rowLocks, work, oid, idx>>
      BY <1>3, Flow DEF BeginTx
    <2>4. OnlySession(d) /\ txn'[d] = "open" /\ work'[d] = NoWork
      BY <1>1, <2>1, <2>2, <2>3 DEF OnlySession, Begin, PgTypeOK, Clean
    <2>5. pc'[r] = "lock" /\ conn'[r] = d
      BY <2>1, <2>3 DEF TypeOK
    <2>6. TxAt(r)'
      BY <2>4, <2>5 DEF TxAt, Replaying
    <2>7. \A q \in Requests \ {r} : pc'[q] = pc[q] /\ conn'[q] = conn[q]
      BY <2>1, <2>3 DEF TypeOK
    <2> QED  BY <2>2, <2>3, <2>4, <2>5, <2>6, <2>7, TxFrame
  <1>4. CASE LockProduct(r)
    <2>1. PICK p \in Products : Execute(c, NoWork, {p})
      BY <1>4 DEF LockProduct
    <2>2. PICK l \in {"lock", "check"} : pc' = [pc EXCEPT ![r] = l]
      <3>1. PICK p2 \in Products :
               pc' = [pc EXCEPT ![r] = IF Wanted(r) \subseteq got[r] \cup {p2}
                                       THEN "check" ELSE "lock"]
        BY <1>4, Flow DEF LockProduct
      <3> QED  BY <3>1
    <2>3. pc[r] = "lock" /\ UNCHANGED <<app, body, conn, oid, idx>> /\ pc[r] \in InTx
      BY <1>4 DEF LockProduct, InTx, Statements
    <2>4. pc'[r] = l
      BY <2>2 DEF TypeOK
    <2>5. (txn'[c] = "open" /\ work'[c] = Merge(work[c], NoWork)) => TxAt(r)'
      BY <1>1, <2>3, <2>4, MergeNoWork DEF TxAt, Replaying
    <2> QED  BY <2>1, <2>2, <2>3, <2>5, TxWrite
  <1>5. CASE CheckStock(r)
    <2>1. PICK l \in {"insert", "abort"} : pc' = [pc EXCEPT ![r] = l]
      BY <1>5, Flow DEF CheckStock
    <2>2. /\ pc[r] = "check" /\ pc[r] \in InTx
          /\ UNCHANGED <<app, body, conn, oid, idx, txn, work, rowLocks>>
      BY <1>5 DEF CheckStock, InTx, db
    <2>3. OnlySession(c) /\ pc'[r] = l
      BY <2>1, <2>2 DEF OnlySession, TypeOK
    <2>4. TxAt(r)'
      BY <1>1, <2>2, <2>3 DEF TxAt, InTx, Statements, Replaying
    <2>5. \A q \in Requests \ {r} : pc'[q] = pc[q]
      BY <2>1 DEF TypeOK
    <2> QED  BY <1>2, <2>2, <2>3, <2>4, <2>5, Alone, TxFrame
  <1>6. CASE InsertOrder(r)
    <2> DEFINE w == NewOrder([id |-> nextId, key |-> Key(r), by |-> r])
    <2>1. /\ pc[r] = "insert" /\ pc[r] \in InTx
          /\ pc' = [pc EXCEPT ![r] = "item"]
          /\ Execute(c, w, {})
          /\ oid' = [oid EXCEPT ![r] = nextId]
          /\ UNCHANGED <<app, body, conn, idx>>
      BY <1>6, Flow DEF InsertOrder, InTx, Statements
    <2>2. /\ pc'[r] = "item" /\ oid'[r] = nextId
          /\ \A q \in Requests \ {r} : oid'[q] = oid[q]
      BY <2>1 DEF TypeOK
    <2>3. Pending(r)' = [id |-> nextId, key |-> Key(r), by |-> r]
      BY <2>1, <2>2 DEF Pending, Key
    <2>4. ASSUME txn'[c] = "open", work'[c] = Merge(work[c], w)
          PROVE  TxAt(r)'
      <3>1. /\ work'[c].ins = {Pending(r)'}
            /\ \A p \in Products : work'[c].led[p] = 0 /\ work'[c].dec[p] = 0
        BY <1>1, <2>1, <2>3, <2>4 DEF TxAt, Merge, NewOrder, NoWork, Zero
      <3> QED  BY <2>1, <2>2, <2>4, <3>1 DEF TxAt, Replaying, Uncharged
    <2> QED  BY <2>1, <2>2, <2>4, TxWrite
  <1>7. CASE InsertItem(r)
    <2> DEFINE w == NewLine([order |-> oid[r], ln |-> idx[r],
                             product |-> Current(r).product,
                             quantity |-> Current(r).quantity])
    <2>1. /\ pc[r] = "item" /\ pc[r] \in InTx
          /\ pc' = [pc EXCEPT ![r] = "ledger"]
          /\ Execute(c, w, {})
          /\ UNCHANGED <<app, body, conn, oid, idx>>
      BY <1>7, Flow DEF InsertItem, InTx, Statements
    <2>2. pc'[r] = "ledger" /\ Pending(r)' = Pending(r)
      BY <2>1 DEF TypeOK, Pending, Key
    <2>3. ASSUME txn'[c] = "open", work'[c] = Merge(work[c], w)
          PROVE  TxAt(r)'
      <3>1. /\ work'[c].ins = work[c].ins
            /\ \A p \in Products : /\ work'[c].led[p] = work[c].led[p]
                                    /\ work'[c].dec[p] = work[c].dec[p]
        BY <1>1, <1>2, <2>1, <2>3 DEF Merge, NewLine, Zero, PgTypeOK, Work
      <3> QED  BY <1>1, <2>1, <2>2, <2>3, <3>1 DEF TxAt, Replaying, Uncharged
    <2> QED  BY <2>1, <2>3, TxWrite
  <1>8. CASE InsertLedger(r)
    <2> DEFINE w == NewDelta(Current(r).product, -Current(r).quantity)
    <2>1. /\ pc[r] = "ledger" /\ pc[r] \in InTx
          /\ pc' = [pc EXCEPT ![r] = "stock"]
          /\ Execute(c, w, {})
          /\ UNCHANGED <<app, body, conn, oid, idx>>
      BY <1>8, Flow DEF InsertLedger, InTx, Statements
    <2>2. pc'[r] = "stock" /\ Pending(r)' = Pending(r) /\ Current(r)' = Current(r)
      BY <2>1 DEF TypeOK, Pending, Key, Current, Items
    <2>3. ASSUME txn'[c] = "open", work'[c] = Merge(work[c], w)
          PROVE  TxAt(r)'
      <3>1. Current(r).product \in Products /\ Current(r).quantity \in Nat
        BY <2>1, CurrentItem
      <3>2. work[c] \in Work
        BY <1>1, <1>2, <2>1 DEF PgTypeOK
      <3>3. /\ work'[c].ins = work[c].ins
            /\ \A p \in Products :
                  /\ work'[c].led[p] = work[c].led[p] -
                        (IF p = Current(r).product THEN Current(r).quantity ELSE 0)
                  /\ work'[c].dec[p] = work[c].dec[p]
        BY <2>3, <3>1, <3>2 DEF Merge, NewDelta, Only, Zero, Work
      <3>4. \A p \in Products : /\ Uncharged(r, p) = 0
                                /\ Uncharged(r, p)' = IF p = Current(r).product
                                                      THEN Current(r).quantity ELSE 0
        BY <2>1, <2>2 DEF Uncharged
      <3>5. \A p \in Products : work[c].led[p] = -work[c].dec[p]
        BY <1>1, <2>1, <3>2, <3>4 DEF TxAt, Work
      <3>6. \A p \in Products :
               work'[c].led[p] = -work'[c].dec[p] - Uncharged(r, p)'
        BY <3>1, <3>2, <3>3, <3>4, <3>5 DEF Work
      <3>7. Pending(r)' \in work'[c].ins
        BY <1>1, <2>1, <2>2, <3>3 DEF TxAt, Replaying
      <3> QED  BY <2>1, <2>2, <2>3, <3>6, <3>7 DEF TxAt, Replaying
    <2> QED  BY <2>1, <2>3, TxWrite
  <1>9. CASE DecrementStock(r)
    <2> DEFINE w == TakeStock(Current(r).product, Current(r).quantity)
    <2>1. /\ pc[r] = "stock" /\ pc[r] \in InTx
          /\ Execute(c, w, {Current(r).product})
          /\ UNCHANGED <<app, body, conn, oid>>
      BY <1>9 DEF DecrementStock, InTx, Statements
    <2>2. PICK l \in {"item", "commit"} : pc' = [pc EXCEPT ![r] = l]
      BY <1>9, Flow DEF DecrementStock
    <2>3. \A q \in Requests \ {r} : idx'[q] = idx[q]
      <3>1. idx' = idx \/ idx' = [idx EXCEPT ![r] = idx[r] + 1]
        BY <1>9 DEF DecrementStock
      <3> QED  BY <3>1 DEF TypeOK
    <2>4. pc'[r] = l /\ Pending(r)' = Pending(r)
      BY <2>1, <2>2 DEF TypeOK, Pending, Key
    <2>5. ASSUME txn'[c] = "open", work'[c] = Merge(work[c], w)
          PROVE  TxAt(r)'
      <3>1. Current(r).product \in Products /\ Current(r).quantity \in Nat
        BY <2>1, CurrentItem
      <3>2. work[c] \in Work
        BY <1>1, <1>2, <2>1 DEF PgTypeOK
      <3>3. /\ work'[c].ins = work[c].ins
            /\ \A p \in Products :
                  /\ work'[c].led[p] = work[c].led[p]
                  /\ work'[c].dec[p] = work[c].dec[p] +
                        (IF p = Current(r).product THEN Current(r).quantity ELSE 0)
        BY <2>5, <3>1, <3>2 DEF Merge, TakeStock, Only, Zero, Work
      <3>4. \A p \in Products : /\ Uncharged(r, p) = IF p = Current(r).product
                                                     THEN Current(r).quantity ELSE 0
                                /\ Uncharged(r, p)' = 0
        BY <2>1, <2>4 DEF Uncharged
      <3>5. \A p \in Products : work[c].led[p] = -work[c].dec[p] - Uncharged(r, p)
        BY <1>1, <2>1 DEF TxAt, Replaying
      <3>6. \A p \in Products :
               work'[c].led[p] = -work'[c].dec[p] - Uncharged(r, p)'
        BY <3>1, <3>2, <3>3, <3>4, <3>5 DEF Work
      <3>7. Pending(r)' \in work'[c].ins
        BY <1>1, <2>1, <2>4, <3>3 DEF TxAt, Replaying
      <3> QED  BY <2>1, <2>4, <2>5, <3>6, <3>7 DEF TxAt, Replaying
    <2> QED  BY <2>1, <2>2, <2>3, <2>5, TxWrite
  <1>10. CASE WriteError(r) \/ StatementFails(r)
    <2>1. /\ pc[r] \in InTx /\ StatementError(c)
          /\ pc' = [pc EXCEPT ![r] = "abort"]
          /\ UNCHANGED <<app, body, conn, oid, idx>>
      BY <1>10 DEF WriteError, ConstraintError, StatementFails, InTx, Statements
    <2>2. OnlySession(c) /\ "abort" \notin InTx
      BY <1>1, <1>2, <2>1, StatementsAreLocal DEF InTx, Statements
    <2>3. txn'[conn'[r]] # "open"
      BY <1>1, <1>2, <2>1 DEF StatementError, PgTypeOK
    <2> QED  BY <2>1, <2>2, <2>3, TxOut
  <1>11. CASE Commit(r) \/ CommitFails(r)
    <2>1. /\ pc[r] \in InTx /\ (CommitTx(c) \/ Rollback(c))
          /\ UNCHANGED <<app, body, conn, oid, idx>>
      BY <1>11 DEF Commit, CommitFails, InTx
    <2>2. PICK l \in {"respond", "abort"} : pc' = [pc EXCEPT ![r] = l]
      BY <1>11, Flow DEF Commit, CommitFails
    <2>3. OnlySession(c) /\ l \notin InTx
      BY <1>1, <1>2, <2>1, StatementsAreLocal DEF InTx, Statements
    <2>4. txn'[conn'[r]] # "open"
      BY <1>1, <1>2, <2>1 DEF CommitTx, Rollback, EndSession, PgTypeOK
    <2> QED  BY <2>1, <2>2, <2>3, <2>4, TxOut
  <1>12. CASE Receive(r) \/ UnknownProduct(r) \/ Respond(r) \/ ReplayOrder(r)
              \/ PoolTimeout(r) \/ ReplayFails(r)
    <2>1. PICK l \in {"acquire", "done", "abort", "replayItems"} :
             pc' = [pc EXCEPT ![r] = l]
      BY <1>12, SafeReplay, SafeRelease DEF Receive, UnknownProduct, ReplayOrder,
         PoolTimeout, ReplayFails
    <2>2. UNCHANGED <<app, body, idx, txn, rowLocks, work>>
      BY <1>12 DEF Receive, UnknownProduct, Respond, ReplayOrder, PoolTimeout,
         ReplayFails, db
    <2>3. \A q \in Requests \ {r} : conn'[q] = conn[q] /\ oid'[q] = oid[q]
      <3>1. CASE Respond(r)
        BY <3>1, SafeRelease DEF Respond, TypeOK
      <3>2. CASE ~Respond(r)
        BY <1>12, <3>2 DEF Receive, UnknownProduct, ReplayOrder, PoolTimeout,
           ReplayFails, TypeOK
      <3> QED  BY <3>1, <3>2
    <2>4. OnlySession(c) /\ l \notin InTx
      BY <2>2 DEF OnlySession, InTx, Statements
    <2>5. l = "abort" \/ (l \in Replaying /\ R.keepConn) =>
             (txn'[conn'[r]] = "open" => work'[conn'[r]] = NoWork)
      <3>1. CASE Receive(r) \/ Respond(r) \/ PoolTimeout(r)
        <4>1. pc'[r] \in {"acquire", "done"}
          BY <3>1, SafeRelease DEF Receive, PoolTimeout, TypeOK
        <4> QED  BY <2>1, <4>1 DEF TypeOK, Replaying
      <3>2. CASE UnknownProduct(r)
        BY <1>1, <2>2, <3>2 DEF UnknownProduct, TxAt
      <3>3. CASE ReplayOrder(r) \/ ReplayFails(r)
        <4>1. pc[r] \in Replaying /\ conn' = conn
          BY <3>3 DEF ReplayOrder, ReplayFails, Replaying
        <4>2. l = "abort" => R.keepConn
          <5>1. pc'[r] = "abort" => R.keepConn
            BY <3>3, SafeReplay DEF ReplayOrder, ReplayFails, TypeOK
          <5> QED  BY <2>1, <5>1 DEF TypeOK
        <4> QED  BY <1>1, <2>2, <4>1, <4>2 DEF TxAt
      <3> QED  BY <1>12, <3>1, <3>2, <3>3
    <2> QED  BY <2>1, <2>2, <2>3, <2>4, <2>5, TxOut
  <1>13. CASE InsertConflict(r)
    <2>1. pc' = [pc EXCEPT ![r] = "replayOrder"]
      BY <1>13, SafeRelease
    <2>2. pc[r] \in InTx /\ UNCHANGED <<app, body, oid, idx>>
      BY <1>13 DEF InsertConflict, InTx, Statements
    <2>3. \A q \in Requests \ {r} : conn'[q] = conn[q]
      BY <1>13, SafeRelease DEF TypeOK
    <2>4. OnlySession(c)
      BY <1>1, <1>2, <1>13, <2>2, StatementsAreLocal
      DEF InsertConflict, OnlySession, session
    <2>5. "replayOrder" \notin InTx
      BY DEF InTx, Statements
    <2>6. R.keepConn => (txn'[conn'[r]] = "open" => work'[conn'[r]] = NoWork)
      <3>1. SUFFICES ASSUME R.keepConn
                     PROVE  txn'[conn'[r]] = "open" => work'[conn'[r]] = NoWork
        OBVIOUS
      <3>2. conn' = conn /\ c \in Conns
        BY <1>2, <1>13, <2>2, <3>1 DEF InsertConflict
      <3>3. CASE R.endTx
        BY <1>1, <1>13, <3>2, <3>3 DEF InsertConflict, Rollback, EndSession, PgTypeOK
      <3>4. CASE ~R.endTx
        BY <1>1, <1>13, <3>2, <3>4 DEF InsertConflict, session, TxAt
      <3> QED  BY <3>3, <3>4
    <2> QED  BY <2>1, <2>2, <2>3, <2>4, <2>5, <2>6, TxOut
  <1>14. CASE Abort(r)
    <2>1. OnlySession(c) /\ "done" \notin InTx \cup Replaying
      BY <1>1, <1>2, <1>14, StatementsAreLocal DEF Abort, InTx, Statements, Replaying
    <2>2. /\ pc' = [pc EXCEPT ![r] = "done"]
          /\ UNCHANGED <<app, body, oid, idx>>
          /\ \A q \in Requests \ {r} : conn'[q] = conn[q]
      BY <1>14, SafeRelease DEF Abort, TypeOK
    <2> QED  BY <2>1, <2>2, TxOut
  <1>15. CASE ReplayItems(r)
    <2>1. OnlySession(c)
      <3>1. CASE R.keepConn
        <4>1. c \in Conns
          BY <1>15, <3>1, Refers DEF ReplayItems, Replaying
        <4> QED  BY <1>1, <1>15, <3>1, <4>1, StatementsAreLocal DEF ReplayItems
      <3>2. CASE ~R.keepConn
        BY <1>15, <3>2 DEF ReplayItems, session, OnlySession
      <3> QED  BY <3>1, <3>2
    <2>2. /\ pc' = [pc EXCEPT ![r] = "done"]
          /\ UNCHANGED <<app, body, oid, idx>>
          /\ \A q \in Requests \ {r} : conn'[q] = conn[q]
      BY <1>15 DEF ReplayItems, TypeOK
    <2>3. "done" \notin InTx \cup Replaying
      BY DEF InTx, Statements, Replaying
    <2> QED  BY <2>1, <2>2, <2>3, TxOut
  <1>16. ~StrayRollback(r)
    BY DEF StrayRollback, PoolInv, Stray
  <1> QED
    BY <1>3, <1>4, <1>5, <1>6, <1>7, <1>8, <1>9, <1>10, <1>11, <1>12, <1>13,
       <1>14, <1>15, <1>16 DEF Step, Faulty

LEMMA TxNext ==
    ASSUME TypeOK, HandlerInv, NoNode, PoolInv, TxInv, [Next]_vars
    PROVE  TxInv'
  <1>1. CASE Restart
    <2>1. \A r \in Requests : pc'[r] \in {"new", "done", "lost"}
      BY <1>1 DEF Restart, InFlight
    <2> QED  BY <2>1 DEF TxInv, TxAt, InTx, Statements, Replaying
  <1>2. CASE UNCHANGED vars
    BY <1>2 DEF vars, db, TxInv, TxAt, Pending, Uncharged, Current, Items, Key, R
  <1> QED  BY <1>1, <1>2, TxStep DEF Next, Finished

(* At every step of every handler, its open transaction holds exactly the
   writes of the statements before it: nothing while it only reads, its order
   and balanced ledger and stock changes from the INSERT on. *)
THEOREM TxDiscipline ==
    ASSUME NoNode PROVE Spec => []TxInv
  <1>1. Init => TxInv
    BY DEF Init, TxInv, TxAt, InTx, Statements, Replaying
  <1>2. TypeOK /\ HandlerInv /\ PoolInv /\ TxInv /\ [Next]_vars => TxInv'
    BY TxNext
  <1> QED  BY <1>1, <1>2, Typing, PoolDiscipline, PTL DEF Spec

-----------------------------------------------------------------------------
LEMMA NoWorkApplies ==
    ASSUME PgTypeOK, Apply(NoWork)
    PROVE  UNCHANGED tables
  BY DEF PgTypeOK, Apply, NoWork, Zero, tables

(* The tables change only at COMMIT, by what the handler's transaction has
   written. *)
LEMMA TablesStep ==
    ASSUME TypeOK, HandlerInv, NoNode, PoolInv, TxInv, NEW r \in Requests,
           Step(r) \/ Faulty(r)
    PROVE  UNCHANGED tables \/ (pc[r] = "commit" /\ Apply(work[conn[r]]))
  <1>1. CASE LockProduct(r) \/ InsertOrder(r) \/ InsertItem(r)
             \/ InsertLedger(r) \/ DecrementStock(r)
    <2>1. pc[r] \in InTx /\ \E w, L : Execute(conn[r], w, L)
      BY <1>1 DEF LockProduct, InsertOrder, InsertItem, InsertLedger,
         DecrementStock, InTx, Statements
    <2>2. txn[conn[r]] = "open"
      BY <2>1 DEF TxInv, TxAt
    <2> QED  BY <2>1, <2>2 DEF Execute
  <1>2. CASE Receive(r) \/ UnknownProduct(r) \/ CheckStock(r) \/ Respond(r)
             \/ ReplayOrder(r) \/ PoolTimeout(r) \/ ReplayFails(r)
    BY <1>2 DEF Receive, UnknownProduct, CheckStock, Respond, ReplayOrder,
       PoolTimeout, ReplayFails, db, tables
  <1>3. CASE BeginTx(r) \/ WriteError(r) \/ StatementFails(r)
    BY <1>3 DEF BeginTx, WriteError, StatementFails, StatementError, tables
  <1>4. CASE Commit(r) \/ CommitFails(r)
    BY <1>4 DEF Commit, CommitFails, CommitTx, Rollback
  <1>5. CASE InsertConflict(r)
    BY <1>5 DEF InsertConflict, Rollback
  <1>6. CASE Abort(r) \/ ReplayItems(r)
    <2>1. CASE UNCHANGED tables
      BY <2>1
    <2>2. CASE /\ CommitTx(conn[r]) /\ txn[conn[r]] = "open"
               /\ pc[r] = "abort" \/ (pc[r] \in Replaying /\ R.keepConn)
      <3>1. Apply(NoWork)
        BY <2>2 DEF CommitTx, TxInv, TxAt
      <3> QED  BY <3>1, NoWorkApplies DEF TypeOK
    <2> QED
      BY <1>6, <2>1, <2>2 DEF Abort, ReplayItems, CommitTx, Rollback, Replaying
  <1>7. ~StrayRollback(r)
    BY DEF StrayRollback, PoolInv, Stray
  <1> QED
    BY <1>1, <1>2, <1>3, <1>4, <1>5, <1>6, <1>7 DEF Step, Faulty

LEMMA LedgerStep ==
    ASSUME TypeOK, HandlerInv, NoNode, PoolInv, TxInv, LedgerMatchesStock,
           NEW r \in Requests, Step(r) \/ Faulty(r)
    PROVE  LedgerMatchesStock'
  <1>1. CASE UNCHANGED tables
    BY <1>1 DEF tables, LedgerMatchesStock
  <1>2. CASE pc[r] = "commit" /\ Apply(work[conn[r]])
    <2>1. conn[r] \in Conns /\ work[conn[r]] \in Work
      BY <1>2, Refers DEF InTx, TypeOK, PgTypeOK
    <2>2. \A p \in Products : work[conn[r]].led[p] = -work[conn[r]].dec[p]
      <3>1. \A p \in Products : Uncharged(r, p) = 0
        BY <1>2 DEF Uncharged
      <3>2. \A p \in Products : work[conn[r]].dec[p] \in Int
        BY <2>1 DEF Work
      <3>3. \A p \in Products :
               work[conn[r]].led[p] = -work[conn[r]].dec[p] - Uncharged(r, p)
        BY <1>2 DEF TxInv, TxAt
      <3> TAKE p \in Products
      <3>4. /\ Uncharged(r, p) = 0 /\ work[conn[r]].dec[p] \in Int
            /\ work[conn[r]].led[p] = -work[conn[r]].dec[p] - Uncharged(r, p)
        BY <3>1, <3>2, <3>3
      <3> QED  BY <3>4
    <2>3. \A p \in Products : /\ stock[p] \in Int /\ ledger[p] \in Int
                              /\ InitStock[p] \in Nat
                              /\ work[conn[r]].dec[p] \in Int
      BY <2>1, InitStockAssumption DEF TypeOK, PgTypeOK, Work
    <2>4. \A p \in Products : /\ stock'[p] = stock[p] - work[conn[r]].dec[p]
                              /\ ledger'[p] = ledger[p] + work[conn[r]].led[p]
      BY <1>2 DEF Apply
    <2> SUFFICES ASSUME NEW p \in Products
                 PROVE  stock'[p] = InitStock[p] + ledger'[p]
      BY DEF LedgerMatchesStock
    <2>5. stock[p] = InitStock[p] + ledger[p]
      BY DEF LedgerMatchesStock
    <2> QED  BY <2>2, <2>3, <2>4, <2>5
  <1> QED  BY <1>1, <1>2, TablesStep

(* In every application but Node, no interleaving, error path or restart of
   the three-table write loses or doubles a unit of stock: products.stock is
   the seeded stock plus the sum of the ledger. *)
THEOREM StockIsAccounted ==
    ASSUME NoNode PROVE Spec => []LedgerMatchesStock
  <1>1. Init => LedgerMatchesStock
    <2> SUFFICES ASSUME Init, NEW p \in Products
                 PROVE  stock[p] = InitStock[p] + ledger[p]
      BY DEF LedgerMatchesStock
    <2>1. stock[p] = InitStock[p] /\ ledger[p] = 0 /\ InitStock[p] \in Nat
      BY InitStockAssumption DEF Init, PgInit, Zero
    <2> QED  BY <2>1
  <1>2. TypeOK /\ HandlerInv /\ PoolInv /\ TxInv /\ LedgerMatchesStock
           /\ [Next]_vars => LedgerMatchesStock'
    <2> SUFFICES ASSUME TypeOK, HandlerInv, PoolInv, TxInv, LedgerMatchesStock,
                        [Next]_vars
                 PROVE  LedgerMatchesStock'
      OBVIOUS
    <2>1. CASE Restart \/ UNCHANGED vars
      BY <2>1 DEF Restart, DropSessions, vars, db, tables, LedgerMatchesStock
    <2> QED  BY <2>1, LedgerStep DEF Next, Finished
  <1> QED
    BY <1>1, <1>2, Typing, PoolDiscipline, TxDiscipline, PTL DEF Spec

-----------------------------------------------------------------------------
(* Orders are never deleted. *)
LEMMA OrdersGrow ==
    ASSUME TypeOK, HandlerInv, NoNode, PoolInv, TxInv, NEW r \in Requests,
           Step(r) \/ Faulty(r)
    PROVE  orders \subseteq orders'
  BY TablesStep DEF tables, Apply

(* What r has been told, or is about to be, is durable. *)
LEMMA AckFrame ==
    ASSUME TypeOK, AckInv, NEW r \in Requests, orders \subseteq orders',
           UNCHANGED body,
           \A q \in Requests \ {r} : /\ pc'[q] = pc[q] /\ code'[q] = code[q]
                                     /\ oid'[q] = oid[q],
           code'[r] = 201 => pc'[r] = "done",
           Answered(r, 201)' \/ pc'[r] \in {"respond", "replayItems"} =>
              \E o \in orders' : o.key = Key(r)' /\ o.id = oid'[r]
    PROVE  AckInv'
  BY DEF AckInv, Answered, Key

(* A step that decides no 201 and does not come near one. *)
LEMMA AckQuiet ==
    ASSUME TypeOK, AckInv, NEW r \in Requests, orders \subseteq orders',
           UNCHANGED body, NEW l, pc' = [pc EXCEPT ![r] = l],
           l \notin {"respond", "replayItems"},
           \A q \in Requests \ {r} : code'[q] = code[q] /\ oid'[q] = oid[q],
           code'[r] # 201
    PROVE  AckInv'
  <1>1. pc'[r] = l /\ \A q \in Requests \ {r} : pc'[q] = pc[q]
    BY DEF TypeOK
  <1> QED  BY <1>1, AckFrame DEF Answered

LEMMA AckStep ==
    ASSUME TypeOK, HandlerInv, NoNode, PoolInv, TxInv, AckInv,
           NEW r \in Requests, Step(r) \/ Faulty(r)
    PROVE  AckInv'
  <1> USE DEF Goto, Refuse
  <1>1. orders \subseteq orders' /\ (code[r] = 201 => pc[r] = "done")
    BY OrdersGrow DEF AckInv
  <1>2. CASE BeginTx(r) \/ InsertOrder(r) \/ InsertItem(r) \/ InsertLedger(r)
    <2>1. /\ \E l \in {"lock", "item", "ledger", "stock"} :
                pc' = [pc EXCEPT ![r] = l]
          /\ pc[r] # "done"
          /\ UNCHANGED <<body, code>>
      BY <1>2, Flow DEF BeginTx, InsertOrder, InsertItem, InsertLedger
    <2>2. \A q \in Requests \ {r} : code'[q] = code[q] /\ oid'[q] = oid[q]
      BY <1>2 DEF BeginTx, InsertOrder, InsertItem, InsertLedger, TypeOK
    <2>3. PICK l : pc' = [pc EXCEPT ![r] = l] /\ l \notin {"respond", "replayItems"}
      BY <2>1
    <2>4. code'[r] # 201 /\ UNCHANGED body
      BY <1>1, <2>1
    <2> QED  BY <1>1, <2>2, <2>3, <2>4, AckQuiet
  <1>3. CASE LockProduct(r) \/ DecrementStock(r)
    <2>1. /\ \E l \in {"lock", "check", "item", "commit"} :
                pc' = [pc EXCEPT ![r] = l]
      <3>1. CASE LockProduct(r)
        <4>1. PICK p \in Products :
                 pc' = [pc EXCEPT ![r] = IF Wanted(r) \subseteq got[r] \cup {p}
                                         THEN "check" ELSE "lock"]
          BY <3>1, Flow DEF LockProduct
        <4> QED  BY <4>1
      <3>2. CASE DecrementStock(r)
        BY <3>2, Flow DEF DecrementStock
      <3> QED  BY <1>3, <3>1, <3>2
    <2>2. UNCHANGED <<body, code, oid>> /\ pc[r] # "done"
      BY <1>3 DEF LockProduct, DecrementStock
    <2> QED  BY <1>1, <2>1, <2>2, AckQuiet
  <1>4. CASE UnknownProduct(r) \/ WriteError(r) \/ StatementFails(r)
             \/ CommitFails(r) \/ PoolTimeout(r) \/ ReplayFails(r)
    <2>1. /\ \E l \in {"abort", "done"} : pc' = [pc EXCEPT ![r] = l]
          /\ \E s \in {400, 500} : code' = [code EXCEPT ![r] = s]
          /\ UNCHANGED <<body, oid>>
      BY <1>4, Flow, SafeReplay DEF UnknownProduct, WriteError, StatementFails,
         CommitFails, PoolTimeout, ReplayFails
    <2>2. /\ code'[r] # 201
          /\ \A q \in Requests \ {r} : code'[q] = code[q] /\ oid'[q] = oid[q]
      BY <2>1 DEF TypeOK
    <2>3. PICK l \in {"abort", "done"} : pc' = [pc EXCEPT ![r] = l]
      BY <2>1
    <2>4. l \notin {"respond", "replayItems"} /\ UNCHANGED body
      BY <2>1
    <2> QED  BY <1>1, <2>2, <2>3, <2>4, AckQuiet
  <1>5. CASE Receive(r) \/ CheckStock(r) \/ InsertConflict(r)
    <2>1. /\ \E l \in {"acquire", "insert", "replayOrder", "abort", "done"} :
                pc' = [pc EXCEPT ![r] = l]
          /\ code' = code \/ \E s \in {400, 409, 500} : code' = [code EXCEPT ![r] = s]
      BY <1>5, Flow, SafeRelease DEF Receive, CheckStock
    <2>2. UNCHANGED <<body, oid>> /\ pc[r] # "done"
      BY <1>5 DEF Receive, CheckStock, InsertConflict
    <2>3. /\ code'[r] # 201
          /\ \A q \in Requests \ {r} : code'[q] = code[q] /\ oid'[q] = oid[q]
      BY <1>1, <2>1, <2>2 DEF TypeOK
    <2>4. PICK l \in {"acquire", "insert", "replayOrder", "abort", "done"} :
             pc' = [pc EXCEPT ![r] = l]
      BY <2>1
    <2>5. l \notin {"respond", "replayItems"} /\ UNCHANGED body
      BY <2>2
    <2> QED  BY <1>1, <2>3, <2>4, <2>5, AckQuiet
  <1>6. CASE Abort(r)
    <2>1. /\ pc' = [pc EXCEPT ![r] = "done"]
          /\ UNCHANGED <<body, oid, code>> /\ pc[r] # "done"
      BY <1>6, SafeRelease DEF Abort
    <2>2. /\ code'[r] # 201
          /\ \A q \in Requests \ {r} : code'[q] = code[q] /\ oid'[q] = oid[q]
      BY <1>1, <2>1
    <2>3. UNCHANGED body /\ pc' = [pc EXCEPT ![r] = "done"]
      BY <2>1
    <2>4. "done" \notin {"respond", "replayItems"}
      OBVIOUS
    <2> QED  BY <1>1, <2>2, <2>3, <2>4, AckQuiet
  <1>7. CASE Commit(r)
    <2>1. /\ pc' = [pc EXCEPT ![r] = "respond"] /\ pc[r] = "commit"
          /\ UNCHANGED <<body, oid, code>> /\ CommitTx(conn[r])
      BY <1>7, Flow DEF Commit
    <2>2. pc'[r] = "respond" /\ \A q \in Requests \ {r} : pc'[q] = pc[q]
      BY <2>1 DEF TypeOK
    <2>3. Pending(r) \in work[conn[r]].ins /\ txn[conn[r]] = "open"
      BY <2>1 DEF TxInv, TxAt, InTx
    <2>4. Pending(r) \in orders'
      BY <2>1, <2>3 DEF CommitTx, Apply
    <2>5. \E o \in orders' : o.key = Key(r)' /\ o.id = oid'[r]
      BY <2>1, <2>4 DEF Pending, Key
    <2> QED  BY <1>1, <2>1, <2>2, <2>5, AckFrame
  <1>8. CASE Respond(r) \/ ReplayItems(r)
    <2>1. /\ pc' = [pc EXCEPT ![r] = "done"] /\ UNCHANGED <<body, oid>>
          /\ pc[r] \in {"respond", "replayItems"}
          /\ \E s : code' = [code EXCEPT ![r] = s]
      BY <1>8, SafeRelease DEF Respond, ReplayItems
    <2>2. pc'[r] = "done" /\ \A q \in Requests \ {r} : pc'[q] = pc[q]
                                                        /\ code'[q] = code[q]
      BY <2>1 DEF TypeOK
    <2>3. \E o \in orders' : o.key = Key(r)' /\ o.id = oid'[r]
      BY <1>1, <2>1 DEF AckInv, Key
    <2> QED  BY <1>1, <2>1, <2>2, <2>3, AckFrame
  <1>9. CASE ReplayOrder(r)
    <2>1. UNCHANGED <<orders, body>> /\ pc[r] # "done"
      BY <1>9 DEF ReplayOrder, db
    <2>2. CASE \E o \in orders : /\ o.key = Key(r)
                                 /\ oid' = [oid EXCEPT ![r] = o.id]
                                 /\ pc' = [pc EXCEPT ![r] = "replayItems"]
                                 /\ UNCHANGED code
      <3>1. PICK o \in orders : /\ o.key = Key(r)
                                /\ oid' = [oid EXCEPT ![r] = o.id]
                                /\ pc' = [pc EXCEPT ![r] = "replayItems"]
                                /\ UNCHANGED code
        BY <2>2
      <3>2. /\ oid'[r] = o.id /\ pc'[r] = "replayItems"
            /\ \A q \in Requests \ {r} : pc'[q] = pc[q] /\ oid'[q] = oid[q]
        BY <3>1 DEF TypeOK
      <3>3. o \in orders' /\ o.key = Key(r)'
        BY <2>1, <3>1 DEF Key
      <3> QED  BY <1>1, <2>1, <3>1, <3>2, <3>3, AckFrame
    <2>3. CASE /\ code' = [code EXCEPT ![r] = 500] /\ UNCHANGED oid
               /\ \E l \in {"abort", "done"} : pc' = [pc EXCEPT ![r] = l]
      <3>1. code'[r] # 201 /\ UNCHANGED body
        BY <2>1, <2>3 DEF TypeOK
      <3>2. \A q \in Requests \ {r} : code'[q] = code[q] /\ oid'[q] = oid[q]
        BY <2>3 DEF TypeOK
      <3>3. PICK l : pc' = [pc EXCEPT ![r] = l] /\ l \notin {"respond", "replayItems"}
        BY <2>3
      <3> QED  BY <1>1, <3>1, <3>2, <3>3, AckQuiet
    <2> QED  BY <1>9, <2>2, <2>3 DEF ReplayOrder
  <1>10. ~StrayRollback(r)
    BY DEF StrayRollback, PoolInv, Stray
  <1> QED
    BY <1>2, <1>3, <1>4, <1>5, <1>6, <1>7, <1>8, <1>9, <1>10 DEF Step, Faulty

(* In every application but Node, a 201 names an order that is durable under
   the request's own key, through every retry, failed COMMIT and restart. *)
THEOREM AcknowledgedOrdersAreDurable ==
    ASSUME NoNode PROVE Spec => []AckedIsDurable
  <1>1. Init => AckInv
    BY DEF Init, AckInv, Answered
  <1>2. TypeOK /\ HandlerInv /\ PoolInv /\ TxInv /\ AckInv /\ [Next]_vars
           => AckInv'
    <2> SUFFICES ASSUME TypeOK, HandlerInv, PoolInv, TxInv, AckInv, [Next]_vars
                 PROVE  AckInv'
      OBVIOUS
    <2>1. CASE Restart
      <3>1. /\ UNCHANGED <<orders, body, oid, code>>
            /\ \A r \in Requests :
                  pc'[r] = IF InFlight(r) THEN "lost" ELSE pc[r]
        BY <2>1 DEF Restart, DropSessions, tables
      <3> QED  BY <3>1 DEF AckInv, Answered, InFlight, Key
    <2>2. CASE UNCHANGED vars
      BY <2>2 DEF vars, db, AckInv, Answered, Key
    <2> QED  BY <2>1, <2>2, AckStep DEF Next, Finished
  <1>3. AckInv => AckedIsDurable
    BY DEF AckInv, AckedIsDurable
  <1> QED
    BY <1>1, <1>2, <1>3, Typing, PoolDiscipline, TxDiscipline, PTL DEF Spec

-----------------------------------------------------------------------------
(* Row locks: what a handler has read under FOR UPDATE stays current until its
   COMMIT, the stock changes only under the lock of its row, and a refused
   request has left no order. *)

(* The three ways a session can change its locks and its writes. *)
LEMMA LocksSame ==
    ASSUME LocksExclude, UNCHANGED <<rowLocks, work>>
    PROVE  LocksExclude'
  BY DEF LocksExclude

LEMMA LocksEnd ==
    ASSUME PgTypeOK, LocksExclude, NEW c \in Conns, EndSession(c)
    PROVE  LocksExclude'
  <1>1. /\ rowLocks'[c] = {} /\ \A p \in Products : work'[c].dec[p] = 0
        /\ \A d \in Conns \ {c} : rowLocks'[d] = rowLocks[d] /\ work'[d] = work[d]
    BY DEF EndSession, PgTypeOK, NoWork, Zero
  <1> QED  BY <1>1 DEF LocksExclude

LEMMA LocksExecute ==
    ASSUME PgTypeOK, LocksExclude, NEW c \in Conns, txn[c] = "open",
           NEW w, NEW L \in SUBSET Products, Execute(c, w, L),
           \A p \in L : RowFree(c, p),
           \A p \in Products : w.dec[p] \in Int /\ (w.dec[p] # 0 => p \in L)
    PROVE  LocksExclude'
  <1>1. /\ rowLocks'[c] = rowLocks[c] \cup L
        /\ work'[c] = Merge(work[c], w)
        /\ \A d \in Conns \ {c} : rowLocks'[d] = rowLocks[d] /\ work'[d] = work[d]
    BY DEF Execute, PgTypeOK
  <1>2. \A p \in Products : work'[c].dec[p] = work[c].dec[p] + w.dec[p]
    BY <1>1 DEF Merge
  <1>3. \A p \in Products : work[c].dec[p] \in Int
    <2>1. work[c] \in Work
      BY DEF PgTypeOK
    <2> QED  BY <2>1 DEF Work
  <1>4. \A p \in Products : work'[c].dec[p] # 0 => p \in rowLocks'[c]
    <2> TAKE p \in Products
    <2>1. work'[c].dec[p] # 0 => work[c].dec[p] # 0 \/ w.dec[p] # 0
      BY <1>2, <1>3
    <2> QED  BY <1>1, <2>1 DEF LocksExclude
  <1>5. \A d \in Conns \ {c} : L \cap rowLocks[d] = {}
    BY DEF RowFree
  <1> QED  BY <1>1, <1>4, <1>5 DEF LocksExclude

(* What another handler has read is not disturbed by a step of r. *)
LEMMA ReadFrame ==
    ASSUME TypeOK, NoNode, PoolInv, LockInv, NEW r \in Requests, NEW c,
           c = conn[r] \/ c = conn'[r],
           \A q \in Requests : RefersTo(q) /\ q # r => conn[q] # c,
           OnlySession(c),
           \A q \in Requests \ {r} : /\ pc'[q] = pc[q] /\ conn'[q] = conn[q]
                                     /\ got'[q] = got[q] /\ seen'[q] = seen[q],
           UNCHANGED stock \/ (c \in Conns /\ Apply(work[c])),
           LocksExclude', ReadAt(r)'
    PROVE  LockInv'
  <1> SUFFICES ASSUME NEW q \in Requests, q # r PROVE ReadAt(q)'
    BY DEF LockInv
  <1>1. ReadAt(q) /\ LocksExclude
    BY DEF LockInv
  <1>2. CASE pc[q] \notin InTx
    BY <1>1, <1>2 DEF ReadAt, InTx, Statements
  <1>3. CASE pc[q] \in InTx
    <2>1. RefersTo(q) /\ conn[q] \in Conns /\ conn[q] # c
      BY <1>3, Refers
    <2>2. rowLocks'[conn[q]] = rowLocks[conn[q]]
      BY <2>1 DEF OnlySession
    <2>3. got[q] \subseteq Products /\ got[q] \subseteq rowLocks[conn[q]]
      BY <1>1, <1>3 DEF ReadAt, TypeOK
    <2>4. ASSUME NEW p \in got[q] PROVE stock'[p] = stock[p]
      <3>1. CASE UNCHANGED stock
        BY <3>1
      <3>2. CASE c \in Conns /\ Apply(work[c])
        <4>1. p \notin rowLocks[c]
          BY <1>1, <2>1, <2>3, <2>4, <3>2 DEF LocksExclude
        <4>2. work[c].dec[p] = 0
          BY <1>1, <2>3, <2>4, <3>2, <4>1 DEF LocksExclude
        <4>3. stock'[p] = stock[p] - 0 /\ stock[p] \in Int
          BY <2>3, <2>4, <3>2, <4>2 DEF Apply, TypeOK, PgTypeOK
        <4> QED  BY <4>3
      <3> QED  BY <3>1, <3>2
    <2> QED  BY <1>1, <1>3, <2>2, <2>3, <2>4 DEF ReadAt, InTx, Statements
  <1> QED  BY <1>2, <1>3

(* A handler that leaves its transaction, or was never in one. *)
LEMMA ReadOut ==
    ASSUME TypeOK, NoNode, PoolInv, LockInv, NEW r \in Requests, NEW l,
           l \notin InTx \cup {"new", "acquire"}, pc' = [pc EXCEPT ![r] = l],
           OnlySession(conn[r]), UNCHANGED <<got, seen>>,
           \A q \in Requests \ {r} : conn'[q] = conn[q],
           UNCHANGED stock \/ (conn[r] \in Conns /\ Apply(work[conn[r]])),
           LocksExclude'
    PROVE  LockInv'
  <1>1. \A q \in Requests : RefersTo(q) /\ q # r => conn[q] # conn[r]
    BY Refers, NullAssumption DEF PoolInv
  <1>2. pc'[r] = l /\ \A q \in Requests \ {r} : pc'[q] = pc[q]
    BY DEF TypeOK
  <1>3. ReadAt(r)'
    BY <1>2 DEF ReadAt, InTx, Statements
  <1> QED  BY <1>1, <1>2, <1>3, ReadFrame

(* A statement in the transaction that reads no stock. *)
LEMMA ReadWrite ==
    ASSUME TypeOK, NoNode, PoolInv, LockInv, NEW r \in Requests, NEW l,
           pc[r] \in InTx, l \in InTx, pc' = [pc EXCEPT ![r] = l],
           OnlySession(conn[r]), rowLocks[conn[r]] \subseteq rowLocks'[conn[r]],
           UNCHANGED <<got, seen, conn, stock>>, LocksExclude'
    PROVE  LockInv'
  <1>1. \A q \in Requests : RefersTo(q) /\ q # r => conn[q] # conn[r]
    BY Refers, Alone
  <1>2. pc'[r] = l /\ \A q \in Requests \ {r} : pc'[q] = pc[q]
    BY DEF TypeOK
  <1>3. ReadAt(r)
    BY DEF LockInv
  <1>4. ReadAt(r)'
    BY <1>2, <1>3 DEF ReadAt, InTx, Statements
  <1> QED  BY <1>1, <1>2, <1>4, ReadFrame

LEMMA LockStep ==
    ASSUME TypeOK, HandlerInv, NoNode, PoolInv, TxInv, LockInv,
           NEW r \in Requests, Step(r) \/ Faulty(r)
    PROVE  LockInv'
  <1> USE DEF Goto, Refuse
  <1> DEFINE c == conn[r]
  <1>1. PgTypeOK /\ TxAt(r) /\ ReadAt(r) /\ LocksExclude
    BY DEF TypeOK, TxInv, LockInv
  <1>2. pc[r] \in InTx \cup {"respond", "abort"} => c \in Conns /\ RefersTo(r)
    BY Refers
  <1>3. CASE BeginTx(r)
    <2>1. PICK d \in Conns : /\ owner[d] = NoOwner
                             /\ conn' = [conn EXCEPT ![r] = d]
                             /\ Begin(d)
      BY <1>3 DEF BeginTx, FreeConns
    <2>2. \A q \in Requests : RefersTo(q) => conn[q] # d
      BY <2>1, NullAssumption DEF PoolInv
    <2>3. /\ pc[r] = "acquire" /\ pc' = [pc EXCEPT ![r] = "lock"]
          /\ UNCHANGED <<stock, rowLocks, work, got, seen>>
      BY <1>3, Flow DEF BeginTx, tables
    <2>4. OnlySession(d)
      BY <1>1, <2>1, <2>3 DEF OnlySession, Begin, PgTypeOK
    <2>5. /\ pc'[r] = "lock" /\ conn'[r] = d
          /\ \A q \in Requests \ {r} : pc'[q] = pc[q] /\ conn'[q] = conn[q]
      BY <2>1, <2>3 DEF TypeOK
    <2>6. ReadAt(r)'
      BY <1>1, <2>3, <2>5 DEF ReadAt
    <2>7. LocksExclude'
      BY <1>1, <2>3, LocksSame
    <2> QED  BY <2>2, <2>3, <2>4, <2>5, <2>6, <2>7, ReadFrame
  <1>4. CASE LockProduct(r)
    <2>1. PICK p \in Products :
             /\ RowFree(c, p) /\ Execute(c, NoWork, {p})
             /\ got' = [got EXCEPT ![r] = got[r] \cup {p}]
             /\ seen' = [seen EXCEPT ![r][p] = VisibleStock(c, p)]
             /\ pc' = [pc EXCEPT ![r] = IF Wanted(r) \subseteq got[r] \cup {p}
                                        THEN H.lock ELSE "lock"]
      BY <1>4, Zenon DEF LockProduct
    <2>2. PICK l \in {"lock", "check"} : pc' = [pc EXCEPT ![r] = l]
      BY <2>1, Flow
    <2>3. pc[r] = "lock" /\ pc[r] \in InTx /\ UNCHANGED conn
      BY <1>4 DEF LockProduct, InTx, Statements
    <2>4. txn[c] = "open" /\ work[c] = NoWork /\ c \in Conns
      BY <1>1, <1>2, <2>3 DEF TxAt
    <2>5. rowLocks'[c] = rowLocks[c] \cup {p} /\ UNCHANGED stock
      BY <1>1, <2>1, <2>4 DEF Execute, PgTypeOK, tables
    <2>6. LocksExclude'
      BY <1>1, <2>1, <2>4, LocksExecute DEF NoWork, Zero
    <2>7. OnlySession(c)
      BY <1>1, <2>1, <2>4, StatementsAreLocal
    <2>8. /\ pc'[r] = l /\ got'[r] = got[r] \cup {p}
          /\ \A q \in Requests \ {r} : /\ pc'[q] = pc[q] /\ got'[q] = got[q]
                                        /\ seen'[q] = seen[q]
      BY <2>1, <2>2 DEF TypeOK
    <2>9. VisibleStock(c, p) = stock[p]
      <3>1. VisibleStock(c, p) = stock[p] - 0 /\ stock[p] \in Int
        BY <1>1, <2>4 DEF VisibleStock, NoWork, Zero, PgTypeOK
      <3> QED  BY <3>1
    <2>10. /\ seen'[r][p] = stock[p]
           /\ \A x \in Products \ {p} : seen'[r][x] = seen[r][x]
      BY <2>1, <2>9 DEF TypeOK
    <2>11. got[r] \subseteq Products
      BY DEF TypeOK
    <2>12. ReadAt(r)'
      BY <1>1, <2>3, <2>5, <2>8, <2>10, <2>11 DEF ReadAt
    <2>13. \A q \in Requests : RefersTo(q) /\ q # r => conn[q] # c
      BY <1>2, <2>3, Alone
    <2>14. \A q \in Requests \ {r} : conn'[q] = conn[q]
      BY <2>3
    <2> QED  BY <2>5, <2>6, <2>7, <2>8, <2>12, <2>13, <2>14, ReadFrame
  <1>5. CASE InsertOrder(r) \/ InsertItem(r) \/ InsertLedger(r)
    <2>1. PICK w : /\ Execute(c, w, {})
                   /\ \A p \in Products : w.dec[p] = 0
      BY <1>5 DEF InsertOrder, InsertItem, InsertLedger, NewOrder, NewLine,
         NewDelta, Zero
    <2>2. PICK l \in InTx : pc' = [pc EXCEPT ![r] = l]
      BY <1>5, Flow DEF InsertOrder, InsertItem, InsertLedger, InTx, Statements
    <2>3. pc[r] \in InTx /\ UNCHANGED <<got, seen, conn>>
      BY <1>5 DEF InsertOrder, InsertItem, InsertLedger, InTx, Statements
    <2>4. txn[c] = "open" /\ c \in Conns
      BY <1>1, <1>2, <2>3 DEF TxAt
    <2>5. rowLocks[c] \subseteq rowLocks'[c] /\ UNCHANGED stock
      BY <1>1, <2>1, <2>4 DEF Execute, PgTypeOK, tables
    <2>6. LocksExclude'
      BY <1>1, <2>1, <2>4, LocksExecute
    <2>7. OnlySession(c)
      BY <1>1, <2>1, <2>4, StatementsAreLocal
    <2> QED  BY <2>2, <2>3, <2>5, <2>6, <2>7, ReadWrite
  <1>6. CASE DecrementStock(r)
    <2> DEFINE p == Current(r).product
    <2>1. /\ pc[r] = "stock" /\ pc[r] \in InTx /\ RowFree(c, p)
          /\ Execute(c, TakeStock(p, Current(r).quantity), {p})
          /\ UNCHANGED <<got, seen, conn>>
      BY <1>6 DEF DecrementStock, InTx, Statements
    <2>2. PICK l \in InTx : pc' = [pc EXCEPT ![r] = l]
      BY <1>6, Flow DEF DecrementStock, InTx, Statements
    <2>3. p \in Products /\ Current(r).quantity \in Nat
      BY <2>1, CurrentItem
    <2>4. txn[c] = "open" /\ c \in Conns
      BY <1>1, <1>2, <2>1 DEF TxAt
    <2>5. rowLocks[c] \subseteq rowLocks'[c] /\ UNCHANGED stock
      BY <1>1, <2>1, <2>4 DEF Execute, PgTypeOK, tables
    <2>6. LocksExclude'
      BY <1>1, <2>1, <2>3, <2>4, LocksExecute DEF TakeStock, Only
    <2>7. OnlySession(c)
      BY <1>1, <2>1, <2>4, StatementsAreLocal
    <2> QED  BY <2>1, <2>2, <2>5, <2>6, <2>7, ReadWrite
  <1>7. CASE CheckStock(r)
    <2>1. /\ pc[r] \in InTx
          /\ UNCHANGED <<got, seen, conn, stock, txn, rowLocks, work>>
      BY <1>7 DEF CheckStock, InTx, db
    <2>2. PICK l \in {"insert", "abort"} : pc' = [pc EXCEPT ![r] = l]
      BY <1>7, Flow DEF CheckStock
    <2>3. OnlySession(c) /\ LocksExclude'
      BY <1>1, <2>1, LocksSame DEF OnlySession
    <2>4. CASE l = "insert"
      <3>1. l \in InTx
        BY <2>4 DEF InTx, Statements
      <3> QED  BY <2>1, <2>2, <2>3, <3>1, ReadWrite
    <2>5. CASE l = "abort"
      <3>1. l \notin InTx \cup {"new", "acquire"}
        BY <2>5 DEF InTx, Statements
      <3> QED  BY <2>1, <2>2, <2>3, <3>1, ReadOut
    <2> QED  BY <2>4, <2>5
  <1>8. CASE WriteError(r) \/ StatementFails(r)
    <2>1. /\ pc[r] \in InTx /\ StatementError(c)
          /\ pc' = [pc EXCEPT ![r] = "abort"]
          /\ UNCHANGED <<got, seen, conn>>
      BY <1>8 DEF WriteError, ConstraintError, StatementFails, InTx, Statements
    <2>2. OnlySession(c) /\ "abort" \notin InTx \cup {"new", "acquire"}
      BY <1>1, <1>2, <2>1, StatementsAreLocal DEF InTx, Statements
    <2>3. UNCHANGED <<stock, rowLocks, work>>
      BY <2>1 DEF StatementError
    <2> QED  BY <1>1, <2>1, <2>2, <2>3, LocksSame, ReadOut
  <1>9. CASE Commit(r) \/ CommitFails(r)
    <2>1. /\ pc[r] \in InTx /\ (CommitTx(c) \/ Rollback(c))
          /\ UNCHANGED <<got, seen, conn>>
      BY <1>9 DEF Commit, CommitFails, InTx
    <2>2. PICK l \in {"respond", "abort"} : pc' = [pc EXCEPT ![r] = l]
      BY <1>9, Flow DEF Commit, CommitFails
    <2>3. l \notin InTx \cup {"new", "acquire"} /\ c \in Conns
      BY <1>2, <2>1 DEF InTx, Statements
    <2>4. OnlySession(c) /\ EndSession(c)
      BY <1>1, <2>1, <2>3, StatementsAreLocal DEF CommitTx, Rollback
    <2>5. UNCHANGED stock \/ Apply(work[c])
      BY <2>1 DEF CommitTx, Rollback, tables
    <2> QED  BY <1>1, <2>1, <2>2, <2>3, <2>4, <2>5, LocksEnd, ReadOut
  <1>10. CASE Receive(r)
    <2>1. PICK l \in {"acquire", "done"} : pc' = [pc EXCEPT ![r] = l]
      BY <1>10 DEF Receive
    <2>2. /\ pc[r] = "new"
          /\ UNCHANGED <<got, seen, conn, stock, txn, rowLocks, work>>
      BY <1>10 DEF Receive, db
    <2>3. OnlySession(c) /\ LocksExclude'
      BY <1>1, <2>2, LocksSame DEF OnlySession
    <2>4. pc'[r] = l /\ \A q \in Requests \ {r} : pc'[q] = pc[q]
      BY <2>1 DEF TypeOK
    <2>5. ReadAt(r)'
      BY <1>1, <2>2, <2>4 DEF ReadAt, InTx, Statements
    <2>6. \A q \in Requests : RefersTo(q) => conn[q] # c
      BY <2>2, Refers, NullAssumption DEF PoolInv
    <2> QED  BY <2>2, <2>3, <2>4, <2>5, <2>6, ReadFrame
  <1>11. CASE UnknownProduct(r) \/ Respond(r) \/ ReplayOrder(r) \/ PoolTimeout(r)
              \/ ReplayFails(r)
    <2>1. PICK l \in {"done", "abort", "replayItems"} : pc' = [pc EXCEPT ![r] = l]
      BY <1>11, SafeReplay, SafeRelease DEF UnknownProduct, ReplayOrder,
         PoolTimeout, ReplayFails
    <2>2. UNCHANGED <<got, seen, stock, txn, rowLocks, work>>
      BY <1>11 DEF UnknownProduct, Respond, ReplayOrder, PoolTimeout,
         ReplayFails, db
    <2>3. \A q \in Requests \ {r} : conn'[q] = conn[q]
      <3>1. CASE Respond(r)
        BY <3>1, SafeRelease DEF TypeOK
      <3>2. CASE ~Respond(r)
        BY <1>11, <3>2 DEF UnknownProduct, ReplayOrder, PoolTimeout, ReplayFails
      <3> QED  BY <3>1, <3>2
    <2>4. OnlySession(c) /\ LocksExclude' /\ l \notin InTx \cup {"new", "acquire"}
      BY <1>1, <2>2, LocksSame DEF OnlySession, InTx, Statements
    <2> QED  BY <2>1, <2>2, <2>3, <2>4, ReadOut
  <1>12. CASE InsertConflict(r)
    <2>1. /\ pc' = [pc EXCEPT ![r] = "replayOrder"]
          /\ \A q \in Requests \ {r} : conn'[q] = conn[q]
      BY <1>12, SafeRelease DEF TypeOK
    <2>2. /\ c \in Conns /\ UNCHANGED <<got, seen>>
          /\ "replayOrder" \notin InTx \cup {"new", "acquire"}
      BY <1>2, <1>12 DEF InsertConflict, InTx, Statements
    <2>3. Rollback(c) \/ UNCHANGED <<tables, session>>
      BY <1>12 DEF InsertConflict
    <2>4. UNCHANGED stock /\ OnlySession(c)
      BY <1>1, <2>2, <2>3, StatementsAreLocal
      DEF Rollback, tables, session, OnlySession
    <2>5. LocksExclude'
      BY <1>1, <2>2, <2>3, LocksEnd, LocksSame DEF Rollback, session
    <2> QED  BY <2>1, <2>2, <2>4, <2>5, ReadOut
  <1>13. CASE Abort(r) \/ ReplayItems(r)
    <2>1. /\ pc' = [pc EXCEPT ![r] = "done"]
          /\ \A q \in Requests \ {r} : conn'[q] = conn[q]
          /\ UNCHANGED <<got, seen>>
          /\ "done" \notin InTx \cup {"new", "acquire"}
      BY <1>13, SafeRelease DEF Abort, ReplayItems, TypeOK, InTx, Statements
    <2>2. UNCHANGED stock
      <3>1. pc[r] # "commit"
        BY <1>13 DEF Abort, ReplayItems
      <3> QED  BY <3>1, TablesStep DEF tables
    <2>3. \/ UNCHANGED <<tables, session>>
          \/ c \in Conns /\ (CommitTx(c) \/ Rollback(c))
      <3>1. CASE Abort(r)
        BY <1>2, <3>1 DEF Abort
      <3>2. CASE ReplayItems(r)
        BY <3>2, Refers DEF ReplayItems, Replaying
      <3> QED  BY <1>13, <3>1, <3>2
    <2>4. OnlySession(c)
      BY <1>1, <2>3, StatementsAreLocal DEF session, OnlySession
    <2>5. LocksExclude'
      BY <1>1, <2>3, LocksEnd, LocksSame DEF CommitTx, Rollback, session
    <2> QED  BY <2>1, <2>2, <2>4, <2>5, ReadOut
  <1>14. ~StrayRollback(r)
    BY DEF StrayRollback, PoolInv, Stray
  <1> QED
    BY <1>3, <1>4, <1>5, <1>6, <1>7, <1>8, <1>9, <1>10, <1>11, <1>12, <1>13,
       <1>14 DEF Step, Faulty

LEMMA LockNext ==
    ASSUME TypeOK, HandlerInv, NoNode, PoolInv, TxInv, LockInv, [Next]_vars
    PROVE  LockInv'
  <1>1. CASE Restart
    <2>1. /\ \A r \in Requests : pc'[r] \in {pc[r], "lost"} /\ ~InFlight(r)'
          /\ UNCHANGED got
          /\ \A c \in Conns : rowLocks'[c] = {} /\ work'[c] = NoWork
      BY <1>1 DEF Restart, InFlight, DropSessions
    <2>2. \A r \in Requests : ReadAt(r)'
      BY <2>1 DEF ReadAt, LockInv, InFlight, InTx, Statements
    <2>3. LocksExclude'
      BY <2>1 DEF LocksExclude, NoWork, Zero
    <2> QED  BY <2>2, <2>3 DEF LockInv
  <1>2. CASE UNCHANGED vars
    BY <1>2 DEF vars, db, LockInv, LocksExclude, ReadAt
  <1> QED  BY <1>1, <1>2, LockStep DEF Next, Finished

(* Row locks exclude each other, cover what a transaction takes from the stock
   and keep what its handler has read current. *)
THEOREM LockDiscipline ==
    ASSUME NoNode PROVE Spec => []LockInv
  <1>1. Init => LockInv
    BY DEF Init, PgInit, LockInv, LocksExclude, ReadAt, NoWork, Zero, InTx,
       Statements
  <1>2. TypeOK /\ HandlerInv /\ PoolInv /\ TxInv /\ LockInv /\ [Next]_vars
           => LockInv'
    BY LockNext
  <1> QED  BY <1>1, <1>2, Typing, PoolDiscipline, TxDiscipline, PTL DEF Spec

(* In every application but Node, the stock a handler compares its order with
   is the committed stock, from the SELECT ... FOR UPDATE until its COMMIT. *)
THEOREM CheckedStockIsCurrent ==
    ASSUME NoNode PROVE Spec => []ReadStockIsCurrent
  <1>1. LockInv => ReadStockIsCurrent
    BY DEF LockInv, ReadAt, ReadStockIsCurrent, InTx
  <1> QED  BY <1>1, LockDiscipline, PTL

(* Where the tables change, the transaction that changes them ends. *)
LEMMA ChangeEnds ==
    ASSUME TypeOK, HandlerInv, NoNode, PoolInv, TxInv, NEW r \in Requests,
           Step(r) \/ Faulty(r)
    PROVE  \/ UNCHANGED tables
           \/ /\ pc[r] = "commit" /\ conn[r] \in Conns
              /\ Apply(work[conn[r]]) /\ EndSession(conn[r])
  <1>1. SUFFICES ASSUME pc[r] = "commit", Apply(work[conn[r]]) PROVE EndSession(conn[r])
    BY TablesStep, Refers DEF InTx
  <1>2. Commit(r) \/ CommitFails(r)
    BY <1>1 DEF Step, Faulty, Receive, BeginTx, LockProduct, UnknownProduct,
       CheckStock, InsertOrder, InsertConflict, InsertItem, InsertLedger,
       DecrementStock, WriteError, ConstraintError, Respond, Abort, ReplayOrder,
       ReplayItems, StrayRollback, StatementFails, PoolTimeout,
       ReplayFails, Statements
  <1> QED  BY <1>2 DEF Commit, CommitFails, CommitTx, Rollback

(* In every application but Node there is no lost update: products.stock changes
   only in the step that ends a transaction holding the row's lock, by what that
   transaction took. *)
THEOREM NoLostUpdate ==
    ASSUME NoNode PROVE Spec => StockChangesUnderLock
  <1> DEFINE Changed == \A p \in Products :
                stock'[p] # stock[p] =>
                   \E c \in Conns : /\ p \in rowLocks[c] /\ rowLocks'[c] = {}
                                    /\ stock'[p] = stock[p] - work[c].dec[p]
  <1>1. TypeOK /\ HandlerInv /\ PoolInv /\ TxInv /\ LockInv /\ [Next]_vars
           => [Changed]_vars
    <2> SUFFICES ASSUME TypeOK, HandlerInv, PoolInv, TxInv, LockInv, Next
                 PROVE  Changed
      OBVIOUS
    <2>1. CASE UNCHANGED stock
      BY <2>1
    <2>2. CASE \E r \in Requests : Step(r) \/ Faulty(r)
      <3>1. PICK r \in Requests : Step(r) \/ Faulty(r)
        BY <2>2
      <3>2. CASE UNCHANGED tables
        BY <3>2 DEF tables
      <3>3. CASE /\ conn[r] \in Conns
                 /\ Apply(work[conn[r]]) /\ EndSession(conn[r])
        <4>1. rowLocks'[conn[r]] = {} /\ work[conn[r]] \in Work
          BY <3>3 DEF EndSession, TypeOK, PgTypeOK
        <4>2. SUFFICES ASSUME NEW p \in Products, stock'[p] # stock[p]
                       PROVE  /\ p \in rowLocks[conn[r]]
                              /\ stock'[p] = stock[p] - work[conn[r]].dec[p]
          BY <3>3, <4>1
        <4>3. stock'[p] = stock[p] - work[conn[r]].dec[p] /\ stock[p] \in Int
          BY <3>3 DEF Apply, TypeOK, PgTypeOK
        <4>4. work[conn[r]].dec[p] # 0
          BY <4>2, <4>3
        <4> QED  BY <3>3, <4>3, <4>4 DEF LockInv, LocksExclude
      <3> QED  BY <3>1, <3>2, <3>3, ChangeEnds
    <2> QED
      BY <2>1, <2>2 DEF Next, Restart, DropSessions, Finished, tables, vars, db
  <1> QED
    BY <1>1, Typing, PoolDiscipline, TxDiscipline, LockDiscipline, PTL
    DEF Spec, StockChangesUnderLock

-----------------------------------------------------------------------------
(* Whose order is whose. *)

(* Where the uncommitted orders come from. *)
LEMMA InsFrom ==
    ASSUME TypeOK, HandlerInv, NoNode, PoolInv, TxInv, NEW r \in Requests,
           Step(r) \/ Faulty(r), NEW d \in Conns, NEW o \in work'[d].ins
    PROVE  \/ o \in work[d].ins
           \/ d = conn[r] /\ o.by = r /\ InsertOrder(r)
  <1>1. PgTypeOK
    BY DEF TypeOK
  <1>2. CASE InsertOrder(r)
    <2>1. /\ pc[r] \in InTx
          /\ Execute(conn[r], NewOrder([id |-> nextId, key |-> Key(r), by |-> r]), {})
      BY <1>2 DEF InsertOrder, InTx, Statements
    <2>2. conn[r] \in Conns /\ txn[conn[r]] = "open"
      BY <2>1, Refers DEF TxInv, TxAt
    <2>3. /\ work'[conn[r]].ins =
                work[conn[r]].ins \cup {[id |-> nextId, key |-> Key(r), by |-> r]}
          /\ d # conn[r] => work'[d] = work[d]
      BY <1>1, <2>1, <2>2 DEF Execute, Merge, NewOrder, PgTypeOK
    <2> QED  BY <1>2, <2>3
  <1>3. CASE LockProduct(r) \/ InsertItem(r) \/ InsertLedger(r) \/ DecrementStock(r)
    <2>1. pc[r] \in InTx /\ \E w, L : w.ins = {} /\ Execute(conn[r], w, L)
      BY <1>3 DEF LockProduct, InsertItem, InsertLedger, DecrementStock, NoWork,
         NewLine, NewDelta, TakeStock, InTx, Statements
    <2>2. conn[r] \in Conns /\ txn[conn[r]] = "open"
      BY <2>1, Refers DEF TxInv, TxAt
    <2>3. PICK w, L : w.ins = {} /\ Execute(conn[r], w, L)
      BY <2>1
    <2>4. work' = [work EXCEPT ![conn[r]] = Merge(work[conn[r]], w)]
      BY <2>2, <2>3 DEF Execute
    <2>5. Merge(work[conn[r]], w).ins = work[conn[r]].ins
      BY <2>3 DEF Merge
    <2> QED  BY <1>1, <2>2, <2>4, <2>5 DEF PgTypeOK
  <1>4. CASE Receive(r) \/ BeginTx(r) \/ UnknownProduct(r) \/ CheckStock(r)
             \/ WriteError(r) \/ StatementFails(r) \/ Respond(r)
             \/ ReplayOrder(r) \/ PoolTimeout(r) \/ ReplayFails(r)
    BY <1>4 DEF Receive, BeginTx, UnknownProduct, CheckStock, WriteError,
       StatementFails, StatementError, Respond, ReplayOrder, PoolTimeout,
       ReplayFails, db
  <1>5. CASE Commit(r) \/ CommitFails(r) \/ InsertConflict(r) \/ Abort(r)
             \/ ReplayItems(r)
    <2>1. EndSession(conn[r]) \/ UNCHANGED work
      BY <1>5 DEF Commit, CommitFails, InsertConflict, Abort, ReplayItems,
         CommitTx, Rollback, session
    <2> QED  BY <1>1, <2>1 DEF EndSession, PgTypeOK, NoWork
  <1>6. ~StrayRollback(r)
    BY DEF StrayRollback, PoolInv, Stray
  <1> QED
    BY <1>2, <1>3, <1>4, <1>5, <1>6 DEF Step, Faulty

(* A step of r leaves the other requests where they are. *)
LEMMA OthersWait ==
    ASSUME TypeOK, NoNode, PoolInv, NEW r \in Requests, Step(r) \/ Faulty(r)
    PROVE  \A q \in Requests \ {r} : pc'[q] = pc[q] /\ code'[q] = code[q]
  <1> USE DEF Goto, Refuse, Throw
  <1>1. CASE Step(r)
    <2>1. CASE Receive(r) \/ BeginTx(r) \/ LockProduct(r) \/ UnknownProduct(r)
               \/ CheckStock(r) \/ InsertOrder(r) \/ InsertItem(r)
               \/ InsertLedger(r) \/ DecrementStock(r) \/ WriteError(r)
               \/ Commit(r)
      BY <2>1 DEF Receive, BeginTx, LockProduct, UnknownProduct, CheckStock,
         InsertOrder, InsertItem, InsertLedger, DecrementStock, WriteError,
         Commit, TypeOK
    <2>2. CASE Respond(r) \/ Abort(r) \/ InsertConflict(r) \/ ReplayOrder(r)
               \/ ReplayItems(r) \/ StrayRollback(r)
      BY <2>2, SafeRelease DEF ReplayOrder, ReplayItems, StrayRollback,
         TypeOK
    <2> QED  BY <1>1, <2>1, <2>2 DEF Step
  <1>2. CASE Faulty(r)
    BY <1>2 DEF Faulty, StatementFails, CommitFails, PoolTimeout, ReplayFails, TypeOK
  <1> QED  BY <1>1, <1>2

(* A connection changes hands only through the pool. *)
LEMMA OwnerStep ==
    ASSUME TypeOK, NEW r \in Requests, Step(r) \/ Faulty(r), NEW d \in Conns
    PROVE  owner[d] # NoOwner => owner'[d] \in {owner[d], NoOwner}
  <1>1. CASE BeginTx(r)
    <2>1. PICK c \in Conns : owner[c] = NoOwner /\ owner' = [owner EXCEPT ![c] = r]
      BY <1>1 DEF BeginTx, FreeConns
    <2> QED  BY <2>1 DEF TypeOK
  <1>2. CASE \E c : PoolRelease(c)
    BY <1>2 DEF PoolRelease, TypeOK
  <1>3. CASE UNCHANGED owner
    BY <1>3
  <1>4. CASE Step(r) /\ ~BeginTx(r)
    <2>1. UNCHANGED owner \/ \E c : PoolRelease(c)
      BY <1>4 DEF Step, Receive, LockProduct, UnknownProduct, CheckStock,
         InsertOrder, InsertConflict, InsertItem, InsertLedger, DecrementStock,
         WriteError, Commit, Respond, Abort, ReplayOrder, ReplayItems,
         StrayRollback, Throw
    <2> QED  BY <1>2, <1>3, <2>1
  <1>5. CASE Faulty(r)
    BY <1>3, <1>5 DEF Faulty, StatementFails, CommitFails, PoolTimeout, ReplayFails
  <1> QED  BY <1>1, <1>4, <1>5

(* How a request ends once its transaction is over. *)
LEMMA Endings ==
    ASSUME TypeOK, NoNode, PoolInv, NEW r \in Requests, Step(r) \/ Faulty(r)
    PROVE  /\ pc[r] = "respond" => pc'[r] = "done" /\ code'[r] = 201
           /\ pc[r] = "abort" => pc'[r] = "done" /\ code'[r] = code[r]
           /\ pc[r] = "commit" => \/ pc'[r] = "respond"
                                  \/ pc'[r] = "abort" /\ code'[r] = 500
           /\ pc[r] \notin {"done", "lost"}
  <1> USE DEF Goto, Refuse
  <1>1. CASE Respond(r) \/ Abort(r)
    <2>1. \/ /\ pc[r] = "respond"
             /\ pc' = [pc EXCEPT ![r] = "done"] /\ code' = [code EXCEPT ![r] = 201]
          \/ /\ pc[r] = "abort"
             /\ pc' = [pc EXCEPT ![r] = "done"] /\ code' = code
      BY <1>1, SafeRelease DEF Respond, Abort
    <2> QED  BY <2>1 DEF TypeOK
  <1>2. CASE Commit(r) \/ CommitFails(r)
    <2>1. /\ pc[r] = "commit"
          /\ \/ pc' = [pc EXCEPT ![r] = "respond"]
             \/ pc' = [pc EXCEPT ![r] = "abort"] /\ code' = [code EXCEPT ![r] = 500]
      BY <1>2, Flow DEF Commit, CommitFails
    <2> QED  BY <2>1 DEF TypeOK
  <1>3. CASE ~(Respond(r) \/ Abort(r) \/ Commit(r) \/ CommitFails(r))
    BY <1>3 DEF Step, Faulty, Receive, BeginTx, LockProduct, UnknownProduct,
       CheckStock, InsertOrder, InsertConflict, InsertItem, InsertLedger,
       DecrementStock, WriteError, ConstraintError, ReplayOrder, ReplayItems,
       StrayRollback, StatementFails, PoolTimeout, ReplayFails,
       Statements
  <1> QED  BY <1>1, <1>2, <1>3

LEMMA OwnStep ==
    ASSUME TypeOK, HandlerInv, NoNode, PoolInv, TxInv, OwnInv, PoolInv',
           NEW r \in Requests, Step(r) \/ Faulty(r)
    PROVE  OwnInv'
  <1>1. ASSUME NEW d \in Conns, NEW o \in work'[d].ins PROVE o.by = owner'[d]
    <2>1. owner'[d] # NoOwner
      BY <1>1, NullAssumption DEF PoolInv, Clean, NoWork
    <2>2. CASE o \in work[d].ins
      <3>1. owner[d] # NoOwner /\ o.by = owner[d]
        BY <2>2, NullAssumption DEF PoolInv, Clean, NoWork, OwnInv
      <3> QED  BY <2>1, <3>1, OwnerStep
    <2>3. CASE d = conn[r] /\ o.by = r /\ InsertOrder(r)
      <3>1. owner[conn[r]] = r /\ owner' = owner
        BY <2>3, Refers DEF InsertOrder, InTx, Statements
      <3> QED  BY <2>3, <3>1
    <2> QED  BY <1>1, <2>2, <2>3, InsFrom
  <1>2. ASSUME NEW o \in orders'
        PROVE  \/ pc'[o.by] \in {"respond", "lost"}
               \/ pc'[o.by] \in {"abort", "done"} /\ code'[o.by] \in {201, 500}
    <2>1. CASE o \in orders
      <3>1. o.by \in Requests
        BY <2>1 DEF TypeOK, PgTypeOK, Order
      <3>2. \/ pc[o.by] \in {"respond", "lost"}
            \/ pc[o.by] \in {"abort", "done"} /\ code[o.by] \in {201, 500}
        BY <2>1 DEF OwnInv
      <3>3. CASE o.by = r
        BY <3>2, <3>3, Endings
      <3>4. CASE o.by # r
        BY <3>1, <3>2, <3>4, OthersWait
      <3> QED  BY <3>3, <3>4
    <2>2. CASE o \notin orders
      <3>1. pc[r] = "commit" /\ o \in work[conn[r]].ins
        BY <1>2, <2>2, TablesStep DEF tables, Apply
      <3>2. o.by = r
        BY <3>1, Refers DEF OwnInv, InTx
      <3> QED  BY <3>1, <3>2, Endings
    <2> QED  BY <2>1, <2>2
  <1> QED  BY <1>1, <1>2 DEF OwnInv

LEMMA OwnNext ==
    ASSUME TypeOK, HandlerInv, NoNode, PoolInv, TxInv, OwnInv, [Next]_vars
    PROVE  OwnInv'
  <1>1. CASE Restart
    <2>1. /\ UNCHANGED <<orders, code>> /\ \A c \in Conns : work'[c].ins = {}
          /\ \A r \in Requests : pc'[r] = IF InFlight(r) THEN "lost" ELSE pc[r]
      BY <1>1 DEF Restart, DropSessions, tables, NoWork
    <2>2. \A o \in orders : o.by \in Requests
      BY DEF TypeOK, PgTypeOK, Order
    <2> QED  BY <2>1, <2>2 DEF OwnInv, InFlight
  <1>2. CASE UNCHANGED vars
    BY <1>2 DEF vars, db, OwnInv
  <1> QED  BY <1>1, <1>2, OwnStep, PoolNext DEF Next, Finished

(* An order is in the transaction its request owns, then in the table, and by
   then the request is past every refusal. *)
THEOREM OrdersHaveOwners ==
    ASSUME NoNode PROVE Spec => []OwnInv
  <1>1. Init => OwnInv
    BY DEF Init, PgInit, OwnInv, NoWork
  <1>2. TypeOK /\ HandlerInv /\ PoolInv /\ TxInv /\ OwnInv /\ [Next]_vars
           => OwnInv'
    BY OwnNext
  <1> QED  BY <1>1, <1>2, Typing, PoolDiscipline, TxDiscipline, PTL DEF Spec

(* In every application but Node, a request that was answered 400 or 409 has
   left no order, neither before nor after its answer: not even in Bun and
   Phoenix, which COMMIT the transaction of a refusal. *)
THEOREM RefusalsLeaveNothing ==
    ASSUME NoNode PROVE Spec => []RefusalWroteNothing
  <1>1. OwnInv => RefusalWroteNothing
    BY DEF OwnInv, RefusalWroteNothing, Answered
  <1> QED  BY <1>1, OrdersHaveOwners, PTL
=============================================================================
