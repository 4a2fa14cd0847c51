------------------------- MODULE OrderPromiseProofs -------------------------
(***************************************************************************)
(* What a transaction has written when it commits, item by item, and from  *)
(* it that every application but Node implements IdempotentOrders.         *)
(***************************************************************************)
EXTENDS OrderWriteProofs, OrderItemsProofs, FiniteSetTheorems

(* The quantities of a request's items are numbers. *)
LEMMA BodyAmounts ==
    ASSUME TypeOK, NEW r \in Requests
    PROVE  Amounts(Items(r))
  BY Bodies DEF Amounts, Item

-----------------------------------------------------------------------------
(* A step of r leaves the other handlers and their sessions alone. *)
LEMMA Locality ==
    ASSUME TypeOK, HandlerInv, NoNode, PoolInv, TxInv, NEW r \in Requests,
           Step(r) \/ Faulty(r)
    PROVE  /\ UNCHANGED <<app, body>>
           /\ \A q \in Requests \ {r} :
                 /\ conn'[q] = conn[q] /\ idx'[q] = idx[q] /\ oid'[q] = oid[q]
                 /\ got'[q] = got[q] /\ seen'[q] = seen[q]
  <1> USE DEF Goto, Refuse, Throw
  <1>1. CASE Receive(r) \/ UnknownProduct(r) \/ CheckStock(r)
             \/ InsertOrder(r) \/ InsertItem(r) \/ InsertLedger(r)
             \/ DecrementStock(r) \/ WriteError(r) \/ Commit(r) \/ ReplayOrder(r)
             \/ Faulty(r)
    BY <1>1 DEF Receive, UnknownProduct, CheckStock, InsertOrder,
       InsertItem, InsertLedger, DecrementStock, WriteError, Commit, ReplayOrder,
       Faulty, StatementFails, CommitFails, PoolTimeout, ReplayFails, TypeOK
  <1>2. CASE BeginTx(r) \/ LockProduct(r)
    BY <1>2 DEF BeginTx, LockProduct, TypeOK
  <1>3. CASE Respond(r) \/ Abort(r) \/ InsertConflict(r)
    <2>1. UNCHANGED <<app, body, got, seen, idx, oid>>
      BY <1>3 DEF Respond, Abort, InsertConflict
    <2> QED  BY <1>3, <2>1, SafeRelease DEF TypeOK
  <1>4. CASE ReplayItems(r) \/ StrayRollback(r)
    BY <1>4 DEF ReplayItems, StrayRollback, TypeOK
  <1> QED  BY <1>1, <1>2, <1>3, <1>4 DEF Step

LEMMA WorkIsLocal ==
    ASSUME TypeOK, NoNode, PoolInv, NEW r \in Requests, Step(r) \/ Faulty(r)
    PROVE  \A d \in Conns : d # conn[r] => work'[d] = work[d]
  <1>1. CASE \E w, L : Execute(conn[r], w, L)
    BY <1>1 DEF Execute, TypeOK, PgTypeOK
  <1>2. CASE EndSession(conn[r])
    BY <1>2 DEF EndSession, TypeOK, PgTypeOK
  <1>3. CASE UNCHANGED work
    BY <1>3
  <1>4. CASE LockProduct(r) \/ InsertOrder(r) \/ InsertItem(r) \/ InsertLedger(r)
             \/ DecrementStock(r)
    BY <1>1, <1>4 DEF LockProduct, InsertOrder, InsertItem, InsertLedger,
       DecrementStock
  <1>5. CASE Receive(r) \/ BeginTx(r) \/ UnknownProduct(r) \/ CheckStock(r)
             \/ WriteError(r) \/ StatementFails(r) \/ Respond(r)
             \/ ReplayOrder(r) \/ PoolTimeout(r) \/ ReplayFails(r)
    BY <1>3, <1>5 DEF Receive, BeginTx, UnknownProduct, CheckStock, WriteError,
       StatementFails, StatementError, Respond, ReplayOrder, PoolTimeout,
       ReplayFails, db
  <1>6. CASE Commit(r) \/ CommitFails(r) \/ InsertConflict(r) \/ Abort(r)
             \/ ReplayItems(r) \/ StrayRollback(r)
    BY <1>2, <1>3, <1>6 DEF Commit, CommitFails, InsertConflict, Abort,
       ReplayItems, StrayRollback, CommitTx, Rollback, session
  <1> QED  BY <1>4, <1>5, <1>6 DEF Step, Faulty

(* The stock that a transaction which is about to commit takes is there. *)
LEMMA StockStep ==
    ASSUME TypeOK, HandlerInv, NoNode, PoolInv, TxInv, ContentInv,
           NEW r \in Requests, Step(r) \/ Faulty(r), NEW p \in Products
    PROVE  /\ stock'[p] >= 0 /\ stock'[p] \in Int /\ stock[p] \in Int
           /\ stock'[p] <= stock[p]
           /\ \/ stock'[p] = stock[p]
              \/ /\ pc[r] = "commit" /\ conn[r] \in Conns
                 /\ work[conn[r]].dec[p] # 0
  <1>1. stock[p] \in Int /\ stock[p] >= 0
    BY DEF TypeOK, PgTypeOK, ContentInv
  <1>2. CASE UNCHANGED tables
    BY <1>1, <1>2 DEF tables
  <1>3. CASE pc[r] = "commit" /\ Apply(work[conn[r]])
    <2> DEFINE d == work[conn[r]].dec[p]
    <2>1. conn[r] \in Conns /\ idx[r] \in 0 .. Len(Items(r))
      BY <1>3, Refers DEF InTx, HandlerInv, InFlight
    <2>2. d = UnitsUpTo(Items(r), p)[idx[r]] /\ d <= stock[p]
      BY <1>3 DEF ContentInv, ContentAt, Writing, Charged
    <2>3. d \in Nat
      BY <2>1, <2>2, Bodies, BodyAmounts, UnitsFacts
    <2>4. stock'[p] = stock[p] - d
      BY <1>3 DEF Apply
    <2> HIDE DEF d
    <2> QED  BY <1>1, <1>3, <2>1, <2>2, <2>3, <2>4 DEF d
  <1> QED  BY <1>2, <1>3, TablesStep

(* What the other handlers have written stays so, and within the stock. *)
LEMMA ContentFrame ==
    ASSUME TypeOK, HandlerInv, NoNode, PoolInv, TxInv, LockInv, ContentInv,
           NEW r \in Requests, Step(r) \/ Faulty(r), ContentAt(r)'
    PROVE  ContentInv'
  <1>1. \A p \in Products : stock'[p] >= 0
    BY StockStep
  <1> SUFFICES ASSUME NEW q \in Requests \ {r} PROVE ContentAt(q)'
    BY <1>1 DEF ContentInv
  <1>2. /\ pc'[q] = pc[q] /\ conn'[q] = conn[q] /\ idx'[q] = idx[q]
        /\ oid'[q] = oid[q] /\ UNCHANGED body
    BY OthersWait, Locality
  <1>3. ContentAt(q)
    BY DEF ContentInv
  <1>4. CASE pc[q] \notin Writing
    BY <1>2, <1>3, <1>4 DEF ContentAt, Items, Writing
  <1>5. CASE pc[q] \in Writing
    <2> DEFINE w == work[conn[q]]
    <2>1. conn[q] \in Conns /\ RefersTo(q) /\ conn[q] # conn[r] /\ owner[conn[q]] = q
      <3>1. RefersTo(q) /\ conn[q] \in Conns
        BY <1>5, Refers DEF Writing, InTx, Statements
      <3>2. conn[q] # conn[r]
        BY <3>1, NullAssumption DEF PoolInv
      <3> QED  BY <3>1, <3>2, Refers
    <2>2. work'[conn[q]] = w
      BY <2>1, WorkIsLocal
    <2>3. ASSUME NEW p \in Products PROVE w.dec[p] <= stock'[p]
      <3>1. w.dec[p] <= stock[p]
        BY <1>3, <1>5 DEF ContentAt
      <3>2. CASE stock'[p] = stock[p]
        BY <3>1, <3>2
      <3>3. CASE pc[r] = "commit" /\ conn[r] \in Conns /\ work[conn[r]].dec[p] # 0
        <4>1. w.dec[p] = 0
          BY <2>1, <3>3 DEF LockInv, LocksExclude
        <4> QED  BY <1>1, <4>1
      <3> QED  BY <3>2, <3>3, StockStep
    <2> HIDE DEF w
    <2>4. /\ w.ins = {Pending(q)}
          /\ w.lns = {LineOf(Pending(q), i) : i \in 1 .. Inserted(q)}
          /\ \A p \in Products : w.dec[p] = UnitsUpTo(Items(q), p)[Charged(q)]
          /\ pc[q] = "commit" => idx[q] = Len(Items(q))
      BY <1>3, <1>5 DEF ContentAt, w
    <2>5. /\ Pending(q)' = Pending(q) /\ Inserted(q)' = Inserted(q)
          /\ Charged(q)' = Charged(q) /\ Items(q)' = Items(q)
      BY <1>2 DEF Pending, Inserted, Charged, Items, Key
    <2>6. \A i : LineOf(Pending(q), i)' = LineOf(Pending(q), i)
      BY <1>2 DEF LineOf, Pending, Items, Key
    <2>7. pc[q] \notin {"acquire", "lock", "check", "insert"}
      BY <1>5 DEF Writing
    <2>8. w = work[conn[q]]
      BY DEF w
    <2> QED
      BY <1>2, <1>5, <2>2, <2>3, <2>4, <2>5, <2>6, <2>7, <2>8 DEF ContentAt
  <1> QED  BY <1>4, <1>5

(* The statements of the loop over the items, on the transaction's writes. *)
LEMMA Writes ==
    ASSUME TypeOK, HandlerInv, NoNode, PoolInv, TxInv, NEW r \in Requests,
           pc[r] \in InTx, NEW w, NEW L, Execute(conn[r], w, L)
    PROVE  /\ conn[r] \in Conns /\ UNCHANGED stock
           /\ work'[conn[r]].ins = work[conn[r]].ins \cup w.ins
           /\ work'[conn[r]].lns = work[conn[r]].lns \cup w.lns
           /\ \A p \in Products :
                 work'[conn[r]].dec[p] = work[conn[r]].dec[p] + w.dec[p]
  <1>1. conn[r] \in Conns /\ txn[conn[r]] = "open"
    BY Refers DEF TxInv, TxAt
  <1>2. work' = [work EXCEPT ![conn[r]] = Merge(work[conn[r]], w)] /\ UNCHANGED stock
    BY <1>1 DEF Execute, tables
  <1>3. work'[conn[r]] = Merge(work[conn[r]], w)
    BY <1>1, <1>2 DEF TypeOK, PgTypeOK
  <1> QED  BY <1>1, <1>2, <1>3 DEF Merge

LEMMA ContentInsertOrder ==
    ASSUME TypeOK, HandlerInv, NoNode, PoolInv, TxInv, ContentInv,
           NEW r \in Requests, InsertOrder(r)
    PROVE  ContentAt(r)'
  <1> DEFINE o == [id |-> nextId, key |-> Key(r), by |-> r]
             c == conn[r]
  <1>1. /\ pc[r] = "insert" /\ pc[r] \in InTx /\ Execute(c, NewOrder(o), {})
        /\ oid' = [oid EXCEPT ![r] = nextId] /\ UNCHANGED <<body, conn, idx>>
        /\ pc' = [pc EXCEPT ![r] = "item"]
    BY Flow DEF InsertOrder, Goto, InTx, Statements
  <1>2. pc'[r] = "item" /\ oid'[r] = nextId /\ conn'[r] = c /\ idx'[r] = 1
    <2>1. idx[r] = 1
      BY <1>1 DEF ContentInv, ContentAt
    <2> QED  BY <1>1, <2>1 DEF TypeOK
  <1>3. work[c] = NoWork
    BY <1>1 DEF TxInv, TxAt
  <1>4. /\ work'[c].ins = {o} /\ work'[c].lns = {}
        /\ \A p \in Products : work'[c].dec[p] = 0
        /\ UNCHANGED stock
    <2>1. /\ work'[c].ins = work[c].ins \cup NewOrder(o).ins
          /\ work'[c].lns = work[c].lns \cup NewOrder(o).lns
          /\ \A p \in Products : work'[c].dec[p] = work[c].dec[p] + NewOrder(o).dec[p]
          /\ UNCHANGED stock
      BY <1>1, Writes, Zenon
    <2> QED  BY <1>3, <2>1 DEF NoWork, NewOrder, Zero
  <1>5. Pending(r)' = o /\ Inserted(r)' = 0 /\ Charged(r)' = 0 /\ Items(r)' = Items(r)
    BY <1>1, <1>2 DEF Pending, Inserted, Charged, Items, Key
  <1>6. \A p \in Products : UnitsUpTo(Items(r), p)[0] = 0 /\ stock[p] >= 0
    BY Bodies, BodyAmounts, UnitsFacts DEF ContentInv
  <1>7. {LineOf(Pending(r), i)' : i \in 1 .. 0} = {}
    OBVIOUS
  <1> HIDE DEF o
  <1> QED  BY <1>1, <1>2, <1>4, <1>5, <1>6, <1>7 DEF ContentAt

LEMMA ContentInsertItem ==
    ASSUME TypeOK, HandlerInv, NoNode, PoolInv, TxInv, ContentInv,
           NEW r \in Requests, InsertItem(r)
    PROVE  ContentAt(r)'
  <1> DEFINE l == LineOf(Pending(r), idx[r])
             c == conn[r]
  <1>1. /\ pc[r] = "item" /\ pc[r] \in InTx /\ pc[r] \in Writing
        /\ Execute(c, NewLine(l), {}) /\ UNCHANGED <<body, conn, idx, oid>>
        /\ pc' = [pc EXCEPT ![r] = "ledger"]
    BY Flow DEF InsertItem, Goto, InTx, Statements, Writing, LineOf, Pending, Current
  <1>2. pc'[r] = "ledger" /\ oid'[r] = oid[r] /\ conn'[r] = c /\ idx'[r] = idx[r]
    BY <1>1 DEF TypeOK
  <1>3. ContentAt(r) /\ idx[r] \in Nat /\ idx[r] >= 1
    BY <1>1, CurrentItem DEF ContentInv
  <1>4. work[c] \in Work
    BY <1>1, Writes DEF TypeOK, PgTypeOK
  <1>5. /\ work'[c].ins = work[c].ins /\ work'[c].lns = work[c].lns \cup {l}
        /\ \A p \in Products : work'[c].dec[p] = work[c].dec[p]
        /\ UNCHANGED stock
    <2>1. /\ work'[c].ins = work[c].ins \cup NewLine(l).ins
          /\ work'[c].lns = work[c].lns \cup NewLine(l).lns
          /\ \A p \in Products : work'[c].dec[p] = work[c].dec[p] + NewLine(l).dec[p]
          /\ UNCHANGED stock
      BY <1>1, Writes, Zenon
    <2>2. \A p \in Products : work[c].dec[p] \in Int
      BY <1>4 DEF Work
    <2> QED  BY <2>1, <2>2 DEF NewLine, Zero
  <1>6. /\ Pending(r)' = Pending(r) /\ Inserted(r)' = idx[r]
        /\ Inserted(r) = idx[r] - 1 /\ Charged(r)' = Charged(r)
        /\ Items(r)' = Items(r)
    BY <1>1, <1>2 DEF Pending, Inserted, Charged, Items, Key
  <1>7. \A i : LineOf(Pending(r), i)' = LineOf(Pending(r), i)
    BY <1>1, <1>6 DEF LineOf, Pending, Items, Key
  <1>8. /\ work[c].ins = {Pending(r)}
        /\ work[c].lns = {LineOf(Pending(r), i) : i \in 1 .. (idx[r] - 1)}
        /\ \A p \in Products : /\ work[c].dec[p] = UnitsUpTo(Items(r), p)[Charged(r)]
                               /\ work[c].dec[p] <= stock[p]
    BY <1>1, <1>3, <1>6 DEF ContentAt
  <1>9. 1 .. idx[r] = (1 .. (idx[r] - 1)) \cup {idx[r]}
    BY <1>3
  <1>10. work'[c].lns = {LineOf(Pending(r), i) : i \in 1 .. idx[r]}
    BY <1>5, <1>8, <1>9
  <1>11. pc'[r] \notin {"acquire", "lock", "check", "insert", "commit"}
    BY <1>2
  <1> HIDE DEF l
  <1> QED  BY <1>2, <1>5, <1>6, <1>7, <1>8, <1>10, <1>11 DEF ContentAt

LEMMA ContentInsertLedger ==
    ASSUME TypeOK, HandlerInv, NoNode, PoolInv, TxInv, ContentInv,
           NEW r \in Requests, InsertLedger(r)
    PROVE  ContentAt(r)'
  <1> DEFINE c == conn[r]
  <1>1. /\ pc[r] = "ledger" /\ pc[r] \in InTx /\ pc[r] \in Writing
        /\ \E p, d : Execute(c, NewDelta(p, d), {})
        /\ UNCHANGED <<body, conn, idx, oid>>
        /\ pc' = [pc EXCEPT ![r] = "stock"]
    BY Flow DEF InsertLedger, Goto, InTx, Statements, Writing
  <1>2. pc'[r] = "stock" /\ oid'[r] = oid[r] /\ conn'[r] = c /\ idx'[r] = idx[r]
    BY <1>1 DEF TypeOK
  <1>3. ContentAt(r)
    BY DEF ContentInv
  <1>4. work[c] \in Work
    BY <1>1, Writes DEF TypeOK, PgTypeOK
  <1>5. /\ work'[c].ins = work[c].ins /\ work'[c].lns = work[c].lns
        /\ \A p \in Products : work'[c].dec[p] = work[c].dec[p]
        /\ UNCHANGED stock
    <2>1. PICK x, d : Execute(c, NewDelta(x, d), {})
      BY <1>1
    <2>2. /\ work'[c].ins = work[c].ins \cup NewDelta(x, d).ins
          /\ work'[c].lns = work[c].lns \cup NewDelta(x, d).lns
          /\ \A p \in Products : work'[c].dec[p] = work[c].dec[p] + NewDelta(x, d).dec[p]
          /\ UNCHANGED stock
      BY <1>1, <2>1, Writes, Zenon
    <2>3. \A p \in Products : work[c].dec[p] \in Int
      BY <1>4 DEF Work
    <2> QED  BY <2>2, <2>3 DEF NewDelta, Zero
  <1>6. /\ Pending(r)' = Pending(r) /\ Inserted(r)' = Inserted(r)
        /\ Charged(r)' = Charged(r) /\ Items(r)' = Items(r)
    BY <1>1, <1>2 DEF Pending, Inserted, Charged, Items, Key
  <1>7. \A i : LineOf(Pending(r), i)' = LineOf(Pending(r), i)
    BY <1>1, <1>6 DEF LineOf, Pending, Items, Key
  <1> QED  BY <1>1, <1>2, <1>3, <1>5, <1>6, <1>7 DEF ContentAt, Writing

LEMMA ContentDecrement ==
    ASSUME TypeOK, HandlerInv, NoNode, PoolInv, TxInv, ContentInv,
           NEW r \in Requests, DecrementStock(r)
    PROVE  ContentAt(r)'
  <1> DEFINE c == conn[r]
             x == Current(r).product
             n == Current(r).quantity
  <1>1. /\ pc[r] = "stock" /\ pc[r] \in InTx /\ pc[r] \in Writing
        /\ VisibleStock(c, x) >= n /\ Execute(c, TakeStock(x, n), {x})
        /\ UNCHANGED <<body, conn, oid>>
    BY DEF DecrementStock, InTx, Statements, Writing
  <1>2. \/ /\ pc' = [pc EXCEPT ![r] = "item"]
           /\ idx' = [idx EXCEPT ![r] = idx[r] + 1]
        \/ /\ pc' = [pc EXCEPT ![r] = "commit"] /\ idx' = idx
           /\ ~(idx[r] < Len(Items(r)))
    BY Flow DEF DecrementStock, Goto
  <1>3. \/ pc'[r] = "item" /\ idx'[r] = idx[r] + 1
        \/ pc'[r] = "commit" /\ idx'[r] = idx[r] /\ ~(idx[r] < Len(Items(r)))
    BY <1>2 DEF TypeOK
  <1>4. /\ ContentAt(r) /\ x \in Products /\ n \in Nat
        /\ idx[r] \in 1 .. Len(Items(r)) /\ Len(Items(r)) \in Nat
    BY <1>1, CurrentItem, Bodies DEF ContentInv
  <1>5. work[c] \in Work
    BY <1>1, Writes DEF TypeOK, PgTypeOK
  <1>6. /\ work'[c].ins = work[c].ins /\ work'[c].lns = work[c].lns
        /\ \A p \in Products :
              work'[c].dec[p] = work[c].dec[p] + (IF p = x THEN n ELSE 0)
        /\ UNCHANGED stock
    <2>1. /\ work'[c].ins = work[c].ins \cup TakeStock(x, n).ins
          /\ work'[c].lns = work[c].lns \cup TakeStock(x, n).lns
          /\ \A p \in Products : work'[c].dec[p] = work[c].dec[p] + TakeStock(x, n).dec[p]
          /\ UNCHANGED stock
      BY <1>1, Writes, Zenon
    <2> HIDE DEF x, n
    <2> QED  BY <2>1 DEF TakeStock, Only
  <1>7. /\ Pending(r)' = Pending(r) /\ Inserted(r)' = idx[r] /\ Inserted(r) = idx[r]
        /\ Charged(r)' = idx[r] /\ Charged(r) = idx[r] - 1 /\ Items(r)' = Items(r)
    BY <1>1, <1>3, <1>4 DEF Pending, Inserted, Charged, Items, Key
  <1>8. \A i : LineOf(Pending(r), i)' = LineOf(Pending(r), i)
    BY <1>1, <1>7 DEF LineOf, Pending, Items, Key
  <1>9. ASSUME NEW p \in Products
        PROVE  /\ work'[c].dec[p] = UnitsUpTo(Items(r), p)[idx[r]]
               /\ work'[c].dec[p] <= stock'[p]
    <2>1. /\ UnitsUpTo(Items(r), p)[idx[r]] =
                UnitsUpTo(Items(r), p)[idx[r] - 1] + Part(Items(r), p, idx[r])
      BY <1>4, Bodies, BodyAmounts, UnitsFacts
    <2>2. Part(Items(r), p, idx[r]) = IF p = x THEN n ELSE 0
      BY DEF Part, Current
    <2>3. work[c].dec[p] = UnitsUpTo(Items(r), p)[idx[r] - 1] /\ work[c].dec[p] <= stock[p]
      BY <1>1, <1>4, <1>7 DEF ContentAt
    <2>4. work[c].dec[p] \in Int /\ stock[p] \in Int
      BY <1>5 DEF Work, TypeOK, PgTypeOK
    <2>5. stock[x] - work[c].dec[x] >= n
      BY <1>1 DEF VisibleStock
    <2> HIDE DEF x, n
    <2>6. work'[c].dec[p] <= stock'[p]
      BY <1>4, <1>6, <2>3, <2>4, <2>5
    <2>7. work'[c].dec[p] = UnitsUpTo(Items(r), p)[idx[r]]
      BY <1>6, <2>1, <2>2, <2>3
    <2> QED  BY <2>6, <2>7
  <1>10. pc'[r] = "commit" => idx'[r] = Len(Items(r))
    BY <1>3, <1>4
  <1>11. /\ work[c].ins = {Pending(r)}
         /\ work[c].lns = {LineOf(Pending(r), i) : i \in 1 .. idx[r]}
    BY <1>1, <1>4, <1>7 DEF ContentAt
  <1>12. conn'[r] = c /\ pc'[r] \notin {"acquire", "lock", "check", "insert"}
    BY <1>1, <1>3
  <1> QED  BY <1>6, <1>7, <1>8, <1>9, <1>10, <1>11, <1>12 DEF ContentAt

LEMMA ContentStep ==
    ASSUME TypeOK, HandlerInv, NoNode, PoolInv, TxInv, LockInv, ContentInv,
           NEW r \in Requests, Step(r) \/ Faulty(r)
    PROVE  ContentInv'
  <1> USE DEF Goto, Refuse
  <1> SUFFICES ContentAt(r)'
    BY ContentFrame
  <1>1. CASE InsertOrder(r) \/ InsertItem(r) \/ InsertLedger(r) \/ DecrementStock(r)
    BY <1>1, ContentInsertOrder, ContentInsertItem, ContentInsertLedger,
       ContentDecrement
  <1>2. CASE Receive(r) \/ BeginTx(r) \/ LockProduct(r) \/ CheckStock(r)
    <2>1. pc[r] \in {"new", "acquire", "lock", "check"} /\ UNCHANGED idx
      BY <1>2 DEF Receive, BeginTx, LockProduct, CheckStock
    <2>2. idx[r] = 1
      BY <2>1 DEF ContentInv, ContentAt, HandlerInv
    <2>3. \E l \in {"done", "acquire", "lock", "check", "insert", "abort"} :
             pc' = [pc EXCEPT ![r] = l]
      <3>1. CASE LockProduct(r)
        <4>1. \E l \in {"lock", H.lock} : pc' = [pc EXCEPT ![r] = l]
          BY <3>1, Zenon DEF LockProduct
        <4>2. H.lock = "check"
          BY Flow
        <4> QED  BY <4>1, <4>2, Zenon
      <3>2. CASE Receive(r) \/ BeginTx(r) \/ CheckStock(r)
        BY <3>2, Flow DEF Receive, BeginTx, CheckStock
      <3> QED  BY <1>2, <3>1, <3>2
    <2>4. pc'[r] \in {"done", "acquire", "lock", "check", "insert", "abort"}
      BY <2>3 DEF TypeOK
    <2> QED  BY <2>1, <2>2, <2>4 DEF ContentAt, Writing
  <1>3. CASE UnknownProduct(r) \/ InsertConflict(r) \/ WriteError(r) \/ Commit(r)
             \/ Respond(r) \/ Abort(r) \/ ReplayOrder(r) \/ ReplayItems(r)
             \/ Faulty(r)
    <2>1. \E l \in {"done", "abort", "respond", "replayOrder", "replayItems"} :
             pc' = [pc EXCEPT ![r] = l]
      BY <1>3, Flow, SafeRelease, SafeReplay DEF UnknownProduct, WriteError, Commit,
         ReplayOrder, ReplayItems, Faulty, StatementFails, CommitFails,
         PoolTimeout, ReplayFails
    <2>2. pc'[r] \in {"done", "abort", "respond", "replayOrder", "replayItems"}
      BY <2>1 DEF TypeOK
    <2> QED  BY <2>2 DEF ContentAt, Writing
  <1>4. ~StrayRollback(r)
    BY DEF StrayRollback, PoolInv, Stray
  <1> QED  BY <1>1, <1>2, <1>3, <1>4 DEF Step

LEMMA ContentNext ==
    ASSUME TypeOK, HandlerInv, NoNode, PoolInv, TxInv, LockInv, ContentInv,
           [Next]_vars
    PROVE  ContentInv'
  <1>1. CASE Restart
    <2>1. /\ \A r \in Requests : ~InFlight(r)'
          /\ UNCHANGED stock
      BY <1>1 DEF Restart, InFlight, DropSessions, tables
    <2> QED  BY <2>1 DEF ContentInv, ContentAt, InFlight, Writing
  <1>2. CASE UNCHANGED vars
    BY <1>2 DEF vars, db, ContentInv, ContentAt, Pending, LineOf, Inserted,
       Charged, Items, Key
  <1> QED  BY <1>1, <1>2, ContentStep DEF Next, Finished

(* At every step of the loop over the items the transaction holds the order,
   the lines so far and the stock they take, which is there to be taken: the
   CHECK (stock >= 0) never fails at COMMIT. *)
THEOREM TransactionContents ==
    ASSUME NoNode PROVE Spec => []ContentInv
  <1>1. Init => ContentInv
    BY InitStockAssumption DEF Init, PgInit, ContentInv, ContentAt, Writing
  <1>2. TypeOK /\ HandlerInv /\ PoolInv /\ TxInv /\ LockInv /\ ContentInv
           /\ [Next]_vars => ContentInv'
    BY ContentNext
  <1> QED
    BY <1>1, <1>2, Typing, PoolDiscipline, TxDiscipline, LockDiscipline, PTL
    DEF Spec

-----------------------------------------------------------------------------
(* The tables change at once, by one whole order. *)
LEMMA WholeOrder ==
    ASSUME TypeOK, HandlerInv, NoNode, PoolInv, TxInv, ContentInv,
           NEW r \in Requests, Step(r) \/ Faulty(r)
    PROVE  \/ UNCHANGED tables
           \/ /\ pc[r] = "commit" /\ conn[r] \in Conns
              /\ orders' = orders \cup {Pending(r)}
              /\ Pending(r) \in work[conn[r]].ins
              /\ lines' = lines \cup
                    {LineOf(Pending(r), i) : i \in 1 .. Len(Items(r))}
              /\ stock' = [p \in Products |-> stock[p] - Units(Items(r), p)]
              /\ \A p \in Products : Units(Items(r), p) <= stock[p]
              /\ ledger' = [p \in Products |-> ledger[p] - Units(Items(r), p)]
  <1> SUFFICES ASSUME pc[r] = "commit", Apply(work[conn[r]])
               PROVE  /\ conn[r] \in Conns
                      /\ orders' = orders \cup {Pending(r)}
                      /\ Pending(r) \in work[conn[r]].ins
                      /\ lines' = lines \cup
                            {LineOf(Pending(r), i) : i \in 1 .. Len(Items(r))}
                      /\ stock' = [p \in Products |-> stock[p] - Units(Items(r), p)]
                      /\ \A p \in Products : Units(Items(r), p) <= stock[p]
                      /\ ledger' = [p \in Products |-> ledger[p] - Units(Items(r), p)]
    BY TablesStep
  <1> DEFINE w == work[conn[r]]
  <1>1. conn[r] \in Conns
    BY Refers DEF InTx
  <1>2. /\ w.ins = {Pending(r)}
        /\ w.lns = {LineOf(Pending(r), i) : i \in 1 .. Len(Items(r))}
        /\ \A p \in Products : w.dec[p] = Units(Items(r), p) /\ w.dec[p] <= stock[p]
    BY DEF ContentInv, ContentAt, Writing, Inserted, Charged, Units
  <1>3. \A p \in Products : w.led[p] = -w.dec[p] - 0
    <2>1. \A p \in Products : Uncharged(r, p) = 0
      BY DEF Uncharged
    <2> QED  BY <2>1 DEF TxInv, TxAt
  <1>4. w \in Work
    BY <1>1 DEF TypeOK, PgTypeOK
  <1> HIDE DEF w
  <1>5. \A p \in Products : ledger[p] + w.led[p] = ledger[p] - Units(Items(r), p)
    <2> TAKE p \in Products
    <2>1. w.dec[p] \in Int /\ ledger[p] \in Int
      BY <1>4 DEF Work, TypeOK, PgTypeOK
    <2>2. w.led[p] = -w.dec[p] - 0 /\ w.dec[p] = Units(Items(r), p)
      BY <1>2, <1>3
    <2> QED  BY <2>1, <2>2
  <1>6. Apply(w)
    BY DEF w
  <1>7. /\ orders' = orders \cup {Pending(r)}
        /\ lines' = lines \cup {LineOf(Pending(r), i) : i \in 1 .. Len(Items(r))}
    BY <1>2, <1>6 DEF Apply
  <1>8. stock' = [p \in Products |-> stock[p] - Units(Items(r), p)]
    <2>1. \A p \in Products : stock[p] - w.dec[p] = stock[p] - Units(Items(r), p)
      BY <1>2
    <2> QED  BY <1>6, <2>1 DEF Apply
  <1>9. ledger' = [p \in Products |-> ledger[p] - Units(Items(r), p)]
    BY <1>5, <1>6 DEF Apply
  <1> QED  BY <1>1, <1>2, <1>7, <1>8, <1>9 DEF w

LEMMA LinesStep ==
    ASSUME TypeOK, HandlerInv, NoNode, PoolInv, TxInv, ContentInv, LinesInv,
           NEW r \in Requests, Step(r) \/ Faulty(r)
    PROVE  LinesInv'
  <1>1. UNCHANGED body
    BY Locality
  <1>2. \A o : Items(o.by)' = Items(o.by) /\ \A i : LineOf(o, i)' = LineOf(o, i)
    BY <1>1 DEF Items, LineOf
  <1> DEFINE All(o) == {LineOf(o, i) : i \in 1 .. Len(Items(o.by))}
  <1>3. \A o : {LineOf(o, i)' : i \in 1 .. Len(Items(o.by)')} = All(o)
    BY <1>2
  <1>4. lines = UNION {All(o) : o \in orders}
    BY DEF LinesInv
  <1>5. lines' = UNION {All(o) : o \in orders'}
    <2>1. CASE UNCHANGED tables
      BY <1>4, <2>1 DEF tables
    <2>2. CASE /\ orders' = orders \cup {Pending(r)}
               /\ lines' = lines \cup
                     {LineOf(Pending(r), i) : i \in 1 .. Len(Items(r))}
      <3>1. lines' = lines \cup All(Pending(r))
        BY <2>2 DEF Pending
      <3> HIDE DEF All
      <3> QED  BY <1>4, <2>2, <3>1
    <2> QED  BY <2>1, <2>2, WholeOrder
  <1>6. {{LineOf(o, i)' : i \in 1 .. Len(Items(o.by)')} : o \in orders'}
           = {All(o) : o \in orders'}
    <2> HIDE DEF All
    <2> QED  BY <1>3
  <1> QED  BY <1>5, <1>6 DEF LinesInv

(* In every application but Node, order_items holds the items of the committed
   orders, all of them and nothing else. *)
THEOREM OrdersAreWhole ==
    ASSUME NoNode PROVE Spec => []LinesInv
  <1>1. Init => LinesInv
    BY DEF Init, PgInit, LinesInv
  <1>2. TypeOK /\ HandlerInv /\ PoolInv /\ TxInv /\ ContentInv /\ LinesInv
           /\ [Next]_vars => LinesInv'
    <2> SUFFICES ASSUME TypeOK, HandlerInv, PoolInv, TxInv, ContentInv, LinesInv,
                        [Next]_vars
                 PROVE  LinesInv'
      OBVIOUS
    <2>1. CASE Restart \/ UNCHANGED vars
      <3>1. UNCHANGED <<lines, orders, body>>
        BY <2>1 DEF Restart, DropSessions, tables, vars, db
      <3> QED  BY <3>1 DEF LinesInv, LineOf, Items
    <2> QED  BY <2>1, LinesStep DEF Next, Finished
  <1> QED
    BY <1>1, <1>2, Typing, PoolDiscipline, TxDiscipline, TransactionContents, PTL
    DEF Spec

-----------------------------------------------------------------------------
(* What a status was decided on.  The stock never grows, so a reason lasts. *)
LEMMA ReasonsLast ==
    ASSUME TypeOK, HandlerInv, NoNode, PoolInv, TxInv, ContentInv,
           NEW r \in Requests, Step(r) \/ Faulty(r), NEW q \in Requests
    PROVE  /\ Items(q)' = Items(q) /\ Key(q)' = Key(q)
           /\ Invalid(q)' = Invalid(q)
           /\ Short(q) => Short(q)'
           /\ Unknown(q) => Unknown(q)'
  <1>1. Items(q)' = Items(q) /\ Key(q)' = Key(q)
    BY Locality DEF Items, Key
  <1>2. ASSUME NEW i \in DOMAIN Items(q), Items(q)[i].product \in Products,
               stock[Items(q)[i].product] < Items(q)[i].quantity
        PROVE  stock'[Items(q)[i].product] < Items(q)[i].quantity
    <2>1. Items(q)[i].quantity \in Int
      BY <1>2, Bodies
    <2> QED  BY <1>2, <2>1, StockStep
  <1>3. Short(q) => Short(q)'
    BY <1>1, <1>2 DEF Short
  <1>4. Invalid(q)' = Invalid(q)
    BY <1>1, Locality DEF Invalid, H
  <1> QED  BY <1>1, <1>3, <1>4 DEF Unknown

(* At the check, what a handler has read is the stock. *)
LEMMA CheckedAgainstStock ==
    ASSUME TypeOK, HandlerInv, NoNode, PoolInv, LockInv, NEW r \in Requests,
           pc[r] = "check"
    PROVE  /\ ~Enough(r) => Short(r)
           /\ Enough(r) => ~Short(r)
           /\ ~Unknown(r)
  <1>1. ASSUME NEW i \in DOMAIN Items(r)
        PROVE  /\ Items(r)[i].product \in Products
               /\ seen[r][Items(r)[i].product] = stock[Items(r)[i].product]
               /\ Items(r)[i].quantity \in Int
               /\ stock[Items(r)[i].product] \in Int
    <2>1. Items(r)[i].product \in Wanted(r) /\ Items(r)[i].quantity \in Nat
      BY Bodies
    <2>2. Wanted(r) \subseteq got[r] /\ got[r] \subseteq Products
      BY DEF HandlerInv, InTx, TypeOK
    <2>3. \A p \in got[r] : seen[r][p] = stock[p]
      BY DEF LockInv, ReadAt, InTx
    <2> QED  BY <2>1, <2>2, <2>3 DEF TypeOK, PgTypeOK
  <1> QED  BY <1>1 DEF Enough, Short, Unknown

LEMMA VerdictFrame ==
    ASSUME TypeOK, HandlerInv, NoNode, PoolInv, TxInv, ContentInv, VerdictInv,
           NEW r \in Requests, Step(r) \/ Faulty(r),
           pc'[r] \in InTx \cup {"new", "acquire"} => code'[r] = 0,
           pc'[r] = "abort" => code'[r] \in {400, 409, 500},
           code'[r] = 400 => code[r] = 400 \/ Invalid(r) \/ Unknown(r),
           code'[r] = 409 => code[r] = 409 \/ Short(r)
    PROVE  VerdictInv'
  <1> SUFFICES ASSUME NEW q \in Requests
               PROVE  /\ pc'[q] \in InTx \cup {"new", "acquire"} => code'[q] = 0
                      /\ pc'[q] = "abort" => code'[q] \in {400, 409, 500}
                      /\ code'[q] = 400 => Invalid(q)' \/ Unknown(q)'
                      /\ code'[q] = 409 => Short(q)'
    BY DEF VerdictInv, InTx, Statements
  <1>1. /\ Invalid(q)' = Invalid(q) /\ (Short(q) => Short(q)')
        /\ Unknown(q) => Unknown(q)'
    BY ReasonsLast
  <1>2. q # r => pc'[q] = pc[q] /\ code'[q] = code[q]
    BY OthersWait
  <1>3. /\ pc[q] \in InTx \cup {"new", "acquire"} => code[q] = 0
        /\ pc[q] = "abort" => code[q] \in {400, 409, 500}
        /\ code[q] = 400 => Invalid(q) \/ Unknown(q)
        /\ code[q] = 409 => Short(q)
    BY DEF VerdictInv
  <1>4. CASE q = r
    BY <1>1, <1>3, <1>4
  <1>5. CASE q # r
    BY <1>1, <1>2, <1>3, <1>5
  <1> QED  BY <1>4, <1>5

LEMMA VerdictStep ==
    ASSUME TypeOK, HandlerInv, NoNode, PoolInv, TxInv, LockInv, ContentInv,
           VerdictInv, NEW r \in Requests, Step(r) \/ Faulty(r)
    PROVE  VerdictInv'
  <1> USE DEF Goto, Refuse
  <1>1. pc[r] \in InTx \cup {"new", "acquire"} => code[r] = 0
    BY DEF VerdictInv
  <1>2. CASE Receive(r)
    <2>1. \/ pc'[r] = "acquire" /\ code'[r] = code[r] /\ code[r] = 0
          \/ pc'[r] = "done" /\ code'[r] = 400 /\ Invalid(r)
      BY <1>1, <1>2 DEF Receive, TypeOK
    <2> QED  BY <2>1, VerdictFrame DEF InTx, Statements
  <1>3. CASE BeginTx(r) \/ LockProduct(r) \/ InsertOrder(r) \/ InsertItem(r)
             \/ InsertLedger(r) \/ DecrementStock(r)
    <2>1. pc[r] \in InTx \cup {"acquire"} /\ UNCHANGED code
      BY <1>3 DEF BeginTx, LockProduct, InsertOrder, InsertItem, InsertLedger,
         DecrementStock, InTx, Statements
    <2>2. \E l \in {"lock", H.begin, H.lock, H.insert, H.item, H.ledger, H.stock} :
             pc' = [pc EXCEPT ![r] = l]
      <3>1. CASE LockProduct(r)
        BY <3>1, Zenon DEF LockProduct
      <3>2. CASE ~LockProduct(r)
        BY <1>3, <3>2, Zenon DEF BeginTx, InsertOrder, InsertItem, InsertLedger,
           DecrementStock
      <3> QED  BY <3>1, <3>2
    <2>3. pc'[r] # "abort"
      <3>1. "abort" \notin {"lock", H.begin, H.lock, H.insert, H.item, H.ledger,
                            H.stock}
        BY Flow
      <3> QED  BY <2>2, <3>1 DEF TypeOK
    <2>4. code'[r] = 0
      BY <1>1, <2>1
    <2> QED  BY <2>3, <2>4, VerdictFrame
  <1>4. CASE UnknownProduct(r)
    <2>1. Unknown(r)
      BY <1>4 DEF UnknownProduct, Unknown, NextToLock, Wanted
    <2>2. pc'[r] = "abort" /\ code'[r] \in {400, 500}
      BY <1>4, Flow DEF UnknownProduct, TypeOK
    <2> QED  BY <2>1, <2>2, VerdictFrame DEF InTx, Statements
  <1>5. CASE CheckStock(r)
    <2>1. pc[r] = "check"
      BY <1>5 DEF CheckStock
    <2>2. \/ pc'[r] = "insert" /\ code'[r] = code[r]
          \/ pc'[r] = "abort" /\ code'[r] \in {409, 500} /\ ~Enough(r)
      BY <1>5, Flow DEF CheckStock, TypeOK
    <2>3. CASE pc'[r] = "insert" /\ code'[r] = code[r]
      <3>1. code'[r] = 0
        BY <1>1, <2>1, <2>3 DEF InTx
      <3> QED  BY <2>3, <3>1, VerdictFrame
    <2>4. CASE pc'[r] = "abort" /\ code'[r] \in {409, 500} /\ ~Enough(r)
      BY <2>1, <2>4, CheckedAgainstStock, VerdictFrame DEF InTx, Statements
    <2> QED  BY <2>2, <2>3, <2>4
  <1>6. CASE InsertConflict(r) \/ Commit(r) \/ Abort(r)
    <2>1. /\ UNCHANGED code
          /\ \E l \in {"replayOrder", "respond", "done"} : pc' = [pc EXCEPT ![r] = l]
      BY <1>6, Flow, SafeRelease DEF Commit
    <2>2. pc'[r] \in {"replayOrder", "respond", "done"}
      BY <2>1 DEF TypeOK
    <2> QED  BY <2>1, <2>2, VerdictFrame DEF InTx, Statements
  <1>7. CASE ReplayOrder(r)
    <2>1. \/ pc'[r] = "replayItems" /\ code'[r] = code[r]
          \/ pc'[r] \in {"abort", "done"} /\ code'[r] = 500
      BY <1>7 DEF ReplayOrder, TypeOK
    <2> QED  BY <2>1, VerdictFrame DEF InTx, Statements
  <1>8. CASE Respond(r) \/ ReplayItems(r)
    <2>1. pc' = [pc EXCEPT ![r] = "done"] /\ code' = [code EXCEPT ![r] = 201]
      BY <1>8, SafeRelease DEF ReplayItems
    <2>2. pc'[r] = "done" /\ code'[r] = 201
      BY <2>1 DEF TypeOK
    <2> QED  BY <2>2, VerdictFrame DEF InTx, Statements
  <1>9. CASE WriteError(r) \/ Faulty(r)
    <2>1. /\ \E l \in {"abort", "done"} : pc' = [pc EXCEPT ![r] = l]
          /\ code' = [code EXCEPT ![r] = 500]
      BY <1>9, SafeReplay DEF WriteError, Faulty, StatementFails, CommitFails,
         PoolTimeout, ReplayFails
    <2>2. pc'[r] \in {"abort", "done"} /\ code'[r] = 500
      BY <2>1 DEF TypeOK
    <2> QED  BY <2>2, VerdictFrame DEF InTx, Statements
  <1>10. ~StrayRollback(r)
    BY DEF StrayRollback, PoolInv, Stray
  <1> QED
    BY <1>2, <1>3, <1>4, <1>5, <1>6, <1>7, <1>8, <1>9, <1>10 DEF Step

(* In every application but Node a 400 is decided on an order that validation
   refuses or that has an unknown product, and a 409 on an item that asks for more than the
   committed stock: still so when it is sent, and ever after. *)
THEOREM VerdictsHaveReasons ==
    ASSUME NoNode PROVE Spec => []VerdictInv
  <1>1. Init => VerdictInv
    BY DEF Init, VerdictInv
  <1>2. TypeOK /\ HandlerInv /\ PoolInv /\ TxInv /\ LockInv /\ ContentInv
           /\ VerdictInv /\ [Next]_vars => VerdictInv'
    <2> SUFFICES ASSUME TypeOK, HandlerInv, PoolInv, TxInv, LockInv, ContentInv,
                        VerdictInv, [Next]_vars
                 PROVE  VerdictInv'
      OBVIOUS
    <2>1. CASE Restart
      <3>1. /\ \A r \in Requests : pc'[r] = IF InFlight(r) THEN "lost" ELSE pc[r]
            /\ UNCHANGED <<code, stock, body, app>>
        BY <2>1 DEF Restart, DropSessions, tables
      <3> QED
        BY <3>1 DEF VerdictInv, Invalid, H, Unknown, Short, Items, InFlight, InTx, Statements
    <2>2. CASE UNCHANGED vars
      BY <2>2 DEF vars, db, VerdictInv, Invalid, H, Unknown, Short, Items, InTx, Statements
    <2> QED  BY <2>1, <2>2, VerdictStep DEF Next, Finished
  <1> QED
    BY <1>1, <1>2, Typing, PoolDiscipline, TxDiscipline, LockDiscipline,
       TransactionContents, PTL DEF Spec

-----------------------------------------------------------------------------
(* The ids drawn from the sequence. *)
LEMMA DrawnStep ==
    ASSUME TypeOK, NoNode, PoolInv, NEW r \in Requests, Step(r) \/ Faulty(r)
    PROVE  /\ Drawn \subseteq Drawn'
           /\ \/ nextId' = nextId
              \/ nextId' = nextId + 1 /\ r \in Drawn' \ Drawn
  <1> USE DEF Goto, Refuse
  <1> DEFINE Early == {"new", "acquire", "lock", "check", "insert"}
  <1>1. /\ pc[r] \notin Early => pc'[r] \notin Early
        /\ \/ nextId' = nextId
           \/ nextId' = nextId + 1 /\ pc[r] \in Early /\ pc'[r] \notin Early
    <2>1. CASE Receive(r) \/ BeginTx(r) \/ LockProduct(r) \/ UnknownProduct(r)
               \/ CheckStock(r) \/ PoolTimeout(r)
      BY <2>1 DEF Receive, BeginTx, LockProduct, UnknownProduct, CheckStock,
         PoolTimeout, db
    <2>2. CASE InsertOrder(r) \/ InsertConflict(r)
      <3>1. /\ pc[r] = "insert" /\ nextId' = nextId + 1
            /\ \E l \in {"item", "replayOrder"} : pc' = [pc EXCEPT ![r] = l]
        BY <2>2, Flow, SafeRelease DEF InsertOrder, InsertConflict
      <3> QED  BY <3>1 DEF TypeOK
    <2>3. CASE InsertItem(r) \/ InsertLedger(r) \/ DecrementStock(r)
               \/ Commit(r) \/ Respond(r) \/ Abort(r) \/ ReplayOrder(r)
               \/ ReplayItems(r) \/ StatementFails(r) \/ CommitFails(r)
               \/ ReplayFails(r)
      <3>1. nextId' = nextId
        BY <2>3 DEF InsertItem, InsertLedger, DecrementStock, Commit,
           Respond, Abort, ReplayOrder, ReplayItems, StatementFails, CommitFails,
           ReplayFails, db
      <3>2. \E l \in {"item", "ledger", "stock", "commit", "respond", "abort",
                      "replayItems", "done"} : pc' = [pc EXCEPT ![r] = l]
        BY <2>3, Flow, SafeRelease, SafeReplay DEF InsertItem, InsertLedger,
           DecrementStock, Commit, ReplayOrder, ReplayItems,
           StatementFails, CommitFails, ReplayFails
      <3> QED  BY <3>1, <3>2 DEF TypeOK
    <2>4. ~StrayRollback(r)
      BY DEF StrayRollback, PoolInv, Stray
    <2>5. CASE WriteError(r)
      <3>1. /\ pc' = [pc EXCEPT ![r] = "abort"]
            /\ nextId' = nextId \/ (nextId' = nextId + 1 /\ pc[r] = "insert")
        BY <2>5 DEF WriteError
      <3> QED  BY <3>1 DEF TypeOK
    <2> QED  BY <2>1, <2>2, <2>3, <2>4, <2>5 DEF Step, Faulty
  <1>2. \A q \in Requests \ {r} : pc'[q] = pc[q]
    BY OthersWait
  <1> QED  BY <1>1, <1>2 DEF Drawn

LEMMA OidStep ==
    ASSUME TypeOK, HandlerInv, NoNode, PoolInv, TxInv, IdInv, NEW r \in Requests,
           Step(r) \/ Faulty(r), NEW q \in Requests, pc'[q] \in Writing
    PROVE  oid'[q] > 0
  <1> USE DEF Goto, Refuse
  <1>1. CASE q # r
    <2>1. pc'[q] = pc[q] /\ oid'[q] = oid[q]
      BY <1>1, OthersWait, Locality
    <2> QED  BY <2>1 DEF IdInv
  <1>2. CASE q = r /\ InsertOrder(r)
    <2>1. oid'[r] = nextId
      BY <1>2 DEF InsertOrder, TypeOK
    <2> QED  BY <1>2, <2>1 DEF IdInv
  <1>3. CASE q = r /\ (InsertItem(r) \/ InsertLedger(r) \/ DecrementStock(r))
    <2>1. pc[r] \in Writing /\ UNCHANGED oid
      BY <1>3 DEF InsertItem, InsertLedger, DecrementStock, Writing
    <2> QED  BY <1>3, <2>1 DEF IdInv
  <1>4. CASE /\ q = r
             /\ \/ Receive(r) \/ BeginTx(r) \/ UnknownProduct(r) \/ CheckStock(r)
                \/ InsertConflict(r) \/ WriteError(r) \/ Commit(r) \/ Respond(r)
                \/ Abort(r) \/ ReplayOrder(r) \/ ReplayItems(r) \/ Faulty(r)
    <2>1. \E l \in {"acquire", "lock", "insert", "respond", "abort", "replayOrder",
                    "replayItems", "done"} : pc' = [pc EXCEPT ![r] = l]
      BY <1>4, Flow, SafeRelease, SafeReplay DEF Receive, BeginTx, UnknownProduct,
         CheckStock, WriteError, Commit, ReplayOrder, ReplayItems, Faulty,
         StatementFails, CommitFails, PoolTimeout, ReplayFails
    <2> QED  BY <1>4, <2>1 DEF TypeOK, Writing
  <1>5. CASE q = r /\ LockProduct(r)
    <2>1. \E l \in {"lock", H.lock} : pc' = [pc EXCEPT ![r] = l]
      BY <1>5, Zenon DEF LockProduct
    <2>2. H.lock = "check"
      BY Flow
    <2> QED  BY <1>5, <2>1, <2>2 DEF TypeOK, Writing
  <1>6. ~StrayRollback(r)
    BY DEF StrayRollback, PoolInv, Stray
  <1> QED  BY <1>1, <1>2, <1>3, <1>4, <1>5, <1>6 DEF Step

LEMMA IdNext ==
    ASSUME TypeOK, HandlerInv, NoNode, PoolInv, TxInv, IdInv, [Next]_vars
    PROVE  IdInv'
  <1>1. IsFiniteSet(Drawn) /\ IsFiniteSet(Drawn')
    BY RequestsAssumption, FS_Subset DEF Drawn
  <1>2. Cardinality(Drawn) \in Nat /\ Cardinality(Drawn') \in Nat
    BY <1>1, FS_CardinalityType
  <1>3. /\ Drawn \subseteq Drawn'
        /\ \/ nextId' = nextId
           \/ nextId' = nextId + 1 /\ Drawn # Drawn'
    <2>1. CASE Restart
      <3>1. /\ UNCHANGED nextId
            /\ \A r \in Requests : pc'[r] = IF InFlight(r) THEN "lost" ELSE pc[r]
        BY <2>1 DEF Restart
      <3> QED  BY <3>1 DEF Drawn
    <2>2. CASE UNCHANGED vars
      BY <2>2 DEF vars, db, Drawn
    <2>3. CASE \E r \in Requests : Step(r) \/ Faulty(r)
      BY <2>3, DrawnStep
    <2> QED  BY <2>1, <2>2, <2>3 DEF Next, Finished
  <1>4. /\ Cardinality(Drawn) <= Cardinality(Drawn')
        /\ Drawn # Drawn' => Cardinality(Drawn) < Cardinality(Drawn')
    <2>1. /\ Cardinality(Drawn) <= Cardinality(Drawn')
          /\ Cardinality(Drawn') = Cardinality(Drawn) => Drawn' = Drawn
      <3>1. Drawn \in SUBSET Drawn'
        BY <1>3
      <3> HIDE DEF Drawn
      <3> QED  BY <1>1, <3>1, FS_Subset, Zenon
    <2> QED  BY <1>2, <2>1
  <1>5. nextId \in Nat /\ nextId <= 1 + Cardinality(Drawn) /\ nextId > 0
    BY DEF IdInv, TypeOK, PgTypeOK
  <1>6. nextId' <= 1 + Cardinality(Drawn') /\ nextId' > 0
    BY <1>2, <1>3, <1>4, <1>5
  <1>7. ASSUME NEW r \in Requests, pc'[r] \in Writing PROVE oid'[r] > 0
    <2>1. CASE Restart
      BY <1>7, <2>1 DEF Restart, InFlight, Writing
    <2>2. CASE UNCHANGED vars
      BY <1>7, <2>2 DEF vars, IdInv
    <2> QED  BY <1>7, <2>1, <2>2, OidStep DEF Next, Finished
  <1> QED  BY <1>6, <1>7 DEF IdInv, Writing

(* A request draws at most one order id. *)
LEMMA IdsAreFew ==
    ASSUME NoNode PROVE Spec => []IdInv
  <1>1. Init => IdInv
    <2> SUFFICES ASSUME Init PROVE IdInv
      OBVIOUS
    <2>1. IsFiniteSet(Drawn)
      BY RequestsAssumption, FS_Subset DEF Drawn
    <2>2. Cardinality(Drawn) \in Nat /\ nextId = 1
      BY <2>1, FS_CardinalityType DEF Init, PgInit
    <2> QED  BY <2>2 DEF IdInv, Init, Writing
  <1>2. TypeOK /\ HandlerInv /\ PoolInv /\ TxInv /\ IdInv /\ [Next]_vars => IdInv'
    BY IdNext
  <1> QED  BY <1>1, <1>2, Typing, PoolDiscipline, TxDiscipline, PTL DEF Spec

-----------------------------------------------------------------------------
(* Why a handler fails. *)

LEMMA TwoOf ==
    ASSUME NEW S, IsFiniteSet(S), NEW i \in S, NEW j \in S, i # j
    PROVE  Cardinality(S) > 1
  <1>1. /\ IsFiniteSet(S \ {i}) /\ Cardinality(S \ {i}) = Cardinality(S) - 1
    BY FS_RemoveElement
  <1>2. Cardinality(S) \in Nat /\ Cardinality(S \ {i}) \in Nat
    BY <1>1, FS_CardinalityType
  <1>3. Cardinality(S \ {i}) # 0
    BY <1>1, FS_EmptySet
  <1> QED  BY <1>1, <1>2, <1>3

(* A cause lasts, since the stock never grows. *)
LEMMA CausesLast ==
    ASSUME TypeOK, HandlerInv, NoNode, PoolInv, TxInv, ContentInv,
           NEW r \in Requests, Step(r) \/ Faulty(r), NEW q \in Requests,
           HasCause(q)
    PROVE  HasCause(q)'
  <1>1. Items(q)' = Items(q) /\ UNCHANGED app
    BY ReasonsLast, Locality
  <1>2. \A p \in Products : stock'[p] <= stock[p] /\ stock[p] \in Int /\ stock'[p] \in Int
    BY StockStep
  <1>3. /\ Items(q) \in Seq(Item) /\ Len(Items(q)) \in Nat
        /\ \A i \in DOMAIN Items(q) : Items(q)[i].quantity \in Nat
    BY Bodies
  <1>4. CASE \E p \in Products :
                Cardinality(LinesOf(q, p)) > 1 /\ Units(Items(q), p) > stock[p]
    <2>1. PICK p \in Products :
             Cardinality(LinesOf(q, p)) > 1 /\ Units(Items(q), p) > stock[p]
      BY <1>4
    <2>2. LinesOf(q, p)' = LinesOf(q, p)
      BY <1>1 DEF LinesOf
    <2>3. Units(Items(q), p) \in Nat
      BY <1>3, BodyAmounts, UnitsFacts DEF Units
    <2>4. Units(Items(q), p) > stock'[p]
      BY <1>2, <2>1, <2>3
    <2>5. Cardinality(LinesOf(q, p)') > 1 /\ Units(Items(q)', p) > stock'[p]
      BY <1>1, <2>1, <2>2, <2>4
    <2> QED  BY <2>5 DEF HasCause
  <1>5. CASE /\ app = "phoenix"
             /\ \E i \in DOMAIN Items(q) :
                   \/ Items(q)[i].product \notin Products
                   \/ Items(q)[i].quantity > stock[Items(q)[i].product]
    <2>1. PICK i \in DOMAIN Items(q) :
             \/ Items(q)[i].product \notin Products
             \/ Items(q)[i].quantity > stock[Items(q)[i].product]
      BY <1>5
    <2>2. \/ Items(q)[i].product \notin Products
          \/ Items(q)[i].quantity > stock'[Items(q)[i].product]
      BY <1>2, <1>3, <2>1
    <2> QED  BY <1>1, <1>5, <2>2 DEF HasCause
  <1>6. CASE \/ ~TotalFits(q) \/ ~CustomerKnown(q)
             \/ ~H.positive /\ \E i \in DOMAIN Items(q) : Items(q)[i].quantity = 0
    BY <1>1, <1>6, Locality DEF HasCause, TotalFits, CustomerKnown, H
  <1> QED  BY <1>4, <1>5, <1>6 DEF HasCause

(* What is in flight has passed validation. *)
LEMMA ValidStep ==
    ASSUME TypeOK, HandlerInv, NoNode, PoolInv, TxInv, ContentInv, ValidInv,
           NEW r \in Requests, Step(r) \/ Faulty(r)
    PROVE  ValidInv'
  <1> SUFFICES ASSUME NEW q \in Requests, InFlight(q)' PROVE ~Invalid(q)'
    BY DEF ValidInv
  <1>1. Invalid(q)' = Invalid(q)
    BY ReasonsLast
  <1>2. CASE InFlight(q)
    BY <1>1, <1>2 DEF ValidInv
  <1>3. CASE ~InFlight(q)
    <2>1. q = r
      BY <1>3, OthersWait DEF InFlight
    <2>2. Receive(r)
      BY <1>3, <2>1 DEF InFlight, Step, Faulty, BeginTx, LockProduct,
         UnknownProduct, CheckStock, InsertOrder, InsertConflict, InsertItem,
         InsertLedger, DecrementStock, WriteError, ConstraintError, Commit,
         Respond, Abort, ReplayOrder, ReplayItems, StrayRollback,
         StatementFails, CommitFails, PoolTimeout, ReplayFails, Statements
    <2>3. ~Invalid(r)
      BY <2>1, <2>2 DEF Receive, Goto, InFlight, TypeOK
    <2> QED  BY <1>1, <2>1, <2>3
  <1> QED  BY <1>2, <1>3

LEMMA Validated ==
    ASSUME NoNode PROVE Spec => []ValidInv
  <1>1. Init => ValidInv
    BY DEF Init, ValidInv, InFlight
  <1>2. TypeOK /\ HandlerInv /\ PoolInv /\ TxInv /\ ContentInv /\ ValidInv
           /\ [Next]_vars => ValidInv'
    <2> SUFFICES ASSUME TypeOK, HandlerInv, PoolInv, TxInv, ContentInv, ValidInv,
                        [Next]_vars
                 PROVE  ValidInv'
      OBVIOUS
    <2>1. CASE Restart
      <3>1. \A r \in Requests : ~InFlight(r)'
        BY <2>1 DEF Restart, InFlight, TypeOK
      <3> QED  BY <3>1 DEF ValidInv
    <2>2. CASE UNCHANGED vars
      BY <2>2 DEF vars, ValidInv, Invalid, InFlight, H, Items
    <2> QED  BY <2>1, <2>2, ValidStep DEF Next, Finished
  <1> QED
    BY <1>1, <1>2, Typing, PoolDiscipline, TxDiscipline, TransactionContents,
       PTL DEF Spec

(* The CHECK constraint fails only where several lines of one product exceed
   its stock together. *)
LEMMA CheckFails ==
    ASSUME TypeOK, HandlerInv, NoNode, PoolInv, TxInv, ContentInv,
           NEW r \in Requests, pc[r] = "stock", ~Short(r),
           VisibleStock(conn[r], Current(r).product) < Current(r).quantity
    PROVE  HasCause(r)
  <1> DEFINE x == Current(r).product
             n == Current(r).quantity
             i == idx[r]
             u == UnitsUpTo(Items(r), x)
  <1>1. /\ x \in Products /\ n \in Nat /\ i \in 1 .. Len(Items(r))
        /\ Items(r) \in Seq(Item) /\ Len(Items(r)) \in Nat /\ conn[r] \in Conns
    BY CurrentItem, Bodies
  <1>2. i \in 0 .. Len(Items(r)) /\ i - 1 \in 0 .. Len(Items(r))
    BY <1>1
  <1>3. u[i] = u[i - 1] + n /\ u[i - 1] \in Nat
    <2>1. Part(Items(r), x, i) = n
      BY DEF Part, Current
    <2>2. /\ u[i] = u[i - 1] + Part(Items(r), x, i) /\ u[i - 1] \in Nat
      BY <1>1, <1>2, BodyAmounts, UnitsFacts
    <2> QED  BY <2>1, <2>2
  <1>4. stock[x] \in Int /\ stock[x] - u[i - 1] < n
    <2>1. work[conn[r]].dec[x] = u[i - 1]
      BY <1>1 DEF ContentInv, ContentAt, Writing, Charged
    <2> QED  BY <1>1, <2>1 DEF VisibleStock, TypeOK, PgTypeOK
  <1>5. n <= stock[x]
    <2>1. i \in DOMAIN Items(r) /\ x = Items(r)[i].product /\ n = Items(r)[i].quantity
      BY <1>1 DEF Current
    <2>2. ~(stock[x] < n)
      BY <1>1, <2>1 DEF Short
    <2> QED  BY <1>1, <1>4, <2>2
  <1>6. u[i] <= Units(Items(r), x) /\ Units(Items(r), x) \in Nat
    BY <1>1, <1>2, BodyAmounts, UnitsGrow, UnitsFacts DEF Units
  <1>7. PICK j \in 1 .. (i - 1) : Items(r)[j].product = x
    <2>1. u[i - 1] # 0
      BY <1>1, <1>3, <1>4, <1>5
    <2> HIDE DEF x, n
    <2> QED  BY <1>1, <1>2, <2>1, BodyAmounts, UnitsHaveAnItem
  <1>8. j \in LinesOf(r, x) /\ i \in LinesOf(r, x) /\ j # i
    BY <1>1, <1>7 DEF LinesOf, Current
  <1>9. IsFiniteSet(LinesOf(r, x))
    <2>1. IsFiniteSet(1 .. Len(Items(r)))
      BY <1>1, FS_Interval
    <2>2. LinesOf(r, x) \in SUBSET (1 .. Len(Items(r)))
      BY <1>1 DEF LinesOf
    <2> QED  BY <2>1, <2>2, FS_Subset
  <1>10. Cardinality(LinesOf(r, x)) > 1
    BY <1>8, <1>9, TwoOf
  <1> HIDE DEF x, n, u, i
  <1>11. Units(Items(r), x) > stock[x]
    BY <1>1, <1>3, <1>4, <1>6
  <1> QED  BY <1>1, <1>10, <1>11 DEF HasCause

(* The stock of the rows a handler has locked stays, so an order that passed
   the check is never short. *)
LEMMA NotShortStays ==
    ASSUME TypeOK, HandlerInv, NoNode, PoolInv, TxInv, LockInv, LockInv',
           ContentInv, NEW r \in Requests, Step(r) \/ Faulty(r),
           NEW q \in Requests, pc[q] \in InTx \ {"lock"}, pc'[q] \in InTx,
           got'[q] = got[q], seen'[q] = seen[q], ~Short(q)
    PROVE  ~Short(q)'
  <1>1. Items(q)' = Items(q)
    BY ReasonsLast
  <1>2. Wanted(q) \subseteq got[q]
    BY DEF HandlerInv
  <1>3. \A p \in got[q] : seen[q][p] = stock[p] /\ seen[q][p] = stock'[p]
    <2>1. \A p \in got[q] : seen[q][p] = stock[p]
      BY DEF LockInv, ReadAt
    <2>2. \A p \in got'[q] : seen'[q][p] = stock'[p]
      BY DEF LockInv, ReadAt, InTx, Statements
    <2> QED  BY <2>1, <2>2
  <1>4. \A i \in DOMAIN Items(q) :
           stock'[Items(q)[i].product] = stock[Items(q)[i].product]
    BY <1>2, <1>3, Bodies
  <1> QED  BY <1>1, <1>4 DEF Short

LEMMA CauseFrame ==
    ASSUME TypeOK, HandlerInv, NoNode, PoolInv, TxInv, LockInv, LockInv',
           ContentInv, CauseInv, NEW r \in Requests, Step(r) \/ Faulty(r),
           pc'[r] \in {"insert"} \cup Writing => ~Short(r)',
           pc'[r] \in Replaying => \E o \in orders : o.key = Key(r),
           faults' = 0 /\ code'[r] = 500 => HasCause(r)'
    PROVE  CauseInv'
  <1> SUFFICES ASSUME NEW q \in Requests
               PROVE  /\ pc'[q] \in {"insert"} \cup Writing => ~Short(q)'
                      /\ pc'[q] \in Replaying => \E o \in orders' : o.key = Key(q)'
                      /\ faults' = 0 /\ code'[q] = 500 => HasCause(q)'
    BY DEF CauseInv, Writing, Replaying
  <1>1. orders \subseteq orders' /\ Key(q)' = Key(q)
    BY OrdersGrow, ReasonsLast
  <1>2. CASE q = r
    BY <1>1, <1>2
  <1>3. CASE q # r
    <2>1. /\ pc'[q] = pc[q] /\ code'[q] = code[q] /\ got'[q] = got[q]
          /\ seen'[q] = seen[q]
      BY <1>3, OthersWait, Locality
    <2>2. pc'[q] \in {"insert"} \cup Writing => ~Short(q)'
      <3> SUFFICES ASSUME pc[q] \in {"insert"} \cup Writing PROVE ~Short(q)'
        BY <2>1
      <3>1. ~Short(q) /\ pc[q] \in InTx \ {"lock"} /\ pc'[q] \in InTx
        BY <2>1 DEF CauseInv, Writing, InTx, Statements
      <3> QED  BY <2>1, <3>1, NotShortStays
    <2>3. pc'[q] \in Replaying => \E o \in orders' : o.key = Key(q)'
      BY <1>1, <2>1 DEF CauseInv
    <2>4. faults' = 0 /\ code'[q] = 500 => HasCause(q)'
      <3>1. faults' = 0 => faults = 0
        <4>1. UNCHANGED faults \/ faults' = faults + 1
          BY DEF Step, Faulty, Receive, BeginTx, LockProduct, UnknownProduct,
             CheckStock, InsertOrder, InsertConflict, InsertItem, InsertLedger,
             DecrementStock, WriteError, Commit, Respond, Abort, ReplayOrder,
             ReplayItems, StrayRollback, StatementFails,
             CommitFails, PoolTimeout, ReplayFails, Fault
        <4> QED  BY <4>1 DEF TypeOK
      <3> QED  BY <2>1, <3>1, CausesLast DEF CauseInv
    <2> QED  BY <2>2, <2>3, <2>4
  <1> QED  BY <1>2, <1>3

LEMMA CauseStep ==
    ASSUME TypeOK, HandlerInv, NoNode, PoolInv, TxInv, LockInv, LockInv',
           ContentInv, VerdictInv, ValidInv, CauseInv,
           NEW r \in Requests, Step(r) \/ Faulty(r)
    PROVE  CauseInv'
  <1> USE DEF Goto, Refuse
  <1>1. pc[r] \in InTx \cup {"new", "acquire"} => code[r] = 0
    BY DEF VerdictInv
  <1>2. CASE Receive(r) \/ BeginTx(r) \/ LockProduct(r)
    <2>1. code'[r] # 500
      BY <1>1, <1>2 DEF Receive, BeginTx, LockProduct, TypeOK, InTx, Statements
    <2>2. pc'[r] \in {"done", "acquire", "lock", "check"}
      <3>1. CASE LockProduct(r)
        <4>1. \E l \in {"lock", H.lock} : pc' = [pc EXCEPT ![r] = l]
          BY <3>1, Zenon DEF LockProduct
        <4>2. H.lock = "check"
          BY Flow
        <4> QED  BY <4>1, <4>2 DEF TypeOK
      <3>2. CASE Receive(r) \/ BeginTx(r)
        BY <3>2, Flow DEF Receive, BeginTx, TypeOK
      <3> QED  BY <1>2, <3>1, <3>2
    <2> QED  BY <2>1, <2>2, CauseFrame DEF Writing, Replaying
  <1>3. CASE UnknownProduct(r)
    <2>1. pc'[r] = "abort" /\ code'[r] = H.unknown
      BY <1>3 DEF UnknownProduct, TypeOK
    <2>2. code'[r] = 500 => HasCause(r)
      <3>1. code'[r] = 500 => app = "phoenix"
        BY <2>1, Flow
      <3>2. \E i \in DOMAIN Items(r) : Items(r)[i].product \notin Products
        BY <1>3 DEF UnknownProduct, NextToLock, Wanted
      <3> QED  BY <3>1, <3>2 DEF HasCause
    <2> QED  BY <2>1, <2>2, CausesLast, CauseFrame DEF Writing, Replaying
  <1>4. CASE CheckStock(r)
    <2>1. pc[r] = "check" /\ UNCHANGED <<stock, body>>
      BY <1>4 DEF CheckStock, db
    <2>2. \/ Enough(r) /\ pc'[r] = "insert" /\ code'[r] = code[r]
          \/ ~Enough(r) /\ pc'[r] = "abort" /\ code'[r] = H.short
      BY <1>4, Flow DEF CheckStock, TypeOK
    <2>3. CASE Enough(r) /\ pc'[r] = "insert" /\ code'[r] = code[r]
      <3>1. ~Short(r)'
        BY <2>1, <2>3, CheckedAgainstStock DEF Short, Items
      <3>2. code'[r] = 0
        BY <1>1, <2>1, <2>3 DEF InTx
      <3> QED  BY <2>3, <3>1, <3>2, CauseFrame DEF Replaying
    <2>4. CASE ~Enough(r) /\ pc'[r] = "abort" /\ code'[r] = H.short
      <3>1. code'[r] = 500 => app = "phoenix"
        BY <2>4, Flow
      <3>2. Short(r)
        BY <2>1, <2>4, CheckedAgainstStock
      <3>3. Short(r) => \E i \in DOMAIN Items(r) :
                            Items(r)[i].quantity > stock[Items(r)[i].product]
        <4> SUFFICES ASSUME NEW i \in DOMAIN Items(r),
                            Items(r)[i].product \in Products,
                            stock[Items(r)[i].product] < Items(r)[i].quantity
                     PROVE  Items(r)[i].quantity > stock[Items(r)[i].product]
          BY DEF Short
        <4>1. Items(r)[i].quantity \in Int /\ stock[Items(r)[i].product] \in Int
          BY Bodies DEF TypeOK, PgTypeOK
        <4> QED  BY <4>1
      <3>4. code'[r] = 500 => HasCause(r)
        BY <3>1, <3>2, <3>3 DEF HasCause
      <3> QED  BY <2>4, <3>4, CausesLast, CauseFrame DEF Writing, Replaying
    <2> QED  BY <2>2, <2>3, <2>4
  <1>5. CASE InsertOrder(r) \/ InsertItem(r) \/ InsertLedger(r) \/ DecrementStock(r)
    <2>1. /\ pc[r] \in {"insert", "item", "ledger", "stock"}
          /\ UNCHANGED <<code, got, seen>>
      BY <1>5 DEF InsertOrder, InsertItem, InsertLedger, DecrementStock
    <2>2. \E l \in {"item", "ledger", "stock", "commit"} : pc' = [pc EXCEPT ![r] = l]
      BY <1>5, Flow DEF InsertOrder, InsertItem, InsertLedger, DecrementStock
    <2>3. pc'[r] \in {"item", "ledger", "stock", "commit"}
      BY <2>2 DEF TypeOK
    <2>4. ~Short(r)
      BY <2>1 DEF CauseInv, Writing
    <2>5. ~Short(r)'
      BY <2>1, <2>3, <2>4, NotShortStays DEF InTx, Statements
    <2>6. code'[r] # 500
      BY <1>1, <2>1 DEF InTx, Statements
    <2> QED  BY <2>3, <2>5, <2>6, CauseFrame DEF Replaying
  <1>6. CASE InsertConflict(r)
    <2>1. /\ pc[r] = "insert" /\ KeyTaken(conn[r], Key(r))
          /\ code' = code /\ pc' = [pc EXCEPT ![r] = "replayOrder"]
      BY <1>6, SafeRelease DEF InsertConflict
    <2>2. code'[r] # 500 /\ pc'[r] = "replayOrder"
      BY <1>1, <2>1 DEF InTx, Statements, TypeOK
    <2>3. \E o \in orders : o.key = Key(r)
      BY <2>1 DEF KeyTaken, VisibleOrders, TxInv, TxAt, NoWork
    <2> QED  BY <2>2, <2>3, CauseFrame DEF Writing
  <1>7. CASE WriteError(r)
    <2>1. ConstraintError(r) /\ pc'[r] = "abort"
      BY <1>7 DEF WriteError, TypeOK
    <2>2. CASE pc[r] = "stock" /\ VisibleStock(conn[r], Current(r).product)
                                     < Current(r).quantity
      <3>1. ~Short(r)
        BY <2>2 DEF CauseInv, Writing
      <3>2. HasCause(r)'
        BY <2>2, <3>1, CheckFails, CausesLast
      <3> QED  BY <2>1, <3>2, CauseFrame DEF Writing, Replaying
    <2>3. ~(pc[r] \in {"item", "ledger"} /\ ~OrderVisible(r))
      <3>1. pc[r] \in {"item", "ledger"} => Pending(r) \in work[conn[r]].ins
        BY DEF TxInv, TxAt
      <3>2. Pending(r).id = oid[r]
        BY DEF Pending
      <3> QED  BY <3>1, <3>2 DEF OrderVisible, VisibleOrders
    <2>4. ~(pc[r] \in Statements /\ txn[conn[r]] = "failed")
      BY DEF TxInv, TxAt, InTx
    <2>5. CASE \/ pc[r] = "insert" /\ (~TotalFits(r) \/ ~CustomerKnown(r))
               \/ pc[r] = "item" /\ Current(r).quantity = 0
      <3>1. pc[r] = "item" /\ Current(r).quantity = 0 =>
               ~H.positive /\ \E i \in DOMAIN Items(r) : Items(r)[i].quantity = 0
        <4> SUFFICES ASSUME pc[r] = "item", Current(r).quantity = 0
                     PROVE  /\ ~H.positive
                            /\ \E i \in DOMAIN Items(r) : Items(r)[i].quantity = 0
          OBVIOUS
        <4>1. InFlight(r) /\ idx[r] \in 1 .. Len(Items(r))
          BY DEF InFlight, HandlerInv
        <4>2. idx[r] \in DOMAIN Items(r) /\ Items(r)[idx[r]].quantity = 0
          BY <4>1, Bodies DEF Current
        <4> QED  BY <4>1, <4>2 DEF ValidInv, Invalid
      <3>2. HasCause(r)'
        BY <2>5, <3>1, CausesLast DEF HasCause
      <3> QED  BY <2>1, <3>2, CauseFrame DEF Writing, Replaying
    <2> QED  BY <2>1, <2>2, <2>3, <2>4, <2>5 DEF ConstraintError
  <1>8. CASE Commit(r) \/ Abort(r)
    <2>1. /\ UNCHANGED code
          /\ \/ pc[r] = "commit" /\ pc' = [pc EXCEPT ![r] = "respond"]
             \/ pc[r] = "abort" /\ pc' = [pc EXCEPT ![r] = "done"]
          /\ UNCHANGED faults
      BY <1>8, Flow, SafeRelease DEF Commit, Abort
    <2>2. pc'[r] \in {"respond", "done"}
      BY <2>1 DEF TypeOK
    <2>3. faults' = 0 /\ code'[r] = 500 => HasCause(r)'
      BY <2>1, CausesLast DEF CauseInv
    <2> QED  BY <2>2, <2>3, CauseFrame DEF Writing, Replaying
  <1>9. CASE ReplayOrder(r)
    <2>1. \E o \in orders : o.key = Key(r)
      BY <1>9 DEF ReplayOrder, CauseInv, Replaying
    <2>2. pc'[r] = "replayItems" /\ code'[r] = code[r] /\ UNCHANGED faults
      BY <1>9, <2>1 DEF ReplayOrder, TypeOK
    <2>3. faults' = 0 /\ code'[r] = 500 => HasCause(r)'
      BY <2>2, CausesLast DEF CauseInv
    <2> QED  BY <2>1, <2>2, <2>3, CauseFrame DEF Writing
  <1>10. CASE Respond(r) \/ ReplayItems(r)
    <2>1. pc' = [pc EXCEPT ![r] = "done"] /\ code' = [code EXCEPT ![r] = 201]
      BY <1>10, SafeRelease DEF ReplayItems
    <2>2. pc'[r] = "done" /\ code'[r] = 201
      BY <2>1 DEF TypeOK
    <2> QED  BY <2>2, CauseFrame DEF Writing, Replaying
  <1>11. CASE Faulty(r)
    <2>1. /\ \E l \in {"abort", "done"} : pc' = [pc EXCEPT ![r] = l]
          /\ faults' = faults + 1
      BY <1>11, SafeReplay DEF Faulty, StatementFails, CommitFails, PoolTimeout,
         ReplayFails, Fault
    <2>2. pc'[r] \in {"abort", "done"} /\ faults' # 0
      BY <2>1 DEF TypeOK
    <2> QED  BY <2>2, CauseFrame DEF Writing, Replaying
  <1>12. ~StrayRollback(r)
    BY DEF StrayRollback, PoolInv, Stray
  <1> QED
    BY <1>2, <1>3, <1>4, <1>5, <1>6, <1>7, <1>8, <1>9, <1>10, <1>11, <1>12
    DEF Step

(* In every application but Node, a handler that meets no fault sends a 500 only
   for an order the schema's constraints refuse (a total that does not fit, an
   unknown customer, a quantity below 1 that validation lets pass, one product on
   several lines beyond its stock) or, in Phoenix, for one it means to refuse:
   not because of a lost race, of a replay that finds no order, or of a poisoned
   transaction. *)
THEOREM ServerErrorsAreExplained ==
    ASSUME NoNode PROVE Spec => []ServerErrorHasCause
  <1>1. Init => CauseInv
    BY DEF Init, CauseInv, Writing, Replaying
  <1>2. TypeOK /\ HandlerInv /\ PoolInv /\ TxInv /\ LockInv /\ LockInv'
           /\ ContentInv /\ VerdictInv /\ ValidInv /\ CauseInv /\ [Next]_vars
              => CauseInv'
    <2> SUFFICES ASSUME TypeOK, HandlerInv, PoolInv, TxInv, LockInv, LockInv',
                        ContentInv, VerdictInv, ValidInv, CauseInv, [Next]_vars
                 PROVE  CauseInv'
      OBVIOUS
    <2>1. CASE Restart
      <3>1. faults' # 0 /\ \A r \in Requests : ~InFlight(r)'
        BY <2>1 DEF Restart, Fault, InFlight, TypeOK
      <3> QED  BY <3>1 DEF CauseInv, InFlight, Writing, Replaying
    <2>2. CASE UNCHANGED vars
      BY <2>2 DEF vars, db, CauseInv, Short, HasCause, TotalFits,
         CustomerKnown, H, LinesOf, Items, Key,
         Writing, Replaying
    <2> QED  BY <2>1, <2>2, CauseStep DEF Next, Finished
  <1>3. CauseInv => ServerErrorHasCause
    BY DEF CauseInv, ServerErrorHasCause, Answered
  <1> QED
    BY <1>1, <1>2, <1>3, Typing, PoolDiscipline, TxDiscipline, LockDiscipline,
       TransactionContents, VerdictsHaveReasons, Validated, PTL DEF Spec

-----------------------------------------------------------------------------
(* The refinement.  Placed and Answers are what IdempotentOrders sees. *)
Sent(r) == IF pc[r] # "done" THEN [code |-> 0, id |-> 0]
           ELSE [code |-> code[r], id |-> IF code[r] = 201 THEN oid[r] ELSE 0]

Placed == {[id |-> o.id, key |-> o.key] : o \in orders}
Answers == [r \in Requests |-> Sent(r)]

LEMMA SeenBy ==
    /\ Promise!Init <=> /\ stock = InitStock /\ Placed = {}
                        /\ Answers = [r \in Requests |-> [code |-> 0, id |-> 0]]
    /\ \A r, s, i :
          Promise!Send(r, s, i) <=>
             /\ Answers[r] = [code |-> 0, id |-> 0]
             /\ Answers' = [Answers EXCEPT ![r] = [code |-> s, id |-> i]]
             /\ UNCHANGED <<body, stock, Placed>>
  BY DEF Promise!Init, Promise!Send, Promise!NoAnswer, Placed, Answers, Sent

LEMMA UnitsSeen ==
    ASSUME NEW items, NEW p
    PROVE  Promise!Units(items, p) = Units(items, p)
  BY DEF Promise!Units, Promise!UnitsUpTo, Promise!Part, Units, UnitsUpTo, Part

LEMMA PlacedBy ==
    ASSUME NEW r, \A o \in Placed : o.key # Key(r),
           \A p \in Products : Units(Items(r), p) <= stock[p],
           stock' = [p \in Products |-> stock[p] - Units(Items(r), p)],
           NEW id \in 1 .. Cardinality(Requests), \A o \in Placed : o.id # id,
           Placed' = Placed \cup {[id |-> id, key |-> Key(r)]},
           UNCHANGED <<body, Answers>>
    PROVE  Promise!Place(r)
  <1> DEFINE P == {[id |-> o.id, key |-> o.key] : o \in orders}
             A == [q \in Requests |->
                     IF pc[q] # "done" THEN [code |-> 0, id |-> 0]
                     ELSE [code |-> code[q],
                           id |-> IF code[q] = 201 THEN oid[q] ELSE 0]]
  <1>1. P = Placed /\ A = Answers
    BY Zenon DEF Placed, Answers, Sent
  <1>2. P' = Placed' /\ A' = Answers'
    BY Zenon DEF Placed, Answers, Sent
  <1>3. /\ \A o \in P : o.key # body[r].key
        /\ \A p \in Products : Units(body[r].items, p) <= stock[p]
        /\ stock' = [p \in Products |-> stock[p] - Units(body[r].items, p)]
        /\ UNCHANGED <<body, A>>
    BY <1>1, <1>2 DEF Items, Key
  <1>4. (\A o \in P : o.id # id) /\ P' = P \cup {[id |-> id, key |-> body[r].key]}
    BY <1>1, <1>2 DEF Key
  <1>5. \E i \in 1 .. Cardinality(Requests) :
           (\A o \in P : o.id # i) /\ P' = P \cup {[id |-> i, key |-> body[r].key]}
    <2> HIDE DEF P
    <2> QED  BY <1>4, Zenon
  <1>6. \A p : Promise!Need(r, p) = Units(body[r].items, p)
    BY UnitsSeen DEF Promise!Need
  <1>7. /\ \A p \in Products : Promise!Need(r, p) <= stock[p]
        /\ stock' = [p \in Products |-> stock[p] - Promise!Need(r, p)]
    BY <1>3, <1>6
  <1> QED  BY <1>3, <1>5, <1>7, Zenon DEF Promise!Place

(* A COMMIT that takes effect places the order. *)
LEMMA CommitPlaces ==
    ASSUME TypeOK, HandlerInv, NoNode, PoolInv, TxInv, ContentInv, KeyInv, IdInv,
           NEW r \in Requests, Step(r) \/ Faulty(r), ~UNCHANGED tables
    PROVE  Promise!Place(r)
  <1>1. /\ pc[r] = "commit" /\ conn[r] \in Conns
        /\ orders' = orders \cup {Pending(r)}
        /\ Pending(r) \in work[conn[r]].ins
        /\ stock' = [p \in Products |-> stock[p] - Units(Items(r), p)]
        /\ \A p \in Products : Units(Items(r), p) <= stock[p]
    BY WholeOrder
  <1>2. /\ UNCHANGED body /\ \A q \in Requests \ {r} : oid'[q] = oid[q]
    BY Locality
  <1>3. \A o \in orders : o.key # Key(r) /\ o.id # oid[r]
    <2>1. \A o \in orders : Pending(r).key # o.key /\ Pending(r).id # o.id
      BY <1>1 DEF KeyInv
    <2> QED  BY <2>1 DEF Pending
  <1>4. oid[r] \in 1 .. Cardinality(Requests)
    <2>1. Pending(r).id < nextId /\ Pending(r).id = oid[r]
      BY <1>1 DEF KeyInv, Pending
    <2>2. /\ nextId <= 1 + Cardinality(Drawn) /\ oid[r] > 0
          /\ oid[r] \in Nat /\ nextId \in Nat
      BY <1>1 DEF IdInv, Writing, TypeOK, PgTypeOK
    <2>3. Drawn \in SUBSET Requests
      BY DEF Drawn
    <2>4. IsFiniteSet(Drawn) /\ Cardinality(Drawn) <= Cardinality(Requests)
      <3> HIDE DEF Drawn
      <3> QED  BY <2>3, RequestsAssumption, FS_Subset
    <2>5. Cardinality(Drawn) \in Nat /\ Cardinality(Requests) \in Nat
      BY <2>4, RequestsAssumption, FS_CardinalityType
    <2> QED  BY <2>1, <2>2, <2>4, <2>5
  <1>5. Placed' = Placed \cup {[id |-> oid[r], key |-> Key(r)]}
    BY <1>1 DEF Placed, Pending
  <1>6. UNCHANGED Answers
    <2>1. pc'[r] # "done" /\ pc[r] # "done"
      BY <1>1, Endings
    <2>2. \A q \in Requests \ {r} : /\ pc'[q] = pc[q] /\ code'[q] = code[q]
                                     /\ oid'[q] = oid[q]
      BY <1>2, OthersWait
    <2>3. \A q \in Requests : Sent(q)' = Sent(q)
      BY <2>1, <2>2 DEF Sent
    <2> QED  BY <2>3 DEF Answers
  <1>7. \A o \in Placed : o.key # Key(r) /\ o.id # oid[r]
    BY <1>3 DEF Placed
  <1> QED  BY <1>1, <1>2, <1>4, <1>5, <1>6, <1>7, PlacedBy

(* A request is answered once, with a status that was decided. *)
LEMMA AnswersAreDecided ==
    ASSUME TypeOK, HandlerInv, NoNode, PoolInv, TxInv, VerdictInv,
           NEW r \in Requests, Step(r) \/ Faulty(r), pc'[r] = "done"
    PROVE  /\ code'[r] \in {201, 400, 409, 500}
           /\ code'[r] = 201 => oid'[r] = oid[r]
           /\ pc[r] # "done" /\ UNCHANGED tables
  <1> USE DEF Goto, Refuse
  <1>1. pc[r] # "done" /\ pc[r] # "commit"
    BY Endings
  <1>2. UNCHANGED tables
    BY <1>1, TablesStep
  <1>3. CASE Respond(r) \/ Abort(r)
    <2>1. pc[r] \in {"respond", "abort"}
      BY <1>3 DEF Respond, Abort
    <2>2. UNCHANGED oid
      BY <1>3 DEF Respond, Abort
    <2> QED  BY <1>1, <1>2, <2>1, <2>2, Endings DEF VerdictInv
  <1>4. CASE Receive(r) \/ ReplayOrder(r) \/ ReplayItems(r) \/ PoolTimeout(r)
             \/ ReplayFails(r)
    <2>1. code'[r] \in {201, 400, 500} /\ (code'[r] = 201 => UNCHANGED oid)
      BY <1>4 DEF Receive, ReplayOrder, ReplayItems, PoolTimeout, ReplayFails, TypeOK
    <2> QED  BY <1>1, <1>2, <2>1
  <1>5. CASE BeginTx(r) \/ UnknownProduct(r) \/ CheckStock(r) \/ InsertOrder(r)
             \/ InsertConflict(r) \/ InsertItem(r) \/ InsertLedger(r)
             \/ DecrementStock(r) \/ WriteError(r) \/ Commit(r)
             \/ StatementFails(r) \/ CommitFails(r)
    <2>1. \E l \in {"lock", "insert", "item", "ledger", "stock", "commit",
                    "respond", "abort", "replayOrder"} : pc' = [pc EXCEPT ![r] = l]
      BY <1>5, Flow, SafeRelease DEF BeginTx, UnknownProduct, CheckStock,
         InsertOrder, InsertItem, InsertLedger, DecrementStock, WriteError, Commit,
         StatementFails, CommitFails
    <2> QED  BY <2>1 DEF TypeOK
  <1>6. CASE LockProduct(r)
    <2>1. \E l \in {"lock", H.lock} : pc' = [pc EXCEPT ![r] = l]
      BY <1>6, Zenon DEF LockProduct
    <2>2. H.lock = "check"
      BY Flow
    <2> QED  BY <2>1, <2>2 DEF TypeOK
  <1>7. ~StrayRollback(r)
    BY DEF StrayRollback, PoolInv, Stray
  <1> QED  BY <1>3, <1>4, <1>5, <1>6, <1>7 DEF Step, Faulty

(* The answer is one that IdempotentOrders allows. *)
LEMMA AnswerAllowed ==
    ASSUME TypeOK, HandlerInv, NoNode, PoolInv, TxInv, VerdictInv, VerdictInv',
           AckedIsDurable', NEW r \in Requests, Step(r) \/ Faulty(r),
           pc'[r] = "done"
    PROVE  Promise!Next
  <1> DEFINE i == IF code'[r] = 201 THEN oid'[r] ELSE 0
  <1>1. /\ code'[r] \in {201, 400, 409, 500}
        /\ code'[r] = 201 => oid'[r] = oid[r]
        /\ pc[r] # "done" /\ UNCHANGED <<stock, orders, body>>
    BY AnswersAreDecided, Locality DEF tables
  <1>2. UNCHANGED Placed
    BY <1>1 DEF Placed
  <1>3. Answers[r] = [code |-> 0, id |-> 0]
    BY <1>1 DEF Answers, Sent
  <1>4. Answers' = [Answers EXCEPT ![r] = [code |-> code'[r], id |-> i]]
    <2>1. Sent(r)' = [code |-> code'[r], id |-> i]
      BY DEF Sent
    <2>2. \A q \in Requests \ {r} : Sent(q)' = Sent(q)
      BY OthersWait, Locality DEF Sent
    <2> HIDE DEF i
    <2> QED  BY <2>1, <2>2 DEF Answers
  <1>5. ASSUME NEW s, NEW o, code'[r] = s, i = o
        PROVE  Promise!Send(r, s, o)
    <2>1. Answers' = [Answers EXCEPT ![r] = [code |-> s, id |-> o]]
      BY <1>4, <1>5
    <2>2. UNCHANGED <<body, stock, Placed>>
      BY <1>1, <1>2
    <2> QED  BY <1>3, <2>1, <2>2, SeenBy, Zenon
  <1>6. Items(r)' = Items(r) /\ Key(r)' = Key(r)
    BY <1>1 DEF Items, Key
  <1>7. CASE code'[r] = 201
    <2>1. PICK o \in orders : o.key = Key(r) /\ o.id = oid'[r]
      BY <1>1, <1>6, <1>7 DEF AckedIsDurable, Answered
    <2>2. Promise!Send(r, 201, o.id)
      BY <1>5, <1>7, <2>1
    <2>3. [id |-> o.id, key |-> o.key] \in {[id |-> x.id, key |-> x.key] : x \in orders}
      OBVIOUS
    <2>4. PICK y \in {[id |-> x.id, key |-> x.key] : x \in orders} :
             y.key = body[r].key /\ y.id = o.id
      BY <2>1, <2>3 DEF Key
    <2>5. Promise!Created(r)
      BY <2>2, <2>4, Zenon DEF Promise!Created
    <2> QED  BY <2>5 DEF Promise!Next
  <1>8. CASE code'[r] = 400
    <2>1. Invalid(r) \/ Unknown(r)
      <3>1. Invalid(r)' \/ Unknown(r)'
        BY <1>8 DEF VerdictInv
      <3> QED  BY <1>1, <1>6, <3>1, Locality DEF Invalid, H, Unknown
    <2>2. Promise!Send(r, 400, 0)
      BY <1>5, <1>8
    <2>3. Promise!Invalid(r)
      BY <2>1, <2>2 DEF Promise!Invalid, Invalid, Unknown, Items
    <2> QED  BY <2>3 DEF Promise!Next
  <1>9. CASE code'[r] = 409
    <2>1. Short(r)
      BY <1>1, <1>6, <1>9 DEF VerdictInv, Short
    <2>2. Promise!Send(r, 409, 0)
      BY <1>5, <1>9
    <2>3. Promise!OutOfStock(r)
      BY <2>1, <2>2 DEF Promise!OutOfStock, Short, Items
    <2> QED  BY <2>3 DEF Promise!Next
  <1>10. CASE code'[r] = 500
    <2>1. Promise!Send(r, 500, 0)
      BY <1>5, <1>10
    <2> QED  BY <2>1 DEF Promise!Next, Promise!Failed
  <1> QED  BY <1>1, <1>7, <1>8, <1>9, <1>10

(* Everything else neither client nor tables see. *)
LEMMA QuietStep ==
    ASSUME TypeOK, HandlerInv, NoNode, PoolInv, TxInv, NEW r \in Requests,
           Step(r) \/ Faulty(r), pc'[r] # "done", UNCHANGED tables
    PROVE  UNCHANGED <<body, stock, Placed, Answers>>
  <1>1. pc[r] # "done"
    BY Endings
  <1>2. \A q \in Requests : Sent(q)' = Sent(q)
    BY <1>1, OthersWait, Locality DEF Sent
  <1>3. UNCHANGED Answers
    BY <1>2 DEF Answers
  <1>4. UNCHANGED <<body, stock, Placed>>
    BY Locality DEF tables, Placed
  <1> QED  BY <1>3, <1>4

(* Every application but Node implements IdempotentOrders: each of its steps,
   whatever fails and however requests interleave, places one whole order under
   a fresh key out of stock that is there, sends one answer the contract allows,
   or is invisible. *)
THEOREM ImplementsThePromise ==
    ASSUME NoNode PROVE Spec => KeepsThePromise
  <1>1. Init => Promise!Init
    <2> SUFFICES ASSUME Init PROVE Promise!Init
      OBVIOUS
    <2>1. stock = InitStock /\ Placed = {}
      BY DEF Init, PgInit, Placed
    <2>2. Answers = [r \in Requests |-> [code |-> 0, id |-> 0]]
      BY DEF Init, Answers, Sent
    <2> QED  BY <2>1, <2>2, SeenBy
  <1> DEFINE Seen == <<body, stock, Placed, Answers>>
  <1>2. TypeOK /\ HandlerInv /\ PoolInv /\ TxInv /\ ContentInv /\ KeyInv /\ IdInv
           /\ VerdictInv /\ VerdictInv' /\ AckedIsDurable' /\ [Next]_vars
           => [Promise!Next]_Seen
    <2> SUFFICES ASSUME TypeOK, HandlerInv, PoolInv, TxInv, ContentInv, KeyInv,
                        IdInv, VerdictInv, VerdictInv', AckedIsDurable', [Next]_vars
                 PROVE  Promise!Next \/ UNCHANGED Seen
      OBVIOUS
    <2>1. CASE \E r \in Requests : Step(r) \/ Faulty(r)
      <3>1. PICK r \in Requests : Step(r) \/ Faulty(r)
        BY <2>1
      <3>2. CASE ~UNCHANGED tables
        BY <3>1, <3>2, CommitPlaces DEF Promise!Next
      <3>3. CASE pc'[r] = "done"
        BY <3>1, <3>3, AnswerAllowed
      <3>4. CASE UNCHANGED tables /\ pc'[r] # "done"
        BY <3>1, <3>4, QuietStep
      <3> QED  BY <3>2, <3>3, <3>4
    <2>2. CASE Restart
      <3>1. /\ \A r \in Requests : pc'[r] = IF InFlight(r) THEN "lost" ELSE pc[r]
            /\ UNCHANGED <<body, stock, orders, code, oid>>
        BY <2>2 DEF Restart, DropSessions, tables
      <3>2. \A r \in Requests : Sent(r)' = Sent(r)
        BY <3>1 DEF Sent, InFlight
      <3> QED  BY <3>1, <3>2 DEF Placed, Answers
    <2>3. CASE UNCHANGED vars
      BY <2>3 DEF vars, db, Placed, Answers, Sent
    <2> QED  BY <2>1, <2>2, <2>3 DEF Next, Finished
  <1>3. Seen = <<body, stock,
                 {[id |-> o.id, key |-> o.key] : o \in orders},
                 [r \in Requests |->
                    IF pc[r] # "done" THEN [code |-> 0, id |-> 0]
                    ELSE [code |-> code[r],
                          id |-> IF code[r] = 201 THEN oid[r] ELSE 0]]>>
    BY Zenon DEF Placed, Answers, Sent
  <1> QED
    BY <1>1, <1>2, <1>3, Typing, PoolDiscipline, TxDiscipline, TransactionContents,
       KeysAreUnique, IdsAreFew, VerdictsHaveReasons, AcknowledgedOrdersAreDurable,
       PTL DEF Spec, KeepsThePromise, Promise!Spec, Placed, Answers, Sent

-----------------------------------------------------------------------------
(* What MapThenSumSet adds up, and from it that the ledger has exactly the units
   of the order lines. *)

(* The fold of MapThenSumSet over the quantities of the subsets of S. *)
Some(s) == CHOOSE x \in s : TRUE
Fold(f, S) ==
    f = [s \in SUBSET S |-> IF s = {} THEN 0
                            ELSE Some(s).quantity + f[s \ {Some(s)}]]

Countable(S) == IsFiniteSet(S) /\ \A l \in S : l.quantity \in Nat

(* The sizes of the subsets of a finite set of lines. *)
LEMMA Sizes ==
    ASSUME NEW S, Countable(S), NEW s \in SUBSET S
    PROVE  /\ IsFiniteSet(s) /\ Cardinality(s) \in Nat /\ Countable(s)
           /\ Cardinality(s) <= Cardinality(S)
           /\ Cardinality(s) = 0 <=> s = {}
           /\ \A x \in s : /\ Cardinality(s \ {x}) = Cardinality(s) - 1
                           /\ s \ {x} \in SUBSET S /\ x.quantity \in Nat
           /\ s # {} => Some(s) \in s
  <1>1. IsFiniteSet(s) /\ Cardinality(s) <= Cardinality(S)
    BY FS_Subset DEF Countable
  <1>2. Cardinality(s) \in Nat /\ (Cardinality(s) = 0 <=> s = {})
    BY <1>1, FS_CardinalityType, FS_EmptySet
  <1>3. \A x \in s : Cardinality(s \ {x}) = Cardinality(s) - 1
    BY <1>1, FS_RemoveElement
  <1>4. s # {} => Some(s) \in s
    BY DEF Some
  <1> QED  BY <1>1, <1>2, <1>3, <1>4 DEF Countable

(* The recursion has a solution, built up one size of set after another. *)
LEMMA FoldExists ==
    ASSUME NEW S, Countable(S)
    PROVE  \E f : Fold(f, S)
  <1> DEFINE Small(n) == {s \in SUBSET S : Cardinality(s) <= n}
             Good(f, n) == /\ f \in [Small(n) -> Nat]
                           /\ \A s \in Small(n) :
                                 f[s] = IF s = {} THEN 0
                                        ELSE Some(s).quantity + f[s \ {Some(s)}]
             N == {n \in Nat : \E f : Good(f, n)}
  <1>1. 0 \in N
    <2>1. \A s \in Small(0) : s = {}
      BY Sizes
    <2>2. Good([s \in Small(0) |-> 0], 0)
      BY <2>1
    <2> QED  BY <2>2
  <1>2. ASSUME NEW n \in Nat, n \in N PROVE n + 1 \in N
    <2>1. PICK f : Good(f, n)
      BY <1>2
    <2> DEFINE g == [s \in Small(n + 1) |->
                       IF s = {} THEN 0 ELSE Some(s).quantity + f[s \ {Some(s)}]]
    <2>2. ASSUME NEW s \in Small(n + 1), s # {}
          PROVE  /\ s \ {Some(s)} \in Small(n) /\ s \ {Some(s)} \in Small(n + 1)
                 /\ Some(s).quantity \in Nat
      <3>1. /\ s \in SUBSET S /\ Some(s) \in s /\ Cardinality(s) \in Nat
            /\ Cardinality(s \ {Some(s)}) = Cardinality(s) - 1
            /\ Some(s).quantity \in Nat
        BY <2>2, Sizes
      <3> QED  BY <2>2, <3>1
    <2> HIDE DEF Small
    <2>3. g \in [Small(n + 1) -> Nat]
      <3>1. \A s \in Small(n + 1) :
               (IF s = {} THEN 0 ELSE Some(s).quantity + f[s \ {Some(s)}]) \in Nat
        BY <2>1, <2>2
      <3> QED  BY <3>1
    <2>4. ASSUME NEW s \in Small(n) PROVE s \in Small(n + 1) /\ g[s] = f[s]
      <3>1. s \in Small(n + 1)
        BY <2>4, Sizes DEF Small
      <3> QED  BY <2>1, <2>4, <3>1
    <2>5. ASSUME NEW s \in Small(n + 1)
          PROVE  g[s] = IF s = {} THEN 0 ELSE Some(s).quantity + g[s \ {Some(s)}]
      <3>1. CASE s = {}
        BY <3>1
      <3>2. CASE s # {}
        <4>1. g[s \ {Some(s)}] = f[s \ {Some(s)}]
          BY <2>2, <2>4, <3>2
        <4>2. g[s] = Some(s).quantity + f[s \ {Some(s)}]
          BY <3>2
        <4> HIDE DEF g
        <4> QED  BY <3>2, <4>1, <4>2
      <3> QED  BY <3>1, <3>2
    <2> HIDE DEF g
    <2>6. Good(g, n + 1)
      BY <2>3, <2>5
    <2> HIDE DEF Good
    <2> QED  BY <2>6
  <1>3. Cardinality(S) \in N /\ Small(Cardinality(S)) = SUBSET S
    <2>1. Nat \subseteq N
      <3> HIDE DEF N
      <3> QED  BY <1>1, <1>2, Induction
    <2>2. Cardinality(S) \in Nat
      BY FS_CardinalityType DEF Countable
    <2> QED  BY <2>1, <2>2, Sizes
  <1>4. PICK f : Good(f, Cardinality(S))
    BY <1>3
  <1> HIDE DEF Small
  <1>5. /\ f \in [SUBSET S -> Nat]
        /\ \A s \in SUBSET S : f[s] = IF s = {} THEN 0
                                      ELSE Some(s).quantity + f[s \ {Some(s)}]
    BY <1>3, <1>4
  <1>6. Fold(f, S)
    <2> DEFINE h == [s \in SUBSET S |-> IF s = {} THEN 0
                                        ELSE Some(s).quantity + f[s \ {Some(s)}]]
    <2>1. \A s \in SUBSET S : f[s] = h[s]
      BY <1>5
    <2>2. f = h
      <3> HIDE DEF h
      <3>1. h \in [SUBSET S -> {h[s] : s \in SUBSET S}]
        BY DEF h
      <3> QED  BY <1>5, <2>1, <3>1
    <2> QED  BY <2>2 DEF Fold
  <1> QED  BY <1>6

(* What Fold says, pointwise. *)
LEMMA FoldFacts ==
    ASSUME NEW S, Countable(S), NEW f, Fold(f, S)
    PROVE  /\ f[{}] = 0
           /\ \A s \in SUBSET S : s # {} =>
                 f[s] = Some(s).quantity + f[s \ {Some(s)}]
  <1> DEFINE h == [s \in SUBSET S |-> IF s = {} THEN 0
                                      ELSE Some(s).quantity + f[s \ {Some(s)}]]
  <1>1. f = h
    BY DEF Fold
  <1>2. /\ h[{}] = 0
        /\ \A s \in SUBSET S : s # {} =>
              h[s] = Some(s).quantity + f[s \ {Some(s)}]
    OBVIOUS
  <1> HIDE DEF h
  <1> QED  BY <1>1, <1>2

(* Total is a solution of its recursion. *)
LEMMA TotalIsFold ==
    ASSUME NEW S, Countable(S)
    PROVE  \E f : Fold(f, S) /\ Total(S) = f[S]
  <1> DEFINE f == CHOOSE t : Fold(t, S)
  <1>1. Fold(f, S)
    BY FoldExists
  <1>2. Total(S) = f[S]
    BY Zenon DEF Total, MapThenSumSet, MapThenFoldSet, Fold, Some
  <1> QED  BY <1>1, <1>2

(* A sum of quantities is a natural number. *)
LEMMA FoldNat ==
    ASSUME NEW S, Countable(S), NEW f, Fold(f, S)
    PROVE  \A s \in SUBSET S : f[s] \in Nat
  <1> DEFINE N == {n \in Nat : \A s \in SUBSET S : Cardinality(s) = n => f[s] \in Nat}
  <1>1. /\ f[{}] = 0
        /\ \A s \in SUBSET S : s # {} =>
              f[s] = Some(s).quantity + f[s \ {Some(s)}]
    BY FoldFacts
  <1>2. 0 \in N
    <2>1. \A s \in SUBSET S : Cardinality(s) = 0 => f[s] = 0
      BY <1>1, Sizes
    <2> QED  BY <2>1
  <1>3. ASSUME NEW n \in Nat, n \in N PROVE n + 1 \in N
    <2> SUFFICES ASSUME NEW s \in SUBSET S, Cardinality(s) = n + 1
                 PROVE  f[s] \in Nat
      OBVIOUS
    <2> DEFINE t == s \ {Some(s)}
    <2>1. s # {} /\ Some(s) \in s
      BY Sizes
    <2>2. Cardinality(t) = n /\ t \in SUBSET S /\ Some(s).quantity \in Nat
      BY <2>1, Sizes
    <2>3. f[s] = Some(s).quantity + f[t]
      BY <1>1, <2>1
    <2> HIDE DEF t
    <2>4. f[t] \in Nat
      BY <1>3, <2>2
    <2> QED  BY <2>2, <2>3, <2>4
  <1>4. Nat \subseteq N
    <2> HIDE DEF N
    <2> QED  BY <1>2, <1>3, Induction
  <1> QED  BY <1>4, Sizes

(* A fold does not depend on the order of its terms. *)
LEMMA FoldRemove ==
    ASSUME NEW S, Countable(S), NEW f, Fold(f, S)
    PROVE  \A s \in SUBSET S : \A x \in s : f[s] = x.quantity + f[s \ {x}]
  <1> DEFINE Holds(s) == \A x \in s : f[s] = x.quantity + f[s \ {x}]
             N == {n \in Nat : \A s \in SUBSET S : Cardinality(s) = n => Holds(s)}
  <1>1. \A s \in SUBSET S : s # {} => f[s] = Some(s).quantity + f[s \ {Some(s)}]
    BY FoldFacts
  <1>2. 0 \in N
    <2>1. \A s \in SUBSET S : Cardinality(s) = 0 => s = {}
      BY Sizes
    <2> QED  BY <2>1
  <1>3. ASSUME NEW n \in Nat, n \in N PROVE n + 1 \in N
    <2> HIDE DEF Holds
    <2> SUFFICES ASSUME NEW s \in SUBSET S, Cardinality(s) = n + 1 PROVE Holds(s)
      OBVIOUS
    <2>1. PICK y \in s : f[s] = y.quantity + f[s \ {y}]
      BY <1>1, Sizes
    <2>2. \A x \in s : /\ Cardinality(s \ {x}) = n /\ s \ {x} \in SUBSET S
                       /\ x.quantity \in Nat
      BY Sizes
    <2>3. \A x \in s : Holds(s \ {x})
      BY <1>3, <2>2
    <2>4. ASSUME NEW x \in s PROVE f[s] = x.quantity + f[s \ {x}]
      <3>1. CASE x = y
        BY <2>1, <3>1
      <3>2. CASE x # y
        <4> DEFINE t == (s \ {y}) \ {x}
        <4>1. x \in s \ {y} /\ y \in s \ {x} /\ t = (s \ {x}) \ {y} /\ t \in SUBSET S
          BY <3>2
        <4>2. f[s \ {y}] = x.quantity + f[t]
          BY <2>3, <4>1 DEF Holds
        <4> HIDE DEF t
        <4>3. f[s \ {x}] = y.quantity + f[t]
          BY <2>3, <4>1 DEF Holds
        <4>4. f[t] \in Nat /\ x.quantity \in Nat /\ y.quantity \in Nat
          BY <2>2, <4>1, FoldNat
        <4> QED  BY <2>1, <4>2, <4>3, <4>4
      <3> QED  BY <3>1, <3>2
    <2> QED  BY <2>4 DEF Holds
  <1>4. Nat \subseteq N
    <2> HIDE DEF N
    <2> QED  BY <1>2, <1>3, Induction
  <1> SUFFICES ASSUME NEW s \in SUBSET S PROVE Holds(s)
    OBVIOUS
  <1>5. Cardinality(s) \in Nat
    BY Sizes
  <1> HIDE DEF Holds
  <1> QED  BY <1>4, <1>5

(* Nor on the set it is a fold of the subsets of. *)
LEMMA FoldAgrees ==
    ASSUME NEW S, Countable(S), NEW T \in SUBSET S, NEW f, Fold(f, S),
           NEW g, Fold(g, T)
    PROVE  \A s \in SUBSET T : f[s] = g[s]
  <1> DEFINE N == {n \in Nat : \A s \in SUBSET T : Cardinality(s) = n => f[s] = g[s]}
  <1>1. Countable(T)
    BY Sizes
  <1>2. /\ f[{}] = 0 /\ g[{}] = 0
        /\ \A s \in SUBSET T : s # {} =>
              /\ f[s] = Some(s).quantity + f[s \ {Some(s)}]
              /\ g[s] = Some(s).quantity + g[s \ {Some(s)}]
    BY <1>1, FoldFacts
  <1>3. 0 \in N
    <2>1. \A s \in SUBSET T : Cardinality(s) = 0 => s = {}
      BY <1>1, Sizes
    <2> QED  BY <1>2, <2>1
  <1>4. ASSUME NEW n \in Nat, n \in N PROVE n + 1 \in N
    <2> SUFFICES ASSUME NEW s \in SUBSET T, Cardinality(s) = n + 1
                 PROVE  f[s] = g[s]
      OBVIOUS
    <2> DEFINE t == s \ {Some(s)}
    <2>1. s # {} /\ Some(s) \in s
      BY <1>1, Sizes
    <2>2. Cardinality(t) = n /\ t \in SUBSET T
      <3>1. \A x \in s : Cardinality(s \ {x}) = Cardinality(s) - 1
        BY <1>1, Sizes
      <3> QED  BY <2>1, <3>1
    <2>3. f[s] = Some(s).quantity + f[t] /\ g[s] = Some(s).quantity + g[t]
      BY <1>2, <2>1
    <2> HIDE DEF t
    <2> QED  BY <1>4, <2>2, <2>3
  <1>5. Nat \subseteq N
    <2> HIDE DEF N
    <2> QED  BY <1>3, <1>4, Induction
  <1> QED  BY <1>1, <1>5, Sizes

(* What MapThenSumSet computes. *)
LEMMA TotalFacts ==
    ASSUME NEW S, Countable(S)
    PROVE  /\ Total({}) = 0 /\ Total(S) \in Nat
           /\ \A x : x \notin S /\ x.quantity \in Nat =>
                 Countable(S \cup {x}) /\ Total(S \cup {x}) = Total(S) + x.quantity
  <1>1. Total({}) = 0
    <2>1. Countable({})
      BY FS_EmptySet DEF Countable
    <2>2. PICK f : Fold(f, {}) /\ Total({}) = f[{}]
      BY <2>1, TotalIsFold
    <2> QED  BY <2>1, <2>2, FoldFacts
  <1>2. PICK g : Fold(g, S) /\ Total(S) = g[S]
    BY TotalIsFold
  <1>3. Total(S) \in Nat
    BY <1>2, FoldNat
  <1>4. ASSUME NEW x, x \notin S, x.quantity \in Nat
        PROVE  Countable(S \cup {x}) /\ Total(S \cup {x}) = Total(S) + x.quantity
    <2> DEFINE T == S \cup {x}
    <2>1. Countable(T)
      BY <1>4, FS_AddElement DEF Countable
    <2>2. PICK f : Fold(f, T) /\ Total(T) = f[T]
      BY <2>1, TotalIsFold
    <2>3. S \in SUBSET T /\ x \in T /\ T \in SUBSET T /\ T \ {x} = S
      BY <1>4
    <2> HIDE DEF T
    <2>4. f[T] = x.quantity + f[S]
      BY <2>1, <2>2, <2>3, FoldRemove
    <2>5. f[S] = g[S]
      BY <1>2, <2>1, <2>2, <2>3, FoldAgrees
    <2>6. Total(T) = Total(S) + x.quantity
      BY <1>2, <1>3, <1>4, <2>2, <2>4, <2>5
    <2> QED  BY <2>1, <2>6 DEF T
  <1> QED  BY <1>1, <1>3, <1>4

(* The lines of a new order add what it asks for of a product to the total. *)
LEMMA NewLinesAdd ==
    ASSUME TypeOK, NEW r \in Requests, IsFiniteSet(lines),
           \A l \in lines : l.order # oid[r], NEW p
    PROVE  LET new == lines \cup {LineOf(Pending(r), i) : i \in 1 .. Len(Items(r))}
           IN  /\ IsFiniteSet(new)
               /\ Total({l \in new : l.product = p})
                     = Total({l \in lines : l.product = p}) + Units(Items(r), p)
  <1> DEFINE New(i) == LineOf(Pending(r), i)
             M(n) == lines \cup {New(i) : i \in 1 .. n}
             Of(n) == {l \in M(n) : l.product = p}
             u == UnitsUpTo(Items(r), p)
             N == {n \in Nat : n <= Len(Items(r)) =>
                     /\ Countable(M(n))
                     /\ Total(Of(n)) = Total(Of(0)) + u[n]}
  <1>1. /\ Items(r) \in Seq(Item) /\ Len(Items(r)) \in Nat
        /\ u[0] = 0
        /\ \A i \in 1 .. Len(Items(r)) : u[i] = u[i - 1] + Part(Items(r), p, i)
        /\ \A i \in 0 .. Len(Items(r)) : u[i] \in Nat
    BY Bodies, BodyAmounts, UnitsFacts
  <1>2. \A i : /\ New(i).order = oid[r] /\ New(i).ln = i
               /\ New(i).product = Items(r)[i].product
               /\ New(i).quantity = Items(r)[i].quantity
    BY DEF LineOf, Pending
  <1>3. \A i \in 1 .. Len(Items(r)) : New(i).quantity \in Nat
    BY <1>2, Bodies
  <1> HIDE DEF New, u
  <1>4. M(0) = lines /\ Countable(lines)
    <2>1. \A l \in lines : l.quantity \in Nat
      BY DEF TypeOK, PgTypeOK, Line
    <2> QED  BY <2>1 DEF Countable
  <1>5. ASSUME NEW n \in Nat, Countable(M(n))
        PROVE  Countable(Of(n)) /\ Total(Of(n)) \in Nat
    <2>1. Of(n) \in SUBSET M(n)
      OBVIOUS
    <2> HIDE DEF M, Of
    <2>2. Countable(Of(n))
      BY <1>5, <2>1, Sizes
    <2> QED  BY <2>2, TotalFacts
  <1>6. 0 \in N
    <2>1. Total(Of(0)) \in Nat /\ Countable(M(0))
      BY <1>4, <1>5
    <2> HIDE DEF M, Of
    <2> QED  BY <1>1, <2>1
  <1>7. ASSUME NEW n \in Nat, n \in N PROVE n + 1 \in N
    <2> SUFFICES ASSUME n + 1 <= Len(Items(r))
                 PROVE  /\ Countable(M(n + 1))
                        /\ Total(Of(n + 1)) = Total(Of(0)) + u[n + 1]
      <3> HIDE DEF M, Of
      <3> QED  OBVIOUS
    <2>1. /\ n + 1 \in 1 .. Len(Items(r)) /\ (n + 1) - 1 = n
          /\ n \in 0 .. Len(Items(r)) /\ n <= Len(Items(r))
      BY <1>1
    <2>2. Countable(M(n)) /\ Total(Of(n)) = Total(Of(0)) + u[n]
      <3> HIDE DEF M, Of
      <3> QED  BY <1>7, <2>1
    <2>3. New(n + 1) \notin M(n)
      BY <1>2
    <2>4. 1 .. (n + 1) = (1 .. n) \cup {n + 1}
      OBVIOUS
    <2>5. M(n + 1) = M(n) \cup {New(n + 1)}
      BY <2>4
    <2>6. Countable(M(n + 1))
      <3> HIDE DEF M, Of
      <3>1. New(n + 1).quantity \in Nat
        BY <1>3, <2>1
      <3> QED  BY <2>2, <2>3, <2>5, <3>1, TotalFacts
    <2>7. /\ u[n + 1] = u[n] + Part(Items(r), p, n + 1)
          /\ u[n] \in Nat /\ Part(Items(r), p, n + 1) \in Nat
      BY <1>1, <2>1, BodyAmounts, Parts
    <2>8. Countable(Of(n)) /\ Total(Of(n)) \in Nat /\ Total(Of(0)) \in Nat
      <3> HIDE DEF M, Of
      <3> QED  BY <1>4, <1>5, <2>2
    <2>9. CASE Items(r)[n + 1].product = p
      <3>1. Of(n + 1) = Of(n) \cup {New(n + 1)} /\ New(n + 1) \notin Of(n)
        BY <1>2, <2>3, <2>5, <2>9
      <3>2. New(n + 1).quantity = Part(Items(r), p, n + 1)
        BY <1>2, <2>9 DEF Part
      <3> HIDE DEF M, Of
      <3>3. Total(Of(n + 1)) = Total(Of(n)) + Part(Items(r), p, n + 1)
        BY <2>7, <2>8, <3>1, <3>2, TotalFacts
      <3> QED  BY <2>2, <2>6, <2>7, <2>8, <3>3
    <2>10. CASE Items(r)[n + 1].product # p
      <3>1. Of(n + 1) = Of(n)
        BY <1>2, <2>5, <2>10
      <3>2. Part(Items(r), p, n + 1) = 0
        BY <2>10 DEF Part
      <3> HIDE DEF M, Of
      <3> QED  BY <2>2, <2>6, <2>7, <2>8, <3>1, <3>2
    <2> QED  BY <2>9, <2>10
  <1>8. Nat \subseteq N
    <2> HIDE DEF N
    <2> QED  BY <1>6, <1>7, Induction
  <1>9. Countable(M(Len(Items(r)))) /\ Total(Of(Len(Items(r)))) = Total(Of(0)) + u[Len(Items(r))]
    <2> HIDE DEF M, Of
    <2> QED  BY <1>1, <1>8
  <1>10. Of(0) = {l \in lines : l.product = p}
    BY <1>4
  <1> QED  BY <1>9, <1>10 DEF u, New, Units, Countable

(* The commit of an order keeps LedgerInv, and no other step touches the tables. *)
LEMMA LedgerLines ==
    ASSUME TypeOK, HandlerInv, NoNode, PoolInv, TxInv, ContentInv, KeyInv,
           LinesInv, LedgerInv, NEW r \in Requests, Step(r) \/ Faulty(r)
    PROVE  LedgerInv'
  <1>1. CASE UNCHANGED tables
    <2>1. lines' = lines /\ ledger' = ledger
      BY <1>1 DEF tables
    <2>2. IsFiniteSet(lines)'
      BY <2>1 DEF LedgerInv
    <2>3. \A p \in Products : ledger'[p] = -Total({l \in lines' : l.product = p})
      BY <2>1 DEF LedgerInv
    <2> QED  BY <2>2, <2>3 DEF LedgerInv, Total, MapThenSumSet, MapThenFoldSet
  <1>2. CASE ~UNCHANGED tables
    <2> DEFINE new == lines \cup {LineOf(Pending(r), i) : i \in 1 .. Len(Items(r))}
               T(p) == Total({l \in lines : l.product = p})
    <2>1. /\ conn[r] \in Conns /\ Pending(r) \in work[conn[r]].ins
          /\ lines' = new
          /\ ledger' = [p \in Products |-> ledger[p] - Units(Items(r), p)]
      BY <1>2, WholeOrder
    <2>2. \A l \in lines : l.order # oid[r]
      <3>1. \A o \in orders : o.id # oid[r]
        BY <2>1 DEF KeyInv, Pending
      <3>2. \A l \in lines : \E o \in orders : l.order = o.id
        BY DEF LinesInv, LineOf
      <3> QED  BY <3>1, <3>2
    <2>3. \A p : /\ IsFiniteSet(new)
                 /\ Total({l \in new : l.product = p}) = T(p) + Units(Items(r), p)
      BY <2>2, NewLinesAdd DEF LedgerInv
    <2>4. ASSUME NEW p \in Products
          PROVE  ledger'[p] = -Total({l \in new : l.product = p})
      <3>1. Countable(lines)
        BY DEF LedgerInv, Countable, TypeOK, PgTypeOK, Line
      <3>2. {l \in lines : l.product = p} \in SUBSET lines
        OBVIOUS
      <3>3. T(p) \in Nat
        BY <3>1, <3>2, Sizes, TotalFacts
      <3>4. Units(Items(r), p) \in Nat
        BY Bodies, BodyAmounts, UnitsFacts DEF Units
      <3>5. ledger'[p] = -T(p) - Units(Items(r), p)
        BY <2>1 DEF LedgerInv
      <3> HIDE DEF T, new
      <3> QED  BY <2>3, <3>3, <3>4, <3>5
    <2> HIDE DEF new
    <2>5. IsFiniteSet(lines')
      BY <2>1, <2>3
    <2>6. \A p \in Products : ledger'[p] = -Total({l \in lines' : l.product = p})
      BY <2>1, <2>4
    <2> QED  BY <2>5, <2>6 DEF LedgerInv, Total, MapThenSumSet, MapThenFoldSet
  <1> QED  BY <1>1, <1>2

(* In every application but Node the write is all or nothing across its three
   tables: order_items holds exactly the items of the committed orders, and the
   ledger exactly their units. *)
THEOREM NoOrderIsPartial ==
    ASSUME NoNode PROVE Spec => []NoPartialOrder
  <1>1. Init => LedgerInv
    <2> SUFFICES ASSUME Init PROVE LedgerInv
      OBVIOUS
    <2>1. lines = {} /\ \A p \in Products : ledger[p] = 0
      BY DEF Init, PgInit, Zero
    <2>2. IsFiniteSet({}) /\ Total({}) = 0
      BY FS_EmptySet, TotalFacts DEF Countable
    <2>3. \A p : {l \in lines : l.product = p} = {}
      BY <2>1
    <2> QED  BY <2>1, <2>2, <2>3 DEF LedgerInv
  <1>2. TypeOK /\ HandlerInv /\ PoolInv /\ TxInv /\ ContentInv /\ KeyInv
           /\ LinesInv /\ LedgerInv /\ [Next]_vars => LedgerInv'
    <2> SUFFICES ASSUME TypeOK, HandlerInv, PoolInv, TxInv, ContentInv, KeyInv,
                        LinesInv, LedgerInv, [Next]_vars
                 PROVE  LedgerInv'
      OBVIOUS
    <2>1. CASE Restart \/ UNCHANGED vars
      <3>1. lines' = lines /\ ledger' = ledger
        BY <2>1 DEF Restart, DropSessions, tables, vars, db
      <3> QED  BY <3>1 DEF LedgerInv, Total, MapThenSumSet, MapThenFoldSet
    <2> QED  BY <2>1, LedgerLines DEF Next, Finished
  <1>3. TypeOK /\ LinesInv /\ LedgerInv => NoPartialOrder
    <2> SUFFICES ASSUME TypeOK, LinesInv, LedgerInv PROVE NoPartialOrder
      OBVIOUS
    <2>1. \A o \in orders : DOMAIN Items(o.by) = 1 .. Len(Items(o.by))
      BY Bodies DEF TypeOK, PgTypeOK, Order
    <2>2. \A o \in orders :
             {LineOf(o, i) : i \in 1 .. Len(Items(o.by))}
                = {[order |-> o.id, ln |-> i, product |-> Items(o.by)[i].product,
                    quantity |-> Items(o.by)[i].quantity] : i \in DOMAIN Items(o.by)}
      BY <2>1 DEF LineOf
    <2>3. lines = UNION {{[order |-> o.id, ln |-> i,
                           product |-> Items(o.by)[i].product,
                           quantity |-> Items(o.by)[i].quantity] :
                              i \in DOMAIN Items(o.by)} : o \in orders}
      BY <2>2 DEF LinesInv
    <2> QED  BY <2>3 DEF LedgerInv, NoPartialOrder, Total
  <1> QED
    BY <1>1, <1>2, <1>3, Typing, PoolDiscipline, TxDiscipline, KeysAreUnique,
       TransactionContents, OrdersAreWhole, PTL DEF Spec
=============================================================================
