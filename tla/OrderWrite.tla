----------------------------- MODULE OrderWrite -----------------------------
(***************************************************************************)
(* POST /orders, the transactional write of the benchmark, as every one of *)
(* the eight applications runs it against one PostgreSQL.  app names the   *)
(* application under test (one per trial); each request runs the handler   *)
(* of that application, whose control flow is CreateOrder(app) and         *)
(* Replay(app) of module Handlers.  An action is one statement sent to the *)
(* database or one use of the connection pool; local computation between   *)
(* two of them is part of the action before it, except the stock check,    *)
(* which has an action of its own.                                         *)
(*                                                                         *)
(* Several requests may carry the same key: a client's retry is one more   *)
(* request.  Faults (a statement timeout, a lost answer to COMMIT, a pool  *)
(* timeout, the death of the application) are injected at most MaxFaults   *)
(* times.                                                                  *)
(***************************************************************************)
EXTENDS Postgres, Handlers, Sequences, FiniteSets

CONSTANTS AppsUnderTest, \* the applications this instance ranges over
          Workloads,     \* each gives every request its key and its items
          NoConn, NoOwner,
          MaxFaults

(* A quantity of 0 stands for every quantity below 1.  totalFits: the total
   the handler computes is one that orders.total_cents takes. *)
Item == [product : Nat, quantity : Nat]
Body == [key : Keys, customer : Nat, totalFits : BOOLEAN, items : Seq(Item)]

ASSUME AppsAssumption == AppsUnderTest \subseteq Apps
ASSUME WorkloadsAssumption == Workloads \subseteq [Requests -> Body]
ASSUME NullAssumption == NoConn \notin Conns /\ NoOwner \notin Requests
ASSUME FaultsAssumption == MaxFaults \in Nat
ASSUME RequestsAssumption == IsFiniteSet(Requests)

VARIABLES app,     \* the application that serves this run
          body,    \* the requests of this run
          pc,      \* the step a request is at
          conn,    \* the connection object a request's handler refers to
          owner,   \* pool bookkeeping: who has checked a connection out
          got,     \* the product rows a handler has locked and read ...
          seen,    \* ... and the stock it read from each
          idx,     \* the item being written
          oid,     \* the order id the handler has in hand
          code,    \* the status decided, sent once pc is "done"
          prior,   \* history: id of the order its key had on arrival, or 0
          faults   \* faults injected so far

vars == <<db, app, body, pc, conn, owner, got, seen, idx, oid, code, prior,
          faults>>

Statements == {"lock", "insert", "item", "ledger", "stock"}
Labels == Statements \cup
          {"new", "acquire", "check", "commit", "respond", "abort",
           "replayOrder", "replayItems", "strayRollback", "done", "lost"}
Codes == {0, 201, 400, 409, 500}

TypeOK ==
    /\ PgTypeOK
    /\ app \in AppsUnderTest
    /\ body \in Workloads
    /\ pc \in [Requests -> Labels]
    /\ conn \in [Requests -> Conns \cup {NoConn}]
    /\ owner \in [Conns -> Requests \cup {NoOwner}]
    /\ got \in [Requests -> SUBSET Products]
    /\ seen \in [Requests -> [Products -> Int]]
    /\ idx \in [Requests -> Nat]
    /\ oid \in [Requests -> Nat]
    /\ code \in [Requests -> Codes]
    /\ prior \in [Requests -> Nat]
    /\ faults \in Nat

Init ==
    /\ PgInit
    /\ app \in AppsUnderTest
    /\ body \in Workloads
    /\ pc = [r \in Requests |-> "new"]
    /\ conn = [r \in Requests |-> NoConn]
    /\ owner = [c \in Conns |-> NoOwner]
    /\ got = [r \in Requests |-> {}]
    /\ seen = [r \in Requests |-> Zero]
    /\ idx = [r \in Requests |-> 1]
    /\ oid = [r \in Requests |-> 0]
    /\ code = [r \in Requests |-> 0]
    /\ prior = [r \in Requests |-> 0]
    /\ faults = 0

-----------------------------------------------------------------------------
H == CreateOrder(app)
R == Replay(app)

Items(r) == body[r].items
Key(r) == body[r].key
Wanted(r) == {Items(r)[i].product : i \in DOMAIN Items(r)}
Current(r) == Items(r)[idx[r]]
InFlight(r) == pc[r] \notin {"new", "done", "lost"}
FreeConns == {c \in Conns : owner[c] = NoOwner}

Goto(r, l) == pc' = [pc EXCEPT ![r] = l]

(* Decide the status and leave through the error path. *)
Refuse(r, s) == code' = [code EXCEPT ![r] = s] /\ Goto(r, "abort")

(* Give connection c back.  The pool frees it whoever called: pg-pool's
   release() acts on the current checkout of the client. *)
PoolRelease(c) == owner' = [owner EXCEPT ![c] = NoOwner]

(* release() of a client nobody has checked out throws; inside the try block
   the catch block takes over. *)
ReleaseThrows(r) == owner[conn[r]] = NoOwner

Throw(r) ==
    /\ code' = [code EXCEPT ![r] = 500]
    /\ Goto(r, "strayRollback")
    /\ UNCHANGED <<conn, owner>>

-----------------------------------------------------------------------------
(* Validation of a well-typed order: it has items, and in some applications
   quantities from 1. *)
Invalid(r) ==
    \/ Items(r) = <<>>
    \/ H.positive /\ \E i \in DOMAIN Items(r) : Items(r)[i].quantity = 0

Receive(r) ==
    /\ pc[r] = "new"
    /\ prior' = [prior EXCEPT ![r] =
          IF \E o \in orders : o.key = Key(r)
          THEN (CHOOSE o \in orders : o.key = Key(r)).id ELSE 0]
    /\ \/ /\ Invalid(r)
          /\ Goto(r, "done")
          /\ code' = [code EXCEPT ![r] = 400]
       \/ /\ ~Invalid(r)
          /\ Goto(r, "acquire")
          /\ UNCHANGED code
    /\ UNCHANGED <<db, app, body, conn, owner, got, seen, idx, oid, faults>>

(* Mutant: BEGIN is not sent, every statement commits by itself. *)
BeginTxAutocommit(r) ==
    /\ pc[r] = "acquire"
    /\ \E c \in FreeConns :
          /\ owner' = [owner EXCEPT ![c] = r]
          /\ conn' = [conn EXCEPT ![r] = c]
    /\ Goto(r, H.begin)
    /\ UNCHANGED <<db, app, body, got, seen, idx, oid, code, prior, faults>>

(* Take a connection from the pool and BEGIN. *)
BeginTx(r) ==
    /\ pc[r] = "acquire"
    /\ \E c \in FreeConns :
          /\ owner' = [owner EXCEPT ![c] = r]
          /\ conn' = [conn EXCEPT ![r] = c]
          /\ Begin(c)
    /\ Goto(r, H.begin)
    /\ UNCHANGED <<tables, nextId, rowLocks, work, app, body, got, seen, idx,
                   oid, code, prior, faults>>

(* The product the loop over the sorted, de-duplicated ids has reached. *)
NextToLock(r, p) ==
    /\ p \in Wanted(r) \ got[r]
    /\ \A q \in Wanted(r) \ got[r] : p <= q

(* Mutant: SELECT without FOR UPDATE. *)
LockProductPlainSelect(r) ==
    /\ pc[r] = "lock"
    /\ \E p \in Products :
          /\ NextToLock(r, p)
          /\ Execute(conn[r], NoWork, {})
          /\ got' = [got EXCEPT ![r] = @ \cup {p}]
          /\ seen' = [seen EXCEPT ![r][p] = VisibleStock(conn[r], p)]
          /\ Goto(r, IF Wanted(r) \subseteq got[r] \cup {p} THEN H.lock
                                                             ELSE "lock")
    /\ UNCHANGED <<nextId, app, body, conn, owner, idx, oid, code, prior,
                   faults>>

LockProduct(r) ==
    /\ pc[r] = "lock"
    /\ \E p \in Products :
          /\ NextToLock(r, p)
          /\ RowFree(conn[r], p)
          /\ Execute(conn[r], NoWork, {p})
          /\ got' = [got EXCEPT ![r] = @ \cup {p}]
          /\ seen' = [seen EXCEPT ![r][p] = VisibleStock(conn[r], p)]
          /\ Goto(r, IF Wanted(r) \subseteq got[r] \cup {p} THEN H.lock
                                                             ELSE "lock")
    /\ UNCHANGED <<nextId, app, body, conn, owner, idx, oid, code, prior,
                   faults>>

UnknownProduct(r) ==
    /\ pc[r] = "lock"
    /\ txn[conn[r]] # "failed"
    /\ \E p \in Wanted(r) : NextToLock(r, p) /\ p \notin Products
    /\ Refuse(r, H.unknown)
    /\ UNCHANGED <<db, app, body, conn, owner, got, seen, idx, oid, prior,
                   faults>>

(* Mutant: no stock check, the CHECK constraint is relied upon. *)
EnoughUnchecked(r) == TRUE

(* Mutant: the last unit is never sold. *)
EnoughStrict(r) == \A i \in DOMAIN Items(r) :
                      seen[r][Items(r)[i].product] > Items(r)[i].quantity

(* The stock each item is compared with is the one read under the lock; items
   are compared one by one, not summed per product. *)
Enough(r) == \A i \in DOMAIN Items(r) :
                seen[r][Items(r)[i].product] >= Items(r)[i].quantity

CheckStock(r) ==
    /\ pc[r] = "check"
    /\ \/ Enough(r) /\ Goto(r, H.check) /\ UNCHANGED code
       \/ ~Enough(r) /\ Refuse(r, H.short)
    /\ UNCHANGED <<db, app, body, conn, owner, got, seen, idx, oid, prior,
                   faults>>

(* The type and the CHECK of total_cents are applied to the row before its key
   is looked up, the foreign key of customer_id once the row is in. *)
TotalFits(r) == body[r].totalFits
CustomerKnown(r) == body[r].customer \in Customers

(* INSERT ... ON CONFLICT (idempotency_key) DO NOTHING RETURNING id. *)
InsertOrder(r) ==
    /\ pc[r] = "insert"
    /\ TotalFits(r) /\ CustomerKnown(r)
    /\ KeySettled(conn[r], Key(r))
    /\ ~KeyTaken(conn[r], Key(r))
    /\ Execute(conn[r], NewOrder([id |-> nextId, key |-> Key(r), by |-> r]), {})
    /\ nextId' = nextId + 1
    /\ oid' = [oid EXCEPT ![r] = nextId]
    /\ Goto(r, H.insert)
    /\ UNCHANGED <<app, body, conn, owner, got, seen, idx, code, prior, faults>>

(* The same statement returning no row: the key exists.  The id it drew from
   the sequence is gone. *)
InsertConflict(r) ==
    /\ pc[r] = "insert"
    /\ txn[conn[r]] # "failed"
    /\ TotalFits(r)
    /\ KeySettled(conn[r], Key(r))
    /\ KeyTaken(conn[r], Key(r))
    /\ nextId' = nextId + 1
    /\ IF R.endTx THEN Rollback(conn[r]) ELSE UNCHANGED <<tables, session>>
    /\ \/ /\ R.keepConn
          /\ Goto(r, "replayOrder")
          /\ UNCHANGED <<conn, owner, code>>
       \/ /\ ~R.keepConn /\ ~ReleaseThrows(r)
          /\ PoolRelease(conn[r])
          /\ conn' = [conn EXCEPT ![r] =
                        IF R.onError = "strayRollback" THEN @ ELSE NoConn]
          /\ Goto(r, "replayOrder")
          /\ UNCHANGED code
       \/ ~R.keepConn /\ ReleaseThrows(r) /\ Throw(r)
    /\ UNCHANGED <<app, body, got, seen, idx, oid, prior, faults>>

-----------------------------------------------------------------------------
(* Per item: order_items, inventory_ledger, products.stock. *)

(* The order row the foreign keys of the first two refer to. *)
OrderVisible(r) == \E o \in VisibleOrders(conn[r]) : o.id = oid[r]

(* Under CHECK (quantity > 0). *)
InsertItem(r) ==
    /\ pc[r] = "item"
    /\ Current(r).quantity > 0
    /\ OrderVisible(r)
    /\ RowFree(conn[r], Current(r).product)
    /\ Execute(conn[r],
               NewLine([order |-> oid[r], ln |-> idx[r],
                        product |-> Current(r).product,
                        quantity |-> Current(r).quantity]),
               {})
    /\ Goto(r, H.item)
    /\ UNCHANGED <<nextId, app, body, conn, owner, got, seen, idx, oid, code,
                   prior, faults>>

(* Mutant: the ledger's delta has the wrong sign. *)
InsertLedgerPositive(r) ==
    /\ pc[r] = "ledger"
    /\ OrderVisible(r)
    /\ RowFree(conn[r], Current(r).product)
    /\ Execute(conn[r], NewDelta(Current(r).product, Current(r).quantity), {})
    /\ Goto(r, H.ledger)
    /\ UNCHANGED <<nextId, app, body, conn, owner, got, seen, idx, oid, code,
                   prior, faults>>

InsertLedger(r) ==
    /\ pc[r] = "ledger"
    /\ OrderVisible(r)
    /\ RowFree(conn[r], Current(r).product)
    /\ Execute(conn[r],
               NewDelta(Current(r).product, -Current(r).quantity),
               {})
    /\ Goto(r, H.ledger)
    /\ UNCHANGED <<nextId, app, body, conn, owner, got, seen, idx, oid, code,
                   prior, faults>>

(* Mutant: the loop over the items stops after the first. *)
DecrementStockOnce(r) ==
    /\ pc[r] = "stock"
    /\ RowFree(conn[r], Current(r).product)
    /\ VisibleStock(conn[r], Current(r).product) >= Current(r).quantity
    /\ Execute(conn[r],
               TakeStock(Current(r).product, Current(r).quantity),
               {Current(r).product})
    /\ Goto(r, H.stock)
    /\ UNCHANGED <<nextId, app, body, conn, owner, got, seen, idx, oid, code,
                   prior, faults>>

(* UPDATE products SET stock = stock - quantity, under CHECK (stock >= 0). *)
DecrementStock(r) ==
    /\ pc[r] = "stock"
    /\ RowFree(conn[r], Current(r).product)
    /\ VisibleStock(conn[r], Current(r).product) >= Current(r).quantity
    /\ Execute(conn[r],
               TakeStock(Current(r).product, Current(r).quantity),
               {Current(r).product})
    /\ IF idx[r] < Len(Items(r))
       THEN Goto(r, H.insert) /\ idx' = [idx EXCEPT ![r] = @ + 1]
       ELSE Goto(r, H.stock) /\ UNCHANGED idx
    /\ UNCHANGED <<nextId, app, body, conn, owner, got, seen, oid, code, prior,
                   faults>>

(* The errors a write can meet without any fault: a total that does not fit, a
   customer there is not, a quantity below 1, more than the stock, an order row
   that is gone, a transaction that another error has poisoned. *)
ConstraintError(r) ==
    \/ pc[r] = "insert" /\ ~TotalFits(r)
    \/ /\ pc[r] = "insert"
       /\ ~CustomerKnown(r)
       /\ KeySettled(conn[r], Key(r))
       /\ ~KeyTaken(conn[r], Key(r))
    \/ pc[r] = "item" /\ Current(r).quantity = 0
    \/ /\ pc[r] = "stock"
       /\ RowFree(conn[r], Current(r).product)
       /\ VisibleStock(conn[r], Current(r).product) < Current(r).quantity
    \/ /\ pc[r] \in {"item", "ledger"}
       /\ ~OrderVisible(r)
    \/ /\ pc[r] \in Statements
       /\ txn[conn[r]] = "failed"

(* An order row that is refused has drawn its id. *)
WriteError(r) ==
    /\ ConstraintError(r)
    /\ StatementError(conn[r])
    /\ Refuse(r, 500)
    /\ nextId' = IF pc[r] = "insert" /\ txn[conn[r]] # "failed" THEN nextId + 1
                                                              ELSE nextId
    /\ UNCHANGED <<app, body, conn, owner, got, seen, idx, oid, prior,
                   faults>>

(* Mutant: the transaction is closed without COMMIT. *)
CommitForgotten(r) ==
    /\ pc[r] = "commit"
    /\ Rollback(conn[r])
    /\ Goto(r, H.commit)
    /\ UNCHANGED <<nextId, app, body, conn, owner, got, seen, idx, oid, code,
                   prior, faults>>

Commit(r) ==
    /\ pc[r] = "commit"
    /\ CommitTx(conn[r])
    /\ Goto(r, H.commit)
    /\ UNCHANGED <<nextId, app, body, conn, owner, got, seen, idx, oid, code,
                   prior, faults>>

(* The committed order is answered and its connection goes back. *)
Respond(r) ==
    /\ pc[r] = "respond"
    /\ \/ /\ ~ReleaseThrows(r)
          /\ code' = [code EXCEPT ![r] = 201]
          /\ PoolRelease(conn[r])
          /\ conn' = [conn EXCEPT ![r] = NoConn]
          /\ Goto(r, "done")
       \/ ReleaseThrows(r) /\ Throw(r)
    /\ UNCHANGED <<db, app, body, got, seen, idx, oid, prior, faults>>

(* Mutant: the error path forgets release(). *)
AbortLeaks(r) ==
    /\ pc[r] = "abort"
    /\ Rollback(conn[r])
    /\ conn' = [conn EXCEPT ![r] = NoConn]
    /\ Goto(r, "done")
    /\ UNCHANGED <<nextId, app, body, owner, got, seen, idx, oid, code, prior,
                   faults>>

(* Mutant: an order that is out of stock is tried again. *)
AbortRetries(r) ==
    /\ pc[r] = "abort"
    /\ Rollback(conn[r])
    /\ PoolRelease(conn[r])
    /\ conn' = [conn EXCEPT ![r] = NoConn]
    /\ got' = [got EXCEPT ![r] = {}]
    /\ Goto(r, IF code[r] = 409 THEN "acquire" ELSE "done")
    /\ UNCHANGED <<nextId, app, body, seen, idx, oid, code, prior, faults>>

(* A refusal or an error: end the transaction, give the connection back, send
   the status.  Bun and Phoenix ROLLBACK on errors only and COMMIT a refusal,
   which is the same COMMIT here: of a failed transaction it rolls back. *)
Abort(r) ==
    /\ pc[r] = "abort"
    /\ IF H.refusal = "commit" THEN CommitTx(conn[r]) ELSE Rollback(conn[r])
    /\ \/ /\ ~ReleaseThrows(r) \/ code[r] = 500
          /\ PoolRelease(conn[r])
          /\ conn' = [conn EXCEPT ![r] = NoConn]
          /\ Goto(r, "done")
          /\ UNCHANGED code
       \/ ReleaseThrows(r) /\ code[r] # 500 /\ Throw(r)
    /\ UNCHANGED <<nextId, app, body, got, seen, idx, oid, prior, faults>>

-----------------------------------------------------------------------------
(* Replay: two autocommitted reads. *)

(* A pool read borrows a free connection for its duration. *)
CanRead(r) == R.via = "conn" \/ FreeConns # {}

(* The order the key belongs to. *)
ReplayOrder(r) ==
    /\ pc[r] = "replayOrder"
    /\ CanRead(r)
    /\ \/ \E o \in orders :
             /\ o.key = Key(r)
             /\ oid' = [oid EXCEPT ![r] = o.id]
             /\ Goto(r, "replayItems")
             /\ UNCHANGED code
       \/ /\ \A o \in orders : o.key # Key(r)
          /\ code' = [code EXCEPT ![r] = 500]
          /\ Goto(r, IF R.keepConn THEN "abort" ELSE "done")
          /\ UNCHANGED oid
    /\ UNCHANGED <<db, app, body, conn, owner, got, seen, idx, prior, faults>>

(* Its items, and the answer; a handler that kept its connection commits the
   transaction it may still be in and gives it back. *)
ReplayItems(r) ==
    /\ pc[r] = "replayItems"
    /\ CanRead(r)
    /\ code' = [code EXCEPT ![r] = 201]
    /\ Goto(r, "done")
    /\ IF R.keepConn
       THEN CommitTx(conn[r]) /\ PoolRelease(conn[r])
       ELSE UNCHANGED <<tables, session, owner>>
    /\ conn' = [conn EXCEPT ![r] = NoConn]
    /\ UNCHANGED <<nextId, app, body, got, seen, idx, oid, prior, faults>>

(* Node's catch block after a replay or a release() that threw: ROLLBACK on the
   client it no longer owns, whoever is using it by now, and as soon as that is
   answered release() of whoever's checkout it is.  Statements on one client
   wait for the answer to the one before, so none comes in between.  The
   request fails anyway. *)
StrayRollback(r) ==
    /\ pc[r] = "strayRollback"
    /\ Rollback(conn[r])
    /\ PoolRelease(conn[r])
    /\ conn' = [conn EXCEPT ![r] = NoConn]
    /\ Goto(r, "done")
    /\ UNCHANGED <<nextId, app, body, got, seen, idx, oid, code, prior, faults>>

-----------------------------------------------------------------------------
(* Faults. *)

Fault == faults < MaxFaults /\ faults' = faults + 1

(* lock_timeout, statement_timeout, a cancelled request, a lost connection. *)
StatementFails(r) ==
    /\ Fault
    /\ pc[r] \in Statements
    /\ txn[conn[r]] # "failed"
    /\ StatementError(conn[r])
    /\ Refuse(r, 500)
    /\ UNCHANGED <<nextId, app, body, conn, owner, got, seen, idx, oid, prior>>

(* COMMIT errors: either the server did not apply it or its answer was lost. *)
CommitFails(r) ==
    /\ Fault
    /\ pc[r] = "commit"
    /\ CommitTx(conn[r]) \/ Rollback(conn[r])
    /\ Refuse(r, 500)
    /\ UNCHANGED <<nextId, app, body, conn, owner, got, seen, idx, oid, prior>>

(* The wait for a connection timed out before BEGIN. *)
PoolTimeout(r) ==
    /\ Fault
    /\ pc[r] = "acquire"
    /\ FreeConns = {}
    /\ H.acquireTimeout
    /\ code' = [code EXCEPT ![r] = 500]
    /\ Goto(r, "done")
    /\ UNCHANGED <<db, app, body, conn, owner, got, seen, idx, oid, prior>>

(* A replay read errors, or times out waiting for a connection. *)
ReplayFails(r) ==
    /\ Fault
    /\ pc[r] \in {"replayOrder", "replayItems"}
    /\ CanRead(r) \/ H.acquireTimeout
    /\ code' = [code EXCEPT ![r] = 500]
    /\ Goto(r, R.onError)
    /\ UNCHANGED <<db, app, body, conn, owner, got, seen, idx, oid, prior>>

(* The application process dies and is started again: requests in flight are
   never answered, the server rolls their transactions back. *)
Restart ==
    /\ Fault
    /\ \E r \in Requests : InFlight(r)
    /\ pc' = [r \in Requests |-> IF InFlight(r) THEN "lost" ELSE pc[r]]
    /\ conn' = [r \in Requests |-> NoConn]
    /\ owner' = [c \in Conns |-> NoOwner]
    /\ DropSessions
    /\ UNCHANGED <<nextId, app, body, got, seen, idx, oid, code, prior>>

-----------------------------------------------------------------------------
Step(r) ==
    \/ Receive(r)
    \/ BeginTx(r)
    \/ LockProduct(r)
    \/ UnknownProduct(r)
    \/ CheckStock(r)
    \/ InsertOrder(r)
    \/ InsertConflict(r)
    \/ InsertItem(r)
    \/ InsertLedger(r)
    \/ DecrementStock(r)
    \/ WriteError(r)
    \/ Commit(r)
    \/ Respond(r)
    \/ Abort(r)
    \/ ReplayOrder(r)
    \/ ReplayItems(r)
    \/ StrayRollback(r)

Faulty(r) ==
    \/ StatementFails(r)
    \/ CommitFails(r)
    \/ PoolTimeout(r)
    \/ ReplayFails(r)

(* Every request has been answered, or lost with the process that ran it. *)
Finished ==
    /\ \A r \in Requests : pc[r] \in {"done", "lost"}
    /\ UNCHANGED vars

Next ==
    \/ \E r \in Requests : Step(r) \/ Faulty(r)
    \/ Restart
    \/ Finished

Spec == Init /\ [][Next]_vars

(* A handler whose next statement can proceed sends it: the runtimes schedule
   every handler.  No fault is ever owed. *)
FairSpec == Spec /\ \A r \in Requests : WF_vars(Step(r))
=============================================================================
