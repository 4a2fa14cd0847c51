-------------------------- MODULE OrderProperties --------------------------
(***************************************************************************)
(* What makes POST /orders correct, over the variables of OrderWrite.      *)
(***************************************************************************)
EXTENDS OrderWrite, OrderItems, FiniteSetsExt

Answered(r, s) == pc[r] = "done" /\ code[r] = s

(* A connection outside any transaction. *)
Clean(c) == txn[c] = "idle" /\ rowLocks[c] = {} /\ work[c] = NoWork

(* "The framework must not create a duplicate row" (contracts/openapi.yaml):
   however requests with one key overlap, fail and are retried, at most one
   order carries that key, and no two orders share an id. *)
OneOrderPerKey ==
    \A o1, o2 \in orders :
        o1.key = o2.key \/ o1.id = o2.id => o1 = o2

(* A 201 names an order that is durable under the request's own key, whether
   this request created it or replayed it. *)
AckedIsDurable ==
    \A r \in Requests :
        Answered(r, 201) =>
            \E o \in orders : o.key = Key(r) /\ o.id = oid[r]

(* The stock decrement and the ledger agree: no interleaving or failure of the
   three-table write loses or doubles a unit of stock. *)
LedgerMatchesStock ==
    \A p \in Products : stock[p] = InitStock[p] + ledger[p]

(* Every durable order has exactly the items its request asked for, and the
   ledger records exactly the units of those items: the write is all or
   nothing across orders, order_items and inventory_ledger. *)
NoPartialOrder ==
    /\ lines = UNION {{[order |-> o.id, ln |-> i,
                        product |-> Items(o.by)[i].product,
                        quantity |-> Items(o.by)[i].quantity] :
                           i \in DOMAIN Items(o.by)} : o \in orders}
    /\ \A p \in Products :
          ledger[p] = -MapThenSumSet(LAMBDA l : l.quantity,
                                     {l \in lines : l.product = p})

(* The stock a handler read under its row locks is still the committed stock
   when it decides on it and until it commits. *)
ReadStockIsCurrent ==
    \A r \in Requests :
        pc[r] \in Statements \cup {"check", "commit"} =>
            \A p \in got[r] : seen[r][p] = stock[p]

(* Two handlers never speak on one connection; a connection a handler does not
   hold carries neither a transaction nor a lock; and a connection is checked
   out only by a request that is still in flight and refers to it. *)
ConnectionsAreExclusive ==
    /\ \A r1, r2 \in Requests :
          conn[r1] = conn[r2] /\ conn[r1] # NoConn => r1 = r2
    /\ \A c \in Conns :
          \/ owner[c] = NoOwner /\ Clean(c)
          \/ /\ owner[c] # NoOwner
             /\ InFlight(owner[c])
             /\ conn[owner[c]] = c

(* A request that was refused (400, 409) left no order behind. *)
RefusalWroteNothing ==
    \A r \in Requests :
        Answered(r, 400) \/ Answered(r, 409) => \A o \in orders : o.by # r

(* No lost update: products.stock changes only in a step that ends a
   transaction holding the row's lock, by what that transaction took. *)
StockChangesUnderLock ==
    [][\A p \in Products :
          stock'[p] # stock[p] =>
             \E c \in Conns :
                /\ p \in rowLocks[c] /\ rowLocks'[c] = {}
                /\ stock'[p] = stock[p] - work[c].dec[p]]_vars

(* A handler waiting for a pool connection holds none. *)
NoHoldAndWait ==
    \A r \in Requests :
        pc[r] \in {"replayOrder", "replayItems"} /\ R.via = "pool" =>
            \A c \in Conns : owner[c] # r

(* The lines of request r that name product p. *)
LinesOf(r, p) == {i \in DOMAIN Items(r) : Items(r)[i].product = p}

(* What can make a handler fail without a fault.  The constraints of the schema
   find a total that does not fit, a customer there is not, a quantity below 1
   where validation has let it pass, and several lines of one product that
   together exceed its stock.  Phoenix also fails on an order it means to
   refuse. *)
HasCause(r) ==
    \/ ~TotalFits(r)
    \/ ~CustomerKnown(r)
    \/ ~H.positive /\ \E i \in DOMAIN Items(r) : Items(r)[i].quantity = 0
    \/ \E p \in Products :
          Cardinality(LinesOf(r, p)) > 1 /\ Units(Items(r), p) > stock[p]
    \/ /\ app = "phoenix"
       /\ \E i \in DOMAIN Items(r) :
             \/ Items(r)[i].product \notin Products
             \/ Items(r)[i].quantity > stock[Items(r)[i].product]

(* The contract has no 500.  Without a fault a handler sends one only for one of
   these reasons, all of which lie in the order itself: never because of what
   the requests beside it do. *)
ServerErrorHasCause ==
    faults = 0 => \A r \in Requests : Answered(r, 500) => HasCause(r)

(* "A repeated POST with the same key returns the original 201 with the
   original order id" (contracts/openapi.yaml): a request whose key already
   had an order when it arrived answers 201 with that order. *)
ReplayReturnsOriginal ==
    \A r \in Requests :
        pc[r] = "done" /\ prior[r] # 0 /\ ~Invalid(r) =>
            code[r] = 201 /\ oid[r] = prior[r]

(* Every request is answered, as long as its process lives: the sorted lock
   order and the key's wait come to no deadlock, nor does the pool. *)
EveryRequestAnswered ==
    \A r \in Requests : <>(pc[r] \in {"done", "lost"})

(* The implementation's view of IdempotentOrders; a request draws at most one
   id from the sequence. *)
Promise == INSTANCE IdempotentOrders WITH
    Ids <- 1 .. Cardinality(Requests),
    placed <- {[id |-> o.id, key |-> o.key] : o \in orders},
    answer <- [r \in Requests |->
                 IF pc[r] # "done" THEN [code |-> 0, id |-> 0]
                 ELSE [code |-> code[r],
                       id |-> IF code[r] = 201 THEN oid[r] ELSE 0]]

(* Every step of every handler is a step of IdempotentOrders or invisible to
   the client and to the tables. *)
KeepsThePromise == Promise!Spec
=============================================================================
