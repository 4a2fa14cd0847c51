--------------------------- MODULE OrderInvariant ---------------------------
(***************************************************************************)
(* The inductive invariants behind the properties of OrderProperties.      *)
(* HandlerInv and KeyInv hold for all eight applications; the others for   *)
(* those that never touch a connection they have given back, that is, all  *)
(* but Node.                                                               *)
(***************************************************************************)
EXTENDS OrderProperties

InTx == Statements \cup {"check", "commit"}
Replaying == {"replayOrder", "replayItems"}
Stray == {"strayRollback"}

(* The steps at which a handler refers to a connection. *)
RefersTo(r) ==
    \/ pc[r] \in InTx \cup {"respond", "abort"} \cup Stray
    \/ pc[r] \in Replaying /\ (R.keepConn \/ R.onError = "strayRollback")

(* A handler past the lock loop has read every product it needs, and it is at
   one of its items. *)
HandlerInv ==
    \A r \in Requests :
        /\ RefersTo(r) => conn[r] \in Conns
        /\ pc[r] \in (InTx \ {"lock"}) => Wanted(r) \subseteq got[r]
        /\ pc[r] = "new" => idx[r] = 1
        /\ InFlight(r) => idx[r] \in 1 .. Len(Items(r))

(* Keys and ids are unique over the committed orders and those of every open
   transaction together. *)
KeyInv ==
    /\ \A o \in orders : o.id < nextId
    /\ \A c \in Conns : \A o \in work[c].ins : o.id < nextId
    /\ OneOrderPerKey
    /\ \A c \in Conns : \A o1 \in work[c].ins : \A o2 \in orders :
          o1.key # o2.key /\ o1.id # o2.id
    /\ \A c, d \in Conns : \A o1 \in work[c].ins : \A o2 \in work[d].ins :
          o1.key = o2.key \/ o1.id = o2.id => o1 = o2 /\ c = d

(* A handler owns the connection it refers to, refers to none otherwise, and
   what lies in the pool, or is about to, is clean; no handler comes back to a
   connection it has given back. *)
PoolInv ==
    /\ \A r \in Requests :
          IF RefersTo(r) THEN conn[r] \in Conns /\ owner[conn[r]] = r
                         ELSE conn[r] = NoConn
    /\ \A c \in Conns :
          \/ owner[c] = NoOwner /\ Clean(c)
          \/ /\ owner[c] \in Requests
             /\ RefersTo(owner[c]) /\ conn[owner[c]] = c
    /\ \A r \in Requests : pc[r] = "respond" => Clean(conn[r])
    /\ \A r \in Requests : pc[r] \notin Stray

(* Units of p that the ledger has and the stock has not yet been charged. *)
Uncharged(r, p) ==
    IF pc[r] = "stock" /\ p = Current(r).product THEN Current(r).quantity ELSE 0

Pending(r) == [id |-> oid[r], key |-> Key(r), by |-> r]

(* What a handler's transaction has written at each of its steps. *)
TxAt(r) ==
    /\ pc[r] \in InTx => txn[conn[r]] = "open"
    /\ pc[r] \in {"lock", "check", "insert"} => work[conn[r]] = NoWork
    /\ pc[r] \in {"item", "ledger", "stock", "commit"} =>
          /\ Pending(r) \in work[conn[r]].ins
          /\ \A p \in Products :
                work[conn[r]].led[p]
                   = -work[conn[r]].dec[p] - Uncharged(r, p)
    /\ pc[r] = "abort" \/ (pc[r] \in Replaying /\ R.keepConn) =>
          (txn[conn[r]] = "open" => work[conn[r]] = NoWork)

TxInv == \A r \in Requests : TxAt(r)

(* No row is locked by two connections, and a transaction takes stock only from
   rows it has locked. *)
LocksExclude ==
    /\ \A c, d \in Conns : rowLocks[c] \cap rowLocks[d] # {} => c = d
    /\ \A c \in Conns : \A p \in Products :
          work[c].dec[p] # 0 => p \in rowLocks[c]

(* What a handler has read is locked by its transaction and still current. *)
ReadAt(r) ==
    /\ pc[r] \in {"new", "acquire"} => got[r] = {}
    /\ pc[r] \in InTx =>
          /\ got[r] \subseteq rowLocks[conn[r]]
          /\ \A p \in got[r] : seen[r][p] = stock[p]

LockInv == LocksExclude /\ \A r \in Requests : ReadAt(r)

(* A request's order is in the transaction of the connection it owns, then in
   the table; by then the request is past every refusal. *)
OwnInv ==
    /\ \A c \in Conns : \A o \in work[c].ins : o.by = owner[c]
    /\ \A o \in orders :
          \/ pc[o.by] \in {"respond", "lost"}
          \/ pc[o.by] \in {"abort", "done"} /\ code[o.by] \in {201, 500}

Writing == {"item", "ledger", "stock", "commit"}

(* How many of its items a handler has inserted, and how many of them it has
   taken from the stock. *)
Inserted(r) == IF pc[r] = "item" THEN idx[r] - 1 ELSE idx[r]
Charged(r) == IF pc[r] = "commit" THEN idx[r] ELSE idx[r] - 1

LineOf(o, i) == [order |-> o.id, ln |-> i,
                 product |-> Items(o.by)[i].product,
                 quantity |-> Items(o.by)[i].quantity]

(* The loop starts at the first item, and at each of its steps the transaction
   holds the order, the lines inserted so far and the stock taken so far, and
   no more stock than there is. *)
ContentAt(r) ==
    LET w == work[conn[r]] IN
    /\ pc[r] \in {"acquire", "lock", "check", "insert"} => idx[r] = 1
    /\ pc[r] = "commit" => idx[r] = Len(Items(r))
    /\ pc[r] \in Writing =>
          /\ w.ins = {Pending(r)}
          /\ w.lns = {LineOf(Pending(r), i) : i \in 1 .. Inserted(r)}
          /\ \A p \in Products :
                /\ w.dec[p] = UnitsUpTo(Items(r), p)[Charged(r)]
                /\ w.dec[p] <= stock[p]

ContentInv ==
    /\ \A p \in Products : stock[p] >= 0
    /\ \A r \in Requests : ContentAt(r)

(* The lines of the committed orders, and nothing else. *)
LinesInv ==
    lines = UNION {{LineOf(o, i) : i \in 1 .. Len(Items(o.by))} : o \in orders}

(* The units of a set of lines. *)
Total(S) == MapThenSumSet(LAMBDA l : l.quantity, S)

(* order_items is finite, and the ledger has the units of its lines. *)
LedgerInv ==
    /\ IsFiniteSet(lines)
    /\ \A p \in Products : ledger[p] = -Total({l \in lines : l.product = p})

(* Some line of the order asks for more than the stock, or for a product that
   does not exist. *)
Short(r) == \E i \in DOMAIN Items(r) : /\ Items(r)[i].product \in Products
                                       /\ stock[Items(r)[i].product] < Items(r)[i].quantity
Unknown(r) == \E i \in DOMAIN Items(r) : Items(r)[i].product \notin Products

(* A status is decided for a reason that lasts: stock never grows. *)
VerdictInv ==
    \A r \in Requests :
        /\ pc[r] \in InTx \cup {"new", "acquire"} => code[r] = 0
        /\ pc[r] = "abort" => code[r] \in {400, 409, 500}
        /\ code[r] = 400 => Invalid(r) \/ Unknown(r)
        /\ code[r] = 409 => Short(r)

(* The sequence starts at 1 and has been drawn from at most once per request
   past its INSERT. *)
Drawn == {r \in Requests : pc[r] \notin {"new", "acquire", "lock", "check", "insert"}}
IdInv ==
    /\ nextId <= 1 + Cardinality(Drawn) /\ nextId > 0
    /\ \A r \in Requests : pc[r] \in Writing => oid[r] > 0

(* Validation comes first. *)
ValidInv == \A r \in Requests : InFlight(r) => ~Invalid(r)

(* Past the check no single line asks for more than the stock; the key of a
   replay has an order; and without a fault, a 500 has its cause. *)
CauseInv ==
    \A r \in Requests :
        /\ pc[r] \in {"insert"} \cup Writing => ~Short(r)
        /\ pc[r] \in Replaying => \E o \in orders : o.key = Key(r)
        /\ faults = 0 /\ code[r] = 500 => HasCause(r)

(* A 201 is decided only over an order that is durable. *)
AckInv ==
    \A r \in Requests :
        /\ code[r] = 201 => pc[r] = "done"
        /\ Answered(r, 201) \/ pc[r] \in {"respond", "replayItems"} =>
              \E o \in orders : o.key = Key(r) /\ o.id = oid[r]
=============================================================================
