-------------------------- MODULE IdempotentOrders --------------------------
(***************************************************************************)
(* What POST /orders promises (contracts/openapi.yaml), without            *)
(* transactions, locks or connections: an order is placed in one atomic    *)
(* step, at most once per key and only out of stock that is there; a 201   *)
(* names the order its key has; a 409 is given only while some item asks   *)
(* for more than the stock.  A 500 promises nothing.                       *)
(***************************************************************************)
EXTENDS OrderItems

CONSTANTS Products, InitStock, Requests,
          Ids           \* what the database can draw an order id from

VARIABLES body,     \* key and items of every request
          stock,    \* products.stock
          placed,   \* the orders: id and key
          answer    \* status and order id sent, NoAnswer before

NoAnswer == [code |-> 0, id |-> 0]

Init ==
    /\ stock = InitStock
    /\ placed = {}
    /\ answer = [r \in Requests |-> NoAnswer]

(* Units of product p the request asks for, over all its items. *)
Need(r, p) == Units(body[r].items, p)

Place(r) ==
    /\ \A o \in placed : o.key # body[r].key
    /\ \A p \in Products : Need(r, p) <= stock[p]
    /\ stock' = [p \in Products |-> stock[p] - Need(r, p)]
    /\ \E id \in Ids :
          /\ \A o \in placed : o.id # id
          /\ placed' = placed \cup {[id |-> id, key |-> body[r].key]}
    /\ UNCHANGED <<body, answer>>

Send(r, s, i) ==
    /\ answer[r] = NoAnswer
    /\ answer' = [answer EXCEPT ![r] = [code |-> s, id |-> i]]
    /\ UNCHANGED <<body, stock, placed>>

Created(r) == \E o \in placed : o.key = body[r].key /\ Send(r, 201, o.id)

Invalid(r) ==
    /\ \/ body[r].items = <<>>
       \/ \E i \in DOMAIN body[r].items :
             \/ body[r].items[i].quantity = 0
             \/ body[r].items[i].product \notin Products
    /\ Send(r, 400, 0)

OutOfStock(r) ==
    /\ \E i \in DOMAIN body[r].items :
          /\ body[r].items[i].product \in Products
          /\ stock[body[r].items[i].product] < body[r].items[i].quantity
    /\ Send(r, 409, 0)

Failed(r) == Send(r, 500, 0)

Next == \E r \in Requests :
            Place(r) \/ Created(r) \/ Invalid(r) \/ OutOfStock(r) \/ Failed(r)

Spec == Init /\ [][Next]_<<body, stock, placed, answer>>
=============================================================================
