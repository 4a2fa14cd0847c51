--------------------------- MODULE MCConformance ---------------------------
(* The four products of the suite and one at the highest price and stock of the
   seed.  The other client asks for every kind of request the application tells
   apart, the orders at the limits of parse_body included. *)
EXTENDS Conformance

MCProducts == {"p1", "p2", "p3", "p4", "dear"}
MCPrice == [p \in MCProducts |-> IF p = "dear" THEN 99999 ELSE 100]
MCStock0 == [p \in MCProducts |-> IF p = "dear" THEN 999 ELSE 2]
MCSettings == {[dsn |-> TRUE, poolSize |-> 1], [dsn |-> TRUE, poolSize |-> 2],
               [dsn |-> TRUE, poolSize |-> 0], [dsn |-> FALSE, poolSize |-> 1]}

MCWords == {"none", "object", "known", "unknown", "notInt", "huge", "notUuid", "k", "create",
            "replay", "30", "9999", "p999"} \cup MCProducts

Lines(n, product, quantity) == [i \in 1 .. n |-> [product |-> product, quantity |-> quantity]]
Order(key, customer, items) ==
    Call(0, "orders", "none", key, [form |-> "object", customer |-> customer, items |-> items])

MCOtherRequests ==
    {Get(0, "product", "notInt"), Get(0, "product", "huge"), Get(0, "other", "none"),
     Get(0, "dashboard", "notInt"), Get(0, "dashboard", "9999"),
     Call(0, "orders", "none", "k", NoBody),
     Order("notUuid", "known", Lines(1, "p3", 1)), Order("k", "unknown", Lines(1, "p3", 1)),
     Order("k", "huge", Lines(1, "p3", 1)),
     Order("k", "known", <<>>), Order("k", "known", Lines(1, "p3", 1)),
     Order("k", "known", Lines(2, "p3", 1)), Order("k", "known", Lines(2, "p3", 2)),
     Order("k", "known", Lines(1, "p3", 1001)), Order("k", "known", Lines(1, "p999", 1)),
     Order("k", "known", Lines(1, "huge", 1)),
     Order("k", "known", Lines(20, "dear", 999)), Order("k", "known", Lines(22, "dear", 999))}
=============================================================================
