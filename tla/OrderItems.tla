----------------------------- MODULE OrderItems -----------------------------
(* How many units of a product the items of an order ask for. *)
EXTENDS Integers, Sequences

(* What item i asks for of product p. *)
Part(items, p, i) == IF items[i].product = p THEN items[i].quantity ELSE 0

(* The running total: UnitsUpTo(items, p)[i] is what the first i items ask for. *)
UnitsUpTo(items, p) ==
    LET sum[i \in 0 .. Len(items)] ==
            IF i = 0 THEN 0 ELSE sum[i - 1] + Part(items, p, i)
    IN  sum

Units(items, p) == UnitsUpTo(items, p)[Len(items)]
=============================================================================
