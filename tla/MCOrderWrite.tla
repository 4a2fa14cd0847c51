---------------------------- MODULE MCOrderWrite ----------------------------
(* Small instances of OrderWrite for TLC. *)
EXTENDS OrderProperties, TLC

CONSTANTS r1, r2, r3, r4, k1, k2, c1, c2, c3

Take(p, q) == [product |-> p, quantity |-> q]
Req(k, items) == [key |-> k, customer |-> 1, totalFits |-> TRUE, items |-> items]

MCInitStock == 1 :> 2 @@ 2 :> 1

(* Two tries of one order against another order for the same two products,
   listed in the opposite order; there is enough of product 2 for one. *)
Contend == r1 :> Req(k1, <<Take(2, 1), Take(1, 1)>>)
        @@ r2 :> Req(k1, <<Take(2, 1), Take(1, 1)>>)
        @@ r3 :> Req(k2, <<Take(1, 1), Take(2, 1)>>)

(* One key on three bodies with different rows: only the unique index makes
   them wait for each other. *)
OneKey == r1 :> Req(k1, <<Take(1, 1)>>)
       @@ r2 :> Req(k1, <<Take(2, 1)>>)
       @@ r3 :> Req(k1, <<Take(1, 1)>>)

(* A product that does not exist, an order without items, an order that takes
   the whole stock. *)
Refused == r1 :> Req(k1, <<Take(1, 1), Take(3, 1)>>)
        @@ r2 :> Req(k2, <<>>)
        @@ r3 :> Req(k1, <<Take(1, 2)>>)

(* A third order that can still be served after the first. *)
Room == r1 :> Req(k1, <<Take(1, 1)>>)
     @@ r2 :> Req(k1, <<Take(1, 1)>>)
     @@ r3 :> Req(k2, <<Take(1, 1)>>)

(* A product on two lines: within the stock, and beyond it although each line
   alone is not. *)
TwoLines == r1 :> Req(k1, <<Take(1, 1), Take(1, 1)>>)
         @@ r2 :> Req(k2, <<Take(2, 1), Take(2, 1)>>)
         @@ r3 :> Req(k1, <<Take(1, 1), Take(1, 1)>>)

(* Orders of one key of which none can be stored but by validation or the
   constraints of the schema being lax: a customer there is not, a total that
   does not fit, a quantity below 1. *)
Unstorable == r1 :> [Req(k1, <<Take(1, 1)>>) EXCEPT !.customer = 2]
           @@ r2 :> [Req(k1, <<Take(1, 1)>>) EXCEPT !.totalFits = FALSE]
           @@ r3 :> Req(k1, <<Take(2, 1), Take(2, 0)>>)

(* An unknown customer with the key of an order that can be stored. *)
Mixed == r1 :> [Req(k1, <<Take(1, 1)>>) EXCEPT !.customer = 2]
      @@ r2 :> Req(k1, <<Take(1, 1)>>)
      @@ r3 :> [Req(k1, <<Take(2, 1)>>) EXCEPT !.totalFits = FALSE]

MCWorkloads == {Contend, OneKey, Refused, Room, TwoLines, Unstorable, Mixed}
(* The connections of a pool are interchangeable. *)
ConnSymmetry == Permutations(Conns)

(* A retry, and two more orders that take turns with it on a connection. *)
MCFour == {Room @@ r4 :> Req(k2, <<Take(1, 1)>>)}
MCRetry == {Contend}

(* An order the CHECK constraint refuses, and its retry. *)
Beyond == r1 :> Req(k1, <<Take(2, 1), Take(2, 1)>>)
       @@ r2 :> Req(k1, <<Take(2, 1), Take(2, 1)>>)
       @@ r3 :> Req(k2, <<>>)

(* The workloads in which requests wait for each other, or fail. *)
MCWaiting == {Contend, OneKey, Refused, Beyond, Unstorable, Mixed}
=============================================================================
