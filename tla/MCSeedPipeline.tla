--------------------------- MODULE MCSeedPipeline ---------------------------
(* The smallest seeds with two orders, or with two products and two items, and
   the sizes at which a table is empty. *)
EXTENDS SeedPipeline

Setting(c, p, o, i) == [customers |-> c, products |-> p, orders |-> o, items_per_order |-> i]

MCSizes == {Setting(1, 1, 2, 1), Setting(1, 2, 1, 2), Setting(0, 1, 1, 1),
            Setting(1, 0, 1, 1), Setting(1, 1, 1, 0)}
=============================================================================
