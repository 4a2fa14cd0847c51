---------------------------- MODULE SeedPipeline ----------------------------
(***************************************************************************)
(* How the database gets its seed.  `docker compose up` starts two         *)
(* containers with no dependency between them:                             *)
(*   seeder  runs seed.py, which writes five CSV files to the volume       *)
(*           seed-out: customers, then products, then the other three      *)
(*           together                                                      *)
(*   db      runs wait-seed.sh, which polls until the five files are there *)
(*           and execs the entrypoint of the postgres image; on an empty   *)
(*           data volume that runs 01-schema.sql and 02-seed.sql, which    *)
(*           copies the files in one after the other                       *)
(* Both volumes outlive the containers.                                    *)
(*                                                                         *)
(* A file or table is its number of rows.  What is on disk of a file being *)
(* written is what Python's buffer has been flushed of, which may end in   *)
(* the middle of a row (torn).                                             *)
(***************************************************************************)
EXTENDS Naturals, Sequences

CONSTANTS Sizes,    \* the settings [customers, products, orders, items_per_order]
          MaxUps    \* bound: how often the containers are started

ASSUME SizesAssumption ==
    Sizes \subseteq [customers: Nat, products: Nat, orders: Nat, items_per_order: Nat]
ASSUME MaxUpsAssumption == MaxUps \in Nat

Files == {"customers", "products", "orders", "order_items", "inventory_ledger"}

(* Mutant: the orders are written before what they refer to. *)
GroupsOrdersFirst ==
    <<{"orders", "order_items", "inventory_ledger"}, {"customers"}, {"products"}>>

(* The files seed.py has open at the same time, in the order it writes them,
   and the order in which 02-seed.sql loads them. *)
Groups == <<{"customers"}, {"products"}, {"orders", "order_items", "inventory_ledger"}>>
LoadOrder == <<"customers", "products", "orders", "order_items", "inventory_ledger">>

VARIABLES size,         \* the SEED_* settings of this testbed
          seeder,       \* "off", "running", "done" or "dead"
          group, open,  \* the group of files it is at; whether they are open
          csv,          \* the files on the volume: [rows, torn]
          db,           \* "off", "waiting", "loading", "serving" or "exited"
          initialised,  \* the data volume has a PG_VERSION
          step,         \* the next file of LoadOrder to load
          tables,       \* the tables: [rows, damaged]
          ups           \* how often the containers have been started

seederVars == <<seeder, group, open, csv>>
dbVars == <<db, initialised, step, tables>>
vars == <<size, seederVars, dbVars, ups>>

(* The rows of a complete file. *)
Rows(f) ==
    IF f \in {"customers", "products", "orders"} THEN size[f]
    ELSE size.orders * size.items_per_order

NoRows == [rows |-> 0, torn |-> FALSE]
EmptyTable == [rows |-> 0, damaged |-> FALSE]
Whole(f) == tables[f] = [rows |-> Rows(f), damaged |-> FALSE]

TypeOK ==
    /\ size \in Sizes
    /\ seeder \in {"off", "running", "done", "dead"}
    /\ group \in 1 .. 4
    /\ open \in BOOLEAN
    /\ csv \in [Files -> [rows: Nat, torn: BOOLEAN]]
    /\ db \in {"off", "waiting", "loading", "serving", "exited"}
    /\ initialised \in BOOLEAN
    /\ step \in 1 .. 6
    /\ tables \in [Files -> [rows: Nat, damaged: BOOLEAN]]
    /\ ups \in 0 .. MaxUps

Init ==
    /\ size \in Sizes
    /\ seeder = "off" /\ group = 1 /\ open = FALSE
    /\ csv = [f \in Files |-> NoRows]
    /\ db = "off" /\ initialised = FALSE /\ step = 1
    /\ tables = [f \in Files |-> EmptyTable]
    /\ ups = 0
-----------------------------------------------------------------------------
(* The operator *)

(* up.sh: a container that is not running is started, also one that has
   finished its work before. *)
Up ==
    /\ ups < MaxUps
    /\ ups' = ups + 1
    /\ IF seeder = "running"
       THEN UNCHANGED <<seeder, group, open>>
       ELSE seeder' = "running" /\ group' = 1 /\ open' = FALSE
    /\ db' = IF db \in {"off", "exited"} THEN "waiting" ELSE db
    /\ UNCHANGED <<size, csv, initialised, step, tables>>

(* down.sh without --volumes: both containers are stopped, wherever they are.
   (Under the same bound as Up: nothing follows the last Down.) *)
Down ==
    /\ ups < MaxUps
    /\ db # "off"
    /\ db' = "off"
    /\ seeder' = IF seeder = "running" THEN "dead" ELSE seeder
    /\ UNCHANGED <<size, group, open, csv, initialised, step, tables, ups>>
-----------------------------------------------------------------------------
(* seed.py *)

(* open(..., "w") empties the files of the next group, whatever they held. *)
OpenFiles ==
    /\ seeder = "running" /\ ~open /\ group <= 3
    /\ open' = TRUE
    /\ csv' = [f \in Files |-> IF f \in Groups[group] THEN NoRows ELSE csv[f]]
    /\ UNCHANGED <<size, seeder, group, dbVars, ups>>

(* The writers fill buffers; a full one is written out, rows or not. *)
Flush(f) ==
    /\ seeder = "running" /\ open /\ group <= 3 /\ f \in Groups[group]
    /\ \E n \in csv[f].rows .. Rows(f), torn \in BOOLEAN :
          /\ torn => n < Rows(f)
          /\ csv[f].torn /\ ~torn => n > csv[f].rows
          /\ csv' = [csv EXCEPT ![f] = [rows |-> n, torn |-> torn]]
    /\ UNCHANGED <<size, seeder, group, open, dbVars, ups>>

(* randrange(1, n + 1) has nothing to draw from when there are no customers,
   or no products for an item. *)
NothingToDraw ==
    /\ group = 3 /\ size.orders > 0
    /\ size.customers = 0 \/ (size.products = 0 /\ size.items_per_order > 0)

(* Mutant: the next group is skipped. *)
CloseFilesSkips ==
    /\ seeder = "running" /\ open /\ group <= 3
    /\ ~NothingToDraw
    /\ open' = FALSE
    /\ group' = group + 2
    /\ seeder' = IF group = 3 THEN "done" ELSE "running"
    /\ UNCHANGED <<size, csv, dbVars, ups>>

(* All rows are written: leaving the with block flushes and closes the files. *)
CloseFiles ==
    /\ seeder = "running" /\ open /\ group <= 3
    /\ ~NothingToDraw
    /\ csv' = [f \in Files |-> IF f \in Groups[group]
                               THEN [rows |-> Rows(f), torn |-> FALSE] ELSE csv[f]]
    /\ open' = FALSE
    /\ group' = group + 1
    /\ seeder' = IF group = 3 THEN "done" ELSE "running"
    /\ UNCHANGED <<size, dbVars, ups>>

(* The ValueError of NothingToDraw ends the script at the first order, whose
   row is written when it was an item that could not be drawn. *)
SeederRaises ==
    /\ seeder = "running" /\ open /\ NothingToDraw
    /\ csv' = [csv EXCEPT !["orders"] =
                 [rows |-> IF size.customers = 0 THEN 0 ELSE 1, torn |-> FALSE]]
    /\ open' = FALSE
    /\ seeder' = "dead"
    /\ UNCHANGED <<size, group, dbVars, ups>>

(* The container is killed, for instance at its memory limit. *)
SeederDies ==
    /\ seeder = "running"
    /\ seeder' = "dead"
    /\ UNCHANGED <<size, group, open, csv, dbVars, ups>>
-----------------------------------------------------------------------------
(* wait-seed.sh and the entrypoint *)

(* test -s: the file is not empty. *)
NonEmpty(f) == csv[f].rows > 0 \/ csv[f].torn

(* Mutant: only the files of the first two groups are waited for. *)
ReadyEarly == NonEmpty("customers") /\ NonEmpty("products")

Ready == \A f \in Files : NonEmpty(f)

(* Mutant: the entrypoint loads the seed whatever is on the data volume. *)
HandOffAlwaysLoads ==
    /\ db = "waiting" /\ Ready
    /\ db' = "loading" /\ step' = 1
    /\ initialised' = TRUE
    /\ UNCHANGED <<size, seederVars, tables, ups>>

(* exec docker-entrypoint.sh: with a PG_VERSION on the volume the server is
   started as it is; without one it is created and the init scripts run. *)
HandOff ==
    /\ db = "waiting" /\ Ready
    /\ IF initialised
       THEN db' = "serving" /\ UNCHANGED <<initialised, step>>
       ELSE db' = "loading" /\ initialised' = TRUE /\ step' = 1
    /\ UNCHANGED <<size, seederVars, tables, ups>>

(* Mutant: there is no deadline. *)
WaitHasNoDeadline == FALSE

(* SEED_WAIT_SECONDS have passed. *)
WaitTimesOut ==
    /\ db = "waiting" /\ ~Ready
    /\ db' = "exited"
    /\ UNCHANGED <<size, seederVars, initialised, step, tables, ups>>
-----------------------------------------------------------------------------
(* 02-seed.sql *)

(* The rows COPY finds in a file, the torn one included. *)
Found(f) == csv[f].rows + (IF csv[f].torn THEN 1 ELSE 0)

(* The tables whose rows those of f refer to by random numbers. *)
Parents(f) ==
    (IF f = "orders" THEN {"customers"} ELSE {})
      \cup (IF f \in {"order_items", "inventory_ledger"} THEN {"products"} ELSE {})

(* Rows of items and ledger name their order by its number. *)
OrderMissing(f) ==
    /\ f \in {"order_items", "inventory_ledger"}
    /\ Found(f) > tables["orders"].rows * size.items_per_order

(* A row refers to a parent that was not loaded: that may be so when some were
   not, and must be when none was. *)
MayMissParent(f) == \E p \in Parents(f) : tables[p].rows < Rows(p)
MissesParent(f) == Found(f) > 0 /\ \E p \in Parents(f) : tables[p].rows = 0

(* The last value of a torn row may still be one the column accepts: a
   country or a price cut short.  A cut uuid, flag or delta is not. *)
LoadsTorn(f) == f \in {"customers", "order_items"}

Copy ==
    /\ db = "loading" /\ step <= 5
    /\ LET f == LoadOrder[step] IN
         /\ ~OrderMissing(f) /\ ~MissesParent(f)
         /\ csv[f].torn => LoadsTorn(f)
         /\ tables' = [tables EXCEPT ![f] =
                         [rows |-> Found(f), damaged |-> csv[f].torn]]
    /\ step' = step + 1
    /\ UNCHANGED <<size, seederVars, db, initialised, ups>>

CanFail(f) == OrderMissing(f) \/ MayMissParent(f) \/ csv[f].torn

(* ON_ERROR_STOP ends psql, and with it the entrypoint: the container exits
   and the data volume stays as it is. *)
CopyFails ==
    /\ db = "loading" /\ step <= 5
    /\ CanFail(LoadOrder[step])
    /\ db' = "exited"
    /\ UNCHANGED <<size, seederVars, initialised, step, tables, ups>>

Serve ==
    /\ db = "loading" /\ step = 6
    /\ db' = "serving"
    /\ UNCHANGED <<size, seederVars, initialised, step, tables, ups>>
-----------------------------------------------------------------------------
Seeder == OpenFiles \/ CloseFiles \/ SeederRaises \/ SeederDies
             \/ \E f \in Files : Flush(f)
Database == HandOff \/ WaitTimesOut \/ Copy \/ CopyFails \/ Serve

Next == Up \/ Down \/ Seeder \/ Database

Spec == Init /\ [][Next]_vars

(* wait-seed.sh has a deadline and psql runs to its end: the database
   container always moves on. *)
FairSpec == Spec /\ WF_vars(Database)
-----------------------------------------------------------------------------
(* What the wait is for: the database serves the seed, all of it.  That
   wait-seed.sh sees five files that are not empty does not mean that seed.py has
   finished them; and after a load that was broken off the next start takes the
   data volume as it is. *)
ServedSeedIsWhole == db = "serving" => \A f \in Files : Whole(f)

(* On the first start the customers and products that 02-seed.sql loads are
   complete, however early it runs: the files wait-seed.sh waits for include
   those that seed.py only opens after closing these two. *)
FirstStartLoadsParents ==
    ups = 1 => \A i \in 1 .. 2 :
        step > i /\ db \in {"loading", "serving"} => Whole(LoadOrder[i])

(* A table without rows is a file that test -s never accepts, so that a seed
   of size 0 keeps the database from coming up at all. *)
EmptySeedNeverServes ==
    (\E f \in Files : Rows(f) = 0) => db \notin {"loading", "serving"}

(* 02-seed.sql never copies a file over rows that are there, whatever the
   containers and the seeder do and wherever an earlier load was broken off: the
   entrypoint comes to it once in the life of the data volume. *)
FilledOnce == [][\A f \in Files : tables'[f] # tables[f] => tables[f] = EmptyTable]_vars

(* The database container does not wait for ever: it serves, or it exits. *)
WaitEnds == db \in {"waiting", "loading"} ~> db \in {"serving", "exited", "off"}
=============================================================================
