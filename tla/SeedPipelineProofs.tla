------------------------- MODULE SeedPipelineProofs -------------------------
(***************************************************************************)
(* Proofs of the safety properties of SeedPipeline for every size of the   *)
(* seed and every number of starts.                                        *)
(***************************************************************************)
EXTENDS SeedPipeline, TLAPS

Complete(f) == [rows |-> Rows(f), torn |-> FALSE]

(* No file has more than its rows, nor a torn one beyond them. *)
CsvBounded ==
    \A f \in Files : /\ csv[f].rows <= Rows(f)
                     /\ csv[f].torn => csv[f].rows < Rows(f)

(* The groups before the one the seeder is at are complete. *)
WrittenGroups ==
    /\ \A i \in 1 .. 3 : i < group => \A f \in Groups[i] : csv[f] = Complete(f)
    /\ seeder = "done" => group = 4

(* Until the second start, orders.csv has nothing before its turn. *)
FirstStart ==
    /\ ups = 0 => seeder = "off" /\ group = 1 /\ db = "off" /\ ~initialised
    /\ ups <= 1 /\ group < 3 => csv["orders"] = NoRows
    /\ ups = 1 /\ initialised => db # "waiting"
    /\ ups = 1 /\ db \in {"loading", "serving"} => group >= 3

(* What 02-seed.sql has not come to is empty. *)
EmptyAhead ==
    /\ ~initialised => \A f \in Files : tables[f] = EmptyTable
    /\ db \in {"loading", "serving"} => initialised
    /\ db = "loading" => \A i \in 1 .. 5 : i >= step => tables[LoadOrder[i]] = EmptyTable

NoEmptyTable == initialised => \A f \in Files : Rows(f) > 0

IInv ==
    /\ TypeOK /\ CsvBounded /\ WrittenGroups /\ FirstStart
    /\ EmptyAhead /\ NoEmptyTable /\ FirstStartLoadsParents

(* The number of rows of a file is a number. *)
LEMMA RowsNat == ASSUME TypeOK, NEW f \in Files PROVE Rows(f) \in Nat
  <1>1. size \in [customers: Nat, products: Nat, orders: Nat, items_per_order: Nat]
    BY SizesAssumption DEF TypeOK
  <1>2. size.orders * size.items_per_order \in Nat
    BY <1>1
  <1> QED BY <1>1, <1>2 DEF Rows, Files

(* The members of the lists of files. *)
LEMMA FileLists ==
    /\ \A i \in 1 .. 3 : Groups[i] \subseteq Files
    /\ \A i \in 1 .. 5 : LoadOrder[i] \in Files
    /\ \A f \in Files : \E i \in 1 .. 5 : f = LoadOrder[i]
    /\ \A f \in Files : \E i \in 1 .. 3 : f \in Groups[i]
    /\ \A i, j \in 1 .. 5 : i # j => LoadOrder[i] # LoadOrder[j]
    /\ \A i, j \in 1 .. 3 : i # j => Groups[i] \cap Groups[j] = {}
    /\ LoadOrder[1] \in Groups[1] /\ LoadOrder[2] \in Groups[2]
    /\ "orders" \in Groups[3] /\ "orders" \in Files
  <1>1. Groups[1] = {"customers"} /\ Groups[2] = {"products"}
        /\ Groups[3] = {"orders", "order_items", "inventory_ledger"}
    BY DEF Groups
  <1>2. /\ LoadOrder[1] = "customers" /\ LoadOrder[2] = "products"
        /\ LoadOrder[3] = "orders" /\ LoadOrder[4] = "order_items"
        /\ LoadOrder[5] = "inventory_ledger"
    BY DEF LoadOrder
  <1>3. 1 .. 3 = {1, 2, 3} /\ 1 .. 5 = {1, 2, 3, 4, 5}
    OBVIOUS
  <1> QED BY <1>1, <1>2, <1>3 DEF Files

(* The initial states satisfy the inductive invariant. *)
LEMMA InitIInv == ASSUME Init PROVE IInv
  <1>1. TypeOK
    <2>1. csv \in [Files -> [rows: Nat, torn: BOOLEAN]]
      BY DEF Init, NoRows
    <2>2. tables \in [Files -> [rows: Nat, damaged: BOOLEAN]]
      BY DEF Init, EmptyTable
    <2>3. ups \in 0 .. MaxUps /\ group \in 1 .. 4 /\ step \in 1 .. 6
      BY MaxUpsAssumption DEF Init
    <2> QED BY <2>1, <2>2, <2>3 DEF Init, TypeOK
  <1>2. CsvBounded
    BY <1>1, RowsNat DEF Init, CsvBounded, NoRows
  <1>3. WrittenGroups /\ FirstStart /\ EmptyAhead /\ NoEmptyTable /\ FirstStartLoadsParents
    BY FileLists DEF Init, WrittenGroups, FirstStart, EmptyAhead, NoEmptyTable, FirstStartLoadsParents
  <1> QED BY <1>1, <1>2, <1>3 DEF IInv

(* No step changes the settings, so that complete files stay complete ones. *)
LEMMA SizeConstant ==
    ASSUME [Next]_vars
    PROVE /\ size' = size
          /\ \A f : Rows(f)' = Rows(f) /\ Complete(f)' = Complete(f)
  <1>1. size' = size
    BY DEF Next, vars, Seeder, Database, Up, Down, OpenFiles, Flush, CloseFiles, SeederRaises,
       SeederDies, HandOff, WaitTimesOut, Copy, CopyFails, Serve
  <1> QED BY <1>1 DEF Rows, Complete

(* The types are preserved. *)
LEMMA TypePreserved == ASSUME TypeOK, CsvBounded, [Next]_vars PROVE TypeOK'
  <1> USE DEF TypeOK
  <1>1. CASE Up
    <2>1. ups' \in 0 .. MaxUps
      BY <1>1, MaxUpsAssumption DEF Up
    <2>2. seeder' \in {"off", "running", "done", "dead"} /\ group' \in 1 .. 4
      BY <1>1 DEF Up
    <2>3. open' \in BOOLEAN
      BY <1>1 DEF Up
    <2>4. db' \in {"off", "waiting", "loading", "serving", "exited"}
      BY <1>1 DEF Up
    <2> QED BY <1>1, <2>1, <2>2, <2>3, <2>4 DEF Up
  <1>2. CASE Down
    BY <1>2 DEF Down
  <1>3. CASE OpenFiles
    BY <1>3 DEF OpenFiles, NoRows, dbVars
  <1>4. ASSUME NEW f \in Files, Flush(f) PROVE TypeOK'
    <2>1. csv' \in [Files -> [rows: Nat, torn: BOOLEAN]]
      BY <1>4, RowsNat DEF Flush
    <2> QED BY <1>4, <2>1 DEF Flush, dbVars
  <1>5. CASE CloseFiles
    <2>1. csv' \in [Files -> [rows: Nat, torn: BOOLEAN]]
      BY <1>5, RowsNat DEF CloseFiles
    <2>2. group' \in 1 .. 4 /\ seeder' \in {"off", "running", "done", "dead"}
      BY <1>5 DEF CloseFiles
    <2> QED BY <1>5, <2>1, <2>2 DEF CloseFiles, dbVars
  <1>6. CASE SeederRaises
    BY <1>6 DEF SeederRaises, dbVars, Files
  <1>7. CASE SeederDies
    BY <1>7 DEF SeederDies, dbVars
  <1>8. CASE HandOff
    <2>1. db' \in {"off", "waiting", "loading", "serving", "exited"} /\ step' \in 1 .. 6
      BY <1>8 DEF HandOff
    <2>2. initialised' \in BOOLEAN
      BY <1>8 DEF HandOff
    <2> QED BY <1>8, <2>1, <2>2 DEF HandOff, seederVars
  <1>9. CASE WaitTimesOut
    BY <1>9 DEF WaitTimesOut, seederVars
  <1>10. CASE Copy
    <2>1. LoadOrder[step] \in Files
      BY <1>10, FileLists DEF Copy
    <2>2. Found(LoadOrder[step]) \in Nat /\ csv[LoadOrder[step]].torn \in BOOLEAN
      BY <2>1 DEF Found
    <2>3. tables' \in [Files -> [rows: Nat, damaged: BOOLEAN]]
      BY <1>10, <2>1, <2>2 DEF Copy
    <2> QED BY <1>10, <2>3 DEF Copy, seederVars
  <1>11. CASE CopyFails
    BY <1>11 DEF CopyFails, seederVars
  <1>12. CASE Serve
    BY <1>12 DEF Serve, seederVars
  <1>13. CASE UNCHANGED vars
    BY <1>13 DEF vars, seederVars, dbVars
  <1> QED BY <1>1, <1>2, <1>3, <1>4, <1>5, <1>6, <1>7, <1>8, <1>9, <1>10, <1>11, <1>12, <1>13
          DEF Next, Seeder, Database

(* A step of the database, or of the operator, writes no file. *)
LEMMA OthersWriteNothing ==
    ASSUME \/ Up \/ Down \/ SeederDies \/ Database \/ UNCHANGED vars
    PROVE csv' = csv
  BY DEF Up, Down, SeederDies, Database, HandOff, WaitTimesOut, Copy, CopyFails, Serve,
     seederVars, vars

(* The files stay within their bounds. *)
LEMMA CsvPreserved == ASSUME TypeOK, CsvBounded, [Next]_vars PROVE CsvBounded'
  <1>1. CASE Up \/ Down \/ SeederDies \/ Database \/ UNCHANGED vars
    BY <1>1, OthersWriteNothing, SizeConstant DEF CsvBounded
  <1>2. CASE OpenFiles
    BY <1>2, SizeConstant, RowsNat DEF OpenFiles, CsvBounded, NoRows, TypeOK
  <1>3. ASSUME NEW f \in Files, Flush(f) PROVE CsvBounded'
    BY <1>3, SizeConstant, RowsNat DEF Flush, CsvBounded, TypeOK
  <1>4. CASE CloseFiles
    BY <1>4, SizeConstant, RowsNat DEF CloseFiles, CsvBounded, TypeOK
  <1>5. CASE SeederRaises
    <2>1. size.orders > 0 /\ Rows("orders") = size.orders /\ size.orders \in Nat
      BY <1>5, SizesAssumption DEF SeederRaises, NothingToDraw, Rows, TypeOK
    <2> QED BY <1>5, <2>1, SizeConstant DEF SeederRaises, CsvBounded, TypeOK, Files
  <1> QED BY <1>1, <1>2, <1>3, <1>4, <1>5 DEF Next, Seeder

(* The groups written stay complete: the seeder only turns to later ones, and
   starts again from the first. *)
LEMMA WrittenPreserved ==
    ASSUME TypeOK, WrittenGroups, [Next]_vars PROVE WrittenGroups'
  <1>1. CASE Up
    BY <1>1, SizeConstant DEF Up, WrittenGroups, TypeOK
  <1>2. CASE Down \/ SeederDies \/ Database \/ UNCHANGED vars
    <2>1. csv' = csv /\ group' = group
      BY <1>2 DEF Down, SeederDies, Database, HandOff, WaitTimesOut, Copy, CopyFails, Serve,
         seederVars, vars
    <2>2. seeder' = "done" => seeder = "done"
      BY <1>2 DEF Down, SeederDies, Database, HandOff, WaitTimesOut, Copy, CopyFails, Serve,
         seederVars, vars
    <2> QED BY <2>1, <2>2, SizeConstant DEF WrittenGroups
  <1>3. CASE OpenFiles
    BY <1>3, SizeConstant, FileLists DEF OpenFiles, WrittenGroups, TypeOK
  <1>4. ASSUME NEW f \in Files, Flush(f) PROVE WrittenGroups'
    BY <1>4, SizeConstant, FileLists DEF Flush, WrittenGroups, TypeOK
  <1>5. CASE CloseFiles
    <2>1. group \in 1 .. 3 /\ group' = group + 1
      BY <1>5 DEF CloseFiles, TypeOK
    <2>2. \A f \in Groups[group] : csv'[f] = Complete(f)
      BY <1>5, <2>1, FileLists DEF CloseFiles, Complete
    <2>3. \A i \in 1 .. 3 : i < group => \A f \in Groups[i] : csv'[f] = Complete(f)
      BY <1>5, <2>1, FileLists DEF CloseFiles, WrittenGroups
    <2>4. \A i \in 1 .. 3 : i < group' => \A f \in Groups[i] : csv'[f] = Complete(f)
      BY <2>1, <2>2, <2>3
    <2>5. seeder' = "done" => group' = 4
      BY <1>5, <2>1 DEF CloseFiles
    <2> QED BY <2>4, <2>5, SizeConstant DEF WrittenGroups
  <1>6. CASE SeederRaises
    <2>1. group = 3 /\ group' = 3 /\ seeder' = "dead"
      BY <1>6 DEF SeederRaises, NothingToDraw
    <2>2. \A f \in Files : f # "orders" => csv'[f] = csv[f]
      BY <1>6 DEF SeederRaises, TypeOK
    <2> QED BY <2>1, <2>2, SizeConstant, FileLists DEF WrittenGroups
  <1> QED BY <1>1, <1>2, <1>3, <1>4, <1>5, <1>6 DEF Next, Seeder

(* What is particular to the first start. *)
LEMMA FirstStartPreserved ==
    ASSUME TypeOK, FirstStart, [Next]_vars PROVE FirstStart'
  <1>1. CASE Up
    <2>1. ups \in Nat /\ ups' = ups + 1
      BY <1>1, MaxUpsAssumption DEF Up, TypeOK
    <2>2. CASE ups = 0
      BY <1>1, <2>1, <2>2 DEF Up, FirstStart, TypeOK
    <2>3. CASE ups > 0
      BY <1>1, <2>1, <2>3 DEF Up, FirstStart
    <2> QED BY <2>1, <2>2, <2>3
  <1>2. CASE Down
    BY <1>2 DEF Down, FirstStart, TypeOK
  <1>3. CASE OpenFiles
    BY <1>3, FileLists DEF OpenFiles, FirstStart, dbVars
  <1>4. ASSUME NEW f \in Files, Flush(f) PROVE FirstStart'
    <2>1. group \in 1 .. 3 /\ (group < 3 => f # "orders")
      BY <1>4, FileLists DEF Flush, TypeOK
    <2> QED BY <1>4, <2>1 DEF Flush, FirstStart, dbVars, TypeOK, Files
  <1>5. CASE CloseFiles
    <2>1. group \in 1 .. 3 /\ (group < 3 => "orders" \notin Groups[group])
      BY <1>5, FileLists DEF CloseFiles, TypeOK
    <2>2. group < 3 => csv'["orders"] = csv["orders"]
      BY <1>5, <2>1, FileLists DEF CloseFiles
    <2> QED BY <1>5, <2>1, <2>2 DEF CloseFiles, FirstStart, dbVars, TypeOK
  <1>6. CASE SeederRaises
    BY <1>6 DEF SeederRaises, NothingToDraw, FirstStart, dbVars
  <1>7. CASE SeederDies
    BY <1>7 DEF SeederDies, FirstStart, dbVars
  <1>8. CASE HandOff
    <2>1. csv["orders"] # NoRows
      BY <1>8, FileLists DEF HandOff, Ready, NonEmpty, NoRows
    <2>2. ups \in Nat /\ group \in 1 .. 4 /\ (ups <= 1 => group >= 3)
      BY <2>1, MaxUpsAssumption DEF FirstStart, TypeOK
    <2> QED BY <1>8, <2>2 DEF HandOff, FirstStart, seederVars
  <1>9. CASE WaitTimesOut \/ Copy \/ CopyFails \/ Serve \/ UNCHANGED vars
    BY <1>9 DEF WaitTimesOut, Copy, CopyFails, Serve, FirstStart, seederVars, dbVars, vars
  <1> QED BY <1>1, <1>2, <1>3, <1>4, <1>5, <1>6, <1>7, <1>8, <1>9 DEF Next, Seeder, Database

(* A step of the seeder, and none of the operator's, touches the tables. *)
LEMMA SeederKeepsTables ==
    ASSUME Up \/ Down \/ Seeder \/ UNCHANGED vars
    PROVE /\ tables' = tables /\ initialised' = initialised /\ step' = step
          /\ \A f : Whole(f)' = Whole(f)
  <1>1. tables' = tables /\ initialised' = initialised /\ step' = step
    BY DEF Up, Down, Seeder, OpenFiles, Flush, CloseFiles, SeederRaises, SeederDies, dbVars, vars
  <1> QED BY <1>1, SizeConstant DEF Whole, Next

(* COPY leaves the other tables alone. *)
LEMMA CopyKeepsOthers ==
    ASSUME TypeOK, Copy
    PROVE \A i \in 1 .. 5 : i # step => (Whole(LoadOrder[i]) => Whole(LoadOrder[i])')
  <1>1. LoadOrder[step] \in Files /\ \A i \in 1 .. 5 : i # step => LoadOrder[i] # LoadOrder[step]
    BY FileLists DEF Copy, TypeOK
  <1>2. \A i \in 1 .. 5 : i # step => tables'[LoadOrder[i]] = tables[LoadOrder[i]]
    BY <1>1, FileLists DEF Copy, TypeOK
  <1>3. \A f : Rows(f)' = Rows(f)
    BY SizeConstant DEF Next, Database
  <1> QED BY <1>2, <1>3 DEF Whole

(* 02-seed.sql works its way through tables that are empty, once. *)
LEMMA AheadPreserved ==
    ASSUME TypeOK, EmptyAhead, [Next]_vars PROVE EmptyAhead'
  <1>1. CASE Up \/ Down \/ Seeder \/ UNCHANGED vars
    <2>1. db' \in {"loading", "serving"} => db' = db
      BY <1>1 DEF Up, Down, Seeder, OpenFiles, Flush, CloseFiles, SeederRaises, SeederDies,
         dbVars, vars
    <2> QED BY <1>1, <2>1, SeederKeepsTables DEF EmptyAhead
  <1>2. CASE HandOff
    <2>1. CASE initialised
      BY <1>2, <2>1 DEF HandOff, EmptyAhead
    <2>2. CASE ~initialised
      BY <1>2, <2>2, FileLists DEF HandOff, EmptyAhead
    <2> QED BY <2>1, <2>2
  <1>3. CASE WaitTimesOut \/ CopyFails \/ Serve
    BY <1>3 DEF WaitTimesOut, CopyFails, Serve, EmptyAhead
  <1>4. CASE Copy
    <2>1. /\ step \in 1 .. 5 /\ step' = step + 1 /\ initialised /\ initialised'
          /\ db = "loading"
      BY <1>4 DEF Copy, EmptyAhead, TypeOK
    <2>2. LoadOrder[step] \in Files
      BY <2>1, FileLists
    <2>3. \A i \in 1 .. 5 : i # step => tables'[LoadOrder[i]] = tables[LoadOrder[i]]
      BY <1>4, <2>1, <2>2, FileLists DEF Copy, TypeOK
    <2>4. \A i \in 1 .. 5 : i >= step' => i # step /\ i >= step
      BY <2>1
    <2>5. \A i \in 1 .. 5 : i >= step' => tables'[LoadOrder[i]] = EmptyTable
      BY <2>1, <2>3, <2>4 DEF EmptyAhead
    <2> QED BY <2>1, <2>5 DEF EmptyAhead
  <1> QED BY <1>1, <1>2, <1>3, <1>4 DEF Next, Database

(* No table is empty once the data volume is initialised. *)
LEMMA EmptyPreserved ==
    ASSUME TypeOK, CsvBounded, NoEmptyTable, [Next]_vars PROVE NoEmptyTable'
  <1>1. CASE HandOff
    <2>1. \A f \in Files : Rows(f) > 0
      BY <1>1, RowsNat DEF HandOff, Ready, NonEmpty, CsvBounded, TypeOK
    <2> QED BY <2>1, SizeConstant DEF NoEmptyTable
  <1>2. CASE ~HandOff
    <2>1. initialised' = initialised
      BY <1>2 DEF Next, Seeder, Database, Up, Down, OpenFiles, Flush, CloseFiles, SeederRaises,
         SeederDies, WaitTimesOut, Copy, CopyFails, Serve, dbVars, vars
    <2> QED BY <2>1, SizeConstant DEF NoEmptyTable
  <1> QED BY <1>1, <1>2

(* Customers and products are complete files from the moment the database is
   created on the first start, and so are the tables copied from them. *)
LEMMA ParentsPreserved ==
    ASSUME TypeOK, WrittenGroups, FirstStart, FirstStartLoadsParents, [Next]_vars
    PROVE FirstStartLoadsParents'
  <1>1. CASE Up \/ Down \/ Seeder \/ UNCHANGED vars
    <2>1. /\ db' \in {"loading", "serving"} => db' = db
          /\ ups' = 1 => ups = 1 \/ db' = "waiting"
      BY <1>1 DEF Up, Down, Seeder, OpenFiles, Flush, CloseFiles, SeederRaises, SeederDies,
         dbVars, vars, FirstStart, TypeOK
    <2> QED BY <1>1, <2>1, SeederKeepsTables DEF FirstStartLoadsParents
  <1>2. CASE HandOff
    BY <1>2 DEF HandOff, FirstStartLoadsParents, FirstStart
  <1>3. CASE WaitTimesOut \/ CopyFails
    BY <1>3 DEF WaitTimesOut, CopyFails, FirstStartLoadsParents
  <1>4. CASE Copy
    <2> SUFFICES ASSUME ups' = 1, NEW i \in 1 .. 2, step' > i
                 PROVE Whole(LoadOrder[i])'
      BY DEF FirstStartLoadsParents
    <2>1. ups = 1 /\ db = "loading" /\ step \in 1 .. 5 /\ step' = step + 1 /\ group >= 3
      BY <1>4 DEF Copy, FirstStart, TypeOK
    <2>2. CASE i = step
      <3>1. LoadOrder[i] \in Files /\ csv[LoadOrder[i]] = Complete(LoadOrder[i])
        BY <2>1, FileLists DEF WrittenGroups, TypeOK
      <3>2. Found(LoadOrder[i]) = Rows(LoadOrder[i]) /\ csv[LoadOrder[i]].torn = FALSE
        BY <3>1, RowsNat DEF Found, Complete
      <3>3. tables'[LoadOrder[i]] = [rows |-> Rows(LoadOrder[i]), damaged |-> FALSE]
        BY <1>4, <2>2, <3>1, <3>2 DEF Copy, TypeOK
      <3> QED BY <3>3, SizeConstant DEF Whole
    <2>3. CASE i # step
      BY <1>4, <2>1, <2>3, CopyKeepsOthers DEF FirstStartLoadsParents
    <2> QED BY <2>2, <2>3
  <1>5. CASE Serve
    <2>1. \A f : Whole(f)' = Whole(f)
      BY <1>5, SizeConstant DEF Serve, Whole
    <2> QED BY <1>5, <2>1 DEF Serve, FirstStartLoadsParents
  <1> QED BY <1>1, <1>2, <1>3, <1>4, <1>5 DEF Next, Database

(* The inductive invariant holds in every reachable state. *)
THEOREM SeedInvariant == Spec => []IInv
  <1>1. Init => IInv
    BY InitIInv
  <1>2. IInv /\ [Next]_vars => IInv'
    BY TypePreserved, CsvPreserved, WrittenPreserved, FirstStartPreserved, AheadPreserved,
       EmptyPreserved, ParentsPreserved DEF IInv
  <1> QED BY <1>1, <1>2, PTL DEF Spec

(* Whatever the size of the seed and however often the containers are started
   and stopped, every variable has its type. *)
THEOREM SeedTyping == Spec => []TypeOK
  <1>1. IInv => TypeOK
    BY DEF IInv
  <1> QED BY <1>1, SeedInvariant, PTL

(* On the first start the customers and products loaded are complete, whatever
   the sizes: waiting for all five files implies that seed.py has closed these. *)
THEOREM ParentsAreWhole == Spec => []FirstStartLoadsParents
  <1>1. IInv => FirstStartLoadsParents
    BY DEF IInv
  <1> QED BY <1>1, SeedInvariant, PTL

(* With a table of no rows the database never comes up. *)
THEOREM EmptySeedBlocks == Spec => []EmptySeedNeverServes
  <1>1. IInv => EmptySeedNeverServes
    BY RowsNat DEF IInv, EmptyAhead, NoEmptyTable, EmptySeedNeverServes
  <1> QED BY <1>1, SeedInvariant, PTL

(* However often the containers are started and stopped, and wherever a load was
   broken off, a COPY only ever meets an empty table: no restart brings the
   entrypoint back to 02-seed.sql. *)
THEOREM SeedIsFilledOnce == Spec => FilledOnce
  <1>1. IInv /\ [Next]_vars =>
           [\A f \in Files : tables'[f] # tables[f] => tables[f] = EmptyTable]_vars
    <2> SUFFICES ASSUME IInv, Next, NEW f \in Files, tables'[f] # tables[f]
                 PROVE  tables[f] = EmptyTable
      OBVIOUS
    <2>1. Copy
      BY SeederKeepsTables DEF Next, Database, HandOff, WaitTimesOut, CopyFails, Serve
    <2>2. step \in 1 .. 5 /\ db = "loading" /\ f = LoadOrder[step]
      BY <2>1, FileLists DEF Copy, IInv, TypeOK
    <2> QED BY <2>2 DEF IInv, EmptyAhead
  <1> QED BY <1>1, SeedInvariant, PTL DEF Spec, FilledOnce
=============================================================================
