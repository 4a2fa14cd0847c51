------------------------------ MODULE Analysis ------------------------------
(***************************************************************************)
(* From trial directories to the published table:                          *)
(*   aggregate.py --json > results/<framework>.json                        *)
(*   compare.py --json-output report.json                                  *)
(*   report.py --compare report.json                                       *)
(* run by hand, in any order, while trials are added to runs/.             *)
(*                                                                         *)
(* Of the numbers of a trial only its requests, the RPS of the json        *)
(* workload (the headline of the table) and the core counts are kept.  A   *)
(* rate is a whole number, of the hundredths load_trial rounds it to.      *)
(* NoValue is None.  A list of trials or frameworks that others were left  *)
(* out of is a function on the places that remain: their order is that of  *)
(* the list.                                                               *)
(***************************************************************************)
EXTENDS Integers, Sequences, FiniteSets, FiniteSetsExt

CONSTANTS Frameworks,   \* the framework names, sorted
          Kinds,        \* the trials there may be
          Arguments,    \* the lists of trial directories aggregate.py is given
          Lists,        \* the lists of frameworks compare.py is given
          MaxTrials     \* bound: how many trials are run

NoValue == -1
Names == Range(Frameworks)

(* Names of files are different, and so are the keys of a dict. *)
ASSUME FrameworksAssumption == Frameworks \in Seq(Names) /\ IsInjective(Frameworks)
ASSUME ListsAssumption == \A list \in Lists : list \in Seq(Names) /\ IsInjective(list)
ASSUME ArgumentsAssumption == \A args \in Arguments : args \in Seq(Nat)
ASSUME MaxTrialsAssumption == MaxTrials \in Nat

(* What load_trial may find in a trial directory.  A count is never negative;
   0 cores: no core count. *)
ASSUME KindsAssumption == \A t \in Kinds :
    /\ {t.burn_in, t.manifest, t.summary} \subseteq BOOLEAN
    /\ {t.secs, t.reqs, t.app_cores} \subseteq Nat
    /\ t.json \in Nat \union {NoValue}
    /\ t.preflight \in [{"app", "db", "loadgen"} -> Nat]

VARIABLES runs,      \* the trial directories: a trial for every name there is, the
                     \* names being the numbers 1 .. MaxTrials in their sorted order
          results,   \* results/<framework>.json: Missing, Empty or an envelope
          compare,   \* report.json: [list, rows], list what it was asked for; no rows: no file
          report     \* index.html: the matrix; <<>> when there is no file

vars == <<runs, results, compare, report>>

Missing == [state |-> "missing"]
Empty == [state |-> "empty"]
-----------------------------------------------------------------------------
(* aggregate.py: one trial *)

(* load_trial gives nothing for a trial without a readable summary. *)
Loads(t) == t.summary

(* The cores RPS is divided by: the application's share from the manifest, or
   the cpu_count of a preflight report, the application's before the others;
   of the two others the later one stays. *)
Cores(t) ==
    IF t.app_cores > 0 THEN t.app_cores
    ELSE IF t.preflight["app"] > 0 THEN t.preflight["app"]
    ELSE IF t.preflight["loadgen"] > 0 THEN t.preflight["loadgen"]
    ELSE t.preflight["db"]

(* Without the window of the phase there is no rate. *)
TotalRps(t) == IF t.secs > 0 THEN t.reqs ELSE 0
JsonRps(t) == IF t.secs > 0 THEN t.json ELSE NoValue
-----------------------------------------------------------------------------
(* aggregate.py: all trials *)

(* aggregate: the number of values, their mean num / den (None when n = 0), and
   whether there is an interval.  The values are given in units of 1 / unit. *)
Statistics(values, unit) ==
    LET n == Cardinality(DOMAIN values)
    IN  [n |-> n, num |-> MapThenSumSet(LAMBDA i : values[i], DOMAIN values),
         den |-> n * unit, ci |-> n >= 2]

NoStatistics == [n |-> 0, num |-> 0, den |-> 0, ci |-> FALSE]

(* build_results: the RPS of every trial is divided by the cores of the first
   one that has any; the cores shown are the fewest. *)
BuildResults(usable) ==
    LET withCores == {i \in DOMAIN usable : Cores(usable[i]) > 0}
        rps == RestrictValues([i \in DOMAIN usable |-> JsonRps(usable[i])],
                              LAMBDA v : v # NoValue)
    IN  [rps |-> Statistics(rps, 1),
         rps_per_core |-> IF withCores = {} THEN NoStatistics
                          ELSE Statistics(rps, Cores(usable[Min(withCores)])),
         cores |-> IF withCores = {} THEN NoValue
                   ELSE Min({Cores(usable[i]) : i \in withCores})]

(* resolve_dir passes over the arguments that are no trial directories. *)
Resolved(args) == RestrictValues(args, LAMBDA a : a \in DOMAIN runs)

(* Mutant: a name that is no trial directory is taken for none at all. *)
ReadAllOnTypo(args) ==
    IF Range(args) \subseteq DOMAIN runs THEN [i \in DOMAIN args |-> runs[args[i]]] ELSE runs

(* All of runs/ is read when none is left. *)
Read(args) ==
    LET dirs == Resolved(args)
    IN  IF DOMAIN dirs = {} THEN runs ELSE [i \in DOMAIN dirs |-> runs[dirs[i]]]

(* The trials that load, of the framework asked for when one is. *)
Chosen(trials, fw, filter) ==
    RestrictValues(trials, LAMBDA t : Loads(t) /\ (filter => t.framework = fw))

(* Mutant: burn-in trials are only reported, not left out. *)
UsableWithBurnIn(trials) == RestrictValues(trials, LAMBDA t : TotalRps(t) > 0)

Usable(trials) == RestrictValues(trials, LAMBDA t : ~t.burn_in /\ TotalRps(t) > 0)

(* What --json writes, with what it was made from. *)
Envelope(trials, args, filter) ==
    [state |-> "written",
     trials_total |-> Cardinality(DOMAIN trials),
     discarded_burnin |-> Cardinality({i \in DOMAIN trials : trials[i].burn_in}),
     skipped_no_data |-> Cardinality({i \in DOMAIN trials :
                            ~trials[i].burn_in /\ TotalRps(trials[i]) <= 0}),
     results |-> BuildResults(Usable(trials)),
     usable |-> Usable(trials), args |-> args, filter |-> filter]

(* main raises on a manifest that is no JSON, and returns 1 without trials.
   The shell has emptied the file by then. *)
Output(fw, args, filter) ==
    LET trials == Chosen(Read(args), fw, filter)
    IN  IF \/ \E i \in DOMAIN Read(args) : ~Read(args)[i].manifest
           \/ DOMAIN trials = {}
        THEN Empty ELSE Envelope(trials, args, filter)

Aggregate(fw, args, filter) ==
    /\ results' = [results EXCEPT ![fw] = Output(fw, args, filter)]
    /\ UNCHANGED <<runs, compare, report>>
-----------------------------------------------------------------------------
(* compare.py *)

(* The frameworks it is given, or those with a file in results/. *)
Compared(list) ==
    IF list # <<>> THEN list
    ELSE RestrictValues(Frameworks, LAMBDA fw : results[fw] # Missing)

(* Mutant: a row is named after the directory of the file. *)
RowNamedByDirectory(fw) ==
    [framework |-> "results", usable |-> <<>>, rps_per_core |-> NoStatistics]

(* compare_matrix: one row per framework, named after its file; without a file
   it has no values. *)
Row(fw) ==
    LET e == results[fw]
    IN  IF e = Missing
        THEN [framework |-> fw, usable |-> <<>>, rps_per_core |-> NoStatistics]
        ELSE [framework |-> fw, usable |-> e.usable,
              rps_per_core |-> e.results.rps_per_core]

Rows(list) == [i \in DOMAIN list |-> Row(list[i])]

(* Mutant: a file that cannot be read is passed over. *)
CompareSkips(list) ==
    LET readable == RestrictValues(Compared(list), LAMBDA fw : results[fw] # Empty)
    IN  /\ DOMAIN readable # {}
        /\ compare' = [list |-> list, rows |-> Rows(readable)]
        /\ UNCHANGED <<runs, results, report>>

(* One empty file ends it with an exception, before the output is opened. *)
Compare(list) ==
    /\ DOMAIN Compared(list) # {}
    /\ \A i \in DOMAIN Compared(list) : results[Compared(list)[i]] # Empty
    /\ compare' = [list |-> list, rows |-> Rows(Compared(list))]
    /\ UNCHANGED <<runs, results, report>>
-----------------------------------------------------------------------------
(* report.py *)

(* The key of the sort: None counts as 0. *)
SortKey(row) ==
    IF row.rps_per_core.n = 0 THEN [num |-> 0, den |-> 1]
    ELSE [num |-> row.rps_per_core.num, den |-> row.rps_per_core.den]

Higher(r, s) == SortKey(r).num * SortKey(s).den > SortKey(s).num * SortKey(r).den

(* The row at place i comes before the one at place j: a higher rate, or an
   equal one and first in report.json. *)
Above(rows, i, j) ==
    \/ Higher(rows[i], rows[j])
    \/ ~Higher(rows[j], rows[i]) /\ i < j

(* Mutant: the rows stay in the order of report.json. *)
RankedAsGiven(rows) == rows

(* The rows by RPS per core, the highest first; equal ones keep their order. *)
Ranked(rows) ==
    [k \in 1 .. Cardinality(DOMAIN rows) |->
        rows[CHOOSE i \in DOMAIN rows :
               Cardinality({j \in DOMAIN rows : Above(rows, j, i)}) = k - 1]]

Report ==
    /\ DOMAIN compare.rows # {}
    /\ report' = Ranked(compare.rows)
    /\ UNCHANGED <<runs, results, compare>>
-----------------------------------------------------------------------------
(* A trial is run.  The names begin with the framework's, so the new one may
   come anywhere among the others. *)
AddTrial ==
    /\ \E d \in (1 .. MaxTrials) \ DOMAIN runs, t \in Kinds :
         runs' = [e \in DOMAIN runs \union {d} |-> IF e = d THEN t ELSE runs[e]]
    /\ UNCHANGED <<results, compare, report>>

Init ==
    /\ runs = <<>>
    /\ results = [fw \in Names |-> Missing]
    /\ compare = [list |-> <<>>, rows |-> <<>>] /\ report = <<>>

Next ==
    \/ AddTrial \/ Report
    \/ \E fw \in Names, args \in Arguments, filter \in BOOLEAN : Aggregate(fw, args, filter)
    \/ \E list \in Lists : Compare(list)

Spec == Init /\ [][Next]_vars
-----------------------------------------------------------------------------
Written == {fw \in Names : results[fw].state = "written"}

TypeOK ==
    /\ DOMAIN runs \subseteq 1 .. MaxTrials /\ \A d \in DOMAIN runs : runs[d] \in Kinds
    /\ DOMAIN results = Names
    /\ \A fw \in Names : results[fw].state \in {"missing", "empty", "written"}
    /\ \A fw \in Written : results[fw].results.rps.n <= Cardinality(DOMAIN results[fw].usable)
    /\ \A i \in DOMAIN compare.rows : compare.rows[i].framework \in Names
    /\ \A i \in DOMAIN report : report[i].framework \in Names

(* Every trial aggregate.py has read is in one of its three classes, and none
   is in two: the counts it prints add up, and burn-in and dead trials are in
   no mean. *)
TrialsAccountedFor ==
    \A fw \in Written : LET e == results[fw] IN
        /\ e.trials_total = e.discarded_burnin + e.skipped_no_data + Cardinality(DOMAIN e.usable)
        /\ \A i \in DOMAIN e.usable : ~e.usable[i].burn_in /\ TotalRps(e.usable[i]) > 0

(* The published table has a framework once, and above one with a rate are
   only frameworks that were measured at that rate or a higher one. *)
MatrixIsRanked ==
    \A i, j \in DOMAIN report : i < j =>
        LET high == report[i].rps_per_core
            low == report[j].rps_per_core
        IN  /\ low.n > 0 /\ low.num > 0 =>
                 high.n > 0 /\ high.num * low.den >= low.num * high.den
            /\ report[i].framework # report[j].framework

(* Every framework a comparison is made of has a row in report.json, and every
   row of report.json is in the published table: a failed aggregation, whose
   file is empty, does not silently take its framework out of the table, nor
   does it change the one there was. *)
NothingLeftOut ==
    [][/\ compare' # compare =>
            {compare'.rows[i].framework : i \in DOMAIN compare'.rows} = Range(Compared(compare'.list))
       /\ report' # report =>
            /\ Range(report') = Range(compare.rows)
            /\ Cardinality(DOMAIN report') = Cardinality(DOMAIN compare.rows)]_vars

(* A new results file is made of the trials it was asked for, all of them: those
   in the directories named, or in all of runs/ when none of those named is
   there, that can be read, are of the framework asked for, no burn-in and
   with data. *)
FileIsWhatWasAsked ==
    [][\A fw \in Names : LET e == results'[fw] IN
         e # results[fw] /\ e.state = "written" =>
           LET here == {d \in Range(e.args) : d \in DOMAIN runs}
               asked == IF here = {} THEN DOMAIN runs ELSE here
           IN  Range(e.usable) =
                 {runs[d] : d \in {d \in asked :
                    /\ runs[d].summary /\ ~runs[d].burn_in
                    /\ runs[d].secs > 0 /\ runs[d].reqs > 0
                    /\ e.filter => runs[d].framework = fw}}]_vars
=============================================================================
