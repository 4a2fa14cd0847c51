----------------------------- MODULE MCAnalysis -----------------------------
(* Trials of two frameworks: a good one, one whose cores only preflight
   knows, one at a rate of 0, and one of every sort aggregate.py leaves out or
   chokes on.  aggregate.py is given a directory that is not there, alone (it
   then reads all of runs/, as without an argument) or with one that is. *)
EXTENDS Analysis

MCFrameworks == <<"go", "rust">>

Good == [framework |-> "go", burn_in |-> FALSE, manifest |-> TRUE, summary |-> TRUE,
         secs |-> 1, reqs |-> 24, json |-> 24, app_cores |-> 2,
         preflight |-> [app |-> 4, db |-> 1, loadgen |-> 1]]

MCKinds ==
    {Good,
     [Good EXCEPT !.json = 12, !.app_cores = 0],
     [Good EXCEPT !.json = NoValue, !.app_cores = 0, !.preflight["app"] = 0],
     [Good EXCEPT !.burn_in = TRUE],
     [Good EXCEPT !.secs = 0],
     [Good EXCEPT !.manifest = FALSE],
     [Good EXCEPT !.framework = "rust", !.json = 0],
     [Good EXCEPT !.framework = "rust", !.summary = FALSE]}

MCArguments == {<<9>>, <<9, 1>>}
MCLists == {<<>>, <<"rust", "go">>}
=============================================================================
