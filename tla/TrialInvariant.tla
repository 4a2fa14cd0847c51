-------------------------- MODULE TrialInvariant --------------------------
(***************************************************************************)
(* The inductive invariants behind the properties of TrialDriver.          *)
(***************************************************************************)
EXTENDS TrialDriver

Cycling == {"phase", "k6", "copy"}
Closing == {"snapshot", "telemetry", "finish"}
Executing == {"preflight"} \cup Cycling \cup Closing

(* Where the scripts are. *)
FlowInv ==
    /\ pc \in {"reset", "collect"} => campaign \in 1 .. Len(Campaign)
    /\ pc \in {"preflight"} \cup Cycling => todo # <<>>
    /\ pc \in Executing => /\ last[trial] = run
                           /\ run \notin finished
                           /\ \A t \in TrialIds : t # trial => last[t] < run

(* Executions are numbered in order, and a directory's manifest is the one of
   its last execution, or missing when there was none. *)
RunInv ==
    /\ finished \subseteq 1 .. run
    /\ byCampaign \subseteq 1 .. run
    /\ pc \in Executing => run > 0
    /\ \A t \in TrialIds :
          /\ last[t] <= run
          /\ last[t] = 0 => dir[t].manifest = NoFile
          /\ last[t] # 0 => /\ dir[t].manifest \in Manifest
                            /\ dir[t].manifest.run = last[t]

TimedBy(w, n) == w.started = n /\ w.ended = n

(* A manifest has windows only once its execution has finished, and then they,
   the preflight records and the telemetry are of that execution. *)
Evidence(d, n) ==
    /\ d.preflight = NoFile \/ d.preflight.run = n
    /\ \A p \in Phases :
          d.manifest.window[p] = NoWindow \/ TimedBy(d.manifest.window[p], n)
    /\ \A i \in DOMAIN d.manifest.phases :
          TimedBy(d.manifest.window[d.manifest.phases[i]], n)
    /\ d.manifest.window["saturation"] # NoWindow => d.telemetry \in {NoFile, n}

EvidenceInv ==
    \A t \in TrialIds :
        IF last[t] \in finished THEN Evidence(dir[t], last[t])
        ELSE \/ dir[t].manifest = NoFile
             \/ \A p \in Phases : dir[t].manifest.window[p] = NoWindow

(* What the current execution has written so far. *)
PhaseInv ==
    /\ pc = "preflight" => todo = Here.manifest.phases
    /\ pc \in Cycling \cup Closing =>
          /\ Here.preflight = NoFile \/ Here.preflight.run = run
          /\ \A i \in DOMAIN Here.manifest.phases :
                \/ pc \in Cycling /\ \E j \in DOMAIN todo :
                                        todo[j] = Here.manifest.phases[i]
                \/ /\ Here.started[Here.manifest.phases[i]] = run
                   /\ Here.ended[Here.manifest.phases[i]].run = run
    /\ pc \in {"k6", "copy"} => Here.started[Phase] = run
    /\ pc = "copy" => Here.ended[Phase].run = run
    /\ pc = "finish" /\ RanSaturation => Here.telemetry \in {NoFile, run}

(* The queries of a campaign's execution are alone in pg_stat_statements but
   for those of a k6 that outlived its script. *)
ProfileInv ==
    /\ \A o \in orphans : o.run \in outlived
    /\ pc \in Executing /\ run \in byCampaign => stats \subseteq {run} \cup outlived
    /\ pc \in {"telemetry", "finish"} /\ run \in byCampaign =>
          Here.profile \subseteq {run} \cup outlived
    /\ CampaignProfileIsOwn
=============================================================================
