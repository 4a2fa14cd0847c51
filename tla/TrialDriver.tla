---------------------------- MODULE TrialDriver ----------------------------
(***************************************************************************)
(* exec-trial.sh and run-campaign.sh: what they write into a trial         *)
(* directory, in which order, when a k6 phase fails, a copy fails, a step  *)
(* aborts the script (set -e) or the operator interrupts it, and when a    *)
(* trial id is run again.                                                  *)
(*                                                                         *)
(* The load generator's /runs volume outlives the script: newest is the    *)
(* last summary written there.  Interrupting the script ends "docker       *)
(* exec", not the k6 it started: such an orphan goes on and writes its     *)
(* summary when it ends.  k6-export.json and the phase logs are left out:  *)
(* no script reads them.                                                   *)
(***************************************************************************)
EXTENDS TrialGate, FiniteSets

CONSTANTS TrialIds,
          BurnIns,         \* the trial ids that end in -burnin
          Campaign,        \* the trial ids of run-campaign.sh, in its order
          CampaignPhases,  \* CAMPAIGN_PHASES
          PhaseLists,      \* what --phases may be given
          MaxRuns, MaxFaults

ASSUME BurnInsAssumption == BurnIns \subseteq TrialIds
ASSUME CampaignAssumption == Campaign \in Seq(TrialIds) /\ Campaign # <<>>
ASSUME PhaseListsAssumption ==
    /\ PhaseLists \subseteq Seq(Phases) \ {<<>>}
    /\ CampaignPhases \in PhaseLists
ASSUME BoundsAssumption == MaxRuns \in Nat /\ MaxFaults \in Nat

VARIABLES pc,        \* the step of the running script
          campaign,  \* index of the campaign's current trial, 0 outside one
          run,       \* executions of exec-trial.sh so far
          trial,     \* TRIAL_ID of the current one
          todo,      \* the phases still to run, the current one first
          k6Status, trialStatus, preflightFailed,
          newest,    \* the newest summary in the /runs volume
          orphans,   \* k6 runs whose script is gone
          stats,     \* the executions pg_stat_statements has queries of
          dir,       \* the trial directories
          faults,    \* failures and interruptions so far
          last,      \* history: per trial, the last execution that began ...
          finished,  \* ... the executions that reached their end ...
          byCampaign, \* ... those the campaign started ...
          outlived   \* ... and those with a k6 that outlived the script

vars == <<pc, campaign, run, trial, todo, k6Status, trialStatus,
          preflightFailed, newest, orphans, stats, dir, faults, last, finished,
          byCampaign, outlived>>
history == <<last, finished, byCampaign, outlived>>

K6Run == [run : Nat, phase : Phases]
Window == [started : Nat, ended : Nat, secs : {0, 1}]
NoWindow == [started |-> 0, ended |-> 0, secs |-> 0]
Manifest == [run : Nat, phases : PhaseLists, done : BOOLEAN, status : Nat,
             preflight_failed : 0 .. 3, window : [Phases -> Window]]
Dir == [manifest : Manifest \cup {NoFile},
        preflight : [run : Nat, failed : SUBSET Roles] \cup {NoFile},
        started : [Phases -> Nat],
        ended : [Phases -> [run : Nat, secs : {0, 1}]],
        summary : [Phases -> K6Run \cup {NoFile}],
        profile : SUBSET Nat,
        telemetry : Nat \cup {NoFile},
        logs : BOOLEAN]

EmptyDir == [manifest |-> NoFile,
             preflight |-> NoFile,
             started |-> [p \in Phases |-> 0],
             ended |-> [p \in Phases |-> [run |-> 0, secs |-> 0]],
             summary |-> [p \in Phases |-> NoFile],
             profile |-> {},
             telemetry |-> NoFile,
             logs |-> FALSE]

Steps == {"idle", "reset", "preflight", "phase", "k6", "copy", "snapshot",
          "telemetry", "finish", "collect"}

(* 99: a threshold was crossed; 107: k6 could not run its script. *)
ExitCodes == {0, 99, 107}

TypeOK ==
    /\ pc \in Steps
    /\ campaign \in 0 .. Len(Campaign)
    /\ run \in Nat
    /\ trial \in TrialIds
    /\ todo \in Seq(Phases)
    /\ k6Status \in ExitCodes
    /\ trialStatus \in ExitCodes
    /\ preflightFailed \in 0 .. 3
    /\ newest \in K6Run \cup {NoFile}
    /\ orphans \subseteq K6Run
    /\ stats \subseteq Nat
    /\ dir \in [TrialIds -> Dir]
    /\ faults \in Nat
    /\ last \in [TrialIds -> Nat]
    /\ finished \subseteq Nat
    /\ byCampaign \subseteq Nat /\ outlived \subseteq Nat

Init ==
    /\ pc = "idle"
    /\ campaign = 0
    /\ run = 0
    /\ trial \in TrialIds
    /\ todo = <<>>
    /\ k6Status = 0 /\ trialStatus = 0 /\ preflightFailed = 0
    /\ newest = NoFile
    /\ orphans = {}
    /\ stats = {}
    /\ dir = [t \in TrialIds |-> EmptyDir]
    /\ faults = 0
    /\ last = [t \in TrialIds |-> 0]
    /\ finished = {} /\ byCampaign = {} /\ outlived = {}

-----------------------------------------------------------------------------
Phase == Head(todo)
Here == dir[trial]
Fault == faults < MaxFaults /\ faults' = faults + 1
NoFault == UNCHANGED faults

(* exec-trial.sh exits: back to the campaign or to the shell. *)
Exit == pc' = IF campaign > 0 THEN "collect" ELSE "idle"

(* The manifest of an execution that has just begun replaces the old one. *)
NewManifest(phases) ==
    [run |-> run + 1, phases |-> phases, done |-> FALSE, status |-> 0,
     preflight_failed |-> 0, window |-> [p \in Phases |-> NoWindow]]

(* The containers are up: write the manifest and begin. *)
ExecTrial(t, phases) ==
    /\ run < MaxRuns
    /\ run' = run + 1
    /\ trial' = t
    /\ todo' = phases
    /\ trialStatus' = 0
    /\ preflightFailed' = 0
    /\ dir' = [dir EXCEPT ![t].manifest = NewManifest(phases)]
    /\ last' = [last EXCEPT ![t] = run + 1]
    /\ pc' = "preflight"
    /\ UNCHANGED <<k6Status, newest, orphans, finished, outlived>>

OperatorRuns ==
    /\ pc = "idle"
    /\ \E t \in TrialIds, phases \in PhaseLists : ExecTrial(t, phases)
    /\ NoFault
    /\ UNCHANGED <<campaign, stats, byCampaign>>

(* Every role's preflight is recorded; failures are counted, not obeyed. *)
Preflight ==
    /\ pc = "preflight"
    /\ \E failed \in SUBSET Roles :
          /\ IF failed = {} THEN NoFault ELSE Fault
          /\ dir' = [dir EXCEPT ![trial].preflight =
                        [run |-> run, failed |-> failed]]
          /\ preflightFailed' = Cardinality(failed)
    /\ pc' = "phase"
    /\ UNCHANGED <<campaign, run, trial, todo, k6Status, trialStatus, newest,
                   orphans, stats, history>>

(* Copying preflight.sh to a node fails, which ends the script (set -e). *)
PreflightAborts ==
    /\ pc = "preflight"
    /\ Fault
    /\ Exit
    /\ UNCHANGED <<campaign, run, trial, todo, k6Status, trialStatus,
                   preflightFailed, newest, orphans, stats, dir, history>>

PhaseStart ==
    /\ pc = "phase"
    /\ dir' = [dir EXCEPT ![trial].started[Phase] = run]
    /\ pc' = "k6"
    /\ UNCHANGED <<campaign, run, trial, todo, k6Status, trialStatus,
                   preflightFailed, newest, orphans, stats, faults, history>>

(* k6 returns with status s after a time that rounds to secs.  It leaves a
   summary in /runs unless it could not run at all. *)
K6Ends(s, secs) ==
    /\ pc = "k6"
    /\ IF s = 0 THEN NoFault ELSE Fault
    /\ s # 107 => secs = 1
    /\ k6Status' = s
    /\ newest' = IF s = 107 THEN newest ELSE [run |-> run, phase |-> Phase]
    /\ stats' = IF secs = 0 THEN stats ELSE stats \cup {run}
    /\ dir' = [dir EXCEPT ![trial].ended[Phase] = [run |-> run, secs |-> secs]]
    /\ pc' = "copy"
    /\ UNCHANGED <<campaign, run, trial, todo, trialStatus, preflightFailed,
                   orphans, history>>

(* Mutant: a failed phase ends the loop over the phases. *)
CopySummaryStops ==
    /\ pc = "copy"
    /\ dir' = [dir EXCEPT ![trial].summary[Phase] = newest]
    /\ NoFault
    /\ trialStatus' = k6Status
    /\ todo' = Tail(todo)
    /\ pc' = IF Tail(todo) = <<>> \/ k6Status # 0 THEN "snapshot" ELSE "phase"
    /\ UNCHANGED <<campaign, run, trial, k6Status, preflightFailed, newest,
                   orphans, stats, history>>

(* Copy the newest summary of /runs, whichever that is; an error of docker cp
   is ignored.  In "if ! run_phase; then trial_status=$?" the status read is
   that of the negation, which is 0 whatever run_phase returned. *)
CopySummary ==
    /\ pc = "copy"
    /\ \/ /\ newest # NoFile
          /\ dir' = [dir EXCEPT ![trial].summary[Phase] = newest]
          /\ NoFault
       \/ newest = NoFile /\ UNCHANGED dir /\ NoFault
       \/ newest # NoFile /\ UNCHANGED dir /\ Fault
    /\ trialStatus' = IF k6Status # 0 THEN 0 ELSE trialStatus
    /\ todo' = Tail(todo)
    /\ pc' = IF Tail(todo) = <<>> THEN "snapshot" ELSE "phase"
    /\ UNCHANGED <<campaign, run, trial, k6Status, preflightFailed, newest,
                   orphans, stats, history>>

RanSaturation == \E i \in DOMAIN Here.manifest.phases :
                     Here.manifest.phases[i] = "saturation"

(* The queries there are: those recorded and those of the orphans, which send
   theirs all the time. *)
Queried == stats \cup {o.run : o \in orphans}

(* pg_stat_statements.csv is truncated first and stays empty on an error. *)
Snapshot ==
    /\ pc = "snapshot"
    /\ \/ dir' = [dir EXCEPT ![trial].profile = Queried] /\ NoFault
       \/ dir' = [dir EXCEPT ![trial].profile = {}] /\ Fault
    /\ pc' = IF RanSaturation THEN "telemetry" ELSE "finish"
    /\ UNCHANGED <<campaign, run, trial, todo, k6Status, trialStatus,
                   preflightFailed, newest, orphans, stats, history>>

(* Mutant: a series that cannot be fetched keeps its old file. *)
CollectTelemetryKeepsOld(d, t, n) ==
    \/ dir' = [d EXCEPT ![t].telemetry = n] /\ NoFault
    \/ dir' = d /\ Fault

(* collect-telemetry.sh for the window of execution n, on directories d: every
   series is replaced, and removed when it cannot be fetched. *)
CollectTelemetry(d, t, n) ==
    \/ dir' = [d EXCEPT ![t].telemetry = n] /\ NoFault
    \/ dir' = [d EXCEPT ![t].telemetry = NoFile] /\ Fault

Telemetry ==
    /\ pc = "telemetry"
    /\ CollectTelemetry(dir, trial, Here.started["saturation"])
    /\ pc' = "finish"
    /\ UNCHANGED <<campaign, run, trial, todo, k6Status, trialStatus,
                   preflightFailed, newest, orphans, stats, history>>

(* The manifest's windows: of the phases that were run. *)
WindowOf(p) ==
    IF \E i \in DOMAIN Here.manifest.phases : Here.manifest.phases[i] = p
    THEN [started |-> Here.started[p], ended |-> Here.ended[p].run,
          secs |-> Here.ended[p].secs]
    ELSE NoWindow

Finish ==
    /\ pc = "finish"
    /\ dir' = [dir EXCEPT ![trial].manifest =
                  [@ EXCEPT !.done = TRUE,
                            !.status = trialStatus,
                            !.preflight_failed = preflightFailed,
                            !.window = [p \in Phases |-> WindowOf(p)]]]
    /\ finished' = finished \cup {run}
    /\ Exit
    /\ UNCHANGED <<campaign, run, trial, todo, k6Status, trialStatus,
                   preflightFailed, newest, orphans, stats, faults, last,
                   byCampaign, outlived>>

-----------------------------------------------------------------------------
(* run-campaign.sh *)

CampaignStarts ==
    /\ pc = "idle"
    /\ run + Len(Campaign) <= MaxRuns
    /\ campaign' = 1
    /\ pc' = "reset"
    /\ UNCHANGED <<run, trial, todo, k6Status, trialStatus, preflightFailed,
                   newest, orphans, stats, dir, faults, history>>

(* Mutant: pg_stat_statements is not reset between trials. *)
CampaignTrialNoReset ==
    /\ pc = "reset"
    /\ ExecTrial(Campaign[campaign], CampaignPhases)
    /\ byCampaign' = byCampaign \cup {run + 1}
    /\ NoFault
    /\ UNCHANGED <<campaign, stats>>

(* Reset pg_stat_statements and run exec-trial.sh for the next trial. *)
CampaignTrial ==
    /\ pc = "reset"
    /\ stats' = {}
    /\ ExecTrial(Campaign[campaign], CampaignPhases)
    /\ byCampaign' = byCampaign \cup {run + 1}
    /\ NoFault
    /\ UNCHANGED campaign

(* The reset fails: set -e ends the campaign.  Or the reset succeeds and
   exec-trial.sh finds a container down: the campaign goes on. *)
CampaignTrialFails ==
    /\ pc = "reset"
    /\ Fault
    /\ \/ campaign' = 0 /\ pc' = "idle" /\ UNCHANGED stats
       \/ pc' = "collect" /\ stats' = {} /\ UNCHANGED campaign
    /\ UNCHANGED <<run, trial, todo, k6Status, trialStatus, preflightFailed,
                   newest, orphans, dir, history>>

(* Mutant: the loop over the trials goes one index too far. *)
CampaignCollectsOneMore ==
    /\ pc = "collect"
    /\ dir' = [dir EXCEPT ![Campaign[campaign]].logs = TRUE]
    /\ NoFault
    /\ IF campaign <= Len(Campaign)
       THEN campaign' = campaign + 1 /\ pc' = "reset"
       ELSE campaign' = 0 /\ pc' = "idle"
    /\ UNCHANGED <<run, trial, todo, k6Status, trialStatus, preflightFailed,
                   newest, orphans, stats, history>>

(* After a trial: telemetry once more for the window the manifest has, the
   logs of the containers, and on to the next trial. *)
CampaignCollects ==
    /\ pc = "collect"
    /\ LET t == Campaign[campaign]
           logged == [dir EXCEPT ![t].logs = TRUE]
       IN  IF WindowRecorded(dir[t], "saturation")
           THEN CollectTelemetry(logged, t,
                                 dir[t].manifest.window["saturation"].started)
           ELSE dir' = logged /\ NoFault
    /\ IF campaign < Len(Campaign)
       THEN campaign' = campaign + 1 /\ pc' = "reset"
       ELSE campaign' = 0 /\ pc' = "idle"
    /\ UNCHANGED <<run, trial, todo, k6Status, trialStatus, preflightFailed,
                   newest, orphans, stats, history>>

-----------------------------------------------------------------------------
(* Ctrl-C or a dropped session ends the scripts, not a k6 in its container. *)
Interrupt ==
    /\ pc # "idle"
    /\ Fault
    /\ orphans' = IF pc = "k6"
                  THEN orphans \cup {[run |-> run, phase |-> Phase]}
                  ELSE orphans
    /\ outlived' = IF pc = "k6" THEN outlived \cup {run} ELSE outlived
    /\ stats' = IF pc = "k6" THEN stats \cup {run} ELSE stats
    /\ pc' = "idle"
    /\ campaign' = 0
    /\ UNCHANGED <<run, trial, todo, k6Status, trialStatus, preflightFailed,
                   newest, dir, last, finished, byCampaign>>

OrphanEnds ==
    /\ \E o \in orphans :
          /\ newest' = o
          /\ orphans' = orphans \ {o}
          /\ stats' = stats \cup {o.run}
    /\ UNCHANGED <<pc, campaign, run, trial, todo, k6Status, trialStatus,
                   preflightFailed, dir, faults, history>>

Rest ==
    /\ pc = "idle" /\ run = MaxRuns
    /\ UNCHANGED vars

Next ==
    \/ OperatorRuns
    \/ Preflight
    \/ PreflightAborts
    \/ PhaseStart
    \/ \E s \in ExitCodes, secs \in {0, 1} : K6Ends(s, secs)
    \/ CopySummary
    \/ Snapshot
    \/ Telemetry
    \/ Finish
    \/ CampaignStarts
    \/ CampaignTrial
    \/ CampaignTrialFails
    \/ CampaignCollects
    \/ Interrupt
    \/ OrphanEnds
    \/ Rest

Spec == Init /\ [][Next]_vars

-----------------------------------------------------------------------------
Counted(t) == Publishable(dir[t]) \/ Usable(dir[t], t \in BurnIns)

(* An execution that was interrupted or aborted leaves nothing that the gate
   or the aggregation would count, even in a directory where an earlier
   execution of the same trial id had finished. *)
UnfinishedNotCounted ==
    \A t \in TrialIds : Counted(t) => last[t] \in finished

(* All the evidence the gate accepts is from one execution: the windows, the
   preflight records and the telemetry belong to the manifest's own run, and
   none is left over from an earlier run of the trial id. *)
EvidenceIsOfOneRun ==
    \A t \in TrialIds :
        LET d == dir[t] IN
        Publishable(d) =>
            /\ d.manifest.run = last[t]
            /\ d.preflight.run = last[t]
            /\ d.telemetry = last[t]
            /\ d.manifest.window["saturation"].started = last[t]
            /\ d.manifest.window["saturation"].ended = last[t]

(* A failed phase does not stop the ones after it: an execution that reached
   its end has run and timed every phase it announced. *)
EveryPhaseRecorded ==
    \A t \in TrialIds :
        last[t] \in finished =>
            LET m == dir[t].manifest IN
            \A i \in DOMAIN m.phases :
                /\ m.window[m.phases[i]].started = last[t]
                /\ m.window[m.phases[i]].ended = last[t]

(* The query profile of a trial that the campaign ran has the queries of that
   execution alone, but for those of a k6 that outlived its script. *)
CampaignProfileIsOwn ==
    \A t \in TrialIds :
        last[t] \in byCampaign \cap finished =>
            dir[t].profile \subseteq {last[t]} \cup outlived

-----------------------------------------------------------------------------
(* A claim of the documentation that the scripts do not keep. *)

(* "the saturation phase exists and produced a k6 summary" (the header of
   verify-manifest.sh). *)
PublishedSummaryIsOwn ==
    \A t \in TrialIds :
        Publishable(dir[t]) =>
            dir[t].summary["saturation"] =
               [run |-> last[t], phase |-> "saturation"]
=============================================================================
