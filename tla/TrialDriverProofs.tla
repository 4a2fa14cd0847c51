------------------------- MODULE TrialDriverProofs -------------------------
(***************************************************************************)
(* Proofs about TrialDriver, for every campaign, every choice of phases    *)
(* and any number of executions, failures and interruptions.               *)
(***************************************************************************)
EXTENDS TrialInvariant, FiniteSetTheorems, TLAPS

USE DEF Cycling, Closing, Executing

-----------------------------------------------------------------------------
(* Writing into one trial directory. *)

(* The fields of d and e agree, except perhaps those in fs. *)
SameBut(d, e, fs) ==
    /\ "manifest" \in fs \/ e.manifest = d.manifest
    /\ "preflight" \in fs \/ e.preflight = d.preflight
    /\ "started" \in fs \/ e.started = d.started
    /\ "ended" \in fs \/ e.ended = d.ended
    /\ "profile" \in fs \/ e.profile = d.profile
    /\ "telemetry" \in fs \/ e.telemetry = d.telemetry

(* A step writes those fields of the directory of t and nothing else. *)
Writes(t, fs) ==
    /\ dir' \in [TrialIds -> Dir]
    /\ SameBut(dir[t], dir'[t], fs)
    /\ \A u \in TrialIds : u # t => dir'[u] = dir[u]

LEMMA WriteDir ==
    ASSUME dir \in [TrialIds -> Dir], NEW t \in TrialIds, NEW e \in Dir,
           NEW fs, SameBut(dir[t], e, fs), dir' = [dir EXCEPT ![t] = e]
    PROVE  Writes(t, fs) /\ dir'[t] = e
  BY DEF Writes

LEMMA WriteNothing ==
    ASSUME dir \in [TrialIds -> Dir], NEW t \in TrialIds, dir' = dir
    PROVE  Writes(t, {})
  BY DEF Writes, SameBut

LEMMA SetManifest ==
    ASSUME NEW d \in Dir, NEW m \in Manifest
    PROVE  /\ [d EXCEPT !.manifest = m] \in Dir
           /\ SameBut(d, [d EXCEPT !.manifest = m], {"manifest"})
           /\ [d EXCEPT !.manifest = m].manifest = m
  BY DEF Dir, SameBut

LEMMA SetPreflight ==
    ASSUME NEW d \in Dir, NEW n \in Nat, NEW failed \in SUBSET Roles
    PROVE  LET e == [d EXCEPT !.preflight = [run |-> n, failed |-> failed]]
           IN  /\ e \in Dir
               /\ SameBut(d, e, {"preflight"})
               /\ e.preflight.run = n
  BY DEF Dir, SameBut

LEMMA SetStarted ==
    ASSUME NEW d \in Dir, NEW p \in Phases, NEW n \in Nat
    PROVE  /\ [d EXCEPT !.started[p] = n] \in Dir
           /\ SameBut(d, [d EXCEPT !.started[p] = n], {"started"})
           /\ [d EXCEPT !.started[p] = n].started = [d.started EXCEPT ![p] = n]
  BY DEF Dir, SameBut

LEMMA SetEnded ==
    ASSUME NEW d \in Dir, NEW p \in Phases, NEW w \in [run : Nat, secs : {0, 1}]
    PROVE  /\ [d EXCEPT !.ended[p] = w] \in Dir
           /\ SameBut(d, [d EXCEPT !.ended[p] = w], {"ended"})
           /\ [d EXCEPT !.ended[p] = w].ended = [d.ended EXCEPT ![p] = w]
  BY DEF Dir, SameBut

LEMMA SetSummary ==
    ASSUME NEW d \in Dir, NEW p \in Phases, NEW k \in K6Run \cup {NoFile}
    PROVE  /\ [d EXCEPT !.summary[p] = k] \in Dir
           /\ SameBut(d, [d EXCEPT !.summary[p] = k], {})
  BY DEF Dir, SameBut

LEMMA SetProfile ==
    ASSUME NEW d \in Dir, NEW s \in SUBSET Nat
    PROVE  /\ [d EXCEPT !.profile = s] \in Dir
           /\ SameBut(d, [d EXCEPT !.profile = s], {"profile"})
           /\ [d EXCEPT !.profile = s].profile = s
  BY DEF Dir, SameBut

LEMMA SetTelemetry ==
    ASSUME NEW d \in Dir, NEW n \in Nat \cup {NoFile}
    PROVE  /\ [d EXCEPT !.telemetry = n] \in Dir
           /\ SameBut(d, [d EXCEPT !.telemetry = n], {"telemetry"})
           /\ [d EXCEPT !.telemetry = n].telemetry = n
  BY DEF Dir, SameBut

LEMMA SetLogs ==
    ASSUME NEW d \in Dir
    PROVE  /\ [d EXCEPT !.logs = TRUE] \in Dir
           /\ SameBut(d, [d EXCEPT !.logs = TRUE], {})
  BY DEF Dir, SameBut

-----------------------------------------------------------------------------
(* Type correctness, with where the scripts are and which manifest a directory
   has: a step writes into the directory of a trial of the campaign, for a
   phase that is left to run, and completes a manifest that is there. *)

TypeInv == TypeOK /\ FlowInv /\ RunInv

LEMMA EmptyDirType == EmptyDir \in Dir
  BY DEF EmptyDir, Dir

LEMMA NewManifestType ==
    ASSUME run \in Nat, NEW phases \in PhaseLists
    PROVE  NewManifest(phases) \in Manifest
  BY DEF NewManifest, Manifest, NoWindow, Window

LEMMA CurrentPhase ==
    ASSUME TypeOK, todo # <<>>
    PROVE  Phase \in Phases /\ Tail(todo) \in Seq(Phases)
  BY DEF TypeOK, Phase

(* What each step writes. *)

LEMMA ExecWrites ==
    ASSUME TypeOK, NEW t \in TrialIds, NEW phases \in PhaseLists,
           ExecTrial(t, phases)
    PROVE  Writes(t, {"manifest"}) /\ dir'[t].manifest = NewManifest(phases)
  <1> DEFINE e == [dir[t] EXCEPT !.manifest = NewManifest(phases)]
  <1>1. dir' = [dir EXCEPT ![t] = e]
    BY DEF ExecTrial
  <1>2. /\ e \in Dir
        /\ SameBut(dir[t], e, {"manifest"})
        /\ e.manifest = NewManifest(phases)
    BY NewManifestType, SetManifest DEF TypeOK
  <1> HIDE DEF e
  <1>3. Writes(t, {"manifest"}) /\ dir'[t] = e
    BY <1>1, <1>2, WriteDir DEF TypeOK
  <1> QED  BY <1>2, <1>3

LEMMA PreflightWrites ==
    ASSUME TypeOK, Preflight
    PROVE  Writes(trial, {"preflight"}) /\ dir'[trial].preflight.run = run
  <1>1. PICK failed \in SUBSET Roles :
           dir' = [dir EXCEPT ![trial].preflight =
                      [run |-> run, failed |-> failed]]
    BY DEF Preflight
  <1> DEFINE e == [dir[trial] EXCEPT !.preflight =
                      [run |-> run, failed |-> failed]]
  <1>2. dir' = [dir EXCEPT ![trial] = e]
    BY <1>1
  <1>3. e \in Dir /\ SameBut(dir[trial], e, {"preflight"}) /\ e.preflight.run = run
    BY SetPreflight DEF TypeOK
  <1> HIDE DEF e
  <1> QED  BY <1>2, <1>3, WriteDir DEF TypeOK

LEMMA StartWrites ==
    ASSUME TypeOK, todo # <<>>, PhaseStart
    PROVE  /\ Writes(trial, {"started"})
           /\ dir'[trial].started = [Here.started EXCEPT ![Phase] = run]
  <1> DEFINE e == [dir[trial] EXCEPT !.started[Phase] = run]
  <1>1. dir' = [dir EXCEPT ![trial] = e]
    BY DEF PhaseStart
  <1>2. /\ e \in Dir /\ SameBut(dir[trial], e, {"started"})
        /\ e.started = [dir[trial].started EXCEPT ![Phase] = run]
    BY SetStarted, CurrentPhase DEF TypeOK
  <1> HIDE DEF e
  <1> QED  BY <1>1, <1>2, WriteDir DEF TypeOK, Here

LEMMA EndWrites ==
    ASSUME TypeOK, todo # <<>>, NEW s \in ExitCodes, NEW secs \in {0, 1},
           K6Ends(s, secs)
    PROVE  /\ Writes(trial, {"ended"})
           /\ dir'[trial].ended =
                 [Here.ended EXCEPT ![Phase] = [run |-> run, secs |-> secs]]
  <1> DEFINE w == [run |-> run, secs |-> secs]
             e == [dir[trial] EXCEPT !.ended[Phase] = w]
  <1>1. dir' = [dir EXCEPT ![trial] = e]
    BY DEF K6Ends
  <1>2. /\ w \in [run : Nat, secs : {0, 1}]
        /\ Phase \in Phases /\ dir[trial] \in Dir
    BY CurrentPhase DEF TypeOK
  <1> HIDE DEF w
  <1>3. /\ e \in Dir /\ SameBut(dir[trial], e, {"ended"})
        /\ e.ended = [dir[trial].ended EXCEPT ![Phase] = w]
    BY <1>2, SetEnded
  <1> HIDE DEF e
  <1>4. Writes(trial, {"ended"}) /\ dir'[trial] = e
    BY <1>1, <1>3, WriteDir DEF TypeOK
  <1> QED  BY <1>3, <1>4 DEF Here, w

LEMMA CopyWrites ==
    ASSUME TypeOK, todo # <<>>, CopySummary
    PROVE  Writes(trial, {})
  <1>1. CASE dir' = dir
    BY <1>1, WriteNothing DEF TypeOK
  <1>2. CASE dir' = [dir EXCEPT ![trial].summary[Phase] = newest]
    <2> DEFINE e == [dir[trial] EXCEPT !.summary[Phase] = newest]
    <2>1. dir' = [dir EXCEPT ![trial] = e]
      BY <1>2
    <2>2. e \in Dir /\ SameBut(dir[trial], e, {})
      BY SetSummary, CurrentPhase DEF TypeOK
    <2> HIDE DEF e
    <2> QED  BY <2>1, <2>2, WriteDir DEF TypeOK
  <1> QED  BY <1>1, <1>2 DEF CopySummary

LEMMA SnapshotWrites ==
    ASSUME TypeOK, Snapshot
    PROVE  Writes(trial, {"profile"}) /\ dir'[trial].profile \in {Queried, {}}
  <1>1. PICK s \in {Queried, {}} : dir' = [dir EXCEPT ![trial].profile = s]
    BY DEF Snapshot
  <1> DEFINE e == [dir[trial] EXCEPT !.profile = s]
  <1>2. dir' = [dir EXCEPT ![trial] = e]
    BY <1>1
  <1>3. s \in SUBSET Nat
    BY <1>1 DEF TypeOK, Queried, K6Run
  <1>4. e \in Dir /\ SameBut(dir[trial], e, {"profile"}) /\ e.profile = s
    BY <1>3, SetProfile DEF TypeOK
  <1> HIDE DEF e
  <1> QED  BY <1>2, <1>4, WriteDir DEF TypeOK

LEMMA CollectWrites ==
    ASSUME TypeOK, NEW d \in [TrialIds -> Dir], NEW t \in TrialIds, NEW n \in Nat,
           CollectTelemetry(d, t, n),
           SameBut(dir[t], d[t], {}),
           \A u \in TrialIds : u # t => d[u] = dir[u]
    PROVE  /\ Writes(t, {"telemetry"})
           /\ dir'[t].telemetry \in {NoFile, n}
  <1>1. PICK x \in {NoFile, n} : dir' = [d EXCEPT ![t].telemetry = x]
    BY DEF CollectTelemetry
  <1> DEFINE e == [d[t] EXCEPT !.telemetry = x]
  <1>2. dir' = [d EXCEPT ![t] = e]
    BY <1>1
  <1>3. e \in Dir /\ SameBut(d[t], e, {"telemetry"}) /\ e.telemetry = x
    BY <1>1, SetTelemetry
  <1> HIDE DEF e
  <1>4. dir' \in [TrialIds -> Dir] /\ dir'[t] = e
        /\ \A u \in TrialIds : u # t => dir'[u] = d[u]
    BY <1>2, <1>3
  <1>5. SameBut(dir[t], dir'[t], {"telemetry"})
    BY <1>3, <1>4 DEF SameBut
  <1> QED  BY <1>1, <1>3, <1>4, <1>5 DEF Writes

LEMMA TelemetryWrites ==
    ASSUME TypeOK, Telemetry
    PROVE  /\ Writes(trial, {"telemetry"})
           /\ dir'[trial].telemetry \in {NoFile, Here.started["saturation"]}
  <1>1. trial \in TrialIds /\ dir \in [TrialIds -> Dir]
    BY DEF TypeOK
  <1>2. Here.started["saturation"] \in Nat
    BY <1>1 DEF Here, Dir, Phases
  <1>3. SameBut(dir[trial], dir[trial], {})
    BY DEF SameBut
  <1> QED  BY <1>1, <1>2, <1>3, CollectWrites DEF Telemetry

LEMMA CampaignWrites ==
    ASSUME TypeInv, CampaignCollects
    PROVE  LET t == Campaign[campaign]
               n == dir[t].manifest.window["saturation"].started
           IN  /\ t \in TrialIds
               /\ IF WindowRecorded(dir[t], "saturation")
                  THEN /\ Writes(t, {"telemetry"})
                       /\ dir'[t].telemetry \in {NoFile, n}
                  ELSE Writes(t, {})
  <1> DEFINE t == Campaign[campaign]
             n == dir[t].manifest.window["saturation"].started
             e == [dir[t] EXCEPT !.logs = TRUE]
             logged == [dir EXCEPT ![t] = e]
  <1>1. t \in TrialIds /\ dir \in [TrialIds -> Dir]
    BY CampaignAssumption DEF TypeInv, TypeOK, FlowInv, CampaignCollects
  <1>2. e \in Dir /\ SameBut(dir[t], e, {})
    BY <1>1, SetLogs
  <1>3. IF WindowRecorded(dir[t], "saturation")
        THEN CollectTelemetry(logged, t, n) ELSE dir' = logged
    BY DEF CampaignCollects
  <1> HIDE DEF e
  <1>4. /\ logged \in [TrialIds -> Dir]
        /\ SameBut(dir[t], logged[t], {})
        /\ \A u \in TrialIds : u # t => logged[u] = dir[u]
    BY <1>1, <1>2
  <1>5. CASE WindowRecorded(dir[t], "saturation")
    <2>1. dir[t].manifest \in Manifest
      BY <1>1, <1>5 DEF WindowRecorded, Dir
    <2>2. n \in Nat
      BY <2>1 DEF Manifest, Window, Phases
    <2> HIDE DEF logged, n, t
    <2>3. Writes(t, {"telemetry"}) /\ dir'[t].telemetry \in {NoFile, n}
      BY <1>1, <1>3, <1>4, <1>5, <2>2, CollectWrites DEF TypeInv
    <2> QED  BY <1>1, <1>5, <2>3 DEF n, t
  <1>6. CASE ~WindowRecorded(dir[t], "saturation")
    <2> HIDE DEF logged, t
    <2>1. Writes(t, {})
      BY <1>3, <1>4, <1>6 DEF Writes
    <2> QED  BY <1>1, <1>6, <2>1 DEF t
  <1> QED  BY <1>5, <1>6

LEMMA WindowTypes ==
    ASSUME TypeOK, NEW p \in Phases
    PROVE  WindowOf(p) \in Window
  <1>1. Here \in Dir
    BY DEF TypeOK, Here
  <1>2. Here.started[p] \in Nat /\ Here.ended[p] \in [run : Nat, secs : {0, 1}]
    BY <1>1 DEF Dir
  <1> QED  BY <1>2 DEF WindowOf, Window, NoWindow

LEMMA FinishWrites ==
    ASSUME TypeInv, Finish
    PROVE  /\ Writes(trial, {"manifest"})
           /\ Here.manifest \in Manifest
           /\ dir'[trial].manifest \in Manifest
           /\ dir'[trial].manifest.run = Here.manifest.run
           /\ dir'[trial].manifest.phases = Here.manifest.phases
           /\ \A p \in Phases : dir'[trial].manifest.window[p] = WindowOf(p)
  <1> DEFINE w == [p \in Phases |-> WindowOf(p)]
             m == [Here.manifest EXCEPT !.done = TRUE,
                                        !.status = trialStatus,
                                        !.preflight_failed = preflightFailed,
                                        !.window = w]
             e == [dir[trial] EXCEPT !.manifest = m]
  <1>1. Here.manifest \in Manifest
    BY DEF TypeInv, TypeOK, FlowInv, RunInv, Finish, Here
  <1>2. dir' = [dir EXCEPT ![trial] = e]
    BY DEF Finish, Here
  <1>3. /\ w \in [Phases -> Window]
        /\ \A p \in Phases : w[p] = WindowOf(p)
    BY WindowTypes DEF TypeInv
  <1>4. trialStatus \in Nat /\ preflightFailed \in 0 .. 3
    BY DEF TypeInv, TypeOK, ExitCodes
  <1> HIDE DEF w
  <1>5. /\ m \in Manifest
        /\ m.run = Here.manifest.run /\ m.phases = Here.manifest.phases
        /\ m.window = w
    BY <1>1, <1>3, <1>4 DEF Manifest
  <1> HIDE DEF m
  <1>6. e \in Dir /\ SameBut(dir[trial], e, {"manifest"}) /\ e.manifest = m
    BY <1>5, SetManifest DEF TypeInv, TypeOK
  <1> HIDE DEF e
  <1>7. Writes(trial, {"manifest"}) /\ dir'[trial] = e
    BY <1>2, <1>6, WriteDir DEF TypeInv, TypeOK
  <1> QED  BY <1>1, <1>3, <1>5, <1>6, <1>7

LEMMA RolesCount ==
    ASSUME NEW S \in SUBSET Roles
    PROVE  Cardinality(S) \in 0 .. 3
  <1>1. IsFiniteSet(Roles) /\ Cardinality(Roles) <= 3
    <2> DEFINE A == {"app"}
               B == A \cup {"db"}
    <2>1. IsFiniteSet(A) /\ Cardinality(A) = 1
      BY FS_Singleton
    <2> HIDE DEF A
    <2>2. IsFiniteSet(B) /\ Cardinality(B) \in {1, 2}
      BY <2>1, FS_AddElement
    <2>3. Roles = B \cup {"loadgen"}
      BY DEF Roles, A
    <2> HIDE DEF B
    <2>4. IsFiniteSet(Roles) /\ Cardinality(Roles) \in {1, 2, 3}
      BY <2>2, <2>3, FS_AddElement
    <2> QED  BY <2>4
  <1>2. IsFiniteSet(S) /\ Cardinality(S) <= Cardinality(Roles)
    BY <1>1, FS_Subset
  <1> QED  BY <1>1, <1>2, FS_CardinalityType

LEMMA InitTypes == Init => TypeInv
  <1> SUFFICES ASSUME Init PROVE TypeInv
    OBVIOUS
  <1>1. TypeOK
    BY EmptyDirType, CampaignAssumption DEF Init, TypeOK, Steps, ExitCodes
  <1>2. FlowInv /\ RunInv
    BY DEF Init, FlowInv, RunInv, EmptyDir
  <1> QED  BY <1>1, <1>2 DEF TypeInv

LEMMA ExecTypes ==
    ASSUME TypeInv, NEW t \in TrialIds, NEW phases \in PhaseLists,
           ExecTrial(t, phases),
           campaign' = campaign, faults' = faults, stats' \subseteq stats,
           byCampaign' \in {byCampaign, byCampaign \cup {run + 1}}
    PROVE  TypeInv'
  <1> USE DEF TypeInv
  <1>1. phases \in Seq(Phases) /\ phases # <<>>
    BY PhaseListsAssumption
  <1>2. NewManifest(phases) \in Manifest /\ NewManifest(phases).run = run + 1
    BY NewManifestType DEF TypeOK, NewManifest
  <1>3. Writes(t, {"manifest"}) /\ dir'[t].manifest = NewManifest(phases)
    BY ExecWrites
  <1>4. TypeOK'
    BY <1>1, <1>3 DEF TypeOK, ExecTrial, Writes, Steps, ExitCodes
  <1>5. FlowInv'
    BY <1>1 DEF TypeOK, FlowInv, RunInv, ExecTrial
  <1>6. RunInv'
    BY <1>2, <1>3 DEF TypeOK, RunInv, ExecTrial, Writes
  <1> QED  BY <1>4, <1>5, <1>6

(* A step that leaves the manifests alone and begins no execution. *)
LEMMA KeepsRuns ==
    ASSUME RunInv, NEW t \in TrialIds, NEW fs, "manifest" \notin fs,
           Writes(t, fs), pc' \in Executing => pc \in Executing,
           UNCHANGED <<run, finished, byCampaign, last>>
    PROVE  RunInv'
  <1>1. \A u \in TrialIds : dir'[u].manifest = dir[u].manifest
    BY DEF Writes, SameBut
  <1> QED  BY <1>1 DEF RunInv

LEMMA StepTypes == TypeInv /\ [Next]_vars => TypeInv'
  <1> SUFFICES ASSUME TypeInv, [Next]_vars PROVE TypeInv'
    OBVIOUS
  <1> USE DEF TypeInv, history
  <1>0. TypeOK /\ trial \in TrialIds /\ dir \in [TrialIds -> Dir]
    BY DEF TypeOK
  <1>1. CASE OperatorRuns
    BY <1>1, ExecTypes DEF OperatorRuns, NoFault
  <1>2. CASE Preflight
    <2>1. Writes(trial, {"preflight"})
      BY <1>2, PreflightWrites
    <2>2. RunInv'
      BY <1>0, <1>2, <2>1, KeepsRuns DEF Preflight
    <2>3. preflightFailed' \in 0 .. 3 /\ faults' \in Nat
      <3>1. PICK failed \in SUBSET Roles :
               /\ IF failed = {} THEN NoFault ELSE Fault
               /\ preflightFailed' = Cardinality(failed)
        BY <1>2 DEF Preflight
      <3>2. Cardinality(failed) \in 0 .. 3
        BY RolesCount
      <3> QED  BY <3>1, <3>2 DEF NoFault, Fault, TypeOK
    <2> QED  BY <1>2, <2>1, <2>2, <2>3 DEF Preflight, TypeOK, FlowInv, Writes, Steps
  <1>3. CASE PreflightAborts
    BY <1>3 DEF PreflightAborts, Exit, Fault, TypeOK, FlowInv, RunInv, Steps
  <1>4. CASE PhaseStart
    <2>1. Writes(trial, {"started"})
      BY <1>4, StartWrites DEF PhaseStart, FlowInv
    <2>2. RunInv'
      BY <1>0, <1>4, <2>1, KeepsRuns DEF PhaseStart
    <2> QED  BY <1>4, <2>1, <2>2 DEF PhaseStart, TypeOK, FlowInv, Writes, Steps
  <1>5. ASSUME NEW s \in ExitCodes, NEW secs \in {0, 1}, K6Ends(s, secs)
        PROVE  TypeInv'
    <2>1. Writes(trial, {"ended"}) /\ Phase \in Phases
      BY <1>5, EndWrites, CurrentPhase DEF K6Ends, FlowInv
    <2>2. RunInv'
      BY <1>0, <1>5, <2>1, KeepsRuns DEF K6Ends
    <2>3. newest' \in K6Run \cup {NoFile} /\ faults' \in Nat
      BY <1>5, <2>1 DEF K6Ends, TypeOK, K6Run, Fault, NoFault
    <2>4. stats' \subseteq Nat
      BY <1>5 DEF K6Ends, TypeOK
    <2> QED
      BY <1>5, <2>1, <2>2, <2>3, <2>4 DEF K6Ends, TypeOK, FlowInv, Writes, Steps
  <1>6. CASE CopySummary
    <2>1. Writes(trial, {}) /\ Tail(todo) \in Seq(Phases)
      BY <1>6, CopyWrites, CurrentPhase DEF CopySummary, FlowInv
    <2>2. RunInv'
      BY <1>0, <1>6, <2>1, KeepsRuns DEF CopySummary
    <2> QED
      BY <1>6, <2>1, <2>2
      DEF CopySummary, TypeOK, FlowInv, Writes, Steps, Fault, NoFault, ExitCodes
  <1>7. CASE Snapshot
    <2>1. Writes(trial, {"profile"})
      BY <1>7, SnapshotWrites
    <2>2. RunInv'
      BY <1>0, <1>7, <2>1, KeepsRuns DEF Snapshot
    <2> QED
      BY <1>7, <2>1, <2>2 DEF Snapshot, TypeOK, FlowInv, Writes, Steps, Fault, NoFault
  <1>8. CASE Telemetry
    <2>1. Writes(trial, {"telemetry"})
      BY <1>8, TelemetryWrites
    <2>2. RunInv'
      BY <1>0, <1>8, <2>1, KeepsRuns DEF Telemetry
    <2> QED
      BY <1>8, <2>1, <2>2
      DEF Telemetry, CollectTelemetry, TypeOK, FlowInv, Writes, Steps, Fault, NoFault
  <1>9. CASE Finish
    <2>1. /\ Writes(trial, {"manifest"})
          /\ dir'[trial].manifest \in Manifest
          /\ dir'[trial].manifest.run = dir[trial].manifest.run
      BY <1>9, FinishWrites DEF Here
    <2>2. RunInv'
      <3>1. pc' \notin Executing
        BY <1>9 DEF Finish, Exit
      <3>2. finished' \subseteq 1 .. run'
        BY <1>9 DEF Finish, RunInv, TypeOK
      <3>3. last[trial] = run /\ run > 0
        BY <1>9 DEF Finish, FlowInv, RunInv
      <3>4. \A t \in TrialIds :
              /\ last'[t] <= run'
              /\ last'[t] = 0 => dir'[t].manifest = NoFile
              /\ last'[t] # 0 => /\ dir'[t].manifest \in Manifest
                                 /\ dir'[t].manifest.run = last'[t]
        BY <1>0, <1>9, <2>1, <3>3 DEF Finish, RunInv, TypeOK, Writes
      <3> QED  BY <1>9, <3>1, <3>2, <3>4 DEF Finish, RunInv
    <2>3. FlowInv'
      BY <1>9 DEF Finish, Exit, TypeOK, FlowInv
    <2> QED  BY <1>9, <2>1, <2>2, <2>3 DEF Finish, Exit, TypeOK, Writes, Steps
  <1>10. CASE CampaignStarts
    BY <1>10, CampaignAssumption DEF CampaignStarts, TypeOK, FlowInv, RunInv, Steps
  <1>11. CASE CampaignTrial
    <2>1. Campaign[campaign] \in TrialIds
      BY <1>11, CampaignAssumption DEF CampaignTrial, FlowInv
    <2> QED
      BY <1>11, <2>1, ExecTypes, PhaseListsAssumption DEF CampaignTrial, NoFault
  <1>12. CASE CampaignTrialFails
    <2>1. /\ pc' \in {"idle", "collect"}
          /\ campaign' \in 0 .. Len(Campaign)
          /\ pc' = "collect" => campaign' \in 1 .. Len(Campaign)
          /\ stats' \subseteq Nat /\ faults' \in Nat
      <3>1. 0 \in 0 .. Len(Campaign) /\ campaign \in 1 .. Len(Campaign)
        BY <1>12, CampaignAssumption DEF CampaignTrialFails, FlowInv
      <3>2. stats' = stats \/ stats' = {}
        BY <1>12 DEF CampaignTrialFails
      <3>3. stats' \subseteq Nat /\ faults' \in Nat
        <4>1. stats' \subseteq Nat
          BY <1>0, <3>2, Zenon DEF TypeOK
        <4>2. faults' \in Nat
          BY <1>12 DEF CampaignTrialFails, TypeOK, Fault
        <4> QED  BY <4>1, <4>2
      <3>4. \/ pc' = "idle" /\ campaign' = 0
            \/ pc' = "collect" /\ campaign' = campaign
        BY <1>12 DEF CampaignTrialFails
      <3> QED  BY <3>1, <3>3, <3>4
    <2>2. UNCHANGED <<run, trial, todo, k6Status, trialStatus, preflightFailed,
                      newest, orphans, dir, history>>
      BY <1>12 DEF CampaignTrialFails
    <2> QED  BY <2>1, <2>2 DEF TypeOK, FlowInv, RunInv, Steps
  <1>13. CASE CampaignCollects
    <2> DEFINE t == Campaign[campaign]
    <2>1. PICK fs : t \in TrialIds /\ Writes(t, fs) /\ "manifest" \notin fs
      BY <1>13, CampaignWrites
    <2>2. RunInv'
      BY <1>13, <2>1, KeepsRuns DEF CampaignCollects
    <2>3. faults' \in Nat
      BY <1>13 DEF CampaignCollects, CollectTelemetry, TypeOK, Fault, NoFault
    <2>4. campaign' \in 0 .. Len(Campaign) /\ (pc' = "reset" => campaign' > 0)
          /\ pc' \in {"reset", "idle"}
      <3>1. Len(Campaign) \in Nat /\ campaign \in 1 .. Len(Campaign)
        BY <1>13, CampaignAssumption DEF CampaignCollects, FlowInv
      <3> QED  BY <1>13, <3>1 DEF CampaignCollects
    <2> QED
      BY <1>13, <2>1, <2>2, <2>3, <2>4, CampaignAssumption
      DEF CampaignCollects, TypeOK, FlowInv, Writes, Steps
  <1>14. CASE Interrupt
    <2>1. pc = "k6" => Phase \in Phases
      BY CurrentPhase DEF FlowInv
    <2>2. /\ orphans' \subseteq K6Run /\ outlived' \subseteq Nat /\ stats' \subseteq Nat
          /\ faults' \in Nat
      BY <1>14, <2>1 DEF Interrupt, TypeOK, Fault, K6Run
    <2>3. pc' = "idle" /\ campaign' \in 0 .. Len(Campaign)
      BY <1>14, CampaignAssumption DEF Interrupt
    <2>4. UNCHANGED <<run, trial, todo, k6Status, trialStatus, preflightFailed,
                      newest, dir, last, finished, byCampaign>>
      BY <1>14 DEF Interrupt
    <2> QED  BY <2>2, <2>3, <2>4 DEF TypeOK, FlowInv, RunInv, Steps
  <1>15. CASE OrphanEnds
    BY <1>15 DEF OrphanEnds, TypeOK, FlowInv, RunInv, K6Run
  <1>16. CASE UNCHANGED vars
    BY <1>16 DEF vars, TypeOK, FlowInv, RunInv
  <1> QED
    BY <1>1, <1>2, <1>3, <1>4, <1>5, <1>6, <1>7, <1>8, <1>9, <1>10, <1>11,
       <1>12, <1>13, <1>14, <1>15, <1>16 DEF Next, Rest

(* Every state of the scripts is well typed, and a directory's manifest is
   always the one of the last execution that began in it. *)
THEOREM DriverTyping == Spec => []TypeInv
  BY InitTypes, StepTypes, PTL DEF Spec

-----------------------------------------------------------------------------
(* The evidence in a directory. *)

EvInv == EvidenceInv /\ PhaseInv

(* A directory whose last execution has not finished is judged by its manifest
   alone, one whose last execution has by three of its fields. *)
LEMMA KeepsEvidence ==
    ASSUME EvidenceInv, NEW t \in TrialIds, NEW fs, Writes(t, fs),
           "manifest" \notin fs,
           last[t] \in finished => "preflight" \notin fs /\ "telemetry" \notin fs,
           UNCHANGED <<last, finished>>
    PROVE  EvidenceInv'
  <1> SUFFICES ASSUME NEW u \in TrialIds
               PROVE  IF last[u] \in finished THEN Evidence(dir'[u], last[u])
                      ELSE \/ dir'[u].manifest = NoFile
                           \/ \A p \in Phases : dir'[u].manifest.window[p] = NoWindow
    BY DEF EvidenceInv, Evidence, TimedBy
  <1>1. CASE u # t
    BY <1>1 DEF EvidenceInv, Writes
  <1>2. CASE u = t /\ last[t] \notin finished
    BY <1>2 DEF EvidenceInv, Writes, SameBut
  <1>3. CASE u = t /\ last[t] \in finished
    <2>1. /\ dir'[t].manifest = dir[t].manifest
          /\ dir'[t].preflight = dir[t].preflight
          /\ dir'[t].telemetry = dir[t].telemetry
      BY <1>3 DEF Writes, SameBut
    <2>2. Evidence(dir[t], last[t])
      BY <1>3 DEF EvidenceInv
    <2>3. Evidence(dir'[t], last[t])
      BY <2>1, <2>2 DEF Evidence
    <2> QED  BY <1>3, <2>3
  <1> QED  BY <1>1, <1>2, <1>3

LEMMA ExecEvidence ==
    ASSUME TypeInv, EvInv, NEW t \in TrialIds, NEW phases \in PhaseLists,
           ExecTrial(t, phases)
    PROVE  EvInv'
  <1>1. Writes(t, {"manifest"}) /\ dir'[t].manifest = NewManifest(phases)
    BY ExecWrites DEF TypeInv
  <1>2. run + 1 \notin finished /\ last' = [last EXCEPT ![t] = run + 1]
        /\ finished' = finished
    BY DEF TypeInv, TypeOK, RunInv, ExecTrial
  <1>3. \A p \in Phases : NewManifest(phases).window[p] = NoWindow
    BY DEF NewManifest
  <1>4. EvidenceInv'
    <2> SUFFICES ASSUME NEW u \in TrialIds
                 PROVE  IF last'[u] \in finished THEN Evidence(dir'[u], last'[u])
                        ELSE \/ dir'[u].manifest = NoFile
                             \/ \A p \in Phases :
                                   dir'[u].manifest.window[p] = NoWindow
      BY <1>2 DEF EvidenceInv, Evidence, TimedBy
    <2>1. CASE u = t
      BY <1>1, <1>2, <1>3, <2>1 DEF TypeInv, TypeOK
    <2>2. CASE u # t
      BY <1>1, <1>2, <2>2 DEF EvInv, EvidenceInv, Writes, TypeInv, TypeOK
    <2> QED  BY <2>1, <2>2
  <1>5. PhaseInv'
    BY <1>1 DEF PhaseInv, ExecTrial, Here, NewManifest
  <1> QED  BY <1>4, <1>5 DEF EvInv

LEMMA AnnouncedPhases ==
    ASSUME TypeInv, pc \in Executing
    PROVE  \A i \in DOMAIN Here.manifest.phases : Here.manifest.phases[i] \in Phases
  <1>1. Here.manifest \in Manifest
    BY DEF TypeInv, TypeOK, FlowInv, RunInv, Here
  <1>2. Here.manifest.phases \in Seq(Phases)
    BY <1>1, PhaseListsAssumption DEF Manifest
  <1> QED  BY <1>2

LEMMA FinishEvidence ==
    ASSUME TypeInv, EvInv, Finish
    PROVE  EvInv'
  <1>0. /\ pc = "finish" /\ trial \in TrialIds
        /\ last[trial] = run /\ last' = last /\ finished' = finished \cup {run}
        /\ \A t \in TrialIds : t # trial => last[t] < run
        /\ run \in Nat /\ last \in [TrialIds -> Nat]
    BY DEF Finish, TypeInv, TypeOK, FlowInv
  <1>1. /\ Writes(trial, {"manifest"})
        /\ dir'[trial].manifest.phases = Here.manifest.phases
        /\ \A p \in Phases : dir'[trial].manifest.window[p] = WindowOf(p)
    BY FinishWrites
  <1>2. /\ dir'[trial].preflight = Here.preflight
        /\ dir'[trial].telemetry = Here.telemetry
    BY <1>1 DEF Writes, SameBut, Here
  <1>3. \A i \in DOMAIN Here.manifest.phases :
           /\ Here.manifest.phases[i] \in Phases
           /\ Here.started[Here.manifest.phases[i]] = run
           /\ Here.ended[Here.manifest.phases[i]].run = run
    BY <1>0, AnnouncedPhases DEF EvInv, PhaseInv
  <1>4. \A p \in Phases :
           IF \E i \in DOMAIN Here.manifest.phases : Here.manifest.phases[i] = p
           THEN TimedBy(WindowOf(p), run) ELSE WindowOf(p) = NoWindow
    BY <1>3 DEF WindowOf, TimedBy
  <1>5. Here.preflight = NoFile \/ Here.preflight.run = run
    BY <1>0 DEF EvInv, PhaseInv
  <1>6. WindowOf("saturation") # NoWindow => Here.telemetry \in {NoFile, run}
    BY <1>0, <1>4 DEF EvInv, PhaseInv, RanSaturation, Phases
  <1>7. Evidence(dir'[trial], run)
    BY <1>1, <1>2, <1>3, <1>4, <1>5, <1>6 DEF Evidence, Phases
  <1>8. EvidenceInv'
    <2> SUFFICES ASSUME NEW u \in TrialIds
                 PROVE  IF last[u] \in finished' THEN Evidence(dir'[u], last[u])
                        ELSE \/ dir'[u].manifest = NoFile
                             \/ \A p \in Phases :
                                   dir'[u].manifest.window[p] = NoWindow
      BY <1>0 DEF EvidenceInv, Evidence, TimedBy
    <2>1. CASE u = trial
      BY <1>0, <1>7, <2>1
    <2>2. CASE u # trial
      BY <1>0, <1>1, <2>2 DEF EvInv, EvidenceInv, Writes
    <2> QED  BY <2>1, <2>2
  <1>9. PhaseInv'
    BY DEF Finish, Exit, PhaseInv
  <1> QED  BY <1>8, <1>9 DEF EvInv

LEMMA CollectEvidence ==
    ASSUME TypeInv, EvInv, CampaignCollects
    PROVE  EvInv'
  <1> DEFINE t == Campaign[campaign]
             n == dir[t].manifest.window["saturation"].started
  <1>1. /\ t \in TrialIds
        /\ IF WindowRecorded(dir[t], "saturation")
           THEN Writes(t, {"telemetry"}) /\ dir'[t].telemetry \in {NoFile, n}
           ELSE Writes(t, {})
    BY CampaignWrites
  <1>2. last' = last /\ finished' = finished /\ pc' \in {"reset", "idle"}
    BY DEF CampaignCollects, history
  <1>3. PhaseInv'
    BY <1>2 DEF PhaseInv
  <1> HIDE DEF t
  <1>4. CASE ~WindowRecorded(dir[t], "saturation")
    <2>1. EvidenceInv'
      BY <1>1, <1>2, <1>4, KeepsEvidence DEF EvInv
    <2> QED  BY <1>3, <2>1 DEF EvInv
  <1>5. CASE WindowRecorded(dir[t], "saturation")
    <2>1. last[t] \in finished
      BY <1>1, <1>5 DEF EvInv, EvidenceInv, WindowRecorded, NoWindow, Phases
    <2>2. Evidence(dir[t], last[t])
      BY <1>1, <2>1 DEF EvInv, EvidenceInv
    <2>3. n = last[t]
      BY <1>5, <2>2 DEF Evidence, WindowRecorded, NoWindow, TimedBy, Phases
    <2>4. dir'[t].manifest = dir[t].manifest /\ dir'[t].preflight = dir[t].preflight
      BY <1>1, <1>5 DEF Writes, SameBut
    <2>5. Evidence(dir'[t], last[t])
      BY <1>1, <1>5, <2>2, <2>3, <2>4 DEF Evidence
    <2>6. EvidenceInv'
      <3> SUFFICES ASSUME NEW u \in TrialIds
                   PROVE  IF last[u] \in finished THEN Evidence(dir'[u], last[u])
                          ELSE \/ dir'[u].manifest = NoFile
                               \/ \A p \in Phases :
                                     dir'[u].manifest.window[p] = NoWindow
        BY <1>2 DEF EvidenceInv, Evidence, TimedBy
      <3>1. CASE u = t
        BY <2>1, <2>5, <3>1
      <3>2. CASE u # t
        BY <1>1, <1>5, <3>2 DEF EvInv, EvidenceInv, Writes
      <3> QED  BY <3>1, <3>2
    <2> QED  BY <1>3, <2>6 DEF EvInv
  <1> QED  BY <1>4, <1>5

LEMMA InitEvidence == Init => EvInv
  BY DEF Init, EvInv, EvidenceInv, PhaseInv, EmptyDir

LEMMA HeadTail ==
    ASSUME todo \in Seq(Phases), todo # <<>>, NEW j \in DOMAIN todo
    PROVE  todo[j] = Head(todo) \/ \E k \in DOMAIN Tail(todo) : Tail(todo)[k] = todo[j]
  <1>1. CASE j = 1
    BY <1>1
  <1>2. CASE j # 1
    <2>1. j - 1 \in DOMAIN Tail(todo) /\ Tail(todo)[j - 1] = todo[j]
      BY <1>2
    <2> QED  BY <2>1
  <1> QED  BY <1>1, <1>2

LEMMA StepEvidence ==
    TypeInv /\ TypeInv' /\ EvInv /\ [Next]_vars => EvInv'
  <1> SUFFICES ASSUME TypeInv, TypeInv', EvInv, [Next]_vars PROVE EvInv'
    OBVIOUS
  <1>0. /\ TypeOK /\ EvidenceInv /\ PhaseInv
        /\ trial \in TrialIds /\ dir \in [TrialIds -> Dir] /\ todo \in Seq(Phases)
        /\ pc \in Executing => last[trial] \notin finished /\ last[trial] = run
        /\ pc \in {"preflight"} \cup Cycling => todo # <<>>
    BY DEF EvInv, TypeInv, TypeOK, FlowInv
  <1>1. CASE OperatorRuns
    BY <1>1, ExecEvidence DEF OperatorRuns
  <1>2. CASE Preflight
    <2>1. Writes(trial, {"preflight"}) /\ dir'[trial].preflight.run = run
      BY <1>0, <1>2, PreflightWrites
    <2>2. EvidenceInv'
      BY <1>0, <1>2, <2>1, KeepsEvidence DEF Preflight, history
    <2>3. PhaseInv'
      BY <1>0, <1>2, <2>1 DEF Preflight, PhaseInv, Here, Writes, SameBut
    <2> QED  BY <2>2, <2>3 DEF EvInv
  <1>3. CASE PreflightAborts
    BY <1>0, <1>3 DEF PreflightAborts, Exit, history, EvInv, EvidenceInv, PhaseInv,
       Evidence, TimedBy
  <1>4. CASE PhaseStart
    <2>1. /\ Writes(trial, {"started"})
          /\ dir'[trial].started = [Here.started EXCEPT ![Phase] = run]
      BY <1>0, <1>4, StartWrites DEF PhaseStart
    <2>2. EvidenceInv'
      BY <1>0, <1>4, <2>1, KeepsEvidence DEF PhaseStart, history
    <2>3. Here.started \in [Phases -> Nat] /\ Phase \in Phases
      BY <1>0, <1>4, CurrentPhase DEF Here, Dir, PhaseStart
    <2>4. \A p \in Phases : Here.started[p] = run => dir'[trial].started[p] = run
      BY <2>1, <2>3
    <2>5. \A i \in DOMAIN Here.manifest.phases : Here.manifest.phases[i] \in Phases
      BY <1>0, <1>4, AnnouncedPhases DEF PhaseStart
    <2>6. /\ dir'[trial].manifest = Here.manifest
          /\ dir'[trial].preflight = Here.preflight
          /\ dir'[trial].ended = Here.ended
          /\ dir'[trial].started[Phase] = run
      BY <2>1, <2>3 DEF Writes, SameBut, Here
    <2>7. PhaseInv'
      BY <1>0, <1>4, <2>4, <2>5, <2>6 DEF PhaseStart, PhaseInv, Here, Phase
    <2> QED  BY <2>2, <2>7 DEF EvInv
  <1>5. ASSUME NEW s \in ExitCodes, NEW secs \in {0, 1}, K6Ends(s, secs)
        PROVE  EvInv'
    <2>1. /\ Writes(trial, {"ended"})
          /\ dir'[trial].ended =
                [Here.ended EXCEPT ![Phase] = [run |-> run, secs |-> secs]]
      BY <1>0, <1>5, EndWrites DEF K6Ends
    <2>2. EvidenceInv'
      BY <1>0, <1>5, <2>1, KeepsEvidence DEF K6Ends, history
    <2>3. /\ Here.ended \in [Phases -> [run : Nat, secs : {0, 1}]]
          /\ Phase \in Phases
      BY <1>0, <1>5, CurrentPhase DEF Here, Dir, K6Ends
    <2>4. /\ \A p \in Phases : Here.ended[p].run = run => dir'[trial].ended[p].run = run
          /\ dir'[trial].ended[Phase].run = run
      BY <2>1, <2>3
    <2>5. \A i \in DOMAIN Here.manifest.phases : Here.manifest.phases[i] \in Phases
      BY <1>0, <1>5, AnnouncedPhases DEF K6Ends
    <2>6. /\ dir'[trial].manifest = Here.manifest
          /\ dir'[trial].preflight = Here.preflight
          /\ dir'[trial].started = Here.started
      BY <2>1 DEF Writes, SameBut, Here
    <2>7. PhaseInv'
      BY <1>0, <1>5, <2>4, <2>5, <2>6 DEF K6Ends, PhaseInv, Here, Phase
    <2> QED  BY <2>2, <2>7 DEF EvInv
  <1>6. CASE CopySummary
    <2>1. Writes(trial, {})
      BY <1>0, <1>6, CopyWrites DEF CopySummary
    <2>2. EvidenceInv'
      BY <1>0, <1>6, <2>1, KeepsEvidence DEF CopySummary, history
    <2>3. /\ dir'[trial].manifest = Here.manifest
          /\ dir'[trial].preflight = Here.preflight
          /\ dir'[trial].started = Here.started
          /\ dir'[trial].ended = Here.ended
      BY <2>1 DEF Writes, SameBut, Here
    <2>4. /\ pc = "copy" /\ todo # <<>> /\ trial' = trial /\ run' = run
          /\ todo' = Tail(todo)
          /\ pc' = IF Tail(todo) = <<>> THEN "snapshot" ELSE "phase"
      BY <1>0, <1>6 DEF CopySummary
    <2>5. \A i \in DOMAIN Here.manifest.phases :
             \/ \E j \in DOMAIN Tail(todo) : Tail(todo)[j] = Here.manifest.phases[i]
             \/ /\ Here.started[Here.manifest.phases[i]] = run
                /\ Here.ended[Here.manifest.phases[i]].run = run
      <3> SUFFICES ASSUME NEW i \in DOMAIN Here.manifest.phases,
                          NEW j \in DOMAIN todo, todo[j] = Here.manifest.phases[i]
                   PROVE  \/ \E k \in DOMAIN Tail(todo) : Tail(todo)[k] = todo[j]
                          \/ /\ Here.started[todo[j]] = run
                             /\ Here.ended[todo[j]].run = run
        BY <1>0, <2>4 DEF PhaseInv
      <3>1. /\ Here.started[Head(todo)] = run
            /\ Here.ended[Head(todo)].run = run
        BY <1>0, <2>4 DEF PhaseInv, Phase
      <3> QED  BY <1>0, <2>4, <3>1, HeadTail
    <2>6. Tail(todo) = <<>> => DOMAIN Tail(todo) = {}
      OBVIOUS
    <2>7. PhaseInv'
      BY <1>0, <2>3, <2>4, <2>5, <2>6 DEF PhaseInv, Here
    <2> QED  BY <2>2, <2>7 DEF EvInv
  <1>7. CASE Snapshot
    <2>1. Writes(trial, {"profile"})
      BY <1>0, <1>7, SnapshotWrites
    <2>2. EvidenceInv'
      BY <1>0, <1>7, <2>1, KeepsEvidence DEF Snapshot, history
    <2>3. /\ dir'[trial].manifest = Here.manifest
          /\ dir'[trial].preflight = Here.preflight
          /\ dir'[trial].started = Here.started
          /\ dir'[trial].ended = Here.ended
      BY <2>1 DEF Writes, SameBut, Here
    <2>4. PhaseInv'
      BY <1>0, <1>7, <2>3 DEF Snapshot, PhaseInv, Here, RanSaturation
    <2> QED  BY <2>2, <2>4 DEF EvInv
  <1>8. CASE Telemetry
    <2>1. /\ Writes(trial, {"telemetry"})
          /\ dir'[trial].telemetry \in {NoFile, Here.started["saturation"]}
      BY <1>0, <1>8, TelemetryWrites
    <2>2. EvidenceInv'
      BY <1>0, <1>8, <2>1, KeepsEvidence DEF Telemetry, history
    <2>3. /\ dir'[trial].manifest = Here.manifest
          /\ dir'[trial].preflight = Here.preflight
          /\ dir'[trial].started = Here.started
          /\ dir'[trial].ended = Here.ended
      BY <2>1 DEF Writes, SameBut, Here
    <2>4. RanSaturation => Here.started["saturation"] = run
      BY <1>0, <1>8 DEF Telemetry, PhaseInv, RanSaturation
    <2>5. PhaseInv'
      BY <1>0, <1>8, <2>1, <2>3, <2>4 DEF Telemetry, PhaseInv, Here, RanSaturation
    <2> QED  BY <2>2, <2>5 DEF EvInv
  <1>9. CASE Finish
    BY <1>9, FinishEvidence DEF EvInv
  <1>10. CASE CampaignStarts \/ CampaignTrialFails \/ Interrupt
    BY <1>0, <1>10 DEF CampaignStarts, CampaignTrialFails, Interrupt, history, EvInv,
       EvidenceInv, PhaseInv, Evidence, TimedBy
  <1>11. CASE CampaignTrial
    <2>1. Campaign[campaign] \in TrialIds
      BY <1>11, CampaignAssumption DEF CampaignTrial, FlowInv, TypeInv
    <2> QED
      BY <1>11, <2>1, ExecEvidence, PhaseListsAssumption DEF CampaignTrial
  <1>13. CASE CampaignCollects
    BY <1>13, CollectEvidence
  <1>15. CASE OrphanEnds
    BY <1>0, <1>15 DEF OrphanEnds, history, EvInv, EvidenceInv, PhaseInv, Evidence,
       TimedBy, Here, Phase, RanSaturation
  <1>16. CASE UNCHANGED vars
    BY <1>0, <1>16 DEF vars, EvInv, EvidenceInv, PhaseInv, Evidence, TimedBy, Here,
       Phase, RanSaturation
  <1> QED
    BY <1>1, <1>2, <1>3, <1>4, <1>5, <1>6, <1>7, <1>8, <1>9, <1>10, <1>11,
       <1>13, <1>15, <1>16 DEF Next, Rest

(* Throughout the scripts, the evidence in a directory is of its last execution
   or is not recorded in its manifest. *)
THEOREM EvidenceKept == Spec => []EvInv
  BY InitEvidence, StepEvidence, DriverTyping, PTL DEF Spec

-----------------------------------------------------------------------------
(* The query profile. *)

(* A step that leaves the profiles alone. *)
LEMMA KeepsProfiles ==
    ASSUME CampaignProfileIsOwn, NEW t \in TrialIds, NEW fs, Writes(t, fs),
           "profile" \notin fs, UNCHANGED <<last, finished, byCampaign, outlived>>
    PROVE  CampaignProfileIsOwn'
  <1>1. \A u \in TrialIds : dir'[u].profile = dir[u].profile
    BY DEF Writes, SameBut
  <1> QED  BY <1>1 DEF CampaignProfileIsOwn

(* A new execution: its directory counts no more, the others as before. *)
LEMMA ExecProfiles ==
    ASSUME TypeInv, CampaignProfileIsOwn, NEW t \in TrialIds,
           NEW phases \in PhaseLists, ExecTrial(t, phases),
           byCampaign' \in {byCampaign, byCampaign \cup {run + 1}}
    PROVE  CampaignProfileIsOwn'
  <1>1. Writes(t, {"manifest"})
    BY ExecWrites DEF TypeInv
  <1>2. \A u \in TrialIds : dir'[u].profile = dir[u].profile
    BY <1>1 DEF Writes, SameBut
  <1>3. /\ finished' = finished /\ outlived' = outlived
        /\ last' = [last EXCEPT ![t] = run + 1]
        /\ finished \subseteq 1 .. run /\ run \in Nat /\ last \in [TrialIds -> Nat]
        /\ \A u \in TrialIds : last[u] <= run
    BY DEF ExecTrial, TypeInv, TypeOK, RunInv
  <1>4. ASSUME NEW u \in TrialIds, last'[u] \in byCampaign' \cap finished'
        PROVE  dir'[u].profile \subseteq {last'[u]} \cup outlived'
    <2>1. run + 1 \notin finished
      BY <1>3
    <2>2. u # t /\ last'[u] = last[u]
      BY <1>3, <1>4, <2>1
    <2>3. last[u] \in byCampaign \cap finished
      BY <1>3, <1>4, <2>2
    <2> QED  BY <1>2, <1>3, <2>2, <2>3 DEF CampaignProfileIsOwn
  <1> QED  BY <1>4 DEF CampaignProfileIsOwn

LEMMA StepProfiles ==
    TypeInv /\ ProfileInv /\ [Next]_vars => ProfileInv'
  <1> SUFFICES ASSUME TypeInv, ProfileInv, [Next]_vars PROVE ProfileInv'
    OBVIOUS
  <1>0. /\ TypeOK /\ CampaignProfileIsOwn
        /\ trial \in TrialIds /\ dir \in [TrialIds -> Dir] /\ run \in Nat
        /\ pc \in Executing => last[trial] \notin finished /\ last[trial] = run
        /\ pc \in {"preflight"} \cup Cycling => todo # <<>>
        /\ byCampaign \subseteq 1 .. run
    BY DEF ProfileInv, TypeInv, TypeOK, FlowInv, RunInv
  <1>1. CASE OperatorRuns
    <2>1. CampaignProfileIsOwn'
      BY <1>0, <1>1, ExecProfiles DEF OperatorRuns
    <2>2. run' \notin byCampaign' /\ orphans' = orphans /\ outlived' = outlived
      BY <1>0, <1>1 DEF OperatorRuns, ExecTrial
    <2> QED  BY <2>1, <2>2 DEF ProfileInv
  <1>2. CASE CampaignTrial
    <2>1. Campaign[campaign] \in TrialIds
      BY <1>2, CampaignAssumption DEF CampaignTrial, FlowInv, TypeInv
    <2>2. CampaignProfileIsOwn'
      BY <1>0, <1>2, <2>1, ExecProfiles, PhaseListsAssumption DEF CampaignTrial
    <2> QED  BY <1>2, <2>2 DEF CampaignTrial, ExecTrial, ProfileInv
  <1>3. CASE Preflight \/ PhaseStart \/ CopySummary \/ Telemetry
             \/ \E s \in ExitCodes, secs \in {0, 1} : K6Ends(s, secs)
    <2>1. PICK fs : Writes(trial, fs) /\ "profile" \notin fs
      <3>1. CASE Preflight
        BY <1>0, <3>1, PreflightWrites
      <3>2. CASE PhaseStart
        BY <1>0, <3>2, StartWrites DEF PhaseStart
      <3>3. CASE CopySummary
        BY <1>0, <3>3, CopyWrites DEF CopySummary
      <3>4. CASE Telemetry
        BY <1>0, <3>4, TelemetryWrites
      <3>5. CASE \E s \in ExitCodes, secs \in {0, 1} : K6Ends(s, secs)
        <4>1. PICK s \in ExitCodes, secs \in {0, 1} : K6Ends(s, secs)
          BY <3>5
        <4>2. Writes(trial, {"ended"})
          BY <1>0, <4>1, EndWrites DEF K6Ends
        <4> QED  BY <4>2
      <3> QED  BY <1>3, <3>1, <3>2, <3>3, <3>4, <3>5
    <2>2. /\ UNCHANGED <<run, trial, orphans, last, finished, byCampaign, outlived>>
          /\ pc \in Executing /\ stats' \in {stats, stats \cup {run}}
          /\ pc' \in {"telemetry", "finish"} => pc \in {"telemetry", "finish"}
      BY <1>3 DEF Preflight, PhaseStart, CopySummary, Telemetry, K6Ends, history
    <2>3. CampaignProfileIsOwn'
      BY <1>0, <2>1, <2>2, KeepsProfiles
    <2>4. dir'[trial].profile = dir[trial].profile
      BY <2>1 DEF Writes, SameBut
    <2> QED  BY <2>2, <2>3, <2>4 DEF ProfileInv, Here
  <1>4. CASE Snapshot
    <2>1. /\ Writes(trial, {"profile"}) /\ dir'[trial].profile \in {Queried, {}}
          /\ UNCHANGED <<run, trial, orphans, stats, history>>
          /\ last[trial] \notin finished /\ pc = "snapshot"
      BY <1>0, <1>4, SnapshotWrites DEF Snapshot
    <2>2. \A u \in TrialIds : u # trial => dir'[u] = dir[u]
      BY <2>1 DEF Writes
    <2>3. CampaignProfileIsOwn'
      BY <1>0, <2>1, <2>2 DEF CampaignProfileIsOwn, history
    <2>4. run \in byCampaign => Queried \subseteq {run} \cup outlived
      BY <2>1 DEF ProfileInv, Executing, Queried
    <2> QED  BY <2>1, <2>3, <2>4 DEF ProfileInv, Here, history
  <1>5. CASE Finish
    <2>1. Writes(trial, {"manifest"})
      BY <1>5, FinishWrites
    <2>2. \A u \in TrialIds : dir'[u].profile = dir[u].profile
      BY <2>1 DEF Writes, SameBut
    <2>3. /\ finished' = finished \cup {run} /\ pc = "finish" /\ last[trial] = run
          /\ UNCHANGED <<run, trial, orphans, stats, last, byCampaign, outlived>>
          /\ pc' \notin Executing
          /\ \A t \in TrialIds : t # trial => last[t] < run
          /\ last \in [TrialIds -> Nat]
      BY <1>0, <1>5 DEF Finish, Exit, TypeInv, TypeOK, FlowInv
    <2>4. run \in byCampaign => dir[trial].profile \subseteq {run} \cup outlived
      BY <2>3 DEF ProfileInv, Here
    <2>5. ASSUME NEW u \in TrialIds, last[u] \in byCampaign \cap finished'
          PROVE  dir'[u].profile \subseteq {last[u]} \cup outlived
      <3>1. CASE u = trial
        BY <2>2, <2>3, <2>4, <2>5, <3>1
      <3>2. CASE u # trial
        <4>1. last[u] \in finished
          BY <1>0, <2>3, <2>5, <3>2
        <4> QED  BY <1>0, <2>2, <2>5, <4>1 DEF CampaignProfileIsOwn
      <3> QED  BY <3>1, <3>2
    <2>6. CampaignProfileIsOwn'
      BY <2>3, <2>5 DEF CampaignProfileIsOwn
    <2> QED  BY <2>3, <2>6 DEF ProfileInv
  <1>6. CASE CampaignCollects
    <2>0. PICK t \in TrialIds : \E fs : Writes(t, fs) /\ "profile" \notin fs
      BY <1>6, CampaignWrites
    <2>1. PICK fs : Writes(t, fs) /\ "profile" \notin fs
      BY <2>0
    <2>2. /\ UNCHANGED <<run, trial, orphans, stats, history>> /\ pc' \notin Executing
      BY <1>6 DEF CampaignCollects
    <2>3. CampaignProfileIsOwn'
      BY <1>0, <2>1, <2>2, KeepsProfiles DEF history
    <2> QED  BY <2>2, <2>3 DEF ProfileInv, history
  <1>7. CASE PreflightAborts \/ CampaignStarts \/ CampaignTrialFails
    BY <1>0, <1>7 DEF PreflightAborts, Exit, CampaignStarts, CampaignTrialFails,
       history, ProfileInv, CampaignProfileIsOwn
  <1>8. CASE Interrupt
    <2>1. /\ outlived \subseteq outlived' /\ pc' \notin Executing
          /\ UNCHANGED <<dir, last, finished, byCampaign>>
          /\ \A o \in orphans' : o \in orphans \/ o.run \in outlived'
      BY <1>8 DEF Interrupt
    <2>2. CampaignProfileIsOwn'
      BY <1>0, <2>1 DEF CampaignProfileIsOwn
    <2> QED  BY <2>1, <2>2 DEF ProfileInv
  <1>9. CASE OrphanEnds
    BY <1>0, <1>9 DEF OrphanEnds, history, ProfileInv, CampaignProfileIsOwn, Here
  <1>10. CASE UNCHANGED vars
    BY <1>0, <1>10 DEF vars, ProfileInv, CampaignProfileIsOwn, Here
  <1> QED
    BY <1>1, <1>2, <1>3, <1>4, <1>5, <1>6, <1>7, <1>8, <1>9, <1>10 DEF Next, Rest

(* Whatever else was run on the database before, and whatever fails or is
   interrupted, pg_stat_statements.csv of a trial that a campaign ran has no
   query of another execution, but for those of a k6 that outlived its script. *)
THEOREM ProfilesAreOwn == Spec => []CampaignProfileIsOwn
  <1>1. Init => ProfileInv
    BY DEF Init, ProfileInv, CampaignProfileIsOwn
  <1>2. ProfileInv => CampaignProfileIsOwn
    BY DEF ProfileInv
  <1> QED  BY <1>1, <1>2, StepProfiles, DriverTyping, PTL DEF Spec

-----------------------------------------------------------------------------
(* What the readers of a directory may rely on. *)

LEMMA WindowMeansFinished ==
    ASSUME EvInv, NEW t \in TrialIds, WindowRecorded(dir[t], "saturation")
    PROVE  last[t] \in finished /\ Evidence(dir[t], last[t])
  <1>1. last[t] \in finished
    BY DEF EvInv, EvidenceInv, WindowRecorded, NoWindow, Phases
  <1> QED  BY <1>1 DEF EvInv, EvidenceInv

(* The gate and the aggregation never count an execution of exec-trial.sh that
   did not reach its end, for any trial ids, campaign, phases and bounds. *)
THEOREM UnfinishedIsNotCounted == Spec => []UnfinishedNotCounted
  <1>1. EvInv => UnfinishedNotCounted
    BY WindowMeansFinished DEF UnfinishedNotCounted, Counted, Publishable, Usable
  <1> QED  BY <1>1, EvidenceKept, PTL

(* Whatever verify-manifest.sh accepts, its windows, preflight records and
   telemetry are of the same execution, the last one of that trial id. *)
THEOREM EvidenceOfOneRun == Spec => []EvidenceIsOfOneRun
  <1>1. TypeInv /\ EvInv => EvidenceIsOfOneRun
    <2> SUFFICES ASSUME TypeInv, EvInv, NEW t \in TrialIds, Publishable(dir[t])
                 PROVE  /\ dir[t].manifest.run = last[t]
                        /\ dir[t].preflight.run = last[t]
                        /\ dir[t].telemetry = last[t]
                        /\ TimedBy(dir[t].manifest.window["saturation"], last[t])
      BY DEF EvidenceIsOfOneRun, TimedBy
    <2>1. /\ WindowRecorded(dir[t], "saturation")
          /\ dir[t].manifest # NoFile /\ dir[t].preflight # NoFile
          /\ dir[t].telemetry # NoFile
      BY DEF Publishable, PreflightClean
    <2>2. Evidence(dir[t], last[t])
      BY <2>1, WindowMeansFinished
    <2>3. dir[t].manifest.window["saturation"] # NoWindow
      BY <2>1 DEF WindowRecorded, NoWindow
    <2>4. dir[t].manifest.run = last[t]
      BY <2>1 DEF TypeInv, TypeOK, RunInv
    <2> QED  BY <2>1, <2>2, <2>3, <2>4 DEF Evidence, Phases
  <1> QED  BY <1>1, DriverTyping, EvidenceKept, PTL

(* A k6 phase that fails never keeps a later one from being run and timed. *)
THEOREM PhasesAreRecorded == Spec => []EveryPhaseRecorded
  <1>1. EvInv => EveryPhaseRecorded
    BY DEF EvInv, EvidenceInv, Evidence, TimedBy, EveryPhaseRecorded
  <1> QED  BY <1>1, EvidenceKept, PTL

(* The files of every trial directory keep their form, through failed phases,
   aborted and interrupted scripts and repeated executions. *)
THEOREM TrialTyping == Spec => []TypeOK
  <1>1. TypeInv => TypeOK
    BY DEF TypeInv
  <1> QED  BY <1>1, DriverTyping, PTL
=============================================================================
