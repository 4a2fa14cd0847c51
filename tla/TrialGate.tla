----------------------------- MODULE TrialGate -----------------------------
(***************************************************************************)
(* A trial directory runs/<trial-id>/ and its two readers: the gate        *)
(* verify-manifest.sh and the admission rule of aggregate.py.              *)
(*                                                                         *)
(* A directory is a record.  Every file in it is abstracted to the number  *)
(* of the execution of exec-trial.sh that it is about (0 or NoFile when    *)
(* there is none) and to what the readers look at.  A malformed file is    *)
(* treated as a missing one: both scripts reject it alike.                 *)
(*   manifest   [run, phases, done, status, preflight_failed, window];     *)
(*              window[p] is p's started_at and ended_at, with secs their  *)
(*              difference: 0, or 1 for any positive length                *)
(*   preflight  [run, failed]: the three preflight-<role>.json             *)
(*   started, ended   the <phase>.started_at and .ended_at files           *)
(*   summary    per phase, k6-summary.json: the k6 run it describes        *)
(*   profile    pg_stat_statements.csv: the executions it has queries of   *)
(*   telemetry  telemetry/*.json: the execution whose window was queried   *)
(*   logs       logs/bench-app.log was kept                                *)
(***************************************************************************)
EXTENDS Naturals, Sequences

CONSTANT NoFile

Phases == {"warmup", "ramp", "saturation"}
Roles == {"app", "db", "loadgen"}

(* Mutant: a manifest is enough, whether or not it has the window. *)
WindowAssumed(d, p) == d.manifest # NoFile

(* The manifest has both ends of phase p. *)
WindowRecorded(d, p) ==
    /\ d.manifest # NoFile
    /\ d.manifest.window[p].started # 0
    /\ d.manifest.window[p].ended # 0

PreflightClean(d) == d.preflight # NoFile /\ d.preflight.failed = {}

(* The verdict of verify-manifest.sh on one directory.  That the app's log was
   kept is only warned about. *)
Publishable(d) ==
    /\ d.manifest # NoFile
    /\ d.summary["saturation"] # NoFile
    /\ PreflightClean(d)
    /\ d.telemetry # NoFile
    /\ WindowRecorded(d, "saturation")

(* load_trial and main of aggregate.py: a manifest, a saturation summary, not
   a burn-in, and requests over a window of positive length.  Neither status
   nor preflight_failed is looked at. *)
Usable(d, burnIn) ==
    /\ ~burnIn
    /\ d.summary["saturation"] # NoFile
    /\ WindowRecorded(d, "saturation")
    /\ d.manifest.window["saturation"].secs > 0
=============================================================================
