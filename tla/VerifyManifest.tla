--------------------------- MODULE VerifyManifest ---------------------------
(***************************************************************************)
(* The loop of verify-manifest.sh over the trial directories it is given,  *)
(* under "set -euo pipefail".  Its exit status is the verdict on all of    *)
(* them together.                                                          *)
(***************************************************************************)
EXTENDS TrialGate

CONSTANTS Arguments,  \* the lists of trial directories it may be given
          Running     \* exit status of a script that has not ended

ASSUME ArgumentsAssumption ==
    \A a \in Arguments : Len(a) \in Nat /\ DOMAIN a = 1 .. Len(a)

VARIABLES args,       \* the directories
          at,         \* the one to look at next
          overall, exit

vars == <<args, at, overall, exit>>

TypeOK ==
    /\ args \in Arguments
    /\ at \in 1 .. Len(args) + 1
    /\ overall \in {0, 1}
    /\ exit \in {0, 1, 2, Running}

Init ==
    /\ args \in Arguments
    /\ at = 1
    /\ overall = 0
    /\ exit = Running

Usage ==
    /\ exit = Running
    /\ args = <<>>
    /\ exit' = 2
    /\ UNCHANGED <<args, at, overall>>

(* Mutant: the verdict on a directory replaces the one on those before it. *)
CheckLastWins ==
    /\ exit = Running
    /\ at <= Len(args)
    /\ args[at].telemetry # NoFile
    /\ overall' = IF Publishable(args[at]) THEN 0 ELSE 1
    /\ at' = at + 1
    /\ UNCHANGED <<args, exit>>

(* Mutant: the failures are counted, and the count is the exit status. *)
CheckCounts ==
    /\ exit = Running
    /\ at <= Len(args)
    /\ args[at].telemetry # NoFile
    /\ overall' = IF Publishable(args[at]) THEN overall ELSE overall + 1
    /\ at' = at + 1
    /\ UNCHANGED <<args, exit>>

(* One directory: its verdict can only spoil the overall one. *)
Check ==
    /\ exit = Running
    /\ at <= Len(args)
    /\ args[at].telemetry # NoFile
    /\ overall' = IF Publishable(args[at]) THEN overall ELSE 1
    /\ at' = at + 1
    /\ UNCHANGED <<args, exit>>

(* In telemetry_count=$(ls ... | wc -l) a pattern without a match makes ls
   fail; pipefail passes its status 2 on and set -e ends the script there. *)
CountTelemetryAborts ==
    /\ exit = Running
    /\ at <= Len(args)
    /\ args[at].telemetry = NoFile
    /\ exit' = 2
    /\ UNCHANGED <<args, at, overall>>

Conclude ==
    /\ exit = Running
    /\ args # <<>> /\ at > Len(args)
    /\ exit' = overall
    /\ UNCHANGED <<args, at, overall>>

Ended == exit # Running /\ UNCHANGED vars

Next == Usage \/ Check \/ CountTelemetryAborts \/ Conclude \/ Ended

Spec == Init /\ [][Next]_vars

AllPublishable == \A i \in DOMAIN args : Publishable(args[i])

(* Once verify-manifest.sh has ended, its exit status is 0 exactly when every
   directory passes the checks it makes, the first as much as the last; it is 1
   only after all of them have been looked at, and 2 only at one without
   telemetry.  That is what the script does, not all that it announces: its
   header asks for the application's logs and for defensible figures as well,
   and its usage text promises 1 for every directory that is not publishable. *)
VerdictCoversEveryDirectory ==
    exit # Running /\ args # <<>> =>
        /\ exit = 0 <=> AllPublishable
        /\ exit = 1 => at > Len(args)
        /\ exit = 2 => args[at].telemetry = NoFile
=============================================================================
