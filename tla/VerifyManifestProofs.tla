------------------------ MODULE VerifyManifestProofs ------------------------
(***************************************************************************)
(* Proofs about VerifyManifest, for any number of trial directories.       *)
(***************************************************************************)
EXTENDS VerifyManifest, TLAPS

(* The verdict so far is on the directories that have been looked at; the one
   that ended the script early is still the one it is at. *)
VerdictInv ==
    /\ overall = 0 <=> \A i \in 1 .. at - 1 : Publishable(args[i])
    /\ exit \in {0, 1} /\ exit # Running /\ args # <<>> => at = Len(args) + 1 /\ exit = overall
    /\ exit = 2 /\ exit # Running /\ args # <<>> =>
          at <= Len(args) /\ args[at].telemetry = NoFile

(* The loop never leaves its arguments and the overall verdict stays 0 or 1. *)
THEOREM VerifyTyping == Spec => []TypeOK
  <1>1. Init => TypeOK
    BY ArgumentsAssumption DEF Init, TypeOK
  <1>2. TypeOK /\ [Next]_vars => TypeOK'
    <2> SUFFICES ASSUME TypeOK, [Next]_vars PROVE TypeOK'
      OBVIOUS
    <2>1. Len(args) \in Nat
      BY ArgumentsAssumption DEF TypeOK
    <2> QED
      BY <2>1 DEF TypeOK, Next, Usage, Check, CountTelemetryAborts, Conclude, Ended, vars
  <1> QED  BY <1>1, <1>2, PTL DEF Spec

(* The exit status of verify-manifest.sh is 0 exactly when every directory it
   was given passes its checks, 1 only after it has looked at all of them, and an
   early end is about missing telemetry. *)
THEOREM VerdictTold == Spec => []VerdictCoversEveryDirectory
  <1>1. Init => VerdictInv
    BY DEF Init, VerdictInv
  <1>2. TypeOK /\ VerdictInv /\ [Next]_vars => VerdictInv'
    <2> SUFFICES ASSUME TypeOK, VerdictInv, [Next]_vars PROVE VerdictInv'
      OBVIOUS
    <2>1. Len(args) \in Nat /\ at \in 1 .. Len(args) + 1
      BY ArgumentsAssumption DEF TypeOK
    <2>2. CASE Check
      <3>1. 1 .. at' - 1 = (1 .. at - 1) \cup {at}
        BY <2>1, <2>2 DEF Check
      <3>2. overall' = 0 <=> \A i \in 1 .. at' - 1 : Publishable(args[i])
        BY <2>2, <3>1 DEF Check, VerdictInv
      <3> QED  BY <2>2, <3>2 DEF Check, VerdictInv
    <2>3. CASE Usage \/ CountTelemetryAborts \/ Conclude
      BY <2>1, <2>3 DEF Usage, CountTelemetryAborts, Conclude, VerdictInv, TypeOK
    <2>4. CASE Ended \/ UNCHANGED vars
      BY <2>4 DEF Ended, vars, VerdictInv
    <2> QED  BY <2>2, <2>3, <2>4 DEF Next
  <1>3. TypeOK /\ VerdictInv => VerdictCoversEveryDirectory
    <2> SUFFICES ASSUME TypeOK, VerdictInv, exit # Running, args # <<>>
                 PROVE  /\ exit = 0 <=> AllPublishable
                        /\ exit = 1 => at > Len(args)
                        /\ exit = 2 => args[at].telemetry = NoFile
      BY DEF VerdictCoversEveryDirectory
    <2>1. Len(args) \in Nat /\ DOMAIN args = 1 .. Len(args) /\ at \in 1 .. Len(args) + 1
      BY ArgumentsAssumption DEF TypeOK
    <2>2. CASE exit \in {0, 1}
      BY <2>1, <2>2 DEF VerdictInv, AllPublishable
    <2>3. CASE exit = 2
      <3>1. at \in DOMAIN args /\ ~Publishable(args[at])
        BY <2>1, <2>3 DEF VerdictInv, Publishable
      <3> QED  BY <2>3, <3>1 DEF VerdictInv, AllPublishable
    <2> QED  BY <2>2, <2>3 DEF TypeOK
  <1> QED  BY <1>1, <1>2, <1>3, VerifyTyping, PTL DEF Spec
=============================================================================
