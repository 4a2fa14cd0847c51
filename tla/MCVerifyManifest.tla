-------------------------- MODULE MCVerifyManifest --------------------------
(* verify-manifest.sh on lists of up to three directories, each complete or
   with one thing amiss.  A missing log is one of these: it is only a warning. *)
EXTENDS VerifyManifest

SomeWindow == [started |-> 1, ended |-> 1, secs |-> 1]
NoWindow == [started |-> 0, ended |-> 0, secs |-> 0]
K6Run(p) == [run |-> 1, phase |-> p]

Complete ==
    [manifest |-> [run |-> 1, phases |-> <<"saturation">>, done |-> TRUE,
                   status |-> 0, preflight_failed |-> 0,
                   window |-> [p \in Phases |-> SomeWindow]],
     preflight |-> [run |-> 1, failed |-> {}],
     summary |-> [p \in Phases |-> K6Run(p)],
     telemetry |-> 1, logs |-> TRUE]

MCDirs ==
    {Complete,
     [Complete EXCEPT !.manifest = NoFile],
     [Complete EXCEPT !.summary["saturation"] = NoFile],
     [Complete EXCEPT !.preflight = NoFile],
     [Complete EXCEPT !.preflight.failed = {"db"}],
     [Complete EXCEPT !.telemetry = NoFile],
     [Complete EXCEPT !.logs = FALSE],
     [Complete EXCEPT !.manifest.window["saturation"] = NoWindow]}

MCArguments == UNION {[1 .. n -> MCDirs] : n \in 0 .. 3}
=============================================================================
