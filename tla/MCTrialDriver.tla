--------------------------- MODULE MCTrialDriver ---------------------------
(* A small instance of TrialDriver: a burn-in and one measured trial. *)
EXTENDS TrialInvariant

CONSTANTS t0, t1

MCCampaign == <<t0, t1>>
MCCampaignPhases == <<"warmup", "saturation">>

(* The operator may run a trial again with other phases. *)
MCPhaseLists == {MCCampaignPhases, <<"saturation">>, <<"ramp">>}
=============================================================================
