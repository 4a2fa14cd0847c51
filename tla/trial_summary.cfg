CONSTANTS
    t0 = t0
    t1 = t1
    NoFile = NoFile
    TrialIds = {t0, t1}
    BurnIns = {t0}
    Campaign <- MCCampaign
    CampaignPhases <- MCCampaignPhases
    PhaseLists <- MCPhaseLists
    MaxRuns = 2
    MaxFaults = 2
SPECIFICATION Spec
INVARIANT PublishedSummaryIsOwn
