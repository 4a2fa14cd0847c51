CONSTANTS
    Sizes <- MCSizes
    MaxUps = 2
SPECIFICATION FairSpec
INVARIANTS
    TypeOK
    FirstStartLoadsParents
    EmptySeedNeverServes
PROPERTIES
    FilledOnce
    WaitEnds
CHECK_DEADLOCK FALSE
