CONSTANTS
    Sizes <- MCSizes
    MaxUps = 1
SPECIFICATION Spec
INVARIANT ServedSeedIsWhole
CHECK_DEADLOCK FALSE
