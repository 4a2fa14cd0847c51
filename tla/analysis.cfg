CONSTANTS
    Frameworks <- MCFrameworks
    Kinds <- MCKinds
    Arguments <- MCArguments
    Lists <- MCLists
    MaxTrials = 2
SPECIFICATION Spec
INVARIANTS
    TypeOK
    TrialsAccountedFor
    MatrixIsRanked
PROPERTIES
    NothingLeftOut
    FileIsWhatWasAsked
