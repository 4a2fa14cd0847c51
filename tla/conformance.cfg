CONSTANTS
    Products <- MCProducts
    Price <- MCPrice
    Stock0 <- MCStock0
    Settings <- MCSettings
    Words <- MCWords
    OtherRequests <- MCOtherRequests
    MaxOther = 1
    MaxTrouble = 1
    MaxPolls = 1
SPECIFICATION FairSpec
INVARIANTS
    TypeOK
    SuccessIsReal
    FailureHasCause
    OrdersMatchStock
    TotalsFit
PROPERTY SuiteEnds
CHECK_DEADLOCK FALSE
