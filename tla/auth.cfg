SPECIFICATION FairSpec
CONSTANTS
    Users = {"ann", "bob"}
    Scenarios <- AllScenarios
    FailLimit = 2
    MaxAttempts = 3
    MaxQueries = 2
INVARIANTS
    TypeOK
    GrantedOnly
    ClientAgrees
    JudgedOnce
PROPERTIES
    OwnAnswer
    AttemptReturns
CHECK_DEADLOCK FALSE
