SPECIFICATION FairSpec
CONSTANTS
    Users = {"ann"}
    Scenarios <- OnlyModern
    FailLimit = 2
    MaxAttempts = 2
    MaxQueries = 0
PROPERTIES
    TimeoutMeansNoAnswer
CHECK_DEADLOCK FALSE
