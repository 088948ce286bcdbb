SPECIFICATION FairSpec
CONSTANTS
    Threads = {"c1", "c2", "s1", "s2"}
    Home <- PairsHome
    Scenarios <- OnlyWork
    ChannelNumbers = 3
    MaxOpens = 1
    MaxAsks = 1
PROPERTIES
    RequestReturns
CHECK_DEADLOCK FALSE
