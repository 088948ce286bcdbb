SPECIFICATION FairSpec
CONSTANTS
    Threads = {"c1", "c2", "s1", "s2"}
    Home <- PairsHome
    Scenarios <- AllScenarios
    ChannelNumbers = 3
    MaxOpens = 2
    MaxAsks = 2
INVARIANTS
    WellAddressed
    NoLostWakeup
    ExitStatusKept
PROPERTIES
    OpenReturnsOwn
    RaisesOwn
    GlobalAnswerOwn
    CallsReturn
    RequestEnds
CHECK_DEADLOCK FALSE
