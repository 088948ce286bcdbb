SPECIFICATION FairSpec
CONSTANTS
    Threads = {"c", "s"}
    Home <- PairHome
    Scenarios <- AllScenarios
    REKEY_PACKETS = 2
    REKEY_PACKETS_OVERFLOW_MAX = 7
    MaxSends = 2
    MaxKexInits = 3
INVARIANTS
    SessionSurvives
    QuietDuringKex
PROPERTIES
    SwitchedOnReturn
    PauseEnds
    RekeyHappens
CHECK_DEADLOCK FALSE
