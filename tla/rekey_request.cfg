SPECIFICATION FairSpec
CONSTANTS
    Threads = {"c", "s"}
    Home <- PairHome
    Scenarios <- OnlyCallerAndRequests
    REKEY_PACKETS = 2
    REKEY_PACKETS_OVERFLOW_MAX = 7
    MaxSends = 1
    MaxKexInits = 3
PROPERTIES
    NoRekeyDeadlock
CHECK_DEADLOCK FALSE
