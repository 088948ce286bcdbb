SPECIFICATION FairSpec
CONSTANTS
    Threads = {"w", "r", "c"}
    Home <- EndHome
    Calls <- EndCalls
    Window = 2
    MaxPacket = 2
    SendSizes = {3}
    RecvSizes = {2}
    MaxBytes = 5
    Timed = {}
    Faults = {"client"}
INVARIANTS
    FlowInv
    EmptyReadIsFinal
PROPERTIES
    ImplementsStream
    SenderReleased
    CloseCompletes
    EndReachesReader
CHECK_DEADLOCK FALSE
