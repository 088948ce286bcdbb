SPECIFICATION Spec
CONSTANTS
    Threads = {"w1", "w2", "out", "err"}
    Home <- FlowHome
    Calls <- FlowCalls
    Window = 10
    MaxPacket = 5
    SendSizes = {6}
    RecvSizes = {4, 20}
    MaxBytes = 16
    Timed = {"w1"}
    Faults = {}
INVARIANTS
    TypeOK
    WindowRespected
    CreditConserved
CHECK_DEADLOCK FALSE
