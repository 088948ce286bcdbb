SPECIFICATION Spec
CONSTANTS
    InitialSize = 4
    Entries = 1
    Batch = 1
    Faulty = {"read", "write"}
    MaxFaults = 1
    Workers = {w1}
    MAX_REQUEST_SIZE = 3
    BufSize = 2
    MaxConcurrent = 2
    PipelineLimit = 1
    Modes = {"r+", "a"}
    ReadSizes = {1, 3}
    WriteSizes = {1, 4}
    Offsets = {2}
    ReadvLists <- MCReadvLists
    PipelinedArgs = {TRUE, FALSE}
    PastEnd = {1}
    Mixed = FALSE
    MaxCalls = 4
    MaxAsides = 1
    DropWithin = 2
INVARIANTS ReadExact AnsweredOnce HandleTellTrue
PROPERTY CallsReturn
CHECK_DEADLOCK FALSE
