SPECIFICATION Spec
CONSTANTS
    InitialSize = 3
    Entries = 2
    Batch = 1
    Faulty = {"read", "write"}
    MaxFaults = 1
    Workers = {w1}
    MAX_REQUEST_SIZE = 3
    BufSize = 2
    MaxConcurrent = 2
    PipelineLimit = 100
    Modes = {"r+", "a"}
    ReadSizes = {1}
    WriteSizes = {1, 4}
    Offsets = {2}
    ReadvLists <- MCReadvLists
    PipelinedArgs = {TRUE}
    PastEnd = {1}
    Mixed = FALSE
    MaxCalls = 4
    MaxAsides = 1
    DropWithin = 2
INVARIANT WriteErrorTold
CHECK_DEADLOCK FALSE
