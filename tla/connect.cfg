SPECIFICATION Spec
CONSTANTS
    Clients = {c1}
    Hosts <- MCHosts
    Targets <- MCTargets
    KeyTypes <- MCKeyTypes
    KeyIds = {1, 2}
    Servers <- MCServers
    InitialServing <- MCInitialServing
    SystemLines <- MCSystemLines
    InitialFiles <- MCInitialFiles
    Additions <- MCAdditions
    Policies = {"reject", "autoadd", "warning"}
    Plans <- MCPlans
    PartialTypes <- MCPartialTypes
    MaxAgentKeys = 1
    OthersWait = TRUE
    MaxConnects = 3
    MaxSwaps = 1
INVARIANT TrustPinned
PROPERTY HostsKept
