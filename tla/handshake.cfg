SPECIFICATION Spec
CONSTANTS
    Setups <- MCSetups
    BannerLines = 2
    MinBits = 2
    MaxBits = 5
    StallAt = {"banner"}
    MaxExchanges = 2
INVARIANTS InStep KeysProven CompatibleSucceeds
PROPERTY HandshakeEnds
CHECK_DEADLOCK FALSE
