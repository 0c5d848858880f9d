SPECIFICATION Spec
CONSTANTS
    NThreads = 2
    Keepers = {1}
    Options = {"speed", "rans"}
    Speed = "speed"
    WithRANS = {"rans"}
    Dicts = {"trained"}
    NoDict = "none"
    Requests <- Workload
    InitialEncBuf = 1
    MarshalDetachThreshold = 2
    MaxPooledBuf = 4
    MaxHintedBuf = 4
    RansMin = 2
    MaxSlice = 2
INVARIANTS
    MessageIntact
    ResultsIntact
    OwnSettings
    PoolOwnsItsBuffers
