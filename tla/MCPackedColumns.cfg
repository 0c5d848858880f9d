CONSTANTS
    ByteBits = 3
    WordBytes = 4
    ChunkLen = 3
    GroupBits = 2
    HeaderLen = 2
    MaxDistinct = 4
    ProbeLen = 16
    MaxStandalone = 17
    BlockLen = 8
    GateWindow = 4
    GateSamples = 4
    GateWide = 3
    GateSpread = 2
    LzField <- MCLzField
    MbField <- MCMbField
    GorillaControl <- MCControl
    XorProbe = 8
    RingField = 1
    LeadRounds <- MCRounds
    LeadField = 2
    SigField = 4
    ChimpGate = 11
    EpochLimit = 3
    MaxExp = 3
    AlpSample = 8
    LeftMin = 3
    LeftMax = 4
    MaxLefts = 2
    LeftSample = 8
    MinIntern = 2
    StrMin = 4
    StrMaxDistinct = 4
    StrSample = 5
    StrSamplePct = 70
    MaxAlphabet = 4
    FrontMin = 4
    FrontBlock = 4
    FrontSample = 6
    FrontMargin = 16
    FsstInterval = 1
    Messages <- MCMessages
    Opts <- MCOpts
    Tables <- MCTables
    Stale <- MCStale
SPECIFICATION Spec
INVARIANTS TypeOK Lossless CursorInStep NeverLarger PriceKept
CHECK_DEADLOCK FALSE
