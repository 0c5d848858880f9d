SPECIFICATION Spec
CONSTANTS
    s1 = s1
    s2 = s2
    s3 = s3
    s4 = s4
    tiny = tiny
    NoString = NoString
    Strings <- AllStrings
    ShortStrings <- Tiny
    OptionSets <- Masks
    Identities <- Registered1
    MaxStateEntries = 4
    MaxInternEntries = 4
    MruRingSize = 2
    OneByteLimit = 2
    TakeWithIdentities = FALSE
    SkipsAfterReference = FALSE
    MaxInFlight = 2
    MaxWrites = 6
SYMMETRY Symmetry
INVARIANTS
    TypeOK
    WireInStep
    Lockstep
    CachedIdsValid
    LruChain
PROPERTIES
    Lossless
