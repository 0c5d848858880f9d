SPECIFICATION Spec
CONSTANTS
    f1 = f1
    f2 = f2
    stem1 = stem1
    stem2 = stem2
    x = x
    y = y
    z = z
    none = none
    NoString = none
    Strings <- Values
    Stems <- MCStems
    Tails <- MCTails
    ShortStrings <- Short
    Fields <- BothFields
    Opts <- Balanced
    MaxStateEntries = 3
    MaxInternEntries = 3
    MruRingSize = 2
    OneByteLimit = 1
    StandaloneStructs = FALSE
    ProbeN = 2
    RearmN = 2
    MaxInFlight = 1
    MaxWrites = 5
INVARIANTS
    FieldLockstep
    BaseIdNamesBase
PROPERTIES
    Lossless
