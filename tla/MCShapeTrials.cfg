SPECIFICATION Spec
CONSTANTS
    a = a
    b = b
    tok = tok
    key = key
    NoString = NoString
    Strings <- Values1
    ShortStrings <- None
    Plain <- PlainStrings
    TokenShapes <- Tokens
    MapShapes <- Keys
    Opts <- Balanced
    MaxStateEntries = 3
    MaxInternEntries = 3
    MruRingSize = 1
    OneByteLimit = 0
    NonStringKeys = FALSE
    DeclareInChain = FALSE
    MaxBody = 2
    MaxShapes = 3
    MaxInFlight = 1
SYMMETRY Symmetry
INVARIANTS
    ShapeIdsInStep
    TablesInStep
PROPERTIES
    Lossless
