SPECIFICATION Spec
CONSTANTS
    p1 = p1
    p2 = p2
    int = int
    tree = tree
    children = children
    bad = bad
    chan = chan
    None = None
    Threads <- MCThreads
    Types <- MCTypes
    Kind <- MCKind
    Parts <- MCParts
    MaxBuilds = 2
CHECK_DEADLOCK FALSE
INVARIANTS
    GraphsComplete
    SchemasAgree
PROPERTIES
    CallsReturn
