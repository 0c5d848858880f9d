SPECIFICATION Spec
CONSTANTS
    MinElems = 4
    ProbeSample = 3
    HeaderCost = 1
    GainPct = 10
    AwareGainPct = 30
    ZoneLen = 2
    ModelBytes = 1
    NaN <- NotANumber
    Lowest <- Bottom
    Highest <- Ceiling
    MinIntern = 2
    StrMin = 2
    Nil = Nil
    Messages <- LateMessages
    Targets <- SomeTargets
    QueryTargets <- SomeQueryTargets
    BatchTargets <- SomeBatchTargets
    Selections <- SomeSelections
    Queries <- SomeQueries
    Slabs <- TwoSlabs
CHECK_DEADLOCK FALSE
INVARIANT
    Lossless
