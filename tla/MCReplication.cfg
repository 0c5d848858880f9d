\* Four types, every pair of their values, patches lost, repeated and late.
SPECIFICATION Spec
CONSTANTS
    Width = 4
    MinElems = 4
    ShortIndexes = 2
    SparseDen = 4
    Scenarios <- MCScenarios
    MaxVersions = 3
    MaxInFlight = 2
PROPERTIES Exact WrongBaseRefused
