CONSTANTS
    Scanners <- MCScanners
    Inputs <- MCInputs
    Params <- MCParams
    Expression <- MCExpression
    IntBits = 6
    StackDepth = 8
    Declared <- MCDeclared
    Searches <- MCSearches
SPECIFICATION ScanSpec
INVARIANTS
    MatchesAreOwn
    ReportedOnceInOrder
    PreviousResultsAligned
    EveryMatchOccurs
    ScanIsExact
    SortedByAddress
PROPERTIES
    KeepsContractAsBuilt
\* A scan ends, or is given up.
CHECK_DEADLOCK FALSE
