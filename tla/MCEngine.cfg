CONSTANTS
    Namespaces = {"default", "ns"}
    Calls <- MCCalls
    Files <- MCFiles
    StartsWith <- MCStartsWith
    Modules = {"m1", "m2"}
    Symbols = {"m1", "a"}
    MaxCalls = 2
    MaxDepth = 4
    Memories <- MCMemories
    Params <- MCParams
    Expression <- MCExpression
    IntBits = 6
    StackDepth = 8
SPECIFICATION EngineSpec
INVARIANTS
    WildcardsAreSealed
    ScanMeansText
    OwnStringsWhenGlobalsFirst
    OnlyGlobalsPanic
CHECK_DEADLOCK FALSE
