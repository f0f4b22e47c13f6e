CONSTANTS
    Entries <- MCEntries
    Threads <- MCThreads
    Unset = Unset
    Parallelism = 3
    SlotsPerWorker = 1
    ModuleLines = 1
    RuleLines = 2
    PanicSets <- MCPanicSets
    Nobody = Nobody
SPECIFICATION FairSpec
INVARIANTS
    HandledOnce
    SuccessMeansAllDone
    RuleLinesTogether
PROPERTIES
    Terminates
    EveryFileDone
