SPECIFICATION Spec
CONSTANTS
    Processes <- MCProcesses
    Reads <- MCRanges
    MaxReads = 2
INVARIANTS
    EveryByteOnceInOrder
    BytesOfTheProcess
    IntegerIsExact
    RangeIsExact
PROPERTIES
    ListingsEnd
\* A behaviour stops after its last read, or when a read panics.
CHECK_DEADLOCK FALSE
