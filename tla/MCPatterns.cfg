CONSTANTS
    Char <- MCChar
    Code <- MCCode
    MaxU32 = 255
    JumpLimit = 20
    Blank <- MCBlank
    OpenComment = "/*"
    MaxRecursion <- MCMaxRecursion
    Budgets <- MCBudgets
    Frames <- MCFrames
    Insertions <- MCInsertions
SPECIFICATION Spec
INVARIANTS
    ReadsValidPatterns
    PatternIsNotAltered
    PrintingIsFaithful
    CharactersAreTheirBytes
CHECK_DEADLOCK FALSE
