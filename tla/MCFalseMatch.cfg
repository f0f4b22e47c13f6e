CONSTANTS
    Declared <- MCDeclared
    Searches <- JoinedSearches
SPECIFICATION SearchSpec
INVARIANT EveryMatchOccurs
\* A scan ends, or is given up.
CHECK_DEADLOCK FALSE
