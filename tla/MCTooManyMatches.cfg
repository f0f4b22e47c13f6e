CONSTANTS
    Declared <- MCDeclared
    Searches <- MCSearches
SPECIFICATION SearchSpec
INVARIANT Capped
\* A scan ends, or is given up.
CHECK_DEADLOCK FALSE
