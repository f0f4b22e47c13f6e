CONSTANTS
    Scanners <- MCScanners
    Inputs <- MCInputs
    Params <- MCParams
    Expression <- MCExpression
    IntBits = 6
    StackDepth = 8
SPECIFICATION MCSpec
PROPERTY
    KeepsContract
CHECK_DEADLOCK FALSE
