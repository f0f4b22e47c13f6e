CONSTANTS
    Expression <- MCExpression
    Conditions <- RuleConditions
    Contexts <- MCContexts
    Expirations <- MCExpirations
    IntBits = 4
    StackDepth = 8
    N = 4
    Selections <- MCSelections
    MaxConditionDepth = 4
    ImportedModules <- MCImportedModules
    RulesIndexes <- MCRulesIndexes
    Global = 0
    ExternalSymbols <- MCExternalSymbols
    NonAsciiRegexes <- MCNonAsciiRegexes
    Budgets <- MCBudgets
    Frames <- MCFrames
    NewStrings <- MCNewStrings
SPECIFICATION MCSpec
INVARIANTS
    DecisionIsFinal
    FullPassDecides
    TimeoutIsRethrown
    NoScanIsSound
    FullIsExact
    NoScanIsPrecise
    TypesAreSound
    IndexesFindTheirBinding
    DepthIsNesting
    StringsAreUsed
\* A rule or a loop has been evaluated, a text is written.
CHECK_DEADLOCK FALSE
