CONSTANTS
    MaxInteger = 4194304
    Letter <- MCLetter
    Digit <- MCDigit
    HexDigit = {"0", "1", "2", "5", "a"}
    QuotedString = {"'s'", "'64'", "''"}
    EmptyString = "''"
    Alphabet = {"'64'"}
    RegexLiteral = {"/r/"}
    HexString = {"{AA}"}
    NumberText <- MCNumberText
    TooLarge = {"5242880"}
    Blank = {" "}
    OpenComment = "/*"
    Alphanumeric <- MCAlphanumeric
    MaxRecursion <- MCMaxRecursion
    Budgets <- MCBudgets
    Frames <- MCFrames
    Modifiers <- MCModifiers
    Values <- MCValues
    Tags <- MCTags
    Metas <- MCMetas
    Flags <- MCFlags
    Components <- MCComponents
    Insertions = {"%", "not", "-", "/*"}
SPECIFICATION Spec
INVARIANTS
    ReadsWhatIsWritten
    ModifiersMeanTheirSet
    NothingIsLost
    BlanksDoNotMatter
CHECK_DEADLOCK FALSE
