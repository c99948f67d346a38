SPECIFICATION Spec
CONSTANTS
    up = up
    down = down
    bad = bad
    word = word
    Files <- MCFiles
    Symbols <- MCSymbols
    Words <- MCWords
    Patterns <- MCPatterns
    NoText = NoText
    Malformed = {bad}
    MaxSystems = 2
    MaxCalls = 3
INVARIANTS
    TypeOK
    ResultsAttributed
    ReplyComplete
CHECK_DEADLOCK FALSE
