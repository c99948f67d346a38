SPECIFICATION Spec
CONSTANTS
    MaxBuff = 30
    Chars <- MCChars
    Unknown = Unknown
    Contents <- MCContents
    MaxInteractions = 2
    MaxStarts = 2
INVARIANTS
    TypeOK
    RowsPaired
    FileFollowsDb
    ContentDecoded
CHECK_DEADLOCK FALSE
