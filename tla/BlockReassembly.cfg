SPECIFICATION Spec
CONSTANTS
    Parsers = {t1, t2, t3}
    NoBlock = NoBlock
    MaxContents = 4
    Lens = {1, 3}
    BlockSize = 2
    MaxBuff = 5
    FifoSize = 2
SYMMETRY ParserSymmetry
INVARIANTS
    TypeOK
    FaithfulWhileOrderly
    DamageBounded
CHECK_DEADLOCK FALSE
