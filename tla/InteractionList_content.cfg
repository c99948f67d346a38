SPECIFICATION Spec
CONSTANTS
    Parsers = {p1, p2}
    Conns = {c1, c2}
    NoConn = NoConn
    Keep = 0
    Sizes = {1, 2}
    Lens = {0, 1, 2}
    MaxInteractions = 1
    MaxResponses = 3
SYMMETRY Symmetry
INVARIANTS
    FiledHasNoTimer
    ContentFits
CHECK_DEADLOCK FALSE
