SPECIFICATION Spec
CONSTANTS
    Parsers = {p1, p2}
    Conns = {c1}
    NoConn = NoConn
    Keep = 1
    Sizes = {2}
    Lens = {1}
    MaxInteractions = 1
    MaxResponses = 2
PROPERTY FiledUnderLock
CHECK_DEADLOCK FALSE
