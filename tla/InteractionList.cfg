SPECIFICATION Spec
CONSTANTS
    Parsers = {p1, p2}
    Conns = {c1}
    NoConn = NoConn
    Keep = 1
    Sizes = {}
    Lens = {1}
    MaxInteractions = 3
    MaxResponses = 1
INVARIANTS
    TypeOK
    OneOwner
    KeepsNewest
    LostOnlyWhenOvertaken
    TimersOnLive
PROPERTY OutputProgress
CHECK_DEADLOCK FALSE
