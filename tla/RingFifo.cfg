SPECIFICATION Spec
CONSTANTS
    Producers = {p1}
    Consumers = {c1, c2}
    Values = {a, b}
    NoValue = NoValue
    NoRing = NoRing
    Size = 2
INVARIANTS
    TypeOK
    WakeupsCoverItems
PROPERTIES
    QueueSpec
    EveryCallReturns
