SPECIFICATION Spec
CONSTANTS
    Producers = {p1, p2}
    Consumers = {c1, c2}
    Values = {a, b}
    NoValue = NoValue
    Size = 2
    MaxLeftover = 1
SYMMETRY ConsumerSymmetry
INVARIANTS
    TypeOK
    CountersMatchRecords
    WakeupsCoverItems
PROPERTIES
    QueueSpec
    ClosedWhileDisabled
