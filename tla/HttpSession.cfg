SPECIFICATION Spec
CONSTANTS
    Keys = {k1, k2, other}
    WebKeys = {k1, k2}
    Accounts = {alice, bob}
    NoAccount = NoAccount
    MaxSessions = 2
    MaxRequests = 2
    MaxOutstanding = 1
    k1 = k1
    k2 = k2
    other = other
    alice = alice
    bob = bob
SYMMETRY WebSymmetry
INVARIANTS
    TypeOK
    TrackedWhileOpen
    InsertRecorded
    EndRecorded
    RowAttribution
    NoInteractionLeak
    PairingWindow
PROPERTIES
    NoRowsAfterEnd
    AccountOfEndedRow
CHECK_DEADLOCK FALSE
