SPECIFICATION Spec
CONSTANTS
    Keys = {k1}
    WebKeys = {k1}
    Accounts = {alice}
    NoAccount = NoAccount
    MaxSessions = 2
    MaxRequests = 1
    MaxOutstanding = 1
    k1 = k1
    alice = alice
PROPERTIES
    ReconnectAfterFatal
CHECK_DEADLOCK FALSE
