SPECIFICATION Spec
CONSTANTS
    Calls = {c1, c2, c3}
    Ids = {r1, r2}
    NoId = NoId
    Targets = {"disk_pulled", "scrapped"}
    MaxConns = 2
INVARIANTS
    OneOpenRequest
    SignedIffDisposed
PROPERTIES
    ImplementsMemoryStore
    LateWithdrawalRefused
    CallsReturn
