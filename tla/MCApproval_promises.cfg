\* Promises of the docs which the code does not keep: TLC stops at the first
\* one it refutes, so leave one of them in at a time.
SPECIFICATION Spec
CONSTANTS
    alice = alice
    sam = sam
    tess = tess
    People <- Staff
    Owner = alice
    NoOne = NoOne
    NoId = NoId
    Calls = {c1, c2}
    Ids = {r1, r2}
    BatchSizes = {1}
    MaxDisks = 2
SYMMETRY Symmetry
INVARIANTS
    ExecutionHoldsApproval
    VersionsDistinct
PROPERTIES
    DecidedOnce
    DisksOnlyWhilePending
