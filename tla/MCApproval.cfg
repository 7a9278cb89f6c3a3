SPECIFICATION Spec
CONSTANTS
    alice = alice
    sam = sam
    tess = tess
    People <- Staff
    Owner = alice
    NoOne = NoOne
    NoId = NoId
    Calls = {c1, c2, c3}
    Ids = {r1, r2}
    BatchSizes = {1, 2}
    MaxDisks = 2
SYMMETRY Symmetry
INVARIANTS
    OneActive
    NoSelfReview
    ExecutionWasApproved
    VersionsWithoutGaps
PROPERTIES
    ImplementsRequestBook
