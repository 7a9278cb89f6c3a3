\* Promises of the docs which the code does not keep: TLC stops at the first
\* one it refutes, so leave one of them in at a time.
SPECIFICATION Spec
CONSTANTS
    Disks = {d1}
    NoDisk = NoDisk
    MaxJobs = 1
    Calls = {c1}
    Methods = {"resale", "destroy"}
    ApprovedMethod = "resale"
    Unsigned = "unsigned"
    MaxCrashes = 0
    Faults = FALSE
    EarlyQueue = FALSE
INVARIANTS
    ScrappedIsDestroyed
PROPERTIES
    ScrappedForGood
    ErasedOnlyWhenDone
    AllDoneReachesAsset
CHECK_DEADLOCK FALSE
