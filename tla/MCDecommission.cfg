SPECIFICATION Spec
CONSTANTS
    Disks = {d1, d2}
    NoDisk = NoDisk
    MaxJobs = 2
    Calls = {c1}
    Methods = {"resale"}
    ApprovedMethod = "resale"
    Unsigned = "unsigned"
    MaxCrashes = 0
    Faults = FALSE
    EarlyQueue = FALSE
INVARIANTS
    NoDiskForgotten
PROPERTIES
    DiskLeavesErasing
    EverySuccessCertified
CHECK_DEADLOCK FALSE
