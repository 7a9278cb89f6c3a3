SPECIFICATION Spec
CONSTANTS
    Disks = {d1}
    NoDisk = NoDisk
    MaxJobs = 1
    Calls = {c1}
    Methods = {"resale", "destroy"}
    ApprovedMethod = "resale"
    Unsigned = "unsigned"
    MaxCrashes = 0
    Faults = TRUE
    EarlyQueue = FALSE
INVARIANT FailedAwaitsDecision
CHECK_DEADLOCK FALSE
