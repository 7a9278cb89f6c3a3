SPECIFICATION Spec
CONSTANTS
    Disks = {d1, d2}
    NoDisk = NoDisk
    MaxJobs = 2
    Calls = {c1}
    Methods = {"resale", "destroy"}
    ApprovedMethod = "resale"
    Unsigned = "unsigned"
    MaxCrashes = 0
    Faults = FALSE
    EarlyQueue = TRUE
INVARIANT NoDiskForgotten
CHECK_DEADLOCK FALSE
