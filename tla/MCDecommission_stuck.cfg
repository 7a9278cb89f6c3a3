SPECIFICATION Spec
CONSTANTS
    Disks = {d1}
    NoDisk = NoDisk
    MaxJobs = 1
    Calls = {c1}
    Methods = {"resale", "destroy"}
    ApprovedMethod = "resale"
    Unsigned = "unsigned"
    MaxCrashes = 1
    Faults = FALSE
    EarlyQueue = FALSE
PROPERTY DiskLeavesErasing
CHECK_DEADLOCK FALSE
