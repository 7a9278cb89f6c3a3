SPECIFICATION Spec
CONSTANTS
    Disks = {d1}
    NoDisk = NoDisk
    MaxJobs = 2
    Calls = {c1, c2}
    Methods = {"resale", "destroy"}
    ApprovedMethod = "resale"
    Unsigned = "unsigned"
    MaxCrashes = 0
    Faults = FALSE
    EarlyQueue = FALSE
INVARIANT ReportIsCertified
SYMMETRY Symmetry
CHECK_DEADLOCK FALSE
