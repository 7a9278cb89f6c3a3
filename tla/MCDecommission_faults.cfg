SPECIFICATION Spec
CONSTANTS
    Disks = {d1}
    NoDisk = NoDisk
    MaxJobs = 1
    Calls = {c1, c2}
    Methods = {"resale", "destroy"}
    ApprovedMethod = "resale"
    Unsigned = "unsigned"
    MaxCrashes = 1
    Faults = TRUE
    EarlyQueue = FALSE
INVARIANTS
    CertifiedAfterFlip
    CertificateHasReport
PROPERTIES
    VerifiedJobKept
    ImplementsLifecycle
SYMMETRY Symmetry
CHECK_DEADLOCK FALSE
