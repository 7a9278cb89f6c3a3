SPECIFICATION Spec
CONSTANTS
    NoOne = NoOne
    Instances = {a, b}
    Slots = {s1}
    MaxJobs = 1
    MaxReverify = 1
    Backend = "postgres"
    Overlap = TRUE
    Timeouts = FALSE
    MaxFaults = 0
INVARIANTS
    NoDoubleExecution
