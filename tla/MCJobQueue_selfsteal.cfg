SPECIFICATION Spec
CONSTANTS
    NoOne = NoOne
    Instances = {a}
    Slots = {s1, s2}
    MaxJobs = 1
    MaxReverify = 1
    Backend = "postgres"
    Overlap = FALSE
    Timeouts = TRUE
    MaxFaults = 0
INVARIANTS
    NoDoubleExecution
