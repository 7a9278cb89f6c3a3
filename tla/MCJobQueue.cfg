SPECIFICATION Spec
CONSTANTS
    NoOne = NoOne
    Instances = {a, b}
    Slots = {s1, s2}
    MaxJobs = 2
    MaxReverify = 1
    Backend = "memory"
    Overlap = FALSE
    Timeouts = TRUE
    MaxFaults = 0
INVARIANTS
    NoDoubleExecution
PROPERTIES
    JobsEnd
