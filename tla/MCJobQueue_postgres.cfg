SPECIFICATION Spec
CONSTANTS
    NoOne = NoOne
    Instances = {a, b}
    Slots = {s1}
    MaxJobs = 2
    MaxReverify = 0
    Backend = "postgres"
    Overlap = FALSE
    Timeouts = TRUE
    MaxFaults = 2
PROPERTIES
    SettledForGood
    JobsEnd
