\* Run by hand: TLC refutes FinishedStaysFinished (see README).
SPECIFICATION Spec
CONSTANTS
    NoOne = NoOne
    Instances = {a}
    Slots = {s1, s2}
    MaxJobs = 2
    MaxReverify = 0
    Backend = "memory"
    Overlap = FALSE
    Timeouts = FALSE
    MaxFaults = 0
PROPERTIES
    FinishedStaysFinished
