\* Run by hand: TLC refutes NoFalseAlarmAtAll (see README).
SPECIFICATION Spec
CONSTANTS
    Passes <- NistPurge
    VerifyMode = "full"
    Size = 5
    ChunkSizes = {2}
    Step = 1
    DeadSets <- NoneDead
    Draws <- NoDraws
    MaxMishaps = 3
INVARIANT NoFalseAlarmAtAll
