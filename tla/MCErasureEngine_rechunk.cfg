SPECIFICATION Spec
CONSTANTS
    Passes <- Dod3Pass
    VerifyMode = "full"
    Size = 5
    ChunkSizes = {2, 3}
    Step = 3
    DeadSets <- NoneDead
    Draws <- NoDraws
    MaxMishaps = 2
INVARIANT NoFalseAlarm
