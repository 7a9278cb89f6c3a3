SPECIFICATION Spec
CONSTANTS
    Passes <- Dod3Pass
    VerifyMode = "full"
    Size = 5
    ChunkSizes = {2}
    Step = 1
    DeadSets <- NoneDead
    Draws <- NoDraws
    MaxMishaps = 2
PROPERTY CompletedPassesNotRewritten
