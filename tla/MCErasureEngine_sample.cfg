SPECIFICATION Spec
CONSTANTS
    Passes <- OnePass
    VerifyMode = "sample"
    Size = 5
    ChunkSizes = {2}
    Step = 1
    DeadSets <- OneDeadAtMost
    Draws <- OneDraw
    MaxMishaps = 3
INVARIANTS
    VerifiedMeansErased
