SPECIFICATION Spec
CONSTANTS
    Passes <- Dod3Pass
    VerifyMode = "full"
    Size = 13
    ChunkSizes = {2}
    Step = 3
    DeadSets <- OneDeadAtMost
    Draws <- NoDraws
    MaxMishaps = 3
INVARIANTS
    CheckpointDurable
    VerifiedMeansErased
    NoFalseAlarm
    BoundedRework
PROPERTIES
    PassesInOrder
    EarlierPassesNotRewritten
    JobEnds
    ImplementsWipe
