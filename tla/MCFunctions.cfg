SPECIFICATION Spec
CONSTANTS
    BlockLen = 2
    CounterRange = 4
    Offsets <- SmallOffsets
    BufLens <- SmallLens
    Window = 2
    MaxSpans = 4
    Sizes <- SmallSizes
    Characters = {"a", "X", "-", "0", "1", "2", "3", "4", "5", "6", "7", "8", "9"}
    Alphanumerics = {"a", "X"}
    FieldWidth = 2
    SerialTail = 2
    AttemptWidth = 1
    Tags <- Names
    Serials <- Names
    Attempts = {0, 9, 10}
    NameCharacters = {"a", "-"}
    MaxName = 3
INVARIANTS
    BytesDependOnChunkStart
    DividingChunksNeverPanic
    SpansCoverEnds
    SampleBudget
    NumberDeterminesFields
CHECK_DEADLOCK FALSE
