CONSTANTS
    n1 = n1
    n2 = n2
    n3 = n3
    n4 = n4
    Path <- Paths
    Skipped <- NoPaths
    NarSize <- NarSizes
    Stores <- OnMachine
    Batch = 2
    MaxUint32 = 8
    Moving <- Movable
    MaxTrouble = 2
    Modes = {"serve", "sim"}
    Conn = {1, 2}
    Wishes <- Asked
    Upstream <- Cached
    FileSize <- FileSizes
    DiffSize <- DiffSizes
    MinFileSize = 2
    MaxFileSize = 4
    MaxNarSize = 8
    SimSlots = 1
    MaxRequests = 2
SPECIFICATION FairSpec
INVARIANTS TypeOK BaseFits RecordFirst ActualExact SimCounts
PROPERTIES NothingForgotten Found
