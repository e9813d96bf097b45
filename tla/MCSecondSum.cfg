SPECIFICATION Spec
CONSTANTS
    Sessions <- SumSessions
    Records <- FewRecords
    Locations = {1, 2, 3, 4}
    ChunkCount = 2
    LaneCount = 2
    ClauseCount = 2
    kDatapathWidth = 4
    kDatapathLength = 4
    kDdrBurstSize = 16
    kDdrSizePerCycle = 2
    kMaxRecordsPerDDRBurst = 4
    SortBufferSpace = 2048
    SortChannelCount = 64
INVARIANTS
    EveryPositionRead
CHECK_DEADLOCK FALSE
