SPECIFICATION Spec
CONSTANTS
    StreamSets <- MisfitSets
    kDatapathWidth = 16
    kDatapathLength = 32
    kDdrBurstSize = 512
    kDdrSizePerCycle = 4
    kMaxRecordsPerDDRBurst = 32
    SortBufferSpace = 2048
    SortChannelCount = 64
INVARIANTS
    MisfitsRejected
CHECK_DEADLOCK FALSE
