SPECIFICATION Spec
CONSTANTS
    StreamSets <- RealStreamSets
    kDatapathWidth = 16
    kDatapathLength = 32
    kDdrBurstSize = 512
    kDdrSizePerCycle = 4
    kMaxRecordsPerDDRBurst = 32
    SortBufferSpace = 2048
    SortChannelCount = 64
INVARIANTS
    ColumnsInPlace
    BuffersDisjoint
    BurstsFit
    ChannelsCoverStream
    SortersFetchBursts
    FailsWithReason
    RegistersHoldSetup
CHECK_DEADLOCK FALSE
