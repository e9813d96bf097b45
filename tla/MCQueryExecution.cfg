SPECIFICATION Spec
CONSTANTS
    Plans <- AllPlans
    MaxPossibleAllocations = 6
    MaxIOStreamCount = 3
INVARIANTS
    TypeOK
    ResultsRight
    EveryResultDelivered
    CarriedDataKept
    BlocksNotShared
    BlocksReturned
    StreamsNumbered
    FailsOnlyWhenFull
PROPERTIES
    UsesMemoryManager
    Terminates
CHECK_DEADLOCK FALSE
