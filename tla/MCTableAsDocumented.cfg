SPECIFICATION Spec
CONSTANTS
    Cases <- DocumentedCases
    HexBase = 8
    Quote = 18
    Separator = 20
    BlockSize = 12
    MaxRows = 3
    MaxRounds = 1
INVARIANTS
    AcceptedTablesStored
CHECK_DEADLOCK FALSE
