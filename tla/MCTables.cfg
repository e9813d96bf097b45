SPECIFICATION Spec
CONSTANTS
    Cases <- SmallCases
    HexBase = 8
    Quote = 18
    Separator = 60
    BlockSize = 12
    MaxRows = 3
    MaxRounds = 1
INVARIANTS
    TypeOK
    RowsInPlace
    StoredAsWritten
    ResultsReadBack
    VerdictRight
CHECK_DEADLOCK FALSE
