SPECIFICATION Spec
CONSTANTS
    Plans <- FilteredPlans
    MaxPossibleAllocations = 6
    MaxIOStreamCount = 16
INVARIANTS
    TwoOutputsWork
CHECK_DEADLOCK FALSE
