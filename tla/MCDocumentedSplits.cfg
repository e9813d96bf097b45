SPECIFICATION Spec
CONSTANT Plans <- MarkedPlans
INVARIANT DocumentedSplits
CHECK_DEADLOCK FALSE
