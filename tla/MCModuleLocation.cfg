SPECIFICATION Spec
CONSTANT Plans <- IndependentPlans
INVARIANT ModuleLocationsHold
CHECK_DEADLOCK FALSE
