SPECIFICATION Spec
CONSTANTS
    Definitions <- SmallDefinitions
    SupportedFunctions = {"kFilter", "kJoin"}
INVARIANTS
    GraphIsPlan
    SoundDefinitionsAccepted
CHECK_DEADLOCK FALSE
