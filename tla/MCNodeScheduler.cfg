SPECIFICATION Spec
CONSTANT Plans <- MCPlans
INVARIANTS
    TypeOK
    TopologicalOrder
    EveryNodeScheduled
    RunsMatchBitstreams
    PipelineOrder
    ProjectionsSplitRuns
    StreamsHandedOver
    SingleModulesSuffice
PROPERTIES
    ImplementsBatches
    Terminates
CHECK_DEADLOCK FALSE
