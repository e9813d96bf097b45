--------------------------- MODULE NodeScheduler ---------------------------
(***************************************************************************)
(* NodeScheduler::FindAcceleratedQueryNodeSets: splits the nodes of a      *)
(* query graph into runs, each of which one bitstream of the library       *)
(* executes, and records how streams cross from one run to a later one.    *)
(*                                                                         *)
(* One step is one call of the recursive CheckNodeForModuleSet, one        *)
(* iteration of its loop over the consumers of the node it placed, or the  *)
(* end of one iteration of the outer loop, which closes a run.             *)
(*                                                                         *)
(* Indexes start at 1, and positions in a module sequence at 0 as in the   *)
(* code.                                                                   *)
(***************************************************************************)
EXTENDS QueryPlan

VARIABLES
    plan,                    \* the plan and library, never changed
    (* The fields of the query nodes that scheduling changes.               *)
    previous_nodes,          \* previous_nodes[n][j]: producer of an input
    next_nodes,              \* next_nodes[n][i]: consumer of an output
    input_files,             \* input_files[n][j]
    output_files,            \* output_files[n][i]
    module_location,         \* place of the node's module, -1 before it has one
    (* The locals of the scheduler.                                         *)
    starting_nodes,          \* nodes that wait for no unscheduled node
    node_index,              \* the starting node under consideration
    next_node_index,         \* the consumer of it under consideration
    current_set,             \* modules of the run being built
    current_query_nodes,     \* its nodes
    scheduled_queries,       \* nodes of all runs so far
    query_node_runs_queue,   \* the closed runs
    linked_nodes,            \* edges whose data is kept in memory for a later run
    phase                    \* "check", "extend", "close", "scheduled", "failed"

nodeVars == <<previous_nodes, next_nodes, input_files, output_files>>
vars == <<plan, nodeVars, module_location, starting_nodes, node_index,
          next_node_index, current_set, current_query_nodes,
          scheduled_queries, query_node_runs_queue, linked_nodes, phase>>

CurrentNode == starting_nodes[node_index]
InCurrentRun(m) == m \in ToSet(current_query_nodes)

-----------------------------------------------------------------------------
(***************************************************************************)
(* The place of a node's module.                                           *)
(***************************************************************************)

FirstIndex(S) == CHOOSE k \in S : \A l \in S : k <= l

FindNextNodeLocation(m, n) ==
    FirstIndex({i \in DOMAIN next_nodes[m] : next_nodes[m][i] = n})

(* A slip to check against: every consumer has one input.                  *)
FindPreviousNodeLocationFirst(m, n) == 1

FindPreviousNodeLocation(m, n) ==
    FirstIndex({j \in DOMAIN previous_nodes[m] : previous_nodes[m][j] = n})

(* The input streams of n that a module of the current run produces.       *)
PipelinedInputs(n) ==
    {j \in DOMAIN previous_nodes[n] :
        /\ IsNode(previous_nodes[n][j])
        /\ InCurrentRun(previous_nodes[n][j])
        /\ plan.operation_type[previous_nodes[n][j]] # PassThrough}

(* A slip: the producer's output projection is forgotten.                  *)
IsProjectionOperationDefinedForInput(n, j) == plan.input_projection[n][j]

IsProjectionOperationDefined(n, j) ==
    LET m == previous_nodes[n][j]
    IN  \/ plan.output_projection[m][FindNextNodeLocation(m, n)]
        \/ plan.input_projection[n][j]

(***************************************************************************)
(* The flag that keeps a checked output from being pipelined.  The code    *)
(* reads the producer's flag with the index of the CONSUMER's input, so it *)
(* may read past the producer's outputs: beyond[j] is the bit found there. *)
(***************************************************************************)
IsChecked(n, j, beyond) ==
    LET flags == plan.is_checked[previous_nodes[n][j]]
    IN  IF j \in DOMAIN flags THEN flags[j] ELSE beyond[j]

CannotBePipelined(n, beyond) ==
    \E j \in PipelinedInputs(n) :
        IsProjectionOperationDefined(n, j) \/ IsChecked(n, j, beyond)

(* The index just after the first module of the producer's operation.      *)
PositionAfter(m) ==
    FirstIndex({k \in DOMAIN current_set :
                  current_set[k].operation_type = plan.operation_type[m]})

(* A slip: the position OF the producer's module counts as after it.       *)
MeetsPrerequisitesOffByOne(n, position) ==
    \A j \in PipelinedInputs(n) : PositionAfter(previous_nodes[n][j]) <= position + 1

(* FindMinPosition: the positions after the modules of all its producers.  *)
MeetsPrerequisites(n, position) ==
    \A j \in PipelinedInputs(n) : PositionAfter(previous_nodes[n][j]) <= position

(***************************************************************************)
(* FindSuitableModuleCombination: the positions and resource parameters    *)
(* that turn the current set into one with a bitstream, and the order in   *)
(* which they are tried.                                                   *)
(***************************************************************************)
CreateNewModulesVector(n, choice) ==
    InsertAt(current_set, choice.position + 1,
             [operation_type |-> plan.operation_type[n],
              resource_elasticity_data |-> choice.parameters])

IsModuleSetSupported(modules) == modules \in plan.library

SuitableChoices(n) ==
    {choice \in [position : 0..Len(current_set),
                 parameters : ParameterTuples(plan, plan.operation_type[n])] :
        /\ MeetsPrerequisites(n, choice.position)
        /\ IsModuleSetSupported(CreateNewModulesVector(n, choice))}

TriedBefore(c, d) ==
    \/ c.position < d.position
    \/ /\ c.position = d.position
       /\ \E k \in DOMAIN c.parameters :
             /\ c.parameters[k] < d.parameters[k]
             /\ \A l \in 1..(k - 1) : c.parameters[l] = d.parameters[l]

IsFirstChoice(choice, n) ==
    /\ choice \in SuitableChoices(n)
    /\ \A other \in SuitableChoices(n) \ {choice} : TriedBefore(choice, other)

-----------------------------------------------------------------------------
Init ==
    /\ plan \in Plans
    /\ previous_nodes = plan.previous_nodes
    /\ next_nodes = plan.next_nodes
    /\ input_files = [n \in plan.nodes |-> [j \in Inputs(plan, n) |->
           IF IsNode(plan.previous_nodes[n][j]) THEN NoFile ELSE TableFile(n, j)]]
    /\ output_files = [n \in plan.nodes |-> [i \in Outputs(plan, n) |->
           IF plan.is_checked[n][i] THEN ExpectedFile(n, i) ELSE NoFile]]
    /\ module_location = [n \in plan.nodes |-> -1]
    /\ \E roots \in [1..Cardinality(RootNodes(plan)) -> RootNodes(plan)] :
           /\ ToSet(roots) = RootNodes(plan)
           /\ \A i, k \in DOMAIN roots : i < k => roots[i] < roots[k]
           /\ starting_nodes = roots
    /\ node_index = 1
    /\ next_node_index = 1
    /\ current_set = <<>>
    /\ current_query_nodes = <<>>
    /\ scheduled_queries = <<>>
    /\ query_node_runs_queue = <<>>
    /\ linked_nodes = {}
    /\ phase = IF starting_nodes = <<>> THEN "scheduled" ELSE "check"

(***************************************************************************)
(* CheckNodeForModuleSet finds a place for the node.                       *)
(***************************************************************************)
AddToRun(n) ==
    /\ scheduled_queries' = Append(scheduled_queries, n)
    /\ current_query_nodes' = Append(current_query_nodes, n)
    /\ next_node_index' = 1
    /\ phase' = "extend"
    /\ UNCHANGED <<plan, nodeVars, starting_nodes, node_index,
                   query_node_runs_queue, linked_nodes>>

PlaceModule ==
    /\ phase = "check"
    /\ plan.operation_type[CurrentNode] # PassThrough
    /\ \E beyond \in [DOMAIN previous_nodes[CurrentNode] -> BOOLEAN] :
           ~CannotBePipelined(CurrentNode, beyond)
    /\ \E choice \in SuitableChoices(CurrentNode) :
           /\ IsFirstChoice(choice, CurrentNode)
           /\ current_set' = CreateNewModulesVector(CurrentNode, choice)
           /\ module_location' =
                  [module_location EXCEPT ![CurrentNode] = choice.position + 1]
    /\ AddToRun(CurrentNode)

(* A node that needs no module fits where there is a module already: the   *)
(* empty vector it would leave behind otherwise means failure.             *)
PlacePassThrough ==
    /\ phase = "check"
    /\ plan.operation_type[CurrentNode] = PassThrough
    /\ current_set # <<>>
    /\ UNCHANGED <<current_set, module_location>>
    /\ AddToRun(CurrentNode)

(* Two slips: one scheduled producer is enough; only the producers of this *)
(* run count.                                                              *)
IsNodeAvailableFromOne(m) ==
    \E j \in DOMAIN previous_nodes[m] : previous_nodes[m][j] \in ToSet(scheduled_queries)
IsNodeAvailableInRun(m) ==
    \A j \in DOMAIN previous_nodes[m] :
        IsNode(previous_nodes[m][j]) => InCurrentRun(previous_nodes[m][j])

(* One iteration of the loop over the consumers of the node just placed.   *)
IsNodeAvailable(m) ==
    \A j \in DOMAIN previous_nodes[m] :
        IsNode(previous_nodes[m][j]) =>
            previous_nodes[m][j] \in ToSet(scheduled_queries)

BecomesStarting(m) ==
    /\ IsNode(m)
    /\ m \notin ToSet(starting_nodes)
    /\ IsNodeAvailable(m)

ConsiderNextNode ==
    /\ phase = "extend"
    /\ next_node_index <= Len(next_nodes[CurrentNode])
    /\ LET m == next_nodes[CurrentNode][next_node_index]
       IN  starting_nodes' = IF BecomesStarting(m) THEN Append(starting_nodes, m)
                                                   ELSE starting_nodes
    /\ next_node_index' = next_node_index + 1
    /\ UNCHANGED <<plan, nodeVars, module_location, node_index, current_set,
                   current_query_nodes, scheduled_queries,
                   query_node_runs_queue, linked_nodes, phase>>

(* The placed node leaves the starting nodes, and the search starts again  *)
(* from the first of them.                                                 *)
EraseStartingNode ==
    /\ phase = "extend"
    /\ next_node_index > Len(next_nodes[CurrentNode])
    /\ starting_nodes' = RemoveAt(starting_nodes, node_index)
    /\ node_index' = 1
    /\ phase' = IF Len(starting_nodes) = 1 THEN "close" ELSE "check"
    /\ UNCHANGED <<plan, nodeVars, module_location, next_node_index,
                   current_set, current_query_nodes, scheduled_queries,
                   query_node_runs_queue, linked_nodes>>

(* Two slips: the end of the starting nodes is not seen; it wraps around.  *)
TryNextNodeUnbounded ==
    /\ node_index' = node_index + 1
    /\ UNCHANGED <<plan, nodeVars, module_location, starting_nodes,
                   next_node_index, current_set, current_query_nodes,
                   scheduled_queries, query_node_runs_queue, linked_nodes, phase>>
TryNextNodeAround ==
    /\ node_index' = IF node_index < Len(starting_nodes) THEN node_index + 1 ELSE 1
    /\ UNCHANGED <<plan, nodeVars, module_location, starting_nodes,
                   next_node_index, current_set, current_query_nodes,
                   scheduled_queries, query_node_runs_queue, linked_nodes, phase>>

(***************************************************************************)
(* CheckNodeForModuleSet finds no place: the next starting node is tried,  *)
(* if there is one.                                                        *)
(***************************************************************************)
TryNextNode ==
    /\ IF node_index < Len(starting_nodes)
       THEN node_index' = node_index + 1 /\ phase' = phase
       ELSE node_index' = node_index /\ phase' = "close"
    /\ UNCHANGED <<plan, nodeVars, module_location, starting_nodes,
                   next_node_index, current_set, current_query_nodes,
                   scheduled_queries, query_node_runs_queue, linked_nodes>>

SkipNode ==
    /\ phase = "check"
    /\ IF plan.operation_type[CurrentNode] = PassThrough
       THEN current_set = <<>>
       ELSE \/ \E beyond \in [DOMAIN previous_nodes[CurrentNode] -> BOOLEAN] :
                   CannotBePipelined(CurrentNode, beyond)
            \/ /\ ModulesOf(plan, plan.operation_type[CurrentNode]) # {}
               /\ SuitableChoices(CurrentNode) = {}
    /\ TryNextNode

(* No bitstream has a module for the operation: the scheduler throws.      *)
OperationNotFound ==
    /\ phase = "check"
    /\ plan.operation_type[CurrentNode] # PassThrough
    /\ \E beyond \in [DOMAIN previous_nodes[CurrentNode] -> BOOLEAN] :
           ~CannotBePipelined(CurrentNode, beyond)
    /\ ModulesOf(plan, plan.operation_type[CurrentNode]) = {}
    /\ phase' = "failed"
    /\ UNCHANGED <<plan, nodeVars, module_location, starting_nodes, node_index,
                   next_node_index, current_set, current_query_nodes,
                   scheduled_queries, query_node_runs_queue, linked_nodes>>

-----------------------------------------------------------------------------
(***************************************************************************)
(* CheckExternalLinks: what happens to the streams of the run's nodes.     *)
(***************************************************************************)

(* Output i of n leaves the run.  Without a file its memory is kept for    *)
(* the consumer (ReuseMemory says yes to every pair of nodes); with one    *)
(* the consumer is told to read that file.                                 *)
LeavesRun(n, i) ==
    /\ InCurrentRun(n)
    /\ IsNode(next_nodes[n][i])
    /\ ~InCurrentRun(next_nodes[n][i])

IsKept(n, i)    == LeavesRun(n, i) /\ output_files[n][i] = NoFile
IsThroughFile(n, i) == LeavesRun(n, i) /\ output_files[n][i] # NoFile

KeptOutputs ==
    UNION {{Edge(n, i, next_nodes[n][i], FindPreviousNodeLocation(next_nodes[n][i], n)) :
              i \in {i \in DOMAIN next_nodes[n] : IsKept(n, i)}} : n \in plan.nodes}

(* The outputs of m's producer that set the file of m's input j.           *)
FileSources(m, j) ==
    LET n == previous_nodes[m][j]
    IN  IF IsNode(n) /\ j = FindPreviousNodeLocation(m, n)
        THEN {i \in DOMAIN next_nodes[n] : next_nodes[n][i] = m /\ IsThroughFile(n, i)}
        ELSE {}

CheckExternalLinks ==
    /\ output_files' = [n \in plan.nodes |-> [i \in DOMAIN output_files[n] |->
           IF InCurrentRun(n) /\ ~IsNode(next_nodes[n][i]) /\ output_files[n][i] = NoFile
           THEN ResultFile(n, i)
           ELSE output_files[n][i]]]
    /\ input_files' = [m \in plan.nodes |-> [j \in DOMAIN input_files[m] |->
           IF FileSources(m, j) # {}
           THEN output_files[previous_nodes[m][j]][Max(FileSources(m, j))]
           ELSE input_files[m][j]]]
    /\ next_nodes' = [n \in plan.nodes |-> [i \in DOMAIN next_nodes[n] |->
           IF IsThroughFile(n, i) THEN Null ELSE next_nodes[n][i]]]
    /\ previous_nodes' = [m \in plan.nodes |-> [j \in DOMAIN previous_nodes[m] |->
           IF InCurrentRun(m) /\ ~InCurrentRun(previous_nodes[m][j])
           THEN Null ELSE previous_nodes[m][j]]]
    /\ linked_nodes' = linked_nodes \cup KeptOutputs

(* A slip: the modules of the closed run stay in the next one.             *)
CloseRunKeepingModules ==
    /\ phase = "close"
    /\ current_query_nodes # <<>>
    /\ CheckExternalLinks
    /\ query_node_runs_queue' =
           Append(query_node_runs_queue,
                  [modules |-> current_set, nodes |-> current_query_nodes])
    /\ current_query_nodes' = <<>>
    /\ node_index' = 1
    /\ phase' = IF starting_nodes = <<>> THEN "scheduled" ELSE "check"
    /\ UNCHANGED <<plan, module_location, starting_nodes, next_node_index,
                   scheduled_queries, current_set>>

(* The outer loop: a run with nodes is closed; an empty one means that no  *)
(* starting node fits any bitstream by itself, and the scheduler throws.   *)
CloseRun ==
    /\ phase = "close"
    /\ current_query_nodes # <<>>
    /\ CheckExternalLinks
    /\ query_node_runs_queue' =
           Append(query_node_runs_queue,
                  [modules |-> current_set, nodes |-> current_query_nodes])
    /\ current_set' = <<>>
    /\ current_query_nodes' = <<>>
    /\ node_index' = 1
    /\ phase' = IF starting_nodes = <<>> THEN "scheduled" ELSE "check"
    /\ UNCHANGED <<plan, module_location, starting_nodes, next_node_index,
                   scheduled_queries>>

FailToSchedule ==
    /\ phase = "close"
    /\ current_query_nodes = <<>>
    /\ phase' = "failed"
    /\ UNCHANGED <<plan, nodeVars, module_location, starting_nodes, node_index,
                   next_node_index, current_set, current_query_nodes,
                   scheduled_queries, query_node_runs_queue, linked_nodes>>

Next ==
    \/ PlaceModule
    \/ PlacePassThrough
    \/ ConsiderNextNode
    \/ EraseStartingNode
    \/ SkipNode
    \/ OperationNotFound
    \/ CloseRun
    \/ FailToSchedule

(* One thread runs the scheduler and stops only when it returns or throws. *)
Spec == Init /\ [][Next]_vars /\ WF_vars(Next)

-----------------------------------------------------------------------------
(***************************************************************************)
(* Correctness                                                             *)
(***************************************************************************)

Run == [modules : Seq(QueryOperation), nodes : Seq(plan.nodes)]

(* The fields of the nodes and the locals of the scheduler stay within     *)
(* their types, and the starting node under consideration is one.          *)
LinksOK ==
    /\ previous_nodes \in [plan.nodes -> Seq(plan.nodes \cup {Null})]
    /\ next_nodes \in [plan.nodes -> Seq(plan.nodes \cup {Null})]
    /\ \A n \in plan.nodes :
          /\ DOMAIN previous_nodes[n] = Inputs(plan, n)
          /\ DOMAIN next_nodes[n] = Outputs(plan, n)
FilesOK ==
    /\ input_files \in [plan.nodes -> Seq(File)]
    /\ output_files \in [plan.nodes -> Seq(File)]
    /\ \A n \in plan.nodes :
          /\ DOMAIN input_files[n] = Inputs(plan, n)
          /\ DOMAIN output_files[n] = Outputs(plan, n)
SearchOK ==
    /\ starting_nodes \in Seq(plan.nodes)
    /\ node_index \in Nat \ {0}
    /\ phase \in {"check", "extend"} => node_index \in DOMAIN starting_nodes
    /\ next_node_index \in Nat \ {0}
    /\ phase \in {"check", "extend", "close", "scheduled", "failed"}
RunsOK ==
    /\ module_location \in [plan.nodes -> Int]
    /\ current_set \in Seq(QueryOperation)
    /\ current_query_nodes \in Seq(plan.nodes)
    /\ scheduled_queries \in Seq(plan.nodes)
    /\ query_node_runs_queue \in Seq(Run)
LinkedOK ==
    linked_nodes \subseteq [from : plan.nodes, output : Nat, to : plan.nodes, input : Nat]
TypeOK == LinksOK /\ FilesOK /\ SearchOK /\ RunsOK /\ LinkedOK

(* FindAcceleratedQueryNodeSets schedules no node twice, and none before   *)
(* every node whose results it consumes.                                   *)
TopologicalOrder ==
    /\ IsInjective(scheduled_queries)
    /\ \A k \in DOMAIN scheduled_queries :
          \A m \in Producers(plan, scheduled_queries[k]) :
             \E l \in 1..(k - 1) : scheduled_queries[l] = m

(* The starting nodes are the unscheduled nodes whose producers are all    *)
(* scheduled, once each: none that still waits for a result, and none      *)
(* forgotten.  While a node is being placed it is still among them, and    *)
(* some of its consumers may not have been considered.                     *)
IsScheduled(n) == n \in ToSet(scheduled_queries)
IsReady(n) == Producers(plan, n) \subseteq ToSet(scheduled_queries)
IsStillToConsider(n) ==
    /\ phase = "extend"
    /\ \E i \in DOMAIN plan.next_nodes[CurrentNode] :
          i >= next_node_index /\ plan.next_nodes[CurrentNode][i] = n
StartingNodesReady ==
    /\ IsInjective(starting_nodes)
    /\ \A n \in ToSet(starting_nodes) :
          IsReady(n) /\ (IsScheduled(n) => phase = "extend" /\ n = CurrentNode)
    /\ \A n \in plan.nodes :
          IsReady(n) /\ ~IsScheduled(n) =>
              n \in ToSet(starting_nodes) \/ IsStillToConsider(n)
    /\ phase = "scheduled" => starting_nodes = <<>>

(* What makes them invariant: the links of nodes not yet in a closed run   *)
(* are still those of the plan, and the node being placed is the last      *)
(* scheduled one.                                                          *)
LinksUntouched ==
    /\ \A n \in plan.nodes :
          ~IsScheduled(n) => /\ previous_nodes[n] = plan.previous_nodes[n]
                            /\ next_nodes[n] = plan.next_nodes[n]
    /\ ToSet(current_query_nodes) \subseteq ToSet(scheduled_queries)
    /\ phase = "extend" =>
          /\ scheduled_queries # <<>>
          /\ CurrentNode = scheduled_queries[Len(scheduled_queries)]
          /\ next_nodes[CurrentNode] = plan.next_nodes[CurrentNode]
ScheduleInv == TopologicalOrder /\ StartingNodesReady /\ LinksUntouched

(* No node of an earlier run consumes from the run being built, whose      *)
(* nodes still have the links of the plan.                                 *)
RunsSeparated ==
    /\ \A n \in ToSet(current_query_nodes) :
          /\ previous_nodes[n] = plan.previous_nodes[n]
          /\ next_nodes[n] = plan.next_nodes[n]
    /\ \A m \in ToSet(scheduled_queries) \ ToSet(current_query_nodes) :
          Producers(plan, m) \cap ToSet(current_query_nodes) = {}

(* When the scheduler returns, every node of the graph is in a run.        *)
EveryNodeScheduled ==
    phase = "scheduled" => ToSet(scheduled_queries) = plan.nodes

(* Each run in the queue has a bitstream, and that bitstream has exactly   *)
(* one module for each node of the run that needs one.                     *)
NodesOfType(nodes, type) ==
    {k \in DOMAIN nodes : plan.operation_type[nodes[k]] = type}
ModulesOfType(modules, type) ==
    {k \in DOMAIN modules : modules[k].operation_type = type}
RunsMatchBitstreams ==
    \A r \in DOMAIN query_node_runs_queue :
        LET run == query_node_runs_queue[r]
        IN  /\ run.modules \in plan.library
            /\ \A type \in QueryOperationType \ {PassThrough} :
                  Cardinality(NodesOfType(run.nodes, type))
                      = Cardinality(ModulesOfType(run.modules, type))

(* The runs as the modules and nodes they have so far, the one being built *)
(* included.                                                               *)
AllRuns ==
    Append(query_node_runs_queue,
           [modules |-> current_set, nodes |-> current_query_nodes])
InSameRun(n, m) ==
    \E r \in DOMAIN AllRuns : {n, m} \subseteq ToSet(AllRuns[r].nodes)

NeedsModule(n) == plan.operation_type[n] # PassThrough

(* The data of a run flows through its modules in their order, so where a  *)
(* node's module feeds another's in one run, a module of the producer's    *)
(* operation must come before one of the consumer's.                       *)
ComesBefore(n, m, modules) ==
    \E k, l \in DOMAIN modules :
        /\ k < l
        /\ modules[k].operation_type = plan.operation_type[n]
        /\ modules[l].operation_type = plan.operation_type[m]
PipelineOrder ==
    \A e \in Edges(plan) : \A r \in DOMAIN AllRuns :
        /\ NeedsModule(e.from) /\ NeedsModule(e.to)
        /\ {e.from, e.to} \subseteq ToSet(AllRuns[r].nodes)
        => ComesBefore(e.from, e.to, AllRuns[r].modules)

(* There is no crossbar between modules, so a stream with a projection     *)
(* between two nodes that both have a module must go through the memory:   *)
(* those nodes are in different runs.  Where one of the nodes passes its   *)
(* data through this is not so: FindMinPosition skips such a producer, and *)
(* is never asked about such a consumer (see ProjectionsEndRuns).  The     *)
(* code finds an output by the node it leads to, so of two streams between *)
(* the same nodes it sees the output projection of the first only.         *)
ProjectionsSplitRuns ==
    \A e \in Edges(plan) :
        /\ \/ HasSimpleEdges(plan) /\ plan.output_projection[e.from][e.output]
           \/ plan.input_projection[e.to][e.input]
        /\ NeedsModule(e.from) /\ NeedsModule(e.to)
        => ~InSameRun(e.from, e.to)

(* Once the run of a stream's producer is queued, the stream's data has    *)
(* exactly one way to the consumer: through the pipeline, if both are in   *)
(* that run; else through the file the producer writes or is checked with, *)
(* if there is one; else through memory kept for that input.               *)
ClosedNodes ==
    UNION {ToSet(query_node_runs_queue[r].nodes) : r \in DOMAIN query_node_runs_queue}
IsPipelined(e) ==
    /\ next_nodes[e.from][e.output] = e.to
    /\ previous_nodes[e.to][e.input] = e.from
    /\ input_files[e.to][e.input] = NoFile
IsReadFromFile(e) ==
    /\ input_files[e.to][e.input] = ExpectedFile(e.from, e.output)
    /\ output_files[e.from][e.output] = ExpectedFile(e.from, e.output)
    /\ next_nodes[e.from][e.output] = Null
StreamsHandedOver ==
    \A e \in Edges(plan) :
        HasSimpleEdges(plan) /\ e.from \in ClosedNodes =>
            IF InSameRun(e.from, e.to)
            THEN IsPipelined(e) /\ e \notin linked_nodes
            ELSE /\ e.to \in ClosedNodes => previous_nodes[e.to][e.input] = Null
                 /\ IF plan.is_checked[e.from][e.output]
                    THEN IsReadFromFile(e) /\ e \notin linked_nodes
                    ELSE /\ input_files[e.to][e.input] = NoFile
                         /\ e \in linked_nodes
                         /\ \A other \in linked_nodes :
                               other.to = e.to /\ other.input = e.input => other = e

(* If every operation of the plan has a bitstream with that one module,    *)
(* the scheduler finds a run for every node and never throws.              *)
HasSingleModule(type) ==
    \E modules \in plan.library :
        Len(modules) = 1 /\ modules[1].operation_type = type
SingleModulesSuffice ==
    (\A n \in plan.nodes : NeedsModule(n) /\ HasSingleModule(plan.operation_type[n]))
    => phase # "failed"

(* The scheduler ends: it returns or throws.                               *)
Terminates == <>(phase \in {"scheduled", "failed"})

(* Nodes are placed and runs closed as the abstract specification says.    *)
Dependencies == {[n \in p.nodes |-> Producers(p, n)] : p \in Plans}
Batches == INSTANCE TopologicalBatches WITH
    Requirements <- Dependencies,
    needs   <- [n \in plan.nodes |-> Producers(plan, n)],
    placed  <- ToSet(scheduled_queries),
    batch   <- ToSet(current_query_nodes),
    batches <- [r \in DOMAIN query_node_runs_queue |-> ToSet(query_node_runs_queue[r].nodes)]
ImplementsBatches == Batches!Spec

-----------------------------------------------------------------------------
(***************************************************************************)
(* What the documentation says and the code does not do.                   *)
(***************************************************************************)

(* core_interfaces/query_scheduling_data.hpp:63 calls module_location the  *)
(* "Location of the module to be processing this node": in a queued run    *)
(* the module there has the node's operation, and no two nodes share one.  *)
ModuleLocationsHold ==
    \A r \in DOMAIN query_node_runs_queue :
        LET run == query_node_runs_queue[r]
            placed == {n \in ToSet(run.nodes) : NeedsModule(n)}
        IN  /\ \A n \in placed :
                  /\ module_location[n] \in DOMAIN run.modules
                  /\ run.modules[module_location[n]].operation_type
                         = plan.operation_type[n]
            /\ \A n, m \in placed :
                  module_location[n] = module_location[m] => n = m

(* docs/program_input.md:116: a node whose output has a file "can't be     *)
(* pipelined with any following nodes".                                    *)
CheckedOutputsEndRuns ==
    \A e \in Edges(plan) :
        plan.is_checked[e.from][e.output] => ~InSameRun(e.from, e.to)

(* docs/program_input.md:148: a node "can't have a prerequisite module in  *)
(* the same run if the node has its input projection operation defined",   *)
(* and a node with an output projection "can't have any modules pipelined  *)
(* after it in the same run"; the projected node itself may be any.        *)
ProjectionsEndRuns ==
    \A e \in Edges(plan) :
        \/ plan.input_projection[e.to][e.input] /\ NeedsModule(e.from)
        \/ plan.output_projection[e.from][e.output] /\ NeedsModule(e.to)
        => ~InSameRun(e.from, e.to)

(* What the two sections of docs/program_input.md say of the runs of a     *)
(* schedule: neither a file to check an output with nor a projection is    *)
(* between two nodes of one run.                                           *)
DocumentedSplits ==
    phase = "scheduled" => CheckedOutputsEndRuns /\ ProjectionsEndRuns

(* node_scheduler.cpp:142 finds a position "such that all the              *)
(* prerequisites are met": also those that reach the node through a        *)
(* pass-through node of the same run.                                      *)
AllPrerequisitesMet ==
    \A d, e \in Edges(plan) : \A r \in DOMAIN AllRuns :
        /\ d.to = e.from /\ ~NeedsModule(e.from)
        /\ NeedsModule(d.from) /\ NeedsModule(e.to)
        /\ {d.from, e.from, e.to} \subseteq ToSet(AllRuns[r].nodes)
        => ComesBefore(d.from, e.to, AllRuns[r].modules)
=============================================================================
