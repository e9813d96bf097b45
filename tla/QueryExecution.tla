-------------------------- MODULE QueryExecution --------------------------
(***************************************************************************)
(* ExecutionManager and QueryManager: one query from its graph to its      *)
(* result files.  A state machine schedules the graph into runs, and for   *)
(* each run loads its bitstream, gives the streams memory blocks and       *)
(* numbers, has the board execute the run, stores its results and hands    *)
(* memory blocks on to later runs.                                         *)
(*                                                                         *)
(* The code is one thread; a step is one call of the scheduler, the setup  *)
(* of one node of a run, or one call of ExecuteAndProcessResults or of     *)
(* what it calls.  An exception or a crash ends the program.               *)
(***************************************************************************)
EXTENDS QueryPlan, BoardLimits

VARIABLES
    (* The variables of NodeScheduler.                                      *)
    plan, previous_nodes, next_nodes, input_files, output_files,
    module_location, starting_nodes, node_index, next_node_index, current_set,
    current_query_nodes, scheduled_queries, query_node_runs_queue,
    linked_nodes, phase,
    (* Those of the managers of memory, numbers and the FPGA.               *)
    available_memory_blocks, memory_block_count,
    available_ids, input_ids, output_ids,
    loaded_bitstream, modules, input_streams, output_streams, contents,
    result_sizes,
    (* The fields of ExecutionManager.                                      *)
    current_state,          \* "ScheduleState", "SetupNodesState", "ExecuteState"
    busy_flag,
    is_graph_empty,         \* unscheduled_graph has no root nodes left
    next_run,               \* the run at the front of the queue
    scheduled_node_names,   \* the nodes of all runs set up so far
    input_memory_blocks,    \* input_memory_blocks[n]: <<>> when not in the map
    output_memory_blocks,
    input_stream_sizes, output_stream_sizes,    \* the record counts
    query_nodes,            \* the parameters of the run
    (* Where the program is, and what it has shown the user.                *)
    step,                   \* the part of the state's work that comes next
    setup_index,            \* the node being set up
    error,                  \* the exception or crash that ended the program
    results                 \* the result files written or compared

schedulerVars == <<plan, previous_nodes, next_nodes, input_files, output_files,
    module_location, starting_nodes, node_index, next_node_index, current_set,
    current_query_nodes, scheduled_queries, query_node_runs_queue,
    linked_nodes, phase>>
memoryVars == <<available_memory_blocks, memory_block_count>>
idVars == <<available_ids, input_ids, output_ids>>
boardVars == <<loaded_bitstream, modules, input_streams, output_streams,
    contents, result_sizes>>
streamVars == <<input_memory_blocks, output_memory_blocks, input_stream_sizes,
    output_stream_sizes>>
controlVars == <<current_state, busy_flag, is_graph_empty, next_run,
    scheduled_node_names, step, setup_index, error>>
vars == <<schedulerVars, memoryVars, idVars, boardVars, streamVars,
    controlVars, query_nodes, results>>

(* The blocks in the vectors of the execution manager.                     *)
BlocksAt(memory_blocks) ==
    (UNION {ToSet(memory_blocks[n]) : n \in DOMAIN memory_blocks}) \ {0}
HeldBlocks == BlocksAt(input_memory_blocks) \cup BlocksAt(output_memory_blocks)

Scheduler == INSTANCE NodeScheduler
Memory == INSTANCE MemoryManager WITH held <- HeldBlocks
IDs == INSTANCE IDManager
FPGA == INSTANCE FPGAManager

NoBlock == Memory!NoBlock
NoRows == FPGA!NoData
UnknownRows == FPGA!Wrong
IsBlock(block) == block # NoBlock

RunNodes(r) == query_node_runs_queue[r].nodes
CurrentRun == RunNodes(next_run - 1)    \* once it is popped
InRun(n) == n \in ToSet(CurrentRun)
SetupNode == CurrentRun[setup_index]

IsRunning == busy_flag /\ error = "none" /\ phase # "failed"

-----------------------------------------------------------------------------
Init ==
    /\ Scheduler!Init
    /\ available_memory_blocks = <<>>
    /\ memory_block_count = 0
    /\ available_ids = <<>>
    /\ input_ids = [n \in plan.nodes |-> <<>>]
    /\ output_ids = [n \in plan.nodes |-> <<>>]
    /\ loaded_bitstream = <<>>
    /\ modules = <<>>
    /\ input_streams = {}
    /\ output_streams = {}
    /\ contents = [b \in Memory!Block |-> FPGA!NoData]
    /\ result_sizes = [id \in IDs!StreamID |-> NoRows]
    /\ current_state = "ScheduleState"
    /\ busy_flag = TRUE
    /\ is_graph_empty = (RootNodes(plan) = {})
    /\ next_run = 1
    /\ scheduled_node_names = <<>>
    /\ input_memory_blocks = [n \in plan.nodes |-> <<>>]
    /\ output_memory_blocks = [n \in plan.nodes |-> <<>>]
    /\ input_stream_sizes = [n \in plan.nodes |-> <<>>]
    /\ output_stream_sizes = [n \in plan.nodes |-> <<>>]
    /\ query_nodes = <<>>
    /\ step = "start"
    /\ setup_index = 1
    /\ error = "none"
    /\ results = {}

(***************************************************************************)
(* ScheduleState                                                           *)
(***************************************************************************)

(* Exactly one call of the scheduler; it throws when phase is "failed".    *)
ScheduleUnscheduledNodes ==
    /\ IsRunning
    /\ current_state = "ScheduleState"
    /\ ~is_graph_empty
    /\ Scheduler!Next
    /\ UNCHANGED <<memoryVars, idVars, boardVars, streamVars, controlVars,
                   query_nodes, results>>

(* Slip: ExportRootNodes copies the root nodes.                            *)
LeaveScheduleStateCopying ==
    /\ IsRunning
    /\ current_state = "ScheduleState"
    /\ ~is_graph_empty
    /\ phase = "scheduled"
    /\ current_state' = "SetupNodesState"
    /\ UNCHANGED <<schedulerVars, memoryVars, idVars, boardVars, streamVars,
                   is_graph_empty, busy_flag, next_run, scheduled_node_names,
                   step, setup_index, error, query_nodes, results>>

(* ExportRootNodes has left the graph empty.                               *)
LeaveScheduleState ==
    /\ IsRunning
    /\ current_state = "ScheduleState"
    /\ ~is_graph_empty
    /\ phase = "scheduled"
    /\ is_graph_empty' = TRUE
    /\ current_state' = "SetupNodesState"
    /\ UNCHANGED <<schedulerVars, memoryVars, idVars, boardVars, streamVars,
                   busy_flag, next_run, scheduled_node_names, step,
                   setup_index, error, query_nodes, results>>

SetFinishedFlag ==
    /\ IsRunning
    /\ current_state = "ScheduleState"
    /\ is_graph_empty
    /\ busy_flag' = FALSE
    /\ UNCHANGED <<schedulerVars, memoryVars, idVars, boardVars, streamVars,
                   current_state, is_graph_empty, next_run,
                   scheduled_node_names, step, setup_index, error,
                   query_nodes, results>>

(***************************************************************************)
(* SetupNodesState: SetupNextRunData                                       *)
(***************************************************************************)

(* Slip: the last run is forgotten.                                        *)
IsARunScheduledBeforeLast == next_run < Len(query_node_runs_queue)

IsARunScheduled == next_run <= Len(query_node_runs_queue)

LeaveSetupNodesState ==
    /\ IsRunning
    /\ current_state = "SetupNodesState"
    /\ step = "start"
    /\ ~IsARunScheduled
    /\ current_state' = "ScheduleState"
    /\ UNCHANGED <<schedulerVars, memoryVars, idVars, boardVars, streamVars,
                   busy_flag, is_graph_empty, next_run, scheduled_node_names,
                   step, setup_index, error, query_nodes, results>>

(* InitialiseVectorSizes: vectors for the streams of the run's nodes, and  *)
(* for the inputs of the nodes they feed.  An input that an earlier run    *)
(* feeds has its vector already.  Links out of the run are cut.            *)
GetsInputVector(n, run) ==
    /\ input_memory_blocks[n] = <<>>
    /\ n \in run \/ \E m \in run : n \in ToSet(next_nodes[m])

InitialiseVectorSizes(run) ==
    /\ input_memory_blocks' = [n \in plan.nodes |->
           IF GetsInputVector(n, run) THEN [j \in Inputs(plan, n) |-> NoBlock]
                                      ELSE input_memory_blocks[n]]
    /\ input_stream_sizes' = [n \in plan.nodes |->
           IF GetsInputVector(n, run) THEN [j \in Inputs(plan, n) |-> NoRows]
                                      ELSE input_stream_sizes[n]]
    /\ output_memory_blocks' = [n \in plan.nodes |->
           IF n \in run THEN [i \in Outputs(plan, n) |-> NoBlock]
                        ELSE output_memory_blocks[n]]
    (* The vector is as long as previous_nodes: an output beyond is written *)
    (* and read past its end.                                               *)
    /\ output_stream_sizes' = [n \in plan.nodes |->
           IF n \in run
           THEN [i \in Outputs(plan, n) |->
                    IF i \in Inputs(plan, n) THEN NoRows ELSE UnknownRows]
           ELSE output_stream_sizes[n]]
    /\ next_nodes' = [n \in plan.nodes |->
           IF n \in run
           THEN [i \in DOMAIN next_nodes[n] |->
                    IF next_nodes[n][i] \in run THEN next_nodes[n][i] ELSE Null]
           ELSE next_nodes[n]]

SetupNextRunData ==
    /\ IsRunning
    /\ current_state = "SetupNodesState"
    /\ step = "start"
    /\ IsARunScheduled
    /\ FPGA!LoadBitstreamIfNew(query_node_runs_queue[next_run].modules)
    /\ next_run' = next_run + 1
    /\ scheduled_node_names' = scheduled_node_names \o RunNodes(next_run)
    /\ InitialiseVectorSizes(ToSet(RunNodes(next_run)))
    /\ IDs!SetUpAvailableIDs
    /\ query_nodes' = <<>>
    /\ step' = "ids"
    /\ setup_index' = 1
    /\ UNCHANGED <<plan, previous_nodes, input_files, output_files,
                   module_location, starting_nodes, node_index,
                   next_node_index, current_set, current_query_nodes,
                   scheduled_queries, query_node_runs_queue, linked_nodes,
                   phase, memoryVars, input_streams, output_streams, contents,
                   result_sizes, current_state, busy_flag, is_graph_empty,
                   error, results>>

AllocateStreamIDs ==
    /\ IsRunning
    /\ step = "ids"
    /\ IF IDs!IsOutOfIDs(SetupNode)
       THEN error' = "Out of IDs!" /\ UNCHANGED <<idVars, step, setup_index>>
       ELSE /\ IDs!AllocateNodeIDs(SetupNode)
            /\ UNCHANGED error
            /\ IF setup_index < Len(CurrentRun)
               THEN setup_index' = setup_index + 1 /\ UNCHANGED step
               ELSE setup_index' = 1 /\ step' = "memory"
    /\ UNCHANGED <<schedulerVars, memoryVars, boardVars, streamVars,
                   current_state, busy_flag, is_graph_empty, next_run,
                   scheduled_node_names, query_nodes, results>>

(* The streams of the node that need a block: outputs that leave the run,  *)
(* then inputs that come from a file, each in the order of the streams.    *)
OutputsToMemory(n) == {i \in DOMAIN next_nodes[n] : ~IsNode(next_nodes[n][i])}
InputsFromFile(n) ==
    {j \in DOMAIN previous_nodes[n] :
        ~IsNode(previous_nodes[n][j]) /\ ~IsBlock(input_memory_blocks[n][j])}

OutputRequest(n, i) == Cardinality({k \in OutputsToMemory(n) : k <= i})
InputRequest(n, j) ==
    Cardinality(OutputsToMemory(n)) + Cardinality({k \in InputsFromFile(n) : k <= j})
RequestedBlocks(n) ==
    Cardinality(OutputsToMemory(n)) + Cardinality(InputsFromFile(n))

OutputBlocks(n) ==
    [i \in DOMAIN next_nodes[n] |->
        IF i \in OutputsToMemory(n) THEN Memory!NextBlock(OutputRequest(n, i))
                                    ELSE NoBlock]
InputBlocks(n) ==
    [j \in DOMAIN previous_nodes[n] |->
        IF j \in InputsFromFile(n) THEN Memory!NextBlock(InputRequest(n, j))
                                   ELSE input_memory_blocks[n][j]]

(* What reading a file gives: an expected result is the true one.          *)
DataInFile(file) ==
    CASE file = NoFile -> FPGA!Wrong
      [] file # NoFile /\ file[1] = "expected" -> FPGA!OutputData[file[2]][file[3]]
      [] OTHER -> file

(* The record counts of the inputs; a pipelined one copies what is known   *)
(* of the producer's output, which has not been computed yet.              *)
InputSizes(n) ==
    [j \in DOMAIN previous_nodes[n] |->
        LET m == previous_nodes[n][j]
        IN  IF j \in InputsFromFile(n) THEN DataInFile(input_files[n][j])
            ELSE IF IsNode(m) THEN output_stream_sizes[m][IDs!FindStreamIndex(m, n)]
            ELSE input_stream_sizes[n][j]]

CreateStreamParams(ids, sizes, blocks) ==
    [k \in DOMAIN ids |->
        [stream_id |-> ids[k], size |-> sizes[k], block |-> blocks[k]]]

AcceleratedQueryNode(n) ==
    [node |-> n,
     operation_module_location |-> module_location[n],
     inputs |-> CreateStreamParams(input_ids[n], InputSizes(n), InputBlocks(n)),
     outputs |-> CreateStreamParams(output_ids[n], output_stream_sizes[n],
                                    OutputBlocks(n))]

(* Looking for the consumer, the code dereferences the producer's links in *)
(* order: one cut before it is a null pointer.                             *)
DereferencesNull(n, j) ==
    LET m == previous_nodes[n][j]
    IN  /\ IsNode(m)
        /\ \E i \in 1..(IDs!FindStreamIndex(m, n) - 1) : ~IsNode(next_nodes[m][i])

Crashes(n) ==
    \E j \in DOMAIN previous_nodes[n] :
        /\ DereferencesNull(n, j)
        /\ Memory!CanAllocate(InputRequest(n, j))

(* SetupAccelerationNodesForExecution, for one node of the run.            *)
AllocateMemoryBlocks ==
    /\ IsRunning
    /\ step = "memory"
    /\ ~Crashes(SetupNode)
    /\ Memory!TakeBlocks(RequestedBlocks(SetupNode))
    /\ output_memory_blocks' =
           [output_memory_blocks EXCEPT ![SetupNode] = OutputBlocks(SetupNode)]
    /\ input_memory_blocks' =
           [input_memory_blocks EXCEPT ![SetupNode] = InputBlocks(SetupNode)]
    /\ input_stream_sizes' =
           [input_stream_sizes EXCEPT ![SetupNode] = InputSizes(SetupNode)]
    /\ contents' = [b \in DOMAIN contents |->
           LET filled == {j \in InputsFromFile(SetupNode) :
                             InputBlocks(SetupNode)[j] = b}
           IN  IF filled = {} THEN contents[b]
               ELSE DataInFile(input_files[SetupNode][CHOOSE j \in filled : TRUE])]
    /\ query_nodes' = Append(query_nodes, AcceleratedQueryNode(SetupNode))
    /\ IF ~Memory!CanAllocate(RequestedBlocks(SetupNode))
       THEN /\ error' = "Can't allocate any more memory!"
            /\ UNCHANGED <<current_state, step, setup_index>>
       ELSE /\ UNCHANGED error
            /\ IF setup_index < Len(CurrentRun)
               THEN setup_index' = setup_index + 1 /\ UNCHANGED <<current_state, step>>
               ELSE /\ current_state' = "ExecuteState"
                    /\ step' = "validate"
                    /\ UNCHANGED setup_index
    /\ UNCHANGED <<schedulerVars, idVars, loaded_bitstream, modules,
                   input_streams, output_streams, result_sizes,
                   output_stream_sizes, busy_flag, is_graph_empty, next_run,
                   scheduled_node_names, results>>

CrashOnNullLink ==
    /\ IsRunning
    /\ step = "memory"
    /\ Crashes(SetupNode)
    /\ error' = "null pointer"
    /\ UNCHANGED <<schedulerVars, memoryVars, idVars, boardVars, streamVars,
                   current_state, busy_flag, is_graph_empty, next_run,
                   scheduled_node_names, step, setup_index, query_nodes, results>>

(***************************************************************************)
(* ExecuteState                                                            *)
(***************************************************************************)

(* ElasticModuleChecker: a merge sorter needs channels enough for the      *)
(* records of its input.  Nothing is known of the size of a table, and a   *)
(* pipelined input has no records at this point.                           *)
MayBeTooBig(q) ==
    plan.operation_type[q.node] = "MergeSort" /\ q.inputs[1].size # NoRows

IsRunValid ==
    /\ IsRunning
    /\ step = "validate"
    /\ step' = "setup"
    /\ UNCHANGED <<schedulerVars, memoryVars, idVars, boardVars, streamVars,
                   current_state, busy_flag, is_graph_empty, next_run,
                   scheduled_node_names, setup_index, error, query_nodes, results>>

RunIsInvalid ==
    /\ IsRunning
    /\ step = "validate"
    /\ \E q \in ToSet(query_nodes) : MayBeTooBig(q)
    /\ error' = "Not implemented"
    /\ UNCHANGED <<schedulerVars, memoryVars, idVars, boardVars, streamVars,
                   current_state, busy_flag, is_graph_empty, next_run,
                   scheduled_node_names, step, setup_index, query_nodes, results>>

SetupQueryAcceleration ==
    /\ IsRunning
    /\ step = "setup"
    /\ IF FPGA!SetupError(query_nodes) # "none"
       THEN /\ error' = FPGA!SetupError(query_nodes)
            /\ UNCHANGED <<input_streams, output_streams, modules, step>>
       ELSE /\ FPGA!SetupQueryAcceleration(query_nodes)
            /\ step' = "run"
            /\ UNCHANGED error
    /\ UNCHANGED <<schedulerVars, memoryVars, idVars, loaded_bitstream,
                   contents, result_sizes, streamVars, current_state,
                   busy_flag, is_graph_empty, next_run, scheduled_node_names,
                   setup_index, query_nodes, results>>

RunQueryAcceleration ==
    /\ IsRunning
    /\ step = "run"
    /\ FPGA!RunQueryAcceleration(IDs!StreamID)
    /\ step' = "process"
    /\ UNCHANGED <<schedulerVars, memoryVars, idVars, streamVars, current_state,
                   busy_flag, is_graph_empty, next_run, scheduled_node_names,
                   setup_index, error, query_nodes, results>>

(* The record count of an output with a block is kept with it, and its     *)
(* data goes to its file, or is compared with it.                          *)
HasBlock(n, i) == IsBlock(output_memory_blocks[n][i])

RecordCount(n, i) == result_sizes[output_ids[n][i]]

ReadTableFromMemory(n, i) ==
    IF RecordCount(n, i) = contents[output_memory_blocks[n][i]]
    THEN contents[output_memory_blocks[n][i]]
    ELSE FPGA!Wrong

ProcessResults ==
    /\ IsRunning
    /\ step = "process"
    /\ output_stream_sizes' = [n \in plan.nodes |->
           [i \in DOMAIN output_stream_sizes[n] |->
               IF InRun(n) /\ HasBlock(n, i) /\ i \in Inputs(plan, n)
               THEN RecordCount(n, i)
               ELSE output_stream_sizes[n][i]]]
    /\ results' = results \cup
           UNION {{[file |-> output_files[n][i], data |-> ReadTableFromMemory(n, i)] :
                     i \in {i \in DOMAIN output_memory_blocks[n] :
                               HasBlock(n, i) /\ output_files[n][i] # NoFile}} :
                  n \in ToSet(CurrentRun)}
    /\ step' = "free"
    /\ UNCHANGED <<schedulerVars, memoryVars, idVars, boardVars,
                   input_memory_blocks, output_memory_blocks,
                   input_stream_sizes, current_state, busy_flag,
                   is_graph_empty, next_run, scheduled_node_names,
                   setup_index, error, query_nodes>>

(***************************************************************************)
(* FreeMemoryBlocks.  The inputs of all nodes set up so far are freed and  *)
(* leave the maps.  An output kept for a later run moves to the input it   *)
(* is kept for, whatever is there; the other outputs are freed.            *)
(***************************************************************************)
CurrentLinks == {e \in linked_nodes : InRun(e.from)}
LinksTo(m, j) == {e \in CurrentLinks : e.to = m /\ e.input = j}
LinkTo(m, j) == CHOOSE e \in LinksTo(m, j) :
                    \A other \in LinksTo(m, j) : other.output <= e.output

(* Slip: kept blocks are freed too.                                        *)
IsMovedNowhere(n, i) == FALSE

IsMoved(n, i) == \E e \in CurrentLinks : e.from = n /\ e.output = i

(* The blocks of a vector, without its empty places.                       *)
BlocksOf(blocks) ==
    FlattenSeq([k \in DOMAIN blocks |-> IF IsBlock(blocks[k]) THEN <<blocks[k]>> ELSE <<>>])

(* Slip: only the blocks of the node set up last go back to the stack.      *)
FreedInputsOfLast ==
    BlocksOf(input_memory_blocks[scheduled_node_names[Len(scheduled_node_names)]])

FreedInputs ==
    FlattenSeq([k \in DOMAIN scheduled_node_names |->
        BlocksOf(input_memory_blocks[scheduled_node_names[k]])])

NodesInOrder ==
    [k \in 1..Cardinality(plan.nodes) |->
        CHOOSE n \in plan.nodes : Cardinality({m \in plan.nodes : m <= n}) = k]
UnmovedBlocks(n) ==
    [i \in DOMAIN output_memory_blocks[n] |->
        IF IsMoved(n, i) THEN NoBlock ELSE output_memory_blocks[n][i]]
FreedOutputs ==
    FlattenSeq([k \in DOMAIN NodesInOrder |-> BlocksOf(UnmovedBlocks(NodesInOrder[k]))])

(* Slip: the block moves, the count of its records does not.               *)
MovedSizeForgotten(m, j) == input_stream_sizes[m][j]

MovedSize(m, j) ==
    LET e == LinkTo(m, j) IN output_stream_sizes[e.from][e.output]

(* Slip: the inputs kept for a node are never erased.                      *)
IsErasedUnlessKept(m) ==
    m \in ToSet(scheduled_node_names) /\ \A e \in linked_nodes : e.to # m

IsErased(m) == m \in ToSet(scheduled_node_names)

FreeMemoryBlocks ==
    /\ IsRunning
    /\ step = "free"
    /\ Memory!PushBlocks(FreedInputs \o FreedOutputs)
    /\ input_memory_blocks' = [m \in plan.nodes |->
           IF IsErased(m) THEN <<>>
           ELSE [j \in DOMAIN input_memory_blocks[m] |->
                    IF LinksTo(m, j) = {} THEN input_memory_blocks[m][j]
                    ELSE output_memory_blocks[LinkTo(m, j).from][LinkTo(m, j).output]]]
    /\ input_stream_sizes' = [m \in plan.nodes |->
           IF IsErased(m) THEN <<>>
           ELSE [j \in DOMAIN input_stream_sizes[m] |->
                    IF LinksTo(m, j) = {} THEN input_stream_sizes[m][j]
                                          ELSE MovedSize(m, j)]]
    /\ output_memory_blocks' = [n \in plan.nodes |-> <<>>]
    /\ output_stream_sizes' = [n \in plan.nodes |-> <<>>]
    /\ current_state' = "SetupNodesState"
    /\ step' = "start"
    /\ setup_index' = 1
    /\ UNCHANGED <<schedulerVars, idVars, boardVars, busy_flag, is_graph_empty,
                   next_run, scheduled_node_names, error, query_nodes, results>>

Next ==
    \/ ScheduleUnscheduledNodes
    \/ LeaveScheduleState
    \/ SetFinishedFlag
    \/ LeaveSetupNodesState
    \/ SetupNextRunData
    \/ AllocateStreamIDs
    \/ AllocateMemoryBlocks
    \/ CrashOnNullLink
    \/ IsRunValid
    \/ RunIsInvalid
    \/ SetupQueryAcceleration
    \/ RunQueryAcceleration
    \/ ProcessResults
    \/ FreeMemoryBlocks

(* The one thread never stops by itself, and the board finishes each run.  *)
Spec == Init /\ [][Next]_vars /\ WF_vars(Next)

-----------------------------------------------------------------------------
(***************************************************************************)
(* Correctness                                                             *)
(***************************************************************************)

StreamSizes(vectors) ==
    \A n \in plan.nodes : vectors[n] = <<>> \/ DOMAIN vectors[n] = Inputs(plan, n)

TypeOK ==
    /\ current_state \in {"ScheduleState", "SetupNodesState", "ExecuteState"}
    /\ step \in {"start", "ids", "memory", "validate", "setup", "run", "process", "free"}
    /\ busy_flag \in BOOLEAN
    /\ next_run \in 1..(Len(query_node_runs_queue) + 1)
    /\ available_ids \in Seq(IDs!StreamID)
    /\ HeldBlocks \subseteq Memory!Block
    /\ StreamSizes(input_memory_blocks)
    /\ StreamSizes(input_stream_sizes)
    /\ \A n \in plan.nodes :
          output_memory_blocks[n] = <<>>
          \/ DOMAIN output_memory_blocks[n] = Outputs(plan, n)

IsFinished == ~busy_flag

(* The plans on which the execution relies on the scheduler: each module   *)
(* is where the scheduler says, and an output to be compared with a file   *)
(* leaves its run.                                                         *)
ScheduleIsSound ==
    /\ phase = "scheduled"
    /\ Scheduler!ModuleLocationsHold
ChecksEndRuns ==
    \A e \in Edges(plan) :
        plan.is_checked[e.from][e.output] => ~Scheduler!InSameRun(e.from, e.to)

(* And on which it relies on the modules: each writes one stream, and no   *)
(* node has an output that the vectors of the record counts do not reach.  *)
HasSingleOutputs ==
    \A n \in plan.nodes :
        /\ Len(plan.next_nodes[n]) <= Len(plan.previous_nodes[n])
        /\ Scheduler!NeedsModule(n) => Len(plan.next_nodes[n]) <= 1

(* Whatever ProcessResults writes to a result file, or compares with an    *)
(* expected one, is what the plan says that stream is.                     *)
ResultsRight ==
    ScheduleIsSound /\ HasSingleOutputs =>
        \A result \in results :
            result.data = FPGA!OutputData[result.file[2]][result.file[3]]

(* When the execution manager is finished, every final output is in its    *)
(* file, and every output with an expected result has been compared.       *)
EveryResultDelivered ==
    IsFinished /\ ScheduleIsSound /\ ChecksEndRuns =>
        {result.file : result \in results} =
            UNION {{IF plan.is_checked[n][i] THEN ExpectedFile(n, i) ELSE ResultFile(n, i) :
                      i \in {i \in Outputs(plan, n) :
                                plan.is_checked[n][i] \/ ~IsNode(plan.next_nodes[n][i])}} :
                   n \in plan.nodes}

(* From the run that computes a kept output to the run that consumes it,   *)
(* its data and record count wait at the consumer's input.                 *)
HasRun(n) == \E r \in 1..(next_run - 1) : n \in ToSet(RunNodes(r))
IsBetweenRuns == step = "start" /\ phase = "scheduled"
CarriedDataKept ==
    IsBetweenRuns /\ ScheduleIsSound /\ HasSingleOutputs =>
        \A e \in linked_nodes :
            HasRun(e.from) /\ ~HasRun(e.to) =>
                LET block == input_memory_blocks[e.to][e.input]
                IN  /\ IsBlock(block)
                    /\ contents[block] = FPGA!OutputData[e.from][e.output]
                    /\ input_stream_sizes[e.to][e.input] = contents[block]

(* The board runs out of memory only when all its blocks are in use.       *)
FailsOnlyWhenFull ==
    error = "Can't allocate any more memory!" => HeldBlocks = Memory!Block

(* No two streams share a block, and none has one that waits on the stack. *)
BlockPorts(memory_blocks) ==
    UNION {{<<n, k>> : k \in {k \in DOMAIN memory_blocks[n] : IsBlock(memory_blocks[n][k])}} :
           n \in plan.nodes}
BlocksNotShared ==
    /\ Cardinality(HeldBlocks) = Cardinality(BlockPorts(input_memory_blocks))
                               + Cardinality(BlockPorts(output_memory_blocks))
    /\ Memory!BlocksOwnedOnce

(* Between runs only the streams of a later run hold blocks; at the end    *)
(* all are back.                                                           *)
BlocksReturned ==
    /\ IsBetweenRuns => \A n \in plan.nodes :
          /\ output_memory_blocks[n] = <<>>
          /\ HasRun(n) => input_memory_blocks[n] = <<>>
          /\ ~HasRun(n) => \A j \in DOMAIN input_memory_blocks[n] :
                IsBlock(input_memory_blocks[n][j]) =>
                    \E e \in linked_nodes : e.to = n /\ e.input = j /\ HasRun(e.from)
    /\ IsFinished => HeldBlocks = {}

(* While the board runs, no two streams that it reads have one number, nor *)
(* two that it writes, and a pipelined stream arrives under the number     *)
(* with which it left.                                                     *)
NumbersDistinct(streams) ==
    \A s, t \in streams : s.stream_id = t.stream_id => s = t
StreamsNumbered ==
    step = "run" =>
        /\ NumbersDistinct(input_streams)
        /\ NumbersDistinct(output_streams)
        /\ \A e \in Edges(plan) :
              InRun(e.from) /\ InRun(e.to) =>
                  input_ids[e.to][e.input] = output_ids[e.from][e.output]

(* The execution ends: with all results, or with an exception.             *)
Terminates == <>~IsRunning

(* Memory is used as MemoryManager allows.                                 *)
UsesMemoryManager == Memory!Spec
-----------------------------------------------------------------------------
(***************************************************************************)
(* What the documentation says and the code does not do.                   *)
(***************************************************************************)

(* docs/acceleration_modules.md:9: a filter may have two outputs, wherever *)
(* each of them goes.                                                      *)
TwoOutputsWork == error # "null pointer"
=============================================================================
