---------------------------- MODULE FPGAManager ----------------------------
(***************************************************************************)
(* FPGAManager and the board behind it, as far as one run depends on them. *)
(* The DMA engine reads each input stream from a memory block; the streams *)
(* flow through the modules of the loaded bitstream in their order; the    *)
(* DMA engine writes each output stream to a memory block and counts its   *)
(* records.  A stream is known by its number all the way.                  *)
(*                                                                         *)
(* Data is named by the file that would hold it, and a record count by the *)
(* data that has so many records.                                          *)
(***************************************************************************)
EXTENDS QueryPlan

VARIABLES
    plan,
    loaded_bitstream,   \* the modules of the bitstream on the board
    modules,            \* modules[k]: how the module at location k is configured
    input_streams,      \* the streams the input controller reads
    output_streams,     \* the streams the output controller writes
    contents,           \* what is in each memory block
    result_sizes        \* the record count of each output stream

fpgaVars == <<loaded_bitstream, modules, input_streams, output_streams,
              contents, result_sizes>>

NoData == NoFile                \* nothing, and no records
Wrong == <<"wrong", 0, 0>>      \* anything else than what should be there

(***************************************************************************)
(* The data of the plan's streams: what each node makes of its inputs.  A  *)
(* pass-through node hands them on.                                        *)
(***************************************************************************)
OutputData ==
    LET FeedingOutput(n, j) ==
            CHOOSE i \in Outputs(plan, plan.previous_nodes[n][j]) :
                plan.next_nodes[plan.previous_nodes[n][j]][i] = n
        data[n \in plan.nodes] ==
            [i \in Outputs(plan, n) |->
                IF plan.operation_type[n] # PassThrough THEN ResultFile(n, i)
                ELSE IF ~IsNode(plan.previous_nodes[n][i]) THEN TableFile(n, i)
                ELSE data[plan.previous_nodes[n][i]][FeedingOutput(n, i)]]
    IN  data

InputData(n, j) ==
    LET m == plan.previous_nodes[n][j]
    IN  IF ~IsNode(m) THEN TableFile(n, j)
        ELSE OutputData[m][CHOOSE i \in Outputs(plan, m) : plan.next_nodes[m][i] = n]

-----------------------------------------------------------------------------
(***************************************************************************)
(* MemoryManager::LoadBitstreamIfNew: a new bitstream comes with modules   *)
(* that are not configured.                                                *)
(***************************************************************************)
Unconfigured == [node |-> Null, inputs |-> <<>>, outputs |-> <<>>]

LoadBitstreamIfNew(bitstream) ==
    /\ loaded_bitstream' = bitstream
    /\ modules' = IF bitstream = loaded_bitstream THEN modules
                  ELSE [k \in DOMAIN bitstream |-> Unconfigured]

(***************************************************************************)
(* SetupQueryAcceleration: the streams with a memory block are those of    *)
(* the DMA engine, and each node configures the module at its location     *)
(* with the numbers of its streams.  The other modules stay as they are.   *)
(***************************************************************************)
WithBlock(streams) == {stream \in ToSet(streams) : stream.block # 0}

FindIOStreams(query_nodes) ==
    /\ input_streams' = UNION {WithBlock(q.inputs) : q \in ToSet(query_nodes)}
    /\ output_streams' = UNION {WithBlock(q.outputs) : q \in ToSet(query_nodes)}

IDsOf(streams) == [k \in DOMAIN streams |-> streams[k].stream_id]

ConfiguredBy(query_nodes, k) ==
    {i \in DOMAIN query_nodes :
        /\ query_nodes[i].operation_module_location = k
        /\ plan.operation_type[query_nodes[i].node] # PassThrough}

ConfigureModules(query_nodes) ==
    modules' = [k \in DOMAIN modules |->
        IF ConfiguredBy(query_nodes, k) = {} THEN modules[k]
        ELSE LET q == query_nodes[Max(ConfiguredBy(query_nodes, k))]
             IN  [node |-> q.node, inputs |-> IDsOf(q.inputs),
                  outputs |-> IDsOf(q.outputs)]]

(* The engine has nothing to read or nothing to write: every stream comes  *)
(* from, or goes to, another node of the run, or there is none.            *)
AreStreamsMissing(query_nodes) ==
    \/ \A q \in ToSet(query_nodes) : WithBlock(q.inputs) = {}
    \/ \A q \in ToSet(query_nodes) : WithBlock(q.outputs) = {}

(* MergeSortSetup throws: the merge sorter sorts stream 0 only.             *)
IsStreamUnsupported(query_nodes) ==
    \E q \in ToSet(query_nodes) :
        /\ plan.operation_type[q.node] = "MergeSort"
        /\ q.inputs[1].stream_id # 0

(* The exception of SetupQueryAcceleration.                                *)
SetupError(query_nodes) ==
    IF AreStreamsMissing(query_nodes) THEN "Input or output streams missing!"
    ELSE IF IsStreamUnsupported(query_nodes)
    THEN "The module doesn't support running other streams!"
    ELSE "none"

(* Slip: modules that are configured already are left alone.               *)
SetupQueryAccelerationOnce(query_nodes) ==
    /\ FindIOStreams(query_nodes)
    /\ IF \A k \in DOMAIN modules : modules[k] = Unconfigured
       THEN ConfigureModules(query_nodes)
       ELSE UNCHANGED modules

SetupQueryAcceleration(query_nodes) ==
    /\ FindIOStreams(query_nodes)
    /\ ConfigureModules(query_nodes)

-----------------------------------------------------------------------------
(***************************************************************************)
(* The run: streams is the data under each number at one point of the      *)
(* pipeline.                                                               *)
(***************************************************************************)

(* The input controller reads as many records as it was told to.           *)
ReadByDMA(stream) ==
    IF stream.size = contents[stream.block] THEN stream.size ELSE Wrong

EnteringStreams(ids) ==
    [id \in ids |->
        LET read == {stream \in input_streams : stream.stream_id = id}
        IN  CASE read = {} -> NoData
              [] Cardinality(read) = 1 -> ReadByDMA(CHOOSE s \in read : TRUE)
              [] OTHER -> Wrong]

(* A module takes its input streams and produces the first output stream,  *)
(* the right one if it is a module for the node's operation and gets the   *)
(* node's data.  It lets the other streams pass.                           *)
IsRightModule(k) ==
    loaded_bitstream[k].operation_type = plan.operation_type[modules[k].node]

ThroughModule(k, streams) ==
    LET c == modules[k]
        Computed ==
            IF /\ IsRightModule(k)
               /\ \A j \in DOMAIN c.inputs : streams[c.inputs[j]] = InputData(c.node, j)
            THEN ResultFile(c.node, 1)
            ELSE Wrong
    IN  IF \A j \in DOMAIN c.inputs : streams[c.inputs[j]] = NoData THEN streams
        ELSE [id \in DOMAIN streams |->
                 IF c.outputs # <<>> /\ id = c.outputs[1] THEN Computed
                 ELSE IF id \in ToSet(c.inputs) THEN NoData
                 ELSE streams[id]]

LeavingStreams(ids) ==
    LET after[k \in 0..Len(modules)] ==
            IF k = 0 THEN EnteringStreams(ids) ELSE ThroughModule(k, after[k - 1])
    IN  after[Len(modules)]

(* RunQueryAcceleration: both controllers have finished.  There is always  *)
(* a stream to read and one to write, as the setup has found them, so that *)
(* its own exception for missing streams is never thrown.                  *)
RunQueryAcceleration(ids) ==
    LET leaving == LeavingStreams(ids)
        WrittenTo(b) == {stream \in output_streams : stream.block = b}
        active == {stream.stream_id : stream \in output_streams}
    IN  /\ contents' = [b \in DOMAIN contents |->
               IF WrittenTo(b) = {} THEN contents[b]
               ELSE leaving[(CHOOSE s \in WrittenTo(b) : TRUE).stream_id]]
        /\ result_sizes' =
               [id \in ids |-> IF id \in active THEN leaving[id] ELSE NoData]
        /\ input_streams' = {}
        /\ output_streams' = {}
        /\ UNCHANGED <<loaded_bitstream, modules>>
=============================================================================
