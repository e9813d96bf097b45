------------------------------ MODULE DMASetup ------------------------------
(***************************************************************************)
(* The setup of the DMA engine for one run, as FPGAManager does it: first  *)
(* the input streams, then the output streams, then the merge sorters that *)
(* read a stream in many channels.  Before, ElasticModuleChecker has       *)
(* looked at the merge sorts.  An exception or a failed assertion ends the *)
(* program.                                                                *)
(***************************************************************************)
EXTENDS DMACrossbars, SequencesExt

CONSTANT StreamSets     \* the streams of the runs considered

NotGiven == -1          \* no chunk count, or a single channel
Buffers == 16           \* of the DMA engine in each direction
MaxStreams == 16        \* numbers there are for streams

VARIABLES
    streams,            \* streams.input and streams.output, StreamDataParameters
    direction,          \* "validate", "input", "output", "modules" or "done"
    current_stream_count,
    setup_data,         \* what has been written to the engine, stream by stream
    multichannel_streams,   \* SetNumberOfInputStreamsWithMultipleChannels
    merge_sorters,      \* the parameters of the merge sorters
    error

vars == <<streams, direction, current_stream_count, setup_data,
          multichannel_streams, merge_sorters, error>>

IsMultichannel(stream) == stream.max_channel_count # NotGiven
MultichannelInputs == {i \in DOMAIN streams.input : IsMultichannel(streams.input[i])}
IsRunning == error = "none" /\ direction # "done"

(* The streams that FPGAManager finds: each run has both kinds.            *)
IsStreamSet(set) ==
    /\ Len(set.input) \in 1..MaxStreams
    /\ Len(set.output) \in 1..MaxStreams
    /\ \A stream \in ToSet(set.output) : ~IsMultichannel(stream)
    /\ \A stream \in ToSet(set.input) \cup ToSet(set.output) :
          stream.stream_record_size \in 1..kDdrBurstSize

Init ==
    /\ streams \in {set \in StreamSets : IsStreamSet(set)}
    /\ direction = "validate"
    /\ current_stream_count = 0
    /\ setup_data = [input |-> <<>>, output |-> <<>>]
    /\ multichannel_streams = 0
    /\ merge_sorters = <<>>
    /\ error = "none"

-----------------------------------------------------------------------------
(* ElasticModuleChecker: the merge sorter has a channel for each sorted    *)
(* sequence of its stream.                                                 *)
(* Slip: one sequence too many is let through.                             *)
IsMergeSortBigEnoughPlusOne(stream) ==
    stream.stream_record_count <=
        (stream.max_channel_count + 1) * stream.records_per_channel

IsMergeSortBigEnough(stream) ==
    stream.stream_record_count <= stream.max_channel_count * stream.records_per_channel

IsRunValid ==
    /\ IsRunning
    /\ direction = "validate"
    /\ \A i \in MultichannelInputs : IsMergeSortBigEnough(streams.input[i])
    /\ direction' = "input"
    /\ UNCHANGED <<streams, current_stream_count, setup_data,
                   multichannel_streams, merge_sorters, error>>

RunIsInvalid ==
    /\ IsRunning
    /\ direction = "validate"
    /\ \E i \in MultichannelInputs : ~IsMergeSortBigEnough(streams.input[i])
    /\ error' = "Not implemented"
    /\ UNCHANGED <<streams, direction, current_stream_count, setup_data,
                   multichannel_streams, merge_sorters>>

-----------------------------------------------------------------------------
(***************************************************************************)
(* The parameters of one stream                                            *)
(***************************************************************************)

(* Slip: the end of a buffer is the start of the next.                     *)
AllocateStreamBuffersOverlapping(stream_count, k) ==
    LET buffer_size == Buffers \div stream_count
    IN  [buffer_start |-> buffer_size * k, buffer_end |-> buffer_size * k + buffer_size]

AllocateStreamBuffers(stream_count, k) ==
    LET buffer_size == Buffers \div stream_count
    IN  [buffer_start |-> buffer_size * k, buffer_end |-> buffer_size * k + buffer_size - 1]

(* A stream in many channels has as many records in each as are sorted     *)
(* already, less in the last; the channels left over are empty.  The       *)
(* engine gets an address in units of 16 bytes.                            *)
SetMultiChannelSetupData(stream) ==
    LET per_channel == stream.records_per_channel
        active == (stream.stream_record_count + per_channel - 1) \div per_channel
        left == stream.stream_record_count % per_channel
    IN  [j \in 0..(Max({active, stream.max_channel_count}) - 1) |->
            [record_count |-> IF j >= active THEN 0
                              ELSE IF j = active - 1 /\ left # 0 THEN left
                              ELSE per_channel,
             stream_address |->
                 (IF j >= active THEN stream.physical_address
                  ELSE stream.physical_address
                       + stream.stream_record_size * per_channel * j) \div 4]]

SetSingleChannelSetupData(stream, is_input_stream) ==
    [j \in {0} |-> [record_count |-> IF is_input_stream THEN stream.stream_record_count ELSE 0,
                    stream_address |-> stream.physical_address \div 4]]

Specification(stream) ==
    IF stream.stream_specification = <<>>
    THEN [k \in 1..stream.stream_record_size |-> k - 1]
    ELSE stream.stream_specification

ChunksPerRecord(stream, is_input_stream) ==
    LET chunks == CalculateChunksPerRecord(Len(Specification(stream)))
    IN  IF is_input_stream THEN chunks ELSE Max({stream.input_chunks_per_record, chunks})

(* What comes in has at most as many chunks as there are; the memory of a  *)
(* sorted stream starts at a whole address, as every block does; an output *)
(* is of columns in the chunks it is given.                                *)
IsStream(stream) ==
    /\ stream.stream_specification \in Seq(Nat \cup {NoColumn})
    /\ stream.input_chunks_per_record \in (0..kDatapathLength) \cup {NotGiven}
    /\ IsMultichannel(stream) =>
          /\ stream.stream_record_count \in Nat
          /\ stream.max_channel_count \in Nat
          /\ stream.records_per_channel \in Nat \ {0}
          /\ stream.physical_address \in Nat /\ stream.physical_address % 4 = 0
SelectsFromChunks(stream) ==
    \A k \in Columns(stream.stream_specification) :
        ChunkOf(stream.stream_specification[k]) < ChunksPerRecord(stream, FALSE)

ASSUME StreamsAssumption ==
    \A set \in StreamSets :
        /\ set.input \in Seq(ToSet(set.input)) /\ set.output \in Seq(ToSet(set.output))
        /\ \A stream \in ToSet(set.input) \cup ToSet(set.output) : IsStream(stream)
        /\ \A stream \in ToSet(set.output) : SelectsFromChunks(stream)

(* CalculateDMAStreamSetupData                                             *)
RecordsPerDDRBurst(stream, is_input_stream) ==
    LET chunks == ChunksPerRecord(stream, is_input_stream)
    IN  IF IsMultichannel(stream)
        THEN CalculateRecordCountPerFetch(CalculateSortBufferSize(chunks),
                                          stream.stream_record_size)
        ELSE IF is_input_stream
        THEN FindMinViableRecordsPerDDRBurst(stream.stream_record_size)
        ELSE kMaxRecordsPerDDRBurst \div FindNextPowerOfTwo(chunks)

ExtendedSpecification(stream, is_input_stream) ==
    LET spec == Specification(stream)
        records == RecordsPerDDRBurst(stream, is_input_stream)
        chunks == ChunksPerRecord(stream, is_input_stream)
    IN  IF ~is_input_stream
        THEN ExtendOutputSpecification(spec, records, chunks)
        ELSE IF IsMultichannel(stream)
        THEN ExtendSpecificationMultiChannel(stream.stream_record_size, spec, records, chunks)
        ELSE ExtendSpecificationSingleChannel(stream.stream_record_size, spec, records)

(* What stops the setup of a stream, the first of these in their order.    *)
SetupError(stream, is_input_stream) ==
    LET spec == Specification(stream)
        records == RecordsPerDDRBurst(stream, is_input_stream)
        chunks == ChunksPerRecord(stream, is_input_stream)
        extended == ExtendedSpecification(stream, is_input_stream)
        placed == PlacedOutputs(spec, extended, RecordSlot(spec, kDdrBurstSize \div records),
                                chunks * records)
    IN  IF ~is_input_stream /\ Len(spec) # stream.stream_record_size
        THEN "Expected data and projection don't match!"
        ELSE IF ~is_input_stream /\ stream.input_chunks_per_record = NotGiven
        THEN "Chunk size at the end of the acceleration isn't specified!"
        ELSE IF records = 0
        THEN "Records are too big for sorting!"
        ELSE IF \/ is_input_stream /\ IsInputClashing(spec)
                \/ ~is_input_stream /\ IsOutputClashing(spec)
        THEN "assertion"
        ELSE IF ~IsSpecificationValid(extended)
        THEN "Incorrect parameters created a specification which doesn't fit!"
        ELSE IF ~is_input_stream /\ NeedsOverwriteCheck(extended) /\ IsOutOfChunks(placed)
        THEN "out of range"
        ELSE "none"

SetupData(stream, is_input_stream, stream_count, k) ==
    LET spec == Specification(stream)
        records == RecordsPerDDRBurst(stream, is_input_stream)
        chunks == ChunksPerRecord(stream, is_input_stream)
        extended == ExtendedSpecification(stream, is_input_stream)
    IN  [stream |-> stream,
         chunks_per_record |-> chunks,
         records_per_ddr_burst |-> records,
         ddr_burst_length |-> CalculateDDRBurstLength(stream.stream_record_size, records),
         record_chunk_ids |-> [i \in Chunk |-> i % FindNextPowerOfTwo(chunks)],
         buffer |-> AllocateStreamBuffers(stream_count, k),
         active_channel_count |-> stream.max_channel_count,
         channels |-> IF IsMultichannel(stream) THEN SetMultiChannelSetupData(stream)
                      ELSE SetSingleChannelSetupData(stream, is_input_stream),
         crossbar |-> IF is_input_stream THEN ConfigureInputCrossbarSetupData(extended)
                      ELSE ConfigureOutputCrossbarSetupData(spec, extended, records, chunks)]

-----------------------------------------------------------------------------
(* SetupDMAModule, for one stream.                                         *)
SetupStream ==
    /\ IsRunning
    /\ direction \in {"input", "output"}
    /\ current_stream_count < Len(streams[direction])
    /\ LET stream == streams[direction][current_stream_count + 1]
           is_input_stream == direction = "input"
       IN  IF SetupError(stream, is_input_stream) # "none"
           THEN /\ error' = SetupError(stream, is_input_stream)
                /\ UNCHANGED <<setup_data, current_stream_count>>
           ELSE /\ setup_data' = [setup_data EXCEPT ![direction] =
                       Append(@, SetupData(stream, is_input_stream,
                                           Len(streams[direction]),
                                           current_stream_count))]
                /\ current_stream_count' = current_stream_count + 1
                /\ UNCHANGED error
    /\ UNCHANGED <<streams, direction, multichannel_streams, merge_sorters>>

FinishStreams ==
    /\ IsRunning
    /\ direction \in {"input", "output"}
    /\ current_stream_count = Len(streams[direction])
    /\ direction' = IF direction = "input" THEN "output" ELSE "modules"
    /\ current_stream_count' = 0
    /\ multichannel_streams' =
           IF direction = "input" /\ MultichannelInputs # {} THEN Cardinality(MultichannelInputs)
                                                             ELSE multichannel_streams
    /\ UNCHANGED <<streams, setup_data, merge_sorters, error>>

(* SetupMergeSortModule; the record size is that on the interface.         *)
GetStreamRecordSize(stream) == Len(Specification(stream))

SortBufferSize(stream) ==
    CalculateSortBufferSize(CalculateChunksPerRecord(GetStreamRecordSize(stream)))
RecordCountPerFetch(stream) ==
    CalculateRecordCountPerFetch(SortBufferSize(stream), GetStreamRecordSize(stream))

MergeSorter(stream) ==
    [stream_id |-> stream.stream_id,
     chunks_per_record |-> CalculateChunksPerRecord(GetStreamRecordSize(stream)),
     buffer_size |-> SortBufferSize(stream),
     record_count_per_fetch |-> RecordCountPerFetch(stream),
     fetch_count |-> SortBufferSize(stream) \div RecordCountPerFetch(stream),
     fetch_offset |-> SortBufferSize(stream) % RecordCountPerFetch(stream)]

(* The sorters are set up in the order of their streams.                   *)
SortersBefore(i) == Cardinality({j \in MultichannelInputs : j < i})

SetupMergeSortModule ==
    /\ IsRunning
    /\ direction = "modules"
    /\ \E i \in MultichannelInputs :
          LET stream == streams.input[i] IN
          /\ SortersBefore(i) = Len(merge_sorters)
          /\ IF stream.stream_id # 0
             THEN /\ error' = "The module doesn't support running other streams!"
                  /\ UNCHANGED merge_sorters
             ELSE IF RecordCountPerFetch(stream) = 0
             THEN error' = "Records are too big for sorting!" /\ UNCHANGED merge_sorters
             ELSE merge_sorters' = Append(merge_sorters, MergeSorter(stream)) /\ UNCHANGED error
    /\ UNCHANGED <<streams, direction, current_stream_count, setup_data,
                   multichannel_streams>>

FinishModules ==
    /\ IsRunning
    /\ direction = "modules"
    /\ Len(merge_sorters) = Cardinality(MultichannelInputs)
    /\ direction' = "done"
    /\ UNCHANGED <<streams, current_stream_count, setup_data,
                   multichannel_streams, merge_sorters, error>>

Next ==
    \/ IsRunValid
    \/ RunIsInvalid
    \/ SetupStream
    \/ FinishStreams
    \/ SetupMergeSortModule
    \/ FinishModules

Spec == Init /\ [][Next]_vars /\ WF_vars(Next)

-----------------------------------------------------------------------------
(***************************************************************************)
(* Correctness                                                             *)
(***************************************************************************)

(* The integer at an address of the data in a buffer, and the integer k of *)
(* the record r on the interface, where each record has a slot of chunks   *)
(* (docs/crossbar_configuration.md).                                       *)
InBuffer(address) == <<ChunkOf(address), kDatapathWidth - 1 - PositionOf(address)>>
SlotChunks(data) ==
    IF IsMultichannel(data.stream) THEN FindNextPowerOfTwo(data.chunks_per_record)
    ELSE kDatapathLength \div data.records_per_ddr_burst
OnInterface(data, r, k) == InBuffer(r * SlotChunks(data) * kDatapathWidth + k)

(* What the input crossbar pulls to a place of the interface.              *)
PulledFrom(crossbar, place) ==
    LET position == crossbar[place[1]].position_selection[place[2]]
    IN  <<crossbar[place[1]].chunk_selection[position], position>>

(* The places of the interface from which the output crossbar pushes an    *)
(* integer to a place of the buffer.                                       *)
PushedTo(crossbar, place) ==
    {<<chunk, crossbar[chunk].position_selection[place[2]]>> :
        chunk \in {chunk \in DOMAIN crossbar :
                      crossbar[chunk].chunk_selection[place[2]] = place[1]}}

FitsSlot(data) == Len(Specification(data.stream)) <= SlotChunks(data) * kDatapathWidth

(* Each column that an input stream selects arrives on the interface at    *)
(* its place in the record, from its place in the packed records of the    *)
(* burst, in a chunk that carries the right number.                        *)
ColumnsDelivered(data) ==
    LET spec == Specification(data.stream)
    IN  \A r \in 0..(data.records_per_ddr_burst - 1), k \in Columns(spec) :
           LET place == OnInterface(data, r, k - 1)
           IN  /\ PulledFrom(data.crossbar, place)
                      = InBuffer(r * data.stream.stream_record_size + spec[k])
               /\ data.record_chunk_ids[place[1]] = ChunkOf(k - 1)
InputsDelivered ==
    \A data \in ToSet(setup_data.input) : FitsSlot(data) => ColumnsDelivered(data)

(* The records of an output stream are packed without gaps, and nothing    *)
(* else is ever pushed to the place of a column.                           *)
OutputsPacked ==
    \A data \in ToSet(setup_data.output) :
        LET spec == Specification(data.stream)
        IN  \A r \in 0..(data.records_per_ddr_burst - 1), k \in Columns(spec) :
               PushedTo(data.crossbar, InBuffer(r * Len(spec) + k - 1))
                   = {OnInterface(data, r, spec[k])}

(* Both crossbars of dma_crossbar_setup.cpp put every column where the     *)
(* specification says, and nothing else there.                             *)
ColumnsInPlace == InputsDelivered /\ OutputsPacked

(* Every stream has a part of the buffers, and no other stream has it.     *)
BufferOf(data) == data.buffer.buffer_start..data.buffer.buffer_end
BuffersDisjoint ==
    \A d \in {"input", "output"} : \A j \in DOMAIN setup_data[d] :
        /\ BufferOf(setup_data[d][j]) # {}
        /\ BufferOf(setup_data[d][j]) \subseteq 0..(Buffers - 1)
        /\ \A k \in DOMAIN setup_data[d] :
              j # k => BufferOf(setup_data[d][j]) \cap BufferOf(setup_data[d][k]) = {}

(* A burst carries whole records and takes the cycles it needs and no      *)
(* more; a single channel's number of records is a power of two, as        *)
(* DMA::SetControllerParams hands it over as a logarithm; and the burst    *)
(* fits the buffer, if no columns are dropped on the way to a merge sorter.*)
BurstSize(data) == data.records_per_ddr_burst * data.stream.stream_record_size
DropsColumns(stream) == Len(Specification(stream)) < stream.stream_record_size
BurstsFit ==
    \A d \in {"input", "output"} : \A data \in ToSet(setup_data[d]) :
        /\ BurstSize(data) > 0
        /\ data.ddr_burst_length * kDdrSizePerCycle
               \in BurstSize(data)..(BurstSize(data) + kDdrSizePerCycle - 1)
        /\ IsMultichannel(data.stream) \/ data.records_per_ddr_burst \in PowersOfTwo
        /\ ~(IsMultichannel(data.stream) /\ DropsColumns(data.stream)) =>
               BurstSize(data) <= kDdrBurstSize

(* The active channels of a merge sort have all records of the stream, one *)
(* channel after the other, if the channels start at whole addresses.      *)
RecordsBefore(data, j) ==
    LET before[i \in 0..j] ==
            IF i = 0 THEN 0 ELSE before[i - 1] + data.channels[i - 1].record_count
    IN  before[j]
StartsAligned(stream) == (stream.stream_record_size * stream.records_per_channel) % 4 = 0
ChannelsCoverStream ==
    \A data \in ToSet(setup_data.input) :
        IsMultichannel(data.stream) =>
            /\ RecordsBefore(data, data.active_channel_count) = data.stream.stream_record_count
            /\ StartsAligned(data.stream) =>
                  \A j \in 0..(data.active_channel_count - 1) :
                      data.channels[j].record_count > 0 =>
                          4 * data.channels[j].stream_address
                              = data.stream.physical_address
                                + data.stream.stream_record_size * RecordsBefore(data, j)

(* A merge sorter and the engine agree on how much is fetched at a time,   *)
(* the buffer of a channel has room for two fetches, and a fetch is a      *)
(* whole number of cycles.                                                 *)
SortersFetchBursts ==
    \A k \in DOMAIN merge_sorters, i \in MultichannelInputs :
        SortersBefore(i) = k - 1 =>
            LET sorter == merge_sorters[k]
                data == setup_data.input[i]
            IN
            /\ sorter.record_count_per_fetch = data.records_per_ddr_burst
            /\ sorter.chunks_per_record = data.chunks_per_record
            /\ 2 * sorter.record_count_per_fetch <= sorter.buffer_size
            /\ (data.stream.stream_record_size * sorter.record_count_per_fetch) % 4 = 0
            /\ SortChannelCount * sorter.buffer_size * sorter.chunks_per_record
                   <= SortBufferSpace

(* Streams without a projection, whatever the size of their records, are   *)
(* set up without an exception, unless they are to be merged; and a free   *)
(* chunk is found whenever one is looked for.                              *)
IsPlain(stream) == stream.stream_specification = <<>> /\ ~IsMultichannel(stream)
FailsWithReason ==
    /\ error # "out of range"
    /\ error # "none" =>
          \/ \E stream \in ToSet(streams.input) \cup ToSet(streams.output) : ~IsPlain(stream)
          \/ \E stream \in ToSet(streams.output) : stream.input_chunks_per_record = NotGiven

-----------------------------------------------------------------------------
(* dma_crossbar_specifier.cpp:195: a specification that does not fit is an *)
(* exception.                                                              *)
MisfitsRejected == \A data \in ToSet(setup_data.input) : FitsSlot(data)
=============================================================================
