---------------------------- MODULE DMACrossbars ----------------------------
(***************************************************************************)
(* DMACrossbarSpecifier and DMACrossbarSetup: how the crossbars between    *)
(* the buffers of the DMA engine and the interface of the modules are      *)
(* configured for one burst of a stream.                                   *)
(*                                                                         *)
(* A location is a chunk and a position in it, chunk * width + position;   *)
(* the first integer of a chunk is at the last position.  A specification  *)
(* is the sequence of the record's columns that are wanted, NoColumn where *)
(* any data will do.                                                       *)
(***************************************************************************)
EXTENDS StreamParameters, Sequences

NoColumn == -1
PostRecordJunk == -2

Chunk == 0..(kDatapathLength - 1)
Position == 0..(kDatapathWidth - 1)
ChunkOf(location) == location \div kDatapathWidth
PositionOf(location) == location % kDatapathWidth

GetReverseIndex(index) ==
    ChunkOf(index) * kDatapathWidth + (kDatapathWidth - 1 - PositionOf(index))

-----------------------------------------------------------------------------
(***************************************************************************)
(* Clashes.  The input crossbar takes at each position one integer for a   *)
(* chunk of the interface; the output crossbar puts the integers of a      *)
(* chunk of the interface one at each position.                            *)
(***************************************************************************)
Columns(spec) == {k \in DOMAIN spec : spec[k] # NoColumn}

(* Slip: only neighbours are compared.                                     *)
IsInputClashingNearby(spec) ==
    \E k \in Columns(spec) :
        /\ k + 1 \in Columns(spec)
        /\ spec[k] # spec[k + 1]
        /\ PositionOf(spec[k]) = PositionOf(spec[k + 1])

IsInputClashing(spec) ==
    \E j, k \in Columns(spec) :
        /\ ChunkOf(j - 1) = ChunkOf(k - 1)
        /\ spec[j] # spec[k]
        /\ PositionOf(spec[j]) = PositionOf(spec[k])

IsOutputClashing(spec) ==
    \E j, k \in Columns(spec) :
        /\ j # k
        /\ PositionOf(j - 1) = PositionOf(k - 1)
        /\ ChunkOf(spec[j]) = ChunkOf(spec[k])

-----------------------------------------------------------------------------
(***************************************************************************)
(* ExtendSpecification: for each location of the interface, the location   *)
(* in the buffer (or for the output, the other way round), one record of   *)
(* the burst after the other, each followed by junk up to where the next   *)
(* is to start.  Chunks that are not full at the end are dropped.          *)
(***************************************************************************)
RecordSlot(spec, junk_data_end_point) == Max({Len(spec), junk_data_end_point})

ExtendSpecification(records, spec, record_size, junk_data, junk_data_end_point) ==
    LET slot == RecordSlot(spec, junk_data_end_point)
        Selection(i) ==
            LET column == i % slot
                start_point == record_size * (i \div slot)
            IN  IF column >= Len(spec) THEN junk_data
                ELSE IF spec[column + 1] = NoColumn THEN NoColumn
                ELSE GetReverseIndex(spec[column + 1] + start_point)
    IN  [location \in 0..(kDatapathWidth * ChunkOf(records * slot) - 1) |->
            Selection(GetReverseIndex(location))]

ExtendSpecificationSingleChannel(record_size, spec, records) ==
    ExtendSpecification(records, spec, record_size, NoColumn, kDdrBurstSize \div records)

ExtendSpecificationMultiChannel(record_size, spec, records, chunks_per_record) ==
    ExtendSpecification(records, spec, record_size, NoColumn,
                        FindNextPowerOfTwo(chunks_per_record) * kDatapathWidth)

ExtendOutputSpecification(spec, records, chunks_per_record) ==
    ExtendSpecification(records, spec, chunks_per_record * kDatapathWidth,
                        PostRecordJunk, kDdrBurstSize \div records)

IsSpecificationValid(extended) ==
    /\ Cardinality(DOMAIN extended) <= kDdrBurstSize
    /\ \A location \in DOMAIN extended : extended[location] < kDdrBurstSize

-----------------------------------------------------------------------------
(***************************************************************************)
(* DMACrossbarSetup.  A crossbar has for each chunk of the interface two   *)
(* selections; what is not set selects the last chunk and position 0.      *)
(***************************************************************************)
EmptyChunk == [chunk_selection |-> [p \in Position |-> kDatapathLength - 1],
               position_selection |-> [p \in Position |-> 0]]

LocationsIn(chunk) ==
    {chunk * kDatapathWidth + p : p \in Position}

(* The selected integer is pulled up or down at its own position, and then *)
(* to the position where it is wanted.                                     *)
ConfigureInputCrossbarSetupData(extended) ==
    [chunk \in 0..(ChunkOf(Cardinality(DOMAIN extended)) - 1) |->
        LET selected == {l \in LocationsIn(chunk) : extended[l] # NoColumn}
            PulledAt(p) == {l \in selected : PositionOf(extended[l]) = p}
        IN  [chunk_selection |-> [p \in Position |->
                IF PulledAt(p) = {} THEN EmptyChunk.chunk_selection[p]
                ELSE ChunkOf(extended[Max(PulledAt(p))])],
             position_selection |-> [p \in Position |->
                LET location == chunk * kDatapathWidth + p
                IN  IF location \in selected THEN PositionOf(extended[location])
                    ELSE EmptyChunk.position_selection[p]]]]

(* Where the output of a record goes: the junk after the records before it *)
(* is taken back.                                                          *)
PackedLocation(spec, slot, index) ==
    GetReverseIndex(index - (index \div slot) * (slot - Len(spec)))

(* The integer is pulled to the position where it is wanted, and pushed up *)
(* or down from there.                                                     *)
PlacedOutputs(spec, extended, slot, chunk_count) ==
    LET index(l) == GetReverseIndex(l)
        selected == {l \in DOMAIN extended : extended[l] >= 0}
        current == [l \in selected |-> PackedLocation(spec, slot, index(l))]
    IN  [chunk \in 0..(chunk_count - 1) |->
            LET InChunk == {l \in selected : ChunkOf(extended[l]) = chunk}
                PulledTo(p) == {l \in InChunk : PositionOf(current[l]) = p}
            IN  [is_set |-> [p \in Position |-> PulledTo(p) # {}],
                 chunk_selection |-> [p \in Position |->
                    IF PulledTo(p) = {} THEN EmptyChunk.chunk_selection[p]
                    ELSE ChunkOf(current[Max(PulledTo(p))])],
                 position_selection |-> [p \in Position |->
                    IF PulledTo(p) = {} THEN EmptyChunk.position_selection[p]
                    ELSE PositionOf(extended[Max(PulledTo(p))])]]]

(* Slip: the last chunk is taken for free.                                 *)
NeedsOverwriteCheckNever(extended) == FALSE

(* With no chunk of the buffer to spare for junk, what is not set selects  *)
(* a chunk that is not used at that position.                              *)
NeedsOverwriteCheck(extended) ==
    Cardinality({l \in DOMAIN extended : extended[l] # PostRecordJunk})
        > kDdrBurstSize - kDatapathWidth

FreeChunks(placed, p) ==
    Chunk \ {placed[chunk].chunk_selection[p] :
                chunk \in {chunk \in DOMAIN placed : placed[chunk].is_set[p]}}

IsOutOfChunks(placed) ==
    \E p \in Position :
        /\ FreeChunks(placed, p) = {}
        /\ \E chunk \in DOMAIN placed : ~placed[chunk].is_set[p]

AllocateAvailableChunks(placed) ==
    LET free == [p \in Position |-> Max(FreeChunks(placed, p) \cup {0})]
    IN  [chunk \in DOMAIN placed |->
            [chunk_selection |-> [p \in Position |->
                IF placed[chunk].is_set[p] THEN placed[chunk].chunk_selection[p]
                                           ELSE free[p]],
             position_selection |-> placed[chunk].position_selection]]

(* Records of three chunks, say, get the room of four.                     *)
InsertMissingEmptySetupChunks(placed, records, chunks_per_record) ==
    LET room == FindNextPowerOfTwo(chunks_per_record)
    IN  [chunk \in 0..(records * room - 1) |->
            IF chunk % room >= chunks_per_record THEN EmptyChunk
            ELSE LET old == placed[(chunk \div room) * chunks_per_record + (chunk % room)]
                 IN  [chunk_selection |-> old.chunk_selection,
                      position_selection |-> old.position_selection]]

ConfigureOutputCrossbarSetupData(spec, extended, records, chunks_per_record) ==
    LET slot == RecordSlot(spec, kDdrBurstSize \div records)
        placed == PlacedOutputs(spec, extended, slot, chunks_per_record * records)
    IN  IF NeedsOverwriteCheck(extended) THEN AllocateAvailableChunks(placed)
        ELSE InsertMissingEmptySetupChunks(placed, records, chunks_per_record)
=============================================================================
