---------------------------- MODULE MCDMASetup ----------------------------
EXTENDS DMARegisters

Stream(id, size, spec, chunks) ==
    [stream_id |-> id, stream_record_size |-> size, stream_record_count |-> 1000,
     physical_address |-> 0, stream_specification |-> spec,
     input_chunks_per_record |-> chunks,
     max_channel_count |-> NotGiven, records_per_channel |-> NotGiven]

Plain(id, size) == Stream(id, size, <<>>, CalculateChunksPerRecord(size))
PlainOutput == <<Plain(0, 1)>>

(***************************************************************************)
(* Specifications: every one of a few columns, and longer ones of all      *)
(* columns, rotated, with a hole, or with two columns exchanged.           *)
(***************************************************************************)
ShortSpecs(length, columns) == UNION {[1..n -> {NoColumn} \cup columns] : n \in 1..length}
LongSpecs(size, places) ==
    {[k \in 1..size |-> (k + shift) % size] : shift \in places}
    \cup {[k \in 1..size |-> IF k = hole THEN NoColumn ELSE k - 1] : hole \in places}
    \cup {[k \in 1..size |-> IF k = i THEN j - 1 ELSE IF k = j THEN i - 1 ELSE k - 1] :
             i, j \in places}

(* The first and the last position of the first three chunks.              *)
Edges(size) == {1, 2, 16, 17, 32, 33, size} \cap 1..size
LongSizes == {5, 16, 17, 20, 31, 33, 48, 50}

SelectedInputs ==
    {[input |-> <<Stream(0, size, spec, NotGiven)>>, output |-> PlainOutput] :
        <<size, spec>> \in {3} \X ShortSpecs(4, {0, 1, 2})
                      \cup {17} \X ShortSpecs(3, {0, 1, 16})
                      \cup {40} \X ShortSpecs(3, {7, 15, 16, 23, 39})
                      \cup UNION {{size} \X LongSpecs(size, Edges(size)) : size \in LongSizes}}
SelectedOutputs ==
    {[input |-> <<Plain(0, 1)>>, output |-> <<Stream(0, Len(spec), spec, chunks)>>] :
        <<chunks, spec>> \in {1} \X ShortSpecs(3, {0, 1, 15}) \cup {2} \X ShortSpecs(3, {0, 1, 16, 17})
                        \cup {4} \X ShortSpecs(3, {0, 16, 32, 63})
                        \cup UNION {{CalculateChunksPerRecord(size)} \X LongSpecs(size, Edges(size)) :
                                       size \in LongSizes}}

(***************************************************************************)
(* The sizes of records.                                                   *)
(***************************************************************************)
(* Every small record, and those that just fill their chunks or just not.  *)
Sizes == 1..80 \cup {16 * n + k : n \in 5..31, k \in -1..1} \cup {512}
WithHole(size, hole) == [k \in 1..size |-> IF k = hole THEN NoColumn ELSE k - 1]
PlainSets ==
    {[input |-> <<Plain(0, size)>>, output |-> <<Plain(0, size)>>] : size \in Sizes}
    \cup {[input |-> <<Plain(0, 1)>>,
            output |-> <<Stream(0, size, WithHole(size, hole), CalculateChunksPerRecord(size))>>] :
             size \in {31, 32, 48, 64, 512}, hole \in {1, 16, 17, 31}}
    \cup {[input |-> <<Plain(0, 1)>>, output |-> <<Stream(0, size, <<>>, chunks)>>] :
             size \in {1, 15, 16, 29}, chunks \in {NotGiven, 2, 3, 4, 31, 32}}
    \cup {[input |-> <<Plain(0, 1)>>, output |-> <<Stream(0, 16, <<0, 1>>, 1)>>]}
ManySets ==
    {[input |-> [k \in 1..n |-> Plain(k - 1, 4)],
      output |-> [k \in 1..(17 - n) |-> Plain(k - 1, 20)]] : n \in 1..16}

Sorted(id, size, count, channels, per_channel) ==
    [Plain(id, size) EXCEPT !.stream_record_count = count,
                            !.max_channel_count = channels,
                            !.records_per_channel = per_channel]
SortedSets ==
    {[input |-> <<Sorted(id, size, count, 64, 512)>>, output |-> PlainOutput] :
        id \in {0, 1}, size \in 1..66, count \in {0, 1, 512, 513, 32768, 32769}}
    \cup
    {[input |-> <<Sorted(0, size, count, 3, per_channel)>>, output |-> PlainOutput] :
        size \in {4, 5}, count \in 0..16, per_channel \in {4, 5}}
    \cup
    {[input |-> <<[Sorted(0, size, 1024, 64, 512) EXCEPT !.stream_specification =
                       [k \in 1..length |-> IF k <= size THEN k - 1 ELSE NoColumn]]>>,
      output |-> PlainOutput] : size \in {4, 30, 40, 42, 44}, length \in 15..49}
RealStreamSets == PlainSets \cup ManySets \cup SortedSets \cup SelectedInputs \cup SelectedOutputs

(* More columns than there is room for between two records.                *)
MisfitSets ==
    {[input |-> <<Stream(0, 64, [k \in 1..length |-> IF k <= 64 THEN k - 1 ELSE NoColumn],
                         NotGiven)>>,
      output |-> PlainOutput] : length \in 60..70}
=============================================================================
