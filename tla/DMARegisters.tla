---------------------------- MODULE DMARegisters ----------------------------
(***************************************************************************)
(* The registers of the DMA engine: what SetUpDMAIOStream and              *)
(* SetUpDMACrossbarsForStream write for the streams that DMASetup sets up, *)
(* through the functions of the class DMA.  A write is a pair of an        *)
(* address and a word.                                                     *)
(***************************************************************************)
EXTENDS DMASetup

Byte == 0..255
RegisterSpace == 2^20       \* of a module, in AccelerationModule
kResetDuration == 8

(* A word is two halves of 16 bits; it may carry four fields of a byte.    *)
Whole(n) == <<n \div 2^16, n % 2^16>>
Word(fields) ==
    LET low == fields[3] * 2^8 + fields[4]
    IN  <<(fields[1] * 2^8 + fields[2] + low \div 2^16) % 2^16, low % 2^16>>
Fields(word) == <<word[1] \div 2^8, word[1] % 2^8, word[2] \div 2^8, word[2] % 2^8>>

(* A table of registers with one for each stream.                          *)
OfStream(base, stream_id, word) == <<base + 4 * stream_id, word>>

-----------------------------------------------------------------------------
(***************************************************************************)
(* The controllers                                                         *)
(***************************************************************************)
FloorLog2(n) == Max({i \in 0..12 : 2^i <= n})

ControllerParams(data) ==
    <<data.ddr_burst_length - 1, FloorLog2(data.records_per_ddr_burst),
      data.buffer.buffer_start, data.buffer.buffer_end>>
SetControllerParams(data, is_input) ==
    {OfStream(IF is_input THEN 2^6 ELSE 2^16, data.stream.stream_id,
              Word(ControllerParams(data)))}

SetControllerStreamAddress(data, is_input) ==
    {OfStream(IF is_input THEN 2 * 2^6 ELSE 2^16 + 2^6, data.stream.stream_id,
              Whole(data.channels[0].stream_address))}

SetControllerStreamSize(data, is_input) ==
    {OfStream(IF is_input THEN 3 * 2^6 ELSE 2^16 + 2 * 2^6, data.stream.stream_id,
              Whole(data.channels[0].record_count))}

(* The active streams are the bits of a word.                              *)
ActiveStreams(all_data) ==
    MapThenSumSet(LAMBDA id : 2^id, {data.stream.stream_id : data \in all_data})
StartController(is_input, all_data) ==
    {<<IF is_input THEN 0 ELSE 2^16 + 3 * 2^6, Whole(ActiveStreams(all_data))>>}

SetRecordSize(data) ==
    {OfStream(2^17 + 2^8, data.stream.stream_id, Whole(data.chunks_per_record - 1))}

SetRecordChunkIDs(data) ==
    {<<2^17 + 2^13 + 2^8 * data.stream.stream_id + 4 * cycle,
       Whole(data.record_chunk_ids[cycle])>> :
        cycle \in DOMAIN data.record_chunk_ids}

-----------------------------------------------------------------------------
(***************************************************************************)
(* Streams in many channels                                                *)
(***************************************************************************)
Multichannels == 2^19       \* 0x80000

SetNumberOfInputStreamsWithMultipleChannels ==
    IF multichannel_streams = 0 THEN {} ELSE {<<4, Whole(multichannel_streams)>>}

SetMultiChannelStream(data) ==
    LET id == data.stream.stream_id
        OfChannel(base, j) == Multichannels + base + 2^14 * id + 4 * j
    IN  {OfStream(Multichannels, id, Whole(data.records_per_ddr_burst)),
         OfStream(Multichannels + 2^6, id, Whole(data.ddr_burst_length - 1)),
         OfStream(Multichannels + 2 * 2^6, id, Whole(data.active_channel_count))}
        \cup {<<OfChannel(2^16, j), Whole(data.channels[j].stream_address)>> :
                 j \in DOMAIN data.channels}
        \cup {<<OfChannel(2 * 2^16, j), Whole(data.channels[j].record_count + 1)>> :
                 j \in DOMAIN data.channels}

-----------------------------------------------------------------------------
(***************************************************************************)
(* Crossbars: four selections in a word, the last of them first.           *)
(***************************************************************************)
(* Slip: one table for both kinds of selections.                           *)
CrossbarBaseShared(is_input, selection) == IF is_input THEN 2 * 2^17 ELSE 3 * 2^17

CrossbarBase(is_input, selection) ==
    (IF is_input THEN 2 * 2^17 ELSE 3 * 2^17)
    + (IF selection = "chunk_selection" THEN 2^16 ELSE 0)

Offset == 0..3
FourSelections(data, chunk, selection, offset) ==
    [k \in 1..4 |-> data.crossbar[chunk][selection][4 * offset + 4 - k]]

SetCrossbarValues(data, is_input, selection) ==
    {<<CrossbarBase(is_input, selection) + 2^12 * data.stream.stream_id + 2^5 * chunk + 4 * offset,
       Word(FourSelections(data, chunk, selection, offset))>> :
        chunk \in DOMAIN data.crossbar, offset \in Offset}

SetUpDMACrossbarsForStream(data, is_input) ==
    SetCrossbarValues(data, is_input, "chunk_selection")
    \cup SetCrossbarValues(data, is_input, "position_selection")

-----------------------------------------------------------------------------
SetUpDMAIOStream(data, is_input) ==
    SetControllerParams(data, is_input)
    \cup (IF is_input THEN SetRecordSize(data) \cup SetRecordChunkIDs(data) ELSE {})
    \cup (IF is_input /\ IsMultichannel(data.stream)
          THEN SetMultiChannelStream(data)
          ELSE SetControllerStreamAddress(data, is_input)
               \cup SetControllerStreamSize(data, is_input))

(* Everything written for a run, both controllers having been started.     *)
Writes ==
    {<<8, Whole(kResetDuration)>>}
    \cup SetNumberOfInputStreamsWithMultipleChannels
    \cup UNION {LET all_data == ToSet(setup_data[d])
                    is_input == d = "input"
                IN  StartController(is_input, all_data)
                    \cup UNION {SetUpDMAIOStream(data, is_input)
                                \cup SetUpDMACrossbarsForStream(data, is_input) :
                                   data \in all_data} :
                d \in {"input", "output"}}

-----------------------------------------------------------------------------
(***************************************************************************)
(* Correctness                                                             *)
(***************************************************************************)

(* Each of the overlapping tables of modules/dma.cpp has room for all      *)
(* streams, chunks and channels of a run: no register is given two values, *)
(* all are the engine's own, and the fields of a word do not run into each *)
(* other (a burst that drops columns may take more cycles than a field     *)
(* says).                                                                  *)
RegistersSeparate ==
    LET writes == Writes
        addresses == {write[1] : write \in writes}
    IN  /\ Cardinality(addresses) = Cardinality(writes)
        /\ \A address \in addresses : address \in 0..(RegisterSpace - 4) /\ address % 4 = 0
FieldsFit ==
    \A d \in {"input", "output"} : \A data \in ToSet(setup_data[d]) :
        /\ data.ddr_burst_length - 1 \in Byte =>
               Fields(Word(ControllerParams(data))) = ControllerParams(data)
        /\ \A chunk \in DOMAIN data.crossbar, offset \in Offset,
              selection \in {"chunk_selection", "position_selection"} :
              LET four == FourSelections(data, chunk, selection, offset)
              IN  Fields(Word(four)) = four
RegistersHoldSetup == direction = "done" => RegistersSeparate /\ FieldsFit
=============================================================================
