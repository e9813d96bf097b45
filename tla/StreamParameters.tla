-------------------------- MODULE StreamParameters --------------------------
(***************************************************************************)
(* StreamParameterCalculator, and the buffer sizes of MergeSortSetup: how  *)
(* many records a burst of the DMA engine carries and how many the merge   *)
(* sorter fetches at a time.  Sizes are in integers of 32 bits, and an     *)
(* exception is the result 0.                                              *)
(***************************************************************************)
EXTENDS Integers, FiniteSetsExt

CONSTANTS
    kDatapathWidth,             \* integers in a chunk
    kDatapathLength,            \* chunks in the buffer of a stream
    kDdrBurstSize,              \* integers in the longest burst
    kDdrSizePerCycle,           \* integers transferred in a cycle
    kMaxRecordsPerDDRBurst,
    SortBufferSpace,            \* chunks in the buffer of a merge sorter
    SortChannelCount            \* channels of a merge sorter

ASSUME DatapathAssumption ==
    /\ kDatapathWidth \in Nat \ {0}
    /\ kDatapathLength \in Nat \ {0}
    /\ kDdrBurstSize = kDatapathWidth * kDatapathLength
    /\ kMaxRecordsPerDDRBurst \in 1..kDatapathLength
    /\ kDdrSizePerCycle \in Nat \ {0}

PowersOfTwo == {2^i : i \in 0..12}      \* as far as sizes go here
LargestPower == 4096

ASSUME BufferAssumption ==
    /\ kMaxRecordsPerDDRBurst \in PowersOfTwo
    /\ kDatapathLength <= LargestPower

(* Slip: a power of two gets the one after it.                             *)
FindNextPowerOfTwoAbove(value) == Min({power \in PowersOfTwo : power > value})

FindNextPowerOfTwo(value) == Min({power \in PowersOfTwo : power >= value})

CalculateChunksPerRecord(record_size) ==
    (record_size + kDatapathWidth - 1) \div kDatapathWidth

(* Slip: as many records as fit, whether a power of two or not.            *)
FindMinViableRecordsPerDDRBurstUnrounded(record_size) ==
    Min({kMaxRecordsPerDDRBurst, kDdrBurstSize \div record_size})

FindMinViableRecordsPerDDRBurst(record_size) ==
    Min({kMaxRecordsPerDDRBurst,
         Max({power \in PowersOfTwo : power <= kDdrBurstSize \div record_size})})

CalculateDDRBurstLength(record_size, records_per_ddr_burst) ==
    (record_size * records_per_ddr_burst + kDdrSizePerCycle - 1) \div kDdrSizePerCycle

-----------------------------------------------------------------------------
(* Integer division in C++ drops the fraction of a negative number too.    *)
Quotient(a, b) == IF a >= 0 THEN a \div b ELSE -((-a) \div b)

InternalLogicReserve ==
    240 + MapThenSumSet(LAMBDA i : 2 * i,
                        {i \in PowersOfTwo : 32 <= i /\ i <= SortChannelCount})

CalculateSortBufferSize(chunks_per_record) ==
    LET max_buffered_record_count == SortBufferSpace \div chunks_per_record - 16
    IN  Min({(2 * SortBufferSpace) \div SortChannelCount,
             Quotient(max_buffered_record_count - InternalLogicReserve,
                      SortChannelCount)})

(* PotentialRecordCountIsValid: a fetch is a whole number of cycles.       *)
IsWholeFetch(record_count, record_size) == (record_count * record_size) % 4 = 0

(* Slip: the fetch may take any number of records.                         *)
CalculateRecordCountPerFetchUnaligned(sort_buffer_size, record_size) ==
    Max({0, Quotient(sort_buffer_size, 2)})

CalculateRecordCountPerFetch(sort_buffer_size, record_size) ==
    LET potential_record_count == Quotient(sort_buffer_size, 2)
    IN  IF potential_record_count >= 0
        THEN Max({count \in 0..potential_record_count : IsWholeFetch(count, record_size)})
        ELSE IF potential_record_count % 4 = 0 THEN potential_record_count ELSE 0
=============================================================================
