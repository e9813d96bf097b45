-------------------------- MODULE DMASetup_proofs --------------------------
(***************************************************************************)
(* Proofs about the setup of the DMA engine: its buffers, bursts and       *)
(* channels for every stream, the merge sorters, what stops the setup, the *)
(* crossbars, and the registers that all of it is written to.              *)
(***************************************************************************)
EXTENDS DMARegisters, SequenceLemmas

(***************************************************************************)
(* The sizes (StreamParameterCalculator, MergeSortSetup)                   *)
(***************************************************************************)
(* What a quotient and a remainder are.                                    *)
LEMMA Division ==
    ASSUME NEW a \in Nat, NEW b \in Nat \ {0}
    PROVE  /\ a \div b \in Nat /\ a % b \in 0..(b - 1)
           /\ (a \div b) * b + (a % b) = a
           /\ (a \div b) * b <= a /\ a < (a \div b) * b + b
  BY SMT

(* The sizes that are a power of two.                                      *)
LEMMA PowersListed ==
    PowersOfTwo = {1, 2, 4, 8, 16, 32, 64, 128, 256, 512, 1024, 2048, 4096}
  BY SMT DEF PowersOfTwo

(* There is a next power of two (FindNextPowerOfTwo).                      *)
LEMMA NextPower ==
    ASSUME NEW n \in Nat, n <= LargestPower
    PROVE  /\ FindNextPowerOfTwo(n) \in PowersOfTwo
           /\ FindNextPowerOfTwo(n) \in Nat \ {0}
           /\ n <= FindNextPowerOfTwo(n)
           /\ \A power \in PowersOfTwo : n <= power => FindNextPowerOfTwo(n) <= power
<1> DEFINE powers == {power \in PowersOfTwo : power >= n}
<1>1. powers \in SUBSET Nat /\ LargestPower \in powers
  BY PowersListed DEF LargestPower
<1>2. Min(powers) \in powers
  BY <1>1, LeastIsMin
<1>3. \A power \in powers : Min(powers) <= power
  <2> HIDE DEF powers
  <2>1. \E least \in powers : \A power \in powers : least <= power
    BY <1>1, LeastNumber
  <2>2. QED
    BY <2>1, Zenon DEF Min
<1>4. FindNextPowerOfTwo(n) = Min(powers)
  BY DEF FindNextPowerOfTwo
<1>5. \A power \in PowersOfTwo : n <= power => power \in powers
  BY PowersListed
<1> HIDE DEF powers
<1>6. \A power \in PowersOfTwo : n <= power => FindNextPowerOfTwo(n) <= power
  BY <1>3, <1>4, <1>5, Zenon
<1>7. FindNextPowerOfTwo(n) \in PowersOfTwo /\ n <= FindNextPowerOfTwo(n)
  BY <1>1, <1>2, <1>4, PowersListed DEF powers
<1>8. QED
  BY <1>6, <1>7, PowersListed

(* A power of two is divided by a smaller one without a remainder.         *)
LEMMA PowersDivide ==
    ASSUME NEW p \in PowersOfTwo, NEW q \in PowersOfTwo, p \div q # 0
    PROVE  p \div q \in PowersOfTwo
  BY PowersListed, SMTT(60)

(* The lesser of two numbers.                                              *)
LEMMA LesserOfTwo ==
    ASSUME NEW a \in Int, NEW b \in Int
    PROVE  Min({a, b}) \in {a, b} /\ Min({a, b}) <= a /\ Min({a, b}) <= b
<1>1. \E x \in {a, b} : \A y \in {a, b} : x <= y
  OBVIOUS
<1>2. Min({a, b}) \in {a, b} /\ \A y \in {a, b} : Min({a, b}) <= y
  BY <1>1, Zenon DEF Min
<1>3. QED
  BY <1>2, Zenon

(* The greater of two numbers is one of them.                              *)
LEMMA GreaterOfTwo ==
    ASSUME NEW a \in Int, NEW b \in Int
    PROVE  Max({a, b}) \in {a, b} /\ Max({a, b}) >= a /\ Max({a, b}) >= b
<1>1. \E x \in {a, b} : \A y \in {a, b} : x >= y
  OBVIOUS
<1>2. Max({a, b}) \in {a, b} /\ \A y \in {a, b} : Max({a, b}) >= y
  BY <1>1, Zenon DEF Max
<1>3. QED
  BY <1>2, Zenon

(* A record is cut into chunks, the last of which need not be full         *)
(* (CalculateChunksPerRecord).                                             *)
LEMMA ChunksHoldRecord ==
    ASSUME NEW size \in Nat \ {0}
    PROVE  /\ CalculateChunksPerRecord(size) \in Nat \ {0}
           /\ size <= kDatapathWidth * CalculateChunksPerRecord(size)
           /\ size <= kDdrBurstSize => CalculateChunksPerRecord(size) <= kDatapathLength
<1> DEFINE w == kDatapathWidth
           chunks == (size + w - 1) \div w
<1>1. w \in Nat \ {0} /\ kDatapathLength \in Nat \ {0} /\ kDdrBurstSize = w * kDatapathLength
  BY DatapathAssumption
<1>2. CalculateChunksPerRecord(size) = chunks
  BY DEF CalculateChunksPerRecord
<1> HIDE DEF w
<1>3. /\ chunks \in Nat /\ chunks * w <= size + w - 1
      /\ size + w - 1 < chunks * w + w
  <2>1. size + w - 1 \in Nat
    BY <1>1
  <2>2. QED
    BY <1>1, <2>1, Division, Zenon
<1> HIDE DEF chunks
<1>4. chunks # 0 /\ size <= w * chunks
  BY <1>1, <1>3
<1>5. ASSUME size <= w * kDatapathLength, ~(chunks <= kDatapathLength)
      PROVE  FALSE
  <2>1. kDatapathLength + 1 <= chunks
    BY <1>1, <1>3, <1>5
  <2>2. (kDatapathLength + 1) * w <= chunks * w
    BY <1>1, <1>3, <2>1
  <2>3. QED
    BY <1>1, <1>3, <1>5, <2>2
<1>6. QED
  BY <1>1, <1>2, <1>3, <1>4, <1>5 DEF w

(* The cycles that a burst takes (CalculateDDRBurstLength).                *)
LEMMA CyclesHoldBurst ==
    ASSUME NEW size \in Nat, NEW records \in Nat
    PROVE  CalculateDDRBurstLength(size, records) * kDdrSizePerCycle
               \in (records * size)..(records * size + kDdrSizePerCycle - 1)
<1> DEFINE c == kDdrSizePerCycle
           n == records * size
<1>1. c \in Nat \ {0}
  BY DatapathAssumption
<1>2. n \in Nat /\ CalculateDDRBurstLength(size, records) = (n + c - 1) \div c
  BY DEF CalculateDDRBurstLength
<1> HIDE DEF c, n
<1>3. /\ (n + c - 1) \div c \in Nat
      /\ ((n + c - 1) \div c) * c <= n + c - 1
      /\ n + c - 1 < ((n + c - 1) \div c) * c + c
  <2>1. n + c - 1 \in Nat
    BY <1>1, <1>2
  <2>2. QED
    BY <1>1, <2>1, Division, Zenon
<1>4. QED
  BY <1>1, <1>2, <1>3 DEF c, n

-----------------------------------------------------------------------------
(* A burst of a single channel's records fits the buffer                   *)
(* (FindMinViableRecordsPerDDRBurst).                                      *)
LEMMA SingleChannelBurst ==
    ASSUME kMaxRecordsPerDDRBurst \in PowersOfTwo, NEW size \in 1..kDdrBurstSize
    PROVE  LET records == FindMinViableRecordsPerDDRBurst(size)
           IN  /\ records \in PowersOfTwo
               /\ records <= kMaxRecordsPerDDRBurst
               /\ records * size <= kDdrBurstSize
<1> DEFINE most == kDdrBurstSize \div size
           powers == {power \in PowersOfTwo : power <= most}
<1>1. kDdrBurstSize \in Nat
  BY DatapathAssumption
<1>2. most \in Nat /\ most * size <= kDdrBurstSize /\ kDdrBurstSize < most * size + size
  BY <1>1, Division
<1>3. FindMinViableRecordsPerDDRBurst(size) = Min({kMaxRecordsPerDDRBurst, Max(powers)})
  BY DEF FindMinViableRecordsPerDDRBurst
<1> HIDE DEF most
<1>4. most >= 1
  BY <1>1, <1>2
<1>5. powers \in SUBSET (0..most) /\ 1 \in powers
  BY <1>2, <1>4, PowersListed
<1>6. Max(powers) \in powers
  <2> HIDE DEF powers
  <2>1. powers # {}
    BY <1>5
  <2>2. QED
    BY <1>2, <1>5, <2>1, GreatestNumber, Zenon
<1>7. Max(powers) \in PowersOfTwo /\ Max(powers) <= most
  BY <1>6
<1> HIDE DEF powers
<1> DEFINE records == Min({kMaxRecordsPerDDRBurst, Max(powers)})
<1>8. /\ records \in {kMaxRecordsPerDDRBurst, Max(powers)}
      /\ records <= kMaxRecordsPerDDRBurst /\ records <= Max(powers)
  <2>1. Max(powers) \in Int /\ kMaxRecordsPerDDRBurst \in Int
    BY <1>7, PowersListed
  <2>2. QED
    BY <2>1, LesserOfTwo, Zenon
<1> HIDE DEF records
<1>9. records \in PowersOfTwo /\ records \in Nat /\ records <= most
  BY <1>2, <1>7, <1>8, PowersListed
<1>10. records * size <= most * size
  BY <1>2, <1>9
<1>11. QED
  BY <1>1, <1>2, <1>3, <1>8, <1>9, <1>10 DEF records

(* So does one of an output: its records have the chunks of those that are *)
(* read, or of their own.                                                  *)
LEMMA OutputBurst ==
    ASSUME kMaxRecordsPerDDRBurst \in PowersOfTwo, NEW chunks \in Nat, chunks <= LargestPower,
           NEW size \in Nat, size <= kDatapathWidth * chunks,
           NEW records, records = kMaxRecordsPerDDRBurst \div FindNextPowerOfTwo(chunks),
           records # 0
    PROVE  /\ records \in PowersOfTwo
           /\ records * chunks <= kMaxRecordsPerDDRBurst
           /\ records * size <= kDdrBurstSize
<1> DEFINE next == FindNextPowerOfTwo(chunks)
           most == kMaxRecordsPerDDRBurst
           w == kDatapathWidth
<1>1. /\ w \in Nat \ {0} /\ kDatapathLength \in Nat /\ most \in Nat
      /\ most <= kDatapathLength /\ kDdrBurstSize = w * kDatapathLength
  BY DatapathAssumption
<1>2. next \in PowersOfTwo /\ next \in Nat \ {0} /\ chunks <= next
  <2> HIDE DEF next
  <2>1. next = FindNextPowerOfTwo(chunks)
    BY DEF next
  <2>2. QED
    BY <2>1, NextPower
<1>3. records \in PowersOfTwo
  BY <1>2, PowersDivide
<1> HIDE DEF next, most, w
<1>4. records \in Nat /\ records * next <= most
  <2>1. records = most \div next
    BY DEF next, most
  <2>2. most \div next \in Nat /\ (most \div next) * next <= most
    BY <1>1, <1>2, Division, Zenon
  <2>3. QED
    BY <2>1, <2>2, Zenon
<1>5. records * chunks <= records * next
  BY <1>2, <1>4
<1>6. records * chunks \in Nat /\ records * chunks <= most
  <2>1. records * chunks \in Nat /\ records * next \in Nat
    BY <1>2, <1>4
  <2>2. QED
    BY <1>1, <1>4, <1>5, <2>1
<1>7. records * size <= records * (w * chunks)
  BY <1>1, <1>4 DEF w
<1>8. records * (w * chunks) = w * (records * chunks)
  BY <1>1, <1>4
<1>9. w * (records * chunks) <= w * kDatapathLength
  BY <1>1, <1>6
<1>10. records * size <= kDdrBurstSize
  <2>1. /\ records * size \in Nat /\ records * (w * chunks) \in Nat
        /\ w * kDatapathLength \in Nat
    BY <1>1, <1>4
  <2>2. QED
    BY <1>1, <1>7, <1>8, <1>9, <2>1
<1>11. QED
  BY <1>3, <1>6, <1>10 DEF most

(***************************************************************************)
(* The buffer of a merge sorter.  The code's is for 64 channels and 2048   *)
(* chunks (MergeSortSetup is called with these), of which the logic needs  *)
(* 432.  That a size below zero is not taken for one above rests on how    *)
(* large these are, and so does that a fetch fits the engine's buffer.     *)
(***************************************************************************)
SorterFits ==
    /\ SortBufferSpace \in Nat /\ SortChannelCount \in Nat \ {0}
    /\ InternalLogicReserve \in Nat
    /\ 16 + InternalLogicReserve < 8 * SortChannelCount
    /\ kDatapathWidth * SortBufferSpace <= 2 * SortChannelCount * kDdrBurstSize

(* A quotient that drops the fraction.                                     *)
LEMMA QuotientBounds ==
    ASSUME NEW a \in Int, NEW b \in Nat \ {0}
    PROVE  /\ Quotient(a, b) \in Int
           /\ a >= 0 => Quotient(a, b) \in Nat /\ Quotient(a, b) * b <= a
           /\ a < 0 => Quotient(a, b) <= 0
           /\ a > -(8 * b) => Quotient(a, b) > -8
<1>1. CASE a >= 0
  <2>1. Quotient(a, b) = a \div b /\ a \in Nat
    BY <1>1 DEF Quotient
  <2>2. a \div b \in Nat /\ (a \div b) * b <= a
    BY <2>1, Division, Zenon
  <2>3. QED
    BY <1>1, <2>1, <2>2
<1>2. CASE a < 0
  <2>1. Quotient(a, b) = -((-a) \div b) /\ -a \in Nat
    BY <1>2 DEF Quotient
  <2> DEFINE d == (-a) \div b
  <2>2. d \in Nat /\ d * b <= -a
    BY <2>1, Division, Zenon
  <2> HIDE DEF d
  <2>3. ASSUME a > -(8 * b) PROVE d < 8
    <3>1. SUFFICES ASSUME d >= 8 PROVE FALSE
      BY <2>2
    <3>2. 8 * b <= d * b
      BY <2>2, <3>1
    <3>3. d * b \in Int /\ 8 * b \in Int
      BY <2>2
    <3>4. QED
      BY <2>2, <2>3, <3>2, <3>3
  <2>4. QED
    BY <1>2, <2>1, <2>2, <2>3 DEF d
<1>3. QED
  BY <1>1, <1>2

(* The space is divided among the channels (CalculateSortBufferSize).      *)
LEMMA SortBufferBounds ==
    ASSUME SorterFits, NEW chunks \in Nat \ {0}
    PROVE  LET buffer_size == CalculateSortBufferSize(chunks)
           IN  /\ buffer_size \in Int /\ buffer_size > -8
               /\ buffer_size > 0 =>
                     SortChannelCount * buffer_size * chunks <= SortBufferSpace
<1> DEFINE b == CalculateSortBufferSize(chunks)
           space == SortBufferSpace \div chunks
           n == space - 16 - InternalLogicReserve
           share == Quotient(n, SortChannelCount)
           most == (2 * SortBufferSpace) \div SortChannelCount
           c == SortChannelCount
           reserve == InternalLogicReserve
<1>1. /\ SortBufferSpace \in Nat /\ c \in Nat \ {0} /\ reserve \in Nat
      /\ 16 + reserve < 8 * c
  BY DEF SorterFits
<1>2. space \in Nat /\ space * chunks <= SortBufferSpace
  BY <1>1, Division, Zenon
<1>3. most \in Nat
  <2>1. 2 * SortBufferSpace \in Nat
    BY <1>1
  <2>2. QED
    BY <1>1, <2>1, Division, Zenon
<1>4. b = Min({most, share})
  BY DEF CalculateSortBufferSize
<1>5. n = space - 16 - reserve
  OBVIOUS
<1>6. share = Quotient(n, c)
  OBVIOUS
<1> HIDE DEF b, space, n, share, most, c, reserve
<1>7. n \in Int /\ n > -(8 * c) /\ n <= space
  BY <1>1, <1>2, <1>5
<1>8. /\ share \in Int /\ share > -8
      /\ n >= 0 => share * c <= n
      /\ n < 0 => share <= 0
  BY <1>1, <1>6, <1>7, QuotientBounds
<1>9. b \in {most, share} /\ b <= share
  <2>1. most \in Int /\ share \in Int
    BY <1>3, <1>8
  <2>2. QED
    BY <1>4, <2>1, LesserOfTwo, Zenon
<1>10. ASSUME b > 0
       PROVE  c * b * chunks <= SortBufferSpace
  <2>1. b \in Nat /\ share \in Nat /\ n >= 0
    BY <1>3, <1>7, <1>8, <1>9, <1>10
  <2>2. b * c <= share * c
    BY <1>1, <1>9, <2>1
  <2>3. b * c \in Nat /\ b * c <= space
    BY <1>1, <1>2, <1>7, <1>8, <2>1, <2>2
  <2>4. (b * c) * chunks <= space * chunks
    BY <1>2, <2>3
  <2>5. (b * c) * chunks = c * b * chunks
    BY <1>1, <2>1
  <2>6. (b * c) * chunks \in Int /\ space * chunks \in Int
    BY <1>2, <2>3
  <2>7. QED
    BY <1>1, <1>2, <2>4, <2>5, <2>6
<1>11. b \in Int /\ b > -8
  BY <1>3, <1>8, <1>9
<1>12. QED
  BY <1>10, <1>11 DEF b, c

(* A fetch takes at most half of the buffer of a channel, and a number of  *)
(* records that is a whole number of cycles (CalculateRecordCountPerFetch).*)
LEMMA FetchFits ==
    ASSUME SorterFits, NEW chunks \in Nat \ {0}, NEW size \in Nat \ {0},
           NEW buffer_size, buffer_size = CalculateSortBufferSize(chunks),
           NEW records, records = CalculateRecordCountPerFetch(buffer_size, size),
           records # 0
    PROVE  /\ records \in Nat \ {0}
           /\ IsWholeFetch(records, size)
           /\ 2 * records <= buffer_size
           /\ SortChannelCount * buffer_size * chunks <= SortBufferSpace
<1> DEFINE p == Quotient(buffer_size, 2)
           counts == {count \in 0..p : IsWholeFetch(count, size)}
<1>1. /\ buffer_size \in Int /\ buffer_size > -8
      /\ buffer_size > 0 => SortChannelCount * buffer_size * chunks <= SortBufferSpace
  BY SortBufferBounds
<1>2. /\ p \in Int /\ p > -4
      /\ p > 0 => 2 * p <= buffer_size
      /\ p = 0 => buffer_size < 2
  BY <1>1 DEF Quotient
<1>3. records = IF p >= 0 THEN Max(counts) ELSE IF p % 4 = 0 THEN p ELSE 0
  BY Zenon DEF CalculateRecordCountPerFetch
<1> HIDE DEF p
<1>4. p >= 0
  BY <1>2, <1>3
<1>5. p \in Nat /\ counts \in SUBSET (0..p) /\ 0 \in counts
  BY <1>2, <1>4 DEF IsWholeFetch
<1>6. Max(counts) \in counts
  <2> HIDE DEF counts
  <2>1. counts # {}
    BY <1>5
  <2>2. QED
    BY <1>5, <2>1, GreatestNumber, Zenon
<1>7. records \in 0..p /\ IsWholeFetch(records, size)
  BY <1>3, <1>4, <1>6
<1>8. p > 0 /\ records \in Nat \ {0} /\ 2 * records <= buffer_size /\ buffer_size > 0
  BY <1>1, <1>2, <1>5, <1>7
<1>9. QED
  BY <1>1, <1>7, <1>8

(* So if no columns are dropped, a fetch fits the buffer of the engine.    *)
LEMMA FetchFitsBurst ==
    ASSUME SorterFits, NEW chunks \in Nat \ {0}, NEW size \in Nat \ {0},
           size <= kDatapathWidth * chunks,
           NEW buffer_size \in Nat, NEW records \in Nat, 2 * records <= buffer_size,
           SortChannelCount * buffer_size * chunks <= SortBufferSpace
    PROVE  records * size <= kDdrBurstSize
<1> DEFINE w == kDatapathWidth
           c == SortChannelCount
           s == SortBufferSpace
           full == kDdrBurstSize
<1>1. /\ w \in Nat \ {0} /\ c \in Nat \ {0} /\ s \in Nat /\ full \in Nat
      /\ w * s <= 2 * c * full
  BY DatapathAssumption DEF SorterFits
<1>2. c * buffer_size * chunks <= s /\ size <= w * chunks
  OBVIOUS
<1> HIDE DEF w, c, s, full
<1>3. records * size <= records * (w * chunks)
  BY <1>1, <1>2
<1>4. (c * (2 * records)) * chunks <= (c * buffer_size) * chunks
  <2>1. c * (2 * records) <= c * buffer_size
    BY <1>1
  <2>2. c * (2 * records) \in Nat /\ c * buffer_size \in Nat
    BY <1>1
  <2>3. QED
    BY <2>1, <2>2
<1>5. (2 * c) * (records * size) <= (2 * c) * (records * (w * chunks))
  <2>1. records * size \in Nat /\ records * (w * chunks) \in Nat /\ 2 * c \in Nat
    BY <1>1
  <2>2. QED
    BY <1>3, <2>1
<1>6. (2 * c) * (records * (w * chunks)) = w * ((c * (2 * records)) * chunks)
  BY <1>1
<1>7. (2 * c) * (records * size) <= (2 * c) * full
  <2>1. (c * (2 * records)) * chunks \in Nat /\ (c * (2 * records)) * chunks <= s
    BY <1>1, <1>2, <1>4
  <2>2. w * ((c * (2 * records)) * chunks) <= w * s
    BY <1>1, <2>1
  <2>3. /\ w * ((c * (2 * records)) * chunks) \in Nat /\ w * s \in Nat
        /\ (2 * c) * (records * size) \in Nat /\ (2 * c) * full \in Nat
        /\ 2 * c * full = (2 * c) * full
    BY <1>1
  <2>4. QED
    BY <1>1, <1>5, <1>6, <2>2, <2>3
<1>8. SUFFICES ASSUME records * size > full PROVE FALSE
  BY <1>1 DEF full
<1>9. (2 * c) * (records * size) > (2 * c) * full
  <2>1. records * size \in Nat /\ 2 * c \in Nat \ {0}
    BY <1>1
  <2>2. QED
    BY <1>1, <1>8, <2>1
<1>10. QED
  BY <1>1, <1>7, <1>9

-----------------------------------------------------------------------------
(***************************************************************************)
(* The inductive invariant                                                 *)
(***************************************************************************)
Directions == {"input", "output"}

(* How many streams of a direction are set up, and with which data.        *)
SetupOK ==
    /\ streams \in StreamSets /\ IsStreamSet(streams)
    /\ \A d \in Directions : Len(streams[d]) \in 1..MaxStreams
    /\ setup_data = [input |-> setup_data.input, output |-> setup_data.output]
    /\ \A d \in Directions : IsSequence(setup_data[d])
    /\ direction \in {"validate", "input", "output", "modules", "done"}
    /\ current_stream_count \in Nat

CountsOK ==
    /\ direction = "validate" => setup_data.input = <<>>
    /\ direction \in {"validate", "input"} => setup_data.output = <<>>
    /\ direction \in {"validate", "input"} => Len(setup_data.input) = current_stream_count
    /\ direction = "output" => Len(setup_data.output) = current_stream_count

IsSetUp(d, k) ==
    /\ k <= Len(streams[d])
    /\ SetupError(streams[d][k], d = "input") = "none"
    /\ setup_data[d][k] = SetupData(streams[d][k], d = "input", Len(streams[d]), k - 1)
DataOK ==
    \A d \in Directions : \A k \in DOMAIN setup_data[d] : IsSetUp(d, k)

IInv == SetupOK /\ CountsOK /\ DataOK

-----------------------------------------------------------------------------
(* The share of each of n streams: at least one buffer, and n shares are   *)
(* not more than there are (buffer_size in SetupDMAModule).                *)
LEMMA ShareFits ==
    ASSUME NEW n \in 1..MaxStreams
    PROVE  /\ Buffers \div n \in 1..Buffers
           /\ (Buffers \div n) * n <= Buffers
  BY SMTT(30) DEF Buffers, MaxStreams

(* A later stream's buffers start after an earlier one's end.              *)
LEMMA SharesApart ==
    ASSUME NEW n \in 1..MaxStreams, NEW k \in 0..(n - 1), NEW l \in 0..(n - 1), k < l,
           NEW size \in 1..Buffers, size * n <= Buffers
    PROVE  /\ size * k \in Nat /\ size * l \in Nat
           /\ size * k + size <= size * l
           /\ size * l + size <= Buffers
  BY SMTT(30) DEF Buffers, MaxStreams

(* The buffers of a stream are buffers of the controller (dma_setup.cpp).  *)
LEMMA BuffersInRange ==
    ASSUME NEW n \in 1..MaxStreams, NEW k \in 0..(n - 1)
    PROVE  LET b == AllocateStreamBuffers(n, k)
           IN  /\ b.buffer_start \in Nat /\ b.buffer_end \in Nat
               /\ b.buffer_start <= b.buffer_end
               /\ b.buffer_end <= Buffers - 1
<1> DEFINE size == Buffers \div n
<1>1. size \in 1..Buffers /\ size * n <= Buffers
  BY ShareFits
<1>2. AllocateStreamBuffers(n, k) =
          [buffer_start |-> size * k, buffer_end |-> size * k + size - 1]
  BY DEF AllocateStreamBuffers
<1> HIDE DEF size
<1>3. size * k \in Nat /\ size * k + size <= Buffers
  BY <1>1, SMTT(30) DEF Buffers, MaxStreams
<1>4. QED
  BY <1>1, <1>2, <1>3 DEF Buffers

(* The buffers of two streams do not meet (dma_setup.cpp).                 *)
LEMMA BuffersApart ==
    ASSUME NEW n \in 1..MaxStreams, NEW k \in 0..(n - 1), NEW l \in 0..(n - 1), k < l
    PROVE  AllocateStreamBuffers(n, k).buffer_end < AllocateStreamBuffers(n, l).buffer_start
<1> DEFINE size == Buffers \div n
<1>1. size \in 1..Buffers /\ size * n <= Buffers
  BY ShareFits
<1>2. /\ AllocateStreamBuffers(n, k).buffer_end = size * k + size - 1
      /\ AllocateStreamBuffers(n, l).buffer_start = size * l
  BY DEF AllocateStreamBuffers
<1> HIDE DEF size
<1>3. size * k \in Nat /\ size * l \in Nat /\ size * k + size <= size * l
  BY <1>1, SharesApart
<1>4. QED
  BY <1>1, <1>2, <1>3

-----------------------------------------------------------------------------
(* The invariant holds before anything is set up.                          *)
LEMMA InitInvariant == Init => IInv
<1> SUFFICES ASSUME Init PROVE IInv
  OBVIOUS
<1>1. setup_data = [input |-> <<>>, output |-> <<>>]
  BY DEF Init
<1>2. SetupOK
  <2>1. IsStreamSet(streams)
    BY DEF Init
  <2>2. \A d \in Directions : Len(streams[d]) \in 1..MaxStreams
    BY <2>1 DEF IsStreamSet, Directions
  <2>3. \A d \in Directions : IsSequence(setup_data[d])
    <3>1. \A d \in Directions : setup_data[d] = <<>>
      BY <1>1 DEF Directions
    <3> DEFINE S == ToSet(<<>>)
    <3>2. IsSequence(<<>>)
      <4> HIDE DEF S
      <4>1. <<>> \in Seq(S)
        OBVIOUS
      <4>2. QED
        BY <4>1 DEF S, IsSequence
    <3>3. QED
      BY <3>1, <3>2
  <2>4. QED
    BY <1>1, <2>2, <2>3 DEF Init, SetupOK
<1>3. CountsOK
  BY <1>1 DEF Init, CountsOK
<1>4. DataOK
  BY <1>1 DEF DataOK, Directions
<1>5. QED
  BY <1>2, <1>3, <1>4 DEF IInv

(* The data of a stream is one of the set-ups of the run, and its buffers  *)
(* are those of its place (AllocateStreamBuffers).                         *)
LEMMA SetupDataBuffer ==
    ASSUME NEW stream, NEW is_input_stream, NEW n, NEW k
    PROVE  SetupData(stream, is_input_stream, n, k).buffer = AllocateStreamBuffers(n, k)
  BY Zenon DEF SetupData

(* SetupStream appends the data of the next stream in one direction.       *)
LEMMA SetupStreamInvariant == IInv /\ SetupStream => IInv'
<1> SUFFICES ASSUME IInv, SetupStream PROVE IInv'
  OBVIOUS
<1> DEFINE stream == streams[direction][current_stream_count + 1]
           data == SetupData(stream, direction = "input", Len(streams[direction]),
                             current_stream_count)
<1>1. /\ direction \in Directions /\ direction' = direction /\ streams' = streams
      /\ current_stream_count < Len(streams[direction])
  BY DEF SetupStream, Directions
<1>2. /\ \A d \in Directions : Len(streams[d]) \in 1..MaxStreams
      /\ current_stream_count \in Nat
      /\ setup_data = [input |-> setup_data.input, output |-> setup_data.output]
      /\ \A d \in Directions : IsSequence(setup_data[d])
  BY DEF IInv, SetupOK
<1>3. CASE UNCHANGED <<setup_data, current_stream_count>>
  <2>1. SetupOK'
    BY <1>1, <1>2, <1>3, Zenon DEF SetupOK, IsSequence, Directions, IInv
  <2>2. CountsOK' /\ DataOK'
    BY <1>1, <1>3 DEF IInv, CountsOK, DataOK, IsSetUp
  <2>3. QED
    BY <2>1, <2>2 DEF IInv
<1>4. CASE /\ setup_data' = [setup_data EXCEPT ![direction] = Append(@, data)]
           /\ current_stream_count' = current_stream_count + 1
           /\ SetupError(stream, direction = "input") = "none"
  <2>1. /\ data = SetupData(stream, direction = "input", Len(streams[direction]),
                            current_stream_count)
        /\ stream = streams[direction][current_stream_count + 1]
    OBVIOUS
  <2> HIDE DEF data, stream
  <2> DEFINE s == setup_data[direction]
  <2>2. IsSequence(s)
    BY <1>1, <1>2
  <2>3. /\ Len(s) = current_stream_count
        /\ direction = "input" => setup_data.output = <<>>
    BY <1>1 DEF IInv, CountsOK, Directions
  <2>4. /\ setup_data'[direction] = Append(s, data)
        /\ \A d \in Directions \ {direction} : setup_data'[d] = setup_data[d]
        /\ setup_data' = [input |-> setup_data'.input, output |-> setup_data'.output]
    BY <1>1, <1>2, <1>4 DEF Directions
  <2> HIDE DEF s
  <2>5. /\ IsSequence(Append(s, data))
        /\ Len(s) \in Nat /\ DOMAIN s = 1..Len(s)
        /\ Len(Append(s, data)) = Len(s) + 1
        /\ DOMAIN Append(s, data) = 1..(Len(s) + 1)
        /\ \A k \in 1..Len(s) : Append(s, data)[k] = s[k]
        /\ Append(s, data)[Len(s) + 1] = data
    BY <2>2, AppendSequence
  <2>6. \A d \in Directions : IsSequence(setup_data'[d])
    BY <1>2, <2>4, <2>5
  <2>7. SetupOK'
    <3>1. (\A d \in Directions : IsSequence(setup_data[d]))'
      BY <2>6 DEF IsSequence
    <3>2. (\A d \in Directions : Len(streams[d]) \in 1..MaxStreams)'
      BY <1>1, <1>2
    <3>3. current_stream_count' \in Nat
      BY <1>2, <1>4
    <3>4. direction' \in {"validate", "input", "output", "modules", "done"}
      BY <1>1 DEF Directions
    <3>5. (streams \in StreamSets /\ IsStreamSet(streams))'
      BY <1>1, Zenon DEF IInv, SetupOK, IsStreamSet
    <3>6. QED
      BY <2>4, <3>1, <3>2, <3>3, <3>4, <3>5, Zenon DEF SetupOK
  <2>8. Len(setup_data'[direction]) = current_stream_count + 1
    BY <2>3, <2>4, <2>5
  <2>9. CountsOK'
    BY <1>1, <1>4, <2>3, <2>4, <2>8 DEF CountsOK, Directions
  <2>10. DataOK'
    <3> SUFFICES ASSUME NEW d \in Directions, NEW k \in DOMAIN setup_data'[d]
                 PROVE  /\ k <= Len(streams[d])
                        /\ SetupError(streams[d][k], d = "input") = "none"
                        /\ setup_data'[d][k] = SetupData(streams[d][k], d = "input",
                                                         Len(streams[d]), k - 1)
      BY <1>1, Zenon DEF DataOK, IsSetUp
    <3>1. CASE d # direction
      <4>1. setup_data'[d] = setup_data[d] /\ k \in DOMAIN setup_data[d]
        BY <2>4, <3>1
      <4>2. IsSetUp(d, k)
        BY <4>1 DEF IInv, DataOK
      <4>3. QED
        BY <4>1, <4>2, Zenon DEF IsSetUp
    <3>2. CASE d = direction
      <4>1. setup_data'[d] = Append(s, data) /\ k \in 1..(current_stream_count + 1)
        BY <2>3, <2>4, <2>5, <3>2
      <4>2. CASE k \in 1..current_stream_count
        <5>1. setup_data'[d][k] = s[k] /\ k \in DOMAIN s
          BY <2>3, <2>5, <4>1, <4>2
        <5>2. s = setup_data[d]
          BY <3>2 DEF s
        <5>3. QED
          BY <3>2, <5>1, <5>2, Zenon DEF IInv, DataOK, IsSetUp
      <4>3. CASE k = current_stream_count + 1
        <5>1. setup_data'[d][k] = data
          BY <2>3, <2>5, <4>1, <4>3
        <5>2. k - 1 = current_stream_count /\ k <= Len(streams[d])
          BY <1>1, <1>2, <3>2, <4>3 DEF MaxStreams
        <5>3. stream = streams[d][k]
          BY <2>1, <3>2, <4>3
        <5>4. QED
          BY <1>4, <2>1, <3>2, <5>1, <5>2, <5>3, Zenon
      <4>4. QED
        BY <1>2, <4>1, <4>2, <4>3
    <3>3. QED
      BY <3>1, <3>2
  <2>11. QED
    BY <2>7, <2>9, <2>10 DEF IInv
<1>5. QED
  BY <1>3, <1>4 DEF SetupStream

(* The other actions append nothing.                                       *)
LEMMA OthersInvariant ==
    ASSUME IInv, UNCHANGED <<streams, setup_data>>, CountsOK',
           direction' \in {"validate", "input", "output", "modules", "done"},
           current_stream_count' \in Nat
    PROVE  IInv'
<1>1. SetupOK'
  BY Zenon DEF IInv, SetupOK, IsSequence
<1>2. DataOK'
  BY DEF IInv, DataOK, IsSetUp
<1>3. QED
  BY <1>1, <1>2 DEF IInv

(* Every step keeps the invariant.                                         *)
LEMMA NextInvariant == IInv /\ [Next]_vars => IInv'
<1> SUFFICES ASSUME IInv, [Next]_vars PROVE IInv'
  OBVIOUS
<1>1. /\ direction \in {"validate", "input", "output", "modules", "done"}
      /\ current_stream_count \in Nat
      /\ CountsOK
  BY DEF IInv, SetupOK
<1>2. CASE SetupStream
  BY <1>2, SetupStreamInvariant
<1>3. CASE IsRunValid
  <2>1. CountsOK'
    BY <1>1, <1>3 DEF IsRunValid, CountsOK
  <2>2. QED
    BY <1>1, <1>3, <2>1, OthersInvariant DEF IsRunValid
<1>4. CASE RunIsInvalid \/ SetupMergeSortModule \/ UNCHANGED vars
  <2>1. UNCHANGED <<streams, setup_data, direction, current_stream_count>>
    BY <1>4 DEF RunIsInvalid, SetupMergeSortModule, vars
  <2>2. CountsOK'
    BY <1>1, <2>1 DEF CountsOK
  <2>3. QED
    BY <1>1, <2>1, <2>2, OthersInvariant
<1>5. CASE FinishStreams
  <2>1. /\ direction \in {"input", "output"} /\ current_stream_count' = 0
        /\ direction' = IF direction = "input" THEN "output" ELSE "modules"
        /\ UNCHANGED <<streams, setup_data>>
    BY <1>5 DEF FinishStreams
  <2>2. CountsOK'
    BY <1>1, <2>1 DEF CountsOK
  <2>3. QED
    BY <2>1, <2>2, OthersInvariant
<1>6. CASE FinishModules
  <2>1. CountsOK'
    BY <1>1, <1>6 DEF FinishModules, CountsOK
  <2>2. QED
    BY <1>1, <1>6, <2>1, OthersInvariant DEF FinishModules
<1>7. QED
  BY <1>2, <1>3, <1>4, <1>5, <1>6 DEF Next

(* The invariant of the setup.                                             *)
LEMMA InvariantHolds == Spec => []IInv
  BY InitInvariant, NextInvariant, PTL DEF Spec

(* Whatever streams a run has, from 1 to 16 in each direction, each has at *)
(* least one buffer of the engine and none that another stream has         *)
(* (AllocateStreamBuffers).                                                *)
THEOREM BuffersDisjointHolds == Spec => []BuffersDisjoint
<1>1. IInv => BuffersDisjoint
  <2> SUFFICES ASSUME IInv, NEW d \in {"input", "output"},
                      NEW j \in DOMAIN setup_data[d]
               PROVE  /\ BufferOf(setup_data[d][j]) # {}
                      /\ BufferOf(setup_data[d][j]) \subseteq 0..(Buffers - 1)
                      /\ \A k \in DOMAIN setup_data[d] :
                            j # k => BufferOf(setup_data[d][j])
                                         \cap BufferOf(setup_data[d][k]) = {}
    BY DEF BuffersDisjoint
  <2> DEFINE n == Len(streams[d])
             b(k) == AllocateStreamBuffers(n, k - 1)
  <2>1. n \in 1..MaxStreams
    BY DEF IInv, SetupOK, Directions
  <2>2. /\ IsSequence(setup_data[d])
        /\ \A k \in DOMAIN setup_data[d] : k <= n /\ setup_data[d][k].buffer = b(k)
    <3>1. d \in Directions
      BY DEF Directions
    <3>2. ASSUME NEW k \in DOMAIN setup_data[d]
          PROVE  k <= n /\ setup_data[d][k].buffer = b(k)
      <4>1. IsSetUp(d, k)
        BY <3>1 DEF IInv, DataOK
      <4>2. SetupData(streams[d][k], d = "input", Len(streams[d]), k - 1).buffer
                = AllocateStreamBuffers(Len(streams[d]), k - 1)
        BY SetupDataBuffer
      <4>3. QED
        BY <4>1, <4>2, Zenon DEF IsSetUp
    <3>3. QED
      BY <3>1, <3>2 DEF IInv, SetupOK
  <2> HIDE DEF n
  <2>3. ASSUME NEW k \in DOMAIN setup_data[d]
        PROVE  /\ k \in Nat /\ k - 1 \in 0..(n - 1)
               /\ BufferOf(setup_data[d][k]) = b(k).buffer_start..b(k).buffer_end
               /\ b(k).buffer_start \in Nat /\ b(k).buffer_end \in Nat
               /\ b(k).buffer_start <= b(k).buffer_end
               /\ b(k).buffer_end <= Buffers - 1
    <3>1. k \in 1..Len(setup_data[d]) /\ Len(setup_data[d]) \in Nat
      BY <2>2, AppendSequence
    <3>2. k \in Nat /\ k - 1 \in 0..(n - 1)
      BY <2>1, <2>2, <3>1 DEF MaxStreams
    <3>3. BufferOf(setup_data[d][k]) = b(k).buffer_start..b(k).buffer_end
      BY <2>2 DEF BufferOf
    <3>4. QED
      BY <2>1, <3>2, <3>3, BuffersInRange
  <2>4. ASSUME NEW k \in DOMAIN setup_data[d], NEW l \in DOMAIN setup_data[d], k < l
        PROVE  b(k).buffer_end < b(l).buffer_start
    <3>1. k - 1 \in 0..(n - 1) /\ l - 1 \in 0..(n - 1) /\ k - 1 < l - 1
      BY <2>1, <2>3, <2>4 DEF MaxStreams
    <3>2. QED
      BY <2>1, <3>1, BuffersApart
  <2> HIDE DEF b
  <2>5. BufferOf(setup_data[d][j]) # {} /\ BufferOf(setup_data[d][j]) \subseteq 0..(Buffers - 1)
    <3> DEFINE first == b(j).buffer_start
               last == b(j).buffer_end
    <3>1. /\ BufferOf(setup_data[d][j]) = first..last
          /\ first \in Nat /\ last \in Nat /\ first <= last /\ last <= Buffers - 1
      BY <2>3
    <3> HIDE DEF first, last
    <3>2. first \in first..last /\ first..last \subseteq 0..(Buffers - 1)
      BY <3>1 DEF Buffers
    <3>3. QED
      BY <3>1, <3>2
  <2>6. ASSUME NEW k \in DOMAIN setup_data[d], j # k
        PROVE  BufferOf(setup_data[d][j]) \cap BufferOf(setup_data[d][k]) = {}
    <3>1. CASE j < k
      BY <2>3, <2>4, <3>1
    <3>2. CASE k < j
      BY <2>3, <2>4, <3>2
    <3>3. QED
      BY <2>3, <2>6, <3>1, <3>2
  <2>7. QED
    BY <2>5, <2>6
<1>2. QED
  BY <1>1, InvariantHolds, PTL

-----------------------------------------------------------------------------
(***************************************************************************)
(* The bursts.                                                             *)
(***************************************************************************)
(* Every stream of a run is typed.                                         *)
LEMMA StreamsTyped ==
    ASSUME NEW set \in StreamSets
    PROVE  /\ IsSequence(set.input) /\ IsSequence(set.output)
           /\ \A stream \in ToSet(set.input) \cup ToSet(set.output) : IsStream(stream)
           /\ \A stream \in ToSet(set.output) : SelectsFromChunks(stream)
  BY StreamsAssumption, Zenon DEF IsSequence

(* A stream that is set up has passed these tests (SetupDMAModule,         *)
(* CheckSelectedColumns and CalculateRecordCountPerFetch).                 *)
LEMMA TestsPassed ==
    ASSUME NEW stream, NEW is_input_stream \in BOOLEAN,
           SetupError(stream, is_input_stream) = "none"
    PROVE  /\ RecordsPerDDRBurst(stream, is_input_stream) # 0
           /\ ~is_input_stream => /\ Len(Specification(stream)) = stream.stream_record_size
                                  /\ stream.input_chunks_per_record # NotGiven
  BY DEF SetupError

(* A record has at least one column on the interface.                      *)
LEMMA SpecificationLength ==
    ASSUME NEW stream, stream.stream_specification \in Seq(Nat \cup {NoColumn}),
           stream.stream_record_size \in Nat \ {0}
    PROVE  Len(Specification(stream)) \in Nat \ {0}
<1>1. CASE stream.stream_specification = <<>>
  <2>1. Specification(stream) = [k \in 1..stream.stream_record_size |-> k - 1]
    BY <1>1 DEF Specification
  <2>2. QED
    BY <2>1
<1>2. CASE stream.stream_specification # <<>>
  <2>1. Specification(stream) = stream.stream_specification
    BY <1>2 DEF Specification
  <2>2. QED
    BY <1>2, <2>1, EmptySeq, LenProperties
<1>3. QED
  BY <1>1, <1>2

(* What BurstsFit says of one stream.                                      *)
BurstFits(stream, records) ==
    /\ records \in Nat \ {0}
    /\ IsMultichannel(stream) \/ records \in PowersOfTwo
    /\ ~(IsMultichannel(stream) /\ DropsColumns(stream)) =>
           records * stream.stream_record_size <= kDdrBurstSize

(* The records of a sorted stream fit the burst, for every sort buffer.    *)
LEMMA MultichannelBurstFits ==
    ASSUME SorterFits, NEW stream, stream.stream_specification \in Seq(Nat \cup {NoColumn}),
           stream.stream_record_size \in Nat \ {0},
           IsMultichannel(stream), SetupError(stream, TRUE) = "none"
    PROVE  BurstFits(stream, RecordsPerDDRBurst(stream, TRUE))
<1> DEFINE size == stream.stream_record_size
           length == Len(Specification(stream))
           chunks == CalculateChunksPerRecord(length)
           buffer_size == CalculateSortBufferSize(chunks)
           records == RecordsPerDDRBurst(stream, TRUE)
<1>1. records = CalculateRecordCountPerFetch(buffer_size, size)
  BY Zenon DEF RecordsPerDDRBurst, ChunksPerRecord
<1>2. size \in Nat \ {0} /\ length \in Nat \ {0}
  BY SpecificationLength
<1>3. records # 0
  BY TestsPassed
<1>4. buffer_size = CalculateSortBufferSize(chunks)
  OBVIOUS
<1>5. chunks = CalculateChunksPerRecord(length)
  OBVIOUS
<1>6. DropsColumns(stream) <=> length < size
  BY DEF DropsColumns
<1> HIDE DEF records, buffer_size, chunks, length, size
<1>7. chunks \in Nat \ {0} /\ length <= kDatapathWidth * chunks
  BY <1>2, <1>5, ChunksHoldRecord
<1>8. /\ records \in Nat \ {0} /\ 2 * records <= buffer_size
      /\ SortChannelCount * buffer_size * chunks <= SortBufferSpace
  BY <1>1, <1>2, <1>3, <1>4, <1>7, FetchFits
<1>9. ASSUME ~DropsColumns(stream)
      PROVE  records * size <= kDdrBurstSize
  <2>1. size <= kDatapathWidth * chunks
    <3>1. kDatapathWidth * chunks \in Nat
      BY <1>7, DatapathAssumption
    <3>2. QED
      BY <1>2, <1>6, <1>7, <1>9, <3>1
  <2>2. buffer_size \in Int
    BY <1>4, <1>7, SortBufferBounds
  <2>3. buffer_size \in Nat
    BY <1>8, <2>2
  <2>4. QED
    BY <1>2, <1>7, <1>8, <2>1, <2>3, FetchFitsBurst
<1>10. QED
  BY <1>8, <1>9 DEF BurstFits, records, size

(* The records of any other input stream fit the burst.                    *)
LEMMA InputBurstFits ==
    ASSUME NEW stream, ~IsMultichannel(stream),
           stream.stream_record_size \in 1..kDdrBurstSize
    PROVE  BurstFits(stream, RecordsPerDDRBurst(stream, TRUE))
<1>1. RecordsPerDDRBurst(stream, TRUE)
          = FindMinViableRecordsPerDDRBurst(stream.stream_record_size)
  BY Zenon DEF RecordsPerDDRBurst
<1>2. LET records == RecordsPerDDRBurst(stream, TRUE)
      IN  records \in PowersOfTwo /\ records * stream.stream_record_size <= kDdrBurstSize
  BY <1>1, SingleChannelBurst, BufferAssumption
<1>3. PowersOfTwo \in SUBSET (Nat \ {0})
  BY PowersListed
<1>4. QED
  BY <1>2, <1>3 DEF BurstFits

(* The records of an output have room in the chunks they get.              *)
LEMMA OutputRoom ==
    ASSUME NEW stream, ~IsMultichannel(stream),
           stream.stream_record_size \in 1..kDdrBurstSize,
           stream.input_chunks_per_record \in 0..kDatapathLength,
           Len(Specification(stream)) = stream.stream_record_size
    PROVE  LET chunks == ChunksPerRecord(stream, FALSE)
               records == RecordsPerDDRBurst(stream, FALSE)
           IN  /\ chunks \in 1..kDatapathLength
               /\ stream.stream_record_size <= kDatapathWidth * chunks
               /\ records = kMaxRecordsPerDDRBurst \div FindNextPowerOfTwo(chunks)
               /\ records # 0 => /\ records \in PowersOfTwo
                                 /\ records * chunks <= kMaxRecordsPerDDRBurst
                                 /\ records * stream.stream_record_size <= kDdrBurstSize
<1> DEFINE size == stream.stream_record_size
           own == CalculateChunksPerRecord(size)
           chunks == ChunksPerRecord(stream, FALSE)
           records == RecordsPerDDRBurst(stream, FALSE)
<1>1. chunks = Max({stream.input_chunks_per_record, own})
  BY Zenon DEF ChunksPerRecord
<1>2. records = kMaxRecordsPerDDRBurst \div FindNextPowerOfTwo(chunks)
  BY Zenon DEF RecordsPerDDRBurst
<1>3. size \in Nat \ {0} /\ size <= kDdrBurstSize
  BY DatapathAssumption
<1>4. own \in Nat \ {0} /\ size <= kDatapathWidth * own /\ own <= kDatapathLength
  BY <1>3, ChunksHoldRecord
<1> HIDE DEF own
<1>5. stream.input_chunks_per_record \in 0..kDatapathLength
  OBVIOUS
<1> HIDE DEF chunks, records
<1>6. chunks \in {stream.input_chunks_per_record, own} /\ chunks >= own
  <2>1. stream.input_chunks_per_record \in Int /\ own \in Int
    BY <1>4, <1>5
  <2>2. QED
    BY <1>1, <2>1, GreaterOfTwo, Zenon
<1> HIDE DEF size
<1>7. chunks \in 1..kDatapathLength
  BY <1>4, <1>5, <1>6, DatapathAssumption
<1>8. chunks \in Nat /\ chunks <= LargestPower
  BY <1>7, DatapathAssumption, BufferAssumption DEF LargestPower
<1>9. size <= kDatapathWidth * chunks
  <2>1. kDatapathWidth * own <= kDatapathWidth * chunks
    BY <1>4, <1>6, <1>8, DatapathAssumption
  <2>2. kDatapathWidth * own \in Nat /\ kDatapathWidth * chunks \in Nat
    BY <1>4, <1>8, DatapathAssumption
  <2>3. QED
    BY <1>3, <1>4, <2>1, <2>2
<1>10. records # 0 => /\ records \in PowersOfTwo
                      /\ records * chunks <= kMaxRecordsPerDDRBurst
                      /\ records * size <= kDdrBurstSize
  BY <1>2, <1>3, <1>8, <1>9, OutputBurst, BufferAssumption
<1>11. QED
  BY <1>2, <1>7, <1>9, <1>10 DEF chunks, records, size

(* The records of an output stream fit the burst, its chunks given or not. *)
LEMMA OutputBurstFits ==
    ASSUME NEW stream, ~IsMultichannel(stream),
           stream.stream_record_size \in 1..kDdrBurstSize,
           stream.input_chunks_per_record \in (0..kDatapathLength) \cup {NotGiven},
           SetupError(stream, FALSE) = "none"
    PROVE  BurstFits(stream, RecordsPerDDRBurst(stream, FALSE))
<1>1. /\ RecordsPerDDRBurst(stream, FALSE) # 0
      /\ Len(Specification(stream)) = stream.stream_record_size
      /\ stream.input_chunks_per_record # NotGiven
  BY TestsPassed
<1>2. /\ RecordsPerDDRBurst(stream, FALSE) \in PowersOfTwo
      /\ RecordsPerDDRBurst(stream, FALSE) * stream.stream_record_size <= kDdrBurstSize
  BY <1>1, OutputRoom
<1>3. PowersOfTwo \in SUBSET (Nat \ {0})
  BY PowersListed
<1>4. QED
  BY <1>2, <1>3 DEF BurstFits

(* The parameters of a stream that is set up, and the stream it is from.   *)
IsDataOf(data, d, k) ==
    /\ k \in DOMAIN streams[d]
    /\ data = SetupData(streams[d][k], d = "input", Len(streams[d]), k - 1)
    /\ SetupError(streams[d][k], d = "input") = "none"
    /\ streams[d][k].stream_specification \in Seq(Nat \cup {NoColumn})
    /\ streams[d][k].stream_record_size \in 1..kDdrBurstSize
    /\ streams[d][k].input_chunks_per_record \in (0..kDatapathLength) \cup {NotGiven}
    /\ d = "output" => ~IsMultichannel(streams[d][k])

(* What IInv says of one stream that has been set up.                      *)
LEMMA DataKnown ==
    ASSUME IInv, NEW d \in Directions, NEW k \in DOMAIN setup_data[d]
    PROVE  IsDataOf(setup_data[d][k], d, k)
<1>1. IsSequence(setup_data[d]) /\ streams \in StreamSets /\ IsStreamSet(streams)
  BY DEF IInv, SetupOK
<1>2. k \in Nat \ {0}
  BY <1>1, AppendSequence
<1>3. IsSetUp(d, k)
  BY DEF IInv, DataOK
<1>4. IsSequence(streams[d])
  BY <1>1, StreamsTyped DEF Directions
<1>5. k \in DOMAIN streams[d]
  <2>1. Len(streams[d]) \in Nat /\ DOMAIN streams[d] = 1..Len(streams[d])
    BY <1>4, AppendSequence
  <2>2. QED
    BY <1>2, <1>3, <2>1 DEF IsSetUp
<1>6. streams[d][k] \in ToSet(streams[d])
  BY <1>5 DEF ToSet
<1>7. streams[d][k] \in ToSet(streams.input) \cup ToSet(streams.output)
  BY <1>6 DEF Directions
<1>8. /\ streams[d][k].stream_specification \in Seq(Nat \cup {NoColumn})
      /\ streams[d][k].stream_record_size \in 1..kDdrBurstSize
      /\ streams[d][k].input_chunks_per_record \in (0..kDatapathLength) \cup {NotGiven}
  <2>1. IsStream(streams[d][k])
    BY <1>1, <1>7, StreamsTyped, Zenon
  <2>2. QED
    BY <1>1, <1>7, <2>1, Zenon DEF IsStream, IsStreamSet
<1>9. d = "output" => ~IsMultichannel(streams[d][k])
  BY <1>1, <1>6 DEF IsStreamSet
<1>10. QED
  BY <1>3, <1>5, <1>8, <1>9, Zenon DEF IsSetUp, IsDataOf

(* Whatever the streams, a burst of each has whole records and at least    *)
(* one, takes the cycles it needs, and fits the buffer, if no columns are  *)
(* dropped on the way to a merge sorter (FindMinViableRecordsPerDDRBurst,  *)
(* CalculateRecordCountPerFetch, CalculateDDRBurstLength).                 *)
THEOREM BurstsFitHolds ==
    ASSUME SorterFits
    PROVE  Spec => []BurstsFit
<1>1. ASSUME IInv, NEW d \in Directions, NEW data \in ToSet(setup_data[d])
      PROVE  /\ BurstSize(data) > 0
             /\ data.ddr_burst_length * kDdrSizePerCycle
                    \in BurstSize(data)..(BurstSize(data) + kDdrSizePerCycle - 1)
             /\ IsMultichannel(data.stream) \/ data.records_per_ddr_burst \in PowersOfTwo
             /\ ~(IsMultichannel(data.stream) /\ DropsColumns(data.stream)) =>
                    BurstSize(data) <= kDdrBurstSize
  <2>1. PICK k \in DOMAIN setup_data[d] : IsDataOf(data, d, k)
    BY <1>1, DataKnown DEF ToSet
  <2> DEFINE stream == streams[d][k]
             size == stream.stream_record_size
             records == data.records_per_ddr_burst
  <2>2. /\ data.stream = stream
        /\ records = RecordsPerDDRBurst(stream, d = "input")
        /\ data.ddr_burst_length = CalculateDDRBurstLength(size, records)
    BY <2>1, Zenon DEF SetupData, IsDataOf
  <2>3. size \in Nat \ {0}
    BY <2>1, DatapathAssumption DEF IsDataOf
  <2>4. BurstFits(stream, records)
    <3>1. CASE d = "input"
      <4>1. records = RecordsPerDDRBurst(stream, TRUE) /\ SetupError(stream, TRUE) = "none"
        BY <2>1, <2>2, <3>1 DEF IsDataOf
      <4>2. CASE IsMultichannel(stream)
        BY <2>1, <2>3, <4>1, <4>2, MultichannelBurstFits DEF IsDataOf
      <4>3. CASE ~IsMultichannel(stream)
        BY <2>1, <4>1, <4>3, InputBurstFits DEF IsDataOf
      <4>4. QED
        BY <4>2, <4>3
    <3>2. CASE d = "output"
      <4>1. /\ records = RecordsPerDDRBurst(stream, FALSE)
            /\ SetupError(stream, FALSE) = "none"
        BY <2>1, <2>2, <3>2 DEF IsDataOf
      <4>2. QED
        BY <2>1, <3>2, <4>1, OutputBurstFits DEF IsDataOf
    <3>3. QED
      BY <3>1, <3>2 DEF Directions
  <2>5. BurstSize(data) = records * size
    BY <2>2 DEF BurstSize
  <2> HIDE DEF stream, size, records
  <2>6. /\ records \in Nat \ {0}
        /\ IsMultichannel(stream) \/ records \in PowersOfTwo
        /\ ~(IsMultichannel(stream) /\ DropsColumns(stream)) =>
               records * size <= kDdrBurstSize
    BY <2>4 DEF BurstFits, size
  <2>7. CalculateDDRBurstLength(size, records) * kDdrSizePerCycle
            \in (records * size)..(records * size + kDdrSizePerCycle - 1)
    BY <2>3, <2>6, CyclesHoldBurst
  <2>8. records * size > 0
    BY <2>3, <2>6
  <2>9. QED
    BY <2>2, <2>5, <2>6, <2>7, <2>8 DEF records
<1>2. IInv => BurstsFit
  BY <1>1, Zenon DEF BurstsFit, Directions
<1>3. QED
  BY <1>2, InvariantHolds, PTL

-----------------------------------------------------------------------------
(***************************************************************************)
(* The channels of a merge sort.                                           *)
(***************************************************************************)

(* A quotient is known by its remainder.                                   *)
LEMMA QuotientKnown ==
    ASSUME NEW b \in Nat \ {0}, NEW q \in Nat, NEW r \in 0..(b - 1)
    PROVE  (q * b + r) \div b = q
<1> DEFINE n == q * b + r
           d == n \div b
<1>1. n \in Nat
  OBVIOUS
<1>2. d \in Nat /\ d * b <= n /\ n < d * b + b
  BY <1>1, Division, Zenon
<1>3. n = q * b + r
  OBVIOUS
<1> HIDE DEF d, n
<1>4. ASSUME d < q PROVE FALSE
  <2>1. (d + 1) * b <= q * b
    BY <1>2, <1>4
  <2>2. (d + 1) * b = d * b + b /\ d * b \in Nat /\ q * b \in Nat
    BY <1>2
  <2>3. QED
    BY <1>2, <1>3, <2>1, <2>2
<1>5. ASSUME q < d PROVE FALSE
  <2>1. (q + 1) * b <= d * b
    BY <1>2, <1>5
  <2>2. (q + 1) * b = q * b + b /\ d * b \in Nat /\ q * b \in Nat
    BY <1>2
  <2>3. QED
    BY <1>2, <1>3, <2>1, <2>2
<1>6. QED
  BY <1>2, <1>4, <1>5 DEF d, n

(* How many channels have records, and how many the last of them has       *)
(* (SetMultiChannelSetupData).                                             *)
ActiveChannels(count, per_channel) == (count + per_channel - 1) \div per_channel
RecordsOfChannel(count, per_channel, j) ==
    IF j >= ActiveChannels(count, per_channel) THEN 0
    ELSE IF j = ActiveChannels(count, per_channel) - 1 /\ count % per_channel # 0
    THEN count % per_channel
    ELSE per_channel

(* The channels that hold records hold all of them, the last one the rest. *)
LEMMA ActiveChannelsHoldAll ==
    ASSUME NEW count \in Nat, NEW per_channel \in Nat \ {0}
    PROVE  LET active == ActiveChannels(count, per_channel)
           IN  /\ active \in Nat
               /\ active = 0 => count = 0
               /\ active > 0 => (active - 1) * per_channel
                                    + RecordsOfChannel(count, per_channel, active - 1) = count
               /\ \A channels \in Nat : count <= channels * per_channel => active <= channels
<1> DEFINE active == ActiveChannels(count, per_channel)
           q == count \div per_channel
           left == count % per_channel
<1>1. q \in Nat /\ left \in 0..(per_channel - 1) /\ q * per_channel + left = count
  BY Division, Zenon
<1>2. active = (count + per_channel - 1) \div per_channel
  BY DEF ActiveChannels
<1>3. RecordsOfChannel(count, per_channel, active - 1) =
          IF active - 1 >= active THEN 0
          ELSE IF active - 1 = active - 1 /\ left # 0 THEN left ELSE per_channel
  BY Zenon DEF RecordsOfChannel
<1> HIDE DEF q, left, active
<1>4. CASE left = 0
  <2>1. count + per_channel - 1 = q * per_channel + (per_channel - 1)
    BY <1>1, <1>4
  <2>2. per_channel - 1 \in 0..(per_channel - 1)
    OBVIOUS
  <2>3. active = q
    BY <1>1, <1>2, <2>1, <2>2, QuotientKnown
  <2>4. ASSUME active > 0
        PROVE  (active - 1) * per_channel + per_channel = count
    BY <1>1, <1>4, <2>3, <2>4
  <2>5. ASSUME NEW channels \in Nat, count <= channels * per_channel
        PROVE  q <= channels
    <3>1. SUFFICES ASSUME q >= channels + 1 PROVE FALSE
      BY <1>1
    <3>2. (channels + 1) * per_channel <= q * per_channel
      BY <1>1, <3>1
    <3>3. /\ (channels + 1) * per_channel = channels * per_channel + per_channel
          /\ channels * per_channel \in Nat /\ q * per_channel \in Nat
      BY <1>1
    <3>4. QED
      BY <1>1, <1>4, <2>5, <3>2, <3>3
  <2>6. QED
    BY <1>1, <1>3, <1>4, <2>3, <2>4, <2>5 DEF active
<1>5. CASE left # 0
  <2>1. count + per_channel - 1 = (q + 1) * per_channel + (left - 1)
    BY <1>1
  <2>2. left - 1 \in 0..(per_channel - 1) /\ q + 1 \in Nat
    BY <1>1, <1>5
  <2>3. active = q + 1
    BY <1>2, <2>1, <2>2, QuotientKnown
  <2>4. (active - 1) * per_channel + left = count
    BY <1>1, <2>3
  <2>5. ASSUME NEW channels \in Nat, count <= channels * per_channel
        PROVE  q + 1 <= channels
    <3>1. SUFFICES ASSUME q >= channels PROVE FALSE
      BY <1>1
    <3>2. channels * per_channel <= q * per_channel
      BY <1>1, <3>1
    <3>3. channels * per_channel \in Nat /\ q * per_channel \in Nat
      BY <1>1
    <3>4. QED
      BY <1>1, <1>5, <2>5, <3>2, <3>3
  <2>6. QED
    BY <1>1, <1>3, <1>5, <2>3, <2>4, <2>5 DEF active
<1>6. QED
  BY <1>4, <1>5

(* The records in the channels before one.                                 *)
RecordsUpTo(count, per_channel, j) ==
    IF j < ActiveChannels(count, per_channel) THEN j * per_channel ELSE count

(* Each channel goes on where the one before ends.                         *)
LEMMA ChannelAfterChannel ==
    ASSUME NEW count \in Nat, NEW per_channel \in Nat \ {0}
    PROVE  /\ RecordsUpTo(count, per_channel, 0) = 0
           /\ \A j \in Nat : RecordsUpTo(count, per_channel, j) \in Nat
           /\ \A j \in Nat \ {0} : RecordsUpTo(count, per_channel, j) =
                  RecordsUpTo(count, per_channel, j - 1)
                      + RecordsOfChannel(count, per_channel, j - 1)
<1> DEFINE active == ActiveChannels(count, per_channel)
<1>1. /\ active \in Nat
      /\ active = 0 => count = 0
      /\ active > 0 => (active - 1) * per_channel
                           + RecordsOfChannel(count, per_channel, active - 1) = count
  BY ActiveChannelsHoldAll
<1>2. \A j \in Nat : RecordsUpTo(count, per_channel, j)
                         = IF j < active THEN j * per_channel ELSE count
  BY DEF RecordsUpTo
<1>3. \A j \in Nat : /\ j >= active => RecordsOfChannel(count, per_channel, j) = 0
                     /\ j < active - 1 => RecordsOfChannel(count, per_channel, j) = per_channel
  BY <1>1 DEF RecordsOfChannel
<1> HIDE DEF active
<1>4. RecordsUpTo(count, per_channel, 0) = 0
  BY <1>1, <1>2
<1>5. \A j \in Nat : RecordsUpTo(count, per_channel, j) \in Nat
  BY <1>1, <1>2
<1>6. ASSUME NEW j \in Nat \ {0}
      PROVE  RecordsUpTo(count, per_channel, j) =
                 RecordsUpTo(count, per_channel, j - 1)
                     + RecordsOfChannel(count, per_channel, j - 1)
  <2>1. j - 1 \in Nat
    OBVIOUS
  <2>2. CASE j < active
    <3>1. j * per_channel = (j - 1) * per_channel + per_channel
      OBVIOUS
    <3>2. /\ RecordsUpTo(count, per_channel, j) = j * per_channel
          /\ RecordsUpTo(count, per_channel, j - 1) = (j - 1) * per_channel
          /\ RecordsOfChannel(count, per_channel, j - 1) = per_channel
      BY <1>1, <1>2, <1>3, <2>1, <2>2
    <3>3. QED
      BY <3>1, <3>2
  <2>3. CASE j = active
    <3>1. /\ RecordsUpTo(count, per_channel, j) = count
          /\ RecordsUpTo(count, per_channel, j - 1) = (j - 1) * per_channel
      BY <1>2, <2>1, <2>3
    <3>2. QED
      BY <1>1, <2>3, <3>1
  <2>4. CASE j > active
    <3>1. /\ RecordsUpTo(count, per_channel, j) = count
          /\ RecordsUpTo(count, per_channel, j - 1) = count
          /\ RecordsOfChannel(count, per_channel, j - 1) = 0
      BY <1>1, <1>2, <1>3, <2>1, <2>4
    <3>2. QED
      BY <3>1
  <2>5. QED
    BY <1>1, <2>2, <2>3, <2>4
<1>7. QED
  BY <1>4, <1>5, <1>6

(* The sum over the channels, by induction over them.                      *)
IsCount(before, data, n) ==
    before = [i \in 0..n |-> IF i = 0 THEN 0
                             ELSE before[i - 1] + data.channels[i - 1].record_count]

(* The count over the channels is the one its steps determine.             *)
LEMMA RecordsAddUp ==
    ASSUME NEW data, NEW count \in Nat, NEW per_channel \in Nat \ {0}, NEW n \in Nat,
           \A i \in 0..(n - 1) :
              data.channels[i].record_count = RecordsOfChannel(count, per_channel, i)
    PROVE  RecordsBefore(data, n) = RecordsUpTo(count, per_channel, n)
<1> DEFINE sum(i) == RecordsUpTo(count, per_channel, i)
           f == [i \in 0..n |-> sum(i)]
           before == CHOOSE before : IsCount(before, data, n)
<1>1. sum(0) = 0
  BY ChannelAfterChannel
<1>2. ASSUME NEW i \in 1..n
      PROVE  /\ i - 1 \in 0..(n - 1) /\ i - 1 \in 0..n
             /\ sum(i) = sum(i - 1) + data.channels[i - 1].record_count
  <2>1. i \in Nat \ {0} /\ i - 1 \in 0..(n - 1) /\ i - 1 \in 0..n
    OBVIOUS
  <2>2. sum(i) = sum(i - 1) + RecordsOfChannel(count, per_channel, i - 1)
    BY <2>1, ChannelAfterChannel
  <2>3. QED
    BY <2>1, <2>2
<1>3. RecordsBefore(data, n) = before[n]
  BY Zenon DEF RecordsBefore, IsCount
<1> HIDE DEF sum
<1>4. IsCount(f, data, n)
  <2>1. ASSUME NEW i \in 0..n
        PROVE  f[i] = IF i = 0 THEN 0 ELSE f[i - 1] + data.channels[i - 1].record_count
    <3>1. CASE i = 0
      BY <1>1, <3>1
    <3>2. CASE i # 0
      <4>1. i \in 1..n
        BY <3>2
      <4>2. f[i - 1] = sum(i - 1) /\ f[i] = sum(i)
        BY <1>2, <4>1
      <4>3. QED
        BY <1>2, <3>2, <4>1, <4>2
    <3>3. QED
      BY <3>1, <3>2
  <2>2. f = [i \in 0..n |-> f[i]]
    OBVIOUS
  <2> HIDE DEF f
  <2>3. QED
    BY <2>1, <2>2 DEF IsCount
<1>5. IsCount(before, data, n)
  BY <1>4, Zenon
<1> HIDE DEF before, f
<1>6. \A i \in 0..n : before[i] = IF i = 0 THEN 0
                                  ELSE before[i - 1] + data.channels[i - 1].record_count
  BY <1>5 DEF IsCount
<1> DEFINE bad == {i \in 0..n : before[i] # sum(i)}
<1>7. bad = {}
  <2>1. SUFFICES ASSUME bad # {} PROVE FALSE
    OBVIOUS
  <2>2. bad \in SUBSET Nat
    OBVIOUS
  <2> HIDE DEF bad
  <2>3. PICK k \in bad : \A l \in bad : k <= l
    BY <2>1, <2>2, LeastNumber
  <2>4. k \in 0..n /\ before[k] # sum(k)
    BY DEF bad
  <2>5. k # 0
    BY <1>1, <1>6, <2>4
  <2>6. k \in 1..n /\ k - 1 \in 0..n /\ ~(k <= k - 1)
    BY <2>4, <2>5
  <2>7. before[k - 1] = sum(k - 1)
    BY <2>3, <2>6 DEF bad
  <2>8. QED
    BY <1>2, <1>6, <2>4, <2>5, <2>6, <2>7
<1>8. n \in 0..n
  OBVIOUS
<1>9. QED
  BY <1>3, <1>7, <1>8 DEF sum

(* What ElasticModuleChecker has found stays true.                         *)
RunChecked ==
    direction # "validate" =>
        \A i \in MultichannelInputs : IsMergeSortBigEnough(streams.input[i])

(* The sorters of an accepted run are checked.                             *)
LEMMA RunCheckedHolds == Spec => []RunChecked
<1>1. Init => RunChecked
  BY DEF Init, RunChecked
<1>2. ASSUME RunChecked, [Next]_vars PROVE RunChecked'
  <2>1. streams' = streams => MultichannelInputs' = MultichannelInputs
    BY DEF MultichannelInputs
  <2>2. CASE IsRunValid
    BY <2>1, <2>2 DEF IsRunValid, RunChecked
  <2>3. CASE RunIsInvalid \/ SetupMergeSortModule \/ UNCHANGED vars
    BY <1>2, <2>1, <2>3 DEF RunIsInvalid, SetupMergeSortModule, vars, RunChecked
  <2>4. CASE SetupStream \/ FinishStreams
    <3>1. direction # "validate" /\ streams' = streams
      BY <2>4 DEF SetupStream, FinishStreams
    <3>2. QED
      BY <1>2, <2>1, <3>1 DEF RunChecked
  <2>5. CASE FinishModules
    BY <1>2, <2>1, <2>5 DEF FinishModules, RunChecked
  <2>6. QED
    BY <1>2, <2>2, <2>3, <2>4, <2>5 DEF Next
<1>3. QED
  BY <1>1, <1>2, PTL DEF Spec

(* An address that is a multiple of 4 can be given in units of 16 bytes.   *)
LEMMA WholeAddress ==
    ASSUME NEW a \in Nat, a % 4 = 0, NEW b \in Nat, b % 4 = 0, NEW j \in Nat
    PROVE  4 * ((a + b * j) \div 4) = a + b * j
<1> DEFINE p == a \div 4
           q == b \div 4
<1>1. p \in Nat /\ q \in Nat /\ a = 4 * p /\ b = 4 * q
  OBVIOUS
<1> HIDE DEF p, q
<1>2. b * j = 4 * (q * j) /\ q * j \in Nat
  BY <1>1
<1>3. QED
  BY <1>1, <1>2

(* The channels of a stream that is big enough for its merge sorter.       *)
LEMMA ChannelsOfStream ==
    ASSUME NEW stream, IsMergeSortBigEnough(stream),
           stream.stream_record_count \in Nat, stream.max_channel_count \in Nat,
           stream.records_per_channel \in Nat \ {0},
           NEW j \in 0..(stream.max_channel_count - 1)
    PROVE  LET channel == SetMultiChannelSetupData(stream)[j]
               count == stream.stream_record_count
               per_channel == stream.records_per_channel
           IN  /\ channel.record_count = RecordsOfChannel(count, per_channel, j)
               /\ j < ActiveChannels(count, per_channel) =>
                      channel.stream_address =
                          (stream.physical_address
                           + stream.stream_record_size * per_channel * j) \div 4
<1> DEFINE count == stream.stream_record_count
           per_channel == stream.records_per_channel
           channels == stream.max_channel_count
           active == ActiveChannels(count, per_channel)
<1>1. active \in Nat /\ active <= channels
  <2>1. count <= channels * per_channel
    BY DEF IsMergeSortBigEnough
  <2>2. QED
    BY <2>1, ActiveChannelsHoldAll
<1>2. active = (count + per_channel - 1) \div per_channel
  BY DEF ActiveChannels
<1>3. SetMultiChannelSetupData(stream) =
          [i \in 0..(Max({active, channels}) - 1) |->
              [record_count |-> IF i >= active THEN 0
                                ELSE IF i = active - 1 /\ count % per_channel # 0
                                THEN count % per_channel
                                ELSE per_channel,
               stream_address |->
                   (IF i >= active THEN stream.physical_address
                    ELSE stream.physical_address
                         + stream.stream_record_size * per_channel * i) \div 4]]
  BY <1>2, Zenon DEF SetMultiChannelSetupData, ActiveChannels
<1>4. j \in 0..(Max({active, channels}) - 1)
  <2>1. active \in Int /\ channels \in Int
    BY <1>1
  <2>2. Max({active, channels}) \in {active, channels} /\ Max({active, channels}) >= channels
    BY <2>1, GreaterOfTwo, Zenon
  <2> HIDE DEF active
  <2>3. QED
    BY <1>1, <2>2
<1>5. RecordsOfChannel(count, per_channel, j) =
          IF j >= active THEN 0
          ELSE IF j = active - 1 /\ count % per_channel # 0 THEN count % per_channel
          ELSE per_channel
  BY Zenon DEF RecordsOfChannel
<1> HIDE DEF active, count, per_channel, channels
<1>6. SetMultiChannelSetupData(stream)[j].record_count
          = RecordsOfChannel(count, per_channel, j)
  BY <1>3, <1>4, <1>5
<1>7. j < active => SetMultiChannelSetupData(stream)[j].stream_address =
                        (stream.physical_address
                         + stream.stream_record_size * per_channel * j) \div 4
  BY <1>1, <1>3, <1>4
<1>8. QED
  BY <1>6, <1>7 DEF active, count, per_channel

(* Whatever its size, all records of a sorted stream are in the channels   *)
(* of its merge sorter, one channel after the other                        *)
(* (SetMultiChannelSetupData, IsMergeSortBigEnough).                       *)
THEOREM ChannelsCoverStreamHolds == Spec => []ChannelsCoverStream
<1>1. ASSUME IInv, RunChecked, NEW data \in ToSet(setup_data.input),
             IsMultichannel(data.stream)
      PROVE  /\ RecordsBefore(data, data.active_channel_count)
                    = data.stream.stream_record_count
             /\ StartsAligned(data.stream) =>
                   \A j \in 0..(data.active_channel_count - 1) :
                       data.channels[j].record_count > 0 =>
                           4 * data.channels[j].stream_address
                               = data.stream.physical_address
                                 + data.stream.stream_record_size * RecordsBefore(data, j)
  <2>1. "input" \in Directions /\ setup_data["input"] = setup_data.input
    BY DEF Directions
  <2>2. PICK k \in DOMAIN setup_data.input : IsDataOf(data, "input", k)
    BY <1>1, <2>1, DataKnown DEF ToSet
  <2> DEFINE stream == streams.input[k]
             count == stream.stream_record_count
             per_channel == stream.records_per_channel
             channels == stream.max_channel_count
             size == stream.stream_record_size
             address == stream.physical_address
  <2>3. /\ data.stream = stream /\ data.active_channel_count = channels
        /\ data.channels = IF IsMultichannel(stream) THEN SetMultiChannelSetupData(stream)
                           ELSE SetSingleChannelSetupData(stream, TRUE)
    BY <2>2, Zenon DEF SetupData, IsDataOf
  <2>4. IsMultichannel(stream) /\ data.channels = SetMultiChannelSetupData(stream)
    BY <1>1, <2>3
  <2>5. /\ count \in Nat /\ channels \in Nat /\ per_channel \in Nat \ {0}
        /\ address \in Nat /\ address % 4 = 0
    <3>1. streams \in StreamSets
      BY <1>1 DEF IInv, SetupOK
    <3>2. stream \in ToSet(streams.input)
      BY <2>2 DEF IsDataOf, ToSet
    <3>3. QED
      BY <2>4, <3>1, <3>2, StreamsTyped DEF IsStream
  <2>6. IsMergeSortBigEnough(stream)
    <3>1. direction # "validate"
      <4>1. setup_data.input # <<>>
        BY DEF ToSet
      <4>2. QED
        BY <1>1, <4>1 DEF IInv, CountsOK
    <3>2. k \in MultichannelInputs
      BY <2>2, <2>4 DEF MultichannelInputs, IsDataOf
    <3>3. QED
      BY <1>1, <3>1, <3>2 DEF RunChecked
  <2> DEFINE active == ActiveChannels(count, per_channel)
  <2>7. active \in Nat /\ active <= channels
    <3>1. count <= channels * per_channel
      BY <2>6 DEF IsMergeSortBigEnough
    <3>2. QED
      BY <2>5, <3>1, ActiveChannelsHoldAll
  <2>8. \A j \in 0..(channels - 1) :
            /\ data.channels[j].record_count = RecordsOfChannel(count, per_channel, j)
            /\ j < active => data.channels[j].stream_address =
                                 (address + size * per_channel * j) \div 4
    BY <2>4, <2>5, <2>6, ChannelsOfStream
  <2>9. size \in Nat
    BY <2>2 DEF IsDataOf
  <2>10. \A n \in 0..channels : RecordsBefore(data, n) = RecordsUpTo(count, per_channel, n)
    <3> HIDE DEF count, per_channel, channels, active
    <3> TAKE n \in 0..channels
    <3>1. n \in Nat /\ \A i \in 0..(n - 1) : i \in 0..(channels - 1)
      BY <2>5
    <3>2. \A i \in 0..(n - 1) :
             data.channels[i].record_count = RecordsOfChannel(count, per_channel, i)
      BY <2>8, <3>1
    <3>3. QED
      BY <2>5, <3>1, <3>2, RecordsAddUp, ZenonT(40)
  <2>11. \A j \in Nat : /\ RecordsUpTo(count, per_channel, j)
                              = IF j < active THEN j * per_channel ELSE count
                        /\ j >= active => RecordsOfChannel(count, per_channel, j) = 0
    BY DEF RecordsUpTo, RecordsOfChannel
  <2>12. StartsAligned(stream) <=> (size * per_channel) % 4 = 0
    BY DEF StartsAligned
  <2> HIDE DEF stream, count, per_channel, channels, size, address, active
  <2>13. RecordsBefore(data, channels) = count
    BY <2>5, <2>7, <2>10, <2>11
  <2>14. ASSUME StartsAligned(stream), NEW j \in 0..(channels - 1),
                data.channels[j].record_count > 0
         PROVE  4 * data.channels[j].stream_address = address + size * RecordsBefore(data, j)
    <3>1. j \in Nat /\ j \in 0..channels
      BY <2>5
    <3>2. j < active
      <4>1. data.channels[j].record_count # 0
        BY <2>14
      <4>2. QED
        BY <2>7, <2>8, <2>11, <3>1, <4>1
    <3>3. RecordsBefore(data, j) = j * per_channel
      BY <2>10, <2>11, <3>1, <3>2
    <3>4. size * per_channel \in Nat /\ (size * per_channel) % 4 = 0
      BY <2>5, <2>9, <2>12, <2>14
    <3>5. data.channels[j].stream_address = (address + size * per_channel * j) \div 4
      BY <2>8, <3>2
    <3>6. 4 * ((address + (size * per_channel) * j) \div 4) = address + (size * per_channel) * j
      <4> DEFINE step == size * per_channel
      <4>1. step \in Nat /\ step % 4 = 0
        BY <3>4
      <4> HIDE DEF step
      <4>2. 4 * ((address + step * j) \div 4) = address + step * j
        BY <2>5, <3>1, <4>1, WholeAddress, ZenonT(40)
      <4>3. QED
        BY <4>2 DEF step
    <3>7. (size * per_channel) * j = size * (j * per_channel)
      BY <2>5, <2>9, <3>1
    <3>8. QED
      BY <3>3, <3>5, <3>6, <3>7
  <2>15. QED
    BY <2>3, <2>13, <2>14 DEF stream, count, channels, size, address
<1>2. IInv /\ RunChecked => ChannelsCoverStream
  BY <1>1, Zenon DEF ChannelsCoverStream
<1>3. QED
  BY <1>2, InvariantHolds, RunCheckedHolds, PTL

-----------------------------------------------------------------------------
(***************************************************************************)
(* The merge sorters.                                                      *)
(***************************************************************************)

(* The sorter as it is: MergeSortSetup is called with 2048 and 64, and     *)
(* keeps 240 + 2 * 32 + 2 * 64 places.                                     *)
TheSorter ==
    /\ SortBufferSpace = 2048 /\ SortChannelCount = 64
    /\ InternalLogicReserve = 432

(* A fetch of this sorter has no records, one, or a number divided by 4.   *)
LEMMA FetchesOfSorter ==
    ASSUME TheSorter, NEW chunks \in Nat \ {0}
    PROVE  LET p == Quotient(CalculateSortBufferSize(chunks), 2)
           IN  p \in Int /\ (p <= 1 \/ p = 4 \/ p = 12)
<1> DEFINE space == SortBufferSpace \div chunks
           n == space - 16 - InternalLogicReserve
           share == Quotient(n, SortChannelCount)
           most == (2 * SortBufferSpace) \div SortChannelCount
           b == CalculateSortBufferSize(chunks)
<1>1. b = Min({most, share})
  BY DEF CalculateSortBufferSize
<1>2. /\ space = 2048 \div chunks
      /\ n = space - 448
      /\ share = IF n >= 0 THEN n \div 64 ELSE -((-n) \div 64)
      /\ most = 64
  BY DEF TheSorter, Quotient
<1> HIDE DEF space, n, share, most, b
<1>3. space \in Nat /\ space * chunks <= 2048 /\ 2048 < space * chunks + chunks
  BY <1>2
<1>4. \/ chunks = 1 /\ share = 25
      \/ chunks = 2 /\ share = 9
      \/ chunks = 3 /\ share = 3
      \/ chunks >= 4 /\ share <= 1 /\ share \in Int
  <2>1. CASE chunks = 1
    BY <1>2, <2>1
  <2>2. CASE chunks = 2
    BY <1>2, <2>2
  <2>3. CASE chunks = 3
    BY <1>2, <2>3
  <2>4. CASE chunks >= 4
    <3>1. space * 4 <= space * chunks
      BY <1>3, <2>4
    <3>2. space <= 512
      BY <1>3, <3>1
    <3>3. QED
      BY <1>2, <1>3, <2>4, <3>2
  <2>5. QED
    BY <2>1, <2>2, <2>3, <2>4
<1>5. b \in {most, share} /\ b <= most /\ b <= share
  <2>1. most \in Int /\ share \in Int
    BY <1>2, <1>4
  <2>2. QED
    BY <1>1, <2>1, LesserOfTwo, Zenon
<1>6. b = 25 \/ b = 9 \/ b = 3 \/ (b <= 1 /\ b \in Int)
  BY <1>2, <1>4, <1>5
<1>7. QED
  BY <1>6 DEF Quotient, b

(* So the engine, which counts with the records of the memory, and the     *)
(* sorter, which counts with those of the interface, have one number.      *)
LEMMA FetchOfAnySize ==
    ASSUME TheSorter, SorterFits, NEW chunks \in Nat \ {0}, NEW size \in Nat \ {0},
           NEW buffer_size, buffer_size = CalculateSortBufferSize(chunks),
           CalculateRecordCountPerFetch(buffer_size, size) # 0
    PROVE  CalculateRecordCountPerFetch(buffer_size, size) = Quotient(buffer_size, 2)
<1> DEFINE p == Quotient(buffer_size, 2)
           counts == {count \in 0..p : IsWholeFetch(count, size)}
           records == CalculateRecordCountPerFetch(buffer_size, size)
<1>1. p \in Int /\ (p <= 1 \/ p = 4 \/ p = 12)
  BY FetchesOfSorter
<1>2. records \in Nat \ {0} /\ IsWholeFetch(records, size)
  BY FetchFits
<1>3. records = IF p >= 0 THEN Max(counts) ELSE IF p % 4 = 0 THEN p ELSE 0
  BY Zenon DEF CalculateRecordCountPerFetch
<1> HIDE DEF p, records
<1>4. p >= 0
  BY <1>1, <1>2, <1>3
<1>5. p \in Nat /\ counts \in SUBSET (0..p) /\ 0 \in counts
  BY <1>1, <1>4 DEF IsWholeFetch
<1>6. Max(counts) \in counts /\ \A c \in counts : Max(counts) >= c
  <2> HIDE DEF counts
  <2>1. counts # {}
    BY <1>5
  <2>2. QED
    BY <1>5, <2>1, GreatestNumber, Zenon
<1>7. records \in 0..p
  BY <1>3, <1>4, <1>6
<1>8. CASE p <= 1
  BY <1>1, <1>2, <1>7, <1>8 DEF p, records
<1>9. CASE p = 4 \/ p = 12
  <2>1. (p * size) % 4 = 0
    BY <1>9
  <2>2. p \in counts
    BY <1>5, <2>1 DEF IsWholeFetch
  <2>3. records >= p
    BY <1>3, <1>4, <1>6, <2>2
  <2>4. QED
    BY <1>1, <1>7, <2>3 DEF p, records
<1>10. QED
  BY <1>1, <1>8, <1>9

(* The streams of two sorters have different numbers of sorters before.    *)
LEMMA SortersInOrder ==
    ASSUME IsSequence(streams.input), NEW i \in MultichannelInputs, NEW j \in MultichannelInputs,
           i < j
    PROVE  SortersBefore(i) \in Nat /\ SortersBefore(i) < SortersBefore(j)
<1> DEFINE before(k) == {l \in MultichannelInputs : l < k}
<1>1. MultichannelInputs \in SUBSET (1..Len(streams.input)) /\ Len(streams.input) \in Nat
  BY AppendSequence DEF MultichannelInputs
<1>2. \A k : SortersBefore(k) = Cardinality(before(k))
  BY DEF SortersBefore
<1>3. IsFiniteSet(1..Len(streams.input))
  <2>1. 1 \in Int /\ Len(streams.input) \in Int
    BY <1>1
  <2>2. QED
    BY <2>1, FS_Interval, Zenon
<1>4. \A k : IsFiniteSet(before(k))
  <2>1. \A k : before(k) \subseteq 1..Len(streams.input)
    BY <1>1
  <2>2. QED
    BY <1>3, <2>1, FS_Subset
<1>5. before(i) \cup {i} \subseteq before(j) /\ i \notin before(i)
  <2>1. \A l \in MultichannelInputs : l \in Nat
    BY <1>1
  <2>2. i \in Nat /\ j \in Nat /\ ~(i < i)
    BY <2>1
  <2>3. \A l \in MultichannelInputs : l < i => l < j
    BY <2>1, <2>2
  <2>4. QED
    BY <2>2, <2>3, Zenon
<1> HIDE DEF before
<1>6. /\ Cardinality(before(i)) \in Nat
      /\ Cardinality(before(i) \cup {i}) = Cardinality(before(i)) + 1
      /\ IsFiniteSet(before(i) \cup {i})
  BY <1>4, <1>5, FS_CardinalityType, FS_AddElement
<1>7. Cardinality(before(j)) \in Nat /\ Cardinality(before(i) \cup {i}) <= Cardinality(before(j))
  <2>1. Cardinality(before(j)) \in Nat
    BY <1>4, FS_CardinalityType, Zenon
  <2>2. Cardinality(before(i) \cup {i}) <= Cardinality(before(j))
    BY <1>4, <1>5, FS_Subset, Zenon
  <2>3. QED
    BY <2>1, <2>2
<1>8. QED
  BY <1>2, <1>6, <1>7

(* Each sorter is that of its stream, and they come after the inputs.      *)
IsSorterOf(k, i) ==
    /\ merge_sorters[k] = MergeSorter(streams.input[i])
    /\ RecordCountPerFetch(streams.input[i]) # 0
SortersInv ==
    /\ IsSequence(merge_sorters)
    /\ \A k \in DOMAIN merge_sorters, i \in MultichannelInputs :
          SortersBefore(i) = k - 1 => IsSorterOf(k, i)
    /\ direction \in {"validate", "input", "output"} => merge_sorters = <<>>
    /\ direction \in {"output", "modules", "done"} =>
          Len(setup_data.input) = Len(streams.input)

(* No sorters are a sequence of sorters.                                   *)
LEMMA EmptyIsSequence == IsSequence(<<>>)
<1> DEFINE S == ToSet(<<>>)
<1>1. <<>> \in Seq(S)
  <2> HIDE DEF S
  <2>1. QED
    OBVIOUS
<1>2. QED
  BY <1>1 DEF S, IsSequence

(* No sorter is set up at the start.                                       *)
LEMMA InitSorters == Init => SortersInv
<1> SUFFICES ASSUME Init PROVE SortersInv
  OBVIOUS
<1>1. merge_sorters = <<>> /\ direction = "validate"
  BY DEF Init
<1>2. DOMAIN merge_sorters = {}
  BY <1>1
<1>3. IsSequence(merge_sorters)
  BY <1>1, EmptyIsSequence
<1>4. direction \notin {"output", "modules", "done"}
  BY <1>1
<1>5. QED
  BY <1>1, <1>2, <1>3, <1>4, Zenon DEF SortersInv

(* Nothing changes for the sorters there are.                              *)
LEMMA SortersStay ==
    ASSUME SortersInv, streams' = streams, merge_sorters' = merge_sorters
    PROVE  /\ IsSequence(merge_sorters)'
           /\ (\A k \in DOMAIN merge_sorters, i \in MultichannelInputs :
                  SortersBefore(i) = k - 1 => IsSorterOf(k, i))'
<1>1. MultichannelInputs' = MultichannelInputs
  BY DEF MultichannelInputs
<1>2. \A i : SortersBefore(i)' = SortersBefore(i)
  BY <1>1 DEF SortersBefore
<1>3. IsSequence(merge_sorters)'
  BY Zenon DEF SortersInv, IsSequence
<1>4. QED
  BY <1>1, <1>2, <1>3, Zenon DEF SortersInv, IsSorterOf

(* Setting up one merge sorter keeps the others apart from it.             *)
LEMMA SetupSorter ==
    ASSUME IInv, SortersInv, SetupMergeSortModule
    PROVE  SortersInv'
<1>1. PICK i \in MultichannelInputs :
          /\ SortersBefore(i) = Len(merge_sorters)
          /\ \/ merge_sorters' = merge_sorters
             \/ /\ RecordCountPerFetch(streams.input[i]) # 0
                /\ merge_sorters' = Append(merge_sorters, MergeSorter(streams.input[i]))
  BY DEF SetupMergeSortModule
<1>2. /\ UNCHANGED <<streams, direction, setup_data>> /\ direction = "modules"
  BY DEF SetupMergeSortModule
<1>3. CASE merge_sorters' = merge_sorters
  <2>1. /\ IsSequence(merge_sorters)'
        /\ (\A k \in DOMAIN merge_sorters, l \in MultichannelInputs :
               SortersBefore(l) = k - 1 => IsSorterOf(k, l))'
    BY <1>2, <1>3, SortersStay
  <2>2. QED
    BY <1>2, <1>3, <2>1 DEF SortersInv
<1>4. CASE /\ RecordCountPerFetch(streams.input[i]) # 0
           /\ merge_sorters' = Append(merge_sorters, MergeSorter(streams.input[i]))
  <2> DEFINE sorter == MergeSorter(streams.input[i])
             n == Len(merge_sorters)
  <2>1. IsSequence(merge_sorters)
    BY DEF SortersInv
  <2>2. /\ IsSequence(merge_sorters') /\ n \in Nat /\ DOMAIN merge_sorters = 1..n
        /\ DOMAIN merge_sorters' = 1..(n + 1)
        /\ \A k \in 1..n : merge_sorters'[k] = merge_sorters[k]
        /\ merge_sorters'[n + 1] = sorter
    <3> HIDE DEF sorter
    <3>1. merge_sorters' = Append(merge_sorters, sorter)
      BY <1>4 DEF sorter
    <3>2. IsSequence(Append(merge_sorters, sorter))
      BY <2>1, AppendSequence
    <3>3. /\ Len(merge_sorters) \in Nat
          /\ DOMAIN merge_sorters = 1..Len(merge_sorters)
          /\ DOMAIN Append(merge_sorters, sorter) = 1..(Len(merge_sorters) + 1)
      BY <2>1, AppendSequence, Zenon
    <3>4. /\ \A k \in 1..Len(merge_sorters) : Append(merge_sorters, sorter)[k] = merge_sorters[k]
          /\ Append(merge_sorters, sorter)[Len(merge_sorters) + 1] = sorter
      BY <2>1, AppendSequence
    <3>5. QED
      BY <3>1, <3>2, <3>3, <3>4, Zenon
  <2>3. MultichannelInputs' = MultichannelInputs
    BY <1>2 DEF MultichannelInputs
  <2>4. \A l : SortersBefore(l)' = SortersBefore(l)
    BY <2>3 DEF SortersBefore
  <2> HIDE DEF sorter, n
  <2>5. ASSUME NEW k \in 1..(n + 1), NEW l \in MultichannelInputs, SortersBefore(l) = k - 1
        PROVE  /\ merge_sorters'[k] = MergeSorter(streams.input[l])
               /\ RecordCountPerFetch(streams.input[l]) # 0
    <3>1. CASE k \in 1..n
      <4>1. k \in DOMAIN merge_sorters /\ merge_sorters'[k] = merge_sorters[k]
        BY <2>2, <3>1
      <4>2. IsSorterOf(k, l)
        BY <2>5, <4>1 DEF SortersInv
      <4>3. QED
        BY <4>1, <4>2, Zenon DEF IsSorterOf
    <3>2. CASE k = n + 1
      <4>1. SortersBefore(l) = SortersBefore(i)
        BY <1>1, <2>2, <2>5, <3>2 DEF n
      <4>2. IsSequence(streams.input)
        BY StreamsTyped DEF IInv, SetupOK
      <4>3. i \in Nat /\ l \in Nat
        BY <4>2, AppendSequence DEF MultichannelInputs
      <4>4. ~(l < i) /\ ~(i < l)
        BY <4>1, <4>2, SortersInOrder
      <4>5. l = i
        BY <4>3, <4>4
      <4>6. QED
        BY <1>4, <2>2, <3>2, <4>5 DEF sorter
    <3>3. QED
      BY <2>2, <3>1, <3>2
  <2>6. (\A k \in DOMAIN merge_sorters, l \in MultichannelInputs :
            SortersBefore(l) = k - 1 => IsSorterOf(k, l))'
    BY <1>2, <2>2, <2>3, <2>4, <2>5, Zenon DEF IsSorterOf
  <2>7. IsSequence(merge_sorters)'
    BY <2>2, Zenon DEF IsSequence
  <2>8. QED
    BY <1>2, <2>6, <2>7 DEF SortersInv
<1>5. QED
  BY <1>1, <1>3, <1>4

(* Every step keeps the sorters of the streams.                            *)
LEMMA NextSorters == IInv /\ SortersInv /\ [Next]_vars => SortersInv'
<1> SUFFICES ASSUME IInv, SortersInv, [Next]_vars PROVE SortersInv'
  OBVIOUS
<1>1. CASE SetupMergeSortModule
  BY <1>1, SetupSorter
<1>2. CASE \/ IsRunValid \/ RunIsInvalid \/ SetupStream \/ FinishStreams \/ FinishModules
           \/ UNCHANGED vars
  <2>1. streams' = streams /\ merge_sorters' = merge_sorters
    BY <1>2 DEF IsRunValid, RunIsInvalid, SetupStream, FinishStreams, FinishModules, vars
  <2>2. /\ IsSequence(merge_sorters)'
        /\ (\A k \in DOMAIN merge_sorters, i \in MultichannelInputs :
               SortersBefore(i) = k - 1 => IsSorterOf(k, i))'
    BY <2>1, SortersStay
  <2>3. /\ direction' \in {"validate", "input", "output"} => merge_sorters = <<>>
        /\ direction' \in {"output", "modules", "done"} =>
              Len(setup_data'.input) = Len(streams.input)
    <3>1. CASE IsRunValid \/ RunIsInvalid \/ FinishModules \/ UNCHANGED vars
      BY <3>1 DEF IsRunValid, RunIsInvalid, FinishModules, vars, SortersInv
    <3>2. CASE FinishStreams
      BY <3>2 DEF FinishStreams, SortersInv, IInv, CountsOK
    <3>3. CASE SetupStream
      <4>1. direction' = direction /\ direction \in {"input", "output"}
        BY <3>3 DEF SetupStream
      <4>2. direction = "output" => setup_data'.input = setup_data.input
        BY <3>3 DEF SetupStream, IInv, SetupOK
      <4>3. QED
        BY <4>1, <4>2 DEF SortersInv
    <3>4. QED
      BY <1>2, <3>1, <3>2, <3>3
  <2>4. QED
    BY <2>1, <2>2, <2>3 DEF SortersInv
<1>3. QED
  BY <1>1, <1>2 DEF Next

(* Whatever the sorted streams, the engine and the merge sorter agree on   *)
(* how many records are fetched at a time, although they compute it from   *)
(* different sizes of the record; two fetches have room in the buffer of a *)
(* channel, and all channels' buffers in the sorter                        *)
(* (SetupMergeSortModule, CalculateDMAStreamSetupData).                    *)
THEOREM SortersFetchBurstsHolds ==
    ASSUME SorterFits, TheSorter
    PROVE  Spec => []SortersFetchBursts
<1>1. ASSUME IInv, SortersInv, NEW k \in DOMAIN merge_sorters, NEW i \in MultichannelInputs,
             SortersBefore(i) = k - 1
      PROVE  LET sorter == merge_sorters[k]
                 data == setup_data.input[i]
             IN  /\ sorter.record_count_per_fetch = data.records_per_ddr_burst
                 /\ sorter.chunks_per_record = data.chunks_per_record
                 /\ 2 * sorter.record_count_per_fetch <= sorter.buffer_size
                 /\ (data.stream.stream_record_size * sorter.record_count_per_fetch) % 4 = 0
                 /\ SortChannelCount * sorter.buffer_size * sorter.chunks_per_record
                        <= SortBufferSpace
  <2> DEFINE stream == streams.input[i]
             sorter == merge_sorters[k]
             data == setup_data.input[i]
             size == stream.stream_record_size
             length == Len(Specification(stream))
             chunks == CalculateChunksPerRecord(length)
             buffer_size == CalculateSortBufferSize(chunks)
             fetch == Quotient(buffer_size, 2)
  <2>1. "input" \in Directions /\ setup_data["input"] = setup_data.input
    BY DEF Directions
  <2>2. i \in DOMAIN setup_data.input
    <3>1. IsSequence(streams.input) /\ IsSequence(setup_data.input)
      BY <1>1, <2>1, StreamsTyped DEF IInv, SetupOK
    <3>2. merge_sorters # <<>>
      <4>1. IsSequence(merge_sorters)
        BY <1>1 DEF SortersInv
      <4>2. Len(merge_sorters) \in Nat /\ k \in 1..Len(merge_sorters)
        BY <4>1, AppendSequence
      <4>3. QED
        BY <4>2
    <3>3. Len(setup_data.input) = Len(streams.input)
      BY <1>1, <3>2 DEF IInv, SetupOK, SortersInv
    <3>4. i \in DOMAIN streams.input
      BY DEF MultichannelInputs
    <3>5. DOMAIN setup_data.input = DOMAIN streams.input
      BY <3>1, <3>3, AppendSequence
    <3>6. QED
      BY <3>4, <3>5
  <2>3. IsDataOf(data, "input", i)
    BY <1>1, <2>1, <2>2, DataKnown
  <2>4. IsMultichannel(stream)
    BY DEF MultichannelInputs
  <2>5. /\ data = SetupData(stream, TRUE, Len(streams.input), i - 1)
        /\ SetupError(stream, TRUE) = "none"
        /\ stream.stream_specification \in Seq(Nat \cup {NoColumn})
        /\ size \in 1..kDdrBurstSize
    BY <2>3 DEF IsDataOf
  <2>6. /\ data.stream = stream
        /\ data.records_per_ddr_burst = RecordsPerDDRBurst(stream, TRUE)
        /\ data.chunks_per_record = ChunksPerRecord(stream, TRUE)
    <3> HIDE DEF data, stream
    <3>1. QED
      BY <2>5, Zenon DEF SetupData
  <2>7. /\ ChunksPerRecord(stream, TRUE) = chunks
        /\ RecordsPerDDRBurst(stream, TRUE) = CalculateRecordCountPerFetch(buffer_size, size)
    BY <2>4, Zenon DEF RecordsPerDDRBurst, ChunksPerRecord
  <2>8. CalculateRecordCountPerFetch(buffer_size, size) # 0
    BY <2>5, <2>7, TestsPassed
  <2>9. IsSorterOf(k, i)
    BY <1>1 DEF SortersInv
  <2>10. /\ sorter.chunks_per_record = chunks
         /\ sorter.buffer_size = buffer_size
         /\ sorter.record_count_per_fetch = CalculateRecordCountPerFetch(buffer_size, length)
         /\ CalculateRecordCountPerFetch(buffer_size, length) # 0
    <3>1. sorter = MergeSorter(stream) /\ RecordCountPerFetch(stream) # 0
      BY <2>9 DEF IsSorterOf
    <3>2. /\ GetStreamRecordSize(stream) = length
          /\ SortBufferSize(stream) = buffer_size
          /\ RecordCountPerFetch(stream) = CalculateRecordCountPerFetch(buffer_size, length)
      BY Zenon DEF SortBufferSize, RecordCountPerFetch, GetStreamRecordSize
    <3> HIDE DEF sorter, stream, length, buffer_size
    <3>3. /\ sorter.chunks_per_record = CalculateChunksPerRecord(GetStreamRecordSize(stream))
          /\ sorter.buffer_size = SortBufferSize(stream)
          /\ sorter.record_count_per_fetch = RecordCountPerFetch(stream)
      BY <3>1, Zenon DEF MergeSorter
    <3>4. QED
      BY <3>1, <3>2, <3>3, Zenon DEF chunks
  <2>11. size \in Nat \ {0} /\ length \in Nat \ {0}
    BY <2>5, SpecificationLength, DatapathAssumption
  <2>12. buffer_size = CalculateSortBufferSize(chunks) /\ fetch = Quotient(buffer_size, 2)
    OBVIOUS
  <2>13. chunks = CalculateChunksPerRecord(length)
    OBVIOUS
  <2> HIDE DEF stream, sorter, data, size, length, chunks, buffer_size, fetch
  <2>14. chunks \in Nat \ {0}
    BY <2>11, <2>13, ChunksHoldRecord
  <2>15. /\ CalculateRecordCountPerFetch(buffer_size, length) = fetch
         /\ CalculateRecordCountPerFetch(buffer_size, size) = fetch
    BY <2>8, <2>10, <2>11, <2>12, <2>14, FetchOfAnySize
  <2>16. /\ fetch \in Nat \ {0} /\ IsWholeFetch(fetch, size) /\ 2 * fetch <= buffer_size
         /\ SortChannelCount * buffer_size * chunks <= SortBufferSpace
    BY <2>8, <2>11, <2>12, <2>14, <2>15, FetchFits
  <2>17. (size * fetch) % 4 = 0
    <3>1. (fetch * size) % 4 = 0 /\ size * fetch = fetch * size
      BY <2>11, <2>16 DEF IsWholeFetch
    <3>2. QED
      BY <3>1
  <2>18. QED
    BY <2>6, <2>7, <2>10, <2>15, <2>16, <2>17 DEF sorter, data, size
<1>2. IInv /\ SortersInv => SortersFetchBursts
  BY <1>1, Zenon DEF SortersFetchBursts
<1>3. QED
  BY <1>2, InitSorters, NextSorters, InvariantHolds, PTL DEF Spec

-----------------------------------------------------------------------------
(***************************************************************************)
(* What stops the setup.                                                   *)
(***************************************************************************)
(* A location keeps its chunk when its position is counted from the other  *)
(* end (GetReverseIndex).                                                  *)
LEMMA ReverseInRange ==
    ASSUME NEW location \in Nat, NEW chunks \in Nat, location < chunks * kDatapathWidth
    PROVE  GetReverseIndex(location) \in Nat
           /\ GetReverseIndex(location) < chunks * kDatapathWidth
<1> DEFINE w == kDatapathWidth
           q == location \div w
           r == location % w
<1>1. w \in Nat \ {0}
  BY DatapathAssumption
<1>2. q \in Nat /\ r \in 0..(w - 1) /\ q * w + r = location
  BY <1>1, Division, Zenon
<1>3. GetReverseIndex(location) = q * w + (w - 1 - r)
  BY DEF GetReverseIndex, ChunkOf, PositionOf
<1>4. location < chunks * w
  OBVIOUS
<1> HIDE DEF q, r, w
<1>5. q + 1 <= chunks
  <2>1. SUFFICES ASSUME chunks <= q PROVE FALSE
    BY <1>2
  <2>2. chunks * w <= q * w /\ q * w \in Nat /\ chunks * w \in Nat
    BY <1>1, <1>2, <2>1
  <2>3. QED
    BY <1>2, <1>4, <2>2
<1>6. q * w + w <= chunks * w
  <2>1. (q + 1) * w <= chunks * w
    BY <1>1, <1>2, <1>5
  <2>2. (q + 1) * w = q * w + w
    BY <1>1, <1>2
  <2>3. QED
    BY <2>1, <2>2
<1>7. q * w \in Nat /\ chunks * w \in Nat
  BY <1>1, <1>2
<1>8. QED
  BY <1>1, <1>2, <1>3, <1>6, <1>7 DEF w

(* If the records of a burst fit where they come from and where they go,   *)
(* so does the extended specification (IsSpecificationValid).              *)
LEMMA ExtensionFits ==
    ASSUME NEW records \in Nat \ {0}, NEW spec, Len(spec) \in Nat,
           NEW record_size \in Nat, NEW junk_data \in {NoColumn, PostRecordJunk},
           NEW junk_data_end_point,
           \A k \in 1..Len(spec) : spec[k] = NoColumn \/ spec[k] \in 0..(record_size - 1),
           records * record_size <= kDdrBurstSize,
           RecordSlot(spec, junk_data_end_point) \in Nat \ {0},
           records * RecordSlot(spec, junk_data_end_point) <= kDdrBurstSize
    PROVE  IsSpecificationValid(
               ExtendSpecification(records, spec, record_size, junk_data, junk_data_end_point))
<1> DEFINE w == kDatapathWidth
           slot == RecordSlot(spec, junk_data_end_point)
           full == records * slot
           chunks == full \div w
           extended == ExtendSpecification(records, spec, record_size, junk_data,
                                           junk_data_end_point)
           Selection(i) ==
               IF i % slot >= Len(spec) THEN junk_data
               ELSE IF spec[(i % slot) + 1] = NoColumn THEN NoColumn
               ELSE GetReverseIndex(spec[(i % slot) + 1] + record_size * (i \div slot))
<1>1. /\ w \in Nat \ {0} /\ kDatapathLength \in Nat \ {0} /\ kDdrBurstSize = kDatapathLength * w
  BY DatapathAssumption
<1>2. slot \in Nat \ {0} /\ full <= kDdrBurstSize
  OBVIOUS
<1>3. extended = [location \in 0..(w * chunks - 1) |-> Selection(GetReverseIndex(location))]
  BY Zenon DEF ExtendSpecification, ChunkOf
<1> HIDE DEF w, extended
<1>4. full \in Nat /\ kDdrBurstSize \in Nat
  <2> HIDE DEF slot
  <2>1. QED
    BY <1>1, <1>2
<1> HIDE DEF slot, full
<1>5. chunks \in Nat /\ chunks * w <= full
  BY <1>1, <1>4, Division, Zenon
<1> HIDE DEF chunks
<1>6. w * chunks \in Nat /\ chunks * w = w * chunks
  BY <1>1, <1>5
<1>7. Cardinality(DOMAIN extended) <= kDdrBurstSize
  <2> DEFINE n == w * chunks
  <2>1. DOMAIN extended = 0..(n - 1) /\ n \in Nat /\ n <= full
    BY <1>3, <1>5, <1>6
  <2> HIDE DEF n
  <2>2. 0 \in Int /\ n - 1 \in Int
    BY <2>1
  <2>3. Cardinality(0..(n - 1)) = IF 0 > n - 1 THEN 0 ELSE (n - 1) - 0 + 1
    BY <2>2, FS_Interval, Zenon
  <2>4. Cardinality(0..(n - 1)) = n
    BY <2>1, <2>3
  <2>5. QED
    BY <1>2, <1>4, <2>1, <2>4
<1>8. ASSUME NEW location \in 0..(w * chunks - 1)
      PROVE  extended[location] < kDdrBurstSize
  <2> DEFINE i == GetReverseIndex(location)
             c == i % slot
             r == i \div slot
  <2>1. location \in Nat /\ location < chunks * w
    BY <1>6
  <2>2. i \in Nat /\ i < chunks * w
    BY <1>5, <2>1, ReverseInRange DEF w
  <2> HIDE DEF i
  <2>3. c \in 0..(slot - 1) /\ r \in Nat /\ r * slot <= i
    BY <1>2, <2>2, Division, Zenon
  <2>4. extended[location] = Selection(i)
    BY <1>3, Zenon DEF i
  <2> HIDE DEF c, r
  <2>5. r < records
    <3>1. SUFFICES ASSUME records <= r PROVE FALSE
      BY <2>3
    <3>2. records * slot <= r * slot
      BY <1>2, <2>3, <3>1
    <3>3. full = records * slot /\ r * slot \in Nat
      BY <1>2, <2>3 DEF full
    <3>4. QED
      BY <1>4, <1>5, <1>6, <2>2, <2>3, <3>2, <3>3
  <2>6. CASE c >= Len(spec)
    <3>1. extended[location] = junk_data
      BY <2>4, <2>6 DEF c
    <3>2. QED
      BY <1>4, <3>1 DEF NoColumn, PostRecordJunk
  <2>7. CASE ~(c >= Len(spec)) /\ spec[c + 1] = NoColumn
    <3>1. extended[location] = NoColumn
      BY <2>4, <2>7, Zenon DEF c
    <3>2. QED
      BY <1>4, <3>1 DEF NoColumn
  <2>8. CASE ~(c >= Len(spec)) /\ spec[c + 1] # NoColumn
    <3> DEFINE v == spec[c + 1] + record_size * r
    <3>1. extended[location] = GetReverseIndex(v)
      BY <2>4, <2>8, Zenon DEF c, r
    <3>2. spec[c + 1] \in 0..(record_size - 1)
      <4>1. c + 1 \in 1..Len(spec)
        BY <1>2, <2>3, <2>8
      <4>2. QED
        BY <2>8, <4>1
    <3>3. record_size * r + record_size <= records * record_size
      <4>1. record_size * (r + 1) <= record_size * records
        BY <2>3, <2>5
      <4>2. record_size * (r + 1) = record_size * r + record_size
        BY <2>3
      <4>3. QED
        BY <4>1, <4>2
    <3>4. v \in Nat /\ v < kDatapathLength * w
      <4>1. record_size * r \in Nat /\ records * record_size \in Nat
        BY <2>3
      <4>2. QED
        BY <1>1, <1>4, <3>2, <3>3, <4>1, SMTT(40)
    <3> HIDE DEF v
    <3>5. GetReverseIndex(v) < kDatapathLength * w
      BY <1>1, <3>4, ReverseInRange DEF w
    <3>6. QED
      BY <1>1, <3>1, <3>5
  <2>9. QED
    BY <2>6, <2>7, <2>8
<1>9. \A location \in DOMAIN extended : extended[location] < kDdrBurstSize
  BY <1>3, <1>8
<1>10. QED
  BY <1>7, <1>9 DEF IsSpecificationValid, extended

(* One configuration of a burst is not set at a position only if there is  *)
(* a chunk at that position left (AllocateAvailableChunks).                *)
LEMMA ChunkIsFree ==
    ASSUME NEW placed, NEW n \in 0..kDatapathLength, DOMAIN placed = 0..(n - 1)
    PROVE  ~IsOutOfChunks(placed)
<1> SUFFICES ASSUME NEW p \in Position, FreeChunks(placed, p) = {},
                    NEW unset \in DOMAIN placed, ~placed[unset].is_set[p]
             PROVE  FALSE
  BY DEF IsOutOfChunks
<1> DEFINE set == {chunk \in DOMAIN placed : placed[chunk].is_set[p]}
           used == {placed[chunk].chunk_selection[p] : chunk \in set}
           f == [chunk \in set |-> placed[chunk].chunk_selection[p]]
<1>1. kDatapathLength \in Nat \ {0} /\ n \in Nat
  BY DatapathAssumption
<1>2. Chunk \subseteq used
  BY DEF FreeChunks
<1>3. f \in Surjection(set, used)
  BY DEF Surjection
<1>4. set \subseteq (0..(n - 1)) \ {unset} /\ unset \in 0..(n - 1)
  OBVIOUS
<1> HIDE DEF set, used, f
<1>5. IsFiniteSet(0..(n - 1)) /\ Cardinality(0..(n - 1)) = n
  <2>1. 0 \in Int /\ n - 1 \in Int
    BY <1>1
  <2>2. /\ IsFiniteSet(0..(n - 1))
        /\ Cardinality(0..(n - 1)) = IF 0 > n - 1 THEN 0 ELSE (n - 1) - 0 + 1
    BY <2>1, FS_Interval, Zenon
  <2>3. QED
    BY <1>1, <2>2
<1>6. IsFiniteSet((0..(n - 1)) \ {unset}) /\ Cardinality((0..(n - 1)) \ {unset}) = n - 1
  BY <1>4, <1>5, FS_RemoveElement
<1>7. IsFiniteSet(set) /\ Cardinality(set) <= n - 1 /\ Cardinality(set) \in Nat
  <2> DEFINE others == (0..(n - 1)) \ {unset}
  <2>1. set \subseteq others /\ IsFiniteSet(others) /\ Cardinality(others) = n - 1
    BY <1>4, <1>6
  <2> HIDE DEF others
  <2>2. IsFiniteSet(set) /\ Cardinality(set) <= Cardinality(others)
    BY <2>1, FS_Subset, Zenon
  <2>3. Cardinality(set) \in Nat
    BY <2>2, FS_CardinalityType, Zenon
  <2>4. QED
    BY <2>1, <2>2, <2>3
<1>8. IsFiniteSet(used) /\ Cardinality(used) <= Cardinality(set) /\ Cardinality(used) \in Nat
  BY <1>3, <1>7, FS_Surjection, FS_CardinalityType
<1>9. Cardinality(Chunk) = kDatapathLength
  <2>1. 0 \in Int /\ kDatapathLength - 1 \in Int
    BY <1>1
  <2>2. Cardinality(0..(kDatapathLength - 1))
            = IF 0 > kDatapathLength - 1 THEN 0 ELSE (kDatapathLength - 1) - 0 + 1
    BY <2>1, FS_Interval, Zenon
  <2>3. QED
    BY <1>1, <2>2 DEF Chunk
<1>10. Cardinality(Chunk) <= Cardinality(used)
  BY <1>2, <1>8, FS_Subset, Zenon
<1>11. QED
  BY <1>1, <1>7, <1>8, <1>9, <1>10

(* What the setup of a plain stream finds nothing wrong with: the columns  *)
(* in their order.                                                         *)
LEMMA PlainSpecification ==
    ASSUME NEW stream, IsPlain(stream), stream.stream_record_size \in 1..kDdrBurstSize
    PROVE  LET spec == Specification(stream)
               size == stream.stream_record_size
           IN  /\ Len(spec) = size /\ DOMAIN spec = 1..size
               /\ \A k \in 1..size : spec[k] = k - 1
               /\ ~IsInputClashing(spec) /\ ~IsOutputClashing(spec)
<1> DEFINE spec == Specification(stream)
           size == stream.stream_record_size
<1>1. size \in Nat \ {0}
  BY DatapathAssumption
<1>2. spec = [k \in 1..size |-> k - 1]
  BY Zenon DEF Specification, IsPlain
<1> HIDE DEF spec, size
<1>3. Len(spec) = size /\ DOMAIN spec = 1..size /\ \A k \in 1..size : spec[k] = k - 1
  BY <1>1, <1>2
<1>4. Columns(spec) \in SUBSET (1..size)
  BY <1>3 DEF Columns
<1>5. ASSUME NEW a \in Nat, NEW b \in Nat, ChunkOf(a) = ChunkOf(b), PositionOf(a) = PositionOf(b)
      PROVE  a = b
  <2>1. kDatapathWidth \in Nat \ {0}
    BY DatapathAssumption
  <2>2. /\ (a \div kDatapathWidth) * kDatapathWidth + (a % kDatapathWidth) = a
        /\ (b \div kDatapathWidth) * kDatapathWidth + (b % kDatapathWidth) = b
    BY <2>1, Division, Zenon
  <2>3. QED
    BY <1>5, <2>2 DEF ChunkOf, PositionOf
<1>6. ~IsInputClashing(spec)
  <2> SUFFICES ASSUME NEW j \in Columns(spec), NEW k \in Columns(spec),
                      ChunkOf(j - 1) = ChunkOf(k - 1), spec[j] # spec[k],
                      PositionOf(spec[j]) = PositionOf(spec[k])
               PROVE  FALSE
    BY DEF IsInputClashing
  <2>1. j - 1 \in Nat /\ k - 1 \in Nat /\ spec[j] = j - 1 /\ spec[k] = k - 1
    BY <1>1, <1>3, <1>4
  <2>2. QED
    BY <1>5, <2>1
<1>7. ~IsOutputClashing(spec)
  <2> SUFFICES ASSUME NEW j \in Columns(spec), NEW k \in Columns(spec), j # k,
                      PositionOf(j - 1) = PositionOf(k - 1),
                      ChunkOf(spec[j]) = ChunkOf(spec[k])
               PROVE  FALSE
    BY DEF IsOutputClashing
  <2>1. /\ j \in Nat /\ k \in Nat /\ j - 1 \in Nat /\ k - 1 \in Nat
        /\ spec[j] = j - 1 /\ spec[k] = k - 1
    BY <1>1, <1>3, <1>4
  <2>2. j - 1 = k - 1
    BY <1>5, <2>1
  <2>3. QED
    BY <2>1, <2>2
<1>8. QED
  BY <1>3, <1>6, <1>7 DEF spec, size

(* Records that fit the burst fit it in their slots.                       *)
LEMMA SlotsFit ==
    ASSUME NEW spec, Len(spec) \in Nat \ {0}, NEW records \in Nat \ {0},
           records * Len(spec) <= kDdrBurstSize
    PROVE  LET slot == RecordSlot(spec, kDdrBurstSize \div records)
           IN  slot \in Nat \ {0} /\ records * slot <= kDdrBurstSize
<1> DEFINE share == kDdrBurstSize \div records
           slot == RecordSlot(spec, share)
<1>1. kDdrBurstSize \in Nat
  BY DatapathAssumption
<1>2. share \in Nat /\ share * records <= kDdrBurstSize
  BY <1>1, Division, Zenon
<1> HIDE DEF share
<1>3. slot = Max({Len(spec), share})
  BY DEF RecordSlot
<1> HIDE DEF slot
<1>4. slot \in {Len(spec), share} /\ slot >= Len(spec)
  <2>1. Len(spec) \in Int /\ share \in Int
    BY <1>2
  <2>2. QED
    BY <1>3, <2>1, GreaterOfTwo, Zenon
<1>5. slot \in Nat \ {0}
  BY <1>2, <1>4
<1>6. share * records = records * share
  BY <1>2
<1>7. records * slot <= kDdrBurstSize
  <2>1. CASE slot = Len(spec)
    BY <2>1
  <2>2. CASE slot = share
    BY <1>2, <1>6, <2>2
  <2>3. QED
    BY <1>4, <2>1, <2>2
<1>8. QED
  BY <1>5, <1>7 DEF slot, share

(* Nothing is wrong with a plain input.                                    *)
LEMMA PlainInputAccepted ==
    ASSUME NEW stream, IsPlain(stream), stream.stream_record_size \in 1..kDdrBurstSize
    PROVE  SetupError(stream, TRUE) = "none"
<1> DEFINE size == stream.stream_record_size
           spec == Specification(stream)
           records == RecordsPerDDRBurst(stream, TRUE)
           extended == ExtendedSpecification(stream, TRUE)
<1>1. ~IsMultichannel(stream)
  BY DEF IsPlain
<1>2. records \in Nat \ {0} /\ records * size <= kDdrBurstSize
  BY <1>1, InputBurstFits DEF BurstFits
<1>3. /\ Len(spec) = size /\ ~IsInputClashing(spec)
      /\ \A k \in 1..size : spec[k] = k - 1
  BY PlainSpecification
<1>4. extended = ExtendSpecification(records, spec, size, NoColumn, kDdrBurstSize \div records)
  BY <1>1, Zenon DEF ExtendedSpecification, ExtendSpecificationSingleChannel
<1>5. size \in Nat \ {0}
  BY DatapathAssumption
<1> HIDE DEF size, spec, records, extended
<1>6. /\ RecordSlot(spec, kDdrBurstSize \div records) \in Nat \ {0}
      /\ records * RecordSlot(spec, kDdrBurstSize \div records) <= kDdrBurstSize
  BY <1>2, <1>3, <1>5, SlotsFit
<1>7. \A k \in 1..Len(spec) : spec[k] = NoColumn \/ spec[k] \in 0..(size - 1)
  BY <1>3, <1>5
<1>8. IsSpecificationValid(extended)
  <2>1. Len(spec) \in Nat /\ size \in Nat
    BY <1>3, <1>5
  <2>2. QED
    BY <1>2, <1>4, <1>6, <1>7, <2>1, ExtensionFits
<1>9. QED
  BY <1>2, <1>3, <1>8, Zenon DEF SetupError, spec, records, extended

(* Nor with a plain output, if it is known in how many chunks its records  *)
(* come, and as many records are taken as there are chunks.                *)
LEMMA PlainOutputAccepted ==
    ASSUME kMaxRecordsPerDDRBurst = kDatapathLength,
           NEW stream, IsPlain(stream), stream.stream_record_size \in 1..kDdrBurstSize,
           stream.input_chunks_per_record \in 0..kDatapathLength
    PROVE  SetupError(stream, FALSE) \in {"none", "out of range"}
<1> DEFINE size == stream.stream_record_size
           spec == Specification(stream)
           chunks == ChunksPerRecord(stream, FALSE)
           records == RecordsPerDDRBurst(stream, FALSE)
           extended == ExtendedSpecification(stream, FALSE)
           next == FindNextPowerOfTwo(chunks)
<1>1. ~IsMultichannel(stream) /\ stream.input_chunks_per_record # NotGiven
  BY DEF IsPlain, NotGiven
<1>2. /\ Len(spec) = size /\ ~IsOutputClashing(spec)
      /\ \A k \in 1..size : spec[k] = k - 1
  BY PlainSpecification
<1>3. /\ chunks \in 1..kDatapathLength /\ size <= kDatapathWidth * chunks
      /\ records = kMaxRecordsPerDDRBurst \div next
      /\ records # 0 => /\ records \in PowersOfTwo
                        /\ records * chunks <= kMaxRecordsPerDDRBurst
                        /\ records * size <= kDdrBurstSize
  BY <1>1, <1>2, OutputRoom
<1>4. extended = ExtendSpecification(records, spec, chunks * kDatapathWidth, PostRecordJunk,
                                     kDdrBurstSize \div records)
  BY Zenon DEF ExtendedSpecification, ExtendOutputSpecification
<1>5. size \in Nat \ {0}
  BY DatapathAssumption
<1> HIDE DEF size, spec, records, extended, chunks
<1>6. chunks \in Nat /\ kDatapathWidth \in Nat \ {0} /\ kDatapathLength \in Nat \ {0}
      /\ kDdrBurstSize = kDatapathWidth * kDatapathLength
  BY <1>3, DatapathAssumption
<1>7. records # 0
  <2>1. chunks <= LargestPower
    BY <1>3, <1>6, BufferAssumption DEF LargestPower
  <2>2. next \in Nat \ {0} /\ next <= kMaxRecordsPerDDRBurst
    BY <1>3, <1>6, <2>1, NextPower, BufferAssumption
  <2> HIDE DEF next
  <2>3. /\ records \in Nat /\ kMaxRecordsPerDDRBurst < records * next + next
    BY <1>3, <1>6, <2>2, Division, Zenon
  <2>4. QED
    BY <1>6, <2>2, <2>3
<1>8. /\ records \in Nat \ {0}
      /\ records * chunks <= kDatapathLength /\ records * size <= kDdrBurstSize
  <2>1. PowersOfTwo \in SUBSET Nat
    BY PowersListed
  <2>2. QED
    BY <1>3, <1>7, <2>1
<1>9. /\ RecordSlot(spec, kDdrBurstSize \div records) \in Nat \ {0}
      /\ records * RecordSlot(spec, kDdrBurstSize \div records) <= kDdrBurstSize
  BY <1>2, <1>5, <1>8, SlotsFit
<1>10. chunks * kDatapathWidth \in Nat /\ size <= chunks * kDatapathWidth
  <2>1. chunks * kDatapathWidth = kDatapathWidth * chunks
    BY <1>6
  <2>2. chunks * kDatapathWidth \in Nat
    BY <1>6
  <2>3. QED
    BY <1>3, <2>1, <2>2
<1>11. records * (chunks * kDatapathWidth) <= kDdrBurstSize
  <2>1. records * (chunks * kDatapathWidth) = kDatapathWidth * (records * chunks)
    BY <1>6, <1>8
  <2>2. records * chunks \in Nat
    BY <1>6, <1>8
  <2>3. kDatapathWidth * (records * chunks) <= kDatapathWidth * kDatapathLength
    BY <1>6, <1>8, <2>2
  <2>4. QED
    BY <1>6, <2>1, <2>3
<1>12. \A k \in 1..Len(spec) :
           spec[k] = NoColumn \/ spec[k] \in 0..(chunks * kDatapathWidth - 1)
  <2> DEFINE room == chunks * kDatapathWidth
  <2>1. room \in Nat /\ size <= room
    BY <1>10
  <2> HIDE DEF room
  <2>2. \A k \in 1..Len(spec) : spec[k] = NoColumn \/ spec[k] \in 0..(room - 1)
    BY <1>2, <1>5, <2>1
  <2>3. QED
    BY <2>2 DEF room
<1>13. IsSpecificationValid(extended)
  <2>1. Len(spec) \in Nat
    BY <1>2, <1>5
  <2>2. QED
    BY <1>4, <1>8, <1>9, <1>10, <1>11, <1>12, <2>1, ExtensionFits
<1>14. Len(Specification(stream)) = stream.stream_record_size
  BY <1>2 DEF spec, size
<1>15. QED
  BY <1>1, <1>2, <1>7, <1>13, <1>14, Zenon DEF SetupError, spec, records, extended

(* A burst has no more chunks than the buffer.                             *)
LEMMA ChunksInBuffer ==
    ASSUME NEW chunks \in 1..kDatapathLength, NEW records \in PowersOfTwo,
           records * chunks <= kMaxRecordsPerDDRBurst
    PROVE  chunks * records \in 0..kDatapathLength
<1> DEFINE n == records * chunks
<1>1. /\ kDatapathLength \in Nat
      /\ kMaxRecordsPerDDRBurst \in Nat /\ kMaxRecordsPerDDRBurst <= kDatapathLength
  BY DatapathAssumption
<1>2. PowersOfTwo \in SUBSET Nat
  BY PowersListed
<1>3. chunks \in Nat /\ records \in Nat
  BY <1>1, <1>2
<1>4. n \in Nat /\ n <= kMaxRecordsPerDDRBurst /\ chunks * records = n
  BY <1>3
<1> HIDE DEF n
<1>5. QED
  BY <1>1, <1>4

(* An output that asks for a free chunk gets one.                          *)
LEMMA OutputNeverOutOfRange ==
    ASSUME NEW stream, ~IsMultichannel(stream),
           stream.stream_record_size \in 1..kDdrBurstSize,
           stream.input_chunks_per_record \in (0..kDatapathLength) \cup {NotGiven}
    PROVE  SetupError(stream, FALSE) # "out of range"
<1> SUFFICES ASSUME SetupError(stream, FALSE) = "out of range" PROVE FALSE
  OBVIOUS
<1> DEFINE spec == Specification(stream)
           chunks == ChunksPerRecord(stream, FALSE)
           records == RecordsPerDDRBurst(stream, FALSE)
           extended == ExtendedSpecification(stream, FALSE)
           placed == PlacedOutputs(spec, extended, RecordSlot(spec, kDdrBurstSize \div records),
                                   chunks * records)
<1>1. /\ Len(spec) = stream.stream_record_size
      /\ stream.input_chunks_per_record # NotGiven
      /\ records # 0
      /\ IsOutOfChunks(placed)
  BY DEF SetupError
<1>2. chunks \in 1..kDatapathLength /\ records \in PowersOfTwo
      /\ records * chunks <= kMaxRecordsPerDDRBurst
  BY <1>1, OutputRoom
<1>3. DOMAIN placed = 0..(chunks * records - 1)
  BY DEF PlacedOutputs
<1> HIDE DEF chunks, records, placed
<1>4. chunks * records \in 0..kDatapathLength
  BY <1>2, ChunksInBuffer, Zenon
<1>5. QED
  BY <1>1, <1>3, <1>4, ChunkIsFree

(* What the setup of a stream finds wrong.                                 *)
LEMMA ErrorOfStream ==
    ASSUME kMaxRecordsPerDDRBurst = kDatapathLength, IInv, SetupStream, error' # "none"
    PROVE  /\ error' # "out of range"
           /\ \/ \E stream \in ToSet(streams.input) \cup ToSet(streams.output) : ~IsPlain(stream)
              \/ \E stream \in ToSet(streams.output) :
                    stream.input_chunks_per_record = NotGiven
<1> DEFINE stream == streams[direction][current_stream_count + 1]
<1>1. /\ direction \in {"input", "output"}
      /\ current_stream_count < Len(streams[direction])
      /\ error' = SetupError(stream, direction = "input")
  BY DEF SetupStream, IsRunning
<1>2. streams \in StreamSets /\ IsStreamSet(streams) /\ current_stream_count \in Nat
  BY DEF IInv, SetupOK
<1>3. stream \in ToSet(streams[direction])
  <2>1. IsSequence(streams[direction])
    BY <1>1, <1>2, StreamsTyped
  <2>2. /\ Len(streams[direction]) \in Nat
        /\ DOMAIN streams[direction] = 1..Len(streams[direction])
    BY <2>1, AppendSequence
  <2>3. current_stream_count + 1 \in DOMAIN streams[direction]
    BY <1>1, <1>2, <2>2
  <2>4. QED
    BY <2>3 DEF ToSet
<1>4. stream \in ToSet(streams.input) \cup ToSet(streams.output)
  BY <1>1, <1>3
<1>5. IsStream(stream)
  BY <1>2, <1>4, StreamsTyped
<1>6. stream.input_chunks_per_record \in (0..kDatapathLength) \cup {NotGiven}
  BY <1>5 DEF IsStream
<1>7. stream.stream_record_size \in 1..kDdrBurstSize
  BY <1>2, <1>4 DEF IsStreamSet
<1>8. direction = "output" => ~IsMultichannel(stream)
  BY <1>2, <1>3 DEF IsStreamSet
<1> HIDE DEF stream
<1>9. CASE direction = "input"
  <2>1. error' = SetupError(stream, TRUE)
    BY <1>1, <1>9
  <2>2. error' # "out of range"
    BY <2>1 DEF SetupError
  <2>3. ~IsPlain(stream)
    BY <1>7, <2>1, PlainInputAccepted
  <2>4. QED
    BY <1>4, <2>2, <2>3
<1>10. CASE direction = "output"
  <2>1. error' = SetupError(stream, FALSE)
    BY <1>1, <1>10
  <2>2. error' # "out of range"
    BY <1>6, <1>7, <1>8, <1>10, <2>1, OutputNeverOutOfRange
  <2>3. ~IsPlain(stream) \/ stream.input_chunks_per_record = NotGiven
    BY <1>6, <1>7, <2>1, <2>2, PlainOutputAccepted
  <2>4. stream \in ToSet(streams.output)
    BY <1>3, <1>10
  <2>5. QED
    BY <1>4, <2>2, <2>3, <2>4
<1>11. QED
  BY <1>1, <1>9, <1>10

(* Whatever the size of its records, a stream without a projection that is *)
(* not to be merged is set up without an exception, and so is whatever it  *)
(* is with; and a free chunk is found whenever an output crossbar needs    *)
(* one (SetupDMAModule, ExtendSpecification, AllocateAvailableChunks).     *)
THEOREM FailsWithReasonHolds ==
    ASSUME kMaxRecordsPerDDRBurst = kDatapathLength
    PROVE  Spec => []FailsWithReason
<1>1. Init => FailsWithReason
  BY DEF Init, FailsWithReason
<1>2. ASSUME IInv, FailsWithReason, [Next]_vars PROVE FailsWithReason'
  <2>1. streams' = streams
    BY <1>2 DEF Next, IsRunValid, RunIsInvalid, SetupStream, FinishStreams,
                SetupMergeSortModule, FinishModules, vars
  <2>2. CASE error' \in {error, "none"}
    BY <1>2, <2>1, <2>2 DEF FailsWithReason
  <2>3. ASSUME MultichannelInputs # {}
        PROVE  \E stream \in ToSet(streams.input) \cup ToSet(streams.output) : ~IsPlain(stream)
    <3>1. PICK i \in DOMAIN streams.input : IsMultichannel(streams.input[i])
      BY <2>3 DEF MultichannelInputs
    <3>2. streams.input[i] \in ToSet(streams.input)
      BY DEF ToSet
    <3>3. QED
      BY <3>1, <3>2 DEF IsPlain
  <2>4. CASE RunIsInvalid
    <3>1. error' = "Not implemented" /\ MultichannelInputs # {}
      BY <2>4 DEF RunIsInvalid
    <3>2. QED
      BY <2>1, <2>3, <3>1 DEF FailsWithReason
  <2>5. CASE SetupMergeSortModule /\ error' # error
    <3>1. MultichannelInputs # {}
      BY <2>5 DEF SetupMergeSortModule
    <3>2. error' # "out of range"
      BY <2>5 DEF SetupMergeSortModule
    <3>3. QED
      BY <2>1, <2>3, <3>1, <3>2 DEF FailsWithReason
  <2>6. CASE SetupStream /\ error' # "none"
    BY <1>2, <2>1, <2>6, ErrorOfStream DEF FailsWithReason
  <2>7. error' = error \/ RunIsInvalid \/ SetupMergeSortModule \/ SetupStream
    BY <1>2 DEF Next, IsRunValid, FinishStreams, FinishModules, vars
  <2>8. QED
    BY <2>2, <2>4, <2>5, <2>6, <2>7
<1>3. QED
  BY <1>1, <1>2, InvariantHolds, PTL DEF Spec

-----------------------------------------------------------------------------
(***************************************************************************)
(* The crossbars.  A location is a chunk and a position.                   *)
(***************************************************************************)
LEMMA RemainderKnown ==
    ASSUME NEW b \in Nat \ {0}, NEW q \in Nat, NEW r \in 0..(b - 1)
    PROVE  /\ (q * b + r) \div b = q
           /\ (q * b + r) % b = r
<1> DEFINE n == q * b + r
           d == n \div b
           m == n % b
<1>1. n \in Nat
  OBVIOUS
<1>2. n \div b = q
  BY QuotientKnown
<1>3. d * b + m = n /\ m \in Int
  <2>1. d * b + m = n /\ m \in 0..(b - 1)
    BY <1>1, Division, Zenon
  <2>2. QED
    BY <2>1
<1>4. d = q /\ n = q * b + r
  BY <1>2
<1> HIDE DEF d, m, n
<1>5. q * b \in Nat /\ d * b = q * b
  BY <1>4
<1>6. m = r
  BY <1>3, <1>4, <1>5
<1>7. QED
  BY <1>4, <1>6 DEF d, m, n

(* An address is a chunk and a position in it.                             *)
LEMMA AddressSplit ==
    ASSUME NEW a \in Nat
    PROVE  /\ ChunkOf(a) \in Nat /\ PositionOf(a) \in Position
           /\ a = ChunkOf(a) * kDatapathWidth + PositionOf(a)
<1>1. kDatapathWidth \in Nat \ {0}
  BY DatapathAssumption
<1>2. QED
  BY <1>1, Division, Zenon DEF ChunkOf, PositionOf, Position

(* The chunk and the position of an address, and of its mirror image.      *)
LEMMA AddressKnown ==
    ASSUME NEW c \in Nat, NEW p \in Position
    PROVE  /\ c * kDatapathWidth + p \in Nat
           /\ ChunkOf(c * kDatapathWidth + p) = c
           /\ PositionOf(c * kDatapathWidth + p) = p
           /\ kDatapathWidth - 1 - p \in Position
           /\ GetReverseIndex(c * kDatapathWidth + p)
                  = c * kDatapathWidth + (kDatapathWidth - 1 - p)
<1> DEFINE w == kDatapathWidth
<1>1. w \in Nat \ {0} /\ p \in 0..(w - 1)
  BY DatapathAssumption DEF Position
<1> HIDE DEF w
<1>2. (c * w + p) \div w = c /\ (c * w + p) % w = p
  BY <1>1, RemainderKnown
<1>3. c * w + p \in Nat /\ w - 1 - p \in 0..(w - 1)
  BY <1>1
<1>4. ChunkOf(c * w + p) = c /\ PositionOf(c * w + p) = p
  BY <1>2 DEF ChunkOf, PositionOf, w
<1>5. GetReverseIndex(c * w + p) = c * w + (w - 1 - p)
  BY <1>4 DEF GetReverseIndex, w
<1>6. QED
  BY <1>3, <1>4, <1>5 DEF w, Position

(* A location is in the first n chunks if its chunk is.                    *)
LEMMA ChunkBelow ==
    ASSUME NEW c \in Nat, NEW p \in Position, NEW n \in Nat
    PROVE  c * kDatapathWidth + p < n * kDatapathWidth <=> c < n
<1> DEFINE w == kDatapathWidth
<1>1. w \in Nat \ {0} /\ p \in 0..(w - 1)
  BY DatapathAssumption DEF Position
<1> HIDE DEF w
<1>2. c * w \in Nat /\ n * w \in Nat
  BY <1>1
<1>3. CASE c < n
  <2>1. (c + 1) * w <= n * w
    BY <1>1, <1>3
  <2>2. (c + 1) * w = c * w + w
    BY <1>1
  <2>3. QED
    BY <1>1, <1>2, <1>3, <2>1, <2>2 DEF w
<1>4. CASE n <= c
  <2>1. n * w <= c * w
    BY <1>1, <1>4
  <2>2. QED
    BY <1>1, <1>2, <1>4, <2>1 DEF w
<1>5. QED
  BY <1>3, <1>4

(* Two sums with the same rest differ as their other parts do.             *)
LEMMA RestsCancel ==
    ASSUME NEW a \in Int, NEW b \in Int, NEW shift \in Int, NEW s \in Int,
           NEW p \in Int, NEW q \in Int,
           NEW aw \in Int, NEW bw \in Int, NEW cw \in Int, NEW dw \in Int,
           a = aw + p, b = bw + q, a + shift = cw + s, b + shift = dw + s
    PROVE  cw - dw - aw + bw = p - q
  OBVIOUS

(* Two locations moved alike keep whether they have the same position.     *)
LEMMA SamePosition ==
    ASSUME NEW a \in Nat, NEW b \in Nat, NEW shift \in Nat,
           PositionOf(a + shift) = PositionOf(b + shift)
    PROVE  PositionOf(a) = PositionOf(b)
<1> DEFINE w == kDatapathWidth
           p == PositionOf(a)
           q == PositionOf(b)
           s == PositionOf(a + shift)
           z == ChunkOf(a + shift) - ChunkOf(b + shift) - ChunkOf(a) + ChunkOf(b)
<1>1. w \in Nat \ {0}
  BY DatapathAssumption
<1>2. /\ ChunkOf(a) \in Nat /\ p \in 0..(w - 1) /\ a = ChunkOf(a) * w + p
      /\ ChunkOf(b) \in Nat /\ q \in 0..(w - 1) /\ b = ChunkOf(b) * w + q
  BY AddressSplit DEF Position
<1>3. a + shift \in Nat /\ b + shift \in Nat
  OBVIOUS
<1>4. /\ ChunkOf(a + shift) \in Nat /\ s \in 0..(w - 1)
      /\ a + shift = ChunkOf(a + shift) * w + s
      /\ ChunkOf(b + shift) \in Nat /\ b + shift = ChunkOf(b + shift) * w + s
  BY <1>3, AddressSplit DEF Position
<1> HIDE DEF w, p, q, s
<1>5. z \in Int
  BY <1>2, <1>4
<1>6. z * w = ChunkOf(a + shift) * w - ChunkOf(b + shift) * w - ChunkOf(a) * w + ChunkOf(b) * w
  BY <1>1, <1>2, <1>4
<1>7. /\ ChunkOf(a + shift) * w \in Nat /\ ChunkOf(b + shift) * w \in Nat
      /\ ChunkOf(a) * w \in Nat /\ ChunkOf(b) * w \in Nat
  BY <1>1, <1>2, <1>4
<1> HIDE DEF z
<1>8. z * w = p - q
  <2>1. PositionOf(a + shift) = s /\ s \in Int /\ p \in Int /\ q \in Int
    BY <1>2, <1>4 DEF s
  <2>2. a \in Int /\ b \in Int /\ shift \in Int
    OBVIOUS
  <2>3. /\ ChunkOf(a + shift) * w \in Int /\ ChunkOf(b + shift) * w \in Int
        /\ ChunkOf(a) * w \in Int /\ ChunkOf(b) * w \in Int
    BY <1>7
  <2> DEFINE aw == ChunkOf(a) * w
             bw == ChunkOf(b) * w
             cw == ChunkOf(a + shift) * w
             dw == ChunkOf(b + shift) * w
  <2>4. aw \in Int /\ bw \in Int /\ cw \in Int /\ dw \in Int
    BY <2>3
  <2>5. a = aw + p /\ b = bw + q
    BY <1>2
  <2>6. a + shift = cw + s /\ b + shift = dw + s
    BY <1>4
  <2> HIDE DEF aw, bw, cw, dw
  <2>7. cw - dw - aw + bw = p - q
    BY <2>1, <2>2, <2>4, <2>5, <2>6, RestsCancel
  <2>8. ChunkOf(a + shift) * w - ChunkOf(b + shift) * w - ChunkOf(a) * w + ChunkOf(b) * w = p - q
    BY <2>7 DEF aw, bw, cw, dw
  <2>9. QED
    BY <1>6, <2>8, Zenon
<1>9. z = 0
  <2>1. z > 0 => z * w >= w
    BY <1>1, <1>5
  <2>2. z < 0 => z * w <= -w
    BY <1>1, <1>5
  <2>3. QED
    BY <1>1, <1>2, <1>5, <1>8, <2>1, <2>2
<1>10. QED
  BY <1>1, <1>2, <1>8, <1>9 DEF p, q

(* A location counted from the other end of its chunk is in that chunk,    *)
(* and counted once more it is the one it was (GetReverseIndex).           *)
LEMMA ReverseTwice ==
    ASSUME NEW a \in Nat
    PROVE  /\ GetReverseIndex(a) \in Nat
           /\ GetReverseIndex(GetReverseIndex(a)) = a
           /\ ChunkOf(GetReverseIndex(a)) = ChunkOf(a)
           /\ PositionOf(GetReverseIndex(a)) = kDatapathWidth - 1 - PositionOf(a)
           /\ InBuffer(a) = <<ChunkOf(GetReverseIndex(a)), PositionOf(GetReverseIndex(a))>>
<1> DEFINE w == kDatapathWidth
           c == ChunkOf(a)
           p == PositionOf(a)
<1>1. c \in Nat /\ p \in Position /\ a = c * w + p
  BY AddressSplit
<1>2. w \in Nat \ {0} /\ p \in 0..(w - 1)
  BY <1>1, DatapathAssumption DEF Position
<1>3. GetReverseIndex(a) = c * w + (w - 1 - p)
  BY DEF GetReverseIndex
<1> DEFINE q == w - 1 - p
<1> HIDE DEF c, p
<1>4. q \in Position
  BY <1>2 DEF Position
<1>5. w - 1 - q = p
  BY <1>2
<1> HIDE DEF w, q
<1>6. /\ c * w + q \in Nat /\ ChunkOf(c * w + q) = c /\ PositionOf(c * w + q) = q
      /\ GetReverseIndex(c * w + q) = c * w + (w - 1 - q)
  BY <1>1, <1>4, AddressKnown DEF w
<1>7. GetReverseIndex(a) = c * w + q
  BY <1>3 DEF q
<1>8. GetReverseIndex(GetReverseIndex(a)) = a
  BY <1>1, <1>5, <1>6, <1>7
<1>9. ChunkOf(GetReverseIndex(a)) = c /\ PositionOf(GetReverseIndex(a)) = q
  BY <1>6, <1>7
<1>10. InBuffer(a) = <<c, q>>
  BY DEF InBuffer, c, p, q, w
<1>11. QED
  BY <1>6, <1>7, <1>8, <1>9, <1>10 DEF c, p, q, w

(* Whole chunks before a location do not change its position.              *)
LEMMA ChunksBefore ==
    ASSUME NEW n \in Nat, NEW a \in Nat
    PROVE  /\ n * kDatapathWidth + a \in Nat
           /\ ChunkOf(n * kDatapathWidth + a) = n + ChunkOf(a)
           /\ PositionOf(n * kDatapathWidth + a) = PositionOf(a)
<1> DEFINE w == kDatapathWidth
           c == ChunkOf(a)
           p == PositionOf(a)
<1>1. c \in Nat /\ p \in Position /\ a = c * w + p
  BY AddressSplit
<1>2. w \in Nat /\ p \in Nat
  BY <1>1, DatapathAssumption DEF Position
<1> HIDE DEF w, c, p
<1>3. n * w + a = (n + c) * w + p
  <2>1. (n + c) * w = n * w + c * w
    BY <1>1, <1>2
  <2>2. n * w \in Nat /\ c * w \in Nat
    BY <1>1, <1>2
  <2>3. QED
    BY <1>1, <1>2, <2>1, <2>2
<1>4. /\ (n + c) * w + p \in Nat /\ ChunkOf((n + c) * w + p) = n + c
      /\ PositionOf((n + c) * w + p) = p
  <2>1. n + c \in Nat
    BY <1>1
  <2>2. QED
    BY <1>1, <2>1, AddressKnown DEF w
<1>5. QED
  BY <1>3, <1>4 DEF w, c, p

(* The location of the interface where the integer c of the record r is,   *)
(* if each record has room chunks.                                         *)
Location(room, r, c) == GetReverseIndex(r * (room * kDatapathWidth) + c)

(* Column c of record r: its chunk, its position and the way back.         *)
LEMMA LocationInChunk ==
    ASSUME NEW room \in Nat \ {0}, NEW r \in Nat, NEW c \in 0..(room * kDatapathWidth - 1)
    PROVE  /\ Location(room, r, c) \in Nat
           /\ ChunkOf(Location(room, r, c)) = r * room + ChunkOf(c)
           /\ PositionOf(Location(room, r, c)) = kDatapathWidth - 1 - PositionOf(c)
           /\ ChunkOf(c) \in 0..(room - 1) /\ PositionOf(c) \in Position
           /\ InBuffer(r * room * kDatapathWidth + c)
                  = <<ChunkOf(Location(room, r, c)), PositionOf(Location(room, r, c))>>
           /\ GetReverseIndex(Location(room, r, c)) = r * (room * kDatapathWidth) + c
           /\ r * (room * kDatapathWidth) + c \in Nat
<1> DEFINE w == kDatapathWidth
           i == r * (room * w) + c
<1>1. w \in Nat \ {0}
  BY DatapathAssumption
<1>2. c \in Nat /\ r * room \in Nat /\ c < room * w
  <2>1. room * w \in Nat
    BY <1>1
  <2> HIDE DEF w
  <2>2. c \in 0..(room * w - 1)
    BY DEF w
  <2>3. QED
    BY <2>1, <2>2
<1>3. i = (r * room) * w + c
  BY <1>1
<1>4. i \in Nat /\ ChunkOf(i) = r * room + ChunkOf(c) /\ PositionOf(i) = PositionOf(c)
  BY <1>2, <1>3, ChunksBefore
<1>5. ChunkOf(c) \in Nat /\ PositionOf(c) \in Position
      /\ c = ChunkOf(c) * w + PositionOf(c)
  BY <1>2, AddressSplit
<1>6. ChunkOf(c) < room
  BY <1>2, <1>5, ChunkBelow
<1> HIDE DEF i
<1>7. /\ GetReverseIndex(i) \in Nat /\ ChunkOf(GetReverseIndex(i)) = ChunkOf(i)
      /\ PositionOf(GetReverseIndex(i)) = w - 1 - PositionOf(i)
      /\ InBuffer(i) = <<ChunkOf(GetReverseIndex(i)), PositionOf(GetReverseIndex(i))>>
      /\ GetReverseIndex(GetReverseIndex(i)) = i
  BY <1>4, ReverseTwice
<1>8. Location(room, r, c) = GetReverseIndex(i)
  BY DEF Location, i
<1>9. ChunkOf(c) \in 0..(room - 1)
  BY <1>5, <1>6
<1>10. InBuffer(r * room * w + c)
           = <<ChunkOf(Location(room, r, c)), PositionOf(Location(room, r, c))>>
  BY <1>3, <1>7, <1>8, Zenon
<1>11. /\ GetReverseIndex(Location(room, r, c)) = r * (room * w) + c
       /\ r * (room * w) + c \in Nat
  BY <1>4, <1>7, <1>8 DEF i
<1>12. QED
  BY <1>4, <1>5, <1>7, <1>8, <1>9, <1>10, <1>11

(* The locations of a burst are those of its records.                      *)
LEMMA LocationsOfBurst ==
    ASSUME NEW room \in Nat \ {0}, NEW records \in Nat
    PROVE  /\ \A r \in 0..(records - 1), c \in 0..(room * kDatapathWidth - 1) :
                 Location(room, r, c) \in 0..(kDatapathWidth * (records * room) - 1)
           /\ \A l \in 0..(kDatapathWidth * (records * room) - 1) :
                 \E r \in 0..(records - 1), c \in 0..(room * kDatapathWidth - 1) :
                    l = Location(room, r, c)
<1> DEFINE w == kDatapathWidth
           slot == room * w
           all == records * room
<1>1. w \in Nat \ {0}
  BY DatapathAssumption
<1>2. slot \in Nat \ {0} /\ all \in Nat /\ w * all = all * w /\ all * w = records * slot
      /\ all * w \in Nat
  <2> HIDE DEF w
  <2>1. w * (records * room) = (records * room) * w
        /\ (records * room) * w = records * (room * w)
    BY <1>1
  <2>2. QED
    BY <1>1, <2>1
<1>3. ASSUME NEW r \in 0..(records - 1), NEW c \in 0..(slot - 1)
      PROVE  Location(room, r, c) \in 0..(w * all - 1)
  <2>1. Location(room, r, c) = GetReverseIndex(r * slot + c)
    BY DEF Location
  <2> HIDE DEF slot, all, w
  <2>2. (r + 1) * slot <= records * slot
    BY <1>2
  <2>3. (r + 1) * slot = r * slot + slot
    BY <1>2
  <2>4. r * slot \in Nat /\ records * slot \in Nat
    BY <1>2
  <2>5. r * slot + c \in Nat /\ r * slot + c < all * w
    BY <1>2, <2>2, <2>3, <2>4
  <2>6. GetReverseIndex(r * slot + c) \in Nat /\ GetReverseIndex(r * slot + c) < all * w
    BY <1>2, <2>5, ReverseInRange DEF w
  <2>7. QED
    BY <1>2, <2>1, <2>6
<1>4. ASSUME NEW l \in 0..(w * all - 1)
      PROVE  \E r \in 0..(records - 1), c \in 0..(slot - 1) : l = Location(room, r, c)
  <2> DEFINE i == GetReverseIndex(l)
             r == i \div slot
             c == i % slot
  <2>1. l \in Nat /\ l < all * w
    <3> HIDE DEF all, w, slot
    <3>1. QED
      BY <1>2
  <2>2. i \in Nat /\ i < all * w /\ GetReverseIndex(i) = l
    BY <1>2, <2>1, ReverseInRange, ReverseTwice
  <2> HIDE DEF i, all
  <2>3. r \in Nat /\ c \in 0..(slot - 1) /\ r * slot + c = i
    BY <1>2, <2>2, Division, Zenon
  <2>4. l = Location(room, r, c)
    BY <2>2, <2>3 DEF Location
  <2> HIDE DEF slot, r, c
  <2>5. r < records
    <3>1. SUFFICES ASSUME records <= r PROVE FALSE
      BY <2>3
    <3>2. records * slot <= r * slot /\ r * slot \in Nat
      BY <1>2, <2>3, <3>1
    <3>3. QED
      BY <1>2, <2>2, <2>3, <3>2
  <2>6. r \in 0..(records - 1)
    BY <2>3, <2>5
  <2>7. QED
    BY <2>3, <2>4, <2>6
<1>5. QED
  BY <1>3, <1>4

(* What ExtendSpecification finds for the integer c of the record r.       *)
Wanted(spec, record_size, junk_data, r, c) ==
    IF c >= Len(spec) THEN junk_data
    ELSE IF spec[c + 1] = NoColumn THEN NoColumn
    ELSE GetReverseIndex(spec[c + 1] + record_size * r)

(* The extended specification, location by location.                       *)
LEMMA ExtendedAt ==
    ASSUME NEW records \in Nat, NEW spec, NEW record_size, NEW junk_data,
           NEW junk_data_end_point, NEW room \in Nat \ {0},
           RecordSlot(spec, junk_data_end_point) = room * kDatapathWidth,
           NEW extended,
           extended = ExtendSpecification(records, spec, record_size, junk_data,
                                          junk_data_end_point)
    PROVE  /\ DOMAIN extended = 0..(kDatapathWidth * (records * room) - 1)
           /\ Cardinality(DOMAIN extended) = records * room * kDatapathWidth
           /\ \A r \in 0..(records - 1), c \in 0..(room * kDatapathWidth - 1) :
                 extended[Location(room, r, c)] = Wanted(spec, record_size, junk_data, r, c)
<1> DEFINE w == kDatapathWidth
           slot == room * w
           all == records * room
           Selection(i) ==
               IF i % slot >= Len(spec) THEN junk_data
               ELSE IF spec[(i % slot) + 1] = NoColumn THEN NoColumn
               ELSE GetReverseIndex(spec[(i % slot) + 1] + record_size * (i \div slot))
<1>1. w \in Nat \ {0} /\ all \in Nat
  BY DatapathAssumption
<1>2. slot \in Nat \ {0}
  <2> HIDE DEF w
  <2>1. QED
    BY <1>1
<1>3. extended = [location \in 0..(w * ChunkOf(records * slot) - 1) |->
                     Selection(GetReverseIndex(location))]
  BY Zenon DEF ExtendSpecification
<1>4. ChunkOf(records * slot) = all
  <2>1. records * slot = all * w
    <3> HIDE DEF w
    <3>1. QED
      BY <1>1
  <2>2. 0 \in 0..(w - 1)
    BY <1>1
  <2> HIDE DEF slot, all
  <2>3. (all * w + 0) \div w = all
    BY <1>1, <2>2, RemainderKnown
  <2>4. all * w + 0 = all * w
    BY <1>1
  <2>5. QED
    BY <2>1, <2>3, <2>4 DEF ChunkOf
<1>5. extended = [location \in 0..(w * all - 1) |-> Selection(GetReverseIndex(location))]
  BY <1>3, <1>4, Zenon
<1>6. DOMAIN extended = 0..(w * all - 1)
  BY <1>5, Zenon
<1>7. Cardinality(DOMAIN extended) = all * w
  <2> DEFINE n == w * all
  <2>1. n \in Nat /\ n = all * w /\ DOMAIN extended = 0..(n - 1)
    <3> HIDE DEF w, all
    <3>1. QED
      BY <1>1, <1>6
  <2> HIDE DEF n
  <2>2. 0 \in Int /\ n - 1 \in Int
    BY <2>1
  <2>3. Cardinality(0..(n - 1)) = IF 0 > n - 1 THEN 0 ELSE (n - 1) - 0 + 1
    BY <2>2, FS_Interval, Zenon
  <2>4. QED
    BY <2>1, <2>3
<1>8. ASSUME NEW r \in 0..(records - 1), NEW c \in 0..(slot - 1)
      PROVE  extended[Location(room, r, c)] = Wanted(spec, record_size, junk_data, r, c)
  <2>1. Location(room, r, c) \in 0..(w * all - 1)
    BY LocationsOfBurst
  <2>2. GetReverseIndex(Location(room, r, c)) = r * slot + c
    BY LocationInChunk
  <2>3. r \in Nat
    OBVIOUS
  <2> HIDE DEF slot
  <2>4. (r * slot + c) % slot = c /\ (r * slot + c) \div slot = r
    BY <1>2, <2>3, RemainderKnown
  <2>5. extended[Location(room, r, c)] = Selection(r * slot + c)
    BY <1>5, <2>1, <2>2, Zenon
  <2>6. QED
    BY <2>4, <2>5, Zenon DEF Wanted
<1>9. QED
  BY <1>6, <1>7, <1>8

(* Each location is of one integer of one record.                          *)
LEMMA LocationsDiffer ==
    ASSUME NEW room \in Nat \ {0},
           NEW r \in Nat, NEW c \in 0..(room * kDatapathWidth - 1),
           NEW s \in Nat, NEW d \in 0..(room * kDatapathWidth - 1),
           Location(room, r, c) = Location(room, s, d)
    PROVE  r = s /\ c = d
<1> DEFINE slot == room * kDatapathWidth
<1>1. slot \in Nat \ {0}
  BY DatapathAssumption
<1>2. r * slot + c = s * slot + d
  <2>1. /\ GetReverseIndex(Location(room, r, c)) = r * slot + c
        /\ GetReverseIndex(Location(room, s, d)) = s * slot + d
    BY LocationInChunk
  <2>2. QED
    BY <2>1
<1> HIDE DEF slot
<1>3. /\ (r * slot + c) \div slot = r /\ (r * slot + c) % slot = c
      /\ (s * slot + d) \div slot = s /\ (s * slot + d) % slot = d
  BY <1>1, RemainderKnown DEF slot
<1>4. QED
  BY <1>2, <1>3, Zenon

(***************************************************************************)
(* The input crossbar                                                      *)
(***************************************************************************)
(* If the integers wanted for a chunk that come from one position are the  *)
(* same one, each of them is pulled to where it is wanted                  *)
(* (ConfigureInputCrossbarSetupData).                                      *)
LEMMA PulledAsWanted ==
    ASSUME NEW n \in Nat, NEW extended, DOMAIN extended = 0..(kDatapathWidth * n - 1),
           Cardinality(DOMAIN extended) = n * kDatapathWidth,
           NEW l \in DOMAIN extended, extended[l] \in Nat,
           \A m \in DOMAIN extended :
               /\ ChunkOf(m) = ChunkOf(l) /\ extended[m] # NoColumn
               /\ PositionOf(extended[m]) = PositionOf(extended[l])
               => extended[m] = extended[l]
    PROVE  PulledFrom(ConfigureInputCrossbarSetupData(extended), <<ChunkOf(l), PositionOf(l)>>)
               = <<ChunkOf(extended[l]), PositionOf(extended[l])>>
<1> DEFINE w == kDatapathWidth
           c == ChunkOf(l)
           p == PositionOf(l)
           Selected(chunk) == {m \in LocationsIn(chunk) : extended[m] # NoColumn}
           PulledAt(chunk, q) == {m \in Selected(chunk) : PositionOf(extended[m]) = q}
           Chunks(chunk) == [q \in Position |->
               IF PulledAt(chunk, q) = {} THEN EmptyChunk.chunk_selection[q]
               ELSE ChunkOf(extended[Max(PulledAt(chunk, q))])]
           Positions(chunk) == [q \in Position |->
               IF chunk * w + q \in Selected(chunk) THEN PositionOf(extended[chunk * w + q])
               ELSE EmptyChunk.position_selection[q]]
           crossbar == ConfigureInputCrossbarSetupData(extended)
           from == PositionOf(extended[l])
<1>1. w \in Nat \ {0}
  BY DatapathAssumption
<1>2. w * n \in Nat /\ n * w = w * n
  <2> HIDE DEF w
  <2>1. QED
    BY <1>1
<1>3. l \in Nat /\ l < n * w
  BY <1>2
<1>4. c \in Nat /\ p \in Position /\ l = c * w + p /\ from \in Position
  BY <1>3, AddressSplit
<1>5. c \in 0..(n - 1)
  <2>1. c < n
    BY <1>3, <1>4, ChunkBelow
  <2>2. QED
    BY <1>4, <2>1
<1>6. ChunkOf(Cardinality(DOMAIN extended)) = n
  <2>1. 0 \in 0..(w - 1)
    BY <1>1
  <2>2. (n * w + 0) \div w = n
    BY <1>1, <2>1, RemainderKnown
  <2>3. n * w + 0 = n * w
    BY <1>2
  <2>4. QED
    BY <2>2, <2>3 DEF ChunkOf
<1>7. crossbar = [chunk \in 0..(n - 1) |->
                     [chunk_selection |-> Chunks(chunk),
                      position_selection |-> Positions(chunk)]]
  BY <1>6, Zenon DEF ConfigureInputCrossbarSetupData
<1>8. /\ crossbar[c].chunk_selection = Chunks(c)
      /\ crossbar[c].position_selection = Positions(c)
  <2> HIDE DEF crossbar, Chunks, Positions, c
  <2>1. crossbar[c] = [chunk_selection |-> Chunks(c), position_selection |-> Positions(c)]
    BY <1>5, <1>7
  <2>2. QED
    BY <2>1
<1>9. l \in Selected(c)
  <2>1. l \in LocationsIn(c)
    BY <1>4 DEF LocationsIn
  <2>2. extended[l] # NoColumn
    BY DEF NoColumn
  <2>3. QED
    BY <2>1, <2>2
<1>10. crossbar[c].position_selection[p] = from
  <2>1. Positions(c)[p] = IF c * w + p \in Selected(c) THEN PositionOf(extended[c * w + p])
                          ELSE EmptyChunk.position_selection[p]
    BY <1>4, Zenon
  <2> HIDE DEF Selected, Positions, Chunks, crossbar
  <2>2. QED
    BY <1>4, <1>8, <1>9, <2>1, Zenon
<1>11. ASSUME NEW m \in PulledAt(c, from)
       PROVE  m \in 0..(w * n) /\ extended[m] = extended[l]
  <2>1. m \in LocationsIn(c) /\ extended[m] # NoColumn /\ PositionOf(extended[m]) = from
    OBVIOUS
  <2>2. PICK q \in Position : m = c * w + q
    BY <2>1 DEF LocationsIn
  <2>3. m \in Nat /\ ChunkOf(m) = c
    BY <1>4, <2>2, AddressKnown
  <2>4. m < n * w
    BY <1>4, <1>5, <2>2, ChunkBelow
  <2>5. m \in DOMAIN extended /\ m \in 0..(w * n)
    BY <1>2, <2>3, <2>4
  <2>6. QED
    BY <2>1, <2>3, <2>5
<1>12. Max(PulledAt(c, from)) \in PulledAt(c, from)
  <2>1. PulledAt(c, from) # {}
    BY <1>9
  <2>2. PulledAt(c, from) \in SUBSET (0..(w * n))
    BY <1>11
  <2> HIDE DEF PulledAt
  <2>3. QED
    BY <1>2, <2>1, <2>2, GreatestNumber
<1>13. crossbar[c].chunk_selection[from] = ChunkOf(extended[l])
  <2>1. Chunks(c)[from] = IF PulledAt(c, from) = {} THEN EmptyChunk.chunk_selection[from]
                          ELSE ChunkOf(extended[Max(PulledAt(c, from))])
    BY <1>4, Zenon
  <2> HIDE DEF PulledAt, Chunks, crossbar
  <2>2. Chunks(c)[from] = ChunkOf(extended[Max(PulledAt(c, from))])
    BY <1>12, <2>1
  <2>3. QED
    BY <1>8, <1>11, <1>12, <2>2, Zenon
<1> HIDE DEF crossbar, from, c, p
<1>14. PulledFrom(crossbar, <<c, p>>)
           = <<crossbar[c].chunk_selection[crossbar[c].position_selection[p]],
               crossbar[c].position_selection[p]>>
  BY DEF PulledFrom
<1>15. PulledFrom(crossbar, <<c, p>>) = <<ChunkOf(extended[l]), from>>
  BY <1>10, <1>13, <1>14, Zenon
<1>16. QED
  BY <1>15 DEF crossbar, from, c, p

(* If no two columns clash, each column of each record is pulled from its  *)
(* place in the packed records of the burst.                               *)
LEMMA RecordsDelivered ==
    ASSUME NEW spec \in Seq(Nat \cup {NoColumn}), ~IsInputClashing(spec),
           NEW records \in Nat, NEW record_size \in Nat, NEW junk_data_end_point,
           NEW room \in Nat \ {0},
           RecordSlot(spec, junk_data_end_point) = room * kDatapathWidth,
           Len(spec) <= room * kDatapathWidth,
           NEW extended,
           extended = ExtendSpecification(records, spec, record_size, NoColumn,
                                          junk_data_end_point),
           NEW r \in 0..(records - 1), NEW k \in Columns(spec)
    PROVE  PulledFrom(ConfigureInputCrossbarSetupData(extended),
                      InBuffer(r * room * kDatapathWidth + (k - 1)))
               = InBuffer(r * record_size + spec[k])
<1> DEFINE w == kDatapathWidth
           slot == room * w
           c == k - 1
           l == Location(room, r, c)
           shift == record_size * r
           from == GetReverseIndex(spec[k] + shift)
<1>1. slot \in Nat \ {0} /\ r \in Nat /\ shift \in Nat
  <2>1. w \in Nat \ {0} /\ r \in Nat
    BY DatapathAssumption
  <2> HIDE DEF w
  <2>2. QED
    BY <2>1
<1>2. /\ DOMAIN spec = 1..Len(spec) /\ Len(spec) \in Nat
      /\ \A j \in 1..Len(spec) : spec[j] \in Nat \cup {NoColumn}
  OBVIOUS
<1>3. k \in 1..Len(spec) /\ spec[k] \in Nat /\ spec[k] # NoColumn
  BY <1>2 DEF Columns
<1>4. c \in 0..(slot - 1) /\ c < Len(spec) /\ c + 1 = k
  <2> HIDE DEF slot
  <2>1. Len(spec) <= slot
    BY DEF slot
  <2>2. QED
    BY <1>1, <1>2, <1>3, <2>1
<1> HIDE DEF c
<1>5. /\ l \in Nat /\ ChunkOf(l) = r * room + ChunkOf(c)
      /\ ChunkOf(c) \in 0..(room - 1)
      /\ InBuffer(r * room * w + c) = <<ChunkOf(l), PositionOf(l)>>
  BY <1>1, <1>4, LocationInChunk, ZenonT(40)
<1>6. l \in 0..(w * (records * room) - 1)
  BY <1>4, LocationsOfBurst, Zenon DEF slot, w
<1>7. /\ DOMAIN extended = 0..(w * (records * room) - 1)
      /\ Cardinality(DOMAIN extended) = records * room * w
      /\ \A s \in 0..(records - 1), d \in 0..(slot - 1) :
            extended[Location(room, s, d)] = Wanted(spec, record_size, NoColumn, s, d)
  BY ExtendedAt
<1>8. extended[l] = from
  <2>1. extended[l] = Wanted(spec, record_size, NoColumn, r, c)
    BY <1>4, <1>7
  <2>2. ~(c >= Len(spec))
    <3> HIDE DEF slot
    <3>1. QED
      BY <1>1, <1>2, <1>4
  <2>3. QED
    BY <1>3, <1>4, <2>1, <2>2, Zenon DEF Wanted
<1>9. /\ from \in Nat /\ PositionOf(from) = w - 1 - PositionOf(spec[k] + shift)
      /\ InBuffer(spec[k] + shift) = <<ChunkOf(from), PositionOf(from)>>
  <2>1. spec[k] + shift \in Nat
    BY <1>1, <1>3
  <2>2. QED
    BY <2>1, ReverseTwice
<1> HIDE DEF l, from, shift, slot
<1>10. ASSUME NEW m \in DOMAIN extended, ChunkOf(m) = ChunkOf(l), extended[m] # NoColumn,
              PositionOf(extended[m]) = PositionOf(from)
       PROVE  extended[m] = from
  <2>1. PICK s \in 0..(records - 1), d \in 0..(slot - 1) : m = Location(room, s, d)
    BY <1>7, LocationsOfBurst DEF slot
  <2>2. extended[m] = Wanted(spec, record_size, NoColumn, s, d)
    BY <1>7, <2>1
  <2>3. ~(d >= Len(spec)) /\ spec[d + 1] # NoColumn
        /\ extended[m] = GetReverseIndex(spec[d + 1] + record_size * s)
    BY <1>10, <2>2, Zenon DEF Wanted
  <2>4. d + 1 \in Columns(spec) /\ spec[d + 1] \in Nat /\ (d + 1) - 1 = d
    BY <1>1, <1>2, <2>3 DEF Columns
  <2>5. ChunkOf(m) = s * room + ChunkOf(d) /\ ChunkOf(d) \in 0..(room - 1) /\ s \in Nat
    BY <2>1, LocationInChunk DEF slot
  <2>6. s = r /\ ChunkOf(d) = ChunkOf(c)
    <3>1. s * room + ChunkOf(d) = r * room + ChunkOf(c)
      BY <1>5, <1>10, <2>5
    <3>2. /\ (s * room + ChunkOf(d)) \div room = s /\ (s * room + ChunkOf(d)) % room = ChunkOf(d)
          /\ (r * room + ChunkOf(c)) \div room = r /\ (r * room + ChunkOf(c)) % room = ChunkOf(c)
      BY <1>1, <1>5, <2>5, RemainderKnown, Zenon
    <3>3. QED
      BY <3>1, <3>2, Zenon
  <2>7. extended[m] = GetReverseIndex(spec[d + 1] + shift)
    BY <2>3, <2>6 DEF shift
  <2>8. PositionOf(extended[m]) = w - 1 - PositionOf(spec[d + 1] + shift)
    <3>1. spec[d + 1] + shift \in Nat
      BY <1>1, <2>4
    <3>2. QED
      BY <2>7, <3>1, ReverseTwice
  <2>9. PositionOf(spec[d + 1] + shift) = PositionOf(spec[k] + shift)
    <3>1. /\ PositionOf(spec[d + 1] + shift) \in Position
          /\ PositionOf(spec[k] + shift) \in Position
      <4>1. spec[d + 1] + shift \in Nat /\ spec[k] + shift \in Nat
        BY <1>1, <1>3, <2>4, SMTT(40)
      <4>2. QED
        BY <4>1, AddressSplit
    <3>2. w \in Nat
      BY DatapathAssumption
    <3>3. w - 1 - PositionOf(spec[d + 1] + shift) = w - 1 - PositionOf(spec[k] + shift)
      BY <1>9, <1>10, <2>8
    <3> HIDE DEF w
    <3>4. PositionOf(spec[d + 1] + shift) \in Int /\ PositionOf(spec[k] + shift) \in Int
      BY <3>1 DEF Position
    <3>5. QED
      BY <3>2, <3>3, <3>4
  <2>10. PositionOf(spec[d + 1]) = PositionOf(spec[k])
    BY <1>1, <1>3, <2>4, <2>9, SamePosition
  <2>11. spec[d + 1] = spec[k]
    <3>1. ChunkOf((d + 1) - 1) = ChunkOf(k - 1)
      BY <2>4, <2>6 DEF c
    <3>2. QED
      BY <2>4, <2>10, <3>1, Zenon DEF IsInputClashing
  <2>12. QED
    BY <2>7, <2>11 DEF from
<1>11. PulledFrom(ConfigureInputCrossbarSetupData(extended), <<ChunkOf(l), PositionOf(l)>>)
           = <<ChunkOf(from), PositionOf(from)>>
  <2>1. records * room \in Nat
    OBVIOUS
  <2>2. /\ DOMAIN extended = 0..(kDatapathWidth * (records * room) - 1)
        /\ Cardinality(DOMAIN extended) = (records * room) * kDatapathWidth
        /\ l \in DOMAIN extended /\ extended[l] \in Nat
    BY <1>6, <1>7, <1>8, <1>9
  <2>3. \A m \in DOMAIN extended :
            /\ ChunkOf(m) = ChunkOf(l) /\ extended[m] # NoColumn
            /\ PositionOf(extended[m]) = PositionOf(extended[l])
            => extended[m] = extended[l]
    BY <1>8, <1>10, Zenon
  <2>4. QED
    BY <1>8, <2>1, <2>2, <2>3, PulledAsWanted
<1>12. InBuffer(r * record_size + spec[k]) = <<ChunkOf(from), PositionOf(from)>>
  <2>1. r * record_size + spec[k] = spec[k] + shift
    BY <1>1, <1>3 DEF shift
  <2>2. QED
    BY <1>9, <2>1
<1>13. QED
  BY <1>5, <1>11, <1>12 DEF c

(* The specification of a stream is a sequence of columns and gaps.        *)
LEMMA SpecificationTyped ==
    ASSUME NEW stream, stream.stream_specification \in Seq(Nat \cup {NoColumn}),
           stream.stream_record_size \in Nat \ {0}
    PROVE  Specification(stream) \in Seq(Nat \cup {NoColumn})
<1>1. CASE stream.stream_specification = <<>>
  <2> DEFINE size == stream.stream_record_size
  <2>1. Specification(stream) = [k \in 1..size |-> k - 1]
    BY <1>1, Zenon DEF Specification
  <2>2. size \in Nat
    OBVIOUS
  <2> HIDE DEF size
  <2>3. [k \in 1..size |-> k - 1] \in [1..size -> Nat \cup {NoColumn}]
    OBVIOUS
  <2>4. QED
    BY <2>1, <2>2, <2>3, IsASeq
<1>2. CASE stream.stream_specification # <<>>
  BY <1>2 DEF Specification
<1>3. QED
  BY <1>1, <1>2

(* A record takes no more chunks than it has room in.                      *)
LEMMA ChunksNeeded ==
    ASSUME NEW size \in Nat \ {0}, NEW room \in Nat, size <= room * kDatapathWidth
    PROVE  CalculateChunksPerRecord(size) <= room
<1> DEFINE w == kDatapathWidth
           n == size + w - 1
           chunks == n \div w
<1>1. w \in Nat \ {0} /\ size <= room * w
  BY DatapathAssumption
<1>2. CalculateChunksPerRecord(size) = chunks
  BY DEF CalculateChunksPerRecord
<1> HIDE DEF w
<1>3. n \in Nat
  BY <1>1
<1>4. chunks \in Nat /\ chunks * w <= n
  BY <1>1, <1>3, Division, Zenon
<1> HIDE DEF chunks
<1>5. SUFFICES ASSUME room < chunks PROVE FALSE
  BY <1>2, <1>4
<1>6. (room + 1) * w <= chunks * w
  BY <1>1, <1>4, <1>5
<1>7. (room + 1) * w = room * w + w
  BY <1>1
<1>8. room * w \in Nat /\ chunks * w \in Nat
  BY <1>1, <1>4
<1>9. QED
  BY <1>1, <1>3, <1>4, <1>6, <1>7, <1>8

(* A power of two is a multiple of each that is not greater.               *)
LEMMA PowersMultiply ==
    ASSUME NEW p \in PowersOfTwo, NEW q \in PowersOfTwo, q <= p
    PROVE  (p \div q) * q = p /\ p \div q \in PowersOfTwo
  BY PowersListed, SMTT(60)

(* So the number of a chunk in its record is that of the chunk in the      *)
(* burst, to the power of two.                                             *)
LEMMA ChunkIdKnown ==
    ASSUME NEW room \in PowersOfTwo, NEW next \in PowersOfTwo, next <= room,
           NEW r \in Nat, NEW h \in 0..(next - 1)
    PROVE  (r * room + h) % next = h
<1> DEFINE m == room \div next
<1>1. m * next = room /\ m \in PowersOfTwo
  BY PowersMultiply
<1>2. PowersOfTwo \in SUBSET (Nat \ {0})
  BY PowersListed
<1> HIDE DEF m
<1>3. m \in Nat /\ next \in Nat \ {0}
  BY <1>1, <1>2
<1>4. r * room = (r * m) * next
  BY <1>1, <1>3
<1>5. ((r * m) * next + h) % next = h
  <2>1. r * m \in Nat
    BY <1>3
  <2>2. QED
    BY <1>3, <2>1, RemainderKnown
<1>6. QED
  BY <1>4, <1>5

(* A slot of whole chunks with room for the record is taken as it is.      *)
LEMMA WholeSlot ==
    ASSUME NEW spec, Len(spec) \in Nat, NEW room \in Nat, Len(spec) <= room * kDatapathWidth
    PROVE  RecordSlot(spec, room * kDatapathWidth) = room * kDatapathWidth
<1> DEFINE slot == room * kDatapathWidth
<1>1. slot \in Nat
  BY DatapathAssumption
<1>2. Len(spec) <= slot
  OBVIOUS
<1> HIDE DEF slot
<1>3. Len(spec) \in Int /\ slot \in Int
  BY <1>1
<1>4. Max({Len(spec), slot}) \in {Len(spec), slot} /\ Max({Len(spec), slot}) >= slot
  BY <1>3, GreaterOfTwo, Zenon
<1>5. Max({Len(spec), slot}) = slot
  BY <1>1, <1>2, <1>4
<1>6. QED
  BY <1>5 DEF RecordSlot, slot

(* The slot that a record gets on the interface, in chunks: a power of two *)
(* that is enough for it, and in a burst all records have theirs.          *)
InputSlot(stream, room) ==
    LET spec == Specification(stream)
        chunks == ChunksPerRecord(stream, TRUE)
        records == RecordsPerDDRBurst(stream, TRUE)
        next == FindNextPowerOfTwo(chunks)
    IN  /\ records \in Nat \ {0}
        /\ room \in PowersOfTwo /\ next \in PowersOfTwo /\ next <= room
        /\ chunks \in Nat /\ chunks <= next
        /\ Len(spec) <= chunks * kDatapathWidth
        /\ RecordSlot(spec, room * kDatapathWidth) = room * kDatapathWidth
        /\ ExtendedSpecification(stream, TRUE)
               = ExtendSpecification(records, spec, stream.stream_record_size, NoColumn,
                                     room * kDatapathWidth)

(* The slots of the records of a sorted stream.                            *)
LEMMA MultichannelSlot ==
    ASSUME SorterFits, NEW stream, IsMultichannel(stream),
           stream.stream_specification \in Seq(Nat \cup {NoColumn}),
           stream.stream_record_size \in Nat \ {0},
           SetupError(stream, TRUE) = "none"
    PROVE  InputSlot(stream, FindNextPowerOfTwo(ChunksPerRecord(stream, TRUE)))
<1> DEFINE size == stream.stream_record_size
           spec == Specification(stream)
           chunks == ChunksPerRecord(stream, TRUE)
           buffer_size == CalculateSortBufferSize(chunks)
           records == RecordsPerDDRBurst(stream, TRUE)
           next == FindNextPowerOfTwo(chunks)
           w == kDatapathWidth
<1>1. records = CalculateRecordCountPerFetch(buffer_size, size)
  BY Zenon DEF RecordsPerDDRBurst
<1>2. size \in Nat \ {0} /\ Len(spec) \in Nat \ {0}
  BY SpecificationLength
<1>3. records # 0
  BY TestsPassed
<1>4. buffer_size = CalculateSortBufferSize(chunks)
  OBVIOUS
<1>5. chunks = CalculateChunksPerRecord(Len(spec))
  BY Zenon DEF ChunksPerRecord
<1>6. ExtendedSpecification(stream, TRUE)
          = ExtendSpecification(records, spec, size, NoColumn, next * w)
  BY Zenon DEF ExtendedSpecification, ExtendSpecificationMultiChannel
<1>7. w \in Nat \ {0} /\ kDatapathLength \in Nat \ {0} /\ kDdrBurstSize = w * kDatapathLength
  BY DatapathAssumption
<1> HIDE DEF records, buffer_size, chunks, size, spec
<1>8. chunks \in Nat \ {0} /\ Len(spec) <= w * chunks
  BY <1>2, <1>5, ChunksHoldRecord
<1> HIDE DEF w
<1>9. w * chunks = chunks * w /\ w * chunks \in Nat \ {0}
  BY <1>7, <1>8
<1>10. /\ records \in Nat \ {0} /\ 2 * records <= buffer_size
       /\ SortChannelCount * buffer_size * chunks <= SortBufferSpace
  BY <1>1, <1>2, <1>3, <1>4, <1>8, FetchFits
<1>11. records * (w * chunks) <= kDdrBurstSize
  <2>1. buffer_size \in Int
    BY <1>4, <1>8, SortBufferBounds
  <2>2. buffer_size \in Nat
    BY <1>10, <2>1
  <2>3. w * chunks \in Nat \ {0} /\ w * chunks <= kDatapathWidth * chunks
    BY <1>9 DEF w
  <2>4. records \in Nat
    BY <1>10
  <2> DEFINE whole == w * chunks
  <2> HIDE DEF whole
  <2>5. whole \in Nat \ {0} /\ whole <= kDatapathWidth * chunks
    BY <2>3 DEF whole
  <2>6. records * whole <= kDdrBurstSize
    BY <1>8, <1>10, <2>2, <2>4, <2>5, FetchFitsBurst
  <2>7. QED
    BY <2>6 DEF whole
<1>12. chunks <= kDatapathLength
  <2>1. w * chunks <= records * (w * chunks)
    BY <1>9, <1>10
  <2>2. w * chunks <= w * kDatapathLength
    <3>1. w * kDatapathLength \in Nat /\ records * (w * chunks) \in Nat
      BY <1>7, <1>9, <1>10
    <3>2. QED
      BY <1>7, <1>9, <1>11, <2>1, <3>1
  <2>3. QED
    BY <1>7, <1>8, <2>2
<1>13. chunks \in Nat /\ chunks <= LargestPower
  BY <1>7, <1>8, <1>12, BufferAssumption DEF LargestPower
<1>14. next \in PowersOfTwo /\ next \in Nat \ {0} /\ chunks <= next
  BY <1>13, NextPower
<1> HIDE DEF next
<1>15. Len(spec) <= next * w
  <2>1. chunks * w <= next * w /\ next * w \in Nat
    BY <1>7, <1>13, <1>14
  <2>2. QED
    BY <1>2, <1>8, <1>9, <2>1
<1>16. RecordSlot(spec, next * w) = next * w
  BY <1>2, <1>14, <1>15, WholeSlot DEF w
<1>17. Len(spec) <= chunks * w
  BY <1>8, <1>9
<1>18. next <= next
  BY <1>14
<1>19. QED
  BY <1>6, <1>10, <1>13, <1>14, <1>16, <1>17, <1>18
     DEF InputSlot, records, spec, chunks, next, size, w

(* The room of a record if there is one for each record.                   *)
LEMMA RoomOfRecord ==
    ASSUME NEW width \in Nat \ {0}, NEW room \in Nat \ {0}, NEW records \in Nat \ {0}
    PROVE  /\ (width * (room * records)) \div records = room * width
           /\ room <= room * records
<1>1. 0 \in 0..(records - 1) /\ room * width \in Nat
  OBVIOUS
<1>2. ((room * width) * records + 0) \div records = room * width
  BY <1>1, QuotientKnown
<1>3. (room * width) * records + 0 = width * (room * records)
  OBVIOUS
<1>4. room <= room * records
  OBVIOUS
<1>5. QED
  BY <1>2, <1>3, <1>4

(* A number below one that is at most the largest power is so too.         *)
LEMMA LessThree ==
    ASSUME NEW a \in Nat, NEW b \in Nat, NEW c \in Nat, a <= b, b <= c, c <= LargestPower
    PROVE  a <= LargestPower
  BY DEF LargestPower

(* The slots of the records of any other input stream.                     *)
LEMMA SingleChannelSlot ==
    ASSUME kMaxRecordsPerDDRBurst = kDatapathLength, NEW stream, ~IsMultichannel(stream),
           stream.stream_specification \in Seq(Nat \cup {NoColumn}),
           stream.stream_record_size \in 1..kDdrBurstSize,
           NEW room, room = kDatapathLength \div RecordsPerDDRBurst(stream, TRUE),
           Len(Specification(stream)) <= room * kDatapathWidth
    PROVE  InputSlot(stream, room)
<1> DEFINE size == stream.stream_record_size
           spec == Specification(stream)
           chunks == ChunksPerRecord(stream, TRUE)
           records == RecordsPerDDRBurst(stream, TRUE)
           next == FindNextPowerOfTwo(chunks)
           w == kDatapathWidth
           length == kDatapathLength
<1>1. records = FindMinViableRecordsPerDDRBurst(size)
  BY Zenon DEF RecordsPerDDRBurst
<1>2. size \in Nat \ {0} /\ Len(spec) \in Nat \ {0}
  BY DatapathAssumption, SpecificationLength
<1>3. chunks = CalculateChunksPerRecord(Len(spec))
  BY Zenon DEF ChunksPerRecord
<1>4. ExtendedSpecification(stream, TRUE)
          = ExtendSpecification(records, spec, size, NoColumn, kDdrBurstSize \div records)
  BY Zenon DEF ExtendedSpecification, ExtendSpecificationSingleChannel
<1>5. w \in Nat \ {0} /\ length \in PowersOfTwo /\ kDdrBurstSize = w * length
      /\ length \in Nat \ {0} /\ length <= LargestPower
  BY DatapathAssumption, BufferAssumption
<1>6. records \in PowersOfTwo /\ records <= length
  BY <1>1, SingleChannelBurst, BufferAssumption
<1>7. room * records = length /\ room \in PowersOfTwo
  BY <1>5, <1>6, PowersMultiply
<1>8. PowersOfTwo \in SUBSET (Nat \ {0})
  BY PowersListed
<1>9. Len(spec) <= room * w
  OBVIOUS
<1> HIDE DEF records, chunks, size, spec, length, w
<1>10. records \in Nat \ {0} /\ room \in Nat \ {0}
  BY <1>6, <1>7, <1>8
<1>11. kDdrBurstSize \div records = room * w
  <2>1. (w * (room * records)) \div records = room * w
    BY <1>5, <1>10, RoomOfRecord
  <2>2. QED
    BY <1>5, <1>7, <2>1, Zenon
<1>12. chunks \in Nat \ {0} /\ Len(spec) <= w * chunks
  BY <1>2, <1>3, ChunksHoldRecord DEF w
<1>13. chunks <= room
  <2>1. Len(spec) \in Nat \ {0} /\ room \in Nat /\ Len(spec) <= room * kDatapathWidth
    BY <1>2, <1>9, <1>10 DEF w
  <2>2. QED
    BY <1>3, <2>1, ChunksNeeded
<1>14. room <= length
  <2>1. room <= room * records
    BY <1>5, <1>10, RoomOfRecord
  <2>2. QED
    BY <1>7, <2>1, Zenon
<1>15. chunks \in Nat /\ chunks <= LargestPower
  BY <1>5, <1>10, <1>12, <1>13, <1>14, LessThree
<1>16. /\ next \in PowersOfTwo /\ next \in Nat \ {0} /\ chunks <= next
       /\ \A power \in PowersOfTwo : chunks <= power => next <= power
  BY <1>15, NextPower
<1> HIDE DEF next
<1>17. next <= room
  BY <1>7, <1>13, <1>16
<1>18. RecordSlot(spec, room * w) = room * w
  BY <1>2, <1>9, <1>10, WholeSlot DEF w
<1>19. Len(spec) <= chunks * w
  BY <1>5, <1>12
<1>20. QED
  BY <1>4, <1>7, <1>10, <1>11, <1>15, <1>16, <1>17, <1>18, <1>19
     DEF InputSlot, records, spec, chunks, next, size, w

(* What is set up for an input stream whose records fit their slots puts   *)
(* each column in its place, in a chunk with the right number.             *)
LEMMA InputInPlace ==
    ASSUME NEW stream,
           stream.stream_specification \in Seq(Nat \cup {NoColumn}),
           stream.stream_record_size \in Nat \ {0},
           SetupError(stream, TRUE) = "none",
           NEW n, NEW j,
           NEW data, data = SetupData(stream, TRUE, n, j),
           InputSlot(stream, SlotChunks(data))
    PROVE  ColumnsDelivered(data)
<1> DEFINE size == stream.stream_record_size
           spec == Specification(stream)
           chunks == ChunksPerRecord(stream, TRUE)
           records == RecordsPerDDRBurst(stream, TRUE)
           next == FindNextPowerOfTwo(chunks)
           extended == ExtendedSpecification(stream, TRUE)
           room == SlotChunks(data)
           w == kDatapathWidth
<1>1. /\ records \in Nat \ {0}
      /\ room \in PowersOfTwo /\ next \in PowersOfTwo /\ next <= room
      /\ chunks \in Nat /\ chunks <= next
      /\ Len(spec) <= chunks * w
      /\ RecordSlot(spec, room * w) = room * w
      /\ extended = ExtendSpecification(records, spec, size, NoColumn, room * w)
  BY DEF InputSlot
<1>2. /\ data.stream = stream
      /\ data.records_per_ddr_burst = records
      /\ data.record_chunk_ids = [i \in Chunk |-> i % next]
      /\ data.crossbar = ConfigureInputCrossbarSetupData(extended)
  BY Zenon DEF SetupData
<1>3. ~IsInputClashing(spec) /\ IsSpecificationValid(extended)
  BY DEF SetupError
<1>4. spec \in Seq(Nat \cup {NoColumn})
  BY SpecificationTyped
<1>5. PowersOfTwo \in SUBSET (Nat \ {0})
  BY PowersListed
<1>6. w \in Nat \ {0} /\ kDatapathLength \in Nat \ {0} /\ kDdrBurstSize = w * kDatapathLength
  BY DatapathAssumption
<1>7. size \in Nat
  OBVIOUS
<1> HIDE DEF size, spec, chunks, records, next, extended, room, w
<1>8. room \in Nat \ {0} /\ next \in Nat \ {0}
  BY <1>1, <1>5
<1>9. Len(spec) \in Nat /\ DOMAIN spec = 1..Len(spec)
  BY <1>4
<1>10. Len(spec) <= room * w
  <2>1. chunks * w <= room * w /\ chunks * w \in Nat /\ room * w \in Nat
    BY <1>1, <1>6, <1>8
  <2>2. QED
    BY <1>1, <1>9, <2>1
<1>11. records * room <= kDatapathLength
  <2>1. Cardinality(DOMAIN extended) = records * room * w
    BY <1>1, <1>8, ExtendedAt DEF w
  <2>2. records * room * w <= w * kDatapathLength
    BY <1>3, <1>6, <2>1 DEF IsSpecificationValid
  <2>3. records * room \in Nat
    BY <1>1, <1>8
  <2> DEFINE all == records * room
  <2> HIDE DEF all
  <2>4. all \in Nat /\ all * w <= w * kDatapathLength
    BY <2>2, <2>3 DEF all
  <2>5. SUFFICES ASSUME kDatapathLength < all PROVE FALSE
    BY <1>6, <2>4 DEF all
  <2>6. (kDatapathLength + 1) * w <= all * w
    BY <1>6, <2>4, <2>5
  <2>7. (kDatapathLength + 1) * w = w * kDatapathLength + w
    BY <1>6
  <2>8. w * kDatapathLength \in Nat /\ all * w \in Nat
    BY <1>6, <2>4
  <2>9. QED
    BY <1>6, <2>4, <2>6, <2>7, <2>8
<1>12. ASSUME NEW r \in 0..(records - 1), NEW k \in Columns(spec)
       PROVE  LET place == OnInterface(data, r, k - 1)
              IN  /\ PulledFrom(data.crossbar, place) = InBuffer(r * size + spec[k])
                  /\ data.record_chunk_ids[place[1]] = ChunkOf(k - 1)
  <2> DEFINE place == OnInterface(data, r, k - 1)
             c == k - 1
             h == ChunkOf(c)
  <2>1. place = InBuffer(r * room * w + (k - 1))
    BY DEF OnInterface, room, w
  <2>2. k \in 1..Len(spec)
    BY <1>9 DEF Columns
  <2>3. c \in Nat /\ c < Len(spec) /\ c \in 0..(room * w - 1)
    <3>1. room * w \in Nat
      BY <1>6, <1>8
    <3>2. QED
      BY <1>9, <1>10, <2>2, <3>1
  <2>4. PulledFrom(data.crossbar, place) = InBuffer(r * size + spec[k])
    <3> DEFINE end == room * w
    <3>1. /\ r \in 0..(records - 1) /\ records \in Nat
          /\ RecordSlot(spec, end) = room * kDatapathWidth
          /\ Len(spec) <= room * kDatapathWidth
          /\ extended = ExtendSpecification(records, spec, size, NoColumn, end)
          /\ room \in Nat \ {0} /\ size \in Nat
          /\ spec \in Seq(Nat \cup {NoColumn}) /\ ~IsInputClashing(spec)
          /\ k \in Columns(spec)
      BY <1>1, <1>3, <1>4, <1>7, <1>8, <1>10 DEF w
    <3> HIDE DEF end
    <3>2. PulledFrom(ConfigureInputCrossbarSetupData(extended),
                     InBuffer(r * room * kDatapathWidth + (k - 1)))
              = InBuffer(r * size + spec[k])
      BY <3>1, RecordsDelivered, SMTT(40)
    <3>3. QED
      BY <1>2, <2>1, <3>2 DEF w
  <2> HIDE DEF place
  <2>5. place[1] = r * room + h
    <3>1. InBuffer(r * room * kDatapathWidth + c)
              = <<ChunkOf(Location(room, r, c)), PositionOf(Location(room, r, c))>>
          /\ ChunkOf(Location(room, r, c)) = r * room + ChunkOf(c)
      BY <1>8, <2>3, LocationInChunk DEF w
    <3>2. QED
      BY <2>1, <3>1 DEF w
  <2>6. h \in 0..(next - 1)
    <3>1. h \in Nat /\ PositionOf(c) \in Position /\ c = h * kDatapathWidth + PositionOf(c)
      BY <2>3, AddressSplit
    <3>2. c < chunks * kDatapathWidth
      <4>1. chunks * w \in Nat
        BY <1>1, <1>6
      <4>2. c < chunks * w
        BY <1>1, <1>9, <2>3, <4>1
      <4>3. QED
        BY <4>2 DEF w
    <3> HIDE DEF h, c
    <3>3. h < chunks
      BY <1>1, <3>1, <3>2, ChunkBelow
    <3>4. QED
      BY <1>1, <1>8, <3>1, <3>3
  <2> HIDE DEF h, c
  <2>7. r * room + h \in Chunk
    <3>1. (r + 1) * room <= records * room
      BY <1>1, <1>8
    <3>2. (r + 1) * room = r * room + room
      BY <1>8
    <3>3. r * room \in Nat /\ records * room \in Nat
      BY <1>1, <1>8
    <3>4. h \in Nat /\ h < room
      BY <1>1, <1>8, <2>6
    <3>5. QED
      BY <1>6, <1>8, <1>11, <3>1, <3>2, <3>3, <3>4 DEF Chunk
  <2>8. (r * room + h) % next = h
    <3>1. r \in Nat
      OBVIOUS
    <3>2. QED
      BY <1>1, <2>6, <3>1, ChunkIdKnown
  <2>9. data.record_chunk_ids[place[1]] = h
    BY <1>2, <2>5, <2>7, <2>8
  <2>10. QED
    BY <2>4, <2>9 DEF place, h, c
<1>13. /\ Specification(data.stream) = spec /\ data.records_per_ddr_burst = records
       /\ data.stream.stream_record_size = size
  BY <1>2, Zenon DEF spec, size
<1>14. ASSUME NEW r \in 0..(data.records_per_ddr_burst - 1),
              NEW k \in Columns(Specification(data.stream))
       PROVE  LET place == OnInterface(data, r, k - 1)
              IN  /\ PulledFrom(data.crossbar, place)
                         = InBuffer(r * data.stream.stream_record_size
                                       + Specification(data.stream)[k])
                  /\ data.record_chunk_ids[place[1]] = ChunkOf(k - 1)
  BY <1>12, <1>13
<1>15. QED
  BY <1>14, Zenon DEF ColumnsDelivered

(***************************************************************************)
(* The output crossbar                                                     *)
(***************************************************************************)
(* The records of an output burst have slots of room chunks each, with the *)
(* columns in the first chunks of them.                                    *)
OutputSlots(spec, extended, records, room, chunks) ==
    /\ spec \in Seq(Nat \cup {NoColumn}) /\ Len(spec) \in Nat \ {0}
    /\ room \in Nat \ {0} /\ chunks \in 1..room /\ records \in Nat \ {0}
    /\ records * room = kDatapathLength
    /\ Len(spec) <= chunks * kDatapathWidth
    /\ \A k \in Columns(spec) : ChunkOf(spec[k]) < chunks
    /\ ~IsOutputClashing(spec)
    /\ DOMAIN extended = 0..(kDatapathWidth * (records * room) - 1)
    /\ \A r \in 0..(records - 1), c \in 0..(room * kDatapathWidth - 1) :
          extended[Location(room, r, c)]
              = Wanted(spec, chunks * kDatapathWidth, PostRecordJunk, r, c)

(* A column of a specification: where it is, and that it is one.           *)
LEMMA ColumnKnown ==
    ASSUME NEW spec \in Seq(Nat \cup {NoColumn}), NEW k \in Columns(spec)
    PROVE  /\ k \in 1..Len(spec) /\ spec[k] \in Nat /\ spec[k] # NoColumn
           /\ k - 1 \in 0..(Len(spec) - 1) /\ (k - 1) + 1 = k
<1>1. /\ DOMAIN spec = 1..Len(spec) /\ Len(spec) \in Nat
      /\ \A j \in 1..Len(spec) : spec[j] \in Nat \cup {NoColumn}
  OBVIOUS
<1>2. k \in 1..Len(spec) /\ spec[k] \in Nat /\ spec[k] # NoColumn
  BY <1>1 DEF Columns
<1>3. QED
  BY <1>1, <1>2

(* Where a column of the output comes from on the interface.               *)
LEMMA OutputSelected ==
    ASSUME NEW spec, NEW extended, NEW records, NEW room, NEW chunks,
           OutputSlots(spec, extended, records, room, chunks),
           NEW r \in 0..(records - 1), NEW k \in Columns(spec)
    PROVE  LET l == Location(room, r, k - 1)
           IN  /\ l \in DOMAIN extended /\ l \in Nat
               /\ k - 1 \in 0..(room * kDatapathWidth - 1)
               /\ extended[l] \in Nat
               /\ ChunkOf(extended[l]) = chunks * r + ChunkOf(spec[k])
               /\ PositionOf(extended[l]) = kDatapathWidth - 1 - PositionOf(spec[k])
               /\ ChunkOf(spec[k]) \in 0..(chunks - 1)
               /\ PackedLocation(spec, room * kDatapathWidth, GetReverseIndex(l))
                      = GetReverseIndex(r * Len(spec) + (k - 1))
<1> DEFINE w == kDatapathWidth
           slot == room * w
           c == k - 1
           l == Location(room, r, c)
           from == spec[k] + (chunks * w) * r
<1>1. /\ spec \in Seq(Nat \cup {NoColumn}) /\ Len(spec) \in Nat \ {0}
      /\ room \in Nat \ {0} /\ chunks \in 1..room /\ records \in Nat \ {0}
      /\ Len(spec) <= chunks * w
      /\ ChunkOf(spec[k]) < chunks
      /\ DOMAIN extended = 0..(w * (records * room) - 1)
      /\ \A d \in 0..(slot - 1) :
            extended[Location(room, r, d)] = Wanted(spec, chunks * w, PostRecordJunk, r, d)
  BY DEF OutputSlots
<1>2. k \in 1..Len(spec) /\ spec[k] \in Nat /\ spec[k] # NoColumn
      /\ c \in 0..(Len(spec) - 1) /\ c + 1 = k
  BY <1>1, ColumnKnown
<1>3. w \in Nat \ {0} /\ r \in Nat
  BY DatapathAssumption
<1> HIDE DEF w
<1>4. /\ slot \in Nat \ {0} /\ Len(spec) <= slot /\ chunks * w \in Nat /\ chunks \in Nat \ {0}
  <2>1. chunks * w <= room * w /\ chunks * w \in Nat /\ room * w \in Nat \ {0}
    BY <1>1, <1>3
  <2>2. QED
    BY <1>1, <2>1
<1> HIDE DEF c
<1>5. c \in 0..(slot - 1) /\ c \in Nat
  <2> HIDE DEF slot
  <2>1. QED
    BY <1>1, <1>2, <1>4
<1>6. l \in 0..(w * (records * room) - 1)
  <2>1. records \in Nat
    BY <1>1
  <2>2. QED
    BY <1>1, <1>5, <2>1, LocationsOfBurst DEF w
<1>7. l \in Nat /\ GetReverseIndex(l) = r * slot + c
  BY <1>1, <1>3, <1>5, LocationInChunk, ZenonT(40) DEF w, slot
<1>8. extended[l] = GetReverseIndex(from)
  <2>1. extended[l] = Wanted(spec, chunks * w, PostRecordJunk, r, c)
    BY <1>1, <1>5
  <2>2. ~(c >= Len(spec))
    BY <1>1, <1>2
  <2>3. QED
    BY <1>2, <2>1, <2>2, Zenon DEF Wanted
<1>9. from = (chunks * r) * w + spec[k] /\ chunks * r \in Nat
  <2>1. (chunks * w) * r = (chunks * r) * w
    BY <1>3, <1>4
  <2>2. (chunks * r) * w \in Nat /\ chunks * r \in Nat
    BY <1>3, <1>4
  <2>3. QED
    BY <1>2, <2>1, <2>2
<1> HIDE DEF from
<1>10. /\ from \in Nat /\ ChunkOf(from) = chunks * r + ChunkOf(spec[k])
       /\ PositionOf(from) = PositionOf(spec[k])
  BY <1>2, <1>9, ChunksBefore DEF w
<1>11. /\ GetReverseIndex(from) \in Nat /\ ChunkOf(GetReverseIndex(from)) = ChunkOf(from)
       /\ PositionOf(GetReverseIndex(from)) = w - 1 - PositionOf(from)
  BY <1>10, ReverseTwice DEF w
<1>12. ChunkOf(spec[k]) \in 0..(chunks - 1)
  <2>1. ChunkOf(spec[k]) \in Nat
    BY <1>2, AddressSplit
  <2>2. QED
    BY <1>1, <1>4, <2>1
<1> HIDE DEF slot, l
<1>13. PackedLocation(spec, slot, GetReverseIndex(l)) = GetReverseIndex(r * Len(spec) + c)
  <2>1. (r * slot + c) \div slot = r
    BY <1>3, <1>4, <1>5, RemainderKnown
  <2>2. (r * slot + c) - r * (slot - Len(spec)) = r * Len(spec) + c
    <3> DEFINE len == Len(spec)
    <3>1. len \in Nat
      BY <1>1
    <3> HIDE DEF len
    <3>2. r * (slot - len) = r * slot - r * len
      BY <1>3, <1>4, <3>1
    <3>3. r * slot \in Nat /\ r * len \in Nat
      BY <1>3, <1>4, <3>1
    <3>4. (r * slot + c) - r * (slot - len) = r * len + c
      BY <1>5, <3>2, <3>3
    <3>5. QED
      BY <3>4 DEF len
  <2>3. QED
    BY <1>7, <2>1, <2>2, Zenon DEF PackedLocation
<1>14. QED
  BY <1>1, <1>5, <1>6, <1>7, <1>8, <1>10, <1>11, <1>12, <1>13 DEF l, c, slot, w

(* Nothing else on the interface is pushed to the buffer for its own sake. *)
LEMMA OnlyColumnsSelected ==
    ASSUME NEW spec, NEW extended, NEW records, NEW room, NEW chunks,
           OutputSlots(spec, extended, records, room, chunks),
           NEW l \in DOMAIN extended, extended[l] >= 0
    PROVE  \E r \in 0..(records - 1), k \in Columns(spec) : l = Location(room, r, k - 1)
<1> DEFINE w == kDatapathWidth
<1>1. /\ spec \in Seq(Nat \cup {NoColumn}) /\ Len(spec) \in Nat \ {0}
      /\ room \in Nat \ {0} /\ records \in Nat \ {0}
      /\ DOMAIN extended = 0..(w * (records * room) - 1)
      /\ \A r \in 0..(records - 1), c \in 0..(room * w - 1) :
            extended[Location(room, r, c)] = Wanted(spec, chunks * w, PostRecordJunk, r, c)
  BY DEF OutputSlots
<1>2. PICK r \in 0..(records - 1), c \in 0..(room * w - 1) : l = Location(room, r, c)
  BY <1>1, LocationsOfBurst
<1>3. extended[l] = Wanted(spec, chunks * w, PostRecordJunk, r, c)
  BY <1>1, <1>2
<1>4. ~(c >= Len(spec)) /\ spec[c + 1] # NoColumn
  <2>1. extended[l] # PostRecordJunk /\ extended[l] # NoColumn
    BY DEF PostRecordJunk, NoColumn
  <2>2. QED
    BY <1>3, <2>1, Zenon DEF Wanted
<1>5. c \in Nat
  OBVIOUS
<1>6. c + 1 \in Columns(spec) /\ (c + 1) - 1 = c
  BY <1>1, <1>4, <1>5 DEF Columns
<1>7. QED
  BY <1>2, <1>6

(* Two columns of a chunk of the interface do not go to one position.      *)
LEMMA OneColumnPushed ==
    ASSUME NEW spec, NEW extended, NEW records, NEW room, NEW chunks,
           OutputSlots(spec, extended, records, room, chunks),
           NEW r \in 0..(records - 1), NEW k \in Columns(spec),
           NEW s \in 0..(records - 1), NEW j \in Columns(spec),
           chunks * s + ChunkOf(spec[j]) = chunks * r + ChunkOf(spec[k]),
           PositionOf(GetReverseIndex(s * Len(spec) + (j - 1)))
               = PositionOf(GetReverseIndex(r * Len(spec) + (k - 1)))
    PROVE  s = r /\ j = k
<1> DEFINE w == kDatapathWidth
           len == Len(spec)
           a == j - 1
           b == k - 1
           shift == r * len
<1>1. /\ spec \in Seq(Nat \cup {NoColumn}) /\ len \in Nat \ {0} /\ chunks \in Nat \ {0}
      /\ ~IsOutputClashing(spec)
  BY DEF OutputSlots
<1>2. ChunkOf(spec[j]) \in 0..(chunks - 1) /\ ChunkOf(spec[k]) \in 0..(chunks - 1)
  BY OutputSelected
<1>3. a \in Nat /\ b \in Nat
  <2>1. a \in 0..(len - 1) /\ b \in 0..(len - 1)
    BY <1>1, ColumnKnown
  <2> HIDE DEF a, b, len
  <2>2. QED
    BY <1>1, <2>1
<1>4. r \in Nat /\ s \in Nat
  OBVIOUS
<1>5. s = r /\ ChunkOf(spec[j]) = ChunkOf(spec[k])
  <2> DEFINE g == ChunkOf(spec[j])
             h == ChunkOf(spec[k])
  <2>1. g \in 0..(chunks - 1) /\ h \in 0..(chunks - 1)
    BY <1>2
  <2>2. chunks * s + g = chunks * r + h
    OBVIOUS
  <2> HIDE DEF g, h
  <2>3. s * chunks + g = r * chunks + h
    <3>1. chunks * s = s * chunks /\ chunks * r = r * chunks
      BY <1>1, <1>4
    <3>2. QED
      BY <2>2, <3>1
  <2>4. chunks \in Nat \ {0}
    BY <1>1
  <2>5. (s * chunks + g) \div chunks = s /\ (s * chunks + g) % chunks = g
    BY <1>4, <2>1, <2>4, RemainderKnown, Zenon
  <2>6. (r * chunks + h) \div chunks = r /\ (r * chunks + h) % chunks = h
    BY <1>4, <2>1, <2>4, RemainderKnown, Zenon
  <2>7. s = r /\ g = h
    BY <2>3, <2>5, <2>6, Zenon
  <2>8. QED
    BY <2>7 DEF g, h
<1>6. PositionOf(GetReverseIndex(shift + a)) = PositionOf(GetReverseIndex(shift + b))
  BY <1>5
<1>7. shift \in Nat
  BY <1>1, <1>4
<1> HIDE DEF a, b, shift
<1>8. /\ shift + a \in Nat /\ shift + b \in Nat
      /\ shift + a = a + shift /\ shift + b = b + shift
  BY <1>3, <1>7
<1>9. PositionOf(shift + a) = PositionOf(shift + b)
  <2>1. /\ PositionOf(GetReverseIndex(shift + a)) = kDatapathWidth - 1 - PositionOf(shift + a)
        /\ PositionOf(GetReverseIndex(shift + b)) = kDatapathWidth - 1 - PositionOf(shift + b)
    BY <1>8, ReverseTwice
  <2>2. /\ PositionOf(shift + a) \in Int /\ PositionOf(shift + b) \in Int
        /\ kDatapathWidth \in Int
    <3>1. PositionOf(shift + a) \in Position /\ PositionOf(shift + b) \in Position
      BY <1>8, AddressSplit
    <3>2. QED
      BY <3>1, DatapathAssumption DEF Position
  <2>3. QED
    BY <1>6, <2>1, <2>2
<1>10. PositionOf(a) = PositionOf(b)
  <2>1. PositionOf(a + shift) = PositionOf(b + shift)
    BY <1>8, <1>9, Zenon
  <2>2. QED
    BY <1>3, <1>7, <2>1, SamePosition, ZenonT(40)
<1>11. j = k
  <2>1. PositionOf(j - 1) = PositionOf(k - 1)
    BY <1>10 DEF a, b
  <2>2. QED
    BY <1>1, <1>5, <2>1, Zenon DEF IsOutputClashing
<1>12. QED
  BY <1>5, <1>11

(* What PlacedOutputs sets, and nothing else.                              *)
LEMMA OutputPlaced ==
    ASSUME NEW spec, NEW extended, NEW records, NEW room, NEW chunks,
           OutputSlots(spec, extended, records, room, chunks),
           NEW placed,
           placed = PlacedOutputs(spec, extended, room * kDatapathWidth, chunks * records)
    PROVE  /\ DOMAIN placed = 0..(chunks * records - 1)
           /\ \A r \in 0..(records - 1), k \in Columns(spec) :
                 LET chunk == chunks * r + ChunkOf(spec[k])
                     to == GetReverseIndex(r * Len(spec) + (k - 1))
                 IN  /\ chunk \in DOMAIN placed
                     /\ placed[chunk].is_set[PositionOf(to)]
                     /\ placed[chunk].chunk_selection[PositionOf(to)] = ChunkOf(to)
                     /\ placed[chunk].position_selection[PositionOf(to)]
                            = kDatapathWidth - 1 - PositionOf(spec[k])
           /\ \A chunk \in DOMAIN placed, p \in Position :
                 IF placed[chunk].is_set[p]
                 THEN \E r \in 0..(records - 1), k \in Columns(spec) :
                         /\ chunk = chunks * r + ChunkOf(spec[k])
                         /\ p = PositionOf(GetReverseIndex(r * Len(spec) + (k - 1)))
                 ELSE /\ placed[chunk].chunk_selection[p] = kDatapathLength - 1
                      /\ placed[chunk].position_selection[p] = 0
<1> DEFINE w == kDatapathWidth
           slot == room * w
           all == chunks * records
           Sel == {l \in DOMAIN extended : extended[l] >= 0}
           current == [l \in Sel |-> PackedLocation(spec, slot, GetReverseIndex(l))]
           InChunk(chunk) == {l \in Sel : ChunkOf(extended[l]) = chunk}
           PulledTo(chunk, p) == {l \in InChunk(chunk) : PositionOf(current[l]) = p}
           IsSet(chunk) == [p \in Position |-> PulledTo(chunk, p) # {}]
           Chunks(chunk) == [p \in Position |->
               IF PulledTo(chunk, p) = {} THEN EmptyChunk.chunk_selection[p]
               ELSE ChunkOf(current[Max(PulledTo(chunk, p))])]
           Positions(chunk) == [p \in Position |->
               IF PulledTo(chunk, p) = {} THEN EmptyChunk.position_selection[p]
               ELSE PositionOf(extended[Max(PulledTo(chunk, p))])]
           To(r, k) == GetReverseIndex(r * Len(spec) + (k - 1))
<1>1. placed = [chunk \in 0..(all - 1) |-> [is_set |-> IsSet(chunk),
                                            chunk_selection |-> Chunks(chunk),
                                            position_selection |-> Positions(chunk)]]
  BY Zenon DEF PlacedOutputs
<1>2. ASSUME NEW chunk \in 0..(all - 1)
      PROVE  /\ placed[chunk].is_set = IsSet(chunk)
             /\ placed[chunk].chunk_selection = Chunks(chunk)
             /\ placed[chunk].position_selection = Positions(chunk)
  <2> HIDE DEF IsSet, Chunks, Positions, all
  <2>1. placed[chunk] = [is_set |-> IsSet(chunk), chunk_selection |-> Chunks(chunk),
                         position_selection |-> Positions(chunk)]
    BY <1>1, Zenon
  <2>2. QED
    BY <2>1
<1>3. DOMAIN placed = 0..(all - 1)
  BY <1>1, Zenon
<1>4. ASSUME NEW l \in Sel
      PROVE  \E r \in 0..(records - 1), k \in Columns(spec) :
                /\ l = Location(room, r, k - 1)
                /\ ChunkOf(extended[l]) = chunks * r + ChunkOf(spec[k])
                /\ current[l] = To(r, k)
  <2>1. PICK r \in 0..(records - 1), k \in Columns(spec) : l = Location(room, r, k - 1)
    BY OnlyColumnsSelected
  <2>2. current[l] = PackedLocation(spec, slot, GetReverseIndex(l))
    OBVIOUS
  <2>3. /\ ChunkOf(extended[l]) = chunks * r + ChunkOf(spec[k])
        /\ PackedLocation(spec, slot, GetReverseIndex(l)) = To(r, k)
    BY <2>1, OutputSelected
  <2>4. current[l] = To(r, k)
    BY <2>2, <2>3, Zenon
  <2> HIDE DEF To, current
  <2>5. QED
    BY <2>1, <2>3, <2>4, Zenon
<1>5. ASSUME NEW r \in 0..(records - 1), NEW k \in Columns(spec)
      PROVE  LET chunk == chunks * r + ChunkOf(spec[k])
                 p == PositionOf(To(r, k))
                 l == Location(room, r, k - 1)
             IN  /\ chunk \in 0..(all - 1) /\ p \in Position
                 /\ PulledTo(chunk, p) # {} /\ Max(PulledTo(chunk, p)) = l
                 /\ current[l] = To(r, k)
                 /\ PositionOf(extended[l]) = w - 1 - PositionOf(spec[k])
  <2> DEFINE chunk == chunks * r + ChunkOf(spec[k])
             p == PositionOf(To(r, k))
             l == Location(room, r, k - 1)
  <2>1. /\ l \in DOMAIN extended /\ l \in Nat /\ extended[l] \in Nat
        /\ ChunkOf(extended[l]) = chunk
        /\ PositionOf(extended[l]) = w - 1 - PositionOf(spec[k])
        /\ ChunkOf(spec[k]) \in 0..(chunks - 1)
        /\ PackedLocation(spec, slot, GetReverseIndex(l)) = To(r, k)
    BY OutputSelected
  <2>2. l \in Sel /\ current[l] = To(r, k)
    <3>1. l \in Sel
      BY <2>1
    <3> HIDE DEF l, Sel, To
    <3>2. current[l] = PackedLocation(spec, slot, GetReverseIndex(l))
      BY <3>1
    <3>3. QED
      BY <2>1, <3>1, <3>2, Zenon
  <2>3. l \in PulledTo(chunk, p)
    <3> HIDE DEF l, Sel, To, current, chunk
    <3>1. QED
      BY <2>1, <2>2
  <2>4. ASSUME NEW m \in PulledTo(chunk, p)
        PROVE  m = l
    <3>1. m \in Sel /\ ChunkOf(extended[m]) = chunk /\ PositionOf(current[m]) = p
      <4> HIDE DEF Sel, current, chunk, p
      <4>1. QED
        OBVIOUS
    <3>2. PICK s \in 0..(records - 1), j \in Columns(spec) :
              /\ m = Location(room, s, j - 1)
              /\ ChunkOf(extended[m]) = chunks * s + ChunkOf(spec[j])
              /\ current[m] = To(s, j)
      <4> HIDE DEF Sel, current, To
      <4>1. QED
        BY <1>4, <3>1, Zenon
    <3>3. /\ chunks * s + ChunkOf(spec[j]) = chunks * r + ChunkOf(spec[k])
          /\ PositionOf(To(s, j)) = PositionOf(To(r, k))
      <4> HIDE DEF Sel, current, To
      <4>1. QED
        BY <3>1, <3>2, Zenon
    <3>4. s = r /\ j = k
      BY <3>3, OneColumnPushed
    <3>5. QED
      BY <3>2, <3>4
  <2> HIDE DEF chunk, p, l, PulledTo
  <2>5. PulledTo(chunk, p) # {} /\ Max(PulledTo(chunk, p)) = l
    <3>1. PulledTo(chunk, p) = {l} /\ l \in Nat
      BY <2>1, <2>3, <2>4
    <3>2. PulledTo(chunk, p) \in SUBSET (0..l) /\ PulledTo(chunk, p) # {}
      BY <3>1
    <3>3. Max(PulledTo(chunk, p)) \in PulledTo(chunk, p)
      BY <3>1, <3>2, GreatestNumber
    <3>4. QED
      BY <3>1, <3>3
  <2>6. chunk \in 0..(all - 1)
    <3> DEFINE h == ChunkOf(spec[k])
    <3>1. chunk = chunks * r + h /\ h \in 0..(chunks - 1)
      BY <2>1 DEF chunk
    <3>2. chunks \in Nat \ {0} /\ records \in Nat \ {0} /\ r \in Nat
      BY DEF OutputSlots
    <3> HIDE DEF h
    <3>3. chunks * (r + 1) <= chunks * records
      BY <3>2
    <3>4. chunks * (r + 1) = chunks * r + chunks
      BY <3>2
    <3>5. chunks * r \in Nat /\ chunks * records \in Nat
      BY <3>2
    <3>6. QED
      BY <3>1, <3>2, <3>3, <3>4, <3>5
  <2>7. p \in Position
    <3>1. r * Len(spec) + (k - 1) \in Nat
      <4>1. spec \in Seq(Nat \cup {NoColumn}) /\ Len(spec) \in Nat /\ r \in Nat
        BY DEF OutputSlots
      <4>2. k - 1 \in Nat
        BY <4>1, ColumnKnown
      <4>3. r * Len(spec) \in Nat
        BY <4>1
      <4>4. QED
        BY <4>2, <4>3
    <3>2. To(r, k) \in Nat
      BY <3>1, ReverseTwice
    <3>3. QED
      BY <3>2, AddressSplit DEF p
  <2>8. QED
    BY <2>1, <2>2, <2>5, <2>6, <2>7 DEF chunk, p, l
<1> HIDE DEF To
<1>6. ASSUME NEW r \in 0..(records - 1), NEW k \in Columns(spec)
      PROVE  LET chunk == chunks * r + ChunkOf(spec[k])
                 p == PositionOf(To(r, k))
             IN  /\ chunk \in DOMAIN placed
                 /\ placed[chunk].is_set[p]
                 /\ placed[chunk].chunk_selection[p] = ChunkOf(To(r, k))
                 /\ placed[chunk].position_selection[p] = w - 1 - PositionOf(spec[k])
  <2> DEFINE chunk == chunks * r + ChunkOf(spec[k])
             p == PositionOf(To(r, k))
             l == Location(room, r, k - 1)
  <2> HIDE DEF current, Sel, PulledTo, all
  <2>1. /\ chunk \in 0..(all - 1) /\ p \in Position
        /\ PulledTo(chunk, p) # {} /\ Max(PulledTo(chunk, p)) = l
        /\ current[l] = To(r, k)
        /\ PositionOf(extended[l]) = w - 1 - PositionOf(spec[k])
    BY <1>5
  <2> HIDE DEF chunk, p, l
  <2>2. IsSet(chunk)[p] /\ Chunks(chunk)[p] = ChunkOf(current[l])
        /\ Positions(chunk)[p] = PositionOf(extended[l])
    BY <2>1
  <2> HIDE DEF IsSet, Chunks, Positions
  <2>3. /\ placed[chunk].is_set[p] /\ placed[chunk].chunk_selection[p] = ChunkOf(current[l])
        /\ placed[chunk].position_selection[p] = PositionOf(extended[l])
    BY <1>2, <2>1, <2>2, Zenon
  <2>4. QED
    BY <1>3, <2>1, <2>3 DEF chunk, p
<1>7. ASSUME NEW chunk \in DOMAIN placed, NEW p \in Position
      PROVE  IF placed[chunk].is_set[p]
             THEN \E r \in 0..(records - 1), k \in Columns(spec) :
                     /\ chunk = chunks * r + ChunkOf(spec[k])
                     /\ p = PositionOf(To(r, k))
             ELSE /\ placed[chunk].chunk_selection[p] = kDatapathLength - 1
                  /\ placed[chunk].position_selection[p] = 0
  <2>1. /\ placed[chunk].is_set = IsSet(chunk)
        /\ placed[chunk].chunk_selection = Chunks(chunk)
        /\ placed[chunk].position_selection = Positions(chunk)
    <3> HIDE DEF IsSet, Chunks, Positions, all
    <3>1. QED
      BY <1>2, <1>3, Zenon
  <2>2. CASE PulledTo(chunk, p) # {}
    <3>1. PICK m \in PulledTo(chunk, p) : TRUE
      BY <2>2
    <3>2. m \in Sel /\ ChunkOf(extended[m]) = chunk /\ PositionOf(current[m]) = p
      <4> HIDE DEF Sel, current
      <4>1. QED
        BY <3>1
    <3> HIDE DEF Sel, current, PulledTo
    <3>3. PICK r \in 0..(records - 1), k \in Columns(spec) :
              /\ ChunkOf(extended[m]) = chunks * r + ChunkOf(spec[k])
              /\ current[m] = To(r, k)
      BY <1>4, <3>2, Zenon
    <3>4. /\ chunk = chunks * r + ChunkOf(spec[k])
          /\ p = PositionOf(To(r, k))
      BY <3>2, <3>3, Zenon
    <3>5. placed[chunk].is_set[p]
      <4>1. IsSet(chunk)[p]
        BY <2>2
      <4>2. QED
        BY <2>1, <4>1, Zenon
    <3>6. QED
      BY <3>4, <3>5, Zenon
  <2>3. CASE PulledTo(chunk, p) = {}
    <3> HIDE DEF PulledTo
    <3>1. /\ ~IsSet(chunk)[p] /\ Chunks(chunk)[p] = EmptyChunk.chunk_selection[p]
          /\ Positions(chunk)[p] = EmptyChunk.position_selection[p]
      BY <2>3
    <3>2. EmptyChunk.chunk_selection[p] = kDatapathLength - 1
          /\ EmptyChunk.position_selection[p] = 0
      BY DEF EmptyChunk
    <3> HIDE DEF IsSet, Chunks, Positions
    <3>3. QED
      BY <2>1, <3>1, <3>2, Zenon
  <2>4. QED
    BY <2>2, <2>3
<1>8. QED
  BY <1>3, <1>6, <1>7, Zenon DEF To

(* No two columns of a burst have the same place in the packed records.    *)
LEMMA PackedApart ==
    ASSUME NEW spec \in Seq(Nat \cup {NoColumn}), Len(spec) \in Nat \ {0},
           NEW r \in Nat, NEW k \in Columns(spec), NEW s \in Nat, NEW j \in Columns(spec),
           NEW to, to = GetReverseIndex(r * Len(spec) + (k - 1)),
           NEW other, other = GetReverseIndex(s * Len(spec) + (j - 1)),
           ChunkOf(to) = ChunkOf(other), PositionOf(to) = PositionOf(other)
    PROVE  s = r /\ j = k
<1> DEFINE len == Len(spec)
           a == k - 1
           b == j - 1
<1>1. /\ a \in 0..(len - 1) /\ b \in 0..(len - 1) /\ a + 1 = k /\ b + 1 = j
  BY ColumnKnown
<1>2. len \in Nat \ {0} /\ to = GetReverseIndex(r * len + a)
      /\ other = GetReverseIndex(s * len + b)
  OBVIOUS
<1> HIDE DEF len, a, b
<1>3. r * len + a \in Nat /\ s * len + b \in Nat
  <2>1. r * len \in Nat /\ s * len \in Nat /\ a \in Nat /\ b \in Nat
    BY <1>1, <1>2
  <2>2. QED
    BY <2>1
<1>4. /\ to \in Nat /\ GetReverseIndex(to) = r * len + a
      /\ other \in Nat /\ GetReverseIndex(other) = s * len + b
  BY <1>2, <1>3, ReverseTwice
<1>5. to = other
  <2>1. to = ChunkOf(to) * kDatapathWidth + PositionOf(to)
        /\ other = ChunkOf(other) * kDatapathWidth + PositionOf(other)
    BY <1>4, AddressSplit
  <2>2. QED
    BY <2>1, Zenon
<1>6. r * len + a = s * len + b
  BY <1>4, <1>5
<1>7. /\ (r * len + a) \div len = r /\ (r * len + a) % len = a
      /\ (s * len + b) \div len = s /\ (s * len + b) % len = b
  BY <1>1, <1>2, RemainderKnown
<1>8. s = r /\ a = b
  BY <1>6, <1>7, Zenon
<1>9. QED
  BY <1>1, <1>8

(* If one chunk of the interface is pushed to a place, that is where the   *)
(* integer there comes from.                                               *)
LEMMA PushedOnce ==
    ASSUME NEW crossbar, NEW to, NEW p, NEW chunk \in DOMAIN crossbar, NEW from,
           crossbar[chunk].chunk_selection[p] = to,
           crossbar[chunk].position_selection[p] = from,
           \A other \in DOMAIN crossbar :
               crossbar[other].chunk_selection[p] = to => other = chunk
    PROVE  PushedTo(crossbar, <<to, p>>) = {<<chunk, from>>}
<1> DEFINE Selecting == {other \in DOMAIN crossbar : crossbar[other].chunk_selection[p] = to}
<1>1. Selecting = {chunk}
  OBVIOUS
<1>2. PushedTo(crossbar, <<to, p>>)
          = {<<other, crossbar[other].position_selection[p]>> : other \in Selecting}
  BY DEF PushedTo
<1> HIDE DEF Selecting
<1>3. QED
  BY <1>1, <1>2

(* Where a column of an output record is on the interface.                 *)
LEMMA ColumnOnInterface ==
    ASSUME NEW room \in Nat, NEW r \in Nat, NEW a \in Nat
    PROVE  InBuffer(r * room * kDatapathWidth + a)
               = <<r * room + ChunkOf(a), kDatapathWidth - 1 - PositionOf(a)>>
<1>1. r * room \in Nat
  OBVIOUS
<1>2. /\ ChunkOf(r * room * kDatapathWidth + a) = r * room + ChunkOf(a)
      /\ PositionOf(r * room * kDatapathWidth + a) = PositionOf(a)
  BY <1>1, ChunksBefore
<1>3. QED
  BY <1>2, Zenon DEF InBuffer

(* The chunk that is free at a position is none that is used there         *)
(* (AllocateAvailableChunks).                                              *)
LEMMA FreeChunkUnused ==
    ASSUME NEW placed, NEW p \in Position, ~IsOutOfChunks(placed),
           NEW other \in DOMAIN placed, ~placed[other].is_set[p],
           NEW chunk \in DOMAIN placed, placed[chunk].is_set[p]
    PROVE  Max(FreeChunks(placed, p) \cup {0}) # placed[chunk].chunk_selection[p]
<1> DEFINE free == FreeChunks(placed, p)
<1>1. free # {}
  BY Zenon DEF IsOutOfChunks
<1>2. placed[chunk].chunk_selection[p] \notin free
  BY DEF FreeChunks
<1>3. free \in SUBSET Chunk
  BY DEF FreeChunks
<1> HIDE DEF free
<1>4. free \in SUBSET (0..(kDatapathLength - 1)) /\ kDatapathLength \in Nat \ {0}
  BY <1>3, DatapathAssumption DEF Chunk
<1>5. /\ Max(free \cup {0}) \in free \cup {0}
      /\ \A y \in free \cup {0} : Max(free \cup {0}) >= y
  <2>1. kDatapathLength \in Nat /\ free \cup {0} \in SUBSET (0..kDatapathLength)
        /\ free \cup {0} # {}
    BY <1>4
  <2>2. QED
    BY <2>1, GreatestNumber
<1>6. Max(free \cup {0}) \in free
  <2>1. PICK f \in free : TRUE
    BY <1>1
  <2>2. f \in Nat /\ Max(free \cup {0}) >= f
    BY <1>4, <1>5, <2>1
  <2>3. QED
    BY <1>5, <2>1, <2>2
<1>7. QED
  BY <1>2, <1>6 DEF free

(* With a free chunk for what is not set, only columns are pushed to where *)
(* columns belong.                                                         *)
LEMMA PushedWithCheck ==
    ASSUME NEW spec, NEW extended, NEW records, NEW room,
           OutputSlots(spec, extended, records, room, room),
           NEW placed,
           placed = PlacedOutputs(spec, extended, room * kDatapathWidth, room * records),
           ~IsOutOfChunks(placed),
           NEW r \in 0..(records - 1), NEW k \in Columns(spec)
    PROVE  PushedTo(AllocateAvailableChunks(placed), InBuffer(r * Len(spec) + (k - 1)))
               = {InBuffer(r * room * kDatapathWidth + spec[k])}
<1> DEFINE crossbar == AllocateAvailableChunks(placed)
           To(s, j) == GetReverseIndex(s * Len(spec) + (j - 1))
           chunk == room * r + ChunkOf(spec[k])
           p == PositionOf(To(r, k))
           from == kDatapathWidth - 1 - PositionOf(spec[k])
           free == [q \in Position |-> Max(FreeChunks(placed, q) \cup {0})]
           Chunks(c) == [q \in Position |-> IF placed[c].is_set[q]
                                            THEN placed[c].chunk_selection[q] ELSE free[q]]
<1>1. /\ spec \in Seq(Nat \cup {NoColumn}) /\ Len(spec) \in Nat \ {0}
      /\ room \in Nat \ {0} /\ records \in Nat \ {0}
  BY DEF OutputSlots
<1>2. r \in Nat /\ spec[k] \in Nat /\ k - 1 \in Nat
  <2>1. spec[k] \in Nat /\ k \in 1..Len(spec)
    BY <1>1, ColumnKnown
  <2>2. QED
    BY <1>1, <2>1
<1>3. r * Len(spec) + (k - 1) \in Nat
  BY <1>1, <1>2
<1>4. /\ To(r, k) \in Nat
      /\ InBuffer(r * Len(spec) + (k - 1)) = <<ChunkOf(To(r, k)), p>>
  BY <1>3, ReverseTwice
<1>5. p \in Position
  BY <1>4, AddressSplit
<1>6. InBuffer(r * room * kDatapathWidth + spec[k]) = <<chunk, from>>
  <2>1. room * r = r * room
    BY <1>1, <1>2
  <2>2. QED
    BY <1>1, <1>2, <2>1, ColumnOnInterface
<1>7. /\ \A s \in 0..(records - 1), j \in Columns(spec) :
            LET c == room * s + ChunkOf(spec[j])
            IN  /\ c \in DOMAIN placed
                /\ placed[c].is_set[PositionOf(To(s, j))]
                /\ placed[c].chunk_selection[PositionOf(To(s, j))] = ChunkOf(To(s, j))
                /\ placed[c].position_selection[PositionOf(To(s, j))]
                       = kDatapathWidth - 1 - PositionOf(spec[j])
      /\ \A c \in DOMAIN placed, q \in Position :
            placed[c].is_set[q] =>
                \E s \in 0..(records - 1), j \in Columns(spec) :
                   c = room * s + ChunkOf(spec[j]) /\ q = PositionOf(To(s, j))
  <2>1. ASSUME NEW s \in 0..(records - 1), NEW j \in Columns(spec)
        PROVE  LET c == room * s + ChunkOf(spec[j])
               IN  /\ c \in DOMAIN placed
                   /\ placed[c].is_set[PositionOf(To(s, j))]
                   /\ placed[c].chunk_selection[PositionOf(To(s, j))] = ChunkOf(To(s, j))
                   /\ placed[c].position_selection[PositionOf(To(s, j))]
                          = kDatapathWidth - 1 - PositionOf(spec[j])
    BY OutputPlaced
  <2>2. ASSUME NEW c \in DOMAIN placed, NEW q \in Position, placed[c].is_set[q]
        PROVE  \E s \in 0..(records - 1), j \in Columns(spec) :
                  c = room * s + ChunkOf(spec[j]) /\ q = PositionOf(To(s, j))
    BY <2>2, OutputPlaced
  <2> HIDE DEF To
  <2>3. QED
    BY <2>1, <2>2
<1>8. crossbar = [c \in DOMAIN placed |->
                     [chunk_selection |-> Chunks(c),
                      position_selection |-> placed[c].position_selection]]
  BY Zenon DEF AllocateAvailableChunks
<1>9. ASSUME NEW c \in DOMAIN placed
      PROVE  /\ crossbar[c].chunk_selection[p]
                    = IF placed[c].is_set[p] THEN placed[c].chunk_selection[p] ELSE free[p]
             /\ crossbar[c].position_selection = placed[c].position_selection
  <2>1. Chunks(c)[p] = IF placed[c].is_set[p] THEN placed[c].chunk_selection[p] ELSE free[p]
    BY <1>5, Zenon
  <2> HIDE DEF Chunks, free
  <2>2. crossbar[c] = [chunk_selection |-> Chunks(c),
                       position_selection |-> placed[c].position_selection]
    BY <1>8, Zenon
  <2>3. /\ crossbar[c].chunk_selection = Chunks(c)
        /\ crossbar[c].position_selection = placed[c].position_selection
    BY <2>2
  <2>4. QED
    BY <2>1, <2>3, Zenon
<1>10. free[p] = Max(FreeChunks(placed, p) \cup {0})
  BY <1>5
<1>11. DOMAIN crossbar = DOMAIN placed
  BY <1>8, Zenon
<1>12. /\ chunk \in DOMAIN placed /\ placed[chunk].is_set[p]
       /\ placed[chunk].chunk_selection[p] = ChunkOf(To(r, k))
       /\ placed[chunk].position_selection[p] = from
  BY <1>7
<1> HIDE DEF crossbar, free, chunk, p, from, To
<1>13. ASSUME NEW other \in DOMAIN placed,
              crossbar[other].chunk_selection[p] = ChunkOf(To(r, k))
       PROVE  other = chunk
  <2>1. CASE placed[other].is_set[p]
    <3>1. placed[other].chunk_selection[p] = ChunkOf(To(r, k))
      BY <1>9, <1>13, <2>1, Zenon
    <3>2. PICK s \in 0..(records - 1), j \in Columns(spec) :
              other = room * s + ChunkOf(spec[j]) /\ p = PositionOf(To(s, j))
      BY <1>5, <1>7, <2>1, Zenon
    <3>3. placed[other].chunk_selection[p] = ChunkOf(To(s, j))
      BY <1>7, <3>2, Zenon
    <3>4. s \in Nat
      OBVIOUS
    <3>5. s = r /\ j = k
      <4>1. ChunkOf(To(r, k)) = ChunkOf(To(s, j)) /\ PositionOf(To(r, k)) = PositionOf(To(s, j))
        BY <3>1, <3>2, <3>3 DEF p
      <4>2. QED
        BY <1>1, <1>2, <3>4, <4>1, PackedApart, SMTT(40) DEF To
    <3>6. QED
      BY <3>2, <3>5 DEF chunk
  <2>2. CASE ~placed[other].is_set[p]
    <3>1. free[p] # placed[chunk].chunk_selection[p]
      BY <1>5, <1>10, <1>12, <2>2, FreeChunkUnused
    <3>2. QED
      BY <1>9, <1>12, <1>13, <2>2, <3>1, Zenon
  <2>3. QED
    BY <2>1, <2>2
<1>14. PushedTo(crossbar, <<ChunkOf(To(r, k)), p>>) = {<<chunk, from>>}
  <2>1. crossbar[chunk].chunk_selection[p] = ChunkOf(To(r, k))
        /\ crossbar[chunk].position_selection[p] = from
    BY <1>9, <1>12, Zenon
  <2>2. QED
    BY <1>11, <1>12, <1>13, <2>1, PushedOnce
<1>15. QED
  BY <1>4, <1>6, <1>14 DEF crossbar

(* What is not junk in an output burst (NeedsOverwriteCheck).              *)
Carried(extended) == {l \in DOMAIN extended : extended[l] # PostRecordJunk}

(* If a record leaves chunks of its slot free, there is no need to look    *)
(* for a free one.                                                         *)
LEMMA CheckedWhenFull ==
    ASSUME NEW spec, NEW extended, NEW records, NEW room, NEW chunks,
           OutputSlots(spec, extended, records, room, chunks),
           NeedsOverwriteCheck(extended)
    PROVE  chunks = room
<1> DEFINE w == kDatapathWidth
           length == kDatapathLength
           low == (room - 1) * w
           high == room * w - 1
           J == low..high
           D == DOMAIN extended
<1>1. /\ Len(spec) \in Nat \ {0} /\ Len(spec) <= chunks * w
      /\ room \in Nat \ {0} /\ chunks \in 1..room /\ records \in Nat \ {0}
      /\ records * room = length
      /\ D = 0..(w * (records * room) - 1)
      /\ \A r \in 0..(records - 1), c \in 0..(room * w - 1) :
            extended[Location(room, r, c)] = Wanted(spec, chunks * w, PostRecordJunk, r, c)
  BY DEF OutputSlots
<1>2. w \in Nat \ {0} /\ length \in Nat \ {0} /\ kDdrBurstSize = w * length
  BY DatapathAssumption
<1>3. Cardinality(Carried(extended)) > kDdrBurstSize - w
  BY DEF NeedsOverwriteCheck, Carried
<1>4. SUFFICES ASSUME chunks < room PROVE FALSE
  BY <1>1
<1> HIDE DEF w, length, D
<1>5. /\ low \in Nat /\ high \in Nat /\ high = low + w - 1
      /\ chunks * w <= low /\ high < w * length
  <2>1. /\ (room - 1) * w \in Nat /\ room * w = (room - 1) * w + w
    BY <1>1, <1>2
  <2>2. chunks * w <= (room - 1) * w /\ chunks * w \in Nat
    BY <1>1, <1>2, <1>4
  <2>3. room * w <= w * (records * room)
    <3>1. room <= records * room /\ records * room \in Nat
      BY <1>1
    <3> DEFINE all == records * room
    <3> HIDE DEF all
    <3>2. room <= all /\ all \in Nat
      BY <3>1 DEF all
    <3>3. room * w <= w * all
      BY <1>1, <1>2, <3>2
    <3>4. QED
      BY <3>3 DEF all
  <2>4. w * (records * room) = w * length /\ w * length \in Nat
    BY <1>1, <1>2
  <2>5. QED
    BY <1>2, <2>1, <2>2, <2>3, <2>4
<1>6. ASSUME NEW l \in J
      PROVE  l \in D /\ extended[l] = PostRecordJunk
  <2>1. l \in 0..(w * length - 1) /\ l \in Nat
    <3> HIDE DEF low, high
    <3>1. w * length \in Nat
      BY <1>2
    <3>2. QED
      BY <1>5, <3>1
  <2>2. l \in D
    BY <1>1, <2>1
  <2> DEFINE c == GetReverseIndex(l)
  <2>3. c \in Nat /\ GetReverseIndex(c) = l /\ ChunkOf(c) = ChunkOf(l)
    BY <2>1, ReverseTwice
  <2>4. ChunkOf(l) = room - 1
    <3> DEFINE p == l - low
    <3>1. p \in Position /\ l = (room - 1) * w + p
      BY <1>2, <1>5 DEF Position, w
    <3> HIDE DEF p
    <3>2. room - 1 \in Nat
      BY <1>1
    <3>3. QED
      BY <3>1, <3>2, AddressKnown DEF w
  <2> HIDE DEF c
  <2>5. PositionOf(c) \in Position /\ c = (room - 1) * w + PositionOf(c)
    BY <2>3, <2>4, AddressSplit DEF w
  <2>6. c \in 0..(room * w - 1) /\ c >= Len(spec)
    <3> DEFINE q == PositionOf(c)
    <3>1. q \in 0..(w - 1) /\ c = low + q
      BY <2>5 DEF Position, w
    <3>2. room * w - 1 = high /\ chunks * w \in Nat
      BY <1>1, <1>2
    <3> HIDE DEF q, low, high
    <3>3. QED
      BY <1>1, <1>2, <1>5, <3>1, <3>2
  <2>7. l = Location(room, 0, c)
    <3>1. 0 * (room * kDatapathWidth) + c = c
      BY <1>1, <2>3, DatapathAssumption
    <3>2. QED
      BY <2>3, <3>1 DEF Location
  <2>8. extended[l] = Wanted(spec, chunks * w, PostRecordJunk, 0, c)
    BY <1>1, <2>6, <2>7
  <2>9. QED
    BY <2>2, <2>6, <2>8 DEF Wanted
<1> HIDE DEF low, high
<1>7. IsFiniteSet(D) /\ Cardinality(D) = w * length
  <2>1. 0 \in Int /\ w * length - 1 \in Int /\ w * length \in Nat \ {0}
    BY <1>2
  <2>2. D = 0..(w * length - 1)
    BY <1>1
  <2>3. /\ IsFiniteSet(0..(w * length - 1))
        /\ Cardinality(0..(w * length - 1))
               = IF 0 > w * length - 1 THEN 0 ELSE (w * length - 1) - 0 + 1
    BY <2>1, FS_Interval, Zenon
  <2>4. QED
    BY <2>1, <2>2, <2>3
<1>8. Cardinality(J) = w
  <2>1. low \in Int /\ high \in Int
    BY <1>5
  <2>2. Cardinality(low..high) = IF low > high THEN 0 ELSE high - low + 1
    BY <2>1, FS_Interval, Zenon
  <2>3. QED
    BY <1>2, <1>5, <2>2
<1>9. D \cap J = J
  BY <1>6
<1>10. Carried(extended) \in SUBSET (D \ J)
  BY <1>6 DEF Carried, D
<1> HIDE DEF J
<1>11. IsFiniteSet(D \ J) /\ Cardinality(D \ J) = w * length - w
  BY <1>7, <1>8, <1>9, FS_Difference
<1>12. Cardinality(Carried(extended)) <= Cardinality(D \ J)
  BY <1>10, <1>11, FS_Subset, Zenon
<1>13. Cardinality(Carried(extended)) \in Nat
  <2>1. IsFiniteSet(Carried(extended))
    BY <1>10, <1>11, FS_Subset, Zenon
  <2>2. QED
    BY <2>1, FS_CardinalityType, Zenon
<1>14. w * length \in Nat
  BY <1>2
<1>15. QED
  BY <1>2, <1>3, <1>11, <1>12, <1>13, <1>14

(* If there is no need to, the packed records leave the last chunk of the  *)
(* buffer free.                                                            *)
LEMMA LastChunkSpare ==
    ASSUME NEW spec, NEW extended, NEW records, NEW room, NEW chunks,
           OutputSlots(spec, extended, records, room, chunks),
           ~NeedsOverwriteCheck(extended)
    PROVE  records * Len(spec) <= kDatapathWidth * (kDatapathLength - 1)
<1> DEFINE w == kDatapathWidth
           length == kDatapathLength
           len == Len(spec)
           all == records * len
           T == Carried(extended)
           f == [n \in 0..(all - 1) |-> Location(room, n \div len, n % len)]
<1>1. /\ spec \in Seq(Nat \cup {NoColumn}) /\ len \in Nat \ {0} /\ len <= chunks * w
      /\ room \in Nat \ {0} /\ chunks \in 1..room /\ records \in Nat \ {0}
      /\ records * room = length
      /\ DOMAIN extended = 0..(w * (records * room) - 1)
      /\ \A r \in 0..(records - 1), c \in 0..(room * w - 1) :
            extended[Location(room, r, c)] = Wanted(spec, chunks * w, PostRecordJunk, r, c)
  BY DEF OutputSlots
<1>2. w \in Nat \ {0} /\ length \in Nat \ {0} /\ kDdrBurstSize = w * length
  BY DatapathAssumption
<1>3. ~(Cardinality(T) > kDdrBurstSize - w)
  BY Zenon DEF NeedsOverwriteCheck, Carried
<1> HIDE DEF w, len, length
<1>4. all \in Nat /\ len <= room * w
  <2>1. chunks * w <= room * w /\ chunks * w \in Nat /\ room * w \in Nat
    BY <1>1, <1>2
  <2>2. all \in Nat
    BY <1>1
  <2>3. QED
    BY <1>1, <2>1, <2>2
<1>5. ASSUME NEW n \in 0..(all - 1)
      PROVE  /\ n \div len \in 0..(records - 1) /\ n % len \in 0..(len - 1)
             /\ n % len \in 0..(room * w - 1)
             /\ n = (n \div len) * len + (n % len)
  <2> DEFINE r == n \div len
             c == n % len
  <2>1. n \in Nat /\ n < all
    <3> HIDE DEF all
    <3>1. QED
      BY <1>4
  <2>2. r \in Nat /\ c \in 0..(len - 1) /\ r * len + c = n
    BY <1>1, <2>1, Division, Zenon
  <2> HIDE DEF r, c
  <2>3. r < records
    <3>1. SUFFICES ASSUME records <= r PROVE FALSE
      BY <1>1, <2>2
    <3>2. records * len <= r * len /\ r * len \in Nat
      BY <1>1, <2>2, <3>1
    <3>3. QED
      BY <1>1, <1>4, <2>1, <2>2, <3>2
  <2>4. c \in 0..(room * w - 1)
    <3>1. room * w \in Nat
      BY <1>1, <1>2
    <3>2. QED
      BY <1>1, <1>4, <2>2, <3>1
  <2>5. r \in 0..(records - 1)
    BY <1>1, <2>2, <2>3
  <2>6. QED
    BY <2>2, <2>4, <2>5 DEF r, c
<1>6. ASSUME NEW r \in 0..(records - 1), NEW c \in 0..(len - 1), c \in 0..(room * w - 1)
      PROVE  Location(room, r, c) \in T
  <2>1. extended[Location(room, r, c)] = Wanted(spec, chunks * w, PostRecordJunk, r, c)
    BY <1>1, <1>6
  <2>2. ~(c >= len) /\ c + 1 \in 1..len
    BY <1>1
  <2>3. Wanted(spec, chunks * w, PostRecordJunk, r, c) # PostRecordJunk
    <3>1. CASE spec[c + 1] = NoColumn
      <4>1. Wanted(spec, chunks * w, PostRecordJunk, r, c) = NoColumn
        BY <2>2, <3>1, Zenon DEF Wanted, len
      <4>2. QED
        BY <4>1 DEF NoColumn, PostRecordJunk
    <3>2. CASE spec[c + 1] # NoColumn
      <4> DEFINE from == spec[c + 1] + (chunks * w) * r
      <4>1. Wanted(spec, chunks * w, PostRecordJunk, r, c) = GetReverseIndex(from)
        BY <2>2, <3>2, Zenon DEF Wanted, len
      <4>2. from \in Nat
        <5>1. spec[c + 1] \in Nat
          BY <1>1, <2>2, <3>2 DEF len
        <5>2. (chunks * w) * r \in Nat
          BY <1>1, <1>2
        <5>3. QED
          BY <5>1, <5>2
      <4> HIDE DEF from
      <4>3. GetReverseIndex(from) \in Nat
        BY <4>2, ReverseTwice
      <4>4. QED
        BY <4>1, <4>3 DEF PostRecordJunk
    <3>3. QED
      BY <3>1, <3>2
  <2>4. Location(room, r, c) \in DOMAIN extended
    <3>1. records \in Nat /\ c \in 0..(room * kDatapathWidth - 1)
      BY <1>1, <1>6 DEF w
    <3>2. Location(room, r, c) \in 0..(kDatapathWidth * (records * room) - 1)
      BY <1>1, <3>1, LocationsOfBurst
    <3>3. QED
      BY <1>1, <3>2 DEF w
  <2>5. QED
    BY <2>1, <2>3, <2>4 DEF Carried
<1> HIDE DEF all, T
<1>7. f \in [0..(all - 1) -> T]
  BY <1>5, <1>6
<1>8. ASSUME NEW m \in 0..(all - 1), NEW n \in 0..(all - 1), f[m] = f[n]
      PROVE  m = n
  <2>1. /\ m \div len \in Nat /\ m % len \in 0..(room * w - 1)
        /\ n \div len \in Nat /\ n % len \in 0..(room * w - 1)
        /\ m = (m \div len) * len + (m % len) /\ n = (n \div len) * len + (n % len)
    <3>1. \A x \in 0..(records - 1) : x \in Nat
      OBVIOUS
    <3>2. QED
      BY <1>5, <3>1, Zenon
  <2>2. Location(room, m \div len, m % len) = Location(room, n \div len, n % len)
    BY <1>8, Zenon
  <2>3. m \div len = n \div len /\ m % len = n % len
    <3> DEFINE r == m \div len
               c == m % len
               s == n \div len
               d == n % len
    <3>1. /\ r \in Nat /\ c \in 0..(room * kDatapathWidth - 1)
          /\ s \in Nat /\ d \in 0..(room * kDatapathWidth - 1)
          /\ Location(room, r, c) = Location(room, s, d)
      BY <2>1, <2>2, Zenon DEF w
    <3> HIDE DEF r, c, s, d
    <3>2. r = s /\ c = d
      BY <1>1, <3>1, LocationsDiffer
    <3>3. QED
      BY <3>2 DEF r, c, s, d
  <2>4. QED
    BY <2>1, <2>3, Zenon
<1>9. f \in Injection(0..(all - 1), T)
  BY <1>7, <1>8 DEF Injection, IsInjective
<1>10. IsFiniteSet(DOMAIN extended)
  <2>1. 0 \in Int /\ w * (records * room) - 1 \in Int
    BY <1>1, <1>2
  <2>2. IsFiniteSet(0..(w * (records * room) - 1))
    BY <2>1, FS_Interval, Zenon
  <2>3. QED
    BY <1>1, <2>2
<1>11. IsFiniteSet(T)
  <2>1. T \in SUBSET (DOMAIN extended)
    BY DEF T, Carried
  <2>2. QED
    BY <1>10, <2>1, FS_Subset
<1> HIDE DEF f
<1>12. Cardinality(0..(all - 1)) <= Cardinality(T)
  BY <1>9, <1>11, FS_Injection
<1>13. Cardinality(0..(all - 1)) = all
  <2>1. 0 \in Int /\ all - 1 \in Int
    BY <1>4
  <2>2. Cardinality(0..(all - 1)) = IF 0 > all - 1 THEN 0 ELSE (all - 1) - 0 + 1
    BY <2>1, FS_Interval, Zenon
  <2>3. QED
    BY <1>4, <2>2
<1>14. Cardinality(T) \in Nat /\ w * length \in Nat
  BY <1>2, <1>11, FS_CardinalityType
<1>15. all <= w * length - w
  BY <1>2, <1>3, <1>4, <1>12, <1>13, <1>14
<1>16. w * length - w = w * (length - 1)
  BY <1>2
<1>17. QED
  BY <1>15, <1>16 DEF all, w, len, length

(* What is one of so many of a size, counted through.                      *)
LEMMA CountedThrough ==
    ASSUME NEW count \in Nat, NEW size \in Nat \ {0}
    PROVE  /\ \A r \in 0..(count - 1), c \in 0..(size - 1) :
                 r * size + c \in 0..(count * size - 1)
           /\ \A n \in 0..(count * size - 1) :
                 n \in Nat /\ n \div size \in 0..(count - 1)
<1>1. ASSUME NEW r \in 0..(count - 1), NEW c \in 0..(size - 1)
      PROVE  r * size + c \in 0..(count * size - 1)
  <2>1. (r + 1) * size <= count * size /\ (r + 1) * size = r * size + size
    OBVIOUS
  <2>2. r * size \in Nat /\ count * size \in Nat
    OBVIOUS
  <2>3. QED
    BY <2>1, <2>2
<1>2. ASSUME NEW n \in 0..(count * size - 1)
      PROVE  n \in Nat /\ n \div size \in 0..(count - 1)
  <2> DEFINE r == n \div size
  <2>1. n \in Nat /\ n < count * size
    <3>1. count * size \in Nat
      OBVIOUS
    <3>2. QED
      BY <3>1
  <2>2. r \in Nat /\ r * size <= n
    BY <2>1, Division, Zenon
  <2> HIDE DEF r
  <2>3. r < count
    <3>1. SUFFICES ASSUME count <= r PROVE FALSE
      BY <2>2
    <3>2. count * size <= r * size /\ r * size \in Nat /\ count * size \in Nat
      BY <2>2, <3>1
    <3>3. QED
      BY <2>1, <2>2, <3>2
  <2>4. QED
    BY <2>1, <2>2, <2>3 DEF r
<1>3. QED
  BY <1>1, <1>2

(* Without it, what is not set selects the last chunk, where no column     *)
(* belongs (InsertMissingEmptySetupChunks).                                *)
LEMMA PushedWithoutCheck ==
    ASSUME NEW spec, NEW extended, NEW records, NEW room, NEW chunks,
           OutputSlots(spec, extended, records, room, chunks),
           room = FindNextPowerOfTwo(chunks),
           records * Len(spec) <= kDatapathWidth * (kDatapathLength - 1),
           NEW placed,
           placed = PlacedOutputs(spec, extended, room * kDatapathWidth, chunks * records),
           NEW r \in 0..(records - 1), NEW k \in Columns(spec)
    PROVE  PushedTo(InsertMissingEmptySetupChunks(placed, records, chunks),
                    InBuffer(r * Len(spec) + (k - 1)))
               = {InBuffer(r * room * kDatapathWidth + spec[k])}
<1> DEFINE crossbar == InsertMissingEmptySetupChunks(placed, records, chunks)
           To(s, j) == GetReverseIndex(s * Len(spec) + (j - 1))
           g == ChunkOf(spec[k])
           chunk == r * room + g
           p == PositionOf(To(r, k))
           from == kDatapathWidth - 1 - PositionOf(spec[k])
           Old(c) == placed[(c \div room) * chunks + (c % room)]
           last == kDatapathLength - 1
<1>1. /\ spec \in Seq(Nat \cup {NoColumn}) /\ Len(spec) \in Nat \ {0}
      /\ room \in Nat \ {0} /\ chunks \in Nat \ {0} /\ chunks <= room /\ records \in Nat \ {0}
  BY DEF OutputSlots
<1>2. r \in Nat /\ spec[k] \in Nat /\ k - 1 \in 0..(Len(spec) - 1) /\ k - 1 \in Nat
  <2>1. spec[k] \in Nat /\ k \in 1..Len(spec)
    BY <1>1, ColumnKnown
  <2>2. QED
    BY <1>1, <2>1
<1>3. r * Len(spec) + (k - 1) \in Nat
  BY <1>1, <1>2, SMTT(40)
<1>4. /\ To(r, k) \in Nat /\ ChunkOf(To(r, k)) = ChunkOf(r * Len(spec) + (k - 1))
      /\ InBuffer(r * Len(spec) + (k - 1)) = <<ChunkOf(To(r, k)), p>>
  BY <1>3, ReverseTwice
<1>5. p \in Position
  BY <1>4, AddressSplit
<1>6. InBuffer(r * room * kDatapathWidth + spec[k]) = <<chunk, from>>
  BY <1>1, <1>2, ColumnOnInterface
<1>7. g \in 0..(chunks - 1)
  BY OutputSelected
<1>8. ChunkOf(To(r, k)) # last
  <2> DEFINE w == kDatapathWidth
             len == Len(spec)
             a == k - 1
             address == r * len + a
  <2>1. w \in Nat \ {0} /\ kDatapathLength \in Nat \ {0}
    BY DatapathAssumption
  <2>2. a \in 0..(len - 1) /\ len \in Nat \ {0} /\ records * len <= w * last
    BY <1>1, <1>2
  <2> HIDE DEF w, len, a
  <2>3. last \in Nat
    BY <2>1
  <2> HIDE DEF last
  <2>4. address < last * w
    <3>1. (r + 1) * len <= records * len
      BY <1>1, <1>2, <2>2
    <3>2. (r + 1) * len = r * len + len
      BY <1>2, <2>2
    <3>3. r * len \in Nat /\ records * len \in Nat /\ w * last \in Nat /\ w * last = last * w
      BY <1>1, <1>2, <2>1, <2>2, <2>3
    <3>4. QED
      BY <2>2, <3>1, <3>2, <3>3
  <2>5. address \in Nat
    BY <1>3 DEF len, a
  <2> HIDE DEF address
  <2>6. /\ ChunkOf(address) \in Nat /\ PositionOf(address) \in Position
        /\ address = ChunkOf(address) * kDatapathWidth + PositionOf(address)
    BY <2>5, AddressSplit
  <2>7. ChunkOf(address) * kDatapathWidth + PositionOf(address) < last * kDatapathWidth
    BY <2>4, <2>6 DEF w
  <2>8. ChunkOf(address) < last
    BY <2>3, <2>6, <2>7, ChunkBelow
  <2>9. ChunkOf(To(r, k)) = ChunkOf(address)
    BY <1>4, Zenon DEF address, len, a
  <2>10. QED
    BY <2>3, <2>6, <2>8, <2>9
<1>9. /\ DOMAIN placed = 0..(chunks * records - 1)
      /\ \A s \in 0..(records - 1), j \in Columns(spec) :
            LET c == chunks * s + ChunkOf(spec[j])
            IN  /\ placed[c].is_set[PositionOf(To(s, j))]
                /\ placed[c].chunk_selection[PositionOf(To(s, j))] = ChunkOf(To(s, j))
                /\ placed[c].position_selection[PositionOf(To(s, j))]
                       = kDatapathWidth - 1 - PositionOf(spec[j])
  <2>1. DOMAIN placed = 0..(chunks * records - 1)
    BY OutputPlaced
  <2>2. ASSUME NEW s \in 0..(records - 1), NEW j \in Columns(spec)
        PROVE  LET c == chunks * s + ChunkOf(spec[j])
               IN  /\ placed[c].is_set[PositionOf(To(s, j))]
                   /\ placed[c].chunk_selection[PositionOf(To(s, j))] = ChunkOf(To(s, j))
                   /\ placed[c].position_selection[PositionOf(To(s, j))]
                          = kDatapathWidth - 1 - PositionOf(spec[j])
    BY OutputPlaced
  <2> HIDE DEF To
  <2>3. QED
    BY <2>1, <2>2
<1>10. ASSUME NEW c \in DOMAIN placed, NEW q \in Position
       PROVE  IF placed[c].is_set[q]
              THEN \E s \in 0..(records - 1), j \in Columns(spec) :
                      c = chunks * s + ChunkOf(spec[j]) /\ q = PositionOf(To(s, j))
              ELSE placed[c].chunk_selection[q] = last
  BY OutputPlaced
<1>11. crossbar = [c \in 0..(records * room - 1) |->
                      IF c % room >= chunks THEN EmptyChunk
                      ELSE [chunk_selection |-> Old(c).chunk_selection,
                            position_selection |-> Old(c).position_selection]]
  BY Zenon DEF InsertMissingEmptySetupChunks
<1>12. DOMAIN crossbar = 0..(records * room - 1)
  BY <1>11, Zenon
<1> HIDE DEF crossbar, Old, To, p, from, last, g
<1>13. ASSUME NEW c \in 0..(records * room - 1)
       PROVE  IF c % room >= chunks THEN crossbar[c] = EmptyChunk
              ELSE /\ crossbar[c].chunk_selection = Old(c).chunk_selection
                   /\ crossbar[c].position_selection = Old(c).position_selection
  <2>1. CASE c % room >= chunks
    <3>1. crossbar[c] = EmptyChunk
      BY <1>11, <2>1, Zenon
    <3>2. QED
      BY <2>1, <3>1
  <2>2. CASE ~(c % room >= chunks)
    <3>1. crossbar[c] = [chunk_selection |-> Old(c).chunk_selection,
                         position_selection |-> Old(c).position_selection]
      BY <1>11, <2>2, Zenon
    <3>2. /\ crossbar[c].chunk_selection = Old(c).chunk_selection
          /\ crossbar[c].position_selection = Old(c).position_selection
      BY <3>1
    <3>3. QED
      BY <2>2, <3>2
  <2>3. QED
    BY <2>1, <2>2
<1>14. /\ chunk \in 0..(records * room - 1) /\ chunk % room = g /\ chunk \div room = r
  <2>1. g \in 0..(room - 1)
    BY <1>1, <1>7
  <2>2. chunk % room = g /\ chunk \div room = r
    <3>1. room \in Nat \ {0} /\ r \in Nat
      BY <1>1, <1>2
    <3> HIDE DEF g
    <3>2. (r * room + g) \div room = r /\ (r * room + g) % room = g
      BY <2>1, <3>1, RemainderKnown, ZenonT(40)
    <3>3. QED
      BY <3>2 DEF chunk, g
  <2>3. r * room + g \in 0..(records * room - 1)
    <3>1. records \in Nat
      BY <1>1
    <3>2. QED
      BY <1>1, <2>1, <3>1, CountedThrough
  <2>4. QED
    BY <2>2, <2>3
<1>15. /\ crossbar[chunk].chunk_selection[p] = ChunkOf(To(r, k))
       /\ crossbar[chunk].position_selection[p] = from
  <2>1. ~(chunk % room >= chunks)
    BY <1>1, <1>7, <1>14
  <2>2. Old(chunk) = placed[r * chunks + g]
    BY <1>14, Zenon DEF Old
  <2>3. chunks * r + ChunkOf(spec[k]) = r * chunks + g
    <3>1. chunks * r = r * chunks
      BY <1>1, <1>2
    <3>2. QED
      BY <3>1 DEF g
  <2>4. /\ placed[chunks * r + ChunkOf(spec[k])].chunk_selection[p] = ChunkOf(To(r, k))
        /\ placed[chunks * r + ChunkOf(spec[k])].position_selection[p] = from
    BY <1>9 DEF p, from
  <2>5. /\ Old(chunk).chunk_selection[p] = ChunkOf(To(r, k))
        /\ Old(chunk).position_selection[p] = from
    BY <2>2, <2>3, <2>4, Zenon
  <2>6. QED
    BY <1>13, <1>14, <2>1, <2>5
<1>16. ASSUME NEW other \in 0..(records * room - 1),
              crossbar[other].chunk_selection[p] = ChunkOf(To(r, k))
       PROVE  other = chunk
  <2> DEFINE s == other \div room
             h == other % room
             old == s * chunks + h
  <2>1. /\ s \in 0..(records - 1) /\ s \in Nat
        /\ h \in 0..(room - 1) /\ other = s * room + h
    <3>1. records \in Nat
      BY <1>1
    <3>2. other \in Nat /\ s \in 0..(records - 1)
      BY <1>1, <3>1, CountedThrough
    <3>3. s \in Nat /\ h \in 0..(room - 1) /\ other = s * room + h
      BY <1>1, <3>2, Division, Zenon
    <3>4. QED
      BY <3>2, <3>3
  <2>2. Old(other) = placed[old]
    BY Zenon DEF Old
  <2> HIDE DEF s
  <2>3. ~(h >= chunks)
    <3>1. SUFFICES ASSUME h >= chunks PROVE FALSE
      OBVIOUS
    <3>2. crossbar[other] = EmptyChunk
      BY <1>13, <3>1
    <3>3. EmptyChunk.chunk_selection[p] = last
      BY <1>5 DEF EmptyChunk, last
    <3>4. QED
      BY <1>8, <1>16, <3>2, <3>3, Zenon
  <2>4. placed[old].chunk_selection[p] = ChunkOf(To(r, k))
    <3>1. crossbar[other].chunk_selection = Old(other).chunk_selection
      BY <1>13, <2>3
    <3>2. QED
      BY <1>16, <2>2, <3>1, Zenon
  <2> HIDE DEF h, old
  <2>5. h \in 0..(chunks - 1)
    BY <1>1, <2>1, <2>3
  <2>6. records * chunks = chunks * records /\ records \in Nat
    BY <1>1
  <2>7. old \in DOMAIN placed
    <3>1. old \in 0..(records * chunks - 1)
      BY <1>1, <2>1, <2>5, <2>6, CountedThrough DEF old
    <3>2. QED
      BY <1>9, <2>6, <3>1, Zenon
  <2>8. placed[old].is_set[p]
    BY <1>5, <1>8, <1>10, <2>4, <2>7
  <2>9. PICK t \in 0..(records - 1), j \in Columns(spec) :
            old = chunks * t + ChunkOf(spec[j]) /\ p = PositionOf(To(t, j))
    BY <1>5, <1>10, <2>7, <2>8
  <2>10. placed[old].chunk_selection[p] = ChunkOf(To(t, j))
    BY <1>9, <2>9, Zenon
  <2>11. t \in Nat
    OBVIOUS
  <2>12. t = r /\ j = k
    <3>1. ChunkOf(To(r, k)) = ChunkOf(To(t, j)) /\ PositionOf(To(r, k)) = PositionOf(To(t, j))
      BY <2>4, <2>9, <2>10 DEF p
    <3> DEFINE to == To(r, k)
               elsewhere == To(t, j)
    <3>2. /\ to = GetReverseIndex(r * Len(spec) + (k - 1))
          /\ elsewhere = GetReverseIndex(t * Len(spec) + (j - 1))
          /\ ChunkOf(to) = ChunkOf(elsewhere) /\ PositionOf(to) = PositionOf(elsewhere)
      BY <3>1 DEF To
    <3>3. spec \in Seq(Nat \cup {NoColumn}) /\ Len(spec) \in Nat \ {0} /\ r \in Nat
      BY <1>1, <1>2
    <3> HIDE DEF to, elsewhere
    <3>4. QED
      BY <2>11, <3>2, <3>3, PackedApart
  <2>13. s * chunks + h = r * chunks + g
    <3>1. chunks * r = r * chunks
      BY <1>1, <1>2
    <3>2. QED
      BY <2>9, <2>12, <3>1 DEF old, g
  <2>14. /\ (s * chunks + h) \div chunks = s /\ (s * chunks + h) % chunks = h
         /\ (r * chunks + g) \div chunks = r /\ (r * chunks + g) % chunks = g
    BY <1>1, <1>2, <1>7, <2>1, <2>5, RemainderKnown
  <2>15. s = r /\ h = g
    BY <2>13, <2>14, Zenon
  <2>16. QED
    BY <2>1, <2>15
<1> HIDE DEF chunk
<1>17. PushedTo(crossbar, <<ChunkOf(To(r, k)), p>>) = {<<chunk, from>>}
  <2>1. chunk \in DOMAIN crossbar
    BY <1>12, <1>14
  <2>2. \A other \in DOMAIN crossbar :
            crossbar[other].chunk_selection[p] = ChunkOf(To(r, k)) => other = chunk
    BY <1>12, <1>16, Zenon
  <2>3. QED
    BY <1>15, <2>1, <2>2, PushedOnce
<1>18. QED
  BY <1>4, <1>6, <1>17 DEF crossbar

(* A column of a record is in one of its chunks.                           *)
LEMMA ColumnInChunks ==
    ASSUME NEW width \in Nat, NEW chunks \in Nat, NEW size \in Nat, size <= width * chunks,
           NEW k \in 1..size
    PROVE  k - 1 \in Nat /\ k - 1 < chunks * width
<1>1. width * chunks = chunks * width /\ chunks * width \in Nat
  OBVIOUS
<1>2. QED
  BY <1>1

(* The columns of an output are in the chunks that its records come in.    *)
LEMMA SelectedChunks ==
    ASSUME NEW stream, SelectsFromChunks(stream), stream.stream_record_size \in Nat \ {0},
           NEW chunks \in Nat, chunks = ChunksPerRecord(stream, FALSE),
           stream.stream_record_size <= kDatapathWidth * chunks,
           NEW k \in Columns(Specification(stream))
    PROVE  ChunkOf(Specification(stream)[k]) < chunks
<1>1. CASE stream.stream_specification = <<>>
  <2> DEFINE size == stream.stream_record_size
             spec == Specification(stream)
             c == k - 1
  <2>1. spec = [j \in 1..size |-> j - 1]
    BY <1>1, Zenon DEF Specification
  <2>2. size \in Nat \ {0} /\ size <= kDatapathWidth * chunks
    OBVIOUS
  <2> HIDE DEF size, spec
  <2>3. k \in 1..size
    BY <2>1 DEF Columns, spec
  <2>4. spec[k] = c
    BY <2>1, <2>3
  <2>5. c \in Nat /\ c < chunks * kDatapathWidth
    <3>1. kDatapathWidth \in Nat
      BY DatapathAssumption
    <3>2. QED
      BY <2>2, <2>3, <3>1, ColumnInChunks
  <2> HIDE DEF c
  <2>6. /\ ChunkOf(c) \in Nat /\ PositionOf(c) \in Position
        /\ c = ChunkOf(c) * kDatapathWidth + PositionOf(c)
    BY <2>5, AddressSplit
  <2>7. ChunkOf(c) * kDatapathWidth + PositionOf(c) < chunks * kDatapathWidth
    BY <2>5, <2>6
  <2>8. ChunkOf(c) < chunks
    BY <2>6, <2>7, ChunkBelow
  <2>9. QED
    BY <2>4, <2>8 DEF spec
<1>2. CASE stream.stream_specification # <<>>
  <2>1. Specification(stream) = stream.stream_specification
    BY <1>2 DEF Specification
  <2>2. QED
    BY <2>1, Zenon DEF SelectsFromChunks
<1>3. QED
  BY <1>1, <1>2

(* The slots of an output stream that is set up.                           *)
LEMMA OutputSlotsKnown ==
    ASSUME kMaxRecordsPerDDRBurst = kDatapathLength, NEW stream, ~IsMultichannel(stream),
           stream.stream_specification \in Seq(Nat \cup {NoColumn}),
           stream.stream_record_size \in 1..kDdrBurstSize,
           stream.input_chunks_per_record \in (0..kDatapathLength) \cup {NotGiven},
           SelectsFromChunks(stream), SetupError(stream, FALSE) = "none"
    PROVE  LET spec == Specification(stream)
               records == RecordsPerDDRBurst(stream, FALSE)
               chunks == ChunksPerRecord(stream, FALSE)
               room == FindNextPowerOfTwo(chunks)
               slot == RecordSlot(spec, kDdrBurstSize \div records)
           IN  /\ OutputSlots(spec, ExtendedSpecification(stream, FALSE), records, room, chunks)
               /\ slot = room * kDatapathWidth
               /\ kDatapathLength \div records = room
<1> DEFINE size == stream.stream_record_size
           spec == Specification(stream)
           records == RecordsPerDDRBurst(stream, FALSE)
           chunks == ChunksPerRecord(stream, FALSE)
           extended == ExtendedSpecification(stream, FALSE)
           room == FindNextPowerOfTwo(chunks)
           w == kDatapathWidth
           length == kDatapathLength
<1>1. /\ records # 0 /\ Len(spec) = size
      /\ stream.input_chunks_per_record # NotGiven
  BY TestsPassed
<1>2. /\ chunks \in 1..length /\ size <= w * chunks
      /\ records = length \div room
      /\ records \in PowersOfTwo
  BY <1>1, OutputRoom
<1>3. spec \in Seq(Nat \cup {NoColumn}) /\ size \in Nat \ {0}
  BY SpecificationTyped, DatapathAssumption
<1>4. ~IsOutputClashing(spec)
  BY DEF SetupError
<1>5. extended = ExtendSpecification(records, spec, chunks * w, PostRecordJunk,
                                     kDdrBurstSize \div records)
  BY Zenon DEF ExtendedSpecification, ExtendOutputSpecification
<1>6. w \in Nat \ {0} /\ length \in PowersOfTwo /\ kDdrBurstSize = w * length
      /\ length \in Nat \ {0} /\ length <= LargestPower
  BY DatapathAssumption, BufferAssumption
<1>7. chunks \in Nat \ {0}
  <2> HIDE DEF chunks, length
  <2>1. QED
    BY <1>2, <1>6
<1>8. \A k \in Columns(spec) : ChunkOf(spec[k]) < chunks
  BY <1>2, <1>3, <1>7, SelectedChunks
<1> HIDE DEF size, spec, records, chunks, extended, w, length
<1>9. chunks <= LargestPower
  <2>1. chunks <= length
    BY <1>2
  <2>2. length <= length
    BY <1>6
  <2>3. QED
    BY <1>6, <1>7, <2>1, <2>2, LessThree
<1>10. room \in PowersOfTwo /\ room \in Nat \ {0} /\ chunks <= room
  BY <1>7, <1>9, NextPower
<1> HIDE DEF room
<1>11. PowersOfTwo \in SUBSET (Nat \ {0})
  BY PowersListed
<1>12. room <= length
  <2>1. SUFFICES ASSUME length < room PROVE FALSE
    BY <1>6, <1>10
  <2>2. length \div room = 0
    <3>1. length \in 0..(room - 1)
      BY <1>6, <1>10, <2>1
    <3>2. (0 * room + length) \div room = 0
      BY <1>10, <3>1, QuotientKnown
    <3>3. 0 * room + length = length
      BY <1>6, <1>10
    <3>4. QED
      BY <3>2, <3>3
  <2>3. QED
    BY <1>1, <1>2, <2>2
<1>13. records * room = length
  BY <1>2, <1>6, <1>10, <1>12, PowersMultiply
<1>14. records \in Nat \ {0} /\ room * records = length
  <2>1. records \in Nat \ {0}
    BY <1>2, <1>11
  <2>2. room * records = records * room
    BY <1>10, <2>1
  <2>3. QED
    BY <1>13, <2>1, <2>2
<1>15. kDdrBurstSize \div records = room * w
  <2>1. (w * (room * records)) \div records = room * w
    BY <1>6, <1>10, <1>14, RoomOfRecord
  <2>2. QED
    BY <1>6, <1>14, <2>1, Zenon
<1>16. length \div records = room
  <2>1. (room * records + 0) \div records = room
    <3>1. 0 \in 0..(records - 1)
      BY <1>14
    <3>2. QED
      BY <1>10, <1>14, <3>1, QuotientKnown
  <2>2. room * records + 0 = length
    BY <1>6, <1>14
  <2>3. QED
    BY <2>1, <2>2
<1>17. Len(spec) <= chunks * w /\ Len(spec) \in Nat \ {0}
  <2>1. w * chunks = chunks * w
    BY <1>6, <1>7
  <2>2. QED
    BY <1>1, <1>2, <1>3, <2>1
<1>18. RecordSlot(spec, room * w) = room * w
  <2>1. chunks * w <= room * w /\ chunks * w \in Nat /\ room * w \in Nat
    BY <1>6, <1>7, <1>10
  <2>2. Len(spec) <= room * w
    BY <1>17, <2>1
  <2>3. QED
    BY <1>10, <1>17, <2>2, WholeSlot DEF w
<1>19. /\ DOMAIN extended = 0..(w * (records * room) - 1)
       /\ \A r \in 0..(records - 1), c \in 0..(room * w - 1) :
             extended[Location(room, r, c)] = Wanted(spec, chunks * w, PostRecordJunk, r, c)
  <2> DEFINE end == room * w
             record_size == chunks * w
  <2>1. extended = ExtendSpecification(records, spec, record_size, PostRecordJunk, end)
    BY <1>5, <1>15
  <2>2. RecordSlot(spec, end) = room * kDatapathWidth /\ records \in Nat
    BY <1>14, <1>18 DEF w
  <2> HIDE DEF end, record_size
  <2>3. /\ DOMAIN extended = 0..(kDatapathWidth * (records * room) - 1)
        /\ \A r \in 0..(records - 1), c \in 0..(room * kDatapathWidth - 1) :
              extended[Location(room, r, c)]
                  = Wanted(spec, record_size, PostRecordJunk, r, c)
    BY <1>10, <2>1, <2>2, ExtendedAt
  <2>4. QED
    BY <2>3 DEF record_size, w
<1>20. OutputSlots(spec, extended, records, room, chunks)
  <2>1. chunks \in 1..room
    BY <1>7, <1>10
  <2>2. QED
    BY <1>3, <1>4, <1>8, <1>10, <1>13, <1>14, <1>17, <1>19, <2>1 DEF OutputSlots, w, length
<1>21. QED
  BY <1>15, <1>16, <1>18, <1>20 DEF spec, records, chunks, extended, room, w, length

(* Each position of the packed records of an output stream is filled from   *)
(* the place of its column on the interface, and from nowhere else.        *)
OutputDelivered(data, spec) ==
    \A r \in 0..(data.records_per_ddr_burst - 1), k \in Columns(spec) :
       PushedTo(data.crossbar, InBuffer(r * Len(spec) + k - 1)) = {OnInterface(data, r, spec[k])}

(* Output streams deliver their columns, overwrite check or not.           *)
LEMMA OutputInPlace ==
    ASSUME kMaxRecordsPerDDRBurst = kDatapathLength, NEW stream, ~IsMultichannel(stream),
           stream.stream_specification \in Seq(Nat \cup {NoColumn}),
           stream.stream_record_size \in 1..kDdrBurstSize,
           stream.input_chunks_per_record \in (0..kDatapathLength) \cup {NotGiven},
           SelectsFromChunks(stream), SetupError(stream, FALSE) = "none",
           NEW n, NEW m, NEW data, data = SetupData(stream, FALSE, n, m)
    PROVE  OutputDelivered(data, Specification(stream))
<1> SUFFICES ASSUME NEW r \in 0..(data.records_per_ddr_burst - 1),
                    NEW k \in Columns(Specification(stream))
             PROVE  PushedTo(data.crossbar, InBuffer(r * Len(Specification(stream)) + k - 1))
                        = {OnInterface(data, r, Specification(stream)[k])}
  BY Zenon DEF OutputDelivered
<1> DEFINE spec == Specification(stream)
           records == RecordsPerDDRBurst(stream, FALSE)
           chunks == ChunksPerRecord(stream, FALSE)
           extended == ExtendedSpecification(stream, FALSE)
           room == FindNextPowerOfTwo(chunks)
           slot == RecordSlot(spec, kDdrBurstSize \div records)
           placed == PlacedOutputs(spec, extended, slot, chunks * records)
           place == InBuffer(r * Len(spec) + (k - 1))
<1>1. /\ OutputSlots(spec, extended, records, room, chunks)
      /\ slot = room * kDatapathWidth
      /\ kDatapathLength \div records = room
  BY OutputSlotsKnown
<1>2. /\ data.stream = stream /\ data.records_per_ddr_burst = records
      /\ data.crossbar = ConfigureOutputCrossbarSetupData(spec, extended, records, chunks)
  BY Zenon DEF SetupData
<1>3. NeedsOverwriteCheck(extended) => ~IsOutOfChunks(placed)
  BY Zenon DEF SetupError
<1>4. data.crossbar = IF NeedsOverwriteCheck(extended) THEN AllocateAvailableChunks(placed)
                      ELSE InsertMissingEmptySetupChunks(placed, records, chunks)
  BY <1>2, Zenon DEF ConfigureOutputCrossbarSetupData
<1>5. OnInterface(data, r, spec[k]) = InBuffer(r * room * kDatapathWidth + spec[k])
  <2>1. SlotChunks(data) = room
    BY <1>1, <1>2 DEF SlotChunks
  <2>2. QED
    BY <2>1 DEF OnInterface
<1>6. r \in 0..(records - 1) /\ k \in Columns(spec)
  BY <1>2
<1> HIDE DEF spec, records, chunks, extended, room, slot
<1>7. placed = PlacedOutputs(spec, extended, room * kDatapathWidth, chunks * records)
  BY <1>1
<1> HIDE DEF placed
<1>8. PushedTo(data.crossbar, place) = {InBuffer(r * room * kDatapathWidth + spec[k])}
  <2>1. CASE NeedsOverwriteCheck(extended)
    <3>1. chunks = room
      BY <1>1, <2>1, CheckedWhenFull
    <3>2. /\ OutputSlots(spec, extended, records, room, room)
          /\ placed = PlacedOutputs(spec, extended, room * kDatapathWidth, room * records)
      BY <1>1, <1>7, <3>1
    <3>3. PushedTo(AllocateAvailableChunks(placed), place)
              = {InBuffer(r * room * kDatapathWidth + spec[k])}
      BY <1>3, <1>6, <2>1, <3>2, PushedWithCheck
    <3>4. QED
      BY <1>4, <2>1, <3>3
  <2>2. CASE ~NeedsOverwriteCheck(extended)
    <3>1. records * Len(spec) <= kDatapathWidth * (kDatapathLength - 1)
      BY <1>1, <2>2, LastChunkSpare
    <3>2. room = FindNextPowerOfTwo(chunks)
      BY DEF room
    <3>3. PushedTo(InsertMissingEmptySetupChunks(placed, records, chunks), place)
              = {InBuffer(r * room * kDatapathWidth + spec[k])}
      BY <1>1, <1>6, <1>7, <3>1, <3>2, PushedWithoutCheck
    <3>4. QED
      BY <1>4, <2>2, <3>3
  <2>3. QED
    BY <2>1, <2>2
<1>9. r * Len(spec) + k - 1 = r * Len(spec) + (k - 1)
  <2>1. spec \in Seq(Nat \cup {NoColumn}) /\ Len(spec) \in Nat
    BY <1>1 DEF OutputSlots
  <2>2. k \in 1..Len(spec)
    BY <1>6, <2>1, ColumnKnown
  <2> DEFINE before == r * Len(spec)
  <2>3. before \in Int
    <3>1. r \in Int
      BY <1>6
    <3>2. QED
      BY <2>1, <3>1
  <2> HIDE DEF before
  <2>4. before + k - 1 = before + (k - 1)
    BY <2>1, <2>2, <2>3
  <2>5. QED
    BY <2>4 DEF before
<1>10. QED
  BY <1>5, <1>8, <1>9 DEF spec

(* Whatever the streams, and the columns they select, each column that an  *)
(* input stream selects arrives at its place on the interface, if the      *)
(* records fit their slots, and the records of an output stream are packed *)
(* without gaps or anything else (dma_crossbar_setup.cpp).                 *)
THEOREM ColumnsInPlaceHolds ==
    ASSUME SorterFits, kMaxRecordsPerDDRBurst = kDatapathLength
    PROVE  Spec => []ColumnsInPlace
<1>1. ASSUME IInv, NEW data \in ToSet(setup_data.input), FitsSlot(data)
      PROVE  ColumnsDelivered(data)
  <2>1. PICK k \in DOMAIN setup_data.input : data = setup_data.input[k]
    BY DEF ToSet
  <2>2. IsDataOf(data, "input", k)
    BY <1>1, <2>1, DataKnown DEF Directions
  <2> DEFINE stream == streams.input[k]
             n == Len(streams.input)
             m == k - 1
  <2>3. /\ data = SetupData(stream, TRUE, n, m)
        /\ SetupError(stream, TRUE) = "none"
        /\ stream.stream_specification \in Seq(Nat \cup {NoColumn})
        /\ stream.stream_record_size \in 1..kDdrBurstSize
    BY <2>2, Zenon DEF IsDataOf
  <2> HIDE DEF stream, n, m
  <2>4. /\ data.stream = stream
        /\ data.records_per_ddr_burst = RecordsPerDDRBurst(stream, TRUE)
        /\ data.chunks_per_record = ChunksPerRecord(stream, TRUE)
    BY <2>3, Zenon DEF SetupData
  <2>5. stream.stream_record_size \in Nat \ {0}
    BY <2>3, DatapathAssumption
  <2>6. Len(Specification(stream)) <= SlotChunks(data) * kDatapathWidth
    BY <1>1, <2>4, Zenon DEF FitsSlot
  <2>7. InputSlot(stream, SlotChunks(data))
    <3>1. CASE IsMultichannel(stream)
      <4>1. SlotChunks(data) = FindNextPowerOfTwo(ChunksPerRecord(stream, TRUE))
        BY <2>4, <3>1 DEF SlotChunks
      <4>2. QED
        BY <2>3, <2>5, <3>1, <4>1, MultichannelSlot
    <3>2. CASE ~IsMultichannel(stream)
      <4>1. SlotChunks(data) = kDatapathLength \div RecordsPerDDRBurst(stream, TRUE)
        BY <2>4, <3>2 DEF SlotChunks
      <4>2. QED
        BY <2>3, <2>6, <3>2, <4>1, SingleChannelSlot
    <3>3. QED
      BY <3>1, <3>2
  <2>8. QED
    BY <2>3, <2>5, <2>7, InputInPlace
<1>2. ASSUME IInv, NEW data \in ToSet(setup_data.output)
      PROVE  OutputDelivered(data, Specification(data.stream))
  <2>1. PICK i \in DOMAIN setup_data.output : data = setup_data.output[i]
    BY DEF ToSet
  <2>2. IsDataOf(data, "output", i)
    BY <1>2, <2>1, DataKnown DEF Directions
  <2> DEFINE stream == streams.output[i]
             n == Len(streams.output)
             m == i - 1
  <2>3. /\ data = SetupData(stream, FALSE, n, m)
        /\ SetupError(stream, FALSE) = "none"
        /\ stream.stream_specification \in Seq(Nat \cup {NoColumn})
        /\ stream.stream_record_size \in 1..kDdrBurstSize
        /\ stream.input_chunks_per_record \in (0..kDatapathLength) \cup {NotGiven}
        /\ ~IsMultichannel(stream)
    BY <2>2, Zenon DEF IsDataOf
  <2>4. SelectsFromChunks(stream)
    <3>1. streams \in StreamSets
      BY <1>2 DEF IInv, SetupOK
    <3>2. stream \in ToSet(streams.output)
      BY <2>2 DEF IsDataOf, ToSet
    <3>3. QED
      BY <3>1, <3>2, StreamsTyped
  <2> HIDE DEF stream, n, m
  <2>5. data.stream = stream
    BY <2>3, Zenon DEF SetupData
  <2>6. OutputDelivered(data, Specification(stream))
    BY <2>3, <2>4, OutputInPlace, Zenon
  <2>7. QED
    BY <2>5, <2>6, Zenon
<1>3. IInv => ColumnsInPlace
  BY <1>1, <1>2, Zenon DEF ColumnsInPlace, InputsDelivered, OutputsPacked, OutputDelivered
<1>4. QED
  BY <1>3, InvariantHolds, PTL

-----------------------------------------------------------------------------
(***************************************************************************)
(* The registers.  The tables of the engine are taken one by one; those    *)
(* with a register for each stream need the streams to have numbers of     *)
(* their own.                                                              *)
(***************************************************************************)
OneWordEach(writes) == \A v, w \in writes : v[1] = w[1] => v = w
LiesIn(writes, low, high) ==
    \A w \in writes : w[1] \in low..high /\ w[1] % 4 = 0

(* Two tables, the second behind the first.                                *)
IsJoined(U, S, T, a, b, c, d) ==
    /\ U = S \cup T
    /\ a \in Nat /\ b \in Nat /\ c \in Nat /\ d \in Nat
    /\ a <= b /\ b < c /\ c <= d

(* They can be taken together.                                             *)
LEMMA TablesJoined ==
    ASSUME NEW U, NEW S, NEW T, NEW a, NEW b, NEW c, NEW d, IsJoined(U, S, T, a, b, c, d),
           OneWordEach(S), OneWordEach(T), LiesIn(S, a, b), LiesIn(T, c, d)
    PROVE  OneWordEach(U) /\ LiesIn(U, a, d)
<1> /\ U = S \cup T
    /\ a \in Nat /\ b \in Nat /\ c \in Nat /\ d \in Nat
    /\ a <= b /\ b < c /\ c <= d
  BY DEF IsJoined
<1>1. ASSUME NEW v \in S \cup T, NEW w \in S \cup T, v[1] = w[1]
      PROVE  v = w
  <2>1. CASE v \in S /\ w \in S
    BY <1>1, <2>1 DEF OneWordEach
  <2>2. CASE v \in T /\ w \in T
    BY <1>1, <2>2 DEF OneWordEach
  <2>3. CASE v \in S /\ w \in T
    <3>1. v[1] \in a..b /\ w[1] \in c..d
      BY <2>3 DEF LiesIn
    <3>2. QED
      BY <1>1, <3>1
  <2>4. CASE v \in T /\ w \in S
    <3>1. w[1] \in a..b /\ v[1] \in c..d
      BY <2>4 DEF LiesIn
    <3>2. QED
      BY <1>1, <3>1
  <2>5. QED
    BY <2>1, <2>2, <2>3, <2>4
<1>2. ASSUME NEW w \in S \cup T
      PROVE  w[1] \in a..d /\ w[1] % 4 = 0
  <2>1. CASE w \in S
    <3>1. w[1] \in a..b /\ w[1] % 4 = 0
      BY <2>1 DEF LiesIn
    <3>2. QED
      BY <3>1
  <2>2. CASE w \in T
    <3>1. w[1] \in c..d /\ w[1] % 4 = 0
      BY <2>2 DEF LiesIn
    <3>2. QED
      BY <3>1
  <2>3. QED
    BY <2>1, <2>2
<1>3. QED
  BY <1>1, <1>2, Zenon DEF OneWordEach, LiesIn

(* What holds of a table holds of the part of it that is written.          *)
LEMMA PartOfTable ==
    ASSUME NEW T, OneWordEach(T), NEW S \in SUBSET T, NEW a, NEW b, LiesIn(T, a, b)
    PROVE  OneWordEach(S) /\ LiesIn(S, a, b)
  BY Zenon DEF OneWordEach, LiesIn

(* A register of its own.                                                  *)
LEMMA OneRegister ==
    ASSUME NEW address \in Nat, address % 4 = 0, NEW word
    PROVE  OneWordEach({<<address, word>>}) /\ LiesIn({<<address, word>>}, address, address)
  BY DEF OneWordEach, LiesIn

(* The parameters of streams that have numbers of their own.               *)
Numbered(all_data) ==
    \A data \in all_data :
        /\ data.stream.stream_id \in 0..(MaxStreams - 1)
        /\ \A other \in all_data :
              other.stream.stream_id = data.stream.stream_id => other = data

(* A table with a register for each stream.                                *)
LEMMA StreamTable ==
    ASSUME NEW all_data, Numbered(all_data), NEW base \in Nat, base % 4 = 0, NEW word
    PROVE  LET table == {OfStream(base, data.stream.stream_id, word[data]) : data \in all_data}
           IN  OneWordEach(table) /\ LiesIn(table, base, base + 60)
<1> DEFINE table == {OfStream(base, data.stream.stream_id, word[data]) : data \in all_data}
<1>1. ASSUME NEW w \in table
      PROVE  \E data \in all_data : /\ data.stream.stream_id \in 0..15
                                    /\ w = <<base + 4 * data.stream.stream_id, word[data]>>
  BY DEF OfStream, Numbered, MaxStreams
<1> HIDE DEF table
<1>2. ASSUME NEW v \in table, NEW w \in table, v[1] = w[1]
      PROVE  v = w
  <2>1. PICK x \in all_data : /\ x.stream.stream_id \in 0..15
                              /\ v = <<base + 4 * x.stream.stream_id, word[x]>>
    BY <1>1
  <2>2. PICK y \in all_data : /\ y.stream.stream_id \in 0..15
                              /\ w = <<base + 4 * y.stream.stream_id, word[y]>>
    BY <1>1
  <2>3. x.stream.stream_id = y.stream.stream_id
    BY <1>2, <2>1, <2>2
  <2>4. x = y
    BY <2>3 DEF Numbered
  <2>5. QED
    BY <2>1, <2>2, <2>4
<1>3. ASSUME NEW w \in table
      PROVE  w[1] \in base..(base + 60) /\ w[1] % 4 = 0
  <2>1. PICK x \in all_data : /\ x.stream.stream_id \in 0..15
                              /\ w = <<base + 4 * x.stream.stream_id, word[x]>>
    BY <1>1
  <2>2. QED
    BY <2>1
<1>4. QED
  BY <1>2, <1>3 DEF table, OneWordEach, LiesIn

(* The numbers of the chunks of each stream.                               *)
ChunkRegisters(all_data, base, word) ==
    {<<base + 2^8 * data.stream.stream_id + 4 * cycle, word[data][cycle]>> :
        data \in all_data, cycle \in Chunk}

(* No two of them are in one register.                                     *)
LEMMA ChunkTable ==
    ASSUME kDatapathLength <= 64, NEW all_data, Numbered(all_data),
           NEW base \in Nat, base % 4 = 0, NEW word
    PROVE  LET table == ChunkRegisters(all_data, base, word)
           IN  OneWordEach(table) /\ LiesIn(table, base, base + 4092)
<1> DEFINE table == ChunkRegisters(all_data, base, word)
           IsAt(w, data, cycle) ==
               /\ data.stream.stream_id \in 0..15 /\ cycle \in 0..63
               /\ w = <<base + 256 * data.stream.stream_id + 4 * cycle, word[data][cycle]>>
<1>1. ASSUME NEW w \in table
      PROVE  \E data \in all_data, cycle \in Chunk : IsAt(w, data, cycle)
  <2>1. PICK data \in all_data, cycle \in Chunk :
            w = <<base + 2^8 * data.stream.stream_id + 4 * cycle, word[data][cycle]>>
    BY DEF ChunkRegisters
  <2>2. 2^8 = 256
    BY SMT
  <2>3. data.stream.stream_id \in 0..15 /\ cycle \in 0..63
    BY DatapathAssumption DEF Numbered, MaxStreams, Chunk
  <2>4. IsAt(w, data, cycle)
    BY <2>1, <2>2, <2>3
  <2> HIDE DEF IsAt
  <2>5. QED
    BY <2>4
<1> HIDE DEF table
<1>2. ASSUME NEW v \in table, NEW w \in table, v[1] = w[1]
      PROVE  v = w
  <2>1. PICK x \in all_data, i \in Chunk : IsAt(v, x, i)
    BY <1>1
  <2>2. PICK y \in all_data, j \in Chunk : IsAt(w, y, j)
    BY <1>1
  <2>3. x.stream.stream_id = y.stream.stream_id /\ i = j
    BY <1>2, <2>1, <2>2
  <2>4. x = y
    BY <2>3 DEF Numbered
  <2>5. QED
    BY <2>1, <2>2, <2>3, <2>4
<1>3. ASSUME NEW w \in table
      PROVE  w[1] \in base..(base + 4092) /\ w[1] % 4 = 0
  <2>1. PICK x \in all_data, i \in Chunk : IsAt(w, x, i)
    BY <1>1
  <2>2. QED
    BY <2>1
<1>4. QED
  BY <1>2, <1>3 DEF table, OneWordEach, LiesIn

(* The stream, the chunk and the word in it of a register for selections.  *)
SelectionPlace(id, chunk, offset) == 4096 * id + 32 * chunk + 4 * offset
IsSelectionPlace(id, chunk, offset) ==
    /\ id \in Nat /\ id <= 15
    /\ chunk \in Nat /\ chunk <= 63
    /\ offset \in Nat /\ offset <= 3

(* Places that are the same are of the same stream, chunk and word.        *)
LEMMA SelectionKnown ==
    ASSUME NEW a, NEW i, NEW k, IsSelectionPlace(a, i, k),
           NEW b, NEW j, NEW l, IsSelectionPlace(b, j, l)
    PROVE  /\ SelectionPlace(a, i, k) \in Nat /\ SelectionPlace(a, i, k) <= 65532
           /\ SelectionPlace(a, i, k) % 4 = 0
           /\ SelectionPlace(a, i, k) = SelectionPlace(b, j, l) => a = b /\ i = j /\ k = l
<1>1. /\ a \in Nat /\ a <= 15 /\ i \in Nat /\ i <= 63 /\ k \in Nat /\ k <= 3
      /\ b \in Nat /\ b <= 15 /\ j \in Nat /\ j <= 63 /\ l \in Nat /\ l <= 3
  BY DEF IsSelectionPlace
<1>2. /\ SelectionPlace(a, i, k) \in Nat /\ SelectionPlace(a, i, k) <= 65532
      /\ SelectionPlace(a, i, k) % 4 = 0
  BY <1>1 DEF SelectionPlace
<1>3. ASSUME SelectionPlace(a, i, k) = SelectionPlace(b, j, l)
      PROVE  a = b /\ i = j /\ k = l
  <2>1. 4096 * a + 32 * i + 4 * k = 4096 * b + 32 * j + 4 * l
    BY <1>3 DEF SelectionPlace
  <2>2. a = b
    BY <1>1, <2>1
  <2>3. i = j
    BY <1>1, <2>1, <2>2
  <2>4. QED
    BY <1>1, <2>1, <2>2, <2>3
<1>4. QED
  BY <1>2, <1>3

(* One kind of the selections of each stream, four in a word.              *)
SelectionsOf(data, base, selection) ==
    {<<base + 2^12 * data.stream.stream_id + 2^5 * chunk + 4 * offset,
       Word(FourSelections(data, chunk, selection, offset))>> :
        chunk \in DOMAIN data.crossbar, offset \in Offset}
Selections(all_data, base, selection) ==
    UNION {SelectionsOf(data, base, selection) : data \in all_data}

(* No two words of them are in one register.                               *)
LEMMA SelectionTable ==
    ASSUME kDatapathLength <= 64, NEW all_data, Numbered(all_data),
           \A data \in all_data : DOMAIN data.crossbar \subseteq Chunk,
           NEW selection, NEW base \in Nat, base % 4 = 0
    PROVE  LET table == Selections(all_data, base, selection)
           IN  OneWordEach(table) /\ LiesIn(table, base, base + 65532)
<1> DEFINE table == Selections(all_data, base, selection)
           word(data, chunk, offset) == Word(FourSelections(data, chunk, selection, offset))
           IsAt(w, data, chunk, offset) ==
               /\ IsSelectionPlace(data.stream.stream_id, chunk, offset)
               /\ w = <<base + SelectionPlace(data.stream.stream_id, chunk, offset),
                        word(data, chunk, offset)>>
<1>1. ASSUME NEW w \in table
      PROVE  \E data \in all_data :
                \E chunk \in Chunk, offset \in Offset : IsAt(w, data, chunk, offset)
  <2>1. PICK data \in all_data : w \in SelectionsOf(data, base, selection)
    BY DEF Selections
  <2>2. PICK chunk \in DOMAIN data.crossbar, offset \in Offset :
            w = <<base + 2^12 * data.stream.stream_id + 2^5 * chunk + 4 * offset,
                  word(data, chunk, offset)>>
    BY <2>1 DEF SelectionsOf
  <2>3. 2^12 = 4096 /\ 2^5 = 32
    BY SMT
  <2>4. data.stream.stream_id \in Nat /\ data.stream.stream_id <= 15
    BY DEF Numbered, MaxStreams
  <2>5. chunk \in Chunk /\ chunk \in Nat /\ chunk <= 63 /\ offset \in Nat /\ offset <= 3
    <3>1. chunk \in Chunk
      OBVIOUS
    <3>2. QED
      BY <3>1, DatapathAssumption DEF Chunk, Offset
  <2> HIDE DEF word
  <2>6. IsAt(w, data, chunk, offset)
    <3>1. IsSelectionPlace(data.stream.stream_id, chunk, offset)
      BY <2>4, <2>5 DEF IsSelectionPlace
    <3> DEFINE id == data.stream.stream_id
    <3>2. id \in Nat /\ chunk \in Nat /\ offset \in Nat /\ base \in Nat
      BY <2>4, <2>5
    <3> HIDE DEF id
    <3>3. base + 4096 * id + 32 * chunk + 4 * offset = base + SelectionPlace(id, chunk, offset)
      <4> DEFINE a == 4096 * id
                 b == 32 * chunk
                 c == 4 * offset
      <4>1. a \in Int /\ b \in Int /\ c \in Int /\ base \in Int
        BY <3>2
      <4>2. SelectionPlace(id, chunk, offset) = a + b + c
        BY DEF SelectionPlace
      <4> HIDE DEF a, b, c
      <4>3. base + a + b + c = base + (a + b + c)
        BY <4>1
      <4>4. QED
        BY <4>2, <4>3 DEF a, b, c
    <3>4. base + 2^12 * id + 2^5 * chunk + 4 * offset = base + SelectionPlace(id, chunk, offset)
      BY <2>3, <3>3
    <3>5. QED
      BY <2>2, <3>1, <3>4 DEF id
  <2> HIDE DEF IsAt
  <2>7. QED
    BY <2>5, <2>6
<1> HIDE DEF table, word
<1>2. ASSUME NEW v \in table, NEW w \in table, v[1] = w[1]
      PROVE  v = w
  <2>1. PICK x \in all_data, i \in Chunk, k \in Offset : IsAt(v, x, i, k)
    BY <1>1
  <2>2. PICK y \in all_data, j \in Chunk, l \in Offset : IsAt(w, y, j, l)
    BY <1>1
  <2>3. x.stream.stream_id = y.stream.stream_id /\ i = j /\ k = l
    <3>1. /\ IsSelectionPlace(x.stream.stream_id, i, k)
          /\ IsSelectionPlace(y.stream.stream_id, j, l)
          /\ base + SelectionPlace(x.stream.stream_id, i, k)
                 = base + SelectionPlace(y.stream.stream_id, j, l)
      BY <1>2, <2>1, <2>2
    <3>2. /\ SelectionPlace(x.stream.stream_id, i, k) \in Nat
          /\ SelectionPlace(y.stream.stream_id, j, l) \in Nat
      BY <3>1, SelectionKnown
    <3>3. SelectionPlace(x.stream.stream_id, i, k) = SelectionPlace(y.stream.stream_id, j, l)
      BY <3>1, <3>2
    <3>4. QED
      BY <3>1, <3>3, SelectionKnown
  <2>4. x = y
    BY <2>3 DEF Numbered
  <2>5. QED
    BY <2>1, <2>2, <2>3, <2>4
<1>3. ASSUME NEW w \in table
      PROVE  w[1] \in base..(base + 65532) /\ w[1] % 4 = 0
  <2>1. PICK x \in all_data, i \in Chunk, k \in Offset : IsAt(w, x, i, k)
    BY <1>1
  <2>2. /\ SelectionPlace(x.stream.stream_id, i, k) \in Nat
        /\ SelectionPlace(x.stream.stream_id, i, k) <= 65532
        /\ SelectionPlace(x.stream.stream_id, i, k) % 4 = 0
        /\ w[1] = base + SelectionPlace(x.stream.stream_id, i, k)
    BY <2>1, SelectionKnown
  <2>3. QED
    BY <2>2
<1>4. QED
  BY <1>2, <1>3 DEF table, OneWordEach, LiesIn

(* The channels of the one stream that a merge sorter takes, number 0.     *)
ChannelRegisters(all_data, base, count, word) ==
    {<<base + 2^14 * data.stream.stream_id + 4 * j, word[data][j]>> :
        data \in all_data, j \in 0..(count - 1)}

(* No two of them are in one register.                                     *)
LEMMA ChannelTable ==
    ASSUME NEW all_data, Numbered(all_data),
           \A data \in all_data : data.stream.stream_id = 0,
           NEW base \in Nat, base % 4 = 0, NEW word,
           NEW count \in Nat, count <= 16384
    PROVE  LET table == ChannelRegisters(all_data, base, count, word)
           IN  OneWordEach(table) /\ LiesIn(table, base, base + 65532)
<1> DEFINE table == ChannelRegisters(all_data, base, count, word)
           IsAt(w, data, j) == j \in 0..(count - 1) /\ w = <<base + 4 * j, word[data][j]>>
<1>1. ASSUME NEW w \in table
      PROVE  \E data \in all_data, j \in 0..(count - 1) : IsAt(w, data, j)
  <2>1. PICK data \in all_data, j \in 0..(count - 1) :
            w = <<base + 2^14 * data.stream.stream_id + 4 * j, word[data][j]>>
    BY DEF ChannelRegisters
  <2>2. 2^14 = 16384
    BY SMT
  <2>3. data.stream.stream_id = 0
    OBVIOUS
  <2>4. base + 2^14 * data.stream.stream_id + 4 * j = base + 4 * j
    BY <2>2, <2>3
  <2>5. IsAt(w, data, j)
    BY <2>1, <2>4
  <2> HIDE DEF IsAt
  <2>6. QED
    BY <2>5
<1> HIDE DEF table
<1>2. ASSUME NEW v \in table, NEW w \in table, v[1] = w[1]
      PROVE  v = w
  <2>1. PICK x \in all_data, i \in 0..(count - 1) : IsAt(v, x, i)
    BY <1>1
  <2>2. PICK y \in all_data, j \in 0..(count - 1) : IsAt(w, y, j)
    BY <1>1
  <2>3. i = j
    BY <1>2, <2>1, <2>2
  <2>4. x = y
    BY DEF Numbered
  <2>5. QED
    BY <2>1, <2>2, <2>3, <2>4
<1>3. ASSUME NEW w \in table
      PROVE  w[1] \in base..(base + 65532) /\ w[1] % 4 = 0
  <2>1. PICK x \in all_data, i \in 0..(count - 1) : IsAt(w, x, i)
    BY <1>1
  <2>2. QED
    BY <2>1
<1>4. QED
  BY <1>2, <1>3 DEF table, OneWordEach, LiesIn

(* A crossbar of chunks that there are, with selections of chunks and of   *)
(* positions that there are.                                               *)
IsCrossbar(crossbar) ==
    /\ DOMAIN crossbar \subseteq Chunk
    /\ \A chunk \in DOMAIN crossbar, p \in Position :
          /\ crossbar[chunk].chunk_selection[p] \in Chunk
          /\ crossbar[chunk].position_selection[p] \in Position

(* What is not set is a selection too.                                     *)
LEMMA EmptyChunkKnown ==
    ASSUME NEW p \in Position
    PROVE  /\ EmptyChunk.chunk_selection[p] = kDatapathLength - 1
           /\ EmptyChunk.position_selection[p] = 0
           /\ kDatapathLength - 1 \in Chunk /\ 0 \in Chunk /\ 0 \in Position
  BY DatapathAssumption DEF EmptyChunk, Chunk, Position

(* An address in the buffer is in one of its chunks.                       *)
LEMMA ChunkOfBuffer ==
    ASSUME NEW a \in Nat, a < kDdrBurstSize
    PROVE  ChunkOf(a) \in Chunk /\ PositionOf(a) \in Position
<1>1. ChunkOf(a) \in Nat /\ PositionOf(a) \in Position
      /\ a = ChunkOf(a) * kDatapathWidth + PositionOf(a)
  BY AddressSplit
<1>2. kDatapathLength \in Nat /\ kDatapathLength * kDatapathWidth = kDdrBurstSize
  BY DatapathAssumption
<1>3. ChunkOf(a) < kDatapathLength
  <2>1. ChunkOf(a) * kDatapathWidth + PositionOf(a) < kDatapathLength * kDatapathWidth
    BY <1>1, <1>2
  <2>2. QED
    BY <1>1, <1>2, <2>1, ChunkBelow
<1>4. QED
  BY <1>1, <1>2, <1>3 DEF Chunk

(* The input crossbar of a specification that fits                         *)
(* (ConfigureInputCrossbarSetupData).                                      *)
LEMMA InputCrossbarKnown ==
    ASSUME NEW n \in Nat, NEW extended, DOMAIN extended = 0..(kDatapathWidth * n - 1),
           \A l \in DOMAIN extended : extended[l] \in Nat \cup {NoColumn},
           IsSpecificationValid(extended)
    PROVE  IsCrossbar(ConfigureInputCrossbarSetupData(extended))
<1> DEFINE w == kDatapathWidth
           selected(chunk) == {l \in LocationsIn(chunk) : extended[l] # NoColumn}
           PulledAt(chunk, p) == {l \in selected(chunk) : PositionOf(extended[l]) = p}
           Chunks(chunk) == [p \in Position |->
               IF PulledAt(chunk, p) = {} THEN EmptyChunk.chunk_selection[p]
               ELSE ChunkOf(extended[Max(PulledAt(chunk, p))])]
           Positions(chunk) == [p \in Position |->
               IF chunk * w + p \in selected(chunk) THEN PositionOf(extended[chunk * w + p])
               ELSE EmptyChunk.position_selection[p]]
           size == w * n
           crossbar == ConfigureInputCrossbarSetupData(extended)
<1>1. w \in Nat \ {0} /\ kDatapathLength \in Nat \ {0} /\ kDdrBurstSize = w * kDatapathLength
  BY DatapathAssumption
<1>2. size \in Nat /\ size = n * w + 0 /\ DOMAIN extended = 0..(size - 1)
  <2> HIDE DEF w
  <2>1. QED
    BY <1>1 DEF w
<1>3. Cardinality(DOMAIN extended) = size
  <2> HIDE DEF size
  <2>1. 0 \in Int /\ size - 1 \in Int
    BY <1>2
  <2>2. Cardinality(0..(size - 1)) = IF 0 > size - 1 THEN 0 ELSE (size - 1) - 0 + 1
    BY <2>1, FS_Interval, Zenon
  <2>3. QED
    BY <1>2, <2>2
<1>4. ChunkOf(size) = n
  <2> HIDE DEF w, size
  <2>1. 0 \in 0..(w - 1)
    BY <1>1
  <2>2. (n * w + 0) \div w = n
    BY <1>1, <2>1, RemainderKnown
  <2>3. QED
    BY <1>2, <2>2 DEF ChunkOf, w
<1>5. crossbar = [chunk \in 0..(n - 1) |-> [chunk_selection |-> Chunks(chunk),
                                           position_selection |-> Positions(chunk)]]
  BY <1>3, <1>4, Zenon DEF ConfigureInputCrossbarSetupData
<1>6. n <= kDatapathLength
  <2>1. size <= kDdrBurstSize
    BY <1>3 DEF IsSpecificationValid
  <2> DEFINE length == kDatapathLength
  <2> HIDE DEF w, length
  <2>2. n * w <= length * w
    BY <1>1, <2>1 DEF length
  <2>3. SUFFICES ASSUME length + 1 <= n PROVE FALSE
    BY <1>1 DEF length
  <2>4. (length + 1) * w <= n * w /\ (length + 1) * w = length * w + w /\ length * w \in Nat
    BY <1>1, <2>3 DEF length
  <2>5. n * w \in Nat
    BY <1>1
  <2>6. QED
    BY <1>1, <2>2, <2>4, <2>5
<1>7. DOMAIN crossbar = 0..(n - 1) /\ 0..(n - 1) \subseteq Chunk
  <2>1. DOMAIN crossbar = 0..(n - 1)
    BY <1>5, Zenon
  <2>2. 0..(n - 1) \subseteq Chunk
    BY <1>1, <1>6 DEF Chunk
  <2>3. QED
    BY <2>1, <2>2
<1>8. ASSUME NEW chunk \in 0..(n - 1), NEW p \in Position
      PROVE  chunk * w + p \in DOMAIN extended
  <2>1. p \in Nat /\ p < w /\ chunk \in Nat /\ chunk + 1 <= n
    BY <1>1 DEF Position
  <2> HIDE DEF w, size
  <2>2. (chunk + 1) * w <= n * w /\ (chunk + 1) * w = chunk * w + w
    BY <1>1, <2>1
  <2>3. chunk * w \in Nat /\ n * w \in Nat
    BY <1>1, <2>1
  <2>4. chunk * w + p \in Nat /\ chunk * w + p < size
    BY <1>1, <1>2, <2>1, <2>2, <2>3
  <2> DEFINE a == chunk * w + p
  <2>5. a \in Nat /\ a < size
    BY <2>4
  <2> HIDE DEF a
  <2>6. a \in DOMAIN extended
    <3>1. size \in Nat /\ DOMAIN extended = 0..(size - 1)
      BY <1>2
    <3>2. a \in 0..(size - 1)
      BY <2>5, <3>1
    <3>3. QED
      BY <3>1, <3>2
  <2>7. QED
    BY <2>6 DEF a
<1>9. ASSUME NEW chunk \in 0..(n - 1), NEW l \in selected(chunk)
      PROVE  l \in DOMAIN extended /\ ChunkOf(extended[l]) \in Chunk
             /\ PositionOf(extended[l]) \in Position
  <2>1. l \in DOMAIN extended
    BY <1>8 DEF LocationsIn
  <2>2. extended[l] \in Nat /\ extended[l] < kDdrBurstSize
    BY <2>1 DEF IsSpecificationValid
  <2>3. QED
    BY <2>1, <2>2, ChunkOfBuffer
<1> HIDE DEF size, crossbar
<1>10. ASSUME NEW chunk \in 0..(n - 1), NEW p \in Position
       PROVE  Chunks(chunk)[p] \in Chunk /\ Positions(chunk)[p] \in Position
  <2>1. Positions(chunk)[p] \in Position
    BY <1>9, EmptyChunkKnown
  <2>2. CASE PulledAt(chunk, p) = {}
    BY <2>1, <2>2, EmptyChunkKnown
  <2>3. CASE PulledAt(chunk, p) # {}
    <3> DEFINE pulled == PulledAt(chunk, p)
    <3>1. pulled \subseteq 0..size
      <4>1. pulled \subseteq DOMAIN extended
        BY <1>9
      <4> HIDE DEF pulled
      <4>2. size \in Nat /\ pulled \subseteq 0..(size - 1)
        BY <1>2, <4>1
      <4>3. 0..(size - 1) \subseteq 0..size
        BY <4>2
      <4>4. QED
        BY <4>2, <4>3
    <3>2. Max(pulled) \in pulled
      <4> HIDE DEF pulled
      <4>1. pulled # {}
        BY <2>3 DEF pulled
      <4>2. QED
        BY <1>2, <3>1, <4>1, GreatestNumber
    <3>3. Max(PulledAt(chunk, p)) \in selected(chunk)
      BY <3>2
    <3>4. ChunkOf(extended[Max(PulledAt(chunk, p))]) \in Chunk
      BY <1>9, <3>3
    <3>5. QED
      BY <2>1, <2>3, <3>4, Zenon
  <2>4. QED
    BY <2>2, <2>3
<1> HIDE DEF Chunks, Positions
<1>11. ASSUME NEW chunk \in 0..(n - 1), NEW p \in Position
       PROVE  /\ crossbar[chunk].chunk_selection[p] \in Chunk
              /\ crossbar[chunk].position_selection[p] \in Position
  <2>1. crossbar[chunk] = [chunk_selection |-> Chunks(chunk),
                           position_selection |-> Positions(chunk)]
    BY <1>5, Zenon
  <2>2. QED
    BY <1>10, <2>1
<1>12. IsCrossbar(crossbar)
  BY <1>7, <1>11 DEF IsCrossbar
<1>13. QED
  BY <1>12 DEF crossbar

(* What PlacedOutputs puts into the output crossbar, chunk by chunk.       *)
LEMMA PlacedKnown ==
    ASSUME NEW spec, NEW extended, NEW records, NEW room, NEW chunks,
           OutputSlots(spec, extended, records, room, chunks),
           NEW placed,
           placed = PlacedOutputs(spec, extended, room * kDatapathWidth, chunks * records),
           NEW chunk \in DOMAIN placed, NEW p \in Position
    PROVE  /\ placed[chunk].chunk_selection[p] \in Chunk
           /\ placed[chunk].position_selection[p] \in Position
<1>1. /\ spec \in Seq(Nat \cup {NoColumn}) /\ Len(spec) \in Nat \ {0}
      /\ room \in Nat \ {0} /\ chunks \in Nat \ {0} /\ chunks <= room /\ records \in Nat \ {0}
      /\ records * room = kDatapathLength /\ Len(spec) <= chunks * kDatapathWidth
  BY DEF OutputSlots
<1>2. CASE ~placed[chunk].is_set[p]
  <2>1. /\ placed[chunk].chunk_selection[p] = kDatapathLength - 1
        /\ placed[chunk].position_selection[p] = 0
    BY <1>2, OutputPlaced
  <2>2. QED
    BY <2>1, EmptyChunkKnown
<1>3. CASE placed[chunk].is_set[p]
  <2>1. PICK r \in 0..(records - 1), k \in Columns(spec) :
            /\ chunk = chunks * r + ChunkOf(spec[k])
            /\ p = PositionOf(GetReverseIndex(r * Len(spec) + (k - 1)))
    BY <1>3, OutputPlaced
  <2> DEFINE address == r * Len(spec) + (k - 1)
             to == GetReverseIndex(address)
  <2>2. /\ placed[chunk].chunk_selection[p] = ChunkOf(to)
        /\ placed[chunk].position_selection[p] = kDatapathWidth - 1 - PositionOf(spec[k])
    <3>1. LET c == chunks * r + ChunkOf(spec[k])
          IN  /\ placed[c].chunk_selection[PositionOf(to)] = ChunkOf(to)
              /\ placed[c].position_selection[PositionOf(to)]
                     = kDatapathWidth - 1 - PositionOf(spec[k])
      BY OutputPlaced
    <3> HIDE DEF to
    <3>2. chunk = chunks * r + ChunkOf(spec[k]) /\ p = PositionOf(to)
      BY <2>1 DEF to
    <3>3. QED
      BY <3>1, <3>2, Zenon
  <2>3. spec[k] \in Nat /\ k - 1 \in 0..(Len(spec) - 1)
    BY <1>1, ColumnKnown
  <2>4. PositionOf(GetReverseIndex(spec[k])) \in Position
    <3>1. GetReverseIndex(spec[k]) \in Nat
      BY <2>3, ReverseTwice
    <3>2. QED
      BY <3>1, AddressSplit
  <2>5. kDatapathWidth - 1 - PositionOf(spec[k]) \in Position
    BY <2>3, <2>4, ReverseTwice
  <2>6. address \in Nat /\ address < kDdrBurstSize
    <3> DEFINE w == kDatapathWidth
               len == Len(spec)
               c == k - 1
    <3>1. w \in Nat \ {0} /\ kDdrBurstSize = w * (records * room)
      BY <1>1, DatapathAssumption
    <3>2. c \in Nat /\ c < len /\ len \in Nat \ {0} /\ len <= chunks * w /\ r \in Nat
      BY <1>1, <2>3
    <3>3. address = r * len + c
      OBVIOUS
    <3> HIDE DEF w, len, c, address
    <3>4. len <= room * w
      <4>1. chunks * w <= room * w /\ chunks * w \in Nat /\ room * w \in Nat
        BY <1>1, <3>1
      <4>2. QED
        BY <3>2, <4>1
    <3>5. (r + 1) * len <= records * len /\ (r + 1) * len = r * len + len
      BY <1>1, <3>2
    <3>6. records * len <= records * (room * w)
      BY <1>1, <3>1, <3>2, <3>4
    <3>7. records * (room * w) = kDdrBurstSize
      BY <1>1, <3>1
    <3>8. r * len \in Nat /\ records * len \in Nat /\ records * (room * w) \in Nat
      BY <1>1, <3>1, <3>2
    <3>9. QED
      BY <3>2, <3>3, <3>5, <3>6, <3>7, <3>8
  <2> HIDE DEF address
  <2>7. ChunkOf(to) = ChunkOf(address) /\ ChunkOf(address) \in Chunk
    BY <2>6, ReverseTwice, ChunkOfBuffer
  <2>8. QED
    BY <2>2, <2>5, <2>7
<1>4. QED
  BY <1>2, <1>3

(* The output crossbar with a free chunk for what is not set.              *)
LEMMA AllocatedKnown ==
    ASSUME NEW placed, DOMAIN placed \subseteq Chunk,
           \A chunk \in DOMAIN placed, p \in Position :
              /\ placed[chunk].chunk_selection[p] \in Chunk
              /\ placed[chunk].position_selection[p] \in Position
    PROVE  IsCrossbar(AllocateAvailableChunks(placed))
<1> DEFINE crossbar == AllocateAvailableChunks(placed)
           free == [q \in Position |-> Max(FreeChunks(placed, q) \cup {0})]
           Chunks(c) == [q \in Position |-> IF placed[c].is_set[q]
                                            THEN placed[c].chunk_selection[q] ELSE free[q]]
<1>1. crossbar = [c \in DOMAIN placed |->
                     [chunk_selection |-> Chunks(c),
                      position_selection |-> placed[c].position_selection]]
  BY Zenon DEF AllocateAvailableChunks
<1>2. ASSUME NEW p \in Position PROVE free[p] \in Chunk
  <2> DEFINE among == FreeChunks(placed, p) \cup {0}
  <2>1. FreeChunks(placed, p) \subseteq Chunk /\ 0 \in Chunk
    BY EmptyChunkKnown DEF FreeChunks
  <2>2. free[p] = Max(among)
    OBVIOUS
  <2>3. kDatapathLength \in Nat /\ among \in SUBSET (0..kDatapathLength) /\ among # {}
    BY <2>1, DatapathAssumption DEF Chunk
  <2>4. among \subseteq Chunk
    BY <2>1
  <2> HIDE DEF among
  <2>5. Max(among) \in among
    BY <2>3, GreatestNumber
  <2>6. QED
    BY <2>2, <2>4, <2>5
<1> HIDE DEF free
<1>3. ASSUME NEW chunk \in DOMAIN placed, NEW p \in Position
      PROVE  /\ crossbar[chunk].chunk_selection[p] \in Chunk
             /\ crossbar[chunk].position_selection[p] \in Position
  <2>1. Chunks(chunk)[p] \in Chunk
    BY <1>2
  <2> HIDE DEF Chunks, crossbar
  <2>2. crossbar[chunk] = [chunk_selection |-> Chunks(chunk),
                           position_selection |-> placed[chunk].position_selection]
    BY <1>1, Zenon
  <2>3. QED
    BY <2>1, <2>2
<1>4. DOMAIN crossbar = DOMAIN placed
  BY <1>1, Zenon
<1> HIDE DEF crossbar
<1>5. IsCrossbar(crossbar)
  BY <1>3, <1>4 DEF IsCrossbar
<1>6. QED
  BY <1>5 DEF crossbar

(* The output crossbar with room for a power of two of chunks.             *)
LEMMA InsertedKnown ==
    ASSUME NEW records \in Nat \ {0}, NEW chunks \in Nat \ {0}, NEW room \in Nat \ {0},
           room = FindNextPowerOfTwo(chunks), records * room = kDatapathLength,
           NEW placed, DOMAIN placed = 0..(chunks * records - 1),
           \A chunk \in DOMAIN placed, p \in Position :
              /\ placed[chunk].chunk_selection[p] \in Chunk
              /\ placed[chunk].position_selection[p] \in Position
    PROVE  IsCrossbar(InsertMissingEmptySetupChunks(placed, records, chunks))
<1> DEFINE crossbar == InsertMissingEmptySetupChunks(placed, records, chunks)
           Old(c) == placed[(c \div room) * chunks + (c % room)]
           New(c) == IF c % room >= chunks THEN EmptyChunk
                     ELSE [chunk_selection |-> Old(c).chunk_selection,
                           position_selection |-> Old(c).position_selection]
<1>1. crossbar = [c \in 0..(records * room - 1) |-> New(c)]
  BY Zenon DEF InsertMissingEmptySetupChunks
<1>2. ASSUME NEW c \in 0..(records * room - 1), ~(c % room >= chunks)
      PROVE  (c \div room) * chunks + (c % room) \in DOMAIN placed
  <2> DEFINE q == c \div room
             m == c % room
  <2>1. c \in Nat /\ q \in 0..(records - 1)
    BY CountedThrough
  <2>2. m \in 0..(room - 1)
    BY <2>1, Division, Zenon
  <2>3. m < chunks
    <3>1. ~(m >= chunks)
      BY <1>2
    <3> HIDE DEF m
    <3>2. QED
      BY <2>2, <3>1
  <2> HIDE DEF q, m
  <2>4. m \in 0..(chunks - 1)
    BY <2>2, <2>3
  <2>5. q * chunks + m \in 0..(records * chunks - 1)
    BY <2>1, <2>4, CountedThrough
  <2>6. records * chunks = chunks * records
    OBVIOUS
  <2>7. q * chunks + m \in DOMAIN placed
    BY <2>5, <2>6
  <2>8. QED
    BY <2>7 DEF q, m
<1>3. ASSUME NEW chunk \in 0..(records * room - 1), NEW p \in Position
      PROVE  /\ crossbar[chunk].chunk_selection[p] \in Chunk
             /\ crossbar[chunk].position_selection[p] \in Position
  <2> HIDE DEF New, Old, crossbar
  <2>1. crossbar[chunk] = New(chunk)
    BY <1>1, Zenon
  <2>2. CASE chunk % room >= chunks
    <3>1. New(chunk) = EmptyChunk
      BY <2>2 DEF New
    <3>2. QED
      BY <2>1, <3>1, EmptyChunkKnown
  <2>3. CASE ~(chunk % room >= chunks)
    <3>1. New(chunk) = [chunk_selection |-> Old(chunk).chunk_selection,
                        position_selection |-> Old(chunk).position_selection]
      BY <2>3, Zenon DEF New
    <3> DEFINE n == (chunk \div room) * chunks + (chunk % room)
    <3>2. n \in DOMAIN placed
      BY <1>2, <2>3
    <3>3. Old(chunk) = placed[n]
      BY DEF Old
    <3> HIDE DEF n
    <3>4. placed[n].chunk_selection[p] \in Chunk /\ placed[n].position_selection[p] \in Position
      BY <3>2
    <3>5. QED
      BY <2>1, <3>1, <3>3, <3>4
  <2>4. QED
    BY <2>2, <2>3
<1>4. DOMAIN crossbar = 0..(records * room - 1) /\ 0..(records * room - 1) = Chunk
  <2>1. DOMAIN crossbar = 0..(records * room - 1)
    BY <1>1, Zenon
  <2>2. QED
    BY <2>1 DEF Chunk
<1> HIDE DEF crossbar
<1>5. IsCrossbar(crossbar)
  BY <1>3, <1>4 DEF IsCrossbar
<1>6. QED
  BY <1>5 DEF crossbar

(* The output crossbar of every stream (ConfigureOutputCrossbarSetupData). *)
LEMMA OutputCrossbarKnown ==
    ASSUME kMaxRecordsPerDDRBurst = kDatapathLength, NEW stream, ~IsMultichannel(stream),
           stream.stream_specification \in Seq(Nat \cup {NoColumn}),
           stream.stream_record_size \in 1..kDdrBurstSize,
           stream.input_chunks_per_record \in (0..kDatapathLength) \cup {NotGiven},
           SelectsFromChunks(stream), SetupError(stream, FALSE) = "none",
           NEW n, NEW m, NEW data, data = SetupData(stream, FALSE, n, m)
    PROVE  IsCrossbar(data.crossbar)
<1> DEFINE spec == Specification(stream)
           records == RecordsPerDDRBurst(stream, FALSE)
           chunks == ChunksPerRecord(stream, FALSE)
           extended == ExtendedSpecification(stream, FALSE)
           room == FindNextPowerOfTwo(chunks)
           slot == RecordSlot(spec, kDdrBurstSize \div records)
           placed == PlacedOutputs(spec, extended, slot, chunks * records)
<1>1. /\ OutputSlots(spec, extended, records, room, chunks)
      /\ slot = room * kDatapathWidth
  BY OutputSlotsKnown
<1>2. data.crossbar = ConfigureOutputCrossbarSetupData(spec, extended, records, chunks)
  BY Zenon DEF SetupData
<1>3. data.crossbar = IF NeedsOverwriteCheck(extended) THEN AllocateAvailableChunks(placed)
                      ELSE InsertMissingEmptySetupChunks(placed, records, chunks)
  BY <1>2, Zenon DEF ConfigureOutputCrossbarSetupData
<1>4. room = FindNextPowerOfTwo(chunks)
  OBVIOUS
<1> HIDE DEF spec, records, chunks, extended, room, slot
<1>5. placed = PlacedOutputs(spec, extended, room * kDatapathWidth, chunks * records)
  BY <1>1
<1> HIDE DEF placed
<1>6. /\ records \in Nat \ {0} /\ room \in Nat \ {0} /\ chunks \in Nat \ {0}
      /\ chunks <= room /\ records * room = kDatapathLength
  BY <1>1 DEF OutputSlots
<1>7. DOMAIN placed = 0..(chunks * records - 1)
  BY <1>1, <1>5, OutputPlaced
<1>8. ASSUME NEW chunk \in DOMAIN placed, NEW p \in Position
      PROVE  /\ placed[chunk].chunk_selection[p] \in Chunk
             /\ placed[chunk].position_selection[p] \in Position
  BY <1>1, <1>5, PlacedKnown
<1>9. DOMAIN placed \subseteq Chunk
  <2>1. chunks * records <= room * records /\ room * records = records * room
    BY <1>6
  <2>2. chunks * records \in Nat
    BY <1>6
  <2> DEFINE all == chunks * records
  <2>3. all \in Nat /\ all <= kDatapathLength
    BY <1>6, <2>1, <2>2
  <2> HIDE DEF all
  <2>4. 0..(all - 1) \subseteq Chunk
    BY <2>3, DatapathAssumption DEF Chunk
  <2>5. QED
    BY <1>7, <2>4 DEF all
<1>10. IsCrossbar(AllocateAvailableChunks(placed))
  BY <1>8, <1>9, AllocatedKnown
<1>11. IsCrossbar(InsertMissingEmptySetupChunks(placed, records, chunks))
  BY <1>4, <1>6, <1>7, <1>8, InsertedKnown
<1>12. QED
  BY <1>3, <1>10, <1>11

(* What the specification of an input is extended to: addresses and gaps,  *)
(* in whole chunks.                                                        *)
HasChunks(extended, count) ==
    /\ DOMAIN extended = 0..(kDatapathWidth * count - 1)
    /\ \A l \in DOMAIN extended : extended[l] \in Nat \cup {NoColumn}

(* ExtendSpecification gives an input such a specification.                *)
LEMMA ExtendedInput ==
    ASSUME NEW records \in Nat \ {0}, NEW spec \in Seq(Nat \cup {NoColumn}),
           NEW record_size \in Nat, NEW end,
           NEW slot \in Nat \ {0}, slot = RecordSlot(spec, end),
           NEW extended, extended = ExtendSpecification(records, spec, record_size, NoColumn, end)
    PROVE  ChunkOf(records * slot) \in Nat /\ HasChunks(extended, ChunkOf(records * slot))
<1> DEFINE last == kDatapathWidth * ChunkOf(records * slot) - 1
           Selection(i) ==
               IF i % slot >= Len(spec) THEN NoColumn
               ELSE IF spec[(i % slot) + 1] = NoColumn THEN NoColumn
               ELSE GetReverseIndex(spec[(i % slot) + 1] + record_size * (i \div slot))
<1>1. extended = [location \in 0..last |-> Selection(GetReverseIndex(location))]
  BY Zenon DEF ExtendSpecification
<1>2. slot \in Nat \ {0}
  OBVIOUS
<1>3. ChunkOf(records * slot) \in Nat
  <2>1. records * slot \in Nat
    BY <1>2
  <2>2. QED
    BY <2>1, AddressSplit
<1>4. last \in Int
  <2> DEFINE n == ChunkOf(records * slot)
  <2>1. n \in Nat /\ kDatapathWidth \in Nat
    BY <1>3, DatapathAssumption
  <2> HIDE DEF n
  <2>2. kDatapathWidth * n - 1 \in Int
    BY <2>1
  <2>3. QED
    BY <2>2 DEF n
<1> HIDE DEF last
<1>5. ASSUME NEW i \in Nat
      PROVE  Selection(i) \in Nat \cup {NoColumn}
  <2> DEFINE c == i % slot
             r == i \div slot
  <2>1. c \in 0..(slot - 1) /\ r \in Nat
    BY <1>2, Division, Zenon
  <2>2. CASE c >= Len(spec) \/ spec[c + 1] = NoColumn
    BY <2>2, Zenon
  <2>3. CASE ~(c >= Len(spec)) /\ spec[c + 1] # NoColumn
    <3>1. Selection(i) = GetReverseIndex(spec[c + 1] + record_size * r)
      BY <2>3, Zenon
    <3> HIDE DEF c, r
    <3>2. c + 1 \in 1..Len(spec)
      <4>1. Len(spec) \in Nat
        OBVIOUS
      <4>2. QED
        BY <1>2, <2>1, <2>3, <4>1
    <3>3. spec[c + 1] \in Nat
      <4>1. spec[c + 1] \in Nat \cup {NoColumn}
        BY <3>2
      <4>2. QED
        BY <2>3, <4>1
    <3>4. record_size * r \in Nat
      BY <2>1
    <3>5. spec[c + 1] + record_size * r \in Nat
      BY <3>3, <3>4
    <3>6. GetReverseIndex(spec[c + 1] + record_size * r) \in Nat
      BY <3>5, ReverseTwice
    <3>7. QED
      BY <3>1, <3>6
  <2>4. QED
    BY <2>2, <2>3
<1> HIDE DEF Selection
<1>6. ASSUME NEW l \in 0..last
      PROVE  extended[l] \in Nat \cup {NoColumn}
  <2>1. GetReverseIndex(l) \in Nat
    BY <1>4, ReverseTwice
  <2>2. extended[l] = Selection(GetReverseIndex(l))
    BY <1>1, Zenon
  <2>3. QED
    BY <1>5, <2>1, <2>2
<1>7. DOMAIN extended = 0..last
  BY <1>1, Zenon
<1>8. QED
  BY <1>3, <1>6, <1>7 DEF last, HasChunks

(* The slot of a record in an input burst is never empty.                  *)
LEMMA SlotNotEmpty ==
    ASSUME NEW spec, Len(spec) \in Nat \ {0}, NEW end \in Nat
    PROVE  RecordSlot(spec, end) \in Nat \ {0}
<1> DEFINE length == Len(spec)
<1>1. length \in Int /\ end \in Int /\ length > 0
  OBVIOUS
<1>2. RecordSlot(spec, end) = Max({length, end})
  BY DEF RecordSlot
<1> HIDE DEF length
<1>3. Max({length, end}) \in {length, end} /\ Max({length, end}) >= length
  BY <1>1, GreaterOfTwo, Zenon
<1>4. QED
  BY <1>1, <1>2, <1>3

(* The input crossbar of every stream, the columns of which may have no    *)
(* room in their slots.                                                    *)
LEMMA InputCrossbarOfStream ==
    ASSUME SorterFits, NEW stream,
           stream.stream_specification \in Seq(Nat \cup {NoColumn}),
           stream.stream_record_size \in 1..kDdrBurstSize,
           SetupError(stream, TRUE) = "none",
           NEW n, NEW m, NEW data, data = SetupData(stream, TRUE, n, m)
    PROVE  IsCrossbar(data.crossbar)
<1> DEFINE size == stream.stream_record_size
           spec == Specification(stream)
           chunks == ChunksPerRecord(stream, TRUE)
           records == RecordsPerDDRBurst(stream, TRUE)
           extended == ExtendedSpecification(stream, TRUE)
           next == FindNextPowerOfTwo(chunks)
<1>1. data.crossbar = ConfigureInputCrossbarSetupData(extended)
  BY Zenon DEF SetupData
<1>2. IsSpecificationValid(extended)
  BY DEF SetupError
<1>3. size \in Nat \ {0}
  BY DatapathAssumption
<1>4. spec \in Seq(Nat \cup {NoColumn}) /\ Len(spec) \in Nat \ {0}
  BY <1>3, SpecificationTyped, SpecificationLength
<1>5. \E end : /\ extended = ExtendSpecification(records, spec, size, NoColumn, end)
               /\ RecordSlot(spec, end) \in Nat \ {0} /\ records \in Nat \ {0}
  <2>1. CASE IsMultichannel(stream)
    <3>1. InputSlot(stream, next)
      BY <1>3, <2>1, MultichannelSlot
    <3> DEFINE end == next * kDatapathWidth
    <3>2. /\ extended = ExtendSpecification(records, spec, size, NoColumn, end)
          /\ RecordSlot(spec, end) = end /\ records \in Nat \ {0} /\ next \in PowersOfTwo
      BY <3>1 DEF InputSlot
    <3> HIDE DEF next, records, spec, extended, size
    <3>3. end \in Nat
      <4>1. next \in Nat
        BY <3>2, PowersListed
      <4>2. QED
        BY <4>1, DatapathAssumption
    <3> HIDE DEF end
    <3>4. RecordSlot(spec, end) \in Nat \ {0}
      BY <1>4, <3>3, SlotNotEmpty
    <3>5. QED
      BY <3>2, <3>4, Zenon
  <2>2. CASE ~IsMultichannel(stream)
    <3> DEFINE end == kDdrBurstSize \div records
    <3>1. extended = ExtendSpecification(records, spec, size, NoColumn, end)
      BY <2>2, Zenon DEF ExtendedSpecification, ExtendSpecificationSingleChannel
    <3>2. records \in Nat \ {0}
      BY <2>2, InputBurstFits DEF BurstFits
    <3> HIDE DEF next, records, spec, extended, size
    <3>3. end \in Nat
      <4>1. kDdrBurstSize \in Nat
        BY DatapathAssumption
      <4>2. QED
        BY <3>2, <4>1, Division, Zenon
    <3> HIDE DEF end
    <3>4. RecordSlot(spec, end) \in Nat \ {0}
      BY <1>4, <3>3, SlotNotEmpty
    <3>5. QED
      BY <3>1, <3>2, <3>4, Zenon
  <2>3. QED
    BY <2>1, <2>2
<1> HIDE DEF size, spec, records, extended
<1>6. PICK end : /\ extended = ExtendSpecification(records, spec, size, NoColumn, end)
                 /\ RecordSlot(spec, end) \in Nat \ {0} /\ records \in Nat \ {0}
  BY <1>5, Zenon
<1> DEFINE slot == RecordSlot(spec, end)
           all == ChunkOf(records * slot)
<1>7. size \in Nat /\ slot \in Nat \ {0}
  BY <1>3, <1>6
<1> HIDE DEF slot
<1>8. /\ all \in Nat /\ DOMAIN extended = 0..(kDatapathWidth * all - 1)
      /\ \A l \in DOMAIN extended : extended[l] \in Nat \cup {NoColumn}
  <2>1. /\ records \in Nat \ {0} /\ spec \in Seq(Nat \cup {NoColumn}) /\ size \in Nat
        /\ slot \in Nat \ {0} /\ slot = RecordSlot(spec, end)
        /\ extended = ExtendSpecification(records, spec, size, NoColumn, end)
    BY <1>4, <1>6, <1>7 DEF slot
  <2>2. ChunkOf(records * slot) \in Nat /\ HasChunks(extended, ChunkOf(records * slot))
    BY <2>1, ExtendedInput
  <2>3. QED
    BY <2>2 DEF HasChunks
<1> HIDE DEF all
<1>9. IsCrossbar(ConfigureInputCrossbarSetupData(extended))
  BY <1>2, <1>8, InputCrossbarKnown
<1>10. QED
  BY <1>1, <1>9

(* The crossbars of a run.                                                 *)
LEMMA CrossbarOfData ==
    ASSUME SorterFits, kMaxRecordsPerDDRBurst = kDatapathLength,
           IInv, NEW d \in Directions, NEW k \in DOMAIN setup_data[d]
    PROVE  IsCrossbar(setup_data[d][k].crossbar)
<1> DEFINE data == setup_data[d][k]
           stream == streams[d][k]
           n == Len(streams[d])
           m == k - 1
<1>1. IsDataOf(data, d, k)
  BY DataKnown
<1>2. /\ data = SetupData(stream, d = "input", n, m)
      /\ SetupError(stream, d = "input") = "none"
      /\ stream.stream_specification \in Seq(Nat \cup {NoColumn})
      /\ stream.stream_record_size \in 1..kDdrBurstSize
      /\ stream.input_chunks_per_record \in (0..kDatapathLength) \cup {NotGiven}
      /\ d = "output" => ~IsMultichannel(stream)
  BY <1>1, Zenon DEF IsDataOf
<1>3. d = "output" => SelectsFromChunks(stream)
  <2>1. streams \in StreamSets
    BY DEF IInv, SetupOK
  <2>2. d = "output" => stream \in ToSet(streams.output)
    BY <1>1 DEF IsDataOf, ToSet
  <2>3. QED
    BY <2>1, <2>2, StreamsTyped
<1> HIDE DEF data, stream, n, m
<1>4. CASE d = "input"
  <2>1. data = SetupData(stream, TRUE, n, m) /\ SetupError(stream, TRUE) = "none"
    BY <1>2, <1>4
  <2>2. IsCrossbar(data.crossbar)
    BY <1>2, <2>1, InputCrossbarOfStream
  <2>3. QED
    BY <2>2 DEF data
<1>5. CASE d = "output"
  <2>1. data = SetupData(stream, FALSE, n, m) /\ SetupError(stream, FALSE) = "none"
    <3>1. ~(d = "input")
      BY <1>5
    <3>2. QED
      BY <1>2, <3>1
  <2>2. ~IsMultichannel(stream) /\ SelectsFromChunks(stream)
    BY <1>2, <1>3, <1>5
  <2>3. IsCrossbar(data.crossbar)
    BY <1>2, <2>1, <2>2, OutputCrossbarKnown
  <2>4. QED
    BY <2>3 DEF data
<1>6. QED
  BY <1>4, <1>5 DEF Directions

-----------------------------------------------------------------------------
(* Four bytes in a word are four bytes.                                    *)
LEMMA BytesOfWord ==
    ASSUME NEW a \in Nat, a <= 255, NEW b \in Nat, b <= 255,
           NEW c \in Nat, c <= 255, NEW e \in Nat, e <= 255
    PROVE  LET low == c * 256 + e
               high == (a * 256 + b + low \div 65536) % 65536
           IN  /\ high \div 256 = a /\ high % 256 = b
               /\ (low % 65536) \div 256 = c /\ (low % 65536) % 256 = e
<1>1. (c * 256 + e) \div 65536 = 0 /\ (c * 256 + e) % 65536 = c * 256 + e
  OBVIOUS
<1>2. (a * 256 + b + 0) % 65536 = a * 256 + b
  OBVIOUS
<1>3. 256 \in Nat \ {0} /\ b \in 0..255 /\ e \in 0..255
  OBVIOUS
<1>4. (a * 256 + b) \div 256 = a /\ (a * 256 + b) % 256 = b
  OBVIOUS
<1>5. (c * 256 + e) \div 256 = c /\ (c * 256 + e) % 256 = e
  OBVIOUS
<1>6. QED
  BY <1>1, <1>2, <1>4, <1>5

(* The fields of a word are what was put in it.                            *)
LEMMA FieldsOfWord ==
    ASSUME NEW fields, DOMAIN fields = 1..4, fields = [k \in 1..4 |-> fields[k]],
           \A k \in 1..4 : fields[k] \in Nat /\ fields[k] <= 255
    PROVE  Fields(Word(fields)) = fields
<1> DEFINE a == fields[1]
           b == fields[2]
           c == fields[3]
           e == fields[4]
           low == c * 256 + e
           high == (a * 256 + b + low \div 65536) % 65536
<1>1. /\ a \in Nat /\ a <= 255 /\ b \in Nat /\ b <= 255
      /\ c \in Nat /\ c <= 255 /\ e \in Nat /\ e <= 255
  OBVIOUS
<1>2. 2^8 = 256 /\ 2^16 = 65536
  BY SMT
<1>3. Word(fields) = <<high, low % 65536>>
  <2> DEFINE end == fields[3] * 2^8 + fields[4]
             start == fields[1] * 2^8 + fields[2] + end \div 2^16
  <2>1. Word(fields) = <<start % 2^16, end % 2^16>>
    BY Zenon DEF Word
  <2>2. fields[3] * 2^8 = c * 256 /\ fields[1] * 2^8 = a * 256
    BY <1>2
  <2>3. end = low
    BY <2>2
  <2>4. start = a * 256 + b + low \div 65536
    <3>1. end \div 2^16 = low \div 65536
      BY <1>2, <2>3
    <3> HIDE DEF end, low
    <3>2. QED
      BY <2>2, <3>1
  <2> HIDE DEF start, end, low
  <2>5. start % 2^16 = high /\ end % 2^16 = low % 65536
    BY <1>2, <2>3, <2>4
  <2>6. QED
    BY <2>1, <2>5
<1> HIDE DEF a, b, c, e
<1>4. /\ high \div 256 = a /\ high % 256 = b
      /\ (low % 65536) \div 256 = c /\ (low % 65536) % 256 = e
  BY <1>1, BytesOfWord
<1> HIDE DEF low, high
<1>5. Fields(Word(fields)) = <<a, b, c, e>>
  <2>1. Word(fields)[1] = high /\ Word(fields)[2] = low % 65536
    BY <1>3
  <2>2. Fields(Word(fields)) = <<high \div 256, high % 256, (low % 65536) \div 256,
                                 (low % 65536) % 256>>
    <3> DEFINE word == Word(fields)
               rest == low % 65536
    <3>1. Fields(word) = <<word[1] \div 2^8, word[1] % 2^8, word[2] \div 2^8, word[2] % 2^8>>
      BY Zenon DEF Fields
    <3> HIDE DEF word, rest
    <3>2. word[1] = high /\ word[2] = rest /\ 2^8 = 256
      BY <1>2, <2>1 DEF word, rest
    <3>3. Fields(word) = <<high \div 256, high % 256, rest \div 256, rest % 256>>
      BY <3>1, <3>2, Zenon
    <3>4. QED
      BY <3>3 DEF word, rest
  <2>3. QED
    BY <1>4, <2>2
<1>6. <<a, b, c, e>> = [k \in 1..4 |-> fields[k]]
  BY DEF a, b, c, e
<1>7. QED
  BY <1>5, <1>6

(* The selections of a crossbar fit their fields.                          *)
LEMMA SelectionsFit ==
    ASSUME kDatapathWidth = 16, kDatapathLength <= 64,
           NEW data, IsCrossbar(data.crossbar),
           NEW chunk \in DOMAIN data.crossbar, NEW offset \in Offset,
           NEW selection \in {"chunk_selection", "position_selection"}
    PROVE  LET four == FourSelections(data, chunk, selection, offset)
           IN  Fields(Word(four)) = four
<1> DEFINE four == FourSelections(data, chunk, selection, offset)
           selected == data.crossbar[chunk][selection]
<1>1. four = [k \in 1..4 |-> selected[4 * offset + 4 - k]]
  BY Zenon DEF FourSelections
<1>2. ASSUME NEW p \in Position
      PROVE  selected[p] \in Nat /\ selected[p] <= 255
  <2>1. /\ data.crossbar[chunk].chunk_selection[p] \in Chunk
        /\ data.crossbar[chunk].position_selection[p] \in Position
    BY DEF IsCrossbar
  <2>2. selected \in {data.crossbar[chunk].chunk_selection,
                      data.crossbar[chunk].position_selection}
    OBVIOUS
  <2> HIDE DEF selected
  <2>3. selected[p] \in Chunk \cup Position
    BY <2>1, <2>2
  <2>4. QED
    BY <2>3, DatapathAssumption DEF Chunk, Position
<1> HIDE DEF selected, four
<1>3. ASSUME NEW k \in 1..4
      PROVE  four[k] \in Nat /\ four[k] <= 255
  <2> DEFINE p == 4 * offset + 4 - k
  <2>1. p \in Position
    BY DEF Position, Offset
  <2>2. four[k] = selected[p]
    BY <1>1
  <2> HIDE DEF p
  <2>3. QED
    BY <1>2, <2>1, <2>2
<1>4. DOMAIN four = 1..4 /\ four = [k \in 1..4 |-> four[k]]
  BY <1>1
<1>5. Fields(Word(four)) = four
  BY <1>3, <1>4, FieldsOfWord
<1>6. QED
  BY <1>5 DEF four

(* The logarithm of a number of records.                                   *)
LEMMA LogarithmKnown ==
    ASSUME NEW n \in Nat \ {0}
    PROVE  FloorLog2(n) \in Nat /\ FloorLog2(n) <= 12
<1> DEFINE among == {i \in 0..12 : 2^i <= n}
<1>1. among \in SUBSET (0..12)
  OBVIOUS
<1>2. among # {}
  <2>1. 2^0 = 1
    BY SMT
  <2>2. 0 \in among
    BY <2>1
  <2>3. QED
    BY <2>2
<1>3. FloorLog2(n) = Max(among)
  BY DEF FloorLog2
<1> HIDE DEF among
<1>4. Max(among) \in among
  <2>1. 12 \in Nat /\ among \in SUBSET (0..12)
    BY <1>1
  <2>2. QED
    BY <1>2, <2>1, GreatestNumber
<1>5. Max(among) \in 0..12
  BY <1>1, <1>4, Zenon
<1>6. QED
  BY <1>3, <1>5

(* The parameters of a controller fit their fields.                        *)
LEMMA ParametersFit ==
    ASSUME SorterFits, IInv, NEW d \in Directions, NEW k \in DOMAIN setup_data[d],
           setup_data[d][k].ddr_burst_length - 1 \in Byte
    PROVE  LET parameters == ControllerParams(setup_data[d][k])
           IN  Fields(Word(parameters)) = parameters
<1> DEFINE data == setup_data[d][k]
           stream == streams[d][k]
           n == Len(streams[d])
           m == k - 1
           parameters == ControllerParams(data)
<1>1. IsDataOf(data, d, k)
  BY DataKnown
<1>2. /\ data = SetupData(stream, d = "input", n, m)
      /\ SetupError(stream, d = "input") = "none"
      /\ stream.stream_specification \in Seq(Nat \cup {NoColumn})
      /\ stream.stream_record_size \in 1..kDdrBurstSize
      /\ stream.input_chunks_per_record \in (0..kDatapathLength) \cup {NotGiven}
      /\ d = "output" => ~IsMultichannel(stream)
  BY <1>1, Zenon DEF IsDataOf
<1>3. n \in 1..MaxStreams /\ m \in 0..(n - 1)
  <2>1. n \in 1..MaxStreams
    BY DEF IInv, SetupOK
  <2>2. IsSequence(setup_data[d]) /\ IsSetUp(d, k)
    BY DEF IInv, SetupOK, DataOK
  <2>3. k \in Nat \ {0} /\ k <= n
    BY <2>2, AppendSequence DEF IsSetUp
  <2> HIDE DEF n
  <2>4. QED
    BY <2>1, <2>3 DEF MaxStreams
<1> HIDE DEF data, stream, n, m
<1>4. /\ data.buffer = AllocateStreamBuffers(n, m)
      /\ data.records_per_ddr_burst = RecordsPerDDRBurst(stream, d = "input")
  BY <1>2, Zenon DEF SetupData
<1>5. /\ data.buffer.buffer_start \in Nat /\ data.buffer.buffer_start <= 255
      /\ data.buffer.buffer_end \in Nat /\ data.buffer.buffer_end <= 255
  <2>1. LET b == data.buffer
        IN  /\ b.buffer_start \in Nat /\ b.buffer_end \in Nat
            /\ b.buffer_start <= b.buffer_end
            /\ b.buffer_end <= Buffers - 1
    BY <1>3, <1>4, BuffersInRange
  <2>2. QED
    BY <2>1 DEF Buffers
<1>6. data.records_per_ddr_burst \in Nat \ {0}
  <2>1. stream.stream_record_size \in Nat \ {0}
    BY <1>2, DatapathAssumption
  <2>2. CASE d = "input"
    <3>1. SetupError(stream, TRUE) = "none"
          /\ data.records_per_ddr_burst = RecordsPerDDRBurst(stream, TRUE)
      BY <1>2, <1>4, <2>2
    <3>2. BurstFits(stream, RecordsPerDDRBurst(stream, TRUE))
      BY <1>2, <2>1, <3>1, MultichannelBurstFits, InputBurstFits
    <3>3. QED
      BY <3>1, <3>2 DEF BurstFits
  <2>3. CASE d = "output"
    <3>1. ~(d = "input")
      BY <2>3
    <3>2. SetupError(stream, FALSE) = "none"
          /\ data.records_per_ddr_burst = RecordsPerDDRBurst(stream, FALSE)
      BY <1>2, <1>4, <3>1
    <3>3. BurstFits(stream, RecordsPerDDRBurst(stream, FALSE))
      BY <1>2, <2>3, <3>2, OutputBurstFits
    <3>4. QED
      BY <3>2, <3>3 DEF BurstFits
  <2>4. QED
    BY <2>2, <2>3 DEF Directions
<1>7. data.ddr_burst_length - 1 \in Nat /\ data.ddr_burst_length - 1 <= 255
  BY DEF Byte, data
<1>8. LET log == FloorLog2(data.records_per_ddr_burst)
      IN  log \in Nat /\ log <= 255
  BY <1>6, LogarithmKnown
<1>9. parameters = <<data.ddr_burst_length - 1, FloorLog2(data.records_per_ddr_burst),
                     data.buffer.buffer_start, data.buffer.buffer_end>>
  BY Zenon DEF ControllerParams
<1> HIDE DEF parameters
<1>10. \A i \in 1..4 : parameters[i] \in Nat /\ parameters[i] <= 255
  BY <1>5, <1>7, <1>8, <1>9
<1>11. DOMAIN parameters = 1..4 /\ parameters = [i \in 1..4 |-> parameters[i]]
  BY <1>9
<1>12. Fields(Word(parameters)) = parameters
  BY <1>10, <1>11, FieldsOfWord
<1>13. QED
  BY <1>12 DEF parameters, data

(* Merge sorters that are set up are all of stream 0, and in the end each  *)
(* stream in many channels has one (SetupMergeSortModule).                 *)
SortersNumbered ==
    /\ \A k \in DOMAIN merge_sorters : merge_sorters[k].stream_id = 0
    /\ direction = "done" => Len(merge_sorters) = Cardinality(MultichannelInputs)

(* Every step keeps them so.                                               *)
LEMMA SortersNumberedHolds == Spec => []SortersNumbered
<1>1. Init => SortersNumbered
  <2> SUFFICES ASSUME Init PROVE SortersNumbered
    OBVIOUS
  <2>1. merge_sorters = <<>> /\ direction # "done"
    BY DEF Init
  <2>2. DOMAIN merge_sorters = {}
    BY <2>1
  <2>3. QED
    BY <2>1, <2>2, Zenon DEF SortersNumbered
<1>2. ASSUME SortersInv, SortersNumbered, [Next]_vars PROVE SortersNumbered'
  <2>1. streams' = streams => MultichannelInputs' = MultichannelInputs
    BY DEF MultichannelInputs
  <2>2. CASE IsRunValid \/ RunIsInvalid \/ SetupStream \/ FinishStreams
    <3>1. merge_sorters' = merge_sorters /\ direction' # "done"
      BY <2>2 DEF IsRunValid, RunIsInvalid, SetupStream, FinishStreams
    <3>2. QED
      BY <1>2, <3>1, Zenon DEF SortersNumbered
  <2>3. CASE FinishModules \/ UNCHANGED vars
    <3>1. /\ merge_sorters' = merge_sorters /\ streams' = streams
          /\ direction' = "done" => Len(merge_sorters) = Cardinality(MultichannelInputs)
      BY <1>2, <2>3 DEF FinishModules, vars, SortersNumbered
    <3>2. QED
      BY <1>2, <2>1, <3>1, Zenon DEF SortersNumbered
  <2>4. CASE SetupMergeSortModule
    <3>1. PICK i \in MultichannelInputs :
              \/ merge_sorters' = merge_sorters
              \/ /\ streams.input[i].stream_id = 0
                 /\ merge_sorters' = Append(merge_sorters, MergeSorter(streams.input[i]))
      BY <2>4 DEF SetupMergeSortModule
    <3>2. direction' # "done"
      BY <2>4 DEF SetupMergeSortModule
    <3>3. CASE merge_sorters' = merge_sorters
      BY <1>2, <3>2, <3>3, Zenon DEF SortersNumbered
    <3>4. CASE /\ streams.input[i].stream_id = 0
               /\ merge_sorters' = Append(merge_sorters, MergeSorter(streams.input[i]))
      <4> DEFINE sorter == MergeSorter(streams.input[i])
                 n == Len(merge_sorters)
      <4>1. sorter.stream_id = 0
        BY <3>4 DEF MergeSorter
      <4> HIDE DEF sorter
      <4>2. merge_sorters' = Append(merge_sorters, sorter)
        BY <3>4 DEF sorter
      <4>3. IsSequence(merge_sorters)
        BY <1>2 DEF SortersInv
      <4>4. /\ n \in Nat /\ DOMAIN merge_sorters = 1..n
            /\ DOMAIN merge_sorters' = 1..(n + 1)
            /\ \A k \in 1..n : merge_sorters'[k] = merge_sorters[k]
            /\ merge_sorters'[n + 1] = sorter
        BY <4>2, <4>3, AppendSequence
      <4>5. ASSUME NEW k \in 1..(n + 1)
            PROVE  merge_sorters'[k].stream_id = 0
        <5>1. CASE k \in 1..n
          BY <1>2, <4>4, <5>1 DEF SortersNumbered
        <5>2. CASE k = n + 1
          BY <4>1, <4>4, <5>2
        <5>3. QED
          BY <4>4, <5>1, <5>2
      <4>6. \A k \in DOMAIN merge_sorters' : merge_sorters'[k].stream_id = 0
        BY <4>4, <4>5
      <4>7. QED
        BY <3>2, <4>6, Zenon DEF SortersNumbered
    <3>5. QED
      BY <3>1, <3>3, <3>4
  <2>5. QED
    BY <1>2, <2>2, <2>3, <2>4 DEF Next
<1>3. Spec => []SortersInv
  <2>1. IInv /\ SortersInv /\ [Next]_vars => SortersInv'
    BY NextSorters
  <2>2. QED
    BY <2>1, InitSorters, InvariantHolds, PTL DEF Spec
<1>4. QED
  BY <1>1, <1>2, <1>3, PTL DEF Spec

(* So it is the only one whose channels are written.                       *)
LEMMA OnlyStreamZero ==
    ASSUME IInv, SortersInv, SortersNumbered, direction = "done", NEW i \in MultichannelInputs
    PROVE  streams.input[i].stream_id = 0
<1> DEFINE inputs == MultichannelInputs
           before == {l \in inputs : l < i}
<1>1. IsSequence(streams.input)
  BY StreamsTyped DEF IInv, SetupOK
<1>2. inputs \in SUBSET (1..Len(streams.input)) /\ Len(streams.input) \in Nat
  BY <1>1, AppendSequence DEF MultichannelInputs
<1>3. IsFiniteSet(inputs)
  <2>1. 1 \in Int /\ Len(streams.input) \in Int
    BY <1>2
  <2>2. IsFiniteSet(1..Len(streams.input))
    BY <2>1, FS_Interval, Zenon
  <2>3. QED
    BY <1>2, <2>2, FS_Subset
<1>4. SortersBefore(i) = Cardinality(before)
  BY DEF SortersBefore
<1>5. before \subseteq inputs \ {i}
  <2>1. i \in Nat
    BY <1>2
  <2>2. ~(i < i)
    BY <2>1
  <2>3. QED
    BY <2>2
<1> HIDE DEF before
<1>6. /\ IsFiniteSet(inputs \ {i}) /\ Cardinality(inputs \ {i}) = Cardinality(inputs) - 1
      /\ Cardinality(inputs) \in Nat
  BY <1>3, FS_RemoveElement, FS_CardinalityType
<1>7. Cardinality(before) \in Nat /\ Cardinality(before) <= Cardinality(inputs) - 1
  <2>1. IsFiniteSet(before) /\ Cardinality(before) <= Cardinality(inputs \ {i})
    BY <1>5, <1>6, FS_Subset, Zenon
  <2>2. Cardinality(before) \in Nat
    BY <2>1, FS_CardinalityType, Zenon
  <2>3. QED
    BY <1>6, <2>1, <2>2
<1> DEFINE k == SortersBefore(i) + 1
<1>8. k \in DOMAIN merge_sorters /\ SortersBefore(i) = k - 1
  <2>1. IsSequence(merge_sorters) /\ Len(merge_sorters) = Cardinality(inputs)
    BY DEF SortersInv, SortersNumbered
  <2>2. DOMAIN merge_sorters = 1..Cardinality(inputs)
    BY <2>1, AppendSequence, Zenon
  <2>3. QED
    BY <1>4, <1>6, <1>7, <2>2
<1> HIDE DEF k
<1>9. IsSorterOf(k, i)
  BY <1>8 DEF SortersInv
<1>10. merge_sorters[k].stream_id = streams.input[i].stream_id
  BY <1>9 DEF IsSorterOf, MergeSorter
<1>11. QED
  BY <1>8, <1>10 DEF SortersNumbered

-----------------------------------------------------------------------------
(* The tables as they lie in the engine, for the streams of one direction: *)
(* three with a register for each stream, for a controller ...             *)
StreamRegisters(all_data, base, word) ==
    {OfStream(base, data.stream.stream_id, word[data]) : data \in all_data}
ThreeTables(all_data, base, first, second, third) ==
    StreamRegisters(all_data, base, first)
    \cup (StreamRegisters(all_data, base + 64, second)
          \cup StreamRegisters(all_data, base + 128, third))

(* The three lie one after the other.                                      *)
LEMMA ThreeTablesKnown ==
    ASSUME NEW all_data, Numbered(all_data), NEW base \in Nat, base % 4 = 0,
           NEW first, NEW second, NEW third
    PROVE  LET tables == ThreeTables(all_data, base, first, second, third)
           IN  OneWordEach(tables) /\ LiesIn(tables, base, base + 188)
<1> DEFINE A == StreamRegisters(all_data, base, first)
           B == StreamRegisters(all_data, base + 64, second)
           C == StreamRegisters(all_data, base + 128, third)
<1>1. OneWordEach(A) /\ LiesIn(A, base, base + 60)
  BY StreamTable DEF StreamRegisters
<1>2. OneWordEach(B) /\ LiesIn(B, base + 64, base + 124)
  <2> DEFINE b == base + 64
  <2>1. b \in Nat /\ b % 4 = 0 /\ b + 60 = base + 124
    OBVIOUS
  <2> HIDE DEF b
  <2>2. OneWordEach(StreamRegisters(all_data, b, second))
        /\ LiesIn(StreamRegisters(all_data, b, second), b, b + 60)
    BY <2>1, StreamTable DEF StreamRegisters
  <2>3. QED
    BY <2>1, <2>2 DEF b
<1>3. OneWordEach(C) /\ LiesIn(C, base + 128, base + 188)
  <2> DEFINE b == base + 128
  <2>1. b \in Nat /\ b % 4 = 0 /\ b + 60 = base + 188
    OBVIOUS
  <2> HIDE DEF b
  <2>2. OneWordEach(StreamRegisters(all_data, b, third))
        /\ LiesIn(StreamRegisters(all_data, b, third), b, b + 60)
    BY <2>1, StreamTable DEF StreamRegisters
  <2>3. QED
    BY <2>1, <2>2 DEF b
<1>4. ThreeTables(all_data, base, first, second, third) = A \cup (B \cup C)
  BY Zenon DEF ThreeTables
<1> HIDE DEF A, B, C
<1> DEFINE p == base + 60
           q == base + 64
           r == base + 124
           s == base + 128
           t == base + 188
           D == B \cup C
           E == A \cup D
<1>5. IsJoined(D, B, C, q, r, s, t) /\ IsJoined(E, A, D, base, p, q, t)
  BY SMT DEF IsJoined
<1>6. LiesIn(A, base, p) /\ LiesIn(B, q, r) /\ LiesIn(C, s, t)
  BY <1>1, <1>2, <1>3
<1> HIDE DEF p, q, r, s, t, D, E
<1>7. OneWordEach(D) /\ LiesIn(D, q, t)
  BY <1>2, <1>3, <1>5, <1>6, TablesJoined, SMT
<1>8. OneWordEach(E) /\ LiesIn(E, base, t)
  BY <1>1, <1>5, <1>6, <1>7, TablesJoined, SMT
<1>9. QED
  BY <1>4, <1>8, SMT DEF t, D, E

(* ... two for the selections of its crossbar ...                          *)
TwoSelections(all_data, base) ==
    Selections(all_data, base, "position_selection")
    \cup Selections(all_data, base + 65536, "chunk_selection")

(* The two lie one after the other.                                        *)
LEMMA TwoSelectionsKnown ==
    ASSUME kDatapathLength <= 64, NEW all_data, Numbered(all_data),
           \A data \in all_data : DOMAIN data.crossbar \subseteq Chunk,
           NEW base \in Nat, base % 4 = 0
    PROVE  LET tables == TwoSelections(all_data, base)
           IN  OneWordEach(tables) /\ LiesIn(tables, base, base + 131068)
<1> DEFINE p == base + 65532
           q == base + 65536
           t == base + 131068
           A == Selections(all_data, base, "position_selection")
           B == Selections(all_data, q, "chunk_selection")
           C == A \cup B
<1>1. /\ q \in Nat /\ q % 4 = 0 /\ p = base + 65532 /\ q + 65532 = t
      /\ IsJoined(C, A, B, base, p, q, t)
  BY SMT DEF IsJoined
<1>2. OneWordEach(A) /\ LiesIn(A, base, base + 65532)
  BY SelectionTable, SMT
<1> HIDE DEF q
<1>3. OneWordEach(B) /\ LiesIn(B, q, q + 65532)
  BY <1>1, SelectionTable, SMT
<1>4. TwoSelections(all_data, base) = C
  BY SMT DEF TwoSelections, q
<1> HIDE DEF A, B, C
<1>5. OneWordEach(A) /\ OneWordEach(B)
  BY <1>2, <1>3, SMT
<1>6. LiesIn(A, base, p) /\ LiesIn(B, q, t)
  BY <1>1, <1>2, <1>3, SMT
<1> HIDE DEF p, t
<1>7. OneWordEach(C) /\ LiesIn(C, base, t)
  BY <1>1, <1>5, <1>6, TablesJoined, SMT
<1>8. QED
  BY <1>4, <1>7, SMT DEF t

(* ... and two with a register for each channel of a stream.               *)
TwoChannelTables(all_data, base, count, first, second) ==
    ChannelRegisters(all_data, base, count, first)
    \cup ChannelRegisters(all_data, base + 65536, count, second)

(* So do these two.                                                        *)
LEMMA TwoChannelTablesKnown ==
    ASSUME NEW all_data, Numbered(all_data),
           \A data \in all_data : data.stream.stream_id = 0,
           NEW base \in Nat, base % 4 = 0, NEW first, NEW second,
           NEW count \in Nat, count <= 16384
    PROVE  LET tables == TwoChannelTables(all_data, base, count, first, second)
           IN  OneWordEach(tables) /\ LiesIn(tables, base, base + 131068)
<1> DEFINE A == ChannelRegisters(all_data, base, count, first)
           p == base + 65532
           q == base + 65536
           t == base + 131068
           B == ChannelRegisters(all_data, q, count, second)
           C == A \cup B
<1>1. /\ q \in Nat /\ q % 4 = 0 /\ p = base + 65532 /\ q + 65532 = t
      /\ IsJoined(C, A, B, base, p, q, t)
  BY SMT DEF IsJoined
<1>2. OneWordEach(A) /\ LiesIn(A, base, base + 65532)
  BY ChannelTable, SMT
<1> HIDE DEF q
<1>3. OneWordEach(B) /\ LiesIn(B, q, q + 65532)
  BY <1>1, ChannelTable, SMT
<1>4. TwoChannelTables(all_data, base, count, first, second) = C
  BY SMT DEF q, TwoChannelTables
<1> HIDE DEF A, B, C
<1>5. OneWordEach(A) /\ OneWordEach(B)
  BY <1>2, <1>3, SMT
<1>6. LiesIn(A, base, p) /\ LiesIn(B, q, t)
  BY <1>1, <1>2, <1>3, SMT
<1> HIDE DEF p, t
<1>7. OneWordEach(C) /\ LiesIn(C, base, t)
  BY <1>1, <1>5, <1>6, TablesJoined, SMT
<1>8. QED
  BY <1>4, <1>7, SMT DEF t

-----------------------------------------------------------------------------
(* The streams of a direction have numbers of the engine, each its own     *)
(* (IDManager), and a merge sorter has no more channels than a table has   *)
(* registers for a stream.                                                 *)
HasNumbers(some) ==
    \A j \in DOMAIN some :
        /\ some[j].stream_id \in 0..(MaxStreams - 1)
        /\ \A k \in DOMAIN some : some[k].stream_id = some[j].stream_id => k = j
NumbersApart ==
    \A set \in StreamSets : HasNumbers(set.input) /\ HasNumbers(set.output)
ChannelsInTable(count) ==
    /\ count \in Nat /\ count <= 16384
    /\ \A set \in StreamSets : \A stream \in ToSet(set.input) :
          IsMultichannel(stream) => stream.max_channel_count <= count

(* So do the parameters that are set up.                                   *)
LEMMA DataNumbered ==
    ASSUME NumbersApart, IInv, NEW d \in Directions
    PROVE  Numbered(ToSet(setup_data[d]))
<1>1. streams \in StreamSets
  BY DEF IInv, SetupOK
<1>2. HasNumbers(streams[d])
  BY <1>1 DEF NumbersApart, Directions
<1>3. ASSUME NEW x \in ToSet(setup_data[d])
      PROVE  \E k \in DOMAIN streams[d] :
                /\ x.stream = streams[d][k]
                /\ x = SetupData(streams[d][k], d = "input", Len(streams[d]), k - 1)
  <2>1. PICK k \in DOMAIN setup_data[d] : x = setup_data[d][k]
    BY DEF ToSet
  <2>2. IsDataOf(x, d, k)
    BY <2>1, DataKnown
  <2>3. k \in DOMAIN streams[d]
        /\ x = SetupData(streams[d][k], d = "input", Len(streams[d]), k - 1)
    BY <2>2 DEF IsDataOf
  <2>4. x.stream = streams[d][k]
    BY <2>3 DEF SetupData
  <2>5. QED
    BY <2>3, <2>4
<1>4. ASSUME NEW x \in ToSet(setup_data[d]), NEW y \in ToSet(setup_data[d])
      PROVE  /\ x.stream.stream_id \in 0..(MaxStreams - 1)
             /\ y.stream.stream_id = x.stream.stream_id => y = x
  <2>1. PICK j \in DOMAIN streams[d] :
            /\ x.stream = streams[d][j]
            /\ x = SetupData(streams[d][j], d = "input", Len(streams[d]), j - 1)
    BY <1>3
  <2>2. PICK k \in DOMAIN streams[d] :
            /\ y.stream = streams[d][k]
            /\ y = SetupData(streams[d][k], d = "input", Len(streams[d]), k - 1)
    BY <1>3
  <2>3. x.stream.stream_id \in 0..(MaxStreams - 1)
    BY <1>2, <2>1, Zenon DEF HasNumbers
  <2>4. ASSUME y.stream.stream_id = x.stream.stream_id
        PROVE  y = x
    <3>1. k = j
      BY <1>2, <2>1, <2>2, <2>4, Zenon DEF HasNumbers
    <3>2. QED
      BY <2>1, <2>2, <3>1, Zenon
  <2>5. QED
    BY <2>3, <2>4
<1>5. QED
  BY <1>4, Zenon DEF Numbered

(* Part of them are numbered too.                                          *)
LEMMA PartNumbered ==
    ASSUME NEW all_data, Numbered(all_data), NEW some \in SUBSET all_data
    PROVE  Numbered(some)
  BY DEF Numbered

(* The channels of a stream that is to be merged.                          *)
LEMMA ChannelsKnown ==
    ASSUME NEW count, ChannelsInTable(count), IInv, RunChecked, direction = "done",
           NEW data \in ToSet(setup_data.input), IsMultichannel(data.stream)
    PROVE  DOMAIN data.channels \subseteq 0..(count - 1)
<1> DEFINE stream == data.stream
           total == stream.stream_record_count
           per_channel == stream.records_per_channel
           channels == stream.max_channel_count
           active == ActiveChannels(total, per_channel)
<1>1. "input" \in Directions /\ setup_data["input"] = setup_data.input
  BY DEF Directions
<1>2. PICK k \in DOMAIN setup_data.input : data = setup_data.input[k]
  BY DEF ToSet
<1>3. IsDataOf(data, "input", k)
  BY <1>1, <1>2, DataKnown
<1>4. /\ k \in DOMAIN streams.input
      /\ data = SetupData(streams.input[k], TRUE, Len(streams.input), k - 1)
  BY <1>3 DEF IsDataOf
<1>5. stream = streams.input[k]
  BY <1>4 DEF SetupData
<1>6. data.channels = SetMultiChannelSetupData(stream)
  BY <1>4, <1>5 DEF SetupData
<1>7. streams \in StreamSets /\ stream \in ToSet(streams.input)
  BY <1>4, <1>5 DEF IInv, SetupOK, ToSet
<1>8. IsStream(stream)
  BY <1>7, StreamsTyped
<1>9. /\ total \in Nat /\ channels \in Nat /\ per_channel \in Nat \ {0}
      /\ channels <= count /\ count \in Nat
  BY <1>7, <1>8 DEF IsStream, ChannelsInTable
<1>10. total <= channels * per_channel
  BY <1>4, <1>5 DEF RunChecked, MultichannelInputs, IsMergeSortBigEnough
<1>11. active \in Nat /\ active <= channels
  BY <1>9, <1>10, ActiveChannelsHoldAll
<1>12. DOMAIN data.channels = 0..(Max({active, channels}) - 1)
  BY <1>6 DEF SetMultiChannelSetupData, ActiveChannels
<1> HIDE DEF active, total, per_channel, channels, stream
<1>13. Max({active, channels}) = channels
  <2> DEFINE m == Max({active, channels})
  <2>0. active \in Int /\ channels \in Int
    BY <1>9, <1>11
  <2>1. m \in {active, channels} /\ m >= active /\ m >= channels
    BY <2>0, GreaterOfTwo, Zenon
  <2> HIDE DEF m
  <2>2. m = channels
    BY <1>9, <1>11, <2>1
  <2>3. QED
    BY <2>2 DEF m
<1>14. QED
  BY <1>9, <1>12, <1>13

-----------------------------------------------------------------------------
(* All registers that the streams of a run may write, table by table.      *)
ControllerTables(all_data, base) ==
    ThreeTables(all_data, base,
                [data \in all_data |-> Word(ControllerParams(data))],
                [data \in all_data |-> Whole(data.channels[0].stream_address)],
                [data \in all_data |-> Whole(data.channels[0].record_count)])
RecordTable(all_data) ==
    StreamRegisters(all_data, 131328,
                    [data \in all_data |-> Whole(data.chunks_per_record - 1)])
ChunkIds(all_data) ==
    ChunkRegisters(all_data, 139264,
                   [data \in all_data |->
                       [cycle \in Chunk |-> Whole(data.record_chunk_ids[cycle])]])
SorterTables(all_data) ==
    ThreeTables(all_data, 524288,
                [data \in all_data |-> Whole(data.records_per_ddr_burst)],
                [data \in all_data |-> Whole(data.ddr_burst_length - 1)],
                [data \in all_data |-> Whole(data.active_channel_count)])
SorterChannels(all_data, count) ==
    TwoChannelTables(all_data, 589824, count,
        [data \in all_data |->
            [j \in 0..(count - 1) |-> Whole(data.channels[j].stream_address)]],
        [data \in all_data |->
            [j \in 0..(count - 1) |-> Whole(data.channels[j].record_count + 1)]])
StartWord(all_data) == Whole(ActiveStreams(all_data))

(* They are taken from the last to the first.                              *)
LateRegisters(inputs, outputs, sorted, count) ==
    TwoSelections(inputs, 262144)
    \cup (TwoSelections(outputs, 393216)
          \cup (SorterTables(sorted) \cup SorterChannels(sorted, count)))
MiddleRegisters(inputs, outputs, started) ==
    ControllerTables(outputs, 65536)
    \cup ({<<65728, started>>} \cup (RecordTable(inputs) \cup ChunkIds(inputs)))
EarlyRegisters(inputs, started, number, reset) ==
    {<<0, started>>} \cup ({<<4, number>>} \cup ({<<8, reset>>} \cup ControllerTables(inputs, 64)))

(* The last of them, the crossbars and the channels, lie apart.            *)
LEMMA LateRegistersKnown ==
    ASSUME kDatapathLength <= 64, NEW inputs, Numbered(inputs), NEW outputs, Numbered(outputs),
           \A data \in inputs \cup outputs : DOMAIN data.crossbar \subseteq Chunk,
           NEW sorted, Numbered(sorted), \A data \in sorted : data.stream.stream_id = 0,
           NEW count \in Nat, count <= 16384
    PROVE  LET late == LateRegisters(inputs, outputs, sorted, count)
           IN  OneWordEach(late) /\ LiesIn(late, 262144, 720892)
<1> DEFINE A == TwoSelections(inputs, 262144)
           B == TwoSelections(outputs, 393216)
           C == SorterTables(sorted)
           D == SorterChannels(sorted, count)
<1>1. OneWordEach(A) /\ LiesIn(A, 262144, 393212)
  <2> DEFINE base == 262144
  <2>1. base \in Nat /\ base % 4 = 0 /\ base + 131068 = 393212
    BY SMT
  <2>2. \A data \in inputs : DOMAIN data.crossbar \subseteq Chunk
    BY SMT
  <2>3. A = TwoSelections(inputs, base)
    OBVIOUS
  <2> HIDE DEF base, A
  <2>4. OneWordEach(A) /\ LiesIn(A, base, base + 131068)
    BY <2>1, <2>2, <2>3, TwoSelectionsKnown, SMT
  <2>5. QED
    BY <2>1, <2>4, SMT DEF base
<1>2. OneWordEach(B) /\ LiesIn(B, 393216, 524284)
  <2> DEFINE base == 393216
  <2>1. base \in Nat /\ base % 4 = 0 /\ base + 131068 = 524284
    BY SMT
  <2>2. \A data \in outputs : DOMAIN data.crossbar \subseteq Chunk
    BY SMT
  <2>3. B = TwoSelections(outputs, base)
    OBVIOUS
  <2> HIDE DEF base, B
  <2>4. OneWordEach(B) /\ LiesIn(B, base, base + 131068)
    BY <2>1, <2>2, <2>3, TwoSelectionsKnown, SMT
  <2>5. QED
    BY <2>1, <2>4, SMT DEF base
<1>3. OneWordEach(C) /\ LiesIn(C, 524288, 524476)
  <2> DEFINE base == 524288
  <2>1. base \in Nat /\ base % 4 = 0 /\ base + 188 = 524476
    BY SMT
  <2>2. C = ThreeTables(sorted, base,
                [data \in sorted |-> Whole(data.records_per_ddr_burst)],
                [data \in sorted |-> Whole(data.ddr_burst_length - 1)],
                [data \in sorted |-> Whole(data.active_channel_count)])
    BY SMT DEF SorterTables
  <2> HIDE DEF base, C
  <2>3. OneWordEach(C) /\ LiesIn(C, base, base + 188)
    BY <2>1, <2>2, ThreeTablesKnown, SMT
  <2>4. QED
    BY <2>1, <2>3, SMT DEF base
<1>4. OneWordEach(D) /\ LiesIn(D, 589824, 720892)
  <2> DEFINE base == 589824
             addresses == [data \in sorted |->
                              [j \in 0..(count - 1) |-> Whole(data.channels[j].stream_address)]]
             sizes == [data \in sorted |->
                          [j \in 0..(count - 1) |-> Whole(data.channels[j].record_count + 1)]]
  <2>1. base \in Nat /\ base % 4 = 0 /\ base + 131068 = 720892
    BY SMT
  <2>2. D = TwoChannelTables(sorted, base, count, addresses, sizes)
    BY SMT DEF SorterChannels
  <2> HIDE DEF base, D, addresses, sizes
  <2>3. OneWordEach(D) /\ LiesIn(D, base, base + 131068)
    BY <2>1, <2>2, TwoChannelTablesKnown, SMT
  <2>4. QED
    BY <2>1, <2>3, SMT DEF base
<1> DEFINE E == C \cup D
           F == B \cup E
           G == A \cup F
<1>5. LateRegisters(inputs, outputs, sorted, count) = G
  BY SMT DEF LateRegisters
<1> HIDE DEF A, B, C, D, E, F, G
<1>6. OneWordEach(E) /\ LiesIn(E, 524288, 720892)
  <2>1. IsJoined(E, C, D, 524288, 524476, 589824, 720892)
    BY SMT DEF IsJoined, E
  <2>2. QED
    BY <1>3, <1>4, <2>1, TablesJoined, SMT
<1>7. OneWordEach(F) /\ LiesIn(F, 393216, 720892)
  <2>1. IsJoined(F, B, E, 393216, 524284, 524288, 720892)
    BY SMT DEF IsJoined, F
  <2>2. QED
    BY <1>2, <1>6, <2>1, TablesJoined, SMT
<1>8. OneWordEach(G) /\ LiesIn(G, 262144, 720892)
  <2>1. IsJoined(G, A, F, 262144, 393212, 393216, 720892)
    BY SMT DEF IsJoined, G
  <2>2. QED
    BY <1>1, <1>7, <2>1, TablesJoined, SMT
<1>9. QED
  BY <1>5, <1>8, SMT

(* The registers of a controller, for each stream.                         *)
LEMMA ControllerTablesKnown ==
    ASSUME NEW all_data, Numbered(all_data), NEW base \in Nat, base % 4 = 0
    PROVE  LET tables == ControllerTables(all_data, base)
           IN  OneWordEach(tables) /\ LiesIn(tables, base, base + 188)
<1> DEFINE A == ControllerTables(all_data, base)
           first == [data \in all_data |-> Word(ControllerParams(data))]
           second == [data \in all_data |-> Whole(data.channels[0].stream_address)]
           third == [data \in all_data |-> Whole(data.channels[0].record_count)]
<1>1. A = ThreeTables(all_data, base, first, second, third)
  BY SMT DEF ControllerTables
<1> HIDE DEF A, first, second, third
<1>2. OneWordEach(A) /\ LiesIn(A, base, base + 188)
  BY <1>1, ThreeTablesKnown, SMT
<1>3. QED
  BY <1>2, SMT DEF A

(* So do those of the output controller and of the chunks ...              *)
LEMMA MiddleRegistersKnown ==
    ASSUME kDatapathLength <= 64, NEW inputs, Numbered(inputs), NEW outputs, Numbered(outputs),
           NEW started
    PROVE  LET middle == MiddleRegisters(inputs, outputs, started)
           IN  OneWordEach(middle) /\ LiesIn(middle, 65536, 143356)
<1> DEFINE A == ControllerTables(outputs, 65536)
           B == {<<65728, started>>}
           C == RecordTable(inputs)
           D == ChunkIds(inputs)
<1>1. OneWordEach(A) /\ LiesIn(A, 65536, 65724)
  <2> DEFINE base == 65536
  <2>1. base \in Nat /\ base % 4 = 0 /\ base + 188 = 65724
    BY SMT
  <2>2. A = ControllerTables(outputs, base)
    OBVIOUS
  <2> HIDE DEF base, A
  <2>3. OneWordEach(A) /\ LiesIn(A, base, base + 188)
    BY <2>1, <2>2, ControllerTablesKnown, SMT
  <2>4. QED
    BY <2>1, <2>3, SMT DEF base
<1>2. OneWordEach(B) /\ LiesIn(B, 65728, 65728)
  BY OneRegister, SMT
<1>3. OneWordEach(C) /\ LiesIn(C, 131328, 131388)
  <2> DEFINE base == 131328
             word == [data \in inputs |-> Whole(data.chunks_per_record - 1)]
  <2>1. base \in Nat /\ base % 4 = 0 /\ base + 60 = 131388
    BY SMT
  <2>2. C = {OfStream(base, data.stream.stream_id, word[data]) : data \in inputs}
    BY SMT DEF RecordTable, StreamRegisters
  <2> HIDE DEF base, C, word
  <2>3. OneWordEach(C) /\ LiesIn(C, base, base + 60)
    BY <2>1, <2>2, StreamTable, SMT
  <2>4. QED
    BY <2>1, <2>3, SMT DEF base
<1>4. OneWordEach(D) /\ LiesIn(D, 139264, 143356)
  <2> DEFINE base == 139264
             word == [data \in inputs |-> [cycle \in Chunk |-> Whole(data.record_chunk_ids[cycle])]]
  <2>1. base \in Nat /\ base % 4 = 0 /\ base + 4092 = 143356
    BY SMT
  <2>2. D = ChunkRegisters(inputs, base, word)
    BY SMT DEF ChunkIds
  <2> HIDE DEF base, D, word
  <2>3. OneWordEach(D) /\ LiesIn(D, base, base + 4092)
    BY <2>1, <2>2, ChunkTable, SMT
  <2>4. QED
    BY <2>1, <2>3, SMT DEF base
<1> DEFINE E == C \cup D
           F == B \cup E
           G == A \cup F
<1>5. MiddleRegisters(inputs, outputs, started) = G
  BY SMT DEF MiddleRegisters
<1> HIDE DEF A, B, C, D, E, F, G
<1>6. OneWordEach(E) /\ LiesIn(E, 131328, 143356)
  <2>1. IsJoined(E, C, D, 131328, 131388, 139264, 143356)
    BY SMT DEF IsJoined, E
  <2>2. QED
    BY <1>3, <1>4, <2>1, TablesJoined, SMT
<1>7. OneWordEach(F) /\ LiesIn(F, 65728, 143356)
  <2>1. IsJoined(F, B, E, 65728, 65728, 131328, 143356)
    BY SMT DEF IsJoined, F
  <2>2. QED
    BY <1>2, <1>6, <2>1, TablesJoined, SMT
<1>8. OneWordEach(G) /\ LiesIn(G, 65536, 143356)
  <2>1. IsJoined(G, A, F, 65536, 65724, 65728, 143356)
    BY SMT DEF IsJoined, G
  <2>2. QED
    BY <1>1, <1>7, <2>1, TablesJoined, SMT
<1>9. QED
  BY <1>5, <1>8, SMT

(* ... and the first, those of the input controller.                       *)
LEMMA EarlyRegistersKnown ==
    ASSUME NEW inputs, Numbered(inputs), NEW started, NEW number, NEW reset
    PROVE  LET early == EarlyRegisters(inputs, started, number, reset)
           IN  OneWordEach(early) /\ LiesIn(early, 0, 252)
<1> DEFINE A == {<<0, started>>}
           B == {<<4, number>>}
           C == {<<8, reset>>}
           D == ControllerTables(inputs, 64)
<1>1. OneWordEach(A) /\ LiesIn(A, 0, 0)
  <2>1. 0 \in Nat /\ 0 % 4 = 0
    BY SMT
  <2>2. QED
    BY <2>1, OneRegister, SMT
<1>2. OneWordEach(B) /\ LiesIn(B, 4, 4)
  <2> DEFINE address == 4
  <2>1. address \in Nat /\ address % 4 = 0 /\ B = {<<address, number>>}
    BY SMT
  <2> HIDE DEF address, B
  <2>2. OneWordEach(B) /\ LiesIn(B, address, address)
    BY <2>1, OneRegister, SMT
  <2>3. QED
    BY <2>2, SMT DEF address
<1>3. OneWordEach(C) /\ LiesIn(C, 8, 8)
  <2>1. 8 \in Nat /\ 8 % 4 = 0
    BY SMT
  <2>2. QED
    BY <2>1, OneRegister, SMT
<1>4. OneWordEach(D) /\ LiesIn(D, 64, 252)
  <2> DEFINE base == 64
  <2>1. base \in Nat /\ base % 4 = 0 /\ base + 188 = 252
    BY SMT
  <2>2. D = ControllerTables(inputs, base)
    OBVIOUS
  <2> HIDE DEF base, D
  <2>3. OneWordEach(D) /\ LiesIn(D, base, base + 188)
    BY <2>1, <2>2, ControllerTablesKnown, SMT
  <2>4. QED
    BY <2>1, <2>3, SMT DEF base
<1> DEFINE E == C \cup D
           F == B \cup E
           G == A \cup F
<1>5. EarlyRegisters(inputs, started, number, reset) = G
  BY SMT DEF EarlyRegisters
<1> HIDE DEF A, B, C, D, E, F, G
<1>6. OneWordEach(E) /\ LiesIn(E, 8, 252)
  <2>1. IsJoined(E, C, D, 8, 8, 64, 252)
    BY SMT DEF IsJoined, E
  <2>2. QED
    BY <1>3, <1>4, <2>1, TablesJoined, SMT
<1>7. OneWordEach(F) /\ LiesIn(F, 4, 252)
  <2>1. IsJoined(F, B, E, 4, 4, 8, 252)
    BY SMT DEF IsJoined, F
  <2>2. QED
    BY <1>2, <1>6, <2>1, TablesJoined, SMT
<1>8. OneWordEach(G) /\ LiesIn(G, 0, 252)
  <2>1. IsJoined(G, A, F, 0, 0, 4, 252)
    BY SMT DEF IsJoined, G
  <2>2. QED
    BY <1>1, <1>7, <2>1, TablesJoined, SMT
<1>9. QED
  BY <1>5, <1>8, SMT

-----------------------------------------------------------------------------
(* All registers.                                                          *)
Registers(inputs, outputs, sorted, count, number) ==
    EarlyRegisters(inputs, StartWord(inputs), number, Whole(kResetDuration))
    \cup (MiddleRegisters(inputs, outputs, StartWord(outputs))
          \cup LateRegisters(inputs, outputs, sorted, count))

(* All together, no register is in two tables or has two words.            *)
LEMMA RegistersKnown ==
    ASSUME kDatapathLength <= 64, NEW inputs, Numbered(inputs), NEW outputs, Numbered(outputs),
           \A data \in inputs \cup outputs : DOMAIN data.crossbar \subseteq Chunk,
           NEW sorted, Numbered(sorted), \A data \in sorted : data.stream.stream_id = 0,
           NEW count \in Nat, count <= 16384, NEW number
    PROVE  LET registers == Registers(inputs, outputs, sorted, count, number)
           IN  OneWordEach(registers) /\ LiesIn(registers, 0, 720892)
<1> DEFINE A == EarlyRegisters(inputs, StartWord(inputs), number, Whole(kResetDuration))
           B == MiddleRegisters(inputs, outputs, StartWord(outputs))
           C == LateRegisters(inputs, outputs, sorted, count)
           started == StartWord(inputs)
           begun == StartWord(outputs)
           reset == Whole(kResetDuration)
           a == 0
           b == 252
           c == 65536
           d == 143356
           e == 262144
           f == 720892
           D == B \cup C
           E == A \cup D
<1>1. OneWordEach(A) /\ LiesIn(A, 0, 252)
  <2>1. A = EarlyRegisters(inputs, started, number, reset)
    OBVIOUS
  <2> HIDE DEF A, started, reset
  <2>2. QED
    BY <2>1, EarlyRegistersKnown, SMT
<1>2. OneWordEach(B) /\ LiesIn(B, 65536, 143356)
  <2>1. B = MiddleRegisters(inputs, outputs, begun)
    OBVIOUS
  <2> HIDE DEF B, begun
  <2>2. QED
    BY <2>1, MiddleRegistersKnown, SMT
<1>3. OneWordEach(C) /\ LiesIn(C, 262144, 720892)
  BY LateRegistersKnown, SMT
<1>4. IsJoined(D, B, C, c, d, e, f) /\ IsJoined(E, A, D, a, b, c, f)
  <2> HIDE DEF A, B, C
  <2>1. QED
    BY SMT DEF IsJoined
<1>5. Registers(inputs, outputs, sorted, count, number) = E
  BY SMT DEF Registers
<1> HIDE DEF A, B, C, D, E
<1>6. LiesIn(A, a, b) /\ LiesIn(B, c, d) /\ LiesIn(C, e, f)
  BY <1>1, <1>2, <1>3, SMT
<1> HIDE DEF a, b, c, d, e, f
<1>7. OneWordEach(A) /\ OneWordEach(B) /\ OneWordEach(C)
  BY <1>1, <1>2, <1>3, SMT
<1>8. OneWordEach(D) /\ LiesIn(D, c, f)
  BY <1>4, <1>6, <1>7, TablesJoined, SMT
<1>9. OneWordEach(E) /\ LiesIn(E, a, f)
  BY <1>4, <1>6, <1>7, <1>8, TablesJoined, SMT
<1>10. QED
  BY <1>5, <1>9, SMT DEF a, f

(* What is written is in one of the tables.  First the tables that are     *)
(* written for streams of both directions.                                 *)
LEMMA InControllerTables ==
    ASSUME NEW all_data, NEW data \in all_data, NEW base
    PROVE  LET id == data.stream.stream_id
               tables == ControllerTables(all_data, base)
           IN  /\ OfStream(base, id, Word(ControllerParams(data))) \in tables
               /\ OfStream(base + 64, id, Whole(data.channels[0].stream_address)) \in tables
               /\ OfStream(base + 128, id, Whole(data.channels[0].record_count)) \in tables
  BY DEF ControllerTables, ThreeTables, StreamRegisters



(* The selections of a direction.                                          *)
LEMMA CrossbarWrites ==
    ASSUME NEW all_data, NEW data \in all_data, NEW d \in Directions,
           NEW w \in SetUpDMACrossbarsForStream(data, d = "input"),
           NEW base, base = IF d = "input" THEN 262144 ELSE 393216
    PROVE  w \in TwoSelections(all_data, base)
<1>1. 2 * 2^17 = 262144 /\ 3 * 2^17 = 393216 /\ 2^16 = 65536
  BY SMT
<1>2. base = IF d = "input" THEN 2 * 2^17 ELSE 3 * 2^17
  BY <1>1, SMT
<1>3. base + 65536 = base + 2^16 /\ base = base + 0
  BY <1>1, SMT
<1>4. w \in SetCrossbarValues(data, d = "input", "chunk_selection")
      \/ w \in SetCrossbarValues(data, d = "input", "position_selection")
  BY SMT DEF SetUpDMACrossbarsForStream
<1>5. CASE w \in SetCrossbarValues(data, d = "input", "chunk_selection")
  <2>1. w \in SelectionsOf(data, base + 65536, "chunk_selection")
    BY <1>2, <1>3, <1>5, SMT DEF SetCrossbarValues, SelectionsOf, CrossbarBase
  <2>2. QED
    BY <2>1, SMT DEF TwoSelections, Selections
<1>6. CASE w \in SetCrossbarValues(data, d = "input", "position_selection")
  <2>1. w \in SelectionsOf(data, base, "position_selection")
    BY <1>2, <1>3, <1>6, SMT DEF SetCrossbarValues, SelectionsOf, CrossbarBase
  <2>2. QED
    BY <2>1, SMT DEF TwoSelections, Selections
<1>7. QED
  BY <1>4, <1>5, <1>6, SMT

(* The controller of a direction, for one stream.                          *)
LEMMA StreamWrites ==
    ASSUME NEW data, NEW d \in Directions, NEW w,
           w \in SetUpDMAIOStream(data, d = "input"),
           NEW base, base = IF d = "input" THEN 64 ELSE 65536
    PROVE  LET id == data.stream.stream_id
           IN  \/ w = OfStream(base, id, Word(ControllerParams(data)))
               \/ w = OfStream(base + 64, id, Whole(data.channels[0].stream_address))
               \/ w = OfStream(base + 128, id, Whole(data.channels[0].record_count))
               \/ /\ d = "input"
                  /\ \/ w \in SetRecordSize(data)
                     \/ w \in SetRecordChunkIDs(data)
                     \/ IsMultichannel(data.stream) /\ w \in SetMultiChannelStream(data)
<1> DEFINE id == data.stream.stream_id
<1>1. 2^6 = 64 /\ 2^16 = 65536
  BY SMT
<1>2. /\ base = IF d = "input" THEN 2^6 ELSE 2^16
      /\ base + 64 = IF d = "input" THEN 2 * 2^6 ELSE 2^16 + 2^6
      /\ base + 128 = IF d = "input" THEN 3 * 2^6 ELSE 2^16 + 2 * 2^6
  BY <1>1, SMT
<1>3. \/ w \in SetControllerParams(data, d = "input")
      \/ w \in SetControllerStreamAddress(data, d = "input")
      \/ w \in SetControllerStreamSize(data, d = "input")
      \/ /\ d = "input"
         /\ \/ w \in SetRecordSize(data)
            \/ w \in SetRecordChunkIDs(data)
            \/ IsMultichannel(data.stream) /\ w \in SetMultiChannelStream(data)
  BY SMT DEF SetUpDMAIOStream
<1>4. CASE w \in SetControllerParams(data, d = "input")
  BY <1>2, <1>4, SMT DEF SetControllerParams
<1>5. CASE w \in SetControllerStreamAddress(data, d = "input")
  BY <1>2, <1>5, SMT DEF SetControllerStreamAddress
<1>6. CASE w \in SetControllerStreamSize(data, d = "input")
  BY <1>2, <1>6, SMT DEF SetControllerStreamSize
<1>7. QED
  BY <1>3, <1>4, <1>5, <1>6, SMT

(* The tables of the chunks, for an input stream.                          *)
LEMMA InRecordTables ==
    ASSUME NEW all_data, NEW data \in all_data, DOMAIN data.record_chunk_ids \subseteq Chunk,
           NEW w, w \in SetRecordSize(data) \/ w \in SetRecordChunkIDs(data)
    PROVE  w \in RecordTable(all_data) \/ w \in ChunkIds(all_data)
<1>1. CASE w \in SetRecordSize(data)
  <2>1. 2^17 + 2^8 = 131328
    BY SMT
  <2> DEFINE word == [x \in all_data |-> Whole(x.chunks_per_record - 1)]
  <2>2. w = OfStream(131328, data.stream.stream_id, word[data])
    BY <1>1, <2>1, SMT DEF SetRecordSize
  <2>3. RecordTable(all_data) = {OfStream(131328, x.stream.stream_id, word[x]) : x \in all_data}
    BY SMT DEF RecordTable, StreamRegisters
  <2> HIDE DEF word
  <2>4. QED
    BY <2>2, <2>3, SMT
<1>2. CASE w \in SetRecordChunkIDs(data)
  <2>1. 2^17 + 2^13 = 139264
    BY SMT
  <2> DEFINE word == [x \in all_data |-> [cycle \in Chunk |-> Whole(x.record_chunk_ids[cycle])]]
  <2>2. PICK cycle \in DOMAIN data.record_chunk_ids :
            w = <<2^17 + 2^13 + 2^8 * data.stream.stream_id + 4 * cycle,
                  Whole(data.record_chunk_ids[cycle])>>
    BY <1>2, SMT DEF SetRecordChunkIDs
  <2>3. cycle \in Chunk
    BY SMT
  <2>4. w = <<139264 + 2^8 * data.stream.stream_id + 4 * cycle, word[data][cycle]>>
    BY <2>1, <2>2, <2>3, SMT
  <2>5. ChunkIds(all_data) = ChunkRegisters(all_data, 139264, word)
    BY SMT DEF ChunkIds
  <2> HIDE DEF word
  <2>6. QED
    BY <2>3, <2>4, <2>5, SMT DEF ChunkRegisters
<1>3. QED
  BY <1>1, <1>2, SMT

(* The tables of a stream in many channels.                                *)
LEMMA InSorterTables ==
    ASSUME NEW sorted, NEW data \in sorted, NEW count,
           DOMAIN data.channels \subseteq 0..(count - 1),
           NEW w \in SetMultiChannelStream(data)
    PROVE  w \in SorterTables(sorted) \/ w \in SorterChannels(sorted, count)
<1> DEFINE id == data.stream.stream_id
           addresses == [x \in sorted |->
                            [j \in 0..(count - 1) |-> Whole(x.channels[j].stream_address)]]
           sizes == [x \in sorted |->
                        [j \in 0..(count - 1) |-> Whole(x.channels[j].record_count + 1)]]
<1>1. /\ 2^19 = 524288 /\ 2^19 + 2^6 = 524352 /\ 2^19 + 2 * 2^6 = 524416
      /\ 2^19 + 2^16 = 589824 /\ 2^19 + 2 * 2^16 = 655360
  BY SMT
<1>2. \/ w = OfStream(524288, id, Whole(data.records_per_ddr_burst))
      \/ w = OfStream(524352, id, Whole(data.ddr_burst_length - 1))
      \/ w = OfStream(524416, id, Whole(data.active_channel_count))
      \/ \E j \in DOMAIN data.channels :
            w = <<589824 + 2^14 * id + 4 * j, Whole(data.channels[j].stream_address)>>
      \/ \E j \in DOMAIN data.channels :
            w = <<655360 + 2^14 * id + 4 * j, Whole(data.channels[j].record_count + 1)>>
  BY <1>1, SMT DEF SetMultiChannelStream, Multichannels
<1>3. 524288 + 64 = 524352 /\ 524288 + 128 = 524416 /\ 589824 + 65536 = 655360
  BY SMT
<1>4. CASE w = OfStream(524288, id, Whole(data.records_per_ddr_burst))
  BY <1>4, SMT DEF SorterTables, ThreeTables, StreamRegisters
<1>5. CASE w = OfStream(524352, id, Whole(data.ddr_burst_length - 1))
  BY <1>3, <1>5, SMT DEF SorterTables, ThreeTables, StreamRegisters
<1>6. CASE w = OfStream(524416, id, Whole(data.active_channel_count))
  BY <1>3, <1>6, SMT DEF SorterTables, ThreeTables, StreamRegisters
<1>7. SorterChannels(sorted, count)
          = ChannelRegisters(sorted, 589824, count, addresses)
            \cup ChannelRegisters(sorted, 655360, count, sizes)
  BY <1>3, SMT DEF SorterChannels, TwoChannelTables
<1>8. CASE \E j \in DOMAIN data.channels :
               w = <<589824 + 2^14 * id + 4 * j, Whole(data.channels[j].stream_address)>>
  <2>1. PICK j \in 0..(count - 1) :
            w = <<589824 + 2^14 * id + 4 * j, Whole(data.channels[j].stream_address)>>
    BY <1>8, SMT
  <2>2. addresses[data][j] = Whole(data.channels[j].stream_address)
    BY SMT
  <2> HIDE DEF addresses, sizes
  <2>3. w \in ChannelRegisters(sorted, 589824, count, addresses)
    BY <2>1, <2>2, SMT DEF ChannelRegisters
  <2>4. QED
    BY <1>7, <2>3, SMT
<1>9. CASE \E j \in DOMAIN data.channels :
               w = <<655360 + 2^14 * id + 4 * j, Whole(data.channels[j].record_count + 1)>>
  <2>1. PICK j \in 0..(count - 1) :
            w = <<655360 + 2^14 * id + 4 * j, Whole(data.channels[j].record_count + 1)>>
    BY <1>9, SMT
  <2>2. sizes[data][j] = Whole(data.channels[j].record_count + 1)
    BY SMT
  <2> HIDE DEF addresses, sizes
  <2>3. w \in ChannelRegisters(sorted, 655360, count, sizes)
    BY <2>1, <2>2, SMT DEF ChannelRegisters
  <2>4. QED
    BY <1>7, <2>3, SMT
<1>10. QED
  BY <1>2, <1>4, <1>5, <1>6, <1>8, <1>9, SMT

(* The register that starts the controller of a direction.                 *)
LEMMA StartWrites ==
    ASSUME NEW all_data, NEW d \in Directions, NEW w \in StartController(d = "input", all_data)
    PROVE  w = <<IF d = "input" THEN 0 ELSE 65728, StartWord(all_data)>>
<1>1. 2^16 + 3 * 2^6 = 65728
  BY SMT
<1>2. w = <<IF d = "input" THEN 0 ELSE 2^16 + 3 * 2^6, StartWord(all_data)>>
  BY SMT DEF StartController, StartWord
<1>3. QED
  BY <1>1, <1>2, SMT

-----------------------------------------------------------------------------
(* Everything that is written, by direction.                               *)
LEMMA WritesKnown ==
    ASSUME NEW w \in Writes
    PROVE  \/ w = <<8, Whole(kResetDuration)>>
           \/ w = <<4, Whole(multichannel_streams)>>
           \/ \E d \in Directions :
                 \/ w \in StartController(d = "input", ToSet(setup_data[d]))
                 \/ \E data \in ToSet(setup_data[d]) :
                       \/ w \in SetUpDMAIOStream(data, d = "input")
                       \/ w \in SetUpDMACrossbarsForStream(data, d = "input")
<1>1. CASE w \in {<<8, Whole(kResetDuration)>>} \cup SetNumberOfInputStreamsWithMultipleChannels
  BY <1>1, SMT DEF SetNumberOfInputStreamsWithMultipleChannels
<1>2. CASE ~(w \in {<<8, Whole(kResetDuration)>>}
                  \cup SetNumberOfInputStreamsWithMultipleChannels)
  BY <1>2, SMT DEF Writes, Directions
<1>3. QED
  BY <1>1, <1>2, SMT

(* Which streams are set up in a run, and which of them are merged.        *)
Inputs == ToSet(setup_data.input)
Outputs == ToSet(setup_data.output)
Sorted == {data \in Inputs : IsMultichannel(data.stream)}

(* All that is written for a run is in the tables.                         *)
LEMMA WritesInRegisters ==
    ASSUME \A data \in Inputs : DOMAIN data.record_chunk_ids \subseteq Chunk,
           NEW count, \A data \in Sorted : DOMAIN data.channels \subseteq 0..(count - 1)
    PROVE  Writes \subseteq Registers(Inputs, Outputs, Sorted, count, Whole(multichannel_streams))
<1> DEFINE number == Whole(multichannel_streams)
           reset == Whole(kResetDuration)
           registers == Registers(Inputs, Outputs, Sorted, count, number)
<1>1. registers =
          ({<<0, StartWord(Inputs)>>}
           \cup ({<<4, number>>} \cup ({<<8, reset>>} \cup ControllerTables(Inputs, 64))))
          \cup ((ControllerTables(Outputs, 65536)
                 \cup ({<<65728, StartWord(Outputs)>>}
                       \cup (RecordTable(Inputs) \cup ChunkIds(Inputs))))
                \cup (TwoSelections(Inputs, 262144)
                      \cup (TwoSelections(Outputs, 393216)
                            \cup (SorterTables(Sorted) \cup SorterChannels(Sorted, count)))))
  BY SMT DEF Registers, EarlyRegisters, MiddleRegisters, LateRegisters
<1> HIDE DEF registers, number, reset
<1>2. ASSUME NEW w \in Writes
      PROVE  w \in registers
  <2>1. \/ w = <<8, reset>>
        \/ w = <<4, number>>
        \/ \E d \in Directions :
              \/ w \in StartController(d = "input", ToSet(setup_data[d]))
              \/ \E data \in ToSet(setup_data[d]) :
                    \/ w \in SetUpDMAIOStream(data, d = "input")
                    \/ w \in SetUpDMACrossbarsForStream(data, d = "input")
    BY WritesKnown, SMT DEF number, reset
  <2>2. CASE w = <<8, reset>> \/ w = <<4, number>>
    BY <1>1, <2>2, SMT
  <2>3. ASSUME NEW d \in Directions, w \in StartController(d = "input", ToSet(setup_data[d]))
        PROVE  w \in registers
    <3>1. w = <<IF d = "input" THEN 0 ELSE 65728, StartWord(ToSet(setup_data[d]))>>
      BY <2>3, StartWrites, SMT
    <3>2. w = <<0, StartWord(Inputs)>> \/ w = <<65728, StartWord(Outputs)>>
      BY <3>1, SMT DEF Directions, Inputs, Outputs
    <3>3. QED
      BY <1>1, <3>2, SMT
  <2>4. ASSUME NEW d \in Directions, NEW data \in ToSet(setup_data[d]),
               w \in SetUpDMACrossbarsForStream(data, d = "input")
        PROVE  w \in registers
    <3> DEFINE base == IF d = "input" THEN 262144 ELSE 393216
    <3>0. base = IF d = "input" THEN 262144 ELSE 393216
      OBVIOUS
    <3> HIDE DEF base
    <3>2. w \in TwoSelections(ToSet(setup_data[d]), base)
      BY <2>4, <3>0, CrossbarWrites, SMT
    <3>3. w \in TwoSelections(Inputs, 262144) \/ w \in TwoSelections(Outputs, 393216)
      BY <3>2, SMT DEF Directions, Inputs, Outputs, base
    <3>4. QED
      BY <1>1, <3>3, SMT
  <2>5. ASSUME NEW d \in Directions, NEW data \in ToSet(setup_data[d]),
               w \in SetUpDMAIOStream(data, d = "input")
        PROVE  w \in registers
    <3> DEFINE base == IF d = "input" THEN 64 ELSE 65536
               id == data.stream.stream_id
    <3>1. \/ w = OfStream(base, id, Word(ControllerParams(data)))
          \/ w = OfStream(base + 64, id, Whole(data.channels[0].stream_address))
          \/ w = OfStream(base + 128, id, Whole(data.channels[0].record_count))
          \/ /\ d = "input"
             /\ \/ w \in SetRecordSize(data)
                \/ w \in SetRecordChunkIDs(data)
                \/ IsMultichannel(data.stream) /\ w \in SetMultiChannelStream(data)
      BY <2>5, StreamWrites, SMT
    <3>2. CASE \/ w = OfStream(base, id, Word(ControllerParams(data)))
               \/ w = OfStream(base + 64, id, Whole(data.channels[0].stream_address))
               \/ w = OfStream(base + 128, id, Whole(data.channels[0].record_count))
      <4> HIDE DEF base
      <4>1. w \in ControllerTables(ToSet(setup_data[d]), base)
        BY <3>2, InControllerTables, SMT
      <4>2. w \in ControllerTables(Inputs, 64) \/ w \in ControllerTables(Outputs, 65536)
        BY <4>1, SMT DEF Directions, Inputs, Outputs, base
      <4>3. QED
        BY <1>1, <4>2, SMT
    <3>3. CASE d = "input" /\ (w \in SetRecordSize(data) \/ w \in SetRecordChunkIDs(data))
      <4>1. data \in Inputs
        BY <3>3, SMT DEF Inputs
      <4>2. w \in RecordTable(Inputs) \/ w \in ChunkIds(Inputs)
        BY <3>3, <4>1, InRecordTables, SMT
      <4>3. QED
        BY <1>1, <4>2, SMT
    <3>4. CASE /\ d = "input" /\ IsMultichannel(data.stream)
               /\ w \in SetMultiChannelStream(data)
      <4>1. data \in Sorted
        BY <3>4, SMT DEF Inputs, Sorted
      <4>2. w \in SorterTables(Sorted) \/ w \in SorterChannels(Sorted, count)
        BY <3>4, <4>1, InSorterTables, SMT
      <4>3. QED
        BY <1>1, <4>2, SMT
    <3>5. QED
      BY <3>1, <3>2, <3>3, <3>4, SMT
  <2>6. QED
    BY <2>1, <2>2, <2>3, <2>4, <2>5, SMT
<1>3. QED
  BY <1>2, SMT DEF registers, number

(* Writes of one word to each register, and to none but registers, are     *)
(* separate.                                                               *)
LEMMA SeparateIfOneWordEach ==
    ASSUME OneWordEach(Writes), NEW last \in Nat, LiesIn(Writes, 0, last),
           last <= RegisterSpace - 4
    PROVE  RegistersSeparate
<1> DEFINE writes == Writes
           addresses == {write[1] : write \in writes}
           f == [write \in writes |-> write[1]]
<1> HIDE DEF writes
<1>1. IsFiniteSet(addresses)
  <2>1. IsFiniteSet(0..last)
    <3>1. 0 \in Int /\ last \in Int
      OBVIOUS
    <3>2. QED
      BY <3>1, FS_Interval, Zenon
  <2>2. addresses \subseteq 0..last
    BY SMT DEF writes, LiesIn
  <2>3. QED
    BY <2>1, <2>2, FS_Subset, Zenon
<1>2. f \in Injection(writes, addresses)
  <2>1. f \in [writes -> addresses]
    BY SMT
  <2>2. \A v, w \in writes : f[v] = f[w] => v = w
    BY SMT DEF OneWordEach, writes
  <2>3. QED
    BY <2>1, <2>2, SMT DEF Injection, IsInjective
<1>3. f \in Surjection(writes, addresses)
  BY SMT DEF Surjection
<1> HIDE DEF f, addresses
<1>4. Cardinality(addresses) = Cardinality(writes)
  BY <1>1, <1>2, <1>3, FS_Injection, Zenon
<1>5. \A address \in addresses : address \in 0..(RegisterSpace - 4) /\ address % 4 = 0
  <2>1. RegisterSpace = 1048576
    BY SMT DEF RegisterSpace
  <2>2. ASSUME NEW address \in addresses
        PROVE  address \in 0..(RegisterSpace - 4) /\ address % 4 = 0
    <3>1. PICK w \in Writes : address = w[1]
      BY SMT DEF addresses, writes
    <3>2. address \in 0..last /\ address % 4 = 0
      BY <3>1, SMT DEF LiesIn
    <3> DEFINE top == RegisterSpace - 4
    <3>3. top \in Int /\ last <= top
      BY <2>1, SMT
    <3> HIDE DEF top
    <3>4. address \in 0..top
      BY <3>2, <3>3, SMT
    <3>5. QED
      BY <3>2, <3>4, SMT DEF top
  <2>3. QED
    BY <2>2, SMT
<1>6. QED
  BY <1>4, <1>5, Zenon DEF RegistersSeparate, addresses, writes

-----------------------------------------------------------------------------
(* At the end of a setup no register has two words ...                     *)
LEMMA RegistersSeparateAtEnd ==
    ASSUME SorterFits, kMaxRecordsPerDDRBurst = kDatapathLength, kDatapathLength <= 64,
           NumbersApart, NEW count, ChannelsInTable(count),
           IInv, RunChecked, SortersInv, SortersNumbered, direction = "done"
    PROVE  RegistersSeparate
<1> DEFINE number == Whole(multichannel_streams)
<1>1. /\ "input" \in Directions /\ setup_data["input"] = setup_data.input
      /\ "output" \in Directions /\ setup_data["output"] = setup_data.output
  BY SMT DEF Directions
<1>2. Numbered(Inputs) /\ Numbered(Outputs)
  BY <1>1, DataNumbered, SMT DEF Inputs, Outputs
<1>3. ASSUME NEW data \in Inputs \cup Outputs
      PROVE  DOMAIN data.crossbar \subseteq Chunk
  <2>1. PICK d \in Directions : data \in ToSet(setup_data[d])
    BY <1>1, SMT DEF Inputs, Outputs
  <2>2. PICK k \in DOMAIN setup_data[d] : data = setup_data[d][k]
    BY <2>1, SMT DEF ToSet
  <2>3. IsCrossbar(data.crossbar)
    BY <2>2, CrossbarOfData, SMT
  <2>4. QED
    BY <2>3, SMT DEF IsCrossbar
<1>4. ASSUME NEW data \in Inputs
      PROVE  /\ \E k \in DOMAIN streams.input : data.stream = streams.input[k]
             /\ DOMAIN data.record_chunk_ids \subseteq Chunk
  <2>1. PICK k \in DOMAIN setup_data.input : data = setup_data.input[k]
    BY SMT DEF Inputs, ToSet
  <2>2. IsDataOf(data, "input", k)
    BY <1>1, <2>1, DataKnown, SMT
  <2>3. k \in DOMAIN streams.input
        /\ data = SetupData(streams.input[k], TRUE, Len(streams.input), k - 1)
    BY <2>2 DEF IsDataOf
  <2>4. data.stream = streams.input[k] /\ DOMAIN data.record_chunk_ids = Chunk
    BY <2>3, SMT DEF SetupData
  <2>5. \E l \in DOMAIN streams.input : data.stream = streams.input[l]
    BY <2>3, <2>4, Zenon
  <2>6. QED
    BY <2>4, <2>5, Zenon
<1>5. \A data \in Inputs : DOMAIN data.record_chunk_ids \subseteq Chunk
  BY <1>4, SMT
<1>6. Sorted \in SUBSET Inputs
  BY SMT DEF Sorted
<1>7. Numbered(Sorted)
  BY <1>2, <1>6, PartNumbered, SMT
<1>8. ASSUME NEW data \in Sorted
      PROVE  data.stream.stream_id = 0
  <2>1. data \in Inputs /\ IsMultichannel(data.stream)
    BY SMT DEF Sorted
  <2>2. PICK k \in DOMAIN streams.input : data.stream = streams.input[k]
    BY <1>4, <2>1, SMT
  <2>3. k \in MultichannelInputs
    BY <2>1, <2>2, SMT DEF MultichannelInputs
  <2>4. QED
    BY <2>2, <2>3, OnlyStreamZero, SMT
<1>9. \A data \in Sorted : DOMAIN data.channels \subseteq 0..(count - 1)
  BY ChannelsKnown, SMT DEF Sorted, Inputs
<1>10. count \in Nat /\ count <= 16384
  BY SMT DEF ChannelsInTable
<1> DEFINE registers == Registers(Inputs, Outputs, Sorted, count, number)
<1>11. Writes \subseteq registers
  BY <1>5, <1>9, WritesInRegisters, SMT
<1>12. OneWordEach(registers) /\ LiesIn(registers, 0, 720892)
  <2>1. \A data \in Inputs \cup Outputs : DOMAIN data.crossbar \subseteq Chunk
    BY <1>3, SMT
  <2>2. \A data \in Sorted : data.stream.stream_id = 0
    BY <1>8, SMT
  <2> HIDE DEF number
  <2>3. QED
    BY <1>2, <1>7, <1>10, <2>1, <2>2, RegistersKnown, SMT
<1> HIDE DEF registers
<1> DEFINE last == 720892
<1>13. last \in Nat /\ last <= RegisterSpace - 4
  <2>1. RegisterSpace = 1048576
    BY SMT DEF RegisterSpace
  <2>2. QED
    BY <2>1, SMT
<1>14. OneWordEach(Writes) /\ LiesIn(Writes, 0, last)
  <2>1. Writes \in SUBSET registers /\ LiesIn(registers, 0, last)
    BY <1>11, <1>12, SMT
  <2> HIDE DEF last
  <2>2. QED
    BY <1>12, <2>1, PartOfTable, SMT
<1> HIDE DEF last
<1>15. QED
  BY <1>13, <1>14, SeparateIfOneWordEach, SMT

(* ... and the fields of each word are those that were put into it.        *)
LEMMA FieldsFitAtEnd ==
    ASSUME SorterFits, kMaxRecordsPerDDRBurst = kDatapathLength,
           kDatapathWidth = 16, kDatapathLength <= 64, IInv
    PROVE  FieldsFit
<1>1. ASSUME NEW d \in {"input", "output"}, NEW data \in ToSet(setup_data[d])
      PROVE  /\ data.ddr_burst_length - 1 \in Byte =>
                    Fields(Word(ControllerParams(data))) = ControllerParams(data)
             /\ \A chunk \in DOMAIN data.crossbar, offset \in Offset,
                   selection \in {"chunk_selection", "position_selection"} :
                   LET four == FourSelections(data, chunk, selection, offset)
                   IN  Fields(Word(four)) = four
  <2>1. d \in Directions
    BY SMT DEF Directions
  <2>2. PICK k \in DOMAIN setup_data[d] : data = setup_data[d][k]
    BY SMT DEF ToSet
  <2>3. data.ddr_burst_length - 1 \in Byte =>
            Fields(Word(ControllerParams(data))) = ControllerParams(data)
    BY <2>1, <2>2, ParametersFit, SMT
  <2>4. IsCrossbar(data.crossbar)
    BY <2>1, <2>2, CrossbarOfData, SMT
  <2>5. \A chunk \in DOMAIN data.crossbar, offset \in Offset,
           selection \in {"chunk_selection", "position_selection"} :
           LET four == FourSelections(data, chunk, selection, offset)
           IN  Fields(Word(four)) = four
    BY <2>4, SelectionsFit
  <2>6. QED
    BY <2>3, <2>5, Zenon
<1>2. QED
  BY <1>1, Zenon DEF FieldsFit

(* A table of the engine has registers for this many channels of a stream. *)
ChannelsFit ==
    \A set \in StreamSets : \A stream \in ToSet(set.input) :
        IsMultichannel(stream) => stream.max_channel_count <= 2^14

(* Whatever the streams, if each of a direction has a number of its own,   *)
(* the words that SetUpDMAIOStream and SetUpDMACrossbarsForStream write    *)
(* for a run lie in registers of the engine, no two of them in one, and no *)
(* field of a word runs into another (the tables of modules/dma.cpp).      *)
THEOREM RegistersHoldSetupHolds ==
    ASSUME SorterFits, kMaxRecordsPerDDRBurst = kDatapathLength,
           kDatapathWidth = 16, kDatapathLength <= 64, NumbersApart, ChannelsFit
    PROVE  Spec => []RegistersHoldSetup
<1>1. PICK count \in {2^14} : ChannelsInTable(count)
  <2>1. 2^14 \in Nat /\ 2^14 <= 16384
    BY SMT
  <2> DEFINE count == 2^14
  <2>2. count \in Nat /\ count <= 16384
    BY <2>1
  <2>3. \A set \in StreamSets : \A stream \in ToSet(set.input) :
            IsMultichannel(stream) => stream.max_channel_count <= count
    BY SMT DEF ChannelsFit
  <2> HIDE DEF count
  <2>4. ChannelsInTable(count)
    BY <2>2, <2>3, SMT DEF ChannelsInTable
  <2>5. QED
    BY <2>4, SMT DEF count
<1>2. IInv /\ RunChecked /\ SortersInv /\ SortersNumbered => RegistersHoldSetup
  <2> SUFFICES ASSUME IInv, RunChecked, SortersInv, SortersNumbered, direction = "done"
               PROVE  RegistersSeparate /\ FieldsFit
    BY SMT DEF RegistersHoldSetup
  <2>1. RegistersSeparate
    BY <1>1, RegistersSeparateAtEnd, SMT
  <2>2. FieldsFit
    BY FieldsFitAtEnd, SMT
  <2>3. QED
    BY <2>1, <2>2
<1>3. Spec => []SortersInv
  <2>1. IInv /\ SortersInv /\ [Next]_vars => SortersInv'
    BY NextSorters
  <2>2. QED
    BY <2>1, InitSorters, InvariantHolds, PTL DEF Spec
<1>4. QED
  BY <1>2, <1>3, InvariantHolds, RunCheckedHolds, SortersNumberedHolds, PTL
=============================================================================
