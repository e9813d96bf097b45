----------------------------- MODULE ModuleSetup -----------------------------
(***************************************************************************)
(* What FPGAManager::SetupQueryAcceleration writes to the registers of the *)
(* modules, run by run: the setup classes (FilterSetup, JoinSetup, ...)    *)
(* and the modules' drivers (Filter, Join, ...), and the sums that         *)
(* ReadResultsFromRegisters reads back.                                    *)
(*                                                                         *)
(* A record lies on the interface in chunks of kDatapathWidth words, its   *)
(* first word at the highest position of the first chunk.                  *)
(***************************************************************************)
EXTENDS StreamParameters, SequencesExt

CONSTANTS
    Sessions,       \* sequences of runs on one board; see IsSession
    Records,        \* records to filter: the word at each place
    Locations,      \* the locations of modules on the board
    ChunkCount,     \* chunks of the longest record a filter can be set up for
    LaneCount,      \* comparisons a filter has for each word
    ClauseCount     \* clauses of a filter

VARIABLES
    runs,               \* the runs to come, the current one first
    loaded_bitstream,
    registers,          \* what has been written to the registers at each location
    configured,         \* how many nodes of the run have been set up
    read_back_modules,  \* the sum modules of the run, and their columns to read
    summed,             \* runs that are in the sums of the module at a location
    printed,            \* the sums of the run that were printed
    step, error

vars == <<runs, loaded_bitstream, registers, configured, read_back_modules,
          summed, printed, step, error>>

NoError == "none"
OutOfRange == "out of range"        \* what .at() throws
NullPointer == "null pointer"

(* A node: its operation and location, the numbers and record sizes of its *)
(* inputs, the number and chunks of its output, and operation_parameters.  *)
(* A filter's parameters come from its columns, which only the properties  *)
(* look at.                                                                *)
IsNode(node) ==
    /\ node.location \in Locations
    /\ \A stream \in ToSet(node.inputs) : stream.id \in Nat /\ stream.size > 0
    /\ node.output.id \in Nat /\ node.output.chunks > 0

(* The nodes of a run have modules of their own, and a bitstream has the   *)
(* same module at a location in every run.                                 *)
IsSession(session) ==
    \A r, q \in DOMAIN session :
        \A i \in DOMAIN session[r].nodes, j \in DOMAIN session[q].nodes :
            LET node == session[r].nodes[i]
                other == session[q].nodes[j]
            IN  /\ IsNode(node)
                /\ r = q /\ i # j => node.location # other.location
                /\ session[r].bitstream = session[q].bitstream /\ node.location = other.location
                      => node.operation = other.operation

TopPosition == kDatapathWidth - 1
Slots == kDatapathWidth \div 2      \* values of 64 bits in a chunk
Positions == 0..TopPosition
Chunks == 0..(ChunkCount - 1)
Places == [chunk : Chunks, position : Positions]
Lanes == 0..(LaneCount - 1)
Clauses == 0..(ClauseCount - 1)

ASSUME ModulesAssumption ==
    /\ kDatapathWidth % 2 = 0 /\ kDatapathWidth <= 32
    /\ ChunkCount \in 1..32 /\ LaneCount \in 1..4 /\ ClauseCount \in 1..32
    /\ \A session \in Sessions : IsSession(session)
    /\ \A record \in Records : DOMAIN record = Places

(* A bitset or a packed word as the number of its bits.                    *)
Packed(bits) == MapThenSumSet(LAMBDA bit : 2^bit, bits)
HasBit(value, bit) == (value \div 2^bit) % 2 = 1

(* A sequence of writes <<address, value>>: the last one to an address     *)
(* stays.                                                                  *)
Written(register_values, writes) ==
    FoldLeft(LAMBDA values, write : (write[1] :> write[2]) @@ values, register_values, writes)

(***************************************************************************)
(* FilterSetup.  operation_parameters has for each column a vector of its  *)
(* first chunk and position and the number of its comparisons, and for     *)
(* each of these four vectors: function, reference values, literal types,  *)
(* clause ids.                                                             *)
(***************************************************************************)
kLiteralDontCare == 0
kLiteralPositive == 1
kLiteralNegative == 2
kEqual32Bit == 2

ComparisonAt(parameters, v) ==
    LET clauses == parameters[v + 3]
    IN  [compare_function |-> parameters[v][1],
         reference_values |-> parameters[v + 1],
         dnf_clause_ids |-> clauses,
         literal_types |-> IF parameters[v + 2] # <<>> THEN parameters[v + 2]
                           ELSE [k \in DOMAIN clauses |-> kLiteralPositive]]

ComparisonError(parameters, v) ==
    IF v + 3 > Len(parameters) \/ parameters[v] = <<>> THEN OutOfRange
    ELSE IF parameters[v + 2] = <<>> /\ parameters[v + 3] = <<>> THEN "No DNF IDs given!"
    ELSE IF parameters[v + 2] # <<>> /\ Len(parameters[v + 2]) # Len(parameters[v + 3])
         THEN "Incorrect comparison data given!"
    ELSE NoError

FilterError(parameters) ==
    LET Bad(v) == {j \in 0..(parameters[v][3] - 1) :
                       ComparisonError(parameters, v + 1 + 4 * j) # NoError}
        from[v \in 1..(Len(parameters) + 1)] ==
            IF v > Len(parameters) THEN NoError
            ELSE IF Len(parameters[v]) < 3 THEN OutOfRange
            ELSE IF Bad(v) # {} THEN ComparisonError(parameters, v + 1 + 4 * Min(Bad(v)))
            ELSE from[v + 1 + 4 * parameters[v][3]]
    IN  IF parameters = <<>> THEN "No parameters given!"
        ELSE IF parameters[1] = <<>> THEN "No parameters given!"
        ELSE from[1]

(* SetAllComparisons: the columns that a filter's parameters describe.     *)
ColumnsOf(parameters) ==
    LET Column(v) ==
            [chunk_id |-> parameters[v][1], data_position |-> parameters[v][2],
             comparisons |-> [j \in 1..parameters[v][3] |->
                                 ComparisonAt(parameters, v + 1 + 4 * (j - 1))]]
        from[v \in 1..(Len(parameters) + 1)] ==
            IF v > Len(parameters) THEN <<>>
            ELSE <<Column(v)>> \o from[v + 1 + 4 * parameters[v][3]]
    IN  from[1]

(* Slip: a column ends with its chunk and starts over at its top.   *)
PlaceInChunk(column, i) ==
    LET distance == TopPosition - column.data_position + i
    IN  [chunk |-> column.chunk_id, position |-> TopPosition - (distance % kDatapathWidth)]

(* Where word i of a column is (i from 0): further words are in lower      *)
(* positions, and then in the next chunk.                                  *)
Place(column, i) ==
    LET distance == TopPosition - column.data_position + i
    IN  [chunk |-> column.chunk_id + distance \div kDatapathWidth,
         position |-> TopPosition - (distance % kDatapathWidth)]

(***************************************************************************)
(* Filter: the registers of one word's comparisons and literals.           *)
(***************************************************************************)
(* Slip: positions are counted in halves of a register.                    *)
CompareTypesRegisterOfHalves(place) == 2^15 + place.position * 2 + place.chunk * 2^7

CompareTypesRegister(place) == 2^15 + place.position * 4 + place.chunk * 2^7

ReferenceRegister(place, lane) == CompareTypesRegister(place) + (lane + 1) * 2^12
LiteralsRegister(place, lane, is_positive) ==
    2^16 + place.position * 4 + (IF is_positive THEN 2^7 ELSE 0)
         + place.chunk * 2^8 + lane * 2^13

CompareTypes(column) ==
    LET FunctionOf(lane) == IF lane < Len(column.comparisons)
                            THEN column.comparisons[lane + 1].compare_function
                            ELSE kEqual32Bit
    IN  MapThenSumSet(LAMBDA lane : FunctionOf(lane) * 16^lane, Lanes)

(* SetComparisons, for one column: reference values, then the compare types*)
(* of the words of the first comparison.                                   *)
ComparisonWrites(column) ==
    LET ReferenceWrites(j) ==
            [w \in 1..Len(column.comparisons[j].reference_values) |->
                <<ReferenceRegister(Place(column, w - 1), j - 1),
                  column.comparisons[j].reference_values[w]>>]
    IN  FlattenSeq([j \in DOMAIN column.comparisons |-> ReferenceWrites(j)])
        \o [w \in 1..Len(column.comparisons[1].reference_values) |->
               <<CompareTypesRegister(Place(column, w - 1)), CompareTypes(column)>>]

(* dnf_states_: the literal of each clause at each word and lane; a clause *)
(* with a literal is used, and its other literals are "don't care".        *)
DNFStates(columns) ==
    LET Literals(column, j) ==
            LET comparison == column.comparisons[j]
            IN  FlattenSeq([w \in 1..Len(comparison.reference_values) |->
                    [k \in DOMAIN comparison.dnf_clause_ids |->
                        <<[clause |-> comparison.dnf_clause_ids[k], lane |-> j - 1,
                           place |-> Place(column, w - 1)],
                          comparison.literal_types[k]>>]])
    IN  Written(<<>>, FlattenSeq([c \in DOMAIN columns |->
            FlattenSeq([j \in DOMAIN columns[c].comparisons |-> Literals(columns[c], j)])]))

(* FilterWriteDNFClauseLiteralsToModule: which clauses may go on when the  *)
(* comparison holds (positive), and when it does not.                      *)
PackedLiterals(dnf_states, place, lane, literal) ==
    LET used == {at.clause : at \in DOMAIN dnf_states}
        LiteralAt(clause) == [clause |-> clause, lane |-> lane, place |-> place]
    IN  Packed({clause \in used :
                   LiteralAt(clause) \in DOMAIN dnf_states
                       => dnf_states[LiteralAt(clause)] \in {kLiteralDontCare, literal}})

LiteralValues(dnf_states, places) ==
    LET Write(at) == LiteralsRegister(at[1], at[2], at[3]) :>
                         PackedLiterals(dnf_states, at[1], at[2],
                             IF at[3] THEN kLiteralPositive ELSE kLiteralNegative)
    IN  FoldSet(LAMBDA at, values : Write(at) @@ values, <<>>, places \X Lanes \X BOOLEAN)

(* Slip: only what is set is written.                                      *)
WriteDNFClauseLiteralsSet(register_values, dnf_states) ==
    LiteralValues(dnf_states, {at.place : at \in DOMAIN dnf_states}) @@ register_values

WriteDNFClauseLiterals(register_values, dnf_states) ==
    LiteralValues(dnf_states, Places) @@ register_values

(* Stream numbers, the mode of a single filter with one output, the        *)
(* comparisons, and all the literals.                                      *)
FilterRegisters(node, register_values) ==
    LET columns == ColumnsOf(node.parameters)
        id == node.output.id
        set_up == Written(register_values,
            <<<<0, node.inputs[1].id + id * 2^8 + id * 2^16>>, <<4, 16 + 2 + 1>>>>
            \o FlattenSeq([c \in DOMAIN columns |-> ComparisonWrites(columns[c])]))
    IN  WriteDNFClauseLiterals(set_up, DNFStates(columns))

(***************************************************************************)
(* JoinSetup and Join.  The time multiplexer takes each word of the output *)
(* from one of the inputs, at the same position.                           *)
(***************************************************************************)
Log2OfZero == (-(2^30)) * 2     \* log2(0) as an int, on the processors of the boards

FloorLog2(value) == IF value = 0 THEN Log2OfZero ELSE Max({i \in 0..20 : 2^i <= value})

ChunkCountRegister(chunk_count) == FloorLog2(2 * (chunk_count - 1))

MultiplexerRegister(chunk, position) == 2^13 + chunk * 2^7 + position * 4

(* Slip: the second record from the word after the shift on.               *)
JoinedElementsAfterShift(first_size, second_size, shift_size) ==
    [k \in 1..first_size |-> [second |-> FALSE, element |-> k - 1]]
    \o [k \in 1..Max({0, second_size - shift_size - 1}) |->
           [second |-> TRUE, element |-> shift_size + k]]

(* The words of the output, in order: which input, and which of its words. *)
JoinedElements(first_size, second_size, shift_size) ==
    [k \in 1..first_size |-> [second |-> FALSE, element |-> k - 1]]
    \o [k \in 1..Max({0, second_size - shift_size}) |->
           [second |-> TRUE, element |-> shift_size + k - 1]]

SetupTimeMultiplexer(elements) ==
    [k \in DOMAIN elements |->
        <<MultiplexerRegister((k - 1) \div kDatapathWidth, TopPosition - ((k - 1) % kDatapathWidth)),
          (IF elements[k].second THEN 2^16 ELSE 0)
              + elements[k].element \div kDatapathWidth>>]

JoinWrites(node) ==
    LET first == node.inputs[1]
        second == node.inputs[2]
        elements == JoinedElements(first.size, second.size, node.parameters[1][1])
    IN  <<<<16, 1>>,
          <<4, (node.output.chunks - 1) * 2^24 + second.id * 2^16 + first.id * 2^8
               + node.output.id>>,
          <<8, ChunkCountRegister(CalculateChunksPerRecord(first.size))>>,
          <<12, ChunkCountRegister(CalculateChunksPerRecord(second.size))>>>>
        \o SetupTimeMultiplexer(elements)
        \o <<<<0, 1>>>>

(***************************************************************************)
(* AdditionSetup, MultiplicationSetup and AggregationSumSetup: the values  *)
(* of 64 bits of a chunk are numbered from the other end than its words.   *)
(***************************************************************************)
Reversed(value) == Slots - 1 - value

(* Slip: the constants are taken in the order of the registers.            *)
LiteralWritesUnreversed(constants) ==
    FlattenSeq([s \in 1..Slots |-> <<<<64 + 8 * (s - 1), constants[2 * s]>>,
                                     <<64 + 8 * (s - 1) + 4, constants[2 * s - 1]>>>>])

(* ReverseLiteralValues and SetLiteralValues: the low half of a value      *)
(* follows its high half in the parameters and precedes it in registers.   *)
LiteralWrites(constants) ==
    FlattenSeq([s \in 1..Slots |->
        LET value == Reversed(s - 1)
        IN  <<<<64 + 8 * (s - 1), constants[2 * value + 2]>>,
              <<64 + 8 * (s - 1) + 4, constants[2 * value + 1]>>>>])

AdditionWrites(node) ==
    <<<<0, node.parameters[1][1] * 2^8 + node.inputs[1].id>>,
      <<4, Packed({s \in 0..(Slots - 1) : node.parameters[2][Reversed(s) + 1] # 0})>>>>
    \o LiteralWrites(node.parameters[3])

ResultsRegister(chunk) == 128 + 4 * chunk

MultiplicationWrites(node) ==
    <<<<0, Packed({node.inputs[1].id})>>>>
    \o [v \in DOMAIN node.parameters |->
           <<ResultsRegister(node.parameters[v][1]),
             Packed({s \in 0..(Slots - 1) : node.parameters[v][Slots - s + 1] # 0})>>]

SumWrites(node) ==
    <<<<64, 1>>, <<4, node.parameters[1][1] * 2^8 + node.inputs[1].id>>, <<0, 0>>>>

(***************************************************************************)
(* LinearSortSetup and MergeSortSetup.                                     *)
(***************************************************************************)
StreamParams(stream) ==
    <<4, (CalculateChunksPerRecord(stream.size) - 1) * 2^8 + stream.id>>

LinearSortWrites(node) == <<StreamParams(node.inputs[1]), <<0, 1>>>>

SortBuffer(stream) == CalculateSortBufferSize(CalculateChunksPerRecord(stream.size))
RecordsPerFetch(stream) == CalculateRecordCountPerFetch(SortBuffer(stream), stream.size)

MergeSortWrites(node) ==
    LET stream == node.inputs[1]
        buffer == SortBuffer(stream)
        per_fetch == RecordsPerFetch(stream)
    IN  <<StreamParams(stream), <<8, buffer>>, <<12, per_fetch>>,
          <<16, Quotient(buffer, per_fetch)>>,
          <<20, buffer - per_fetch * Quotient(buffer, per_fetch)>>, <<0, 0>>>>

-----------------------------------------------------------------------------
Init ==
    /\ runs \in Sessions
    /\ loaded_bitstream = "none"
    /\ registers = [location \in Locations |-> <<>>]
    /\ configured = 0
    /\ read_back_modules = <<>>
    /\ summed = [location \in Locations |-> 0]
    /\ printed = <<>>
    /\ step = "load"
    /\ error = NoError

Fail(what) ==
    /\ error' = what
    /\ step' = "failed"

Nodes == Head(runs).nodes

(***************************************************************************)
(* LoadBitstreamIfNew, and the start of SetupQueryAcceleration.  A new     *)
(* bitstream has registers of which nothing is known.                      *)
(***************************************************************************)
LoadBitstream ==
    /\ step = "load" /\ runs # <<>>
    /\ loaded_bitstream' = Head(runs).bitstream
    /\ IF loaded_bitstream' = loaded_bitstream THEN UNCHANGED <<registers, summed>>
       ELSE /\ registers' = [location \in Locations |-> <<>>]
            /\ summed' = [location \in Locations |-> 0]
    /\ read_back_modules' = <<>>
    /\ printed' = <<>>
    /\ step' = "setup"
    /\ UNCHANGED <<runs, configured, error>>

(* The node to set up.                                                     *)
next_node == Nodes[configured + 1]

IsNext(operation) ==
    /\ step = "setup" /\ configured < Len(Nodes)
    /\ next_node.operation = operation

Configure(register_values) ==
    /\ registers' = [registers EXCEPT ![next_node.location] = register_values]
    /\ configured' = configured + 1
    /\ UNCHANGED <<runs, loaded_bitstream, printed, step, error>>

Write(writes) == Configure(Written(registers[next_node.location], writes))

(* What a setup throws.  A vector that ends too early is an exception of   *)
(* its own; what was written before it stays, and the program ends.        *)
HasParameters(least_lengths) ==
    /\ Len(next_node.parameters) >= Len(least_lengths)
    /\ \A v \in DOMAIN least_lengths : Len(next_node.parameters[v]) >= least_lengths[v]

SetupError ==
    CASE next_node.operation = "kFilter" -> FilterError(next_node.parameters)
      [] next_node.operation = "kJoin" -> IF HasParameters(<<1>>) THEN NoError ELSE OutOfRange
      [] next_node.operation = "kMergeSort" ->
            IF next_node.inputs[1].id # 0 THEN "The module doesn't support running other streams!"
            ELSE IF RecordsPerFetch(next_node.inputs[1]) = 0 THEN "Records are too big for sorting!"
            ELSE NoError
      [] next_node.operation = "kAddition" ->
            IF HasParameters(<<1, Slots, 2 * Slots>>) THEN NoError ELSE OutOfRange
      [] next_node.operation = "kMultiplication" ->
            IF HasParameters([v \in DOMAIN next_node.parameters |-> Slots + 1])
            THEN NoError ELSE OutOfRange
      [] next_node.operation = "kAggregationSum" ->
            IF HasParameters(<<1, 0>>) THEN NoError ELSE OutOfRange
      [] OTHER -> NoError

FailToSetup ==
    /\ step = "setup" /\ configured < Len(Nodes)
    /\ SetupError # NoError
    /\ Fail(SetupError)
    /\ UNCHANGED <<runs, loaded_bitstream, registers, configured, read_back_modules,
                   summed, printed>>

SetupFilterModule ==
    /\ IsNext("kFilter") /\ SetupError = NoError
    /\ Configure(FilterRegisters(next_node, registers[next_node.location]))
    /\ UNCHANGED <<read_back_modules, summed>>

SetupJoinModule ==
    /\ IsNext("kJoin") /\ SetupError = NoError
    /\ Write(JoinWrites(next_node))
    /\ UNCHANGED <<read_back_modules, summed>>

SetupMergeSortModule ==
    /\ IsNext("kMergeSort") /\ SetupError = NoError
    /\ Write(MergeSortWrites(next_node))
    /\ UNCHANGED <<read_back_modules, summed>>

SetupLinearSortModule ==
    /\ IsNext("kLinearSort")
    /\ Write(LinearSortWrites(next_node))
    /\ UNCHANGED <<read_back_modules, summed>>

SetupAdditionModule ==
    /\ IsNext("kAddition") /\ SetupError = NoError
    /\ Write(AdditionWrites(next_node))
    /\ UNCHANGED <<read_back_modules, summed>>

SetupMultiplicationModule ==
    /\ IsNext("kMultiplication") /\ SetupError = NoError
    /\ Write(MultiplicationWrites(next_node))
    /\ UNCHANGED <<read_back_modules, summed>>

(* The reset empties the sums.                                             *)
SetupAggregationSum ==
    /\ IsNext("kAggregationSum") /\ SetupError = NoError
    /\ Write(SumWrites(next_node))
    /\ summed' = [summed EXCEPT ![next_node.location] = 0]
    /\ read_back_modules' = Append(read_back_modules,
           [location |-> next_node.location, columns |-> next_node.parameters[2]])

(* The board: the sum modules that are set up add the run's records.       *)
RunBoard ==
    /\ step = "setup" /\ configured = Len(Nodes)
    /\ summed' = [location \in Locations |->
           IF \E node \in ToSet(Nodes) : /\ node.operation = "kAggregationSum"
                                         /\ node.location = location
           THEN summed[location] + 1 ELSE summed[location]]
    /\ step' = "read"
    /\ UNCHANGED <<runs, loaded_bitstream, registers, configured, read_back_modules,
                   printed, error>>

(***************************************************************************)
(* ReadResultsFromRegisters.  ReadModuleResultRegisters reads two words of *)
(* a module, which is moved into the call and gone after it.               *)
(***************************************************************************)
SumRegister(slot, is_low) == 64 + slot * 8 + (IF is_low THEN 0 ELSE 4)

(* Slip: the columns are not reversed.                                     *)
ReadResultUnreversed(position) ==
    SumRegister((TopPosition - position) \div 2, position % 2 = 1)

ReadResult(position) == SumRegister(position \div 2, position % 2 = 0)

ReadModuleResultRegisters(location, column) ==
    [location |-> location, runs |-> summed[location],
     high |-> ReadResult(TopPosition - column * 2), low |-> ReadResult(TopPosition - (column * 2 + 1))]

Sums == FlattenSeq([m \in DOMAIN read_back_modules |->
            [k \in DOMAIN read_back_modules[m].columns |->
                [sum |-> ReadModuleResultRegisters(read_back_modules[m].location,
                                                   read_back_modules[m].columns[k]),
                 is_moved |-> k > 1]]])

MovedSums == {k \in DOMAIN Sums : Sums[k].is_moved}

PrintedUpTo(last) == [k \in 1..last |-> Sums[k].sum]

ReadResultsFromRegisters ==
    /\ step = "read" /\ MovedSums = {}
    /\ printed' = PrintedUpTo(Len(Sums))
    /\ step' = "done"
    /\ UNCHANGED <<runs, loaded_bitstream, registers, configured, read_back_modules,
                   summed, error>>

CrashOnSecondColumn ==
    /\ step = "read" /\ MovedSums # {}
    /\ printed' = PrintedUpTo(Min(MovedSums) - 1)
    /\ Fail(NullPointer)
    /\ UNCHANGED <<runs, loaded_bitstream, registers, configured, read_back_modules, summed>>

NextRun ==
    /\ step = "done"
    /\ runs' = Tail(runs)
    /\ configured' = 0
    /\ step' = "load"
    /\ UNCHANGED <<loaded_bitstream, registers, read_back_modules, summed, printed, error>>

Next ==
    \/ LoadBitstream
    \/ FailToSetup
    \/ SetupFilterModule
    \/ SetupJoinModule
    \/ SetupMergeSortModule
    \/ SetupLinearSortModule
    \/ SetupAdditionModule
    \/ SetupMultiplicationModule
    \/ SetupAggregationSum
    \/ RunBoard
    \/ ReadResultsFromRegisters
    \/ CrashOnSecondColumn
    \/ NextRun

Spec == Init /\ [][Next]_vars

-----------------------------------------------------------------------------
(***************************************************************************)
(* Properties.  They hold when a run starts: every node of it has just been*)
(* set up, possibly over what earlier runs have left in the registers.     *)
(* What the registers make the hardware do is not in the code; it is taken *)
(* from the comments of the drivers.                                       *)
(***************************************************************************)
NodesFor(operation) ==
    IF step = "setup" /\ configured = Len(Nodes)
    THEN {node \in ToSet(Nodes) : node.operation = operation}
    ELSE {}

ReadFromModule(location, address) ==
    IF address \in DOMAIN registers[location] THEN registers[location][address] ELSE -1

(* What is written stays within the registers of a module, 1 MiB, at whole *)
(* words (the addresses of all drivers, WriteToModule).                    *)
TypeOK ==
    /\ \A location \in Locations : \A address \in DOMAIN registers[location] :
          address \in 0..(2^20 - 1) /\ address % 4 = 0
    /\ configured \in 0..(IF runs = <<>> THEN 0 ELSE Len(Nodes))
    /\ summed \in [Locations -> Nat]
    /\ step \in {"load", "setup", "read", "done", "failed"}
    /\ step = "failed" <=> error # NoError

(* A filter's answer.  The function numbers are those of                   *)
(* FilterCompareFunctions for 32 bits.                                     *)
Compare(compare_function, value, reference) ==
    CASE compare_function = 0 -> value < reference
      [] compare_function = 1 -> value <= reference
      [] compare_function = 2 -> value = reference
      [] compare_function = 3 -> value >= reference
      [] compare_function = 4 -> value > reference
      [] OTHER -> value # reference

ModuleCompares(location, place, lane, value) ==
    Compare((ReadFromModule(location, CompareTypesRegister(place)) \div 16^lane) % 16,
            value, ReadFromModule(location, ReferenceRegister(place, lane)))

ModuleAccepts(location, record) ==
    \E clause \in Clauses : \A place \in Places, lane \in Lanes :
        LET MayBe(holds) ==
                HasBit(ReadFromModule(location, LiteralsRegister(place, lane, holds)), clause)
        IN  IF MayBe(TRUE) /\ MayBe(FALSE) THEN TRUE
            ELSE MayBe(ModuleCompares(location, place, lane, record[place]))

(* Where word n of a record is, and the words a column has.                *)
RecordPlace(n) == [chunk |-> n \div kDatapathWidth, position |-> TopPosition - (n % kDatapathWidth)]

ColumnPlace(column, i) ==
    RecordPlace(column.chunk_id * kDatapathWidth + TopPosition - column.data_position + i)

WordsOf(comparison) == 0..(Len(comparison.reference_values) - 1)

(* What the query asks: some clause whose literals all hold.               *)
ComparisonHolds(column, comparison, record) ==
    \A i \in WordsOf(comparison) :
        Compare(comparison.compare_function, record[ColumnPlace(column, i)],
                comparison.reference_values[i + 1])

QueryAccepts(columns, record) ==
    LET comparisons == UNION {{<<column, comparison>> : comparison \in ToSet(column.comparisons)} :
                              column \in ToSet(columns)}
        used == UNION {ToSet(c[2].dnf_clause_ids) : c \in comparisons}
    IN  \E clause \in used : \A c \in comparisons : \A k \in DOMAIN c[2].dnf_clause_ids :
            c[2].dnf_clause_ids[k] = clause /\ c[2].literal_types[k] # kLiteralDontCare
                => (ComparisonHolds(c[1], c[2], record)
                        <=> c[2].literal_types[k] = kLiteralPositive)

(* Conditions that nothing checks: columns do not overlap, the comparisons *)
(* of one column have as many words, and "not" is only asked of one word.  *)
FiltersAsMeant(columns) ==
    /\ \A c, d \in DOMAIN columns : c # d =>
          {ColumnPlace(columns[c], i) : i \in WordsOf(columns[c].comparisons[1])}
              \cap {ColumnPlace(columns[d], i) : i \in WordsOf(columns[d].comparisons[1])} = {}
    /\ \A c \in DOMAIN columns : \A comparison \in ToSet(columns[c].comparisons) :
          /\ WordsOf(comparison) = WordsOf(columns[c].comparisons[1])
          /\ WordsOf(comparison) # {0} => kLiteralNegative \notin ToSet(comparison.literal_types)

(* A filter accepts the records that its query accepts, whatever an        *)
(* earlier run has left in its registers (SetupFilterModule,               *)
(* FilterWriteDNFClauseLiteralsToModule).                                  *)
FiltersDecide ==
    \A node \in NodesFor("kFilter") :
        LET columns == ColumnsOf(node.parameters)
        IN  FiltersAsMeant(columns) =>
                \A record \in Records :
                    ModuleAccepts(node.location, record) <=> QueryAccepts(columns, record)

(* The word that the multiplexer puts at a place of the output.            *)
SelectedElement(location, chunk, position) ==
    LET selection == ReadFromModule(location, MultiplexerRegister(chunk, position))
    IN  [second |-> selection >= 2^16,
         element |-> (selection % 2^16) * kDatapathWidth + TopPosition - position]

(* The shift leaves the second record where it is needed.                  *)
IsShiftAligned(first, second, shift_size) ==
    (first.size - shift_size) % kDatapathWidth = 0 /\ shift_size <= second.size

(* The driver of the second count says "ceil log" (join.cpp:41).  Of a     *)
(* record of one chunk the code takes log2(0).                             *)
IsCeilLog(value, chunk_count) ==
    chunk_count > 1 => 2^value >= chunk_count /\ chunk_count > 2^(value - 1)

(* A join's output is the first record and after it the second one from the*)
(* shift on, word by word, and it knows how many chunks its inputs have    *)
(* (SetupJoinModule, SetupTimeMultiplexer).                                *)
JoinsConcatenate ==
    \A node \in NodesFor("kJoin") :
        LET first == node.inputs[1]
            second == node.inputs[2]
            shift_size == node.parameters[1][1]
            Selected(k) == SelectedElement(node.location, k \div kDatapathWidth,
                                           TopPosition - (k % kDatapathWidth))
        IN  /\ IsShiftAligned(first, second, shift_size) =>
                  \A k \in 0..(first.size + second.size - shift_size - 1) :
                      Selected(k) =
                          IF k < first.size THEN [second |-> FALSE, element |-> k]
                          ELSE [second |-> TRUE, element |-> k - first.size + shift_size]
            /\ \A i \in 1..2 :
                  IsCeilLog(ReadFromModule(node.location, 4 + 4 * i),
                            CalculateChunksPerRecord(node.inputs[i].size))

(* The high and the low word of value i of a chunk, and the register for   *)
(* the word at a position.                                                 *)
HighPosition(i) == TopPosition - 2 * i
LowPosition(i) == TopPosition - 2 * i - 1
WordRegister(position) == 64 + 8 * (position \div 2) + 4 * (position % 2)

(* Each value of the chunk is negated, added to and replaced by the product*)
(* as the parameters for that value say, and for no other value; of        *)
(* products only in chunks that this run's parameters name, as the others  *)
(* keep what earlier runs chose (SetupAdditionModule,                      *)
(* SetupMultiplicationModule).                                             *)
ArithmeticInPlace ==
    /\ \A node \in NodesFor("kAddition") : \A i \in 0..(Slots - 1) :
          /\ HasBit(ReadFromModule(node.location, 4), HighPosition(i) \div 2)
                <=> node.parameters[2][i + 1] # 0
          /\ ReadFromModule(node.location, WordRegister(HighPosition(i)))
                = node.parameters[3][2 * i + 1]
          /\ ReadFromModule(node.location, WordRegister(LowPosition(i)))
                = node.parameters[3][2 * i + 2]
    /\ \A node \in NodesFor("kMultiplication") : \A v \in DOMAIN node.parameters :
          LET chosen == node.parameters[v]
          IN  (\A w \in DOMAIN node.parameters : w > v => node.parameters[w][1] # chosen[1])
                => \A i \in 0..(Slots - 1) :
                      HasBit(ReadFromModule(node.location, ResultsRegister(chosen[1])),
                             HighPosition(i) \div 2)
                          <=> chosen[i + 2] # 0

(* The sums that a run asks for: those of that run alone, of each column   *)
(* that the second vector of a node's parameters names.                    *)
SumsAskedFor ==
    LET SumNodes == SelectSeq(Nodes, LAMBDA node : node.operation = "kAggregationSum")
        SumOf(node, column) ==
            [location |-> node.location, runs |-> 1,
             high |-> WordRegister(HighPosition(column)), low |-> WordRegister(LowPosition(column))]
    IN  FlattenSeq([n \in DOMAIN SumNodes |->
            [k \in DOMAIN SumNodes[n].parameters[2] |->
                SumOf(SumNodes[n], SumNodes[n].parameters[2][k])]])

(* A run that ends has printed the sums asked for, whatever earlier runs   *)
(* left in the registers and on the list of modules to read.  A run that   *)
(* asks a module for a second column does not end (EveryPositionRead,      *)
(* below); one that asks several modules for a column each does            *)
(* (SetupAggregationSum, ReadResultsFromRegisters).                        *)
SumsReadBack == step = "done" => printed = SumsAskedFor

-----------------------------------------------------------------------------
(***************************************************************************)
(* What the documentation says and the code does not do.                   *)
(***************************************************************************)

(* The second vector tells "which positions should get read"               *)
(* (aggregation_sum_setup.hpp:34-36): when the reading is over, each of    *)
(* them was printed (ReadResultsFromRegisters, fpga_manager.cpp:304).      *)
EveryPositionRead ==
    step = "done" \/ error = NullPointer => printed = SumsAskedFor
=============================================================================
