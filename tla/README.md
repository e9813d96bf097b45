# A formal model of OrkhestraFPGAStream

OrkhestraFPGAStream executes database queries on an FPGA. A query is a graph of
nodes (filter, join, sort, ...) over tables; the middleware splits the graph
into *runs*, each of which one bitstream of an accelerator library can execute,
and for each run loads the bitstream, puts tables into the board's memory,
configures the DMA engine and the modules, starts the board, and stores or hands
on the results. This directory models that with TLA+ modules, checked by TLC and,
where it says so, proved with TLAPS. Paths below are relative to
`src/dbmstodspi/query_execution/` unless they start with `core`, `docs` or
`input_handling`.

## The system

The program is one thread; the only concurrency is with the board, which it
starts and then polls. What is hard is therefore not interleaving but long
sequences of updates to shared pieces of state: the links between nodes, the
maps of memory blocks and record counts keyed by node name, the stacks of free
blocks and stream numbers, and the configuration left on the board by earlier
runs. The tests of the repository look at one call at a time, mostly with mocks.

| component | state | operations | interacts with |
|---|---|---|---|
| graph and library (`input_handling/graph_creator.cpp`, `core/core_input/config_creator.cpp`) | nodes with links, files, parameters; module sets that have a bitstream | build, once | read by all |
| `NodeScheduler` (`scheduling/node_scheduler.cpp`) | set being built, queue of runs, starting nodes, links and files of the nodes | `FindAcceleratedQueryNodeSets` | changes nodes and the reuse links of `ExecutionManager` |
| `ExecutionManager` and its states (`core/core_execution`, `states/`) | state, run queue, blocks, record counts, links to reuse | schedule, set up a run, execute it | calls all managers |
| `QueryManager` (`scheduling/query_manager.cpp`) | none of its own | stream sizes, blocks of a run, results, freeing and handing on | memory, numbers, tables |
| `IDManager` (`scheduling/id_manager.cpp`) | stack of stream numbers | numbers for the streams of a run | `QueryManager` |
| `MemoryManager` (`table_data/memory_manager.cpp`) | stack of free blocks, count of allocations, loaded bitstream | get, free, load | `QueryManager`, board |
| `ElasticModuleChecker` (`scheduling/elastic_module_checker.cpp`) | none | is a merge sort big enough | before the setup |
| `FPGAManager` (`fpga_managing/fpga_manager.cpp`) | active streams, modules to read back | set up and run the board | DMA engine, modules |
| DMA setup (`fpga_managing/setup/dma_*`, `dma_crossbar_specifier.cpp`, `stream_parameter_calculator.cpp`) | what is written to the engine | buffers, bursts, channels, crossbars | board |
| module setup (`fpga_managing/setup/*_setup.cpp`, `modules/`) | registers, which keep their values while a bitstream stays; the comparisons gathered for a filter | configure one module, read sums back | board |
| register access (`modules/dma.cpp`, `modules/acceleration_module.cpp`) | none | compute an address and a word, write it | board |
| tables (`scheduling/table_manager.cpp`, `table_data/`) | tables of strings, types | read, convert, store, write, compare | files, blocks |
| JSON (`input_handling/rapidjson_reader.cpp`) | none | turn a parsed document into maps | graph, library, settings |

What makes each of them correct:

* *scheduler* - every node in exactly one run, after what it needs; each run has
  a bitstream with one module per node; modules of a pipeline in the order of the
  data; nothing is pipelined that must go through the memory; every stream has
  exactly one way from producer to consumer; it ends.
* *execution* - the result files get the right data, all of them; data kept for a
  later run is still there, with its record count, when that run comes; a block
  has one owner; blocks are given back; numbers of live streams differ; it ends.
* *DMA* - every column goes where the specification says and nothing else gets
  there; streams have separate buffers; bursts fit; the channels of a merge sort
  hold each record once; engine and sorter agree on what is fetched; no register
  is given two values, no field is wider than its bits.
* *modules* - a filter decides as the query says, a join concatenates, arithmetic
  touches the values it was asked for, sums are those of this run, whatever an
  earlier run has left in the registers.
* *tables* - each row is in its own place, whatever the rows around it look like;
  what is written says what was read and can be read again; the verdict on a
  result is right.
* *graph* - a definition without flaw is accepted, one with a flaw that the code
  can see is refused, and a consistent one becomes a plan that the scheduler can
  work with.

## Modules

| module | models | composed with |
|---|---|---|
| `QueryPlan` | the plan and library the program starts with: constant `Plans`, assumption `PlansAssumption` | extended by the others |
| `NodeScheduler` | the scheduler | instanced by `QueryExecution` |
| `TopologicalBatches` | abstract: nodes are placed once each, after what they need, and batches closed for good | implemented by `NodeScheduler` |
| `BoardLimits` | 6 memory blocks, 16 stream numbers, as constants | |
| `MemoryManager` | the stack of blocks, and with `Spec` what any client may do | instanced by `QueryExecution`, which implements it |
| `IDManager`, `FPGAManager` | operations on their variables | instanced by `QueryExecution` |
| `QueryExecution` | `ExecutionManager`, `QueryManager`, the states: the whole program from a plan to its result files | |
| `StreamParameters` | `StreamParameterCalculator` and the merge sorter's sizes, pure | |
| `DMACrossbars` | `DMACrossbarSpecifier` and `DMACrossbarSetup`, pure | |
| `DMASetup` | the setup of the engine and the merge sorters for one run | |
| `DMARegisters` | the register writes that hand over what `DMASetup` computed | extends `DMASetup` |
| `ModuleSetup` | the registers of all other modules over several runs of a board, and the read-back of sums | uses `StreamParameters` |
| `TypesConverter` | the conversion of cells to words and back, pure | |
| `Tables` | a table on its way: file, block, comparison or result file, and back in | extends `TypesConverter` |
| `QueryGraph` | `RapidJSONReader` and `GraphCreator` on a parsed definition, with every error | its result is a plan as `QueryPlan` describes it |
| `NodeScheduler_proofs` | proofs: order and refinement; runs, modules and pipelines; streams between runs | |
| `MemoryManager_proofs`, `QueryExecution_proofs` | proofs: the stack of blocks; the execution and its blocks | the second instances the first and `NodeScheduler_proofs` |
| `QueryExecution_runs_proofs`, `QueryExecution_data_proofs` | proofs: the numbers of streams and the delivery of results; the data | each extends the one before |
| `DMASetup_proofs`, `QueryGraph_proofs` | proofs: the engine's buffers, bursts, channels, crossbars and registers, the sorters, and what stops the setup; the graph creator | the first is about `DMARegisters` too |
| `SequenceLemmas` | lemmas on sequences and sets of sequences | extended by the proofs |
| `QueryPlanCases`, `MC*` | instances for TLC | |

Definitions called a *slip* in their comment are not the code: each is a
plausible mistake in the definition that follows it, kept to see that a property
notices it.

### How state and actions correspond to the code

**NodeScheduler.** Variables are the fields of the query nodes that scheduling
changes (`previous_nodes`, `next_nodes`, files, `module_location`) and the locals
of `FindAcceleratedQueryNodeSets` under their names; nodes are numbers in the
order of their names, which is the order of the maps. `PlaceModule`,
`PlacePassThrough`, `SkipNode`, `OperationNotFound` are the outcomes of one call
of `CheckNodeForModuleSet`, with `IsFirstChoice` for the order in which module
sets are tried; `ConsiderNextNode` and `EraseStartingNode` are its loop over the
consumers; `CloseRun` is what follows in the outer loop, with
`CheckExternalLinks` (which nulls links, names files and notes what is kept in
memory), and `FailToSchedule` its exception.

**QueryExecution.** Variables are the fields of `ExecutionManager`, plus where in
the straight-line code of a state the program is (`step`), plus what it has
written or compared (`results`). The scheduler's actions come in through
`ScheduleUnscheduledNodes`, and each other action is one call: `SetupNextRunData`
(with `LoadBitstreamIfNew` and `InitialiseVectorSizes`), `AllocateStreamIDs`,
`AllocateMemoryBlocks` for a node (or the crash in it), the run check,
`SetupQueryAcceleration`, `RunQueryAcceleration`, `ProcessResults`,
`FreeMemoryBlocks`. Exceptions and the crash are values of `error`, which ends
the program. The data in a file, block or stream is *named* by the file that
would hold it, a record count by the data that has so many records: wrong data
and a wrong count are then different from the right ones, without any row.

**FPGAManager.** A module on the board is its configuration: the node and the
numbers of its streams. Loading another bitstream loses it, loading the same one
keeps it, and setup does not reset it, as in the code. `SetupError` has the
exceptions of the setup in their order: a run that reads or writes nothing, as with
a sum that writes nothing, and a merge sort on another stream than 0. What the modules compute
and the DMA engine moves is not in the repository: `ThroughModule`,
`EnteringStreams`, `RunQueryAcceleration` state how the code relies on it (a
module takes the streams of its numbers and lets the others pass, in the order of
the bitstream) and are marked external.

**DMASetup.** Variables: the streams that `FPGAManager::FindIOStreams` found,
what has been written for each so far, the merge sorters' parameters, the
exception. `SetupStream` is one iteration of the loop of `SetupDMAModule` with
everything that it calls; `SetupError` has the exceptions and assertions in their
order. The meaning of the crossbars (`PulledFrom`, `PushedTo`, `OnInterface`)
comes from how the code fills them and is external too: at the input an integer
is pulled to a chunk of the interface at its own position, then to another
position; at the output it is pulled to a position and then pushed to a chunk.
Sizes are in integers of 32 bits. Record sizes go up to the buffer's 512: for
more the code takes the logarithm of 0. `StreamsAssumption` says what a stream is
(`StreamDataParameters`): sequences of columns, at most as many chunks as the buffer
has, and for a merge sort counts that are natural numbers and a memory address that
is whole, as that of every block is; TLC evaluates it on the streams of the runs. Columns of an output specification are
within the chunks given for it; outside, the code indexes past a vector.

**DMARegisters.** `Writes` is the set of address and word of every write of a
finished setup; one operator for each function of the class `DMA`, under its name.
A word is a pair of halves of 16 bits. `SetUpDMACrossbarsForStream` splits each
chunk of the crossbars into four words of four selections as the code does.

**ModuleSetup.** Variables: the runs to come, the loaded bitstream, per module
location the registers written so far (dropped when the bitstream changes, kept
otherwise), the sum modules to read back. One action for each setup class,
`FailToSetup` for their exceptions in the order in which the code meets them,
`RunBoard`, `ReadResultsFromRegisters` and `CrashOnSecondColumn`, in which the
moved pointer is dereferenced. A register's address and value are computed as the
drivers do. A filter with its reference values, types and literals is then
*evaluated* (`ModuleAccepts`) next to the query (`QueryAccepts`).

**TypesConverter, Tables.** A word has eight hexadecimal digits in the code; the
base is a constant, and a character has two digits. A cell is a text (its
character codes, which begin no number), a number, a decimal in thousandths, a date
or empty: what the parsing functions of the library tell apart. It may be in a column
of any type: `stoi` and `stod` take the beginning of a cell for the number
(`LeadingInteger`, `Hundredths`), and a varchar takes the characters of anything
(`Characters`). A line's cells are split again where a text contains a separator,
in quotes or not (`SplitText`), and an empty last cell is not there at
all (`TokenRows`), as with `getline`. What the line *says* is told apart from that:
`DocumentedCells` keeps a quoted text in one piece, as `docs/table_data.md:36` has it,
and the properties compare with those cells. `LoadRow` is one iteration of the loop of
`WriteTableFromFileToMemory`; writing past the block and converting a column that
a row does not have are values of `error`, since the code does not notice them.
After a result was written, it may be read again as a table (`MaxRounds`).

**QueryGraph.** A definition is a set of nodes, each a function from the fields it
gives to a kind of JSON value and its value. `PopulateNode` and `LinkNode` are
iterations of the two loops of `GraphCreator`, in the order of the nodes' names;
an exception takes the first error. A graph keeps alive only the nodes that can
be reached from its roots (`KeptNodes`), as links backwards are weak pointers.

## Runs

| run | question | instance and why it is enough |
|---|---|---|
| `scheduler` | all of the scheduler's properties | Chains, independent nodes, joins of tables and of nodes, forks, a diamond, of 2 to 4 nodes; every assignment of filter, merge sort, linear sort, pass-through and join; at most one stream checked and one projected; two parallel streams between two nodes; the extended library of `resources/` and one that lacks modules. 72,421 states. Runs of three modules, insertions before earlier modules, several runs, failures and kept, checked and projected streams all occur |
| `execution` | does a query give its results, and what happens at the limits | 593 plans: the graphs above, filters with two outputs and linear sorters behind them, sums that write nothing, alone and beside another node, and six results that are all kept for later runs. The real 6 blocks, which the last one uses up; 3 stream numbers instead of 16, so that they run out. Every exception and the crash occur. 25,048 states |
| `dma_setup` | the engine with its real sizes | records of every size to 80, every size at a chunk boundary, and 512; 1 to 16 streams; chunk counts larger than needed and missing; holes in outputs; merge sorts of every size to 66 with record counts around 0, one channel and the capacity, few channels with every remainder, and specifications longer and shorter than the record; every selection of up to three columns around the positions of a chunk and, for records of one to four chunks, rotations, holes and exchanges of all columns at the ends of the chunks, which include clashes of both crossbars. Registers included. 16,485 states, each a whole configuration |
| `tables` | are tables stored, compared and written right | every text of up to three of five characters and longer ones around a word's and a column's end, with quotes, separators and control characters; integers, decimals and dates at the ends of their ranges; columns with room for more than a value; rows with cells missing, empty and left over, next to every such expected table; both line ends; missing and too large files; a cell of every kind in a column of every type; rows with a cell too many and one that cannot be read. Base 8, so that a word has 24 bits and the ends of `int` and of a word are near; blocks of 12 words; of an expected table 3 rows are read (2,000,000 in the code). 97,240 states |
| `module_setup` | do the registers make modules do what the query says | one or two runs, with the bitstream kept or changed in between: filters of one or two columns at every position, with one to three words, one or two comparisons and clauses, wrong parameters; joins of 1 to 9 and 1 to 7 words with every shift; sorters on streams 0 and 1; arithmetic on every combination of values; sums of none, one and two columns, of one module and of two. A datapath of 4 words, 2 chunks, 2 lanes, 2 clauses: the loops run over these counts uniformly, and each carry from position to chunk occurs. 34,120 states |
| `query_graph` | which definitions become which plans | every two nodes with every combination of links, to themselves, to each other and to nobody; three nodes likewise with links that agree or not; every field missing, null, unknown or of another kind; texts of every length around their size. 623,443 states |

Every plan is a separate initial state. The only bounds are these sets; no action
is bounded.

Six runs show where the code differs from what it or its documentation says (the
`findings` of `PROJECT.json` quote both sides):

| run | what it shows |
|---|---|
| `module_location` | a module inserted before an earlier one of its run leaves the earlier node with an old location |
| `documented_splits` | the flag of a checked output is looked up with the consumer's input index, so that the output is pipelined; a pass-through node with a projection is placed without a look at the projection, so that it shares a run with a module before or after it. The last state breaks both rules of the documentation |
| `two_outputs` | a filter whose first output leaves the run and whose second goes on to a linear sorter of the run makes the setup dereference null |
| `misfits` | the check that a specification fits the burst sees whole chunks only and accepts longer ones |
| `table_as_documented` | the size check of a table compares bytes of text with bytes of memory, and an accepted table is written past its block; a quoted text is cut at the separator in it, which moves the cells after it. The last state breaks both |
| `second_sum` | reading a sum back moves the module's pointer away, so that a second position of the same module dereferences null |

The properties of the passing runs state their conditions where the behaviours
above, or inputs that nothing checks, would break them:

* `scheduler`: `HasSimpleEdges` (two nodes are joined by at most one stream) for
  what is said of single streams: the code finds the other end of a stream by the
  node that is there, so of two parallel streams it sees the first twice. For an
  output with a projection, `docs/program_input.md:148` ("a node with an output
  projection operation can't have any modules pipelined after it in the same run")
  therefore holds only where streams are simple. `ProjectionsSplitRuns` is about
  streams between two nodes that have a module each: pass-through nodes are placed
  without `FindMinPosition`, which also skips them as producers, so that projections
  at either end of their streams do not split runs (run `documented_splits`).
* `execution`: `ScheduleIsSound` (the locations noted for nodes hold), `ChecksEndRuns`
  (checked outputs do leave their runs), `HasSingleOutputs`, `HasSimpleEdges`. The
  first two are premises about the scheduler's result, not assumptions on plans:
  where it is sound, everything after it must be. A producer that reaches its
  consumer through a pass-through node is not seen by the search for a position and
  may be placed behind it; then some location does not hold
  (`LocationsMeetPrerequisites`). `HasSingleOutputs` asks for two things of a plan:
  no node has more outputs than inputs (record counts beyond are read past the end of
  a vector), and a node with a module has one output at most: `FPGAManager` models a
  module as writing one stream, so the second result of a join with two outputs would
  be empty. The graphs of the run have no such join; the proof of `ResultsRight` is
  what asked for the second part.
* `dma_setup`: `FitsSlot` (the specification fits), `StartsAligned` (channels start
  at whole units of 16 bytes), for bursts that a merge sort drops no columns, and
  for the control word that a burst has at most 256 cycles.
* `module_setup`: `FiltersAsMeant` (columns do not overlap, the comparisons of a
  column have equally many words, and "not" is asked of single words only: the
  literals of a column's words are conjoined), `IsShiftAligned` (a join's shift ends
  where the first record does), and chunk counts above 1 for their logarithm, which
  for 1 the code takes of 0. `SumsReadBack` is about runs that end: one that reads
  two columns of a module does not (run `second_sum`).
* `tables`: `IsComplete` (by the documentation the line has a cell for each column, all
  readable), `NoQuotedSeparator` (run `table_as_documented`), for verdicts
  `NoEmptyLastCell` (`getline` does not return it), `ColumnsFilled` (no
  integer, date or decimal column has room for more than one value), `TextsPrintable`
  (a control character loses its leading zero), `NoneNegative` (integers are printed
  without sign), `TextsUncut` (a text with a separator or in quotes is not the same
  when it is read again).
* `query_graph`: `IsConsistent` (both ends of each link name each other, no cycle,
  an output per link): the code checks neither, and `GraphIsPlan` says what the
  scheduler may then rely on.

### Fairness

`Spec` of the scheduler, the execution and the setup has `WF_vars(Next)`: there is
one thread, it waits for nothing but the board, and a step that can be taken is
taken. For the board it means that a started run ends; the code polls for that
without a bound and the assumption is the hardware's. No action has a fairness
condition of its own. `Terminates` is checked for the scheduler and for the
execution. The other modules have no loop that could go on: they pass through
finite sequences, and no such property is stated for them.

## Proofs

Every theorem holds for every value of the constants that satisfies the named
assumptions; no run's bound is part of them. Each inductive invariant was first an
invariant of the module's run.

### Scheduler

From `PlansAssumption` (links in both directions agree, the graph has no cycle, the
library's modules have one number of parameters per operation ...):

* The order: `TypeCorrect`, `TopologicalOrderHolds`, `StartingNodesReadyHolds`,
  `EveryNodeScheduledHolds`: types; no node twice or before a producer; the starting
  nodes are just those that wait for nothing; a scheduler that returns has scheduled
  every node. `Refinement`: the scheduler implements `TopologicalBatches`.
* The runs: `RunsMatchBitstreamsHolds`, `PipelineOrderHolds`,
  `ProjectionsSplitRunsHolds`, `SingleModulesSufficeHolds`, and
  `ProducersHaveModulesHolds`: the search for a position after a node's producers
  finds their modules, so that its exception is never thrown.
* The streams: `StreamsHandedOverHolds`; `RunsReadyHolds`, which is what the execution
  relies on: each node in one run, after the nodes of the run that feed it, links cut
  but never changed, memory kept only for later runs, and no run that waits for a
  later one. `LocationsMeetPrerequisites`: where the locations noted for the nodes
  hold, the modules also come in the order of the data through pass-through nodes.

All of them are in `NodeScheduler_proofs`. The inductive invariant of the first
group is `IInv`, the conjunction of `PlanKnown` (the plan never changes), `FieldsOK`,
`ScheduleInv`, `RunsSeparated` and `LinkedOK`. Topological order alone is not
inductive: a node becomes a starting
node when `IsNodeAvailable` finds its producers scheduled, looking at its *current*
links, which `CheckExternalLinks` nulls as runs are closed. `LinksUntouched` says
that unscheduled nodes still have the links of the plan, and `StartingNodesReady`
that nothing is forgotten, including the consumers that the loop has still to
consider. `EveryNodeScheduled` then follows because a finite graph without cycle in
which some node is unscheduled has an unscheduled node whose producers all are
scheduled (`NothingForgotten`, from the order of the plan). `RunsSeparated` is needed
for the refinement and for `LinkedOK`: the links that `CloseRun` inspects are those
of the plan.

On top of it:

* `BitstreamsInv`: the modules of the run being built are those of a bitstream in the
  library, none exactly if it has no node, and for each operation there are as many
  modules as nodes. The correspondence is by counting and not by the location noted
  for a node, which the run `module_location` shows to be stale after an insertion.
* `PipelinesInv`: `PipelineOrder` and, for streams between nodes with modules,
  `ProjectionsSplitRuns` for the run being built
  and for queued ones alike; an insertion must keep the order of the modules that
  were there (`CreateNewModulesVector`), which a position does not show.
* `NeverStuck`: with a bitstream for each operation alone, an empty run takes any
  starting node, so a run that is closed is never empty.
* `StreamsInv`: each stream out of a closed run has one way in the three cases of
  `CheckExternalLinks`, each other one is untouched at both ends. The consumer's end
  is nulled when the producer's run is closed, long before the consumer is placed.

### Graph

`QueryGraph_proofs`, from no assumption but what a definition is (`IsDefinition` in
`Init`): `SoundDefinitionsAcceptedHolds`, a definition without flaw is never
refused; `GraphIsPlanHolds`, a consistent one becomes a plan as `IsPlan` says, which
is the assumption of the scheduler's proofs. The invariant follows the loops of
`RapidJSONReader` and `GraphCreator`: `Started`, `DataRead`, `PhasesInOrder`,
`GraphGrown` (the nodes so far are those of the definition, linked up to the
current one), `GraphMade`, `FlawFound` (a definition that was refused has a flaw).

### Memory

`MemoryManager_proofs` proves from `AllocationsAssumption` (the number of blocks
is a natural number), for a client that requests any number of blocks and returns
any it holds: `TypeCorrect`; `BlocksOwnedOnceHolds`, a block that was allocated is
on the stack once or with the client, never both, never lost;
`AllocatesOnlyWhenEmptyHolds`. The invariant is `TypeOK /\ BlocksOwnedOnce`. The
lemmas on a request (`RequestKeepsOwners`; `RequestsApart`, the blocks handed out
differ and nobody had them; `RequestsBeyond`, it fails only with an empty stack) and
on a return (`ReturnKeepsOwners`) are what the proofs of the execution cite.

### Execution

From `PlansAssumption`, `AllocationsAssumption` and `StreamCountAssumption`, in three
modules of which each extends the one before, `QueryExecution_proofs` (control and
memory), `QueryExecution_runs_proofs` (the numbers of the streams and the delivery of
results) and `QueryExecution_data_proofs` (the data):

* `TypeCorrect` and `BlocksReturnedHolds`, for every set of plans: the vectors of a
  node are empty or as long as it has streams; between runs the only blocks held
  are at inputs that wait for a later run, and at the end none is.
* Under `PlansAreSimple` (every plan has `HasSimpleEdges`): `UsesMemoryManagerHolds`,
  the execution implements `MemoryManager`, so that `BlocksOwnedOnce` carries over;
  `FailsOnlyWhenFullHolds`, the exception for a lack of memory is thrown only with
  every block in use; `BlocksNotSharedHolds`, no two streams have one block and none
  has a block that is on the stack.
* Under `PlansAreSimple`: `StreamsNumberedHolds`, what the DMA engine reads, and what it
  writes, is told apart by the streams' numbers, and a stream inside a run keeps its
  number.
* Under `PlansAreSimple` and `NodesHaveStreams` (every node has an input and an
  output): `StreamsNeverMissing`, every run has something to read and something to
  write, and the exception "Input or output streams missing!" is never thrown. Sums
  that write nothing do not satisfy the second premise, and in the run `execution`
  they throw it.
* Under `PlansAreSimple`: `EveryResultDeliveredHolds`, when the execution has finished,
  every output that no node reads has been written, every checked one compared, and
  nothing else; `ResultsRightHolds`, what is written or compared is the data of that
  stream of the plan; `CarriedDataKeptHolds`, data kept in memory for a later run waits
  at its reader's input, with its record count. The conditions on the scheduler's
  result are those that the properties state themselves.

`PlansAreSimple` is needed: of two parallel streams that are kept for a later run,
`FindPreviousNodeLocation` gives both the same input, `FreeMemoryBlocks` moves both
blocks there, and the first is lost; and `FindStreamIndex` gives both the number of the
first output. In every query of `resources` the nodes have one output each.

The invariant has layers. `ControlInv`: `Scheduling` (while the graph is not
scheduled, the scheduler's own invariant holds, taken from its proofs through
`INSTANCE`), `ScheduleKnown` (afterwards, what `RunsReady` gave is still so), and the
step of each state. `DataInv`: the vectors' lengths, the sizes and the stacks.
`InputsWaiting`: a node whose run has not come holds a block only where a kept link
leads, from a node that has run. `MemoryInv`: `InputsApart`, `OutputsApart` and
`SidesApart` (no block at two places), `OutputsPending` (the nodes of the run that are
still to be set up have none at their outputs) and `MemoryOwned`. `BlocksNotShared`
alone, which counts, is not inductive: setting a node up overwrites its vector of
output blocks, and freeing overwrites inputs, so that nothing is lost only because
those places are known to be empty.

For the numbers, `LinksSettled` is what the scheduler leaves of the links of a run:
both ends of a stream within it, not the consumer's of any other; `RunLinked` that
`InitialiseVectorSizes` has cut the rest, and that an input that waits with a block
has no link. `NumbersInv` is about the nodes that have numbers so far: `InputsNumbered`
(the inputs from memory have different ones), `OutputsNumbered` (so have the outputs
that no such node consumes: a node that passes a number on takes it from one of them,
which is consumed by that), `NumbersPassed` and `NumbersFresh` (none of those is still
on the stack). Outputs alone have no such invariant: all along a pipeline they share
one number. `ParamsInv` says that the parameters given to the board are these numbers,
with a block just where the link is cut.

For the delivery, `DeliveryInv`: `ScheduleSettled` is what the scheduler leaves
besides the links (`FilesKnown`, which file each stream at the edge of the plan and
each checked one has; `StreamsForwarded`, a link in memory for every other stream
between runs; `ModulesLocated`, where the modules are if no two nodes share one),
`RunsCovered` and `RunsCut` that every node is in a run and that no link leaves a run
that was set up, `BlocksPresent` that in a run just the cut streams have blocks, and
`ResultsDelivered` that the files in `results` are those of the cut outputs with a
file of the runs processed so far. `DeliveredFollows` then compares these with what
the plan owes.

For the data, `ContentsInv` adds:

* `BoardLoaded`, `NodesGiven`, `ModulesSet`: the bitstream on the board is that of the
  run, the parameters are each node's location, blocks and record counts, and when the
  board starts the module at a node's location is configured for that node with the
  numbers of its streams. A module that keeps its bitstream keeps the configuration of
  the run before; it does no harm because every module of the bitstream is that of
  some node of the run (`SoundRun`) and is configured again.
* `NumbersKept`: inputs from memory have real numbers, and an output goes on under the
  number of the input in the same place, which is what makes pass-through nodes right.
* `KeptBlocksWait`, `SizesFit`, `ErrorFree`: kept blocks are at their readers' inputs,
  the vectors of the record counts are as long as those of the blocks, and no run
  follows an exception.
* `DataRight`: under the premises of `ResultsRight` the block of every input holds the
  data of its stream (`InputsReady`), those of the outputs do once the board has run
  (`OutputsReady`), with the right record counts, and so do the results
  (`ResultsKnown`).

What the streams of a plan carry (`OutputData`, a recursive function) is known to exist
because the plan has no cycle (`DataExists`, by the least set of nodes that has none),
so that it satisfies its equation (`DataSolves`). The step of the board is an induction
over the pipeline. Between nodes `k - 1` and `k` of a run, the streams on their way are
the inputs from memory of the nodes from `k` on and the outputs of the nodes before
that none of these has read (`IsLive`). They have different numbers at every such cut
(`CutsApart`): outputs take the numbers of their node's inputs, whose sources are
different streams of the cut before. Each carries its data (`FlowRight`): a node's
inputs are on their way just before it (`SourceFound`, `InputsArrive`), its module, or
none for a pass-through node, turns them into the outputs and lets the others pass
(`ThroughRightModule`). Modules and nodes are not the same sequence; the module after
which node `k` may be considered is matched through the locations. At the last cut the
streams on their way are those with output blocks. For inputs that come from a file,
`FileOfInput` says that it is a table or an expected result: any other stream from an
earlier run is linked in memory and has its block already (`KeptBlocksWait`).

### DMA engine

`DMASetup_proofs`, from `DatapathAssumption`, `BufferAssumption` (a burst has a power
of two of records at most) and `StreamsAssumption`, for any width and length of the
datapath and whatever the streams of a run, from 1 to 16 in each direction:

* `BuffersDisjointHolds`: no two streams of a direction share a part of the buffers.
* `BurstsFitHolds`, under `SorterFits`: every burst has whole records, one at least,
  takes just the cycles it needs and fits. `SorterFits` relates the sorter's space and
  channels to the datapath; with less, the quotient that the code computes with the
  logic's reserve taken off may be so far below zero that half of it is taken for a
  count of records.
* `ChannelsCoverStreamHolds`: the active channels of a merge sort have all records.
* `SortersFetchBurstsHolds`, under `SorterFits` and `TheSorter` (64 channels, 2048
  chunks, the numbers with which the code calls `CalculateSortBufferSize`): the engine
  computes the records of a fetch from their size in memory, the sorter from that on
  the interface, and they get the same number. This is a fact about those numbers:
  half a channel's buffer is then 12, 4 or at most 1 records (`FetchesOfSorter`), so
  that a fetch of whole cycles either is all of it or does not exist, whatever the
  size. With other numbers it need not be so.
* `FailsWithReasonHolds`, if a burst may have as many records as the buffer has chunks
  (both are 32): plain streams never stop the setup, and `free_chunks.at(0)` is always
  there. An extended specification fits since neither the records nor their slots are
  more than a burst (`SlotsFit`, `ExtensionFits`), and of the chunks of a burst at most
  all but one are set at a position where one is not (`ChunkIsFree`).
* `ColumnsInPlaceHolds`, under `SorterFits` and with as many records of a burst as
  chunks (32): whatever the columns that a stream selects, what the crossbars move
  arrives at its place, and nothing else does. A record has a slot of the interface
  that is a power of two of chunks (`InputSlot`, `OutputSlots`), so column `c` of
  record `r` has one location in the burst, one chunk and one position
  (`LocationInChunk`), and what the extended specification has there is `Wanted`: the
  place in the buffer, or junk (`ExtendedAt`). An input crossbar that passed
  `IsInputClashing` therefore pulls what is wanted, whichever order its chunks are
  written in (`PulledAsWanted`, `RecordsDelivered`). For outputs, different columns
  have different places (`LocationsDiffer`, `PackedApart`), so each place of the
  packed records is pushed to at least once and by the right column (`OutputPlaced`,
  `PushedOnce`). What remains are the chunks that the specification does not set and
  that push something all the same. With `NeedsOverwriteCheck` they get a chunk of the
  buffer that no column uses at that position (`FreeChunkUnused`, `PushedWithCheck`);
  without it they push to the last chunk, and then the records end before that one
  (`LastChunkSpare`, `PushedWithoutCheck`), because the code asks for the check as soon
  as the columns carried are more than all but one chunk.

* `RegistersHoldSetupHolds`, with the real width of 16 words, at most 64 chunks and as
  many records of a burst as chunks, under `SorterFits`, if the streams of a direction
  have different numbers (`NumbersApart`; that the execution gives them such numbers is
  `StreamsNumberedHolds` above) and no stream more than 2^14 channels (`ChannelsFit`):
  all that is written to the engine for a run lies in its registers, no register gets
  two words, and fields of a word do not run into each other. Each function of
  `modules/dma.cpp` writes to a table of its own (`WritesInRegisters`). Within a table
  different streams, chunks and words have different places (`StreamTable`,
  `ChunkTable`, `SelectionTable`), and the tables follow each other up to address
  720892 (`TablesJoined`, `RegistersKnown`). The two tables of channels have only four
  times 4096 places, for four streams of 4096 channels; they are enough because the
  merge sorter refuses all streams but number 0 (`OnlyStreamZero`). For the fields, a
  selection of a crossbar is a chunk or a position (`CrossbarOfData`) and `FloorLog2`
  is at most 12 (`ParametersFit`). That the length of a burst fits its byte is a
  condition in the property itself; a burst that drops columns may be longer.

All premises hold of the streams and sizes of the run `dma_setup`. The invariant adds
to the properties that the data written so far are as many as `current_stream_count`
(`CountsOK`) and that each is the data of the stream in its place, which passed the
checks (`DataOK`); the properties then are about `SetupData` of one stream, or of two.
`ChannelsCoverStream` needs that the check of `ElasticModuleChecker` was made and that
nothing has changed since (`RunChecked`), and an induction over the channels, which is
made by looking at the least channel with a wrong sum (`RecordsAddUp`). For the
sorters, `SortersInv` says that each is that of the stream with as many sorters before.

### Only model-checked

* `ModuleSetup` and `Tables`: the conversions are recursive functions over words and
  texts, and what those compute for every input would need induction over data.
* Liveness (`Terminates`), which is out of the provers' reach.

## Not modelled

* The board while it runs: what modules compute is stated where a property needs
  it, from the comments of the drivers, and marked external. The input controller
  is started before the modules are configured, and what that does is not in the
  repository; nor is what `GlobalReset` clears.
* `src/fos/`: the vendored board library (`cynq.cpp`, `udma.cpp`, `mmio.cpp`) and
  the JSON library `json.hpp`, which at 22,684 lines is more than half of the code
  in the repository. `src/apps/baremetal_filtering.c` is a program of its own, 7,703
  lines of which nearly all are one table of data.
* In tables, dates of more than eight digits, texts that begin with a number, and
  decimals with a third place of 5, whose rounding depends on a binary fraction.
* The ILA debugger (`modules/ila.cpp`, read-backs for debugging): it changes no
  state that the program looks at again.
* Wiring of objects (`core.cpp`, the factories), logging, and the settings read from
  a configuration file, which are constants here. Headers are declarations of what
  is modelled at the definition.
* Functions that nothing calls (`Resolve...Clashes`, `IsOutputOverwritingData`,
  `CalculateMultiChannelStreamRecordCountPerChannel`).
* The data in `QueryExecution` is a name, in `Tables` it is real; the two meet where
  a file is read or written. Likewise `FPGAManager` has a configuration as a whole
  and `ModuleSetup` its registers. A composition of both levels would multiply the
  states and show nothing that the two do not.

## Plan

1. *Done*: scheduler with its abstract specification and proofs; execution with
   memory, numbers and board; DMA setup and crossbars.
2. *Done*: tables and the conversion of types; the registers of modules and of the
   engine; the read-back of sums; the links and checks of the graph creator.
3. *Done*: proofs of all safety properties of the scheduler and of the graph
   creator; all safety properties of the execution, with the refinement of
   `MemoryManager`; all properties of `DMASetup` and `DMARegisters`.
4. Proofs that are left: `ModuleSetup` and `Tables`.
