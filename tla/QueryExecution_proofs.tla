------------------------ MODULE QueryExecution_proofs ------------------------
(***************************************************************************)
(* Proofs about the execution of a query, for every set of plans and every *)
(* number of memory blocks and of stream numbers: that the vectors of the  *)
(* execution manager fit the streams, and that every memory block is with  *)
(* one stream, or on the stack of the memory manager, and is given back.   *)
(***************************************************************************)
EXTENDS QueryExecution, SequenceLemmas, TLAPS

Proved == INSTANCE NodeScheduler_proofs
MemoryProofs == INSTANCE MemoryManager_proofs WITH held <- HeldBlocks

-----------------------------------------------------------------------------
(***************************************************************************)
(* The scheduler, and what was proved about it.                            *)
(***************************************************************************)

(* The scheduler of this module is the one of those proofs.                *)
LEMMA SameScheduler ==
    /\ Scheduler!Init => Proved!Init
    /\ Scheduler!Next => Proved!Next
BY ZenonT(60)
   DEF Scheduler!Null, Scheduler!PassThrough, Scheduler!IsNode,
       Scheduler!QueryOperationType, Scheduler!QueryOperation,
       Scheduler!NoFile, Scheduler!TableFile, Scheduler!ExpectedFile,
       Scheduler!ResultFile, Scheduler!NamedFile, Scheduler!File,
       Scheduler!Inputs, Scheduler!Outputs, Scheduler!Producers,
       Scheduler!Consumers, Scheduler!Edge, Scheduler!Edges,
       Scheduler!HasSimpleEdges, Scheduler!IsAcyclic, Scheduler!IsLinked,
       Scheduler!IsAnnotated, Scheduler!ModulesOf, Scheduler!ParametersOf,
       Scheduler!IsLibrary, Scheduler!IsPlan, Scheduler!RootNodes,
       Scheduler!ParameterTuples, Scheduler!nodeVars, Scheduler!vars,
       Scheduler!CurrentNode, Scheduler!InCurrentRun,
       Scheduler!FindNextNodeLocation, Scheduler!FindPreviousNodeLocation,
       Scheduler!PipelinedInputs, Scheduler!IsProjectionOperationDefined,
       Scheduler!IsChecked, Scheduler!CannotBePipelined,
       Scheduler!PositionAfter, Scheduler!MeetsPrerequisites,
       Scheduler!CreateNewModulesVector, Scheduler!IsModuleSetSupported,
       Scheduler!SuitableChoices, Scheduler!TriedBefore, Scheduler!Init,
       Scheduler!AddToRun, Scheduler!PlaceModule, Scheduler!PlacePassThrough,
       Scheduler!IsNodeAvailable, Scheduler!BecomesStarting,
       Scheduler!ConsiderNextNode, Scheduler!EraseStartingNode,
       Scheduler!TryNextNode, Scheduler!SkipNode, Scheduler!OperationNotFound,
       Scheduler!LeavesRun, Scheduler!IsKept, Scheduler!IsThroughFile,
       Scheduler!KeptOutputs, Scheduler!FileSources,
       Scheduler!CheckExternalLinks, Scheduler!CloseRun,
       Scheduler!FailToSchedule, Scheduler!Next, Scheduler!FirstIndex,
       Scheduler!IsFirstChoice, Scheduler!ToSet, Scheduler!InsertAt,
       Scheduler!RemoveAt, Scheduler!Max, Scheduler!Cardinality,
       Scheduler!IsFiniteSet, Proved!Null, Proved!PassThrough, Proved!IsNode,
       Proved!QueryOperationType, Proved!QueryOperation, Proved!NoFile,
       Proved!TableFile, Proved!ExpectedFile, Proved!ResultFile,
       Proved!NamedFile, Proved!File, Proved!Inputs, Proved!Outputs,
       Proved!Producers, Proved!Consumers, Proved!Edge, Proved!Edges,
       Proved!HasSimpleEdges, Proved!IsAcyclic, Proved!IsLinked,
       Proved!IsAnnotated, Proved!ModulesOf, Proved!ParametersOf,
       Proved!IsLibrary, Proved!IsPlan, Proved!RootNodes,
       Proved!ParameterTuples, Proved!nodeVars, Proved!vars,
       Proved!CurrentNode, Proved!InCurrentRun, Proved!FindNextNodeLocation,
       Proved!FindPreviousNodeLocation, Proved!PipelinedInputs,
       Proved!IsProjectionOperationDefined, Proved!IsChecked,
       Proved!CannotBePipelined, Proved!PositionAfter,
       Proved!MeetsPrerequisites, Proved!CreateNewModulesVector,
       Proved!IsModuleSetSupported, Proved!SuitableChoices, Proved!TriedBefore,
       Proved!Init, Proved!AddToRun, Proved!PlaceModule,
       Proved!PlacePassThrough, Proved!IsNodeAvailable, Proved!BecomesStarting,
       Proved!ConsiderNextNode, Proved!EraseStartingNode, Proved!TryNextNode,
       Proved!SkipNode, Proved!OperationNotFound, Proved!LeavesRun,
       Proved!IsKept, Proved!IsThroughFile, Proved!KeptOutputs,
       Proved!FileSources, Proved!CheckExternalLinks, Proved!CloseRun,
       Proved!FailToSchedule, Proved!Next, Proved!FirstIndex,
       Proved!IsFirstChoice, Proved!ToSet, Proved!InsertAt, Proved!RemoveAt,
       Proved!Max, Proved!Cardinality, Proved!IsFiniteSet, Max, ToSet

LEMMA PlansKnown == \A p \in Plans : Proved!IsPlan(p)
BY PlansAssumption, Zenon
   DEF IsPlan, IsLinked, IsAnnotated, IsLibrary, IsAcyclic, Producers, Consumers,
       Inputs, Outputs, ParametersOf, ModulesOf, ToSet, IsFiniteSet, Null,
       QueryOperation, QueryOperationType, PassThrough,
       Proved!IsPlan, Proved!IsLinked, Proved!IsAnnotated, Proved!IsLibrary,
       Proved!IsAcyclic, Proved!Producers, Proved!Consumers, Proved!Inputs,
       Proved!Outputs, Proved!ParametersOf, Proved!ModulesOf, Proved!ToSet,
       Proved!IsFiniteSet, Proved!Null, Proved!QueryOperation,
       Proved!QueryOperationType, Proved!PassThrough

LEMMA SchedulerStarts == Scheduler!Init => Proved!SchedulerInv
BY SameScheduler, PlansKnown, Proved!InitInvariant

LEMMA SchedulerSteps ==
    ASSUME Proved!SchedulerInv, Scheduler!Next \/ UNCHANGED schedulerVars
    PROVE  Proved!SchedulerInv'
<1>1. Proved!Next \/ UNCHANGED Proved!vars
  BY SameScheduler DEF schedulerVars, Proved!vars, Proved!nodeVars
<1>2. QED
  BY <1>1, PlansKnown, Proved!StepInvariant

(***************************************************************************)
(* What the execution relies on: the links of the plan, some of them cut;  *)
(* the runs, of which each node is in one; and the edges kept in memory,   *)
(* each from a run to a later one.                                         *)
(***************************************************************************)
Runs == DOMAIN query_node_runs_queue
NodesIn(r) == ToSet(RunNodes(r))

LinksKnown ==
    /\ previous_nodes \in [plan.nodes -> Seq(plan.nodes \cup {Null})]
    /\ next_nodes \in [plan.nodes -> Seq(plan.nodes \cup {Null})]
    /\ \A n \in plan.nodes :
          /\ DOMAIN previous_nodes[n] = Inputs(plan, n)
          /\ DOMAIN next_nodes[n] = Outputs(plan, n)
          /\ \A i \in Outputs(plan, n) : next_nodes[n][i] \in {plan.next_nodes[n][i], Null}
RunsKnown ==
    /\ Len(query_node_runs_queue) \in Nat
    /\ Runs = 1..Len(query_node_runs_queue)
    /\ \A r \in Runs :
          /\ RunNodes(r) \in Seq(plan.nodes)
          /\ RunNodes(r) # <<>>
          /\ IsInjective(RunNodes(r))
          /\ \A s \in Runs : r # s => NodesIn(r) \cap NodesIn(s) = {}
          /\ \A s \in Runs : s < r =>
                \A m \in NodesIn(s) : Producers(plan, m) \cap NodesIn(r) = {}
KeptKnown ==
    /\ linked_nodes \subseteq Edges(plan)
    /\ \A e \in linked_nodes : \A r \in Runs :
          e.from \in NodesIn(r) =>
              /\ \A s \in 1..r : e.to \notin NodesIn(s)
              /\ r >= next_run => next_nodes[e.from][e.output] = e.to
AllInRuns == \A n \in plan.nodes : \E r \in Runs : n \in NodesIn(r)

ScheduleKnown ==
    /\ plan \in Plans
    /\ LinksKnown
    /\ RunsKnown
    /\ KeptKnown
    /\ is_graph_empty /\ query_node_runs_queue # <<>> => AllInRuns

LEMMA PlanFacts ==
    ASSUME plan \in Plans
    PROVE  /\ plan.nodes \subseteq Nat \ {Null}
           /\ IsFiniteSet(plan.nodes)
           /\ \A n \in plan.nodes :
                 /\ \E k \in Nat : Inputs(plan, n) = 1..k
                 /\ \E k \in Nat : Outputs(plan, n) = 1..k
           /\ \A n \in plan.nodes : Producers(plan, n) \subseteq plan.nodes
           /\ IsAcyclic(plan)
<1>1. /\ plan.nodes \subseteq Nat \ {Null} /\ IsFiniteSet(plan.nodes) /\ IsAcyclic(plan)
      /\ plan.previous_nodes \in [plan.nodes -> Seq(plan.nodes \cup {Null})]
      /\ plan.next_nodes \in [plan.nodes -> Seq(plan.nodes \cup {Null})]
  BY PlansAssumption DEF IsPlan, IsLinked
<1>2. ASSUME NEW n \in plan.nodes
      PROVE  /\ \E k \in Nat : Inputs(plan, n) = 1..k
             /\ \E k \in Nat : Outputs(plan, n) = 1..k
             /\ Producers(plan, n) \subseteq plan.nodes
  <2>1. /\ plan.previous_nodes[n] \in Seq(plan.nodes \cup {Null})
        /\ plan.next_nodes[n] \in Seq(plan.nodes \cup {Null})
    BY <1>1
  <2>2. QED
    BY <2>1, LenProperties DEF Inputs, Outputs, Producers
<1>3. QED
  BY <1>1, <1>2

(* Where an edge of the plan begins and ends.                              *)
LEMMA EdgeFacts ==
    ASSUME NEW e \in Edges(plan)
    PROVE  /\ e.from \in plan.nodes /\ e.to \in plan.nodes
           /\ e.output \in Outputs(plan, e.from) /\ e.input \in Inputs(plan, e.to)
           /\ plan.next_nodes[e.from][e.output] = e.to
           /\ plan.previous_nodes[e.to][e.input] = e.from
           /\ e = Edge(e.from, e.output, e.to, e.input)
BY DEF Edges, Edge

(* All that while the scheduler is at work, and when it is done.           *)
ScheduleReady ==
    /\ plan \in Plans /\ LinksKnown /\ RunsKnown /\ KeptKnown
    /\ phase = "scheduled" => AllInRuns

LEMMA ScheduleIsReady == Proved!SchedulerInv => ScheduleReady
<1> SUFFICES ASSUME Proved!SchedulerInv PROVE ScheduleReady
  OBVIOUS
<1>1. /\ Proved!PlanKnown /\ Proved!FieldsOK /\ Proved!ScheduleInv
      /\ Proved!RunsClosed /\ linked_nodes \subseteq Proved!Edges(plan)
      /\ Proved!NodesOnce /\ Proved!KeptForLater /\ Proved!ProducersFirst /\ Proved!LinksCut
      /\ phase = "scheduled" => current_query_nodes = <<>>
  BY DEF Proved!SchedulerInv, Proved!IInv, Proved!StreamsInv, Proved!RunsReady
<1>2. plan \in Plans
  BY <1>1 DEF Proved!PlanKnown
<1>3. LinksKnown
  BY <1>1 DEF LinksKnown, Inputs, Outputs, Null, Proved!FieldsOK, Proved!LinksOK,
              Proved!LinksCut, Proved!Inputs, Proved!Outputs, Proved!Null
<1>4. query_node_runs_queue \in Seq(Proved!Run)
  BY <1>1 DEF Proved!FieldsOK, Proved!RunsOK
<1>5. Len(query_node_runs_queue) \in Nat /\ Runs = 1..Len(query_node_runs_queue)
  BY <1>4, LenProperties DEF Runs
<1>6. ASSUME NEW r \in Runs
      PROVE  /\ RunNodes(r) \in Seq(plan.nodes)
             /\ RunNodes(r) # <<>>
             /\ IsInjective(RunNodes(r))
  <2>1. RunNodes(r) \in Seq(plan.nodes)
    <3>1. query_node_runs_queue[r] \in Proved!Run
      BY <1>4, <1>5, ElementOfSeq
    <3>2. QED
      BY <3>1 DEF Proved!Run, RunNodes
  <2>2. QED
    BY <1>1, <2>1, Zenon DEF Proved!NodesOnce, Runs, RunNodes, IsInjective, Proved!IsInjective
<1>7. \A r, s \in Runs : r # s => NodesIn(r) \cap NodesIn(s) = {}
  BY <1>1, Zenon DEF Proved!NodesOnce, Runs, NodesIn, RunNodes, ToSet, Proved!ToSet
<1>8. \A r, s \in Runs : s < r =>
         \A m \in NodesIn(s) : Producers(plan, m) \cap NodesIn(r) = {}
  BY <1>1, Zenon DEF Proved!ProducersFirst, Runs, NodesIn, RunNodes, ToSet, Proved!ToSet,
                Producers, Proved!Producers, Inputs, Proved!Inputs, Null, Proved!Null
<1>9. RunsKnown
  BY <1>5, <1>6, <1>7, <1>8 DEF RunsKnown
<1>10. KeptKnown
  <2>1. linked_nodes \subseteq Edges(plan)
    <3>1. Edges(plan) = Proved!Edges(plan)
      BY DEF Edges, Edge, Inputs, Outputs, Proved!Edges, Proved!Edge,
             Proved!Inputs, Proved!Outputs
    <3>2. QED
      BY <1>1, <3>1
  <2>2. \A e \in linked_nodes : \A r \in Runs :
           e.from \in NodesIn(r) =>
               /\ \A s \in 1..r : e.to \notin NodesIn(s)
               /\ next_nodes[e.from][e.output] = e.to
    BY <1>1, Zenon DEF Proved!KeptForLater, Runs, NodesIn, RunNodes, ToSet, Proved!ToSet
  <2>3. QED
    BY <2>1, <2>2 DEF KeptKnown
<1>11. ASSUME phase = "scheduled" PROVE AllInRuns
  <2>1. Proved!EveryNodeScheduled
    BY <1>1, PlansKnown, Proved!NothingForgotten
  <2>2. current_query_nodes = <<>> /\ Proved!ToSet(scheduled_queries) = plan.nodes
    BY <1>1, <1>11, <2>1 DEF Proved!EveryNodeScheduled
  <2>3. Proved!ToSet(current_query_nodes) = {}
    BY <2>2 DEF Proved!ToSet
  <2>4. Proved!ClosedNodes = plan.nodes
    BY <1>1, <2>2, <2>3 DEF Proved!RunsClosed
  <2>5. QED
    BY <2>4, Zenon DEF AllInRuns, Proved!ClosedNodes, Runs, NodesIn, RunNodes, ToSet, Proved!ToSet
<1>12. QED
  BY <1>2, <1>3, <1>9, <1>10, <1>11 DEF ScheduleReady

(* The same in the next state.                                             *)
LEMMA ScheduleStaysReady == Proved!SchedulerInv' => ScheduleReady'
BY ScheduleIsReady, PTL

-----------------------------------------------------------------------------
(***************************************************************************)
(* Where the program is, and the nodes it has set up.                      *)
(***************************************************************************)
StateOK ==
    /\ current_state \in {"ScheduleState", "SetupNodesState", "ExecuteState"}
    /\ step \in {"start", "ids", "memory", "validate", "setup", "run", "process", "free"}
    /\ busy_flag \in BOOLEAN
    /\ next_run \in 1..(Len(query_node_runs_queue) + 1)
    /\ ~is_graph_empty => current_state = "ScheduleState" /\ next_run = 1
    /\ current_state = "ScheduleState" => step = "start"
    /\ current_state = "ScheduleState" /\ is_graph_empty =>
          next_run = Len(query_node_runs_queue) + 1
    /\ ~busy_flag => current_state = "ScheduleState" /\ is_graph_empty
    /\ step # "start" => next_run > 1
    /\ step \in {"ids", "memory"} => setup_index \in DOMAIN CurrentRun
NamesOK ==
    /\ scheduled_node_names \in Seq(plan.nodes)
    /\ IsInjective(scheduled_node_names)
    /\ ToSet(scheduled_node_names) = UNION {NodesIn(r) : r \in 1..(next_run - 1)}

Scheduling == ~is_graph_empty => Proved!SchedulerInv

ControlInv == Scheduling /\ ScheduleKnown /\ StateOK /\ NamesOK

LEMMA InitControl == Init => ControlInv
<1> SUFFICES ASSUME Init PROVE ControlInv
  OBVIOUS
<1>1. Proved!SchedulerInv
  BY SchedulerStarts DEF Init
<1>2. query_node_runs_queue = <<>>
  BY DEF Init, Scheduler!Init
<1>3. ScheduleKnown
  BY <1>1, <1>2, ScheduleIsReady DEF ScheduleKnown, ScheduleReady
<1>4. StateOK
  BY <1>2 DEF Init, StateOK
<1>5. NamesOK
  <2>1. scheduled_node_names = <<>> /\ next_run = 1
    BY DEF Init
  <2>2. DOMAIN scheduled_node_names = {} /\ 1..(next_run - 1) = {}
    BY <2>1
  <2>3. QED
    BY <2>1, <2>2 DEF NamesOK, IsInjective, ToSet
<1>6. QED
  BY <1>1, <1>3, <1>4, <1>5 DEF ControlInv, Scheduling

(* The steps that touch neither the runs nor the blocks.                   *)
QuietStep ==
    \/ LeaveScheduleState
    \/ SetFinishedFlag
    \/ LeaveSetupNodesState
    \/ AllocateStreamIDs
    \/ CrashOnNullLink
    \/ IsRunValid
    \/ RunIsInvalid
    \/ SetupQueryAcceleration
    \/ RunQueryAcceleration
    \/ ProcessResults
    \/ UNCHANGED vars

LEMMA Steps ==
    ASSUME [Next]_vars
    PROVE  \/ ScheduleUnscheduledNodes \/ SetupNextRunData \/ AllocateMemoryBlocks
           \/ FreeMemoryBlocks \/ QuietStep
BY DEF Next, QuietStep

LEMMA QuietSteps ==
    ASSUME QuietStep
    PROVE  /\ UNCHANGED <<schedulerVars, memoryVars, next_run, scheduled_node_names,
                          input_memory_blocks, output_memory_blocks, input_stream_sizes>>
           /\ step' = "start" <=> step = "start"
           /\ step = "memory" => step' = "memory" /\ setup_index' = setup_index
           /\ step' = "memory" => step = "memory" \/ (step = "ids" /\ setup_index' = 1)
           /\ step' = "ids" => step = "ids"
           /\ error' = "none" => error = "none"
           /\ error' = "Can't allocate any more memory!" => error = error'
           /\ step \notin {"ids", "start"} => available_ids' = available_ids
BY DEF QuietStep, vars, schedulerVars, memoryVars, streamVars, controlVars, idVars,
       IsRunning, LeaveScheduleState, SetFinishedFlag, LeaveSetupNodesState,
       AllocateStreamIDs, CrashOnNullLink, IsRunValid, RunIsInvalid,
       SetupQueryAcceleration, FPGA!SetupError, RunQueryAcceleration, ProcessResults

(* Some steps leave the runs alone.                                        *)
LEMMA SameSchedule ==
    ASSUME ScheduleKnown, UNCHANGED <<schedulerVars, next_run>>,
           is_graph_empty' /\ query_node_runs_queue # <<>> => AllInRuns
    PROVE  /\ ScheduleKnown'
           /\ \A r : RunNodes(r)' = RunNodes(r) /\ NodesIn(r)' = NodesIn(r)
<1>1. UNCHANGED <<plan, previous_nodes, next_nodes, query_node_runs_queue,
                  linked_nodes, next_run>>
  BY DEF schedulerVars
<1>2. \A r : RunNodes(r)' = RunNodes(r) /\ NodesIn(r)' = NodesIn(r)
  BY <1>1 DEF RunNodes, NodesIn
<1>3. LinksKnown'
  BY <1>1 DEF ScheduleKnown, LinksKnown
<1>4. RunsKnown'
  BY <1>1, <1>2 DEF ScheduleKnown, RunsKnown, Runs
<1>5. KeptKnown'
  BY <1>1, <1>2 DEF ScheduleKnown, KeptKnown, Runs
<1>6. AllInRuns => AllInRuns'
  BY <1>1, <1>2 DEF AllInRuns, Runs
<1>7. QED
  BY <1>1, <1>2, <1>3, <1>4, <1>5, <1>6 DEF ScheduleKnown

LEMMA SchedulerKeepsPlan == Scheduler!Next => UNCHANGED plan
BY DEF Scheduler!Next, Scheduler!PlaceModule, Scheduler!PlacePassThrough,
       Scheduler!AddToRun, Scheduler!ConsiderNextNode, Scheduler!EraseStartingNode,
       Scheduler!TryNextNode, Scheduler!SkipNode, Scheduler!OperationNotFound,
       Scheduler!CloseRun, Scheduler!FailToSchedule, Scheduler!vars

LEMMA ScheduleControl ==
    ASSUME ControlInv, ScheduleUnscheduledNodes
    PROVE  ControlInv'
<1>1. /\ ~is_graph_empty /\ next_run = 1 /\ Scheduler!Next
      /\ current_state = "ScheduleState" /\ step = "start" /\ busy_flag
      /\ UNCHANGED <<is_graph_empty, next_run, current_state, step, busy_flag,
                     scheduled_node_names>>
  BY DEF ScheduleUnscheduledNodes, controlVars, ControlInv, StateOK, IsRunning
<1>2. Proved!SchedulerInv'
  BY <1>1, SchedulerSteps DEF ControlInv, Scheduling
<1>3. ScheduleKnown'
  BY <1>1, <1>2, ScheduleStaysReady DEF ScheduleKnown, ScheduleReady
<1>4. StateOK'
  <2>1. Len(query_node_runs_queue') \in Nat
    BY <1>3 DEF ScheduleKnown, RunsKnown
  <2>2. QED
    BY <1>1, <2>1 DEF StateOK
<1>5. NamesOK'
  <2>1. plan' = plan
    BY <1>1, SchedulerKeepsPlan
  <2>2. 1..(next_run - 1) = {} /\ 1..(next_run' - 1) = {}
    BY <1>1
  <2>3. QED
    BY <1>1, <2>1, <2>2 DEF ControlInv, NamesOK
<1>6. QED
  BY <1>1, <1>2, <1>3, <1>4, <1>5 DEF ControlInv, Scheduling

(* The steps of the execution that leave the runs alone.                   *)
LEMMA RunKeptControl ==
    ASSUME ControlInv, QuietStep \/ AllocateMemoryBlocks \/ FreeMemoryBlocks
    PROVE  /\ ControlInv'
           /\ UNCHANGED <<schedulerVars, next_run, scheduled_node_names>>
           /\ \A r : RunNodes(r)' = RunNodes(r) /\ NodesIn(r)' = NodesIn(r)
<1>1. UNCHANGED <<schedulerVars, next_run, scheduled_node_names>>
  BY QuietSteps DEF AllocateMemoryBlocks, FreeMemoryBlocks
<1>2. is_graph_empty' = is_graph_empty \/ LeaveScheduleState
  <2>1. QuietStep => is_graph_empty' = is_graph_empty \/ LeaveScheduleState
    BY DEF QuietStep, vars, controlVars, SetFinishedFlag, LeaveSetupNodesState,
           AllocateStreamIDs, CrashOnNullLink, IsRunValid, RunIsInvalid,
           SetupQueryAcceleration, RunQueryAcceleration, ProcessResults
  <2>2. AllocateMemoryBlocks \/ FreeMemoryBlocks => is_graph_empty' = is_graph_empty
    BY DEF AllocateMemoryBlocks, FreeMemoryBlocks
  <2>3. QED
    BY <2>1, <2>2
<1>3. Scheduling'
  BY <1>1, <1>2, SchedulerSteps DEF ControlInv, Scheduling, LeaveScheduleState
<1>4. /\ ScheduleKnown'
      /\ \A r : RunNodes(r)' = RunNodes(r) /\ NodesIn(r)' = NodesIn(r)
  <2>1. is_graph_empty' /\ query_node_runs_queue # <<>> => AllInRuns
    BY <1>2, ScheduleIsReady
       DEF ControlInv, Scheduling, ScheduleKnown, ScheduleReady, LeaveScheduleState
  <2>2. QED
    BY <1>1, <2>1, SameSchedule DEF ControlInv
<1>5. StateOK'
  <2>1. /\ UNCHANGED <<query_node_runs_queue, next_run>>
        /\ CurrentRun' = CurrentRun
    BY <1>1, <1>4 DEF schedulerVars, CurrentRun
  <2>2. CurrentRun \in Seq(plan.nodes) \/ ~(step \in {"ids", "memory"})
    <3>1. step \in {"ids", "memory"} => next_run - 1 \in Runs
      BY DEF ControlInv, StateOK, ScheduleKnown, RunsKnown
    <3>2. QED
      BY <3>1 DEF CurrentRun, ControlInv, ScheduleKnown, RunsKnown
  <2>3. step \in {"ids", "memory"} =>
            DOMAIN CurrentRun = 1..Len(CurrentRun) /\ Len(CurrentRun) \in Nat
    BY <2>2, LenProperties
  <2>4. CASE LeaveScheduleState
    BY <2>1, <2>3, <2>4 DEF ControlInv, StateOK, LeaveScheduleState
  <2>5. CASE SetFinishedFlag
    BY <2>1, <2>3, <2>5 DEF ControlInv, StateOK, SetFinishedFlag
  <2>6. CASE LeaveSetupNodesState
    BY <2>1, <2>3, <2>6 DEF ControlInv, StateOK, LeaveSetupNodesState, IsARunScheduled
  <2>7. CASE AllocateStreamIDs
    <3>1. /\ UNCHANGED <<current_state, busy_flag, is_graph_empty>>
          /\ step = "ids" /\ step' \in {"ids", "memory"}
          /\ \/ setup_index' = setup_index
             \/ setup_index' = 1
             \/ setup_index < Len(CurrentRun) /\ setup_index' = setup_index + 1
      BY <2>7 DEF AllocateStreamIDs, IDs!idVars
    <3>2. setup_index \in DOMAIN CurrentRun /\ setup_index' \in DOMAIN CurrentRun
      BY <2>3, <3>1 DEF ControlInv, StateOK
    <3>3. QED
      BY <2>1, <3>1, <3>2 DEF ControlInv, StateOK
  <2>8. CASE CrashOnNullLink
    BY <2>1, <2>3, <2>8 DEF ControlInv, StateOK, CrashOnNullLink
  <2>9. CASE IsRunValid
    BY <2>1, <2>3, <2>9 DEF ControlInv, StateOK, IsRunValid
  <2>10. CASE RunIsInvalid
    BY <2>1, <2>3, <2>10 DEF ControlInv, StateOK, RunIsInvalid
  <2>11. CASE SetupQueryAcceleration
    BY <2>1, <2>3, <2>11 DEF ControlInv, StateOK, SetupQueryAcceleration
  <2>12. CASE RunQueryAcceleration
    BY <2>1, <2>3, <2>12 DEF ControlInv, StateOK, RunQueryAcceleration
  <2>13. CASE ProcessResults
    BY <2>1, <2>3, <2>13 DEF ControlInv, StateOK, ProcessResults
  <2>14. CASE UNCHANGED vars
    BY <2>1, <2>3, <2>14 DEF ControlInv, StateOK, vars, controlVars
  <2>15. CASE AllocateMemoryBlocks
    <3>1. /\ UNCHANGED <<busy_flag, is_graph_empty>> /\ step = "memory"
          /\ \/ UNCHANGED <<current_state, step, setup_index>>
             \/ /\ UNCHANGED <<current_state, step>>
                /\ setup_index < Len(CurrentRun) /\ setup_index' = setup_index + 1
             \/ current_state' = "ExecuteState" /\ step' = "validate"
      BY <2>15 DEF AllocateMemoryBlocks
    <3>2. /\ setup_index \in DOMAIN CurrentRun /\ current_state # "ScheduleState"
          /\ step' = "memory" => setup_index' \in DOMAIN CurrentRun
      BY <2>3, <3>1 DEF ControlInv, StateOK
    <3>3. QED
      BY <2>1, <3>1, <3>2 DEF ControlInv, StateOK
  <2>16. CASE FreeMemoryBlocks
    BY <2>1, <2>16 DEF ControlInv, StateOK, FreeMemoryBlocks
  <2>17. QED
    BY <2>4, <2>5, <2>6, <2>7, <2>8, <2>9, <2>10, <2>11, <2>12, <2>13, <2>14, <2>15, <2>16 DEF QuietStep
<1>6. NamesOK'
  BY <1>1, <1>4 DEF ControlInv, NamesOK, schedulerVars
<1>7. QED
  BY <1>1, <1>3, <1>4, <1>5, <1>6 DEF ControlInv

(* SetupNextRunData takes the next run.                                    *)
LEMMA SetupChanges ==
    ASSUME ControlInv, SetupNextRunData
    PROVE  /\ next_run \in Runs /\ is_graph_empty /\ next_run' - 1 = next_run
           /\ UNCHANGED <<plan, previous_nodes, query_node_runs_queue, linked_nodes, phase>>
           /\ \A r : RunNodes(r)' = RunNodes(r) /\ NodesIn(r)' = NodesIn(r)
           /\ CurrentRun' = RunNodes(next_run)
           /\ \A n \in plan.nodes \ NodesIn(next_run) : next_nodes'[n] = next_nodes[n]
           /\ \A n \in NodesIn(next_run) :
                 /\ DOMAIN next_nodes'[n] = DOMAIN next_nodes[n]
                 /\ \A i \in DOMAIN next_nodes[n] : next_nodes'[n][i] \in {next_nodes[n][i], Null}
<1>1. /\ next_run \in Nat \ {0} /\ next_run <= Len(query_node_runs_queue)
      /\ current_state = "SetupNodesState" /\ next_run' = next_run + 1
      /\ UNCHANGED <<plan, previous_nodes, query_node_runs_queue, linked_nodes, phase>>
  BY DEF SetupNextRunData, IsARunScheduled, ControlInv, StateOK
<1>2. next_run \in Runs /\ is_graph_empty /\ next_run' - 1 = next_run
  BY <1>1 DEF ControlInv, StateOK, ScheduleKnown, RunsKnown
<1>3. \A r : RunNodes(r)' = RunNodes(r) /\ NodesIn(r)' = NodesIn(r)
  BY <1>1 DEF RunNodes, NodesIn
<1>4. CurrentRun' = RunNodes(next_run)
  BY <1>1, <1>2, <1>3 DEF CurrentRun, RunNodes
<1>5. NodesIn(next_run) \subseteq plan.nodes
  BY <1>2, LenProperties, ElementOfSeq DEF ControlInv, ScheduleKnown, RunsKnown, NodesIn, ToSet
<1>6. next_nodes' = [n \in plan.nodes |->
           IF n \in NodesIn(next_run)
           THEN [i \in DOMAIN next_nodes[n] |->
                    IF next_nodes[n][i] \in NodesIn(next_run) THEN next_nodes[n][i] ELSE Null]
           ELSE next_nodes[n]]
  BY DEF SetupNextRunData, InitialiseVectorSizes, NodesIn
<1>7. QED
  BY <1>1, <1>2, <1>3, <1>4, <1>5, <1>6

LEMMA SetupControl ==
    ASSUME ControlInv, SetupNextRunData
    PROVE  ControlInv'
<1>1. /\ next_run \in Runs /\ is_graph_empty /\ next_run' - 1 = next_run
      /\ UNCHANGED <<plan, previous_nodes, query_node_runs_queue, linked_nodes, phase>>
      /\ \A r : RunNodes(r)' = RunNodes(r) /\ NodesIn(r)' = NodesIn(r)
      /\ CurrentRun' = RunNodes(next_run)
      /\ \A n \in plan.nodes \ NodesIn(next_run) : next_nodes'[n] = next_nodes[n]
      /\ \A n \in NodesIn(next_run) :
            /\ DOMAIN next_nodes'[n] = DOMAIN next_nodes[n]
            /\ \A i \in DOMAIN next_nodes[n] : next_nodes'[n][i] \in {next_nodes[n][i], Null}
  BY SetupChanges
<1>2. /\ is_graph_empty' = is_graph_empty /\ current_state' = current_state
      /\ current_state = "SetupNodesState" /\ busy_flag' = busy_flag /\ busy_flag
      /\ step' = "ids" /\ setup_index' = 1 /\ next_run' = next_run + 1
      /\ scheduled_node_names' = scheduled_node_names \o RunNodes(next_run)
  BY DEF SetupNextRunData, IsRunning
<1>3. ScheduleKnown'
  <2>1. LinksKnown'
    <3>1. LinksKnown
      BY DEF ControlInv, ScheduleKnown
    <3>2. ASSUME NEW n \in plan.nodes PROVE next_nodes'[n] \in Seq(plan.nodes \cup {Null})
      <4>1. next_nodes[n] \in Seq(plan.nodes \cup {Null})
        BY <3>1 DEF LinksKnown
      <4>2. CASE n \in NodesIn(next_run)
        <5>1. next_nodes'[n] = [i \in DOMAIN next_nodes[n] |->
                 IF next_nodes[n][i] \in NodesIn(next_run) THEN next_nodes[n][i] ELSE Null]
          BY <4>2 DEF SetupNextRunData, InitialiseVectorSizes, NodesIn
        <5>2. next_nodes'[n] \in [1..Len(next_nodes[n]) -> plan.nodes \cup {Null}]
          BY <4>1, <5>1, LenProperties
        <5>3. QED
          BY <4>1, <5>2, LenProperties, SeqDef
      <4>3. QED
        BY <1>1, <4>1, <4>2
    <3>3. next_nodes' = [n \in plan.nodes |-> next_nodes'[n]]
      BY DEF SetupNextRunData, InitialiseVectorSizes
    <3>4. next_nodes' \in [plan.nodes -> Seq(plan.nodes \cup {Null})]
      BY <3>2, <3>3, Zenon
    <3>5. QED
      BY <1>1, <3>1, <3>4 DEF LinksKnown
  <2>2. RunsKnown'
    BY <1>1 DEF ControlInv, ScheduleKnown, RunsKnown, Runs
  <2>3. KeptKnown'
    <3>1. KeptKnown /\ RunsKnown
      BY DEF ControlInv, ScheduleKnown
    <3>2. ASSUME NEW e \in linked_nodes, NEW r \in Runs, e.from \in NodesIn(r), r >= next_run'
          PROVE  next_nodes'[e.from][e.output] = e.to
      <4>1. r \in Nat /\ next_run \in Nat /\ r # next_run /\ r >= next_run
        BY <1>1, <1>2, <3>1, <3>2 DEF RunsKnown
      <4>2. e.from \in plan.nodes \ NodesIn(next_run)
        <5>1. e.from \notin NodesIn(next_run)
          BY <1>1, <3>1, <3>2, <4>1 DEF RunsKnown
        <5>2. e.from \in plan.nodes
          BY <3>1, EdgeFacts DEF KeptKnown
        <5>3. QED
          BY <5>1, <5>2
      <4>3. next_nodes[e.from][e.output] = e.to
        BY <3>1, <3>2, <4>1 DEF KeptKnown
      <4>4. QED
        BY <1>1, <4>2, <4>3
    <3>3. QED
      BY <1>1, <3>1, <3>2 DEF KeptKnown, Runs
  <2>4. AllInRuns => AllInRuns'
    BY <1>1 DEF AllInRuns, Runs
  <2>5. QED
    BY <1>1, <1>2, <2>1, <2>2, <2>3, <2>4 DEF ControlInv, ScheduleKnown
<1>4. StateOK'
  <2>1. RunNodes(next_run) \in Seq(plan.nodes) /\ RunNodes(next_run) # <<>>
    BY <1>1 DEF ControlInv, ScheduleKnown, RunsKnown
  <2>2. setup_index' \in DOMAIN CurrentRun'
    BY <1>1, <1>2, <2>1, FirstElement
  <2>3. next_run' \in 1..(Len(query_node_runs_queue') + 1) /\ next_run' > 1
    BY <1>1, <1>2 DEF ControlInv, ScheduleKnown, RunsKnown
  <2>4. QED
    BY <1>1, <1>2, <2>2, <2>3 DEF ControlInv, StateOK
<1>5. NamesOK'
  <2>1. /\ RunNodes(next_run) \in Seq(plan.nodes)
        /\ IsInjective(RunNodes(next_run))
        /\ scheduled_node_names \in Seq(plan.nodes)
        /\ IsInjective(scheduled_node_names)
        /\ ToSet(scheduled_node_names) = UNION {NodesIn(r) : r \in 1..(next_run - 1)}
    BY <1>1 DEF ControlInv, ScheduleKnown, RunsKnown, NamesOK
  <2>2. \A r \in 1..(next_run - 1) : r \in Runs /\ r # next_run
    BY <1>1 DEF ControlInv, ScheduleKnown, RunsKnown
  <2>3. \A r \in 1..(next_run - 1) : NodesIn(r) \cap NodesIn(next_run) = {}
    BY <1>1, <2>2 DEF ControlInv, ScheduleKnown, RunsKnown
  <2>4. ToSet(scheduled_node_names) \cap ToSet(RunNodes(next_run)) = {}
    BY <2>1, <2>3 DEF NodesIn
  <2>5. /\ scheduled_node_names' \in Seq(plan.nodes)
        /\ IsInjective(scheduled_node_names')
        /\ ToSet(scheduled_node_names') = ToSet(scheduled_node_names) \cup NodesIn(next_run)
    BY <1>2, <2>1, <2>4, ConcatProperties, ConcatInjective, ConcatToSet DEF NodesIn
  <2>6. \A r : r \in 1..(next_run' - 1) <=> r \in 1..(next_run - 1) \/ r = next_run
    BY <1>1 DEF ControlInv, ScheduleKnown, RunsKnown
  <2>7. ToSet(scheduled_node_names)' = UNION {NodesIn(r) : r \in 1..(next_run' - 1)}
    BY <2>1, <2>5, <2>6 DEF NodesIn
  <2>8. QED
    BY <1>1, <2>5, <2>7 DEF NamesOK
<1>6. QED
  BY <1>1, <1>2, <1>3, <1>4, <1>5 DEF ControlInv, Scheduling

LEMMA NextControl == ControlInv /\ [Next]_vars => ControlInv'
BY Steps, ScheduleControl, SetupControl, RunKeptControl

(* The run being executed, and the nodes of the runs before it.            *)
IsBeingRun(n) == step # "start" /\ InRun(n)
HasFinished(n) == HasRun(n) /\ ~IsBeingRun(n)

LEMMA CurrentRunKnown ==
    ASSUME ControlInv, step # "start"
    PROVE  /\ next_run - 1 \in Runs /\ is_graph_empty
           /\ CurrentRun = RunNodes(next_run - 1)
           /\ CurrentRun \in Seq(plan.nodes) /\ IsInjective(CurrentRun)
           /\ DOMAIN CurrentRun = 1..Len(CurrentRun) /\ Len(CurrentRun) \in Nat
           /\ \A n : InRun(n) <=> n \in NodesIn(next_run - 1)
           /\ \A n : InRun(n) => n \in plan.nodes /\ HasRun(n)
<1>1. next_run - 1 \in Runs /\ next_run - 1 \in 1..(next_run - 1) /\ is_graph_empty
  BY DEF ControlInv, StateOK, ScheduleKnown, RunsKnown
<1>2. /\ CurrentRun = RunNodes(next_run - 1)
      /\ CurrentRun \in Seq(plan.nodes) /\ IsInjective(CurrentRun)
  BY <1>1 DEF CurrentRun, ControlInv, ScheduleKnown, RunsKnown
<1>3. DOMAIN CurrentRun = 1..Len(CurrentRun) /\ Len(CurrentRun) \in Nat
  BY <1>2, LenProperties
<1>4. \A n : InRun(n) <=> n \in NodesIn(next_run - 1)
  BY <1>2 DEF InRun, NodesIn
<1>5. ASSUME NEW n, InRun(n) PROVE n \in plan.nodes /\ HasRun(n)
  <2>1. n \in plan.nodes
    BY <1>2, <1>3, <1>5, ElementOfSeq DEF InRun, ToSet
  <2>2. HasRun(n)
    BY <1>1, <1>4, <1>5 DEF HasRun, NodesIn
  <2>3. QED
    BY <2>1, <2>2
<1>6. QED
  BY <1>1, <1>2, <1>3, <1>4, <1>5

(* The node being set up is one of the run.                                *)
LEMMA SetupNodeKnown ==
    ASSUME ControlInv, step = "memory" \/ step = "ids"
    PROVE  /\ setup_index \in DOMAIN CurrentRun
           /\ SetupNode \in plan.nodes /\ InRun(SetupNode) /\ IsBeingRun(SetupNode)
<1>1. setup_index \in DOMAIN CurrentRun /\ step # "start"
  BY DEF ControlInv, StateOK
<1>2. InRun(SetupNode)
  BY <1>1 DEF SetupNode, InRun, ToSet
<1>3. QED
  BY <1>1, <1>2, CurrentRunKnown DEF IsBeingRun

LEMMA SameRuns ==
    ASSUME UNCHANGED <<schedulerVars, next_run>>, step' = "start" <=> step = "start"
    PROVE  /\ UNCHANGED <<plan, previous_nodes, next_nodes, linked_nodes>>
           /\ CurrentRun' = CurrentRun /\ CurrentLinks' = CurrentLinks
           /\ \A n : /\ InRun(n)' <=> InRun(n)
                     /\ HasRun(n)' <=> HasRun(n)
                     /\ IsBeingRun(n)' <=> IsBeingRun(n)
                     /\ HasFinished(n)' <=> HasFinished(n)
<1>1. /\ UNCHANGED <<plan, previous_nodes, next_nodes, linked_nodes>>
      /\ UNCHANGED <<query_node_runs_queue, next_run>>
  BY DEF schedulerVars
<1>2. CurrentRun' = CurrentRun
  BY <1>1 DEF CurrentRun, RunNodes
<1>3. \A n : (InRun(n)' <=> InRun(n)) /\ (HasRun(n)' <=> HasRun(n))
  BY <1>1, <1>2 DEF InRun, HasRun, RunNodes
<1>4. CurrentLinks' = CurrentLinks
  BY <1>1, <1>3 DEF CurrentLinks
<1>5. QED
  BY <1>1, <1>2, <1>3, <1>4 DEF IsBeingRun, HasFinished

-----------------------------------------------------------------------------
(***************************************************************************)
(* Vectors of blocks.  An empty place holds NoBlock.                       *)
(***************************************************************************)
MaybeBlock == Memory!Block \cup {NoBlock}

LEMMA BlockNumbers ==
    /\ MaxPossibleAllocations \in Nat
    /\ Memory!Block = 1..MaxPossibleAllocations
    /\ NoBlock = 0
    /\ \A b : IsBlock(b) <=> b # 0
    /\ \A b \in MaybeBlock : IsBlock(b) <=> b \in Memory!Block
BY AllocationsAssumption DEF Memory!Block, NoBlock, Memory!NoBlock, IsBlock, MaybeBlock

(* A function on the streams of a node is a sequence.                      *)
LEMMA StreamSequence ==
    ASSUME NEW S, NEW k \in Nat, NEW f \in [1..k -> S]
    PROVE  f \in Seq(S)
BY SeqDef

(* No block is at two places of a vector.                                  *)
PlacesApart(blocks) ==
    \A k, l \in DOMAIN blocks : IsBlock(blocks[k]) /\ blocks[k] = blocks[l] => k = l

LEMMA BlocksOfElements ==
    ASSUME NEW blocks \in Seq(MaybeBlock)
    PROVE  /\ BlocksOf(blocks) \in Seq(Memory!Block)
           /\ ToSet(BlocksOf(blocks)) = ToSet(blocks) \ {0}
           /\ PlacesApart(blocks) => IsInjective(BlocksOf(blocks))
<1> DEFINE B == Memory!Block
           n == Len(blocks)
           part == [k \in DOMAIN blocks |-> IF IsBlock(blocks[k]) THEN <<blocks[k]>> ELSE <<>>]
<1>1. n \in Nat /\ DOMAIN blocks = 1..n /\ \A k \in 1..n : blocks[k] \in MaybeBlock
  BY LenProperties
<1>2. \A k \in 1..n : IsBlock(blocks[k]) => blocks[k] \in B /\ blocks[k] # 0
  BY <1>1, BlockNumbers
<1>3. \A k \in 1..n : ~IsBlock(blocks[k]) => blocks[k] = 0
  BY BlockNumbers
<1>4. DOMAIN part = 1..n
  BY <1>1
<1>5. ASSUME NEW k \in 1..n
      PROVE  /\ part[k] \in Seq(B) /\ IsInjective(part[k])
             /\ IsBlock(blocks[k]) => ToSet(part[k]) = {blocks[k]}
             /\ ~IsBlock(blocks[k]) => ToSet(part[k]) = {}
  <2>1. part[k] = IF IsBlock(blocks[k]) THEN <<blocks[k]>> ELSE <<>>
    BY <1>1
  <2>2. CASE IsBlock(blocks[k])
    <3>1. part[k] = <<blocks[k]>> /\ blocks[k] \in B
      BY <1>2, <2>1, <2>2
    <3>2. ASSUME NEW b \in B
          PROVE  <<b>> \in Seq(B) /\ IsInjective(<<b>>) /\ ToSet(<<b>>) = {b}
      BY DEF IsInjective, ToSet
    <3>3. QED
      BY <2>2, <3>1, <3>2
  <2>3. CASE ~IsBlock(blocks[k])
    <3>1. part[k] = <<>>
      BY <2>1, <2>3
    <3>2. <<>> \in Seq(B) /\ IsInjective(<<>>) /\ ToSet(<<>>) = {}
      BY DEF IsInjective, ToSet
    <3>3. QED
      BY <2>3, <3>1, <3>2
  <2>4. QED
    BY <2>2, <2>3
<1>6. part \in Seq(Seq(B))
  <2>1. part \in [1..n -> Seq(B)]
    BY <1>1, <1>5
  <2>2. QED
    BY <1>1, <2>1, StreamSequence
<1>7. BlocksOf(blocks) = FlattenSeq(part)
  BY DEF BlocksOf
<1> HIDE DEF part, n
<1>8. /\ FlattenSeq(part) \in Seq(B)
      /\ ToSet(FlattenSeq(part)) = UNION {ToSet(part[k]) : k \in DOMAIN part}
      /\ (/\ \A k \in DOMAIN part : IsInjective(part[k])
          /\ \A k, l \in DOMAIN part : k # l => ToSet(part[k]) \cap ToSet(part[l]) = {})
         => IsInjective(FlattenSeq(part))
  BY <1>6, FlattenSeqElements
<1>9. UNION {ToSet(part[k]) : k \in DOMAIN part} = ToSet(blocks) \ {0}
  <2>1. \A b : b \in ToSet(blocks) <=> \E k \in 1..n : b = blocks[k]
    BY <1>1 DEF ToSet
  <2>2. ASSUME NEW b, NEW k \in 1..n, b \in ToSet(part[k]) PROVE b = blocks[k] /\ b # 0
    BY <1>2, <1>5, <2>2
  <2>3. ASSUME NEW k \in 1..n, blocks[k] # 0 PROVE blocks[k] \in ToSet(part[k])
    BY <1>3, <1>5, <2>3
  <2>4. QED
    BY <1>4, <2>1, <2>2, <2>3
<1>10. ASSUME PlacesApart(blocks)
       PROVE  \A k, l \in DOMAIN part : k # l => ToSet(part[k]) \cap ToSet(part[l]) = {}
  <2>1. \A k, l \in 1..n : IsBlock(blocks[k]) /\ blocks[k] = blocks[l] => k = l
    BY <1>1, <1>10 DEF PlacesApart
  <2>2. ASSUME NEW b, NEW k \in 1..n, b \in ToSet(part[k]) PROVE b = blocks[k] /\ IsBlock(blocks[k])
    BY <1>5, <2>2
  <2>3. QED
    BY <1>4, <2>1, <2>2
<1>11. QED
  BY <1>4, <1>5, <1>7, <1>8, <1>9, <1>10

(* Each stream that asks for a block has a request of its own, and each    *)
(* request is of a stream.                                                 *)
LEMMA Requests ==
    ASSUME ControlInv, NEW n \in plan.nodes
    PROVE  /\ RequestedBlocks(n) \in Nat
           /\ \A i \in OutputsToMemory(n) : OutputRequest(n, i) \in 1..RequestedBlocks(n)
           /\ \A j \in InputsFromFile(n) : InputRequest(n, j) \in 1..RequestedBlocks(n)
           /\ \A i, k \in OutputsToMemory(n) : OutputRequest(n, i) = OutputRequest(n, k) => i = k
           /\ \A j, k \in InputsFromFile(n) : InputRequest(n, j) = InputRequest(n, k) => j = k
           /\ \A i \in OutputsToMemory(n), j \in InputsFromFile(n) :
                 OutputRequest(n, i) # InputRequest(n, j)
           /\ \A r \in 1..RequestedBlocks(n) :
                 \/ \E i \in OutputsToMemory(n) : OutputRequest(n, i) = r
                 \/ \E j \in InputsFromFile(n) : InputRequest(n, j) = r
<1> DEFINE O == OutputsToMemory(n)
           I == InputsFromFile(n)
           o == Cardinality(O)
           c == Cardinality(I)
           orank(i) == Cardinality({k \in O : k <= i})
           irank(j) == Cardinality({k \in I : k <= j})
<1>1. /\ O \in SUBSET Nat /\ IsFiniteSet(O)
      /\ I \in SUBSET Nat /\ IsFiniteSet(I)
  <2>1. plan \in Plans
    BY DEF ControlInv, ScheduleKnown
  <2>2. DOMAIN next_nodes[n] = Outputs(plan, n) /\ DOMAIN previous_nodes[n] = Inputs(plan, n)
    BY DEF ControlInv, ScheduleKnown, LinksKnown
  <2>3. PICK k \in Nat : Outputs(plan, n) = 1..k
    BY <2>1, PlanFacts
  <2>4. PICK l \in Nat : Inputs(plan, n) = 1..l
    BY <2>1, PlanFacts
  <2>5. O \in SUBSET (1..k) /\ I \in SUBSET (1..l)
    BY <2>2, <2>3, <2>4 DEF OutputsToMemory, InputsFromFile
  <2>6. IsFiniteSet(1..k) /\ IsFiniteSet(1..l)
    BY FS_Interval
  <2> HIDE DEF O, I
  <2>7. O \in SUBSET Nat /\ I \in SUBSET Nat
    BY <2>5
  <2>8. IsFiniteSet(O)
    BY <2>5, <2>6, FS_Subset
  <2>9. IsFiniteSet(I)
    BY <2>5, <2>6, FS_Subset
  <2>10. QED
    BY <2>7, <2>8, <2>9
<1>2. /\ \A i \in O : OutputRequest(n, i) = orank(i)
      /\ \A j \in I : InputRequest(n, j) = o + irank(j)
      /\ RequestedBlocks(n) = o + c
  BY DEF OutputRequest, InputRequest, RequestedBlocks
<1> HIDE DEF O, I
<1>3. /\ o \in Nat /\ c \in Nat
      /\ \A i \in O : orank(i) \in 1..o
      /\ \A j \in I : irank(j) \in 1..c
      /\ \A i, k \in O : orank(i) = orank(k) => i = k
      /\ \A j, k \in I : irank(j) = irank(k) => j = k
      /\ \A r \in 1..o : \E i \in O : orank(i) = r
      /\ \A r \in 1..c : \E j \in I : irank(j) = r
  <2>1. /\ o \in Nat
        /\ \A i \in O : orank(i) \in 1..o
        /\ \A i, k \in O : orank(i) = orank(k) => i = k
        /\ \A r \in 1..o : \E i \in O : orank(i) = r
    BY <1>1, Ranks, Zenon
  <2>2. /\ c \in Nat
        /\ \A j \in I : irank(j) \in 1..c
        /\ \A j, k \in I : irank(j) = irank(k) => j = k
        /\ \A r \in 1..c : \E j \in I : irank(j) = r
    BY <1>1, Ranks, Zenon
  <2>3. QED
    BY <2>1, <2>2
<1> HIDE DEF o, c, orank, irank
<1>4. \A i \in O : OutputRequest(n, i) \in 1..(o + c)
  BY <1>2, <1>3
<1>5. \A j \in I : InputRequest(n, j) \in 1..(o + c)
  BY <1>2, <1>3
<1>6. \A i, k \in O : OutputRequest(n, i) = OutputRequest(n, k) => i = k
  BY <1>2, <1>3
<1>7. \A j, k \in I : InputRequest(n, j) = InputRequest(n, k) => j = k
  BY <1>2, <1>3
<1>8. \A i \in O, j \in I : OutputRequest(n, i) # InputRequest(n, j)
  BY <1>2, <1>3
<1>9. ASSUME NEW r \in 1..(o + c)
      PROVE  \/ \E i \in O : OutputRequest(n, i) = r
             \/ \E j \in I : InputRequest(n, j) = r
  <2>1. CASE r <= o
    BY <1>2, <1>3, <2>1
  <2>2. CASE r > o
    <3>1. r - o \in 1..c
      BY <1>3, <2>2
    <3>2. PICK j \in I : irank(j) = r - o
      BY <1>3, <3>1
    <3>3. InputRequest(n, j) = r
      BY <1>2, <1>3, <3>2
    <3>4. QED
      BY <3>3
  <2>3. QED
    BY <1>3, <2>1, <2>2
<1>10. QED
  BY <1>2, <1>3, <1>4, <1>5, <1>6, <1>7, <1>8, <1>9 DEF O, I

(***************************************************************************)
(* The vectors fit the streams.  Outside a run there are vectors only for  *)
(* the inputs of nodes that have yet to run.                               *)
(***************************************************************************)
VectorsOK ==
    /\ DOMAIN input_memory_blocks = plan.nodes
    /\ DOMAIN output_memory_blocks = plan.nodes
    /\ \A n \in plan.nodes : IsBeingRun(n) =>
          /\ input_memory_blocks[n] \in [Inputs(plan, n) -> MaybeBlock]
          /\ output_memory_blocks[n] \in [Outputs(plan, n) -> MaybeBlock]
    /\ \A n \in plan.nodes : ~IsBeingRun(n) =>
          /\ \/ input_memory_blocks[n] = <<>>
             \/ input_memory_blocks[n] \in [Inputs(plan, n) -> MaybeBlock]
          /\ output_memory_blocks[n] = <<>>
    /\ \A n \in plan.nodes : HasFinished(n) => input_memory_blocks[n] = <<>>
    /\ step # "start" =>
          \A e \in CurrentLinks : DOMAIN input_memory_blocks[e.to] = Inputs(plan, e.to)
SizesOK ==
    /\ DOMAIN input_stream_sizes = plan.nodes
    /\ StreamSizes(input_stream_sizes)
ManagersOK ==
    /\ available_memory_blocks \in Seq(Memory!Block)
    /\ memory_block_count \in 0..(MaxPossibleAllocations + 1)
    /\ available_ids \in Seq(IDs!StreamID)
DataInv == VectorsOK /\ SizesOK /\ ManagersOK

LEMMA VectorSequences ==
    ASSUME ControlInv, VectorsOK, NEW n \in plan.nodes
    PROVE  /\ input_memory_blocks[n] \in Seq(MaybeBlock)
           /\ output_memory_blocks[n] \in Seq(MaybeBlock)
           /\ DOMAIN input_memory_blocks[n] \subseteq Inputs(plan, n)
           /\ DOMAIN output_memory_blocks[n] \subseteq Outputs(plan, n)
<1>1. plan \in Plans
  BY DEF ControlInv, ScheduleKnown
<1>2. /\ \/ input_memory_blocks[n] = <<>>
         \/ input_memory_blocks[n] \in [Inputs(plan, n) -> MaybeBlock]
      /\ \/ output_memory_blocks[n] = <<>>
         \/ output_memory_blocks[n] \in [Outputs(plan, n) -> MaybeBlock]
  BY DEF VectorsOK
<1>3. ASSUME NEW D, NEW k \in Nat, D = 1..k, NEW v, v = <<>> \/ v \in [D -> MaybeBlock]
      PROVE  v \in Seq(MaybeBlock) /\ DOMAIN v \subseteq D
  <2>1. CASE v = <<>>
    BY <2>1
  <2>2. CASE v \in [D -> MaybeBlock]
    BY <1>3, <2>2, StreamSequence
  <2>3. QED
    BY <1>3, <2>1, <2>2
<1>4. PICK k \in Nat : Inputs(plan, n) = 1..k
  BY <1>1, PlanFacts
<1>5. PICK l \in Nat : Outputs(plan, n) = 1..l
  BY <1>1, PlanFacts
<1>6. QED
  BY <1>2, <1>3, <1>4, <1>5

LEMMA InitData == Init => DataInv
<1> SUFFICES ASSUME Init PROVE DataInv
  OBVIOUS
<1>1. next_run = 1 /\ step = "start"
  BY DEF Init
<1>2. \A n : ~IsBeingRun(n) /\ ~HasFinished(n)
  BY <1>1 DEF IsBeingRun, HasFinished, HasRun
<1>3. VectorsOK
  BY <1>1, <1>2 DEF Init, VectorsOK
<1>4. SizesOK
  BY DEF Init, SizesOK, StreamSizes
<1>5. ManagersOK
  BY AllocationsAssumption DEF Init, ManagersOK
<1>6. QED
  BY <1>3, <1>4, <1>5 DEF DataInv

LEMMA ScheduleData ==
    ASSUME ControlInv, DataInv, ScheduleUnscheduledNodes
    PROVE  DataInv'
<1>1. /\ next_run = 1 /\ next_run' = 1 /\ step = "start" /\ step' = "start"
      /\ UNCHANGED <<memoryVars, idVars, streamVars>> /\ Scheduler!Next
  BY DEF ScheduleUnscheduledNodes, ControlInv, StateOK, controlVars
<1>2. plan' = plan
  BY <1>1, SchedulerKeepsPlan
<1>3. \A n : ~IsBeingRun(n) /\ ~IsBeingRun(n)' /\ ~HasFinished(n)'
  BY <1>1 DEF IsBeingRun, HasFinished, HasRun
<1>4. VectorsOK'
  BY <1>1, <1>2, <1>3 DEF DataInv, VectorsOK, streamVars
<1>5. SizesOK'
  BY <1>1, <1>2 DEF DataInv, SizesOK, StreamSizes, streamVars
<1>6. ManagersOK'
  BY <1>1 DEF DataInv, ManagersOK, memoryVars, idVars
<1>7. QED
  BY <1>4, <1>5, <1>6 DEF DataInv

(* AllocateStreamIDs takes the numbers from the stack.                     *)
LEMMA NumbersTaken ==
    ASSUME ControlInv, DataInv, AllocateStreamIDs
    PROVE  available_ids' \in Seq(IDs!StreamID)
<1>1. SetupNode \in plan.nodes
  BY SetupNodeKnown DEF AllocateStreamIDs
<1>2. /\ previous_nodes[SetupNode] \in Seq(plan.nodes \cup {Null})
      /\ next_nodes[SetupNode] \in Seq(plan.nodes \cup {Null})
  BY <1>1 DEF ControlInv, ScheduleKnown, LinksKnown
<1>3. /\ Len(previous_nodes[SetupNode]) \in Nat /\ Len(next_nodes[SetupNode]) \in Nat
      /\ DOMAIN previous_nodes[SetupNode] = 1..Len(previous_nodes[SetupNode])
  BY <1>2, LenProperties
<1> DEFINE U == IDs!UnlinkedInputs(SetupNode, Len(previous_nodes[SetupNode]))
<1>4. U \in SUBSET (1..Len(previous_nodes[SetupNode]))
  BY <1>3 DEF IDs!UnlinkedInputs
<1>5. IDs!Cardinality(U) \in Nat
  <2>1. IsFiniteSet(1..Len(previous_nodes[SetupNode]))
    BY <1>3, FS_Interval
  <2> HIDE DEF U
  <2>2. Cardinality(U) \in Nat
    BY <1>4, <2>1, FS_Subset, FS_CardinalityType
  <2>3. Cardinality(U) = IDs!Cardinality(U)
    BY Zenon DEF Cardinality, IDs!Cardinality
  <2>4. QED
    BY <2>2, <2>3
<1>6. IDs!NeededIDs(SetupNode) \in Nat
  <2> DEFINE c == IDs!Cardinality(U)
             p == Len(previous_nodes[SetupNode])
             q == Len(next_nodes[SetupNode])
  <2>1. IDs!NeededIDs(SetupNode) = c + (IF q > p THEN q - p ELSE 0)
    BY DEF IDs!NeededIDs
  <2>2. c \in Nat /\ p \in Nat /\ q \in Nat
    BY <1>3, <1>5
  <2> HIDE DEF c, p, q
  <2>3. QED
    BY <2>1, <2>2
<1>7. CASE UNCHANGED idVars
  BY <1>7 DEF idVars, DataInv, ManagersOK
<1>8. CASE IDs!AllocateNodeIDs(SetupNode)
  <2> DEFINE a == available_ids
             k == IDs!NeededIDs(SetupNode)
  <2>1. available_ids' = SubSeq(a, k + 1, Len(a))
    BY <1>8 DEF IDs!AllocateNodeIDs
  <2>2. a \in Seq(IDs!StreamID)
    BY DEF DataInv, ManagersOK
  <2> HIDE DEF a, k
  <2>3. QED
    BY <1>6, <2>1, <2>2, SubSeqProperties DEF k
<1>9. QED
  BY <1>7, <1>8 DEF AllocateStreamIDs

LEMMA QuietData ==
    ASSUME ControlInv, DataInv, QuietStep
    PROVE  DataInv'
<1>1. UNCHANGED <<schedulerVars, memoryVars, next_run, input_memory_blocks,
                  output_memory_blocks, input_stream_sizes>>
  BY QuietSteps
<1>2. step' = "start" <=> step = "start"
  BY QuietSteps
<1>3. /\ UNCHANGED <<plan, linked_nodes>> /\ CurrentLinks' = CurrentLinks
      /\ \A n : /\ IsBeingRun(n)' <=> IsBeingRun(n)
                /\ HasFinished(n)' <=> HasFinished(n)
  BY <1>1, <1>2, SameRuns
<1>4. VectorsOK'
  BY <1>1, <1>2, <1>3 DEF DataInv, VectorsOK
<1>5. SizesOK'
  BY <1>1, <1>3 DEF DataInv, SizesOK, StreamSizes
<1>6. ManagersOK'
  <2>1. available_ids' = available_ids \/ AllocateStreamIDs
    BY DEF QuietStep, vars, idVars, LeaveScheduleState, SetFinishedFlag,
           LeaveSetupNodesState, CrashOnNullLink, IsRunValid, RunIsInvalid,
           SetupQueryAcceleration, RunQueryAcceleration, ProcessResults
  <2>2. available_ids' \in Seq(IDs!StreamID)
    BY <2>1, NumbersTaken DEF DataInv, ManagersOK
  <2>3. QED
    BY <1>1, <2>2 DEF DataInv, ManagersOK, memoryVars
<1>7. QED
  BY <1>4, <1>5, <1>6 DEF DataInv

(* A node that has run consumes nothing from a later run.                  *)
LEMMA NotFedLater ==
    ASSUME ControlInv, next_run \in Runs, NEW n \in plan.nodes, HasRun(n),
           NEW m \in NodesIn(next_run)
    PROVE  n \notin ToSet(next_nodes[m]) /\ n \notin NodesIn(next_run)
<1>1. PICK r \in 1..(next_run - 1) : n \in NodesIn(r)
  BY DEF HasRun, NodesIn
<1>2. r \in Runs /\ r < next_run /\ next_run \in Nat
  BY <1>1 DEF ControlInv, ScheduleKnown, RunsKnown
<1>3. m \notin Producers(plan, n) /\ n \notin NodesIn(next_run)
  BY <1>1, <1>2 DEF ControlInv, ScheduleKnown, RunsKnown
<1>4. m \in plan.nodes
  BY LenProperties, ElementOfSeq DEF ControlInv, ScheduleKnown, RunsKnown, NodesIn, ToSet
<1>5. ASSUME NEW i \in DOMAIN next_nodes[m], next_nodes[m][i] = n PROVE FALSE
  <2>1. n # Null
    BY PlanFacts DEF ControlInv, ScheduleKnown
  <2>2. i \in Outputs(plan, m) /\ plan.next_nodes[m][i] = n
    BY <1>4, <1>5, <2>1 DEF ControlInv, ScheduleKnown, LinksKnown
  <2>3. n \in Consumers(plan, m)
    BY <2>1, <2>2 DEF Consumers
  <2>4. n \in Consumers(plan, m) <=> m \in Producers(plan, n)
    BY <1>4, PlansAssumption DEF ControlInv, ScheduleKnown, IsPlan, IsLinked
  <2>5. QED
    BY <1>3, <2>3, <2>4
<1>6. QED
  BY <1>3, <1>5 DEF ToSet

LEMMA SetupRuns ==
    ASSUME ControlInv, SetupNextRunData
    PROVE  /\ next_run \in Runs /\ step = "start" /\ step' = "ids"
           /\ NodesIn(next_run) \subseteq plan.nodes
           /\ \A n : /\ IsBeingRun(n)' <=> n \in NodesIn(next_run)
                     /\ ~IsBeingRun(n)
                     /\ InRun(n)' <=> n \in NodesIn(next_run)
                     /\ HasFinished(n) <=> HasRun(n)
           /\ \A n \in plan.nodes : HasFinished(n)' <=> HasRun(n)
           /\ CurrentLinks' = {e \in linked_nodes : e.from \in NodesIn(next_run)}
<1>1. /\ next_run \in Runs /\ next_run' - 1 = next_run
      /\ UNCHANGED <<query_node_runs_queue, linked_nodes>>
      /\ \A r : RunNodes(r)' = RunNodes(r) /\ NodesIn(r)' = NodesIn(r)
      /\ CurrentRun' = RunNodes(next_run)
  BY SetupChanges
<1>2. step = "start" /\ step' = "ids"
  BY DEF SetupNextRunData
<1>3. \A n : InRun(n)' <=> n \in NodesIn(next_run)
  BY <1>1 DEF InRun, NodesIn
<1>4. \A n : /\ IsBeingRun(n)' <=> n \in NodesIn(next_run)
             /\ ~IsBeingRun(n)
             /\ HasFinished(n) <=> HasRun(n)
  BY <1>2, <1>3 DEF IsBeingRun, HasFinished
<1>5. ASSUME NEW n \in plan.nodes PROVE HasFinished(n)' <=> HasRun(n)
  <2>1. \A r : r \in 1..(next_run' - 1) <=> r \in 1..(next_run - 1) \/ r = next_run
    BY <1>1 DEF ControlInv, ScheduleKnown, RunsKnown
  <2>2. HasRun(n)' <=> HasRun(n) \/ n \in NodesIn(next_run)
    BY <1>1, <2>1 DEF HasRun, NodesIn
  <2>3. HasRun(n) => n \notin NodesIn(next_run)
    BY <1>1, NotFedLater
  <2>4. QED
    BY <1>4, <2>2, <2>3 DEF HasFinished
<1>6. CurrentLinks' = {e \in linked_nodes : e.from \in NodesIn(next_run)}
  BY <1>1, <1>3 DEF CurrentLinks
<1>7. NodesIn(next_run) \subseteq plan.nodes
  BY <1>1, LenProperties, ElementOfSeq DEF ControlInv, ScheduleKnown, RunsKnown, NodesIn, ToSet
<1>8. QED
  BY <1>1, <1>2, <1>3, <1>4, <1>5, <1>6, <1>7

(* What InitialiseVectorSizes gives a node.                                *)
LEMMA SetupVectors ==
    ASSUME ControlInv, SetupNextRunData
    PROVE  /\ DOMAIN input_memory_blocks' = plan.nodes
           /\ DOMAIN output_memory_blocks' = plan.nodes
           /\ DOMAIN input_stream_sizes' = plan.nodes
           /\ \A n \in plan.nodes :
                 LET gets == GetsInputVector(n, NodesIn(next_run))
                 IN  /\ input_memory_blocks'[n] =
                            IF gets THEN [j \in Inputs(plan, n) |-> NoBlock]
                                    ELSE input_memory_blocks[n]
                     /\ DOMAIN input_stream_sizes'[n] =
                            IF gets THEN Inputs(plan, n) ELSE DOMAIN input_stream_sizes[n]
                     /\ ~gets => input_stream_sizes'[n] = input_stream_sizes[n]
                     /\ output_memory_blocks'[n] =
                            IF n \in NodesIn(next_run) THEN [i \in Outputs(plan, n) |-> NoBlock]
                                                       ELSE output_memory_blocks[n]
BY DEF SetupNextRunData, InitialiseVectorSizes, NodesIn

LEMMA SetupData ==
    ASSUME ControlInv, DataInv, SetupNextRunData
    PROVE  DataInv'
<1> DEFINE run == NodesIn(next_run)
<1>1. /\ next_run \in Runs /\ step = "start" /\ step' = "ids"
      /\ run \subseteq plan.nodes
      /\ \A n : /\ IsBeingRun(n)' <=> n \in run
                /\ ~IsBeingRun(n)
                /\ HasFinished(n) <=> HasRun(n)
      /\ \A n \in plan.nodes : HasFinished(n)' <=> HasRun(n)
      /\ CurrentLinks' = {e \in linked_nodes : e.from \in run}
  BY SetupRuns
<1>2. plan' = plan
  BY SetupChanges
<1>3. /\ DOMAIN input_memory_blocks' = plan.nodes
      /\ DOMAIN output_memory_blocks' = plan.nodes
      /\ DOMAIN input_stream_sizes' = plan.nodes
  BY SetupVectors
<1>4. ASSUME NEW n \in plan.nodes
      PROVE  /\ input_memory_blocks'[n] = <<>>
                \/ input_memory_blocks'[n] \in [Inputs(plan, n) -> MaybeBlock]
             /\ n \in run \/ (\E m \in run : n \in ToSet(next_nodes[m])) =>
                   input_memory_blocks'[n] \in [Inputs(plan, n) -> MaybeBlock]
             /\ n \in run => output_memory_blocks'[n] \in [Outputs(plan, n) -> MaybeBlock]
             /\ n \notin run => output_memory_blocks'[n] = <<>>
             /\ HasRun(n) => input_memory_blocks'[n] = <<>>
             /\ input_stream_sizes'[n] = <<>> \/ DOMAIN input_stream_sizes'[n] = Inputs(plan, n)
  <2>1. /\ \/ input_memory_blocks[n] = <<>>
           \/ input_memory_blocks[n] \in [Inputs(plan, n) -> MaybeBlock]
        /\ output_memory_blocks[n] = <<>>
        /\ HasRun(n) => input_memory_blocks[n] = <<>>
        /\ input_stream_sizes[n] = <<>> \/ DOMAIN input_stream_sizes[n] = Inputs(plan, n)
    BY <1>1 DEF DataInv, VectorsOK, SizesOK, StreamSizes
  <2> DEFINE gets == GetsInputVector(n, run)
  <2>2. /\ input_memory_blocks'[n] = IF gets THEN [j \in Inputs(plan, n) |-> NoBlock]
                                             ELSE input_memory_blocks[n]
        /\ DOMAIN input_stream_sizes'[n] =
               IF gets THEN Inputs(plan, n) ELSE DOMAIN input_stream_sizes[n]
        /\ ~gets => input_stream_sizes'[n] = input_stream_sizes[n]
        /\ output_memory_blocks'[n] = IF n \in run THEN [i \in Outputs(plan, n) |-> NoBlock]
                                                   ELSE output_memory_blocks[n]
    BY SetupVectors
  <2>3. gets <=> /\ input_memory_blocks[n] = <<>>
                 /\ n \in run \/ \E m \in run : n \in ToSet(next_nodes[m])
    BY DEF GetsInputVector
  <2>4. HasRun(n) => ~gets
    BY <1>1, <2>3, NotFedLater
  <2>5. NoBlock \in MaybeBlock
    BY DEF MaybeBlock
  <2> HIDE DEF gets, run
  <2>6. QED
    BY <2>1, <2>2, <2>3, <2>4, <2>5
<1>5. ASSUME NEW e \in linked_nodes, e.from \in run
      PROVE  DOMAIN input_memory_blocks'[e.to] = Inputs(plan, e.to)
  <2>1. e \in Edges(plan)
    BY DEF ControlInv, ScheduleKnown, KeptKnown
  <2>2. next_nodes[e.from][e.output] = e.to
    BY <1>1, <1>5 DEF ControlInv, ScheduleKnown, KeptKnown, RunsKnown
  <2>3. e.to \in ToSet(next_nodes[e.from]) /\ e.to \in plan.nodes
    BY <2>1, <2>2, EdgeFacts DEF ControlInv, ScheduleKnown, LinksKnown, ToSet
  <2>4. QED
    BY <1>4, <1>5, <2>3
<1>6. VectorsOK'
  <2> HIDE DEF run
  <2>1. \A e \in CurrentLinks' : DOMAIN input_memory_blocks'[e.to] = Inputs(plan, e.to)
    BY <1>1, <1>5
  <2>2. QED
    BY <1>1, <1>2, <1>3, <1>4, <2>1 DEF VectorsOK
<1>7. SizesOK'
  BY <1>2, <1>3, <1>4 DEF SizesOK, StreamSizes
<1>8. ManagersOK'
  <2>1. available_ids' \in Seq(IDs!StreamID)
    <3>1. available_ids' = [k \in 1..MaxIOStreamCount |-> k - 1]
      BY DEF SetupNextRunData, IDs!SetUpAvailableIDs
    <3>2. MaxIOStreamCount \in Nat
      BY StreamCountAssumption
    <3>3. \A k \in 1..MaxIOStreamCount : k - 1 \in IDs!StreamID
      BY <3>2 DEF IDs!StreamID
    <3>4. QED
      BY <3>1, <3>2, <3>3, StreamSequence
  <2>2. QED
    BY <2>1 DEF DataInv, ManagersOK, SetupNextRunData, memoryVars
<1>9. QED
  BY <1>6, <1>7, <1>8 DEF DataInv

LEMMA NextBlockType ==
    ASSUME ManagersOK, NEW k \in Nat \ {0}
    PROVE  Memory!NextBlock(k) \in MaybeBlock
<1>1. /\ available_memory_blocks \in Seq(Memory!Block)
      /\ Len(available_memory_blocks) \in Nat
      /\ DOMAIN available_memory_blocks = 1..Len(available_memory_blocks)
      /\ memory_block_count \in Nat
  BY LenProperties, BlockNumbers DEF ManagersOK
<1>2. CASE k <= Len(available_memory_blocks)
  <2>1. available_memory_blocks[k] \in Memory!Block
    BY <1>1, <1>2, ElementOfSeq
  <2>2. QED
    BY <1>2, <2>1 DEF Memory!NextBlock, Memory!Returned, MaybeBlock
<1>3. CASE ~(k <= Len(available_memory_blocks))
  <2> DEFINE b == memory_block_count + (k - Len(available_memory_blocks))
  <2>1. Memory!NextBlock(k) = IF b <= MaxPossibleAllocations THEN b ELSE NoBlock
    BY <1>3 DEF Memory!NextBlock, Memory!Returned, NoBlock
  <2>2. b \in Nat \ {0}
    <3>1. \A c, l \in Nat : ~(k <= l) => c + (k - l) \in Nat \ {0}
      OBVIOUS
    <3>2. QED
      BY <1>1, <1>3, <3>1
  <2> HIDE DEF b
  <2>3. QED
    BY <2>1, <2>2, BlockNumbers DEF MaybeBlock
<1>4. QED
  BY <1>2, <1>3

(* What AllocateMemoryBlocks gives the streams of the node.                *)
LEMMA AllocateVectors ==
    ASSUME ControlInv, DataInv, AllocateMemoryBlocks
    PROVE  /\ SetupNode \in plan.nodes /\ InRun(SetupNode) /\ IsBeingRun(SetupNode)
           /\ step = "memory" /\ step' \in {"memory", "validate"}
           /\ DOMAIN input_memory_blocks' = plan.nodes
           /\ DOMAIN output_memory_blocks' = plan.nodes
           /\ DOMAIN input_stream_sizes' = plan.nodes
           /\ \A m \in plan.nodes \ {SetupNode} :
                 /\ input_memory_blocks'[m] = input_memory_blocks[m]
                 /\ output_memory_blocks'[m] = output_memory_blocks[m]
                 /\ input_stream_sizes'[m] = input_stream_sizes[m]
           /\ DOMAIN input_stream_sizes'[SetupNode] = Inputs(plan, SetupNode)
           /\ DOMAIN input_memory_blocks'[SetupNode] = Inputs(plan, SetupNode)
           /\ DOMAIN output_memory_blocks'[SetupNode] = Outputs(plan, SetupNode)
           /\ input_memory_blocks'[SetupNode] \in [Inputs(plan, SetupNode) -> MaybeBlock]
           /\ output_memory_blocks'[SetupNode] \in [Outputs(plan, SetupNode) -> MaybeBlock]
           /\ OutputsToMemory(SetupNode) \subseteq Outputs(plan, SetupNode)
           /\ InputsFromFile(SetupNode) \subseteq Inputs(plan, SetupNode)
           /\ \A i \in Outputs(plan, SetupNode) :
                 output_memory_blocks'[SetupNode][i] =
                     IF i \in OutputsToMemory(SetupNode)
                     THEN Memory!NextBlock(OutputRequest(SetupNode, i)) ELSE NoBlock
           /\ \A j \in Inputs(plan, SetupNode) :
                 input_memory_blocks'[SetupNode][j] =
                     IF j \in InputsFromFile(SetupNode)
                     THEN Memory!NextBlock(InputRequest(SetupNode, j))
                     ELSE input_memory_blocks[SetupNode][j]
<1> DEFINE n == SetupNode
<1>1. step = "memory" /\ step' \in {"memory", "validate"}
  BY DEF AllocateMemoryBlocks
<1>2. n \in plan.nodes /\ InRun(n) /\ IsBeingRun(n)
  BY <1>1, SetupNodeKnown
<1>3. /\ output_memory_blocks' = [output_memory_blocks EXCEPT ![n] = OutputBlocks(n)]
      /\ input_memory_blocks' = [input_memory_blocks EXCEPT ![n] = InputBlocks(n)]
      /\ input_stream_sizes' = [input_stream_sizes EXCEPT ![n] = InputSizes(n)]
  BY DEF AllocateMemoryBlocks
<1>4. /\ DOMAIN input_memory_blocks = plan.nodes
      /\ DOMAIN output_memory_blocks = plan.nodes
      /\ DOMAIN input_stream_sizes = plan.nodes
      /\ input_memory_blocks[n] \in [Inputs(plan, n) -> MaybeBlock]
  BY <1>2 DEF DataInv, VectorsOK, SizesOK
<1>5. DOMAIN next_nodes[n] = Outputs(plan, n) /\ DOMAIN previous_nodes[n] = Inputs(plan, n)
  BY <1>2 DEF ControlInv, ScheduleKnown, LinksKnown
<1>6. /\ OutputsToMemory(n) \subseteq Outputs(plan, n)
      /\ InputsFromFile(n) \subseteq Inputs(plan, n)
  BY <1>5 DEF OutputsToMemory, InputsFromFile
<1>7. /\ \A i \in OutputsToMemory(n) : Memory!NextBlock(OutputRequest(n, i)) \in MaybeBlock
      /\ \A j \in InputsFromFile(n) : Memory!NextBlock(InputRequest(n, j)) \in MaybeBlock
  <2>1. /\ RequestedBlocks(n) \in Nat
        /\ \A i \in OutputsToMemory(n) : OutputRequest(n, i) \in 1..RequestedBlocks(n)
        /\ \A j \in InputsFromFile(n) : InputRequest(n, j) \in 1..RequestedBlocks(n)
    BY <1>2, Requests
  <2>2. \A k \in 1..RequestedBlocks(n) : Memory!NextBlock(k) \in MaybeBlock
    <3>1. \A k \in 1..RequestedBlocks(n) : k \in Nat \ {0}
      BY <2>1
    <3>2. QED
      BY <3>1, NextBlockType DEF DataInv
  <2>3. QED
    BY <2>1, <2>2
<1>8. /\ OutputBlocks(n) = [i \in Outputs(plan, n) |->
             IF i \in OutputsToMemory(n) THEN Memory!NextBlock(OutputRequest(n, i)) ELSE NoBlock]
      /\ InputBlocks(n) = [j \in Inputs(plan, n) |->
             IF j \in InputsFromFile(n) THEN Memory!NextBlock(InputRequest(n, j))
                                        ELSE input_memory_blocks[n][j]]
      /\ DOMAIN InputSizes(n) = Inputs(plan, n)
  BY <1>5 DEF OutputBlocks, InputBlocks, InputSizes
<1>9. /\ OutputBlocks(n) \in [Outputs(plan, n) -> MaybeBlock]
      /\ InputBlocks(n) \in [Inputs(plan, n) -> MaybeBlock]
  <2>1. NoBlock \in MaybeBlock
    BY DEF MaybeBlock
  <2>2. \A i \in Outputs(plan, n) :
           (IF i \in OutputsToMemory(n) THEN Memory!NextBlock(OutputRequest(n, i)) ELSE NoBlock)
               \in MaybeBlock
    BY <1>7, <2>1
  <2>3. \A j \in Inputs(plan, n) :
           (IF j \in InputsFromFile(n) THEN Memory!NextBlock(InputRequest(n, j))
                                       ELSE input_memory_blocks[n][j]) \in MaybeBlock
    BY <1>4, <1>7
  <2>4. QED
    BY <1>8, <2>2, <2>3
<1> HIDE DEF n
<1>10. /\ output_memory_blocks'[n] = OutputBlocks(n)
       /\ input_memory_blocks'[n] = InputBlocks(n)
       /\ input_stream_sizes'[n] = InputSizes(n)
  BY <1>2, <1>3, <1>4
<1>11. /\ DOMAIN input_memory_blocks' = plan.nodes
       /\ DOMAIN output_memory_blocks' = plan.nodes
       /\ DOMAIN input_stream_sizes' = plan.nodes
       /\ \A m \in plan.nodes \ {n} :
             /\ input_memory_blocks'[m] = input_memory_blocks[m]
             /\ output_memory_blocks'[m] = output_memory_blocks[m]
             /\ input_stream_sizes'[m] = input_stream_sizes[m]
  BY <1>3, <1>4
<1>12. QED
  BY <1>1, <1>2, <1>6, <1>8, <1>9, <1>10, <1>11 DEF n

LEMMA AllocateData ==
    ASSUME ControlInv, DataInv, AllocateMemoryBlocks
    PROVE  DataInv'
<1> DEFINE n == SetupNode
<1>1. /\ n \in plan.nodes /\ IsBeingRun(n)
      /\ step = "memory" /\ step' \in {"memory", "validate"}
      /\ DOMAIN input_memory_blocks' = plan.nodes
      /\ DOMAIN output_memory_blocks' = plan.nodes
      /\ DOMAIN input_stream_sizes' = plan.nodes
      /\ \A m \in plan.nodes \ {n} :
            /\ input_memory_blocks'[m] = input_memory_blocks[m]
            /\ output_memory_blocks'[m] = output_memory_blocks[m]
            /\ input_stream_sizes'[m] = input_stream_sizes[m]
      /\ DOMAIN input_stream_sizes'[n] = Inputs(plan, n)
      /\ input_memory_blocks'[n] \in [Inputs(plan, n) -> MaybeBlock]
      /\ output_memory_blocks'[n] \in [Outputs(plan, n) -> MaybeBlock]
  BY AllocateVectors
<1>2. UNCHANGED <<schedulerVars, next_run, available_ids>>
  BY DEF AllocateMemoryBlocks, idVars
<1>3. /\ UNCHANGED <<plan, linked_nodes>> /\ CurrentLinks' = CurrentLinks
      /\ \A m : /\ IsBeingRun(m)' <=> IsBeingRun(m)
                /\ HasFinished(m)' <=> HasFinished(m)
  BY <1>1, <1>2, SameRuns
<1> HIDE DEF n
<1>4. VectorsOK'
  <2>1. VectorsOK
    BY DEF DataInv
  <2>2. ASSUME NEW m \in plan.nodes, IsBeingRun(m)
        PROVE  /\ input_memory_blocks'[m] \in [Inputs(plan, m) -> MaybeBlock]
               /\ output_memory_blocks'[m] \in [Outputs(plan, m) -> MaybeBlock]
    BY <1>1, <2>1, <2>2 DEF VectorsOK
  <2>3. ASSUME NEW m \in plan.nodes, ~IsBeingRun(m)
        PROVE  /\ input_memory_blocks'[m] = input_memory_blocks[m]
               /\ output_memory_blocks'[m] = output_memory_blocks[m]
    BY <1>1, <2>3
  <2>4. \A m \in plan.nodes : HasFinished(m) => input_memory_blocks'[m] = <<>>
    BY <2>1, <2>3 DEF VectorsOK, HasFinished
  <2>5. ASSUME NEW e \in CurrentLinks
        PROVE  DOMAIN input_memory_blocks'[e.to] = Inputs(plan, e.to)
    <3>1. DOMAIN input_memory_blocks[e.to] = Inputs(plan, e.to)
      BY <1>1, <2>1 DEF VectorsOK
    <3>2. e.to \in plan.nodes
      BY EdgeFacts DEF CurrentLinks, ControlInv, ScheduleKnown, KeptKnown
    <3>3. QED
      BY <1>1, <3>1, <3>2
  <2>6. QED
    BY <1>1, <1>3, <2>1, <2>2, <2>3, <2>4, <2>5 DEF VectorsOK
<1>5. SizesOK'
  BY <1>1, <1>3 DEF DataInv, SizesOK, StreamSizes
<1>6. ManagersOK'
  <2> DEFINE k == RequestedBlocks(SetupNode)
             a == available_memory_blocks
             c == memory_block_count
  <2>1. k \in Nat
    BY <1>1, Requests DEF n
  <2>2. a \in Seq(Memory!Block) /\ Len(a) \in Nat /\ c \in 0..(MaxPossibleAllocations + 1)
    BY DEF DataInv, ManagersOK
  <2>3. /\ a' = SubSeq(a, k + 1, Len(a))
        /\ c' = IF k <= Len(a) THEN c
                ELSE IF k <= Len(a) \/ c + (k - Len(a)) <= MaxPossibleAllocations
                     THEN c + (k - Len(a))
                ELSE MaxPossibleAllocations + 1
    BY DEF AllocateMemoryBlocks, Memory!TakeBlocks, Memory!CanAllocate, Memory!Returned
  <2> HIDE DEF k
  <2>4. a' \in Seq(Memory!Block)
    BY <2>1, <2>2, <2>3, SubSeqProperties
  <2>5. c' \in 0..(MaxPossibleAllocations + 1)
    BY <2>1, <2>2, <2>3, AllocationsAssumption
  <2>6. QED
    BY <1>2, <2>4, <2>5 DEF DataInv, ManagersOK
<1>7. QED
  BY <1>4, <1>5, <1>6 DEF DataInv

(* The nodes of the plan in the order of their names, each once.           *)
LEMMA NodesOrdered ==
    ASSUME ControlInv
    PROVE  /\ NodesInOrder \in Seq(plan.nodes)
           /\ IsInjective(NodesInOrder)
           /\ ToSet(NodesInOrder) = plan.nodes
<1> DEFINE N == plan.nodes
           c == Cardinality(N)
           rank(n) == Cardinality({m \in N : m <= n})
           at(k) == CHOOSE n \in N : rank(n) = k
<1>1. N \in SUBSET Nat /\ IsFiniteSet(N)
  BY PlanFacts DEF ControlInv, ScheduleKnown
<1>2. /\ c \in Nat
      /\ \A n \in N : rank(n) \in 1..c
      /\ \A n, m \in N : rank(n) = rank(m) => n = m
      /\ \A k \in 1..c : \E n \in N : rank(n) = k
  <2> HIDE DEF N
  <2>1. QED
    BY <1>1, Ranks, Zenon
<1>3. NodesInOrder = [k \in 1..c |-> at(k)]
  BY DEF NodesInOrder
<1> HIDE DEF rank, c, N
<1>4. \A k \in 1..c : at(k) \in N /\ rank(at(k)) = k
  BY <1>2, Zenon
<1> HIDE DEF at
<1>5. DOMAIN NodesInOrder = 1..c /\ \A k \in 1..c : NodesInOrder[k] = at(k)
  BY <1>3
<1>6. NodesInOrder \in Seq(N)
  <2>1. NodesInOrder \in [1..c -> N]
    BY <1>3, <1>4
  <2>2. QED
    BY <1>2, <2>1, StreamSequence
<1>7. IsInjective(NodesInOrder)
  <2>1. \A k, l \in 1..c : at(k) = at(l) => k = l
    BY <1>4, Zenon
  <2>2. QED
    BY <1>5, <2>1, Zenon DEF IsInjective
<1>8. ToSet(NodesInOrder) = N
  <2>1. \A k \in 1..c : NodesInOrder[k] \in N
    BY <1>4, <1>5
  <2>2. ASSUME NEW n \in N PROVE \E k \in 1..c : NodesInOrder[k] = n
    <3>1. rank(n) \in 1..c /\ at(rank(n)) = n
      BY <1>2, <1>4
    <3>2. QED
      BY <1>5, <3>1
  <2>3. QED
    BY <1>5, <2>1, <2>2 DEF ToSet
<1>9. QED
  BY <1>6, <1>7, <1>8 DEF N

(* The nodes set up so far are those of the runs so far.                   *)
LEMMA ScheduledHaveRun ==
    ASSUME ControlInv
    PROVE  \A n : IsErased(n) <=> HasRun(n)
BY DEF IsErased, HasRun, NodesIn, ControlInv, NamesOK

(* Of two parallel streams that are kept for one input the code moves the  *)
(* one with the greater index.                                             *)
LEMMA LinkFound ==
    ASSUME ControlInv, NEW m, NEW j, LinksTo(m, j) # {}
    PROVE  /\ LinkTo(m, j) \in LinksTo(m, j)
           /\ \A e \in LinksTo(m, j) : LinkTo(m, j).from = e.from
<1> DEFINE L == LinksTo(m, j)
           p == plan.previous_nodes[m][j]
           O == {e.output : e \in L}
<1>1. \A e \in L : /\ e \in Edges(plan) /\ e.to = m /\ e.input = j
  BY DEF LinksTo, CurrentLinks, ControlInv, ScheduleKnown, KeptKnown
<1>2. \A e \in L : e.from = p /\ e.output \in Outputs(plan, p) /\ p \in plan.nodes
  BY <1>1, EdgeFacts
<1>3. PICK k \in Nat : Outputs(plan, p) = 1..k
  BY <1>2, PlanFacts DEF ControlInv, ScheduleKnown
<1>4. O \in SUBSET (0..k) /\ O # {} /\ \A o \in O : o \in Nat
  BY <1>2, <1>3
<1>5. \E o \in O : \A q \in O : o >= q
  <2> HIDE DEF O
  <2>1. QED
    BY <1>4, GreatestNumber
<1>6. \A o, q \in O : o >= q <=> q <= o
  BY <1>4
<1>7. \E e \in L : \A other \in L : other.output <= e.output
  <2>1. PICK o \in O : \A q \in O : q <= o
    BY <1>5, <1>6
  <2>2. PICK e \in L : e.output = o
    OBVIOUS
  <2>3. QED
    BY <2>1, <2>2
<1>8. LinkTo(m, j) \in L
  BY <1>7, Zenon DEF LinkTo
<1>9. QED
  BY <1>2, <1>8

(* What FreeMemoryBlocks leaves.                                           *)
LEMMA FreeVectors ==
    ASSUME ControlInv, FreeMemoryBlocks
    PROVE  /\ step = "free" /\ step' = "start" /\ error = "none" /\ error' = "none"
           /\ UNCHANGED <<schedulerVars, plan, linked_nodes, next_run, available_ids>>
           /\ DOMAIN input_memory_blocks' = plan.nodes
           /\ DOMAIN output_memory_blocks' = plan.nodes
           /\ DOMAIN input_stream_sizes' = plan.nodes
           /\ \A m \in plan.nodes : output_memory_blocks'[m] = <<>>
           /\ \A m \in plan.nodes : HasRun(m) =>
                 input_memory_blocks'[m] = <<>> /\ input_stream_sizes'[m] = <<>>
           /\ \A m \in plan.nodes : ~HasRun(m) =>
                 /\ DOMAIN input_memory_blocks'[m] = DOMAIN input_memory_blocks[m]
                 /\ input_memory_blocks'[m] = [j \in DOMAIN input_memory_blocks[m] |->
                        IF LinksTo(m, j) = {} THEN input_memory_blocks[m][j]
                        ELSE output_memory_blocks[LinkTo(m, j).from][LinkTo(m, j).output]]
                 /\ DOMAIN input_stream_sizes'[m] = DOMAIN input_stream_sizes[m]
           /\ \A m : /\ ~IsBeingRun(m)'
                     /\ HasRun(m)' <=> HasRun(m)
                     /\ HasFinished(m)' <=> HasRun(m)
<1>1. /\ step = "free" /\ step' = "start" /\ error = "none" /\ error' = "none"
      /\ UNCHANGED <<schedulerVars, plan, linked_nodes, next_run, available_ids>>
  BY DEF FreeMemoryBlocks, IsRunning, schedulerVars, idVars
<1>2. \A n : IsErased(n) <=> HasRun(n)
  BY ScheduledHaveRun
<1>3. \A m : HasRun(m)' <=> HasRun(m)
  BY <1>1 DEF HasRun, RunNodes, schedulerVars
<1>4. \A m : ~IsBeingRun(m)' /\ (HasFinished(m)' <=> HasRun(m))
  BY <1>1, <1>3 DEF IsBeingRun, HasFinished
<1>5. /\ input_memory_blocks' = [m \in plan.nodes |->
             IF IsErased(m) THEN <<>>
             ELSE [j \in DOMAIN input_memory_blocks[m] |->
                      IF LinksTo(m, j) = {} THEN input_memory_blocks[m][j]
                      ELSE output_memory_blocks[LinkTo(m, j).from][LinkTo(m, j).output]]]
      /\ output_memory_blocks' = [n \in plan.nodes |-> <<>>]
  BY DEF FreeMemoryBlocks
<1>6. input_stream_sizes' = [m \in plan.nodes |->
           IF IsErased(m) THEN <<>>
           ELSE [j \in DOMAIN input_stream_sizes[m] |->
                    IF LinksTo(m, j) = {} THEN input_stream_sizes[m][j]
                                          ELSE MovedSize(m, j)]]
  BY DEF FreeMemoryBlocks
<1>7. QED
  BY <1>1, <1>2, <1>3, <1>4, <1>5, <1>6

(***************************************************************************)
(* The blocks that go back: those of the inputs of all nodes set up, and   *)
(* of the outputs that are not kept.                                       *)
(***************************************************************************)
LEMMA FreedInputsElements ==
    ASSUME ControlInv, VectorsOK
    PROVE  /\ FreedInputs \in Seq(Memory!Block)
           /\ \A b : b \in ToSet(FreedInputs) <=>
                 b # 0 /\ \E n \in plan.nodes : HasRun(n) /\ b \in ToSet(input_memory_blocks[n])
           /\ (/\ \A n \in plan.nodes : PlacesApart(input_memory_blocks[n])
               /\ \A n, m \in plan.nodes : n # m =>
                     (ToSet(input_memory_blocks[n]) \ {0}) \cap ToSet(input_memory_blocks[m]) = {})
              => IsInjective(FreedInputs)
<1> DEFINE names == scheduled_node_names
           part == [k \in DOMAIN names |-> BlocksOf(input_memory_blocks[names[k]])]
           B == Memory!Block
<1>1. /\ names \in Seq(plan.nodes) /\ IsInjective(names)
      /\ Len(names) \in Nat /\ DOMAIN names = 1..Len(names)
      /\ \A k \in DOMAIN names : names[k] \in plan.nodes
  BY LenProperties, ElementOfSeq DEF ControlInv, NamesOK
<1>2. \A n \in plan.nodes :
         /\ BlocksOf(input_memory_blocks[n]) \in Seq(B)
         /\ ToSet(BlocksOf(input_memory_blocks[n])) = ToSet(input_memory_blocks[n]) \ {0}
         /\ PlacesApart(input_memory_blocks[n]) => IsInjective(BlocksOf(input_memory_blocks[n]))
  BY VectorSequences, BlocksOfElements
<1>3. \A n : HasRun(n) <=> \E k \in DOMAIN names : names[k] = n
  BY ScheduledHaveRun DEF IsErased, ToSet
<1>4. DOMAIN part = DOMAIN names
      /\ \A k \in DOMAIN names : part[k] = BlocksOf(input_memory_blocks[names[k]])
  OBVIOUS
<1>5. FreedInputs = FlattenSeq(part)
  BY DEF FreedInputs
<1> HIDE DEF names, part, B
<1>6. part \in Seq(Seq(B))
  <2>1. part \in [1..Len(names) -> Seq(B)]
    BY <1>1, <1>2, <1>4 DEF part
  <2>2. QED
    BY <1>1, <2>1, StreamSequence
<1>7. /\ FlattenSeq(part) \in Seq(B)
      /\ ToSet(FlattenSeq(part)) = UNION {ToSet(part[k]) : k \in DOMAIN part}
      /\ (/\ \A k \in DOMAIN part : IsInjective(part[k])
          /\ \A k, l \in DOMAIN part : k # l => ToSet(part[k]) \cap ToSet(part[l]) = {})
         => IsInjective(FlattenSeq(part))
  BY <1>6, FlattenSeqElements
<1>8. \A k \in DOMAIN part : ToSet(part[k]) = ToSet(input_memory_blocks[names[k]]) \ {0}
  BY <1>1, <1>2, <1>4
<1>9. ASSUME NEW b
      PROVE  b \in ToSet(FreedInputs) <=>
                 b # 0 /\ \E n \in plan.nodes : HasRun(n) /\ b \in ToSet(input_memory_blocks[n])
  <2>1. b \in ToSet(FreedInputs) <=>
            \E k \in DOMAIN names : b \in ToSet(input_memory_blocks[names[k]]) \ {0}
    BY <1>4, <1>5, <1>7, <1>8
  <2>2. QED
    BY <1>1, <1>3, <2>1
<1>10. ASSUME \A n \in plan.nodes : PlacesApart(input_memory_blocks[n]),
              \A n, m \in plan.nodes : n # m =>
                 (ToSet(input_memory_blocks[n]) \ {0}) \cap ToSet(input_memory_blocks[m]) = {}
       PROVE  IsInjective(FreedInputs)
  <2>1. \A k \in DOMAIN part : IsInjective(part[k])
    BY <1>1, <1>2, <1>4, <1>10
  <2>2. ASSUME NEW k \in DOMAIN part, NEW l \in DOMAIN part, k # l
        PROVE  ToSet(part[k]) \cap ToSet(part[l]) = {}
    <3>1. names[k] # names[l]
      BY <1>1, <1>4, <2>2, Zenon DEF IsInjective
    <3>2. (ToSet(input_memory_blocks[names[k]]) \ {0}) \cap ToSet(input_memory_blocks[names[l]]) = {}
      BY <1>1, <1>4, <1>10, <3>1
    <3>3. QED
      BY <1>8, <3>2
  <2>3. QED
    BY <1>5, <1>7, <2>1, <2>2
<1>11. QED
  BY <1>5, <1>7, <1>9, <1>10 DEF B

LEMMA UnmovedElements ==
    ASSUME ControlInv, VectorsOK, NEW n \in plan.nodes
    PROVE  /\ UnmovedBlocks(n) \in Seq(MaybeBlock)
           /\ DOMAIN UnmovedBlocks(n) = DOMAIN output_memory_blocks[n]
           /\ \A b : b \in ToSet(UnmovedBlocks(n)) /\ b # 0 <=>
                 b # 0 /\ \E i \in DOMAIN output_memory_blocks[n] :
                             ~IsMoved(n, i) /\ output_memory_blocks[n][i] = b
           /\ PlacesApart(output_memory_blocks[n]) => PlacesApart(UnmovedBlocks(n))
<1> DEFINE v == output_memory_blocks[n]
           u == UnmovedBlocks(n)
<1>1. v \in Seq(MaybeBlock) /\ Len(v) \in Nat /\ DOMAIN v = 1..Len(v)
      /\ \A i \in DOMAIN v : v[i] \in MaybeBlock
  BY VectorSequences, LenProperties, ElementOfSeq
<1>2. u = [i \in DOMAIN v |-> IF IsMoved(n, i) THEN NoBlock ELSE v[i]]
  BY DEF UnmovedBlocks
<1> HIDE DEF v, u
<1>3. DOMAIN u = DOMAIN v
      /\ \A i \in DOMAIN v : u[i] = IF IsMoved(n, i) THEN NoBlock ELSE v[i]
  BY <1>2
<1>4. u \in Seq(MaybeBlock)
  <2>1. \A i \in DOMAIN v : u[i] \in MaybeBlock
    BY <1>1, <1>3 DEF MaybeBlock
  <2>2. u \in [1..Len(v) -> MaybeBlock]
    BY <1>1, <1>2, <2>1
  <2>3. QED
    BY <1>1, <2>2, StreamSequence
<1>5. \A b : b \in ToSet(u) /\ b # 0 <=>
         b # 0 /\ \E i \in DOMAIN v : ~IsMoved(n, i) /\ v[i] = b
  <2>1. \A b : b \in ToSet(u) <=> \E i \in DOMAIN v : u[i] = b
    BY <1>3 DEF ToSet
  <2>2. NoBlock = 0
    BY BlockNumbers
  <2>3. QED
    BY <1>3, <2>1, <2>2
<1>6. PlacesApart(v) => PlacesApart(u)
  <2>1. ~IsBlock(NoBlock)
    BY DEF IsBlock
  <2>2. QED
    BY <1>3, <2>1 DEF PlacesApart
<1>7. QED
  BY <1>3, <1>4, <1>5, <1>6 DEF u, v

LEMMA FreedOutputsElements ==
    ASSUME ControlInv, VectorsOK
    PROVE  /\ FreedOutputs \in Seq(Memory!Block)
           /\ \A b : b \in ToSet(FreedOutputs) <=>
                 b # 0 /\ \E n \in plan.nodes : \E i \in DOMAIN output_memory_blocks[n] :
                             ~IsMoved(n, i) /\ output_memory_blocks[n][i] = b
           /\ (/\ \A n \in plan.nodes : PlacesApart(output_memory_blocks[n])
               /\ \A n, m \in plan.nodes : n # m =>
                     (ToSet(output_memory_blocks[n]) \ {0}) \cap ToSet(output_memory_blocks[m]) = {})
              => IsInjective(FreedOutputs)
<1> DEFINE names == NodesInOrder
           part == [k \in DOMAIN names |-> BlocksOf(UnmovedBlocks(names[k]))]
           B == Memory!Block
<1>1. /\ names \in Seq(plan.nodes) /\ IsInjective(names)
      /\ Len(names) \in Nat /\ DOMAIN names = 1..Len(names)
      /\ \A k \in DOMAIN names : names[k] \in plan.nodes
      /\ \A n \in plan.nodes : \E k \in DOMAIN names : names[k] = n
  BY NodesOrdered, LenProperties, ElementOfSeq DEF ToSet
<1>2. \A n \in plan.nodes :
         /\ BlocksOf(UnmovedBlocks(n)) \in Seq(B)
         /\ \A b : b \in ToSet(BlocksOf(UnmovedBlocks(n))) <=>
               b # 0 /\ \E i \in DOMAIN output_memory_blocks[n] :
                           ~IsMoved(n, i) /\ output_memory_blocks[n][i] = b
         /\ PlacesApart(output_memory_blocks[n]) => IsInjective(BlocksOf(UnmovedBlocks(n)))
  <2>1. ASSUME NEW n \in plan.nodes
        PROVE  /\ BlocksOf(UnmovedBlocks(n)) \in Seq(B)
               /\ ToSet(BlocksOf(UnmovedBlocks(n))) = ToSet(UnmovedBlocks(n)) \ {0}
               /\ PlacesApart(UnmovedBlocks(n)) => IsInjective(BlocksOf(UnmovedBlocks(n)))
    BY UnmovedElements, BlocksOfElements
  <2>2. QED
    BY <2>1, UnmovedElements
<1>4. DOMAIN part = DOMAIN names
      /\ \A k \in DOMAIN names : part[k] = BlocksOf(UnmovedBlocks(names[k]))
  OBVIOUS
<1>5. FreedOutputs = FlattenSeq(part)
  BY DEF FreedOutputs
<1> HIDE DEF names, part, B
<1>6. part \in Seq(Seq(B))
  <2>1. part \in [1..Len(names) -> Seq(B)]
    BY <1>1, <1>2, <1>4 DEF part
  <2>2. QED
    BY <1>1, <2>1, StreamSequence
<1>7. /\ FlattenSeq(part) \in Seq(B)
      /\ ToSet(FlattenSeq(part)) = UNION {ToSet(part[k]) : k \in DOMAIN part}
      /\ (/\ \A k \in DOMAIN part : IsInjective(part[k])
          /\ \A k, l \in DOMAIN part : k # l => ToSet(part[k]) \cap ToSet(part[l]) = {})
         => IsInjective(FlattenSeq(part))
  BY <1>6, FlattenSeqElements
<1>8. \A k \in DOMAIN part : \A b : b \in ToSet(part[k]) <=>
         b # 0 /\ \E i \in DOMAIN output_memory_blocks[names[k]] :
                     ~IsMoved(names[k], i) /\ output_memory_blocks[names[k]][i] = b
  BY <1>1, <1>2, <1>4
<1>9. ASSUME NEW b
      PROVE  b \in ToSet(FreedOutputs) <=>
                 b # 0 /\ \E n \in plan.nodes : \E i \in DOMAIN output_memory_blocks[n] :
                             ~IsMoved(n, i) /\ output_memory_blocks[n][i] = b
  <2>1. b \in ToSet(FreedOutputs) <=> \E k \in DOMAIN names : b \in ToSet(part[k])
    BY <1>4, <1>5, <1>7
  <2>2. QED
    BY <1>1, <1>4, <1>8, <2>1
<1>10. ASSUME \A n \in plan.nodes : PlacesApart(output_memory_blocks[n]),
              \A n, m \in plan.nodes : n # m =>
                 (ToSet(output_memory_blocks[n]) \ {0}) \cap ToSet(output_memory_blocks[m]) = {}
       PROVE  IsInjective(FreedOutputs)
  <2>1. \A k \in DOMAIN part : IsInjective(part[k])
    BY <1>1, <1>2, <1>4, <1>10
  <2>2. ASSUME NEW k \in DOMAIN part, NEW l \in DOMAIN part, k # l
        PROVE  ToSet(part[k]) \cap ToSet(part[l]) = {}
    <3>1. names[k] # names[l]
      BY <1>1, <1>4, <2>2, Zenon DEF IsInjective
    <3>2. (ToSet(output_memory_blocks[names[k]]) \ {0}) \cap ToSet(output_memory_blocks[names[l]]) = {}
      BY <1>1, <1>4, <1>10, <3>1
    <3>3. \A p \in DOMAIN part : \A b \in ToSet(part[p]) :
             b # 0 /\ b \in ToSet(output_memory_blocks[names[p]])
      BY <1>8 DEF ToSet
    <3>4. QED
      BY <3>2, <3>3
  <2>3. QED
    BY <1>5, <1>7, <2>1, <2>2
<1>11. QED
  BY <1>5, <1>7, <1>9, <1>10 DEF B

LEMMA FreeData ==
    ASSUME ControlInv, DataInv, FreeMemoryBlocks
    PROVE  DataInv'
<1>1. /\ step = "free" /\ step' = "start" /\ UNCHANGED <<plan, available_ids>>
      /\ DOMAIN input_memory_blocks' = plan.nodes
      /\ DOMAIN output_memory_blocks' = plan.nodes
      /\ DOMAIN input_stream_sizes' = plan.nodes
      /\ \A m \in plan.nodes : output_memory_blocks'[m] = <<>>
      /\ \A m \in plan.nodes : HasRun(m) =>
            input_memory_blocks'[m] = <<>> /\ input_stream_sizes'[m] = <<>>
      /\ \A m \in plan.nodes : ~HasRun(m) =>
            DOMAIN input_stream_sizes'[m] = DOMAIN input_stream_sizes[m]
      /\ \A m : ~IsBeingRun(m)' /\ (HasFinished(m)' <=> HasRun(m))
  BY FreeVectors
<1>2. ASSUME NEW m \in plan.nodes, ~HasRun(m)
      PROVE  \/ input_memory_blocks'[m] = <<>>
             \/ input_memory_blocks'[m] \in [Inputs(plan, m) -> MaybeBlock]
  <2>1. input_memory_blocks'[m] = [j \in DOMAIN input_memory_blocks[m] |->
            IF LinksTo(m, j) = {} THEN input_memory_blocks[m][j]
            ELSE output_memory_blocks[LinkTo(m, j).from][LinkTo(m, j).output]]
    BY <1>2, FreeVectors
  <2>2. ~IsBeingRun(m)
    BY <1>1, <1>2, CurrentRunKnown DEF IsBeingRun
  <2>3. CASE input_memory_blocks[m] = <<>>
    <3>1. DOMAIN input_memory_blocks[m] = {}
      BY <2>3
    <3>2. input_memory_blocks'[m] = <<>>
      BY <2>1, <3>1
    <3>3. QED
      BY <3>2
  <2>4. CASE input_memory_blocks[m] \in [Inputs(plan, m) -> MaybeBlock]
    <3>1. ASSUME NEW j, LinksTo(m, j) # {}
          PROVE  output_memory_blocks[LinkTo(m, j).from][LinkTo(m, j).output] \in MaybeBlock
      <4>1. LinkTo(m, j) \in LinksTo(m, j)
        BY <3>1, LinkFound
      <4> DEFINE e == LinkTo(m, j)
      <4> HIDE DEF e
      <4>2. e \in linked_nodes /\ InRun(e.from) /\ e \in Edges(plan)
        BY <4>1 DEF e, LinksTo, CurrentLinks, ControlInv, ScheduleKnown, KeptKnown
      <4>3. e.from \in plan.nodes /\ e.output \in Outputs(plan, e.from)
        BY <4>2, EdgeFacts
      <4>4. IsBeingRun(e.from)
        BY <1>1, <4>2 DEF IsBeingRun
      <4>5. output_memory_blocks[e.from] \in [Outputs(plan, e.from) -> MaybeBlock]
        BY <4>3, <4>4 DEF DataInv, VectorsOK
      <4>6. output_memory_blocks[e.from][e.output] \in MaybeBlock
        BY <4>3, <4>5
      <4>7. QED
        BY <4>6 DEF e
    <3>2. \A j \in Inputs(plan, m) :
             (IF LinksTo(m, j) = {} THEN input_memory_blocks[m][j]
              ELSE output_memory_blocks[LinkTo(m, j).from][LinkTo(m, j).output]) \in MaybeBlock
      BY <2>4, <3>1
    <3>3. DOMAIN input_memory_blocks[m] = Inputs(plan, m)
      BY <2>4
    <3>4. QED
      BY <2>1, <3>2, <3>3
  <2>5. QED
    BY <2>2, <2>3, <2>4 DEF DataInv, VectorsOK
<1>3. VectorsOK'
  BY <1>1, <1>2 DEF VectorsOK
<1>4. SizesOK'
  <2>1. \A m \in plan.nodes :
           input_stream_sizes[m] = <<>> \/ DOMAIN input_stream_sizes[m] = Inputs(plan, m)
    BY DEF DataInv, SizesOK, StreamSizes
  <2>2. ASSUME NEW m \in plan.nodes
        PROVE  input_stream_sizes'[m] = <<>> \/ DOMAIN input_stream_sizes'[m] = Inputs(plan, m)
    <3>1. CASE HasRun(m)
      BY <1>1, <3>1
    <3>2. CASE ~HasRun(m)
      <4>1. input_stream_sizes'[m] = [j \in DOMAIN input_stream_sizes[m] |->
               IF LinksTo(m, j) = {} THEN input_stream_sizes[m][j] ELSE MovedSize(m, j)]
        BY <3>2, ScheduledHaveRun DEF FreeMemoryBlocks
      <4>2. CASE input_stream_sizes[m] = <<>>
        <5>1. DOMAIN input_stream_sizes[m] = {}
          BY <4>2
        <5>2. input_stream_sizes'[m] = <<>>
          BY <4>1, <5>1
        <5>3. QED
          BY <5>2
      <4>3. QED
        BY <1>1, <2>1, <3>2, <4>2
    <3>3. QED
      BY <3>1, <3>2
  <2>3. QED
    BY <1>1, <2>2 DEF SizesOK, StreamSizes
<1>5. ManagersOK'
  <2>1. /\ FreedInputs \in Seq(Memory!Block) /\ FreedOutputs \in Seq(Memory!Block)
        /\ available_memory_blocks \in Seq(Memory!Block)
    BY FreedInputsElements, FreedOutputsElements DEF DataInv, ManagersOK
  <2>2. /\ available_memory_blocks' =
               Memory!Reverse(FreedInputs \o FreedOutputs) \o available_memory_blocks
        /\ memory_block_count' = memory_block_count
    BY DEF FreeMemoryBlocks, Memory!PushBlocks
  <2>3. FreedInputs \o FreedOutputs \in Seq(Memory!Block)
    BY <2>1, ConcatProperties
  <2>4. Memory!Reverse(FreedInputs \o FreedOutputs) = Reverse(FreedInputs \o FreedOutputs)
    BY Zenon DEF Reverse, Memory!Reverse
  <2>5. Reverse(FreedInputs \o FreedOutputs) \in Seq(Memory!Block)
    BY <2>3, ReverseElements
  <2>6. available_memory_blocks' \in Seq(Memory!Block)
    BY <2>1, <2>2, <2>4, <2>5, ConcatProperties
  <2>7. QED
    BY <1>1, <2>2, <2>6 DEF DataInv, ManagersOK
<1>6. QED
  BY <1>3, <1>4, <1>5 DEF DataInv

LEMMA NextData == ControlInv /\ DataInv /\ [Next]_vars => DataInv'
BY Steps, ScheduleData, SetupData, AllocateData, FreeData, QuietData

(***************************************************************************)
(* TypeOK: whatever the plan, each vector of blocks and of record counts   *)
(* is empty or as long as the node has streams, and holds only blocks of   *)
(* the board; the numbers on the stack are numbers of streams.             *)
(***************************************************************************)
LEMMA TypesFollow == ControlInv /\ DataInv => TypeOK
<1> SUFFICES ASSUME ControlInv, DataInv PROVE TypeOK
  OBVIOUS
<1>1. \A n \in plan.nodes :
         /\ input_memory_blocks[n] = <<>> \/ DOMAIN input_memory_blocks[n] = Inputs(plan, n)
         /\ output_memory_blocks[n] = <<>> \/ DOMAIN output_memory_blocks[n] = Outputs(plan, n)
  BY DEF DataInv, VectorsOK
<1>2. HeldBlocks \subseteq Memory!Block
  <2>1. ASSUME NEW n \in plan.nodes
        PROVE  /\ ToSet(input_memory_blocks[n]) \subseteq MaybeBlock
               /\ ToSet(output_memory_blocks[n]) \subseteq MaybeBlock
    <3>1. /\ input_memory_blocks[n] \in Seq(MaybeBlock)
          /\ output_memory_blocks[n] \in Seq(MaybeBlock)
      BY VectorSequences DEF DataInv
    <3>2. QED
      BY <3>1, LenProperties, ElementOfSeq DEF ToSet
  <2>2. MaybeBlock \ {0} = Memory!Block \ {0}
    BY BlockNumbers DEF MaybeBlock
  <2>3. /\ DOMAIN input_memory_blocks = plan.nodes
        /\ DOMAIN output_memory_blocks = plan.nodes
    BY DEF DataInv, VectorsOK
  <2>4. QED
    BY <2>1, <2>2, <2>3 DEF HeldBlocks, BlocksAt
<1>3. QED
  BY <1>1, <1>2 DEF TypeOK, ControlInv, StateOK, DataInv, ManagersOK, SizesOK, StreamSizes

LEMMA ControlHolds == Spec => [](ControlInv /\ DataInv)
<1>1. Init => ControlInv /\ DataInv
  BY InitControl, InitData
<1>2. ControlInv /\ DataInv /\ [Next]_vars => (ControlInv /\ DataInv)'
  BY NextControl, NextData
<1>3. QED
  BY <1>1, <1>2, PTL DEF Spec

(* The vectors of blocks and of record counts (InitialiseVectorSizes in    *)
(* query_manager.cpp) fit the streams of their nodes, and every number on  *)
(* a stack is one of the board's.                                          *)
THEOREM TypeCorrect == Spec => []TypeOK
BY ControlHolds, TypesFollow, PTL

-----------------------------------------------------------------------------
(***************************************************************************)
(* Outside its run a node holds a block only at an input for which a       *)
(* finished run has kept one.                                              *)
(***************************************************************************)
InputsWaiting ==
    \A n \in plan.nodes : ~IsBeingRun(n) =>
        \A j \in DOMAIN input_memory_blocks[n] :
            IsBlock(input_memory_blocks[n][j]) =>
                \E e \in linked_nodes : e.to = n /\ e.input = j /\ HasFinished(e.from)

LEMMA InitWaiting == Init => InputsWaiting
<1>1. Init => \A n \in plan.nodes : DOMAIN input_memory_blocks[n] = {}
  BY DEF Init
<1>2. QED
  BY <1>1 DEF InputsWaiting

LEMMA ScheduleWaiting ==
    ASSUME ControlInv, InputsWaiting, ScheduleUnscheduledNodes
    PROVE  InputsWaiting'
<1>1. /\ next_run = 1 /\ step = "start" /\ step' = "start"
      /\ UNCHANGED streamVars /\ Scheduler!Next
  BY DEF ScheduleUnscheduledNodes, ControlInv, StateOK, controlVars
<1>2. plan' = plan /\ input_memory_blocks' = input_memory_blocks
  BY <1>1, SchedulerKeepsPlan DEF streamVars
<1>3. \A n : ~IsBeingRun(n) /\ ~HasFinished(n)
  BY <1>1 DEF IsBeingRun, HasFinished, HasRun
<1>4. \A n \in plan.nodes : \A j \in DOMAIN input_memory_blocks[n] :
         ~IsBlock(input_memory_blocks[n][j])
  BY <1>3 DEF InputsWaiting
<1>5. QED
  BY <1>2, <1>4 DEF InputsWaiting, IsBlock, NoBlock, Memory!NoBlock

LEMMA SetupWaiting ==
    ASSUME ControlInv, InputsWaiting, SetupNextRunData
    PROVE  InputsWaiting'
<1>1. /\ \A n : (IsBeingRun(n)' <=> n \in NodesIn(next_run)) /\ ~IsBeingRun(n)
      /\ \A n : HasFinished(n) <=> HasRun(n)
      /\ \A n \in plan.nodes : HasFinished(n)' <=> HasRun(n)
  BY SetupRuns
<1>2. UNCHANGED <<plan, linked_nodes>>
  BY SetupChanges
<1>3. ASSUME NEW n \in plan.nodes, NEW j \in DOMAIN input_memory_blocks'[n],
             IsBlock(input_memory_blocks'[n][j])
      PROVE  \E e \in linked_nodes : e.to = n /\ e.input = j /\ HasFinished(e.from)'
  <2>1. input_memory_blocks'[n] =
            IF GetsInputVector(n, NodesIn(next_run)) THEN [k \in Inputs(plan, n) |-> NoBlock]
                                                    ELSE input_memory_blocks[n]
    BY SetupVectors
  <2>2. ~GetsInputVector(n, NodesIn(next_run))
    BY <1>3, <2>1 DEF IsBlock
  <2>3. PICK e \in linked_nodes : e.to = n /\ e.input = j /\ HasFinished(e.from)
    BY <1>1, <1>3, <2>1, <2>2 DEF InputsWaiting
  <2>4. e.from \in plan.nodes
    BY EdgeFacts DEF ControlInv, ScheduleKnown, KeptKnown
  <2>5. QED
    BY <1>1, <2>3, <2>4
<1>4. \A b : IsBlock(b)' <=> IsBlock(b)
  BY DEF IsBlock, NoBlock, Memory!NoBlock
<1>5. QED
  BY <1>2, <1>3, <1>4 DEF InputsWaiting

LEMMA FreeWaiting ==
    ASSUME ControlInv, InputsWaiting, FreeMemoryBlocks
    PROVE  InputsWaiting'
<1>1. /\ step = "free" /\ UNCHANGED <<plan, linked_nodes>>
      /\ \A m \in plan.nodes : HasRun(m) => input_memory_blocks'[m] = <<>>
      /\ \A m \in plan.nodes : ~HasRun(m) =>
            /\ DOMAIN input_memory_blocks'[m] = DOMAIN input_memory_blocks[m]
            /\ input_memory_blocks'[m] = [j \in DOMAIN input_memory_blocks[m] |->
                   IF LinksTo(m, j) = {} THEN input_memory_blocks[m][j]
                   ELSE output_memory_blocks[LinkTo(m, j).from][LinkTo(m, j).output]]
      /\ \A m : HasFinished(m)' <=> HasRun(m)
  BY FreeVectors
<1>2. ASSUME NEW n \in plan.nodes, NEW j \in DOMAIN input_memory_blocks'[n],
             IsBlock(input_memory_blocks'[n][j])
      PROVE  \E e \in linked_nodes : e.to = n /\ e.input = j /\ HasRun(e.from)
  <2>1. ~HasRun(n)
    <3>1. DOMAIN input_memory_blocks'[n] # {}
      BY <1>2
    <3>2. QED
      BY <1>1, <3>1
  <2>2. CASE LinksTo(n, j) = {}
    <3>1. j \in DOMAIN input_memory_blocks[n] /\ IsBlock(input_memory_blocks[n][j])
      BY <1>1, <1>2, <2>1, <2>2
    <3>2. ~IsBeingRun(n)
      BY <1>1, <2>1, CurrentRunKnown DEF IsBeingRun
    <3>3. QED
      BY <3>1, <3>2 DEF InputsWaiting, HasFinished
  <2>3. CASE LinksTo(n, j) # {}
    <3>1. PICK e \in linked_nodes : e.to = n /\ e.input = j /\ InRun(e.from)
      BY <2>3 DEF LinksTo, CurrentLinks
    <3>2. HasRun(e.from)
      BY <1>1, <3>1, CurrentRunKnown
    <3>3. QED
      BY <3>1, <3>2
  <2>4. QED
    BY <2>2, <2>3
<1>3. \A b : IsBlock(b)' <=> IsBlock(b)
  BY DEF IsBlock, NoBlock, Memory!NoBlock
<1>4. QED
  BY <1>1, <1>2, <1>3 DEF InputsWaiting

LEMMA NextWaiting ==
    ControlInv /\ DataInv /\ InputsWaiting /\ [Next]_vars => InputsWaiting'
<1> SUFFICES ASSUME ControlInv, DataInv, InputsWaiting, [Next]_vars
             PROVE  InputsWaiting'
  OBVIOUS
<1>1. \A b : IsBlock(b)' <=> IsBlock(b)
  BY DEF IsBlock, NoBlock, Memory!NoBlock
<1>2. CASE QuietStep
  <2>1. UNCHANGED <<schedulerVars, next_run, input_memory_blocks>>
    BY <1>2, QuietSteps
  <2>2. step' = "start" <=> step = "start"
    BY <1>2, QuietSteps
  <2>3. /\ UNCHANGED <<plan, linked_nodes>>
        /\ \A n : /\ IsBeingRun(n)' <=> IsBeingRun(n)
                  /\ HasFinished(n)' <=> HasFinished(n)
    BY <2>1, <2>2, SameRuns
  <2>4. QED
    BY <1>1, <2>1, <2>3 DEF InputsWaiting
<1>3. CASE AllocateMemoryBlocks
  <2>1. /\ IsBeingRun(SetupNode) /\ step = "memory" /\ step' \in {"memory", "validate"}
        /\ \A m \in plan.nodes \ {SetupNode} : input_memory_blocks'[m] = input_memory_blocks[m]
    BY <1>3, AllocateVectors
  <2>2. UNCHANGED <<schedulerVars, next_run>>
    BY <1>3 DEF AllocateMemoryBlocks
  <2>3. /\ UNCHANGED <<plan, linked_nodes>>
        /\ \A n : /\ IsBeingRun(n)' <=> IsBeingRun(n)
                  /\ HasFinished(n)' <=> HasFinished(n)
    BY <2>1, <2>2, SameRuns
  <2>4. QED
    BY <1>1, <2>1, <2>3 DEF InputsWaiting
<1>4. QED
  BY <1>2, <1>3, Steps, ScheduleWaiting, SetupWaiting, FreeWaiting

LEMMA WaitingHolds == Spec => [](ControlInv /\ DataInv /\ InputsWaiting)
<1>1. Init => ControlInv /\ DataInv /\ InputsWaiting
  BY InitControl, InitData, InitWaiting
<1>2. ControlInv /\ DataInv /\ InputsWaiting /\ [Next]_vars
      => (ControlInv /\ DataInv /\ InputsWaiting)'
  BY NextControl, NextData, NextWaiting
<1>3. QED
  BY <1>1, <1>2, PTL DEF Spec

LEMMA ReturnedFollows == ControlInv /\ DataInv /\ InputsWaiting => BlocksReturned
<1> SUFFICES ASSUME ControlInv, DataInv, InputsWaiting PROVE BlocksReturned
  OBVIOUS
<1>1. ASSUME step = "start", NEW n \in plan.nodes
      PROVE  /\ output_memory_blocks[n] = <<>>
             /\ HasRun(n) => input_memory_blocks[n] = <<>>
             /\ \A j \in DOMAIN input_memory_blocks[n] :
                   IsBlock(input_memory_blocks[n][j]) =>
                       \E e \in linked_nodes : e.to = n /\ e.input = j /\ HasRun(e.from)
  <2>1. ~IsBeingRun(n) /\ (HasRun(n) => HasFinished(n))
    BY <1>1 DEF IsBeingRun, HasFinished
  <2>2. QED
    BY <2>1 DEF DataInv, VectorsOK, InputsWaiting, HasFinished
<1>2. ASSUME IsFinished PROVE HeldBlocks = {}
  <2>1. step = "start" /\ is_graph_empty /\ next_run - 1 = Len(query_node_runs_queue)
    BY <1>2 DEF IsFinished, ControlInv, StateOK, ScheduleKnown, RunsKnown
  <2>2. ASSUME NEW m, HasRun(m) PROVE \A n \in plan.nodes : HasRun(n)
    <3>1. \A n : HasRun(n) <=> \E r \in Runs : n \in NodesIn(r)
      BY <2>1 DEF HasRun, NodesIn, ControlInv, ScheduleKnown, RunsKnown
    <3>2. query_node_runs_queue # <<>>
      BY <2>2, <3>1 DEF Runs
    <3>3. QED
      BY <2>1, <3>1, <3>2 DEF ControlInv, ScheduleKnown, AllInRuns
  <2>3. ASSUME NEW n \in plan.nodes, NEW j \in DOMAIN input_memory_blocks[n]
        PROVE  input_memory_blocks[n][j] = 0
    <3>1. DOMAIN input_memory_blocks[n] # {}
      BY <2>3
    <3>2. ~HasRun(n)
      BY <1>1, <2>1, <3>1
    <3>3. ~IsBlock(input_memory_blocks[n][j])
      BY <1>1, <2>1, <2>2, <2>3, <3>2
    <3>4. QED
      BY <3>3, BlockNumbers
  <2>4. ASSUME NEW n \in plan.nodes
        PROVE  ToSet(input_memory_blocks[n]) \subseteq {0} /\ ToSet(output_memory_blocks[n]) = {}
    <3>1. ToSet(input_memory_blocks[n]) \subseteq {0}
      BY <2>3 DEF ToSet
    <3>2. output_memory_blocks[n] = <<>>
      BY <1>1, <2>1
    <3>3. QED
      BY <3>1, <3>2 DEF ToSet
  <2>5. /\ DOMAIN input_memory_blocks = plan.nodes
        /\ DOMAIN output_memory_blocks = plan.nodes
    BY DEF DataInv, VectorsOK
  <2>6. QED
    BY <2>4, <2>5 DEF HeldBlocks, BlocksAt
<1>3. QED
  BY <1>1, <1>2 DEF BlocksReturned, IsBetweenRuns

(***************************************************************************)
(* BlocksReturned: whatever the plan, between runs no stream holds a block *)
(* but the inputs that wait for a later run, and at the end none does.     *)
(***************************************************************************)
THEOREM BlocksReturnedHolds == Spec => []BlocksReturned
BY WaitingHolds, ReturnedFollows, PTL

-----------------------------------------------------------------------------
(***************************************************************************)
(* The stream that holds a block                                           *)
(*                                                                         *)
(* No block is at two places, and the streams and the stack of the memory  *)
(* manager have all blocks between them.  FreeMemoryBlocks keeps that up   *)
(* only when no two streams join the same nodes: of two that are kept for  *)
(* one input it moves both blocks there, and one is lost.                  *)
(***************************************************************************)
InputHolds(n, j, b) ==
    /\ n \in plan.nodes /\ j \in DOMAIN input_memory_blocks[n]
    /\ b # 0 /\ input_memory_blocks[n][j] = b
OutputHolds(n, i, b) ==
    /\ n \in plan.nodes /\ i \in DOMAIN output_memory_blocks[n]
    /\ b # 0 /\ output_memory_blocks[n][i] = b
IsHeld(b) ==
    \/ \E n, j : InputHolds(n, j, b)
    \/ \E n, i : OutputHolds(n, i, b)

HeldKnown == \A b : b \in HeldBlocks <=> IsHeld(b)

InputsApart ==
    \A b, n, j, m, k : InputHolds(n, j, b) /\ InputHolds(m, k, b) => n = m /\ j = k
OutputsApart ==
    \A b, n, i, m, k : OutputHolds(n, i, b) /\ OutputHolds(m, k, b) => n = m /\ i = k
SidesApart ==
    \A b, n, j, m, i : ~(InputHolds(n, j, b) /\ OutputHolds(m, i, b))

(* Until its turn comes in SetupAccelerationNodesForExecution the outputs  *)
(* of a node of the run hold no block.                                     *)
IsSetUp(k) == step # "ids" /\ (step = "memory" => k < setup_index)
OutputsPending ==
    step # "start" /\ error = "none" =>
        \A k \in DOMAIN CurrentRun : ~IsSetUp(k) =>
            \A i, b : ~OutputHolds(CurrentRun[k], i, b)

MemoryOwned ==
    /\ Memory!BlocksOwnedOnce
    /\ error = "none" => memory_block_count <= MaxPossibleAllocations
    /\ error = "Can't allocate any more memory!" =>
          /\ available_memory_blocks = <<>>
          /\ memory_block_count = MaxPossibleAllocations + 1

PlacesOK == InputsApart /\ OutputsApart /\ SidesApart /\ OutputsPending
MemoryInv == PlacesOK /\ MemoryOwned

LEMMA HeldIsKnown == ControlInv /\ DataInv => HeldKnown
<1> SUFFICES ASSUME ControlInv, DataInv PROVE HeldKnown
  OBVIOUS
<1>1. /\ DOMAIN input_memory_blocks = plan.nodes
      /\ DOMAIN output_memory_blocks = plan.nodes
  BY DEF DataInv, VectorsOK
<1>2. ASSUME NEW b
      PROVE  b \in BlocksAt(input_memory_blocks) <=> \E n, j : InputHolds(n, j, b)
  BY <1>1 DEF BlocksAt, ToSet, InputHolds
<1>3. ASSUME NEW b
      PROVE  b \in BlocksAt(output_memory_blocks) <=> \E n, i : OutputHolds(n, i, b)
  BY <1>1 DEF BlocksAt, ToSet, OutputHolds
<1>4. QED
  BY <1>2, <1>3 DEF HeldKnown, HeldBlocks, IsHeld

LEMMA HeldStaysKnown == ControlInv' /\ DataInv' => HeldKnown'
BY HeldIsKnown, PTL

(* The blocks on the stack and with the streams are as MemoryManager has   *)
(* them.                                                                   *)
LEMMA OwnersKnown == ControlInv /\ DataInv /\ Memory!BlocksOwnedOnce => MemoryProofs!IInv
<1> SUFFICES ASSUME ControlInv, DataInv, Memory!BlocksOwnedOnce PROVE MemoryProofs!IInv
  OBVIOUS
<1>1. HeldBlocks \subseteq Memory!Block
  BY TypesFollow DEF TypeOK
<1>2. /\ available_memory_blocks \in Seq(Memory!Block)
      /\ memory_block_count \in 0..(MaxPossibleAllocations + 1)
  BY DEF DataInv, ManagersOK
<1>3. MemoryProofs!Block = Memory!Block
  BY DEF MemoryProofs!Block, Memory!Block
<1>4. MemoryProofs!TypeOK
  BY <1>1, <1>2, <1>3 DEF MemoryProofs!TypeOK
<1>5. MemoryProofs!BlocksOwnedOnce
  BY Zenon DEF Memory!BlocksOwnedOnce, Memory!AllocatedBlocks, Memory!Block,
     MemoryProofs!BlocksOwnedOnce, MemoryProofs!AllocatedBlocks, MemoryProofs!Block,
     Memory!ToSet, MemoryProofs!ToSet, Memory!IsInjective, MemoryProofs!IsInjective
<1>6. QED
  BY <1>4, <1>5 DEF MemoryProofs!IInv

(* Steps after which the same places hold blocks, or none.                 *)
LEMMA BlocksStay ==
    ASSUME \A n, j, b : InputHolds(n, j, b)' <=> InputHolds(n, j, b),
           \A n, i, b : OutputHolds(n, i, b)' <=> OutputHolds(n, i, b)
    PROVE  /\ InputsApart /\ OutputsApart /\ SidesApart
              => InputsApart' /\ OutputsApart' /\ SidesApart'
           /\ \A b : IsHeld(b)' <=> IsHeld(b)
BY DEF InputsApart, OutputsApart, SidesApart, IsHeld

LEMMA MemoryStays ==
    ASSUME HeldKnown, HeldKnown', \A b : IsHeld(b)' <=> IsHeld(b), UNCHANGED memoryVars,
           error' = "none" => error = "none",
           error' = "Can't allocate any more memory!" => error = error',
           MemoryOwned
    PROVE  MemoryOwned' /\ UNCHANGED Memory!vars
<1>1. HeldBlocks' = HeldBlocks
  <2>1. \A b : b \in HeldBlocks' <=> b \in HeldBlocks
    BY DEF HeldKnown
  <2>2. QED
    BY <2>1
<1>2. /\ available_memory_blocks' = available_memory_blocks
      /\ memory_block_count' = memory_block_count
  BY DEF memoryVars
<1>3. Memory!BlocksOwnedOnce'
  BY <1>1, <1>2 DEF MemoryOwned, Memory!BlocksOwnedOnce, Memory!AllocatedBlocks
<1>4. QED
  BY <1>1, <1>2, <1>3 DEF MemoryOwned, Memory!vars

LEMMA InitMemory == Init => MemoryInv /\ Memory!Init
<1> SUFFICES ASSUME Init PROVE MemoryInv /\ Memory!Init
  OBVIOUS
<1>1. /\ available_memory_blocks = <<>> /\ memory_block_count = 0
      /\ step = "start" /\ error = "none"
      /\ \A n \in plan.nodes : /\ DOMAIN input_memory_blocks[n] = {}
                               /\ DOMAIN output_memory_blocks[n] = {}
  BY DEF Init
<1>2. /\ \A n, j, b : ~InputHolds(n, j, b)
      /\ \A n, i, b : ~OutputHolds(n, i, b)
  BY <1>1 DEF InputHolds, OutputHolds
<1>3. PlacesOK
  BY <1>1, <1>2 DEF PlacesOK, InputsApart, OutputsApart, SidesApart, OutputsPending
<1>4. HeldBlocks = {}
  <2>1. ControlInv /\ DataInv
    BY InitControl, InitData
  <2>2. \A b : b \notin HeldBlocks
    BY <1>2, <2>1, HeldIsKnown DEF HeldKnown, IsHeld
  <2>3. QED
    BY <2>2
<1>5. Memory!BlocksOwnedOnce
  <2>1. \A b \in 1..MaxPossibleAllocations : ~(b <= 0)
    BY BlockNumbers
  <2>2. Memory!AllocatedBlocks = {}
    BY <1>1, <2>1 DEF Memory!AllocatedBlocks, Memory!Block
  <2>3. QED
    BY <1>1, <1>4, <2>2 DEF Memory!BlocksOwnedOnce, Memory!IsInjective, Memory!ToSet
<1>6. QED
  BY <1>1, <1>3, <1>4, <1>5, BlockNumbers DEF MemoryInv, MemoryOwned, Memory!Init

(* The steps that touch no block.                                          *)
LEMMA QuietMemory ==
    ASSUME ControlInv, DataInv, ControlInv', DataInv', MemoryInv,
           QuietStep \/ ScheduleUnscheduledNodes
    PROVE  MemoryInv' /\ UNCHANGED Memory!vars
<1>1. /\ UNCHANGED <<memoryVars, input_memory_blocks, output_memory_blocks, plan>>
      /\ error' = "none" => error = "none"
      /\ error' = "Can't allocate any more memory!" => error = error'
      /\ step' # "start" => QuietStep
  <2>1. CASE QuietStep
    BY <2>1, QuietSteps DEF schedulerVars
  <2>2. CASE ScheduleUnscheduledNodes
    <3>1. /\ Scheduler!Next /\ step = "start"
          /\ UNCHANGED memoryVars /\ UNCHANGED streamVars /\ UNCHANGED controlVars
      BY <2>2 DEF ScheduleUnscheduledNodes, ControlInv, StateOK
    <3>2. QED
      BY <3>1, SchedulerKeepsPlan DEF streamVars, controlVars
  <2>3. QED
    BY <2>1, <2>2
<1>2. /\ \A n, j, b : InputHolds(n, j, b)' <=> InputHolds(n, j, b)
      /\ \A n, i, b : OutputHolds(n, i, b)' <=> OutputHolds(n, i, b)
  BY <1>1 DEF InputHolds, OutputHolds
<1>3. MemoryOwned' /\ UNCHANGED Memory!vars
  BY <1>1, <1>2, BlocksStay, MemoryStays, HeldIsKnown, HeldStaysKnown DEF MemoryInv
<1>4. ASSUME step' # "start", error' = "none"
      PROVE  /\ CurrentRun' = CurrentRun
             /\ \A k \in DOMAIN CurrentRun : ~IsSetUp(k)' =>
                   \A i, b : ~OutputHolds(CurrentRun[k], i, b)
  <2>1. QuietStep /\ error = "none"
    BY <1>1, <1>4
  <2>2. UNCHANGED <<schedulerVars, next_run>> /\ (step' = "start" <=> step = "start")
    BY <2>1, QuietSteps
  <2>3. CurrentRun' = CurrentRun /\ step # "start"
    BY <1>4, <2>2, SameRuns
  <2>4. ASSUME NEW k \in DOMAIN CurrentRun, ~IsSetUp(k)' PROVE ~IsSetUp(k)
    <3>1. k \in Nat /\ k >= 1
      BY <2>3, CurrentRunKnown
    <3>2. /\ step = "memory" => step' = "memory" /\ setup_index' = setup_index
          /\ step' = "memory" => step \in {"ids", "memory"}
          /\ step' = "ids" => step = "ids"
      BY <2>1, QuietSteps
    <3>3. step' = "ids" \/ (step' = "memory" /\ ~(k < setup_index'))
      BY <2>4 DEF IsSetUp
    <3>4. QED
      BY <3>2, <3>3 DEF IsSetUp
  <2>5. QED
    BY <2>1, <2>3, <2>4 DEF MemoryInv, PlacesOK, OutputsPending
<1>5. OutputsPending'
  BY <1>1, <1>4 DEF OutputsPending, OutputHolds
<1>6. QED
  BY <1>2, <1>3, <1>5, BlocksStay DEF MemoryInv, PlacesOK

(* SetupNextRunData makes empty vectors.                                   *)
LEMMA SetupMemory ==
    ASSUME ControlInv, DataInv, ControlInv', DataInv', MemoryInv, SetupNextRunData
    PROVE  MemoryInv' /\ UNCHANGED Memory!vars
<1>1. /\ UNCHANGED memoryVars /\ UNCHANGED error /\ plan' = plan
      /\ \A n : ~IsBeingRun(n)
  BY SetupRuns, SetupChanges DEF SetupNextRunData
<1>2. CurrentRun' = RunNodes(next_run) /\ next_run \in Runs
  BY SetupChanges
<1>3. ASSUME NEW n \in plan.nodes
      PROVE  /\ \A j : (j \in DOMAIN input_memory_blocks'[n] /\ input_memory_blocks'[n][j] # 0
                        <=> j \in DOMAIN input_memory_blocks[n] /\ input_memory_blocks[n][j] # 0)
             /\ \A j \in DOMAIN input_memory_blocks[n] :
                   input_memory_blocks'[n][j] = input_memory_blocks[n][j]
             /\ output_memory_blocks[n] = <<>>
             /\ \A i \in DOMAIN output_memory_blocks'[n] : output_memory_blocks'[n][i] = 0
  <2> DEFINE gets == GetsInputVector(n, NodesIn(next_run))
  <2>1. /\ input_memory_blocks'[n] =
               IF gets THEN [j \in Inputs(plan, n) |-> NoBlock] ELSE input_memory_blocks[n]
        /\ output_memory_blocks'[n] =
               IF n \in NodesIn(next_run) THEN [i \in Outputs(plan, n) |-> NoBlock]
                                          ELSE output_memory_blocks[n]
    BY SetupVectors
  <2>2. output_memory_blocks[n] = <<>>
    BY <1>1 DEF DataInv, VectorsOK
  <2>3. gets => input_memory_blocks[n] = <<>>
    BY DEF GetsInputVector
  <2> HIDE DEF gets
  <2>4. QED
    BY <2>1, <2>2, <2>3, BlockNumbers
<1>4. /\ \A n, j, b : InputHolds(n, j, b)' <=> InputHolds(n, j, b)
      /\ \A n, i, b : ~OutputHolds(n, i, b)' /\ ~OutputHolds(n, i, b)
  BY <1>1, <1>3 DEF InputHolds, OutputHolds
<1>5. MemoryOwned' /\ UNCHANGED Memory!vars
  BY <1>1, <1>4, BlocksStay, MemoryStays, HeldIsKnown, HeldStaysKnown DEF MemoryInv
<1>6. OutputsPending'
  <2>1. \A n \in plan.nodes : \A i \in DOMAIN output_memory_blocks'[n] :
            output_memory_blocks'[n][i] = 0
    BY <1>3
  <2>2. QED
    BY <1>1, <2>1 DEF OutputsPending, OutputHolds
<1>7. QED
  BY <1>4, <1>5, <1>6, BlocksStay DEF MemoryInv, PlacesOK

(* The blocks that requests yield are new ones, each another.              *)
LEMMA NewBlocksApart ==
    ASSUME ControlInv, DataInv, MemoryOwned, NEW k \in Nat \ {0}, Memory!NextBlock(k) # 0
    PROVE  /\ ~IsHeld(Memory!NextBlock(k))
           /\ \A l \in Nat \ {0} : Memory!NextBlock(l) = Memory!NextBlock(k) => k = l
<1>1. \A l : MemoryProofs!NextBlock(l) = Memory!NextBlock(l)
  BY DEF MemoryProofs!NextBlock, Memory!NextBlock, MemoryProofs!Returned, Memory!Returned,
         MemoryProofs!NoBlock, Memory!NoBlock
<1>2. MemoryProofs!IInv
  BY OwnersKnown DEF MemoryOwned
<1>3. MemoryProofs!NextBlock(k) # MemoryProofs!NoBlock
  BY <1>1 DEF MemoryProofs!NoBlock
<1>4. /\ MemoryProofs!NextBlock(k) \notin HeldBlocks
      /\ \A l \in Nat \ {0} : MemoryProofs!NextBlock(l) = MemoryProofs!NextBlock(k) => k = l
  BY <1>2, <1>3, MemoryProofs!RequestsApart, AllocationsAssumption, StreamCountAssumption
<1>5. QED
  BY <1>1, <1>4, HeldIsKnown DEF HeldKnown

(* Where the blocks are after AllocateMemoryBlocks.                        *)
LEMMA AllocatedPlaces ==
    ASSUME ControlInv, DataInv, PlacesOK, AllocateMemoryBlocks
    PROVE  /\ \A m, i, b : OutputHolds(m, i, b)' <=>
                  \/ OutputHolds(m, i, b)
                  \/ /\ m = SetupNode /\ i \in OutputsToMemory(SetupNode)
                     /\ b # 0 /\ b = Memory!NextBlock(OutputRequest(SetupNode, i))
           /\ \A m, j, b : InputHolds(m, j, b)' <=>
                  \/ InputHolds(m, j, b)
                  \/ /\ m = SetupNode /\ j \in InputsFromFile(SetupNode)
                     /\ b # 0 /\ b = Memory!NextBlock(InputRequest(SetupNode, j))
           /\ \A i, b : ~OutputHolds(SetupNode, i, b)
           /\ \A j \in InputsFromFile(SetupNode) : \A b : ~InputHolds(SetupNode, j, b)
<1> DEFINE n == SetupNode
<1>1. /\ n \in plan.nodes /\ step = "memory" /\ plan' = plan
      /\ \A m \in plan.nodes \ {n} :
            /\ input_memory_blocks'[m] = input_memory_blocks[m]
            /\ output_memory_blocks'[m] = output_memory_blocks[m]
      /\ DOMAIN input_memory_blocks'[n] = Inputs(plan, n)
      /\ DOMAIN output_memory_blocks'[n] = Outputs(plan, n)
      /\ OutputsToMemory(n) \subseteq Outputs(plan, n)
      /\ InputsFromFile(n) \subseteq Inputs(plan, n)
      /\ \A i \in Outputs(plan, n) :
            output_memory_blocks'[n][i] =
                IF i \in OutputsToMemory(n) THEN Memory!NextBlock(OutputRequest(n, i)) ELSE NoBlock
      /\ \A j \in Inputs(plan, n) :
            input_memory_blocks'[n][j] =
                IF j \in InputsFromFile(n) THEN Memory!NextBlock(InputRequest(n, j))
                ELSE input_memory_blocks[n][j]
  <2>1. plan' = plan
    BY DEF AllocateMemoryBlocks, schedulerVars
  <2>2. QED
    BY <2>1, AllocateVectors
<1>2. DOMAIN input_memory_blocks[n] = Inputs(plan, n)
  BY AllocateVectors DEF DataInv, VectorsOK
<1>3. \A i, b : ~OutputHolds(n, i, b)
  <2>1. error = "none"
    BY DEF AllocateMemoryBlocks, IsRunning
  <2>2. setup_index \in DOMAIN CurrentRun /\ setup_index \in Nat
    BY <1>1, SetupNodeKnown, CurrentRunKnown
  <2>3. ~IsSetUp(setup_index)
    BY <1>1, <2>2 DEF IsSetUp
  <2>4. QED
    BY <1>1, <2>1, <2>2, <2>3 DEF PlacesOK, OutputsPending, SetupNode
<1>4. \A j \in InputsFromFile(n) : \A b : ~InputHolds(n, j, b)
  <2>1. \A j \in InputsFromFile(n) : ~IsBlock(input_memory_blocks[n][j])
    BY DEF InputsFromFile
  <2>2. QED
    BY <2>1, BlockNumbers DEF InputHolds
<1> HIDE DEF n
<1>5. ASSUME NEW m, NEW i, NEW b
      PROVE  OutputHolds(m, i, b)' <=>
                 \/ OutputHolds(m, i, b)
                 \/ /\ m = n /\ i \in OutputsToMemory(n)
                    /\ b # 0 /\ b = Memory!NextBlock(OutputRequest(n, i))
  <2>1. CASE m = n
    BY <1>1, <1>3, <2>1, BlockNumbers DEF OutputHolds
  <2>2. CASE m # n
    BY <1>1, <2>2 DEF OutputHolds
  <2>3. QED
    BY <2>1, <2>2
<1>6. ASSUME NEW m, NEW j, NEW b
      PROVE  InputHolds(m, j, b)' <=>
                 \/ InputHolds(m, j, b)
                 \/ /\ m = n /\ j \in InputsFromFile(n)
                    /\ b # 0 /\ b = Memory!NextBlock(InputRequest(n, j))
  <2>1. CASE m = n /\ j \in InputsFromFile(n)
    BY <1>1, <1>4, <2>1 DEF InputHolds
  <2>2. CASE m = n /\ j \notin InputsFromFile(n)
    BY <1>1, <1>2, <2>2 DEF InputHolds
  <2>3. CASE m # n
    BY <1>1, <2>3 DEF InputHolds
  <2>4. QED
    BY <2>1, <2>2, <2>3
<1>7. QED
  BY <1>3, <1>4, <1>5, <1>6 DEF n

LEMMA AllocatedApart ==
    ASSUME ControlInv, DataInv, MemoryInv, AllocateMemoryBlocks
    PROVE  /\ InputsApart' /\ OutputsApart' /\ SidesApart'
           /\ \A b : IsHeld(b)' <=>
                 \/ IsHeld(b)
                 \/ b # 0 /\ \E r \in 1..RequestedBlocks(SetupNode) : b = Memory!NextBlock(r)
<1> DEFINE n == SetupNode
           Given(i, b) == /\ i \in OutputsToMemory(n) /\ b # 0
                          /\ b = Memory!NextBlock(OutputRequest(n, i))
           Taken(j, b) == /\ j \in InputsFromFile(n) /\ b # 0
                          /\ b = Memory!NextBlock(InputRequest(n, j))
<1>1. /\ \A m, i, b : OutputHolds(m, i, b)' <=> OutputHolds(m, i, b) \/ (m = n /\ Given(i, b))
      /\ \A m, j, b : InputHolds(m, j, b)' <=> InputHolds(m, j, b) \/ (m = n /\ Taken(j, b))
  BY AllocatedPlaces DEF MemoryInv
<1>2. n \in plan.nodes
  BY AllocateVectors
<1>3. /\ RequestedBlocks(n) \in Nat
      /\ \A i \in OutputsToMemory(n) : OutputRequest(n, i) \in 1..RequestedBlocks(n)
      /\ \A j \in InputsFromFile(n) : InputRequest(n, j) \in 1..RequestedBlocks(n)
      /\ \A i, k \in OutputsToMemory(n) : OutputRequest(n, i) = OutputRequest(n, k) => i = k
      /\ \A j, k \in InputsFromFile(n) : InputRequest(n, j) = InputRequest(n, k) => j = k
      /\ \A i \in OutputsToMemory(n), j \in InputsFromFile(n) :
            OutputRequest(n, i) # InputRequest(n, j)
      /\ \A r \in 1..RequestedBlocks(n) :
            \/ \E i \in OutputsToMemory(n) : OutputRequest(n, i) = r
            \/ \E j \in InputsFromFile(n) : InputRequest(n, j) = r
  BY <1>2, Requests
<1>4. ASSUME NEW r \in 1..RequestedBlocks(n), Memory!NextBlock(r) # 0
      PROVE  /\ ~IsHeld(Memory!NextBlock(r))
             /\ \A l \in 1..RequestedBlocks(n) : Memory!NextBlock(l) = Memory!NextBlock(r) => r = l
  <2>1. 1..RequestedBlocks(n) \subseteq Nat \ {0}
    BY <1>3
  <2>2. QED
    BY <1>4, <2>1, NewBlocksApart DEF MemoryInv
<1>5. /\ \A i, b : Given(i, b) => ~IsHeld(b)
      /\ \A j, b : Taken(j, b) => ~IsHeld(b)
  BY <1>3, <1>4
<1>6. /\ \A i, k, b : Given(i, b) /\ Given(k, b) => i = k
      /\ \A j, k, b : Taken(j, b) /\ Taken(k, b) => j = k
      /\ \A i, j, b : ~(Given(i, b) /\ Taken(j, b))
  BY <1>3, <1>4
<1>7. \A b : (b # 0 /\ \E r \in 1..RequestedBlocks(n) : b = Memory!NextBlock(r)) <=>
             (\E i : Given(i, b)) \/ (\E j : Taken(j, b))
  BY <1>3
<1> HIDE DEF Given, Taken, n
<1>8. /\ \A m, i, b : OutputHolds(m, i, b) => IsHeld(b)
      /\ \A m, j, b : InputHolds(m, j, b) => IsHeld(b)
  BY DEF IsHeld
<1>9. InputsApart'
  BY <1>1, <1>5, <1>6, <1>8 DEF InputsApart, MemoryInv, PlacesOK
<1>10. OutputsApart'
  BY <1>1, <1>5, <1>6, <1>8 DEF OutputsApart, MemoryInv, PlacesOK
<1>11. SidesApart'
  BY <1>1, <1>5, <1>6, <1>8 DEF SidesApart, MemoryInv, PlacesOK
<1>12. \A b : IsHeld(b)' <=> IsHeld(b) \/ (\E i : Given(i, b)) \/ (\E j : Taken(j, b))
  BY <1>1 DEF IsHeld
<1>13. QED
  BY <1>7, <1>9, <1>10, <1>11, <1>12 DEF n

LEMMA OwnersAgree == MemoryProofs!IInv' => Memory!BlocksOwnedOnce'
<1>1. MemoryProofs!IInv => Memory!BlocksOwnedOnce
  <2>1. MemoryProofs!IInv => MemoryProofs!BlocksOwnedOnce
    BY DEF MemoryProofs!IInv
  <2>2. MemoryProofs!BlocksOwnedOnce => Memory!BlocksOwnedOnce
    BY Zenon DEF Memory!BlocksOwnedOnce, Memory!AllocatedBlocks, Memory!Block,
       MemoryProofs!BlocksOwnedOnce, MemoryProofs!AllocatedBlocks, MemoryProofs!Block,
       Memory!ToSet, MemoryProofs!ToSet, Memory!IsInjective, MemoryProofs!IsInjective
  <2>3. QED
    BY <2>1, <2>2
<1>2. QED
  BY <1>1, PTL

(* What AllocateMemoryBlocks does to the memory manager and to the error.  *)
LEMMA AllocateRequests ==
    ASSUME AllocateMemoryBlocks
    PROVE  /\ error = "none" /\ step = "memory"
           /\ Memory!TakeBlocks(RequestedBlocks(SetupNode))
           /\ IF Memory!CanAllocate(RequestedBlocks(SetupNode)) THEN error' = error
              ELSE error' = "Can't allocate any more memory!"
BY DEF AllocateMemoryBlocks, IsRunning

(* A request for blocks is a step of the memory manager.                   *)
LEMMA RequestOwned ==
    ASSUME ControlInv, DataInv, MemoryOwned, error = "none", NEW k \in Nat,
           Memory!TakeBlocks(k), HeldBlocks' = HeldBlocks \cup Memory!NextBlocks(k)
    PROVE  /\ Memory!BlocksOwnedOnce' /\ [Memory!Next]_(Memory!vars)
           /\ Memory!CanAllocate(k) => memory_block_count' <= MaxPossibleAllocations
           /\ ~Memory!CanAllocate(k) =>
                 /\ available_memory_blocks' = <<>>
                 /\ memory_block_count' = MaxPossibleAllocations + 1
<1> DEFINE max == MaxPossibleAllocations
           a == available_memory_blocks
           c == memory_block_count
<1>1. /\ a \in Seq(Memory!Block) /\ Len(a) \in Nat /\ Memory!Returned = Len(a)
      /\ c \in Nat /\ c <= max /\ max \in Nat
  BY BlockNumbers, LenProperties DEF DataInv, ManagersOK, MemoryOwned, Memory!Returned
<1>2. /\ a' = SubSeq(a, k + 1, Len(a))
      /\ c' = IF k <= Len(a) THEN c
              ELSE IF Memory!CanAllocate(k) THEN c + (k - Len(a)) ELSE max + 1
  BY <1>1 DEF Memory!TakeBlocks
<1>3. Memory!CanAllocate(k) <=> k <= Len(a) \/ c + (k - Len(a)) <= max
  BY <1>1 DEF Memory!CanAllocate
<1>4. Memory!CanAllocate(k) => c' <= max
  BY <1>1, <1>2, <1>3
<1>5. ~Memory!CanAllocate(k) => a' = <<>> /\ c' = max + 1
  <2>1. ASSUME ~(k <= Len(a)) PROVE SubSeq(a, k + 1, Len(a)) = <<>>
    BY <1>1, <2>1
  <2>2. QED
    BY <1>2, <1>3, <2>1
<1>6. CASE k = 0
  <2>1. a' = a /\ c' = c
    BY <1>1, <1>2, <1>6
  <2>2. Memory!NextBlocks(k) = {}
    BY <1>6 DEF Memory!NextBlocks
  <2>3. HeldBlocks' = HeldBlocks
    BY <2>2
  <2>4. Memory!BlocksOwnedOnce'
    BY <2>1, <2>3 DEF MemoryOwned, Memory!BlocksOwnedOnce, Memory!AllocatedBlocks
  <2>5. UNCHANGED Memory!vars
    BY <2>1, <2>3 DEF Memory!vars
  <2>6. QED
    BY <1>4, <1>5, <2>4, <2>5
<1>7. CASE k > 0
  <2>1. PICK l \in 1..(max + 1) :
            Memory!TakeBlocks(l) /\ HeldBlocks' = HeldBlocks \cup Memory!NextBlocks(l)
    <3>1. CASE k <= max + 1
      <4>1. k \in 1..(max + 1)
        BY <1>1, <1>7, <3>1
      <4>2. QED
        BY <4>1
    <3>2. CASE k > max + 1
      <4>1. MemoryProofs!IInv
        BY OwnersKnown DEF MemoryOwned
      <4>2. /\ MemoryProofs!NextBlocks(k) = MemoryProofs!NextBlocks(max + 1)
            /\ MemoryProofs!TakeBlocks(k) => MemoryProofs!TakeBlocks(max + 1)
        BY <3>2, <4>1, MemoryProofs!RequestsBeyond, AllocationsAssumption, StreamCountAssumption
      <4>3. /\ \A i : MemoryProofs!NextBlocks(i) = Memory!NextBlocks(i)
            /\ \A i : MemoryProofs!TakeBlocks(i) <=> Memory!TakeBlocks(i)
        BY DEF MemoryProofs!NextBlocks, Memory!NextBlocks, MemoryProofs!NextBlock,
               Memory!NextBlock, MemoryProofs!NoBlock, Memory!NoBlock,
               MemoryProofs!Returned, Memory!Returned, MemoryProofs!TakeBlocks,
               Memory!TakeBlocks, MemoryProofs!CanAllocate, Memory!CanAllocate
      <4>4. Memory!TakeBlocks(max + 1) /\ Memory!NextBlocks(k) = Memory!NextBlocks(max + 1)
        BY <4>2, <4>3
      <4>5. max + 1 \in 1..(max + 1)
        BY <1>1
      <4>6. QED
        BY <4>4, <4>5
    <3>3. QED
      BY <1>1, <3>1, <3>2
  <2>2. Memory!GetAvailableMemoryBlocks(l)
    BY <1>1, <2>1 DEF Memory!GetAvailableMemoryBlocks
  <2>3. Memory!Next
    BY <2>2 DEF Memory!Next
  <2>4. Memory!BlocksOwnedOnce'
    <3>1. MemoryProofs!IInv
      BY OwnersKnown DEF MemoryOwned
    <3>2. MemoryProofs!GetAvailableMemoryBlocks(l)
      BY <2>2 DEF MemoryProofs!GetAvailableMemoryBlocks, Memory!GetAvailableMemoryBlocks,
               MemoryProofs!NextBlocks, Memory!NextBlocks, MemoryProofs!NextBlock,
               Memory!NextBlock, MemoryProofs!NoBlock, Memory!NoBlock,
               MemoryProofs!Returned, Memory!Returned, MemoryProofs!TakeBlocks,
               Memory!TakeBlocks, MemoryProofs!CanAllocate, Memory!CanAllocate
    <3>3. MemoryProofs!IInv'
      BY <3>1, <3>2, MemoryProofs!RequestKeepsOwners, AllocationsAssumption,
         StreamCountAssumption
    <3>4. QED
      BY <3>3, OwnersAgree
  <2>5. QED
    BY <1>4, <1>5, <2>3, <2>4
<1>8. QED
  BY <1>6, <1>7

LEMMA AllocateMemory ==
    ASSUME ControlInv, DataInv, ControlInv', DataInv', MemoryInv, AllocateMemoryBlocks
    PROVE  MemoryInv' /\ [Memory!Next]_(Memory!vars)
<1> DEFINE n == SetupNode
           k == RequestedBlocks(n)
<1>1. /\ error = "none" /\ step = "memory" /\ Memory!TakeBlocks(k)
      /\ IF Memory!CanAllocate(k) THEN error' = error
         ELSE error' = "Can't allocate any more memory!"
  BY AllocateRequests
<1>2. k \in Nat
  BY AllocateVectors, Requests
<1>3. /\ InputsApart' /\ OutputsApart' /\ SidesApart'
      /\ \A b : IsHeld(b)' <=>
            \/ IsHeld(b)
            \/ b # 0 /\ \E r \in 1..k : b = Memory!NextBlock(r)
  BY AllocatedApart
<1>4. HeldBlocks' = HeldBlocks \cup Memory!NextBlocks(k)
  <2>1. \A b : b \in Memory!NextBlocks(k) <=> b # 0 /\ \E r \in 1..k : b = Memory!NextBlock(r)
    <3> HIDE DEF k
    <3>1. QED
      BY DEF Memory!NextBlocks, Memory!NoBlock
  <2>2. \A b : b \in HeldBlocks' <=> b \in HeldBlocks \/ b \in Memory!NextBlocks(k)
    <3> HIDE DEF k
    <3>1. QED
      BY <1>3, <2>1, HeldIsKnown, HeldStaysKnown DEF HeldKnown
  <2>3. QED
    BY <2>2
<1> HIDE DEF k
<1>5. /\ Memory!BlocksOwnedOnce' /\ [Memory!Next]_(Memory!vars)
      /\ Memory!CanAllocate(k) => memory_block_count' <= MaxPossibleAllocations
      /\ ~Memory!CanAllocate(k) =>
            /\ available_memory_blocks' = <<>>
            /\ memory_block_count' = MaxPossibleAllocations + 1
  BY <1>1, <1>2, <1>4, RequestOwned DEF MemoryInv
<1>6. MemoryOwned'
  BY <1>1, <1>5 DEF MemoryOwned
<1>7. ASSUME step' # "start", error' = "none"
      PROVE  /\ CurrentRun' = CurrentRun
             /\ \A l \in DOMAIN CurrentRun : ~IsSetUp(l)' =>
                   \A i, b : ~OutputHolds(CurrentRun[l], i, b)'
  <2>1. /\ UNCHANGED <<schedulerVars, next_run>> /\ plan' = plan
        /\ \/ setup_index' = setup_index + 1 /\ step' = step
           \/ step' = "validate"
    BY <1>1, <1>7 DEF AllocateMemoryBlocks, schedulerVars
  <2>2. CurrentRun' = CurrentRun
    BY <1>1, <1>7, <2>1, SameRuns
  <2>3. ASSUME NEW l \in DOMAIN CurrentRun, ~IsSetUp(l)', NEW i, NEW b
        PROVE  ~OutputHolds(CurrentRun[l], i, b)'
    <3>1. /\ l \in Nat /\ setup_index \in Nat /\ setup_index \in DOMAIN CurrentRun
          /\ IsInjective(CurrentRun)
      <4>1. setup_index \in DOMAIN CurrentRun
        BY <1>1, SetupNodeKnown
      <4>2. /\ DOMAIN CurrentRun = 1..Len(CurrentRun) /\ Len(CurrentRun) \in Nat
            /\ IsInjective(CurrentRun)
        BY <1>1, CurrentRunKnown
      <4>3. QED
        BY <4>1, <4>2
    <3>2. step' = "memory" /\ setup_index' = setup_index + 1 /\ ~(l < setup_index + 1)
      BY <1>1, <2>1, <2>3 DEF IsSetUp
    <3>3. l # setup_index /\ ~(l < setup_index)
      BY <3>1, <3>2
    <3>4. ~IsSetUp(l)
      BY <1>1, <3>3 DEF IsSetUp
    <3>5. ~OutputHolds(CurrentRun[l], i, b)
      BY <1>1, <3>4 DEF MemoryInv, PlacesOK, OutputsPending
    <3>6. CurrentRun[l] # SetupNode
      BY <3>1, <3>3 DEF IsInjective, SetupNode
    <3>7. \A m \in plan.nodes \ {SetupNode} : output_memory_blocks'[m] = output_memory_blocks[m]
      BY AllocateVectors
    <3>8. QED
      BY <2>1, <2>2, <3>5, <3>6, <3>7 DEF OutputHolds
  <2>4. QED
    BY <2>2, <2>3
<1>8. OutputsPending'
  BY <1>7 DEF OutputsPending, OutputHolds
<1>9. QED
  BY <1>3, <1>5, <1>6, <1>8 DEF MemoryInv, PlacesOK

(* Of the streams that are kept no two have one end in common, when no two *)
(* streams join the same nodes.                                            *)
LEMMA LinksApart ==
    ASSUME ControlInv, HasSimpleEdges(plan), NEW e \in linked_nodes, NEW f \in linked_nodes
    PROVE  /\ e.to = f.to /\ e.input = f.input => e = f
           /\ e.from = f.from /\ e.output = f.output => e = f
<1>1. linked_nodes \subseteq Edges(plan) /\ plan \in Plans
  BY DEF ControlInv, ScheduleKnown, KeptKnown
<1>2. /\ e.from \in plan.nodes /\ e.to \in plan.nodes
      /\ e.output \in Outputs(plan, e.from) /\ e.input \in Inputs(plan, e.to)
      /\ plan.next_nodes[e.from][e.output] = e.to
      /\ plan.previous_nodes[e.to][e.input] = e.from
      /\ e = Edge(e.from, e.output, e.to, e.input)
  BY <1>1, EdgeFacts
<1>3. /\ f.from \in plan.nodes /\ f.to \in plan.nodes
      /\ f.output \in Outputs(plan, f.from) /\ f.input \in Inputs(plan, f.to)
      /\ plan.next_nodes[f.from][f.output] = f.to
      /\ plan.previous_nodes[f.to][f.input] = f.from
      /\ f = Edge(f.from, f.output, f.to, f.input)
  BY <1>1, EdgeFacts
<1>4. IsNode(e.to) /\ IsNode(e.from)
  BY <1>1, <1>2, PlanFacts DEF IsNode
<1>5. /\ \A n \in plan.nodes : \A i, k \in Outputs(plan, n) :
            IsNode(plan.next_nodes[n][i]) /\ plan.next_nodes[n][i] = plan.next_nodes[n][k]
            => i = k
      /\ \A n \in plan.nodes : \A j, k \in Inputs(plan, n) :
            IsNode(plan.previous_nodes[n][j])
            /\ plan.previous_nodes[n][j] = plan.previous_nodes[n][k] => j = k
  BY DEF HasSimpleEdges
<1>6. ASSUME e.to = f.to, e.input = f.input PROVE e = f
  <2>1. e.from = f.from
    BY <1>2, <1>3, <1>6
  <2>2. e.output = f.output
    BY <1>2, <1>3, <1>4, <1>5, <1>6, <2>1
  <2>3. QED
    BY <1>2, <1>3, <1>6, <2>1, <2>2
<1>7. ASSUME e.from = f.from, e.output = f.output PROVE e = f
  <2>1. e.to = f.to
    BY <1>2, <1>3, <1>7
  <2>2. e.input = f.input
    BY <1>2, <1>3, <1>4, <1>5, <1>7, <2>1
  <2>3. QED
    BY <1>2, <1>3, <1>7, <2>1, <2>2
<1>8. QED
  BY <1>6, <1>7

(* Where the blocks are after FreeMemoryBlocks.                            *)
LEMMA FreedPlaces ==
    ASSUME ControlInv, DataInv, HasSimpleEdges(plan), FreeMemoryBlocks
    PROVE  /\ \A n, i, b : ~OutputHolds(n, i, b)'
           /\ \A m, j, b : InputHolds(m, j, b)' <=>
                  /\ ~HasRun(m)
                  /\ \/ LinksTo(m, j) = {} /\ InputHolds(m, j, b)
                     \/ \E e \in CurrentLinks :
                           e.to = m /\ e.input = j /\ OutputHolds(e.from, e.output, b)
<1>1. /\ step = "free" /\ plan' = plan
      /\ \A m \in plan.nodes : output_memory_blocks'[m] = <<>>
      /\ \A m \in plan.nodes : HasRun(m) => input_memory_blocks'[m] = <<>>
      /\ \A m \in plan.nodes : ~HasRun(m) =>
            /\ DOMAIN input_memory_blocks'[m] = DOMAIN input_memory_blocks[m]
            /\ input_memory_blocks'[m] = [j \in DOMAIN input_memory_blocks[m] |->
                   IF LinksTo(m, j) = {} THEN input_memory_blocks[m][j]
                   ELSE output_memory_blocks[LinkTo(m, j).from][LinkTo(m, j).output]]
  BY FreeVectors
<1>2. \A n, i, b : ~OutputHolds(n, i, b)'
  BY <1>1 DEF OutputHolds
<1>3. ASSUME NEW e \in CurrentLinks
      PROVE  /\ e \in linked_nodes
             /\ e.from \in plan.nodes /\ e.to \in plan.nodes
             /\ e.output \in DOMAIN output_memory_blocks[e.from]
             /\ e.input \in DOMAIN input_memory_blocks[e.to]
  <2>1. e \in linked_nodes /\ InRun(e.from)
    BY DEF CurrentLinks
  <2>2. e \in Edges(plan)
    BY <2>1 DEF ControlInv, ScheduleKnown, KeptKnown
  <2>3. /\ e.from \in plan.nodes /\ e.to \in plan.nodes
        /\ e.output \in Outputs(plan, e.from) /\ e.input \in Inputs(plan, e.to)
    BY <2>2, EdgeFacts
  <2>4. IsBeingRun(e.from)
    BY <1>1, <2>1 DEF IsBeingRun
  <2>5. /\ DOMAIN output_memory_blocks[e.from] = Outputs(plan, e.from)
        /\ DOMAIN input_memory_blocks[e.to] = Inputs(plan, e.to)
    BY <1>1, <2>3, <2>4 DEF DataInv, VectorsOK
  <2>6. QED
    BY <2>1, <2>3, <2>5
<1>4. ASSUME NEW m, NEW j, NEW b
      PROVE  InputHolds(m, j, b)' <=>
                /\ ~HasRun(m)
                /\ \/ LinksTo(m, j) = {} /\ InputHolds(m, j, b)
                   \/ \E e \in CurrentLinks :
                         e.to = m /\ e.input = j /\ OutputHolds(e.from, e.output, b)
  <2>1. CASE m \notin plan.nodes
    BY <1>1, <1>3, <2>1 DEF InputHolds
  <2>2. CASE m \in plan.nodes /\ HasRun(m)
    BY <1>1, <2>2 DEF InputHolds
  <2>3. CASE m \in plan.nodes /\ ~HasRun(m) /\ LinksTo(m, j) = {}
    <3>1. ~\E e \in CurrentLinks : e.to = m /\ e.input = j
      BY <2>3 DEF LinksTo
    <3>2. QED
      BY <1>1, <2>3, <3>1 DEF InputHolds
  <2>4. CASE m \in plan.nodes /\ ~HasRun(m) /\ LinksTo(m, j) # {}
    <3> DEFINE l == LinkTo(m, j)
    <3>1. l \in LinksTo(m, j)
      BY <2>4, LinkFound
    <3> HIDE DEF l
    <3>2. l \in CurrentLinks /\ l.to = m /\ l.input = j
      BY <3>1 DEF LinksTo
    <3>3. \A e \in CurrentLinks : e.to = m /\ e.input = j => e = l
      BY <1>3, <3>2, LinksApart
    <3>4. j \in DOMAIN input_memory_blocks[m] /\ l.output \in DOMAIN output_memory_blocks[l.from]
          /\ l.from \in plan.nodes
      BY <1>3, <3>2
    <3>5. /\ j \in DOMAIN input_memory_blocks'[m]
          /\ input_memory_blocks'[m][j] = output_memory_blocks[l.from][l.output]
      <4>1. input_memory_blocks'[m] = [k \in DOMAIN input_memory_blocks[m] |->
                IF LinksTo(m, k) = {} THEN input_memory_blocks[m][k]
                ELSE output_memory_blocks[LinkTo(m, k).from][LinkTo(m, k).output]]
        BY <1>1, <2>4
      <4>2. /\ j \in DOMAIN input_memory_blocks'[m]
            /\ input_memory_blocks'[m][j] =
                   IF LinksTo(m, j) = {} THEN input_memory_blocks[m][j]
                   ELSE output_memory_blocks[LinkTo(m, j).from][LinkTo(m, j).output]
        BY <3>4, <4>1
      <4>3. QED
        BY <2>4, <4>2 DEF l
    <3>6. InputHolds(m, j, b)' <=> OutputHolds(l.from, l.output, b)
      BY <1>1, <2>4, <3>4, <3>5 DEF InputHolds, OutputHolds
    <3>7. QED
      BY <2>4, <3>2, <3>3, <3>6
  <2>5. QED
    BY <2>1, <2>2, <2>3, <2>4
<1>5. QED
  BY <1>2, <1>4

(* The blocks that FreeMemoryBlocks pushes.                                *)
LEMMA FreedBlocks ==
    ASSUME ControlInv, DataInv, InputsApart, OutputsApart
    PROVE  /\ FreedInputs \in Seq(Memory!Block) /\ FreedOutputs \in Seq(Memory!Block)
           /\ IsInjective(FreedInputs) /\ IsInjective(FreedOutputs)
           /\ \A b : b \in ToSet(FreedInputs) <=> \E n, j : HasRun(n) /\ InputHolds(n, j, b)
           /\ \A b : b \in ToSet(FreedOutputs) <=>
                 \E n, i : ~IsMoved(n, i) /\ OutputHolds(n, i, b)
<1>1. /\ \A n, m \in plan.nodes : \A j \in DOMAIN input_memory_blocks[n],
                k \in DOMAIN input_memory_blocks[m] :
            input_memory_blocks[n][j] # 0
            /\ input_memory_blocks[n][j] = input_memory_blocks[m][k] => n = m /\ j = k
      /\ \A n, m \in plan.nodes : \A j \in DOMAIN output_memory_blocks[n],
                k \in DOMAIN output_memory_blocks[m] :
            output_memory_blocks[n][j] # 0
            /\ output_memory_blocks[n][j] = output_memory_blocks[m][k] => n = m /\ j = k
  BY DEF InputsApart, OutputsApart, InputHolds, OutputHolds
<1>2. /\ \A n \in plan.nodes : PlacesApart(input_memory_blocks[n])
      /\ \A n \in plan.nodes : PlacesApart(output_memory_blocks[n])
  BY <1>1, BlockNumbers DEF PlacesApart
<1>3. /\ \A n, m \in plan.nodes : n # m =>
            (ToSet(input_memory_blocks[n]) \ {0}) \cap ToSet(input_memory_blocks[m]) = {}
      /\ \A n, m \in plan.nodes : n # m =>
            (ToSet(output_memory_blocks[n]) \ {0}) \cap ToSet(output_memory_blocks[m]) = {}
  BY <1>1 DEF ToSet
<1>4. /\ FreedInputs \in Seq(Memory!Block) /\ IsInjective(FreedInputs)
      /\ \A b : b \in ToSet(FreedInputs) <=>
            b # 0 /\ \E n \in plan.nodes : HasRun(n) /\ b \in ToSet(input_memory_blocks[n])
  BY <1>2, <1>3, FreedInputsElements, Zenon DEF DataInv
<1>5. /\ FreedOutputs \in Seq(Memory!Block) /\ IsInjective(FreedOutputs)
      /\ \A b : b \in ToSet(FreedOutputs) <=>
            b # 0 /\ \E n \in plan.nodes : \E i \in DOMAIN output_memory_blocks[n] :
                        ~IsMoved(n, i) /\ output_memory_blocks[n][i] = b
  BY <1>2, <1>3, FreedOutputsElements, Zenon DEF DataInv
<1>6. \A b : b \in ToSet(FreedInputs) <=> \E n, j : HasRun(n) /\ InputHolds(n, j, b)
  <2>1. \A b : b \in ToSet(FreedInputs) => \E n, j : HasRun(n) /\ InputHolds(n, j, b)
    BY <1>4, Zenon DEF ToSet, InputHolds
  <2>2. \A b : (\E n, j : HasRun(n) /\ InputHolds(n, j, b)) => b \in ToSet(FreedInputs)
    BY <1>4, Zenon DEF ToSet, InputHolds
  <2>3. QED
    BY <2>1, <2>2
<1>7. \A b : b \in ToSet(FreedOutputs) <=> \E n, i : ~IsMoved(n, i) /\ OutputHolds(n, i, b)
  BY <1>5, Zenon DEF OutputHolds
<1>8. QED
  BY <1>4, <1>5, <1>6, <1>7

(* A kept output goes to an input of a later run, which holds no block yet.*)
LEMMA LinksLeadOn ==
    ASSUME ControlInv, InputsWaiting, step = "free", NEW e \in CurrentLinks
    PROVE  ~HasRun(e.to) /\ \A b : ~InputHolds(e.to, e.input, b)
<1>1. /\ e \in linked_nodes /\ InRun(e.from) /\ e \in Edges(plan)
      /\ plan.previous_nodes[e.to][e.input] = e.from /\ e.from \in plan.nodes
  <2>1. e \in linked_nodes /\ InRun(e.from)
    BY DEF CurrentLinks
  <2>2. e \in Edges(plan)
    BY <2>1 DEF ControlInv, ScheduleKnown, KeptKnown
  <2>3. QED
    BY <2>1, <2>2, EdgeFacts
<1>2. next_run - 1 \in Runs /\ e.from \in NodesIn(next_run - 1)
  BY <1>1, CurrentRunKnown
<1>3. \A s \in 1..(next_run - 1) : e.to \notin NodesIn(s)
  BY <1>1, <1>2 DEF ControlInv, ScheduleKnown, KeptKnown
<1>4. ~HasRun(e.to)
  BY <1>3 DEF HasRun, NodesIn
<1>5. ASSUME NEW b, InputHolds(e.to, e.input, b) PROVE FALSE
  <2>1. ~IsBeingRun(e.to)
    BY <1>4, CurrentRunKnown DEF IsBeingRun
  <2>2. PICK f \in linked_nodes : f.to = e.to /\ f.input = e.input /\ HasFinished(f.from)
    BY <1>5, <2>1, BlockNumbers DEF InputsWaiting, InputHolds
  <2>3. f.from = e.from
    BY <1>1, <2>2, EdgeFacts DEF ControlInv, ScheduleKnown, KeptKnown
  <2>4. IsBeingRun(e.from)
    BY <1>1 DEF IsBeingRun
  <2>5. QED
    BY <2>2, <2>3, <2>4 DEF HasFinished
<1>6. QED
  BY <1>4, <1>5

LEMMA FreedHeld ==
    ASSUME ControlInv, DataInv, InputsWaiting, PlacesOK, HasSimpleEdges(plan),
           FreeMemoryBlocks
    PROVE  /\ InputsApart' /\ OutputsApart' /\ SidesApart'
           /\ FreedInputs \o FreedOutputs \in Seq(Memory!Block)
           /\ IsInjective(FreedInputs \o FreedOutputs)
           /\ \A b \in ToSet(FreedInputs \o FreedOutputs) : IsHeld(b)
           /\ \A b : IsHeld(b)' <=> IsHeld(b) /\ b \notin ToSet(FreedInputs \o FreedOutputs)
<1>1. /\ \A n, i, b : ~OutputHolds(n, i, b)'
      /\ \A m, j, b : InputHolds(m, j, b)' <=>
            /\ ~HasRun(m)
            /\ \/ LinksTo(m, j) = {} /\ InputHolds(m, j, b)
               \/ \E e \in CurrentLinks :
                     e.to = m /\ e.input = j /\ OutputHolds(e.from, e.output, b)
  BY FreedPlaces
<1>2. /\ FreedInputs \in Seq(Memory!Block) /\ FreedOutputs \in Seq(Memory!Block)
      /\ IsInjective(FreedInputs) /\ IsInjective(FreedOutputs)
      /\ \A b : b \in ToSet(FreedInputs) <=> \E n, j : HasRun(n) /\ InputHolds(n, j, b)
      /\ \A b : b \in ToSet(FreedOutputs) <=>
            \E n, i : ~IsMoved(n, i) /\ OutputHolds(n, i, b)
  BY FreedBlocks DEF PlacesOK
<1>3. /\ \A b, n, j, m, k : InputHolds(n, j, b) /\ InputHolds(m, k, b) => n = m /\ j = k
      /\ \A b, n, i, m, k : OutputHolds(n, i, b) /\ OutputHolds(m, k, b) => n = m /\ i = k
      /\ \A b, n, j, m, i : ~(InputHolds(n, j, b) /\ OutputHolds(m, i, b))
  BY DEF PlacesOK, InputsApart, OutputsApart, SidesApart
<1>4. /\ step = "free"
      /\ \A e \in CurrentLinks : ~HasRun(e.to) /\ \A b : ~InputHolds(e.to, e.input, b)
  BY FreeVectors, LinksLeadOn
<1>5. /\ CurrentLinks \subseteq linked_nodes
      /\ \A m, j : LinksTo(m, j) = {} <=> ~\E e \in CurrentLinks : e.to = m /\ e.input = j
      /\ \A n, i : IsMoved(n, i) <=> \E e \in CurrentLinks : e.from = n /\ e.output = i
  BY DEF CurrentLinks, LinksTo, IsMoved
<1>6. \A e, f \in CurrentLinks : /\ e.to = f.to /\ e.input = f.input => e = f
                                 /\ e.from = f.from /\ e.output = f.output => e = f
  BY <1>5, LinksApart
<1>7. InputsApart'
  <2>1. ASSUME NEW b, NEW n, NEW j, NEW m, NEW k, InputHolds(n, j, b)', InputHolds(m, k, b)'
        PROVE  n = m /\ j = k
    <3>1. \/ InputHolds(n, j, b)
          \/ \E e \in CurrentLinks : e.to = n /\ e.input = j /\ OutputHolds(e.from, e.output, b)
      BY <1>1, <2>1
    <3>2. \/ InputHolds(m, k, b)
          \/ \E f \in CurrentLinks : f.to = m /\ f.input = k /\ OutputHolds(f.from, f.output, b)
      BY <1>1, <2>1
    <3>3. QED
      BY <1>3, <1>6, <3>1, <3>2
  <2>2. QED
    BY <2>1 DEF InputsApart
<1>8. OutputsApart' /\ SidesApart'
  BY <1>1 DEF OutputsApart, SidesApart
<1>9. /\ FreedInputs \o FreedOutputs \in Seq(Memory!Block)
      /\ ToSet(FreedInputs \o FreedOutputs) = ToSet(FreedInputs) \cup ToSet(FreedOutputs)
  BY <1>2, ConcatToSet, ConcatProperties
<1>10. IsInjective(FreedInputs \o FreedOutputs)
  <2>1. ToSet(FreedInputs) \cap ToSet(FreedOutputs) = {}
    BY <1>2, <1>3
  <2>2. QED
    BY <1>2, <2>1, ConcatInjective
<1>11. \A b \in ToSet(FreedInputs \o FreedOutputs) : IsHeld(b)
  BY <1>2, <1>9 DEF IsHeld
<1>12. ASSUME NEW b, IsHeld(b)'
       PROVE  IsHeld(b) /\ b \notin ToSet(FreedInputs) /\ b \notin ToSet(FreedOutputs)
  <2>1. PICK m, j : InputHolds(m, j, b)'
    BY <1>1, <1>12 DEF IsHeld
  <2>2. ~HasRun(m)
    BY <1>1, <2>1
  <2>3. CASE InputHolds(m, j, b)
    BY <1>2, <1>3, <2>2, <2>3 DEF IsHeld
  <2>4. CASE ~InputHolds(m, j, b)
    <3>1. PICK e \in CurrentLinks : OutputHolds(e.from, e.output, b)
      BY <1>1, <2>1, <2>4
    <3>2. IsMoved(e.from, e.output)
      BY <1>5
    <3>3. QED
      BY <1>2, <1>3, <3>1, <3>2 DEF IsHeld
  <2>5. QED
    BY <2>3, <2>4
<1>13. ASSUME NEW b, IsHeld(b), b \notin ToSet(FreedInputs), b \notin ToSet(FreedOutputs)
       PROVE  IsHeld(b)'
  <2>1. CASE \E n, j : InputHolds(n, j, b)
    <3>1. PICK n, j : InputHolds(n, j, b)
      BY <2>1
    <3>2. ~HasRun(n)
      BY <1>2, <1>13, <3>1
    <3>3. LinksTo(n, j) = {}
      BY <1>4, <1>5, <3>1
    <3>4. InputHolds(n, j, b)'
      BY <1>1, <3>1, <3>2, <3>3
    <3>5. QED
      BY <3>4 DEF IsHeld
  <2>2. CASE \E n, i : OutputHolds(n, i, b)
    <3>1. PICK n, i : OutputHolds(n, i, b)
      BY <2>2
    <3>2. IsMoved(n, i)
      BY <1>2, <1>13, <3>1
    <3>3. PICK e \in CurrentLinks : e.from = n /\ e.output = i
      BY <1>5, <3>2
    <3>4. InputHolds(e.to, e.input, b)'
      BY <1>1, <1>4, <3>1, <3>3
    <3>5. QED
      BY <3>4 DEF IsHeld
  <2>3. QED
    BY <1>13, <2>1, <2>2 DEF IsHeld
<1>14. QED
  BY <1>7, <1>8, <1>9, <1>10, <1>11, <1>12, <1>13

(* Blocks that come back are a step of the memory manager, if there are    *)
(* any.                                                                    *)
LEMMA ReturnOwned ==
    ASSUME ControlInv, DataInv, Memory!BlocksOwnedOnce,
           NEW freed \in Seq(Memory!Block), IsInjective(freed), ToSet(freed) \subseteq HeldBlocks,
           Memory!PushBlocks(freed), HeldBlocks' = HeldBlocks \ ToSet(freed)
    PROVE  Memory!BlocksOwnedOnce' /\ [Memory!Next]_(Memory!vars)
<1> DEFINE a == available_memory_blocks
           blocks == Reverse(freed)
           k == Len(blocks)
<1>1. /\ a \in Seq(Memory!Block) /\ blocks \in Seq(Memory!Block)
      /\ ToSet(blocks) = ToSet(freed) /\ IsInjective(blocks)
  BY ReverseElements DEF DataInv, ManagersOK
<1>2. a' = blocks \o a /\ memory_block_count' = memory_block_count
  <2>1. Memory!Reverse(freed) = Reverse(freed)
    BY Zenon DEF Memory!Reverse, Reverse
  <2>2. QED
    BY <2>1 DEF Memory!PushBlocks
<1> HIDE DEF blocks
<1>3. k \in Nat /\ Len(a) \in Nat /\ Len(a') = k + Len(a) /\ SubSeq(a', 1, k) = blocks
  <2>1. k \in Nat /\ Len(a) \in Nat
    BY <1>1, LenProperties
  <2>2. /\ Len(blocks \o a) = k + Len(a) /\ blocks \o a \in Seq(Memory!Block)
        /\ \A i \in 1..k : (blocks \o a)[i] = blocks[i]
    BY <1>1, <2>1
  <2>3. SubSeq(blocks \o a, 1, k) = blocks
    BY <1>1, <2>1, <2>2
  <2>4. QED
    BY <1>2, <2>1, <2>2, <2>3
<1>4. CASE k = 0
  <2>1. blocks = <<>>
    BY <1>1, <1>4
  <2>2. a' = a /\ ToSet(blocks) = {}
    BY <1>1, <1>2, <2>1 DEF ToSet
  <2>3. HeldBlocks' = HeldBlocks
    BY <1>1, <2>2
  <2>4. Memory!BlocksOwnedOnce'
    BY <1>2, <2>2, <2>3 DEF Memory!BlocksOwnedOnce, Memory!AllocatedBlocks
  <2>5. UNCHANGED Memory!vars
    BY <1>2, <2>2, <2>3 DEF Memory!vars
  <2>6. QED
    BY <2>4, <2>5
<1>5. CASE k > 0
  <2>1. k \in 1..Len(a')
    BY <1>3, <1>5
  <2>2. /\ Memory!IsInjective(blocks) /\ Memory!ToSet(blocks) = ToSet(freed)
        /\ MemoryProofs!IsInjective(blocks) /\ MemoryProofs!ToSet(blocks) = ToSet(freed)
    BY <1>1, Zenon DEF Memory!IsInjective, Memory!ToSet, MemoryProofs!IsInjective,
       MemoryProofs!ToSet, IsInjective, ToSet
  <2>3. Memory!FreeMemoryBlocks
    BY <1>2, <1>3, <2>1, <2>2 DEF Memory!FreeMemoryBlocks
  <2>4. MemoryProofs!FreeMemoryBlocks
    BY <1>2, <1>3, <2>1, <2>2 DEF MemoryProofs!FreeMemoryBlocks
  <2>5. MemoryProofs!IInv
    BY OwnersKnown
  <2>6. MemoryProofs!IInv'
    BY <2>4, <2>5, MemoryProofs!ReturnKeepsOwners, AllocationsAssumption, StreamCountAssumption
  <2>7. Memory!Next
    BY <2>3 DEF Memory!Next
  <2>8. QED
    BY <2>6, <2>7, OwnersAgree
<1>6. QED
  BY <1>3, <1>4, <1>5

LEMMA FreeMemory ==
    ASSUME ControlInv, DataInv, ControlInv', DataInv', InputsWaiting, MemoryInv,
           HasSimpleEdges(plan), FreeMemoryBlocks
    PROVE  MemoryInv' /\ [Memory!Next]_(Memory!vars)
<1> DEFINE freed == FreedInputs \o FreedOutputs
<1>1. /\ InputsApart' /\ OutputsApart' /\ SidesApart'
      /\ freed \in Seq(Memory!Block) /\ IsInjective(freed)
      /\ \A b \in ToSet(freed) : IsHeld(b)
      /\ \A b : IsHeld(b)' <=> IsHeld(b) /\ b \notin ToSet(freed)
  BY FreedHeld DEF MemoryInv
<1>2. /\ error = "none" /\ error' = "none" /\ step' = "start"
      /\ Memory!PushBlocks(freed)
  BY FreeVectors DEF FreeMemoryBlocks
<1> HIDE DEF freed
<1>3. HeldKnown /\ HeldKnown'
  BY HeldIsKnown, HeldStaysKnown
<1>4. ToSet(freed) \subseteq HeldBlocks /\ HeldBlocks' = HeldBlocks \ ToSet(freed)
  <2>1. ToSet(freed) \subseteq HeldBlocks
    BY <1>1, <1>3 DEF HeldKnown
  <2>2. \A b : b \in HeldBlocks' <=> b \in HeldBlocks /\ b \notin ToSet(freed)
    BY <1>1, <1>3 DEF HeldKnown
  <2>3. QED
    BY <2>1, <2>2
<1>5. Memory!BlocksOwnedOnce' /\ [Memory!Next]_(Memory!vars)
  BY <1>1, <1>2, <1>4, ReturnOwned DEF MemoryInv, MemoryOwned
<1>6. memory_block_count' = memory_block_count
  BY <1>2 DEF Memory!PushBlocks
<1>7. MemoryOwned'
  BY <1>2, <1>5, <1>6 DEF MemoryOwned, MemoryInv
<1>8. OutputsPending'
  BY <1>2 DEF OutputsPending
<1>9. QED
  BY <1>1, <1>5, <1>7, <1>8 DEF MemoryInv, PlacesOK

-----------------------------------------------------------------------------
(***************************************************************************)
(* The plans in which no two streams join the same nodes.                  *)
(***************************************************************************)
PlansAreSimple == \A p \in Plans : HasSimpleEdges(p)

ExecutionInv == ControlInv /\ DataInv /\ InputsWaiting

LEMMA NextMemory ==
    ASSUME PlansAreSimple, ExecutionInv, ExecutionInv', MemoryInv, [Next]_vars
    PROVE  MemoryInv' /\ [Memory!Next]_(Memory!vars)
<1>1. HasSimpleEdges(plan)
  BY DEF PlansAreSimple, ExecutionInv, ControlInv, ScheduleKnown
<1>2. ControlInv /\ DataInv /\ InputsWaiting /\ ControlInv' /\ DataInv'
  BY DEF ExecutionInv
<1>3. QED
  BY <1>1, <1>2, Steps, QuietMemory, SetupMemory, AllocateMemory, FreeMemory

LEMMA MemoryHolds == ASSUME PlansAreSimple PROVE Spec => [](ExecutionInv /\ MemoryInv)
<1>1. Init => ExecutionInv /\ MemoryInv
  BY InitControl, InitData, InitWaiting, InitMemory DEF ExecutionInv
<1>2. ExecutionInv /\ MemoryInv /\ [Next]_vars => (ExecutionInv /\ MemoryInv)'
  <2> SUFFICES ASSUME ExecutionInv, MemoryInv, [Next]_vars
               PROVE  ExecutionInv' /\ MemoryInv'
    OBVIOUS
  <2>1. ControlInv' /\ DataInv' /\ InputsWaiting'
    BY NextControl, NextData, NextWaiting DEF ExecutionInv
  <2>2. ExecutionInv'
    BY <2>1 DEF ExecutionInv
  <2>3. QED
    BY <2>2, NextMemory
<1>3. QED
  BY <1>1, <1>2, PTL DEF Spec

(***************************************************************************)
(* UsesMemoryManager: the execution asks for blocks and returns them as    *)
(* MemoryManager allows: after the exception it asks for no more, and it   *)
(* returns only blocks that it holds, each once, whatever the plan.        *)
(***************************************************************************)
THEOREM UsesMemoryManagerHolds == ASSUME PlansAreSimple PROVE Spec => UsesMemoryManager
<1>1. Init => Memory!Init
  BY InitMemory
<1>2. ExecutionInv /\ ExecutionInv' /\ MemoryInv /\ [Next]_vars => [Memory!Next]_(Memory!vars)
  BY NextMemory
<1>3. Spec => [](ExecutionInv /\ MemoryInv)
  BY MemoryHolds
<1>4. Spec => Memory!Init /\ [][Memory!Next]_(Memory!vars)
  BY <1>1, <1>2, <1>3, PTL DEF Spec
<1>5. QED
  BY <1>4 DEF UsesMemoryManager, Memory!Spec

(* When nothing is on the stack and all blocks are allocated, the streams  *)
(* have them.                                                              *)
LEMMA AllBlocksHeld ==
    ASSUME Memory!BlocksOwnedOnce, available_memory_blocks = <<>>,
           memory_block_count = MaxPossibleAllocations + 1
    PROVE  HeldBlocks = Memory!Block
<1>1. Memory!ToSet(available_memory_blocks) = {}
  BY DEF Memory!ToSet
<1>2. Memory!ToSet(available_memory_blocks) \cup HeldBlocks = Memory!AllocatedBlocks
  BY DEF Memory!BlocksOwnedOnce
<1>3. Memory!AllocatedBlocks = Memory!Block
  <2>1. \A b \in 1..MaxPossibleAllocations : b <= MaxPossibleAllocations + 1
    BY BlockNumbers
  <2>2. QED
    BY <2>1, BlockNumbers DEF Memory!AllocatedBlocks
<1>4. QED
  BY <1>1, <1>2, <1>3

(***************************************************************************)
(* FailsOnlyWhenFull: the exception for a lack of memory is thrown only    *)
(* when every block of the board is with a stream.                         *)
(***************************************************************************)
THEOREM FailsOnlyWhenFullHolds == ASSUME PlansAreSimple PROVE Spec => []FailsOnlyWhenFull
<1>1. MemoryInv => FailsOnlyWhenFull
  BY AllBlocksHeld DEF FailsOnlyWhenFull, MemoryInv, MemoryOwned
<1>2. QED
  BY <1>1, MemoryHolds, PTL

(* There are as many blocks in the vectors as places that hold one.        *)
LEMMA PortsCounted ==
    ASSUME NEW vectors, DOMAIN vectors = plan.nodes,
           BlocksAt(vectors) \subseteq Memory!Block,
           \A n, m \in plan.nodes : \A k \in DOMAIN vectors[n], l \in DOMAIN vectors[m] :
               vectors[n][k] # 0 /\ vectors[n][k] = vectors[m][l] => n = m /\ k = l
    PROVE  /\ IsFiniteSet(BlocksAt(vectors))
           /\ Cardinality(BlockPorts(vectors)) = Cardinality(BlocksAt(vectors))
<1> DEFINE S == BlockPorts(vectors)
           T == BlocksAt(vectors)
           f == [p \in S |-> vectors[p[1]][p[2]]]
<1>1. IsFiniteSet(T)
  <2>1. IsFiniteSet(1..MaxPossibleAllocations)
    BY BlockNumbers, FS_Interval
  <2>2. T \in SUBSET (1..MaxPossibleAllocations)
    BY BlockNumbers
  <2>3. QED
    BY <2>1, <2>2, FS_Subset
<1>2. \A p : p \in S <=> \E n \in plan.nodes : \E k \in DOMAIN vectors[n] :
                             vectors[n][k] # 0 /\ p = <<n, k>>
  BY BlockNumbers DEF BlockPorts
<1>3. \A b : b \in T <=> b # 0 /\ \E n \in plan.nodes : \E k \in DOMAIN vectors[n] :
                             vectors[n][k] = b
  BY DEF BlocksAt, ToSet
<1> HIDE DEF S, T
<1>4. \A n \in plan.nodes : \A k \in DOMAIN vectors[n] :
          vectors[n][k] # 0 => <<n, k>> \in S /\ f[<<n, k>>] = vectors[n][k]
  BY <1>2
<1>5. f \in [S -> T]
  <2>1. ASSUME NEW p \in S PROVE vectors[p[1]][p[2]] \in T
    <3>1. PICK n \in plan.nodes : \E k \in DOMAIN vectors[n] :
                vectors[n][k] # 0 /\ p = <<n, k>>
      BY <1>2
    <3>2. PICK k \in DOMAIN vectors[n] : vectors[n][k] # 0 /\ p = <<n, k>>
      BY <3>1
    <3>3. vectors[n][k] \in T
      BY <1>3, <3>2
    <3>4. QED
      BY <3>2, <3>3
  <2>2. QED
    BY <2>1
<1>6. \A p, q \in S : f[p] = f[q] => p = q
  <2> SUFFICES ASSUME NEW p \in S, NEW q \in S, f[p] = f[q] PROVE p = q
    OBVIOUS
  <2>1. PICK n \in plan.nodes : \E k \in DOMAIN vectors[n] : vectors[n][k] # 0 /\ p = <<n, k>>
    BY <1>2
  <2>2. PICK k \in DOMAIN vectors[n] : vectors[n][k] # 0 /\ p = <<n, k>>
    BY <2>1
  <2>3. PICK m \in plan.nodes : \E l \in DOMAIN vectors[m] : vectors[m][l] # 0 /\ q = <<m, l>>
    BY <1>2
  <2>4. PICK l \in DOMAIN vectors[m] : vectors[m][l] # 0 /\ q = <<m, l>>
    BY <2>3
  <2>5. vectors[n][k] = vectors[m][l]
    BY <1>4, <2>2, <2>4
  <2>6. QED
    BY <2>2, <2>4, <2>5
<1>7. \A b \in T : \E p \in S : f[p] = b
  <2> HIDE DEF f
  <2> SUFFICES ASSUME NEW b \in T PROVE \E p \in S : f[p] = b
    OBVIOUS
  <2>1. PICK n \in plan.nodes : \E k \in DOMAIN vectors[n] : b # 0 /\ vectors[n][k] = b
    BY <1>3
  <2>2. PICK k \in DOMAIN vectors[n] : b # 0 /\ vectors[n][k] = b
    BY <2>1
  <2>3. <<n, k>> \in S /\ f[<<n, k>>] = b
    BY <1>4, <2>2
  <2>4. QED
    BY <2>3
<1> HIDE DEF f
<1>8. f \in Injection(S, T) /\ f \in Surjection(S, T)
  BY <1>5, <1>6, <1>7 DEF Injection, Surjection, IsInjective
<1>9. Cardinality(S) = Cardinality(T)
  BY <1>1, <1>8, FS_Injection
<1>10. QED
  BY <1>1, <1>9 DEF S, T

LEMMA NotSharedFollows == ExecutionInv /\ MemoryInv => BlocksNotShared
<1> SUFFICES ASSUME ExecutionInv, MemoryInv PROVE BlocksNotShared
  OBVIOUS
<1> DEFINE ins == BlocksAt(input_memory_blocks)
           outs == BlocksAt(output_memory_blocks)
<1>1. /\ DOMAIN input_memory_blocks = plan.nodes
      /\ DOMAIN output_memory_blocks = plan.nodes
      /\ HeldBlocks \subseteq Memory!Block
  BY TypesFollow DEF ExecutionInv, DataInv, VectorsOK, TypeOK
<1>2. ins \subseteq Memory!Block /\ outs \subseteq Memory!Block /\ HeldBlocks = ins \cup outs
  BY <1>1 DEF HeldBlocks
<1>3. /\ \A n, m \in plan.nodes : \A j \in DOMAIN input_memory_blocks[n],
                k \in DOMAIN input_memory_blocks[m] :
            input_memory_blocks[n][j] # 0
            /\ input_memory_blocks[n][j] = input_memory_blocks[m][k] => n = m /\ j = k
      /\ \A n, m \in plan.nodes : \A j \in DOMAIN output_memory_blocks[n],
                k \in DOMAIN output_memory_blocks[m] :
            output_memory_blocks[n][j] # 0
            /\ output_memory_blocks[n][j] = output_memory_blocks[m][k] => n = m /\ j = k
  BY DEF MemoryInv, PlacesOK, InputsApart, OutputsApart, InputHolds, OutputHolds
<1>4. /\ IsFiniteSet(ins) /\ Cardinality(BlockPorts(input_memory_blocks)) = Cardinality(ins)
      /\ IsFiniteSet(outs) /\ Cardinality(BlockPorts(output_memory_blocks)) = Cardinality(outs)
  BY <1>1, <1>2, <1>3, PortsCounted
<1>5. ins \cap outs = {}
  <2>1. /\ \A b \in ins : \E n, j : InputHolds(n, j, b)
        /\ \A b \in outs : \E n, i : OutputHolds(n, i, b)
    BY <1>1 DEF BlocksAt, ToSet, InputHolds, OutputHolds
  <2>2. QED
    BY <2>1 DEF MemoryInv, PlacesOK, SidesApart
<1> HIDE DEF ins, outs
<1>6. Cardinality(ins \cup outs) = Cardinality(ins) + Cardinality(outs)
  <2>1. Cardinality(ins \cap outs) = 0
    BY <1>5, FS_EmptySet
  <2>2. Cardinality(ins) \in Nat /\ Cardinality(outs) \in Nat
    BY <1>4, FS_CardinalityType
  <2>3. Cardinality(ins \cup outs) =
            Cardinality(ins) + Cardinality(outs) - Cardinality(ins \cap outs)
    BY <1>4, FS_Union
  <2>4. QED
    BY <2>1, <2>2, <2>3
<1>7. QED
  BY <1>2, <1>4, <1>6 DEF BlocksNotShared, MemoryInv, MemoryOwned

(***************************************************************************)
(* BlocksNotShared: no two streams have one block, none has a block that   *)
(* waits on the stack, and no block is lost.                               *)
(***************************************************************************)
THEOREM BlocksNotSharedHolds == ASSUME PlansAreSimple PROVE Spec => []BlocksNotShared
BY MemoryHolds, NotSharedFollows, PTL
=============================================================================
