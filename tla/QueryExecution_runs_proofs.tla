--------------------- MODULE QueryExecution_runs_proofs ---------------------
(***************************************************************************)
(* Proofs about the runs of a query, for every set of plans and every      *)
(* number of memory blocks and of stream numbers: that the board can tell  *)
(* the streams of a run apart by their numbers, and that every result is   *)
(* delivered.                                                              *)
(*                                                                         *)
(* A stream that comes from memory takes a number of its own, and hands it *)
(* on from node to node: at each moment, a number belongs to one output    *)
(* that no node set up so far consumes.                                    *)
(***************************************************************************)
EXTENDS QueryExecution_proofs

(* The links that the scheduler leaves to the nodes of a run: of a stream  *)
(* within the run both ends, of any other not the consumer's.              *)
LinksSettled ==
    /\ \A n \in plan.nodes : \A j \in Inputs(plan, n) :
          previous_nodes[n][j] \in {plan.previous_nodes[n][j], Null}
    /\ \A r \in Runs : \A k, l \in DOMAIN RunNodes(r) :
          RunNodes(r)[l] \in Producers(plan, RunNodes(r)[k]) => l < k
    /\ HasSimpleEdges(plan) =>
          \A e \in Edges(plan) : \A r \in Runs : e.to \in NodesIn(r) =>
              IF e.from \in NodesIn(r)
              THEN /\ previous_nodes[e.to][e.input] = e.from
                   /\ next_nodes[e.from][e.output] = e.to
              ELSE previous_nodes[e.to][e.input] = Null

LEMMA LinksAreSettled == Proved!SchedulerInv => LinksSettled
<1> SUFFICES ASSUME Proved!SchedulerInv PROVE LinksSettled
  OBVIOUS
<1>1. /\ Proved!FieldsOK /\ Proved!RunsOrdered /\ Proved!LinksCut
  BY DEF Proved!SchedulerInv, Proved!IInv, Proved!RunsReady
<1>2. ScheduleReady
  BY ScheduleIsReady
<1>3. \A n \in plan.nodes : \A j \in Inputs(plan, n) :
         previous_nodes[n][j] \in {plan.previous_nodes[n][j], Null}
  BY <1>1, <1>2 DEF Proved!LinksCut, ScheduleReady, LinksKnown, Null, Proved!Null
<1>4. \A r \in Runs : \A k, l \in DOMAIN RunNodes(r) :
         RunNodes(r)[l] \in Producers(plan, RunNodes(r)[k]) => l < k
  BY <1>1, Zenon DEF Proved!RunsOrdered, Proved!ComesFirst, Runs, RunNodes, Producers,
         Proved!Producers, Inputs, Proved!Inputs, Null, Proved!Null
<1>5. ASSUME HasSimpleEdges(plan), NEW e \in Edges(plan), NEW r \in Runs, e.to \in NodesIn(r)
      PROVE  IF e.from \in NodesIn(r)
             THEN /\ previous_nodes[e.to][e.input] = e.from
                  /\ next_nodes[e.from][e.output] = e.to
             ELSE previous_nodes[e.to][e.input] = Null
  <2>1. Proved!HasSimpleEdges(plan)
    BY <1>5, Zenon DEF HasSimpleEdges, Proved!HasSimpleEdges, Inputs, Proved!Inputs,
           Outputs, Proved!Outputs, IsNode, Proved!IsNode, Null, Proved!Null
  <2>2. Edges(plan) = Proved!Edges(plan)
    BY DEF Edges, Edge, Inputs, Outputs, Proved!Edges, Proved!Edge,
           Proved!Inputs, Proved!Outputs
  <2>3. NodesIn(r) = Proved!ToSet(query_node_runs_queue[r].nodes)
    BY DEF NodesIn, RunNodes, ToSet, Proved!ToSet
  <2>4. e \in Proved!Edges(plan) /\ r \in DOMAIN query_node_runs_queue
    BY <2>2 DEF Runs
  <2>5. e.to \in Proved!ToSet(query_node_runs_queue[r].nodes)
    BY <1>5, <2>3
  <2>6. IF e.from \in Proved!ToSet(query_node_runs_queue[r].nodes)
        THEN /\ previous_nodes[e.to][e.input] = e.from
             /\ next_nodes[e.from][e.output] = e.to
        ELSE previous_nodes[e.to][e.input] = Proved!Null
    BY <2>1, <2>4, <2>5, PlansKnown, Proved!StreamsSettled
  <2>7. QED
    BY <2>3, <2>6 DEF Null, Proved!Null
<1>6. QED
  BY <1>3, <1>4, <1>5 DEF LinksSettled

LEMMA LinksStaySettled == Proved!SchedulerInv' => LinksSettled'
BY LinksAreSettled, PTL

LEMMA SetupSettled ==
    ASSUME ControlInv, LinksSettled, SetupNextRunData
    PROVE  LinksSettled'
<1>1. /\ next_run \in Runs
      /\ UNCHANGED <<plan, previous_nodes, query_node_runs_queue>>
      /\ \A r : RunNodes(r)' = RunNodes(r) /\ NodesIn(r)' = NodesIn(r)
      /\ \A n \in plan.nodes \ NodesIn(next_run) : next_nodes'[n] = next_nodes[n]
  BY SetupChanges
<1>2. Runs' = Runs
  BY <1>1 DEF Runs
<1>3. ASSUME HasSimpleEdges(plan), NEW e \in Edges(plan), NEW r \in Runs, e.to \in NodesIn(r)
      PROVE  IF e.from \in NodesIn(r)
             THEN /\ previous_nodes[e.to][e.input] = e.from
                  /\ next_nodes'[e.from][e.output] = e.to
             ELSE previous_nodes[e.to][e.input] = Null
  <2>1. IF e.from \in NodesIn(r)
        THEN /\ previous_nodes[e.to][e.input] = e.from
             /\ next_nodes[e.from][e.output] = e.to
        ELSE previous_nodes[e.to][e.input] = Null
    BY <1>3 DEF LinksSettled
  <2>2. /\ e.from \in plan.nodes /\ e.output \in DOMAIN next_nodes[e.from]
    BY EdgeFacts DEF ControlInv, ScheduleKnown, LinksKnown
  <2>3. ASSUME e.from \in NodesIn(r) PROVE next_nodes'[e.from][e.output] = e.to
    <3>1. CASE r = next_run
      BY <1>3, <2>1, <2>2, <2>3, <3>1 DEF SetupNextRunData, InitialiseVectorSizes, NodesIn
    <3>2. CASE r # next_run
      <4>1. e.from \notin NodesIn(next_run)
        BY <1>1, <2>3, <3>2 DEF ControlInv, ScheduleKnown, RunsKnown
      <4>2. QED
        BY <1>1, <2>1, <2>2, <2>3, <4>1
    <3>3. QED
      BY <3>1, <3>2
  <2>4. QED
    BY <2>1, <2>3
<1>4. QED
  BY <1>1, <1>2, <1>3 DEF LinksSettled

LEMMA NextSettled ==
    ASSUME ControlInv, LinksSettled, [Next]_vars
    PROVE  LinksSettled'
<1>1. CASE ScheduleUnscheduledNodes
  <2>1. ~is_graph_empty /\ Scheduler!Next
    BY <1>1 DEF ScheduleUnscheduledNodes
  <2>2. Proved!SchedulerInv'
    BY <2>1, SchedulerSteps DEF ControlInv, Scheduling
  <2>3. QED
    BY <2>2, LinksStaySettled
<1>2. CASE SetupNextRunData
  BY <1>2, SetupSettled
<1>3. CASE QuietStep \/ AllocateMemoryBlocks \/ FreeMemoryBlocks
  <2>1. UNCHANGED <<plan, previous_nodes, next_nodes, query_node_runs_queue>>
    BY <1>3, QuietSteps DEF AllocateMemoryBlocks, FreeMemoryBlocks, schedulerVars
  <2>2. \A r : RunNodes(r)' = RunNodes(r) /\ NodesIn(r)' = NodesIn(r)
    BY <2>1 DEF RunNodes, NodesIn
  <2>3. QED
    BY <2>1, <2>2 DEF LinksSettled, Runs
<1>4. QED
  BY <1>1, <1>2, <1>3, Steps

(* While a run is under way its nodes have links to one another only, and  *)
(* no input that is linked holds a block.                                  *)
RunLinked ==
    step # "start" =>
        \A n \in plan.nodes : InRun(n) =>
            /\ \A i \in Outputs(plan, n) : IsNode(next_nodes[n][i]) => InRun(next_nodes[n][i])
            /\ \A j \in Inputs(plan, n) :
                  IsBlock(input_memory_blocks[n][j]) => ~IsNode(previous_nodes[n][j])

LEMMA SetupLinked ==
    ASSUME HasSimpleEdges(plan), ControlInv, DataInv, InputsWaiting, LinksSettled,
           SetupNextRunData
    PROVE  RunLinked'
<1>1. /\ \A n : InRun(n)' <=> n \in NodesIn(next_run)
      /\ \A n : HasFinished(n) <=> HasRun(n)
      /\ \A n : ~IsBeingRun(n)
      /\ next_run \in Runs /\ NodesIn(next_run) \subseteq plan.nodes
  BY SetupRuns
<1>2. UNCHANGED <<plan, previous_nodes>>
  BY SetupChanges
<1>3. \A b : IsBlock(b)' <=> IsBlock(b)
  BY DEF IsBlock, NoBlock, Memory!NoBlock
<1>4. ASSUME NEW n \in NodesIn(next_run), NEW i \in Outputs(plan, n), IsNode(next_nodes'[n][i])
      PROVE  next_nodes'[n][i] \in NodesIn(next_run)
  <2>1. n \in plan.nodes /\ i \in DOMAIN next_nodes[n]
    BY <1>1 DEF ControlInv, ScheduleKnown, LinksKnown
  <2>2. next_nodes'[n][i] = IF next_nodes[n][i] \in NodesIn(next_run) THEN next_nodes[n][i]
                                                                    ELSE Null
    BY <2>1 DEF SetupNextRunData, InitialiseVectorSizes, NodesIn
  <2>3. QED
    BY <1>4, <2>2 DEF IsNode
<1>5. ASSUME NEW n \in NodesIn(next_run), NEW j \in Inputs(plan, n),
             IsBlock(input_memory_blocks'[n][j])
      PROVE  ~IsNode(previous_nodes[n][j])
  <2>1. input_memory_blocks'[n] =
            IF GetsInputVector(n, NodesIn(next_run)) THEN [k \in Inputs(plan, n) |-> NoBlock]
                                                    ELSE input_memory_blocks[n]
    BY <1>1, SetupVectors
  <2>2. ~GetsInputVector(n, NodesIn(next_run))
    BY <1>5, <2>1 DEF IsBlock
  <2>3. input_memory_blocks[n] # <<>>
    BY <2>2 DEF GetsInputVector
  <2>4. DOMAIN input_memory_blocks[n] = Inputs(plan, n)
    BY <1>1, <2>3 DEF DataInv, VectorsOK
  <2>5. PICK e \in linked_nodes : e.to = n /\ e.input = j /\ HasRun(e.from)
    BY <1>1, <1>5, <2>1, <2>2, <2>4 DEF InputsWaiting
  <2>6. e \in Edges(plan)
    BY DEF ControlInv, ScheduleKnown, KeptKnown
  <2>7. e.from \notin NodesIn(next_run)
    BY <1>1, <2>5, <2>6, NotFedLater, EdgeFacts
  <2>8. previous_nodes[n][j] = Null
    BY <1>1, <2>5, <2>6, <2>7 DEF LinksSettled
  <2>9. QED
    BY <2>8 DEF IsNode
<1>6. QED
  BY <1>1, <1>2, <1>3, <1>4, <1>5 DEF RunLinked

LEMMA NextLinked ==
    ASSUME HasSimpleEdges(plan), ControlInv, DataInv, InputsWaiting, LinksSettled, RunLinked,
           [Next]_vars
    PROVE  RunLinked'
<1>1. \A b : IsBlock(b)' <=> IsBlock(b)
  BY DEF IsBlock, NoBlock, Memory!NoBlock
<1>2. CASE QuietStep
  <2>1. UNCHANGED <<schedulerVars, next_run, input_memory_blocks>>
    BY <1>2, QuietSteps
  <2>2. step' = "start" <=> step = "start"
    BY <1>2, QuietSteps
  <2>3. /\ UNCHANGED <<plan, previous_nodes, next_nodes>>
        /\ \A n : InRun(n)' <=> InRun(n)
    BY <2>1, <2>2, SameRuns
  <2>4. QED
    BY <1>1, <2>1, <2>2, <2>3 DEF RunLinked
<1>3. CASE AllocateMemoryBlocks
  <2>1. /\ UNCHANGED <<schedulerVars, next_run>> /\ step = "memory" /\ step' # "start"
        /\ input_memory_blocks' =
              [input_memory_blocks EXCEPT ![SetupNode] = InputBlocks(SetupNode)]
    BY <1>3 DEF AllocateMemoryBlocks
  <2>2. /\ UNCHANGED <<plan, previous_nodes, next_nodes>>
        /\ \A n : InRun(n)' <=> InRun(n)
    BY <2>1, SameRuns
  <2>3. SetupNode \in plan.nodes /\ InRun(SetupNode)
    BY <2>1, SetupNodeKnown
  <2>4. DOMAIN input_memory_blocks = plan.nodes
        /\ DOMAIN previous_nodes[SetupNode] = Inputs(plan, SetupNode)
    BY <2>3 DEF DataInv, VectorsOK, ControlInv, ScheduleKnown, LinksKnown
  <2>5. ASSUME NEW j \in Inputs(plan, SetupNode), IsBlock(input_memory_blocks'[SetupNode][j])
        PROVE  ~IsNode(previous_nodes[SetupNode][j])
    <3>1. input_memory_blocks'[SetupNode][j] =
             IF j \in InputsFromFile(SetupNode)
             THEN Memory!NextBlock(InputRequest(SetupNode, j))
             ELSE input_memory_blocks[SetupNode][j]
      BY <2>1, <2>3, <2>4 DEF InputBlocks
    <3>2. CASE j \in InputsFromFile(SetupNode)
      BY <3>2 DEF InputsFromFile
    <3>3. CASE j \notin InputsFromFile(SetupNode)
      BY <2>1, <2>3, <2>5, <3>1, <3>3 DEF RunLinked
    <3>4. QED
      BY <3>2, <3>3
  <2>6. \A n \in plan.nodes : n # SetupNode => input_memory_blocks'[n] = input_memory_blocks[n]
    BY <2>1, <2>4
  <2>7. QED
    BY <1>1, <2>1, <2>2, <2>5, <2>6 DEF RunLinked
<1>4. CASE ScheduleUnscheduledNodes \/ FreeMemoryBlocks
  <2>1. step' = "start"
    BY <1>4 DEF ScheduleUnscheduledNodes, FreeMemoryBlocks, ControlInv, StateOK, controlVars
  <2>2. QED
    BY <2>1 DEF RunLinked
<1>5. QED
  BY <1>2, <1>3, <1>4, SetupLinked, Steps

(* The nodes of the run that have numbers for their streams.               *)
HasNumbers(n) ==
    /\ step # "start"
    /\ \E k \in DOMAIN CurrentRun : CurrentRun[k] = n /\ (step = "ids" => k < setup_index)

(* The streams that come from memory, and those that no node set up so far *)
(* consumes, with their numbers.                                           *)
InputNumber(n, j, id) ==
    /\ HasNumbers(n) /\ j \in Inputs(plan, n) /\ ~IsNode(previous_nodes[n][j])
    /\ input_ids[n][j] = id
OutputNumber(n, i, id) ==
    /\ HasNumbers(n) /\ i \in Outputs(plan, n) /\ ~HasNumbers(next_nodes[n][i])
    /\ output_ids[n][i] = id

NumbersFit ==
    /\ DOMAIN input_ids = plan.nodes /\ DOMAIN output_ids = plan.nodes
    /\ \A n : HasNumbers(n) =>
          DOMAIN input_ids[n] = Inputs(plan, n) /\ DOMAIN output_ids[n] = Outputs(plan, n)
InputsNumbered ==
    \A id, n, j, m, k : InputNumber(n, j, id) /\ InputNumber(m, k, id) => n = m /\ j = k
OutputsNumbered ==
    \A id, n, i, m, k : OutputNumber(n, i, id) /\ OutputNumber(m, k, id) => n = m /\ i = k
NumbersPassed ==
    \A e \in Edges(plan) : HasNumbers(e.from) /\ HasNumbers(e.to) =>
        input_ids[e.to][e.input] = output_ids[e.from][e.output]
NumbersFresh ==
    step = "ids" =>
        /\ IsInjective(available_ids)
        /\ \A id \in ToSet(available_ids) : \A n, k :
              ~InputNumber(n, k, id) /\ ~OutputNumber(n, k, id)

NumbersInv ==
    NumbersFit /\ InputsNumbered /\ OutputsNumbered /\ NumbersPassed /\ NumbersFresh

(* They have all of them once the numbers are given out.                   *)
LEMMA NumbersComplete ==
    ASSUME step # "start", step # "ids", NEW n
    PROVE  HasNumbers(n) <=> InRun(n)
BY DEF HasNumbers, InRun, ToSet

LEMMA NumberedInRun ==
    ASSUME ControlInv, NEW n, HasNumbers(n)
    PROVE  n \in plan.nodes /\ InRun(n)
<1>1. InRun(n) /\ step # "start"
  BY DEF HasNumbers, InRun, ToSet
<1>2. QED
  BY <1>1, CurrentRunKnown

LEMMA InitNumbers == Init => NumbersInv
<1> SUFFICES ASSUME Init PROVE NumbersInv
  OBVIOUS
<1>1. step = "start"
  BY DEF Init
<1>2. \A n : ~HasNumbers(n)
  BY <1>1 DEF HasNumbers
<1>3. DOMAIN input_ids = plan.nodes /\ DOMAIN output_ids = plan.nodes
  BY DEF Init
<1>4. QED
  BY <1>1, <1>2, <1>3 DEF NumbersInv, NumbersFit, InputsNumbered, OutputsNumbered,
         NumbersPassed, NumbersFresh, InputNumber, OutputNumber

(* An order of nodes as the run has it: the producers of the node that     *)
(* comes next have their numbers.                                          *)
LEMMA NumberedBefore ==
    ASSUME ControlInv, LinksSettled, step = "ids"
    PROVE  /\ ~HasNumbers(SetupNode)
           /\ \A n : HasNumbers(n) => SetupNode \notin Producers(plan, n)
           /\ \A m \in Producers(plan, SetupNode) : InRun(m) => HasNumbers(m)
           /\ SetupNode \notin Producers(plan, SetupNode)
<1>1. /\ next_run - 1 \in Runs /\ CurrentRun = RunNodes(next_run - 1)
      /\ IsInjective(CurrentRun)
      /\ DOMAIN CurrentRun = 1..Len(CurrentRun) /\ Len(CurrentRun) \in Nat
      /\ setup_index \in DOMAIN CurrentRun
  BY CurrentRunKnown, SetupNodeKnown
<1>2. \A k, l \in DOMAIN CurrentRun :
         CurrentRun[l] \in Producers(plan, CurrentRun[k]) => l < k
  BY <1>1 DEF LinksSettled
<1>3. \A k, l \in DOMAIN CurrentRun : CurrentRun[k] = CurrentRun[l] => k = l
  BY <1>1 DEF IsInjective
<1>4. \A k, l \in DOMAIN CurrentRun : ~(k < l /\ l < k) /\ ~(k < k)
  BY <1>1
<1>5. \A n : HasNumbers(n) <=> \E k \in DOMAIN CurrentRun : CurrentRun[k] = n /\ k < setup_index
  BY DEF HasNumbers
<1>6. \A n : InRun(n) <=> \E k \in DOMAIN CurrentRun : CurrentRun[k] = n
  BY DEF InRun, ToSet
<1>7. SetupNode = CurrentRun[setup_index]
  BY DEF SetupNode
<1>8. ~HasNumbers(SetupNode)
  BY <1>1, <1>3, <1>4, <1>5, <1>7, Zenon
<1>9. ASSUME NEW n, HasNumbers(n) PROVE SetupNode \notin Producers(plan, n)
  BY <1>1, <1>2, <1>4, <1>5, <1>7, <1>9, Zenon
<1>10. ASSUME NEW m \in Producers(plan, SetupNode), InRun(m) PROVE HasNumbers(m)
  BY <1>1, <1>2, <1>5, <1>6, <1>7, <1>10, Zenon
<1>11. SetupNode \notin Producers(plan, SetupNode)
  BY <1>1, <1>2, <1>4, <1>7, Zenon
<1>12. QED
  BY <1>8, <1>9, <1>10, <1>11

(* A stream that both of its nodes know is an edge.                        *)
LEMMA StreamIsEdge ==
    ASSUME NEW n \in plan.nodes, NEW m \in plan.nodes,
           NEW i \in Outputs(plan, n), plan.next_nodes[n][i] = m,
           NEW j \in Inputs(plan, m), plan.previous_nodes[m][j] = n
    PROVE  Edge(n, i, m, j) \in Edges(plan)
<1> DEFINE Between(x, y) ==
               {Edge(x, k, y, l) : k \in {k \in Outputs(plan, x) : plan.next_nodes[x][k] = y},
                                   l \in {l \in Inputs(plan, y) : plan.previous_nodes[y][l] = x}}
<1>1. Edge(n, i, m, j) \in Between(n, m)
  OBVIOUS
<1>2. Edges(plan) = UNION {Between(x, y) : x \in plan.nodes, y \in plan.nodes}
  BY DEF Edges
<1> HIDE DEF Between
<1>3. QED
  BY <1>1, <1>2

(* An input from another node of the run gets the number with which the    *)
(* stream left that node.                                                  *)
LEMMA LinkedInput ==
    ASSUME HasSimpleEdges(plan), ControlInv, LinksSettled, step = "ids",
           NEW j \in Inputs(plan, SetupNode), IsNode(previous_nodes[SetupNode][j])
    PROVE  \E e \in Edges(plan) :
              /\ e.to = SetupNode /\ e.input = j
              /\ HasNumbers(e.from) /\ next_nodes[e.from][e.output] = SetupNode
              /\ IDs!InputID(SetupNode, j) = output_ids[e.from][e.output]
<1> DEFINE n == SetupNode
           m == previous_nodes[n][j]
<1>1. n \in plan.nodes /\ InRun(n) /\ plan \in Plans /\ next_run - 1 \in Runs
  BY SetupNodeKnown, CurrentRunKnown DEF ControlInv, ScheduleKnown
<1>2. m = plan.previous_nodes[n][j] /\ m # Null /\ m \in Producers(plan, n)
  BY <1>1 DEF LinksSettled, IsNode, Producers
<1>3. m \in plan.nodes
  BY <1>1, <1>2, PlanFacts
<1>4. n # Null /\ n \in Consumers(plan, m)
  BY <1>1, <1>2, <1>3, PlanFacts, PlansAssumption DEF IsPlan, IsLinked
<1>5. PICK i \in Outputs(plan, m) : plan.next_nodes[m][i] = n
  BY <1>4 DEF Consumers
<1> DEFINE e == Edge(m, i, n, j)
<1>6. /\ e \in Edges(plan)
      /\ e.from = m /\ e.output = i /\ e.to = n /\ e.input = j
  <2> HIDE DEF m, n
  <2>1. j \in Inputs(plan, n) /\ plan.previous_nodes[n][j] = m
    BY <1>2 DEF n
  <2>3. e \in Edges(plan)
    BY <1>1, <1>3, <1>5, <2>1, StreamIsEdge DEF n
  <2>4. QED
    BY <2>3 DEF Edge, n
<1> HIDE DEF e
<1>7. n \in NodesIn(next_run - 1)
  BY <1>1, CurrentRunKnown
<1>8. m \in NodesIn(next_run - 1) /\ next_nodes[m][i] = n
  BY <1>1, <1>2, <1>6, <1>7 DEF LinksSettled
<1>9. HasNumbers(m)
  BY <1>2, <1>8, CurrentRunKnown, NumberedBefore
<1>10. IDs!FindStreamIndex(m, n) = i
  <2>1. DOMAIN next_nodes[m] = Outputs(plan, m)
        /\ \A k \in Outputs(plan, m) : next_nodes[m][k] \in {plan.next_nodes[m][k], Null}
    BY <1>3 DEF ControlInv, ScheduleKnown, LinksKnown
  <2>2. \A k \in DOMAIN next_nodes[m] : next_nodes[m][k] = n => k = i
    BY <1>3, <1>4, <1>5, <2>1 DEF HasSimpleEdges, IsNode
  <2>3. PICK l \in Nat : Outputs(plan, m) = 1..l
    BY <1>1, <1>3, PlanFacts
  <2>4. \A k \in 1..(i - 1) : k \in DOMAIN next_nodes[m] /\ k # i
    BY <2>1, <2>3
  <2>5. /\ i \in DOMAIN next_nodes[m] /\ next_nodes[m][i] = n
        /\ \A k \in 1..(i - 1) : next_nodes[m][k] # n
    BY <1>8, <2>1, <2>2, <2>4
  <2>6. QED
    BY <2>2, <2>5, Zenon DEF IDs!FindStreamIndex
<1>11. IDs!InputID(n, j) = output_ids[m][i]
  <2>1. IDs!IsNode(m)
    BY <1>2 DEF IDs!IsNode, IDs!Null, Null
  <2>2. QED
    BY <1>10, <2>1 DEF IDs!InputID
<1>12. QED
  BY <1>6, <1>8, <1>9, <1>11

(* The streams of the node that need numbers of their own, and the places  *)
(* on the stack that these come from.                                      *)
IsFresh(n, k) ==
    \/ k \in Inputs(plan, n) /\ ~IsNode(previous_nodes[n][k])
    \/ k \in Outputs(plan, n) /\ k \notin Inputs(plan, n)
StackPlace(n, k) ==
    IF k \in Inputs(plan, n) THEN Cardinality({j \in Inputs(plan, n) :
                                                  ~IsNode(previous_nodes[n][j]) /\ j <= k})
    ELSE IDs!NeededIDs(n) + k - Len(next_nodes[n])

LEMMA StackPlaces ==
    ASSUME ControlInv, NEW n \in plan.nodes
    PROVE  /\ IDs!NeededIDs(n) \in Nat
           /\ \A k : IsFresh(n, k) =>
                 /\ IDs!OutputID(n, k) = available_ids[StackPlace(n, k)]
                 /\ StackPlace(n, k) \in 1..IDs!NeededIDs(n)
           /\ \A k, l : IsFresh(n, k) /\ IsFresh(n, l) /\ StackPlace(n, k) = StackPlace(n, l)
                        => k = l
           /\ \A j \in Inputs(plan, n) : IDs!OutputID(n, j) = IDs!InputID(n, j)
<1> DEFINE p == Len(previous_nodes[n])
           q == Len(next_nodes[n])
           U == {j \in Inputs(plan, n) : ~IsNode(previous_nodes[n][j])}
           upto(k) == {j \in U : j <= k}
           c == Cardinality(U)
           needed == IDs!NeededIDs(n)
<1>1. /\ p \in Nat /\ q \in Nat
      /\ Inputs(plan, n) = 1..p /\ DOMAIN previous_nodes[n] = 1..p
      /\ Outputs(plan, n) = 1..q /\ DOMAIN next_nodes[n] = 1..q
  <2>1. /\ previous_nodes[n] \in Seq(plan.nodes \cup {Null})
        /\ next_nodes[n] \in Seq(plan.nodes \cup {Null})
        /\ DOMAIN previous_nodes[n] = Inputs(plan, n) /\ DOMAIN next_nodes[n] = Outputs(plan, n)
    BY DEF ControlInv, ScheduleKnown, LinksKnown
  <2>2. QED
    BY <2>1, LenProperties
<1>2. /\ c \in Nat
      /\ \A k \in U : Cardinality(upto(k)) \in 1..c
      /\ \A k, l \in U : Cardinality(upto(k)) = Cardinality(upto(l)) => k = l
  <2>1. U \in SUBSET (1..p)
    BY <1>1
  <2>2. U \in SUBSET Nat /\ IsFiniteSet(U)
    <3>1. IsFiniteSet(1..p)
      BY <1>1, FS_Interval
    <3>2. 1..p \in SUBSET Nat
      BY <1>1
    <3> HIDE DEF U, p
    <3>3. IsFiniteSet(U)
      BY <2>1, <3>1, FS_Subset
    <3>4. QED
      BY <2>1, <3>2, <3>3
  <2> HIDE DEF U
  <2>3. QED
    BY <2>2, Ranks
<1>3. ASSUME NEW k \in 1..p PROVE IDs!Cardinality(IDs!UnlinkedInputs(n, k)) = Cardinality(upto(k))
  <2>1. IDs!UnlinkedInputs(n, k) = upto(k)
    BY <1>1 DEF IDs!UnlinkedInputs, IDs!IsNode, IDs!Null, IsNode, Null
  <2> HIDE DEF upto
  <2>2. QED
    BY <2>1, Zenon DEF Cardinality, IDs!Cardinality
<1>4. IDs!Cardinality(IDs!UnlinkedInputs(n, p)) = c
  <2>1. IDs!UnlinkedInputs(n, p) = U
    BY <1>1 DEF IDs!UnlinkedInputs, IDs!IsNode, IDs!Null, IsNode, Null
  <2> HIDE DEF U, p
  <2>2. QED
    BY <2>1, Zenon DEF Cardinality, IDs!Cardinality
<1>5. needed = c + (IF q > p THEN q - p ELSE 0)
  BY <1>4 DEF IDs!NeededIDs
<1>6. \A k \in 1..p : StackPlace(n, k) = Cardinality(upto(k))
  <2>1. ASSUME NEW k \in 1..p
        PROVE  upto(k) = {j \in Inputs(plan, n) : ~IsNode(previous_nodes[n][j]) /\ j <= k}
    OBVIOUS
  <2>2. QED
    BY <1>1, <2>1, Zenon DEF StackPlace
<1>7. \A k \in (1..q) \ (1..p) : StackPlace(n, k) = needed + k - q
  BY <1>1 DEF StackPlace
<1>8. \A k : IsFresh(n, k) <=> k \in U \/ k \in (1..q) \ (1..p)
  BY <1>1 DEF IsFresh, IsNode
<1>9. U \subseteq 1..p
  BY <1>1
<1>10. ASSUME NEW k \in U PROVE IDs!OutputID(n, k) = available_ids[Cardinality(upto(k))]
  <2>1. k \in 1..p /\ k <= p /\ ~IDs!IsNode(previous_nodes[n][k])
    BY <1>1, <1>9 DEF IDs!IsNode, IDs!Null, IsNode, Null
  <2>2. IDs!OutputID(n, k) = IDs!InputID(n, k)
    BY <2>1 DEF IDs!OutputID
  <2>3. IDs!InputID(n, k) = available_ids[IDs!Cardinality(IDs!UnlinkedInputs(n, k))]
    BY <2>1, Zenon DEF IDs!InputID
  <2>4. QED
    BY <1>3, <2>1, <2>2, <2>3, Zenon
<1>11. ASSUME NEW k \in (1..q) \ (1..p)
       PROVE  IDs!OutputID(n, k) = available_ids[c + k - p]
  <2>1. ~(k <= p)
    BY <1>1
  <2>2. QED
    BY <1>4, <2>1 DEF IDs!OutputID
<1>12. \A j \in Inputs(plan, n) : IDs!OutputID(n, j) = IDs!InputID(n, j)
  BY <1>1 DEF IDs!OutputID
<1> HIDE DEF p, q, U, upto, c, needed
<1>13. needed \in Nat
  BY <1>1, <1>2, <1>5
<1>14. ASSUME NEW k \in (1..q) \ (1..p)
       PROVE  /\ IDs!OutputID(n, k) = available_ids[StackPlace(n, k)]
              /\ StackPlace(n, k) \in (c + 1)..needed
              /\ StackPlace(n, k) = c + k - p
  <2>1. k \in Nat /\ k > p /\ k <= q
    BY <1>1
  <2>2. StackPlace(n, k) = c + k - p
    BY <1>1, <1>2, <1>5, <1>7, <2>1
  <2>3. QED
    BY <1>1, <1>2, <1>5, <1>11, <2>1, <2>2
<1>15. ASSUME NEW k \in U
       PROVE  /\ IDs!OutputID(n, k) = available_ids[StackPlace(n, k)]
              /\ StackPlace(n, k) \in 1..c
              /\ StackPlace(n, k) = Cardinality(upto(k))
  BY <1>2, <1>6, <1>9, <1>10
<1>16. c <= needed
  BY <1>1, <1>2, <1>5
<1>17. ASSUME NEW k, IsFresh(n, k)
       PROVE  /\ IDs!OutputID(n, k) = available_ids[StackPlace(n, k)]
              /\ StackPlace(n, k) \in 1..needed
  BY <1>2, <1>8, <1>13, <1>14, <1>15, <1>16, <1>17
<1>18. ASSUME NEW k, NEW l, IsFresh(n, k), IsFresh(n, l), StackPlace(n, k) = StackPlace(n, l)
       PROVE  k = l
  <2>1. CASE k \in U /\ l \in U
    BY <1>2, <1>15, <1>18, <2>1
  <2>2. CASE k \in (1..q) \ (1..p) /\ l \in (1..q) \ (1..p)
    BY <1>1, <1>2, <1>14, <1>18, <2>2
  <2>3. ASSUME NEW a \in U, NEW b \in (1..q) \ (1..p)
        PROVE  StackPlace(n, a) # StackPlace(n, b)
    <3>1. StackPlace(n, a) \in 1..c /\ StackPlace(n, b) \in (c + 1)..needed
      BY <1>14, <1>15
    <3>2. QED
      BY <1>2, <1>13, <3>1
  <2>4. QED
    BY <1>8, <1>18, <2>1, <2>2, <2>3
<1>19. QED
  BY <1>12, <1>13, <1>17, <1>18 DEF needed

(* They are numbers that no other stream has, nor the rest of the stack.   *)
LEMMA FreshNumbers ==
    ASSUME ControlInv, DataInv, NEW n \in plan.nodes, ~IDs!IsOutOfIDs(n),
           IsInjective(available_ids),
           NEW rest, rest = SubSeq(available_ids, IDs!NeededIDs(n) + 1, Len(available_ids))
    PROVE  /\ IsInjective(rest) /\ ToSet(rest) \subseteq ToSet(available_ids)
           /\ \A k : IsFresh(n, k) =>
                 IDs!OutputID(n, k) \in ToSet(available_ids) \ ToSet(rest)
           /\ \A k, l : IsFresh(n, k) /\ IsFresh(n, l)
                        /\ IDs!OutputID(n, k) = IDs!OutputID(n, l) => k = l
<1> DEFINE a == available_ids
           needed == IDs!NeededIDs(n)
<1>1. /\ a \in Seq(IDs!StreamID) /\ Len(a) \in Nat /\ DOMAIN a = 1..Len(a)
      /\ needed \in Nat /\ needed <= Len(a)
  <2>1. a \in Seq(IDs!StreamID)
    BY DEF DataInv, ManagersOK
  <2>2. needed \in Nat
    BY StackPlaces
  <2>3. Len(a) \in Nat /\ DOMAIN a = 1..Len(a)
    BY <2>1, LenProperties
  <2>4. ~(needed > Len(a))
    BY DEF IDs!IsOutOfIDs
  <2> HIDE DEF a, needed
  <2>5. QED
    BY <2>1, <2>2, <2>3, <2>4
<1>2. rest = SubSeq(a, needed + 1, Len(a))
  OBVIOUS
<1>3. \A k, l \in 1..needed : a[k] = a[l] => k = l
  <2>1. \A k, l \in 1..Len(a) : a[k] = a[l] => k = l
    BY <1>1 DEF IsInjective
  <2>2. \A k \in 1..needed : k \in 1..Len(a)
    <3> HIDE DEF a, needed
    <3>1. QED
      BY <1>1
  <2>3. QED
    BY <2>1, <2>2, Zenon
<1>4. /\ \A k : IsFresh(n, k) =>
            IDs!OutputID(n, k) = a[StackPlace(n, k)] /\ StackPlace(n, k) \in 1..needed
      /\ \A k, l : IsFresh(n, k) /\ IsFresh(n, l) /\ StackPlace(n, k) = StackPlace(n, l)
                   => k = l
  BY StackPlaces
<1>5. IsInjective(a)
  OBVIOUS
<1> HIDE DEF a, needed
<1>6. needed \in 0..Len(a)
  BY <1>1
<1>7. /\ IsInjective(rest) /\ ToSet(rest) \subseteq ToSet(a)
      /\ \A k \in 1..needed : a[k] \in ToSet(a) \ ToSet(rest)
  <2>1. a \in Seq(IDs!StreamID)
    BY <1>1
  <2>2. /\ IsInjective(SubSeq(a, needed + 1, Len(a)))
        /\ ToSet(SubSeq(a, needed + 1, Len(a))) \subseteq ToSet(a)
        /\ \A k \in 1..needed : a[k] \in ToSet(a) \ ToSet(SubSeq(a, needed + 1, Len(a)))
    BY <1>5, <1>6, <2>1, RestOfSequence, Zenon
  <2>3. QED
    BY <1>2, <2>2, Zenon
<1>14. ASSUME NEW k, IsFresh(n, k)
       PROVE  IDs!OutputID(n, k) \in ToSet(a) \ ToSet(rest)
  BY <1>4, <1>7, <1>14
<1>15. ASSUME NEW k, NEW l, IsFresh(n, k), IsFresh(n, l),
              IDs!OutputID(n, k) = IDs!OutputID(n, l)
       PROVE  k = l
  BY <1>3, <1>4, <1>15, Zenon
<1>16. QED
  BY <1>7, <1>14, <1>15 DEF a

LEMMA NumbersGiven ==
    ASSUME ControlInv, AllocateStreamIDs, ~IDs!IsOutOfIDs(SetupNode)
    PROVE  /\ step = "ids" /\ SetupNode \in plan.nodes
           /\ UNCHANGED <<plan, previous_nodes, next_nodes>>
           /\ IDs!AllocateNodeIDs(SetupNode)
           /\ \A x : HasNumbers(x)' <=> (HasNumbers(x) \/ x = SetupNode)
           /\ \A x : InRun(x)' <=> InRun(x)
<1>1. /\ step = "ids" /\ UNCHANGED <<schedulerVars, next_run>>
      /\ IDs!AllocateNodeIDs(SetupNode)
      /\ \/ setup_index < Len(CurrentRun) /\ setup_index' = setup_index + 1 /\ step' = "ids"
         \/ ~(setup_index < Len(CurrentRun)) /\ step' = "memory"
  BY DEF AllocateStreamIDs
<1>2. /\ UNCHANGED <<plan, previous_nodes, next_nodes>> /\ CurrentRun' = CurrentRun
      /\ \A x : InRun(x)' <=> InRun(x)
  BY <1>1, SameRuns
<1>3. /\ DOMAIN CurrentRun = 1..Len(CurrentRun) /\ Len(CurrentRun) \in Nat
      /\ setup_index \in DOMAIN CurrentRun /\ SetupNode \in plan.nodes
  BY <1>1, CurrentRunKnown, SetupNodeKnown
<1>4. SetupNode = CurrentRun[setup_index]
  BY DEF SetupNode
<1>5. \A x : HasNumbers(x) <=> \E k \in DOMAIN CurrentRun : CurrentRun[k] = x /\ k < setup_index
  BY <1>1 DEF HasNumbers
<1>6. \A x : HasNumbers(x)' <=>
                \E k \in DOMAIN CurrentRun : CurrentRun[k] = x /\ (step' = "ids" => k < setup_index')
  BY <1>1, <1>2 DEF HasNumbers
<1>7. \A k \in DOMAIN CurrentRun :
         (step' = "ids" => k < setup_index') <=> (k < setup_index \/ k = setup_index)
  BY <1>1, <1>3
<1>8. \A x : HasNumbers(x)' <=> (HasNumbers(x) \/ x = SetupNode)
  BY <1>3, <1>4, <1>5, <1>6, <1>7, Zenon
<1>9. QED
  BY <1>1, <1>2, <1>3, <1>8

(* The numbers that the node gets, for streams of its own and for those    *)
(* that come from other nodes of the run.                                  *)
LEMMA NewNumbers ==
    ASSUME HasSimpleEdges(plan), ControlInv, LinksSettled, NumbersFit, AllocateStreamIDs,
           ~IDs!IsOutOfIDs(SetupNode), NEW n, n = SetupNode
    PROVE  /\ NumbersFit'
           /\ \A x : x # n => input_ids'[x] = input_ids[x] /\ output_ids'[x] = output_ids[x]
           /\ \A j, id : InputNumber(n, j, id)' =>
                 IsFresh(n, j) /\ id = IDs!OutputID(n, j)
           /\ \A i, id : OutputNumber(n, i, id)' =>
                 \/ IsFresh(n, i) /\ id = IDs!OutputID(n, i)
                 \/ \E e \in Edges(plan) : /\ e.to = n /\ e.input = i
                                           /\ next_nodes[e.from][e.output] = n
                                           /\ OutputNumber(e.from, e.output, id)
           /\ \A e \in Edges(plan) : e.to = n /\ InRun(e.from) =>
                 /\ e.from # n
                 /\ input_ids'[e.to][e.input] = output_ids'[e.from][e.output]
<1>1. /\ step = "ids" /\ n \in plan.nodes
      /\ UNCHANGED <<plan, previous_nodes, next_nodes>>
      /\ IDs!AllocateNodeIDs(n)
      /\ \A x : HasNumbers(x)' <=> (HasNumbers(x) \/ x = n)
  BY NumbersGiven
<1>2. DOMAIN previous_nodes[n] = Inputs(plan, n) /\ DOMAIN next_nodes[n] = Outputs(plan, n)
  BY <1>1 DEF ControlInv, ScheduleKnown, LinksKnown
<1>3. /\ DOMAIN input_ids = plan.nodes /\ DOMAIN output_ids = plan.nodes
      /\ \A x : HasNumbers(x) =>
            DOMAIN input_ids[x] = Inputs(plan, x) /\ DOMAIN output_ids[x] = Outputs(plan, x)
  BY DEF NumbersFit
<1>4. /\ input_ids' = [input_ids EXCEPT ![n] = [j \in Inputs(plan, n) |-> IDs!InputID(n, j)]]
      /\ output_ids' = [output_ids EXCEPT ![n] = [i \in Outputs(plan, n) |-> IDs!OutputID(n, i)]]
  BY <1>1, <1>2 DEF IDs!AllocateNodeIDs
<1>5. /\ DOMAIN input_ids' = plan.nodes /\ DOMAIN output_ids' = plan.nodes
      /\ input_ids'[n] = [j \in Inputs(plan, n) |-> IDs!InputID(n, j)]
      /\ output_ids'[n] = [i \in Outputs(plan, n) |-> IDs!OutputID(n, i)]
      /\ \A x : x # n => input_ids'[x] = input_ids[x] /\ output_ids'[x] = output_ids[x]
  BY <1>1, <1>3, <1>4
<1>6. \A x : (Inputs(plan, x))' = Inputs(plan, x) /\ (Outputs(plan, x))' = Outputs(plan, x)
  BY <1>1
<1>7. NumbersFit'
  <2>1. ASSUME NEW x, HasNumbers(x)'
        PROVE  DOMAIN input_ids'[x] = Inputs(plan, x) /\ DOMAIN output_ids'[x] = Outputs(plan, x)
    BY <1>1, <1>3, <1>5, <2>1
  <2>2. QED
    BY <1>1, <1>5, <1>6, <2>1 DEF NumbersFit
<1>8. \A j \in Inputs(plan, n) : IDs!OutputID(n, j) = IDs!InputID(n, j)
  BY <1>1, StackPlaces
<1>9. ASSUME NEW j, NEW id, InputNumber(n, j, id)'
      PROVE  IsFresh(n, j) /\ id = IDs!OutputID(n, j)
  <2>1. j \in Inputs(plan, n) /\ ~IsNode(previous_nodes[n][j]) /\ input_ids'[n][j] = id
    BY <1>1, <1>6, <1>9 DEF InputNumber, IsNode, Null
  <2>2. QED
    BY <1>5, <1>8, <2>1 DEF IsFresh
<1>10. ASSUME NEW i, NEW id, OutputNumber(n, i, id)'
       PROVE  \/ IsFresh(n, i) /\ id = IDs!OutputID(n, i)
              \/ \E e \in Edges(plan) : /\ e.to = n /\ e.input = i
                                        /\ next_nodes[e.from][e.output] = n
                                        /\ OutputNumber(e.from, e.output, id)
  <2>1. i \in Outputs(plan, n) /\ id = IDs!OutputID(n, i)
    BY <1>1, <1>5, <1>6, <1>10 DEF OutputNumber
  <2>2. CASE i \notin Inputs(plan, n) \/ ~IsNode(previous_nodes[n][i])
    BY <2>1, <2>2 DEF IsFresh
  <2>3. CASE i \in Inputs(plan, n) /\ IsNode(previous_nodes[n][i])
    <3>1. PICK e \in Edges(plan) :
              /\ e.to = n /\ e.input = i
              /\ HasNumbers(e.from) /\ next_nodes[e.from][e.output] = n
              /\ IDs!InputID(n, i) = output_ids[e.from][e.output]
      BY <1>1, <2>3, LinkedInput
    <3>2. e.output \in Outputs(plan, e.from)
      BY EdgeFacts
    <3>3. ~HasNumbers(n)
      BY <1>1, NumberedBefore
    <3>4. OutputNumber(e.from, e.output, id)
      BY <1>8, <2>1, <2>3, <3>1, <3>2, <3>3 DEF OutputNumber
    <3>5. QED
      BY <3>1, <3>4
  <2>4. QED
    BY <2>2, <2>3
<1>11. ASSUME NEW e \in Edges(plan), e.to = n, InRun(e.from)
       PROVE  e.from # n /\ input_ids'[e.to][e.input] = output_ids'[e.from][e.output]
  <2>1. /\ e.from \in plan.nodes /\ e.output \in Outputs(plan, e.from)
        /\ e.input \in Inputs(plan, n)
        /\ plan.next_nodes[e.from][e.output] = n
        /\ plan.previous_nodes[n][e.input] = e.from
    BY <1>11, EdgeFacts
  <2>2. e.from \notin {Null} /\ n # Null
    BY <1>1, <2>1, PlanFacts DEF ControlInv, ScheduleKnown
  <2>3. e.from \in Producers(plan, n)
    BY <2>1, <2>2 DEF Producers
  <2>4. e.from # n
    BY <1>1, <2>3, NumberedBefore
  <2>5. InRun(n)
    BY <1>1, SetupNodeKnown
  <2>6. next_run - 1 \in Runs /\ e.to \in NodesIn(next_run - 1) /\ e.from \in NodesIn(next_run - 1)
    BY <1>1, <1>11, <2>5, CurrentRunKnown
  <2>7. previous_nodes[n][e.input] = e.from
    BY <1>11, <2>6 DEF LinksSettled
  <2>8. PICK f \in Edges(plan) :
            /\ f.to = n /\ f.input = e.input
            /\ HasNumbers(f.from) /\ next_nodes[f.from][f.output] = n
            /\ IDs!InputID(n, e.input) = output_ids[f.from][f.output]
    BY <1>1, <2>1, <2>2, <2>7, LinkedInput DEF IsNode
  <2>9. f.from = e.from /\ f.output = e.output
    <3>1. /\ f.output \in Outputs(plan, f.from)
          /\ plan.next_nodes[f.from][f.output] = n
          /\ plan.previous_nodes[n][f.input] = f.from
      BY <2>8, EdgeFacts
    <3>2. f.from = e.from
      BY <2>1, <2>8, <3>1
    <3>3. QED
      BY <2>1, <2>2, <3>1, <3>2 DEF HasSimpleEdges, IsNode
  <2>10. input_ids'[n][e.input] = IDs!InputID(n, e.input)
    BY <1>5, <2>1
  <2>11. QED
    BY <1>5, <1>11, <2>4, <2>8, <2>9, <2>10
<1>12. QED
  BY <1>5, <1>7, <1>9, <1>10, <1>11

LEMMA AllocationNumbers ==
    ASSUME HasSimpleEdges(plan), ControlInv, DataInv, LinksSettled, NumbersInv,
           AllocateStreamIDs, ~IDs!IsOutOfIDs(SetupNode)
    PROVE  NumbersInv'
<1>1. PICK n : n = SetupNode
  OBVIOUS
<1> DEFINE stack == ToSet(available_ids)
<1>2. /\ step = "ids" /\ n \in plan.nodes
      /\ UNCHANGED <<plan, previous_nodes, next_nodes>>
      /\ IDs!AllocateNodeIDs(n)
      /\ \A x : HasNumbers(x)' <=> (HasNumbers(x) \/ x = n)
      /\ \A x : InRun(x)' <=> InRun(x)
  BY <1>1, NumbersGiven
<1>3. /\ NumbersFit /\ InputsNumbered /\ OutputsNumbered /\ NumbersPassed
      /\ IsInjective(available_ids)
      /\ \A id \in stack : \A x, k : ~InputNumber(x, k, id) /\ ~OutputNumber(x, k, id)
  BY <1>2 DEF NumbersInv, NumbersFresh
<1>4. /\ NumbersFit'
      /\ \A x : x # n => input_ids'[x] = input_ids[x] /\ output_ids'[x] = output_ids[x]
      /\ \A j, id : InputNumber(n, j, id)' => IsFresh(n, j) /\ id = IDs!OutputID(n, j)
      /\ \A i, id : OutputNumber(n, i, id)' =>
            \/ IsFresh(n, i) /\ id = IDs!OutputID(n, i)
            \/ \E e \in Edges(plan) : /\ e.to = n /\ e.input = i
                                      /\ next_nodes[e.from][e.output] = n
                                      /\ OutputNumber(e.from, e.output, id)
      /\ \A e \in Edges(plan) : e.to = n /\ InRun(e.from) =>
            e.from # n /\ input_ids'[e.to][e.input] = output_ids'[e.from][e.output]
  BY <1>1, <1>3, NewNumbers
<1>5. PICK rest : rest = available_ids'
  OBVIOUS
<1>6. rest = SubSeq(available_ids, IDs!NeededIDs(n) + 1, Len(available_ids))
  BY <1>2, <1>5 DEF IDs!AllocateNodeIDs
<1>7. /\ IsInjective(rest) /\ ToSet(rest) \subseteq stack
      /\ \A k : IsFresh(n, k) => IDs!OutputID(n, k) \in stack \ ToSet(rest)
      /\ \A k, l : IsFresh(n, k) /\ IsFresh(n, l)
                   /\ IDs!OutputID(n, k) = IDs!OutputID(n, l) => k = l
  BY <1>1, <1>2, <1>3, <1>6, FreshNumbers
<1>8. ASSUME NEW x, NEW j, NEW id, x # n, InputNumber(x, j, id)'
      PROVE  InputNumber(x, j, id)
  BY <1>2, <1>4, <1>8 DEF InputNumber, Inputs
<1>9. ASSUME NEW x, NEW i, NEW id, x # n, OutputNumber(x, i, id)'
      PROVE  OutputNumber(x, i, id) /\ next_nodes[x][i] # n
  BY <1>2, <1>4, <1>9 DEF OutputNumber, Outputs
<1>10. ~HasNumbers(n) /\ \A x : HasNumbers(x) => n \notin Producers(plan, x)
  BY <1>1, <1>2, NumberedBefore
(* The inputs.                                                             *)
<1>11. InputsNumbered'
  <2>1. ASSUME NEW id, NEW x, NEW j, NEW y, NEW k, InputNumber(x, j, id)', InputNumber(y, k, id)'
        PROVE  x = y /\ j = k
    <3>1. CASE x = n /\ y = n
      BY <1>4, <1>7, <2>1, <3>1
    <3>2. CASE x # n /\ y # n
      BY <1>3, <1>8, <2>1, <3>2 DEF InputsNumbered
    <3>3. CASE x = n /\ y # n
      BY <1>3, <1>4, <1>7, <1>8, <2>1, <3>3
    <3>4. CASE x # n /\ y = n
      BY <1>3, <1>4, <1>7, <1>8, <2>1, <3>4
    <3>5. QED
      BY <3>1, <3>2, <3>3, <3>4
  <2>2. QED
    BY <2>1 DEF InputsNumbered
(* The outputs.  One that passes on a number takes it over from the        *)
(* output it comes from, which is now consumed.                            *)
<1>12. ASSUME NEW i, NEW id, OutputNumber(n, i, id)'
       PROVE  \/ IsFresh(n, i) /\ id = IDs!OutputID(n, i) /\ id \in stack \ ToSet(rest)
              \/ /\ id \notin stack
                 /\ \E e \in Edges(plan) : /\ e.to = n /\ e.input = i
                                           /\ next_nodes[e.from][e.output] = n
                                           /\ OutputNumber(e.from, e.output, id)
  BY <1>3, <1>4, <1>7, <1>12
<1>13. \A e, f \in Edges(plan) :
          e.to = n /\ f.to = n /\ e.from = f.from => e.input = f.input
  <2> SUFFICES ASSUME NEW e \in Edges(plan), NEW f \in Edges(plan),
                      e.to = n, f.to = n, e.from = f.from
               PROVE  e.input = f.input
    OBVIOUS
  <2>1. /\ e.input \in Inputs(plan, n) /\ plan.previous_nodes[n][e.input] = e.from
        /\ f.input \in Inputs(plan, n) /\ plan.previous_nodes[n][f.input] = e.from
        /\ e.from \in plan.nodes
    BY EdgeFacts
  <2>2. IsNode(e.from)
    BY <2>1, PlanFacts DEF IsNode, ControlInv, ScheduleKnown
  <2>3. QED
    BY <1>2, <2>1, <2>2 DEF HasSimpleEdges
<1>14. OutputsNumbered'
  <2>1. ASSUME NEW i, NEW k, NEW id, OutputNumber(n, i, id)', OutputNumber(n, k, id)'
        PROVE  i = k
    <3>1. CASE id \in stack
      BY <1>7, <1>12, <2>1, <3>1
    <3>2. CASE id \notin stack
      <4>1. PICK e \in Edges(plan) : /\ e.to = n /\ e.input = i
                                     /\ OutputNumber(e.from, e.output, id)
        BY <1>12, <2>1, <3>2
      <4>2. PICK f \in Edges(plan) : /\ f.to = n /\ f.input = k
                                     /\ OutputNumber(f.from, f.output, id)
        BY <1>12, <2>1, <3>2
      <4>3. e.from = f.from
        BY <1>3, <4>1, <4>2 DEF OutputsNumbered
      <4>4. QED
        BY <1>13, <4>1, <4>2, <4>3
    <3>3. QED
      BY <3>1, <3>2
  <2>2. ASSUME NEW i, NEW x, NEW k, NEW id, x # n, OutputNumber(n, i, id)', OutputNumber(x, k, id)'
        PROVE  FALSE
    <3>1. OutputNumber(x, k, id) /\ next_nodes[x][k] # n
      BY <1>9, <2>2
    <3>2. id \notin stack
      BY <1>3, <3>1
    <3>3. PICK e \in Edges(plan) : /\ next_nodes[e.from][e.output] = n
                                   /\ OutputNumber(e.from, e.output, id)
      BY <1>12, <2>2, <3>2
    <3>4. e.from = x /\ e.output = k
      BY <1>3, <3>1, <3>3 DEF OutputsNumbered
    <3>5. QED
      BY <3>1, <3>3, <3>4
  <2>3. ASSUME NEW x, NEW i, NEW y, NEW k, NEW id, x # n, y # n,
               OutputNumber(x, i, id)', OutputNumber(y, k, id)'
        PROVE  x = y /\ i = k
    BY <1>3, <1>9, <2>3 DEF OutputsNumbered
  <2>4. ASSUME NEW id, NEW x, NEW i, NEW y, NEW k, OutputNumber(x, i, id)', OutputNumber(y, k, id)'
        PROVE  x = y /\ i = k
    BY <2>1, <2>2, <2>3, <2>4
  <2>5. QED
    BY <2>4 DEF OutputsNumbered
<1>15. NumbersPassed'
  <2>1. ASSUME NEW e \in Edges(plan), HasNumbers(e.from)', HasNumbers(e.to)'
        PROVE  input_ids'[e.to][e.input] = output_ids'[e.from][e.output]
    <3>1. CASE e.to = n /\ e.from # n
      BY <1>2, <1>4, <2>1, <3>1, NumberedInRun
    <3>2. CASE e.from = n
      <4>1. n \in Producers(plan, e.to)
        <5>1. /\ e.input \in Inputs(plan, e.to)
              /\ plan.previous_nodes[e.to][e.input] = n
          BY <3>2, EdgeFacts
        <5>2. n # Null
          BY <1>2, PlanFacts DEF ControlInv, ScheduleKnown
        <5>3. QED
          BY <5>1, <5>2 DEF Producers
      <4>2. e.to = n
        BY <1>2, <1>10, <2>1, <4>1
      <4>3. InRun(n)
        BY <1>1, <1>2, SetupNodeKnown
      <4>4. QED
        BY <1>4, <3>2, <4>2, <4>3
    <3>3. CASE e.to # n /\ e.from # n
      BY <1>2, <1>3, <1>4, <2>1, <3>3 DEF NumbersPassed
    <3>4. QED
      BY <3>1, <3>2, <3>3
  <2>2. Edges(plan)' = Edges(plan)
    BY <1>2 DEF Edges, Inputs, Outputs
  <2>3. QED
    BY <2>1, <2>2 DEF NumbersPassed
<1>16. NumbersFresh'
  <2>1. ASSUME NEW id \in ToSet(rest), NEW x, NEW k
        PROVE  ~InputNumber(x, k, id)' /\ ~OutputNumber(x, k, id)'
    <3>1. id \in stack
      BY <1>7
    <3>2. CASE x # n
      BY <1>3, <1>8, <1>9, <3>1, <3>2
    <3>3. CASE x = n
      <4>1. ~InputNumber(n, k, id)'
        BY <1>4, <1>7, <2>1
      <4>2. ~OutputNumber(n, k, id)'
        BY <1>12, <2>1, <3>1
      <4>3. QED
        BY <3>3, <4>1, <4>2
    <3>4. QED
      BY <3>2, <3>3
  <2>2. IsInjective(available_ids)' /\ ToSet(available_ids)' = ToSet(rest)
    BY <1>5, <1>7 DEF IsInjective, ToSet
  <2>3. QED
    BY <2>1, <2>2 DEF NumbersFresh
<1>17. QED
  BY <1>4, <1>11, <1>14, <1>15, <1>16 DEF NumbersInv

LEMMA SameNumbers ==
    ASSUME NumbersInv, UNCHANGED <<plan, previous_nodes, next_nodes, CurrentRun, idVars>>,
           step' = "start" <=> step = "start", step' = "ids" <=> step = "ids",
           step = "ids" => setup_index' = setup_index
    PROVE  NumbersInv'
<1>1. UNCHANGED <<plan, previous_nodes, next_nodes, available_ids, input_ids, output_ids>>
  BY DEF idVars
<1>2. \A n : HasNumbers(n)' <=> HasNumbers(n)
  BY DEF HasNumbers
<1>3. \A n, k, id : /\ InputNumber(n, k, id)' <=> InputNumber(n, k, id)
                    /\ OutputNumber(n, k, id)' <=> OutputNumber(n, k, id)
  BY <1>1, <1>2 DEF InputNumber, OutputNumber, Inputs, Outputs
<1>4. NumbersFit'
  BY <1>1, <1>2 DEF NumbersInv, NumbersFit, Inputs, Outputs
<1>5. InputsNumbered' /\ OutputsNumbered'
  BY <1>3 DEF NumbersInv, InputsNumbered, OutputsNumbered
<1>6. Edges(plan)' = Edges(plan)
  BY <1>1 DEF Edges, Inputs, Outputs
<1>7. NumbersPassed'
  BY <1>1, <1>2, <1>6 DEF NumbersInv, NumbersPassed
<1>8. IsInjective(available_ids)' = IsInjective(available_ids)
      /\ ToSet(available_ids)' = ToSet(available_ids)
  BY <1>1 DEF IsInjective, ToSet
<1>9. NumbersFresh'
  BY <1>3, <1>8 DEF NumbersInv, NumbersFresh
<1>10. QED
  BY <1>4, <1>5, <1>7, <1>9 DEF NumbersInv

(* While no node has numbers, there is nothing to tell apart.              *)
Unnumbered ==
    /\ \A n : ~HasNumbers(n)
    /\ DOMAIN input_ids = plan.nodes /\ DOMAIN output_ids = plan.nodes
    /\ step = "ids" => IsInjective(available_ids)

LEMMA NoNumbers == Unnumbered => NumbersInv
BY DEF Unnumbered, NumbersInv, NumbersFit, InputsNumbered, OutputsNumbered, NumbersPassed,
       NumbersFresh, InputNumber, OutputNumber

LEMMA NoNumbersLater == Unnumbered' => NumbersInv'
BY NoNumbers, PTL

LEMMA NextNumbers ==
    ASSUME HasSimpleEdges(plan), ControlInv, DataInv, LinksSettled, NumbersInv, [Next]_vars
    PROVE  NumbersInv'
<1>1. DOMAIN input_ids = plan.nodes /\ DOMAIN output_ids = plan.nodes
  BY DEF NumbersInv, NumbersFit
<1>2. CASE AllocateStreamIDs
  <2>1. CASE IDs!IsOutOfIDs(SetupNode)
    <3>1. /\ UNCHANGED <<schedulerVars, next_run, idVars, step, setup_index>>
      BY <1>2, <2>1 DEF AllocateStreamIDs
    <3>2. QED
      BY <3>1, SameRuns, SameNumbers
  <2>2. CASE ~IDs!IsOutOfIDs(SetupNode)
    BY <1>2, <2>2, AllocationNumbers
  <2>3. QED
    BY <2>1, <2>2
<1>3. CASE QuietStep /\ ~AllocateStreamIDs
  <2>1. UNCHANGED <<schedulerVars, next_run>> /\ (step' = "start" <=> step = "start")
    BY <1>3, QuietSteps
  <2>2. /\ UNCHANGED idVars /\ (step' = "ids" <=> step = "ids")
        /\ step = "ids" => setup_index' = setup_index
    BY <1>3 DEF QuietStep, vars, controlVars, LeaveScheduleState, SetFinishedFlag,
       LeaveSetupNodesState, CrashOnNullLink, IsRunValid, RunIsInvalid,
       SetupQueryAcceleration, RunQueryAcceleration, ProcessResults
  <2>3. QED
    BY <2>1, <2>2, SameRuns, SameNumbers
<1>4. CASE AllocateMemoryBlocks
  <2>1. /\ UNCHANGED <<schedulerVars, next_run, idVars>>
        /\ step = "memory" /\ step' \in {"memory", "validate"}
    BY <1>4 DEF AllocateMemoryBlocks
  <2>2. QED
    BY <2>1, SameRuns, SameNumbers
<1>5. CASE ScheduleUnscheduledNodes \/ FreeMemoryBlocks
  <2>1. step' = "start" /\ UNCHANGED idVars
    BY <1>5 DEF ScheduleUnscheduledNodes, FreeMemoryBlocks, ControlInv, StateOK, controlVars
  <2>2. plan' = plan
    BY <1>5, SchedulerKeepsPlan DEF ScheduleUnscheduledNodes, FreeMemoryBlocks, schedulerVars
  <2>3. Unnumbered'
    BY <1>1, <2>1, <2>2 DEF Unnumbered, HasNumbers, idVars
  <2>4. QED
    BY <2>3, NoNumbersLater
<1>6. CASE SetupNextRunData
  <2>1. /\ next_run \in Runs /\ CurrentRun' = RunNodes(next_run) /\ UNCHANGED plan
    BY <1>6, SetupChanges
  <2>2. step' = "ids" /\ setup_index' = 1 /\ IDs!SetUpAvailableIDs
    BY <1>6 DEF SetupNextRunData
  <2>3. DOMAIN CurrentRun' \subseteq Nat \ {0}
    <3>1. RunNodes(next_run) \in Seq(plan.nodes)
      BY <2>1 DEF ControlInv, ScheduleKnown, RunsKnown
    <3>2. DOMAIN RunNodes(next_run) = 1..Len(RunNodes(next_run))
      BY <3>1, LenProperties
    <3>3. QED
      BY <2>1, <3>2
  <2>4. \A n : ~HasNumbers(n)'
    <3>1. \A k \in DOMAIN CurrentRun' : ~(k < 1)
      BY <2>3
    <3>2. QED
      BY <2>2, <3>1 DEF HasNumbers
  <2>5. DOMAIN input_ids' = plan.nodes /\ DOMAIN output_ids' = plan.nodes
    BY <1>1, <2>2 DEF IDs!SetUpAvailableIDs
  <2>6. IsInjective(available_ids')
    BY <2>2 DEF IDs!SetUpAvailableIDs, IsInjective
  <2>7. Unnumbered'
    <3>1. IsInjective(available_ids)'
      BY <2>6 DEF IsInjective
    <3>2. QED
      BY <2>1, <2>4, <2>5, <3>1 DEF Unnumbered
  <2>8. QED
    BY <2>7, NoNumbersLater
<1>7. QED
  BY <1>2, <1>3, <1>4, <1>5, <1>6, Steps

-----------------------------------------------------------------------------
(***************************************************************************)
(* The parameters that the nodes of the run give to the board: each stream *)
(* with its number, and with a block when it comes from memory or goes     *)
(* there.                                                                  *)
(***************************************************************************)
ParamsFit(params, streams, ids, links) ==
    /\ DOMAIN params = streams
    /\ \A k \in streams : /\ params[k].stream_id = ids[k]
                          /\ params[k].block # 0 <=> ~IsNode(links[k])
NodeFits(q, n) ==
    /\ ParamsFit(q.inputs, Inputs(plan, n), input_ids[n], previous_nodes[n])
    /\ ParamsFit(q.outputs, Outputs(plan, n), output_ids[n], next_nodes[n])

NodesSetUp == IF step = "memory" THEN setup_index - 1 ELSE Len(CurrentRun)
QueryNodesOK ==
    /\ step = "ids" => query_nodes = <<>>
    /\ step \in {"memory", "validate", "setup", "run"} /\ error = "none" =>
          /\ IsSequence(query_nodes) /\ DOMAIN query_nodes = 1..NodesSetUp
          /\ 1 \in DOMAIN CurrentRun
          /\ \A k \in DOMAIN query_nodes : NodeFits(query_nodes[k], CurrentRun[k])
StreamsFound ==
    step = "run" =>
        /\ error = "none"
        /\ input_streams = UNION {FPGA!WithBlock(q.inputs) : q \in ToSet(query_nodes)}
        /\ output_streams = UNION {FPGA!WithBlock(q.outputs) : q \in ToSet(query_nodes)}
ParamsInv == QueryNodesOK /\ StreamsFound

(* A number that an allocation of k blocks reaches is one of a block.      *)
LEMMA BlockInRange ==
    ASSUME NEW c \in Nat, NEW k \in Nat, NEW max \in Nat, NEW l \in Nat, NEW r \in Nat,
           r <= k, r > l, c + (k - l) <= max
    PROVE  c + (r - l) <= max /\ c + (r - l) # 0
  OBVIOUS

(* A request that the memory manager can meet gets blocks only.            *)
LEMMA BlocksGiven ==
    ASSUME ControlInv, DataInv, NEW n \in plan.nodes, Memory!CanAllocate(RequestedBlocks(n))
    PROVE  /\ \A i \in OutputsToMemory(n) : Memory!NextBlock(OutputRequest(n, i)) # 0
           /\ \A j \in InputsFromFile(n) : Memory!NextBlock(InputRequest(n, j)) # 0
<1> DEFINE k == RequestedBlocks(n)
           a == available_memory_blocks
           c == memory_block_count
           max == MaxPossibleAllocations
<1>1. /\ k \in Nat
      /\ \A i \in OutputsToMemory(n) : OutputRequest(n, i) \in 1..k
      /\ \A j \in InputsFromFile(n) : InputRequest(n, j) \in 1..k
  BY Requests
<1>2. /\ a \in Seq(1..max) /\ Len(a) \in Nat /\ DOMAIN a = 1..Len(a)
      /\ c \in Nat /\ max \in Nat /\ Memory!Returned = Len(a)
  BY BlockNumbers, LenProperties DEF DataInv, ManagersOK, Memory!Returned
<1>3. k <= Len(a) \/ c + (k - Len(a)) <= max
  BY <1>2 DEF Memory!CanAllocate
<1>4. ASSUME NEW r \in 1..k PROVE Memory!NextBlock(r) # 0
  <2>1. Memory!NextBlock(r) = IF r <= Len(a) THEN a[r]
                              ELSE IF c + (r - Len(a)) <= max THEN c + (r - Len(a)) ELSE 0
    BY <1>2 DEF Memory!NextBlock, Memory!NoBlock
  <2> HIDE DEF k, a, c, max
  <2>2. CASE r <= Len(a)
    <3>1. r \in 1..Len(a)
      BY <1>1, <1>2, <2>2
    <3>2. a[r] \in 1..max
      BY <1>2, <3>1
    <3>3. QED
      BY <1>2, <2>1, <2>2, <3>2
  <2>3. CASE ~(r <= Len(a))
    <3>1. r \in Nat /\ r <= k /\ r > Len(a)
      BY <1>1, <1>2, <2>3
    <3>2. c + (k - Len(a)) <= max
      BY <1>1, <1>2, <1>3, <3>1
    <3>3. c + (r - Len(a)) <= max /\ c + (r - Len(a)) # 0
      <4>1. c \in Nat /\ k \in Nat /\ max \in Nat /\ Len(a) \in Nat
        BY <1>1, <1>2
      <4>2. QED
        BY <3>1, <3>2, <4>1, BlockInRange, Zenon
    <3>4. QED
      BY <2>1, <2>3, <3>3
  <2>4. QED
    BY <2>2, <2>3
<1>5. QED
  BY <1>1, <1>4

LEMMA NodeSetUp ==
    ASSUME HasSimpleEdges(plan), ControlInv, DataInv, RunLinked, NumbersInv, step = "memory",
           Memory!CanAllocate(RequestedBlocks(SetupNode))
    PROVE  NodeFits(AcceleratedQueryNode(SetupNode), SetupNode)
<1> DEFINE n == SetupNode
           q == AcceleratedQueryNode(n)
<1>1. n \in plan.nodes /\ InRun(n) /\ HasNumbers(n)
  BY SetupNodeKnown, NumbersComplete
<1>2. DOMAIN previous_nodes[n] = Inputs(plan, n) /\ DOMAIN next_nodes[n] = Outputs(plan, n)
  BY <1>1 DEF ControlInv, ScheduleKnown, LinksKnown
<1>3. DOMAIN input_ids[n] = Inputs(plan, n) /\ DOMAIN output_ids[n] = Outputs(plan, n)
  BY <1>1 DEF NumbersInv, NumbersFit
<1>4. /\ \A i \in OutputsToMemory(n) : Memory!NextBlock(OutputRequest(n, i)) # 0
      /\ \A j \in InputsFromFile(n) : Memory!NextBlock(InputRequest(n, j)) # 0
  BY <1>1, BlocksGiven
<1>5. ASSUME NEW j \in Inputs(plan, n)
      PROVE  InputBlocks(n)[j] # 0 <=> ~IsNode(previous_nodes[n][j])
  <2>1. InputBlocks(n)[j] = IF j \in InputsFromFile(n) THEN Memory!NextBlock(InputRequest(n, j))
                            ELSE input_memory_blocks[n][j]
    BY <1>2 DEF InputBlocks
  <2>2. j \in InputsFromFile(n) <=>
            ~IsNode(previous_nodes[n][j]) /\ ~IsBlock(input_memory_blocks[n][j])
    BY <1>2 DEF InputsFromFile
  <2>3. IsBlock(input_memory_blocks[n][j]) => ~IsNode(previous_nodes[n][j])
    BY <1>1 DEF RunLinked
  <2>4. QED
    BY <1>4, <2>1, <2>2, <2>3, BlockNumbers
<1>6. ASSUME NEW i \in Outputs(plan, n)
      PROVE  OutputBlocks(n)[i] # 0 <=> ~IsNode(next_nodes[n][i])
  <2>1. OutputBlocks(n)[i] = IF i \in OutputsToMemory(n) THEN Memory!NextBlock(OutputRequest(n, i))
                             ELSE 0
    BY <1>2, BlockNumbers DEF OutputBlocks
  <2>2. i \in OutputsToMemory(n) <=> ~IsNode(next_nodes[n][i])
    BY <1>2 DEF OutputsToMemory
  <2>3. QED
    BY <1>4, <2>1, <2>2
<1>7. /\ q.inputs = CreateStreamParams(input_ids[n], InputSizes(n), InputBlocks(n))
      /\ q.outputs = CreateStreamParams(output_ids[n], output_stream_sizes[n], OutputBlocks(n))
  BY DEF AcceleratedQueryNode
<1>8. ASSUME NEW ids, NEW sizes, NEW blocks
      PROVE  /\ DOMAIN CreateStreamParams(ids, sizes, blocks) = DOMAIN ids
             /\ \A k \in DOMAIN ids :
                   /\ CreateStreamParams(ids, sizes, blocks)[k].stream_id = ids[k]
                   /\ CreateStreamParams(ids, sizes, blocks)[k].block = blocks[k]
  BY DEF CreateStreamParams
<1> HIDE DEF n, q
<1>9. ParamsFit(q.inputs, Inputs(plan, n), input_ids[n], previous_nodes[n])
  BY <1>3, <1>5, <1>7, <1>8 DEF ParamsFit
<1>10. ParamsFit(q.outputs, Outputs(plan, n), output_ids[n], next_nodes[n])
  BY <1>3, <1>6, <1>7, <1>8 DEF ParamsFit
<1>11. QED
  BY <1>9, <1>10 DEF NodeFits, n, q

LEMMA SameParams ==
    ASSUME UNCHANGED <<plan, previous_nodes, next_nodes, input_ids, output_ids, query_nodes,
                       CurrentRun>>
    PROVE  \A q, n : NodeFits(q, n)' <=> NodeFits(q, n)
BY DEF NodeFits, ParamsFit, Inputs, Outputs, IsNode, Null

LEMMA QuietParams ==
    ASSUME ControlInv, ParamsInv, QuietStep
    PROVE  ParamsInv'
<1>1. UNCHANGED <<schedulerVars, next_run>> /\ (step' = "start" <=> step = "start")
  BY QuietSteps
<1>2. UNCHANGED <<plan, previous_nodes, next_nodes, CurrentRun>>
  BY <1>1, SameRuns
<1>3. UNCHANGED query_nodes
  BY DEF QuietStep, vars, LeaveScheduleState, SetFinishedFlag, LeaveSetupNodesState,
     AllocateStreamIDs, CrashOnNullLink, IsRunValid, RunIsInvalid, SetupQueryAcceleration,
     RunQueryAcceleration, ProcessResults
<1>4. CASE AllocateStreamIDs
  <2>1. /\ step = "ids" /\ step' \in {"ids", "memory"}
        /\ step' = "memory" => setup_index' = 1
    BY <1>4 DEF AllocateStreamIDs
  <2>2. query_nodes' = <<>>
    BY <1>3, <2>1 DEF ParamsInv, QueryNodesOK
  <2>3. 1 \in DOMAIN CurrentRun
    BY <2>1, SetupNodeKnown, CurrentRunKnown
  <2>4. IsSequence(<<>>) /\ DOMAIN <<>> = {}
    BY DEF IsSequence, ToSet
  <2>5. step' = "memory" => NodesSetUp' = 0
    BY <2>1 DEF NodesSetUp
  <2>6. 1..0 = {}
    OBVIOUS
  <2>7. IsSequence(query_nodes)'
    BY <2>2, <2>4 DEF IsSequence, ToSet
  <2>8. QED
    BY <1>2, <2>1, <2>2, <2>3, <2>4, <2>5, <2>6, <2>7
       DEF ParamsInv, QueryNodesOK, StreamsFound
<1>5. CASE UNCHANGED idVars /\ ~AllocateStreamIDs
  <2>1. \A q, n : NodeFits(q, n)' <=> NodeFits(q, n)
    BY <1>2, <1>3, <1>5, SameParams DEF idVars
  <2>2. /\ step' \in {"ids", "memory", "validate", "setup", "run"} => step # "start"
        /\ step' = "ids" => step = "ids"
        /\ step' \in {"memory", "validate", "setup", "run"} /\ error' = "none" =>
              /\ step \in {"memory", "validate", "setup", "run"} /\ error = "none"
              /\ step' = "memory" <=> step = "memory"
              /\ step = "memory" => setup_index' = setup_index
    BY <1>5 DEF QuietStep, vars, controlVars, LeaveScheduleState, SetFinishedFlag,
       LeaveSetupNodesState, CrashOnNullLink, IsRunValid, RunIsInvalid, IsRunning,
       SetupQueryAcceleration, RunQueryAcceleration, ProcessResults
  <2>3. QueryNodesOK'
    <3>1. step' \in {"memory", "validate", "setup", "run"} /\ error' = "none" =>
              NodesSetUp' = NodesSetUp
      BY <1>2, <2>2 DEF NodesSetUp
    <3>2. IsSequence(query_nodes)' <=> IsSequence(query_nodes)
      BY <1>3 DEF IsSequence, ToSet
    <3>3. QED
      BY <1>2, <1>3, <2>1, <2>2, <3>1, <3>2 DEF ParamsInv, QueryNodesOK
  <2>4. StreamsFound'
    <3>1. step' = "run" =>
              \/ UNCHANGED <<input_streams, output_streams, step, error>>
              \/ error' = "none" /\ FPGA!SetupQueryAcceleration(query_nodes)
      BY <1>5 DEF QuietStep, vars, boardVars, controlVars, LeaveScheduleState, SetFinishedFlag,
         LeaveSetupNodesState, CrashOnNullLink, IsRunValid, RunIsInvalid, IsRunning,
         SetupQueryAcceleration, RunQueryAcceleration, ProcessResults
    <3>2. \A q : FPGA!WithBlock(q.inputs)' = FPGA!WithBlock(q.inputs)
      BY DEF FPGA!WithBlock
    <3>3. QED
      BY <1>3, <3>1 DEF ParamsInv, StreamsFound, FPGA!SetupQueryAcceleration,
         FPGA!FindIOStreams, FPGA!WithBlock, FPGA!ToSet, ToSet
  <2>5. QED
    BY <2>3, <2>4 DEF ParamsInv
<1>6. UNCHANGED idVars \/ AllocateStreamIDs
  BY DEF QuietStep, vars, LeaveScheduleState, SetFinishedFlag, LeaveSetupNodesState,
     CrashOnNullLink, IsRunValid, RunIsInvalid, SetupQueryAcceleration,
     RunQueryAcceleration, ProcessResults
<1>7. QED
  BY <1>4, <1>5, <1>6

LEMMA AllocateParams ==
    ASSUME HasSimpleEdges(plan), ControlInv, DataInv, RunLinked, NumbersInv, ParamsInv,
           AllocateMemoryBlocks
    PROVE  ParamsInv'
<1> DEFINE n == SetupNode
           q == AcceleratedQueryNode(n)
<1>1. /\ step = "memory" /\ step' \in {"memory", "validate"} /\ error = "none"
      /\ UNCHANGED <<schedulerVars, next_run, idVars>>
      /\ query_nodes' = Append(query_nodes, q)
      /\ error' = "none" => Memory!CanAllocate(RequestedBlocks(n))
      /\ error' = "none" =>
            IF setup_index < Len(CurrentRun)
            THEN setup_index' = setup_index + 1 /\ step' = "memory"
            ELSE step' = "validate"
  BY DEF AllocateMemoryBlocks, IsRunning
<1>2. UNCHANGED <<plan, previous_nodes, next_nodes, CurrentRun>>
  BY <1>1, SameRuns
<1>3. SUFFICES ASSUME error' = "none" PROVE QueryNodesOK'
  BY <1>1 DEF ParamsInv, QueryNodesOK, StreamsFound
<1>4. NodeFits(q, n)
  BY <1>1, <1>3, NodeSetUp
<1>5. /\ IsSequence(query_nodes) /\ DOMAIN query_nodes = 1..(setup_index - 1)
      /\ 1 \in DOMAIN CurrentRun
      /\ \A k \in DOMAIN query_nodes : NodeFits(query_nodes[k], CurrentRun[k])
  BY <1>1 DEF ParamsInv, QueryNodesOK, NodesSetUp
<1>6. /\ setup_index \in 1..Len(CurrentRun) /\ Len(CurrentRun) \in Nat
      /\ n = CurrentRun[setup_index]
  BY <1>1, SetupNodeKnown, CurrentRunKnown DEF SetupNode
<1> HIDE DEF n, q
<1>7. Len(query_nodes) = setup_index - 1
  <2>1. Len(query_nodes) \in Nat /\ DOMAIN query_nodes = 1..Len(query_nodes)
    BY <1>5, AppendSequence
  <2>2. \A l \in Nat : 1..l = 1..(setup_index - 1) => l = setup_index - 1
    BY <1>6
  <2>3. QED
    BY <1>5, <2>1, <2>2
<1>8. /\ IsSequence(query_nodes') /\ DOMAIN query_nodes' = 1..setup_index
      /\ \A k \in 1..(setup_index - 1) : query_nodes'[k] = query_nodes[k]
      /\ query_nodes'[setup_index] = q
  <2>1. /\ IsSequence(query_nodes')
        /\ DOMAIN query_nodes' = 1..(Len(query_nodes) + 1)
        /\ \A k \in 1..Len(query_nodes) : query_nodes'[k] = query_nodes[k]
        /\ query_nodes'[Len(query_nodes) + 1] = q
    BY <1>1, <1>5, AppendSequence
  <2>2. (setup_index - 1) + 1 = setup_index
    BY <1>6
  <2>3. QED
    BY <1>7, <2>1, <2>2
<1>9. \A k \in 1..setup_index : NodeFits(query_nodes'[k], CurrentRun[k])
  <2>1. \A k \in 1..setup_index : k \in 1..(setup_index - 1) \/ k = setup_index
    BY <1>6
  <2>2. QED
    BY <1>4, <1>5, <1>6, <1>8, <2>1
<1>10. NodesSetUp' = setup_index
  BY <1>1, <1>2, <1>3, <1>6 DEF NodesSetUp
<1>11. \A x, m : NodeFits(x, m)' <=> NodeFits(x, m)
  BY <1>1, <1>2 DEF NodeFits, ParamsFit, Inputs, Outputs, IsNode, Null, idVars
<1>12. \A k \in 1..setup_index : NodeFits(query_nodes[k], CurrentRun[k])'
  <2>1. ASSUME NEW k \in 1..setup_index, NEW x, x = query_nodes'[k], NEW m, m = CurrentRun[k]
        PROVE  NodeFits(x, m)'
    BY <1>9, <1>11, <2>1
  <2>2. QED
    BY <1>2, <2>1 DEF NodeFits
<1>13. IsSequence(query_nodes)'
  BY <1>8 DEF IsSequence, ToSet
<1>14. QED
  BY <1>1, <1>2, <1>5, <1>8, <1>10, <1>12, <1>13 DEF QueryNodesOK

LEMMA NextParams ==
    ASSUME HasSimpleEdges(plan), ControlInv, DataInv, RunLinked, NumbersInv, ParamsInv,
           [Next]_vars
    PROVE  ParamsInv'
<1>1. CASE SetupNextRunData
  BY <1>1 DEF SetupNextRunData, ParamsInv, QueryNodesOK, StreamsFound
<1>2. CASE ScheduleUnscheduledNodes \/ FreeMemoryBlocks
  <2>1. step' = "start"
    BY <1>2 DEF ScheduleUnscheduledNodes, FreeMemoryBlocks, ControlInv, StateOK, controlVars
  <2>2. QED
    BY <2>1 DEF ParamsInv, QueryNodesOK, StreamsFound
<1>3. QED
  BY <1>1, <1>2, QuietParams, AllocateParams, Steps

(* The streams of the DMA engine, by the node and the place they belong to.*)
InputStream(s, k, j) ==
    /\ k \in DOMAIN CurrentRun /\ j \in Inputs(plan, CurrentRun[k])
    /\ ~IsNode(previous_nodes[CurrentRun[k]][j])
    /\ s = query_nodes[k].inputs[j] /\ s.stream_id = input_ids[CurrentRun[k]][j]
OutputStream(s, k, i) ==
    /\ k \in DOMAIN CurrentRun /\ i \in Outputs(plan, CurrentRun[k])
    /\ ~IsNode(next_nodes[CurrentRun[k]][i])
    /\ s = query_nodes[k].outputs[i] /\ s.stream_id = output_ids[CurrentRun[k]][i]

LEMMA StreamsKnown ==
    ASSUME ControlInv, ParamsInv, step = "run"
    PROVE  /\ 1 \in DOMAIN CurrentRun
           /\ \A s : s \in input_streams <=> \E k, j : InputStream(s, k, j)
           /\ \A s : s \in output_streams <=> \E k, i : OutputStream(s, k, i)
<1>1. /\ DOMAIN CurrentRun = 1..Len(CurrentRun)
      /\ DOMAIN query_nodes = DOMAIN CurrentRun /\ 1 \in DOMAIN CurrentRun
      /\ \A k \in DOMAIN CurrentRun : NodeFits(query_nodes[k], CurrentRun[k])
  BY CurrentRunKnown DEF ParamsInv, QueryNodesOK, StreamsFound, NodesSetUp
<1>2. \A q : q \in ToSet(query_nodes) <=> \E k \in DOMAIN CurrentRun : q = query_nodes[k]
  BY <1>1 DEF ToSet
<1>3. /\ input_streams = UNION {FPGA!WithBlock(q.inputs) : q \in ToSet(query_nodes)}
      /\ output_streams = UNION {FPGA!WithBlock(q.outputs) : q \in ToSet(query_nodes)}
  BY DEF ParamsInv, StreamsFound
<1>4. \A params, s : s \in FPGA!WithBlock(params) <=>
          \E j \in DOMAIN params : s = params[j] /\ params[j].block # 0
  BY DEF FPGA!WithBlock, FPGA!ToSet
<1>5. \A s : s \in input_streams <=>
          \E k \in DOMAIN CurrentRun : s \in FPGA!WithBlock(query_nodes[k].inputs)
  BY <1>2, <1>3
<1>6. \A s : s \in output_streams <=>
          \E k \in DOMAIN CurrentRun : s \in FPGA!WithBlock(query_nodes[k].outputs)
  BY <1>2, <1>3
<1>7. ASSUME NEW s PROVE s \in input_streams <=> \E k, j : InputStream(s, k, j)
  <2>1. ASSUME NEW k \in DOMAIN CurrentRun
        PROVE  s \in FPGA!WithBlock(query_nodes[k].inputs) <=> \E j : InputStream(s, k, j)
    BY <1>1, <1>4 DEF NodeFits, ParamsFit, InputStream
  <2>2. QED
    BY <1>5, <2>1 DEF InputStream
<1>8. ASSUME NEW s PROVE s \in output_streams <=> \E k, i : OutputStream(s, k, i)
  <2>1. ASSUME NEW k \in DOMAIN CurrentRun
        PROVE  s \in FPGA!WithBlock(query_nodes[k].outputs) <=> \E i : OutputStream(s, k, i)
    BY <1>1, <1>4 DEF NodeFits, ParamsFit, OutputStream
  <2>2. QED
    BY <1>6, <2>1 DEF OutputStream
<1>9. QED
  BY <1>1, <1>7, <1>8

LEMMA NumberedFollows ==
    ASSUME HasSimpleEdges(plan), ControlInv, NumbersInv, ParamsInv
    PROVE  StreamsNumbered
<1> SUFFICES ASSUME step = "run"
             PROVE  /\ NumbersDistinct(input_streams) /\ NumbersDistinct(output_streams)
                    /\ \A e \in Edges(plan) : InRun(e.from) /\ InRun(e.to) =>
                          input_ids[e.to][e.input] = output_ids[e.from][e.output]
  BY DEF StreamsNumbered
<1>1. /\ \A n : HasNumbers(n) <=> InRun(n)
      /\ \A n : InRun(n) => n \in plan.nodes
      /\ \A k \in DOMAIN CurrentRun : InRun(CurrentRun[k])
      /\ \A k, l \in DOMAIN CurrentRun : CurrentRun[k] = CurrentRun[l] => k = l
  BY NumbersComplete, CurrentRunKnown DEF InRun, ToSet, IsInjective
<1>2. InputsNumbered /\ OutputsNumbered /\ NumbersPassed
  BY DEF NumbersInv
<1>3. \A e \in Edges(plan) : InRun(e.from) /\ InRun(e.to) =>
          input_ids[e.to][e.input] = output_ids[e.from][e.output]
  BY <1>1, <1>2 DEF NumbersPassed
<1>4. \A s, k, j : InputStream(s, k, j) => InputNumber(CurrentRun[k], j, s.stream_id)
  BY <1>1 DEF InputStream, InputNumber
<1>5. Null \notin plan.nodes
  BY PlanFacts DEF ControlInv, ScheduleKnown
<1>6. \A s, k, i : OutputStream(s, k, i) => OutputNumber(CurrentRun[k], i, s.stream_id)
  BY <1>1, <1>5 DEF OutputStream, OutputNumber, IsNode
<1>7. ASSUME NEW s \in input_streams, NEW t \in input_streams, s.stream_id = t.stream_id
      PROVE  s = t
  <2>1. PICK k, j : InputStream(s, k, j)
    BY StreamsKnown
  <2>2. PICK l, i : InputStream(t, l, i)
    BY StreamsKnown
  <2>3. CurrentRun[k] = CurrentRun[l] /\ j = i
    BY <1>2, <1>4, <1>7, <2>1, <2>2 DEF InputsNumbered
  <2>4. k = l
    BY <1>1, <2>1, <2>2, <2>3 DEF InputStream
  <2>5. QED
    BY <2>1, <2>2, <2>3, <2>4 DEF InputStream
<1>8. ASSUME NEW s \in output_streams, NEW t \in output_streams, s.stream_id = t.stream_id
      PROVE  s = t
  <2>1. PICK k, j : OutputStream(s, k, j)
    BY StreamsKnown
  <2>2. PICK l, i : OutputStream(t, l, i)
    BY StreamsKnown
  <2>3. CurrentRun[k] = CurrentRun[l] /\ j = i
    BY <1>2, <1>6, <1>8, <2>1, <2>2 DEF OutputsNumbered
  <2>4. k = l
    BY <1>1, <2>1, <2>2, <2>3 DEF OutputStream
  <2>5. QED
    BY <2>1, <2>2, <2>3, <2>4 DEF OutputStream
<1>9. QED
  BY <1>3, <1>7, <1>8 DEF NumbersDistinct

NumberingInv == LinksSettled /\ RunLinked /\ NumbersInv /\ ParamsInv

LEMMA InitNumbering == Init => NumberingInv
<1> SUFFICES ASSUME Init PROVE NumberingInv
  OBVIOUS
<1>1. LinksSettled
  BY SchedulerStarts, LinksAreSettled DEF Init
<1>2. step = "start"
  BY DEF Init
<1>3. RunLinked /\ ParamsInv
  BY <1>2 DEF RunLinked, ParamsInv, QueryNodesOK, StreamsFound
<1>4. QED
  BY <1>1, <1>3, InitNumbers DEF NumberingInv

LEMMA NextNumbering ==
    ASSUME PlansAreSimple, ExecutionInv, NumberingInv, [Next]_vars
    PROVE  NumberingInv'
<1>1. HasSimpleEdges(plan)
  BY DEF PlansAreSimple, ExecutionInv, ControlInv, ScheduleKnown
<1>2. ControlInv /\ DataInv /\ InputsWaiting
  BY DEF ExecutionInv
<1>3. LinksSettled /\ RunLinked /\ NumbersInv /\ ParamsInv
  BY DEF NumberingInv
<1>4. LinksSettled' /\ RunLinked'
  BY <1>1, <1>2, <1>3, NextSettled, NextLinked
<1>5. NumbersInv'
  BY <1>1, <1>2, <1>3, NextNumbers
<1>6. ParamsInv'
  BY <1>1, <1>2, <1>3, NextParams
<1>7. QED
  BY <1>4, <1>5, <1>6 DEF NumberingInv

(***************************************************************************)
(* StreamsNumbered for every set of plans in which no two streams join the *)
(* same two nodes: no two streams that the DMA engine reads have one       *)
(* number, nor two that it writes, and a stream between two nodes of the   *)
(* run keeps its number.                                                   *)
(***************************************************************************)
THEOREM StreamsNumberedHolds ==
    ASSUME PlansAreSimple PROVE Spec => []StreamsNumbered
<1>1. Init => NumberingInv
  BY InitNumbering
<1>2. ExecutionInv /\ NumberingInv /\ [Next]_vars => NumberingInv'
  BY NextNumbering
<1>3. ExecutionInv /\ NumberingInv => StreamsNumbered
  <2>1. ASSUME ExecutionInv, NumberingInv PROVE StreamsNumbered
    <3>1. HasSimpleEdges(plan) /\ ControlInv
      BY <2>1 DEF PlansAreSimple, ExecutionInv, ControlInv, ScheduleKnown
    <3>2. QED
      BY <2>1, <3>1, NumberedFollows DEF NumberingInv
  <2>2. QED
    BY <2>1
<1>4. Spec => [](ExecutionInv /\ MemoryInv)
  BY MemoryHolds
<1>5. QED
  BY <1>1, <1>2, <1>3, <1>4, PTL DEF Spec

(* A sum may read a stream and write none; every other node has inputs and *)
(* outputs.                                                                *)
NodesHaveStreams ==
    \A p \in Plans : \A n \in p.nodes : Inputs(p, n) # {} /\ Outputs(p, n) # {}

(* When the board is set up, the first node of the run reads from memory,  *)
(* and the last one writes there.                                          *)
LEMMA RunHasStreams ==
    ASSUME NodesHaveStreams, HasSimpleEdges(plan), ControlInv, LinksSettled, RunLinked,
           ParamsInv, step = "setup", error = "none"
    PROVE  ~FPGA!AreStreamsMissing(query_nodes)
<1> DEFINE last == Len(CurrentRun)
<1>1. /\ next_run - 1 \in Runs /\ CurrentRun = RunNodes(next_run - 1)
      /\ DOMAIN CurrentRun = 1..last /\ last \in Nat
      /\ \A n : InRun(n) <=> n \in NodesIn(next_run - 1)
      /\ \A k \in DOMAIN CurrentRun : InRun(CurrentRun[k]) /\ CurrentRun[k] \in plan.nodes
      /\ \A n : InRun(n) <=> \E k \in DOMAIN CurrentRun : CurrentRun[k] = n
      /\ plan \in Plans
  BY CurrentRunKnown DEF InRun, ToSet, ControlInv, ScheduleKnown
<1>2. 1 \in DOMAIN CurrentRun /\ last \in DOMAIN CurrentRun
  <2>1. 1 \in DOMAIN CurrentRun
    BY DEF ParamsInv, QueryNodesOK
  <2>2. QED
    BY <1>1, <2>1
<1>3. \A k, l \in DOMAIN CurrentRun :
         CurrentRun[l] \in Producers(plan, CurrentRun[k]) => l < k
  BY <1>1 DEF LinksSettled
<1> HIDE DEF last
<1>4. /\ DOMAIN query_nodes = DOMAIN CurrentRun
      /\ \A k \in DOMAIN CurrentRun : /\ NodeFits(query_nodes[k], CurrentRun[k])
                                       /\ query_nodes[k] \in ToSet(query_nodes)
  BY <1>1 DEF ParamsInv, QueryNodesOK, NodesSetUp, ToSet, last
<1>5. \A params : \A j \in DOMAIN params :
         params[j].block # 0 => FPGA!WithBlock(params) # {}
  BY DEF FPGA!WithBlock, FPGA!ToSet
<1>6. FPGA!WithBlock(query_nodes[1].inputs) # {}
  <2> DEFINE n == CurrentRun[1]
  <2>1. n \in plan.nodes /\ InRun(n)
    BY <1>1, <1>2
  <2>2. PICK j : j \in Inputs(plan, n)
    BY <1>1, <2>1 DEF NodesHaveStreams
  <2>3. ~IsNode(previous_nodes[n][j])
    <3> SUFFICES ASSUME IsNode(previous_nodes[n][j]) PROVE FALSE
      OBVIOUS
    <3> DEFINE m == plan.previous_nodes[n][j]
    <3>1. previous_nodes[n][j] = m /\ m # Null /\ m \in Producers(plan, n)
      BY <2>1, <2>2 DEF LinksSettled, IsNode, Producers
    <3>2. m \in plan.nodes /\ n # Null
      BY <1>1, <2>1, <3>1, PlanFacts
    <3>3. n \in Consumers(plan, m)
      BY <1>1, <2>1, <3>1, <3>2, PlansAssumption DEF IsPlan, IsLinked
    <3>4. PICK i \in Outputs(plan, m) : plan.next_nodes[m][i] = n
      BY <3>3 DEF Consumers
    <3> DEFINE e == Edge(m, i, n, j)
    <3>5. e \in Edges(plan)
      BY <2>1, <2>2, <3>2, <3>4, StreamIsEdge
    <3>6. e.from = m /\ e.to = n /\ e.input = j
      BY DEF Edge
    <3> HIDE DEF e
    <3>7. m \in NodesIn(next_run - 1)
      BY <1>1, <2>1, <3>1, <3>5, <3>6 DEF LinksSettled
    <3>8. PICK l \in DOMAIN CurrentRun : CurrentRun[l] = m
      BY <1>1, <3>7
    <3>9. l < 1
      BY <1>2, <1>3, <3>1, <3>8
    <3>10. QED
      BY <1>1, <3>8, <3>9
  <2>4. NodeFits(query_nodes[1], n)
    BY <1>2, <1>4
  <2>5. j \in DOMAIN query_nodes[1].inputs /\ query_nodes[1].inputs[j].block # 0
    BY <2>2, <2>3, <2>4 DEF NodeFits, ParamsFit
  <2>6. QED
    BY <1>5, <2>5
<1>7. FPGA!WithBlock(query_nodes[last].outputs) # {}
  <2> DEFINE n == CurrentRun[last]
  <2>1. n \in plan.nodes /\ InRun(n)
    BY <1>1, <1>2
  <2>2. PICK i : i \in Outputs(plan, n)
    BY <1>1, <2>1 DEF NodesHaveStreams
  <2>3. ~IsNode(next_nodes[n][i])
    <3> SUFFICES ASSUME IsNode(next_nodes[n][i]) PROVE FALSE
      OBVIOUS
    <3> DEFINE m == plan.next_nodes[n][i]
    <3>1. next_nodes[n][i] = m /\ m # Null /\ m \in Consumers(plan, n)
      BY <2>1, <2>2 DEF ControlInv, ScheduleKnown, LinksKnown, IsNode, Consumers
    <3>2. InRun(m)
      BY <2>1, <2>2, <3>1 DEF RunLinked
    <3>3. PICK k \in DOMAIN CurrentRun : CurrentRun[k] = m
      BY <1>1, <3>2
    <3>4. n \in Producers(plan, m)
      BY <1>1, <2>1, <3>1, <3>3, PlansAssumption DEF IsPlan, IsLinked
    <3>5. last < k
      BY <1>2, <1>3, <3>3, <3>4
    <3>6. QED
      BY <1>1, <3>3, <3>5
  <2>4. NodeFits(query_nodes[last], n)
    BY <1>2, <1>4
  <2>5. i \in DOMAIN query_nodes[last].outputs /\ query_nodes[last].outputs[i].block # 0
    BY <2>2, <2>3, <2>4 DEF NodeFits, ParamsFit
  <2>6. QED
    BY <1>5, <2>5
<1>8. query_nodes[1] \in ToSet(query_nodes) /\ query_nodes[last] \in ToSet(query_nodes)
  BY <1>2, <1>4
<1>9. QED
  BY <1>6, <1>7, <1>8 DEF FPGA!AreStreamsMissing, FPGA!ToSet, ToSet

(***************************************************************************)
(* Whatever plan's nodes all have inputs and outputs, the DMA engine has   *)
(* something to read and something to write in every run: the exception    *)
(* for missing streams is for plans with sums that write nothing.          *)
(***************************************************************************)
StreamsMissing == "Input or output streams missing!"

THEOREM StreamsNeverMissing ==
    ASSUME PlansAreSimple, NodesHaveStreams
    PROVE  Spec => [](error # StreamsMissing)
<1>1. Init => NumberingInv /\ error # StreamsMissing
  BY InitNumbering DEF Init, StreamsMissing
<1>2. ExecutionInv /\ NumberingInv /\ [Next]_vars => NumberingInv'
  BY NextNumbering
<1>3. ASSUME ExecutionInv, NumberingInv, error # StreamsMissing, [Next]_vars
      PROVE  (error # StreamsMissing)'
  <2>1. CASE SetupQueryAcceleration
    <3>1. step = "setup" /\ error = "none"
      BY <2>1 DEF SetupQueryAcceleration, IsRunning
    <3>2. HasSimpleEdges(plan) /\ ControlInv
      BY <1>3 DEF PlansAreSimple, ExecutionInv, ControlInv, ScheduleKnown
    <3>3. ~FPGA!AreStreamsMissing(query_nodes)
      BY <1>3, <3>1, <3>2, RunHasStreams DEF NumberingInv
    <3>4. FPGA!SetupError(query_nodes) # StreamsMissing
      BY <3>3 DEF FPGA!SetupError, StreamsMissing
    <3>5. error' = error \/ error' = FPGA!SetupError(query_nodes)
      BY <2>1 DEF SetupQueryAcceleration
    <3>6. QED
      BY <1>3, <3>4, <3>5
  <2>2. CASE ~SetupQueryAcceleration
    <3>1. \/ UNCHANGED error
          \/ error' \in {"Out of IDs!", "Can't allocate any more memory!", "null pointer",
                         "Not implemented"}
      BY <1>3, <2>2 DEF Next, vars, controlVars, ScheduleUnscheduledNodes,
         LeaveScheduleState, SetFinishedFlag, LeaveSetupNodesState, SetupNextRunData,
         AllocateStreamIDs, AllocateMemoryBlocks, CrashOnNullLink, IsRunValid,
         RunIsInvalid, RunQueryAcceleration, ProcessResults, FreeMemoryBlocks
    <3>2. QED
      BY <1>3, <3>1 DEF StreamsMissing
  <2>3. QED
    BY <2>1, <2>2
<1>4. Spec => [](ExecutionInv /\ MemoryInv)
  BY MemoryHolds
<1>5. QED
  <2>1. ExecutionInv /\ NumberingInv /\ error # StreamsMissing /\ [Next]_vars
            => (error # StreamsMissing)'
    BY <1>3
  <2>2. QED
    BY <1>1, <1>2, <1>4, <2>1, PTL DEF Spec
-----------------------------------------------------------------------------
(***************************************************************************)
(* What the scheduler leaves besides the links: the files of the streams   *)
(* at the edge of the plan and of those that are checked, a link in memory *)
(* for every other stream between two runs, and the locations of the       *)
(* modules.                                                                *)
(***************************************************************************)
IsInRun(n) == \E r \in Runs : n \in NodesIn(r)
NeedsModule(n) == Scheduler!NeedsModule(n)

OutputFile(n, i) ==
    IF plan.is_checked[n][i] THEN ExpectedFile(n, i)
    ELSE IF IsInRun(n) /\ ~IsNode(plan.next_nodes[n][i]) THEN ResultFile(n, i)
    ELSE NoFile
FilesKnown ==
    \A n \in plan.nodes :
        /\ \A j \in Inputs(plan, n) :
              ~IsNode(plan.previous_nodes[n][j]) => input_files[n][j] = TableFile(n, j)
        /\ \A i \in Outputs(plan, n) : output_files[n][i] = OutputFile(n, i)
StreamsForwarded ==
    HasSimpleEdges(plan) =>
        \A e \in Edges(plan) : \A r \in Runs :
            e.from \in NodesIn(r) /\ e.to \notin NodesIn(r) =>
                IF plan.is_checked[e.from][e.output]
                THEN input_files[e.to][e.input] = ExpectedFile(e.from, e.output)
                ELSE e \in linked_nodes

SharesLocation(r) ==
    \E k, l \in DOMAIN RunNodes(r) :
        /\ k # l /\ NeedsModule(RunNodes(r)[k]) /\ NeedsModule(RunNodes(r)[l])
        /\ module_location[RunNodes(r)[k]] = module_location[RunNodes(r)[l]]
FollowsOrder(r) ==
    /\ \A k, l \in DOMAIN RunNodes(r) :
          k < l /\ NeedsModule(RunNodes(r)[k]) /\ NeedsModule(RunNodes(r)[l])
          => module_location[RunNodes(r)[k]] < module_location[RunNodes(r)[l]]
    /\ \A k \in DOMAIN RunNodes(r) :
          NeedsModule(RunNodes(r)[k]) =>
              module_location[RunNodes(r)[k]] \in 1..Len(query_node_runs_queue[r].modules)
    /\ \A x \in 1..Len(query_node_runs_queue[r].modules) :
          \E k \in DOMAIN RunNodes(r) :
              NeedsModule(RunNodes(r)[k]) /\ module_location[RunNodes(r)[k]] = x
ModulesLocated ==
    \A r \in Runs :
        /\ query_node_runs_queue[r].modules \in Seq(QueryOperation)
        /\ SharesLocation(r) \/ FollowsOrder(r)

ScheduleSettled ==
    IsSequence(query_node_runs_queue) /\ FilesKnown /\ StreamsForwarded /\ ModulesLocated

LEMMA ScheduleIsSettled == Proved!SchedulerInv => ScheduleSettled
<1> SUFFICES ASSUME Proved!SchedulerInv PROVE ScheduleSettled
  OBVIOUS
<1>1. /\ Proved!FieldsOK /\ Proved!StreamsInv /\ Proved!NodesOnce /\ Proved!FilesNamed
      /\ Proved!RunsLocated
  BY DEF Proved!SchedulerInv, Proved!IInv, Proved!RunsReady
<1>2. IsSequence(query_node_runs_queue)
  <2>1. query_node_runs_queue \in Seq(Proved!Run)
    BY <1>1 DEF Proved!FieldsOK, Proved!RunsOK
  <2>2. \A k \in 1..Len(query_node_runs_queue) :
           query_node_runs_queue[k] \in ToSet(query_node_runs_queue)
    BY <2>1, LenProperties DEF ToSet
  <2>3. query_node_runs_queue \in
            [1..Len(query_node_runs_queue) -> ToSet(query_node_runs_queue)]
    BY <2>1, <2>2, LenProperties
  <2>4. QED
    BY <2>1, <2>3, LenProperties, StreamSequence DEF IsSequence
<1>3. \A n : IsInRun(n) <=> n \in Proved!ClosedNodes
  BY Zenon DEF IsInRun, Runs, NodesIn, RunNodes, ToSet, Proved!ClosedNodes, Proved!ToSet
<1>4. FilesKnown
  BY <1>1, <1>3, Zenon
     DEF FilesKnown, OutputFile, Inputs, Outputs, IsNode, Null, TableFile, ExpectedFile,
         ResultFile, NoFile, Proved!FilesNamed, Proved!OutputFile, Proved!Inputs,
         Proved!Outputs, Proved!IsNode, Proved!Null, Proved!TableFile, Proved!ExpectedFile,
         Proved!ResultFile, Proved!NoFile
<1>5. StreamsForwarded
  <2> SUFFICES ASSUME HasSimpleEdges(plan), NEW e \in Edges(plan), NEW r \in Runs,
                      e.from \in NodesIn(r), e.to \notin NodesIn(r)
               PROVE  IF plan.is_checked[e.from][e.output]
                      THEN input_files[e.to][e.input] = ExpectedFile(e.from, e.output)
                      ELSE e \in linked_nodes
    BY DEF StreamsForwarded
  <2>1. Proved!HasSimpleEdges(plan)
    BY Zenon DEF HasSimpleEdges, Proved!HasSimpleEdges, Inputs, Proved!Inputs,
           Outputs, Proved!Outputs, IsNode, Proved!IsNode, Null, Proved!Null
  <2>2. e \in Proved!Edges(plan)
    BY DEF Edges, Edge, Inputs, Outputs, Proved!Edges, Proved!Edge,
           Proved!Inputs, Proved!Outputs
  <2>3. \A s : NodesIn(s) = Proved!ToSet(query_node_runs_queue[s].nodes)
    BY DEF NodesIn, RunNodes, ToSet, Proved!ToSet
  <2>4. e.from \in Proved!ClosedNodes
    BY <1>3 DEF IsInRun
  <2>5. Proved!IsHandedOver(e)
    BY <1>1, <2>1, <2>2, <2>4 DEF Proved!StreamsInv
  <2>6. ~Proved!IsTogether(e)
    <3>1. SUFFICES ASSUME NEW s \in Runs, {e.from, e.to} \subseteq NodesIn(s) PROVE FALSE
      BY <2>3 DEF Proved!IsTogether, Runs
    <3>2. s # r
      BY <3>1
    <3>3. NodesIn(s) \cap NodesIn(r) = {}
      BY <1>1, <2>3, <3>2 DEF Proved!NodesOnce, Runs
    <3>4. QED
      BY <3>1, <3>3
  <2>7. QED
    BY <2>5, <2>6, Zenon
       DEF Proved!IsHandedOver, Proved!IsForwarded, Proved!IsReadFromFile, ExpectedFile,
           Proved!ExpectedFile
<1>6. ModulesLocated
  <2>1. \A n : NeedsModule(n) <=> Proved!NeedsModule(n)
    BY DEF NeedsModule, Scheduler!NeedsModule, Proved!NeedsModule, Scheduler!PassThrough,
           Proved!PassThrough
  <2>2. ASSUME NEW r \in Runs
        PROVE  /\ query_node_runs_queue[r].modules \in Seq(QueryOperation)
               /\ SharesLocation(r) \/ FollowsOrder(r)
    <3>1. Proved!IsLocated(query_node_runs_queue[r])
      BY <1>1 DEF Proved!RunsLocated, Runs
    <3>2. SharesLocation(r) \/ FollowsOrder(r)
      BY <2>1, <3>1, Zenon
         DEF Proved!IsLocated, Proved!SharesLocation, Proved!FollowsOrder,
             SharesLocation, FollowsOrder, RunNodes
    <3>3. query_node_runs_queue[r] \in Proved!Run
      <4>1. query_node_runs_queue \in Seq(Proved!Run)
        BY <1>1 DEF Proved!FieldsOK, Proved!RunsOK
      <4>2. QED
        BY <4>1, LenProperties, ElementOfSeq DEF Runs
    <3>4. Proved!QueryOperation = QueryOperation
      BY DEF Proved!QueryOperation, QueryOperation, Proved!QueryOperationType,
             QueryOperationType, Proved!PassThrough, PassThrough
    <3>5. QED
      BY <3>2, <3>3, <3>4 DEF Proved!Run
  <2>3. QED
    BY <2>2 DEF ModulesLocated
<1>7. QED
  BY <1>2, <1>4, <1>5, <1>6 DEF ScheduleSettled

LEMMA ScheduleStaysSettled == Proved!SchedulerInv' => ScheduleSettled'
BY ScheduleIsSettled, PTL

LEMMA NextSettledSchedule ==
    ASSUME ControlInv, ScheduleSettled, [Next]_vars
    PROVE  ScheduleSettled'
<1>1. CASE ScheduleUnscheduledNodes
  <2>1. ~is_graph_empty /\ Scheduler!Next
    BY <1>1 DEF ScheduleUnscheduledNodes
  <2>2. Proved!SchedulerInv'
    BY <2>1, SchedulerSteps DEF ControlInv, Scheduling
  <2>3. QED
    BY <2>2, ScheduleStaysSettled
<1>2. CASE SetupNextRunData \/ QuietStep \/ AllocateMemoryBlocks \/ FreeMemoryBlocks
  <2>1. UNCHANGED <<plan, query_node_runs_queue, linked_nodes, input_files, output_files,
                    module_location>>
    BY <1>2, QuietSteps
       DEF SetupNextRunData, AllocateMemoryBlocks, FreeMemoryBlocks, schedulerVars
  <2>2. \A r : RunNodes(r)' = RunNodes(r) /\ NodesIn(r)' = NodesIn(r)
    BY <2>1 DEF RunNodes, NodesIn
  <2>3. \A n : NeedsModule(n)' <=> NeedsModule(n)
    BY <2>1 DEF NeedsModule, Scheduler!NeedsModule
  <2>4. FilesKnown'
    BY <2>1, <2>2 DEF ScheduleSettled, FilesKnown, OutputFile, IsInRun, Runs
  <2>5. StreamsForwarded'
    BY <2>1, <2>2 DEF ScheduleSettled, StreamsForwarded, Runs
  <2>6. ModulesLocated'
    BY <2>1, <2>2, <2>3 DEF ScheduleSettled, ModulesLocated, SharesLocation, FollowsOrder, Runs
  <2>7. QED
    BY <2>1, <2>4, <2>5, <2>6 DEF ScheduleSettled
<1>3. QED
  BY <1>1, <1>2, Steps

-----------------------------------------------------------------------------
(***************************************************************************)
(* Every node has a run once the graph is empty, and the links of a node   *)
(* whose run has been set up lead to nodes of that run.                    *)
(***************************************************************************)
RunsCovered == is_graph_empty => AllInRuns

RunsCut ==
    \A r \in 1..(next_run - 1) : \A n \in NodesIn(r) : \A i \in Outputs(plan, n) :
        IsNode(next_nodes[n][i]) => next_nodes[n][i] \in NodesIn(r)

LEMMA InitCovered == Init => RunsCovered
<1> SUFFICES ASSUME Init, RootNodes(plan) = {} PROVE AllInRuns
  BY DEF Init, RunsCovered
<1>1. plan \in Plans
  BY DEF Init, Scheduler!Init
<1>2. plan.nodes = {}
  <2>1. SUFFICES ASSUME plan.nodes # {} PROVE FALSE
    OBVIOUS
  <2>2. PICK n \in plan.nodes : Producers(plan, n) \cap plan.nodes = {}
    BY <1>1, <2>1, PlanFacts DEF IsAcyclic
  <2>3. Producers(plan, n) = {}
    BY <1>1, <2>2, PlanFacts
  <2>4. QED
    BY <2>3 DEF RootNodes
<1>3. QED
  BY <1>2 DEF AllInRuns

LEMMA NextCovered ==
    ASSUME ControlInv, RunsCovered, [Next]_vars
    PROVE  RunsCovered'
<1>1. CASE ScheduleUnscheduledNodes
  BY <1>1 DEF ScheduleUnscheduledNodes, RunsCovered, controlVars
<1>2. CASE LeaveScheduleState
  <2>1. ScheduleReady /\ phase = "scheduled"
    BY <1>2, ScheduleIsReady DEF ControlInv, Scheduling, LeaveScheduleState
  <2>2. UNCHANGED <<plan, query_node_runs_queue>>
    BY <1>2 DEF LeaveScheduleState, schedulerVars
  <2>3. QED
    BY <2>1, <2>2 DEF ScheduleReady, RunsCovered, AllInRuns, Runs, NodesIn, RunNodes
<1>3. CASE SetupNextRunData \/ QuietStep \/ AllocateMemoryBlocks \/ FreeMemoryBlocks
  <2>1. UNCHANGED <<plan, query_node_runs_queue>>
    BY <1>3, QuietSteps
       DEF SetupNextRunData, AllocateMemoryBlocks, FreeMemoryBlocks, schedulerVars
  <2>2. CASE LeaveScheduleState
    BY <1>2, <2>2
  <2>3. CASE ~LeaveScheduleState
    <3>1. is_graph_empty' = is_graph_empty
      <4>1. QuietStep => is_graph_empty' = is_graph_empty
        BY <2>3 DEF QuietStep, vars, controlVars, SetFinishedFlag, LeaveSetupNodesState,
               AllocateStreamIDs, CrashOnNullLink, IsRunValid, RunIsInvalid,
               SetupQueryAcceleration, RunQueryAcceleration, ProcessResults
      <4>2. SetupNextRunData \/ AllocateMemoryBlocks \/ FreeMemoryBlocks =>
                is_graph_empty' = is_graph_empty
        BY DEF SetupNextRunData, AllocateMemoryBlocks, FreeMemoryBlocks
      <4>3. QED
        BY <1>3, <4>1, <4>2
    <3>2. QED
      BY <2>1, <3>1 DEF RunsCovered, AllInRuns, Runs, NodesIn, RunNodes
  <2>4. QED
    BY <2>2, <2>3
<1>4. QED
  BY <1>1, <1>3, Steps

LEMMA NextCut ==
    ASSUME ControlInv, RunsCut, [Next]_vars
    PROVE  RunsCut'
<1>1. CASE ScheduleUnscheduledNodes
  <2>1. 1..(next_run' - 1) = {}
    BY <1>1 DEF ScheduleUnscheduledNodes, ControlInv, StateOK, controlVars
  <2>2. QED
    BY <2>1 DEF RunsCut
<1>2. CASE SetupNextRunData
  <2>1. /\ next_run \in Runs /\ next_run' = next_run + 1 /\ plan' = plan
        /\ \A r : NodesIn(r)' = NodesIn(r)
        /\ \A n \in plan.nodes \ NodesIn(next_run) : next_nodes'[n] = next_nodes[n]
    BY <1>2, SetupChanges DEF SetupNextRunData
  <2>2. LinksKnown /\ RunsKnown /\ next_run \in Nat
    <3>1. Len(query_node_runs_queue) \in Nat
      BY DEF ControlInv, ScheduleKnown, RunsKnown
    <3>2. QED
      BY <3>1 DEF ControlInv, ScheduleKnown, StateOK
  <2>3. ASSUME NEW r \in 1..next_run, NEW n \in NodesIn(r), NEW i \in Outputs(plan, n),
               IsNode(next_nodes'[n][i])
        PROVE  next_nodes'[n][i] \in NodesIn(r)
    <3>0. r \in Runs /\ n \in plan.nodes
      <4>1. r \in Runs
        BY <2>1, <2>2 DEF RunsKnown
      <4>2. RunNodes(r) \in Seq(plan.nodes)
        BY <2>2, <4>1 DEF RunsKnown
      <4>3. QED
        BY <4>1, <4>2, LenProperties, ElementOfSeq DEF NodesIn, ToSet
    <3>1. CASE r = next_run
      <4>1. next_nodes'[n][i] =
                IF next_nodes[n][i] \in NodesIn(r) THEN next_nodes[n][i] ELSE Null
        <5>1. i \in DOMAIN next_nodes[n]
          BY <2>2, <2>3, <3>0 DEF LinksKnown
        <5>2. QED
          BY <1>2, <2>3, <3>0, <3>1, <5>1 DEF SetupNextRunData, InitialiseVectorSizes, NodesIn
      <4>2. QED
        BY <2>3, <4>1 DEF IsNode
    <3>2. CASE r # next_run
      <4>1. n \notin NodesIn(next_run) /\ r \in 1..(next_run - 1)
        BY <2>1, <2>2, <2>3, <3>0, <3>2 DEF RunsKnown
      <4>2. next_nodes'[n] = next_nodes[n]
        BY <2>1, <3>0, <4>1
      <4>3. QED
        BY <2>3, <4>1, <4>2 DEF RunsCut
    <3>3. QED
      BY <3>1, <3>2
  <2>4. (next_run + 1) - 1 = next_run
    BY <2>2
  <2>5. QED
    BY <2>1, <2>3, <2>4 DEF RunsCut
<1>3. CASE QuietStep \/ AllocateMemoryBlocks \/ FreeMemoryBlocks
  <2>1. UNCHANGED <<plan, next_nodes, query_node_runs_queue, next_run>>
    BY <1>3, QuietSteps DEF AllocateMemoryBlocks, FreeMemoryBlocks, schedulerVars
  <2>2. QED
    BY <2>1 DEF RunsCut, NodesIn, RunNodes
<1>4. QED
  BY <1>1, <1>2, <1>3, Steps
-----------------------------------------------------------------------------
(***************************************************************************)
(* The blocks of a node set up in the run: a stream has one just where it  *)
(* is not linked to another node of the run.                               *)
(***************************************************************************)
BlocksOfNode(n) ==
    /\ \A j \in Inputs(plan, n) :
          IsBlock(input_memory_blocks[n][j]) <=> ~IsNode(previous_nodes[n][j])
    /\ \A i \in Outputs(plan, n) :
          IsBlock(output_memory_blocks[n][i]) <=> ~IsNode(next_nodes[n][i])
BlocksPresent ==
    step # "start" /\ error = "none" =>
        \A k \in DOMAIN CurrentRun : IsSetUp(k) => BlocksOfNode(CurrentRun[k])

LEMMA QuietPresent ==
    ASSUME ControlInv, BlocksPresent, QuietStep
    PROVE  BlocksPresent'
<1> SUFFICES ASSUME step' # "start", error' = "none", NEW k \in DOMAIN CurrentRun', IsSetUp(k)'
             PROVE  BlocksOfNode(CurrentRun[k])'
  BY DEF BlocksPresent
<1>1. UNCHANGED <<schedulerVars, next_run>> /\ (step' = "start" <=> step = "start")
  BY QuietSteps
<1>2. /\ CurrentRun' = CurrentRun /\ step # "start" /\ error = "none"
      /\ UNCHANGED <<plan, previous_nodes, next_nodes>>
  BY <1>1, SameRuns, QuietSteps
<1>3. k \in DOMAIN CurrentRun /\ k >= 1
  BY <1>2, CurrentRunKnown
<1>4. IsSetUp(k)
  <2>1. /\ step = "memory" => step' = "memory" /\ setup_index' = setup_index
        /\ step' = "memory" => step = "memory" \/ (step = "ids" /\ setup_index' = 1)
    BY QuietSteps
  <2>2. step = "ids" => step' \in {"ids", "memory"}
    BY <1>2 DEF QuietStep, vars, controlVars, LeaveScheduleState, SetFinishedFlag,
       LeaveSetupNodesState, AllocateStreamIDs, CrashOnNullLink, IsRunValid, RunIsInvalid,
       SetupQueryAcceleration, RunQueryAcceleration, ProcessResults
  <2>3. ~(k < 1)
    BY <1>2, <1>3, CurrentRunKnown
  <2>4. QED
    BY <2>1, <2>2, <2>3 DEF IsSetUp
<1>5. BlocksOfNode(CurrentRun[k])
  BY <1>2, <1>3, <1>4 DEF BlocksPresent
<1>6. UNCHANGED <<input_memory_blocks, output_memory_blocks>>
  BY QuietSteps
<1>7. QED
  BY <1>2, <1>5, <1>6 DEF BlocksOfNode

LEMMA AllocatePresent ==
    ASSUME ControlInv, DataInv, RunLinked, BlocksPresent, AllocateMemoryBlocks
    PROVE  BlocksPresent'
<1> SUFFICES ASSUME step' # "start", error' = "none", NEW k \in DOMAIN CurrentRun', IsSetUp(k)'
             PROVE  BlocksOfNode(CurrentRun[k])'
  BY DEF BlocksPresent
<1> DEFINE n == SetupNode
<1>1. /\ step = "memory" /\ error = "none"
      /\ UNCHANGED <<schedulerVars, next_run>>
      /\ Memory!CanAllocate(RequestedBlocks(n))
      /\ IF setup_index < Len(CurrentRun)
         THEN setup_index' = setup_index + 1 /\ step' = "memory"
         ELSE step' = "validate"
  BY DEF AllocateMemoryBlocks, IsRunning
<1>2. UNCHANGED <<plan, previous_nodes, next_nodes, CurrentRun>>
  BY <1>1, SameRuns
<1>3. /\ setup_index \in 1..Len(CurrentRun) /\ Len(CurrentRun) \in Nat /\ n = CurrentRun[setup_index]
      /\ DOMAIN CurrentRun = 1..Len(CurrentRun) /\ IsInjective(CurrentRun)
      /\ n \in plan.nodes /\ InRun(n)
  BY <1>1, SetupNodeKnown, CurrentRunKnown DEF SetupNode
<1>4. k \in 1..Len(CurrentRun) /\ k <= setup_index
  BY <1>1, <1>2, <1>3 DEF IsSetUp
<1>5. CASE k = setup_index
  <2>1. DOMAIN previous_nodes[n] = Inputs(plan, n) /\ DOMAIN next_nodes[n] = Outputs(plan, n)
    BY <1>3 DEF ControlInv, ScheduleKnown, LinksKnown
  <2>2. /\ \A i \in OutputsToMemory(n) : Memory!NextBlock(OutputRequest(n, i)) # 0
        /\ \A j \in InputsFromFile(n) : Memory!NextBlock(InputRequest(n, j)) # 0
    BY <1>1, <1>3, BlocksGiven
  <2>3. ASSUME NEW j \in Inputs(plan, n)
        PROVE  IsBlock(input_memory_blocks'[n][j]) <=> ~IsNode(previous_nodes[n][j])
    <3>1. input_memory_blocks'[n][j] =
              IF j \in InputsFromFile(n) THEN Memory!NextBlock(InputRequest(n, j))
              ELSE input_memory_blocks[n][j]
      BY AllocateVectors
    <3>2. j \in InputsFromFile(n) <=>
              ~IsNode(previous_nodes[n][j]) /\ ~IsBlock(input_memory_blocks[n][j])
      BY <2>1 DEF InputsFromFile
    <3>3. IsBlock(input_memory_blocks[n][j]) => ~IsNode(previous_nodes[n][j])
      BY <1>1, <1>3 DEF RunLinked
    <3>4. QED
      BY <2>2, <3>1, <3>2, <3>3, BlockNumbers
  <2>4. ASSUME NEW i \in Outputs(plan, n)
        PROVE  IsBlock(output_memory_blocks'[n][i]) <=> ~IsNode(next_nodes[n][i])
    <3>1. output_memory_blocks'[n][i] =
              IF i \in OutputsToMemory(n) THEN Memory!NextBlock(OutputRequest(n, i)) ELSE NoBlock
      BY AllocateVectors
    <3>2. i \in OutputsToMemory(n) <=> ~IsNode(next_nodes[n][i])
      BY <2>1 DEF OutputsToMemory
    <3>3. QED
      BY <2>2, <3>1, <3>2, BlockNumbers
  <2>5. CurrentRun'[k] = n
    BY <1>2, <1>3, <1>5
  <2> HIDE DEF n
  <2>6. QED
    BY <1>2, <2>3, <2>4, <2>5 DEF BlocksOfNode
<1>6. CASE k # setup_index
  <2>1. k < setup_index
    BY <1>3, <1>4, <1>6
  <2>2. BlocksOfNode(CurrentRun[k])
    BY <1>1, <1>3, <1>4, <2>1 DEF BlocksPresent, IsSetUp
  <2>3. CurrentRun[k] # n /\ CurrentRun[k] \in plan.nodes
    <3>1. CurrentRun[k] # n
      BY <1>3, <1>4, <1>6 DEF IsInjective
    <3>2. InRun(CurrentRun[k])
      BY <1>3, <1>4 DEF InRun, ToSet
    <3>3. QED
      BY <1>1, <3>1, <3>2, CurrentRunKnown
  <2>4. /\ input_memory_blocks'[CurrentRun[k]] = input_memory_blocks[CurrentRun[k]]
        /\ output_memory_blocks'[CurrentRun[k]] = output_memory_blocks[CurrentRun[k]]
    BY <2>3, AllocateVectors
  <2>5. QED
    BY <1>2, <2>2, <2>4 DEF BlocksOfNode
<1>7. QED
  BY <1>5, <1>6

LEMMA NextPresent ==
    ASSUME ControlInv, DataInv, RunLinked, BlocksPresent, [Next]_vars
    PROVE  BlocksPresent'
<1>1. CASE ScheduleUnscheduledNodes \/ FreeMemoryBlocks
  <2>1. step' = "start"
    BY <1>1 DEF ScheduleUnscheduledNodes, FreeMemoryBlocks, ControlInv, StateOK, controlVars
  <2>2. QED
    BY <2>1 DEF BlocksPresent
<1>2. CASE SetupNextRunData
  BY <1>2 DEF SetupNextRunData, BlocksPresent, IsSetUp
<1>3. QED
  BY <1>1, <1>2, QuietPresent, AllocatePresent, Steps
-----------------------------------------------------------------------------
(***************************************************************************)
(* The results: the files of the outputs that left their run, of the runs  *)
(* whose results have been processed.                                      *)
(***************************************************************************)
Processed(n) == HasRun(n) /\ (IsBeingRun(n) => step = "free")
IsDelivered(f, n, i) ==
    /\ n \in plan.nodes /\ i \in Outputs(plan, n)
    /\ Processed(n) /\ ~IsNode(next_nodes[n][i])
    /\ output_files[n][i] # NoFile /\ f = output_files[n][i]
ResultsDelivered ==
    \A f : (\E x \in results : x.file = f) <=> (\E n, i : IsDelivered(f, n, i))

LEMMA InitDelivered == Init => ResultsDelivered
<1> SUFFICES ASSUME Init PROVE ResultsDelivered
  OBVIOUS
<1>1. results = {} /\ next_run = 1 /\ 1..0 = {}
  BY DEF Init
<1>2. \A n : ~HasRun(n)
  BY <1>1 DEF HasRun
<1>3. QED
  BY <1>1, <1>2 DEF ResultsDelivered, IsDelivered, Processed

(* The steps that neither process results nor schedule.                    *)
LEMMA SameDelivered ==
    ASSUME ControlInv, DataInv, ResultsDelivered, [Next]_vars,
           ~ScheduleUnscheduledNodes, ~ProcessResults
    PROVE  ResultsDelivered'
<1>1. results' = results /\ UNCHANGED <<plan, output_files>>
  <2>1. QuietStep \/ SetupNextRunData \/ AllocateMemoryBlocks \/ FreeMemoryBlocks
    BY Steps
  <2>2. UNCHANGED <<plan, output_files>>
    BY <2>1, QuietSteps
       DEF SetupNextRunData, AllocateMemoryBlocks, FreeMemoryBlocks, schedulerVars
  <2>3. results' = results
    BY <2>1 DEF QuietStep, vars, LeaveScheduleState, SetFinishedFlag, LeaveSetupNodesState,
       AllocateStreamIDs, CrashOnNullLink, IsRunValid, RunIsInvalid, SetupQueryAcceleration,
       RunQueryAcceleration, ProcessResults, SetupNextRunData, AllocateMemoryBlocks,
       FreeMemoryBlocks
  <2>4. QED
    BY <2>2, <2>3
<1>2. ASSUME NEW n \in plan.nodes
      PROVE  /\ Processed(n)' <=> Processed(n)
             /\ Processed(n) => next_nodes'[n] = next_nodes[n]
  <2>1. CASE SetupNextRunData
    <3>1. /\ step = "start" /\ step' = "ids"
          /\ IsBeingRun(n)' <=> n \in NodesIn(next_run)
          /\ HasFinished(n)' <=> HasRun(n)
      BY <1>2, <2>1, SetupRuns
    <3>2. Processed(n) <=> HasRun(n)
      BY <3>1 DEF Processed, IsBeingRun
    <3>3. Processed(n)' <=> HasFinished(n)'
      BY <3>1 DEF Processed, HasFinished
    <3>4. HasRun(n) => n \notin NodesIn(next_run)
      BY <3>1 DEF HasFinished
    <3>5. QED
      BY <1>2, <2>1, <3>1, <3>2, <3>3, <3>4, SetupChanges
  <2>2. CASE FreeMemoryBlocks
    <3>1. /\ step = "free" /\ step' = "start" /\ UNCHANGED schedulerVars
          /\ ~IsBeingRun(n)' /\ (HasRun(n)' <=> HasRun(n))
      BY <2>2, FreeVectors
    <3>2. QED
      BY <3>1 DEF Processed, schedulerVars
  <2>3. CASE QuietStep \/ AllocateMemoryBlocks
    <3>1. /\ UNCHANGED <<schedulerVars, next_run>> /\ (step' = "start" <=> step = "start")
          /\ step' = "free" <=> step = "free"
      <4>1. CASE QuietStep
        <5>1. step' = "free" <=> step = "free"
          BY <4>1 DEF QuietStep, vars, controlVars, LeaveScheduleState, SetFinishedFlag,
             LeaveSetupNodesState, AllocateStreamIDs, CrashOnNullLink, IsRunValid,
             RunIsInvalid, SetupQueryAcceleration, RunQueryAcceleration, ProcessResults
        <5>2. QED
          BY <4>1, <5>1, QuietSteps
      <4>2. CASE AllocateMemoryBlocks
        BY <4>2, AllocateVectors DEF AllocateMemoryBlocks
      <4>3. QED
        BY <2>3, <4>1, <4>2
    <3>2. (HasRun(n)' <=> HasRun(n)) /\ (IsBeingRun(n)' <=> IsBeingRun(n))
          /\ next_nodes' = next_nodes
      BY <3>1, SameRuns
    <3>3. QED
      BY <3>1, <3>2 DEF Processed
  <2>4. QED
    BY <2>1, <2>2, <2>3, Steps
<1>3. \A f, n, i : IsDelivered(f, n, i)' <=> IsDelivered(f, n, i)
  BY <1>1, <1>2 DEF IsDelivered
<1>4. QED
  BY <1>1, <1>3 DEF ResultsDelivered

LEMMA ScheduleDelivered ==
    ASSUME ControlInv, ResultsDelivered, ScheduleUnscheduledNodes
    PROVE  ResultsDelivered'
<1>1. results' = results /\ next_run' = next_run /\ next_run = 1 /\ 1..0 = {}
  BY DEF ScheduleUnscheduledNodes, controlVars, ControlInv, StateOK
<1>2. \A n : ~HasRun(n) /\ ~HasRun(n)'
  BY <1>1 DEF HasRun
<1>3. QED
  BY <1>1, <1>2 DEF ResultsDelivered, IsDelivered, Processed

(* ProcessResults delivers the outputs of the run that have a block.       *)
LEMMA ProcessDelivered ==
    ASSUME ControlInv, DataInv, BlocksPresent, ResultsDelivered, ProcessResults
    PROVE  ResultsDelivered'
<1>1. /\ step = "process" /\ step' = "free" /\ error = "none"
      /\ UNCHANGED <<schedulerVars, next_run, output_memory_blocks>>
  BY DEF ProcessResults, IsRunning
<1>2. /\ UNCHANGED <<plan, next_nodes, output_files>>
      /\ \A n : /\ HasRun(n)' <=> HasRun(n)
                /\ IsBeingRun(n)' <=> IsBeingRun(n)
                /\ InRun(n) => n \in plan.nodes /\ HasRun(n)
  BY <1>1, SameRuns, CurrentRunKnown DEF schedulerVars
<1>3. \A n : /\ Processed(n)' <=> HasRun(n)
             /\ Processed(n) <=> HasRun(n) /\ ~InRun(n)
  BY <1>1, <1>2 DEF Processed, IsBeingRun
<1>4. ASSUME NEW n, InRun(n)
      PROVE  /\ DOMAIN output_memory_blocks[n] = Outputs(plan, n)
             /\ \A i \in Outputs(plan, n) : HasBlock(n, i) <=> ~IsNode(next_nodes[n][i])
  <2>1. PICK k \in DOMAIN CurrentRun : CurrentRun[k] = n
    BY <1>4 DEF InRun, ToSet
  <2>2. BlocksOfNode(n)
    BY <1>1, <2>1 DEF BlocksPresent, IsSetUp
  <2>3. output_memory_blocks[n] \in [Outputs(plan, n) -> MaybeBlock]
    BY <1>1, <1>2, <1>4 DEF DataInv, VectorsOK, IsBeingRun
  <2>4. QED
    BY <2>2, <2>3 DEF BlocksOfNode, HasBlock
<1> DEFINE IsNew(f, n, i) ==
               /\ InRun(n) /\ i \in DOMAIN output_memory_blocks[n]
               /\ HasBlock(n, i) /\ output_files[n][i] # NoFile /\ f = output_files[n][i]
<1>5. \A f : (\E x \in results' : x.file = f) <=>
                 (\E x \in results : x.file = f) \/ (\E n, i : IsNew(f, n, i))
  <2> DEFINE ResultOf(n, i) == [file |-> output_files[n][i], data |-> ReadTableFromMemory(n, i)]
             New == UNION {{ResultOf(n, i) :
                        i \in {i \in DOMAIN output_memory_blocks[n] :
                                  HasBlock(n, i) /\ output_files[n][i] # NoFile}} :
                     n \in ToSet(CurrentRun)}
  <2>1. results' = results \cup New
    BY Zenon DEF ProcessResults
  <2>2. \A n, i : ResultOf(n, i).file = output_files[n][i]
    OBVIOUS
  <2>3. \A x : x \in New <=> \E n, i : /\ InRun(n) /\ i \in DOMAIN output_memory_blocks[n]
                                       /\ HasBlock(n, i) /\ output_files[n][i] # NoFile
                                       /\ x = ResultOf(n, i)
    <3> HIDE DEF ResultOf
    <3>1. QED
      BY DEF InRun
  <2> HIDE DEF New, ResultOf
  <2>4. QED
    BY <2>1, <2>2, <2>3
<1>6. \A f, n, i : IsNew(f, n, i) <=>
          /\ InRun(n) /\ i \in Outputs(plan, n) /\ ~IsNode(next_nodes[n][i])
          /\ output_files[n][i] # NoFile /\ f = output_files[n][i]
  BY <1>4
<1> HIDE DEF IsNew
<1>7. \A f, n, i : IsDelivered(f, n, i)' <=> IsDelivered(f, n, i) \/ IsNew(f, n, i)
  BY <1>2, <1>3, <1>6 DEF IsDelivered
<1>8. QED
  BY <1>5, <1>7 DEF ResultsDelivered

LEMMA NextDelivered ==
    ASSUME ControlInv, DataInv, BlocksPresent, ResultsDelivered, [Next]_vars
    PROVE  ResultsDelivered'
BY SameDelivered, ScheduleDelivered, ProcessDelivered
-----------------------------------------------------------------------------
(***************************************************************************)
(* The schedule and the results together.                                  *)
(***************************************************************************)
DeliveryInv == ScheduleSettled /\ RunsCovered /\ RunsCut /\ BlocksPresent /\ ResultsDelivered

LEMMA InitDelivery == Init => DeliveryInv
<1> SUFFICES ASSUME Init PROVE DeliveryInv
  OBVIOUS
<1>1. ScheduleSettled
  BY SchedulerStarts, ScheduleIsSettled DEF Init
<1>2. RunsCut /\ BlocksPresent
  <2>1. next_run = 1 /\ step = "start" /\ 1..0 = {}
    BY DEF Init
  <2>2. QED
    BY <2>1 DEF RunsCut, BlocksPresent
<1>3. QED
  BY <1>1, <1>2, InitCovered, InitDelivered DEF DeliveryInv

LEMMA NextDelivery ==
    ASSUME ExecutionInv, NumberingInv, DeliveryInv, [Next]_vars
    PROVE  DeliveryInv'
<1>1. ControlInv /\ DataInv /\ RunLinked
  BY DEF ExecutionInv, NumberingInv
<1>2. ScheduleSettled /\ RunsCovered /\ RunsCut /\ BlocksPresent /\ ResultsDelivered
  BY DEF DeliveryInv
<1>3. ScheduleSettled' /\ RunsCovered' /\ RunsCut'
  BY <1>1, <1>2, NextSettledSchedule, NextCovered, NextCut
<1>4. BlocksPresent' /\ ResultsDelivered'
  BY <1>1, <1>2, NextPresent, NextDelivered
<1>5. QED
  BY <1>3, <1>4 DEF DeliveryInv

(* What a node of the plan owes to files.                                  *)
IsOwed(n, i) == plan.is_checked[n][i] \/ ~IsNode(plan.next_nodes[n][i])
OwedFile(n, i) == IF plan.is_checked[n][i] THEN ExpectedFile(n, i) ELSE ResultFile(n, i)

LEMMA RunsTogether ==
    ASSUME ScheduleSettled, RunsKnown, NEW r \in Runs, NEW n \in NodesIn(r), NEW m \in NodesIn(r)
    PROVE  Scheduler!InSameRun(n, m)
<1>1. IsSequence(query_node_runs_queue)
  BY DEF ScheduleSettled
<1>2. PICK run : Scheduler!AllRuns = Append(query_node_runs_queue, run)
  BY DEF Scheduler!AllRuns
<1>3. /\ DOMAIN Scheduler!AllRuns = 1..(Len(query_node_runs_queue) + 1)
      /\ \A k \in 1..Len(query_node_runs_queue) :
            Scheduler!AllRuns[k] = query_node_runs_queue[k]
      /\ Len(query_node_runs_queue) \in Nat
  BY <1>1, <1>2, AppendSequence
<1>4. r \in 1..Len(query_node_runs_queue)
  BY DEF RunsKnown
<1>5. Scheduler!AllRuns[r] = query_node_runs_queue[r] /\ r \in DOMAIN Scheduler!AllRuns
  BY <1>3, <1>4
<1>6. {n, m} \subseteq Scheduler!ToSet(Scheduler!AllRuns[r].nodes)
  BY <1>5 DEF NodesIn, RunNodes, ToSet, Scheduler!ToSet
<1>7. QED
  BY <1>5, <1>6 DEF Scheduler!InSameRun

LEMMA OwedOutputs ==
    ASSUME ControlInv, DeliveryInv, ChecksEndRuns, NEW n, NEW r \in 1..(next_run - 1),
           n \in NodesIn(r), n \in plan.nodes, NEW i \in Outputs(plan, n)
    PROVE  /\ ~IsNode(next_nodes[n][i]) /\ output_files[n][i] # NoFile <=> IsOwed(n, i)
           /\ IsOwed(n, i) => output_files[n][i] = OwedFile(n, i)
<1>1. LinksKnown /\ RunsKnown /\ plan \in Plans /\ r \in Runs
  BY DEF ControlInv, ScheduleKnown, StateOK, RunsKnown
<1>2. output_files[n][i] = OutputFile(n, i) /\ IsInRun(n)
  BY <1>1 DEF DeliveryInv, ScheduleSettled, FilesKnown, IsInRun
<1>3. ExpectedFile(n, i) # NoFile /\ ResultFile(n, i) # NoFile
  BY DEF ExpectedFile, ResultFile, NoFile
<1>4. output_files[n][i] # NoFile <=> IsOwed(n, i)
  BY <1>2, <1>3 DEF OutputFile, IsOwed
<1>5. IsOwed(n, i) => output_files[n][i] = OwedFile(n, i)
  BY <1>2 DEF OutputFile, IsOwed, OwedFile
<1>6. ASSUME IsOwed(n, i), IsNode(next_nodes[n][i]) PROVE FALSE
  <2> DEFINE m == plan.next_nodes[n][i]
  <2>1. next_nodes[n][i] = m /\ IsNode(m) /\ m \in NodesIn(r)
    BY <1>1, <1>6 DEF LinksKnown, IsNode, DeliveryInv, RunsCut
  <2>2. plan.is_checked[n][i]
    BY <1>6, <2>1 DEF IsOwed
  <2>3. m \in plan.nodes
    <3>1. RunNodes(r) \in Seq(plan.nodes)
      BY <1>1 DEF RunsKnown
    <3>2. QED
      BY <2>1, <3>1, LenProperties, ElementOfSeq DEF NodesIn, ToSet
  <2>4. PICK j \in Inputs(plan, m) : plan.previous_nodes[m][j] = n
    <3>1. m \in Consumers(plan, n)
      BY <2>1 DEF Consumers, IsNode
    <3>2. n \in Producers(plan, m)
      BY <1>1, <2>3, <3>1, PlansAssumption DEF IsPlan, IsLinked
    <3>3. QED
      BY <3>2 DEF Producers
  <2>5. Edge(n, i, m, j) \in Edges(plan)
    BY <2>3, <2>4, StreamIsEdge
  <2>6. ~Scheduler!InSameRun(n, m)
    <3>1. Edge(n, i, m, j).from = n /\ Edge(n, i, m, j).output = i /\ Edge(n, i, m, j).to = m
      BY DEF Edge
    <3>2. QED
      BY <2>2, <2>5, <3>1 DEF ChecksEndRuns
  <2>7. QED
    BY <1>1, <2>1, <2>6, RunsTogether DEF DeliveryInv
<1>7. QED
  BY <1>4, <1>5, <1>6

LEMMA DeliveredFollows ==
    ASSUME ControlInv, DeliveryInv
    PROVE  EveryResultDelivered
<1> DEFINE Files(n) == {IF plan.is_checked[n][i] THEN ExpectedFile(n, i) ELSE ResultFile(n, i) :
                          i \in {i \in Outputs(plan, n) :
                                    plan.is_checked[n][i] \/ ~IsNode(plan.next_nodes[n][i])}}
<1> SUFFICES ASSUME IsFinished, ScheduleIsSound, ChecksEndRuns
             PROVE  {x.file : x \in results} = UNION {Files(n) : n \in plan.nodes}
  BY Zenon DEF EveryResultDelivered
<1>1. step = "start" /\ is_graph_empty /\ next_run = Len(query_node_runs_queue) + 1
  BY DEF IsFinished, ControlInv, StateOK
<1>2. ASSUME NEW n \in plan.nodes
      PROVE  /\ Processed(n)
             /\ \E r \in 1..(next_run - 1) : n \in NodesIn(r)
  <2>1. PICK r \in Runs : n \in NodesIn(r)
    BY <1>1 DEF DeliveryInv, RunsCovered, AllInRuns
  <2>2. Len(query_node_runs_queue) \in Nat /\ Runs = 1..Len(query_node_runs_queue)
    BY DEF ControlInv, ScheduleKnown, RunsKnown
  <2>3. r \in 1..(next_run - 1)
    BY <1>1, <2>2
  <2>4. QED
    BY <1>1, <2>1, <2>3 DEF Processed, HasRun, IsBeingRun, NodesIn
<1>3. \A f, n, i : IsDelivered(f, n, i) <=>
          /\ n \in plan.nodes /\ i \in Outputs(plan, n)
          /\ IsOwed(n, i) /\ f = OwedFile(n, i)
  BY <1>2, OwedOutputs DEF IsDelivered
<1>4. \A f : (\E x \in results : x.file = f) <=> (\E n, i : IsDelivered(f, n, i))
  BY DEF DeliveryInv, ResultsDelivered
<1>5. \A n, f : f \in Files(n) <=>
          \E i : i \in Outputs(plan, n) /\ IsOwed(n, i) /\ f = OwedFile(n, i)
  BY DEF IsOwed, OwedFile
<1> HIDE DEF Files
<1>6. QED
  BY <1>3, <1>4, <1>5

(***************************************************************************)
(* EveryResultDelivered for every set of plans in which no two streams     *)
(* join the same two nodes: when the execution has finished, every output  *)
(* that no node reads is in its file, and every output with an expected    *)
(* result has been compared with it, and nothing else has been written.    *)
(***************************************************************************)
THEOREM EveryResultDeliveredHolds == ASSUME PlansAreSimple PROVE Spec => []EveryResultDelivered
<1>1. Init => NumberingInv /\ DeliveryInv
  BY InitNumbering, InitDelivery
<1>2. ExecutionInv /\ NumberingInv /\ DeliveryInv /\ [Next]_vars => NumberingInv' /\ DeliveryInv'
  BY NextNumbering, NextDelivery
<1>3. ExecutionInv /\ DeliveryInv => EveryResultDelivered
  BY DeliveredFollows DEF ExecutionInv
<1>4. Spec => [](ExecutionInv /\ MemoryInv)
  BY MemoryHolds
<1>5. QED
  BY <1>1, <1>2, <1>3, <1>4, PTL DEF Spec
=============================================================================
