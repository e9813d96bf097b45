------------------------ MODULE NodeScheduler_proofs ------------------------
(***************************************************************************)
(* Proofs about the scheduler, for every set of plans: what its variables  *)
(* hold, the order of the nodes, the modules of the runs, and the streams  *)
(* between runs.                                                           *)
(***************************************************************************)
EXTENDS NodeScheduler, SequenceLemmas, FiniteSetTheorems

(***************************************************************************)
(* The plan itself.                                                        *)
(***************************************************************************)
PlanKnown == plan \in Plans

(* What PlansAssumption says of the plan being scheduled.                  *)
LEMMA PlanFacts ==
    ASSUME PlanKnown
    PROVE  /\ plan.nodes \subseteq Nat \ {Null}
           /\ IsFiniteSet(plan.nodes)
           /\ plan.operation_type \in [plan.nodes -> QueryOperationType]
           /\ plan.previous_nodes \in [plan.nodes -> Seq(plan.nodes \cup {Null})]
           /\ plan.next_nodes \in [plan.nodes -> Seq(plan.nodes \cup {Null})]
           /\ \A n, m \in plan.nodes :
                 m \in Consumers(plan, n) <=> n \in Producers(plan, m)
           /\ IsAcyclic(plan)
           /\ plan.library \subseteq Seq(QueryOperation)
BY PlansAssumption DEF PlanKnown, IsPlan, IsLinked, IsLibrary

(* The streams of a node are numbered from 1.                              *)
LEMMA StreamNumbers ==
    ASSUME PlanKnown, NEW n \in plan.nodes
    PROVE  /\ \E k \in Nat : Inputs(plan, n) = 1..k
           /\ \E k \in Nat : Outputs(plan, n) = 1..k
           /\ \A j \in Inputs(plan, n) : plan.previous_nodes[n][j] \in plan.nodes \cup {Null}
           /\ \A i \in Outputs(plan, n) : plan.next_nodes[n][i] \in plan.nodes \cup {Null}
<1>1. /\ plan.previous_nodes[n] \in Seq(plan.nodes \cup {Null})
      /\ plan.next_nodes[n] \in Seq(plan.nodes \cup {Null})
  BY PlanFacts
<1>2. QED
  BY <1>1, LenProperties DEF Inputs, Outputs

(* The program never changes the plan it was given.                        *)
THEOREM PlanStays == Spec => []PlanKnown
<1>1. Init => PlanKnown
  BY DEF Init, PlanKnown
<1>2. PlanKnown /\ [Next]_vars => PlanKnown'
  BY DEF PlanKnown, Next, vars, AddToRun, PlaceModule, PlacePassThrough,
         ConsiderNextNode, EraseStartingNode, TryNextNode, SkipNode,
         OperationNotFound, CloseRun, FailToSchedule
<1>3. QED
  BY <1>1, <1>2, PTL DEF Spec

-----------------------------------------------------------------------------
(***************************************************************************)
(* Types                                                                   *)
(***************************************************************************)

(* A function on the streams of a node is a sequence.                      *)
LEMMA StreamSequence ==
    ASSUME NEW S, NEW k \in Nat, NEW f \in [1..k -> S]
    PROVE  f \in Seq(S)
BY SeqDef

FieldsOK == LinksOK /\ FilesOK /\ SearchOK /\ RunsOK

LEMMA InitType == Init => FieldsOK
<1> SUFFICES ASSUME Init PROVE FieldsOK
  OBVIOUS
<1>0. PlanKnown
  BY DEF Init, PlanKnown
<1>1. LinksOK
  BY <1>0, PlanFacts DEF Init, LinksOK, Inputs, Outputs
<1>2. FilesOK
  <2>1. ASSUME NEW n \in plan.nodes
        PROVE  /\ input_files[n] \in [Inputs(plan, n) -> File]
               /\ output_files[n] \in [Outputs(plan, n) -> File]
    <3>1. n \in Nat
      BY <1>0, PlanFacts
    <3>2. \A j \in Inputs(plan, n) : j \in Nat
      BY <1>0, StreamNumbers
    <3>3. \A i \in Outputs(plan, n) : i \in Nat
      BY <1>0, StreamNumbers
    <3>4. \A j \in Inputs(plan, n) : TableFile(n, j) \in File
      BY <3>1, <3>2 DEF TableFile, File, NamedFile
    <3>5. \A i \in Outputs(plan, n) : ExpectedFile(n, i) \in File
      BY <3>1, <3>3 DEF ExpectedFile, File, NamedFile
    <3>6. NoFile \in File
      BY DEF File
    <3>7. QED
      BY <3>4, <3>5, <3>6 DEF Init
  <2>2. ASSUME NEW n \in plan.nodes
        PROVE  input_files[n] \in Seq(File) /\ output_files[n] \in Seq(File)
    BY <1>0, <2>1, StreamNumbers, StreamSequence
  <2>3. /\ input_files = [n \in plan.nodes |-> input_files[n]]
        /\ output_files = [n \in plan.nodes |-> output_files[n]]
    BY DEF Init
  <2>4. QED
    BY <2>1, <2>2, <2>3 DEF FilesOK
<1>3. SearchOK
  <2>1. RootNodes(plan) \subseteq plan.nodes /\ Cardinality(RootNodes(plan)) \in Nat
    <3>1. RootNodes(plan) \subseteq plan.nodes
      BY DEF RootNodes
    <3>2. QED
      BY <1>0, <3>1, PlanFacts, FS_Subset, FS_CardinalityType
  <2>2. starting_nodes \in Seq(plan.nodes)
    BY <2>1, StreamSequence DEF Init
  <2>3. phase = "check" => 1 \in DOMAIN starting_nodes
    <3>1. phase = "check" => starting_nodes # <<>>
      BY DEF Init
    <3>2. QED
      BY <2>2, <3>1, FirstElement
  <2>4. QED
    BY <2>2, <2>3 DEF Init, SearchOK
<1>4. RunsOK
  BY DEF Init, RunsOK
<1>5. QED
  BY <1>1, <1>2, <1>3, <1>4 DEF FieldsOK

(* A place in the current set gives a sequence of modules again.           *)
LEMMA NewModulesVector ==
    ASSUME PlanKnown, FieldsOK, NEW n \in plan.nodes,
           NEW choice \in SuitableChoices(n)
    PROVE  /\ CreateNewModulesVector(n, choice) \in Seq(QueryOperation)
           /\ choice.position + 1 \in Int
BY PlanFacts DEF SuitableChoices, IsModuleSetSupported

(* The node under consideration is a node.                                 *)
LEMMA CurrentNodeIsNode ==
    ASSUME FieldsOK, phase \in {"check", "extend"}
    PROVE  /\ CurrentNode \in plan.nodes
           /\ node_index \in 1..Len(starting_nodes)
BY LenProperties, ElementOfSeq DEF FieldsOK, SearchOK, CurrentNode

(* CheckExternalLinks keeps links links and files files.                   *)
LEMMA CheckExternalLinksType ==
    ASSUME PlanKnown, FieldsOK, CheckExternalLinks, plan' = plan
    PROVE  LinksOK' /\ FilesOK'
<1> USE DEF FieldsOK
<1>1. ASSUME NEW n \in plan.nodes
      PROVE  /\ previous_nodes'[n] \in [Inputs(plan, n) -> plan.nodes \cup {Null}]
             /\ next_nodes'[n] \in [Outputs(plan, n) -> plan.nodes \cup {Null}]
             /\ output_files'[n] \in [Outputs(plan, n) -> File]
             /\ input_files'[n] \in [Inputs(plan, n) -> File]
  <2>1. /\ previous_nodes[n] \in [Inputs(plan, n) -> plan.nodes \cup {Null}]
        /\ next_nodes[n] \in [Outputs(plan, n) -> plan.nodes \cup {Null}]
        /\ input_files[n] \in [Inputs(plan, n) -> File]
        /\ output_files[n] \in [Outputs(plan, n) -> File]
    BY LenProperties DEF LinksOK, FilesOK
  <2>2. previous_nodes'[n] \in [Inputs(plan, n) -> plan.nodes \cup {Null}]
    BY <2>1 DEF CheckExternalLinks
  <2>3. next_nodes'[n] \in [Outputs(plan, n) -> plan.nodes \cup {Null}]
    BY <2>1 DEF CheckExternalLinks
  <2>4. output_files'[n] \in [Outputs(plan, n) -> File]
    <3>1. n \in Nat /\ \A i \in Outputs(plan, n) : i \in Nat
      BY PlanFacts, StreamNumbers
    <3>2. \A i \in Outputs(plan, n) : ResultFile(n, i) \in File
      BY <3>1 DEF ResultFile, File, NamedFile
    <3>3. QED
      BY <2>1, <3>2 DEF CheckExternalLinks
  <2>5. input_files'[n] \in [Inputs(plan, n) -> File]
    <3>1. ASSUME NEW j \in Inputs(plan, n), FileSources(n, j) # {}
          PROVE  output_files[previous_nodes[n][j]][Max(FileSources(n, j))] \in File
      <4> DEFINE m == previous_nodes[n][j]
      <4>1. m \in plan.nodes
        BY <2>1, <3>1 DEF FileSources, IsNode
      <4>2. FileSources(n, j) \subseteq Outputs(plan, m)
        BY <4>1 DEF FileSources, LinksOK
      <4>3. PICK k \in Nat : Outputs(plan, m) = 1..k
        BY <4>1, StreamNumbers
      <4>4. FileSources(n, j) \in SUBSET (0..k)
        BY <4>2, <4>3
      <4>5. Max(FileSources(n, j)) \in Outputs(plan, m)
        BY <3>1, <4>2, <4>4, GreatestNumber
      <4>6. output_files[m] \in [Outputs(plan, m) -> File]
        BY <4>1, LenProperties DEF FilesOK
      <4>7. QED
        BY <4>5, <4>6
    <3>2. QED
      BY <2>1, <3>1 DEF CheckExternalLinks
  <2>6. QED
    BY <2>2, <2>3, <2>4, <2>5
<1>2. ASSUME NEW n \in plan.nodes
      PROVE  /\ previous_nodes'[n] \in Seq(plan.nodes \cup {Null})
             /\ next_nodes'[n] \in Seq(plan.nodes \cup {Null})
             /\ output_files'[n] \in Seq(File)
             /\ input_files'[n] \in Seq(File)
  BY <1>1, StreamNumbers, StreamSequence
<1>3. /\ previous_nodes' = [n \in plan.nodes |-> previous_nodes'[n]]
      /\ next_nodes' = [n \in plan.nodes |-> next_nodes'[n]]
      /\ output_files' = [n \in plan.nodes |-> output_files'[n]]
      /\ input_files' = [n \in plan.nodes |-> input_files'[n]]
  BY DEF CheckExternalLinks
<1>4. LinksOK'
  BY <1>1, <1>2, <1>3 DEF LinksOK
<1>5. FilesOK'
  BY <1>1, <1>2, <1>3 DEF FilesOK
<1>6. QED
  BY <1>4, <1>5

(* Every step keeps the fields and locals in their types.                  *)
LEMMA NextType == PlanKnown /\ FieldsOK /\ [Next]_vars => FieldsOK'
<1> SUFFICES ASSUME PlanKnown, FieldsOK, [Next]_vars
             PROVE  FieldsOK'
  OBVIOUS
<1> USE DEF FieldsOK
<1>0. ASSUME UNCHANGED <<plan, nodeVars>>
      PROVE  LinksOK' /\ FilesOK'
  BY <1>0 DEF nodeVars, LinksOK, FilesOK
<1>1. ASSUME NEW n \in plan.nodes, n = CurrentNode,
             phase = "check", AddToRun(n),
             current_set' \in Seq(QueryOperation),
             module_location' \in [plan.nodes -> Int]
      PROVE  FieldsOK'
  <2>1. LinksOK' /\ FilesOK'
    BY <1>0, <1>1 DEF AddToRun
  <2>2. SearchOK'
    BY <1>1 DEF AddToRun, SearchOK
  <2>3. RunsOK'
    <3>1. /\ Append(scheduled_queries, n) \in Seq(plan.nodes)
          /\ Append(current_query_nodes, n) \in Seq(plan.nodes)
      BY AppendProperties DEF RunsOK
    <3>2. QED
      BY <1>1, <3>1 DEF AddToRun, RunsOK, Run
  <2>4. QED
    BY <2>1, <2>2, <2>3
<1>2. CASE PlaceModule
  <2>1. CurrentNode \in plan.nodes
    BY <1>2, CurrentNodeIsNode DEF PlaceModule
  <2>2. PICK choice \in SuitableChoices(CurrentNode) :
            /\ current_set' = CreateNewModulesVector(CurrentNode, choice)
            /\ module_location' =
                   [module_location EXCEPT ![CurrentNode] = choice.position + 1]
    BY <1>2 DEF PlaceModule
  <2>3. current_set' \in Seq(QueryOperation)
    BY <2>1, <2>2, NewModulesVector
  <2>4. module_location' \in [plan.nodes -> Int]
    BY <2>1, <2>2, NewModulesVector DEF RunsOK
  <2>5. QED
    BY <1>1, <1>2, <2>1, <2>3, <2>4 DEF PlaceModule
<1>3. CASE PlacePassThrough
  <2>1. CurrentNode \in plan.nodes
    BY <1>3, CurrentNodeIsNode DEF PlacePassThrough
  <2>2. QED
    BY <1>1, <1>3, <2>1 DEF PlacePassThrough, RunsOK
<1>4. CASE ConsiderNextNode
  <2>1. LinksOK' /\ FilesOK'
    BY <1>0, <1>4 DEF ConsiderNextNode
  <2>2. SearchOK'
    <3> DEFINE m == next_nodes[CurrentNode][next_node_index]
    <3>1. CurrentNode \in plan.nodes
      BY <1>4, CurrentNodeIsNode DEF ConsiderNextNode
    <3>2. m \in plan.nodes \cup {Null}
      <4>1. next_nodes[CurrentNode] \in Seq(plan.nodes \cup {Null})
        BY <3>1 DEF LinksOK
      <4>2. next_node_index \in 1..Len(next_nodes[CurrentNode])
        BY <1>4, <4>1, LenProperties DEF ConsiderNextNode, SearchOK
      <4>3. QED
        BY <4>1, <4>2, ElementOfSeq
    <3> HIDE DEF m
    <3>3. BecomesStarting(m) => m \in plan.nodes
      BY <3>2 DEF BecomesStarting, IsNode
    <3>4. starting_nodes' = IF BecomesStarting(m) THEN Append(starting_nodes, m)
                                                  ELSE starting_nodes
      BY <1>4 DEF ConsiderNextNode, m
    <3>5. /\ starting_nodes' \in Seq(plan.nodes)
          /\ DOMAIN starting_nodes \subseteq DOMAIN starting_nodes'
      <4>1. ASSUME BecomesStarting(m)
            PROVE  /\ Append(starting_nodes, m) \in Seq(plan.nodes)
                   /\ DOMAIN starting_nodes \subseteq DOMAIN Append(starting_nodes, m)
        BY <3>3, <4>1, AppendProperties, LenProperties DEF SearchOK
      <4>2. QED
        BY <3>4, <4>1 DEF SearchOK
    <3>6. QED
      BY <1>4, <3>5 DEF ConsiderNextNode, SearchOK
  <2>3. RunsOK'
    BY <1>4 DEF ConsiderNextNode, RunsOK, Run
  <2>4. QED
    BY <2>1, <2>2, <2>3
<1>5. CASE EraseStartingNode
  <2>1. LinksOK' /\ FilesOK'
    BY <1>0, <1>5 DEF EraseStartingNode
  <2>2. SearchOK'
    <3>1. node_index \in 1..Len(starting_nodes) /\ Len(starting_nodes) \in Nat
      BY <1>5, CurrentNodeIsNode, LenProperties DEF EraseStartingNode, SearchOK
    <3>2. /\ starting_nodes' \in Seq(plan.nodes)
          /\ Len(starting_nodes') = Len(starting_nodes) - 1
      BY <1>5, <3>1, RemoveAtProperties DEF EraseStartingNode, SearchOK
    <3>3. Len(starting_nodes) # 1 => 1 \in DOMAIN starting_nodes'
      BY <3>1, <3>2, LenProperties
    <3>4. QED
      BY <1>5, <3>2, <3>3 DEF EraseStartingNode, SearchOK
  <2>3. RunsOK'
    BY <1>5 DEF EraseStartingNode, RunsOK, Run
  <2>4. QED
    BY <2>1, <2>2, <2>3
<1>6. CASE SkipNode
  <2>1. LinksOK' /\ FilesOK'
    BY <1>0, <1>6 DEF SkipNode, TryNextNode
  <2>2. SearchOK'
    <3>1. node_index < Len(starting_nodes) => node_index + 1 \in DOMAIN starting_nodes
      BY LenProperties DEF SearchOK
    <3>2. QED
      BY <1>6, <3>1 DEF SkipNode, TryNextNode, SearchOK
  <2>3. RunsOK'
    BY <1>6 DEF SkipNode, TryNextNode, RunsOK, Run
  <2>4. QED
    BY <2>1, <2>2, <2>3
<1>7. CASE OperationNotFound
  <2>1. LinksOK' /\ FilesOK'
    BY <1>0, <1>7 DEF OperationNotFound
  <2>2. QED
    BY <1>7, <2>1 DEF OperationNotFound, SearchOK, RunsOK, Run
<1>8. CASE CloseRun
  <2>1. LinksOK' /\ FilesOK'
    BY <1>8, CheckExternalLinksType DEF CloseRun
  <2>2. SearchOK'
    BY <1>8, FirstElement DEF CloseRun, SearchOK
  <2>3. RunsOK'
    <3>1. [modules |-> current_set, nodes |-> current_query_nodes] \in Run
      BY DEF RunsOK, Run
    <3>2. query_node_runs_queue' \in Seq(Run)
      BY <1>8, <3>1, AppendProperties DEF CloseRun, RunsOK
    <3>3. QED
      BY <1>8, <3>2 DEF CloseRun, RunsOK, Run
  <2>4. QED
    BY <2>1, <2>2, <2>3
<1>9. CASE FailToSchedule
  <2>1. LinksOK' /\ FilesOK'
    BY <1>0, <1>9 DEF FailToSchedule
  <2>2. QED
    BY <1>9, <2>1 DEF FailToSchedule, SearchOK, RunsOK, Run
<1>10. CASE UNCHANGED vars
  BY <1>0, <1>10 DEF vars, SearchOK, RunsOK, Run
<1>11. QED
  BY <1>2, <1>3, <1>4, <1>5, <1>6, <1>7, <1>8, <1>9, <1>10 DEF Next

-----------------------------------------------------------------------------
(***************************************************************************)
(* The order in which nodes are scheduled                                  *)
(***************************************************************************)

LEMMA InitSchedule == Init => ScheduleInv
<1> SUFFICES ASSUME Init PROVE ScheduleInv
  OBVIOUS
<1>1. PlanKnown
  BY DEF Init, PlanKnown
<1>2. /\ ToSet(scheduled_queries) = {} /\ ToSet(current_query_nodes) = {}
      /\ DOMAIN scheduled_queries = {}
  BY DEF Init, ToSet
<1>3. TopologicalOrder
  BY <1>2 DEF TopologicalOrder, IsInjective
<1>4. LinksUntouched
  BY <1>2 DEF LinksUntouched, Init
<1>5. StartingNodesReady
  <2>1. PICK roots \in [1..Cardinality(RootNodes(plan)) -> RootNodes(plan)] :
            /\ ToSet(roots) = RootNodes(plan)
            /\ \A i, k \in DOMAIN roots : i < k => roots[i] < roots[k]
            /\ starting_nodes = roots
    BY DEF Init
  <2>2. Cardinality(RootNodes(plan)) \in Nat
    BY <1>1, PlanFacts, FS_Subset, FS_CardinalityType DEF RootNodes
  <2>3. \A i \in DOMAIN roots : roots[i] \in Nat
    BY <1>1, PlanFacts DEF RootNodes
  <2>4. IsInjective(starting_nodes)
    BY <2>1, <2>2, <2>3 DEF IsInjective
  <2>5. \A n \in plan.nodes : n \in ToSet(starting_nodes) <=> IsReady(n)
    BY <1>2, <2>1 DEF IsReady, RootNodes
  <2>6. ToSet(starting_nodes) \subseteq plan.nodes
    BY <2>1 DEF RootNodes
  <2>7. phase = "scheduled" => starting_nodes = <<>>
    BY DEF Init
  <2>8. QED
    BY <1>2, <2>4, <2>5, <2>6, <2>7 DEF StartingNodesReady, IsScheduled
<1>6. QED
  BY <1>3, <1>4, <1>5 DEF ScheduleInv

(* Placing the node under consideration.                                   *)
LEMMA AddToRunSchedule ==
    ASSUME PlanKnown, FieldsOK, ScheduleInv, phase = "check", AddToRun(CurrentNode)
    PROVE  ScheduleInv'
<1> DEFINE n == CurrentNode
<1>1. n \in plan.nodes /\ n \in ToSet(starting_nodes) /\ n' = n
  BY CurrentNodeIsNode DEF AddToRun, CurrentNode, ToSet, FieldsOK, SearchOK
<1>2. n \notin ToSet(scheduled_queries) /\ IsReady(n)
  BY <1>1 DEF ScheduleInv, StartingNodesReady, IsScheduled
<1>3. /\ scheduled_queries \in Seq(plan.nodes)
      /\ current_query_nodes \in Seq(plan.nodes)
  BY DEF FieldsOK, RunsOK
<1>4. /\ scheduled_queries' = Append(scheduled_queries, n)
      /\ current_query_nodes' = Append(current_query_nodes, n)
      /\ plan' = plan
  BY DEF AddToRun
<1> HIDE DEF n
<1>5. /\ ToSet(scheduled_queries') = ToSet(scheduled_queries) \cup {n}
      /\ ToSet(current_query_nodes') = ToSet(current_query_nodes) \cup {n}
  BY <1>1, <1>3, <1>4, AppendToSet
<1>6. /\ Len(scheduled_queries) \in Nat
      /\ DOMAIN scheduled_queries = 1..Len(scheduled_queries)
      /\ Len(scheduled_queries') = Len(scheduled_queries) + 1
      /\ DOMAIN scheduled_queries' = 1..(Len(scheduled_queries) + 1)
      /\ \A k \in 1..Len(scheduled_queries) : scheduled_queries'[k] = scheduled_queries[k]
      /\ scheduled_queries'[Len(scheduled_queries) + 1] = n
      /\ scheduled_queries' # <<>>
  BY <1>1, <1>3, <1>4, AppendProperties, LenProperties
<1>7. TopologicalOrder'
  <2>1. IsInjective(scheduled_queries')
    BY <1>1, <1>2, <1>3, <1>4, AppendNew DEF ScheduleInv, TopologicalOrder
  <2>2. ASSUME NEW k \in 1..Len(scheduled_queries),
               NEW m \in Producers(plan, scheduled_queries[k])
        PROVE  \E l \in 1..(k - 1) : scheduled_queries'[l] = m
    <3>1. PICK l \in 1..(k - 1) : scheduled_queries[l] = m
      BY <1>6 DEF ScheduleInv, TopologicalOrder
    <3>2. l \in 1..Len(scheduled_queries)
      BY <1>6
    <3>3. QED
      BY <1>6, <3>1, <3>2
  <2>3. ASSUME NEW m \in Producers(plan, n)
        PROVE  \E l \in 1..Len(scheduled_queries) : scheduled_queries'[l] = m
    BY <1>2, <1>6 DEF IsReady, ToSet
  <2>4. ASSUME NEW k \in DOMAIN scheduled_queries'
        PROVE  \A m \in Producers(plan', scheduled_queries'[k]) :
                  \E l \in 1..(k - 1) : scheduled_queries'[l] = m
    <3>1. CASE k \in 1..Len(scheduled_queries)
      BY <1>4, <1>6, <2>2, <3>1
    <3>2. CASE k = Len(scheduled_queries) + 1
      BY <1>4, <1>6, <2>3, <3>2
    <3>3. QED
      BY <1>6, <3>1, <3>2
  <2>5. QED
    BY <2>1, <2>4 DEF TopologicalOrder
<1>8. StartingNodesReady'
  <2>1. /\ starting_nodes' = starting_nodes /\ phase' = "extend"
        /\ next_node_index' = 1 /\ CurrentNode' = n
    BY <1>1 DEF AddToRun, n
  <2>2. \A m \in ToSet(starting_nodes) : m \notin ToSet(scheduled_queries) /\ IsReady(m)
    BY DEF ScheduleInv, StartingNodesReady, IsScheduled
  <2>3. \A m \in ToSet(starting_nodes') :
            IsReady(m)' /\ (IsScheduled(m)' => phase' = "extend" /\ m = CurrentNode')
    BY <1>4, <1>5, <2>1, <2>2 DEF IsReady, IsScheduled
  <2>4. ASSUME NEW m \in plan.nodes, IsReady(m)', ~IsScheduled(m)'
        PROVE  m \in ToSet(starting_nodes') \/ IsStillToConsider(m)'
    <3>1. CASE IsReady(m)
      BY <1>5, <2>1, <2>4, <3>1
         DEF ScheduleInv, StartingNodesReady, IsStillToConsider, IsScheduled
    <3>2. CASE ~IsReady(m)
      <4>1. n \in Producers(plan, m)
        BY <1>4, <1>5, <2>4, <3>2 DEF IsReady
      <4>2. m \in Consumers(plan, n)
        BY <1>1, <4>1, PlanFacts
      <4>3. PICK i \in Outputs(plan, n) : plan.next_nodes[n][i] = m
        BY <4>2 DEF Consumers
      <4>4. i >= 1
        BY <1>1, StreamNumbers
      <4>5. QED
        BY <1>4, <2>1, <4>3, <4>4 DEF IsStillToConsider, Outputs
    <3>3. QED
      BY <3>1, <3>2
  <2>5. QED
    BY <1>4, <2>1, <2>3, <2>4 DEF ScheduleInv, StartingNodesReady
<1>9. LinksUntouched'
  <2>1. /\ UNCHANGED <<previous_nodes, next_nodes>> /\ CurrentNode' = n
        /\ phase' = "extend"
    BY <1>1 DEF AddToRun, nodeVars, n
  <2>2. next_nodes[n] = plan.next_nodes[n]
    BY <1>1, <1>2 DEF ScheduleInv, LinksUntouched, IsScheduled
  <2>3. QED
    BY <1>4, <1>5, <1>6, <2>1, <2>2 DEF ScheduleInv, LinksUntouched, IsScheduled
<1>10. QED
  BY <1>7, <1>8, <1>9 DEF ScheduleInv

(* Considering one consumer of the node placed last.                       *)
LEMMA ConsiderNextNodeSchedule ==
    ASSUME PlanKnown, FieldsOK, ScheduleInv, ConsiderNextNode
    PROVE  ScheduleInv'
<1> DEFINE n == CurrentNode
           m == next_nodes[n][next_node_index]
<1>1. /\ n \in plan.nodes /\ node_index \in 1..Len(starting_nodes)
      /\ starting_nodes \in Seq(plan.nodes)
  BY CurrentNodeIsNode DEF ConsiderNextNode, FieldsOK, SearchOK
<1>2. /\ phase = "extend" /\ phase' = "extend" /\ plan' = plan
      /\ UNCHANGED <<previous_nodes, next_nodes, scheduled_queries,
                     current_query_nodes, node_index>>
      /\ next_node_index' = next_node_index + 1
      /\ next_node_index \in Nat \ {0}
      /\ starting_nodes' = IF BecomesStarting(m) THEN Append(starting_nodes, m)
                                                 ELSE starting_nodes
  BY DEF ConsiderNextNode, nodeVars, FieldsOK, SearchOK
<1>3. next_nodes[n] = plan.next_nodes[n]
  BY <1>2 DEF ScheduleInv, LinksUntouched
<1>4. next_node_index \in DOMAIN plan.next_nodes[n] /\ m \in plan.nodes \cup {Null}
  <2>1. plan.next_nodes[n] \in Seq(plan.nodes \cup {Null})
    BY <1>1, PlanFacts
  <2>2. next_node_index \in 1..Len(plan.next_nodes[n])
    BY <1>2, <1>3, <2>1, LenProperties DEF ConsiderNextNode
  <2>3. QED
    BY <1>3, <2>1, <2>2, LenProperties, ElementOfSeq
<1>5. n \in ToSet(scheduled_queries)
  BY <1>2, EmptySeq, LenProperties
     DEF ScheduleInv, LinksUntouched, FieldsOK, RunsOK, ToSet
<1> HIDE DEF m
(* The consumer comes after the last scheduled node, so it is not there.   *)
<1>6. ASSUME m \in plan.nodes
      PROVE  m \notin ToSet(scheduled_queries)
  <2>1. m \in Consumers(plan, n)
    BY <1>3, <1>4, <1>6, PlanFacts DEF m, Consumers, Outputs
  <2>2. n \in Producers(plan, m)
    BY <1>1, <1>6, <2>1, PlanFacts
  <2>3. /\ Len(scheduled_queries) \in Nat
        /\ DOMAIN scheduled_queries = 1..Len(scheduled_queries)
        /\ Len(scheduled_queries) # 0
    BY <1>2, EmptySeq, LenProperties DEF ScheduleInv, LinksUntouched, FieldsOK, RunsOK
  <2>4. n = scheduled_queries[Len(scheduled_queries)]
    BY <1>2 DEF ScheduleInv, LinksUntouched
  <2>5. ASSUME NEW k \in 1..Len(scheduled_queries), scheduled_queries[k] = m
        PROVE  FALSE
    <3>1. PICK l \in 1..(k - 1) : scheduled_queries[l] = n
      BY <2>2, <2>3, <2>5 DEF ScheduleInv, TopologicalOrder
    <3>2. l \in 1..Len(scheduled_queries) /\ l < Len(scheduled_queries)
      BY <2>3, <3>1
    <3>3. QED
      BY <2>4, <3>1, <3>2, LastOccursOnce DEF ScheduleInv, TopologicalOrder, FieldsOK, RunsOK
  <2>6. QED
    BY <2>3, <2>5 DEF ToSet
(* IsNodeAvailable looks at the links of the consumer, still the plan's.   *)
<1>7. ASSUME m \in plan.nodes
      PROVE  IsNodeAvailable(m) <=> IsReady(m)
  <2>1. previous_nodes[m] = plan.previous_nodes[m]
    BY <1>6, <1>7 DEF ScheduleInv, LinksUntouched, IsScheduled
  <2>2. QED
    BY <2>1 DEF IsNodeAvailable, IsReady, Producers, Inputs, IsNode
<1>8. BecomesStarting(m) => /\ m \in plan.nodes /\ IsReady(m)
                            /\ m \notin ToSet(starting_nodes)
  BY <1>4, <1>7 DEF BecomesStarting, IsNode
<1>9. /\ IsInjective(starting_nodes')
      /\ ToSet(starting_nodes') =
             IF BecomesStarting(m) THEN ToSet(starting_nodes) \cup {m}
                                   ELSE ToSet(starting_nodes)
      /\ CurrentNode' = n
  <2>1. IsInjective(starting_nodes)
    BY DEF ScheduleInv, StartingNodesReady
  <2>2. CASE BecomesStarting(m)
    BY <1>1, <1>2, <1>8, <2>1, <2>2, AppendNew, AppendToSet, AppendProperties
       DEF CurrentNode
  <2>3. CASE ~BecomesStarting(m)
    BY <1>2, <2>1, <2>3 DEF CurrentNode
  <2>4. QED
    BY <2>2, <2>3
<1>10. TopologicalOrder' /\ LinksUntouched'
  BY <1>2, <1>9 DEF ScheduleInv, TopologicalOrder, LinksUntouched, IsScheduled
<1>11. StartingNodesReady'
  <2>1. \A x : (IsReady(x)' <=> IsReady(x)) /\ (IsScheduled(x)' <=> IsScheduled(x))
    BY <1>2 DEF IsReady, IsScheduled
  <2>2. \A x \in ToSet(starting_nodes) : IsReady(x) /\ (IsScheduled(x) => x = n)
    BY DEF ScheduleInv, StartingNodesReady
  <2>3. \A x \in ToSet(starting_nodes') :
            IsReady(x)' /\ (IsScheduled(x)' => phase' = "extend" /\ x = CurrentNode')
    <3>1. BecomesStarting(m) => ~IsScheduled(m)
      BY <1>6, <1>8 DEF IsScheduled
    <3>2. \A x \in ToSet(starting_nodes') :
             x \in ToSet(starting_nodes) \/ (BecomesStarting(m) /\ x = m)
      BY <1>9
    <3>3. QED
      BY <1>2, <1>8, <1>9, <2>1, <2>2, <3>1, <3>2
  <2>4. ASSUME NEW x \in plan.nodes, IsReady(x), ~IsScheduled(x)
        PROVE  x \in ToSet(starting_nodes') \/ IsStillToConsider(x)'
    <3>1. x \in ToSet(starting_nodes) \/ IsStillToConsider(x)
      BY <2>4 DEF ScheduleInv, StartingNodesReady
    <3>2. CASE x \in ToSet(starting_nodes)
      BY <1>9, <3>2
    <3>3. CASE x = m
      BY <1>7, <1>9, <2>4, <3>3, PlanFacts DEF BecomesStarting, IsNode
    <3>4. CASE IsStillToConsider(x) /\ x # m
      <4>1. PICK i \in DOMAIN plan.next_nodes[n] :
                i >= next_node_index /\ plan.next_nodes[n][i] = x
        BY <3>4 DEF IsStillToConsider
      <4>2. i # next_node_index /\ i \in Nat
        BY <1>1, <1>3, <3>4, <4>1, StreamNumbers DEF m, Outputs
      <4>3. i >= next_node_index'
        BY <1>2, <4>1, <4>2
      <4>4. QED
        BY <1>2, <1>9, <4>1, <4>3 DEF IsStillToConsider
    <3>5. QED
      BY <3>1, <3>2, <3>3, <3>4
  <2>5. QED
    BY <1>2, <1>9, <2>1, <2>3, <2>4 DEF StartingNodesReady
<1>12. QED
  BY <1>10, <1>11 DEF ScheduleInv

(* Erasing the node just placed from the starting nodes.                   *)
LEMMA EraseStartingNodeSchedule ==
    ASSUME PlanKnown, FieldsOK, ScheduleInv, EraseStartingNode
    PROVE  ScheduleInv'
<1> DEFINE n == CurrentNode
<1>1. /\ n \in plan.nodes /\ node_index \in 1..Len(starting_nodes)
      /\ starting_nodes \in Seq(plan.nodes)
      /\ n = starting_nodes[node_index]
  BY CurrentNodeIsNode DEF EraseStartingNode, FieldsOK, SearchOK, CurrentNode
<1>2. /\ phase = "extend" /\ phase' \in {"check", "close"} /\ plan' = plan
      /\ UNCHANGED <<previous_nodes, next_nodes, scheduled_queries,
                     current_query_nodes>>
      /\ starting_nodes' = RemoveAt(starting_nodes, node_index)
  BY DEF EraseStartingNode, nodeVars
<1>3. TopologicalOrder' /\ LinksUntouched'
  BY <1>2 DEF ScheduleInv, TopologicalOrder, LinksUntouched, IsScheduled
<1>4. /\ IsInjective(starting_nodes')
      /\ ToSet(starting_nodes') = ToSet(starting_nodes) \ {n}
  BY <1>1, <1>2, RemoveAtInjective DEF ScheduleInv, StartingNodesReady
<1>5. n \in ToSet(scheduled_queries)
  BY <1>2, EmptySeq, LenProperties
     DEF ScheduleInv, LinksUntouched, FieldsOK, RunsOK, ToSet
<1>6. \A x : ~IsStillToConsider(x)
  <2>1. next_nodes[n] = plan.next_nodes[n]
    BY <1>2 DEF ScheduleInv, LinksUntouched
  <2>2. \A i \in DOMAIN plan.next_nodes[n] : i \in Nat /\ i < next_node_index
    <3>1. plan.next_nodes[n] \in Seq(plan.nodes \cup {Null})
      BY <1>1, PlanFacts
    <3>2. /\ DOMAIN plan.next_nodes[n] = 1..Len(plan.next_nodes[n])
          /\ Len(plan.next_nodes[n]) \in Nat
          /\ next_node_index > Len(plan.next_nodes[n])
          /\ next_node_index \in Nat
      BY <2>1, <3>1, LenProperties DEF EraseStartingNode, FieldsOK, SearchOK
    <3>3. QED
      BY <3>2
  <2>3. next_node_index \in Nat
    BY DEF FieldsOK, SearchOK
  <2>4. QED
    BY <2>2, <2>3 DEF IsStillToConsider
<1>7. \A x : (IsReady(x)' <=> IsReady(x)) /\ (IsScheduled(x)' <=> IsScheduled(x))
  BY <1>2 DEF IsReady, IsScheduled
<1>8. \A x \in ToSet(starting_nodes') : IsReady(x) /\ ~IsScheduled(x)
  BY <1>4 DEF ScheduleInv, StartingNodesReady
<1>9. ASSUME NEW x \in plan.nodes, IsReady(x), ~IsScheduled(x)
      PROVE  x \in ToSet(starting_nodes')
  <2>1. x \in ToSet(starting_nodes)
    BY <1>6, <1>9 DEF ScheduleInv, StartingNodesReady
  <2>2. x # n
    BY <1>5, <1>9 DEF IsScheduled
  <2>3. QED
    BY <1>4, <2>1, <2>2
<1>10. StartingNodesReady'
  BY <1>2, <1>4, <1>7, <1>8, <1>9 DEF StartingNodesReady
<1>11. QED
  BY <1>3, <1>10 DEF ScheduleInv

(* A step outside "extend" that leaves the search's state alone.           *)
LEMMA SkipSchedule ==
    ASSUME ScheduleInv, phase # "extend", phase' \in {"check", "close", "failed"},
           UNCHANGED <<plan, nodeVars, starting_nodes, scheduled_queries,
                       current_query_nodes>>
    PROVE  ScheduleInv'
<1>1. TopologicalOrder' /\ LinksUntouched'
  BY DEF ScheduleInv, TopologicalOrder, LinksUntouched, IsScheduled, nodeVars
<1>2. \A x : (IsReady(x)' <=> IsReady(x)) /\ (IsScheduled(x)' <=> IsScheduled(x))
  BY DEF IsReady, IsScheduled
<1>3. \A x : ~IsStillToConsider(x)
  BY DEF IsStillToConsider
<1>4. StartingNodesReady'
  BY <1>2, <1>3 DEF ScheduleInv, StartingNodesReady
<1>5. QED
  BY <1>1, <1>4 DEF ScheduleInv

(* Closing a run changes the links of its own nodes only.                  *)
LEMMA CloseRunSchedule ==
    ASSUME PlanKnown, FieldsOK, ScheduleInv, CloseRun
    PROVE  ScheduleInv'
<1>1. /\ phase = "close" /\ plan' = plan /\ phase' \in {"check", "scheduled"}
      /\ UNCHANGED <<starting_nodes, scheduled_queries>>
      /\ current_query_nodes' = <<>>
      /\ phase' = "scheduled" => starting_nodes = <<>>
  BY DEF CloseRun
<1>2. \A x : (IsReady(x)' <=> IsReady(x)) /\ (IsScheduled(x)' <=> IsScheduled(x))
  BY <1>1 DEF IsReady, IsScheduled
<1>3. TopologicalOrder'
  BY <1>1 DEF ScheduleInv, TopologicalOrder
<1>4. StartingNodesReady'
  BY <1>1, <1>2 DEF ScheduleInv, StartingNodesReady, IsStillToConsider
<1>5. LinksUntouched'
  <2>1. ASSUME NEW n \in plan.nodes, ~IsScheduled(n)
        PROVE  previous_nodes'[n] = previous_nodes[n] /\ next_nodes'[n] = next_nodes[n]
    <3>1. ~InCurrentRun(n)
      BY <2>1 DEF ScheduleInv, LinksUntouched, IsScheduled, InCurrentRun
    <3>2. /\ previous_nodes'[n] = [j \in DOMAIN previous_nodes[n] |-> previous_nodes[n][j]]
          /\ next_nodes'[n] = [i \in DOMAIN next_nodes[n] |-> next_nodes[n][i]]
      BY <3>1 DEF CloseRun, CheckExternalLinks, IsThroughFile, LeavesRun
    <3>3. previous_nodes[n] \in Seq(plan.nodes \cup {Null})
          /\ next_nodes[n] \in Seq(plan.nodes \cup {Null})
      BY DEF FieldsOK, LinksOK
    <3>4. /\ previous_nodes[n] = [j \in DOMAIN previous_nodes[n] |-> previous_nodes[n][j]]
          /\ next_nodes[n] = [i \in DOMAIN next_nodes[n] |-> next_nodes[n][i]]
      BY <3>3, LenProperties
    <3>5. QED
      BY <3>2, <3>4
  <2>2. ToSet(current_query_nodes') = {}
    BY <1>1 DEF ToSet
  <2>3. QED
    BY <1>1, <1>2, <2>1, <2>2 DEF ScheduleInv, LinksUntouched
<1>6. QED
  BY <1>3, <1>4, <1>5 DEF ScheduleInv

LEMMA NextSchedule ==
    PlanKnown /\ FieldsOK /\ ScheduleInv /\ [Next]_vars => ScheduleInv'
<1> SUFFICES ASSUME PlanKnown, FieldsOK, ScheduleInv, [Next]_vars
             PROVE  ScheduleInv'
  OBVIOUS
<1>1. CASE PlaceModule
  BY <1>1, AddToRunSchedule DEF PlaceModule
<1>2. CASE PlacePassThrough
  BY <1>2, AddToRunSchedule DEF PlacePassThrough
<1>3. CASE ConsiderNextNode
  BY <1>3, ConsiderNextNodeSchedule
<1>4. CASE EraseStartingNode
  BY <1>4, EraseStartingNodeSchedule
<1>5. CASE SkipNode
  BY <1>5, SkipSchedule DEF SkipNode, TryNextNode
<1>6. CASE OperationNotFound
  BY <1>6, SkipSchedule DEF OperationNotFound
<1>7. CASE CloseRun
  BY <1>7, CloseRunSchedule
<1>8. CASE FailToSchedule
  BY <1>8, SkipSchedule DEF FailToSchedule
<1>9. CASE UNCHANGED vars
  BY <1>9 DEF vars, nodeVars, ScheduleInv, TopologicalOrder, StartingNodesReady,
              LinksUntouched, IsReady, IsScheduled, IsStillToConsider, CurrentNode
<1>10. QED
  BY <1>1, <1>2, <1>3, <1>4, <1>5, <1>6, <1>7, <1>8, <1>9 DEF Next

(* An empty place in the middle of the plan is impossible: were some nodes *)
(* never scheduled, one of them would wait for none of the others.         *)
LEMMA NothingForgotten ==
    ASSUME PlanKnown, FieldsOK, ScheduleInv
    PROVE  EveryNodeScheduled
<1> SUFFICES ASSUME phase = "scheduled" PROVE ToSet(scheduled_queries) = plan.nodes
  BY DEF EveryNodeScheduled
<1> DEFINE forgotten == plan.nodes \ ToSet(scheduled_queries)
<1>1. ToSet(scheduled_queries) \subseteq plan.nodes
  BY LenProperties, ElementOfSeq DEF FieldsOK, RunsOK, ToSet
<1>2. ASSUME forgotten # {} PROVE FALSE
  <2>1. PICK n \in forgotten : Producers(plan, n) \cap forgotten = {}
    BY <1>2, PlanFacts DEF IsAcyclic
  <2>2. Producers(plan, n) \subseteq plan.nodes
    BY StreamNumbers DEF Producers
  <2>3. IsReady(n) /\ ~IsScheduled(n)
    BY <2>1, <2>2 DEF IsReady, IsScheduled
  <2>4. n \in ToSet(starting_nodes)
    BY <2>1, <2>3 DEF ScheduleInv, StartingNodesReady, IsStillToConsider
  <2>5. starting_nodes = <<>>
    BY DEF ScheduleInv, StartingNodesReady
  <2>6. QED
    BY <2>4, <2>5 DEF ToSet
<1>3. QED
  BY <1>1, <1>2

-----------------------------------------------------------------------------
(***************************************************************************)
(* Runs and the links between them                                         *)
(***************************************************************************)

(* The node under consideration is not scheduled yet.                      *)
LEMMA CurrentNodeIsNew ==
    ASSUME FieldsOK, ScheduleInv, phase = "check"
    PROVE  /\ CurrentNode \in plan.nodes
           /\ CurrentNode \notin ToSet(scheduled_queries)
           /\ Producers(plan, CurrentNode) \subseteq ToSet(scheduled_queries)
<1>1. CurrentNode \in plan.nodes /\ CurrentNode \in ToSet(starting_nodes)
  BY CurrentNodeIsNode DEF CurrentNode, ToSet, FieldsOK, SearchOK
<1>2. QED
  BY <1>1 DEF ScheduleInv, StartingNodesReady, IsScheduled, IsReady

LEMMA AddToRunSets ==
    ASSUME FieldsOK, phase = "check", AddToRun(CurrentNode)
    PROVE  /\ ToSet(scheduled_queries') = ToSet(scheduled_queries) \cup {CurrentNode}
           /\ ToSet(current_query_nodes') = ToSet(current_query_nodes) \cup {CurrentNode}
BY CurrentNodeIsNode, AppendToSet DEF AddToRun, FieldsOK, RunsOK

LEMMA NextRunsSeparated ==
    PlanKnown /\ FieldsOK /\ ScheduleInv /\ RunsSeparated /\ [Next]_vars
    => RunsSeparated'
<1> SUFFICES ASSUME PlanKnown, FieldsOK, ScheduleInv, RunsSeparated, [Next]_vars
             PROVE  RunsSeparated'
  OBVIOUS
<1>1. ASSUME phase = "check", AddToRun(CurrentNode)
      PROVE  RunsSeparated'
  <2> DEFINE n == CurrentNode
  <2>1. n \in plan.nodes /\ n \notin ToSet(scheduled_queries)
    BY <1>1, CurrentNodeIsNew
  <2>2. /\ ToSet(scheduled_queries') = ToSet(scheduled_queries) \cup {n}
        /\ ToSet(current_query_nodes') = ToSet(current_query_nodes) \cup {n}
    BY <1>1, AddToRunSets
  <2>3. UNCHANGED <<plan, previous_nodes, next_nodes>>
    BY <1>1 DEF AddToRun, nodeVars
  <2> HIDE DEF n
  <2>4. previous_nodes[n] = plan.previous_nodes[n] /\ next_nodes[n] = plan.next_nodes[n]
    BY <2>1 DEF ScheduleInv, LinksUntouched, IsScheduled
  <2>5. \A m \in ToSet(scheduled_queries) : n \notin Producers(plan, m)
    <3>1. \A k \in DOMAIN scheduled_queries :
             Producers(plan, scheduled_queries[k]) \subseteq ToSet(scheduled_queries)
      <4>1. Len(scheduled_queries) \in Nat /\ DOMAIN scheduled_queries = 1..Len(scheduled_queries)
        BY LenProperties DEF FieldsOK, RunsOK
      <4>2. \A k \in DOMAIN scheduled_queries : 1..(k - 1) \subseteq DOMAIN scheduled_queries
        BY <4>1
      <4>3. QED
        BY <4>2 DEF ScheduleInv, TopologicalOrder, ToSet
    <3>2. QED
      BY <2>1, <3>1 DEF ToSet
  <2>6. QED
    BY <2>1, <2>2, <2>3, <2>4, <2>5 DEF RunsSeparated
<1>2. CASE PlaceModule
  BY <1>1, <1>2 DEF PlaceModule
<1>3. CASE PlacePassThrough
  BY <1>1, <1>3 DEF PlacePassThrough
<1>4. CASE CloseRun
  <2>1. ToSet(current_query_nodes') = {}
    BY <1>4 DEF CloseRun, ToSet
  <2>2. QED
    BY <2>1 DEF RunsSeparated
<1>5. CASE \/ ConsiderNextNode \/ EraseStartingNode \/ SkipNode
           \/ OperationNotFound \/ FailToSchedule \/ UNCHANGED vars
  <2>1. UNCHANGED <<plan, nodeVars, scheduled_queries, current_query_nodes>>
    BY <1>5 DEF ConsiderNextNode, EraseStartingNode, SkipNode, TryNextNode,
                OperationNotFound, FailToSchedule, vars
  <2>2. QED
    BY <2>1 DEF RunsSeparated, nodeVars
<1>6. QED
  BY <1>2, <1>3, <1>4, <1>5 DEF Next

(* A stream that leaves the run leads to an input of a node that has not   *)
(* been scheduled, so CheckExternalLinks finds its place there.            *)
LEMMA LeavesRunForward ==
    ASSUME PlanKnown, FieldsOK, ScheduleInv, RunsSeparated,
           NEW n \in plan.nodes, NEW i \in DOMAIN next_nodes[n], LeavesRun(n, i)
    PROVE  /\ next_nodes[n][i] \in plan.nodes
           /\ ~IsScheduled(next_nodes[n][i])
           /\ FindPreviousNodeLocation(next_nodes[n][i], n)
                  \in Inputs(plan, next_nodes[n][i])
<1> DEFINE m == next_nodes[n][i]
<1>1. next_nodes[n] = plan.next_nodes[n]
  BY DEF LeavesRun, InCurrentRun, RunsSeparated
<1>2. i \in Outputs(plan, n) /\ m = plan.next_nodes[n][i] /\ m # Null /\ ~InCurrentRun(m)
  BY <1>1 DEF LeavesRun, IsNode, Outputs
<1> HIDE DEF m
<1>3. m \in plan.nodes
  BY <1>2, StreamNumbers
<1>4. n \in Producers(plan, m)
  BY <1>2, <1>3, PlanFacts DEF Consumers
<1>5. ~IsScheduled(m)
  BY <1>2, <1>4 DEF RunsSeparated, LeavesRun, InCurrentRun, IsScheduled
<1>6. previous_nodes[m] = plan.previous_nodes[m]
  BY <1>3, <1>5 DEF ScheduleInv, LinksUntouched
<1>7. {j \in DOMAIN previous_nodes[m] : previous_nodes[m][j] = n} # {}
  BY <1>4, <1>6 DEF Producers, Inputs
<1>8. FindPreviousNodeLocation(m, n) \in Inputs(plan, m)
  <2> DEFINE places == {j \in DOMAIN previous_nodes[m] : previous_nodes[m][j] = n}
  <2>1. places \subseteq Inputs(plan, m)
    BY <1>6 DEF Inputs
  <2>2. places \in SUBSET Nat /\ places # {}
    BY <1>3, <1>7, <2>1, StreamNumbers
  <2>3. FirstIndex(places) \in places
    <3> HIDE DEF places
    <3>1. \E k \in places : \A l \in places : k <= l
      BY <2>2, LeastNumber, Zenon
    <3>2. QED
      BY <3>1, Zenon DEF FirstIndex
  <2>4. QED
    BY <2>1, <2>3 DEF FindPreviousNodeLocation
<1>9. QED
  BY <1>3, <1>5, <1>8 DEF m

LEMMA NextLinked ==
    PlanKnown /\ FieldsOK /\ ScheduleInv /\ RunsSeparated /\ LinkedOK /\ [Next]_vars
    => LinkedOK'
<1> SUFFICES ASSUME PlanKnown, FieldsOK, ScheduleInv, RunsSeparated, LinkedOK, [Next]_vars
             PROVE  LinkedOK'
  OBVIOUS
<1>1. CASE CloseRun
  <2>1. KeptOutputs \subseteq [from : plan.nodes, output : Nat, to : plan.nodes, input : Nat]
    <3>1. ASSUME NEW n \in plan.nodes, NEW i \in DOMAIN next_nodes[n], IsKept(n, i)
          PROVE  Edge(n, i, next_nodes[n][i], FindPreviousNodeLocation(next_nodes[n][i], n))
                     \in [from : plan.nodes, output : Nat, to : plan.nodes, input : Nat]
      <4>1. /\ next_nodes[n][i] \in plan.nodes
            /\ FindPreviousNodeLocation(next_nodes[n][i], n)
                   \in Inputs(plan, next_nodes[n][i])
        BY <3>1, LeavesRunForward DEF IsKept
      <4>2. i \in Nat
        BY StreamNumbers DEF FieldsOK, LinksOK
      <4>3. FindPreviousNodeLocation(next_nodes[n][i], n) \in Nat
        BY <4>1, StreamNumbers
      <4>4. QED
        BY <4>1, <4>2, <4>3 DEF Edge
    <3>2. QED
      BY <3>1 DEF KeptOutputs
  <2>2. linked_nodes' = linked_nodes \cup KeptOutputs /\ plan' = plan
    BY <1>1 DEF CloseRun, CheckExternalLinks
  <2>3. QED
    BY <2>1, <2>2 DEF LinkedOK
<1>2. CASE ~CloseRun
  <2>1. UNCHANGED <<plan, linked_nodes>>
    BY <1>2 DEF Next, PlaceModule, PlacePassThrough, AddToRun, ConsiderNextNode,
                EraseStartingNode, SkipNode, TryNextNode, OperationNotFound,
                FailToSchedule, vars
  <2>2. QED
    BY <2>1 DEF LinkedOK
<1>3. QED
  BY <1>1, <1>2

-----------------------------------------------------------------------------
(***************************************************************************)
(* Theorems of the specification                                           *)
(***************************************************************************)

(* The inductive invariant holds throughout.                               *)
IInv == PlanKnown /\ FieldsOK /\ ScheduleInv /\ RunsSeparated /\ LinkedOK

LEMMA InvariantHolds == Spec => []IInv
<1>1. Init => IInv
  <2>1. Init => RunsSeparated
    BY DEF Init, RunsSeparated, ToSet
  <2>2. Init => LinkedOK
    BY DEF Init, LinkedOK
  <2>3. QED
    BY <2>1, <2>2, InitType, InitSchedule DEF Init, PlanKnown, IInv
<1>2. IInv /\ [Next]_vars => FieldsOK' /\ ScheduleInv' /\ RunsSeparated' /\ LinkedOK'
  BY NextType, NextSchedule, NextRunsSeparated, NextLinked DEF IInv
<1>3. PlanKnown' /\ FieldsOK' /\ ScheduleInv' /\ RunsSeparated' /\ LinkedOK' => IInv'
  BY DEF IInv
<1>4. QED
  BY <1>1, <1>2, <1>3, PlanStays, PTL DEF Spec

(* The node fields and the locals of the scheduler keep their types, and   *)
(* every link it records is between streams of nodes of the graph.         *)
THEOREM TypeCorrect == Spec => []TypeOK
<1>1. IInv => TypeOK
  BY DEF IInv, FieldsOK, TypeOK
<1>2. QED
  BY <1>1, InvariantHolds, PTL

(* No node is scheduled twice, nor before a node it consumes from.         *)
THEOREM TopologicalOrderHolds == Spec => []TopologicalOrder
<1>1. IInv => TopologicalOrder
  BY DEF IInv, ScheduleInv
<1>2. QED
  BY <1>1, InvariantHolds, PTL

(* The starting nodes are exactly the nodes that are ready.                *)
THEOREM StartingNodesReadyHolds == Spec => []StartingNodesReady
<1>1. IInv => StartingNodesReady
  BY DEF IInv, ScheduleInv
<1>2. QED
  BY <1>1, InvariantHolds, PTL

(* When the scheduler returns, it has scheduled every node of any acyclic  *)
(* graph.                                                                  *)
THEOREM EveryNodeScheduledHolds == Spec => []EveryNodeScheduled
<1>1. IInv => EveryNodeScheduled
  BY NothingForgotten DEF IInv
<1>2. QED
  BY <1>1, InvariantHolds, PTL

(* Scheduling implements the abstract batching of nodes: each node placed  *)
(* is new and has all it needs placed before, and a closed run keeps the   *)
(* nodes it had.                                                           *)
THEOREM Refinement == Spec => ImplementsBatches
<1>1. Init => Batches!Init
  <2> SUFFICES ASSUME Init PROVE Batches!Init
    OBVIOUS
  <2>1. [n \in plan.nodes |-> Producers(plan, n)] \in Dependencies
    BY DEF Init, Dependencies
  <2>2. ToSet(scheduled_queries) = {} /\ ToSet(current_query_nodes) = {}
    BY DEF Init, ToSet
  <2>3. [r \in DOMAIN query_node_runs_queue |-> ToSet(query_node_runs_queue[r].nodes)] = <<>>
    BY DEF Init
  <2>4. QED
    BY <2>1, <2>2, <2>3 DEF Batches!Init
<1>2. IInv /\ [Next]_vars => [Batches!Next]_Batches!vars
  <2> SUFFICES ASSUME IInv, [Next]_vars PROVE [Batches!Next]_Batches!vars
    OBVIOUS
  <2> USE DEF IInv
  <2>1. ASSUME phase = "check", AddToRun(CurrentNode)
        PROVE  Batches!Next
    <3> DEFINE n == CurrentNode
    <3>1. /\ n \in plan.nodes /\ n \notin ToSet(scheduled_queries)
          /\ Producers(plan, n) \subseteq ToSet(scheduled_queries)
      BY <2>1, CurrentNodeIsNew
    <3>2. /\ ToSet(scheduled_queries') = ToSet(scheduled_queries) \cup {n}
          /\ ToSet(current_query_nodes') = ToSet(current_query_nodes) \cup {n}
      BY <2>1, AddToRunSets
    <3>3. UNCHANGED <<plan, query_node_runs_queue>>
      BY <2>1 DEF AddToRun
    <3> HIDE DEF n
    <3>4. Batches!Place(n)
      BY <3>1, <3>2, <3>3 DEF Batches!Place
    <3>5. QED
      BY <3>1, <3>4 DEF Batches!Next
  <2>2. CASE PlaceModule
    BY <2>1, <2>2 DEF PlaceModule
  <2>3. CASE PlacePassThrough
    BY <2>1, <2>3 DEF PlacePassThrough
  <2>4. CASE CloseRun
    <3> DEFINE runs == query_node_runs_queue
               run == [modules |-> current_set, nodes |-> current_query_nodes]
               sets == [r \in DOMAIN runs |-> ToSet(runs[r].nodes)]
    <3>1. /\ current_query_nodes # <<>> /\ current_query_nodes' = <<>>
          /\ runs' = Append(runs, run)
          /\ UNCHANGED <<plan, scheduled_queries>>
      BY <2>4 DEF CloseRun
    <3>2. runs \in Seq(Run) /\ run \in Run /\ run.nodes = current_query_nodes
      BY DEF FieldsOK, RunsOK, Run
    <3> HIDE DEF run
    <3>3. /\ DOMAIN runs = 1..Len(runs) /\ Len(runs) \in Nat
          /\ DOMAIN runs' = 1..(Len(runs) + 1)
          /\ \A r \in 1..Len(runs) : runs'[r] = runs[r]
          /\ runs'[Len(runs) + 1] = run
      BY <3>1, <3>2, AppendProperties, LenProperties
    <3>4. [r \in DOMAIN runs' |-> ToSet(runs'[r].nodes)]
              = Append(sets, ToSet(current_query_nodes))
      BY <3>2, <3>3
    <3>5. ToSet(current_query_nodes) # {} /\ ToSet(current_query_nodes') = {}
      BY <3>1, FirstElement DEF FieldsOK, RunsOK, ToSet
    <3>6. Batches!CloseBatch
      BY <3>1, <3>4, <3>5 DEF Batches!CloseBatch
    <3>7. QED
      BY <3>6 DEF Batches!Next
  <2>5. CASE \/ ConsiderNextNode \/ EraseStartingNode \/ SkipNode
             \/ OperationNotFound \/ FailToSchedule \/ UNCHANGED vars
    <3>1. UNCHANGED <<plan, scheduled_queries, current_query_nodes, query_node_runs_queue>>
      BY <2>5 DEF ConsiderNextNode, EraseStartingNode, SkipNode, TryNextNode,
                  OperationNotFound, FailToSchedule, vars
    <3>2. QED
      BY <3>1 DEF Batches!vars
  <2>6. QED
    BY <2>2, <2>3, <2>4, <2>5 DEF Next
<1>3. QED
  BY <1>1, <1>2, InvariantHolds, PTL DEF Spec, ImplementsBatches, Batches!Spec

-----------------------------------------------------------------------------
(***************************************************************************)
(* What the runs are made of: that each has a bitstream with a module for  *)
(* each of its nodes, in the order of the data, that none contains a       *)
(* stream which cannot be pipelined, and that a library of single modules  *)
(* is enough.                                                              *)
(***************************************************************************)

(***************************************************************************)
(* Streams of the plan                                                     *)
(***************************************************************************)

(* An edge of the plan is a stream between two of its nodes.               *)
LEMMA EdgeFacts ==
    ASSUME PlanKnown, NEW e \in Edges(plan)
    PROVE  /\ e.from \in plan.nodes /\ e.to \in plan.nodes
           /\ e.output \in Outputs(plan, e.from)
           /\ e.input \in Inputs(plan, e.to)
           /\ plan.next_nodes[e.from][e.output] = e.to
           /\ plan.previous_nodes[e.to][e.input] = e.from
           /\ IsNode(e.from) /\ IsNode(e.to)
           /\ e.from \in Producers(plan, e.to)
           /\ e = Edge(e.from, e.output, e.to, e.input)
<1>1. PICK n \in plan.nodes, m \in plan.nodes :
          \E i \in {i \in Outputs(plan, n) : plan.next_nodes[n][i] = m},
             j \in {j \in Inputs(plan, m) : plan.previous_nodes[m][j] = n} :
                e = Edge(n, i, m, j)
  BY DEF Edges
<1>2. PICK i \in {i \in Outputs(plan, n) : plan.next_nodes[n][i] = m},
           j \in {j \in Inputs(plan, m) : plan.previous_nodes[m][j] = n} :
              e = Edge(n, i, m, j)
  BY <1>1
<1>3. e.from = n /\ e.to = m /\ e.output = i /\ e.input = j
  BY <1>2 DEF Edge
<1>4. n # Null /\ m # Null
  BY PlanFacts
<1>5. QED
  BY <1>2, <1>3, <1>4 DEF Producers, IsNode

(* Nothing scheduled consumes from a node that is not.                     *)
LEMMA ProducersScheduled ==
    ASSUME FieldsOK, ScheduleInv, NEW m \in ToSet(scheduled_queries)
    PROVE  Producers(plan, m) \subseteq ToSet(scheduled_queries)
<1>1. /\ Len(scheduled_queries) \in Nat
      /\ DOMAIN scheduled_queries = 1..Len(scheduled_queries)
  BY LenProperties DEF FieldsOK, RunsOK
<1>2. PICK k \in DOMAIN scheduled_queries : scheduled_queries[k] = m
  BY DEF ToSet
<1>3. 1..(k - 1) \subseteq DOMAIN scheduled_queries
  BY <1>1
<1>4. QED
  BY <1>2, <1>3 DEF ScheduleInv, TopologicalOrder, ToSet

(* So an edge from or to the node under consideration comes from an        *)
(* earlier one.                                                            *)
LEMMA EdgesOfNewNode ==
    ASSUME PlanKnown, FieldsOK, ScheduleInv, phase = "check",
           NEW e \in Edges(plan),
           e.to \in ToSet(scheduled_queries) \cup {CurrentNode}
    PROVE  e.from \in ToSet(scheduled_queries)
<1>1. e.from \in Producers(plan, e.to)
  BY EdgeFacts
<1>2. CASE e.to \in ToSet(scheduled_queries)
  BY <1>1, <1>2, ProducersScheduled
<1>3. CASE e.to = CurrentNode
  BY <1>1, <1>3, CurrentNodeIsNew
<1>4. QED
  BY <1>2, <1>3

-----------------------------------------------------------------------------
(***************************************************************************)
(* Placing a module                                                        *)
(***************************************************************************)

(* The parameters the scheduler may give a module are sequences of numbers.*)
LEMMA ParametersAreNumbers ==
    ASSUME PlanKnown, NEW type
    PROVE  ParameterTuples(plan, type) \subseteq Seq(Nat)
<1>1. ASSUME NEW module \in ModulesOf(plan, type)
      PROVE  module \in QueryOperation
  <2>1. PICK modules \in plan.library : module \in ToSet(modules)
    BY DEF ModulesOf
  <2>2. modules \in Seq(QueryOperation)
    BY PlanFacts
  <2>3. QED
    BY <2>1, <2>2, ElementOfSeq, LenProperties DEF ToSet
<1>2. ASSUME NEW q \in ParametersOf(plan, type)
      PROVE  /\ q \in Seq(Nat)
             /\ ToSet(q) \subseteq Nat
  <2>1. q \in Seq(Nat)
    BY <1>1 DEF ParametersOf, QueryOperation
  <2>2. QED
    BY <2>1, ElementOfSeq, LenProperties DEF ToSet
<1>3. ASSUME NEW q \in ParametersOf(plan, type),
             NEW tuple \in [DOMAIN q -> UNION {ToSet(r) : r \in ParametersOf(plan, type)}]
      PROVE  tuple \in Seq(Nat)
  <2>1. DOMAIN q = 1..Len(q) /\ Len(q) \in Nat
    BY <1>2, LenProperties
  <2>2. tuple \in [1..Len(q) -> Nat]
    BY <1>2, <1>3, <2>1
  <2>3. QED
    BY <2>1, <2>2, StreamSequence
<1>4. QED
  BY <1>3 DEF ParameterTuples

NewModule(n, choice) ==
    [operation_type |-> plan.operation_type[n],
     resource_elasticity_data |-> choice.parameters]

(* What PlaceModule does to the modules of the run.                        *)
LEMMA PlacedModule ==
    ASSUME PlanKnown, FieldsOK, PlaceModule
    PROVE  \E choice \in SuitableChoices(CurrentNode) :
              /\ choice.position \in 0..Len(current_set)
              /\ choice.position + 1 \in 1..(Len(current_set) + 1)
              /\ NewModule(CurrentNode, choice) \in QueryOperation
              /\ MeetsPrerequisites(CurrentNode, choice.position)
              /\ current_set' =
                     InsertAt(current_set, choice.position + 1,
                              NewModule(CurrentNode, choice))
              /\ current_set' \in plan.library
              /\ module_location' =
                     [module_location EXCEPT ![CurrentNode] = choice.position + 1]
<1>1. PICK choice \in SuitableChoices(CurrentNode) :
          /\ current_set' = CreateNewModulesVector(CurrentNode, choice)
          /\ module_location' = [module_location EXCEPT ![CurrentNode] = choice.position + 1]
  BY DEF PlaceModule
<1>2. CurrentNode \in plan.nodes
  BY CurrentNodeIsNode DEF PlaceModule
<1>3. Len(current_set) \in Nat
  BY LenProperties DEF FieldsOK, RunsOK
<1>4. choice.position \in 0..Len(current_set)
      /\ choice.position + 1 \in 1..(Len(current_set) + 1)
  BY <1>3 DEF SuitableChoices
<1>5. NewModule(CurrentNode, choice) \in QueryOperation
  <2>1. choice.parameters \in Seq(Nat)
    BY ParametersAreNumbers DEF SuitableChoices
  <2>2. QED
    BY <1>2, <2>1, PlanFacts DEF NewModule, QueryOperation
<1>6. /\ MeetsPrerequisites(CurrentNode, choice.position)
      /\ CreateNewModulesVector(CurrentNode, choice) \in plan.library
  BY DEF SuitableChoices, IsModuleSetSupported
<1>7. QED
  BY <1>1, <1>4, <1>5, <1>6 DEF CreateNewModulesVector, NewModule

-----------------------------------------------------------------------------
(***************************************************************************)
(* Bitstreams for the runs                                                 *)
(***************************************************************************)

CurrentRun == [modules |-> current_set, nodes |-> current_query_nodes]

(* As many modules of each operation as nodes that need one.               *)
ModulesMatch(run) ==
    \A type \in QueryOperationType \ {PassThrough} :
        Cardinality(NodesOfType(run.nodes, type))
            = Cardinality(ModulesOfType(run.modules, type))

(* The modules of the run being built are those of a bitstream, and there  *)
(* are some exactly if it has nodes.                                       *)
CurrentRunSupported ==
    /\ current_set # <<>> => current_set \in plan.library
    /\ current_query_nodes = <<>> <=> current_set = <<>>
    /\ phase = "extend" => current_query_nodes # <<>>

QueuedRunsMatch ==
    \A r \in DOMAIN query_node_runs_queue :
        /\ query_node_runs_queue[r].modules \in plan.library
        /\ ModulesMatch(query_node_runs_queue[r])

BitstreamsInv == CurrentRunSupported /\ ModulesMatch(CurrentRun) /\ QueuedRunsMatch

(* Another node at the end of a run counts for its own operation.          *)
LEMMA NodesCount ==
    ASSUME PlanKnown, NEW nodes \in Seq(plan.nodes), NEW n \in plan.nodes, NEW type
    PROVE  Cardinality(NodesOfType(Append(nodes, n), type)) =
               Cardinality(NodesOfType(nodes, type))
                   + (IF plan.operation_type[n] = type THEN 1 ELSE 0)
<1> DEFINE T == {m \in plan.nodes : plan.operation_type[m] = type}
<1>1. ASSUME NEW seq \in Seq(plan.nodes)
      PROVE  NodesOfType(seq, type) = {k \in DOMAIN seq : seq[k] \in T}
  BY LenProperties, ElementOfSeq DEF NodesOfType
<1>2. Append(nodes, n) \in Seq(plan.nodes)
  BY AppendProperties
<1>3. n \in T <=> plan.operation_type[n] = type
  OBVIOUS
<1> HIDE DEF T
<1>4. Cardinality({k \in DOMAIN Append(nodes, n) : Append(nodes, n)[k] \in T}) =
          Cardinality({k \in DOMAIN nodes : nodes[k] \in T})
              + (IF n \in T THEN 1 ELSE 0)
  BY AppendCount
<1>5. QED
  BY <1>1, <1>2, <1>3, <1>4

(* So does another module, wherever it is inserted.                        *)
LEMMA ModulesCount ==
    ASSUME NEW modules \in Seq(QueryOperation), NEW k \in 1..(Len(modules) + 1),
           NEW module \in QueryOperation, NEW type
    PROVE  Cardinality(ModulesOfType(InsertAt(modules, k, module), type)) =
               Cardinality(ModulesOfType(modules, type))
                   + (IF module.operation_type = type THEN 1 ELSE 0)
<1> DEFINE T == {m \in QueryOperation : m.operation_type = type}
<1>1. ASSUME NEW seq \in Seq(QueryOperation)
      PROVE  ModulesOfType(seq, type) = {l \in DOMAIN seq : seq[l] \in T}
  BY LenProperties, ElementOfSeq DEF ModulesOfType
<1>2. InsertAt(modules, k, module) \in Seq(QueryOperation)
  BY InsertAtProperties
<1>3. module \in T <=> module.operation_type = type
  OBVIOUS
<1> HIDE DEF T
<1>4. Cardinality({l \in DOMAIN InsertAt(modules, k, module) :
                      InsertAt(modules, k, module)[l] \in T}) =
          Cardinality({l \in DOMAIN modules : modules[l] \in T})
              + (IF module \in T THEN 1 ELSE 0)
  BY InsertAtCount
<1>5. QED
  BY <1>1, <1>2, <1>3, <1>4

LEMMA InitBitstreams == Init => BitstreamsInv
<1> SUFFICES ASSUME Init PROVE BitstreamsInv
  OBVIOUS
<1>1. CurrentRunSupported /\ QueuedRunsMatch
  BY DEF Init, CurrentRunSupported, QueuedRunsMatch
<1>2. ModulesMatch(CurrentRun)
  <2>1. \A type : /\ NodesOfType(CurrentRun.nodes, type) = {}
                  /\ ModulesOfType(CurrentRun.modules, type) = {}
    BY DEF Init, CurrentRun, NodesOfType, ModulesOfType
  <2>2. QED
    BY <2>1 DEF ModulesMatch
<1>3. QED
  BY <1>1, <1>2 DEF BitstreamsInv

(* A step that leaves the runs alone.                                      *)
LEMMA RunsAloneBitstreams ==
    ASSUME BitstreamsInv,
           UNCHANGED <<plan, current_set, current_query_nodes, query_node_runs_queue>>,
           phase' = "extend" => phase = "extend"
    PROVE  BitstreamsInv'
BY DEF BitstreamsInv, CurrentRunSupported, ModulesMatch, QueuedRunsMatch, CurrentRun,
       NodesOfType, ModulesOfType

LEMMA PlaceModuleBitstreams ==
    ASSUME PlanKnown, FieldsOK, BitstreamsInv, PlaceModule
    PROVE  BitstreamsInv'
<1> DEFINE n == CurrentNode
<1>1. PICK choice \in SuitableChoices(n) :
          /\ choice.position + 1 \in 1..(Len(current_set) + 1)
          /\ NewModule(n, choice) \in QueryOperation
          /\ current_set' = InsertAt(current_set, choice.position + 1, NewModule(n, choice))
          /\ current_set' \in plan.library
  BY PlacedModule
<1>2. n \in plan.nodes
  BY CurrentNodeIsNode DEF PlaceModule
<1>3. /\ current_query_nodes' = Append(current_query_nodes, n)
      /\ UNCHANGED <<plan, query_node_runs_queue>> /\ phase' = "extend"
  BY DEF PlaceModule, AddToRun
<1>4. current_set \in Seq(QueryOperation) /\ current_query_nodes \in Seq(plan.nodes)
  BY DEF FieldsOK, RunsOK
<1>5. NewModule(n, choice).operation_type = plan.operation_type[n]
  BY DEF NewModule
<1> HIDE DEF n
<1>6. CurrentRunSupported'
  <2>1. Len(current_set') = Len(current_set) + 1 /\ Len(current_set) \in Nat
    BY <1>1, <1>4, InsertAtProperties, LenProperties
  <2>2. Len(current_query_nodes') = Len(current_query_nodes) + 1
        /\ Len(current_query_nodes) \in Nat
    BY <1>2, <1>3, <1>4, AppendProperties, LenProperties
  <2>3. current_set' # <<>> /\ current_query_nodes' # <<>>
    BY <2>1, <2>2
  <2>4. QED
    BY <1>1, <1>3, <2>3 DEF CurrentRunSupported
<1>7. ModulesMatch(CurrentRun)'
  <2>1. ASSUME NEW type \in QueryOperationType \ {PassThrough}
        PROVE  Cardinality(NodesOfType(current_query_nodes', type))
                   = Cardinality(ModulesOfType(current_set', type))
    <3>1. Cardinality(NodesOfType(current_query_nodes, type))
              = Cardinality(ModulesOfType(current_set, type))
      BY DEF BitstreamsInv, ModulesMatch, CurrentRun
    <3>2. QED
      BY <1>1, <1>2, <1>3, <1>4, <1>5, <3>1, NodesCount, ModulesCount
  <2>2. QED
    BY <1>3, <2>1 DEF ModulesMatch, CurrentRun, ModulesOfType, NodesOfType
<1>8. QueuedRunsMatch'
  BY <1>3 DEF BitstreamsInv, QueuedRunsMatch, ModulesMatch, NodesOfType, ModulesOfType
<1>9. QED
  BY <1>6, <1>7, <1>8 DEF BitstreamsInv

LEMMA PlacePassThroughBitstreams ==
    ASSUME PlanKnown, FieldsOK, BitstreamsInv, PlacePassThrough
    PROVE  BitstreamsInv'
<1> DEFINE n == CurrentNode
<1>1. n \in plan.nodes /\ plan.operation_type[n] = PassThrough
  BY CurrentNodeIsNode DEF PlacePassThrough
<1>2. /\ current_query_nodes' = Append(current_query_nodes, n)
      /\ UNCHANGED <<plan, current_set, query_node_runs_queue>> /\ phase' = "extend"
      /\ current_set # <<>>
  BY DEF PlacePassThrough, AddToRun
<1>3. current_query_nodes \in Seq(plan.nodes)
  BY DEF FieldsOK, RunsOK
<1> HIDE DEF n
<1>4. CurrentRunSupported'
  <2>1. Len(current_query_nodes') = Len(current_query_nodes) + 1
        /\ Len(current_query_nodes) \in Nat
    BY <1>1, <1>2, <1>3, AppendProperties, LenProperties
  <2>2. current_query_nodes' # <<>>
    BY <2>1
  <2>3. QED
    BY <1>2, <2>2 DEF BitstreamsInv, CurrentRunSupported
<1>5. ModulesMatch(CurrentRun)'
  <2>1. ASSUME NEW type \in QueryOperationType \ {PassThrough}
        PROVE  Cardinality(NodesOfType(current_query_nodes', type))
                   = Cardinality(ModulesOfType(current_set, type))
    <3>1. Cardinality(NodesOfType(current_query_nodes, type))
              = Cardinality(ModulesOfType(current_set, type))
      BY DEF BitstreamsInv, ModulesMatch, CurrentRun
    <3>2. IsFiniteSet(NodesOfType(current_query_nodes, type))
      <4>1. Len(current_query_nodes) \in Nat
            /\ DOMAIN current_query_nodes = 1..Len(current_query_nodes)
        BY <1>3, LenProperties
      <4>2. IsFiniteSet(1..Len(current_query_nodes))
        BY <4>1, FS_Interval
      <4>3. NodesOfType(current_query_nodes, type) \in SUBSET (1..Len(current_query_nodes))
        BY <4>1 DEF NodesOfType
      <4>4. QED
        BY <4>2, <4>3, FS_Subset
    <3>3. Cardinality(NodesOfType(current_query_nodes, type)) \in Nat
      BY <3>2, FS_CardinalityType
    <3>4. plan.operation_type[n] # type
      BY <1>1
    <3>5. QED
      BY <1>1, <1>2, <1>3, <3>1, <3>3, <3>4, NodesCount
  <2>2. QED
    BY <1>2, <2>1 DEF ModulesMatch, CurrentRun, ModulesOfType, NodesOfType
<1>6. QueuedRunsMatch'
  BY <1>2 DEF BitstreamsInv, QueuedRunsMatch, ModulesMatch, NodesOfType, ModulesOfType
<1>7. QED
  BY <1>4, <1>5, <1>6 DEF BitstreamsInv

(* Closing a run makes the run that was built the last one of the queue.   *)
LEMMA ClosedRun ==
    ASSUME FieldsOK, CloseRun
    PROVE  /\ DOMAIN query_node_runs_queue = 1..Len(query_node_runs_queue)
           /\ Len(query_node_runs_queue) \in Nat
           /\ DOMAIN query_node_runs_queue' = 1..(Len(query_node_runs_queue) + 1)
           /\ \A r \in 1..Len(query_node_runs_queue) :
                 query_node_runs_queue'[r] = query_node_runs_queue[r]
           /\ query_node_runs_queue'[Len(query_node_runs_queue) + 1] = CurrentRun
           /\ current_set' = <<>> /\ current_query_nodes' = <<>> /\ plan' = plan
           /\ current_query_nodes # <<>>
<1>1. query_node_runs_queue \in Seq(Run) /\ CurrentRun \in Run
  BY DEF FieldsOK, RunsOK, Run, CurrentRun
<1>2. query_node_runs_queue' = Append(query_node_runs_queue, CurrentRun)
  BY DEF CloseRun, CurrentRun
<1>3. QED
  BY <1>1, <1>2, AppendProperties, LenProperties DEF CloseRun

LEMMA CloseRunBitstreams ==
    ASSUME PlanKnown, FieldsOK, BitstreamsInv, CloseRun
    PROVE  BitstreamsInv'
<1>1. CurrentRunSupported'
  BY DEF CloseRun, CurrentRunSupported
<1>2. ModulesMatch(CurrentRun)'
  <2>1. \A type : /\ NodesOfType(current_query_nodes, type)' = {}
                  /\ ModulesOfType(current_set, type)' = {}
    BY DEF CloseRun, NodesOfType, ModulesOfType
  <2>2. QED
    BY <2>1 DEF ModulesMatch, CurrentRun
<1>3. QueuedRunsMatch'
  <2>1. CurrentRun.modules \in plan.library /\ ModulesMatch(CurrentRun)
    BY DEF CloseRun, BitstreamsInv, CurrentRunSupported, CurrentRun
  <2>2. \A r \in DOMAIN query_node_runs_queue' :
           /\ query_node_runs_queue'[r].modules \in plan.library
           /\ ModulesMatch(query_node_runs_queue'[r])
    BY <2>1, ClosedRun DEF BitstreamsInv, QueuedRunsMatch
  <2>3. QED
    BY <2>2, ClosedRun DEF QueuedRunsMatch, ModulesMatch, NodesOfType, ModulesOfType
<1>4. QED
  BY <1>1, <1>2, <1>3 DEF BitstreamsInv

(* Steps that neither place a node nor close a run.                        *)
OtherStep ==
    \/ ConsiderNextNode \/ EraseStartingNode \/ SkipNode
    \/ OperationNotFound \/ FailToSchedule \/ UNCHANGED vars

LEMMA OtherSteps ==
    ASSUME OtherStep
    PROVE  /\ UNCHANGED <<plan, nodeVars, current_set, current_query_nodes,
                          scheduled_queries, query_node_runs_queue, linked_nodes>>
           /\ phase' = "extend" => phase = "extend"
BY DEF OtherStep, ConsiderNextNode, EraseStartingNode, SkipNode, TryNextNode,
       OperationNotFound, FailToSchedule, vars

LEMMA NextBitstreams ==
    PlanKnown /\ FieldsOK /\ BitstreamsInv /\ [Next]_vars => BitstreamsInv'
<1> SUFFICES ASSUME PlanKnown, FieldsOK, BitstreamsInv, [Next]_vars
             PROVE  BitstreamsInv'
  OBVIOUS
<1>1. CASE PlaceModule
  BY <1>1, PlaceModuleBitstreams
<1>2. CASE PlacePassThrough
  BY <1>2, PlacePassThroughBitstreams
<1>3. CASE CloseRun
  BY <1>3, CloseRunBitstreams
<1>4. CASE OtherStep
  BY <1>4, OtherSteps, RunsAloneBitstreams
<1>5. QED
  BY <1>1, <1>2, <1>3, <1>4 DEF Next, OtherStep

-----------------------------------------------------------------------------
(***************************************************************************)
(* The order of the modules, and streams that cannot be pipelined          *)
(***************************************************************************)

(* Every node of a run that needs a module has one of its operation there. *)
LEMMA NodesHaveModules ==
    ASSUME PlanKnown, NEW run, run.nodes \in Seq(plan.nodes),
           ModulesMatch(run), NEW n \in ToSet(run.nodes), NeedsModule(n)
    PROVE  \E k \in DOMAIN run.modules : run.modules[k].operation_type = plan.operation_type[n]
<1> DEFINE type == plan.operation_type[n]
<1>1. /\ Len(run.nodes) \in Nat /\ DOMAIN run.nodes = 1..Len(run.nodes)
      /\ n \in plan.nodes
  BY LenProperties, ElementOfSeq DEF ToSet
<1>2. type \in QueryOperationType \ {PassThrough}
  BY <1>1, PlanFacts DEF NeedsModule
<1>3. Cardinality(NodesOfType(run.nodes, type)) = Cardinality(ModulesOfType(run.modules, type))
  BY <1>2 DEF ModulesMatch
<1>4. IsFiniteSet(NodesOfType(run.nodes, type))
  <2>1. IsFiniteSet(1..Len(run.nodes))
    BY <1>1, FS_Interval
  <2>2. NodesOfType(run.nodes, type) \in SUBSET (1..Len(run.nodes))
    BY <1>1 DEF NodesOfType
  <2>3. QED
    BY <2>1, <2>2, FS_Subset
<1>5. NodesOfType(run.nodes, type) # {}
  BY DEF NodesOfType, ToSet
<1>6. Cardinality(ModulesOfType(run.modules, type)) # 0
  BY <1>3, <1>4, <1>5, FS_EmptySet
<1>7. ModulesOfType(run.modules, type) # {}
  BY <1>6, FS_EmptySet
<1>8. QED
  BY <1>7 DEF ModulesOfType

(* FindMinPosition looks for the module of a pipelined producer and throws *)
(* "Something went wrong with scheduling!" without one: there always is.   *)
ProducersHaveModules ==
    phase = "check" =>
        \A j \in PipelinedInputs(CurrentNode) :
            \E k \in DOMAIN current_set :
                current_set[k].operation_type
                    = plan.operation_type[previous_nodes[CurrentNode][j]]

LEMMA PositionKnown ==
    ASSUME PlanKnown, FieldsOK, BitstreamsInv,
           NEW m \in ToSet(current_query_nodes), NeedsModule(m)
    PROVE  /\ PositionAfter(m) \in DOMAIN current_set
           /\ current_set[PositionAfter(m)].operation_type = plan.operation_type[m]
<1> DEFINE places == {k \in DOMAIN current_set :
                         current_set[k].operation_type = plan.operation_type[m]}
<1>1. CurrentRun.nodes = current_query_nodes /\ CurrentRun.modules = current_set
  BY DEF CurrentRun
<1>2. CurrentRun.nodes \in Seq(plan.nodes) /\ ModulesMatch(CurrentRun)
  BY <1>1 DEF FieldsOK, RunsOK, BitstreamsInv
<1>3. places # {}
  BY <1>1, <1>2, NodesHaveModules
<1>4. places \in SUBSET Nat
  BY LenProperties DEF FieldsOK, RunsOK
<1> HIDE DEF places
<1>5. FirstIndex(places) \in places
  <2>1. \E k \in places : \A l \in places : k <= l
    BY <1>3, <1>4, LeastNumber, Zenon
  <2>2. QED
    BY <2>1, Zenon DEF FirstIndex
<1>6. QED
  BY <1>5 DEF places, PositionAfter

(* A module inserted anywhere keeps the others in their order.             *)
LEMMA ComesBeforeInserted ==
    ASSUME NEW modules \in Seq(QueryOperation), NEW p \in 1..(Len(modules) + 1),
           NEW module \in QueryOperation, NEW n, NEW m, ComesBefore(n, m, modules)
    PROVE  ComesBefore(n, m, InsertAt(modules, p, module))
<1> DEFINE longer == InsertAt(modules, p, module)
           moved(k) == IF k < p THEN k ELSE k + 1
<1>1. /\ Len(modules) \in Nat /\ DOMAIN modules = 1..Len(modules)
      /\ DOMAIN longer = 1..(Len(modules) + 1)
      /\ \A i \in 1..(Len(modules) + 1) :
            longer[i] = IF i < p THEN modules[i]
                        ELSE IF i = p THEN module ELSE modules[i - 1]
  BY LenProperties, InsertAtElements
<1> HIDE DEF longer
<1>2. PICK k, l \in DOMAIN modules :
          /\ k < l
          /\ modules[k].operation_type = plan.operation_type[n]
          /\ modules[l].operation_type = plan.operation_type[m]
  BY DEF ComesBefore
<1>3. /\ moved(k) \in DOMAIN longer /\ moved(l) \in DOMAIN longer
      /\ moved(k) < moved(l)
  BY <1>1, <1>2
<1>4. longer[moved(k)] = modules[k] /\ longer[moved(l)] = modules[l]
  BY <1>1, <1>2
<1> HIDE DEF moved
<1>5. QED
  BY <1>2, <1>3, <1>4 DEF ComesBefore, longer

(* What PipelineOrder and ProjectionsSplitRuns ask of one run.             *)
InOrder(run) ==
    \A e \in Edges(plan) :
        /\ NeedsModule(e.from) /\ NeedsModule(e.to)
        /\ {e.from, e.to} \subseteq ToSet(run.nodes)
        => ComesBefore(e.from, e.to, run.modules)

IsProjected(e) ==
    \/ HasSimpleEdges(plan) /\ plan.output_projection[e.from][e.output]
    \/ plan.input_projection[e.to][e.input]
Unprojected(run) ==
    \A e \in Edges(plan) :
        IsProjected(e) /\ NeedsModule(e.from) /\ NeedsModule(e.to)
        => ~({e.from, e.to} \subseteq ToSet(run.nodes))

QueuedRunsPipelined ==
    \A r \in DOMAIN query_node_runs_queue :
        InOrder(query_node_runs_queue[r]) /\ Unprojected(query_node_runs_queue[r])
PipelinesInv == InOrder(CurrentRun) /\ Unprojected(CurrentRun) /\ QueuedRunsPipelined

LEMMA InitPipelines == Init => PipelinesInv
BY DEF Init, PipelinesInv, InOrder, Unprojected, QueuedRunsPipelined, CurrentRun, ToSet

(* An edge between nodes of the run, once a node has been added to it, is  *)
(* an old one or leads to the new node.                                    *)
LEMMA EdgesOfLongerRun ==
    ASSUME PlanKnown, FieldsOK, ScheduleInv, phase = "check", AddToRun(CurrentNode),
           NEW e \in Edges(plan), {e.from, e.to} \subseteq ToSet(current_query_nodes')
    PROVE  /\ e.from \in ToSet(current_query_nodes)
           /\ e.to \in ToSet(current_query_nodes) \/ e.to = CurrentNode
<1>1. ToSet(current_query_nodes') = ToSet(current_query_nodes) \cup {CurrentNode}
  BY AddToRunSets
<1>2. ToSet(current_query_nodes) \subseteq ToSet(scheduled_queries)
  BY DEF ScheduleInv, LinksUntouched
<1>3. e.from \in ToSet(scheduled_queries)
  BY <1>1, <1>2, EdgesOfNewNode
<1>4. CurrentNode \notin ToSet(scheduled_queries)
  BY CurrentNodeIsNew
<1>5. QED
  BY <1>1, <1>3, <1>4

(* A stream of the plan from a node of the run to the node under           *)
(* consideration is one of the latter's pipelined inputs.                  *)
LEMMA PipelinedInput ==
    ASSUME PlanKnown, FieldsOK, ScheduleInv, phase = "check",
           NEW e \in Edges(plan), e.to = CurrentNode,
           e.from \in ToSet(current_query_nodes), NeedsModule(e.from)
    PROVE  /\ e.input \in PipelinedInputs(CurrentNode)
           /\ previous_nodes[CurrentNode][e.input] = e.from
<1>1. previous_nodes[CurrentNode] = plan.previous_nodes[CurrentNode]
  BY CurrentNodeIsNew DEF ScheduleInv, LinksUntouched, IsScheduled
<1>2. /\ e.input \in DOMAIN plan.previous_nodes[CurrentNode]
      /\ plan.previous_nodes[CurrentNode][e.input] = e.from /\ IsNode(e.from)
  BY EdgeFacts DEF Inputs
<1>3. QED
  BY <1>1, <1>2 DEF PipelinedInputs, InCurrentRun, NeedsModule

LEMMA PlaceModuleInOrder ==
    ASSUME PlanKnown, FieldsOK, ScheduleInv, BitstreamsInv, PipelinesInv, PlaceModule
    PROVE  InOrder(CurrentRun)'
<1> DEFINE n == CurrentNode
<1>1. PICK choice \in SuitableChoices(n) :
          /\ choice.position \in 0..Len(current_set)
          /\ choice.position + 1 \in 1..(Len(current_set) + 1)
          /\ NewModule(n, choice) \in QueryOperation
          /\ MeetsPrerequisites(n, choice.position)
          /\ current_set' = InsertAt(current_set, choice.position + 1, NewModule(n, choice))
  BY PlacedModule
<1>2. phase = "check" /\ AddToRun(n) /\ plan' = plan
  BY DEF PlaceModule, AddToRun
<1>3. current_set \in Seq(QueryOperation)
  BY DEF FieldsOK, RunsOK
<1>4. ASSUME NEW e \in Edges(plan), NeedsModule(e.from), NeedsModule(e.to),
             {e.from, e.to} \subseteq ToSet(current_query_nodes')
      PROVE  ComesBefore(e.from, e.to, current_set')
  <2>1. /\ e.from \in ToSet(current_query_nodes)
        /\ e.to \in ToSet(current_query_nodes) \/ e.to = n
    BY <1>2, <1>4, EdgesOfLongerRun
  <2>2. CASE e.to \in ToSet(current_query_nodes)
    <3>1. ComesBefore(e.from, e.to, current_set)
      BY <1>4, <2>1, <2>2 DEF PipelinesInv, InOrder, CurrentRun
    <3>2. QED
      BY <1>1, <1>3, <3>1, ComesBeforeInserted
  <2>3. CASE e.to = n
    <3> DEFINE k == PositionAfter(e.from)
               p == choice.position + 1
    <3>1. k \in DOMAIN current_set
          /\ current_set[k].operation_type = plan.operation_type[e.from]
      BY <1>4, <2>1, PositionKnown
    <3>2. k <= choice.position
      <4>1. e.input \in PipelinedInputs(n) /\ previous_nodes[n][e.input] = e.from
        BY <1>2, <1>4, <2>1, <2>3, PipelinedInput
      <4>2. QED
        BY <1>1, <4>1 DEF MeetsPrerequisites
    <3>3. /\ Len(current_set) \in Nat /\ DOMAIN current_set = 1..Len(current_set)
          /\ DOMAIN current_set' = 1..(Len(current_set) + 1)
          /\ \A i \in 1..(Len(current_set) + 1) :
                current_set'[i] = IF i < p THEN current_set[i]
                                  ELSE IF i = p THEN NewModule(n, choice)
                                  ELSE current_set[i - 1]
      BY <1>1, <1>3, LenProperties, InsertAtElements
    <3> HIDE DEF k
    <3>4. k < p /\ k \in DOMAIN current_set' /\ p \in DOMAIN current_set'
      BY <1>1, <3>1, <3>2, <3>3
    <3>5. current_set'[k] = current_set[k] /\ current_set'[p] = NewModule(n, choice)
      BY <3>3, <3>4
    <3>6. current_set'[p].operation_type = plan.operation_type[e.to]
      BY <2>3, <3>5 DEF NewModule
    <3>7. QED
      BY <3>1, <3>4, <3>5, <3>6 DEF ComesBefore
  <2>4. QED
    BY <2>1, <2>2, <2>3
<1>5. QED
  BY <1>2, <1>4 DEF InOrder, CurrentRun, NeedsModule, ComesBefore

(* A stream into the node under consideration that was found good for a    *)
(* pipeline is not projected.                                              *)
LEMMA PipelinedUnprojected ==
    ASSUME PlanKnown, FieldsOK, ScheduleInv, RunsSeparated, phase = "check",
           NEW e \in Edges(plan), e.to = CurrentNode,
           e.from \in ToSet(current_query_nodes), NeedsModule(e.from),
           NEW beyond, ~CannotBePipelined(CurrentNode, beyond)
    PROVE  ~IsProjected(e)
<1> DEFINE m == e.from
           n == CurrentNode
           places == {i \in DOMAIN next_nodes[m] : next_nodes[m][i] = n}
<1>1. e.input \in PipelinedInputs(n) /\ previous_nodes[n][e.input] = m
  BY PipelinedInput
<1>2. /\ ~plan.output_projection[m][FindNextNodeLocation(m, n)]
      /\ ~plan.input_projection[n][e.input]
  BY <1>1 DEF CannotBePipelined, IsProjectionOperationDefined
<1>3. ASSUME HasSimpleEdges(plan)
      PROVE  FindNextNodeLocation(m, n) = e.output
  <2>1. next_nodes[m] = plan.next_nodes[m]
    BY DEF RunsSeparated
  <2>2. /\ m \in plan.nodes /\ e.output \in Outputs(plan, m)
        /\ plan.next_nodes[m][e.output] = n /\ IsNode(n)
    BY EdgeFacts
  <2>3. places = {e.output}
    BY <1>3, <2>1, <2>2 DEF HasSimpleEdges, Outputs
  <2>4. e.output \in Nat
    BY <2>2, StreamNumbers
  <2>5. FirstIndex({e.output}) = e.output
    BY <2>4 DEF FirstIndex
  <2>6. QED
    BY <2>3, <2>5 DEF FindNextNodeLocation
<1>4. QED
  BY <1>2, <1>3 DEF IsProjected

LEMMA PlaceModulePipelines ==
    ASSUME PlanKnown, FieldsOK, ScheduleInv, RunsSeparated, BitstreamsInv, PipelinesInv,
           PlaceModule
    PROVE  PipelinesInv'
<1>1. InOrder(CurrentRun)'
  BY PlaceModuleInOrder
<1>2. phase = "check" /\ AddToRun(CurrentNode)
      /\ UNCHANGED <<plan, query_node_runs_queue>>
  BY DEF PlaceModule, AddToRun
<1>3. Unprojected(CurrentRun)'
  <2>1. PICK beyond : ~CannotBePipelined(CurrentNode, beyond)
    BY DEF PlaceModule
  <2>2. ASSUME NEW e \in Edges(plan), IsProjected(e), NeedsModule(e.from), NeedsModule(e.to),
               {e.from, e.to} \subseteq ToSet(current_query_nodes')
        PROVE  FALSE
    <3>1. /\ e.from \in ToSet(current_query_nodes)
          /\ e.to \in ToSet(current_query_nodes) \/ e.to = CurrentNode
      BY <1>2, <2>2, EdgesOfLongerRun
    <3>2. CASE e.to \in ToSet(current_query_nodes)
      BY <2>2, <3>1, <3>2 DEF PipelinesInv, Unprojected, CurrentRun
    <3>3. CASE e.to = CurrentNode
      BY <1>2, <2>1, <2>2, <3>1, <3>3, PipelinedUnprojected
    <3>4. QED
      BY <3>1, <3>2, <3>3
  <2>3. QED
    BY <1>2, <2>2 DEF Unprojected, CurrentRun, IsProjected, NeedsModule
<1>4. QueuedRunsPipelined'
  BY <1>2 DEF PipelinesInv, QueuedRunsPipelined, InOrder, Unprojected, IsProjected,
              NeedsModule, ComesBefore
<1>5. QED
  BY <1>1, <1>3, <1>4 DEF PipelinesInv

(* A node that needs no module adds no stream between modules.             *)
LEMMA PlacePassThroughPipelines ==
    ASSUME PlanKnown, FieldsOK, ScheduleInv, PipelinesInv, PlacePassThrough
    PROVE  PipelinesInv'
<1>1. /\ phase = "check" /\ AddToRun(CurrentNode) /\ ~NeedsModule(CurrentNode)
      /\ UNCHANGED <<plan, current_set, query_node_runs_queue>>
  BY DEF PlacePassThrough, AddToRun, NeedsModule
<1>2. ASSUME NEW e \in Edges(plan), NeedsModule(e.from), NeedsModule(e.to),
             {e.from, e.to} \subseteq ToSet(current_query_nodes')
      PROVE  {e.from, e.to} \subseteq ToSet(current_query_nodes)
  BY <1>1, <1>2, EdgesOfLongerRun
<1>3. InOrder(CurrentRun)' /\ Unprojected(CurrentRun)'
  BY <1>1, <1>2 DEF PipelinesInv, InOrder, Unprojected, CurrentRun, IsProjected,
                    NeedsModule, ComesBefore
<1>4. QueuedRunsPipelined'
  BY <1>1 DEF PipelinesInv, QueuedRunsPipelined, InOrder, Unprojected, IsProjected,
              NeedsModule, ComesBefore
<1>5. QED
  BY <1>3, <1>4 DEF PipelinesInv

LEMMA CloseRunPipelines ==
    ASSUME FieldsOK, PipelinesInv, CloseRun
    PROVE  PipelinesInv'
<1>1. InOrder(CurrentRun)' /\ Unprojected(CurrentRun)'
  <2>1. ToSet(CurrentRun.nodes)' = {}
    BY ClosedRun DEF CurrentRun, ToSet
  <2>2. QED
    BY <2>1 DEF InOrder, Unprojected
<1>2. \A r \in DOMAIN query_node_runs_queue' :
         InOrder(query_node_runs_queue'[r]) /\ Unprojected(query_node_runs_queue'[r])
  BY ClosedRun DEF PipelinesInv, QueuedRunsPipelined
<1>3. QueuedRunsPipelined'
  BY <1>2, ClosedRun DEF QueuedRunsPipelined, InOrder, Unprojected, IsProjected,
                         NeedsModule, ComesBefore
<1>4. QED
  BY <1>1, <1>3 DEF PipelinesInv

LEMMA NextPipelines ==
    PlanKnown /\ FieldsOK /\ ScheduleInv /\ RunsSeparated /\ BitstreamsInv /\ PipelinesInv
    /\ [Next]_vars => PipelinesInv'
<1> SUFFICES ASSUME PlanKnown, FieldsOK, ScheduleInv, RunsSeparated, BitstreamsInv,
                    PipelinesInv, [Next]_vars
             PROVE  PipelinesInv'
  OBVIOUS
<1>1. CASE PlaceModule
  BY <1>1, PlaceModulePipelines
<1>2. CASE PlacePassThrough
  BY <1>2, PlacePassThroughPipelines
<1>3. CASE CloseRun
  BY <1>3, CloseRunPipelines
<1>4. CASE OtherStep
  <2>1. UNCHANGED <<plan, current_set, current_query_nodes, query_node_runs_queue>>
    BY <1>4, OtherSteps
  <2>2. QED
    BY <2>1 DEF PipelinesInv, QueuedRunsPipelined, InOrder, Unprojected, CurrentRun,
                IsProjected, NeedsModule, ComesBefore
<1>5. QED
  BY <1>1, <1>2, <1>3, <1>4 DEF Next, OtherStep

-----------------------------------------------------------------------------
(***************************************************************************)
(* A library of single modules                                             *)
(***************************************************************************)

HasSingleModules ==
    \A n \in plan.nodes : NeedsModule(n) /\ HasSingleModule(plan.operation_type[n])

(* The search never gives up on an empty run.                              *)
NeverStuck ==
    HasSingleModules => /\ phase # "failed"
                        /\ phase = "close" => current_query_nodes # <<>>

(* A single module of the operation makes a bitstream out of no modules.   *)
LEMMA EmptyRunFits ==
    ASSUME PlanKnown, FieldsOK, NEW n \in plan.nodes, HasSingleModule(plan.operation_type[n]),
           current_set = <<>>, current_query_nodes = <<>>
    PROVE  /\ SuitableChoices(n) # {}
           /\ ModulesOf(plan, plan.operation_type[n]) # {}
           /\ \A beyond : ~CannotBePipelined(n, beyond)
<1> DEFINE type == plan.operation_type[n]
<1>1. PICK modules \in plan.library : Len(modules) = 1 /\ modules[1].operation_type = type
  BY DEF HasSingleModule
<1> DEFINE module == modules[1]
           tuple == module.resource_elasticity_data
<1>2. modules \in Seq(QueryOperation) /\ module \in QueryOperation
  <2>1. modules \in Seq(QueryOperation)
    BY PlanFacts
  <2>2. QED
    BY <1>1, <2>1, ElementOfSeq
<1>3. modules = <<module>>
  BY <1>1, <1>2, LenProperties
<1>4. module \in ModulesOf(plan, type)
  BY <1>1, <1>2, LenProperties DEF ModulesOf, ToSet
<1>5. tuple \in ParameterTuples(plan, type)
  <2> DEFINE known == ParametersOf(plan, type)
  <2>1. tuple \in known /\ tuple \in Seq(Nat)
    BY <1>2, <1>4 DEF ParametersOf, QueryOperation
  <2> HIDE DEF tuple, known
  <2>2. DOMAIN tuple = 1..Len(tuple) /\ tuple = [k \in DOMAIN tuple |-> tuple[k]]
    BY <2>1, LenProperties
  <2>3. tuple \in [DOMAIN tuple -> UNION {ToSet(r) : r \in known}]
    BY <2>1, <2>2 DEF ToSet
  <2>4. \A k \in DOMAIN tuple : \E r \in known : tuple[k] = r[k]
    BY <2>1
  <2>5. QED
    BY <2>1, <2>3, <2>4 DEF ParameterTuples, known
<1> DEFINE choice == [position |-> 0, parameters |-> tuple]
<1>6. PipelinedInputs(n) = {}
  BY DEF PipelinedInputs, InCurrentRun, ToSet
<1>7. CreateNewModulesVector(n, choice) = modules
  <2>1. module = [operation_type |-> type, resource_elasticity_data |-> tuple]
    BY <1>1, <1>2 DEF QueryOperation
  <2>2. CreateNewModulesVector(n, choice) = InsertAt(current_set, 1, module)
    BY <2>1 DEF CreateNewModulesVector
  <2>3. current_set \in Seq(QueryOperation) /\ Len(current_set) = 0
    BY DEF FieldsOK, RunsOK
  <2>4. InsertAt(current_set, 1, module) = <<module>>
    BY <1>2, <2>3, InsertAtEmpty
  <2>5. QED
    BY <1>3, <2>2, <2>4
<1>8. choice \in SuitableChoices(n)
  <2>1. choice \in [position : 0..Len(current_set), parameters : ParameterTuples(plan, type)]
    BY <1>5
  <2>2. MeetsPrerequisites(n, choice.position)
    BY <1>6 DEF MeetsPrerequisites
  <2>3. IsModuleSetSupported(CreateNewModulesVector(n, choice))
    BY <1>7 DEF IsModuleSetSupported
  <2> HIDE DEF choice
  <2>4. QED
    BY <2>1, <2>2, <2>3 DEF SuitableChoices
<1>9. QED
  BY <1>4, <1>6, <1>8 DEF CannotBePipelined

LEMMA InitNeverStuck == Init => NeverStuck
BY DEF Init, NeverStuck

LEMMA NextNeverStuck ==
    PlanKnown /\ FieldsOK /\ BitstreamsInv /\ NeverStuck /\ [Next]_vars => NeverStuck'
<1> SUFFICES ASSUME PlanKnown, FieldsOK, BitstreamsInv, NeverStuck, [Next]_vars
             PROVE  NeverStuck'
  OBVIOUS
<1>0. HasSingleModules' <=> HasSingleModules
  <2>1. plan' = plan
    BY DEF Next, PlaceModule, PlacePassThrough, AddToRun, ConsiderNextNode,
           EraseStartingNode, SkipNode, TryNextNode, OperationNotFound, CloseRun,
           FailToSchedule, vars
  <2>2. QED
    BY <2>1 DEF HasSingleModules, NeedsModule, HasSingleModule
<1> SUFFICES ASSUME HasSingleModules
             PROVE  phase' # "failed" /\ (phase' = "close" => current_query_nodes' # <<>>)
  BY <1>0 DEF NeverStuck
<1>1. current_query_nodes = <<>> => current_set = <<>>
  BY DEF BitstreamsInv, CurrentRunSupported
<1>2. ASSUME phase = "check", current_query_nodes = <<>>
      PROVE  /\ NeedsModule(CurrentNode)
             /\ SuitableChoices(CurrentNode) # {}
             /\ ModulesOf(plan, plan.operation_type[CurrentNode]) # {}
             /\ \A beyond : ~CannotBePipelined(CurrentNode, beyond)
  BY <1>1, <1>2, CurrentNodeIsNode, EmptyRunFits DEF HasSingleModules
<1>3. CASE PlaceModule \/ PlacePassThrough
  BY <1>3 DEF PlaceModule, PlacePassThrough, AddToRun
<1>4. CASE ConsiderNextNode
  BY <1>4 DEF ConsiderNextNode, NeverStuck
<1>5. CASE EraseStartingNode
  BY <1>5 DEF EraseStartingNode, BitstreamsInv, CurrentRunSupported
<1>6. CASE SkipNode
  <2>1. current_query_nodes # <<>>
    BY <1>2, <1>6 DEF SkipNode, NeedsModule
  <2>2. QED
    BY <1>6, <2>1 DEF SkipNode, TryNextNode
<1>7. CASE OperationNotFound
  <2>1. CurrentNode \in plan.nodes
    BY <1>7, CurrentNodeIsNode DEF OperationNotFound
  <2>2. PICK modules \in plan.library :
            Len(modules) = 1 /\ modules[1].operation_type = plan.operation_type[CurrentNode]
    BY <2>1 DEF HasSingleModules, HasSingleModule
  <2>3. modules[1] \in ToSet(modules)
    BY <2>2, PlanFacts, LenProperties DEF ToSet
  <2>4. ModulesOf(plan, plan.operation_type[CurrentNode]) # {}
    BY <2>2, <2>3 DEF ModulesOf
  <2>5. QED
    BY <1>7, <2>4 DEF OperationNotFound
<1>8. CASE CloseRun
  BY <1>8 DEF CloseRun
<1>9. CASE FailToSchedule
  BY <1>9 DEF FailToSchedule, NeverStuck
<1>10. CASE UNCHANGED vars
  BY <1>10 DEF vars, NeverStuck
<1>11. QED
  BY <1>3, <1>4, <1>5, <1>6, <1>7, <1>8, <1>9, <1>10 DEF Next

-----------------------------------------------------------------------------
(***************************************************************************)
(* Theorems of the specification                                           *)
(***************************************************************************)

(* What the runs are made of, as an inductive invariant on top of IInv.    *)
RunsInv == BitstreamsInv /\ PipelinesInv /\ NeverStuck

LEMMA RunsInvariantHolds == Spec => []RunsInv
<1>1. Init => RunsInv
  BY InitBitstreams, InitPipelines, InitNeverStuck DEF RunsInv
<1>2. IInv /\ RunsInv /\ [Next]_vars => RunsInv'
  BY NextBitstreams, NextPipelines, NextNeverStuck DEF IInv, RunsInv
<1>3. QED
  BY <1>1, <1>2, InvariantHolds, PTL DEF Spec

(* Every queued run has a bitstream with one module for each of its nodes  *)
(* that needs one, however modules were inserted.                          *)
THEOREM RunsMatchBitstreamsHolds == Spec => []RunsMatchBitstreams
<1>1. RunsInv => RunsMatchBitstreams
  BY DEF RunsInv, BitstreamsInv, QueuedRunsMatch, ModulesMatch, RunsMatchBitstreams
<1>2. QED
  BY <1>1, RunsInvariantHolds, PTL

(* All runs are the queued ones and the one being built.                   *)
LEMMA RunsAre ==
    ASSUME FieldsOK, NEW r \in DOMAIN AllRuns
    PROVE  \/ AllRuns[r] = CurrentRun
           \/ r \in DOMAIN query_node_runs_queue /\ AllRuns[r] = query_node_runs_queue[r]
<1>1. query_node_runs_queue \in Seq(Run) /\ CurrentRun \in Run
  BY DEF FieldsOK, RunsOK, Run, CurrentRun
<1>2. AllRuns = Append(query_node_runs_queue, CurrentRun)
  BY DEF AllRuns, CurrentRun
<1>3. QED
  BY <1>1, <1>2, AppendProperties, LenProperties

(* In every run, the module of a producer comes before one of its          *)
(* consumer.                                                               *)
THEOREM PipelineOrderHolds == Spec => []PipelineOrder
<1>1. IInv /\ RunsInv => PipelineOrder
  <2> SUFFICES ASSUME IInv, RunsInv, NEW e \in Edges(plan), NEW r \in DOMAIN AllRuns,
                      NeedsModule(e.from), NeedsModule(e.to),
                      {e.from, e.to} \subseteq ToSet(AllRuns[r].nodes)
               PROVE  ComesBefore(e.from, e.to, AllRuns[r].modules)
    BY DEF PipelineOrder
  <2>1. InOrder(AllRuns[r])
    BY RunsAre DEF IInv, RunsInv, PipelinesInv, QueuedRunsPipelined
  <2>2. QED
    BY <2>1 DEF InOrder
<1>2. QED
  BY <1>1, InvariantHolds, RunsInvariantHolds, PTL

(* No run contains both ends of a stream with a projection.                *)
THEOREM ProjectionsSplitRunsHolds == Spec => []ProjectionsSplitRuns
<1>1. IInv /\ RunsInv => ProjectionsSplitRuns
  <2> SUFFICES ASSUME IInv, RunsInv, NEW e \in Edges(plan), IsProjected(e),
                      NeedsModule(e.from), NeedsModule(e.to), InSameRun(e.from, e.to)
               PROVE  FALSE
    BY DEF ProjectionsSplitRuns, IsProjected
  <2>1. PICK r \in DOMAIN AllRuns : {e.from, e.to} \subseteq ToSet(AllRuns[r].nodes)
    BY DEF InSameRun
  <2>2. Unprojected(AllRuns[r])
    BY RunsAre DEF IInv, RunsInv, PipelinesInv, QueuedRunsPipelined
  <2>3. QED
    BY <2>1, <2>2 DEF Unprojected
<1>2. QED
  BY <1>1, InvariantHolds, RunsInvariantHolds, PTL

(* With a bitstream for each operation alone, the scheduler never throws.  *)
THEOREM SingleModulesSufficeHolds == Spec => []SingleModulesSuffice
<1>1. RunsInv => SingleModulesSuffice
  BY DEF RunsInv, NeverStuck, HasSingleModules, SingleModulesSuffice
<1>2. QED
  BY <1>1, RunsInvariantHolds, PTL

(* FindMinPosition never throws "Something went wrong with scheduling!".   *)
THEOREM ProducersHaveModulesHolds == Spec => []ProducersHaveModules
<1>1. IInv /\ RunsInv => ProducersHaveModules
  <2> SUFFICES ASSUME IInv, RunsInv, NEW j \in PipelinedInputs(CurrentNode)
               PROVE  \E k \in DOMAIN current_set :
                         current_set[k].operation_type
                             = plan.operation_type[previous_nodes[CurrentNode][j]]
    BY DEF ProducersHaveModules
  <2> DEFINE m == previous_nodes[CurrentNode][j]
  <2>1. m \in ToSet(current_query_nodes) /\ NeedsModule(m)
    BY DEF PipelinedInputs, InCurrentRun, NeedsModule
  <2>2. QED
    BY <2>1, PositionKnown DEF IInv, RunsInv
<1>2. QED
  BY <1>1, InvariantHolds, RunsInvariantHolds, PTL

-----------------------------------------------------------------------------
(***************************************************************************)
(* What crosses from one run to a later one: CheckExternalLinks leaves the *)
(* data of each stream exactly one way to its consumer, in whatever order  *)
(* the runs of its two nodes and of other nodes are closed; and what the   *)
(* runs rely on when they are executed, the files of the other streams and *)
(* the locations of the modules among it.                                  *)
(***************************************************************************)
(***************************************************************************)
(* The nodes of the queued runs are the scheduled ones that are not in the *)
(* run being built.                                                        *)
(***************************************************************************)
RunsClosed == ClosedNodes = ToSet(scheduled_queries) \ ToSet(current_query_nodes)

(* Both ends of a stream are in one queued run.                            *)
IsTogether(e) ==
    \E r \in DOMAIN query_node_runs_queue :
        {e.from, e.to} \subseteq ToSet(query_node_runs_queue[r].nodes)

(***************************************************************************)
(* A stream whose producer's run is not closed yet: no file for the        *)
(* consumer, no memory kept, and no file for the producer but the expected *)
(* one.                                                                    *)
(***************************************************************************)
IsWaiting(e) ==
    /\ input_files[e.to][e.input] = NoFile
    /\ output_files[e.from][e.output] =
           IF plan.is_checked[e.from][e.output] THEN ExpectedFile(e.from, e.output)
                                                ELSE NoFile
    /\ e \notin linked_nodes

(* A stream that has passed from the producer's run to a later one.        *)
IsForwarded(e) ==
    /\ e.to \in ClosedNodes => previous_nodes[e.to][e.input] = Null
    /\ IF plan.is_checked[e.from][e.output]
       THEN IsReadFromFile(e) /\ e \notin linked_nodes
       ELSE input_files[e.to][e.input] = NoFile /\ e \in linked_nodes

IsHandedOver(e) ==
    IF IsTogether(e) THEN IsPipelined(e) /\ e \notin linked_nodes
                     ELSE IsForwarded(e)

StreamsInv ==
    /\ RunsClosed
    /\ linked_nodes \subseteq Edges(plan)
    /\ HasSimpleEdges(plan) =>
          \A e \in Edges(plan) :
              IF e.from \in ClosedNodes THEN IsHandedOver(e) ELSE IsWaiting(e)

-----------------------------------------------------------------------------
(***************************************************************************)
(* The queued runs                                                         *)
(***************************************************************************)

LEMMA InitStreams == Init => StreamsInv
<1> SUFFICES ASSUME Init PROVE StreamsInv
  OBVIOUS
<1>0. PlanKnown
  BY DEF Init, PlanKnown
<1>1. ClosedNodes = {} /\ ToSet(scheduled_queries) = {} /\ ToSet(current_query_nodes) = {}
  BY DEF Init, ClosedNodes, ToSet
<1>2. linked_nodes = {}
  BY DEF Init
<1>3. ASSUME NEW e \in Edges(plan)
      PROVE  IsWaiting(e)
  <2>1. /\ e.from \in plan.nodes /\ e.to \in plan.nodes
        /\ e.output \in Outputs(plan, e.from) /\ e.input \in Inputs(plan, e.to)
        /\ IsNode(plan.previous_nodes[e.to][e.input])
    BY <1>0, EdgeFacts
  <2>2. input_files[e.to][e.input] = NoFile
    BY <2>1 DEF Init
  <2>3. output_files[e.from][e.output] =
            IF plan.is_checked[e.from][e.output] THEN ExpectedFile(e.from, e.output)
                                                 ELSE NoFile
    BY <2>1 DEF Init
  <2>4. QED
    BY <1>2, <2>2, <2>3 DEF IsWaiting
<1>4. QED
  BY <1>1, <1>2, <1>3 DEF StreamsInv, RunsClosed

(* Placing a node leaves the queue and the streams alone.                  *)
LEMMA AddToRunStreams ==
    ASSUME PlanKnown, FieldsOK, ScheduleInv, StreamsInv,
           phase = "check", AddToRun(CurrentNode)
    PROVE  StreamsInv'
<1>1. UNCHANGED <<plan, nodeVars, query_node_runs_queue, linked_nodes>>
  BY DEF AddToRun
<1>2. /\ ToSet(scheduled_queries') = ToSet(scheduled_queries) \cup {CurrentNode}
      /\ ToSet(current_query_nodes') = ToSet(current_query_nodes) \cup {CurrentNode}
      /\ CurrentNode \notin ToSet(scheduled_queries)
  BY AddToRunSets, CurrentNodeIsNew
<1>3. ClosedNodes' = ClosedNodes
  BY <1>1 DEF ClosedNodes
<1>4. RunsClosed'
  BY <1>2, <1>3 DEF RunsClosed, StreamsInv
<1>5. QED
  BY <1>1, <1>3, <1>4 DEF StreamsInv, IsHandedOver, IsWaiting, IsTogether, IsForwarded,
                          IsPipelined, IsReadFromFile, nodeVars

LEMMA OtherStreams ==
    ASSUME StreamsInv, OtherStep
    PROVE  StreamsInv'
<1>1. UNCHANGED <<plan, nodeVars, current_query_nodes, scheduled_queries,
                  query_node_runs_queue, linked_nodes>>
  BY OtherSteps
<1>2. QED
  BY <1>1 DEF StreamsInv, RunsClosed, ClosedNodes, IsHandedOver, IsWaiting, IsTogether,
              IsForwarded, IsPipelined, IsReadFromFile, nodeVars

(* A closed run adds its nodes, all new, to the closed ones.               *)
LEMMA CloseRunNodes ==
    ASSUME FieldsOK, ScheduleInv, RunsClosed, CloseRun
    PROVE  /\ ClosedNodes' = ClosedNodes \cup ToSet(current_query_nodes)
           /\ ClosedNodes \cap ToSet(current_query_nodes) = {}
           /\ ClosedNodes' = ToSet(scheduled_queries)
           /\ RunsClosed'
<1> DEFINE k == Len(query_node_runs_queue)
<1>1. /\ DOMAIN query_node_runs_queue = 1..k /\ k \in Nat
      /\ DOMAIN query_node_runs_queue' = 1..(k + 1)
      /\ \A r \in 1..k : query_node_runs_queue'[r] = query_node_runs_queue[r]
      /\ query_node_runs_queue'[k + 1].nodes = current_query_nodes
  BY ClosedRun DEF CurrentRun
<1>2. \A r : r \in 1..(k + 1) <=> r \in 1..k \/ r = k + 1
  BY <1>1
<1> HIDE DEF k
<1>3. ClosedNodes' = ClosedNodes \cup ToSet(current_query_nodes)
  BY <1>1, <1>2 DEF ClosedNodes
<1>4. ToSet(current_query_nodes) \subseteq ToSet(scheduled_queries)
  BY DEF ScheduleInv, LinksUntouched
<1>5. ToSet(current_query_nodes') = {} /\ scheduled_queries' = scheduled_queries
  BY DEF CloseRun, ToSet
<1>6. QED
  BY <1>3, <1>4, <1>5 DEF RunsClosed

(* Both ends of a stream are in one queued run if they were before, or     *)
(* were both in the run that is closed.                                    *)
LEMMA CloseRunTogether ==
    ASSUME FieldsOK, CloseRun, NEW e
    PROVE  IsTogether(e)' <=> \/ IsTogether(e)
                              \/ {e.from, e.to} \subseteq ToSet(current_query_nodes)
<1> DEFINE k == Len(query_node_runs_queue)
<1>1. /\ DOMAIN query_node_runs_queue = 1..k /\ k \in Nat
      /\ DOMAIN query_node_runs_queue' = 1..(k + 1)
      /\ \A r \in 1..k : query_node_runs_queue'[r] = query_node_runs_queue[r]
      /\ query_node_runs_queue'[k + 1].nodes = current_query_nodes
  BY ClosedRun DEF CurrentRun
<1>2. \A r : r \in 1..(k + 1) <=> r \in 1..k \/ r = k + 1
  BY <1>1
<1> HIDE DEF k
<1>3. QED
  BY <1>1, <1>2 DEF IsTogether

-----------------------------------------------------------------------------
(***************************************************************************)
(* CheckExternalLinks, stream by stream                                    *)
(***************************************************************************)

(* A file of the plan is a file.                                           *)
LEMMA ExpectedIsFile == \A n, i : ExpectedFile(n, i) # NoFile
BY DEF ExpectedFile, NoFile

(* The fields of a stream have the places of the plan.                     *)
LEMMA EdgePlaces ==
    ASSUME PlanKnown, FieldsOK, NEW e \in Edges(plan)
    PROVE  /\ e.output \in DOMAIN next_nodes[e.from]
           /\ e.output \in DOMAIN output_files[e.from]
           /\ e.input \in DOMAIN previous_nodes[e.to]
           /\ e.input \in DOMAIN input_files[e.to]
BY EdgeFacts DEF FieldsOK, LinksOK, FilesOK

(* The place that is found for a producer is one.                          *)
LEMMA FoundPlace ==
    ASSUME PlanKnown, FieldsOK, NEW m \in plan.nodes, NEW n,
           NEW j \in DOMAIN previous_nodes[m], previous_nodes[m][j] = n
    PROVE  /\ FindPreviousNodeLocation(m, n) \in DOMAIN previous_nodes[m]
           /\ previous_nodes[m][FindPreviousNodeLocation(m, n)] = n
<1> DEFINE places == {l \in DOMAIN previous_nodes[m] : previous_nodes[m][l] = n}
<1>1. DOMAIN previous_nodes[m] = Inputs(plan, m)
  BY DEF FieldsOK, LinksOK
<1>2. places \in SUBSET Nat /\ places # {}
  BY <1>1, StreamNumbers
<1>3. FirstIndex(places) \in places
  <2> HIDE DEF places
  <2>1. \E k \in places : \A l \in places : k <= l
    BY <1>2, LeastNumber, Zenon
  <2>2. QED
    BY <2>1, Zenon DEF FirstIndex
<1>4. QED
  BY <1>3 DEF FindPreviousNodeLocation

(* Outputs of nodes outside the run neither set a file nor keep memory.    *)
LEMMA OutsideRun ==
    ASSUME PlanKnown, FieldsOK, CloseRun, NEW e \in Edges(plan), ~InCurrentRun(e.from),
           ~InCurrentRun(previous_nodes[e.to][e.input])
    PROVE  /\ next_nodes'[e.from][e.output] = next_nodes[e.from][e.output]
           /\ output_files'[e.from][e.output] = output_files[e.from][e.output]
           /\ input_files'[e.to][e.input] = input_files[e.to][e.input]
           /\ e \in linked_nodes' <=> e \in linked_nodes
<1>1. /\ e.from \in plan.nodes /\ e.to \in plan.nodes
      /\ e.output \in DOMAIN next_nodes[e.from] /\ e.output \in DOMAIN output_files[e.from]
      /\ e.input \in DOMAIN input_files[e.to]
  BY EdgeFacts, EdgePlaces
<1>2. FileSources(e.to, e.input) = {}
  BY DEF FileSources, IsThroughFile, LeavesRun
<1>3. e \notin KeptOutputs
  <2>1. ASSUME NEW n \in plan.nodes, NEW i \in DOMAIN next_nodes[n], IsKept(n, i),
               e = Edge(n, i, next_nodes[n][i], FindPreviousNodeLocation(next_nodes[n][i], n))
        PROVE  FALSE
    <3>1. e.from = n /\ InCurrentRun(n)
      BY <2>1 DEF Edge, IsKept, LeavesRun
    <3>2. QED
      BY <3>1
  <2>2. QED
    BY <2>1 DEF KeptOutputs
<1>4. next_nodes'[e.from][e.output] = next_nodes[e.from][e.output]
  BY <1>1 DEF CloseRun, CheckExternalLinks, IsThroughFile, LeavesRun
<1>5. output_files'[e.from][e.output] = output_files[e.from][e.output]
  BY <1>1 DEF CloseRun, CheckExternalLinks
<1>6. input_files'[e.to][e.input] = input_files[e.to][e.input]
  BY <1>1, <1>2 DEF CloseRun, CheckExternalLinks
<1>7. QED
  BY <1>3, <1>4, <1>5, <1>6 DEF CloseRun, CheckExternalLinks

(* An input of a node of the run is cut off from a producer outside it,    *)
(* and no other input is.                                                  *)
LEMMA InputLinks ==
    ASSUME PlanKnown, FieldsOK, CloseRun, NEW e \in Edges(plan)
    PROVE  previous_nodes'[e.to][e.input] =
               IF InCurrentRun(e.to) /\ ~InCurrentRun(previous_nodes[e.to][e.input])
               THEN Null ELSE previous_nodes[e.to][e.input]
BY EdgeFacts, EdgePlaces DEF CloseRun, CheckExternalLinks

(* The producer of an input that is not closed is still the plan's, and so *)
(* is the consumer of an output of the run being built.                    *)
LEMMA EdgeLinks ==
    ASSUME PlanKnown, FieldsOK, ScheduleInv, RunsSeparated, RunsClosed, NEW e \in Edges(plan)
    PROVE  /\ e.to \notin ClosedNodes => /\ previous_nodes[e.to] = plan.previous_nodes[e.to]
                                         /\ previous_nodes[e.to][e.input] = e.from
           /\ InCurrentRun(e.from) => /\ next_nodes[e.from] = plan.next_nodes[e.from]
                                      /\ next_nodes[e.from][e.output] = e.to
BY EdgeFacts DEF RunsClosed, RunsSeparated, ScheduleInv, LinksUntouched, IsScheduled, InCurrentRun

-----------------------------------------------------------------------------
(***************************************************************************)
(* Closing a run                                                           *)
(***************************************************************************)

(* A stream whose producer waits still does so.                            *)
LEMMA WaitingStays ==
    ASSUME PlanKnown, FieldsOK, ScheduleInv, RunsSeparated, RunsClosed, CloseRun,
           NEW e \in Edges(plan), IsWaiting(e), e.from \notin ClosedNodes'
    PROVE  IsWaiting(e)'
<1>1. e.from \notin ToSet(scheduled_queries) /\ plan' = plan
  BY CloseRunNodes DEF CloseRun
<1>2. e.to \notin ToSet(scheduled_queries)
  BY <1>1, EdgeFacts, ProducersScheduled
<1>3. previous_nodes[e.to][e.input] = e.from
  BY <1>2, EdgeLinks DEF RunsClosed
<1>4. ~InCurrentRun(e.from)
  BY <1>1 DEF ScheduleInv, LinksUntouched, InCurrentRun
<1>5. QED
  BY <1>1, <1>3, <1>4, OutsideRun DEF IsWaiting

(* A stream that was handed over before stays so: only its input is cut    *)
(* off when the consumer's run is closed.                                  *)
LEMMA HandedOverStays ==
    ASSUME PlanKnown, FieldsOK, ScheduleInv, RunsSeparated, RunsClosed, CloseRun,
           NEW e \in Edges(plan), e.from \in ClosedNodes, IsHandedOver(e)
    PROVE  IsHandedOver(e)'
<1>1. ~InCurrentRun(e.from) /\ plan' = plan
  BY CloseRunNodes DEF CloseRun, InCurrentRun
<1>2. IsTogether(e)' <=> IsTogether(e)
  BY <1>1, CloseRunTogether DEF InCurrentRun
<1>3. ~InCurrentRun(Null)
  <2>1. ToSet(current_query_nodes) \subseteq plan.nodes
    BY ElementOfSeq, LenProperties DEF ToSet, FieldsOK, RunsOK
  <2>2. QED
    BY <2>1, PlanFacts DEF InCurrentRun
<1>4. previous_nodes[e.to][e.input] \in {e.from, Null}
  BY EdgeLinks DEF IsHandedOver, IsPipelined, IsForwarded
<1>5. ~InCurrentRun(previous_nodes[e.to][e.input])
  BY <1>1, <1>3, <1>4
<1>6. /\ next_nodes'[e.from][e.output] = next_nodes[e.from][e.output]
      /\ output_files'[e.from][e.output] = output_files[e.from][e.output]
      /\ input_files'[e.to][e.input] = input_files[e.to][e.input]
      /\ e \in linked_nodes' <=> e \in linked_nodes
  BY <1>1, <1>5, OutsideRun
<1>7. CASE IsTogether(e)
  <2>1. e.to \in ClosedNodes
    BY <1>7 DEF IsTogether, ClosedNodes
  <2>2. ~InCurrentRun(e.to)
    BY <2>1, CloseRunNodes DEF InCurrentRun
  <2>3. previous_nodes'[e.to][e.input] = previous_nodes[e.to][e.input]
    BY <2>2, InputLinks
  <2>4. QED
    BY <1>2, <1>6, <1>7, <2>3 DEF IsHandedOver, IsPipelined
<1>8. CASE ~IsTogether(e)
  <2>1. e.to \in ClosedNodes' => previous_nodes'[e.to][e.input] = Null
    <3>1. e.to \in ClosedNodes' <=> e.to \in ClosedNodes \/ InCurrentRun(e.to)
      BY CloseRunNodes DEF InCurrentRun
    <3>2. e.to \in ClosedNodes => previous_nodes[e.to][e.input] = Null
      BY <1>8 DEF IsHandedOver, IsForwarded
    <3>3. QED
      BY <1>5, <3>1, <3>2, InputLinks
  <2>2. QED
    BY <1>1, <1>2, <1>6, <1>8, <2>1 DEF IsHandedOver, IsForwarded, IsReadFromFile
<1>9. QED
  BY <1>7, <1>8

(* A stream between two nodes of the run stays in the pipeline.            *)
LEMMA PipelinedStream ==
    ASSUME PlanKnown, FieldsOK, ScheduleInv, RunsSeparated, RunsClosed, CloseRun,
           NEW e \in Edges(plan), IsWaiting(e), InCurrentRun(e.from), InCurrentRun(e.to)
    PROVE  IsHandedOver(e)'
<1>1. IsTogether(e)'
  BY CloseRunTogether DEF InCurrentRun
<1>2. e.to \notin ClosedNodes
  BY CloseRunNodes DEF InCurrentRun
<1>3. /\ previous_nodes[e.to][e.input] = e.from
      /\ next_nodes[e.from][e.output] = e.to
  BY <1>2, EdgeLinks
<1>4. /\ e.from \in plan.nodes /\ e.to \in plan.nodes
      /\ e.output \in DOMAIN next_nodes[e.from] /\ e.input \in DOMAIN input_files[e.to]
  BY EdgeFacts, EdgePlaces
<1>5. previous_nodes'[e.to][e.input] = e.from
  BY <1>3, InputLinks
<1>6. next_nodes'[e.from][e.output] = e.to
  BY <1>3, <1>4 DEF CloseRun, CheckExternalLinks, IsThroughFile, LeavesRun
<1>7. input_files'[e.to][e.input] = NoFile
  <2>1. FileSources(e.to, e.input) = {}
    BY <1>3 DEF FileSources, IsThroughFile, LeavesRun
  <2>2. QED
    BY <1>4, <2>1 DEF CloseRun, CheckExternalLinks, IsWaiting
<1>8. e \notin linked_nodes'
  <2>1. ASSUME NEW n \in plan.nodes, NEW i \in DOMAIN next_nodes[n], IsKept(n, i),
               e = Edge(n, i, next_nodes[n][i], FindPreviousNodeLocation(next_nodes[n][i], n))
        PROVE  FALSE
    BY <2>1 DEF Edge, IsKept, LeavesRun
  <2>2. e \notin KeptOutputs
    BY <2>1 DEF KeptOutputs
  <2>3. QED
    BY <2>2 DEF CloseRun, CheckExternalLinks, IsWaiting
<1>9. QED
  BY <1>1, <1>5, <1>6, <1>7, <1>8 DEF IsHandedOver, IsPipelined

(* With one stream between two nodes, its places are the ones found for it.*)
LEMMA OnlyPlaces ==
    ASSUME PlanKnown, FieldsOK, ScheduleInv, RunsSeparated, RunsClosed, HasSimpleEdges(plan),
           NEW e \in Edges(plan), InCurrentRun(e.from), e.to \notin ClosedNodes
    PROVE  /\ FindPreviousNodeLocation(e.to, e.from) = e.input
           /\ \A i \in DOMAIN next_nodes[e.from] :
                 next_nodes[e.from][i] = e.to => i = e.output
<1>1. /\ e.from \in plan.nodes /\ e.to \in plan.nodes /\ IsNode(e.from) /\ IsNode(e.to)
      /\ e.output \in DOMAIN next_nodes[e.from] /\ e.input \in DOMAIN previous_nodes[e.to]
  BY EdgeFacts, EdgePlaces
<1>2. /\ previous_nodes[e.to] = plan.previous_nodes[e.to]
      /\ next_nodes[e.from] = plan.next_nodes[e.from]
      /\ previous_nodes[e.to][e.input] = e.from
      /\ next_nodes[e.from][e.output] = e.to
  BY EdgeLinks
<1>3. FindPreviousNodeLocation(e.to, e.from) = e.input
  <2>1. /\ FindPreviousNodeLocation(e.to, e.from) \in DOMAIN previous_nodes[e.to]
        /\ previous_nodes[e.to][FindPreviousNodeLocation(e.to, e.from)] = e.from
    BY <1>1, <1>2, FoundPlace
  <2>2. QED
    BY <1>1, <1>2, <2>1 DEF HasSimpleEdges, Inputs
<1>4. QED
  BY <1>1, <1>2, <1>3 DEF HasSimpleEdges, Outputs

(* A stream that leaves the run: its consumer is told to read the expected *)
(* file, or else its memory is kept for the consumer.                      *)
LEMMA ForwardedStream ==
    ASSUME PlanKnown, FieldsOK, ScheduleInv, RunsSeparated, RunsClosed, HasSimpleEdges(plan),
           CloseRun, NEW e \in Edges(plan), IsWaiting(e),
           InCurrentRun(e.from), ~InCurrentRun(e.to)
    PROVE  IsHandedOver(e)'
<1>0. plan' = plan
  BY DEF CloseRun
<1>1. /\ e.from \in plan.nodes /\ e.to \in plan.nodes /\ IsNode(e.from) /\ IsNode(e.to)
      /\ e.output \in DOMAIN next_nodes[e.from] /\ e.input \in DOMAIN previous_nodes[e.to]
      /\ e.output \in DOMAIN output_files[e.from] /\ e.input \in DOMAIN input_files[e.to]
      /\ e.output \in Nat /\ e = Edge(e.from, e.output, e.to, e.input)
  BY EdgeFacts, EdgePlaces, StreamNumbers
<1>2. e.to \notin ToSet(scheduled_queries)
  BY EdgeFacts DEF RunsSeparated, InCurrentRun
<1>3. e.to \notin ClosedNodes /\ e.to \notin ClosedNodes'
  BY <1>2, CloseRunNodes DEF RunsClosed
<1>4. /\ previous_nodes[e.to][e.input] = e.from
      /\ next_nodes[e.from][e.output] = e.to
  BY <1>3, EdgeLinks
<1>5. /\ FindPreviousNodeLocation(e.to, e.from) = e.input
      /\ \A i \in DOMAIN next_nodes[e.from] : next_nodes[e.from][i] = e.to => i = e.output
  BY <1>3, OnlyPlaces
<1>6. LeavesRun(e.from, e.output)
  BY <1>1, <1>4 DEF LeavesRun
<1>7. ~IsTogether(e)'
  <2>1. ~IsTogether(e)
    BY <1>3 DEF IsTogether, ClosedNodes
  <2>2. QED
    BY <2>1, CloseRunTogether DEF InCurrentRun
<1>8. CASE plan.is_checked[e.from][e.output]
  <2>1. output_files[e.from][e.output] = ExpectedFile(e.from, e.output)
    BY <1>8 DEF IsWaiting
  <2>2. output_files[e.from][e.output] # NoFile
    BY <2>1, ExpectedIsFile
  <2>3. IsThroughFile(e.from, e.output)
    BY <1>6, <2>2 DEF IsThroughFile
  <2>4. FileSources(e.to, e.input) = {e.output}
    BY <1>1, <1>4, <1>5, <2>3 DEF FileSources
  <2>5. Max(FileSources(e.to, e.input)) = e.output
    <3>1. {e.output} \in SUBSET (0..e.output) /\ {e.output} # {}
      BY <1>1
    <3>2. Max({e.output}) \in {e.output}
      BY <1>1, <3>1, GreatestNumber
    <3>3. QED
      BY <2>4, <3>2
  <2>6. input_files'[e.to][e.input] = ExpectedFile(e.from, e.output)
    BY <1>1, <1>4, <2>1, <2>4, <2>5 DEF CloseRun, CheckExternalLinks
  <2>7. output_files'[e.from][e.output] = ExpectedFile(e.from, e.output)
    BY <1>1, <1>4, <2>1 DEF CloseRun, CheckExternalLinks
  <2>8. next_nodes'[e.from][e.output] = Null
    BY <1>1, <2>3 DEF CloseRun, CheckExternalLinks
  <2>9. e \notin linked_nodes'
    <3>1. ASSUME NEW n \in plan.nodes, NEW i \in DOMAIN next_nodes[n], IsKept(n, i),
                 e = Edge(n, i, next_nodes[n][i], FindPreviousNodeLocation(next_nodes[n][i], n))
          PROVE  FALSE
      <4>1. e.from = n /\ e.output = i
        BY <3>1 DEF Edge
      <4>2. QED
        BY <2>2, <3>1, <4>1 DEF IsKept
    <3>2. e \notin KeptOutputs
      BY <3>1 DEF KeptOutputs
    <3>3. QED
      BY <3>2 DEF CloseRun, CheckExternalLinks, IsWaiting
  <2>10. QED
    BY <1>0, <1>3, <1>7, <1>8, <2>6, <2>7, <2>8, <2>9
       DEF IsHandedOver, IsForwarded, IsReadFromFile
<1>9. CASE ~plan.is_checked[e.from][e.output]
  <2>1. output_files[e.from][e.output] = NoFile
    BY <1>9 DEF IsWaiting
  <2>2. IsKept(e.from, e.output)
    BY <1>6, <2>1 DEF IsKept
  <2>3. e \in KeptOutputs
    BY <1>1, <1>4, <1>5, <2>2 DEF KeptOutputs
  <2>4. FileSources(e.to, e.input) = {}
    BY <1>4, <1>5, <2>1 DEF FileSources, IsThroughFile
  <2>5. input_files'[e.to][e.input] = NoFile
    BY <1>1, <2>4 DEF CloseRun, CheckExternalLinks, IsWaiting
  <2>6. e \in linked_nodes'
    BY <2>3 DEF CloseRun, CheckExternalLinks
  <2>7. QED
    BY <1>0, <1>3, <1>7, <1>9, <2>5, <2>6 DEF IsHandedOver, IsForwarded
<1>10. QED
  BY <1>8, <1>9

(* A stream that both of its nodes know is an edge.                        *)
LEMMA StreamIsEdge ==
    ASSUME NEW n \in plan.nodes, NEW m \in plan.nodes,
           NEW i \in Outputs(plan, n), plan.next_nodes[n][i] = m,
           NEW j \in Inputs(plan, m), plan.previous_nodes[m][j] = n
    PROVE  Edge(n, i, m, j) \in Edges(plan)
<1> DEFINE Between(x, y) ==
               {Edge(x, k, y, l) : k \in {k \in Outputs(plan, x) : plan.next_nodes[x][k] = y},
                                   l \in {l \in Inputs(plan, y) : plan.previous_nodes[y][l] = x}}
<1>1. Edge(n, i, m, j) \in Between(n, m)
  OBVIOUS
<1>2. Edges(plan) = UNION {Between(x, y) : x \in plan.nodes, y \in plan.nodes}
  BY DEF Edges
<1> HIDE DEF Between
<1>3. QED
  BY <1>1, <1>2

(* Memory is kept for streams of the plan only.                            *)
LEMMA KeptAreEdges ==
    ASSUME PlanKnown, FieldsOK, ScheduleInv, RunsSeparated
    PROVE  KeptOutputs \subseteq Edges(plan)
<1>1. ASSUME NEW n \in plan.nodes, NEW i \in DOMAIN next_nodes[n], IsKept(n, i)
      PROVE  Edge(n, i, next_nodes[n][i], FindPreviousNodeLocation(next_nodes[n][i], n))
                 \in Edges(plan)
  <2> DEFINE m == next_nodes[n][i]
             j == FindPreviousNodeLocation(m, n)
  <2>1. next_nodes[n] = plan.next_nodes[n]
    BY <1>1 DEF IsKept, LeavesRun, InCurrentRun, RunsSeparated
  <2>2. m \in plan.nodes /\ ~IsScheduled(m)
    BY <1>1, LeavesRunForward DEF IsKept
  <2>3. previous_nodes[m] = plan.previous_nodes[m]
    BY <2>2 DEF ScheduleInv, LinksUntouched
  <2>4. i \in Outputs(plan, n) /\ plan.next_nodes[n][i] = m /\ IsNode(m)
    BY <1>1, <2>1 DEF Outputs, IsKept, LeavesRun
  <2>5. n \in Producers(plan, m)
    BY <2>2, <2>4, PlanFacts DEF Consumers, IsNode
  <2>6. PICK l \in DOMAIN previous_nodes[m] : previous_nodes[m][l] = n
    BY <2>3, <2>5 DEF Producers, Inputs
  <2>7. j \in Inputs(plan, m) /\ plan.previous_nodes[m][j] = n
    BY <2>2, <2>3, <2>6, FoundPlace DEF Inputs
  <2>8. Edge(n, i, m, j) \in Edges(plan)
    <3> HIDE DEF m, j
    <3>1. QED
      BY <2>2, <2>4, <2>7, StreamIsEdge
  <2>9. QED
    BY <2>8
<1>2. QED
  BY <1>1 DEF KeptOutputs

LEMMA CloseRunStreams ==
    ASSUME PlanKnown, FieldsOK, ScheduleInv, RunsSeparated, StreamsInv, CloseRun
    PROVE  StreamsInv'
<1>1. RunsClosed /\ RunsClosed' /\ plan' = plan
  BY CloseRunNodes DEF StreamsInv, CloseRun
<1>2. linked_nodes' \subseteq Edges(plan)
  BY KeptAreEdges DEF StreamsInv, CloseRun, CheckExternalLinks
<1>3. ASSUME HasSimpleEdges(plan), NEW e \in Edges(plan)
      PROVE  IF e.from \in ClosedNodes' THEN IsHandedOver(e)' ELSE IsWaiting(e)'
  <2>1. IF e.from \in ClosedNodes THEN IsHandedOver(e) ELSE IsWaiting(e)
    BY <1>3 DEF StreamsInv
  <2>2. CASE e.from \in ClosedNodes
    BY <1>1, <2>1, <2>2, CloseRunNodes, HandedOverStays
  <2>3. CASE InCurrentRun(e.from)
    <3>1. e.from \notin ClosedNodes /\ e.from \in ClosedNodes' /\ IsWaiting(e)
      BY <1>1, <2>1, <2>3, CloseRunNodes DEF InCurrentRun
    <3>2. QED
      BY <1>1, <1>3, <2>3, <3>1, PipelinedStream, ForwardedStream
  <2>4. CASE e.from \notin ClosedNodes /\ ~InCurrentRun(e.from)
    <3>1. e.from \notin ClosedNodes' /\ IsWaiting(e)
      BY <1>1, <2>1, <2>4, CloseRunNodes DEF InCurrentRun
    <3>2. QED
      BY <1>1, <3>1, WaitingStays
  <2>5. QED
    BY <2>2, <2>3, <2>4
<1>4. QED
  BY <1>1, <1>2, <1>3 DEF StreamsInv

LEMMA NextStreams ==
    PlanKnown /\ FieldsOK /\ ScheduleInv /\ RunsSeparated /\ StreamsInv /\ [Next]_vars
    => StreamsInv'
<1> SUFFICES ASSUME PlanKnown, FieldsOK, ScheduleInv, RunsSeparated, StreamsInv, [Next]_vars
             PROVE  StreamsInv'
  OBVIOUS
<1>1. CASE PlaceModule
  BY <1>1, AddToRunStreams DEF PlaceModule
<1>2. CASE PlacePassThrough
  BY <1>2, AddToRunStreams DEF PlacePassThrough
<1>3. CASE CloseRun
  BY <1>3, CloseRunStreams
<1>4. CASE OtherStep
  BY <1>4, OtherStreams
<1>5. QED
  BY <1>1, <1>2, <1>3, <1>4 DEF Next, OtherStep

-----------------------------------------------------------------------------
(***************************************************************************)
(* What the execution of the runs relies on: no node is in two runs or     *)
(* twice in one, no run is empty, memory is kept for a consumer in a later *)
(* run, to which the producer still leads, no run waits for a later one    *)
(* and no node for a later one of its run, and links are cut but never     *)
(* changed.                                                                *)
(***************************************************************************)
NodesOnce ==
    /\ IsInjective(current_query_nodes)
    /\ \A r \in DOMAIN query_node_runs_queue :
          /\ query_node_runs_queue[r].nodes # <<>>
          /\ IsInjective(query_node_runs_queue[r].nodes)
          /\ \A s \in DOMAIN query_node_runs_queue :
                r # s => ToSet(query_node_runs_queue[r].nodes)
                             \cap ToSet(query_node_runs_queue[s].nodes) = {}
KeptForLater ==
    \A e \in linked_nodes :
        /\ e.from \in ClosedNodes
        /\ next_nodes[e.from][e.output] = e.to
        /\ \A r \in DOMAIN query_node_runs_queue :
              e.from \in ToSet(query_node_runs_queue[r].nodes) =>
                  \A s \in 1..r : e.to \notin ToSet(query_node_runs_queue[s].nodes)
ProducersFirst ==
    \A r, s \in DOMAIN query_node_runs_queue : s < r =>
        \A m \in ToSet(query_node_runs_queue[s].nodes) :
            Producers(plan, m) \cap ToSet(query_node_runs_queue[r].nodes) = {}
LinksCut ==
    \A n \in plan.nodes :
        /\ \A i \in DOMAIN next_nodes[n] :
              next_nodes[n][i] \in {plan.next_nodes[n][i], Null}
        /\ \A j \in DOMAIN previous_nodes[n] :
              previous_nodes[n][j] \in {plan.previous_nodes[n][j], Null}
ComesFirst(nodes) ==
    \A k, l \in DOMAIN nodes : nodes[l] \in Producers(plan, nodes[k]) => l < k
RunsOrdered ==
    /\ ComesFirst(current_query_nodes)
    /\ \A r \in DOMAIN query_node_runs_queue : ComesFirst(query_node_runs_queue[r].nodes)
RunsReady ==
    /\ NodesOnce
    /\ RunsOrdered
    /\ KeptForLater
    /\ ProducersFirst
    /\ LinksCut
    /\ phase = "scheduled" => current_query_nodes = <<>>

LEMMA InitReady == Init => RunsReady
<1> SUFFICES ASSUME Init PROVE RunsReady
  OBVIOUS
<1>1. current_query_nodes = <<>> /\ query_node_runs_queue = <<>> /\ linked_nodes = {}
  BY DEF Init
<1>2. DOMAIN query_node_runs_queue = {}
  BY <1>1
<1>3. IsInjective(current_query_nodes)
  BY <1>1 DEF IsInjective
<1>4. LinksCut
  BY DEF Init, LinksCut
<1>5. RunsOrdered
  BY <1>1, <1>2 DEF RunsOrdered, ComesFirst
<1>6. QED
  BY <1>1, <1>2, <1>3, <1>4, <1>5 DEF RunsReady, NodesOnce, KeptForLater, ProducersFirst

LEMMA AddToRunReady ==
    ASSUME PlanKnown, FieldsOK, ScheduleInv, RunsReady, phase = "check", AddToRun(CurrentNode)
    PROVE  RunsReady'
<1>1. /\ UNCHANGED <<plan, nodeVars, query_node_runs_queue, linked_nodes>>
      /\ phase' = "extend"
  BY DEF AddToRun
<1>2. CurrentNode \notin ToSet(current_query_nodes) /\ CurrentNode \in plan.nodes
  BY CurrentNodeIsNew DEF ScheduleInv, LinksUntouched
<1>3. current_query_nodes \in Seq(plan.nodes) /\ IsInjective(current_query_nodes)
  BY DEF FieldsOK, RunsOK, RunsReady, NodesOnce
<1>4. IsInjective(current_query_nodes)'
  BY <1>2, <1>3, AppendNew DEF AddToRun
<1>5. KeptForLater'
  BY <1>1 DEF RunsReady, KeptForLater, ClosedNodes, nodeVars
<1>6. ProducersFirst' /\ LinksCut'
  BY <1>1 DEF RunsReady, ProducersFirst, LinksCut, nodeVars
<1>7. RunsOrdered'
  <2> DEFINE nodes == current_query_nodes
             len == Len(current_query_nodes)
  <2>1. /\ len \in Nat /\ DOMAIN nodes = 1..len /\ DOMAIN nodes' = 1..(len + 1)
        /\ \A k \in 1..len : nodes'[k] = nodes[k]
        /\ nodes'[len + 1] = CurrentNode
    BY <1>2, <1>3, AppendProperties, LenProperties DEF AddToRun
  <2>2. \A k \in 1..len : CurrentNode \notin Producers(plan, nodes[k])
    <3>1. CurrentNode \notin ToSet(scheduled_queries)
      BY CurrentNodeIsNew
    <3>2. \A k \in 1..len : nodes[k] \in ToSet(scheduled_queries)
      <4>1. ToSet(nodes) \subseteq ToSet(scheduled_queries)
        BY DEF ScheduleInv, LinksUntouched
      <4>2. QED
        BY <2>1, <4>1 DEF ToSet
    <3>3. QED
      BY <3>1, <3>2, ProducersScheduled
  <2>3. CurrentNode \notin Producers(plan, CurrentNode)
    BY CurrentNodeIsNew
  <2>4. ComesFirst(nodes)
    BY DEF RunsReady, RunsOrdered
  <2>5. ComesFirst(nodes)'
    <3> HIDE DEF len
    <3>1. \A k : k \in 1..(len + 1) <=> k \in 1..len \/ k = len + 1
      BY <2>1
    <3>2. \A k \in 1..len : k < len + 1
      BY <2>1
    <3>3. QED
      BY <1>1, <2>1, <2>2, <2>3, <2>4, <3>1, <3>2 DEF ComesFirst
  <2>6. QED
    BY <1>1, <2>5 DEF RunsReady, RunsOrdered, ComesFirst
<1>8. QED
  BY <1>1, <1>4, <1>5, <1>6, <1>7 DEF RunsReady, NodesOnce

LEMMA OtherReady ==
    ASSUME RunsReady, OtherStep
    PROVE  RunsReady'
<1>1. UNCHANGED <<plan, nodeVars, current_query_nodes, query_node_runs_queue, linked_nodes>>
  BY OtherSteps
<1>2. phase' = "scheduled" => phase = "scheduled"
  BY DEF OtherStep, ConsiderNextNode, EraseStartingNode, SkipNode, TryNextNode,
         OperationNotFound, FailToSchedule, vars
<1>3. KeptForLater'
  BY <1>1 DEF RunsReady, KeptForLater, ClosedNodes, nodeVars
<1>4. ProducersFirst' /\ LinksCut'
  BY <1>1 DEF RunsReady, ProducersFirst, LinksCut, nodeVars
<1>5. RunsOrdered'
  BY <1>1 DEF RunsReady, RunsOrdered, ComesFirst
<1>6. QED
  BY <1>1, <1>2, <1>3, <1>4, <1>5 DEF RunsReady, NodesOnce

LEMMA CloseRunReady ==
    ASSUME PlanKnown, FieldsOK, ScheduleInv, RunsSeparated, StreamsInv, RunsReady, CloseRun
    PROVE  RunsReady'
<1> DEFINE k == Len(query_node_runs_queue)
           Nodes(r) == ToSet(query_node_runs_queue[r].nodes)
<1>1. /\ DOMAIN query_node_runs_queue = 1..k /\ k \in Nat
      /\ DOMAIN query_node_runs_queue' = 1..(k + 1)
      /\ \A r \in 1..k : query_node_runs_queue'[r] = query_node_runs_queue[r]
      /\ query_node_runs_queue'[k + 1].nodes = current_query_nodes
      /\ current_query_nodes # <<>> /\ current_query_nodes' = <<>>
  BY ClosedRun DEF CurrentRun
<1>2. \A r : r \in 1..(k + 1) <=> r \in 1..k \/ r = k + 1
  BY <1>1
<1>3. /\ ClosedNodes' = ClosedNodes \cup ToSet(current_query_nodes)
      /\ ClosedNodes \cap ToSet(current_query_nodes) = {}
      /\ ClosedNodes' = ToSet(scheduled_queries)
  BY CloseRunNodes DEF StreamsInv
<1>4. \A r \in 1..k : Nodes(r) \cap ToSet(current_query_nodes) = {}
  BY <1>1, <1>3 DEF ClosedNodes
<1>5. \A r \in 1..(k + 1) : \A s \in 1..r : s \in 1..(k + 1) /\ (r \in 1..k => s \in 1..k)
  BY <1>1
<1>6. NodesOnce'
  <2>1. IsInjective(current_query_nodes)'
    BY <1>1 DEF IsInjective
  <2>2. ASSUME NEW r \in 1..(k + 1)
        PROVE  /\ query_node_runs_queue'[r].nodes # <<>>
               /\ IsInjective(query_node_runs_queue'[r].nodes)
               /\ \A s \in 1..(k + 1) :
                     r # s => ToSet(query_node_runs_queue'[r].nodes)
                                  \cap ToSet(query_node_runs_queue'[s].nodes) = {}
    <3>1. \A q \in 1..k :
             /\ query_node_runs_queue[q].nodes # <<>>
             /\ IsInjective(query_node_runs_queue[q].nodes)
             /\ \A s \in 1..k : q # s => Nodes(q) \cap Nodes(s) = {}
      BY <1>1 DEF RunsReady, NodesOnce
    <3>2. IsInjective(current_query_nodes)
      BY DEF RunsReady, NodesOnce
    <3> HIDE DEF k
    <3>3. ASSUME NEW s \in 1..(k + 1), r # s
          PROVE  ToSet(query_node_runs_queue'[r].nodes)
                     \cap ToSet(query_node_runs_queue'[s].nodes) = {}
      <4>1. \/ r \in 1..k /\ s \in 1..k
            \/ r \in 1..k /\ s = k + 1
            \/ r = k + 1 /\ s \in 1..k
        BY <1>2, <3>3
      <4>2. QED
        BY <1>1, <1>4, <3>1, <3>3, <4>1
    <3>4. /\ query_node_runs_queue'[r].nodes # <<>>
          /\ IsInjective(query_node_runs_queue'[r].nodes)
      BY <1>1, <1>2, <3>1, <3>2
    <3>5. QED
      BY <3>3, <3>4
  <2>3. QED
    BY <1>1, <2>1, <2>2 DEF NodesOnce
<1>7. ASSUME NEW e \in linked_nodes
      PROVE  /\ e.from \in ClosedNodes'
             /\ next_nodes'[e.from][e.output] = e.to
             /\ \A r \in 1..(k + 1) :
                   e.from \in ToSet(query_node_runs_queue'[r].nodes) =>
                       \A s \in 1..r : e.to \notin ToSet(query_node_runs_queue'[s].nodes)
  <2>1. /\ e.from \in ClosedNodes /\ e.from \in ClosedNodes'
        /\ e.from \notin ToSet(current_query_nodes)
        /\ next_nodes[e.from][e.output] = e.to
    BY <1>3 DEF RunsReady, KeptForLater
  <2>2. e \in Edges(plan)
    BY DEF StreamsInv
  <2>3. next_nodes'[e.from][e.output] = e.to
    BY <2>1, <2>2, EdgeFacts, EdgePlaces
       DEF CloseRun, CheckExternalLinks, IsThroughFile, LeavesRun, InCurrentRun
  <2>4. ASSUME NEW r \in 1..(k + 1), e.from \in ToSet(query_node_runs_queue'[r].nodes),
               NEW s \in 1..r
        PROVE  e.to \notin ToSet(query_node_runs_queue'[s].nodes)
    <3>1. r \in 1..k
      <4> HIDE DEF k
      <4>1. QED
        BY <1>1, <1>2, <2>1, <2>4
    <3>2. s \in 1..k
      BY <1>5, <3>1
    <3>3. QED
      <4> HIDE DEF k
      <4>1. QED
        BY <1>1, <2>4, <3>1, <3>2 DEF RunsReady, KeptForLater
  <2>5. QED
    BY <2>1, <2>3, <2>4
<1>8. ASSUME NEW e \in KeptOutputs
      PROVE  /\ e.from \in ClosedNodes'
             /\ next_nodes'[e.from][e.output] = e.to
             /\ \A r \in 1..(k + 1) :
                   e.from \in ToSet(query_node_runs_queue'[r].nodes) =>
                       \A s \in 1..r : e.to \notin ToSet(query_node_runs_queue'[s].nodes)
  <2>0. PICK n \in plan.nodes :
            \E i \in DOMAIN next_nodes[n] :
                /\ IsKept(n, i)
                /\ e = Edge(n, i, next_nodes[n][i],
                            FindPreviousNodeLocation(next_nodes[n][i], n))
    BY DEF KeptOutputs
  <2>1. PICK i \in DOMAIN next_nodes[n] :
            /\ IsKept(n, i)
            /\ e = Edge(n, i, next_nodes[n][i], FindPreviousNodeLocation(next_nodes[n][i], n))
    BY <2>0
  <2>2. e.from = n /\ e.output = i /\ e.to = next_nodes[n][i]
    BY <2>1 DEF Edge
  <2>3. n \in ToSet(current_query_nodes) /\ ~IsThroughFile(n, i)
    BY <2>1 DEF IsKept, IsThroughFile, LeavesRun, InCurrentRun
  <2>4. next_nodes'[n][i] = next_nodes[n][i]
    BY <2>1, <2>3 DEF CloseRun, CheckExternalLinks
  <2>5. e.to \notin ClosedNodes'
    BY <1>3, <2>1, <2>2, LeavesRunForward DEF IsKept, IsScheduled
  <2>6. \A s \in 1..(k + 1) : e.to \notin ToSet(query_node_runs_queue'[s].nodes)
    BY <1>1, <2>5 DEF ClosedNodes
  <2>7. QED
    BY <1>3, <1>5, <2>2, <2>3, <2>4, <2>6
<1>9. KeptForLater'
  BY <1>1, <1>7, <1>8 DEF KeptForLater, CloseRun, CheckExternalLinks
<1>10. ProducersFirst'
  <2>1. ASSUME NEW r \in 1..(k + 1), NEW s \in 1..(k + 1), s < r,
               NEW m \in ToSet(query_node_runs_queue'[s].nodes)
        PROVE  Producers(plan, m) \cap ToSet(query_node_runs_queue'[r].nodes) = {}
    <3>1. s \in 1..k
      BY <1>1, <2>1
    <3>2. m \in Nodes(s)
      BY <1>1, <2>1, <3>1
    <3>3. CASE r = k + 1
      <4>1. m \in ToSet(scheduled_queries) \ ToSet(current_query_nodes)
        BY <1>1, <1>3, <3>1, <3>2 DEF ClosedNodes, StreamsInv, RunsClosed
      <4>2. QED
        BY <1>1, <3>3, <4>1 DEF RunsSeparated
    <3>4. CASE r \in 1..k
      BY <1>1, <2>1, <3>1, <3>2, <3>4 DEF RunsReady, ProducersFirst
    <3>5. QED
      BY <1>2, <3>3, <3>4
  <2>2. plan' = plan
    BY <1>1, ClosedRun
  <2>3. QED
    BY <1>1, <2>1, <2>2 DEF ProducersFirst
<1>11. LinksCut'
  <2>1. plan' = plan
    BY DEF CloseRun
  <2>2. ASSUME NEW n \in plan.nodes, NEW i \in DOMAIN next_nodes'[n]
        PROVE  next_nodes'[n][i] \in {plan.next_nodes[n][i], Null}
    <3>1. i \in DOMAIN next_nodes[n] /\ next_nodes'[n][i] \in {next_nodes[n][i], Null}
      BY <2>2 DEF CloseRun, CheckExternalLinks
    <3>2. QED
      BY <3>1 DEF RunsReady, LinksCut
  <2>3. ASSUME NEW n \in plan.nodes, NEW j \in DOMAIN previous_nodes'[n]
        PROVE  previous_nodes'[n][j] \in {plan.previous_nodes[n][j], Null}
    <3>1. j \in DOMAIN previous_nodes[n]
          /\ previous_nodes'[n][j] \in {previous_nodes[n][j], Null}
      BY <2>3 DEF CloseRun, CheckExternalLinks
    <3>2. QED
      BY <3>1 DEF RunsReady, LinksCut
  <2>4. QED
    BY <2>1, <2>2, <2>3 DEF LinksCut
<1>12. RunsOrdered'
  <2>1. plan' = plan
    BY DEF CloseRun
  <2>2. ComesFirst(current_query_nodes)'
    BY <1>1 DEF ComesFirst
  <2>3. ASSUME NEW r \in 1..(k + 1)
        PROVE  ComesFirst(query_node_runs_queue[r].nodes)'
    <3>1. CASE r \in 1..k
      BY <1>1, <2>1, <3>1 DEF RunsReady, RunsOrdered, ComesFirst
    <3>2. CASE r = k + 1
      BY <1>1, <2>1, <3>2 DEF RunsReady, RunsOrdered, ComesFirst
    <3>3. QED
      BY <1>2, <3>1, <3>2
  <2>4. QED
    BY <1>1, <2>2, <2>3 DEF RunsOrdered
<1>13. QED
  BY <1>1, <1>6, <1>9, <1>10, <1>11, <1>12 DEF RunsReady

LEMMA NextReady ==
    PlanKnown /\ FieldsOK /\ ScheduleInv /\ RunsSeparated /\ StreamsInv /\ RunsReady
    /\ [Next]_vars => RunsReady'
<1> SUFFICES ASSUME PlanKnown, FieldsOK, ScheduleInv, RunsSeparated, StreamsInv, RunsReady,
                    [Next]_vars
             PROVE  RunsReady'
  OBVIOUS
<1>1. CASE PlaceModule
  BY <1>1, AddToRunReady DEF PlaceModule
<1>2. CASE PlacePassThrough
  BY <1>2, AddToRunReady DEF PlacePassThrough
<1>3. CASE CloseRun
  BY <1>3, CloseRunReady
<1>4. CASE OtherStep
  BY <1>4, OtherReady
<1>5. QED
  BY <1>1, <1>2, <1>3, <1>4 DEF Next, OtherStep

-----------------------------------------------------------------------------

(***************************************************************************)
(* The files of the streams at the edge of the plan, and of the outputs.   *)
(***************************************************************************)
OutputFile(n, i) ==
    IF plan.is_checked[n][i] THEN ExpectedFile(n, i)
    ELSE IF n \in ClosedNodes /\ ~IsNode(plan.next_nodes[n][i]) THEN ResultFile(n, i)
    ELSE NoFile
FilesNamed ==
    \A n \in plan.nodes :
        /\ \A j \in Inputs(plan, n) :
              ~IsNode(plan.previous_nodes[n][j]) => input_files[n][j] = TableFile(n, j)
        /\ \A i \in Outputs(plan, n) : output_files[n][i] = OutputFile(n, i)

LEMMA InitFiles == Init => FilesNamed
<1> SUFFICES ASSUME Init PROVE FilesNamed
  OBVIOUS
<1>1. ClosedNodes = {}
  BY DEF Init, ClosedNodes
<1>2. QED
  BY <1>1 DEF Init, FilesNamed, OutputFile

(* A step that closes no run changes no file.                              *)
LEMMA SameFiles ==
    ASSUME FilesNamed, UNCHANGED <<plan, nodeVars, query_node_runs_queue>>
    PROVE  FilesNamed'
<1>1. UNCHANGED <<plan, input_files, output_files, ClosedNodes>>
  BY DEF nodeVars, ClosedNodes
<1>2. QED
  BY <1>1 DEF FilesNamed, OutputFile, Inputs, Outputs, IsNode

LEMMA CloseRunFiles ==
    ASSUME PlanKnown, FieldsOK, ScheduleInv, RunsSeparated, StreamsInv, LinksCut, FilesNamed,
           CloseRun
    PROVE  FilesNamed'
<1>1. /\ ClosedNodes' = ClosedNodes \cup ToSet(current_query_nodes)
      /\ ClosedNodes \cap ToSet(current_query_nodes) = {}
      /\ plan' = plan
  BY CloseRunNodes, ClosedRun DEF StreamsInv
<1>2. \A n \in plan.nodes :
         /\ DOMAIN previous_nodes[n] = Inputs(plan, n) /\ DOMAIN next_nodes[n] = Outputs(plan, n)
         /\ DOMAIN input_files[n] = Inputs(plan, n) /\ DOMAIN output_files[n] = Outputs(plan, n)
  BY DEF FieldsOK, LinksOK, FilesOK
<1>3. ASSUME NEW n \in plan.nodes, NEW j \in Inputs(plan, n), ~IsNode(plan.previous_nodes[n][j])
      PROVE  input_files'[n][j] = TableFile(n, j)
  <2>1. previous_nodes[n][j] = Null
    BY <1>2, <1>3 DEF LinksCut, IsNode
  <2>2. FileSources(n, j) = {}
    BY <2>1 DEF FileSources, IsNode
  <2>3. input_files'[n][j] = input_files[n][j]
    BY <1>2, <2>2 DEF CloseRun, CheckExternalLinks
  <2>4. QED
    BY <1>3, <2>3 DEF FilesNamed
<1>4. ASSUME NEW n \in plan.nodes, NEW i \in Outputs(plan, n)
      PROVE  output_files'[n][i] = OutputFile(n, i)'
  <2>1. output_files'[n][i] =
           IF InCurrentRun(n) /\ ~IsNode(next_nodes[n][i]) /\ output_files[n][i] = NoFile
           THEN ResultFile(n, i) ELSE output_files[n][i]
    BY <1>2 DEF CloseRun, CheckExternalLinks
  <2>2. output_files[n][i] = OutputFile(n, i)
    BY DEF FilesNamed
  <2>3. OutputFile(n, i)' =
           IF plan.is_checked[n][i] THEN ExpectedFile(n, i)
           ELSE IF (n \in ClosedNodes \/ InCurrentRun(n)) /\ ~IsNode(plan.next_nodes[n][i])
           THEN ResultFile(n, i) ELSE NoFile
    BY <1>1 DEF OutputFile, InCurrentRun
  <2>4. InCurrentRun(n) => next_nodes[n] = plan.next_nodes[n] /\ n \notin ClosedNodes
    BY <1>1 DEF InCurrentRun, RunsSeparated
  <2>5. CASE plan.is_checked[n][i]
    BY <2>1, <2>2, <2>3, <2>5, ExpectedIsFile DEF OutputFile
  <2>6. CASE ~plan.is_checked[n][i] /\ InCurrentRun(n)
    BY <2>1, <2>2, <2>3, <2>4, <2>6 DEF OutputFile
  <2>7. CASE ~plan.is_checked[n][i] /\ ~InCurrentRun(n)
    BY <2>1, <2>2, <2>3, <2>7 DEF OutputFile
  <2>8. QED
    BY <2>5, <2>6, <2>7
<1>5. QED
  BY <1>1, <1>3, <1>4 DEF FilesNamed, Inputs, Outputs, IsNode

LEMMA NextFiles ==
    PlanKnown /\ FieldsOK /\ ScheduleInv /\ RunsSeparated /\ StreamsInv /\ LinksCut /\ FilesNamed
    /\ [Next]_vars => FilesNamed'
<1> SUFFICES ASSUME PlanKnown, FieldsOK, ScheduleInv, RunsSeparated, StreamsInv, LinksCut,
                    FilesNamed, [Next]_vars
             PROVE  FilesNamed'
  OBVIOUS
<1>1. CASE PlaceModule \/ PlacePassThrough
  <2>1. UNCHANGED <<plan, nodeVars, query_node_runs_queue>>
    BY <1>1 DEF PlaceModule, PlacePassThrough, AddToRun
  <2>2. QED
    BY <2>1, SameFiles
<1>2. CASE CloseRun
  BY <1>2, CloseRunFiles
<1>3. CASE OtherStep
  BY <1>3, OtherSteps, SameFiles
<1>4. QED
  BY <1>1, <1>2, <1>3 DEF Next, OtherStep

-----------------------------------------------------------------------------
(***************************************************************************)
(* The locations of a run's modules.  A module put at the end leaves the   *)
(* others where they are; one put before another takes a location that a   *)
(* node of the run has already, and the run keeps two nodes there.  So     *)
(* where no two nodes share a location, the locations follow the order of  *)
(* the nodes and there is no module without one.                           *)
(***************************************************************************)
SharesLocation(nodes) ==
    \E k, l \in DOMAIN nodes :
        /\ k # l /\ NeedsModule(nodes[k]) /\ NeedsModule(nodes[l])
        /\ module_location[nodes[k]] = module_location[nodes[l]]
FollowsOrder(run) ==
    /\ \A k, l \in DOMAIN run.nodes :
          k < l /\ NeedsModule(run.nodes[k]) /\ NeedsModule(run.nodes[l])
          => module_location[run.nodes[k]] < module_location[run.nodes[l]]
    /\ \A k \in DOMAIN run.nodes :
          NeedsModule(run.nodes[k]) => module_location[run.nodes[k]] \in 1..Len(run.modules)
    /\ \A x \in 1..Len(run.modules) :
          \E k \in DOMAIN run.nodes :
              NeedsModule(run.nodes[k]) /\ module_location[run.nodes[k]] = x
IsLocated(run) == SharesLocation(run.nodes) \/ FollowsOrder(run)
RunsLocated ==
    /\ IsLocated(CurrentRun)
    /\ \A r \in DOMAIN query_node_runs_queue : IsLocated(query_node_runs_queue[r])

LEMMA InitLocated == Init => RunsLocated
<1> SUFFICES ASSUME Init PROVE RunsLocated
  OBVIOUS
<1>1. current_set = <<>> /\ current_query_nodes = <<>> /\ query_node_runs_queue = <<>>
  BY DEF Init
<1>2. 1..Len(current_set) = {} /\ DOMAIN current_query_nodes = {}
      /\ DOMAIN query_node_runs_queue = {}
  BY <1>1
<1>3. QED
  BY <1>2 DEF RunsLocated, IsLocated, FollowsOrder, CurrentRun

(* What is said of the nodes of a run stays true while these keep their    *)
(* locations.                                                              *)
LEMMA StaysLocated ==
    ASSUME NEW run, IsLocated(run), plan' = plan,
           \A k \in DOMAIN run.nodes : module_location'[run.nodes[k]] = module_location[run.nodes[k]]
    PROVE  IsLocated(run)'
<1>1. \A n : NeedsModule(n)' <=> NeedsModule(n)
  BY DEF NeedsModule
<1>2. CASE SharesLocation(run.nodes)
  BY <1>1, <1>2 DEF IsLocated, SharesLocation
<1>3. CASE FollowsOrder(run)
  <2>1. FollowsOrder(run)'
    BY <1>1, <1>3 DEF FollowsOrder
  <2>2. QED
    BY <2>1 DEF IsLocated
<1>4. QED
  BY <1>2, <1>3 DEF IsLocated

(* The nodes of closed runs keep theirs.                                   *)
LEMMA QueueStaysLocated ==
    ASSUME FieldsOK, RunsClosed, RunsLocated, NEW n, n \notin ToSet(scheduled_queries),
           UNCHANGED <<plan, query_node_runs_queue>>,
           \A m \in plan.nodes : m # n => module_location'[m] = module_location[m]
    PROVE  (\A r \in DOMAIN query_node_runs_queue : IsLocated(query_node_runs_queue[r]))'
<1> SUFFICES ASSUME NEW r \in DOMAIN query_node_runs_queue
             PROVE  IsLocated(query_node_runs_queue[r])'
  OBVIOUS
<1> DEFINE run == query_node_runs_queue[r]
<1>1. run \in Run
  <2>1. query_node_runs_queue \in Seq(Run)
    BY DEF FieldsOK, RunsOK
  <2>2. QED
    BY <2>1, LenProperties, ElementOfSeq
<1>2. \A k \in DOMAIN run.nodes : run.nodes[k] \in plan.nodes /\ run.nodes[k] \in ClosedNodes
  <2>1. run.nodes \in Seq(plan.nodes)
    BY <1>1 DEF Run
  <2>2. \A k \in DOMAIN run.nodes : run.nodes[k] \in plan.nodes
    BY <2>1, LenProperties, ElementOfSeq
  <2>3. \A k \in DOMAIN run.nodes : run.nodes[k] \in ToSet(run.nodes)
    BY DEF ToSet
  <2>4. QED
    BY <2>2, <2>3 DEF ClosedNodes
<1>3. \A k \in DOMAIN run.nodes : run.nodes[k] # n
  BY <1>2 DEF RunsClosed
<1>4. IsLocated(run)
  BY DEF RunsLocated
<1>5. \A k \in DOMAIN run.nodes : module_location'[run.nodes[k]] = module_location[run.nodes[k]]
  BY <1>2, <1>3
<1>6. ASSUME NEW x, x = run PROVE IsLocated(x)'
  BY <1>4, <1>5, <1>6, StaysLocated
<1>7. QED
  BY <1>6 DEF IsLocated, SharesLocation, FollowsOrder

LEMMA PlaceModuleLocated ==
    ASSUME PlanKnown, FieldsOK, ScheduleInv, RunsClosed, RunsLocated, PlaceModule
    PROVE  RunsLocated'
<1> DEFINE n == CurrentNode
           nodes == current_query_nodes
           k == Len(nodes)
           length == Len(current_set)
<1>1. PICK choice \in SuitableChoices(n) :
          /\ choice.position + 1 \in 1..(Len(current_set) + 1)
          /\ NewModule(n, choice) \in QueryOperation
          /\ current_set' = InsertAt(current_set, choice.position + 1, NewModule(n, choice))
          /\ module_location' = [module_location EXCEPT ![n] = choice.position + 1]
  BY PlacedModule
<1> DEFINE place == choice.position + 1
<1>2. /\ n \in plan.nodes /\ n \notin ToSet(scheduled_queries) /\ NeedsModule(n)
      /\ nodes' = Append(nodes, n)
      /\ UNCHANGED <<plan, query_node_runs_queue>>
  BY CurrentNodeIsNew DEF PlaceModule, AddToRun, NeedsModule
<1>3. /\ length \in Nat /\ Len(current_set') = length + 1
      /\ place \in 1..(length + 1)
  BY <1>1, InsertAtProperties, LenProperties DEF FieldsOK, RunsOK
<1>4. /\ nodes \in Seq(plan.nodes) /\ k \in Nat /\ DOMAIN nodes = 1..k
      /\ DOMAIN nodes' = 1..(k + 1) /\ nodes'[k + 1] = n
      /\ \A l \in 1..k : nodes'[l] = nodes[l]
  BY <1>2, AppendProperties, LenProperties DEF FieldsOK, RunsOK
<1>5. \A l \in 1..k : nodes[l] \in plan.nodes /\ nodes[l] # n
  <2>1. ToSet(nodes) \subseteq ToSet(scheduled_queries)
    BY DEF ScheduleInv, LinksUntouched
  <2>2. \A l \in 1..k : nodes[l] \in ToSet(nodes)
    BY <1>4 DEF ToSet
  <2>3. QED
    BY <1>2, <1>4, <2>1, <2>2, ElementOfSeq
<1>6. /\ module_location'[n] = place
      /\ \A m \in plan.nodes : m # n => module_location'[m] = module_location[m]
  BY <1>1, <1>2 DEF FieldsOK, RunsOK
<1>7. IsLocated(CurrentRun)
  BY DEF RunsLocated
<1> HIDE DEF place, n, k, length
<1> DEFINE loc(l) == module_location[nodes[l]]
           needs(l) == NeedsModule(nodes[l])
<1> DEFINE loc2(l) == module_location'[nodes'[l]]
           needs2(l) == NeedsModule(nodes'[l])
<1>8. /\ \A l \in 1..k : loc2(l) = loc(l) /\ (needs2(l) <=> needs(l))
      /\ loc2(k + 1) = place /\ needs2(k + 1)
  BY <1>2, <1>4, <1>5, <1>6
<1>9. IsLocated(CurrentRun)'
  <2> DEFINE same == \E l, h \in 1..k : l # h /\ needs(l) /\ needs(h) /\ loc(l) = loc(h)
  <2>1. SharesLocation(nodes) <=> same
    BY <1>4, Zenon DEF SharesLocation
  <2> DEFINE same2 == \E l, h \in 1..(k + 1) :
                         l # h /\ needs2(l) /\ needs2(h) /\ loc2(l) = loc2(h)
  <2>9. same2 => SharesLocation(nodes)'
    BY <1>2, <1>4, Zenon DEF SharesLocation, NeedsModule
  <2>10. \A l \in 1..k : l \in 1..(k + 1)
    BY <1>4
  <2> HIDE DEF loc, needs, loc2, needs2
  <2>2. same => SharesLocation(nodes)'
    BY <1>8, <2>9, <2>10
  <2>3. ASSUME NEW l \in 1..k, needs(l), loc(l) = place
        PROVE  SharesLocation(nodes)'
    <3>1. l # k + 1 /\ l \in 1..(k + 1) /\ k + 1 \in 1..(k + 1)
      BY <1>4
    <3>2. QED
      BY <1>8, <2>3, <2>9, <3>1
  <2>4. ASSUME FollowsOrder(CurrentRun), \A l \in 1..k : needs(l) => loc(l) # place
        PROVE  FollowsOrder(CurrentRun)'
    <3>1. /\ \A l, h \in 1..k : l < h /\ needs(l) /\ needs(h) => loc(l) < loc(h)
          /\ \A l \in 1..k : needs(l) => loc(l) \in 1..length
          /\ \A x \in 1..length : \E l \in 1..k : needs(l) /\ loc(l) = x
      BY <1>4, <2>4 DEF FollowsOrder, CurrentRun, length, loc, needs
    <3>2. place = length + 1
      <4>1. SUFFICES ASSUME place # length + 1 PROVE FALSE
        OBVIOUS
      <4>2. place \in 1..length
        BY <1>3, <4>1
      <4>3. QED
        BY <2>4, <3>1, <4>2
    <3>3. /\ \A l \in 1..k : loc2(l) = loc(l) /\ (needs2(l) <=> needs(l))
          /\ loc2(k + 1) = length + 1 /\ needs2(k + 1)
      BY <1>8, <3>2
    <3>4. \A l, h \in 1..(k + 1) : l < h /\ needs2(l) /\ needs2(h) => loc2(l) < loc2(h)
      <4> SUFFICES ASSUME NEW l \in 1..(k + 1), NEW h \in 1..(k + 1), l < h, needs2(l), needs2(h)
                   PROVE  loc2(l) < loc2(h)
        OBVIOUS
      <4>1. l \in 1..k
        BY <1>4
      <4>2. CASE h = k + 1
        BY <1>3, <3>1, <3>3, <4>1, <4>2
      <4>3. CASE h # k + 1
        <5>1. h \in 1..k
          BY <1>4, <4>3
        <5>2. QED
          BY <3>1, <3>3, <4>1, <5>1
      <4>4. QED
        BY <4>2, <4>3
    <3>5. \A l \in 1..(k + 1) : needs2(l) => loc2(l) \in 1..(length + 1)
      <4> SUFFICES ASSUME NEW l \in 1..(k + 1), needs2(l) PROVE loc2(l) \in 1..(length + 1)
        OBVIOUS
      <4>1. CASE l = k + 1
        BY <1>3, <3>3, <4>1
      <4>2. CASE l # k + 1
        <5>1. l \in 1..k
          BY <1>4, <4>2
        <5>2. QED
          BY <1>3, <3>1, <3>3, <5>1
      <4>3. QED
        BY <4>1, <4>2
    <3>6. ASSUME NEW x \in 1..(length + 1)
          PROVE  \E l \in 1..(k + 1) : needs2(l) /\ loc2(l) = x
      <4>1. CASE x = length + 1
        <5>1. k + 1 \in 1..(k + 1)
          BY <1>4
        <5>2. QED
          BY <3>3, <4>1, <5>1
      <4>2. CASE x # length + 1
        <5>1. x \in 1..length
          BY <1>3, <4>2
        <5>2. PICK l \in 1..k : needs(l) /\ loc(l) = x
          BY <3>1, <5>1
        <5>3. l \in 1..(k + 1)
          BY <1>4
        <5>4. QED
          BY <3>3, <5>2, <5>3
      <4>3. QED
        BY <4>1, <4>2
    <3>7. DOMAIN nodes' = 1..(k + 1) /\ Len(current_set') = length + 1
      BY <1>3, <1>4
    <3>8. QED
      BY <1>2, <3>4, <3>5, <3>6, <3>7
         DEF FollowsOrder, CurrentRun, loc2, needs2, NeedsModule
  <2>5. CASE SharesLocation(nodes)
    BY <2>1, <2>2, <2>5 DEF IsLocated, CurrentRun
  <2>6. CASE \E l \in 1..k : needs(l) /\ loc(l) = place
    BY <2>3, <2>6 DEF IsLocated, CurrentRun
  <2>7. CASE ~SharesLocation(nodes) /\ \A l \in 1..k : needs(l) => loc(l) # place
    <3>1. FollowsOrder(CurrentRun)
      BY <1>7, <2>7 DEF IsLocated, CurrentRun
    <3>2. QED
      BY <2>4, <2>7, <3>1 DEF IsLocated
  <2>8. QED
    BY <2>5, <2>6, <2>7
<1>10. QED
  BY <1>2, <1>6, <1>9, QueueStaysLocated DEF RunsLocated
LEMMA PlacePassThroughLocated ==
    ASSUME PlanKnown, FieldsOK, ScheduleInv, RunsClosed, RunsLocated, PlacePassThrough
    PROVE  RunsLocated'
<1> DEFINE n == CurrentNode
           k == Len(current_query_nodes)
<1>1. /\ n \in plan.nodes /\ n \notin ToSet(scheduled_queries) /\ ~NeedsModule(n)
      /\ current_query_nodes' = Append(current_query_nodes, n)
      /\ UNCHANGED <<plan, module_location, current_set, query_node_runs_queue>>
  BY CurrentNodeIsNew DEF PlacePassThrough, AddToRun, NeedsModule
<1>2. /\ k \in Nat /\ DOMAIN current_query_nodes = 1..k
      /\ DOMAIN current_query_nodes' = 1..(k + 1) /\ current_query_nodes'[k + 1] = n
      /\ \A l \in 1..k : current_query_nodes'[l] = current_query_nodes[l]
  BY <1>1, AppendProperties, LenProperties DEF FieldsOK, RunsOK
<1> HIDE DEF n, k
<1>3. \A l \in 1..k : l \in 1..(k + 1)
  BY <1>2
<1>4. \A l \in 1..(k + 1) : NeedsModule(current_query_nodes'[l]) => l \in 1..k
  BY <1>1, <1>2
<1>5. IsLocated(CurrentRun)
  BY DEF RunsLocated
<1>6. CASE SharesLocation(current_query_nodes)
  <2>1. SharesLocation(current_query_nodes)'
    BY <1>1, <1>2, <1>3, <1>6 DEF SharesLocation, NeedsModule
  <2>2. QED
    BY <1>1, <1>6, <2>1, QueueStaysLocated DEF RunsLocated, IsLocated, CurrentRun
<1>7. CASE FollowsOrder(CurrentRun)
  <2> DEFINE needs(l) == NeedsModule(current_query_nodes'[l])
             loc(l) == module_location[current_query_nodes'[l]]
  <2>1. /\ \A l, h \in 1..k : l < h /\ needs(l) /\ needs(h) => loc(l) < loc(h)
        /\ \A l \in 1..k : needs(l) => loc(l) \in 1..Len(current_set)
        /\ \A x \in 1..Len(current_set) : \E l \in 1..k : needs(l) /\ loc(l) = x
    <3> DEFINE needed(l) == NeedsModule(current_query_nodes[l])
               place(l) == module_location[current_query_nodes[l]]
    <3>1. /\ \A l, h \in 1..k : l < h /\ needed(l) /\ needed(h) => place(l) < place(h)
          /\ \A l \in 1..k : needed(l) => place(l) \in 1..Len(current_set)
          /\ \A x \in 1..Len(current_set) : \E l \in 1..k : needed(l) /\ place(l) = x
      BY <1>2, <1>7 DEF FollowsOrder, CurrentRun
    <3>2. \A l \in 1..k : (needs(l) <=> needed(l)) /\ loc(l) = place(l)
      BY <1>2
    <3> HIDE DEF needs, loc, needed, place
    <3>3. QED
      BY <3>1, <3>2
  <2>2. \A l \in 1..(k + 1) : needs(l) => l \in 1..k
    BY <1>4
  <2> HIDE DEF needs, loc
  <2>3. /\ \A l, h \in 1..(k + 1) : l < h /\ needs(l) /\ needs(h) => loc(l) < loc(h)
        /\ \A l \in 1..(k + 1) : needs(l) => loc(l) \in 1..Len(current_set)
        /\ \A x \in 1..Len(current_set) : \E l \in 1..(k + 1) : needs(l) /\ loc(l) = x
    BY <1>3, <2>1, <2>2
  <2>4. FollowsOrder(CurrentRun)'
    BY <1>1, <1>2, <2>3 DEF FollowsOrder, CurrentRun, needs, loc, NeedsModule
  <2>5. QED
    BY <1>1, <2>4, QueueStaysLocated DEF RunsLocated, IsLocated
<1>8. QED
  BY <1>5, <1>6, <1>7 DEF IsLocated, CurrentRun

LEMMA CloseRunLocated ==
    ASSUME FieldsOK, RunsLocated, CloseRun
    PROVE  RunsLocated'
<1>1. UNCHANGED <<plan, module_location>>
  BY DEF CloseRun
<1>2. IsLocated(CurrentRun)'
  <2>1. DOMAIN current_query_nodes' = {} /\ 1..Len(current_set') = {}
    BY ClosedRun
  <2>2. QED
    BY <2>1 DEF IsLocated, FollowsOrder, CurrentRun
<1>3. \A r \in DOMAIN query_node_runs_queue' : IsLocated(query_node_runs_queue'[r])
  BY ClosedRun DEF RunsLocated
<1>4. (\A r \in DOMAIN query_node_runs_queue : IsLocated(query_node_runs_queue[r]))'
  BY <1>1, <1>3 DEF IsLocated, SharesLocation, FollowsOrder, NeedsModule
<1>5. QED
  BY <1>2, <1>4 DEF RunsLocated

LEMMA NextLocated ==
    PlanKnown /\ FieldsOK /\ ScheduleInv /\ RunsClosed /\ RunsLocated
    /\ [Next]_vars => RunsLocated'
<1> SUFFICES ASSUME PlanKnown, FieldsOK, ScheduleInv, RunsClosed, RunsLocated, [Next]_vars
             PROVE  RunsLocated'
  OBVIOUS
<1>1. CASE PlaceModule
  BY <1>1, PlaceModuleLocated
<1>2. CASE PlacePassThrough
  BY <1>2, PlacePassThroughLocated
<1>3. CASE CloseRun
  BY <1>3, CloseRunLocated
<1>4. CASE OtherStep
  <2>1. UNCHANGED <<plan, current_set, current_query_nodes, query_node_runs_queue,
                    module_location>>
    BY <1>4 DEF OtherStep, ConsiderNextNode, EraseStartingNode, SkipNode, TryNextNode,
                OperationNotFound, FailToSchedule, vars
  <2>2. QED
    BY <2>1 DEF RunsLocated, IsLocated, SharesLocation, FollowsOrder, CurrentRun, NeedsModule
<1>5. QED
  BY <1>1, <1>2, <1>3, <1>4 DEF Next, OtherStep

-----------------------------------------------------------------------------
(***************************************************************************)
(* The invariant for a program of which the scheduler is a part.           *)
(***************************************************************************)
SchedulerInv == IInv /\ StreamsInv /\ RunsReady /\ FilesNamed /\ RunsLocated

LEMMA InitInvariant == Init => SchedulerInv
<1>1. Init => PlanKnown /\ RunsSeparated /\ LinkedOK
  BY DEF Init, PlanKnown, RunsSeparated, LinkedOK, ToSet
<1>2. QED
  BY <1>1, InitType, InitSchedule, InitStreams, InitReady, InitFiles, InitLocated
     DEF IInv, SchedulerInv

LEMMA StepInvariant == SchedulerInv /\ [Next]_vars => SchedulerInv'
<1> SUFFICES ASSUME SchedulerInv, [Next]_vars PROVE SchedulerInv'
  OBVIOUS
<1>1. /\ PlanKnown /\ FieldsOK /\ ScheduleInv /\ RunsSeparated /\ LinkedOK /\ StreamsInv
      /\ RunsReady /\ FilesNamed /\ RunsLocated
  BY DEF SchedulerInv, IInv
<1>2. FieldsOK' /\ ScheduleInv' /\ RunsSeparated' /\ LinkedOK' /\ StreamsInv' /\ RunsReady'
  BY <1>1, NextType, NextSchedule, NextRunsSeparated, NextLinked, NextStreams, NextReady
<1>4. RunsClosed /\ LinksCut
  BY <1>1 DEF StreamsInv, RunsReady
<1>5. FilesNamed' /\ RunsLocated'
  BY <1>1, <1>4, NextFiles, NextLocated
<1>3. PlanKnown'
  BY <1>1 DEF PlanKnown, vars, Next, PlaceModule, PlacePassThrough, AddToRun,
         ConsiderNextNode, EraseStartingNode, TryNextNode, SkipNode,
         OperationNotFound, CloseRun, FailToSchedule
<1>6. QED
  BY <1>2, <1>3, <1>5 DEF SchedulerInv, IInv

(* What that says of a stream whose consumer is in a queued run: both ends *)
(* have the link if they are in that run together, else the consumer has   *)
(* none.                                                                   *)
LEMMA StreamsSettled ==
    ASSUME SchedulerInv, HasSimpleEdges(plan), NEW e \in Edges(plan),
           NEW r \in DOMAIN query_node_runs_queue,
           e.to \in ToSet(query_node_runs_queue[r].nodes)
    PROVE  IF e.from \in ToSet(query_node_runs_queue[r].nodes)
           THEN /\ previous_nodes[e.to][e.input] = e.from
                /\ next_nodes[e.from][e.output] = e.to
           ELSE previous_nodes[e.to][e.input] = Null
<1>1. PlanKnown /\ FieldsOK /\ ScheduleInv /\ RunsSeparated /\ StreamsInv /\ NodesOnce
  BY DEF SchedulerInv, IInv, RunsReady
<1>2. e.to \in ClosedNodes
  BY DEF ClosedNodes
<1>3. e.from \in Producers(plan, e.to)
  BY <1>1, EdgeFacts
<1>4. e.to \in ToSet(scheduled_queries) \ ToSet(current_query_nodes)
  BY <1>1, <1>2 DEF StreamsInv, RunsClosed
<1>5. e.from \in ToSet(scheduled_queries)
  BY <1>1, <1>3, <1>4, ProducersScheduled
<1>6. e.from \notin ToSet(current_query_nodes)
  BY <1>1, <1>3, <1>4 DEF RunsSeparated
<1>7. e.from \in ClosedNodes
  BY <1>1, <1>5, <1>6 DEF StreamsInv, RunsClosed
<1>8. IsHandedOver(e)
  BY <1>1, <1>7 DEF StreamsInv
<1>9. IsTogether(e) <=> e.from \in ToSet(query_node_runs_queue[r].nodes)
  BY <1>1 DEF IsTogether, NodesOnce
<1>10. QED
  BY <1>2, <1>8, <1>9 DEF IsHandedOver, IsPipelined, IsForwarded

-----------------------------------------------------------------------------
(***************************************************************************)
(* Theorems of the specification                                           *)
(***************************************************************************)

LEMMA StreamsInvariantHolds == Spec => []StreamsInv
<1>1. IInv /\ StreamsInv /\ [Next]_vars => StreamsInv'
  BY NextStreams DEF IInv
<1>2. QED
  BY <1>1, InitStreams, InvariantHolds, PTL DEF Spec

(* The run being built has none of the closed nodes.                       *)
LEMMA TogetherIsSameRun ==
    ASSUME FieldsOK, RunsClosed, NEW e, e.from \in ClosedNodes
    PROVE  InSameRun(e.from, e.to) <=> IsTogether(e)
<1>1. e.from \notin ToSet(CurrentRun.nodes)
  BY DEF RunsClosed, CurrentRun
<1>2. InSameRun(e.from, e.to) => IsTogether(e)
  BY <1>1, RunsAre DEF InSameRun, IsTogether
<1>3. \A r \in DOMAIN query_node_runs_queue :
         r \in DOMAIN AllRuns /\ AllRuns[r] = query_node_runs_queue[r]
  <2>1. query_node_runs_queue \in Seq(Run) /\ CurrentRun \in Run
    BY DEF FieldsOK, RunsOK, Run, CurrentRun
  <2>2. AllRuns = Append(query_node_runs_queue, CurrentRun)
    BY DEF AllRuns, CurrentRun
  <2>3. QED
    BY <2>1, <2>2, AppendProperties, LenProperties
<1>4. QED
  BY <1>2, <1>3 DEF InSameRun, IsTogether

(* Once the run of its producer is queued, each stream of a graph without  *)
(* parallel streams has exactly one way to its consumer.                   *)
THEOREM StreamsHandedOverHolds == Spec => []StreamsHandedOver
<1>1. IInv /\ StreamsInv => StreamsHandedOver
  <2> SUFFICES ASSUME IInv, StreamsInv, NEW e \in Edges(plan), HasSimpleEdges(plan),
                      e.from \in ClosedNodes
               PROVE  IF InSameRun(e.from, e.to)
                      THEN IsPipelined(e) /\ e \notin linked_nodes
                      ELSE /\ e.to \in ClosedNodes => previous_nodes[e.to][e.input] = Null
                           /\ IF plan.is_checked[e.from][e.output]
                              THEN IsReadFromFile(e) /\ e \notin linked_nodes
                              ELSE /\ input_files[e.to][e.input] = NoFile
                                   /\ e \in linked_nodes
                                   /\ \A other \in linked_nodes :
                                         other.to = e.to /\ other.input = e.input
                                         => other = e
    BY DEF StreamsHandedOver
  <2>1. IsHandedOver(e) /\ (InSameRun(e.from, e.to) <=> IsTogether(e))
    BY TogetherIsSameRun DEF StreamsInv, IInv
  <2>2. ASSUME NEW other \in linked_nodes, other.to = e.to, other.input = e.input
        PROVE  other = e
    <3>1. other \in Edges(plan) /\ PlanKnown
      BY DEF StreamsInv, IInv
    <3>2. other.from = e.from
      BY <2>2, <3>1, EdgeFacts
    <3>3. other.output = e.output
      BY <2>2, <3>1, <3>2, EdgeFacts DEF HasSimpleEdges
    <3>4. QED
      BY <2>2, <3>1, <3>2, <3>3, EdgeFacts
  <2>3. QED
    BY <2>1, <2>2 DEF IsHandedOver, IsForwarded
<1>2. QED
  BY <1>1, InvariantHolds, StreamsInvariantHolds, PTL

(* No run waits for a later one and memory is kept for later runs only, so *)
(* the runs can be executed in their order.                                *)
THEOREM RunsReadyHolds == Spec => []RunsReady
<1>1. SchedulerInv => RunsReady
  BY DEF SchedulerInv
<1>2. QED
  BY <1>1, InitInvariant, StepInvariant, PTL DEF Spec

(* Where every node of a run has a module of its operation at its location *)
(* and no two nodes share one, the modules come in the order of the data   *)
(* also through the pass-through nodes of the run, which the search for a  *)
(* position does not look through.                                         *)
THEOREM LocationsMeetPrerequisites ==
    Spec => [](phase = "scheduled" /\ ModuleLocationsHold => AllPrerequisitesMet)
<1>1. SchedulerInv /\ phase = "scheduled" /\ ModuleLocationsHold => AllPrerequisitesMet
  <2> SUFFICES ASSUME SchedulerInv, phase = "scheduled", ModuleLocationsHold,
                      NEW d \in Edges(plan), NEW e \in Edges(plan), NEW r \in DOMAIN AllRuns,
                      d.to = e.from, NeedsModule(d.from), NeedsModule(e.to),
                      {d.from, e.from, e.to} \subseteq ToSet(AllRuns[r].nodes)
               PROVE  ComesBefore(d.from, e.to, AllRuns[r].modules)
    BY DEF AllPrerequisitesMet
  <2>1. /\ PlanKnown /\ FieldsOK /\ NodesOnce /\ RunsOrdered /\ RunsLocated
        /\ current_query_nodes = <<>>
    BY DEF SchedulerInv, IInv, RunsReady
  <2>2. r \in DOMAIN query_node_runs_queue /\ AllRuns[r] = query_node_runs_queue[r]
    <3>1. ToSet(current_query_nodes) = {}
      BY <2>1 DEF ToSet
    <3>2. AllRuns[r] # CurrentRun
      BY <3>1 DEF CurrentRun
    <3>3. QED
      BY <2>1, <3>2, RunsAre
  <2> DEFINE run == query_node_runs_queue[r]
             nodes == run.nodes
  <2>3. /\ IsInjective(nodes) /\ ComesFirst(nodes)
        /\ SharesLocation(nodes) \/ FollowsOrder(run)
    BY <2>1, <2>2 DEF NodesOnce, RunsOrdered, RunsLocated, IsLocated
  <2>4. PICK k \in DOMAIN nodes, l \in DOMAIN nodes, h \in DOMAIN nodes :
            nodes[k] = d.from /\ nodes[l] = e.from /\ nodes[h] = e.to
    BY <2>2 DEF ToSet
  <2>5. DOMAIN nodes \subseteq Nat
    <3>1. nodes \in Seq(plan.nodes)
      <4>1. query_node_runs_queue \in Seq(Run)
        BY <2>1 DEF FieldsOK, RunsOK
      <4>2. run \in Run
        BY <2>2, <4>1, LenProperties, ElementOfSeq
      <4>3. QED
        BY <4>2 DEF Run
    <3>2. QED
      BY <3>1, LenProperties
  <2>6. k < l /\ l < h
    <3>1. nodes[k] \in Producers(plan, nodes[l]) /\ nodes[l] \in Producers(plan, nodes[h])
      BY <2>1, <2>4, EdgeFacts
    <3>2. QED
      BY <2>3, <3>1 DEF ComesFirst
  <2>7. /\ \A x \in DOMAIN nodes : NeedsModule(nodes[x]) =>
              /\ module_location[nodes[x]] \in DOMAIN run.modules
              /\ run.modules[module_location[nodes[x]]].operation_type
                     = plan.operation_type[nodes[x]]
        /\ \A x, y \in DOMAIN nodes :
              /\ NeedsModule(nodes[x]) /\ NeedsModule(nodes[y])
              /\ module_location[nodes[x]] = module_location[nodes[y]]
              => nodes[x] = nodes[y]
    BY <2>2 DEF ModuleLocationsHold, ToSet
  <2>8. ~SharesLocation(nodes)
    BY <2>3, <2>7 DEF SharesLocation, IsInjective
  <2>9. module_location[nodes[k]] < module_location[nodes[h]]
    <3>1. k < h
      BY <2>5, <2>6
    <3>2. QED
      BY <2>3, <2>4, <2>8, <3>1 DEF FollowsOrder
  <2>10. QED
    BY <2>2, <2>4, <2>7, <2>9 DEF ComesBefore
<1>2. QED
  BY <1>1, InitInvariant, StepInvariant, PTL DEF Spec
=============================================================================
