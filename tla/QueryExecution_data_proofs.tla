--------------------- MODULE QueryExecution_data_proofs ---------------------
(***************************************************************************)
(* Proofs about the data of a query, for every set of plans and every      *)
(* number of memory blocks and of stream numbers: that what is delivered   *)
(* is right, and that data kept for a later run is still there when that   *)
(* run comes.                                                              *)
(***************************************************************************)
EXTENDS QueryExecution_runs_proofs

(***************************************************************************)
(* The data of a plan.  The recursion of OutputData follows the streams    *)
(* back to the tables; it ends, because the plan has no cycle.             *)
(***************************************************************************)
Feeding(p, n, j) ==
    CHOOSE i \in Outputs(p, p.previous_nodes[n][j]) :
        p.next_nodes[p.previous_nodes[n][j]][i] = n
DataGiven(p, n, data) ==
    [i \in Outputs(p, n) |->
        IF p.operation_type[n] # PassThrough THEN ResultFile(n, i)
        ELSE IF ~IsNode(p.previous_nodes[n][i]) THEN TableFile(n, i)
        ELSE data[p.previous_nodes[n][i]][Feeding(p, n, i)]]
IsDataOn(p, T, data) ==
    /\ T \in SUBSET p.nodes /\ \A n \in T : Producers(p, n) \subseteq T
    /\ DOMAIN data = T /\ \A n \in T : data[n] = DataGiven(p, n, data)

(* Under HasSingleOutputs the inputs that matter exist.                    *)
OutputsHaveInputs(p) == \A n \in p.nodes : Outputs(p, n) \subseteq Inputs(p, n)

LEMMA SameProducersData ==
    ASSUME NEW p, OutputsHaveInputs(p), NEW n \in p.nodes, NEW d, NEW e,
           \A m \in Producers(p, n) : d[m] = e[m]
    PROVE  DataGiven(p, n, d) = DataGiven(p, n, e)
<1>1. ASSUME NEW i \in Outputs(p, n), IsNode(p.previous_nodes[n][i])
      PROVE  p.previous_nodes[n][i] \in Producers(p, n)
  BY <1>1 DEF OutputsHaveInputs, Producers, IsNode
<1>2. \A i \in Outputs(p, n) :
          DataGiven(p, n, d)[i] = DataGiven(p, n, e)[i]
  BY <1>1 DEF DataGiven
<1>3. QED
  BY <1>1 DEF DataGiven

LEMMA DataAgrees ==
    ASSUME NEW p \in Plans, OutputsHaveInputs(p),
           NEW T, NEW d, IsDataOn(p, T, d), NEW U, NEW e, IsDataOn(p, U, e)
    PROVE  \A n \in T \cap U : d[n] = e[n]
<1> DEFINE bad == {n \in T \cap U : d[n] # e[n]}
<1>1. SUFFICES ASSUME bad # {} PROVE FALSE
  OBVIOUS
<1>2. bad \in SUBSET p.nodes /\ IsAcyclic(p)
  BY PlansAssumption DEF IsDataOn, IsPlan, IsLinked
<1>3. PICK n \in bad : Producers(p, n) \cap bad = {}
  BY <1>1, <1>2 DEF IsAcyclic
<1>4. Producers(p, n) \subseteq T /\ Producers(p, n) \subseteq U
  BY DEF IsDataOn
<1>5. \A m \in Producers(p, n) : d[m] = e[m]
  BY <1>3, <1>4
<1>6. n \in p.nodes
  BY <1>2
<1>7. DataGiven(p, n, d) = DataGiven(p, n, e)
  BY <1>5, <1>6, SameProducersData
<1>8. d[n] = DataGiven(p, n, d) /\ e[n] = DataGiven(p, n, e)
  BY DEF IsDataOn
<1>9. QED
  BY <1>7, <1>8

LEMMA DataExists ==
    ASSUME NEW p \in Plans, OutputsHaveInputs(p)
    PROVE  \E data : IsDataOn(p, p.nodes, data)
<1> DEFINE Solves(n, T, d) == n \in T /\ IsDataOn(p, T, d)
           Value(n) == CHOOSE v : \E T, d : Solves(n, T, d) /\ v = d[n]
           U == {n \in p.nodes : \E T, d : Solves(n, T, d)}
           D == [n \in U |-> Value(n)]
<1>1. ASSUME NEW T, NEW d, IsDataOn(p, T, d)
      PROVE  T \subseteq U /\ \A n \in T : D[n] = d[n]
  <2>1. ASSUME NEW n \in T PROVE n \in U /\ Value(n) = d[n]
    <3>1. Solves(n, T, d) /\ n \in p.nodes
      BY <1>1, <2>1 DEF IsDataOn
    <3>2. \E v : \E W, e : Solves(n, W, e) /\ v = e[n]
      BY <3>1
    <3>3. PICK W, e : Solves(n, W, e) /\ Value(n) = e[n]
      BY <3>2, Zenon
    <3>4. e[n] = d[n]
      BY <1>1, <3>1, <3>3, DataAgrees
    <3>5. QED
      BY <3>1, <3>3, <3>4
  <2> HIDE DEF U, Value
  <2>2. QED
    BY <2>1
<1>2. IsDataOn(p, U, D)
  <2>1. ASSUME NEW n \in U
        PROVE  Producers(p, n) \subseteq U /\ D[n] = DataGiven(p, n, D)
    <3>1. PICK T, d : Solves(n, T, d)
      OBVIOUS
    <3>2. n \in T /\ IsDataOn(p, T, d)
      BY <3>1
    <3> HIDE DEF U, D, Solves, Value
    <3>3. T \subseteq U /\ \A m \in T : D[m] = d[m]
      BY <1>1, <3>2
    <3>4. Producers(p, n) \subseteq T /\ d[n] = DataGiven(p, n, d) /\ n \in p.nodes
      BY <3>2 DEF IsDataOn
    <3>5. DataGiven(p, n, D) = DataGiven(p, n, d)
      BY <3>3, <3>4, SameProducersData
    <3>6. QED
      BY <3>2, <3>3, <3>4, <3>5
  <2>2. U \in SUBSET p.nodes /\ DOMAIN D = U
    OBVIOUS
  <2> HIDE DEF U, D
  <2>3. QED
    BY <2>1, <2>2 DEF IsDataOn
<1>3. U = p.nodes
  <2> DEFINE rest == p.nodes \ U
  <2>1. SUFFICES ASSUME rest # {} PROVE FALSE
    OBVIOUS
  <2>2. rest \in SUBSET p.nodes /\ IsAcyclic(p)
    BY PlansAssumption DEF IsPlan, IsLinked
  <2>3. PICK n \in rest : Producers(p, n) \cap rest = {}
    BY <2>1, <2>2 DEF IsAcyclic
  <2>4. Producers(p, n) \subseteq p.nodes
    <3>1. n \in p.nodes /\ p.previous_nodes \in [p.nodes -> Seq(p.nodes \cup {Null})]
      BY <2>2, <2>3, PlansAssumption DEF IsPlan, IsLinked
    <3>2. p.previous_nodes[n] \in Seq(p.nodes \cup {Null})
      BY <3>1
    <3>3. QED
      BY <3>2, LenProperties, ElementOfSeq DEF Producers, Inputs
  <2> HIDE DEF U, D
  <2>5. n \in p.nodes /\ n \notin U /\ Producers(p, n) \subseteq U
    BY <2>3, <2>4
  <2> DEFINE T == U \cup {n}
             e == [m \in T |-> IF m = n THEN DataGiven(p, n, D) ELSE D[m]]
  <2>6. \A m \in U : m # n /\ e[m] = D[m]
    BY <2>5
  <2>7. DOMAIN e = T /\ e[n] = DataGiven(p, n, D)
    OBVIOUS
  <2>8. U \in SUBSET p.nodes /\ \A m \in U : Producers(p, m) \subseteq U /\ D[m] = DataGiven(p, m, D)
    BY <1>2 DEF IsDataOn
  <2> HIDE DEF e
  <2>9. \A m \in T : Producers(p, m) \subseteq U /\ m \in p.nodes
    BY <2>5, <2>8
  <2>10. \A m \in T : DataGiven(p, m, e) = DataGiven(p, m, D)
    BY <2>6, <2>9, SameProducersData
  <2>11. \A m \in T : e[m] = DataGiven(p, m, e)
    BY <2>6, <2>7, <2>8, <2>10
  <2>12. IsDataOn(p, T, e)
    BY <2>7, <2>9, <2>11 DEF IsDataOn
  <2>13. QED
    BY <1>1, <2>5, <2>12
<1>4. QED
  BY <1>2, <1>3

(* The data of the plan's streams, and what the streams into a node carry. *)
DataOf(p) == CHOOSE data : data = [n \in p.nodes |-> DataGiven(p, n, data)]
InputOf(p, n, j) ==
    IF ~IsNode(p.previous_nodes[n][j]) THEN TableFile(n, j)
    ELSE DataOf(p)[p.previous_nodes[n][j]][Feeding(p, n, j)]

LEMMA DataSolves ==
    ASSUME NEW p \in Plans, OutputsHaveInputs(p)
    PROVE  \A n \in p.nodes : DataOf(p)[n] = DataGiven(p, n, DataOf(p))
<1>1. \E data : data = [n \in p.nodes |-> DataGiven(p, n, data)]
  <2>1. PICK data : IsDataOn(p, p.nodes, data)
    BY DataExists
  <2>2. PICK d : d = [n \in p.nodes |-> data[n]]
    OBVIOUS
  <2>3. \A n \in p.nodes : d[n] = data[n] /\ data[n] = DataGiven(p, n, data)
    BY <2>1, <2>2 DEF IsDataOn
  <2>4. \A n \in p.nodes : DataGiven(p, n, d) = DataGiven(p, n, data)
    <3>1. \A n \in p.nodes : Producers(p, n) \subseteq p.nodes
      BY <2>1 DEF IsDataOn
    <3>2. QED
      BY <2>3, <3>1, SameProducersData
  <2>5. d = [n \in p.nodes |-> DataGiven(p, n, d)]
    BY <2>2, <2>3, <2>4
  <2>6. QED
    BY <2>5
<1>2. DataOf(p) = [n \in p.nodes |-> DataGiven(p, n, DataOf(p))]
  BY <1>1, Zenon DEF DataOf
<1> DEFINE D == DataOf(p)
<1>3. D = [n \in p.nodes |-> DataGiven(p, n, D)]
  BY <1>2
<1> HIDE DEF D
<1>4. \A n \in p.nodes : D[n] = DataGiven(p, n, D)
  BY <1>3
<1>5. QED
  BY <1>4 DEF D

LEMMA ConsumersProduce ==
    ASSUME NEW p \in Plans, NEW n \in p.nodes, NEW j \in Inputs(p, n),
           IsNode(p.previous_nodes[n][j])
    PROVE  /\ p.previous_nodes[n][j] \in p.nodes
           /\ Feeding(p, n, j) \in Outputs(p, p.previous_nodes[n][j])
           /\ p.next_nodes[p.previous_nodes[n][j]][Feeding(p, n, j)] = n
<1> DEFINE m == p.previous_nodes[n][j]
<1>1. p.previous_nodes[n] \in Seq(p.nodes \cup {Null})
  BY PlansAssumption DEF IsPlan, IsLinked
<1>2. m \in p.nodes
  BY <1>1, LenProperties, ElementOfSeq DEF Inputs, IsNode
<1>3. m \in Producers(p, n)
  BY DEF Producers, IsNode
<1>4. n \in Consumers(p, m)
  BY <1>2, <1>3, PlansAssumption DEF IsPlan, IsLinked
<1>5. \E i \in Outputs(p, m) : p.next_nodes[m][i] = n
  BY <1>4 DEF Consumers
<1>6. Feeding(p, n, j) \in Outputs(p, m) /\ p.next_nodes[m][Feeding(p, n, j)] = n
  BY <1>5, Zenon DEF Feeding
<1>7. QED
  BY <1>2, <1>6

LEMMA PlanData ==
    ASSUME NEW p \in Plans, OutputsHaveInputs(p), NEW n \in p.nodes
    PROVE  /\ \A i \in Outputs(p, n) : p.operation_type[n] # PassThrough =>
                 DataOf(p)[n][i] = ResultFile(n, i)
           /\ \A i \in Outputs(p, n) : p.operation_type[n] = PassThrough =>
                 DataOf(p)[n][i] = InputOf(p, n, i)
           /\ \A j \in Inputs(p, n) : InputOf(p, n, j) # NoFile
<1> DEFINE D == DataOf(p)
<1>1. \A m \in p.nodes : D[m] = DataGiven(p, m, D)
  BY DataSolves
<1>2. \A m \in p.nodes : \A i \in Outputs(p, m) :
          D[m][i] = IF p.operation_type[m] # PassThrough THEN ResultFile(m, i)
                    ELSE InputOf(p, m, i)
  <2> HIDE DEF D
  <2>1. ASSUME NEW m \in p.nodes, NEW i \in Outputs(p, m)
        PROVE  D[m][i] = IF p.operation_type[m] # PassThrough THEN ResultFile(m, i)
                         ELSE IF ~IsNode(p.previous_nodes[m][i]) THEN TableFile(m, i)
                         ELSE D[p.previous_nodes[m][i]][Feeding(p, m, i)]
    BY <1>1 DEF DataGiven
  <2>2. QED
    BY <2>1 DEF InputOf, D
<1> HIDE DEF D
<1>3. \A m, i : ResultFile(m, i) # NoFile /\ TableFile(m, i) # NoFile
  BY DEF ResultFile, TableFile, NoFile
<1> DEFINE bad == {m \in p.nodes : \E i \in Outputs(p, m) : D[m][i] = NoFile}
<1>4. ASSUME NEW m \in p.nodes, Producers(p, m) \cap bad = {}
      PROVE  \A j \in Inputs(p, m) : InputOf(p, m, j) # NoFile
  <2>1. SUFFICES ASSUME NEW j \in Inputs(p, m), IsNode(p.previous_nodes[m][j])
                 PROVE  D[p.previous_nodes[m][j]][Feeding(p, m, j)] # NoFile
    BY <1>3 DEF InputOf, D
  <2>2. p.previous_nodes[m][j] \in Producers(p, m)
    BY <2>1 DEF Producers, IsNode
  <2>3. /\ p.previous_nodes[m][j] \in p.nodes
        /\ Feeding(p, m, j) \in Outputs(p, p.previous_nodes[m][j])
    BY <2>1, ConsumersProduce
  <2>4. QED
    BY <1>4, <2>2, <2>3
<1>5. bad = {}
  <2>1. SUFFICES ASSUME bad # {} PROVE FALSE
    OBVIOUS
  <2>2. bad \in SUBSET p.nodes /\ IsAcyclic(p)
    BY PlansAssumption DEF IsPlan, IsLinked
  <2>3. PICK m \in bad : Producers(p, m) \cap bad = {}
    BY <2>1, <2>2 DEF IsAcyclic
  <2>4. PICK i \in Outputs(p, m) : D[m][i] = NoFile
    OBVIOUS
  <2>5. m \in p.nodes /\ i \in Inputs(p, m)
    BY <2>2, <2>4 DEF OutputsHaveInputs
  <2> HIDE DEF bad
  <2>6. InputOf(p, m, i) # NoFile
    BY <1>4, <2>3, <2>5
  <2>7. QED
    BY <1>2, <1>3, <2>4, <2>5, <2>6
<1>6. QED
  <2>1. \A j \in Inputs(p, n) : InputOf(p, n, j) # NoFile
    BY <1>4, <1>5
  <2>2. QED
    BY <1>2, <2>1 DEF D

LEMMA EdgeData ==
    ASSUME NEW p \in Plans, HasSimpleEdges(p), NEW e \in Edges(p)
    PROVE  InputOf(p, e.to, e.input) = DataOf(p)[e.from][e.output]
<1>1. /\ e.from \in p.nodes /\ e.to \in p.nodes
      /\ e.output \in Outputs(p, e.from) /\ e.input \in Inputs(p, e.to)
      /\ p.next_nodes[e.from][e.output] = e.to
      /\ p.previous_nodes[e.to][e.input] = e.from
  BY DEF Edges, Edge
<1>2. IsNode(e.from) /\ IsNode(e.to)
  BY <1>1, PlansAssumption DEF IsPlan, IsNode
<1>3. /\ Feeding(p, e.to, e.input) \in Outputs(p, e.from)
      /\ p.next_nodes[e.from][Feeding(p, e.to, e.input)] = e.to
  BY <1>1, <1>2, ConsumersProduce
<1>4. Feeding(p, e.to, e.input) = e.output
  BY <1>1, <1>2, <1>3 DEF HasSimpleEdges
<1>5. QED
  BY <1>1, <1>2, <1>4 DEF InputOf

(* This is the data that the model speaks of.                              *)
LEMMA DataIsOfPlan ==
    /\ FPGA!OutputData = DataOf(plan)
    /\ \A n, j : FPGA!InputData(n, j) = InputOf(plan, n, j)
<1>1. FPGA!OutputData = DataOf(plan)
  BY Zenon
     DEF FPGA!OutputData, DataOf, DataGiven, Feeding, Outputs, IsNode, Null, PassThrough,
         ResultFile, TableFile, FPGA!Outputs, FPGA!IsNode, FPGA!Null, FPGA!PassThrough,
         FPGA!ResultFile, FPGA!TableFile
<1>2. ASSUME NEW n, NEW j
      PROVE  FPGA!InputData(n, j) = InputOf(plan, n, j)
  <2>1. FPGA!InputData(n, j) =
            IF ~IsNode(plan.previous_nodes[n][j]) THEN TableFile(n, j)
            ELSE FPGA!OutputData[plan.previous_nodes[n][j]][Feeding(plan, n, j)]
    BY Zenon
       DEF FPGA!InputData, Feeding, Outputs, IsNode, Null, TableFile, FPGA!Outputs,
           FPGA!IsNode, FPGA!Null, FPGA!TableFile
  <2>2. QED
    BY <1>1, <2>1 DEF InputOf
<1>3. QED
  BY <1>1, <1>2

LEMMA DataIsOfPlanLater == FPGA!OutputData' = DataOf(plan')
<1>1. (FPGA!OutputData = DataOf(plan))'
  BY DataIsOfPlan, PTL
<1>2. QED
  BY <1>1
-----------------------------------------------------------------------------
(***************************************************************************)
(* The streams at each point of the pipeline: flow[k] is what leaves       *)
(* module k.                                                               *)
(***************************************************************************)
IsFlow(flow, ids, n) ==
    flow = [k \in 0..n |-> IF k = 0 THEN FPGA!EnteringStreams(ids)
                           ELSE FPGA!ThroughModule(k, flow[k - 1])]

LEMMA FlowExists ==
    ASSUME NEW ids, NEW n \in Nat
    PROVE  \E flow : IsFlow(flow, ids, n)
<1> DEFINE bad == {k \in Nat : ~\E flow : IsFlow(flow, ids, k)}
<1>1. SUFFICES ASSUME bad # {} PROVE FALSE
  OBVIOUS
<1>2. PICK k \in bad : \A l \in bad : k <= l
  BY <1>1, LeastNumber
<1>3. k \in Nat /\ ~\E flow : IsFlow(flow, ids, k)
  OBVIOUS
<1>4. CASE k = 0
  <2> DEFINE flow == [l \in 0..0 |-> FPGA!EnteringStreams(ids)]
  <2>1. \A l \in 0..0 : l = 0
    OBVIOUS
  <2>2. flow = [l \in 0..0 |-> IF l = 0 THEN FPGA!EnteringStreams(ids)
                               ELSE FPGA!ThroughModule(l, flow[l - 1])]
    BY <2>1
  <2>3. IsFlow(flow, ids, 0)
    BY <2>2, Zenon DEF IsFlow
  <2>4. QED
    BY <1>3, <1>4, <2>3
<1>5. CASE k # 0
  <2>1. k - 1 \in Nat /\ k - 1 \notin bad
    <3>1. k - 1 \in Nat /\ ~(k <= k - 1)
      BY <1>3, <1>5
    <3>2. QED
      BY <1>2, <3>1
  <2>2. PICK f : IsFlow(f, ids, k - 1)
    BY <2>1
  <2> DEFINE g == [l \in 0..k |-> IF l = 0 THEN FPGA!EnteringStreams(ids)
                                  ELSE FPGA!ThroughModule(l, f[l - 1])]
  <2>3. \A l \in 0..(k - 1) : f[l] = IF l = 0 THEN FPGA!EnteringStreams(ids)
                                     ELSE FPGA!ThroughModule(l, f[l - 1])
    BY <2>2 DEF IsFlow
  <2>4. \A l \in 0..(k - 1) : l \in 0..k /\ g[l] = f[l]
    BY <1>3, <2>3
  <2>5. \A l \in 0..k : l # 0 => l - 1 \in 0..(k - 1)
    BY <1>3
  <2>6. g = [l \in 0..k |-> IF l = 0 THEN FPGA!EnteringStreams(ids)
                            ELSE FPGA!ThroughModule(l, g[l - 1])]
    BY <2>4, <2>5
  <2>7. IsFlow(g, ids, k)
    BY <2>6, Zenon DEF IsFlow
  <2>8. QED
    BY <1>3, <2>7
<1>6. QED
  BY <1>4, <1>5

LEMMA LeavingSteps ==
    ASSUME NEW ids, Len(modules) \in Nat
    PROVE  \E flow : /\ IsFlow(flow, ids, Len(modules))
                     /\ FPGA!LeavingStreams(ids) = flow[Len(modules)]
<1> DEFINE flow == CHOOSE flow : IsFlow(flow, ids, Len(modules))
<1>1. IsFlow(flow, ids, Len(modules))
  BY FlowExists, Zenon
<1>2. FPGA!LeavingStreams(ids) = flow[Len(modules)]
  BY Zenon DEF FPGA!LeavingStreams, IsFlow
<1>3. QED
  BY <1>1, <1>2
-----------------------------------------------------------------------------
(***************************************************************************)
(* The streams between the nodes of a run.  At the cut before node k, the  *)
(* streams on their way are the inputs from memory of the nodes from k on, *)
(* and the outputs of the nodes before k that none of these nodes reads.   *)
(***************************************************************************)
NumbersKept ==
    \A n : HasNumbers(n) =>
        /\ \A j \in Inputs(plan, n) :
              ~IsNode(previous_nodes[n][j]) => input_ids[n][j] \in IDs!StreamID
        /\ \A i \in Outputs(plan, n) :
              i \in Inputs(plan, n) => output_ids[n][i] = input_ids[n][i]

IsLive(k, side, l, c) ==
    \/ /\ side = "in" /\ l \in k..Len(CurrentRun)
       /\ c \in Inputs(plan, CurrentRun[l]) /\ ~IsNode(previous_nodes[CurrentRun[l]][c])
    \/ /\ side = "out" /\ l \in 1..(k - 1) /\ c \in Outputs(plan, CurrentRun[l])
       /\ \A m \in 1..(k - 1) : next_nodes[CurrentRun[l]][c] # CurrentRun[m]
NumberAt(side, l, c) ==
    IF side = "in" THEN input_ids[CurrentRun[l]][c] ELSE output_ids[CurrentRun[l]][c]
DataAt(side, l, c) ==
    IF side = "in" THEN InputOf(plan, CurrentRun[l], c) ELSE DataOf(plan)[CurrentRun[l]][c]

(* Where input j of node k comes from.                                     *)
IsSource(k, j, side, l, c) ==
    \/ side = "in" /\ l = k /\ c = j /\ ~IsNode(previous_nodes[CurrentRun[k]][j])
    \/ /\ side = "out" /\ l \in 1..(k - 1)
       /\ Edge(CurrentRun[l], c, CurrentRun[k], j) \in Edges(plan)
       /\ next_nodes[CurrentRun[l]][c] = CurrentRun[k]

RunSetUp ==
    /\ ControlInv /\ LinksSettled /\ NumbersInv /\ NumbersKept
    /\ HasSimpleEdges(plan) /\ OutputsHaveInputs(plan)
    /\ step # "start" /\ step # "ids"

LEMMA NodesOfRun ==
    ASSUME RunSetUp
    PROVE  /\ plan \in Plans /\ Len(CurrentRun) \in Nat
           /\ DOMAIN CurrentRun = 1..Len(CurrentRun)
           /\ \A k \in 1..Len(CurrentRun) :
                 /\ CurrentRun[k] \in plan.nodes /\ InRun(CurrentRun[k])
                 /\ HasNumbers(CurrentRun[k])
           /\ \A k, l \in 1..Len(CurrentRun) : CurrentRun[k] = CurrentRun[l] => k = l
<1>1. ControlInv /\ step # "start" /\ step # "ids" /\ plan \in Plans
  BY DEF RunSetUp, ControlInv, ScheduleKnown
<1>2. /\ CurrentRun \in Seq(plan.nodes) /\ IsInjective(CurrentRun)
      /\ DOMAIN CurrentRun = 1..Len(CurrentRun) /\ Len(CurrentRun) \in Nat
      /\ \A n : InRun(n) => n \in plan.nodes
  BY <1>1, CurrentRunKnown
<1>3. \A k \in 1..Len(CurrentRun) : InRun(CurrentRun[k])
  BY <1>2 DEF InRun, ToSet
<1>4. \A n : HasNumbers(n) <=> InRun(n)
  BY <1>1, NumbersComplete
<1>5. \A k, l \in 1..Len(CurrentRun) : CurrentRun[k] = CurrentRun[l] => k = l
  BY <1>2 DEF IsInjective
<1>6. QED
  BY <1>1, <1>2, <1>3, <1>4, <1>5

LEMMA SourceFound ==
    ASSUME RunSetUp, NEW k \in 1..Len(CurrentRun), NEW j \in Inputs(plan, CurrentRun[k])
    PROVE  \E side, l, c : IsSource(k, j, side, l, c)
<1> DEFINE n == CurrentRun[k]
           m == previous_nodes[n][j]
<1>1. n \in plan.nodes /\ InRun(n) /\ plan \in Plans
  BY NodesOfRun
<1>2. CASE ~IsNode(m)
  BY <1>2 DEF IsSource
<1>3. CASE IsNode(m)
  <2>1. m = plan.previous_nodes[n][j]
    BY <1>1, <1>3 DEF RunSetUp, LinksSettled, IsNode
  <2> DEFINE c == Feeding(plan, n, j)
             e == Edge(m, c, n, j)
  <2>2. m \in plan.nodes /\ c \in Outputs(plan, m) /\ plan.next_nodes[m][c] = n
    BY <1>1, <1>3, <2>1, ConsumersProduce
  <2>3. e \in Edges(plan)
    BY <1>1, <2>1, <2>2, StreamIsEdge
  <2>4. e.from = m /\ e.output = c /\ e.to = n /\ e.input = j
    BY DEF Edge
  <2>5. /\ next_run - 1 \in Runs /\ CurrentRun = RunNodes(next_run - 1)
        /\ \A x : InRun(x) <=> x \in NodesIn(next_run - 1)
    BY CurrentRunKnown DEF RunSetUp
  <2> HIDE DEF n, m, c, e
  <2>6. IF m \in NodesIn(next_run - 1) THEN next_nodes[m][c] = n
        ELSE m = Null
    <3>1. n \in NodesIn(next_run - 1)
      BY <1>1, <2>5
    <3>2. IF e.from \in NodesIn(next_run - 1)
          THEN next_nodes[e.from][e.output] = e.to
          ELSE previous_nodes[e.to][e.input] = Null
      BY <2>3, <2>4, <2>5, <3>1 DEF RunSetUp, LinksSettled
    <3>3. QED
      BY <2>4, <3>2 DEF m
  <2>7. InRun(m) /\ next_nodes[m][c] = n
    BY <1>3, <2>5, <2>6 DEF IsNode
  <2>8. PICK l \in 1..Len(CurrentRun) : CurrentRun[l] = m
    BY <2>7, NodesOfRun DEF InRun, ToSet
  <2>9. l \in 1..(k - 1)
    <3>1. m \in Producers(plan, n)
      BY <1>3, <2>1 DEF Producers, IsNode, n
    <3>2. \A x, y \in DOMAIN CurrentRun :
              CurrentRun[y] \in Producers(plan, CurrentRun[x]) => y < x
      BY <2>5 DEF RunSetUp, LinksSettled
    <3>3. l < k
      BY <2>8, <3>1, <3>2, NodesOfRun DEF n
    <3>4. QED
      BY <3>3, NodesOfRun
  <2>10. IsSource(k, j, "out", l, c)
    BY <2>3, <2>7, <2>8, <2>9 DEF IsSource, e, n
  <2>11. QED
    BY <2>10
<1>4. QED
  BY <1>2, <1>3

LEMMA SourceIsLive ==
    ASSUME RunSetUp, NEW k \in 1..Len(CurrentRun), NEW j \in Inputs(plan, CurrentRun[k]),
           NEW side, NEW l, NEW c, IsSource(k, j, side, l, c)
    PROVE  /\ IsLive(k, side, l, c) /\ ~IsLive(k + 1, side, l, c)
           /\ NumberAt(side, l, c) = input_ids[CurrentRun[k]][j]
           /\ DataAt(side, l, c) = InputOf(plan, CurrentRun[k], j)
           /\ \A i \in Inputs(plan, CurrentRun[k]) : IsSource(k, i, side, l, c) => i = j
<1> DEFINE n == CurrentRun[k]
<1>1. /\ Len(CurrentRun) \in Nat /\ k \in Nat /\ k <= Len(CurrentRun)
      /\ (k + 1) - 1 = k /\ k \in 1..k
  BY NodesOfRun
<1>2. CASE side = "in"
  <2>1. l = k /\ c = j /\ ~IsNode(previous_nodes[n][j])
    BY <1>2 DEF IsSource
  <2>2. k \in k..Len(CurrentRun) /\ k \notin (k + 1)..Len(CurrentRun)
    BY <1>1
  <2>3. QED
    BY <1>2, <2>1, <2>2 DEF IsLive, NumberAt, DataAt, IsSource
<1>3. CASE side = "out"
  <2> DEFINE m == CurrentRun[l]
             e == Edge(m, c, n, j)
  <2>1. l \in 1..(k - 1) /\ e \in Edges(plan) /\ next_nodes[m][c] = n
    BY <1>3 DEF IsSource
  <2>2. e.from = m /\ e.output = c /\ e.to = n /\ e.input = j
    BY DEF Edge
  <2>3. /\ m \in plan.nodes /\ n \in plan.nodes /\ c \in Outputs(plan, m)
        /\ plan.previous_nodes[n][j] = m
    BY <2>1, <2>2, EdgeFacts
  <2>4. HasNumbers(m) /\ HasNumbers(n) /\ l \in 1..Len(CurrentRun) /\ plan \in Plans
    BY <1>1, <2>1, NodesOfRun
  <2>5. \A x \in 1..(k - 1) : CurrentRun[x] # n
    BY <1>1, NodesOfRun
  <2>6. IsLive(k, side, l, c)
    BY <1>3, <2>1, <2>3, <2>5 DEF IsLive
  <2>7. ~IsLive(k + 1, side, l, c)
    BY <1>1, <1>3, <2>1 DEF IsLive
  <2>8. input_ids[n][j] = output_ids[m][c]
    BY <2>1, <2>2, <2>4 DEF RunSetUp, NumbersInv, NumbersPassed
  <2>9. InputOf(plan, n, j) = DataOf(plan)[m][c]
    BY <2>1, <2>2, <2>4, EdgeData DEF RunSetUp
  <2>10. ASSUME NEW i \in Inputs(plan, n), IsSource(k, i, side, l, c) PROVE i = j
    <3>1. Edge(m, c, n, i) \in Edges(plan)
      BY <1>3, <2>10 DEF IsSource
    <3>2. plan.previous_nodes[n][i] = m
      BY <3>1, EdgeFacts DEF Edge
    <3>3. IsNode(m)
      BY <2>3, <2>4, PlansAssumption DEF IsPlan, IsNode
    <3>4. QED
      BY <2>3, <3>2, <3>3 DEF RunSetUp, HasSimpleEdges
  <2>11. NumberAt(side, l, c) = output_ids[m][c] /\ DataAt(side, l, c) = DataOf(plan)[m][c]
    BY <1>3 DEF NumberAt, DataAt
  <2>12. QED
    BY <2>6, <2>7, <2>8, <2>9, <2>10, <2>11
<1>4. side = "in" \/ side = "out"
  BY DEF IsSource
<1>5. QED
  BY <1>2, <1>3, <1>4

LEMMA LiveBefore ==
    ASSUME RunSetUp, NEW k \in 1..Len(CurrentRun), NEW side, NEW l, NEW c,
           IsLive(k + 1, side, l, c)
    PROVE  \/ IsLive(k, side, l, c)
           \/ side = "out" /\ l = k /\ c \in Outputs(plan, CurrentRun[k])
<1>1. Len(CurrentRun) \in Nat /\ k \in Nat /\ k <= Len(CurrentRun) /\ (k + 1) - 1 = k
  BY NodesOfRun
<1>2. CASE side = "in"
  <2>1. l \in (k + 1)..Len(CurrentRun)
    BY <1>2 DEF IsLive
  <2>2. l \in k..Len(CurrentRun)
    BY <1>1, <2>1
  <2>3. QED
    BY <1>2, <2>2 DEF IsLive
<1>3. CASE side = "out"
  <2>1. /\ l \in 1..k /\ c \in Outputs(plan, CurrentRun[l])
        /\ \A m \in 1..k : next_nodes[CurrentRun[l]][c] # CurrentRun[m]
    BY <1>1, <1>3 DEF IsLive
  <2>2. (\A m \in 1..(k - 1) : m \in 1..k) /\ (l = k \/ l \in 1..(k - 1))
    BY <1>1, <2>1
  <2>3. QED
    BY <1>3, <2>1, <2>2 DEF IsLive
<1>4. QED
  BY <1>2, <1>3 DEF IsLive

(* The streams at a cut have different numbers.                            *)
StreamsApart(k) ==
    /\ \A s, l, c, t, m, d :
          IsLive(k, s, l, c) /\ IsLive(k, t, m, d) /\ NumberAt(s, l, c) = NumberAt(t, m, d)
          => s = t /\ l = m /\ c = d
    /\ \A s, l, c : IsLive(k, s, l, c) => NumberAt(s, l, c) \in IDs!StreamID

LEMMA OutputNumberKept ==
    ASSUME RunSetUp, NEW k \in 1..Len(CurrentRun), NEW i \in Outputs(plan, CurrentRun[k])
    PROVE  /\ i \in Inputs(plan, CurrentRun[k])
           /\ NumberAt("out", k, i) = input_ids[CurrentRun[k]][i]
<1>1. CurrentRun[k] \in plan.nodes /\ HasNumbers(CurrentRun[k])
  BY NodesOfRun
<1>2. i \in Inputs(plan, CurrentRun[k])
  BY <1>1 DEF RunSetUp, OutputsHaveInputs
<1>3. QED
  BY <1>1, <1>2 DEF RunSetUp, NumbersKept, NumberAt

LEMMA FirstCut ==
    ASSUME RunSetUp
    PROVE  StreamsApart(1)
<1>1. ASSUME NEW s, NEW l, NEW c, IsLive(1, s, l, c)
      PROVE  /\ s = "in" /\ l \in 1..Len(CurrentRun)
             /\ InputNumber(CurrentRun[l], c, NumberAt(s, l, c))
             /\ NumberAt(s, l, c) \in IDs!StreamID
  <2>1. 1 - 1 = 0 /\ 1..0 = {}
    OBVIOUS
  <2>2. /\ s = "in" /\ l \in 1..Len(CurrentRun)
        /\ c \in Inputs(plan, CurrentRun[l]) /\ ~IsNode(previous_nodes[CurrentRun[l]][c])
    BY <1>1, <2>1 DEF IsLive
  <2>3. HasNumbers(CurrentRun[l])
    BY <2>2, NodesOfRun
  <2>4. NumberAt(s, l, c) = input_ids[CurrentRun[l]][c]
    BY <2>2 DEF NumberAt
  <2>5. QED
    BY <2>2, <2>3, <2>4 DEF InputNumber, RunSetUp, NumbersKept
<1>2. ASSUME NEW s, NEW l, NEW c, NEW t, NEW m, NEW d,
             IsLive(1, s, l, c), IsLive(1, t, m, d), NumberAt(s, l, c) = NumberAt(t, m, d)
      PROVE  s = t /\ l = m /\ c = d
  <2>1. /\ s = "in" /\ l \in 1..Len(CurrentRun) /\ t = "in" /\ m \in 1..Len(CurrentRun)
        /\ InputNumber(CurrentRun[l], c, NumberAt(s, l, c))
        /\ InputNumber(CurrentRun[m], d, NumberAt(s, l, c))
    BY <1>1, <1>2
  <2>2. CurrentRun[l] = CurrentRun[m] /\ c = d
    BY <2>1 DEF RunSetUp, NumbersInv, InputsNumbered
  <2>3. QED
    BY <2>1, <2>2, NodesOfRun
<1>3. QED
  BY <1>1, <1>2 DEF StreamsApart

(* A stream of the cut after node k that was on its way before is none     *)
(* that node k reads.                                                      *)
LEMMA PassingStreams ==
    ASSUME RunSetUp, NEW k \in 1..Len(CurrentRun), StreamsApart(k),
           NEW side, NEW l, NEW c, IsLive(k, side, l, c), IsLive(k + 1, side, l, c)
    PROVE  \A j \in Inputs(plan, CurrentRun[k]) :
               NumberAt(side, l, c) # input_ids[CurrentRun[k]][j]
<1> SUFFICES ASSUME NEW j \in Inputs(plan, CurrentRun[k]),
                    NumberAt(side, l, c) = input_ids[CurrentRun[k]][j]
             PROVE  FALSE
  OBVIOUS
<1>1. PICK t, m, d : IsSource(k, j, t, m, d)
  BY SourceFound
<1>2. /\ IsLive(k, t, m, d) /\ ~IsLive(k + 1, t, m, d)
      /\ NumberAt(t, m, d) = input_ids[CurrentRun[k]][j]
  BY <1>1, SourceIsLive
<1>3. side = t /\ l = m /\ c = d
  BY <1>2 DEF StreamsApart
<1>4. QED
  BY <1>2, <1>3

LEMMA NextCutApart ==
    ASSUME RunSetUp, NEW k \in 1..Len(CurrentRun), StreamsApart(k)
    PROVE  StreamsApart(k + 1)
<1> DEFINE n == CurrentRun[k]
           IsNew(s, l, c) == s = "out" /\ l = k /\ c \in Outputs(plan, n)
<1>1. \A s, l, c : IsLive(k + 1, s, l, c) => IsLive(k, s, l, c) \/ IsNew(s, l, c)
  BY LiveBefore
<1>2. ASSUME NEW s, NEW l, NEW c, IsNew(s, l, c)
      PROVE  c \in Inputs(plan, n) /\ NumberAt(s, l, c) = input_ids[n][c]
  BY <1>2, OutputNumberKept
<1>3. ASSUME NEW s, NEW l, NEW c, IsLive(k, s, l, c), IsLive(k + 1, s, l, c),
             NEW t, NEW m, NEW d, IsNew(t, m, d)
      PROVE  NumberAt(s, l, c) # NumberAt(t, m, d)
  <2>1. d \in Inputs(plan, n) /\ NumberAt(t, m, d) = input_ids[n][d]
    BY <1>2, <1>3
  <2>2. QED
    BY <1>3, <2>1, PassingStreams
<1>4. ASSUME NEW c \in Inputs(plan, n), NEW d \in Inputs(plan, n),
             input_ids[n][c] = input_ids[n][d]
      PROVE  c = d
  <2>1. PICK s, l, x : IsSource(k, c, s, l, x)
    BY SourceFound
  <2>2. PICK t, m, y : IsSource(k, d, t, m, y)
    BY SourceFound
  <2>3. IsLive(k, s, l, x) /\ NumberAt(s, l, x) = input_ids[n][c]
    BY <1>4, <2>1, SourceIsLive
  <2>4. IsLive(k, t, m, y) /\ NumberAt(t, m, y) = input_ids[n][d]
    BY <1>4, <2>2, SourceIsLive
  <2>5. s = t /\ l = m /\ x = y
    BY <1>4, <2>3, <2>4 DEF StreamsApart
  <2>6. QED
    BY <2>1, <2>2, <2>5, SourceIsLive
<1>5. ASSUME NEW s, NEW l, NEW c, IsLive(k + 1, s, l, c)
      PROVE  NumberAt(s, l, c) \in IDs!StreamID
  <2>1. CASE IsLive(k, s, l, c)
    BY <2>1 DEF StreamsApart
  <2>2. CASE IsNew(s, l, c)
    <3>1. c \in Inputs(plan, n) /\ NumberAt(s, l, c) = input_ids[n][c]
      BY <1>2, <2>2
    <3>2. PICK t, m, d : IsSource(k, c, t, m, d)
      BY <3>1, SourceFound
    <3>3. IsLive(k, t, m, d) /\ NumberAt(t, m, d) = input_ids[n][c]
      BY <3>1, <3>2, SourceIsLive
    <3>4. QED
      BY <3>1, <3>3 DEF StreamsApart
  <2>3. QED
    BY <1>1, <1>5, <2>1, <2>2
<1>6. ASSUME NEW s, NEW l, NEW c, NEW t, NEW m, NEW d, IsLive(k + 1, s, l, c),
             IsLive(k + 1, t, m, d), NumberAt(s, l, c) = NumberAt(t, m, d)
      PROVE  s = t /\ l = m /\ c = d
  <2>1. CASE IsLive(k, s, l, c) /\ IsLive(k, t, m, d)
    BY <1>6, <2>1 DEF StreamsApart
  <2>2. CASE IsNew(s, l, c) /\ IsNew(t, m, d)
    <3>1. /\ c \in Inputs(plan, n) /\ NumberAt(s, l, c) = input_ids[n][c]
          /\ d \in Inputs(plan, n) /\ NumberAt(t, m, d) = input_ids[n][d]
      BY <1>2, <2>2
    <3>2. QED
      BY <1>4, <1>6, <2>2, <3>1
  <2> HIDE DEF IsNew
  <2>3. QED
    BY <1>1, <1>3, <1>6, <2>1, <2>2
<1>7. QED
  BY <1>5, <1>6 DEF StreamsApart

LEMMA CutsApart ==
    ASSUME RunSetUp
    PROVE  \A k \in 1..(Len(CurrentRun) + 1) : StreamsApart(k)
<1> DEFINE bad == {k \in 1..(Len(CurrentRun) + 1) : ~StreamsApart(k)}
<1>1. SUFFICES ASSUME bad # {} PROVE FALSE
  OBVIOUS
<1>2. Len(CurrentRun) \in Nat
  BY NodesOfRun
<1>3. PICK k \in bad : \A l \in bad : k <= l
  <2>1. bad \in SUBSET Nat
    BY <1>2
  <2>2. QED
    BY <1>1, <2>1, LeastNumber
<1>4. k \in 1..(Len(CurrentRun) + 1) /\ ~StreamsApart(k)
  OBVIOUS
<1>5. k # 1
  BY <1>4, FirstCut
<1>6. k - 1 \in 1..Len(CurrentRun) /\ ~(k <= k - 1) /\ (k - 1) + 1 = k
      /\ k - 1 \in 1..(Len(CurrentRun) + 1)
  BY <1>2, <1>4, <1>5
<1>7. StreamsApart(k - 1)
  BY <1>3, <1>6
<1>8. StreamsApart((k - 1) + 1)
  BY <1>6, <1>7, NextCutApart
<1>9. QED
  BY <1>4, <1>6, <1>8

(* At a cut, each stream on its way carries its data.                      *)
StreamsRight(k, streams) ==
    /\ DOMAIN streams = IDs!StreamID
    /\ \A s, l, c : IsLive(k, s, l, c) => streams[NumberAt(s, l, c)] = DataAt(s, l, c)

LEMMA InputsArrive ==
    ASSUME RunSetUp, NEW k \in 1..Len(CurrentRun), NEW streams, StreamsRight(k, streams),
           NEW j \in Inputs(plan, CurrentRun[k])
    PROVE  streams[input_ids[CurrentRun[k]][j]] = InputOf(plan, CurrentRun[k], j)
<1>1. PICK s, l, c : IsSource(k, j, s, l, c)
  BY SourceFound
<1>2. IsLive(k, s, l, c) /\ NumberAt(s, l, c) = input_ids[CurrentRun[k]][j]
  BY <1>1, SourceIsLive
<1>3. DataAt(s, l, c) = InputOf(plan, CurrentRun[k], j)
  BY <1>1, SourceIsLive
<1>4. QED
  BY <1>2, <1>3 DEF StreamsRight

LEMMA PassThroughNode ==
    ASSUME RunSetUp, NEW k \in 1..Len(CurrentRun), NEW streams, StreamsRight(k, streams),
           ~NeedsModule(CurrentRun[k])
    PROVE  StreamsRight(k + 1, streams)
<1> DEFINE n == CurrentRun[k]
<1>1. n \in plan.nodes /\ plan \in Plans /\ plan.operation_type[n] = PassThrough
  BY NodesOfRun DEF NeedsModule, Scheduler!NeedsModule, Scheduler!PassThrough, PassThrough
<1>2. ASSUME NEW i \in Outputs(plan, n)
      PROVE  streams[NumberAt("out", k, i)] = DataAt("out", k, i)
  <2>1. i \in Inputs(plan, n) /\ NumberAt("out", k, i) = input_ids[n][i]
    BY <1>2, OutputNumberKept
  <2>2. streams[input_ids[n][i]] = InputOf(plan, n, i)
    BY <2>1, InputsArrive
  <2>3. DataOf(plan)[n][i] = InputOf(plan, n, i)
    BY <1>1, <1>2, PlanData DEF RunSetUp
  <2>4. DataAt("out", k, i) = DataOf(plan)[n][i]
    BY DEF DataAt
  <2>5. QED
    BY <2>1, <2>2, <2>3, <2>4
<1>3. \A s, l, c : IsLive(k + 1, s, l, c) => streams[NumberAt(s, l, c)] = DataAt(s, l, c)
  BY <1>2, LiveBefore DEF StreamsRight
<1>4. QED
  BY <1>3 DEF StreamsRight

(* Module x is configured for node n.                                      *)
IsConfiguredFor(x, n) ==
    /\ modules[x].node = n
    /\ DOMAIN modules[x].inputs = Inputs(plan, n)
    /\ \A j \in Inputs(plan, n) : modules[x].inputs[j] = input_ids[n][j]
    /\ modules[x].outputs # <<>> <=> 1 \in Outputs(plan, n)
    /\ 1 \in Outputs(plan, n) => modules[x].outputs[1] = output_ids[n][1]
    /\ loaded_bitstream[x].operation_type = plan.operation_type[n]

LEMMA ThroughRightModule ==
    ASSUME NEW n, NEW x, IsConfiguredFor(x, n), NEW streams,
           \A j \in Inputs(plan, n) : streams[input_ids[n][j]] = InputOf(plan, n, j),
           \A j \in Inputs(plan, n) : InputOf(plan, n, j) # NoFile,
           NEW after, after = FPGA!ThroughModule(x, streams)
    PROVE  /\ Inputs(plan, n) = {} => after = streams
           /\ DOMAIN after = DOMAIN streams
           /\ \A id \in DOMAIN streams :
                 (\A j \in Inputs(plan, n) : id # input_ids[n][j])
                 /\ (1 \in Outputs(plan, n) => id # output_ids[n][1])
                 => after[id] = streams[id]
           /\ 1 \in Outputs(plan, n) /\ Inputs(plan, n) # {} /\ output_ids[n][1] \in DOMAIN streams
                 => after[output_ids[n][1]] = ResultFile(n, 1)
<1> DEFINE c == modules[x]
           Computed == IF /\ FPGA!IsRightModule(x)
                          /\ \A j \in DOMAIN c.inputs :
                                streams[c.inputs[j]] = FPGA!InputData(c.node, j)
                       THEN FPGA!ResultFile(c.node, 1) ELSE FPGA!Wrong
           Changed == [id \in DOMAIN streams |->
                          IF c.outputs # <<>> /\ id = c.outputs[1] THEN Computed
                          ELSE IF id \in FPGA!ToSet(c.inputs) THEN FPGA!NoData
                          ELSE streams[id]]
<1>1. after = IF \A j \in DOMAIN c.inputs : streams[c.inputs[j]] = FPGA!NoData THEN streams
              ELSE Changed
  BY Zenon DEF FPGA!ThroughModule
<1>2. FPGA!NoData = NoFile /\ FPGA!ResultFile(n, 1) = ResultFile(n, 1)
  BY DEF FPGA!NoData, FPGA!NoFile, NoFile, FPGA!ResultFile, ResultFile
<1>3. /\ c.node = n /\ DOMAIN c.inputs = Inputs(plan, n)
      /\ \A j \in Inputs(plan, n) : c.inputs[j] = input_ids[n][j]
      /\ c.outputs # <<>> <=> 1 \in Outputs(plan, n)
      /\ 1 \in Outputs(plan, n) => c.outputs[1] = output_ids[n][1]
  BY DEF IsConfiguredFor
<1>4. \A j \in Inputs(plan, n) : streams[c.inputs[j]] = FPGA!InputData(c.node, j)
  BY <1>3, DataIsOfPlan
<1>5. FPGA!IsRightModule(x)
  BY DEF FPGA!IsRightModule, IsConfiguredFor
<1>6. Computed = ResultFile(n, 1)
  BY <1>2, <1>3, <1>4, <1>5
<1>7. \A id : id \in FPGA!ToSet(c.inputs) <=> \E j \in Inputs(plan, n) : id = input_ids[n][j]
  BY <1>3 DEF FPGA!ToSet
<1>8. (\A j \in DOMAIN c.inputs : streams[c.inputs[j]] = FPGA!NoData) <=> Inputs(plan, n) = {}
  BY <1>2, <1>3
<1>9. /\ DOMAIN Changed = DOMAIN streams
      /\ \A id \in DOMAIN streams :
            Changed[id] = IF c.outputs # <<>> /\ id = c.outputs[1] THEN Computed
                          ELSE IF id \in FPGA!ToSet(c.inputs) THEN FPGA!NoData
                          ELSE streams[id]
  <2> HIDE DEF c, Computed
  <2>1. QED
    OBVIOUS
<1> HIDE DEF c, Computed, Changed
<1>10. CASE Inputs(plan, n) = {}
  BY <1>1, <1>8, <1>10
<1>11. CASE Inputs(plan, n) # {}
  <2>1. after = Changed
    BY <1>1, <1>8, <1>11
  <2>2. ASSUME NEW id \in DOMAIN streams,
               \A j \in Inputs(plan, n) : id # input_ids[n][j],
               1 \in Outputs(plan, n) => id # output_ids[n][1]
        PROVE  after[id] = streams[id]
    BY <1>3, <1>7, <1>9, <2>1, <2>2
  <2>3. ASSUME 1 \in Outputs(plan, n), output_ids[n][1] \in DOMAIN streams
        PROVE  after[output_ids[n][1]] = ResultFile(n, 1)
    BY <1>3, <1>6, <1>9, <2>1, <2>3
  <2>4. QED
    BY <1>9, <1>11, <2>1, <2>2, <2>3
<1>12. QED
  BY <1>10, <1>11

LEMMA ModuleOfNode ==
    ASSUME RunSetUp, NEW k \in 1..Len(CurrentRun), NEW streams, StreamsRight(k, streams),
           StreamsApart(k), NeedsModule(CurrentRun[k]),
           \A i \in Outputs(plan, CurrentRun[k]) : i = 1,
           NEW x, IsConfiguredFor(x, CurrentRun[k])
    PROVE  StreamsRight(k + 1, FPGA!ThroughModule(x, streams))
<1> DEFINE n == CurrentRun[k]
           after == FPGA!ThroughModule(x, streams)
<1>1. n \in plan.nodes /\ plan \in Plans /\ plan.operation_type[n] # PassThrough
  BY NodesOfRun DEF NeedsModule, Scheduler!NeedsModule, Scheduler!PassThrough, PassThrough
<1>2. /\ \A j \in Inputs(plan, n) : InputOf(plan, n, j) # NoFile
      /\ \A i \in Outputs(plan, n) : DataOf(plan)[n][i] = ResultFile(n, i)
  BY <1>1, PlanData DEF RunSetUp
<1>3. \A j \in Inputs(plan, n) : streams[input_ids[n][j]] = InputOf(plan, n, j)
  BY InputsArrive
<1>4. /\ Inputs(plan, n) = {} => after = streams
      /\ DOMAIN after = DOMAIN streams
      /\ \A id \in DOMAIN streams :
            (\A j \in Inputs(plan, n) : id # input_ids[n][j])
            /\ (1 \in Outputs(plan, n) => id # output_ids[n][1])
            => after[id] = streams[id]
      /\ 1 \in Outputs(plan, n) /\ Inputs(plan, n) # {} /\ output_ids[n][1] \in DOMAIN streams
            => after[output_ids[n][1]] = ResultFile(n, 1)
  <2> HIDE DEF n
  <2>1. IsConfiguredFor(x, n)
    BY DEF n
  <2>2. QED
    BY <1>2, <1>3, <2>1, ThroughRightModule
<1>5. /\ DOMAIN streams = IDs!StreamID
      /\ \A s, l, c : IsLive(k, s, l, c) =>
            streams[NumberAt(s, l, c)] = DataAt(s, l, c) /\ NumberAt(s, l, c) \in IDs!StreamID
  BY DEF StreamsRight, StreamsApart
<1>6. \A i \in Outputs(plan, n) :
          i \in Inputs(plan, n) /\ NumberAt("out", k, i) = input_ids[n][i]
  BY OutputNumberKept
<1>7. \A i : NumberAt("out", k, i) = output_ids[n][i] /\ DataAt("out", k, i) = DataOf(plan)[n][i]
  BY DEF NumberAt, DataAt
<1>8. StreamsApart(k + 1)
  BY NextCutApart
<1> HIDE DEF after
<1>9. ASSUME NEW s, NEW l, NEW c, IsLive(k, s, l, c), IsLive(k + 1, s, l, c)
      PROVE  after[NumberAt(s, l, c)] = DataAt(s, l, c)
  <2>1. \A j \in Inputs(plan, n) : NumberAt(s, l, c) # input_ids[n][j]
    BY <1>9, PassingStreams
  <2>2. 1 \in Outputs(plan, n) => NumberAt(s, l, c) # output_ids[n][1]
    BY <1>6, <1>7, <2>1
  <2>3. QED
    BY <1>4, <1>5, <1>9, <2>1, <2>2
<1>10. ASSUME NEW i \in Outputs(plan, n), IsLive(k + 1, "out", k, i)
       PROVE  after[NumberAt("out", k, i)] = DataAt("out", k, i)
  <2>1. i = 1 /\ NumberAt("out", k, i) \in IDs!StreamID
    BY <1>8, <1>10 DEF StreamsApart
  <2>2. Inputs(plan, n) # {} /\ NumberAt("out", k, i) = output_ids[n][1]
    BY <1>6, <1>7, <1>10, <2>1
  <2>3. QED
    BY <1>2, <1>4, <1>5, <1>7, <1>10, <2>1, <2>2
<1>11. ASSUME NEW s, NEW l, NEW c, IsLive(k + 1, s, l, c)
       PROVE  after[NumberAt(s, l, c)] = DataAt(s, l, c)
  <2>1. IsLive(k, s, l, c) \/ (s = "out" /\ l = k /\ c \in Outputs(plan, n))
    BY <1>11, LiveBefore
  <2>2. QED
    BY <1>9, <1>10, <1>11, <2>1
<1>12. QED
  BY <1>4, <1>5, <1>11 DEF StreamsRight, after

(* The modules of the bitstream are those of the run's nodes, in order.    *)
RunPlaced(last) ==
    /\ \A k \in 1..Len(CurrentRun) : NeedsModule(CurrentRun[k]) =>
          /\ module_location[CurrentRun[k]] \in 1..last
          /\ IsConfiguredFor(module_location[CurrentRun[k]], CurrentRun[k])
          /\ \A i \in Outputs(plan, CurrentRun[k]) : i = 1
    /\ \A k, l \in 1..Len(CurrentRun) :
          k < l /\ NeedsModule(CurrentRun[k]) /\ NeedsModule(CurrentRun[l]) =>
              module_location[CurrentRun[k]] < module_location[CurrentRun[l]]
    /\ \A x \in 1..last : \E k \in 1..Len(CurrentRun) :
          NeedsModule(CurrentRun[k]) /\ module_location[CurrentRun[k]] = x

LEMMA FlowRight ==
    ASSUME RunSetUp, NEW last \in Nat, RunPlaced(last), NEW flow,
           IsFlow(flow, IDs!StreamID, last), StreamsRight(1, flow[0])
    PROVE  StreamsRight(Len(CurrentRun) + 1, flow[last])
<1> DEFINE n == Len(CurrentRun)
           Needs(l) == NeedsModule(CurrentRun[l])
           At(l) == module_location[CurrentRun[l]]
           Matches(k, x) == \A l \in 1..n : Needs(l) => (l < k <=> At(l) <= x)
           Good(k) == \A x \in 0..last : Matches(k, x) => StreamsRight(k, flow[x])
           bad == {k \in 1..(n + 1) : ~Good(k)}
<1>1. n \in Nat
  BY NodesOfRun
<1>2. \A k \in 1..n : Needs(k) => /\ At(k) \in 1..last /\ IsConfiguredFor(At(k), CurrentRun[k])
                                  /\ \A i \in Outputs(plan, CurrentRun[k]) : i = 1
  BY DEF RunPlaced
<1>3. \A k, l \in 1..n : k < l /\ Needs(k) /\ Needs(l) => At(k) < At(l)
  BY DEF RunPlaced
<1>4. \A x \in 1..last : \E k \in 1..n : Needs(k) /\ At(k) = x
  BY DEF RunPlaced
<1>5. \A x \in 1..last : flow[x] = FPGA!ThroughModule(x, flow[x - 1])
  <2>1. \A x \in 0..last : flow[x] = IF x = 0 THEN FPGA!EnteringStreams(IDs!StreamID)
                                     ELSE FPGA!ThroughModule(x, flow[x - 1])
    BY DEF IsFlow
  <2>2. \A x \in 1..last : x \in 0..last /\ x # 0
    OBVIOUS
  <2>3. QED
    BY <2>1, <2>2
<1>6. \A k \in 1..(n + 1) : StreamsApart(k)
  BY CutsApart
<1> HIDE DEF n, Needs, At
<1>7. Good(1)
  <2>1. ASSUME NEW x \in 0..last, Matches(1, x) PROVE x = 0
    <3>1. SUFFICES ASSUME x \in 1..last PROVE FALSE
      OBVIOUS
    <3>2. PICK k \in 1..n : Needs(k) /\ At(k) = x
      BY <1>4, <3>1
    <3>3. k < 1
      BY <2>1, <3>2
    <3>4. QED
      BY <1>1, <3>3
  <2> HIDE DEF Matches
  <2>2. QED
    BY <2>1
<1>8. ASSUME NEW k \in 1..n, Good(k) PROVE Good(k + 1)
  <2> SUFFICES ASSUME NEW x \in 0..last, Matches(k + 1, x)
               PROVE  StreamsRight(k + 1, flow[x])
    OBVIOUS
  <2>1. k \in 1..(n + 1) /\ k \in Nat
    BY <1>1
  <2>2. CASE ~Needs(k)
    <3>1. Matches(k, x)
      <4>1. ASSUME NEW l \in 1..n, Needs(l) PROVE l < k <=> At(l) <= x
        <5>1. l < k + 1 <=> At(l) <= x
          BY <4>1
        <5>2. l # k
          BY <2>2, <4>1
        <5>3. QED
          BY <2>1, <5>1, <5>2
      <4>2. QED
        BY <4>1
    <3>2. StreamsRight(k, flow[x])
      BY <1>8, <3>1
    <3>3. QED
      BY <2>2, <3>2, PassThroughNode DEF n, Needs
  <2>3. CASE Needs(k)
    <3>1. At(k) \in 1..last /\ At(k) <= x
      BY <1>2, <2>1, <2>3
    <3>2. x \in 1..last
      BY <3>1
    <3>3. At(k) = x
      <4>1. PICK l \in 1..n : Needs(l) /\ At(l) = x
        BY <1>4, <3>2
      <4>2. l < k + 1
        BY <4>1, <3>2
      <4>3. l < k \/ l = k
        BY <2>1, <4>2
      <4>4. l < k => At(l) < At(k)
        BY <1>3, <2>3, <4>1
      <4>5. QED
        BY <3>1, <3>2, <4>1, <4>3, <4>4
    <3>4. Matches(k, x - 1)
      <4>1. ASSUME NEW l \in 1..n, Needs(l) PROVE l < k <=> At(l) <= x - 1
        <5>1. At(l) \in 1..last
          BY <1>2, <4>1
        <5>2. l < k => At(l) < x
          BY <1>3, <2>3, <3>3, <4>1
        <5>3. l = k => At(l) = x
          BY <3>3
        <5>4. l > k => At(l) > x
          BY <1>3, <2>3, <3>3, <4>1, <5>1, <3>2
        <5>5. l \in Nat
          BY <1>1
        <5>6. QED
          BY <2>1, <3>2, <5>1, <5>2, <5>3, <5>4, <5>5
      <4>2. QED
        BY <4>1
    <3>5. StreamsRight(k, flow[x - 1])
      <4>1. x - 1 \in 0..last
        BY <3>2
      <4>2. QED
        BY <1>8, <3>4, <4>1
    <3>6. IsConfiguredFor(x, CurrentRun[k]) /\ \A i \in Outputs(plan, CurrentRun[k]) : i = 1
      BY <1>2, <2>3, <3>3
    <3>7. StreamsRight(k + 1, FPGA!ThroughModule(x, flow[x - 1]))
      <4>1. StreamsApart(k) /\ NeedsModule(CurrentRun[k]) /\ k \in 1..Len(CurrentRun)
        BY <1>6, <2>1, <2>3 DEF n, Needs
      <4>2. QED
        BY <3>5, <3>6, <4>1, ModuleOfNode
    <3>8. QED
      BY <1>5, <3>2, <3>7
  <2>4. QED
    BY <2>2, <2>3
<1>9. bad = {}
  <2>1. SUFFICES ASSUME bad # {} PROVE FALSE
    OBVIOUS
  <2>2. bad \in SUBSET Nat
    BY <1>1
  <2>3. PICK k \in bad : \A l \in bad : k <= l
    BY <2>1, <2>2, LeastNumber
  <2>4. k \in 1..(n + 1) /\ ~Good(k)
    OBVIOUS
  <2> HIDE DEF Good
  <2>5. k # 1
    BY <1>7, <2>4
  <2>6. k - 1 \in 1..n /\ ~(k <= k - 1) /\ (k - 1) + 1 = k /\ k - 1 \in 1..(n + 1)
    BY <1>1, <2>4, <2>5
  <2>7. Good(k - 1)
    BY <2>3, <2>6
  <2>8. Good((k - 1) + 1)
    BY <1>8, <2>6, <2>7
  <2>9. QED
    BY <2>4, <2>6, <2>8
<1>10. Good(n + 1)
  <2>1. n + 1 \in 1..(n + 1)
    BY <1>1
  <2> HIDE DEF Good
  <2>2. QED
    BY <1>9, <2>1
<1>11. Matches(n + 1, last)
  <2>1. ASSUME NEW l \in 1..n, Needs(l) PROVE l < n + 1 <=> At(l) <= last
    BY <1>1, <1>2, <2>1
  <2>2. QED
    BY <2>1
<1>12. QED
  <2>1. last \in 0..last
    OBVIOUS
  <2>2. StreamsRight(n + 1, flow[last])
    BY <1>10, <1>11, <2>1
  <2>3. QED
    BY <2>2 DEF n
-----------------------------------------------------------------------------
(***************************************************************************)
(* What the data relies on: modules where the scheduler says, and that     *)
(* write one stream.                                                       *)
(***************************************************************************)
DataSound == ScheduleIsSound /\ HasSingleOutputs

LEMMA SoundBefore ==
    ASSUME UNCHANGED <<plan, phase, module_location, query_node_runs_queue>>, DataSound'
    PROVE  DataSound
<1>1. ScheduleIsSound
  BY DEF DataSound, ScheduleIsSound, Scheduler!ModuleLocationsHold, Scheduler!NeedsModule
<1>2. HasSingleOutputs
  BY DEF DataSound, HasSingleOutputs, Scheduler!NeedsModule
<1>3. QED
  BY <1>1, <1>2 DEF DataSound

LEMMA SingleOutputs ==
    ASSUME plan \in Plans, HasSingleOutputs
    PROVE  /\ OutputsHaveInputs(plan)
           /\ \A n \in plan.nodes : NeedsModule(n) => \A i \in Outputs(plan, n) : i = 1
<1> SUFFICES ASSUME NEW n \in plan.nodes
             PROVE  /\ Outputs(plan, n) \subseteq Inputs(plan, n)
                    /\ NeedsModule(n) => \A i \in Outputs(plan, n) : i = 1
  BY DEF OutputsHaveInputs
<1>1. /\ plan.previous_nodes \in [plan.nodes -> Seq(plan.nodes \cup {Null})]
      /\ plan.next_nodes \in [plan.nodes -> Seq(plan.nodes \cup {Null})]
  BY PlansAssumption DEF IsPlan, IsLinked
<1>2. /\ plan.previous_nodes[n] \in Seq(plan.nodes \cup {Null})
      /\ plan.next_nodes[n] \in Seq(plan.nodes \cup {Null})
  BY <1>1
<1>3. /\ Inputs(plan, n) = 1..Len(plan.previous_nodes[n]) /\ Len(plan.previous_nodes[n]) \in Nat
      /\ Outputs(plan, n) = 1..Len(plan.next_nodes[n]) /\ Len(plan.next_nodes[n]) \in Nat
  BY <1>2, LenProperties DEF Inputs, Outputs
<1>4. /\ Len(plan.next_nodes[n]) <= Len(plan.previous_nodes[n])
      /\ NeedsModule(n) => Len(plan.next_nodes[n]) <= 1
  BY DEF HasSingleOutputs, NeedsModule
<1>5. QED
  BY <1>3, <1>4

(***************************************************************************)
(* The board: the modules are those of the bitstream of the run.           *)
(***************************************************************************)
BoardLoaded ==
    /\ IsSequence(loaded_bitstream) /\ IsSequence(modules)
    /\ Len(modules) = Len(loaded_bitstream)
    /\ step # "start" => loaded_bitstream = query_node_runs_queue[next_run - 1].modules

LEMMA EachPlace ==
    ASSUME NEW s, IsSequence(s), NEW f, DOMAIN f = DOMAIN s, f = [k \in DOMAIN f |-> f[k]]
    PROVE  IsSequence(f) /\ Len(f) = Len(s)
<1>1. Len(s) \in Nat /\ DOMAIN s = 1..Len(s)
  BY AppendSequence
<1>2. f \in [1..Len(s) -> ToSet(f)]
  BY <1>1 DEF ToSet
<1>3. f \in Seq(ToSet(f)) /\ DOMAIN f = 1..Len(s)
  BY <1>1, <1>2, StreamSequence
<1>4. DOMAIN f = 1..Len(f) /\ Len(f) \in Nat
  BY <1>3, LenProperties
<1>5. \A k, l \in Nat : 1..k = 1..l => k = l
  OBVIOUS
<1>6. QED
  BY <1>1, <1>3, <1>4, <1>5 DEF IsSequence

LEMMA InitLoaded == Init => BoardLoaded
<1> SUFFICES ASSUME Init PROVE BoardLoaded
  OBVIOUS
<1>1. loaded_bitstream = <<>> /\ modules = <<>> /\ step = "start"
  BY DEF Init
<1>2. IsSequence(<<>>)
  BY DEF IsSequence, ToSet
<1>3. QED
  BY <1>1, <1>2 DEF BoardLoaded

LEMMA NextLoaded ==
    ASSUME ControlInv, ScheduleSettled, BoardLoaded, [Next]_vars
    PROVE  BoardLoaded'
<1>1. CASE SetupNextRunData
  <2> DEFINE bitstream == query_node_runs_queue[next_run].modules
  <2>1. /\ next_run \in Runs /\ next_run' - 1 = next_run
        /\ query_node_runs_queue' = query_node_runs_queue
    BY <1>1, SetupChanges
  <2>2. loaded_bitstream' = bitstream
        /\ modules' = IF bitstream = loaded_bitstream THEN modules
                      ELSE [k \in DOMAIN bitstream |-> FPGA!Unconfigured]
    BY <1>1 DEF SetupNextRunData, FPGA!LoadBitstreamIfNew
  <2>3. IsSequence(bitstream)
    <3>1. bitstream \in Seq(QueryOperation)
      BY <2>1 DEF ScheduleSettled, ModulesLocated
    <3>2. DOMAIN bitstream = 1..Len(bitstream) /\ Len(bitstream) \in Nat
      BY <3>1, LenProperties
    <3>3. bitstream \in [1..Len(bitstream) -> ToSet(bitstream)]
      BY <3>1, <3>2 DEF ToSet
    <3>4. QED
      BY <3>2, <3>3, StreamSequence DEF IsSequence
  <2>4. loaded_bitstream' = query_node_runs_queue'[next_run' - 1].modules
    BY <2>1, <2>2
  <2> HIDE DEF bitstream
  <2>5. ASSUME NEW m, m = modules' PROVE IsSequence(m) /\ Len(m) = Len(bitstream)
    <3>1. CASE bitstream = loaded_bitstream
      BY <2>2, <2>5, <3>1 DEF BoardLoaded
    <3>2. CASE bitstream # loaded_bitstream
      BY <2>2, <2>3, <2>5, <3>2, EachPlace
    <3>3. QED
      BY <3>1, <3>2
  <2>6. QED
    BY <2>2, <2>3, <2>4, <2>5 DEF BoardLoaded, IsSequence, ToSet
<1>2. CASE SetupQueryAcceleration
  <2>1. /\ UNCHANGED <<loaded_bitstream, query_node_runs_queue, next_run>>
        /\ step' # "start" /\ step # "start"
        /\ modules' = modules \/ FPGA!ConfigureModules(query_nodes)
    BY <1>2 DEF SetupQueryAcceleration, schedulerVars, FPGA!SetupQueryAcceleration
  <2>2. ASSUME NEW m, m = modules' PROVE IsSequence(m) /\ Len(m) = Len(modules)
    <3>1. CASE modules' = modules
      BY <2>2, <3>1 DEF BoardLoaded
    <3>2. CASE FPGA!ConfigureModules(query_nodes)
      <4>1. DOMAIN m = DOMAIN modules /\ m = [k \in DOMAIN m |-> m[k]]
        BY <2>2, <3>2 DEF FPGA!ConfigureModules
      <4>2. QED
        BY <4>1, EachPlace DEF BoardLoaded
    <3>3. QED
      BY <2>1, <3>1, <3>2
  <2>3. QED
    BY <2>1, <2>2 DEF BoardLoaded, IsSequence, ToSet
<1>3. CASE ~SetupNextRunData /\ ~SetupQueryAcceleration
  <2>1. UNCHANGED <<loaded_bitstream, modules>>
    BY <1>3 DEF Next, vars, boardVars, ScheduleUnscheduledNodes, LeaveScheduleState,
       SetFinishedFlag, LeaveSetupNodesState, AllocateStreamIDs, AllocateMemoryBlocks,
       CrashOnNullLink, IsRunValid, RunIsInvalid, RunQueryAcceleration, ProcessResults,
       FreeMemoryBlocks, FPGA!RunQueryAcceleration
  <2>2. step' # "start" => step # "start" /\ UNCHANGED <<query_node_runs_queue, next_run>>
    <3>1. CASE ScheduleUnscheduledNodes
      BY <3>1 DEF ScheduleUnscheduledNodes, ControlInv, StateOK, controlVars
    <3>2. CASE ~ScheduleUnscheduledNodes
      BY <1>3, <3>2, RunKeptControl, Steps, QuietSteps DEF schedulerVars, AllocateMemoryBlocks,
         FreeMemoryBlocks
    <3>3. QED
      BY <3>1, <3>2
  <2>3. QED
    BY <2>1, <2>2 DEF BoardLoaded, IsSequence, ToSet
<1>4. QED
  BY <1>1, <1>2, <1>3

(***************************************************************************)
(* The parameters of the run: besides the numbers, each node's location,   *)
(* and the blocks and record counts of its streams.                        *)
(***************************************************************************)
GivenTo(q, n) ==
    /\ q.node = n /\ q.operation_module_location = module_location[n]
    /\ \A j \in Inputs(plan, n) : /\ q.inputs[j].block = input_memory_blocks[n][j]
                                  /\ q.inputs[j].size = input_stream_sizes[n][j]
    /\ \A i \in Outputs(plan, n) : q.outputs[i].block = output_memory_blocks[n][i]
NodesGiven ==
    step \in {"memory", "validate", "setup", "run"} /\ error = "none" =>
        \A k \in DOMAIN query_nodes : GivenTo(query_nodes[k], CurrentRun[k])

LEMMA QuietGiven ==
    ASSUME ControlInv, ParamsInv, NodesGiven, QuietStep
    PROVE  NodesGiven'
<1>1. UNCHANGED <<schedulerVars, next_run, input_memory_blocks, output_memory_blocks,
                  input_stream_sizes>> /\ (step' = "start" <=> step = "start")
  BY QuietSteps
<1>2. UNCHANGED <<plan, module_location, CurrentRun>>
  BY <1>1, SameRuns DEF schedulerVars
<1>3. UNCHANGED query_nodes
  BY DEF QuietStep, vars, LeaveScheduleState, SetFinishedFlag, LeaveSetupNodesState,
     AllocateStreamIDs, CrashOnNullLink, IsRunValid, RunIsInvalid, SetupQueryAcceleration,
     RunQueryAcceleration, ProcessResults
<1>4. CASE step = "ids"
  <2>1. query_nodes' = <<>>
    BY <1>3, <1>4 DEF ParamsInv, QueryNodesOK
  <2>2. QED
    BY <2>1 DEF NodesGiven
<1>5. CASE step # "ids"
  <2>1. step' \in {"memory", "validate", "setup", "run"} /\ error' = "none" =>
            step \in {"memory", "validate", "setup", "run"} /\ error = "none"
    BY <1>5 DEF QuietStep, vars, controlVars, LeaveScheduleState, SetFinishedFlag,
       LeaveSetupNodesState, AllocateStreamIDs, CrashOnNullLink, IsRunValid, RunIsInvalid,
       IsRunning, SetupQueryAcceleration, RunQueryAcceleration, ProcessResults
  <2>2. QED
    BY <1>1, <1>2, <1>3, <2>1 DEF NodesGiven, GivenTo, Inputs, Outputs
<1>6. QED
  BY <1>4, <1>5

LEMMA AllocateGiven ==
    ASSUME ControlInv, DataInv, NumbersInv, ParamsInv, NodesGiven, AllocateMemoryBlocks
    PROVE  NodesGiven'
<1> DEFINE n == SetupNode
           q == AcceleratedQueryNode(n)
<1>1. /\ step = "memory" /\ step' \in {"memory", "validate"} /\ error = "none"
      /\ UNCHANGED <<schedulerVars, next_run, module_location>>
      /\ query_nodes' = Append(query_nodes, q)
      /\ input_memory_blocks' = [input_memory_blocks EXCEPT ![n] = InputBlocks(n)]
      /\ output_memory_blocks' = [output_memory_blocks EXCEPT ![n] = OutputBlocks(n)]
      /\ input_stream_sizes' = [input_stream_sizes EXCEPT ![n] = InputSizes(n)]
  BY DEF AllocateMemoryBlocks, IsRunning, schedulerVars
<1>2. UNCHANGED <<plan, CurrentRun>>
  BY <1>1, SameRuns
<1>3. /\ setup_index \in 1..Len(CurrentRun) /\ Len(CurrentRun) \in Nat
      /\ n = CurrentRun[setup_index] /\ n \in plan.nodes /\ InRun(n)
      /\ DOMAIN CurrentRun = 1..Len(CurrentRun) /\ IsInjective(CurrentRun)
  BY <1>1, SetupNodeKnown, CurrentRunKnown DEF SetupNode
<1>4. /\ IsSequence(query_nodes) /\ DOMAIN query_nodes = 1..(setup_index - 1)
  BY <1>1 DEF ParamsInv, QueryNodesOK, NodesSetUp
<1>5. /\ DOMAIN input_ids[n] = Inputs(plan, n) /\ DOMAIN output_ids[n] = Outputs(plan, n)
  BY <1>1, <1>3, NumbersComplete DEF NumbersInv, NumbersFit
<1>6. /\ q.node = n /\ q.operation_module_location = module_location[n]
      /\ \A j \in Inputs(plan, n) : /\ q.inputs[j].block = InputBlocks(n)[j]
                                    /\ q.inputs[j].size = InputSizes(n)[j]
      /\ \A i \in Outputs(plan, n) : q.outputs[i].block = OutputBlocks(n)[i]
  BY <1>5 DEF AcceleratedQueryNode, CreateStreamParams
<1>7. /\ input_memory_blocks'[n] = InputBlocks(n)
      /\ output_memory_blocks'[n] = OutputBlocks(n)
      /\ input_stream_sizes'[n] = InputSizes(n)
      /\ \A m \in plan.nodes \ {n} : /\ input_memory_blocks'[m] = input_memory_blocks[m]
                                     /\ output_memory_blocks'[m] = output_memory_blocks[m]
                                     /\ input_stream_sizes'[m] = input_stream_sizes[m]
  BY <1>1, <1>3 DEF DataInv, VectorsOK, SizesOK
<1> HIDE DEF n, q
<1>8. Len(query_nodes) = setup_index - 1
  <2>1. Len(query_nodes) \in Nat /\ DOMAIN query_nodes = 1..Len(query_nodes)
    BY <1>4, AppendSequence
  <2>2. \A l \in Nat : 1..l = 1..(setup_index - 1) => l = setup_index - 1
    BY <1>3
  <2>3. QED
    BY <1>4, <2>1, <2>2
<1>9. /\ DOMAIN query_nodes' = 1..setup_index
      /\ \A k \in 1..(setup_index - 1) : query_nodes'[k] = query_nodes[k]
      /\ query_nodes'[setup_index] = q
  <2>1. /\ DOMAIN query_nodes' = 1..(Len(query_nodes) + 1)
        /\ \A k \in 1..Len(query_nodes) : query_nodes'[k] = query_nodes[k]
        /\ query_nodes'[Len(query_nodes) + 1] = q
    BY <1>1, <1>4, AppendSequence
  <2>2. (setup_index - 1) + 1 = setup_index
    BY <1>3
  <2>3. QED
    BY <1>8, <2>1, <2>2
<1>10. ASSUME NEW k \in DOMAIN query_nodes', NEW x, x = query_nodes'[k], NEW m, m = CurrentRun[k]
       PROVE  GivenTo(x, m)'
  <2>1. CASE k = setup_index
    BY <1>1, <1>2, <1>3, <1>6, <1>7, <1>9, <1>10, <2>1 DEF GivenTo, Inputs, Outputs
  <2>2. CASE k # setup_index
    <3>1. k \in 1..(setup_index - 1) /\ k \in DOMAIN CurrentRun
      BY <1>3, <1>9, <1>10, <2>2
    <3>2. GivenTo(x, m)
      BY <1>1, <1>4, <1>9, <1>10, <3>1 DEF NodesGiven
    <3>3. m # n
      BY <1>3, <1>10, <2>2, <3>1 DEF IsInjective
    <3>4. m \in plan.nodes
      BY <1>1, <1>10, <3>1, CurrentRunKnown DEF InRun, ToSet
    <3>5. QED
      BY <1>1, <1>2, <1>7, <3>2, <3>3, <3>4 DEF GivenTo, Inputs, Outputs
  <2>3. QED
    BY <2>1, <2>2
<1>11. QED
  BY <1>2, <1>10 DEF NodesGiven, GivenTo

LEMMA NextGiven ==
    ASSUME ControlInv, DataInv, NumbersInv, ParamsInv, NodesGiven, [Next]_vars
    PROVE  NodesGiven'
<1>1. CASE SetupNextRunData
  BY <1>1 DEF SetupNextRunData, NodesGiven
<1>2. CASE ScheduleUnscheduledNodes \/ FreeMemoryBlocks
  <2>1. step' = "start"
    BY <1>2 DEF ScheduleUnscheduledNodes, FreeMemoryBlocks, ControlInv, StateOK, controlVars
  <2>2. QED
    BY <2>1 DEF NodesGiven
<1>3. QED
  BY <1>1, <1>2, QuietGiven, AllocateGiven, Steps

(***************************************************************************)
(* Numbers taken for streams from memory are numbers of streams, and the   *)
(* stream that leaves a node as its output i has the number of input i.    *)
(***************************************************************************)
LEMMA InitNumbersKept == Init => NumbersKept
BY DEF Init, NumbersKept, HasNumbers

LEMMA AllocationKept ==
    ASSUME HasSimpleEdges(plan), ControlInv, DataInv, LinksSettled, NumbersInv, NumbersKept,
           AllocateStreamIDs, ~IDs!IsOutOfIDs(SetupNode)
    PROVE  NumbersKept'
<1> DEFINE n == SetupNode
<1>1. /\ step = "ids" /\ n \in plan.nodes
      /\ UNCHANGED <<plan, previous_nodes, next_nodes>>
      /\ IDs!AllocateNodeIDs(n)
      /\ \A x : HasNumbers(x)' <=> (HasNumbers(x) \/ x = n)
  BY NumbersGiven
<1>2. /\ DOMAIN previous_nodes[n] = Inputs(plan, n) /\ DOMAIN next_nodes[n] = Outputs(plan, n)
      /\ DOMAIN input_ids = plan.nodes /\ DOMAIN output_ids = plan.nodes
  BY <1>1 DEF ControlInv, ScheduleKnown, LinksKnown, NumbersInv, NumbersFit
<1>3. /\ input_ids'[n] = [j \in Inputs(plan, n) |-> IDs!InputID(n, j)]
      /\ output_ids'[n] = [i \in Outputs(plan, n) |-> IDs!OutputID(n, i)]
      /\ \A x : x # n => input_ids'[x] = input_ids[x] /\ output_ids'[x] = output_ids[x]
  BY <1>1, <1>2 DEF IDs!AllocateNodeIDs
<1>4. /\ \A k : IsFresh(n, k) => IDs!OutputID(n, k) \in ToSet(available_ids)
      /\ \A j \in Inputs(plan, n) : IDs!OutputID(n, j) = IDs!InputID(n, j)
  <2>1. IsInjective(available_ids)
    BY <1>1 DEF NumbersInv, NumbersFresh
  <2>2. \A j \in Inputs(plan, n) : IDs!OutputID(n, j) = IDs!InputID(n, j)
    BY <1>1, StackPlaces
  <2>3. ASSUME NEW k, IsFresh(n, k) PROVE IDs!OutputID(n, k) \in ToSet(available_ids)
    BY <1>1, <2>1, <2>3, FreshNumbers
  <2>4. QED
    BY <2>2, <2>3
<1>5. ToSet(available_ids) \subseteq IDs!StreamID
  BY LenProperties DEF DataInv, ManagersOK, ToSet
<1> HIDE DEF n
<1>6. ASSUME NEW x, HasNumbers(x)'
      PROVE  /\ \A j \in Inputs(plan, x) :
                   ~IsNode(previous_nodes[x][j]) => input_ids'[x][j] \in IDs!StreamID
             /\ \A i \in Outputs(plan, x) :
                   i \in Inputs(plan, x) => output_ids'[x][i] = input_ids'[x][i]
  <2>1. CASE x = n
    BY <1>3, <1>4, <1>5, <2>1 DEF IsFresh
  <2>2. CASE x # n
    BY <1>1, <1>3, <1>6, <2>2 DEF NumbersKept
  <2>3. QED
    BY <2>1, <2>2
<1>7. QED
  BY <1>1, <1>6 DEF NumbersKept, Inputs, Outputs, IDs!StreamID

LEMMA NextNumbersKept ==
    ASSUME HasSimpleEdges(plan), ControlInv, DataInv, LinksSettled, NumbersInv, NumbersKept,
           [Next]_vars
    PROVE  NumbersKept'
<1>1. CASE AllocateStreamIDs /\ ~IDs!IsOutOfIDs(SetupNode)
  BY <1>1, AllocationKept
<1>2. CASE (QuietStep \/ AllocateMemoryBlocks)
           /\ ~(AllocateStreamIDs /\ ~IDs!IsOutOfIDs(SetupNode))
  <2>1. UNCHANGED <<schedulerVars, next_run>> /\ (step' = "start" <=> step = "start")
    BY <1>2, QuietSteps DEF AllocateMemoryBlocks
  <2>2. /\ UNCHANGED idVars /\ (step' = "ids" <=> step = "ids")
        /\ step = "ids" => setup_index' = setup_index
    BY <1>2 DEF QuietStep, vars, controlVars, LeaveScheduleState, SetFinishedFlag,
       LeaveSetupNodesState, CrashOnNullLink, IsRunValid, RunIsInvalid, AllocateStreamIDs,
       AllocateMemoryBlocks, SetupQueryAcceleration, RunQueryAcceleration, ProcessResults
  <2>3. UNCHANGED <<plan, previous_nodes, next_nodes, CurrentRun>>
    BY <2>1, SameRuns
  <2>4. \A n : HasNumbers(n)' <=> HasNumbers(n)
    BY <2>1, <2>2, <2>3 DEF HasNumbers
  <2>5. UNCHANGED <<input_ids, output_ids>>
    BY <2>2 DEF idVars
  <2>6. QED
    BY <2>3, <2>4, <2>5 DEF NumbersKept, Inputs, Outputs, IDs!StreamID
<1>3. CASE ScheduleUnscheduledNodes \/ FreeMemoryBlocks
  <2>1. step' = "start"
    BY <1>3 DEF ScheduleUnscheduledNodes, FreeMemoryBlocks, ControlInv, StateOK, controlVars
  <2>2. QED
    BY <2>1 DEF NumbersKept, HasNumbers
<1>4. CASE SetupNextRunData
  <2>1. next_run \in Runs /\ CurrentRun' = RunNodes(next_run)
    BY <1>4, SetupChanges
  <2>2. DOMAIN CurrentRun' \subseteq Nat \ {0}
    <3>1. RunNodes(next_run) \in Seq(plan.nodes)
      BY <2>1 DEF ControlInv, ScheduleKnown, RunsKnown
    <3>2. QED
      BY <2>1, <3>1, LenProperties
  <2>3. step' = "ids" /\ setup_index' = 1
    BY <1>4 DEF SetupNextRunData
  <2>4. \A n : ~HasNumbers(n)'
    <3>1. \A k \in DOMAIN CurrentRun' : ~(k < 1)
      BY <2>2
    <3>2. QED
      BY <2>3, <3>1 DEF HasNumbers
  <2>5. QED
    BY <2>4 DEF NumbersKept
<1>5. QED
  BY <1>1, <1>2, <1>3, <1>4, Steps

(***************************************************************************)
(* The modules: each node of the run has the one at its location, and no   *)
(* module has two nodes.                                                   *)
(***************************************************************************)
LEMMA SoundRun ==
    ASSUME ControlInv, ScheduleSettled, BoardLoaded, DataSound, step # "start"
    PROVE  /\ \A k \in 1..Len(CurrentRun) : NeedsModule(CurrentRun[k]) =>
                 /\ module_location[CurrentRun[k]] \in 1..Len(modules)
                 /\ loaded_bitstream[module_location[CurrentRun[k]]].operation_type
                        = plan.operation_type[CurrentRun[k]]
           /\ \A k, l \in 1..Len(CurrentRun) :
                 k < l /\ NeedsModule(CurrentRun[k]) /\ NeedsModule(CurrentRun[l]) =>
                     module_location[CurrentRun[k]] < module_location[CurrentRun[l]]
           /\ \A x \in 1..Len(modules) : \E k \in 1..Len(CurrentRun) :
                 NeedsModule(CurrentRun[k]) /\ module_location[CurrentRun[k]] = x
<1> DEFINE r == next_run - 1
<1>1. /\ r \in Runs /\ CurrentRun = RunNodes(r) /\ IsInjective(CurrentRun)
      /\ DOMAIN CurrentRun = 1..Len(CurrentRun)
      /\ loaded_bitstream = query_node_runs_queue[r].modules
      /\ Len(modules) = Len(loaded_bitstream)
  BY CurrentRunKnown DEF BoardLoaded
<1> HIDE DEF r
<1>2. /\ \A n \in ToSet(CurrentRun) : NeedsModule(n) =>
            /\ module_location[n] \in DOMAIN loaded_bitstream
            /\ loaded_bitstream[module_location[n]].operation_type = plan.operation_type[n]
      /\ \A n, m \in ToSet(CurrentRun) :
            NeedsModule(n) /\ NeedsModule(m) /\ module_location[n] = module_location[m] => n = m
  <2>1. r \in DOMAIN query_node_runs_queue /\ CurrentRun = query_node_runs_queue[r].nodes
        /\ loaded_bitstream = query_node_runs_queue[r].modules
    BY <1>1 DEF Runs, RunNodes
  <2>2. Scheduler!ModuleLocationsHold
    BY DEF DataSound, ScheduleIsSound
  <2>3. \A s : Scheduler!ToSet(s) = ToSet(s)
    BY DEF ToSet, Scheduler!ToSet
  <2>4. QED
    BY <2>1, <2>2, <2>3 DEF Scheduler!ModuleLocationsHold, NeedsModule
<1>3. FollowsOrder(r)
  <2>1. ~SharesLocation(r)
    <3>1. SUFFICES ASSUME NEW k \in DOMAIN CurrentRun, NEW l \in DOMAIN CurrentRun, k # l,
                          NeedsModule(CurrentRun[k]), NeedsModule(CurrentRun[l]),
                          module_location[CurrentRun[k]] = module_location[CurrentRun[l]]
                   PROVE  FALSE
      BY <1>1 DEF SharesLocation
    <3>2. CurrentRun[k] = CurrentRun[l]
      BY <1>2, <3>1 DEF ToSet
    <3>3. QED
      BY <1>1, <3>1, <3>2 DEF IsInjective
  <2>2. QED
    BY <1>1, <2>1 DEF ScheduleSettled, ModulesLocated
<1>4. \A k \in 1..Len(CurrentRun) : CurrentRun[k] \in ToSet(CurrentRun)
  BY <1>1 DEF ToSet
<1>5. /\ \A k, l \in 1..Len(CurrentRun) :
            k < l /\ NeedsModule(CurrentRun[k]) /\ NeedsModule(CurrentRun[l])
            => module_location[CurrentRun[k]] < module_location[CurrentRun[l]]
      /\ \A k \in 1..Len(CurrentRun) :
            NeedsModule(CurrentRun[k]) => module_location[CurrentRun[k]] \in 1..Len(modules)
      /\ \A x \in 1..Len(modules) :
            \E k \in 1..Len(CurrentRun) :
                NeedsModule(CurrentRun[k]) /\ module_location[CurrentRun[k]] = x
  BY <1>1, <1>3, Zenon DEF FollowsOrder
<1>6. QED
  BY <1>2, <1>4, <1>5, Zenon

ModulesSet ==
    step = "run" /\ DataSound =>
        \A k \in 1..Len(CurrentRun) :
            NeedsModule(CurrentRun[k]) =>
                IsConfiguredFor(module_location[CurrentRun[k]], CurrentRun[k])

LEMMA ModuleConfigured ==
    ASSUME ControlInv, NumbersInv, ParamsInv, NodesGiven, ScheduleSettled, BoardLoaded, DataSound,
           step = "setup", error = "none", FPGA!ConfigureModules(query_nodes),
           NEW k \in 1..Len(CurrentRun), NEW n, n = CurrentRun[k], NeedsModule(n),
           NEW x, x = module_location[n], NEW c, c = modules'[x]
    PROVE  /\ c.node = n
           /\ DOMAIN c.inputs = Inputs(plan, n)
           /\ \A j \in Inputs(plan, n) : c.inputs[j] = input_ids[n][j]
           /\ c.outputs # <<>> <=> 1 \in Outputs(plan, n)
           /\ 1 \in Outputs(plan, n) => c.outputs[1] = output_ids[n][1]
           /\ loaded_bitstream[x].operation_type = plan.operation_type[n]
<1>1. /\ DOMAIN CurrentRun = 1..Len(CurrentRun) /\ Len(CurrentRun) \in Nat
      /\ DOMAIN query_nodes = 1..Len(CurrentRun)
      /\ \A i \in DOMAIN query_nodes : /\ NodeFits(query_nodes[i], CurrentRun[i])
                                       /\ GivenTo(query_nodes[i], CurrentRun[i])
  BY CurrentRunKnown DEF ParamsInv, QueryNodesOK, NodesSetUp, NodesGiven
<1>2. n \in plan.nodes /\ plan \in Plans
  BY <1>1, CurrentRunKnown DEF InRun, ToSet, ControlInv, ScheduleKnown
<1>3. x \in 1..Len(modules) /\ loaded_bitstream[x].operation_type = plan.operation_type[n]
  BY SoundRun
<1>4. DOMAIN modules = 1..Len(modules)
  BY AppendSequence DEF BoardLoaded
<1>5. FPGA!ConfiguredBy(query_nodes, x) = {k}
  <2>1. ASSUME NEW i \in 1..Len(CurrentRun)
        PROVE  i \in FPGA!ConfiguredBy(query_nodes, x) <=> i = k
    <3>1. i \in FPGA!ConfiguredBy(query_nodes, x) <=>
              module_location[CurrentRun[i]] = x /\ NeedsModule(CurrentRun[i])
      BY <1>1 DEF FPGA!ConfiguredBy, GivenTo, NeedsModule, Scheduler!NeedsModule,
         FPGA!PassThrough, Scheduler!PassThrough
    <3>2. module_location[CurrentRun[i]] = x /\ NeedsModule(CurrentRun[i]) => i = k
      <4>1. SUFFICES ASSUME module_location[CurrentRun[i]] = x, NeedsModule(CurrentRun[i]), i # k
                     PROVE  FALSE
        OBVIOUS
      <4>2. i < k \/ k < i
        BY <4>1
      <4>3. /\ i < k => module_location[CurrentRun[i]] < module_location[n]
            /\ k < i => module_location[n] < module_location[CurrentRun[i]]
        BY <4>1, SoundRun
      <4>4. QED
        BY <1>3, <4>1, <4>2, <4>3
    <3>3. QED
      BY <3>1, <3>2
  <2>2. FPGA!ConfiguredBy(query_nodes, x) \subseteq 1..Len(CurrentRun)
    BY <1>1 DEF FPGA!ConfiguredBy
  <2>3. QED
    BY <2>1, <2>2
<1>6. FPGA!Max({k}) = k
  BY DEF FPGA!Max
<1> DEFINE q == query_nodes[k]
<1>7. c = [node |-> q.node, inputs |-> FPGA!IDsOf(q.inputs), outputs |-> FPGA!IDsOf(q.outputs)]
  <2>1. FPGA!ConfiguredBy(query_nodes, x) # {} /\ FPGA!Max(FPGA!ConfiguredBy(query_nodes, x)) = k
    BY <1>5, <1>6
  <2>2. QED
    BY <1>3, <1>4, <2>1 DEF FPGA!ConfigureModules
<1>8. /\ q.node = n
      /\ DOMAIN q.inputs = Inputs(plan, n) /\ DOMAIN q.outputs = Outputs(plan, n)
      /\ \A j \in Inputs(plan, n) : q.inputs[j].stream_id = input_ids[n][j]
      /\ \A i \in Outputs(plan, n) : q.outputs[i].stream_id = output_ids[n][i]
  BY <1>1 DEF NodeFits, ParamsFit, GivenTo
<1> HIDE DEF q
<1>9. /\ DOMAIN c.inputs = Inputs(plan, n) /\ DOMAIN c.outputs = Outputs(plan, n)
      /\ \A j \in Inputs(plan, n) : c.inputs[j] = input_ids[n][j]
      /\ \A i \in Outputs(plan, n) : c.outputs[i] = output_ids[n][i]
      /\ c.outputs = [i \in Outputs(plan, n) |-> output_ids[n][i]]
  BY <1>7, <1>8 DEF FPGA!IDsOf
<1>10. c.outputs # <<>> <=> 1 \in Outputs(plan, n)
  <2>1. PICK m \in Nat : Outputs(plan, n) = 1..m
    BY <1>2, PlanFacts
  <2>2. CASE 1 \in Outputs(plan, n)
    <3>1. DOMAIN <<>> = {}
      OBVIOUS
    <3>2. DOMAIN c.outputs # {}
      BY <1>9, <2>2
    <3>3. QED
      BY <2>2, <3>1, <3>2
  <2>3. CASE 1 \notin Outputs(plan, n)
    <3>1. Outputs(plan, n) = 1..0
      BY <2>1, <2>3
    <3>2. c.outputs \in [1..0 -> {0}]
      BY <1>9, <3>1
    <3>3. c.outputs \in Seq({0})
      BY <3>2, StreamSequence
    <3>4. Len(c.outputs) = 0
      BY <1>9, <3>1, <3>3, LenProperties
    <3>5. QED
      BY <2>3, <3>3, <3>4, EmptySeq
  <2>4. QED
    BY <2>2, <2>3
<1>11. QED
  BY <1>3, <1>7, <1>8, <1>9, <1>10

LEMMA NextModulesSet ==
    ASSUME ControlInv, NumbersInv, ParamsInv, NodesGiven, ScheduleSettled, BoardLoaded,
           ModulesSet, [Next]_vars
    PROVE  ModulesSet'
<1> SUFFICES ASSUME step' = "run", DataSound' PROVE ModulesSet'
  BY DEF ModulesSet
<1>1. SetupQueryAcceleration \/ UNCHANGED vars
  BY DEF Next, vars, controlVars, ScheduleUnscheduledNodes, LeaveScheduleState, SetFinishedFlag,
     LeaveSetupNodesState, SetupNextRunData, AllocateStreamIDs, AllocateMemoryBlocks,
     CrashOnNullLink, IsRunValid, RunIsInvalid, RunQueryAcceleration, ProcessResults,
     FreeMemoryBlocks, ControlInv, StateOK
<1>2. UNCHANGED schedulerVars
  BY <1>1 DEF SetupQueryAcceleration, vars
<1>3. DataSound
  BY <1>2, SoundBefore DEF schedulerVars
<1>4. CASE UNCHANGED vars
  <2>1. UNCHANGED <<schedulerVars, next_run, step, modules, loaded_bitstream, idVars>>
    BY <1>4 DEF vars, boardVars, controlVars
  <2>2. UNCHANGED <<plan, CurrentRun, module_location>>
    BY <2>1, SameRuns DEF schedulerVars
  <2>3. QED
    BY <1>3, <2>1, <2>2 DEF ModulesSet, IsConfiguredFor, NeedsModule, Scheduler!NeedsModule,
       idVars, Inputs, Outputs
<1>5. CASE SetupQueryAcceleration
  <2>1. /\ step = "setup" /\ error = "none" /\ FPGA!ConfigureModules(query_nodes)
        /\ UNCHANGED <<schedulerVars, next_run, loaded_bitstream, idVars>>
    BY <1>5 DEF SetupQueryAcceleration, IsRunning, FPGA!SetupQueryAcceleration
  <2>2. UNCHANGED <<plan, CurrentRun, module_location, input_ids, output_ids, loaded_bitstream>>
    BY <2>1, SameRuns DEF schedulerVars, idVars
  <2>3. ASSUME NEW k \in 1..Len(CurrentRun), NEW n, n = CurrentRun[k], NeedsModule(n),
               NEW x, x = module_location[n]
        PROVE  IsConfiguredFor(x, n)'
    <3> DEFINE c == modules'[x]
    <3>1. /\ c.node = n
          /\ DOMAIN c.inputs = Inputs(plan, n)
          /\ \A j \in Inputs(plan, n) : c.inputs[j] = input_ids[n][j]
          /\ c.outputs # <<>> <=> 1 \in Outputs(plan, n)
          /\ 1 \in Outputs(plan, n) => c.outputs[1] = output_ids[n][1]
          /\ loaded_bitstream[x].operation_type = plan.operation_type[n]
      <4>1. \A z : z = modules'[x] =>
              /\ z.node = n
              /\ DOMAIN z.inputs = Inputs(plan, n)
              /\ \A j \in Inputs(plan, n) : z.inputs[j] = input_ids[n][j]
              /\ z.outputs # <<>> <=> 1 \in Outputs(plan, n)
              /\ 1 \in Outputs(plan, n) => z.outputs[1] = output_ids[n][1]
              /\ loaded_bitstream[x].operation_type = plan.operation_type[n]
        BY <1>3, <2>1, <2>3, ModuleConfigured
      <4>2. QED
        BY <4>1
    <3>2. QED
      BY <2>2, <3>1 DEF IsConfiguredFor, Inputs, Outputs
  <2>4. QED
    BY <2>1, <2>2, <2>3 DEF ModulesSet, IsConfiguredFor, NeedsModule, Scheduler!NeedsModule
<1>6. QED
  BY <1>1, <1>4, <1>5

LEMMA RunIsPlaced ==
    ASSUME ControlInv, ScheduleSettled, BoardLoaded, ModulesSet, DataSound, step = "run"
    PROVE  RunPlaced(Len(modules))
<1>1. plan \in Plans /\ HasSingleOutputs
  BY DEF ControlInv, ScheduleKnown, DataSound
<1>2. \A k \in 1..Len(CurrentRun) : CurrentRun[k] \in plan.nodes
  BY CurrentRunKnown DEF InRun, ToSet
<1>3. \A k \in 1..Len(CurrentRun) : NeedsModule(CurrentRun[k]) =>
         \A i \in Outputs(plan, CurrentRun[k]) : i = 1
  BY <1>1, <1>2, SingleOutputs
<1>4. \A k \in 1..Len(CurrentRun) : NeedsModule(CurrentRun[k]) =>
         IsConfiguredFor(module_location[CurrentRun[k]], CurrentRun[k])
  BY DEF ModulesSet
<1>5. QED
  BY <1>3, <1>4, SoundRun, Zenon DEF RunPlaced

-----------------------------------------------------------------------------
(***************************************************************************)
(* A block kept for a later run waits at the input that it is kept for.    *)
(***************************************************************************)
KeptBlocksWait ==
    error = "none" =>
        \A e \in linked_nodes :
            HasFinished(e.from) /\ ~HasFinished(e.to) => \E b : InputHolds(e.to, e.input, b)

LEMMA InitKept == Init => KeptBlocksWait
BY DEF Init, KeptBlocksWait, HasFinished, HasRun

LEMMA NothingRunYet == next_run = 1 => \A n : ~HasRun(n)
BY DEF HasRun

LEMMA NothingRunLater == next_run' = 1 => \A n : ~HasRun(n)'
BY DEF HasRun

LEMMA ScheduleStart ==
    ASSUME ControlInv, ScheduleUnscheduledNodes
    PROVE  /\ step = "start" /\ step' = "start" /\ next_run = 1 /\ next_run' = 1
           /\ plan' = plan /\ is_graph_empty' = is_graph_empty /\ ~is_graph_empty
           /\ UNCHANGED <<boardVars, streamVars, results, error>>
BY SchedulerKeepsPlan DEF ScheduleUnscheduledNodes, ControlInv, StateOK, controlVars

(* An output that is kept in memory is not linked to a node of the run.    *)
LEMMA KeptOutputHolds ==
    ASSUME ControlInv, DataInv, RunLinked, BlocksPresent, step = "free", error = "none",
           NEW e \in CurrentLinks, ~HasRun(e.to)
    PROVE  /\ e.from \in plan.nodes /\ e.output \in Outputs(plan, e.from)
           /\ InRun(e.from) /\ ~IsNode(next_nodes[e.from][e.output])
           /\ \E b : OutputHolds(e.from, e.output, b)
<1>1. e \in Edges(plan) /\ InRun(e.from)
  BY DEF CurrentLinks, ControlInv, ScheduleKnown, KeptKnown
<1>2. /\ e.from \in plan.nodes /\ e.output \in Outputs(plan, e.from)
      /\ plan.next_nodes[e.from][e.output] = e.to
  BY <1>1, EdgeFacts
<1>3. ~InRun(e.to)
  BY CurrentRunKnown
<1>4. next_nodes[e.from][e.output] \in {e.to, Null}
  BY <1>2 DEF ControlInv, ScheduleKnown, LinksKnown
<1>5. ~IsNode(next_nodes[e.from][e.output])
  BY <1>1, <1>2, <1>3, <1>4 DEF RunLinked, IsNode
<1>6. PICK k \in DOMAIN CurrentRun : CurrentRun[k] = e.from
  BY <1>1 DEF InRun, ToSet
<1>7. IsBlock(output_memory_blocks[e.from][e.output])
  BY <1>2, <1>5, <1>6 DEF BlocksPresent, IsSetUp, BlocksOfNode
<1>8. e.output \in DOMAIN output_memory_blocks[e.from]
  BY <1>1, <1>2 DEF DataInv, VectorsOK, IsBeingRun
<1>9. QED
  BY <1>1, <1>2, <1>5, <1>7, <1>8, BlockNumbers DEF OutputHolds

LEMMA FreeKept ==
    ASSUME HasSimpleEdges(plan), ControlInv, DataInv, RunLinked, BlocksPresent, KeptBlocksWait,
           FreeMemoryBlocks
    PROVE  KeptBlocksWait'
<1>1. /\ step = "free" /\ error = "none" /\ plan' = plan /\ linked_nodes' = linked_nodes
      /\ \A m : HasFinished(m)' <=> HasRun(m)
  BY FreeVectors
<1>2. ASSUME NEW e \in linked_nodes, HasRun(e.from), ~HasRun(e.to)
      PROVE  \E b : InputHolds(e.to, e.input, b)'
  <2>1. CASE InRun(e.from)
    <3>1. e \in CurrentLinks
      BY <2>1 DEF CurrentLinks
    <3>2. \E b : OutputHolds(e.from, e.output, b)
      BY <1>1, <1>2, <3>1, KeptOutputHolds
    <3>3. QED
      BY <1>2, <3>1, <3>2, FreedPlaces
  <2>2. CASE ~InRun(e.from)
    <3>1. HasFinished(e.from) /\ ~HasFinished(e.to)
      BY <1>2, <2>2 DEF HasFinished, IsBeingRun
    <3>2. PICK b : InputHolds(e.to, e.input, b)
      BY <1>1, <1>2, <3>1 DEF KeptBlocksWait
    <3>3. LinksTo(e.to, e.input) = {}
      <4>1. SUFFICES ASSUME NEW f \in LinksTo(e.to, e.input) PROVE FALSE
        OBVIOUS
      <4>2. f \in linked_nodes /\ InRun(f.from) /\ f.to = e.to /\ f.input = e.input
        BY <4>1 DEF LinksTo, CurrentLinks
      <4>3. e = f
        BY <4>2, LinksApart
      <4>4. QED
        BY <2>2, <4>2, <4>3
    <3>4. QED
      BY <1>2, <3>2, <3>3, FreedPlaces
  <2>3. QED
    BY <2>1, <2>2
<1>3. QED
  BY <1>1, <1>2 DEF KeptBlocksWait

LEMMA NextKept ==
    ASSUME HasSimpleEdges(plan), ControlInv, DataInv, PlacesOK, RunLinked, BlocksPresent,
           KeptBlocksWait, [Next]_vars
    PROVE  KeptBlocksWait'
<1>1. CASE ScheduleUnscheduledNodes
  <2>1. \A n : ~HasFinished(n)'
    BY <1>1, ScheduleStart, NothingRunLater DEF HasFinished
  <2>2. QED
    BY <2>1 DEF KeptBlocksWait
<1>2. CASE QuietStep
  <2>1. /\ UNCHANGED <<schedulerVars, next_run, input_memory_blocks>>
        /\ step' = "start" <=> step = "start"
        /\ error' = "none" => error = "none"
    BY <1>2, QuietSteps
  <2>2. UNCHANGED <<plan, linked_nodes>> /\ \A n : HasFinished(n)' <=> HasFinished(n)
    BY <2>1, SameRuns
  <2>3. \A n, j, b : InputHolds(n, j, b)' <=> InputHolds(n, j, b)
    BY <2>1, <2>2 DEF InputHolds
  <2>4. QED
    BY <2>1, <2>2, <2>3 DEF KeptBlocksWait
<1>3. CASE SetupNextRunData
  <2>1. UNCHANGED <<plan, linked_nodes, error>>
    BY <1>3, SetupChanges DEF SetupNextRunData
  <2>2. /\ \A n : HasFinished(n) <=> HasRun(n)
        /\ \A n \in plan.nodes : HasFinished(n)' <=> HasRun(n)
    BY <1>3, SetupRuns
  <2>3. ASSUME NEW n, NEW j, NEW b, InputHolds(n, j, b) PROVE InputHolds(n, j, b)'
    <3>1. /\ n \in plan.nodes /\ j \in DOMAIN input_memory_blocks[n]
          /\ b # 0 /\ input_memory_blocks[n][j] = b
      BY <2>3 DEF InputHolds
    <3>2. ~GetsInputVector(n, NodesIn(next_run))
      BY <3>1 DEF GetsInputVector
    <3>3. input_memory_blocks'[n] = input_memory_blocks[n]
      BY <1>3, <3>1, <3>2, SetupVectors
    <3>4. QED
      BY <2>1, <3>1, <3>3 DEF InputHolds
  <2>4. \A e \in linked_nodes : e.from \in plan.nodes /\ e.to \in plan.nodes
    BY EdgeFacts DEF ControlInv, ScheduleKnown, KeptKnown
  <2>5. QED
    BY <2>1, <2>2, <2>3, <2>4 DEF KeptBlocksWait
<1>4. CASE AllocateMemoryBlocks
  <2>1. /\ UNCHANGED <<schedulerVars, next_run>> /\ (step' = "start" <=> step = "start")
        /\ error = "none"
    BY <1>4 DEF AllocateMemoryBlocks, IsRunning
  <2>2. UNCHANGED <<plan, linked_nodes>> /\ \A n : HasFinished(n)' <=> HasFinished(n)
    BY <2>1, SameRuns
  <2>3. \A n, j, b : InputHolds(n, j, b) => InputHolds(n, j, b)'
    BY <1>4, AllocatedPlaces
  <2>4. QED
    BY <2>1, <2>2, <2>3 DEF KeptBlocksWait
<1>5. CASE FreeMemoryBlocks
  BY <1>5, FreeKept
<1>6. QED
  BY <1>1, <1>2, <1>3, <1>4, <1>5, Steps

-----------------------------------------------------------------------------
(***************************************************************************)
(* The vectors of the record counts are as long as those of the blocks.    *)
(***************************************************************************)
SizesFit ==
    /\ DOMAIN contents = Memory!Block
    /\ \A n \in plan.nodes :
          /\ DOMAIN input_stream_sizes[n] = DOMAIN input_memory_blocks[n]
          /\ IsBeingRun(n) => DOMAIN output_stream_sizes[n] = Outputs(plan, n)

LEMMA InitSizesFit == Init => SizesFit
<1> SUFFICES ASSUME Init PROVE SizesFit
  OBVIOUS
<1>1. /\ contents = [b \in Memory!Block |-> FPGA!NoData] /\ step = "start"
      /\ input_stream_sizes = [n \in plan.nodes |-> <<>>]
      /\ input_memory_blocks = [n \in plan.nodes |-> <<>>]
  BY DEF Init
<1>2. QED
  BY <1>1 DEF SizesFit, IsBeingRun

LEMMA QuietSizesFit ==
    ASSUME ControlInv, SizesFit, QuietStep
    PROVE  SizesFit'
<1>1. UNCHANGED <<schedulerVars, next_run, input_memory_blocks, input_stream_sizes>>
      /\ (step' = "start" <=> step = "start")
  BY QuietSteps
<1>2. UNCHANGED plan /\ \A n : IsBeingRun(n)' <=> IsBeingRun(n)
  BY <1>1, SameRuns
<1>3. DOMAIN contents' = DOMAIN contents
  BY DEF QuietStep, vars, boardVars, LeaveScheduleState, SetFinishedFlag, LeaveSetupNodesState,
     AllocateStreamIDs, CrashOnNullLink, IsRunValid, RunIsInvalid, SetupQueryAcceleration,
     RunQueryAcceleration, FPGA!RunQueryAcceleration, ProcessResults
<1>4. \A n \in plan.nodes : DOMAIN output_stream_sizes'[n] = DOMAIN output_stream_sizes[n]
  <2>1. CASE ProcessResults
    BY <2>1 DEF ProcessResults
  <2>2. CASE ~ProcessResults
    BY <2>2 DEF QuietStep, vars, streamVars, LeaveScheduleState, SetFinishedFlag,
       LeaveSetupNodesState, AllocateStreamIDs, CrashOnNullLink, IsRunValid, RunIsInvalid,
       SetupQueryAcceleration, RunQueryAcceleration
  <2>3. QED
    BY <2>1, <2>2
<1>5. QED
  BY <1>1, <1>2, <1>3, <1>4 DEF SizesFit, Outputs, Memory!Block

LEMMA NextSizesFit ==
    ASSUME ControlInv, DataInv, SizesFit, [Next]_vars
    PROVE  SizesFit'
<1>1. CASE ScheduleUnscheduledNodes
  BY <1>1, ScheduleStart DEF boardVars, streamVars, SizesFit, IsBeingRun, Memory!Block
<1>2. CASE SetupNextRunData
  <2>1. UNCHANGED <<plan, contents>>
    BY <1>2 DEF SetupNextRunData
  <2>2. \A n : IsBeingRun(n)' <=> n \in NodesIn(next_run)
    BY <1>2, SetupRuns
  <2>3. \A n \in plan.nodes : n \in NodesIn(next_run) =>
            DOMAIN output_stream_sizes'[n] = Outputs(plan, n)
    BY <1>2 DEF SetupNextRunData, InitialiseVectorSizes, NodesIn
  <2>4. \A n \in plan.nodes : DOMAIN input_stream_sizes'[n] = DOMAIN input_memory_blocks'[n]
    BY <1>2, SetupVectors DEF SizesFit
  <2>5. QED
    BY <2>1, <2>2, <2>3, <2>4 DEF SizesFit, Outputs, Memory!Block
<1>3. CASE AllocateMemoryBlocks
  <2>1. /\ UNCHANGED <<schedulerVars, next_run, output_stream_sizes>>
        /\ (step' = "start" <=> step = "start") /\ DOMAIN contents' = DOMAIN contents
    BY <1>3 DEF AllocateMemoryBlocks
  <2>2. UNCHANGED plan /\ \A n : IsBeingRun(n)' <=> IsBeingRun(n)
    BY <2>1, SameRuns
  <2>3. \A n \in plan.nodes : DOMAIN input_stream_sizes'[n] = DOMAIN input_memory_blocks'[n]
    BY <1>3, AllocateVectors DEF SizesFit
  <2>4. QED
    BY <2>1, <2>2, <2>3 DEF SizesFit, Outputs, Memory!Block
<1>4. CASE FreeMemoryBlocks
  <2>1. UNCHANGED <<plan, contents>>
    BY <1>4, FreeVectors DEF FreeMemoryBlocks, boardVars
  <2>2. \A n : ~IsBeingRun(n)'
    BY <1>4, FreeVectors
  <2>3. ASSUME NEW n \in plan.nodes
        PROVE  DOMAIN input_stream_sizes'[n] = DOMAIN input_memory_blocks'[n]
    <3>1. CASE HasRun(n)
      BY <1>4, <3>1, FreeVectors
    <3>2. CASE ~HasRun(n)
      BY <1>4, <3>2, FreeVectors DEF SizesFit
    <3>3. QED
      BY <3>1, <3>2
  <2>4. QED
    BY <2>1, <2>2, <2>3 DEF SizesFit, Memory!Block
<1>5. QED
  BY <1>1, <1>2, <1>3, <1>4, QuietSizesFit, Steps

(* Between runs there has been no error.                                   *)
ErrorFree == step = "start" => error = "none"

LEMMA InitErrorFree == Init => ErrorFree
BY DEF Init, ErrorFree

LEMMA NextErrorFree ==
    ASSUME ControlInv, ErrorFree, [Next]_vars
    PROVE  ErrorFree'
BY DEF Next, vars, controlVars, ScheduleUnscheduledNodes, LeaveScheduleState, SetFinishedFlag,
   LeaveSetupNodesState, SetupNextRunData, AllocateStreamIDs, AllocateMemoryBlocks,
   CrashOnNullLink, IsRunValid, RunIsInvalid, SetupQueryAcceleration, RunQueryAcceleration,
   ProcessResults, FreeMemoryBlocks, IsRunning, ErrorFree

-----------------------------------------------------------------------------
(***************************************************************************)
(* The data: what is in the blocks of the inputs and, once the board has   *)
(* run, in those of the outputs, with the counts of its records; and what  *)
(* has been written to files or compared with them.                        *)
(***************************************************************************)
InputsReady ==
    \A n, j, b : InputHolds(n, j, b) =>
        /\ contents[b] = InputOf(plan, n, j)
        /\ input_stream_sizes[n][j] = InputOf(plan, n, j)
OutputsReady ==
    step \in {"process", "free"} =>
        \A n, i, b : OutputHolds(n, i, b) =>
            /\ contents[b] = DataOf(plan)[n][i]
            /\ step = "process" => result_sizes[output_ids[n][i]] = DataOf(plan)[n][i]
            /\ step = "free" => output_stream_sizes[n][i] = DataOf(plan)[n][i]
ResultsKnown ==
    \A x \in results : \E n, i :
        /\ x.file \in {ExpectedFile(n, i), ResultFile(n, i)}
        /\ x.data = DataOf(plan)[n][i]

DataRight ==
    DataSound =>
        /\ error = "none" => InputsReady /\ OutputsReady
        /\ ResultsKnown

(* Before the first run there is no data.                                  *)
LEMMA NoDataYet ==
    ASSUME ControlInv, InputsWaiting, ResultsDelivered, next_run = 1, step = "start"
    PROVE  results = {} /\ \A n, j, b : ~InputHolds(n, j, b)
<1>1. \A n : ~HasRun(n) /\ ~HasFinished(n) /\ ~IsBeingRun(n) /\ ~Processed(n)
  BY NothingRunYet DEF HasFinished, IsBeingRun, Processed
<1>2. ASSUME NEW n, NEW j, NEW b, InputHolds(n, j, b) PROVE FALSE
  <2>1. /\ n \in plan.nodes /\ j \in DOMAIN input_memory_blocks[n]
        /\ IsBlock(input_memory_blocks[n][j])
    BY <1>2, BlockNumbers DEF InputHolds
  <2>2. QED
    BY <1>1, <2>1 DEF InputsWaiting
<1>3. ASSUME NEW x \in results PROVE FALSE
  <2>1. \E n, i : IsDelivered(x.file, n, i)
    BY DEF ResultsDelivered
  <2>2. QED
    BY <1>1, <2>1 DEF IsDelivered
<1>4. QED
  BY <1>2, <1>3

LEMMA InitRight == Init => DataRight
<1> SUFFICES ASSUME Init PROVE DataRight
  OBVIOUS
<1>1. /\ results = {} /\ step = "start"
      /\ input_memory_blocks = [n \in plan.nodes |-> <<>>]
  BY DEF Init
<1>2. \A n, j, b : ~InputHolds(n, j, b)
  BY <1>1 DEF InputHolds
<1>3. QED
  BY <1>1, <1>2 DEF DataRight, InputsReady, OutputsReady, ResultsKnown

LEMMA ScheduleRight ==
    ASSUME ControlInv, InputsWaiting, ResultsDelivered, ScheduleUnscheduledNodes
    PROVE  DataRight'
<1>1. /\ step = "start" /\ step' = "start" /\ next_run = 1 /\ plan' = plan
      /\ input_memory_blocks' = input_memory_blocks /\ results' = results
  BY ScheduleStart DEF streamVars
<1>2. results = {} /\ \A n, j, b : ~InputHolds(n, j, b)
  BY <1>1, NoDataYet
<1>3. \A n, j, b : ~InputHolds(n, j, b)'
  BY <1>1, <1>2 DEF InputHolds
<1>4. QED
  BY <1>1, <1>2, <1>3 DEF DataRight, InputsReady, OutputsReady, ResultsKnown

LEMMA QuietRight ==
    ASSUME ControlInv, DataRight, QuietStep, ~RunQueryAcceleration, ~ProcessResults
    PROVE  DataRight'
<1> SUFFICES ASSUME DataSound'
             PROVE  /\ error' = "none" => InputsReady' /\ OutputsReady'
                    /\ ResultsKnown'
  BY DEF DataRight
<1>1. /\ UNCHANGED <<schedulerVars, input_memory_blocks, input_stream_sizes>>
      /\ error' = "none" => error = "none"
  BY QuietSteps
<1>2. UNCHANGED <<contents, results, plan>>
  BY <1>1 DEF QuietStep, vars, boardVars, LeaveScheduleState, SetFinishedFlag,
     LeaveSetupNodesState, AllocateStreamIDs, CrashOnNullLink, IsRunValid, RunIsInvalid,
     SetupQueryAcceleration, schedulerVars
<1>3. step' \in {"process", "free"} => UNCHANGED vars
  BY DEF QuietStep, vars, controlVars, LeaveScheduleState, SetFinishedFlag,
     LeaveSetupNodesState, AllocateStreamIDs, CrashOnNullLink, IsRunValid, RunIsInvalid,
     SetupQueryAcceleration, ControlInv, StateOK
<1>4. DataSound
  BY <1>1, SoundBefore DEF schedulerVars
<1>5. \A n, j, b : InputHolds(n, j, b)' <=> InputHolds(n, j, b)
  BY <1>1, <1>2 DEF InputHolds
<1>6. ResultsKnown'
  BY <1>2, <1>4 DEF DataRight, ResultsKnown
<1>7. ASSUME error' = "none" PROVE InputsReady' /\ OutputsReady'
  <2>1. InputsReady /\ OutputsReady
    BY <1>1, <1>4, <1>7 DEF DataRight
  <2>2. InputsReady'
    BY <1>1, <1>2, <1>5, <2>1 DEF InputsReady
  <2>3. OutputsReady'
    <3>1. CASE step' \in {"process", "free"}
      <4>1. UNCHANGED <<contents, plan, step, output_memory_blocks, output_stream_sizes,
                        output_ids, result_sizes>>
        BY <1>3, <3>1 DEF vars, schedulerVars, boardVars, controlVars, streamVars, idVars
      <4>2. \A n, i, b : OutputHolds(n, i, b)' <=> OutputHolds(n, i, b)
        BY <4>1 DEF OutputHolds
      <4>3. QED
        BY <2>1, <4>1, <4>2 DEF OutputsReady
    <3>2. CASE step' \notin {"process", "free"}
      BY <3>2 DEF OutputsReady
    <3>3. QED
      BY <3>1, <3>2
  <2>4. QED
    BY <2>2, <2>3
<1>8. QED
  BY <1>6, <1>7

LEMMA SetupRight ==
    ASSUME ControlInv, DataRight, SetupNextRunData
    PROVE  DataRight'
<1> SUFFICES ASSUME DataSound'
             PROVE  /\ error' = "none" => InputsReady' /\ OutputsReady'
                    /\ ResultsKnown'
  BY DEF DataRight
<1>1. /\ UNCHANGED <<plan, phase, module_location, query_node_runs_queue, contents, results>>
      /\ error = "none" /\ step' = "ids"
  BY DEF SetupNextRunData, IsRunning
<1>2. DataSound
  BY <1>1, SoundBefore
<1>3. ASSUME NEW n, NEW j, NEW b, InputHolds(n, j, b)'
      PROVE  InputHolds(n, j, b) /\ input_stream_sizes'[n] = input_stream_sizes[n]
  <2>1. /\ n \in plan.nodes /\ j \in DOMAIN input_memory_blocks'[n]
        /\ b # 0 /\ input_memory_blocks'[n][j] = b
    BY <1>1, <1>3 DEF InputHolds
  <2>2. ~GetsInputVector(n, NodesIn(next_run))
    <3>1. SUFFICES ASSUME GetsInputVector(n, NodesIn(next_run)) PROVE FALSE
      OBVIOUS
    <3>2. input_memory_blocks'[n] = [k \in Inputs(plan, n) |-> NoBlock]
      BY <2>1, <3>1, SetupVectors
    <3>3. QED
      BY <2>1, <3>2, BlockNumbers
  <2>3. /\ input_memory_blocks'[n] = input_memory_blocks[n]
        /\ input_stream_sizes'[n] = input_stream_sizes[n]
    BY <2>1, <2>2, SetupVectors
  <2>4. QED
    BY <2>1, <2>3 DEF InputHolds
<1>4. InputsReady'
  BY <1>1, <1>2, <1>3 DEF DataRight, InputsReady
<1>5. OutputsReady'
  BY <1>1 DEF OutputsReady
<1>6. ResultsKnown'
  BY <1>1, <1>2 DEF DataRight, ResultsKnown
<1>7. QED
  BY <1>4, <1>5, <1>6

(***************************************************************************)
(* AllocateMemoryBlocks: the data read into the new blocks.  A stream that *)
(* another run computes comes from the file that its result is checked     *)
(* against, for a stream kept in memory has its block.                     *)
(***************************************************************************)
LEMMA FileOfInput ==
    ASSUME HasSimpleEdges(plan), ControlInv, VectorsOK, LinksSettled, DeliveryInv, KeptBlocksWait,
           step = "memory", error = "none", NEW n, n = SetupNode, NEW j \in InputsFromFile(n)
    PROVE  DataInFile(input_files[n][j]) = InputOf(plan, n, j)
<1> DEFINE r == next_run - 1
<1>1. /\ n \in plan.nodes /\ n \in NodesIn(r) /\ r \in Runs /\ is_graph_empty
      /\ IsBeingRun(n) /\ plan \in Plans
  BY SetupNodeKnown, CurrentRunKnown DEF ControlInv, ScheduleKnown
<1>2. /\ j \in Inputs(plan, n) /\ ~IsNode(previous_nodes[n][j])
      /\ ~IsBlock(input_memory_blocks[n][j])
  BY <1>1 DEF InputsFromFile, ControlInv, ScheduleKnown, LinksKnown
<1> HIDE DEF r
<1>3. CASE ~IsNode(plan.previous_nodes[n][j])
  <2>1. input_files[n][j] = TableFile(n, j) /\ InputOf(plan, n, j) = TableFile(n, j)
    BY <1>1, <1>2, <1>3 DEF DeliveryInv, ScheduleSettled, FilesKnown, InputOf
  <2>2. TableFile(n, j) # NoFile /\ TableFile(n, j)[1] = "table" /\ "table" # "expected"
    BY DEF TableFile, NoFile
  <2>3. QED
    BY <2>1, <2>2 DEF DataInFile
<1>4. CASE IsNode(plan.previous_nodes[n][j])
  <2> DEFINE m == plan.previous_nodes[n][j]
             e == Edge(m, Feeding(plan, n, j), n, j)
  <2>1. m \in plan.nodes /\ Feeding(plan, n, j) \in Outputs(plan, m)
        /\ plan.next_nodes[m][Feeding(plan, n, j)] = n
    BY <1>1, <1>2, <1>4, ConsumersProduce
  <2>2. e \in Edges(plan)
    BY <1>1, <1>2, <2>1, StreamIsEdge
  <2>3. e.from = m /\ e.output = Feeding(plan, n, j) /\ e.to = n /\ e.input = j
    BY DEF Edge
  <2> HIDE DEF m, e
  <2>4. m \notin NodesIn(r)
    <3>1. IsNode(m)
      BY <2>1, PlanFacts, <1>1 DEF IsNode
    <3>2. m \in NodesIn(r) => previous_nodes[n][j] = m
      BY <1>1, <2>2, <2>3 DEF LinksSettled
    <3>3. QED
      BY <1>2, <3>1, <3>2
  <2>5. PICK s \in Runs : m \in NodesIn(s)
    BY <1>1, <2>1 DEF DeliveryInv, RunsCovered, AllInRuns
  <2>6. s # r /\ n \notin NodesIn(s)
    BY <1>1, <2>4, <2>5 DEF ControlInv, ScheduleKnown, RunsKnown
  <2>7. IF plan.is_checked[m][e.output]
        THEN input_files[n][j] = ExpectedFile(m, e.output)
        ELSE e \in linked_nodes
    BY <2>2, <2>3, <2>5, <2>6 DEF DeliveryInv, ScheduleSettled, StreamsForwarded
  <2>8. e \notin linked_nodes
    <3>1. SUFFICES ASSUME e \in linked_nodes PROVE FALSE
      OBVIOUS
    <3>2. \A t \in 1..s : n \notin NodesIn(t)
      BY <2>3, <2>5, <3>1 DEF ControlInv, ScheduleKnown, KeptKnown
    <3>3. s \in 1..r
      <4>1. s \in Nat /\ r \in Nat /\ r \in 1..Len(query_node_runs_queue)
            /\ s \in 1..Len(query_node_runs_queue)
        BY <1>1, <2>5 DEF ControlInv, ScheduleKnown, RunsKnown
      <4>2. ~(r <= s)
        BY <1>1, <3>2, <4>1
      <4>3. QED
        BY <4>1, <4>2
    <3>4. HasRun(m)
      BY <2>5, <3>3 DEF HasRun, NodesIn, r
    <3>5. ~IsBeingRun(m)
      BY <2>4, CurrentRunKnown DEF IsBeingRun, r
    <3>6. PICK b : InputHolds(n, j, b)
      BY <1>1, <2>3, <3>1, <3>4, <3>5 DEF KeptBlocksWait, HasFinished
    <3>7. QED
      BY <1>2, <3>6, BlockNumbers DEF InputHolds
  <2>9. input_files[n][j] = ExpectedFile(m, e.output)
    BY <2>7, <2>8
  <2>10. DataInFile(input_files[n][j]) = FPGA!OutputData[m][e.output]
    <3>1. /\ ExpectedFile(m, e.output) # NoFile /\ ExpectedFile(m, e.output)[1] = "expected"
          /\ ExpectedFile(m, e.output)[2] = m /\ ExpectedFile(m, e.output)[3] = e.output
      BY DEF ExpectedFile, NoFile
    <3>2. QED
      BY <2>9, <3>1 DEF DataInFile
  <2>11. InputOf(plan, n, j) = DataOf(plan)[m][e.output]
    BY <1>1, <2>2, <2>3, EdgeData
  <2>12. QED
    BY <2>10, <2>11, DataIsOfPlan
<1>5. QED
  BY <1>3, <1>4

LEMMA AllocateRight ==
    ASSUME HasSimpleEdges(plan), ControlInv, DataInv, MemoryInv, LinksSettled, RunLinked,
           DeliveryInv, KeptBlocksWait, SizesFit, DataRight, AllocateMemoryBlocks
    PROVE  DataRight'
<1> SUFFICES ASSUME DataSound'
             PROVE  /\ InputsReady' /\ OutputsReady'
                    /\ ResultsKnown'
  BY DEF DataRight
<1> DEFINE n == SetupNode
           New(j) == Memory!NextBlock(InputRequest(n, j))
<1>1. /\ step = "memory" /\ step' \in {"memory", "validate"} /\ error = "none"
      /\ UNCHANGED <<schedulerVars, plan, phase, module_location, query_node_runs_queue, results>>
      /\ input_stream_sizes' = [input_stream_sizes EXCEPT ![n] = InputSizes(n)]
      /\ contents' = [b \in DOMAIN contents |->
             LET filled == {j \in InputsFromFile(n) : InputBlocks(n)[j] = b}
             IN  IF filled = {} THEN contents[b]
                 ELSE DataInFile(input_files[n][CHOOSE j \in filled : TRUE])]
  BY DEF AllocateMemoryBlocks, IsRunning, schedulerVars
<1>2. DataSound /\ InputsReady /\ ResultsKnown
  <2>1. DataSound
    BY <1>1, SoundBefore
  <2>2. QED
    BY <1>1, <2>1 DEF DataRight
<1>3. ResultsKnown'
  BY <1>1, <1>2 DEF ResultsKnown
<1>4. OutputsReady'
  BY <1>1 DEF OutputsReady
<1>5. /\ n \in plan.nodes /\ InRun(n) /\ plan \in Plans
      /\ DOMAIN previous_nodes[n] = Inputs(plan, n)
      /\ InputsFromFile(n) \subseteq Inputs(plan, n)
  BY <1>1, SetupNodeKnown DEF ControlInv, ScheduleKnown, LinksKnown, InputsFromFile
<1>6. /\ input_stream_sizes'[n] = InputSizes(n)
      /\ \A m \in plan.nodes \ {n} : input_stream_sizes'[m] = input_stream_sizes[m]
  BY <1>1, <1>5 DEF DataInv, SizesOK
<1>7. \A j \in InputsFromFile(n) : InputBlocks(n)[j] = New(j)
  BY <1>5 DEF InputBlocks
<1>8. \A j \in InputsFromFile(n) : InputRequest(n, j) \in Nat \ {0}
  <2>1. \A k \in Nat : 1..k \subseteq Nat \ {0}
    OBVIOUS
  <2>2. QED
    BY <1>5, <2>1, Requests
<1>9. \A j \in InputsFromFile(n) : New(j) # 0 =>
         /\ ~IsHeld(New(j))
         /\ \A k \in InputsFromFile(n) : New(k) = New(j) => k = j
  <2> SUFFICES ASSUME NEW j \in InputsFromFile(n), New(j) # 0
               PROVE  /\ ~IsHeld(New(j))
                      /\ \A k \in InputsFromFile(n) : New(k) = New(j) => k = j
    OBVIOUS
  <2>1. /\ ~IsHeld(New(j))
        /\ \A l \in Nat \ {0} : Memory!NextBlock(l) = New(j) => InputRequest(n, j) = l
    BY <1>8, NewBlocksApart DEF MemoryInv
  <2>2. \A k \in InputsFromFile(n) : New(k) = New(j) => InputRequest(n, j) = InputRequest(n, k)
    BY <1>8, <2>1
  <2>3. QED
    BY <1>5, <2>1, <2>2, Requests
<1>10. \A j \in InputsFromFile(n) : DataInFile(input_files[n][j]) = InputOf(plan, n, j)
  BY <1>1, FileOfInput DEF DataInv
<1>11. \A j \in Inputs(plan, n) :
          /\ j \in InputsFromFile(n) => InputSizes(n)[j] = DataInFile(input_files[n][j])
          /\ j \notin InputsFromFile(n) /\ ~IsNode(previous_nodes[n][j]) =>
                InputSizes(n)[j] = input_stream_sizes[n][j]
  BY <1>5 DEF InputSizes
<1>12. \A m, j, b : InputHolds(m, j, b)' <=>
            \/ InputHolds(m, j, b)
            \/ /\ m = n /\ j \in InputsFromFile(n)
               /\ b # 0 /\ b = New(j)
  BY AllocatedPlaces DEF MemoryInv
<1>13. \A m, j, b : InputHolds(m, j, b)' => b \in DOMAIN contents
  <2>1. ASSUME NEW m, NEW j, NEW b, InputHolds(m, j, b)' PROVE b \in DOMAIN contents
    <3>1. b \in MaybeBlock /\ b # 0
      <4>1. CASE InputHolds(m, j, b)
        BY <4>1, VectorSequences, LenProperties DEF InputHolds, DataInv
      <4>2. CASE m = n /\ j \in InputsFromFile(n) /\ b # 0 /\ b = New(j)
        BY <1>8, <4>2, NextBlockType DEF DataInv
      <4>3. QED
        BY <1>12, <2>1, <4>1, <4>2
    <3>2. QED
      BY <3>1, BlockNumbers DEF SizesFit, MaybeBlock
  <2>2. QED
    BY <2>1
<1> HIDE DEF n, New
<1>14. ASSUME NEW m, NEW j, NEW b, InputHolds(m, j, b)
       PROVE  /\ contents'[b] = contents[b]
              /\ input_stream_sizes'[m][j] = input_stream_sizes[m][j]
  <2>1. /\ m \in plan.nodes /\ j \in DOMAIN input_memory_blocks[m]
        /\ b # 0 /\ input_memory_blocks[m][j] = b /\ IsHeld(b)
    BY <1>14 DEF InputHolds, IsHeld
  <2>2. {k \in InputsFromFile(n) : InputBlocks(n)[k] = b} = {}
    BY <1>7, <1>9, <2>1
  <2>3. b \in DOMAIN contents
    BY <1>12, <1>13, <1>14
  <2>4. contents'[b] = contents[b]
    BY <1>1, <2>2, <2>3, Zenon
  <2>5. CASE m = n
    <3>1. j \in Inputs(plan, n)
      BY <2>1, <2>5, VectorSequences DEF DataInv
    <3>2. ~IsNode(previous_nodes[n][j])
      BY <1>1, <1>5, <2>1, <2>5, <3>1, BlockNumbers DEF RunLinked
    <3>3. j \notin InputsFromFile(n)
      BY <2>1, <2>5, BlockNumbers DEF InputsFromFile
    <3>4. QED
      BY <1>6, <1>11, <2>4, <2>5, <3>1, <3>2, <3>3
  <2>6. CASE m # n
    BY <1>6, <2>1, <2>4, <2>6
  <2>7. QED
    BY <2>5, <2>6
<1>15. ASSUME NEW j \in InputsFromFile(n), NEW b, b # 0, b = New(j)
       PROVE  /\ contents'[b] = InputOf(plan, n, j)
              /\ input_stream_sizes'[n][j] = InputOf(plan, n, j)
  <2>1. {k \in InputsFromFile(n) : InputBlocks(n)[k] = b} = {j}
    BY <1>7, <1>9, <1>15
  <2>2. b \in DOMAIN contents
    BY <1>12, <1>13, <1>15
  <2>3. (CHOOSE k \in {j} : TRUE) = j
    OBVIOUS
  <2>4. contents'[b] = DataInFile(input_files[n][j])
    <3>1. {j} # {}
      OBVIOUS
    <3>2. QED
      BY <1>1, <2>1, <2>2, <2>3, <3>1, Zenon
  <2>5. QED
    BY <1>5, <1>6, <1>10, <1>11, <2>4
<1>16. InputsReady'
  <2>1. ASSUME NEW m, NEW j, NEW b, InputHolds(m, j, b)'
        PROVE  /\ contents'[b] = InputOf(plan, m, j)
               /\ input_stream_sizes'[m][j] = InputOf(plan, m, j)
    <3>1. CASE InputHolds(m, j, b)
      BY <1>2, <1>14, <3>1 DEF InputsReady
    <3>2. CASE m = n /\ j \in InputsFromFile(n) /\ b # 0 /\ b = New(j)
      BY <1>15, <3>2
    <3>3. QED
      BY <1>12, <2>1, <3>1, <3>2
  <2>2. plan' = plan
    BY <1>1
  <2>3. QED
    BY <2>1, <2>2 DEF InputsReady
<1>17. QED
  BY <1>3, <1>4, <1>16

(***************************************************************************)
(* RunQueryAcceleration: the streams enter the pipeline as they wait in    *)
(* memory, and what leaves it is written to the blocks of the outputs.     *)
(***************************************************************************)
LEMMA StreamPlaces ==
    ASSUME ControlInv, DataInv, ParamsInv, NodesGiven, BlocksPresent, step = "run"
    PROVE  /\ \A s, k, j : InputStream(s, k, j) =>
                 /\ InputHolds(CurrentRun[k], j, s.block)
                 /\ s.size = input_stream_sizes[CurrentRun[k]][j]
           /\ \A s, k, i : OutputStream(s, k, i) => OutputHolds(CurrentRun[k], i, s.block)
<1>1. /\ error = "none" /\ DOMAIN CurrentRun = 1..Len(CurrentRun)
      /\ DOMAIN query_nodes = DOMAIN CurrentRun
      /\ \A k \in DOMAIN CurrentRun : GivenTo(query_nodes[k], CurrentRun[k])
      /\ \A k \in DOMAIN CurrentRun : BlocksOfNode(CurrentRun[k])
  BY CurrentRunKnown DEF ParamsInv, QueryNodesOK, StreamsFound, NodesSetUp, NodesGiven,
     BlocksPresent, IsSetUp
<1>2. ASSUME NEW k \in DOMAIN CurrentRun
      PROVE  /\ CurrentRun[k] \in plan.nodes
             /\ DOMAIN input_memory_blocks[CurrentRun[k]] = Inputs(plan, CurrentRun[k])
             /\ DOMAIN output_memory_blocks[CurrentRun[k]] = Outputs(plan, CurrentRun[k])
  BY CurrentRunKnown DEF InRun, ToSet, IsBeingRun, DataInv, VectorsOK
<1>3. ASSUME NEW s, NEW k, NEW j, InputStream(s, k, j)
      PROVE  /\ InputHolds(CurrentRun[k], j, s.block)
             /\ s.size = input_stream_sizes[CurrentRun[k]][j]
  <2>1. /\ k \in DOMAIN CurrentRun /\ j \in Inputs(plan, CurrentRun[k])
        /\ ~IsNode(previous_nodes[CurrentRun[k]][j]) /\ s = query_nodes[k].inputs[j]
    BY <1>3 DEF InputStream
  <2>2. /\ s.block = input_memory_blocks[CurrentRun[k]][j]
        /\ s.size = input_stream_sizes[CurrentRun[k]][j]
    BY <1>1, <2>1 DEF GivenTo
  <2>3. IsBlock(input_memory_blocks[CurrentRun[k]][j])
    BY <1>1, <2>1 DEF BlocksOfNode
  <2>4. QED
    BY <1>2, <2>1, <2>2, <2>3, BlockNumbers DEF InputHolds
<1>4. ASSUME NEW s, NEW k, NEW i, OutputStream(s, k, i)
      PROVE  OutputHolds(CurrentRun[k], i, s.block)
  <2>1. /\ k \in DOMAIN CurrentRun /\ i \in Outputs(plan, CurrentRun[k])
        /\ ~IsNode(next_nodes[CurrentRun[k]][i]) /\ s = query_nodes[k].outputs[i]
    BY <1>4 DEF OutputStream
  <2>2. s.block = output_memory_blocks[CurrentRun[k]][i]
    BY <1>1, <2>1 DEF GivenTo
  <2>3. IsBlock(output_memory_blocks[CurrentRun[k]][i])
    BY <1>1, <2>1 DEF BlocksOfNode
  <2>4. QED
    BY <1>2, <2>1, <2>2, <2>3, BlockNumbers DEF OutputHolds
<1>5. QED
  BY <1>3, <1>4

LEMMA EnteringRight ==
    ASSUME RunSetUp, DataInv, ParamsInv, NodesGiven, BlocksPresent, InputsReady, step = "run"
    PROVE  StreamsRight(1, FPGA!EnteringStreams(IDs!StreamID))
<1> DEFINE entering == FPGA!EnteringStreams(IDs!StreamID)
<1>1. ControlInv /\ InputsNumbered
  BY DEF RunSetUp, NumbersInv
<1>2. DOMAIN entering = IDs!StreamID
  BY DEF FPGA!EnteringStreams
<1>3. ASSUME NEW s, NEW l, NEW c, IsLive(1, s, l, c)
      PROVE  entering[NumberAt(s, l, c)] = DataAt(s, l, c)
  <2> DEFINE n == CurrentRun[l]
             id == input_ids[n][c]
             x == query_nodes[l].inputs[c]
             read == {stream \in input_streams : stream.stream_id = id}
  <2>1. /\ s = "in" /\ l \in 1..Len(CurrentRun) /\ c \in Inputs(plan, n)
        /\ ~IsNode(previous_nodes[n][c])
    BY <1>3, NodesOfRun DEF IsLive
  <2>2. id \in IDs!StreamID
    BY <1>3, <2>1, FirstCut DEF StreamsApart, NumberAt
  <2>3. InputStream(x, l, c)
    <3>1. NodeFits(query_nodes[l], n)
      BY <1>1, <2>1, CurrentRunKnown DEF ParamsInv, QueryNodesOK, StreamsFound, NodesSetUp
    <3>2. l \in DOMAIN CurrentRun
      BY <2>1, NodesOfRun
    <3>3. QED
      BY <2>1, <3>1, <3>2 DEF InputStream, NodeFits, ParamsFit
  <2>4. read = {x}
    <3>1. x \in read
      BY <1>1, <2>3, StreamsKnown DEF InputStream
    <3>2. ASSUME NEW y \in read PROVE y = x
      <4>1. PICK k, j : InputStream(y, k, j)
        BY <1>1, <3>2, StreamsKnown
      <4>2. InputNumber(CurrentRun[k], j, id) /\ InputNumber(n, c, id)
        <5>1. HasNumbers(CurrentRun[k]) /\ HasNumbers(n)
          BY <2>1, <4>1, NodesOfRun DEF InputStream
        <5>2. QED
          BY <2>1, <3>2, <4>1, <5>1 DEF InputNumber, InputStream
      <4>3. CurrentRun[k] = n /\ j = c
        BY <1>1, <4>2 DEF InputsNumbered
      <4>4. k = l
        BY <2>1, <4>1, <4>3, NodesOfRun DEF InputStream
      <4>5. QED
        BY <2>3, <4>1, <4>3, <4>4 DEF InputStream
    <3>3. QED
      BY <3>1, <3>2
  <2>5. InputHolds(n, c, x.block) /\ x.size = input_stream_sizes[n][c]
    BY <1>1, <2>3, StreamPlaces
  <2>6. FPGA!ReadByDMA(x) = InputOf(plan, n, c)
    BY <2>5 DEF InputsReady, FPGA!ReadByDMA
  <2>7. entering[id] = FPGA!ReadByDMA(x)
    <3>1. read # {} /\ FPGA!Cardinality(read) = 1 /\ (CHOOSE y \in read : TRUE) = x
      <4>1. Cardinality({x}) = 1
        BY FS_Singleton
      <4>2. FPGA!Cardinality({x}) = Cardinality({x})
        BY DEF FPGA!Cardinality, Cardinality
      <4>3. QED
        BY <2>4, <4>1, <4>2
    <3>2. entering[id] = CASE read = {} -> FPGA!NoData
                           [] FPGA!Cardinality(read) = 1 ->
                                  FPGA!ReadByDMA(CHOOSE y \in read : TRUE)
                           [] OTHER -> FPGA!Wrong
      BY <2>2, Zenon DEF FPGA!EnteringStreams
    <3> HIDE DEF read, entering
    <3>3. QED
      BY <3>1, <3>2
  <2>8. QED
    BY <2>1, <2>6, <2>7 DEF NumberAt, DataAt
<1>4. QED
  BY <1>2, <1>3 DEF StreamsRight
LEMMA LeavingRight ==
    ASSUME RunSetUp, DataInv, ParamsInv, NodesGiven, BlocksPresent, InputsReady,
           ScheduleSettled, BoardLoaded, ModulesSet, DataSound, step = "run"
    PROVE  StreamsRight(Len(CurrentRun) + 1, FPGA!LeavingStreams(IDs!StreamID))
<1>1. ControlInv
  BY DEF RunSetUp
<1>2. Len(modules) \in Nat
  BY AppendSequence DEF BoardLoaded
<1>3. RunPlaced(Len(modules))
  BY <1>1, RunIsPlaced
<1>4. PICK flow : /\ IsFlow(flow, IDs!StreamID, Len(modules))
                  /\ FPGA!LeavingStreams(IDs!StreamID) = flow[Len(modules)]
  BY <1>2, LeavingSteps
<1>5. flow[0] = FPGA!EnteringStreams(IDs!StreamID)
  <2>1. 0 \in 0..Len(modules)
    BY <1>2
  <2>2. QED
    BY <1>4, <2>1 DEF IsFlow
<1>6. StreamsRight(1, flow[0])
  BY <1>5, EnteringRight
<1>7. StreamsRight(Len(CurrentRun) + 1, flow[Len(modules)])
  BY <1>2, <1>3, <1>4, <1>6, FlowRight
<1>8. QED
  BY <1>4, <1>7

(* The stream that the board writes to the block of an output.             *)
LEMMA StreamOfOutput ==
    ASSUME ControlInv, DataInv, PlacesOK, ParamsInv, NodesGiven, BlocksPresent, step = "run",
           NEW n, NEW i, NEW b, OutputHolds(n, i, b)
    PROVE  \E s, k : /\ OutputStream(s, k, i) /\ CurrentRun[k] = n
                     /\ {stream \in output_streams : stream.block = b} = {s}
<1>1. /\ error = "none" /\ DOMAIN CurrentRun = 1..Len(CurrentRun)
      /\ DOMAIN query_nodes = DOMAIN CurrentRun
      /\ \A k \in DOMAIN CurrentRun : NodeFits(query_nodes[k], CurrentRun[k])
      /\ \A k \in DOMAIN CurrentRun : GivenTo(query_nodes[k], CurrentRun[k])
      /\ \A k \in DOMAIN CurrentRun : BlocksOfNode(CurrentRun[k])
  BY CurrentRunKnown DEF ParamsInv, QueryNodesOK, StreamsFound, NodesSetUp, NodesGiven,
     BlocksPresent, IsSetUp
<1>2. /\ n \in plan.nodes /\ i \in DOMAIN output_memory_blocks[n]
      /\ b # 0 /\ output_memory_blocks[n][i] = b
  BY DEF OutputHolds
<1>3. InRun(n) /\ i \in Outputs(plan, n)
  BY <1>2 DEF DataInv, VectorsOK, IsBeingRun
<1>4. PICK k \in DOMAIN CurrentRun : CurrentRun[k] = n
  BY <1>3 DEF InRun, ToSet
<1>5. PICK s : s = query_nodes[k].outputs[i]
  OBVIOUS
<1>6. s.block = b /\ s.stream_id = output_ids[n][i]
  BY <1>1, <1>2, <1>3, <1>4, <1>5 DEF GivenTo, NodeFits, ParamsFit
<1>7. ~IsNode(next_nodes[n][i])
  BY <1>1, <1>2, <1>3, <1>4, BlockNumbers DEF BlocksOfNode
<1>8. OutputStream(s, k, i)
  BY <1>3, <1>4, <1>5, <1>6, <1>7 DEF OutputStream
<1>9. ASSUME NEW t \in output_streams, t.block = b PROVE t = s
  <2>1. PICK l, c : OutputStream(t, l, c)
    BY StreamsKnown
  <2>2. OutputHolds(CurrentRun[l], c, b)
    BY <1>9, <2>1, StreamPlaces
  <2>3. CurrentRun[l] = n /\ c = i
    BY <2>2 DEF PlacesOK, OutputsApart
  <2>4. l = k
    BY <1>4, <2>1, <2>3, CurrentRunKnown DEF OutputStream, IsInjective
  <2>5. QED
    BY <1>5, <2>1, <2>3, <2>4 DEF OutputStream
<1>10. s \in output_streams
  BY <1>8, StreamsKnown
<1>11. QED
  BY <1>4, <1>6, <1>8, <1>9, <1>10

LEMMA RunRight ==
    ASSUME HasSimpleEdges(plan), ControlInv, DataInv, PlacesOK, LinksSettled, NumbersInv,
           NumbersKept, ParamsInv, NodesGiven, DeliveryInv, BoardLoaded, ModulesSet, SizesFit,
           DataRight, RunQueryAcceleration
    PROVE  DataRight'
<1> SUFFICES ASSUME DataSound'
             PROVE  InputsReady' /\ OutputsReady' /\ ResultsKnown'
  BY DEF DataRight
<1> DEFINE leaving == FPGA!LeavingStreams(IDs!StreamID)
           Writers(b) == {stream \in output_streams : stream.block = b}
           active == {stream.stream_id : stream \in output_streams}
<1>1. /\ step = "run" /\ step' = "process" /\ error = "none"
      /\ UNCHANGED <<plan, phase, module_location, query_node_runs_queue, results, output_ids,
                     input_memory_blocks, output_memory_blocks, input_stream_sizes>>
  BY DEF RunQueryAcceleration, IsRunning, schedulerVars, streamVars, idVars
<1>2. /\ contents' = [b \in DOMAIN contents |->
             IF Writers(b) = {} THEN contents[b]
             ELSE leaving[(CHOOSE s \in Writers(b) : TRUE).stream_id]]
      /\ result_sizes' = [id \in IDs!StreamID |->
             IF id \in active THEN leaving[id] ELSE FPGA!NoData]
  BY DEF RunQueryAcceleration, FPGA!RunQueryAcceleration
<1>3. DataSound /\ InputsReady /\ ResultsKnown
  <2>1. DataSound
    BY <1>1, SoundBefore
  <2>2. QED
    BY <1>1, <2>1 DEF DataRight
<1>4. ResultsKnown'
  BY <1>1, <1>3 DEF ResultsKnown
<1>5. plan \in Plans /\ ScheduleSettled /\ BlocksPresent
  BY DEF ControlInv, ScheduleKnown, DeliveryInv
<1>6. RunSetUp
  BY <1>1, <1>3, <1>5, SingleOutputs DEF RunSetUp, DataSound
<1>7. StreamsRight(Len(CurrentRun) + 1, leaving)
  BY <1>1, <1>3, <1>5, <1>6, LeavingRight
<1>8. StreamsApart(Len(CurrentRun) + 1)
  <2>1. Len(CurrentRun) + 1 \in 1..(Len(CurrentRun) + 1)
    BY <1>6, NodesOfRun
  <2>2. QED
    BY <1>6, <2>1, CutsApart
<1>9. \A b \in MaybeBlock : b # 0 => b \in DOMAIN contents
  BY BlockNumbers DEF SizesFit, MaybeBlock
<1> HIDE DEF leaving, Writers, active
<1>10. ASSUME NEW n, NEW j, NEW b, InputHolds(n, j, b)
       PROVE  contents'[b] = contents[b]
  <2>1. b \in DOMAIN contents
    BY <1>9, <1>10, VectorSequences, LenProperties DEF InputHolds, DataInv
  <2>2. ASSUME NEW s \in Writers(b) PROVE FALSE
    <3>1. s \in output_streams /\ s.block = b
      BY <2>2 DEF Writers
    <3>2. PICK k, i : OutputStream(s, k, i)
      BY <1>1, <3>1, StreamsKnown
    <3>3. OutputHolds(CurrentRun[k], i, b)
      BY <1>1, <1>5, <3>1, <3>2, StreamPlaces
    <3>4. QED
      BY <1>10, <3>3 DEF PlacesOK, SidesApart
  <2>3. QED
    BY <1>2, <2>1, <2>2
<1>11. ASSUME NEW n, NEW i, NEW b, OutputHolds(n, i, b)
       PROVE  /\ contents'[b] = DataOf(plan)[n][i]
              /\ result_sizes'[output_ids[n][i]] = DataOf(plan)[n][i]
  <2>1. b \in DOMAIN contents
    BY <1>9, <1>11, VectorSequences, LenProperties DEF OutputHolds, DataInv
  <2>2. PICK s, k : OutputStream(s, k, i) /\ CurrentRun[k] = n /\ Writers(b) = {s}
    BY <1>1, <1>5, <1>11, StreamOfOutput DEF Writers
  <2>3. /\ k \in DOMAIN CurrentRun /\ i \in Outputs(plan, n) /\ ~IsNode(next_nodes[n][i])
        /\ s.stream_id = output_ids[n][i]
    BY <2>2 DEF OutputStream
  <2>4. IsLive(Len(CurrentRun) + 1, "out", k, i)
    <3>1. /\ (Len(CurrentRun) + 1) - 1 = Len(CurrentRun) /\ k \in 1..Len(CurrentRun)
          /\ \A l \in 1..Len(CurrentRun) : IsNode(CurrentRun[l])
      BY <1>6, <2>3, NodesOfRun, PlanFacts DEF IsNode
    <3>2. \A l \in 1..Len(CurrentRun) : next_nodes[n][i] # CurrentRun[l]
      BY <2>3, <3>1
    <3>3. QED
      BY <2>2, <2>3, <3>1, <3>2 DEF IsLive
  <2>5. NumberAt("out", k, i) = output_ids[n][i] /\ DataAt("out", k, i) = DataOf(plan)[n][i]
    BY <2>2 DEF NumberAt, DataAt
  <2>6. output_ids[n][i] \in IDs!StreamID /\ leaving[output_ids[n][i]] = DataOf(plan)[n][i]
    BY <1>7, <1>8, <2>4, <2>5 DEF StreamsRight, StreamsApart
  <2>7. s \in output_streams
    BY <1>1, <2>2, StreamsKnown
  <2>8. (CHOOSE t \in Writers(b) : TRUE) = s
    BY <2>2
  <2>9. contents'[b] = leaving[s.stream_id]
    BY <1>2, <2>1, <2>2, <2>8
  <2>10. output_ids[n][i] \in active
    BY <2>3, <2>7 DEF active
  <2>11. QED
    BY <1>2, <2>3, <2>6, <2>9, <2>10
<1>12. /\ \A n, j, b : InputHolds(n, j, b)' <=> InputHolds(n, j, b)
       /\ \A n, i, b : OutputHolds(n, i, b)' <=> OutputHolds(n, i, b)
  BY <1>1 DEF InputHolds, OutputHolds
<1>13. InputsReady'
  BY <1>1, <1>3, <1>10, <1>12 DEF InputsReady
<1>14. OutputsReady'
  BY <1>1, <1>11, <1>12 DEF OutputsReady
<1>15. QED
  BY <1>4, <1>13, <1>14
(***************************************************************************)
(* ProcessResults: the counts of the records are kept with the outputs,    *)
(* and their data goes to the files.                                       *)
(***************************************************************************)
LEMMA ProcessRight ==
    ASSUME ControlInv, DataInv, DeliveryInv, SizesFit, DataRight, ProcessResults
    PROVE  DataRight'
<1> SUFFICES ASSUME DataSound'
             PROVE  InputsReady' /\ OutputsReady' /\ ResultsKnown'
  BY DEF DataRight
<1> DEFINE ResultOf(n, i) == [file |-> output_files[n][i], data |-> ReadTableFromMemory(n, i)]
           New == UNION {{ResultOf(n, i) :
                      i \in {i \in DOMAIN output_memory_blocks[n] :
                                HasBlock(n, i) /\ output_files[n][i] # NoFile}} :
                   n \in ToSet(CurrentRun)}
<1>1. /\ step = "process" /\ step' = "free" /\ error = "none"
      /\ UNCHANGED <<plan, phase, module_location, query_node_runs_queue, contents,
                     input_memory_blocks, output_memory_blocks, input_stream_sizes>>
  BY DEF ProcessResults, IsRunning, schedulerVars, boardVars
<1>2. results' = results \cup New
  BY Zenon DEF ProcessResults
<1>3. \A n \in plan.nodes : \A i \in DOMAIN output_stream_sizes[n] :
          InRun(n) /\ HasBlock(n, i) /\ i \in Inputs(plan, n) =>
              output_stream_sizes'[n][i] = RecordCount(n, i)
  BY DEF ProcessResults
<1>4. DataSound /\ InputsReady /\ OutputsReady /\ ResultsKnown
  <2>1. DataSound
    BY <1>1, SoundBefore
  <2>2. QED
    BY <1>1, <2>1 DEF DataRight
<1>5. OutputsHaveInputs(plan)
  BY <1>4, SingleOutputs DEF DataSound, ControlInv, ScheduleKnown
<1> HIDE DEF ResultOf, New
<1>6. ASSUME NEW n, NEW i, NEW b, OutputHolds(n, i, b)
      PROVE  /\ n \in plan.nodes /\ InRun(n) /\ i \in Outputs(plan, n)
             /\ HasBlock(n, i) /\ output_memory_blocks[n][i] = b
             /\ contents[b] = DataOf(plan)[n][i] /\ RecordCount(n, i) = DataOf(plan)[n][i]
  <2>1. /\ n \in plan.nodes /\ i \in DOMAIN output_memory_blocks[n]
        /\ b # 0 /\ output_memory_blocks[n][i] = b
    BY <1>6 DEF OutputHolds
  <2>2. InRun(n) /\ i \in Outputs(plan, n)
    BY <2>1 DEF DataInv, VectorsOK, IsBeingRun
  <2>3. contents[b] = DataOf(plan)[n][i] /\ RecordCount(n, i) = DataOf(plan)[n][i]
    BY <1>1, <1>4, <1>6 DEF OutputsReady, RecordCount
  <2>4. QED
    BY <2>1, <2>2, <2>3, BlockNumbers DEF HasBlock
<1>7. /\ \A n, j, b : InputHolds(n, j, b)' <=> InputHolds(n, j, b)
      /\ \A n, i, b : OutputHolds(n, i, b)' <=> OutputHolds(n, i, b)
  BY <1>1 DEF InputHolds, OutputHolds
<1>8. InputsReady'
  BY <1>1, <1>4, <1>7 DEF InputsReady
<1>9. OutputsReady'
  <2>1. ASSUME NEW n, NEW i, NEW b, OutputHolds(n, i, b)
        PROVE  output_stream_sizes'[n][i] = DataOf(plan)[n][i]
    <3>1. /\ n \in plan.nodes /\ InRun(n) /\ i \in Outputs(plan, n) /\ HasBlock(n, i)
          /\ RecordCount(n, i) = DataOf(plan)[n][i]
      BY <1>6, <2>1
    <3>2. i \in DOMAIN output_stream_sizes[n] /\ i \in Inputs(plan, n)
      BY <1>1, <1>5, <3>1 DEF SizesFit, IsBeingRun, OutputsHaveInputs
    <3>3. QED
      BY <1>3, <3>1, <3>2
  <2>2. QED
    BY <1>1, <1>6, <1>7, <2>1 DEF OutputsReady
<1>10. ASSUME NEW x \in New
       PROVE  \E n, i : /\ x.file \in {ExpectedFile(n, i), ResultFile(n, i)}
                        /\ x.data = DataOf(plan)[n][i]
  <2>1. PICK n, i : /\ InRun(n) /\ i \in DOMAIN output_memory_blocks[n] /\ HasBlock(n, i)
                    /\ output_files[n][i] # NoFile /\ x = ResultOf(n, i)
    BY DEF New, InRun
  <2>2. PICK b : b = output_memory_blocks[n][i]
    OBVIOUS
  <2>3. OutputHolds(n, i, b)
    BY <2>1, <2>2, BlockNumbers, CurrentRunKnown, <1>1 DEF OutputHolds, HasBlock
  <2>4. /\ n \in plan.nodes /\ i \in Outputs(plan, n)
        /\ contents[b] = DataOf(plan)[n][i] /\ RecordCount(n, i) = DataOf(plan)[n][i]
    BY <1>6, <2>3
  <2>5. ReadTableFromMemory(n, i) = DataOf(plan)[n][i]
    BY <2>2, <2>4 DEF ReadTableFromMemory
  <2>6. output_files[n][i] = OutputFile(n, i)
    BY <2>4 DEF DeliveryInv, ScheduleSettled, FilesKnown
  <2>7. output_files[n][i] \in {ExpectedFile(n, i), ResultFile(n, i)}
    BY <2>1, <2>6 DEF OutputFile
  <2>8. x.file = output_files[n][i] /\ x.data = ReadTableFromMemory(n, i)
    BY <2>1 DEF ResultOf
  <2>9. QED
    BY <2>5, <2>7, <2>8
<1>11. ResultsKnown'
  BY <1>1, <1>2, <1>4, <1>10 DEF ResultsKnown
<1>12. QED
  BY <1>8, <1>9, <1>11

(***************************************************************************)
(* FreeMemoryBlocks: a block that moves keeps its data, and its record     *)
(* count moves with it.                                                    *)
(***************************************************************************)
LEMMA FreeRight ==
    ASSUME HasSimpleEdges(plan), ControlInv, DataInv, SizesFit, DataRight, FreeMemoryBlocks
    PROVE  DataRight'
<1> SUFFICES ASSUME DataSound'
             PROVE  InputsReady' /\ OutputsReady' /\ ResultsKnown'
  BY DEF DataRight
<1>1. /\ step = "free" /\ step' = "start" /\ error = "none"
      /\ UNCHANGED <<plan, phase, module_location, query_node_runs_queue, contents, results>>
  BY FreeVectors DEF FreeMemoryBlocks, schedulerVars, boardVars
<1>2. DataSound /\ InputsReady /\ OutputsReady /\ ResultsKnown
  <2>1. DataSound
    BY <1>1, SoundBefore
  <2>2. QED
    BY <1>1, <2>1 DEF DataRight
<1>3. ASSUME NEW m \in plan.nodes, ~HasRun(m), NEW j \in DOMAIN input_memory_blocks[m]
      PROVE  input_stream_sizes'[m][j] =
                 IF LinksTo(m, j) = {} THEN input_stream_sizes[m][j] ELSE MovedSize(m, j)
  <2>1. j \in DOMAIN input_stream_sizes[m]
    BY <1>3 DEF SizesFit
  <2>2. ~IsErased(m)
    <3>1. ToSet(scheduled_node_names) = UNION {NodesIn(r) : r \in 1..(next_run - 1)}
      BY DEF ControlInv, NamesOK
    <3>2. m \notin ToSet(scheduled_node_names)
      BY <1>3, <3>1 DEF HasRun, NodesIn
    <3>3. QED
      BY <3>2 DEF IsErased
  <2>3. input_stream_sizes'[m] = [k \in DOMAIN input_stream_sizes[m] |->
            IF LinksTo(m, k) = {} THEN input_stream_sizes[m][k] ELSE MovedSize(m, k)]
    BY <1>3, <2>2 DEF FreeMemoryBlocks
  <2>4. QED
    BY <2>1, <2>3
<1>4. ASSUME NEW m, NEW j, NEW b, InputHolds(m, j, b)'
      PROVE  /\ contents[b] = InputOf(plan, m, j)
             /\ input_stream_sizes'[m][j] = InputOf(plan, m, j)
  <2>1. ~HasRun(m) /\ m \in plan.nodes /\ j \in DOMAIN input_memory_blocks[m]
    <3>1. ~HasRun(m) /\ m \in plan.nodes /\ j \in DOMAIN input_memory_blocks'[m]
      BY <1>1, <1>4, FreedPlaces DEF InputHolds
    <3>2. QED
      BY <3>1, FreeVectors
  <2>2. CASE LinksTo(m, j) = {} /\ InputHolds(m, j, b)
    BY <1>2, <1>3, <2>1, <2>2 DEF InputsReady
  <2>3. CASE \E e \in CurrentLinks :
                 e.to = m /\ e.input = j /\ OutputHolds(e.from, e.output, b)
    <3>1. PICK e \in CurrentLinks :
              e.to = m /\ e.input = j /\ OutputHolds(e.from, e.output, b)
      BY <2>3
    <3>2. e \in linked_nodes /\ e \in Edges(plan) /\ plan \in Plans
      BY DEF CurrentLinks, ControlInv, ScheduleKnown, KeptKnown
    <3>3. e \in LinksTo(m, j)
      BY <3>1 DEF LinksTo
    <3>4. LinkTo(m, j) = e
      <4>1. LinkTo(m, j) \in LinksTo(m, j)
        BY <3>3, LinkFound
      <4>2. PICK f : f = LinkTo(m, j)
        OBVIOUS
      <4>3. f \in linked_nodes /\ f.to = m /\ f.input = j
        BY <4>1, <4>2 DEF LinksTo, CurrentLinks
      <4>4. QED
        BY <3>1, <3>2, <4>2, <4>3, LinksApart
    <3>5. InputOf(plan, m, j) = DataOf(plan)[e.from][e.output]
      BY <3>1, <3>2, EdgeData
    <3>6. /\ contents[b] = DataOf(plan)[e.from][e.output]
          /\ output_stream_sizes[e.from][e.output] = DataOf(plan)[e.from][e.output]
      BY <1>1, <1>2, <3>1 DEF OutputsReady
    <3>7. MovedSize(m, j) = output_stream_sizes[e.from][e.output]
      BY <3>4 DEF MovedSize
    <3>8. QED
      BY <1>3, <2>1, <3>3, <3>5, <3>6, <3>7
  <2>4. QED
    BY <1>4, <2>2, <2>3, FreedPlaces
<1>5. InputsReady'
  BY <1>1, <1>4 DEF InputsReady
<1>6. OutputsReady' /\ ResultsKnown'
  BY <1>1, <1>2 DEF OutputsReady, ResultsKnown
<1>7. QED
  BY <1>5, <1>6
LEMMA NextRight ==
    ASSUME HasSimpleEdges(plan), ExecutionInv, MemoryInv, NumberingInv, DeliveryInv,
           NumbersKept, BoardLoaded, NodesGiven, ModulesSet, KeptBlocksWait, SizesFit, DataRight,
           [Next]_vars
    PROVE  DataRight'
<1>1. /\ ControlInv /\ DataInv /\ InputsWaiting /\ PlacesOK
      /\ LinksSettled /\ RunLinked /\ NumbersInv /\ ParamsInv /\ ResultsDelivered
  BY DEF ExecutionInv, MemoryInv, NumberingInv, DeliveryInv
<1>2. CASE ScheduleUnscheduledNodes
  BY <1>1, <1>2, ScheduleRight
<1>3. CASE QuietStep /\ ~RunQueryAcceleration /\ ~ProcessResults
  BY <1>1, <1>3, QuietRight
<1>4. CASE SetupNextRunData
  BY <1>1, <1>4, SetupRight
<1>5. CASE AllocateMemoryBlocks
  BY <1>1, <1>5, AllocateRight
<1>6. CASE RunQueryAcceleration
  BY <1>1, <1>6, RunRight
<1>7. CASE ProcessResults
  BY <1>1, <1>7, ProcessRight
<1>8. CASE FreeMemoryBlocks
  BY <1>1, <1>8, FreeRight
<1>9. QED
  BY <1>2, <1>3, <1>4, <1>5, <1>6, <1>7, <1>8, Steps

-----------------------------------------------------------------------------
(***************************************************************************)
(* What holds of the data, the board that computes it, and the memory in   *)
(* which it waits.                                                         *)
(***************************************************************************)
ContentsInv ==
    /\ NumbersKept /\ BoardLoaded /\ NodesGiven /\ ModulesSet
    /\ KeptBlocksWait /\ SizesFit /\ ErrorFree /\ DataRight

LEMMA InitContents == Init => ContentsInv
<1> SUFFICES ASSUME Init PROVE ContentsInv
  OBVIOUS
<1>1. step = "start"
  BY DEF Init
<1>2. NodesGiven /\ ModulesSet
  BY <1>1 DEF NodesGiven, ModulesSet
<1>3. QED
  BY <1>2, InitNumbersKept, InitLoaded, InitKept, InitSizesFit, InitErrorFree, InitRight
     DEF ContentsInv

LEMMA NextContents ==
    ASSUME PlansAreSimple, ExecutionInv, MemoryInv, NumberingInv, DeliveryInv, ContentsInv,
           [Next]_vars
    PROVE  ContentsInv'
<1>1. HasSimpleEdges(plan)
  BY DEF PlansAreSimple, ExecutionInv, ControlInv, ScheduleKnown
<1>2. /\ ControlInv /\ DataInv /\ PlacesOK /\ LinksSettled /\ RunLinked /\ NumbersInv
      /\ ParamsInv /\ ScheduleSettled /\ BlocksPresent
  BY DEF ExecutionInv, MemoryInv, NumberingInv, DeliveryInv
<1>3. /\ NumbersKept /\ BoardLoaded /\ NodesGiven /\ ModulesSet
      /\ KeptBlocksWait /\ SizesFit /\ ErrorFree /\ DataRight
  BY DEF ContentsInv
<1>4. NumbersKept'
  BY <1>1, <1>2, <1>3, NextNumbersKept
<1>5. BoardLoaded' /\ NodesGiven' /\ ModulesSet'
  BY <1>2, <1>3, NextLoaded, NextGiven, NextModulesSet
<1>6. KeptBlocksWait' /\ SizesFit' /\ ErrorFree'
  BY <1>1, <1>2, <1>3, NextKept, NextSizesFit, NextErrorFree
<1>7. DataRight'
  BY <1>1, <1>3, NextRight
<1>8. QED
  BY <1>4, <1>5, <1>6, <1>7 DEF ContentsInv

LEMMA ContentsHold ==
    ASSUME PlansAreSimple
    PROVE  Spec => [](ExecutionInv /\ ContentsInv)
<1>1. Init => NumberingInv /\ DeliveryInv /\ ContentsInv
  BY InitNumbering, InitDelivery, InitContents
<1>2. ExecutionInv /\ MemoryInv /\ NumberingInv /\ DeliveryInv /\ ContentsInv /\ [Next]_vars
      => NumberingInv' /\ DeliveryInv' /\ ContentsInv'
  BY NextNumbering, NextDelivery, NextContents
<1>3. Spec => [](ExecutionInv /\ MemoryInv)
  BY MemoryHolds
<1>4. QED
  BY <1>1, <1>2, <1>3, PTL DEF Spec

LEMMA ResultsFollow ==
    ASSUME ContentsInv
    PROVE  ResultsRight
<1>1. SUFFICES ASSUME ScheduleIsSound, HasSingleOutputs, NEW x \in results
               PROVE  x.data = FPGA!OutputData[x.file[2]][x.file[3]]
  BY DEF ResultsRight
<1>2. PICK n, i : /\ x.file \in {ExpectedFile(n, i), ResultFile(n, i)}
                  /\ x.data = DataOf(plan)[n][i]
  BY <1>1 DEF ContentsInv, DataRight, DataSound, ResultsKnown
<1>3. x.file[2] = n /\ x.file[3] = i
  BY <1>2 DEF ExpectedFile, ResultFile
<1>4. QED
  BY <1>2, <1>3, DataIsOfPlan

LEMMA CarriedFollows ==
    ASSUME PlansAreSimple, ExecutionInv, ContentsInv
    PROVE  CarriedDataKept
<1>1. SUFFICES ASSUME IsBetweenRuns, ScheduleIsSound, HasSingleOutputs,
                      NEW e \in linked_nodes, HasRun(e.from), ~HasRun(e.to),
                      NEW block, block = input_memory_blocks[e.to][e.input]
               PROVE  /\ IsBlock(block)
                      /\ contents[block] = FPGA!OutputData[e.from][e.output]
                      /\ input_stream_sizes[e.to][e.input] = contents[block]
  BY DEF CarriedDataKept
<1>2. /\ plan \in Plans /\ HasSimpleEdges(plan) /\ e \in Edges(plan)
  BY DEF PlansAreSimple, ExecutionInv, ControlInv, ScheduleKnown, KeptKnown
<1>3. step = "start" /\ error = "none"
  BY <1>1 DEF IsBetweenRuns, ContentsInv, ErrorFree
<1>4. HasFinished(e.from) /\ ~HasFinished(e.to)
  BY <1>1, <1>3 DEF HasFinished, IsBeingRun
<1>5. PICK b : InputHolds(e.to, e.input, b)
  BY <1>3, <1>4 DEF ContentsInv, KeptBlocksWait
<1>6. block = b /\ IsBlock(block)
  BY <1>1, <1>5, BlockNumbers DEF InputHolds
<1>7. /\ contents[b] = InputOf(plan, e.to, e.input)
      /\ input_stream_sizes[e.to][e.input] = InputOf(plan, e.to, e.input)
  BY <1>1, <1>3, <1>5 DEF ContentsInv, DataRight, DataSound, InputsReady
<1>8. InputOf(plan, e.to, e.input) = DataOf(plan)[e.from][e.output]
  BY <1>2, EdgeData
<1>9. QED
  BY <1>6, <1>7, <1>8, DataIsOfPlan

(***************************************************************************)
(* ResultsRight for every set of plans in which no two streams join the    *)
(* same two nodes: whatever ProcessResults writes to a result file, or     *)
(* compares with an expected one, is what the plan says that stream is,    *)
(* through whichever runs, modules, stream numbers and memory blocks it    *)
(* has come.                                                               *)
(***************************************************************************)
THEOREM ResultsRightHolds == ASSUME PlansAreSimple PROVE Spec => []ResultsRight
BY ContentsHold, ResultsFollow, PTL

(***************************************************************************)
(* CarriedDataKept for the same plans: from the run that computes an       *)
(* output kept in memory to the run that reads it, its data and the count  *)
(* of its records wait at the input of its reader.                         *)
(***************************************************************************)
THEOREM CarriedDataKeptHolds == ASSUME PlansAreSimple PROVE Spec => []CarriedDataKept
BY ContentsHold, CarriedFollows, PTL
=============================================================================
