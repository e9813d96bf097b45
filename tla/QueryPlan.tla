----------------------------- MODULE QueryPlan -----------------------------
(***************************************************************************)
(* The two read-only inputs of a query execution: the query graph that     *)
(* GraphCreator builds from the JSON plan and the accelerator library that *)
(* ConfigCreator reads from the configuration.                             *)
(*                                                                         *)
(* A plan is a record                                                      *)
(*                                                                         *)
(*   nodes              the query nodes: positive numbers in the order of  *)
(*                      the node names, which is the order of the std::map *)
(*                      that holds them                                    *)
(*   operation_type     the operation of each node                         *)
(*   previous_nodes     for each node and input stream, the producing node *)
(*   next_nodes         for each node and output stream, the consuming one *)
(*   is_checked         for each output stream, whether the plan names a   *)
(*                      file with its expected data                        *)
(*   input_projection, output_projection                                   *)
(*                      for each stream, whether its projection vector is  *)
(*                      not empty                                          *)
(*   library            the module sequences a bitstream exists for        *)
(***************************************************************************)
EXTENDS Integers, Sequences, FiniteSets, FiniteSetsExt, SequencesExt

CONSTANT Plans   \* the plans the program may be started with

Null == 0                         \* nullptr, and an expired weak_ptr
PassThrough == "PassThrough"      \* the operation that needs no module

IsNode(m) == m # Null

(***************************************************************************)
(* The operation types, and a module of a bitstream: what it computes and  *)
(* the values of its resource parameters.                                  *)
(***************************************************************************)
QueryOperationType ==
    {"Filter", "Join", "MergeSort", PassThrough, "LinearSort", "Addition",
     "Multiplication", "AggregationSum"}

QueryOperation ==
    [operation_type : QueryOperationType, resource_elasticity_data : Seq(Nat)]

(***************************************************************************)
(* The data files a stream may have: none, the input table or the expected *)
(* result that the plan names, or the file named after an output.          *)
(***************************************************************************)
NoFile == <<>>
TableFile(n, j) == <<"table", n, j>>
ExpectedFile(n, i) == <<"expected", n, i>>
ResultFile(n, i) == <<"result", n, i>>
NamedFile == {"table", "expected", "result"} \X Nat \X Nat
File == NamedFile \cup {NoFile}

(***************************************************************************)
(* The edges of a plan: output stream i of node n feeds input stream j of  *)
(* node m.                                                                 *)
(***************************************************************************)
Inputs(p, n)  == DOMAIN p.previous_nodes[n]
Outputs(p, n) == DOMAIN p.next_nodes[n]

Producers(p, n) == {p.previous_nodes[n][j] : j \in Inputs(p, n)} \ {Null}
Consumers(p, n) == {p.next_nodes[n][i] : i \in Outputs(p, n)} \ {Null}

Edge(n, i, m, j) == [from |-> n, output |-> i, to |-> m, input |-> j]

Edges(p) ==
    UNION {{Edge(n, i, m, j) :
              i \in {i \in Outputs(p, n) : p.next_nodes[n][i] = m},
              j \in {j \in Inputs(p, m) : p.previous_nodes[m][j] = n}} :
           n \in p.nodes, m \in p.nodes}

(***************************************************************************)
(* No two streams lead from one node to the same other node.               *)
(***************************************************************************)
HasSimpleEdges(p) ==
    \A n \in p.nodes :
        /\ \A i, k \in Outputs(p, n) :
               IsNode(p.next_nodes[n][i]) /\ p.next_nodes[n][i] = p.next_nodes[n][k]
               => i = k
        /\ \A j, k \in Inputs(p, n) :
               IsNode(p.previous_nodes[n][j])
               /\ p.previous_nodes[n][j] = p.previous_nodes[n][k] => j = k

(***************************************************************************)
(* Every set of nodes has one that waits for no other of the set.          *)
(***************************************************************************)
IsAcyclic(p) ==
    \A S \in SUBSET p.nodes :
        S # {} => \E n \in S : Producers(p, n) \cap S = {}

(***************************************************************************)
(* LinkDependentNodes: both lists of links name nodes of the graph. That   *)
(* the two lists agree, and that there is no cycle, is what the scheduler  *)
(* takes for granted.                                                      *)
(***************************************************************************)
IsLinked(p) ==
    /\ p.previous_nodes \in [p.nodes -> Seq(p.nodes \cup {Null})]
    /\ p.next_nodes \in [p.nodes -> Seq(p.nodes \cup {Null})]
    /\ \A n, m \in p.nodes : m \in Consumers(p, n) <=> n \in Producers(p, m)
    /\ IsAcyclic(p)

(***************************************************************************)
(* PopulateGraphNodesMapWithJSONData: one flag per output stream, and the  *)
(* projection vectors of each stream.                                      *)
(***************************************************************************)
IsAnnotated(p) ==
    \A n \in p.nodes :
        /\ p.is_checked[n] \in [Outputs(p, n) -> BOOLEAN]
        /\ p.output_projection[n] \in [Outputs(p, n) -> BOOLEAN]
        /\ p.input_projection[n] \in [Inputs(p, n) -> BOOLEAN]

(***************************************************************************)
(* A bitstream holds a sequence of modules, and the modules of one         *)
(* operation have the same parameters.                                     *)
(***************************************************************************)
ModulesOf(p, type) ==
    {module \in UNION {ToSet(modules) : modules \in p.library} :
        module.operation_type = type}

ParametersOf(p, type) ==
    {module.resource_elasticity_data : module \in ModulesOf(p, type)}

IsLibrary(p) ==
    /\ p.library \subseteq Seq(QueryOperation)
    /\ \A type \in QueryOperationType :
           \A q, r \in ParametersOf(p, type) : Len(q) = Len(r)

IsPlan(p) ==
    /\ p.nodes \subseteq Nat \ {Null}
    /\ IsFiniteSet(p.nodes)
    /\ p.operation_type \in [p.nodes -> QueryOperationType]
    /\ IsLinked(p)
    /\ IsAnnotated(p)
    /\ IsLibrary(p)

ASSUME PlansAssumption == \A p \in Plans : IsPlan(p)

(***************************************************************************)
(* MakeGraph: the nodes that wait for nothing, in the order of their names.*)
(***************************************************************************)
RootNodes(p) == {n \in p.nodes : Producers(p, n) = {}}

(***************************************************************************)
(* ConvertAcceleratorLibraryToModuleLibrary: the scheduler may give each   *)
(* resource parameter of an operation's module any value that some         *)
(* bitstream has for it, whichever values go with it there.                *)
(***************************************************************************)
ParameterTuples(p, type) ==
    LET known == ParametersOf(p, type)
    IN  UNION {{tuple \in [DOMAIN q -> UNION {ToSet(r) : r \in known}] :
                  \A k \in DOMAIN tuple : \E r \in known : tuple[k] = r[k]} :
               q \in known}
=============================================================================
