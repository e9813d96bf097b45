--------------------------- MODULE QueryPlanCases ---------------------------
(***************************************************************************)
(* Plans to check the modules with: query graphs of up to four nodes with  *)
(* the operations of the repository's examples, and the bitstreams of      *)
(* resources/extended_accelerator_set.json.                                *)
(***************************************************************************)
EXTENDS Integers, Sequences, FiniteSets, SequencesExt

F == [operation_type |-> "Filter", resource_elasticity_data |-> <<32, 4>>]
J == [operation_type |-> "Join", resource_elasticity_data |-> <<>>]
M == [operation_type |-> "MergeSort", resource_elasticity_data |-> <<64>>]
L(length) == [operation_type |-> "LinearSort", resource_elasticity_data |-> <<length>>]
Sum == [operation_type |-> "AggregationSum", resource_elasticity_data |-> <<>>]

(* One module per bitstream, and every bitstream of the extended set with  *)
(* these four operations.                                                  *)
SingleModules == {<<F>>, <<J>>, <<M>>, <<L(512)>>}
ExtendedSet ==
    SingleModules \cup
    {<<>>, <<M, M>>, <<M, J, F>>, <<M, J>>, <<F, J>>, <<J, F>>, <<F, L(1024)>>}

(* A library without a bitstream of its own for the linear sorter, and     *)
(* without any for the merge sorter.                                       *)
PartialSet == {<<F>>, <<J>>, <<F, J>>, <<F, L(512)>>, <<F, L(1024)>>}

(***************************************************************************)
(* Graphs: the producers of each node's inputs and the consumers of each   *)
(* node's outputs, 0 standing for a table and for a final result.          *)
(***************************************************************************)
Graph(previous, next) == [previous |-> previous, next |-> next]

Chain       == Graph(<<<<0>>, <<1>>, <<2>>>>, <<<<2>>, <<3>>, <<0>>>>)
Independent == Graph(<<<<0>>, <<0>>, <<0>>>>, <<<<0>>, <<0>>, <<0>>>>)
Joined      == Graph(<<<<0>>, <<0>>, <<1, 2>>, <<3>>>>, <<<<3>>, <<3>>, <<4>>, <<0>>>>)
TableJoined == Graph(<<<<0>>, <<0, 1>>, <<0>>>>, <<<<2>>, <<0>>, <<0>>>>)
(* A filter may have two outputs.                                          *)
Diamond     == Graph(<<<<0>>, <<1>>, <<1>>, <<2, 3>>>>,
                     <<<<2, 3>>, <<4>>, <<4>>, <<0>>>>)
Forked      == Graph(<<<<0>>, <<1>>>>, <<<<2, 0>>, <<0>>>>)
(* Both outputs of a filter lead to the same join.                         *)
Parallel    == Graph(<<<<0>>, <<1, 1>>>>, <<<<2, 2>>, <<0>>>>)
ForkedBack  == Graph(<<<<0>>, <<1>>>>, <<<<0, 2>>, <<0>>>>)

(* A global sum may output nothing: at the end of a query, and beside      *)
(* another node.                                                           *)
Summed       == Graph(<<<<0>>, <<1>>>>, <<<<2>>, <<>>>>)
SummedBeside == Graph(<<<<0>>, <<0>>>>, <<<<0>>, <<>>>>)

NodesOf(graph) == DOMAIN graph.next

Unmarked(streams) == [n \in DOMAIN streams |-> [k \in DOMAIN streams[n] |-> FALSE]]

(* The operations a node of the graph can have: a join has two inputs.     *)
Operations(graph, single) ==
    {type \in [NodesOf(graph) -> single \cup {"Join"}] :
        \A n \in NodesOf(graph) : type[n] = "Join" <=> Len(graph.previous[n]) = 2}

(* At most so many of the streams marked, those in candidates only.        *)
Markings(streams, candidates, most) ==
    {[n \in DOMAIN streams |-> [k \in DOMAIN streams[n] |-> <<n, k>> \in marked]] :
        marked \in {S \in SUBSET candidates : Cardinality(S) <= most}}

Ports(streams) == UNION {{n} \X DOMAIN streams[n] : n \in DOMAIN streams}
Linked(streams) == {port \in Ports(streams) : streams[port[1]][port[2]] # 0}

(* Plans over these graphs, with at most one stream checked and at most    *)
(* one projected.                                                          *)
Projections(graph) ==
    {<<projected_in, Unmarked(graph.next)>> :
        projected_in \in Markings(graph.previous, Linked(graph.previous), 1)}
    \cup {<<Unmarked(graph.previous), projected_out>> :
        projected_out \in Markings(graph.next, Linked(graph.next), 1)}

PlansFor(graphs, single, libraries) ==
    UNION {
        {[nodes |-> NodesOf(graph), operation_type |-> type,
          previous_nodes |-> graph.previous, next_nodes |-> graph.next,
          is_checked |-> checked,
          input_projection |-> projection[1], output_projection |-> projection[2],
          library |-> library] :
            type \in Operations(graph, single),
            checked \in Markings(graph.next, Ports(graph.next), 1),
            projection \in Projections(graph),
            library \in libraries} :
        graph \in graphs}
=============================================================================
