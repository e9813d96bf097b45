-------------------------- MODULE MCNodeScheduler --------------------------
EXTENDS NodeScheduler, QueryPlanCases

MCPlans ==
    PlansFor({Chain, Independent, TableJoined, Forked, Parallel},
             {"Filter", "MergeSort", "LinearSort", PassThrough},
             {ExtendedSet, PartialSet})
    \cup
    PlansFor({Joined, Diamond}, {"Filter", "MergeSort", PassThrough}, {ExtendedSet})

(* Plans for the runs that show where code and documentation differ.       *)
IndependentPlans == PlansFor({TableJoined}, {"Filter", "MergeSort"}, {ExtendedSet})

(* A filter with a file for its second output, a linear sorter behind that *)
(* output, and a node that passes on the sorted stream, which it projects. *)
ForkedChain == Graph(<<<<0>>, <<1>>, <<2>>>>, <<<<0, 2>>, <<3>>, <<0>>>>)
MarkedPlans ==
    {[nodes |-> NodesOf(ForkedChain),
      operation_type |-> <<"Filter", "LinearSort", PassThrough>>,
      previous_nodes |-> ForkedChain.previous, next_nodes |-> ForkedChain.next,
      is_checked |-> [Unmarked(ForkedChain.next) EXCEPT ![1][2] = TRUE],
      input_projection |-> [Unmarked(ForkedChain.previous) EXCEPT ![3][1] = TRUE],
      output_projection |-> Unmarked(ForkedChain.next),
      library |-> ExtendedSet]}
=============================================================================
