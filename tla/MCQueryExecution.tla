------------------------- MODULE MCQueryExecution -------------------------
EXTENDS QueryExecution, QueryPlanCases

(* No stream projected: projections only split runs.                       *)
Unprojected(plans) ==
    {p \in plans : /\ p.input_projection = Unmarked(p.previous_nodes)
                   /\ p.output_projection = Unmarked(p.next_nodes)}

ExecutedPlans ==
    Unprojected(PlansFor({Chain, Independent, TableJoined, Joined},
                         {"Filter", "MergeSort", PassThrough}, {ExtendedSet}))

(* Only filters have two outputs, and only sums none.                      *)
OutputsAsDocumented(plans) ==
    {p \in plans : \A n \in p.nodes :
        /\ Len(p.next_nodes[n]) = 2 => p.operation_type[n] = "Filter"
        /\ Len(p.next_nodes[n]) = 0 <=> p.operation_type[n] = "AggregationSum"}

(* Filters with two outputs, linear sorters, and sums.                     *)
ForkedPlans ==
    OutputsAsDocumented(Unprojected(
        PlansFor({Forked, ForkedBack, Diamond},
                 {"Filter", "MergeSort", "LinearSort"}, {ExtendedSet}))) \cup
    Unprojected(PlansFor({Chain, Independent, TableJoined, Joined},
                         {"Filter", "LinearSort"}, {ExtendedSet}))
SumPlans ==
    OutputsAsDocumented(Unprojected(
        PlansFor({Summed, SummedBeside}, {"Filter", PassThrough, "AggregationSum"},
                 {ExtendedSet \cup {<<Sum>>}})))

(* A filter whose first output is a result and whose second is sorted: one *)
(* bitstream has both modules.                                             *)
FilteredPlans ==
    {p \in Unprojected(PlansFor({ForkedBack}, {"Filter", "LinearSort"}, {ExtendedSet})) :
        p.operation_type = <<"Filter", "LinearSort">>}

(* Six filters run before the first of the joins they feed, and all their  *)
(* outputs are kept: more than the board has blocks for.                   *)
SixKept == Graph([n \in 1..9 |-> IF n <= 6 THEN <<0>> ELSE <<2 * n - 13, 2 * n - 12>>],
                 [n \in 1..9 |-> IF n <= 6 THEN <<7 + (n - 1) \div 2>> ELSE <<0>>])
(* Four nodes of one run, each with a stream of its own.                   *)
FourBeside == Graph([n \in 1..4 |-> <<0>>], [n \in 1..4 |-> <<0>>])

LargePlans ==
    {p \in Unprojected(PlansFor({SixKept}, {"Filter"}, {SingleModules}) \cup
                       PlansFor({FourBeside}, {"Filter", PassThrough}, {SingleModules})) :
        p.is_checked = Unmarked(p.next_nodes)}

AllPlans == ExecutedPlans \cup ForkedPlans \cup SumPlans \cup LargePlans
=============================================================================
