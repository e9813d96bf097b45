----------------------------- MODULE IDManager -----------------------------
(***************************************************************************)
(* IDManager::AllocateStreamIDs: gives each stream of a run the number by  *)
(* which the DMA engine and the modules know it.  A stream from memory     *)
(* gets a number of its own, one from another node of the run keeps the    *)
(* number it left that node with, and output i of a node leaves under the  *)
(* number that input i came with.                                          *)
(***************************************************************************)
EXTENDS QueryPlan, BoardLimits

VARIABLES
    previous_nodes, next_nodes,   \* the links of the query nodes
    available_ids,                \* the stack of unused numbers, top first
    input_ids, output_ids         \* the numbers of each node's streams

idVars == <<available_ids, input_ids, output_ids>>

StreamID == 0..(MaxIOStreamCount - 1)

(* Slip: the numbers are one too high.                                     *)
SetUpAvailableIDsFromOne ==
    /\ available_ids' = [k \in 1..MaxIOStreamCount |-> k]
    /\ input_ids' = [n \in DOMAIN input_ids |-> <<>>]
    /\ output_ids' = [n \in DOMAIN output_ids |-> <<>>]

SetUpAvailableIDs ==
    /\ available_ids' = [k \in 1..MaxIOStreamCount |-> k - 1]
    /\ input_ids' = [n \in DOMAIN input_ids |-> <<>>]
    /\ output_ids' = [n \in DOMAIN output_ids |-> <<>>]

FindStreamIndex(m, n) ==
    CHOOSE i \in DOMAIN next_nodes[m] :
        /\ next_nodes[m][i] = n
        /\ \A k \in 1..(i - 1) : next_nodes[m][k] # n

UnlinkedInputs(n, last) ==
    {j \in DOMAIN previous_nodes[n] : j <= last /\ ~IsNode(previous_nodes[n][j])}

(* Slip: every stream takes the number on top of the stack.                *)
InputIDUnpopped(n, j) ==
    IF IsNode(previous_nodes[n][j])
    THEN output_ids[previous_nodes[n][j]][FindStreamIndex(previous_nodes[n][j], n)]
    ELSE available_ids[1]

(* AllocateInputIDs, for input j of n.                                     *)
InputID(n, j) ==
    IF IsNode(previous_nodes[n][j])
    THEN output_ids[previous_nodes[n][j]][FindStreamIndex(previous_nodes[n][j], n)]
    ELSE available_ids[Cardinality(UnlinkedInputs(n, j))]

(* AllocateInputIDs and AllocateLeftoverOutputIDs, for output i of n.      *)
OutputID(n, i) ==
    LET inputs == Len(previous_nodes[n])
    IN  IF i <= inputs THEN InputID(n, i)
        ELSE available_ids[Cardinality(UnlinkedInputs(n, inputs)) + i - inputs]

NeededIDs(n) ==
    LET inputs == Len(previous_nodes[n])
        outputs == Len(next_nodes[n])
    IN  Cardinality(UnlinkedInputs(n, inputs))
        + (IF outputs > inputs THEN outputs - inputs ELSE 0)

IsOutOfIDs(n) == NeededIDs(n) > Len(available_ids)

(* The numbers of one node's streams.                                      *)
AllocateNodeIDs(n) ==
    /\ ~IsOutOfIDs(n)
    /\ input_ids' = [input_ids EXCEPT ![n] =
                        [j \in DOMAIN previous_nodes[n] |-> InputID(n, j)]]
    /\ output_ids' = [output_ids EXCEPT ![n] =
                        [i \in DOMAIN next_nodes[n] |-> OutputID(n, i)]]
    /\ available_ids' =
           SubSeq(available_ids, NeededIDs(n) + 1, Len(available_ids))
=============================================================================
