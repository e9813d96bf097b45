------------------------- MODULE TopologicalBatches -------------------------
(***************************************************************************)
(* What splitting a query graph into runs promises, whatever the           *)
(* bitstreams are: nodes are placed one by one into the open batch, each   *)
(* once, after everything it needs has been placed, and a batch is closed  *)
(* for good once it has a node.                                            *)
(***************************************************************************)
EXTENDS Naturals, Sequences

CONSTANT Requirements    \* the dependency relations there may be

VARIABLES
    needs,      \* needs[n]: the nodes whose results n consumes
    placed,     \* the nodes placed so far
    batch,      \* those in the open batch
    batches     \* the closed batches

vars == <<needs, placed, batch, batches>>

Init ==
    /\ needs \in Requirements
    /\ placed = {}
    /\ batch = {}
    /\ batches = <<>>

Place(n) ==
    /\ n \notin placed
    /\ needs[n] \subseteq placed
    /\ placed' = placed \cup {n}
    /\ batch' = batch \cup {n}
    /\ UNCHANGED <<needs, batches>>

CloseBatch ==
    /\ batch # {}
    /\ batches' = Append(batches, batch)
    /\ batch' = {}
    /\ UNCHANGED <<needs, placed>>

Next == CloseBatch \/ \E n \in DOMAIN needs : Place(n)

Spec == Init /\ [][Next]_vars
=============================================================================
