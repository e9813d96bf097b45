---------------------------- MODULE BoardLimits ----------------------------
(***************************************************************************)
(* The limits of the board that the middleware knows.                      *)
(***************************************************************************)
EXTENDS Naturals

CONSTANTS
    MaxPossibleAllocations,     \* memory blocks: 6
    MaxIOStreamCount            \* stream numbers of the DMA engine: 16

ASSUME AllocationsAssumption == MaxPossibleAllocations \in Nat
ASSUME StreamCountAssumption == MaxIOStreamCount \in Nat
=============================================================================
