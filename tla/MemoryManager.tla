--------------------------- MODULE MemoryManager ---------------------------
(***************************************************************************)
(* MemoryManager: hands out the board's memory blocks.  A block that comes *)
(* back waits on a stack for the next request; a new one is allocated only *)
(* when the stack is empty, and only so many of them.                      *)
(*                                                                         *)
(* The client asks for several blocks, or returns several, in one step.    *)
(***************************************************************************)
EXTENDS BoardLimits, Integers, Sequences, FiniteSets, SequencesExt

VARIABLES
    available_memory_blocks,    \* the stack of returned blocks, top first
    memory_block_count,         \* the calls of AllocateMemoryBlock so far
    held                        \* the blocks the client owns

vars == <<available_memory_blocks, memory_block_count, held>>

NoBlock == 0                    \* an empty unique_ptr
Block == 1..MaxPossibleAllocations

Returned == Len(available_memory_blocks)

(* Slip: the top of the stack is handed out and left there.                *)
NextBlockUnpopped(k) ==
    IF Returned > 0 THEN available_memory_blocks[1]
    ELSE IF memory_block_count + k <= MaxPossibleAllocations
         THEN memory_block_count + k
         ELSE NoBlock

(* What the k-th of several calls of GetAvailableMemoryBlock returns; none *)
(* when AllocateMemoryBlock throws.                                        *)
NextBlock(k) ==
    IF k <= Returned THEN available_memory_blocks[k]
    ELSE IF memory_block_count + (k - Returned) <= MaxPossibleAllocations
         THEN memory_block_count + (k - Returned)
         ELSE NoBlock

NextBlocks(k) == {NextBlock(i) : i \in 1..k} \ {NoBlock}

CanAllocate(k) ==
    k <= Returned \/ memory_block_count + (k - Returned) <= MaxPossibleAllocations

(* The stack and the counter after k such calls.  The call that throws has *)
(* counted itself already, and is the last one.                            *)
TakeBlocks(k) ==
    /\ available_memory_blocks' = SubSeq(available_memory_blocks, k + 1, Returned)
    /\ memory_block_count' =
           IF k <= Returned THEN memory_block_count
           ELSE IF CanAllocate(k) THEN memory_block_count + (k - Returned)
           ELSE MaxPossibleAllocations + 1

(* FreeMemoryBlock for each block of a sequence.                           *)
PushBlocks(blocks) ==
    /\ available_memory_blocks' = Reverse(blocks) \o available_memory_blocks
    /\ UNCHANGED memory_block_count

-----------------------------------------------------------------------------
Init ==
    /\ available_memory_blocks = <<>>
    /\ memory_block_count = 0
    /\ held = {}

GetAvailableMemoryBlocks(k) ==
    /\ memory_block_count <= MaxPossibleAllocations
    /\ TakeBlocks(k)
    /\ held' = held \cup NextBlocks(k)

(* The blocks that come back are some of those handed out, each once.      *)
FreeMemoryBlocks ==
    \E k \in 1..Len(available_memory_blocks') :
        LET blocks == SubSeq(available_memory_blocks', 1, k)
        IN  /\ IsInjective(blocks)
            /\ ToSet(blocks) \subseteq held
            /\ available_memory_blocks' = blocks \o available_memory_blocks
            /\ held' = held \ ToSet(blocks)
            /\ UNCHANGED memory_block_count

Next ==
    \/ \E k \in 1..(MaxPossibleAllocations + 1) : GetAvailableMemoryBlocks(k)
    \/ FreeMemoryBlocks

Spec == Init /\ [][Next]_vars

-----------------------------------------------------------------------------
TypeOK ==
    /\ available_memory_blocks \in Seq(Block)
    /\ memory_block_count \in 0..(MaxPossibleAllocations + 1)
    /\ held \subseteq Block

(* A block is on the stack once or with the client, never both, and every  *)
(* block allocated so far is in one of the two places: none is handed to   *)
(* two owners and none is lost (unique_ptr ownership in memory_manager.cpp)*)
AllocatedBlocks == {b \in Block : b <= memory_block_count}
BlocksOwnedOnce ==
    /\ IsInjective(available_memory_blocks)
    /\ ToSet(available_memory_blocks) \cap held = {}
    /\ ToSet(available_memory_blocks) \cup held = AllocatedBlocks

(* A new block is allocated only when none that came back is left.         *)
AllocatesOnlyWhenEmpty ==
    [][memory_block_count' > memory_block_count => available_memory_blocks' = <<>>]_vars
=============================================================================
