------------------------ MODULE MemoryManager_proofs ------------------------
(***************************************************************************)
(* However the client asks for blocks and returns them, each block has one *)
(* owner and none is lost: proved for every number of blocks.              *)
(***************************************************************************)
EXTENDS MemoryManager, FiniteSetTheorems, TLAPS

IInv == TypeOK /\ BlocksOwnedOnce

(* The blocks that k requests yield: the top of the stack, then new ones   *)
(* in the order of their numbers (GetAvailableMemoryBlock).                *)
TopBlocks(k) == {available_memory_blocks[i] : i \in 1..k \cap DOMAIN available_memory_blocks}
NewBlocks(k) == {b \in Block : memory_block_count < b /\ b <= memory_block_count + (k - Returned)}

(* The blocks handed out are those on top of the stack and new ones.       *)
LEMMA BlocksHandedOut ==
    ASSUME TypeOK, NEW k \in 1..(MaxPossibleAllocations + 1)
    PROVE  NextBlocks(k) = TopBlocks(k) \cup NewBlocks(k)
<1> DEFINE a == available_memory_blocks
<1>1. a \in Seq(Block) /\ Returned = Len(a) /\ Len(a) \in Nat /\ DOMAIN a = 1..Len(a)
  BY DEF TypeOK, Returned
<1>2. memory_block_count \in Nat /\ MaxPossibleAllocations \in Nat
  BY AllocationsAssumption DEF TypeOK
<1>3. ASSUME NEW b \in NextBlocks(k) PROVE b \in TopBlocks(k) \cup NewBlocks(k)
  <2>1. PICK i \in 1..k : b = NextBlock(i) /\ b # NoBlock
    BY <1>3 DEF NextBlocks
  <2>2. CASE i <= Len(a)
    <3>1. b = a[i] /\ i \in 1..k \cap DOMAIN a
      BY <1>1, <2>1, <2>2 DEF NextBlock
    <3> QED BY <3>1 DEF TopBlocks
  <2>3. CASE i > Len(a)
    <3>1. b = memory_block_count + (i - Len(a)) /\ b <= MaxPossibleAllocations
      BY <1>1, <1>2, <2>1, <2>3 DEF NextBlock
    <3>2. b \in Block /\ memory_block_count < b /\ b <= memory_block_count + (k - Len(a))
      BY <1>1, <1>2, <2>1, <2>3, <3>1 DEF Block
    <3> QED BY <1>1, <3>2 DEF NewBlocks
  <2> QED BY <1>1, <2>2, <2>3
<1>4. ASSUME NEW b \in TopBlocks(k) PROVE b \in NextBlocks(k)
  <2>1. PICK i \in 1..k \cap DOMAIN a : b = a[i]
    BY <1>4 DEF TopBlocks
  <2>2. NextBlock(i) = b /\ b \in Block
    BY <1>1, <2>1 DEF NextBlock
  <2>3. b # NoBlock
    BY <1>2, <2>2 DEF Block, NoBlock
  <2> QED BY <2>1, <2>2, <2>3 DEF NextBlocks
<1>5. ASSUME NEW b \in NewBlocks(k) PROVE b \in NextBlocks(k)
  <2> DEFINE i == Len(a) + (b - memory_block_count)
  <2>1. /\ b \in Block
        /\ memory_block_count < b
        /\ b <= memory_block_count + (k - Len(a))
    BY <1>1, <1>5 DEF NewBlocks
  <2>2. b \in Nat /\ b # NoBlock /\ b <= MaxPossibleAllocations
    BY <1>2, <2>1 DEF Block, NoBlock
  <2>3. i \in 1..k /\ i > Len(a) /\ memory_block_count + (i - Len(a)) = b
    BY <1>1, <1>2, <2>1, <2>2
  <2>4. NextBlock(i) = b
    <3> HIDE DEF i
    <3> QED BY <1>1, <2>2, <2>3 DEF NextBlock
  <2> QED BY <2>2, <2>3, <2>4 DEF NextBlocks
<1> QED BY <1>3, <1>4, <1>5

(* A request keeps the invariant: the blocks that leave the stack and the  *)
(* new ones are those that the client gets.                                *)
LEMMA RequestKeepsOwners ==
    ASSUME IInv, NEW k \in 1..(MaxPossibleAllocations + 1), GetAvailableMemoryBlocks(k)
    PROVE  IInv'
<1> DEFINE a == available_memory_blocks
           c == memory_block_count
           max == MaxPossibleAllocations
<1>1. a \in Seq(Block) /\ Returned = Len(a) /\ Len(a) \in Nat /\ DOMAIN a = 1..Len(a)
  BY DEF IInv, TypeOK, Returned
<1>2. c \in Nat /\ max \in Nat /\ c <= max /\ k \in Nat /\ k >= 1
  BY AllocationsAssumption DEF IInv, TypeOK, GetAvailableMemoryBlocks
<1>3. /\ a' = SubSeq(a, k + 1, Len(a))
      /\ c' = IF k <= Len(a) THEN c
              ELSE IF CanAllocate(k) THEN c + (k - Len(a)) ELSE max + 1
      /\ held' = held \cup (TopBlocks(k) \cup NewBlocks(k))
  BY <1>1, BlocksHandedOut DEF GetAvailableMemoryBlocks, TakeBlocks, IInv
<1>4. /\ \A i, j \in DOMAIN a : a[i] = a[j] => i = j
      /\ ToSet(a) \cap held = {}
      /\ ToSet(a) \cup held = {b \in Block : b <= c}
      /\ held \subseteq Block
  BY DEF IInv, TypeOK, BlocksOwnedOnce, AllocatedBlocks, IsInjective
<1>5. ToSet(a) = {a[i] : i \in DOMAIN a}
  BY DEF ToSet
<1>6. CASE k <= Len(a)
  <2>1. /\ Len(a') = Len(a) - k
        /\ DOMAIN a' = 1..(Len(a) - k)
        /\ \A i \in 1..(Len(a) - k) : a'[i] = a[i + k]
        /\ a' \in Seq(Block)
    BY <1>1, <1>2, <1>3, <1>6
  <2>2. NewBlocks(k) = {}
    BY <1>1, <1>2, <1>6 DEF NewBlocks, Block
  <2>3. TopBlocks(k) = {a[i] : i \in 1..k}
    BY <1>1, <1>2, <1>6 DEF TopBlocks
  <2>4. ToSet(a') = {a[i] : i \in (k + 1)..Len(a)}
    <3>1. ToSet(a') = {a'[i] : i \in 1..(Len(a) - k)}
      BY <2>1 DEF ToSet
    <3>2. \A i \in 1..(Len(a) - k) : i + k \in (k + 1)..Len(a)
      BY <1>1, <1>2
    <3>3. \A i \in (k + 1)..Len(a) : i - k \in 1..(Len(a) - k) /\ (i - k) + k = i
      BY <1>1, <1>2
    <3>4. \A i \in (k + 1)..Len(a) : a'[i - k] = a[i]
      BY <2>1, <3>3
    <3> HIDE DEF a
    <3> QED BY <2>1, <3>1, <3>2, <3>3, <3>4
  <2>5. /\ {a[i] : i \in 1..k} \cap {a[i] : i \in (k + 1)..Len(a)} = {}
        /\ {a[i] : i \in 1..k} \cup {a[i] : i \in (k + 1)..Len(a)} = ToSet(a)
    BY <1>1, <1>2, <1>4, <1>5, <1>6, SMTT(40)
  <2>6. \A i, j \in DOMAIN a' : a'[i] = a'[j] => i = j
    <3> SUFFICES ASSUME NEW i \in DOMAIN a', NEW j \in DOMAIN a', a'[i] = a'[j]
                 PROVE  i = j
      OBVIOUS
    <3>a. i \in 1..(Len(a) - k) /\ j \in 1..(Len(a) - k)
      BY <2>1
    <3>b. i + k \in DOMAIN a /\ j + k \in DOMAIN a
      BY <1>1, <1>2, <3>a
    <3>1. i + k \in DOMAIN a /\ j + k \in DOMAIN a /\ a[i + k] = a[j + k]
      <4> HIDE DEF a
      <4> QED BY <2>1, <3>a, <3>b
    <3>2. i + k = j + k
      BY <1>4, <3>1
    <3> QED BY <1>2, <2>1, <3>2
  <2>7. c' = c
    BY <1>3, <1>6
  <2>8. TypeOK'
    <3>1. held' \subseteq Block
      BY <1>3, <1>4, <1>5, <2>2, <2>3, <2>5
    <3> QED BY <1>2, <2>1, <2>7, <3>1 DEF TypeOK
  <2>9. /\ ToSet(a') \cap held' = {}
        /\ ToSet(a') \cup held' = {b \in Block : b <= c}
    BY <1>3, <1>4, <2>2, <2>3, <2>4, <2>5
  <2> QED BY <2>6, <2>7, <2>8, <2>9
          DEF IInv, BlocksOwnedOnce, AllocatedBlocks, IsInjective
<1>7. CASE k > Len(a)
  <2>1. a' = <<>>
    BY <1>1, <1>2, <1>3, <1>7
  <2>2. TopBlocks(k) = ToSet(a)
    BY <1>1, <1>2, <1>5, <1>7 DEF TopBlocks
  <2>3. /\ c' \in 0..(max + 1)
        /\ c' >= c
        /\ \A b \in Block : b <= c' <=> b <= c \/ b \in NewBlocks(k)
    <3>1. CASE c + (k - Len(a)) <= max
      <4>1. c' = c + (k - Len(a))
        BY <1>1, <1>2, <1>3, <1>7, <3>1 DEF CanAllocate
      <4> QED BY <1>1, <1>2, <1>7, <3>1, <4>1 DEF NewBlocks, Block
    <3>2. CASE c + (k - Len(a)) > max
      <4>1. c' = max + 1
        BY <1>1, <1>2, <1>3, <1>7, <3>2 DEF CanAllocate
      <4> QED BY <1>1, <1>2, <1>7, <3>2, <4>1 DEF NewBlocks, Block
    <3> QED BY <1>1, <1>2, <3>1, <3>2
  <2>4. NewBlocks(k) \subseteq Block
    BY DEF NewBlocks
  <2>5. held' = {b \in Block : b <= c'}
    BY <1>3, <1>4, <2>2, <2>3, <2>4
  <2>6. ToSet(a') = {} /\ DOMAIN a' = {}
    BY <2>1 DEF ToSet
  <2>7. TypeOK'
    BY <2>1, <2>3, <2>5 DEF TypeOK
  <2> QED BY <2>5, <2>6, <2>7 DEF IInv, BlocksOwnedOnce, AllocatedBlocks, IsInjective
<1> QED BY <1>1, <1>2, <1>6, <1>7
(* Returned blocks go from the client to the stack.                        *)
LEMMA ReturnKeepsOwners == ASSUME IInv, FreeMemoryBlocks PROVE IInv'
<1> DEFINE a == available_memory_blocks
<1>1. PICK k \in 1..Len(a') :
        LET blocks == SubSeq(a', 1, k)
        IN  /\ IsInjective(blocks)
            /\ ToSet(blocks) \subseteq held
            /\ a' = blocks \o a
            /\ held' = held \ ToSet(blocks)
            /\ UNCHANGED memory_block_count
  BY DEF FreeMemoryBlocks
<1> DEFINE blocks == SubSeq(a', 1, k)
<1>2. /\ IsInjective(blocks) /\ ToSet(blocks) \subseteq held
      /\ a' = blocks \o a
      /\ held' = held \ ToSet(blocks)
      /\ memory_block_count' = memory_block_count
  BY <1>1
<1>3. /\ a \in Seq(Block) /\ held \subseteq Block
      /\ IsInjective(a) /\ ToSet(a) \cap held = {}
      /\ ToSet(a) \cup held = AllocatedBlocks
      /\ memory_block_count \in 0..(MaxPossibleAllocations + 1)
  BY DEF IInv, TypeOK, BlocksOwnedOnce
<1>4. blocks \in Seq(Block)
  <2>1. Len(a') \in Nat
    <3>1. CASE Len(a') \in Nat
      BY <3>1
    <3>2. CASE Len(a') \notin Nat
      BY <1>2, <3>2
    <3> QED BY <3>1, <3>2
  <2>2. DOMAIN blocks = 1..k /\ blocks = [i \in 1..k |-> a'[i]]
    BY <2>1
  <2>3. \A i \in 1..k : blocks[i] \in Block
    BY <1>2, <1>3, <2>2 DEF ToSet
  <2> QED BY <2>2, <2>3
<1> HIDE DEF blocks
<1>5. /\ DOMAIN (blocks \o a) = 1..(Len(blocks) + Len(a))
      /\ \A i \in 1..(Len(blocks) + Len(a)) :
            (blocks \o a)[i] = IF i <= Len(blocks) THEN blocks[i] ELSE a[i - Len(blocks)]
      /\ blocks \o a \in Seq(Block)
      /\ Len(blocks) \in Nat /\ Len(a) \in Nat
      /\ DOMAIN blocks = 1..Len(blocks) /\ DOMAIN a = 1..Len(a)
  BY <1>3, <1>4
<1>6. ToSet(blocks \o a) = ToSet(blocks) \cup ToSet(a)
  <2>1. ASSUME NEW b \in ToSet(blocks \o a) PROVE b \in ToSet(blocks) \cup ToSet(a)
    <3>1. PICK i \in 1..(Len(blocks) + Len(a)) : b = (blocks \o a)[i]
      BY <1>5, <2>1 DEF ToSet
    <3>2. i <= Len(blocks) \/ i - Len(blocks) \in 1..Len(a)
      BY <1>5, <3>1
    <3> QED BY <1>5, <3>1, <3>2 DEF ToSet
  <2>2. ASSUME NEW b \in ToSet(blocks) PROVE b \in ToSet(blocks \o a)
    <3>1. PICK i \in 1..Len(blocks) : b = blocks[i]
      BY <1>5, <2>2 DEF ToSet
    <3>2. i \in 1..(Len(blocks) + Len(a)) /\ i <= Len(blocks)
      BY <1>5, <3>1
    <3> QED BY <1>5, <3>1, <3>2 DEF ToSet
  <2>3. ASSUME NEW b \in ToSet(a) PROVE b \in ToSet(blocks \o a)
    <3>1. PICK i \in 1..Len(a) : b = a[i]
      BY <1>5, <2>3 DEF ToSet
    <3>2. /\ i + Len(blocks) \in 1..(Len(blocks) + Len(a))
          /\ ~(i + Len(blocks) <= Len(blocks))
          /\ (i + Len(blocks)) - Len(blocks) = i
      BY <1>5, <3>1
    <3>3. (blocks \o a)[i + Len(blocks)] = a[i]
      BY <1>5, <3>2
    <3> QED BY <1>5, <3>1, <3>2, <3>3 DEF ToSet
  <2> QED BY <2>1, <2>2, <2>3
<1>7. IsInjective(blocks \o a)
  <2> DEFINE joined == blocks \o a
             len == Len(blocks)
  <2>1. /\ DOMAIN joined = 1..(len + Len(a))
        /\ \A i \in 1..(len + Len(a)) :
              joined[i] = IF i <= len THEN blocks[i] ELSE a[i - len]
    BY <1>5
  <2>2. /\ len \in Nat /\ Len(a) \in Nat
        /\ DOMAIN blocks = 1..len /\ DOMAIN a = 1..Len(a)
    BY <1>5
  <2>3. /\ \A i, j \in 1..len : blocks[i] = blocks[j] => i = j
        /\ \A i, j \in 1..Len(a) : a[i] = a[j] => i = j
        /\ \A i \in 1..len : \A j \in 1..Len(a) : blocks[i] # a[j]
    <3>1. \A i, j \in 1..len : blocks[i] = blocks[j] => i = j
      BY <1>2, <2>2 DEF IsInjective
    <3>2. \A i, j \in 1..Len(a) : a[i] = a[j] => i = j
      BY <1>3, <2>2 DEF IsInjective
    <3>3. /\ \A i \in 1..len : blocks[i] \in ToSet(blocks)
          /\ \A j \in 1..Len(a) : a[j] \in ToSet(a)
      BY <2>2 DEF ToSet
    <3>4. ToSet(blocks) \cap ToSet(a) = {}
      BY <1>2, <1>3
    <3> QED BY <3>1, <3>2, <3>3, <3>4
  <2> HIDE DEF joined, len
  <2>4. ASSUME NEW i \in 1..(len + Len(a)), NEW j \in 1..(len + Len(a)),
               joined[i] = joined[j]
        PROVE  i = j
    <3>1. i <= len \/ i - len \in 1..Len(a)
      BY <2>2
    <3>2. j <= len \/ j - len \in 1..Len(a)
      BY <2>2
    <3>3. CASE i <= len /\ j <= len
      <4>1. blocks[i] = blocks[j]
        BY <2>1, <2>4, <3>3
      <4> QED BY <2>2, <2>3, <3>3, <4>1
    <3>4. CASE i > len /\ j > len
      <4>1. joined[i] = a[i - len] /\ joined[j] = a[j - len]
        BY <2>1, <2>2, <3>4
      <4> DEFINE p == i - len
                 q == j - len
      <4>2. p \in 1..Len(a) /\ q \in 1..Len(a)
        BY <2>2, <3>1, <3>2, <3>4
      <4>3. a[p] = a[q]
        BY <2>4, <4>1
      <4>4. p = q
        <5> HIDE DEF p, q
        <5> QED BY <2>3, <4>2, <4>3
      <4> QED BY <2>2, <4>4
    <3>5. CASE i <= len /\ j > len
      <4>1. joined[i] = blocks[i] /\ joined[j] = a[j - len]
        BY <2>1, <2>2, <3>5
      <4> DEFINE q == j - len
      <4>2. i \in 1..len /\ q \in 1..Len(a)
        BY <2>2, <3>2, <3>5
      <4>3. blocks[i] = a[q]
        BY <2>4, <4>1
      <4> HIDE DEF q
      <4> QED BY <2>3, <4>2, <4>3
    <3>6. CASE i > len /\ j <= len
      <4>1. joined[i] = a[i - len] /\ joined[j] = blocks[j]
        BY <2>1, <2>2, <3>6
      <4> DEFINE p == i - len
      <4>2. p \in 1..Len(a) /\ j \in 1..len
        BY <2>2, <3>1, <3>6
      <4>3. blocks[j] = a[p]
        BY <2>4, <4>1
      <4> HIDE DEF p
      <4> QED BY <2>3, <4>2, <4>3
    <3> QED BY <2>2, <3>3, <3>4, <3>5, <3>6
  <2> QED BY <2>1, <2>4 DEF IsInjective, joined
<1>8. TypeOK'
  BY <1>2, <1>3, <1>5 DEF TypeOK
<1>9. BlocksOwnedOnce'
  BY <1>2, <1>3, <1>6, <1>7 DEF BlocksOwnedOnce, AllocatedBlocks
<1> QED BY <1>8, <1>9 DEF IInv

(* The invariant holds in every state.                                     *)
LEMMA InvariantHolds == Spec => []IInv
<1>1. Init => IInv
  BY AllocationsAssumption
     DEF Init, IInv, TypeOK, BlocksOwnedOnce, AllocatedBlocks, Block, IsInjective, ToSet
<1>2. IInv /\ [Next]_vars => IInv'
  <2> SUFFICES ASSUME IInv, [Next]_vars PROVE IInv'
    OBVIOUS
  <2>1. ASSUME NEW k \in 1..(MaxPossibleAllocations + 1), GetAvailableMemoryBlocks(k)
        PROVE  IInv'
    BY <2>1, RequestKeepsOwners
  <2>2. CASE FreeMemoryBlocks
    BY <2>2, ReturnKeepsOwners
  <2>3. CASE UNCHANGED vars
    BY <2>3 DEF IInv, TypeOK, BlocksOwnedOnce, AllocatedBlocks, vars
  <2> QED BY <2>1, <2>2, <2>3 DEF Next
<1> QED BY <1>1, <1>2, PTL DEF Spec

(* The fields of the memory manager keep their types: it never hands out a *)
(* block beyond the limit.                                                 *)
THEOREM TypeCorrect == Spec => []TypeOK
  BY InvariantHolds, PTL DEF IInv

(* A block never has two owners and is never lost (unique_ptr ownership in *)
(* memory_manager.cpp).                                                    *)
THEOREM BlocksOwnedOnceHolds == Spec => []BlocksOwnedOnce
  BY InvariantHolds, PTL DEF IInv

(* New memory is allocated only when nothing that came back is left: the   *)
(* count of blocks is the most ever used at one time.                      *)
THEOREM AllocatesOnlyWhenEmptyHolds == Spec => AllocatesOnlyWhenEmpty
<1>1. IInv /\ [Next]_vars =>
        [memory_block_count' > memory_block_count => available_memory_blocks' = <<>>]_vars
  <2> SUFFICES ASSUME IInv, Next, memory_block_count' > memory_block_count
               PROVE  available_memory_blocks' = <<>>
    OBVIOUS
  <2>1. memory_block_count \in Nat /\ available_memory_blocks \in Seq(Block)
    BY AllocationsAssumption DEF IInv, TypeOK
  <2>2. ~FreeMemoryBlocks
    BY <2>1 DEF FreeMemoryBlocks
  <2>3. PICK k \in 1..(MaxPossibleAllocations + 1) : GetAvailableMemoryBlocks(k)
    BY <2>2 DEF Next
  <2>4. k > Returned
    BY <2>1, <2>3 DEF GetAvailableMemoryBlocks, TakeBlocks, Returned
  <2>5. available_memory_blocks' = SubSeq(available_memory_blocks, k + 1, Returned)
    BY <2>3 DEF GetAvailableMemoryBlocks, TakeBlocks
  <2> QED BY <2>1, <2>4, <2>5, AllocationsAssumption DEF Returned
<1> QED BY <1>1, InvariantHolds, PTL DEF Spec, AllocatesOnlyWhenEmpty

-----------------------------------------------------------------------------
(***************************************************************************)
(* What a client may rely on: each request yields a block of its own,      *)
(* which nobody has, and no request beyond the limit yields any.           *)
(***************************************************************************)

(* What a single request yields.                                           *)
LEMMA RequestYields ==
    ASSUME IInv, NEW k \in Nat \ {0}, NextBlock(k) # NoBlock
    PROVE  \/ k \in DOMAIN available_memory_blocks /\ NextBlock(k) = available_memory_blocks[k]
           \/ /\ k > Returned
              /\ NextBlock(k) = memory_block_count + (k - Returned)
              /\ NextBlock(k) > memory_block_count
<1>1. /\ Returned \in Nat /\ memory_block_count \in Nat
      /\ DOMAIN available_memory_blocks = 1..Returned
  BY AllocationsAssumption DEF IInv, TypeOK, Returned
<1>2. CASE k <= Returned
  BY <1>1, <1>2 DEF NextBlock
<1>3. CASE k > Returned
  <2>1. NextBlock(k) = memory_block_count + (k - Returned)
    BY <1>1, <1>3 DEF NextBlock
  <2>2. memory_block_count + (k - Returned) > memory_block_count
    BY <1>1, <1>3
  <2> QED BY <1>3, <2>1, <2>2
<1> QED BY <1>1, <1>2, <1>3

LEMMA RequestsApart ==
    ASSUME IInv, NEW k \in Nat \ {0}, NextBlock(k) # NoBlock
    PROVE  /\ NextBlock(k) \notin held
           /\ \A l \in Nat \ {0} : NextBlock(l) = NextBlock(k) => k = l
<1> DEFINE a == available_memory_blocks
           c == memory_block_count
<1>1. /\ Returned \in Nat /\ c \in Nat
      /\ \A i \in DOMAIN a : a[i] \in Block
      /\ Block \subseteq Nat
  BY AllocationsAssumption DEF IInv, TypeOK, Returned, Block
<1>2. /\ \A i, j \in DOMAIN a : a[i] = a[j] => i = j
      /\ ToSet(a) \cap held = {}
      /\ \A b \in ToSet(a) \cup held : b <= c
  BY DEF IInv, BlocksOwnedOnce, AllocatedBlocks, IsInjective
<1>3. \A i \in DOMAIN a : a[i] \in ToSet(a)
  BY DEF ToSet
<1>4. \A i \in DOMAIN a : a[i] \notin held /\ a[i] <= c
  BY <1>2, <1>3
<1> HIDE DEF a, c
<1>5. \A l \in Nat \ {0} : NextBlock(l) # NoBlock =>
         \/ l \in DOMAIN a /\ NextBlock(l) = a[l]
         \/ l > Returned /\ NextBlock(l) = c + (l - Returned) /\ NextBlock(l) > c
  BY RequestYields DEF a, c
<1>6. NextBlock(k) \notin held
  <2>1. CASE k \in DOMAIN a /\ NextBlock(k) = a[k]
    BY <1>4, <2>1
  <2>2. CASE NextBlock(k) = c + (k - Returned) /\ NextBlock(k) > c
    <3>1. c + (k - Returned) \in Int
      BY <1>1
    <3>2. \A b \in held : b <= c
      BY <1>2
    <3>3. ~(NextBlock(k) <= c)
      BY <1>1, <2>2, <3>1
    <3> QED BY <3>2, <3>3
  <2> QED BY <1>5, <2>1, <2>2
<1>7. ASSUME NEW l \in Nat \ {0}, NextBlock(l) = NextBlock(k) PROVE k = l
  <2>1. \/ k \in DOMAIN a /\ NextBlock(k) = a[k]
        \/ k > Returned /\ NextBlock(k) = c + (k - Returned) /\ NextBlock(k) > c
    BY <1>5
  <2>2. \/ l \in DOMAIN a /\ NextBlock(l) = a[l]
        \/ l > Returned /\ NextBlock(l) = c + (l - Returned) /\ NextBlock(l) > c
    BY <1>5, <1>7
  <2>3. CASE k \in DOMAIN a /\ NextBlock(k) = a[k] /\ l \in DOMAIN a /\ NextBlock(l) = a[l]
    BY <1>2, <1>7, <2>3
  <2>4. CASE c + (k - Returned) = c + (l - Returned)
    BY <1>1, <2>4
  <2>5. \A i \in DOMAIN a : a[i] \in Nat /\ ~(a[i] > c)
    <3> SUFFICES ASSUME NEW i \in DOMAIN a PROVE a[i] \in Nat /\ ~(a[i] > c)
      OBVIOUS
    <3>1. a[i] \in Nat /\ a[i] <= c /\ c \in Nat
      BY <1>1, <1>4
    <3> QED BY <3>1
  <2> QED BY <1>7, <2>1, <2>2, <2>3, <2>4, <2>5
<1> QED BY <1>6, <1>7

(* The stack never has more places than blocks were allocated.             *)
LEMMA StackWithinCount == ASSUME IInv PROVE Returned <= memory_block_count
<1> DEFINE a == available_memory_blocks
           c == memory_block_count
<1>1. /\ Returned \in Nat /\ c \in Nat /\ DOMAIN a = 1..Returned
      /\ \A i \in DOMAIN a : a[i] \in Block
      /\ Block \subseteq Nat \ {0}
  BY AllocationsAssumption DEF IInv, TypeOK, Returned, Block
<1>2. /\ \A i, j \in DOMAIN a : a[i] = a[j] => i = j
      /\ \A b \in ToSet(a) : b <= c
  BY DEF IInv, BlocksOwnedOnce, AllocatedBlocks, IsInjective
<1>3. \A i \in DOMAIN a : a[i] \in ToSet(a)
  BY DEF ToSet
<1> HIDE DEF a, c
<1>4. \A i \in 1..Returned : a[i] \in 1..c
  <2> SUFFICES ASSUME NEW i \in 1..Returned PROVE a[i] \in 1..c
    OBVIOUS
  <2>1. a[i] \in Nat \ {0} /\ a[i] <= c /\ c \in Nat
    BY <1>1, <1>2, <1>3
  <2> QED BY <2>1
<1> DEFINE f == [i \in 1..Returned |-> a[i]]
<1>5. f \in Injection(1..Returned, 1..c)
  <2>1. f \in [1..Returned -> 1..c]
    BY <1>4
  <2>2. \A i, j \in 1..Returned : f[i] = f[j] => i = j
    BY <1>1, <1>2
  <2> QED BY <2>1, <2>2 DEF Injection, IsInjective
<1>6. /\ IsFiniteSet(1..c)
      /\ Cardinality(1..c) = c
      /\ Cardinality(1..Returned) = Returned
  BY <1>1, FS_Interval
<1>7. Cardinality(1..Returned) <= Cardinality(1..c)
  <2> HIDE DEF f
  <2> QED BY <1>5, <1>6, FS_Injection
<1> QED BY <1>6, <1>7 DEF c

(* However many requests there are, those after the first beyond the limit *)
(* change nothing: the memory manager has thrown.                          *)
LEMMA RequestsBeyond ==
    ASSUME IInv, NEW k \in Nat, k > MaxPossibleAllocations + 1
    PROVE  /\ NextBlocks(k) = NextBlocks(MaxPossibleAllocations + 1)
           /\ TakeBlocks(k) => TakeBlocks(MaxPossibleAllocations + 1)
<1> DEFINE a == available_memory_blocks
           c == memory_block_count
           max == MaxPossibleAllocations
<1>1. /\ Returned \in Nat /\ c \in 0..(max + 1) /\ max \in Nat
      /\ a \in Seq(Block) /\ Returned = Len(a) /\ Returned <= c
  BY AllocationsAssumption, StackWithinCount DEF IInv, TypeOK, Returned
<1>2. Returned < max + 1 \/ c = max + 1
  BY <1>1
<1>3. Returned <= max
  <2>1. IsFiniteSet(1..max) /\ Cardinality(1..max) = max /\ Cardinality(1..Returned) = Returned
    <3>1. \A n \in Nat : IsFiniteSet(1..n) /\ Cardinality(1..n) = n
      BY FS_Interval
    <3> QED BY <1>1, <3>1
  <2>2. a \in Injection(1..Returned, 1..max)
    <3>1. a \in [1..Returned -> 1..max]
      BY <1>1 DEF Block
    <3>2. \A i, j \in 1..Returned : a[i] = a[j] => i = j
      BY <1>1 DEF IInv, BlocksOwnedOnce, IsInjective
    <3> QED BY <3>1, <3>2 DEF Injection, IsInjective
  <2> HIDE DEF a
  <2>3. Cardinality(1..Returned) <= Cardinality(1..max)
    BY <2>1, <2>2, FS_Injection
  <2> QED BY <2>1, <2>3
<1>4. \A i \in Nat : i >= max + 1 => ~(i <= Returned) /\ ~(c + (i - Returned) <= max)
  BY <1>1, <1>3
<1>5. \A i \in Nat : i >= max + 1 => NextBlock(i) = NoBlock /\ ~CanAllocate(i)
  BY <1>4 DEF NextBlock, CanAllocate
<1>6. NextBlocks(k) = NextBlocks(max + 1)
  <2>1. \A i : i \in 1..(max + 1) => i \in 1..k
    BY <1>1
  <2>2. \A i : i \in 1..k => i \in 1..(max + 1) \/ (i \in Nat /\ i >= max + 1)
    BY <1>1
  <2> QED BY <1>5, <2>1, <2>2 DEF NextBlocks
<1>7. \A i \in Nat : i >= max + 1 => SubSeq(a, i + 1, Returned) = <<>>
  BY <1>1, <1>3
<1>8. TakeBlocks(k) => TakeBlocks(max + 1)
  <2>1. k >= max + 1 /\ max + 1 \in Nat /\ max + 1 >= max + 1
    BY <1>1
  <2>2. SubSeq(a, k + 1, Returned) = SubSeq(a, (max + 1) + 1, Returned)
    BY <1>7, <2>1
  <2>3. ~CanAllocate(k) /\ ~CanAllocate(max + 1) /\ ~(k <= Returned) /\ ~(max + 1 <= Returned)
    BY <1>4, <1>5, <2>1
  <2> QED BY <2>2, <2>3 DEF TakeBlocks
<1> QED BY <1>6, <1>8
=============================================================================
