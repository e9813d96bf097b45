--------------------------- MODULE SequenceLemmas ---------------------------
(***************************************************************************)
(* Facts about the sequence operators of the community modules, and about  *)
(* least and greatest numbers, that the proofs of this project rest on.    *)
(***************************************************************************)
EXTENDS Integers, SequencesExt, SequenceTheorems, FiniteSetTheorems,
        WellFoundedInduction, TLAPS

(* A set of natural numbers has a least one.  (Induction, in the form the  *)
(* provers can use: < is well founded on Nat.)                             *)
LEMMA LeastNumber ==
    ASSUME NEW S \in SUBSET Nat, S # {}
    PROVE  \E k \in S : \A l \in S : k <= l
<1>1. \E x \in S : \A y \in S : ~(<<y, x>> \in OpToRel(<, Nat))
  BY NatLessThanWellFounded, WFMin
<1>2. ASSUME NEW x \in Nat, NEW y \in Nat, y < x
      PROVE  <<y, x>> \in OpToRel(<, Nat)
  <2>1. <<y, x>> \in Nat \X Nat
    OBVIOUS
  <2>2. <<y, x>>[1] < <<y, x>>[2]
    BY <1>2
  <2>3. QED
    BY <2>1, <2>2, Zenon DEF OpToRel
<1>3. \E x \in S : \A y \in S : ~(y < x)
  BY <1>1, <1>2, Zenon
<1>4. QED
  BY <1>3

(* The least number of a set is its Min.                                   *)
LEMMA LeastIsMin ==
    ASSUME NEW S \in SUBSET Nat, S # {}
    PROVE  Min(S) \in S
<1>1. \E k \in S : \A l \in S : k <= l
  BY LeastNumber
<1>2. QED
  BY <1>1, Zenon DEF Min

(* A bounded set of natural numbers has a greatest one, which is its Max.  *)
LEMMA GreatestNumber ==
    ASSUME NEW bound \in Nat, NEW S \in SUBSET (0..bound), S # {}
    PROVE  Max(S) \in S /\ \A y \in S : Max(S) >= y
<1> DEFINE T == {bound - x : x \in S}
<1>1. T \in SUBSET Nat /\ T # {}
  <2>1. \A x \in S : bound - x \in Nat
    OBVIOUS
  <2>2. QED
    BY <2>1
<1>2. PICK t \in T : \A u \in T : t <= u
  BY <1>1, LeastNumber, Zenon
<1>3. PICK x \in S : t = bound - x
  OBVIOUS
<1>4. \A y \in S : bound - y \in T
  OBVIOUS
<1>5. \A y \in S : x >= y
  BY <1>2, <1>3, <1>4
<1>6. QED
  BY <1>3, <1>5, Zenon DEF Max

(* A sequence that is not empty has a first element.                       *)
LEMMA FirstElement ==
    ASSUME NEW S, NEW seq \in Seq(S), seq # <<>>
    PROVE  1 \in DOMAIN seq
<1>1. Len(seq) \in Nat \ {0} /\ DOMAIN seq = 1..Len(seq)
  BY EmptySeq, LenProperties
<1>2. QED
  BY <1>1

(* Appending an element.                                                   *)
LEMMA AppendToSet ==
    ASSUME NEW S, NEW seq \in Seq(S), NEW e \in S
    PROVE  ToSet(Append(seq, e)) = ToSet(seq) \cup {e}
<1>1. /\ DOMAIN seq = 1..Len(seq) /\ Len(seq) \in Nat
      /\ DOMAIN Append(seq, e) = 1..(Len(seq) + 1)
  BY AppendProperties, LenProperties
<1>2. /\ \A i \in 1..Len(seq) : Append(seq, e)[i] = seq[i]
      /\ Append(seq, e)[Len(seq) + 1] = e
  BY AppendProperties
<1>3. QED
  BY <1>1, <1>2 DEF ToSet

(* An injective sequence stays injective with a new element at its end.    *)
LEMMA AppendNew ==
    ASSUME NEW S, NEW seq \in Seq(S), NEW e \in S, IsInjective(seq), e \notin ToSet(seq)
    PROVE  IsInjective(Append(seq, e))
<1>1. /\ DOMAIN seq = 1..Len(seq) /\ Len(seq) \in Nat
      /\ DOMAIN Append(seq, e) = 1..(Len(seq) + 1)
  BY AppendProperties, LenProperties
<1>2. /\ \A i \in 1..Len(seq) : Append(seq, e)[i] = seq[i]
      /\ Append(seq, e)[Len(seq) + 1] = e
  BY AppendProperties
<1>3. \A i \in 1..Len(seq) : seq[i] # e
  BY <1>1 DEF ToSet
<1>4. QED
  BY <1>1, <1>2, <1>3 DEF IsInjective

(* The last element of an injective sequence occurs nowhere before.        *)
LEMMA LastOccursOnce ==
    ASSUME NEW S, NEW seq \in Seq(S), IsInjective(seq),
           NEW l \in 1..Len(seq), l < Len(seq)
    PROVE  seq[l] # seq[Len(seq)]
<1> DEFINE len == Len(seq)
<1>1. len \in Nat /\ DOMAIN seq = 1..len
  BY LenProperties
<1>2. l \in 1..len /\ l < len
  OBVIOUS
<1> HIDE DEF len
<1>3. len \in 1..len /\ ~(l = len)
  BY <1>1, <1>2
<1>4. seq[l] # seq[len]
  BY <1>1, <1>2, <1>3, Zenon DEF IsInjective
<1>5. QED
  BY <1>4 DEF len

(* A sequence, of whatever data.                                           *)
IsSequence(s) == s \in Seq(ToSet(s))

(* What Append makes of a sequence of whatever data.                       *)
LEMMA AppendSequence ==
    ASSUME NEW s, IsSequence(s), NEW data
    PROVE  /\ IsSequence(Append(s, data))
           /\ Len(s) \in Nat /\ DOMAIN s = 1..Len(s)
           /\ Len(Append(s, data)) = Len(s) + 1
           /\ DOMAIN Append(s, data) = 1..(Len(s) + 1)
           /\ \A k \in 1..Len(s) : Append(s, data)[k] = s[k]
           /\ Append(s, data)[Len(s) + 1] = data
<1> DEFINE S == ToSet(s) \cup {data}
           t == Append(s, data)
<1>1. s \in Seq(S)
  <2>1. s \in Seq(ToSet(s)) /\ ToSet(s) \subseteq S
    BY DEF IsSequence
  <2> HIDE DEF S
  <2>2. QED
    BY <2>1
<1>2. data \in S
  OBVIOUS
<1> HIDE DEF S
<1>3. /\ t \in Seq(S) /\ Len(s) \in Nat /\ DOMAIN s = 1..Len(s)
      /\ Len(t) = Len(s) + 1 /\ DOMAIN t = 1..(Len(s) + 1)
      /\ \A k \in 1..Len(s) : t[k] = s[k]
      /\ t[Len(s) + 1] = data
  BY <1>1, <1>2
<1> HIDE DEF t
<1>4. IsSequence(t)
  <2>1. \A k \in 1..Len(t) : t[k] \in ToSet(t)
    BY <1>3 DEF ToSet
  <2>2. t \in [1..Len(t) -> ToSet(t)]
    <3>1. t = [k \in 1..Len(t) |-> t[k]]
      BY <1>3
    <3>2. QED
      BY <2>1, <3>1
  <2>3. Len(t) \in Nat
    BY <1>3
  <2>4. QED
    BY <2>2, <2>3 DEF IsSequence
<1>5. QED
  BY <1>3, <1>4 DEF t

(* Inserting an element.                                                   *)
LEMMA InsertAtProperties ==
    ASSUME NEW S, NEW seq \in Seq(S), NEW k \in 1..(Len(seq) + 1), NEW e \in S
    PROVE  /\ InsertAt(seq, k, e) \in Seq(S)
           /\ Len(InsertAt(seq, k, e)) = Len(seq) + 1
<1> DEFINE left == SubSeq(seq, 1, k - 1)
           right == SubSeq(seq, k, Len(seq))
<1>1. /\ Len(seq) \in Nat
      /\ \A i \in 1..Len(seq) : seq[i] \in S
  BY LenProperties, ElementOfSeq
<1>2. left \in Seq(S) /\ Len(left) = k - 1
  BY <1>1, SubSeqProperties
<1>3. right \in Seq(S) /\ Len(right) = Len(seq) - k + 1
  BY <1>1, SubSeqProperties
<1>4. <<e>> \in Seq(S) /\ Len(<<e>>) = 1
  OBVIOUS
<1>5. left \o <<e>> \in Seq(S) /\ Len(left \o <<e>>) = k
  BY <1>2, <1>4, ConcatProperties
<1>6. InsertAt(seq, k, e) = (left \o <<e>>) \o right
  BY DEF InsertAt
<1> HIDE DEF left, right
<1>7. /\ (left \o <<e>>) \o right \in Seq(S)
      /\ Len((left \o <<e>>) \o right) = Len(left \o <<e>>) + Len(right)
  BY <1>3, <1>5, ConcatProperties
<1>8. Len((left \o <<e>>) \o right) = Len(seq) + 1
  <2> DEFINE len == Len(seq)
  <2>1. Len((left \o <<e>>) \o right) = k + (len - k + 1)
    BY <1>3, <1>5, <1>7
  <2>2. len \in Nat /\ k \in 1..(len + 1)
    BY <1>1
  <2> HIDE DEF len
  <2>3. k + (len - k + 1) = len + 1
    BY <2>2
  <2> QED BY <2>1, <2>3 DEF len
<1>9. QED
  BY <1>6, <1>7, <1>8

(* The elements of a sequence with an element inserted.                    *)
LEMMA InsertAtElements ==
    ASSUME NEW S, NEW seq \in Seq(S), NEW k \in 1..(Len(seq) + 1), NEW e \in S
    PROVE  /\ DOMAIN InsertAt(seq, k, e) = 1..(Len(seq) + 1)
           /\ \A i \in 1..(Len(seq) + 1) :
                 InsertAt(seq, k, e)[i] =
                     IF i < k THEN seq[i] ELSE IF i = k THEN e ELSE seq[i - 1]
<1> DEFINE left == SubSeq(seq, 1, k - 1)
           right == SubSeq(seq, k, Len(seq))
           len == Len(seq)
<1>1. /\ len \in Nat /\ k \in 1..(len + 1)
      /\ \A i \in 1..len : seq[i] \in S
  BY LenProperties, ElementOfSeq
<1>2. /\ left \in Seq(S) /\ Len(left) = k - 1
      /\ \A i \in 1..(k - 1) : left[i] = seq[i]
  BY <1>1, SubSeqProperties
<1>3. /\ right \in Seq(S) /\ Len(right) = len - k + 1
      /\ \A i \in 1..(len - k + 1) : right[i] = seq[k + i - 1]
  BY <1>1, SubSeqProperties
<1>4. <<e>> \in Seq(S) /\ Len(<<e>>) = 1 /\ <<e>>[1] = e
  OBVIOUS
<1> HIDE DEF left, right, len
<1>5. /\ left \o <<e>> \in Seq(S) /\ Len(left \o <<e>>) = k
      /\ \A i \in 1..k : (left \o <<e>>)[i] = IF i < k THEN seq[i] ELSE e
  <2>1. /\ left \o <<e>> \in Seq(S)
        /\ Len(left \o <<e>>) = Len(left) + Len(<<e>>)
        /\ \A i \in 1..(Len(left) + Len(<<e>>)) :
              (left \o <<e>>)[i] = IF i <= Len(left) THEN left[i] ELSE <<e>>[i - Len(left)]
    BY <1>2, <1>4, ConcatProperties
  <2>2. ASSUME NEW i \in 1..k
        PROVE  (left \o <<e>>)[i] = IF i < k THEN seq[i] ELSE e
    <3>1. CASE i < k
      BY <1>1, <1>2, <1>4, <2>1, <3>1
    <3>2. CASE ~(i < k)
      <4>1. ~(i <= Len(left)) /\ i - Len(left) = 1
        BY <1>1, <1>2, <3>2
      <4>2. (left \o <<e>>)[i] = <<e>>[1]
        BY <1>1, <1>2, <1>4, <2>1, <4>1
      <4>3. QED
        BY <1>4, <3>2, <4>2
    <3>3. QED
      BY <3>1, <3>2
  <2>3. QED
    BY <1>1, <1>2, <1>4, <2>1, <2>2
<1> DEFINE front == left \o <<e>>
<1>6. InsertAt(seq, k, e) = front \o right
  BY DEF InsertAt, left, right, len
<1>7. front \in Seq(S) /\ Len(front) = k
  BY <1>5
<1>8. \A i \in 1..k : front[i] = IF i < k THEN seq[i] ELSE e
  BY <1>5
<1> HIDE DEF front
<1>9. /\ front \o right \in Seq(S)
      /\ Len(front \o right) = len + 1
      /\ \A i \in 1..(len + 1) :
            (front \o right)[i] = IF i <= k THEN front[i] ELSE right[i - k]
  <2>1. /\ front \o right \in Seq(S)
        /\ Len(front \o right) = Len(front) + Len(right)
        /\ \A i \in 1..(Len(front) + Len(right)) :
              (front \o right)[i] =
                  IF i <= Len(front) THEN front[i] ELSE right[i - Len(front)]
    BY <1>3, <1>7, ConcatProperties
  <2>2. Len(front) + Len(right) = len + 1
    BY <1>1, <1>3, <1>7
  <2>3. QED
    BY <1>7, <2>1, <2>2
<1>10. ASSUME NEW i \in 1..(len + 1)
       PROVE  (front \o right)[i] =
                  IF i < k THEN seq[i] ELSE IF i = k THEN e ELSE seq[i - 1]
  <2>1. CASE i <= k
    <3>1. i \in 1..k /\ (i < k \/ i = k)
      BY <1>1, <2>1
    <3>2. (front \o right)[i] = front[i]
      BY <1>9, <2>1
    <3>3. front[i] = IF i < k THEN seq[i] ELSE e
      BY <1>8, <3>1
    <3>4. QED
      BY <3>1, <3>2, <3>3
  <2>2. CASE i > k
    <3>1. /\ i - k \in 1..(len - k + 1) /\ k + (i - k) - 1 = i - 1
          /\ ~(i <= k) /\ ~(i < k) /\ i # k
      BY <1>1, <2>2
    <3>2. (front \o right)[i] = right[i - k]
      BY <1>9, <3>1
    <3>3. right[i - k] = seq[i - 1]
      BY <1>3, <3>1
    <3>4. QED
      BY <3>1, <3>2, <3>3
  <2>3. i <= k \/ i > k
    BY <1>1
  <2>4. QED
    BY <2>1, <2>2, <2>3
<1>11. DOMAIN (front \o right) = 1..(len + 1)
  BY <1>9, LenProperties
<1>12. QED
  BY <1>6, <1>10, <1>11 DEF len

(* Inserting into a sequence without elements.                             *)
LEMMA InsertAtEmpty ==
    ASSUME NEW S, NEW seq \in Seq(S), Len(seq) = 0, NEW e \in S
    PROVE  InsertAt(seq, 1, e) = <<e>>
<1>1. ASSUME NEW s \in Seq(S), NEW k \in 1..(Len(s) + 1)
      PROVE  /\ InsertAt(s, k, e) \in Seq(S)
             /\ Len(InsertAt(s, k, e)) = Len(s) + 1
             /\ InsertAt(s, k, e)[k] = e
  <2>1. /\ Len(s) \in Nat
        /\ \A i \in 1..(Len(s) + 1) :
              InsertAt(s, k, e)[i] = IF i < k THEN s[i] ELSE IF i = k THEN e ELSE s[i - 1]
    BY LenProperties, InsertAtElements
  <2>2. QED
    BY <2>1, InsertAtProperties
<1>2. ASSUME NEW s \in Seq(S), Len(s) = 0
      PROVE  InsertAt(s, 1, e) = <<e>>
  <2>1. Len(s) + 1 = 1 /\ 1 \in 1..(Len(s) + 1)
    BY <1>2
  <2> DEFINE one == InsertAt(s, 1, e)
  <2>2. one \in Seq(S) /\ Len(one) = 1 /\ one[1] = e
    BY <1>1, <2>1, Zenon
  <2> HIDE DEF one
  <2>3. one = <<e>>
    BY <2>2, LenProperties
  <2>4. QED
    BY <2>3 DEF one
<1>3. QED
  BY <1>2

(* Appending an element to a sequence adds one place to the places that    *)
(* hold a value of T, or none.                                             *)
LEMMA AppendCount ==
    ASSUME NEW S, NEW seq \in Seq(S), NEW e \in S, NEW T
    PROVE  Cardinality({i \in DOMAIN Append(seq, e) : Append(seq, e)[i] \in T}) =
               Cardinality({i \in DOMAIN seq : seq[i] \in T})
                   + (IF e \in T THEN 1 ELSE 0)
<1> DEFINE old == {i \in DOMAIN seq : seq[i] \in T}
           new == {i \in DOMAIN Append(seq, e) : Append(seq, e)[i] \in T}
           last == Len(seq) + 1
<1>1. /\ Len(seq) \in Nat /\ DOMAIN seq = 1..Len(seq)
      /\ DOMAIN Append(seq, e) = 1..last
      /\ \A i \in 1..Len(seq) : Append(seq, e)[i] = seq[i]
      /\ Append(seq, e)[last] = e
  BY AppendProperties, LenProperties
<1>2. IsFiniteSet(old)
  <2>1. IsFiniteSet(1..Len(seq)) /\ old \in SUBSET (1..Len(seq))
    BY <1>1, FS_Interval
  <2>2. QED
    BY <2>1, FS_Subset
<1>3. last \notin old /\ Cardinality(old) \in Nat
  BY <1>1, <1>2, FS_CardinalityType
<1>4. new = IF e \in T THEN old \cup {last} ELSE old
  BY <1>1
<1> HIDE DEF old, new, last
<1>5. Cardinality(old \cup {last}) = Cardinality(old) + 1
  BY <1>2, <1>3, FS_AddElement
<1>6. Cardinality(new) = Cardinality(old) + (IF e \in T THEN 1 ELSE 0)
  BY <1>3, <1>4, <1>5
<1>7. QED
  BY <1>6 DEF old, new

(* The same of an element inserted anywhere.                               *)
LEMMA InsertAtCount ==
    ASSUME NEW S, NEW seq \in Seq(S), NEW k \in 1..(Len(seq) + 1), NEW e \in S, NEW T
    PROVE  Cardinality({i \in DOMAIN InsertAt(seq, k, e) : InsertAt(seq, k, e)[i] \in T}) =
               Cardinality({i \in DOMAIN seq : seq[i] \in T})
                   + (IF e \in T THEN 1 ELSE 0)
<1> DEFINE longer == InsertAt(seq, k, e)
           len == Len(seq)
           old == {i \in DOMAIN seq : seq[i] \in T}
           new == {i \in DOMAIN longer : longer[i] \in T}
           shift == [i \in old |-> IF i < k THEN i ELSE i + 1]
           moved == {shift[i] : i \in old}
<1>1. /\ len \in Nat /\ DOMAIN seq = 1..len /\ k \in 1..(len + 1)
      /\ DOMAIN longer = 1..(len + 1)
      /\ \A i \in 1..(len + 1) :
            longer[i] = IF i < k THEN seq[i] ELSE IF i = k THEN e ELSE seq[i - 1]
  BY LenProperties, InsertAtElements
<1> HIDE DEF longer, len
<1>2. old \subseteq 1..len
  BY <1>1
<1>3. IsFiniteSet(old)
  <2>1. IsFiniteSet(1..len) /\ old \in SUBSET (1..len)
    BY <1>1, <1>2, FS_Interval
  <2>2. QED
    BY <2>1, FS_Subset
<1>4. shift \in Bijection(old, moved)
  <2>1. shift \in [old -> moved] /\ \A y \in moved : \E x \in old : shift[x] = y
    OBVIOUS
  <2>2. \A x, y \in old : shift[x] = shift[y] => x = y
    BY <1>1, <1>2
  <2> HIDE DEF shift, moved
  <2>3. QED
    BY <2>1, <2>2, Zenon DEF Bijection, Injection, Surjection, IsInjective
<1>5. IsFiniteSet(moved) /\ Cardinality(moved) = Cardinality(old)
  BY <1>3, <1>4, FS_Bijection, Zenon DEF ExistsBijection
<1>6. k \notin moved
  <2>1. \A i \in old : shift[i] # k
    BY <1>1, <1>2
  <2>2. QED
    BY <2>1
<1>7. new = IF e \in T THEN moved \cup {k} ELSE moved
  <2>1. ASSUME NEW i \in new
        PROVE  i \in (IF e \in T THEN moved \cup {k} ELSE moved)
    <3>1. CASE i < k
      <4>1. i \in old /\ shift[i] = i
        BY <1>1, <3>1
      <4>2. QED
        BY <4>1
    <3>2. CASE i = k
      BY <1>1, <3>2
    <3>3. CASE i > k
      <4>1. i - 1 \in old /\ shift[i - 1] = i
        BY <1>1, <3>3
      <4>2. QED
        BY <4>1
    <3>4. QED
      BY <1>1, <3>1, <3>2, <3>3
  <2>2. ASSUME NEW i \in old
        PROVE  shift[i] \in new
    BY <1>1, <1>2
  <2>3. e \in T => k \in new
    BY <1>1
  <2> HIDE DEF shift, new, old
  <2>4. QED
    BY <2>1, <2>2, <2>3
<1>8. Cardinality(old) \in Nat
  BY <1>3, FS_CardinalityType
<1> HIDE DEF old, new, moved
<1>9. Cardinality(moved \cup {k}) = Cardinality(moved) + 1
  BY <1>5, <1>6, <1>8, FS_AddElement
<1>10. Cardinality(new) = Cardinality(old) + (IF e \in T THEN 1 ELSE 0)
  BY <1>5, <1>7, <1>8, <1>9
<1>11. QED
  BY <1>10 DEF old, new, longer

(* Removing an element.                                                    *)
LEMMA RemoveAtProperties ==
    ASSUME NEW S, NEW seq \in Seq(S), NEW k \in 1..Len(seq)
    PROVE  /\ RemoveAt(seq, k) \in Seq(S)
           /\ Len(RemoveAt(seq, k)) = Len(seq) - 1
           /\ \A i \in 1..(Len(seq) - 1) :
                 RemoveAt(seq, k)[i] = IF i < k THEN seq[i] ELSE seq[i + 1]
<1> DEFINE left == SubSeq(seq, 1, k - 1)
           right == SubSeq(seq, k + 1, Len(seq))
<1>1. /\ Len(seq) \in Nat
      /\ \A i \in 1..Len(seq) : seq[i] \in S
  BY LenProperties, ElementOfSeq
<1>2. /\ left \in Seq(S) /\ Len(left) = k - 1
      /\ \A i \in 1..(k - 1) : left[i] = seq[i]
  BY <1>1, SubSeqProperties
<1>3. /\ right \in Seq(S) /\ Len(right) = Len(seq) - k
      /\ \A i \in 1..(Len(seq) - k) : right[i] = seq[k + i]
  <2>1. \A i \in (k + 1)..Len(seq) : seq[i] \in S
    BY <1>1
  <2>2. /\ right \in Seq(S)
        /\ Len(right) = IF k + 1 <= Len(seq) THEN Len(seq) - (k + 1) + 1 ELSE 0
        /\ \A i \in 1..(Len(seq) - (k + 1) + 1) : right[i] = seq[(k + 1) + i - 1]
    BY <1>1, <2>1, SubSeqProperties
  <2>3. QED
    BY <1>1, <2>2
<1>4. /\ left \o right \in Seq(S)
      /\ Len(left \o right) = Len(left) + Len(right)
      /\ \A i \in 1..(Len(left) + Len(right)) :
            (left \o right)[i] = IF i <= Len(left) THEN left[i] ELSE right[i - Len(left)]
  BY <1>2, <1>3, ConcatProperties
<1>5. RemoveAt(seq, k) = left \o right
  BY DEF RemoveAt
<1> DEFINE len == Len(seq)
<1>6. /\ len \in Nat /\ k \in 1..len
      /\ Len(left) = k - 1 /\ Len(right) = len - k
      /\ \A i \in 1..(k - 1) : left[i] = seq[i]
      /\ \A i \in 1..(len - k) : right[i] = seq[k + i]
  BY <1>1, <1>2, <1>3
<1> HIDE DEF left, right, len
<1>7. Len(left \o right) = len - 1
  BY <1>4, <1>6
<1>8. ASSUME NEW i \in 1..(len - 1)
      PROVE  (left \o right)[i] = IF i < k THEN seq[i] ELSE seq[i + 1]
  <2>1. i \in 1..(Len(left) + Len(right))
    BY <1>6
  <2>2. CASE i < k
    <3>1. i \in 1..(k - 1) /\ i <= Len(left)
      BY <1>6, <2>2
    <3> QED BY <1>4, <1>6, <2>1, <2>2, <3>1
  <2>3. CASE ~(i < k)
    <3>1. /\ ~(i <= Len(left))
          /\ i - Len(left) \in 1..(len - k)
          /\ k + (i - Len(left)) = i + 1
      BY <1>6, <2>3
    <3>2. (left \o right)[i] = right[i - Len(left)]
      BY <1>4, <2>1, <3>1
    <3>3. right[i - Len(left)] = seq[k + (i - Len(left))]
      BY <1>6, <3>1
    <3> QED BY <2>3, <3>1, <3>2, <3>3
  <2> QED BY <2>2, <2>3
<1>9. QED
  BY <1>4, <1>5, <1>7, <1>8 DEF len

(* Removing from an injective sequence removes one element from its set.   *)
LEMMA RemoveAtInjective ==
    ASSUME NEW S, NEW seq \in Seq(S), NEW k \in 1..Len(seq), IsInjective(seq)
    PROVE  /\ IsInjective(RemoveAt(seq, k))
           /\ ToSet(RemoveAt(seq, k)) = ToSet(seq) \ {seq[k]}
<1> DEFINE rest == RemoveAt(seq, k)
<1>1. /\ Len(seq) \in Nat /\ DOMAIN seq = 1..Len(seq)
      /\ DOMAIN rest = 1..(Len(seq) - 1)
      /\ \A i \in 1..(Len(seq) - 1) : rest[i] = IF i < k THEN seq[i] ELSE seq[i + 1]
  BY LenProperties, RemoveAtProperties
<1> HIDE DEF rest
<1>2. \A i, j \in 1..Len(seq) : seq[i] = seq[j] => i = j
  BY <1>1 DEF IsInjective
<1>3. IsInjective(rest)
  BY <1>1, <1>2 DEF IsInjective
<1>4. ASSUME NEW i \in 1..(Len(seq) - 1)
      PROVE  rest[i] \in ToSet(seq) \ {seq[k]}
  BY <1>1, <1>2 DEF ToSet
<1>5. ASSUME NEW i \in 1..Len(seq), i # k
      PROVE  seq[i] \in ToSet(rest)
  <2>1. CASE i < k
    <3>1. i \in 1..(Len(seq) - 1) /\ rest[i] = seq[i]
      BY <1>1, <2>1
    <3>2. QED
      BY <1>1, <3>1 DEF ToSet
  <2>2. CASE i > k
    <3>1. i - 1 \in 1..(Len(seq) - 1) /\ rest[i - 1] = seq[i]
      BY <1>1, <2>2
    <3>2. QED
      BY <1>1, <3>1 DEF ToSet
  <2>3. QED
    BY <1>5, <2>1, <2>2
<1>6. ToSet(rest) = ToSet(seq) \ {seq[k]}
  BY <1>1, <1>4, <1>5 DEF ToSet
<1>7. QED
  BY <1>3, <1>6 DEF rest

-----------------------------------------------------------------------------
(***************************************************************************)
(* Concatenating, reversing and flattening                                 *)
(***************************************************************************)

LEMMA ConcatToSet ==
    ASSUME NEW S, NEW s \in Seq(S), NEW t \in Seq(S)
    PROVE  ToSet(s \o t) = ToSet(s) \cup ToSet(t)
<1>1. /\ DOMAIN s = 1..Len(s) /\ DOMAIN t = 1..Len(t)
      /\ DOMAIN (s \o t) = 1..(Len(s) + Len(t)) /\ Len(s) \in Nat /\ Len(t) \in Nat
      /\ \A i \in 1..(Len(s) + Len(t)) :
            (s \o t)[i] = IF i <= Len(s) THEN s[i] ELSE t[i - Len(s)]
  BY ConcatProperties, LenProperties
<1> DEFINE st == s \o t
<1> HIDE DEF st
<1>2. ASSUME NEW i \in DOMAIN st PROVE st[i] \in ToSet(s) \cup ToSet(t)
  <2>1. CASE i <= Len(s)
    <3>1. i \in 1..Len(s) /\ st[i] = s[i]
      BY <1>1, <1>2, <2>1 DEF st
    <3>2. QED
      BY <1>1, <3>1 DEF ToSet
  <2>2. CASE i > Len(s)
    <3>1. i - Len(s) \in 1..Len(t) /\ st[i] = t[i - Len(s)]
      BY <1>1, <1>2, <2>2 DEF st
    <3>2. QED
      BY <1>1, <3>1 DEF ToSet
  <2>3. QED
    BY <1>1, <1>2, <2>1, <2>2 DEF st
<1>3. ASSUME NEW i \in DOMAIN s PROVE s[i] \in ToSet(st)
  <2>1. i \in DOMAIN st /\ st[i] = s[i]
    BY <1>1, <1>3 DEF st
  <2>2. QED
    BY <2>1 DEF ToSet
<1>4. ASSUME NEW i \in DOMAIN t PROVE t[i] \in ToSet(st)
  <2>1. Len(s) + i \in DOMAIN st /\ st[Len(s) + i] = t[i]
    BY <1>1, <1>4 DEF st
  <2>2. QED
    BY <2>1 DEF ToSet
<1>5. QED
  <2>1. ToSet(st) \subseteq ToSet(s) \cup ToSet(t)
    BY <1>2 DEF ToSet
  <2>2. ToSet(s) \subseteq ToSet(st) /\ ToSet(t) \subseteq ToSet(st)
    BY <1>3, <1>4 DEF ToSet
  <2>3. QED
    BY <2>1, <2>2 DEF st

LEMMA ConcatInjective ==
    ASSUME NEW S, NEW s \in Seq(S), NEW t \in Seq(S), IsInjective(s), IsInjective(t),
           ToSet(s) \cap ToSet(t) = {}
    PROVE  IsInjective(s \o t)
<1> DEFINE st == s \o t
           m == Len(s)
           n == Len(t)
<1>1. /\ DOMAIN s = 1..m /\ DOMAIN t = 1..n
      /\ DOMAIN st = 1..(m + n) /\ m \in Nat /\ n \in Nat
      /\ \A i \in 1..(m + n) : st[i] = IF i <= m THEN s[i] ELSE t[i - m]
  BY ConcatProperties, LenProperties
<1>2. \A i \in 1..m, j \in 1..n : s[i] # t[j]
  BY <1>1 DEF ToSet
<1>3. /\ \A i, j \in 1..m : s[i] = s[j] => i = j
      /\ \A i, j \in 1..n : t[i] = t[j] => i = j
  BY <1>1 DEF IsInjective
<1> HIDE DEF st, m, n
<1>4. ASSUME NEW i \in 1..(m + n), NEW j \in 1..(m + n), st[i] = st[j]
      PROVE  i = j
  <2>1. CASE i <= m /\ j <= m
    BY <1>1, <1>3, <1>4, <2>1
  <2>2. CASE i > m /\ j > m
    <3>1. i - m \in 1..n /\ j - m \in 1..n
      BY <1>1, <2>2
    <3>2. t[i - m] = t[j - m]
      BY <1>1, <1>4, <2>2
    <3>3. i - m = j - m
      BY <1>3, <3>1, <3>2
    <3>4. QED
      BY <1>1, <3>3
  <2>3. CASE i <= m /\ j > m
    <3>1. i \in 1..m /\ j - m \in 1..n
      BY <1>1, <2>3
    <3>2. s[i] = t[j - m]
      BY <1>1, <1>4, <2>3
    <3>3. QED
      BY <1>2, <3>1, <3>2
  <2>4. CASE i > m /\ j <= m
    <3>1. j \in 1..m /\ i - m \in 1..n
      BY <1>1, <2>4
    <3>2. s[j] = t[i - m]
      BY <1>1, <1>4, <2>4
    <3>3. QED
      BY <1>2, <3>1, <3>2
  <2>5. QED
    BY <1>1, <2>1, <2>2, <2>3, <2>4
<1>5. QED
  BY <1>1, <1>4, Zenon DEF IsInjective, st

LEMMA ReverseElements ==
    ASSUME NEW S, NEW s \in Seq(S)
    PROVE  /\ Reverse(s) \in Seq(S)
           /\ ToSet(Reverse(s)) = ToSet(s)
           /\ IsInjective(s) => IsInjective(Reverse(s))
<1> DEFINE r == Reverse(s)
           n == Len(s)
<1>1. /\ n \in Nat /\ DOMAIN s = 1..n /\ \A i \in 1..n : s[i] \in S
      /\ r = [i \in 1..n |-> s[(n - i) + 1]]
  BY LenProperties DEF Reverse
<1>2. \A i \in 1..n : (n - i) + 1 \in 1..n /\ n - ((n - i) + 1) + 1 = i
  BY <1>1
<1>3. DOMAIN r = 1..n /\ \A i \in 1..n : r[i] = s[(n - i) + 1]
  BY <1>1
<1>4. r \in [1..n -> S]
  BY <1>1, <1>2
<1> HIDE DEF r, n
<1>5. r \in Seq(S)
  BY <1>1, <1>4
<1>6. ToSet(r) = ToSet(s)
  <2>1. \A i \in 1..n : r[i] \in ToSet(s)
    BY <1>1, <1>2, <1>3 DEF ToSet
  <2>2. ASSUME NEW i \in 1..n PROVE s[i] \in ToSet(r)
    <3>1. r[(n - i) + 1] = s[i]
      BY <1>2, <1>3
    <3>2. QED
      BY <1>2, <1>3, <3>1 DEF ToSet
  <2>3. QED
    BY <1>1, <1>3, <2>1, <2>2 DEF ToSet
<1>7. ASSUME IsInjective(s), NEW i \in 1..n, NEW j \in 1..n, r[i] = r[j]
      PROVE  i = j
  <2>1. s[(n - i) + 1] = s[(n - j) + 1]
    BY <1>3, <1>7
  <2>2. (n - i) + 1 = (n - j) + 1
    BY <1>1, <1>2, <1>7, <2>1, Zenon DEF IsInjective
  <2>3. QED
    BY <1>1, <2>2
<1>8. IsInjective(s) => IsInjective(r)
  BY <1>3, <1>7, Zenon DEF IsInjective
<1>9. QED
  BY <1>5, <1>6, <1>8 DEF r

(* The function by which FlattenSeq is computed.                           *)
IsFlattening(g, seqs, n) ==
    g = [i \in 1..n |-> IF i = 1 THEN seqs[i] ELSE g[i - 1] \o seqs[i]]

LEMMA FlatteningExists ==
    ASSUME NEW seqs, NEW n \in Nat \ {0}
    PROVE  \E g : IsFlattening(g, seqs, n)
<1> DEFINE bad == {k \in Nat \ {0} : ~\E g : IsFlattening(g, seqs, k)}
<1>1. SUFFICES ASSUME bad # {} PROVE FALSE
  OBVIOUS
<1>2. PICK k \in bad : \A l \in bad : k <= l
  BY <1>1, LeastNumber
<1>3. k \in Nat \ {0} /\ ~\E g : IsFlattening(g, seqs, k)
  OBVIOUS
<1>4. CASE k = 1
  <2> DEFINE g == [i \in 1..1 |-> seqs[i]]
  <2>1. IsFlattening(g, seqs, 1)
    BY DEF IsFlattening
  <2>2. QED
    BY <1>3, <1>4, <2>1
<1>5. CASE k # 1
  <2>1. k - 1 \in Nat \ {0} /\ k - 1 \notin bad
    <3>1. k - 1 \in Nat \ {0} /\ ~(k <= k - 1)
      BY <1>3, <1>5
    <3>2. QED
      BY <1>2, <3>1
  <2>2. PICK g : IsFlattening(g, seqs, k - 1)
    BY <2>1
  <2> DEFINE h == [i \in 1..k |-> IF i = 1 THEN seqs[i] ELSE g[i - 1] \o seqs[i]]
  <2>3. \A i \in 1..(k - 1) : g[i] = IF i = 1 THEN seqs[i] ELSE g[i - 1] \o seqs[i]
    BY <2>2 DEF IsFlattening
  <2>4. \A i \in 1..(k - 1) : i \in 1..k /\ h[i] = g[i]
    BY <1>3, <2>3
  <2>5. \A i \in 1..k : i # 1 => i - 1 \in 1..(k - 1)
    BY <1>3
  <2>6. h = [i \in 1..k |-> IF i = 1 THEN seqs[i] ELSE h[i - 1] \o seqs[i]]
    BY <2>4, <2>5
  <2>7. QED
    BY <1>3, <2>6 DEF IsFlattening
<1>6. QED
  BY <1>4, <1>5

LEMMA FlattenSeqSteps ==
    ASSUME NEW seqs, Len(seqs) \in Nat \ {0}
    PROVE  \E g : IsFlattening(g, seqs, Len(seqs)) /\ FlattenSeq(seqs) = g[Len(seqs)]
<1> DEFINE g == CHOOSE g : IsFlattening(g, seqs, Len(seqs))
<1>1. IsFlattening(g, seqs, Len(seqs))
  BY FlatteningExists, Zenon
<1>2. Len(seqs) # 0
  OBVIOUS
<1>3. FlattenSeq(seqs) = g[Len(seqs)]
  BY <1>2, Zenon DEF FlattenSeq, IsFlattening
<1>4. QED
  BY <1>1, <1>3

(* Flattening puts the elements of all parts into one sequence; none is    *)
(* there twice if none is in two parts or twice in one.                    *)
LEMMA FlattenSeqElements ==
    ASSUME NEW S, NEW seqs \in Seq(Seq(S))
    PROVE  /\ FlattenSeq(seqs) \in Seq(S)
           /\ ToSet(FlattenSeq(seqs)) = UNION {ToSet(seqs[k]) : k \in DOMAIN seqs}
           /\ (/\ \A k \in DOMAIN seqs : IsInjective(seqs[k])
               /\ \A k, l \in DOMAIN seqs : k # l => ToSet(seqs[k]) \cap ToSet(seqs[l]) = {})
              => IsInjective(FlattenSeq(seqs))
<1> DEFINE n == Len(seqs)
           Upto(k) == UNION {ToSet(seqs[i]) : i \in 1..k}
           Apart == /\ \A k \in DOMAIN seqs : IsInjective(seqs[k])
                    /\ \A k, l \in DOMAIN seqs :
                          k # l => ToSet(seqs[k]) \cap ToSet(seqs[l]) = {}
<1>1. n \in Nat /\ DOMAIN seqs = 1..n /\ \A k \in 1..n : seqs[k] \in Seq(S)
  BY LenProperties
<1>2. CASE n = 0
  <2>1. seqs = <<>> /\ FlattenSeq(seqs) = seqs
    BY <1>2, EmptySeq DEF FlattenSeq
  <2>2. DOMAIN seqs = {}
    BY <1>1, <1>2
  <2>3. IsInjective(seqs) /\ ToSet(seqs) = {} /\ <<>> \in Seq(S)
    BY <2>2, EmptySeq DEF IsInjective, ToSet
  <2>4. UNION {ToSet(seqs[k]) : k \in DOMAIN seqs} = {}
    BY <2>2
  <2>5. QED
    BY <2>1, <2>3, <2>4
<1>3. CASE n # 0
  <2>1. n \in Nat \ {0}
    BY <1>1, <1>3
  <2>2. PICK g : IsFlattening(g, seqs, n) /\ FlattenSeq(seqs) = g[n]
    BY <2>1, FlattenSeqSteps
  <2> HIDE DEF n
  <2>3. \A i \in 1..n : g[i] = IF i = 1 THEN seqs[i] ELSE g[i - 1] \o seqs[i]
    BY <2>2 DEF IsFlattening
  <2> DEFINE Good(k) == /\ g[k] \in Seq(S)
                        /\ ToSet(g[k]) = Upto(k)
                        /\ Apart => IsInjective(g[k])
             bad == {k \in 1..n : ~Good(k)}
  <2>4. Good(1)
    <3>1. 1 \in 1..n /\ g[1] = seqs[1]
      BY <2>1, <2>3
    <3>2. Upto(1) = ToSet(seqs[1])
      <4>1. 1..1 = {1}
        OBVIOUS
      <4>2. QED
        BY <4>1
    <3>3. QED
      BY <1>1, <3>1, <3>2
  <2>5. ASSUME NEW k \in 2..n, Good(k - 1) PROVE Good(k)
    <3>1. /\ k \in 1..n /\ k - 1 \in 1..n /\ k # 1
          /\ \A i : i \in 1..k <=> i \in 1..(k - 1) \/ i = k
          /\ \A i \in 1..(k - 1) : i \in 1..n /\ i # k
      BY <2>1
    <3>2. g[k] = g[k - 1] \o seqs[k]
      BY <2>3, <3>1
    <3>3. Upto(k) = Upto(k - 1) \cup ToSet(seqs[k])
      <4> HIDE DEF n
      <4>1. Upto(k) \subseteq Upto(k - 1) \cup ToSet(seqs[k])
        BY <3>1
      <4>2. Upto(k - 1) \cup ToSet(seqs[k]) \subseteq Upto(k)
        BY <3>1
      <4>3. QED
        BY <4>1, <4>2
    <3>4. g[k] \in Seq(S) /\ ToSet(g[k]) = Upto(k)
      <4>1. g[k - 1] \in Seq(S) /\ seqs[k] \in Seq(S) /\ ToSet(g[k - 1]) = Upto(k - 1)
        BY <1>1, <2>5, <3>1
      <4> HIDE DEF Upto
      <4>2. QED
        BY <3>2, <3>3, <4>1, ConcatToSet, ConcatProperties
    <3>5. ASSUME Apart PROVE IsInjective(g[k])
      <4>1. Upto(k - 1) \cap ToSet(seqs[k]) = {}
        <5>1. \A i \in 1..(k - 1) : ToSet(seqs[i]) \cap ToSet(seqs[k]) = {}
          BY <1>1, <3>1, <3>5
        <5>2. QED
          BY <5>1
      <4>2. /\ IsInjective(seqs[k]) /\ IsInjective(g[k - 1])
            /\ g[k - 1] \in Seq(S) /\ seqs[k] \in Seq(S) /\ ToSet(g[k - 1]) = Upto(k - 1)
        BY <1>1, <2>5, <3>1, <3>5
      <4> HIDE DEF Upto, Apart, Good
      <4>3. QED
        BY <3>2, <4>1, <4>2, ConcatInjective
    <3>6. QED
      BY <3>4, <3>5
  <2>6. bad = {}
    <3>1. SUFFICES ASSUME bad # {} PROVE FALSE
      OBVIOUS
    <3> HIDE DEF Good
    <3>2. bad \in SUBSET Nat
      OBVIOUS
    <3>3. PICK k \in bad : \A l \in bad : k <= l
      BY <3>1, <3>2, LeastNumber
    <3>4. k \in 1..n /\ ~Good(k)
      OBVIOUS
    <3>5. k # 1
      BY <2>4, <3>4
    <3>6. k \in 2..n /\ k - 1 \in 1..n /\ ~(k <= k - 1)
      BY <2>1, <3>4, <3>5
    <3>7. Good(k - 1)
      BY <3>3, <3>6
    <3>8. QED
      BY <2>5, <3>4, <3>6, <3>7
  <2>7. Good(n)
    <3> HIDE DEF Good
    <3>1. n \in 1..n
      BY <2>1
    <3>2. QED
      BY <2>6, <3>1
  <2>8. QED
    BY <1>1, <2>2, <2>7
<1>4. QED
  BY <1>2, <1>3

-----------------------------------------------------------------------------
(***************************************************************************)
(* The numbers of a finite set are told apart by how many are not greater, *)
(* and each such count occurs.                                             *)
(***************************************************************************)
LEMMA Ranks ==
    ASSUME NEW T \in SUBSET Nat, IsFiniteSet(T)
    PROVE  /\ Cardinality(T) \in Nat
           /\ \A i \in T : Cardinality({k \in T : k <= i}) \in 1..Cardinality(T)
           /\ \A i, j \in T :
                 Cardinality({k \in T : k <= i}) = Cardinality({k \in T : k <= j}) => i = j
           /\ \A r \in 1..Cardinality(T) : \E i \in T : Cardinality({k \in T : k <= i}) = r
<1> DEFINE below(i) == {k \in T : k <= i}
           c == Cardinality(T)
           rank == [i \in T |-> Cardinality(below(i))]
<1>1. IsFiniteSet(T) /\ c \in Nat
  BY FS_CardinalityType
<1>2. ASSUME NEW i \in T
      PROVE  /\ IsFiniteSet(below(i)) /\ Cardinality(below(i)) \in 1..c
  <2>1. below(i) \in SUBSET T /\ i \in below(i)
    OBVIOUS
  <2> HIDE DEF below
  <2>2. /\ IsFiniteSet(below(i)) /\ Cardinality(below(i)) \in Nat
        /\ Cardinality(below(i)) <= Cardinality(T)
    BY <1>1, <2>1, FS_Subset, FS_CardinalityType
  <2>3. Cardinality(below(i)) # 0
    BY <2>1, <2>2, FS_EmptySet
  <2>4. QED
    BY <1>1, <2>2, <2>3
<1>3. ASSUME NEW i \in T, NEW j \in T, i < j
      PROVE  Cardinality(below(i)) # Cardinality(below(j))
  <2>1. below(i) \in SUBSET below(j) /\ j \in below(j) /\ j \notin below(i)
    <3>1. i \in Nat /\ j \in Nat /\ \A k \in T : k \in Nat
      OBVIOUS
    <3>2. \A k \in T : k <= i => k <= j
      BY <1>3, <3>1
    <3>3. j <= j /\ ~(j <= i)
      BY <1>3, <3>1
    <3>4. QED
      BY <3>2, <3>3
  <2> HIDE DEF below
  <2>2. QED
    BY <1>2, <2>1, FS_Subset
<1>4. \A i, j \in T : Cardinality(below(i)) = Cardinality(below(j)) => i = j
  <2>1. \A i, j \in T : i < j \/ j < i \/ i = j
    OBVIOUS
  <2>2. QED
    BY <1>3, <2>1
<1>5. rank \in Injection(T, 1..c)
  <2> HIDE DEF below, c
  <2>1. rank \in [T -> 1..c]
    BY <1>2
  <2>2. \A i, j \in T : rank[i] = rank[j] => i = j
    BY <1>4
  <2> HIDE DEF rank
  <2>3. QED
    BY <2>1, <2>2 DEF Injection, IsInjective
<1>6. rank \in Surjection(T, 1..c)
  <2>1. IsFiniteSet(1..c) /\ Cardinality(1..c) = c
    BY <1>1, FS_Interval
  <2> HIDE DEF rank
  <2>2. QED
    BY <1>1, <1>5, <2>1, FS_Injection
<1>7. \A r \in 1..c : \E i \in T : Cardinality(below(i)) = r
  <2>1. \A r \in 1..c : \E i \in T : rank[i] = r
    <3> HIDE DEF rank, c
    <3>1. QED
      BY <1>6 DEF Surjection
  <2>2. \A i \in T : rank[i] = Cardinality(below(i))
    OBVIOUS
  <2> HIDE DEF rank, below, c
  <2>3. QED
    BY <2>1, <2>2
<1>8. QED
  BY <1>1, <1>2, <1>4, <1>7

(* The rest of a sequence without repetitions, and the elements before it. *)
LEMMA RestOfSequence ==
    ASSUME NEW S, NEW s \in Seq(S), IsInjective(s), NEW n \in 0..Len(s)
    PROVE  /\ IsInjective(SubSeq(s, n + 1, Len(s)))
           /\ ToSet(SubSeq(s, n + 1, Len(s))) \subseteq ToSet(s)
           /\ \A k \in 1..n : s[k] \in ToSet(s) \ ToSet(SubSeq(s, n + 1, Len(s)))
<1> DEFINE len == Len(s)
           rest == SubSeq(s, n + 1, Len(s))
<1>1. /\ len \in Nat /\ DOMAIN s = 1..len /\ n \in Nat /\ n <= len
      /\ \A i \in 1..len : s[i] \in S
  BY LenProperties
<1>2. \A k, l \in 1..len : s[k] = s[l] => k = l
  BY <1>1 DEF IsInjective
<1>3. /\ DOMAIN rest = 1..(len - n)
      /\ \A k \in 1..(len - n) : rest[k] = s[n + k]
  <2>1. \A i \in (n + 1)..Len(s) : s[i] \in S
    BY <1>1
  <2>2. /\ rest \in Seq(S)
        /\ Len(rest) = IF n + 1 <= Len(s) THEN Len(s) - (n + 1) + 1 ELSE 0
        /\ \A i \in 1..(Len(s) - (n + 1) + 1) : rest[i] = s[(n + 1) + i - 1]
    BY <1>1, <2>1, SubSeqProperties
  <2>3. /\ (IF n + 1 <= len THEN len - (n + 1) + 1 ELSE 0) = len - n
        /\ len - (n + 1) + 1 = len - n
        /\ \A i \in 1..(len - n) : (n + 1) + i - 1 = n + i
    <3> HIDE DEF len
    <3>1. QED
      BY <1>1
  <2> HIDE DEF rest
  <2>4. DOMAIN rest = 1..Len(rest)
    BY <2>2, LenProperties
  <2>5. QED
    BY <2>2, <2>3, <2>4
<1> HIDE DEF len, rest
<1>4. \A k \in 1..(len - n) : n + k \in 1..len /\ n + k \notin 1..n
  BY <1>1
<1>5. \A k, l \in 1..(len - n) : n + k = n + l => k = l
  BY <1>1
<1>6. \A k, l \in 1..(len - n) : rest[k] = rest[l] => k = l
  <2> SUFFICES ASSUME NEW k \in 1..(len - n), NEW l \in 1..(len - n), rest[k] = rest[l]
               PROVE  k = l
    OBVIOUS
  <2>1. s[n + k] = s[n + l]
    BY <1>3
  <2>2. n + k \in 1..len /\ n + l \in 1..len
    BY <1>4
  <2>3. n + k = n + l
    BY <1>2, <2>1, <2>2, Zenon
  <2>4. QED
    BY <1>5, <2>3
<1>7. IsInjective(rest)
  BY <1>3, <1>6 DEF IsInjective
<1>8. \A x : x \in ToSet(rest) => \E k \in 1..(len - n) : x = s[n + k]
  BY <1>3 DEF ToSet
<1>9. \A k \in 1..len : s[k] \in ToSet(s)
  BY <1>1 DEF ToSet
<1>10. ToSet(rest) \subseteq ToSet(s)
  BY <1>4, <1>8, <1>9
<1>11. ASSUME NEW k \in 1..n PROVE s[k] \in ToSet(s) \ ToSet(rest)
  <2>1. k \in 1..len
    BY <1>1
  <2>2. ASSUME NEW l \in 1..(len - n), s[k] = s[n + l] PROVE FALSE
    <3>1. k = n + l
      BY <1>2, <1>4, <2>1, <2>2, Zenon
    <3>2. QED
      BY <1>4, <3>1
  <2>3. QED
    BY <1>8, <1>9, <2>1, <2>2
<1>12. QED
  BY <1>7, <1>10, <1>11 DEF rest
=============================================================================
