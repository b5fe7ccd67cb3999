-------------------------- MODULE CBTreeNodeProofs --------------------------
(***************************************************************************)
(* What the loops over the slots of one node return and preserve.          *)
(***************************************************************************)
EXTENDS CBTreeNode, TLAPS, WellFoundedInduction

(* The contents a node can have, V being what a slot can point to.         *)
NodeOver(V) == [Slot -> [k : Long, v : V]]

(* A set of slots that is not empty has a least element.                   *)
LEMMA LeastSlot ==
  ASSUME NEW S, S \subseteq Slot, S # {}
  PROVE  \E i \in S : \A j \in S : i <= j
<1>1. S \subseteq Nat
  BY NoPairsAssumption DEF Slot
<1>2. PICK i \in S : \A j \in S : ~ (<<j, i>> \in OpToRel(<, Nat))
  BY <1>1, WFMin, NatLessThanWellFounded
<1>3. \A j \in S : ~ (j < i)
  BY <1>1, <1>2 DEF OpToRel
<1> QED
  BY <1>1, <1>3

(* A loop over the slots breaks at a slot that satisfies its test, before  *)
(* all others that do, or runs to no_pairs when none does.                 *)
LEMMA FirstIsLeast ==
  ASSUME NEW S, S \subseteq Slot
  PROVE  /\ First(S) \in S \cup {NoPairs}
         /\ \A j \in S : First(S) <= j
         /\ First(S) \in 0 .. NoPairs
<1>1. \E i \in S \cup {NoPairs} : \A j \in S : i <= j
  <2>1. CASE S = {}
    BY <2>1
  <2>2. CASE S # {}
    BY <2>2, LeastSlot
  <2> QED
    BY <2>1, <2>2
<1>2. First(S) \in S \cup {NoPairs} /\ \A j \in S : First(S) <= j
  BY <1>1 DEF First
<1>3. \A f \in S \cup {NoPairs} : f \in 0 .. NoPairs
  BY NoPairsAssumption DEF Slot
<1> QED
  BY <1>2, <1>3

(* getpos finds the place of a key: all slots before it hold larger keys.  *)
LEMMA getposFinds ==
  ASSUME NEW V, NEW n \in NodeOver(V), NEW key \in Long
  PROVE  /\ getpos(n, key) \in 0 .. NoPairs
         /\ getpos(n, key) # NoPairs => getpos(n, key) \in Slot /\ n[getpos(n, key)].k <= key
         /\ \A j \in Slot : j < getpos(n, key) => n[j].k > key
<1> DEFINE S == {i \in Slot : n[i].k <= key}
<1> DEFINE f == First(S)
<1>1. f \in S \cup {NoPairs} /\ f \in 0 .. NoPairs /\ \A j \in S : f <= j
  <2>1. S \subseteq Slot
    OBVIOUS
  <2> QED
    BY <2>1, FirstIsLeast
<1>2. getpos(n, key) = f
  BY DEF getpos
<1>3. key \in Int /\ \A j \in Slot : n[j].k \in Int /\ j \in Int
  BY DEF NodeOver, Slot, Long
<1> HIDE DEF f
<1>4. f # NoPairs => f \in Slot /\ n[f].k <= key
  BY <1>1
<1>5. \A j \in Slot : j < f => n[j].k > key
  <2> SUFFICES ASSUME NEW j \in Slot, j < f, ~ (n[j].k > key)
               PROVE  FALSE
    OBVIOUS
  <2>1. j \in S
    BY <1>3
  <2> QED
    BY <1>1, <1>3, <2>1
<1> QED
  BY <1>1, <1>2, <1>4, <1>5

(* getfill stops at the first slot from start on that is not in use.       *)
LEMMA getfillFinds ==
  ASSUME NEW V, NEW n \in NodeOver(V), NEW start \in 0 .. NoPairs
  PROVE  /\ getfill(n, start) \in start .. NoPairs
         /\ getfill(n, start) # NoPairs => n[getfill(n, start)].v = NULL
         /\ \A j \in Slot : start <= j /\ j < getfill(n, start) => n[j].v # NULL
<1> DEFINE S == {i \in Slot : i >= start /\ n[i].v = NULL}
<1> DEFINE f == First(S)
<1>1. f \in S \cup {NoPairs} /\ f \in 0 .. NoPairs /\ \A j \in S : f <= j
  <2>1. S \subseteq Slot
    OBVIOUS
  <2> QED
    BY <2>1, FirstIsLeast
<1>2. getfill(n, start) = f
  BY DEF getfill
<1> HIDE DEF f
<1>3. f \in start .. NoPairs
  BY <1>1
<1>4. f # NoPairs => n[f].v = NULL
  BY <1>1
<1>5. \A j \in Slot : start <= j /\ j < f => n[j].v # NULL
  <2> SUFFICES ASSUME NEW j \in Slot, start <= j, j < f, n[j].v = NULL
               PROVE  FALSE
    OBVIOUS
  <2>1. j \in S /\ j \in Int
    BY DEF Slot
  <2> QED
    BY <1>1, <2>1
<1> QED
  BY <1>2, <1>3, <1>4, <1>5

LEMMA matchesAreSlots ==
  ASSUME NEW n, NEW key
  PROVE  matches(n, key) \subseteq Slot
BY DEF matches

(* Every operation on the pairs of a node yields a node.                   *)
LEMMA EmptyNodeType ==
  ASSUME NEW V, NULL \in V
  PROVE  EmptyNode \in NodeOver(V)
BY MaxLongAssumption DEF EmptyNode, Empty, NodeOver, Long

LEMMA insert_pairType ==
  ASSUME NEW V, NEW n \in NodeOver(V), NEW pos \in Slot, NEW fill \in Slot,
         NEW key \in Long, NEW val \in V
  PROVE  insert_pair(n, pos, fill, key, val) \in NodeOver(V)
<1> SUFFICES ASSUME NEW i \in Slot
             PROVE  insert_pair(n, pos, fill, key, val)[i] \in [k : Long, v : V]
  BY DEF insert_pair, NodeOver
<1>1. CASE i = pos
  BY <1>1 DEF insert_pair
<1>2. CASE i # pos /\ i \in (pos + 1) .. fill
  <2>1. i - 1 \in Slot
    BY <1>2, NoPairsAssumption DEF Slot
  <2> QED
    BY <1>2, <2>1 DEF insert_pair, NodeOver
<1>3. CASE i # pos /\ i \notin (pos + 1) .. fill
  BY <1>3 DEF insert_pair, NodeOver
<1> QED
  BY <1>1, <1>2, <1>3

LEMMA remove_pairType ==
  ASSUME NEW V, NULL \in V, NEW n \in NodeOver(V), NEW pos \in 0 .. NoPairs,
         NEW fill \in 0 .. NoPairs
  PROVE  remove_pair(n, pos, fill) \in NodeOver(V)
<1> SUFFICES ASSUME NEW i \in Slot
             PROVE  remove_pair(n, pos, fill)[i] \in [k : Long, v : V]
  BY DEF remove_pair, NodeOver
<1>1. CASE i = fill - 1
  BY <1>1, MaxLongAssumption DEF remove_pair, Empty, Long
<1>2. CASE i # fill - 1 /\ i \in pos .. (fill - 2)
  <2>1. i + 1 \in Slot
    BY <1>2, NoPairsAssumption DEF Slot
  <2> QED
    BY <1>2, <2>1 DEF remove_pair, NodeOver
<1>3. CASE i # fill - 1 /\ i \notin pos .. (fill - 2)
  BY <1>3, MaxLongAssumption DEF remove_pair, NodeOver, Long
<1> QED
  BY <1>1, <1>2, <1>3

LEMMA HalvesType ==
  ASSUME NEW V, NULL \in V, NEW n \in NodeOver(V), NEW new \in NodeOver(V)
  PROVE  upper_half(n, new) \in NodeOver(V) /\ lower_half(n) \in NodeOver(V)
<1>1. upper_half(n, new) \in NodeOver(V)
  BY DEF upper_half, NodeOver
<1>2. \A i \in Slot : i + Half < NoPairs => i + Half \in Slot
  BY NoPairsAssumption DEF Half, Slot
<1>3. lower_half(n) \in NodeOver(V)
  BY <1>2, MaxLongAssumption DEF lower_half, NodeOver, Empty, Long
<1> QED
  BY <1>1, <1>3

LEMMA append_pairsType ==
  ASSUME NEW V, NEW left \in NodeOver(V), NEW right \in NodeOver(V),
         NEW lfill \in Int, NEW rfill \in Int, rfill <= NoPairs
  PROVE  append_pairs(left, lfill, right, rfill) \in NodeOver(V)
<1>1. \A i \in lfill .. (lfill + rfill - 1) : i - lfill \in Slot
  BY NoPairsAssumption DEF Slot
<1> QED
  BY <1>1 DEF append_pairs, NodeOver

(* A split hands the Half largest pairs of a node to the new node and      *)
(* keeps the others, in their order: nothing is lost and nothing doubled.  *)
LEMMA SplitKeepsPairs ==
  ASSUME NEW V, NEW n \in NodeOver(V), NEW new \in NodeOver(V)
  PROVE  /\ \A i \in 0 .. (Half - 1) : upper_half(n, new)[i] = n[i]
         /\ \A i \in Half .. (NoPairs - 1) : lower_half(n)[i - Half] = n[i]
         /\ \A i \in (NoPairs - Half) .. (NoPairs - 1) : lower_half(n)[i] = Empty
<1>1. Half \in Nat /\ Half <= NoPairs
  BY NoPairsAssumption DEF Half
<1>2. \A i \in 0 .. (Half - 1) : upper_half(n, new)[i] = n[i]
  BY <1>1, NoPairsAssumption DEF upper_half, Slot
<1>3. \A i \in Half .. (NoPairs - 1) : lower_half(n)[i - Half] = n[i]
  BY <1>1, NoPairsAssumption DEF lower_half, Slot
<1>4. \A i \in (NoPairs - Half) .. (NoPairs - 1) : lower_half(n)[i] = Empty
  BY <1>1, NoPairsAssumption DEF lower_half, Slot
<1> QED
  BY <1>2, <1>3, <1>4

(* An ordered node is ordered again after insert_pair at the place and the *)
(* fill that cbtree_insert_level computes, if the key was not there.       *)
THEOREM InsertKeepsOrder ==
  ASSUME NEW V, NEW n \in NodeOver(V), Ordered(n), NEW key \in Long, NEW val \in V,
         NEW pos, pos = getpos(n, key),
         NEW fill, fill = getfill(n, pos), fill # NoPairs,
         val # NULL, pos < fill => n[pos].k # key
  PROVE  Ordered(insert_pair(n, pos, fill, key, val))
<1> DEFINE m == insert_pair(n, pos, fill, key, val)
<1>1. pos \in Slot /\ fill \in Slot /\ pos <= fill
  <2>1. pos \in 0 .. NoPairs
    BY getposFinds
  <2>2. fill \in pos .. NoPairs
    BY <2>1, getfillFinds
  <2> QED
    BY <2>1, <2>2, NoPairsAssumption DEF Slot
<1>2. n[fill].v = NULL /\ \A k \in Slot : pos <= k /\ k < fill => n[k].v # NULL
  <2>1. pos \in 0 .. NoPairs
    BY <1>1, NoPairsAssumption DEF Slot
  <2> QED
    BY <2>1, getfillFinds
<1>3. n[pos].k <= key /\ \A k \in Slot : k < pos => n[k].k > key
  <2>1. pos # NoPairs
    BY <1>1, NoPairsAssumption DEF Slot
  <2> QED
    BY <2>1, getposFinds
<1>4. /\ key \in Nat /\ pos \in Nat /\ fill \in Nat
      /\ \A k \in Slot : k \in Nat /\ n[k].k \in Nat
  BY <1>1 DEF Long, Slot, NodeOver
<1>5. \A k \in Slot : k < fill => n[k].v # NULL
  BY <1>2, <1>3, <1>4 DEF Ordered
<1>6. \A k \in Slot : k > fill => n[k].v = NULL
  BY <1>1, <1>2 DEF Ordered
<1>7. \A k \in Slot : m[k] = IF k = pos THEN [k |-> key, v |-> val]
                             ELSE IF pos < k /\ k <= fill THEN n[k - 1] ELSE n[k]
  BY <1>4 DEF insert_pair
<1>8. \A k \in Slot : k > pos => k - 1 \in Slot
  BY <1>4, NoPairsAssumption DEF Slot
<1> HIDE DEF m
<1>9. \A i \in Slot : m[i].v = NULL => m[i].k = 0
  BY <1>1, <1>4, <1>7, <1>8 DEF Ordered
<1>10. ASSUME NEW i \in Slot, NEW j \in Slot, i < j, m[j].v # NULL
       PROVE  m[i].v # NULL /\ m[i].k > m[j].k
  <2>1. j <= fill
    <3>1. CASE j > fill
      <4>1. j # pos /\ ~ (pos < j /\ j <= fill)
        BY <1>1, <1>4, <3>1
      <4>2. m[j] = n[j] /\ n[j].v = NULL
        BY <1>6, <1>7, <3>1, <4>1
      <4> QED
        BY <1>10, <4>2
    <3> QED
      BY <1>4, <3>1
  <2>2. CASE j < pos
    BY <1>4, <1>7, <1>10, <2>2 DEF Ordered
  <2>3. CASE j = pos
    BY <1>3, <1>4, <1>5, <1>7, <1>10, <2>1, <2>3
  <2>4. CASE j > pos
    <3>1. m[j] = n[j - 1] /\ j - 1 \in Slot /\ n[j - 1].v # NULL /\ pos <= j - 1
      BY <1>4, <1>7, <1>8, <1>10, <2>1, <2>4
    <3>2. CASE i < pos
      BY <1>4, <1>7, <1>10, <3>1, <3>2 DEF Ordered
    <3>3. CASE i = pos
      <4>1. n[pos].k < key
        <5>1. pos < fill /\ n[pos].k # key
          BY <1>1, <1>4, <2>1, <2>4
        <5> QED
          BY <1>1, <1>3, <1>4, <5>1
      <4>2. n[j - 1].k <= n[pos].k
        BY <1>1, <1>4, <3>1 DEF Ordered
      <4>3. m[i].k = key /\ m[i].v # NULL
        BY <1>7, <3>3
      <4>4. key > n[j - 1].k
        <5>1. key \in Nat /\ n[pos].k \in Nat /\ n[j - 1].k \in Nat
          BY <1>1, <1>4, <3>1
        <5> QED
          BY <4>1, <4>2, <5>1
      <4> QED
        BY <3>1, <4>3, <4>4
    <3>4. CASE i > pos
      BY <1>4, <1>7, <1>8, <1>10, <2>1, <3>1, <3>4 DEF Ordered
    <3> QED
      BY <1>4, <3>2, <3>3, <3>4
  <2> QED
    BY <1>4, <2>2, <2>3, <2>4
<1> QED
  BY <1>9, <1>10 DEF Ordered, m

(* An ordered node is ordered again after remove_pair of a used slot.      *)
THEOREM RemoveKeepsOrder ==
  ASSUME NEW V, NEW n \in NodeOver(V), Ordered(n), NEW pos \in Slot, n[pos].v # NULL
  PROVE  Ordered(remove_pair(n, pos, getfill(n, pos)))
<1> DEFINE fill == getfill(n, pos)
           m == remove_pair(n, pos, fill)
<1>1. pos \in 0 .. NoPairs /\ NoPairs \in Nat
  BY NoPairsAssumption DEF Slot
<1>2. /\ fill \in pos .. NoPairs
      /\ fill # NoPairs => n[fill].v = NULL
      /\ \A j \in Slot : pos <= j /\ j < fill => n[j].v # NULL
  BY <1>1, getfillFinds
<1> HIDE DEF fill
<1>3. fill # pos
  BY <1>1, <1>2 DEF Slot
<1>4. \A k \in Slot : k \in Nat /\ k < NoPairs /\ n[k].k \in Nat
  BY <1>1 DEF Slot, NodeOver, Long
<1>5. \A k \in Slot : k >= fill => n[k].v = NULL
  <2> SUFFICES ASSUME NEW k \in Slot, k >= fill, n[k].v # NULL
               PROVE  FALSE
    OBVIOUS
  <2>1. fill \in Slot
    BY <1>1, <1>2, <1>4 DEF Slot
  <2> QED
    BY <1>1, <1>2, <1>4, <2>1 DEF Ordered
<1>6. \A k \in Slot : m[k] = IF k = fill - 1 THEN Empty
                             ELSE IF pos <= k /\ k < fill THEN n[k + 1] ELSE n[k]
  BY <1>1, <1>2, <1>3, <1>4 DEF remove_pair
<1>7. \A k \in Slot : k < fill - 1 => k + 1 \in Slot
  BY <1>1, <1>2 DEF Slot
<1> HIDE DEF m
<1>8. \A i \in Slot : m[i].v = NULL => m[i].k = 0
  BY <1>1, <1>2, <1>4, <1>6, <1>7 DEF Ordered, Empty
<1>9. ASSUME NEW i \in Slot, NEW j \in Slot, i < j, m[j].v # NULL
      PROVE  m[i].v # NULL /\ m[i].k > m[j].k
  <2>1. j < fill - 1
    <3>1. j # fill - 1
      BY <1>6, <1>9 DEF Empty
    <3>2. CASE j >= fill
      BY <1>1, <1>2, <1>4, <1>5, <1>6, <1>9, <3>1, <3>2
    <3> QED
      BY <1>1, <1>2, <1>4, <3>1, <3>2
  <2>2. CASE j < pos
    <3>1. m[j] = n[j] /\ m[i] = n[i]
      BY <1>1, <1>2, <1>4, <1>6, <1>9, <2>1, <2>2
    <3> QED
      BY <1>9, <3>1 DEF Ordered
  <2>3. CASE j >= pos
    <3>1. j + 1 \in Slot /\ m[j] = n[j + 1]
      <4>1. pos <= j /\ j < fill /\ j # fill - 1
        BY <1>1, <1>2, <1>4, <2>1, <2>3
      <4> QED
        BY <1>6, <1>7, <2>1, <4>1
    <3>2. CASE i < pos
      <4>1. m[i] = n[i]
        <5>1. i # fill - 1 /\ ~ (pos <= i)
          BY <1>1, <1>2, <1>4, <1>9, <2>1, <3>2
        <5> QED
          BY <1>6, <5>1
      <4>2. i < j + 1
        BY <1>4, <1>9
      <4> QED
        BY <1>9, <3>1, <4>1, <4>2 DEF Ordered
    <3>3. CASE i >= pos
      <4>1. i + 1 \in Slot /\ m[i] = n[i + 1]
        <5>1. pos <= i /\ i < fill /\ i # fill - 1 /\ i < fill - 1
          BY <1>1, <1>2, <1>4, <1>9, <2>1, <3>3
        <5> QED
          BY <1>6, <1>7, <5>1
      <4>2. i + 1 < j + 1
        BY <1>4, <1>9
      <4> QED
        BY <1>9, <3>1, <4>1, <4>2 DEF Ordered
    <3> QED
      BY <1>1, <1>4, <3>2, <3>3
  <2> QED
    BY <1>1, <1>4, <2>2, <2>3
<1> QED
  BY <1>8, <1>9 DEF Ordered, m, fill

(* The pairs that a node stores.                                           *)
PairsOf(n) == {n[i] : i \in {i \in Slot : n[i].v # NULL}}

(* cbtree_insert_level's shift adds its pair to a node that is not full,   *)
(* and loses none of those that were there.                                *)
THEOREM InsertAddsPair ==
  ASSUME NEW V, NEW n \in NodeOver(V), NEW key \in Long, NEW val \in V, val # NULL,
         NEW pos \in Slot, NEW fill, fill = getfill(n, pos), fill # NoPairs
  PROVE  PairsOf(insert_pair(n, pos, fill, key, val)) = PairsOf(n) \cup {[k |-> key, v |-> val]}
<1> DEFINE m == insert_pair(n, pos, fill, key, val)
           new == [k |-> key, v |-> val]
<1>1. pos \in 0 .. NoPairs /\ NoPairs \in Nat /\ \A k \in Slot : k \in Nat /\ k < NoPairs
  BY NoPairsAssumption DEF Slot
<1>2. fill \in Slot /\ pos <= fill /\ n[fill].v = NULL
  <2>1. fill \in pos .. NoPairs /\ n[fill].v = NULL
    BY <1>1, getfillFinds
  <2> QED
    BY <1>1, <2>1 DEF Slot
<1>3. \A k \in Slot : m[k] = IF k = pos THEN new
                             ELSE IF pos < k /\ k <= fill THEN n[k - 1] ELSE n[k]
  <2>1. \A k \in Slot : k \in (pos + 1) .. fill <=> pos < k /\ k <= fill
    <3>1. pos \in Nat /\ fill \in Nat
      BY <1>1, <1>2
    <3> QED
      BY <1>1, <3>1
  <2> QED
    BY <2>1 DEF insert_pair
<1>4. new.v # NULL
  OBVIOUS
<1> HIDE DEF m, new
<1>5. ASSUME NEW i \in Slot, m[i].v # NULL
      PROVE  m[i] \in PairsOf(n) \cup {new}
  <2>1. i > pos => i - 1 \in Slot
    BY <1>1 DEF Slot
  <2> QED
    BY <1>1, <1>3, <1>5, <2>1 DEF PairsOf
<1>6. ASSUME NEW i \in Slot, n[i].v # NULL
      PROVE  n[i] \in PairsOf(m)
  <2>1. CASE i < pos \/ fill < i
    <3>1. m[i] = n[i]
      BY <1>1, <1>2, <1>3, <2>1
    <3> QED
      BY <1>6, <3>1 DEF PairsOf
  <2>2. CASE pos <= i /\ i < fill
    <3>1. i + 1 \in Slot
      BY <1>1, <1>2, <2>2 DEF Slot
    <3>2. m[i + 1] = n[i]
      BY <1>1, <1>2, <1>3, <2>2, <3>1
    <3> QED
      BY <1>6, <3>1, <3>2 DEF PairsOf
  <2> QED
    BY <1>1, <1>2, <1>6, <2>1, <2>2
<1>7. new \in PairsOf(m)
  BY <1>3, <1>4 DEF PairsOf
<1> QED
  BY <1>5, <1>6, <1>7 DEF PairsOf, m, new

(* cbtree_remove_level's shift takes exactly the pair of its slot out of   *)
(* an ordered node.                                                        *)
THEOREM RemoveTakesPair ==
  ASSUME NEW V, NEW n \in NodeOver(V), Ordered(n), NEW pos \in Slot, n[pos].v # NULL
  PROVE  PairsOf(remove_pair(n, pos, getfill(n, pos))) = PairsOf(n) \ {n[pos]}
<1> DEFINE fill == getfill(n, pos)
           m == remove_pair(n, pos, fill)
<1>1. pos \in 0 .. NoPairs /\ NoPairs \in Nat
  BY NoPairsAssumption DEF Slot
<1>2. /\ fill \in pos .. NoPairs
      /\ fill # NoPairs => n[fill].v = NULL
  BY <1>1, getfillFinds
<1> HIDE DEF fill
<1>3. \A k \in Slot : k \in Nat /\ k < NoPairs /\ n[k].k \in Nat
  BY <1>1 DEF Slot, NodeOver, Long
<1>4. pos < fill
  BY <1>1, <1>2, <1>3
<1>5. \A k \in Slot : k >= fill => n[k].v = NULL
  <2> SUFFICES ASSUME NEW k \in Slot, k >= fill, n[k].v # NULL
               PROVE  FALSE
    OBVIOUS
  <2>1. fill \in Slot
    BY <1>1, <1>2, <1>3 DEF Slot
  <2> QED
    BY <1>1, <1>2, <1>3, <2>1 DEF Ordered
<1>6. \A k \in Slot : m[k] = IF k = fill - 1 THEN Empty
                             ELSE IF pos <= k /\ k < fill THEN n[k + 1] ELSE n[k]
  BY <1>1, <1>2, <1>3, <1>4 DEF remove_pair
<1> HIDE DEF m
<1>7. \A k \in Slot : k # pos /\ n[k].v # NULL => n[k] # n[pos]
  <2> SUFFICES ASSUME NEW k \in Slot, k # pos, n[k].v # NULL
               PROVE  n[k].k # n[pos].k
    OBVIOUS
  <2> QED
    BY <1>3 DEF Ordered
<1>8. ASSUME NEW i \in Slot, m[i].v # NULL
      PROVE  m[i] \in PairsOf(n) \ {n[pos]}
  <2>1. i # fill - 1
    BY <1>6, <1>8 DEF Empty
  <2>2. CASE pos <= i /\ i < fill
    <3>1. i + 1 \in Slot /\ i + 1 # pos
      BY <1>1, <1>2, <1>3, <2>1, <2>2 DEF Slot
    <3>2. m[i] = n[i + 1]
      BY <1>6, <2>1, <2>2
    <3> QED
      BY <1>7, <1>8, <3>1, <3>2 DEF PairsOf
  <2>3. CASE ~ (pos <= i /\ i < fill)
    <3>1. m[i] = n[i] /\ i # pos
      BY <1>1, <1>2, <1>3, <1>4, <1>6, <2>1, <2>3
    <3> QED
      BY <1>7, <1>8, <3>1 DEF PairsOf
  <2> QED
    BY <2>2, <2>3
<1>9. ASSUME NEW i \in Slot, n[i].v # NULL, i # pos
      PROVE  n[i] \in PairsOf(m)
  <2>1. i < fill
    BY <1>1, <1>2, <1>3, <1>5, <1>9
  <2>2. CASE i < pos
    <3>1. m[i] = n[i]
      BY <1>1, <1>2, <1>3, <1>4, <1>6, <2>2
    <3> QED
      BY <1>9, <3>1 DEF PairsOf
  <2>3. CASE i > pos
    <3>1. i - 1 \in Slot
      BY <1>1, <1>3, <2>3 DEF Slot
    <3>2. m[i - 1] = n[i]
      BY <1>1, <1>2, <1>3, <1>6, <2>1, <2>3, <3>1
    <3> QED
      BY <1>9, <3>1, <3>2 DEF PairsOf
  <2> QED
    BY <1>1, <1>3, <1>9, <2>2, <2>3
<1> QED
  BY <1>8, <1>9 DEF PairsOf, m, fill

=============================================================================
