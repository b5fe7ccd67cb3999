--------------------------- MODULE CBTreeGeoProofs ---------------------------
(***************************************************************************)
(* The layout of a node, for every size of a cache line, of a long and of  *)
(* a key.                                                                  *)
(***************************************************************************)
EXTENDS CBTreeGeo, TLAPS

LEMMA Sizes == NODESIZE \in Nat /\ no_pairs \in Int /\ no_longs \in Int /\ arr_len \in Int
<1>1. NODESIZE \in Nat /\ NODESIZE >= 128
  BY LayoutAssumption DEF NODESIZE
<1>2. (NODESIZE - CACHE_LENTH) \div LongBytes \in Int
  BY <1>1, LayoutAssumption DEF CACHE_LENTH
<1>3. no_pairs \in Int
  BY <1>2, KeyLenAssumption DEF no_pairs
<1> QED
  BY <1>1, <1>3, KeyLenAssumption DEF no_longs, arr_len

(* A step of n keys is monotonic, and n keys are n longs at least.         *)
LEMMA Times ==
  ASSUME NEW m \in Int, NEW n \in Int, m <= n
  PROVE  /\ m * KeyLen \in Int /\ n * KeyLen \in Int
         /\ m * KeyLen <= n * KeyLen
         /\ (m + 1) * KeyLen = m * KeyLen + KeyLen
         /\ 0 <= n => n <= n * KeyLen
<1>1. KeyLen \in Int /\ KeyLen >= 1
  BY KeyLenAssumption
<1>2. \A a \in Nat, b \in Nat : a * b \in Nat
  OBVIOUS
<1>3. (n - m) * KeyLen \in Nat /\ (n - m) * KeyLen = n * KeyLen - m * KeyLen
  BY <1>1, <1>2
<1>4. 0 <= n => n * (KeyLen - 1) \in Nat /\ n * (KeyLen - 1) = n * KeyLen - n
  BY <1>1, <1>2
<1> QED
  BY <1>1, <1>3, <1>4

(* The keys come first, then the values, then the cache.                   *)
LEMMA Order ==
  ASSUME NEW n \in GeoSlot
  PROVE  /\ KeyWords(n) \subseteq 0 .. (no_longs - 1)
         /\ bval(n) \in no_longs .. (arr_len - 1)
         /\ arr_len \in Int /\ no_longs \in Int
<1>1. n \in Int /\ 0 <= n /\ n + 1 <= no_pairs /\ no_pairs \in Int /\ KeyLen \in Int
  BY Sizes, KeyLenAssumption DEF GeoSlot
<1>2. 0 <= n * KeyLen /\ n * KeyLen + KeyLen <= no_pairs * KeyLen
      /\ no_pairs <= no_pairs * KeyLen /\ n * KeyLen \in Int
  <2>1. (n + 1) * KeyLen <= no_pairs * KeyLen /\ no_pairs <= no_pairs * KeyLen
    BY <1>1, Times
  <2>2. (n + 1) * KeyLen = n * KeyLen + KeyLen /\ n <= n * KeyLen /\ n * KeyLen \in Int
    BY <1>1, Times
  <2> QED
    BY <1>1, <2>1, <2>2
<1>3. no_longs = no_pairs * KeyLen /\ arr_len = no_longs + no_longs /\ no_longs \in Int
  BY <1>1, Sizes DEF no_longs, arr_len
<1> QED
  BY <1>1, <1>2, <1>3 DEF KeyWords, bkey, bval

(* No two fields share a long.                                             *)
LEMMA FieldsDisjoint ==
  ASSUME NEW f \in Field, NEW g \in Field, f # g
  PROVE  WordsOf(f) \cap WordsOf(g) = {}
<1>1. \A n \in GeoSlot : n \in Int /\ 0 <= n
  BY Sizes DEF GeoSlot
<1>2. \A n \in GeoSlot : WordsOf(n) = KeyWords(n) \cup {bval(n)}
  BY DEF WordsOf
<1>3. \A c \in {-1, -2, -3} : WordsOf(c) = {arr_len - c - 1}
  BY <1>1 DEF WordsOf
<1>4. \A n \in GeoSlot, m \in GeoSlot : n < m => WordsOf(n) \cap WordsOf(m) = {}
  <2> SUFFICES ASSUME NEW n \in GeoSlot, NEW m \in GeoSlot, n < m
               PROVE  WordsOf(n) \cap WordsOf(m) = {}
    OBVIOUS
  <2>1. n \in Int /\ m \in Int /\ n + 1 <= m /\ KeyLen \in Int
    BY <1>1, KeyLenAssumption
  <2>2. n * KeyLen + KeyLen <= m * KeyLen /\ n * KeyLen \in Int /\ m * KeyLen \in Int
    <3>1. (n + 1) * KeyLen <= m * KeyLen /\ (n + 1) * KeyLen = n * KeyLen + KeyLen
      BY <2>1, Times
    <3> QED
      BY <2>1, <3>1, Times
  <2>3. KeyWords(n) \cap KeyWords(m) = {}
    BY <2>1, <2>2 DEF KeyWords, bkey
  <2>4. bval(n) # bval(m)
    BY <2>1, Sizes DEF bval
  <2>5. bval(n) \notin KeyWords(m) /\ bval(m) \notin KeyWords(n)
    BY Order
  <2> QED
    BY <1>2, <2>3, <2>4, <2>5
<1>5. \A n \in GeoSlot, c \in {-1, -2, -3} : WordsOf(n) \cap WordsOf(c) = {}
  <2> SUFFICES ASSUME NEW n \in GeoSlot, NEW c \in {-1, -2, -3}
               PROVE  arr_len - c - 1 \notin KeyWords(n) \cup {bval(n)}
    BY <1>2, <1>3
  <2>1. KeyWords(n) \subseteq 0 .. (no_longs - 1) /\ bval(n) \in no_longs .. (arr_len - 1)
    BY Order
  <2>2. arr_len \in Int /\ no_longs \in Int /\ no_longs <= arr_len
    BY Order
  <2> QED
    BY <2>1, <2>2
<1>6. \A c \in {-1, -2, -3}, d \in {-1, -2, -3} : c # d => WordsOf(c) \cap WordsOf(d) = {}
  BY <1>3, Sizes
<1> QED
  BY <1>1, <1>4, <1>5, <1>6 DEF Field

(* A write to some of a field's longs leaves every other field as it was.  *)
LEMMA PutApart ==
  ASSUME NEW f \in Field, NEW S, S \subseteq WordsOf(f), NEW v, Put(S, v)
  PROVE  \E e \in Field : \A g \in Field \ {e} : View(g)' = View(g)
<1> SUFFICES ASSUME NEW g \in Field \ {f}
             PROVE  View(g)' = View(g)
  OBVIOUS
<1>1. WordsOf(g) \subseteq Reached
  <2>1. CASE g \in GeoSlot
    <3>1. KeyWords(g) \subseteq 0 .. (no_longs - 1) /\ bval(g) \in no_longs .. (arr_len - 1)
      BY <2>1, Order
    <3>2. arr_len \in Int /\ no_longs \in Int /\ 0 <= no_longs /\ no_longs <= arr_len
      <4>1. 0 <= g /\ g + 1 <= no_pairs /\ no_pairs \in Int /\ g \in Int
        BY <2>1, Sizes DEF GeoSlot
      <4>2. no_pairs <= no_pairs * KeyLen /\ no_pairs * KeyLen \in Int
        BY <4>1, Times
      <4> QED
        BY <4>1, <4>2, KeyLenAssumption DEF arr_len, no_longs
    <3> QED
      BY <2>1, <3>1, <3>2 DEF WordsOf, Reached
  <2>2. CASE g \notin GeoSlot
    <3>1. 0 <= arr_len
      <4>1. no_pairs \in Nat
        <5>1. NODESIZE - CACHE_LENTH \in Nat
          BY LayoutAssumption DEF NODESIZE, CACHE_LENTH
        <5>2. (NODESIZE - CACHE_LENTH) \div LongBytes \in Nat
          BY <5>1, LayoutAssumption
        <5> QED
          BY <5>2, KeyLenAssumption DEF no_pairs
      <4>2. 0 <= no_pairs * KeyLen
        BY <4>1, Times
      <4> QED
        BY <4>1, <4>2, KeyLenAssumption DEF arr_len, no_longs
    <3> QED
      BY <2>2, <3>1, Sizes DEF WordsOf, Reached, Field
  <2> QED
    BY <2>1, <2>2
<1>2. WordsOf(g) \cap S = {}
  BY FieldsDisjoint
<1>3. \A w \in WordsOf(g) : words'[w] = words[w]
  BY <1>1, <1>2 DEF Put
<1> QED
  BY <1>3 DEF View, WordsOf, KeyWords, bkey, bval, arr_len, no_longs, no_pairs, NODESIZE,
              GeoSlot

(* For every geometry, an operation changes one field of a node at most.   *)
THEOREM FieldsApart == Spec => WritesApart
<1>1. ASSUME [Next]_vars
      PROVE  [\E f \in Field : \A g \in Field \ {f} : View(g)' = View(g)]_vars
  <2> SUFFICES ASSUME Next
               PROVE  \E f \in Field : \A g \in Field \ {f} : View(g)' = View(g)
    BY <1>1
  <2>1. CASE \E n \in Touched, v \in {0, 1} : setkey(n, v) \/ setval(n, v)
    BY <2>1, PutApart, TouchedAssumption DEF setkey, setval, Field, WordsOf
  <2>2. CASE \E n \in Touched : clearpair(n)
    BY <2>2, PutApart, TouchedAssumption DEF clearpair, Field, WordsOf
  <2>3. -1 \in Field /\ -2 \in Field /\ -3 \in Field /\ WordsOf(-1) = {arr_len}
        /\ WordsOf(-2) = {arr_len + 1} /\ WordsOf(-3) = {arr_len + 2}
    BY Sizes DEF Field, WordsOf, GeoSlot
  <2>4. CASE initQueue
    BY <2>3, <2>4, PutApart DEF initQueue
  <2>5. CASE count_up
    BY <2>3, <2>5, PutApart DEF count_up
  <2>6. CASE mark_deleted
    BY <2>3, <2>6, PutApart DEF mark_deleted
  <2>7. CASE read_deleted
    BY <2>3, <2>7 DEF read_deleted, View, WordsOf, KeyWords, bkey, bval, arr_len, no_longs,
                      no_pairs, NODESIZE, GeoSlot
  <2> QED
    BY <2>1, <2>2, <2>4, <2>5, <2>6, <2>7 DEF Next
<1> QED
  BY <1>1, PTL DEF Spec, WritesApart

(* cbtree_geo32: the queue and its count fit behind the pairs, but the     *)
(* deleted mark is the first long after the node, on every machine whose   *)
(* cache lines are an even number of longs.  It is where CBTreeCache reads *)
(* any value of PastEnd.                                                   *)
THEOREM DeletedMarkPastEnd ==
  ASSUME KeyLen = 1, NEW m \in Nat, NODESIZE = 2 * LongBytes * m
  PROVE  /\ arr_len + 1 \in InNode
         /\ arr_len + 2 = NODESIZE \div LongBytes
         /\ ~ (arr_len + 2 \in InNode)
<1>1. NODESIZE \in Nat /\ NODESIZE >= 128 /\ LongBytes \in Nat /\ LongBytes >= 4
  BY LayoutAssumption DEF NODESIZE
<1>2. m >= 1
  BY <1>1
<1>3. (NODESIZE - CACHE_LENTH) \div LongBytes = 2 * m - 1
  <2>1. NODESIZE - CACHE_LENTH = LongBytes * (2 * m - 1) + (LongBytes - 3)
    BY <1>1 DEF CACHE_LENTH
  <2>2. \A L \in Nat, q \in Nat, r \in Nat : r < L => (L * q + r) \div L = q
    OBVIOUS
  <2> QED
    BY <1>1, <1>2, <2>1, <2>2
<1>4. NODESIZE \div LongBytes = 2 * m
  <2>1. \A L \in Nat, q \in Nat : L > 0 => (L * q) \div L = q
    OBVIOUS
  <2>2. NODESIZE = LongBytes * (2 * m)
    BY <1>1
  <2> QED
    BY <1>1, <2>1, <2>2
<1>5. no_pairs = m - 1 /\ arr_len = 2 * m - 2
  <2>1. (2 * m - 1) \div 2 = m - 1
    BY <1>2
  <2>2. no_pairs = m - 1
    BY <1>3, <2>1 DEF no_pairs
  <2>3. arr_len = 1 * (m - 1) + 1 * (m - 1)
    BY <2>2 DEF arr_len, no_longs
  <2> QED
    BY <2>2, <2>3
<1> QED
  BY <1>2, <1>4, <1>5 DEF InNode

(* cbtree_geo128 on 64 bits: initQueue stores the queue outside the node,  *)
(* among the longs of a key of the node that is packed behind it.          *)
THEOREM QueueInNextKeys ==
  ASSUME KeyLen = 2, LongBytes = 8, L1_CACHE_BYTES <= 128
  PROVE  /\ ~ (arr_len \in InNode)
         /\ \E n \in GeoSlot : arr_len - (NODESIZE \div LongBytes) \in KeyWords(n)
<1>1. NODESIZE = 128
  BY LayoutAssumption DEF NODESIZE
<1>2. NODESIZE \div LongBytes = 16 /\ no_pairs = 5
  BY <1>1 DEF no_pairs, CACHE_LENTH
<1>3. arr_len = 20
  BY <1>2 DEF arr_len, no_longs
<1>4. 2 \in GeoSlot /\ KeyWords(2) = 4 .. 5
  BY <1>2 DEF GeoSlot, KeyWords, bkey
<1> QED
  BY <1>2, <1>3, <1>4 DEF InNode

-----------------------------------------------------------------------------
(* A slot's key and value end where no_pairs of them do, in the node.      *)
LEMMA PairsEnd ==
  ASSUME NEW n \in GeoSlot
  PROVE  KeyWords(n) \cup {bval(n)} \subseteq InNode
<1> DEFINE longs == (NODESIZE - CACHE_LENTH) \div LongBytes
<1>1. /\ NODESIZE \in Nat /\ NODESIZE >= 128 /\ LongBytes \in Nat /\ LongBytes >= 4
      /\ KeyLen \in Nat /\ KeyLen >= 1
  BY LayoutAssumption, KeyLenAssumption DEF NODESIZE
<1>2. longs \in Nat /\ longs <= NODESIZE \div LongBytes /\ NODESIZE \div LongBytes \in Nat
  <2>1. \A a \in Nat, b \in Nat, d \in Nat : d > 0 /\ a <= b =>
          a \div d \in Nat /\ b \div d \in Nat /\ a \div d <= b \div d
    <3> TAKE a \in Nat, b \in Nat, d \in Nat
    <3> HAVE d > 0 /\ a <= b
    <3>1. /\ a \div d \in Nat /\ b \div d \in Nat
          /\ d * (a \div d) <= a /\ b < d * (b \div d) + d
      OBVIOUS
    <3> DEFINE p == a \div d
               q == b \div d
    <3> HIDE DEF p, q
    <3>2. p \in Nat /\ q \in Nat /\ d * p <= a /\ b < d * q + d
      BY <3>1 DEF p, q
    <3>3. CASE p >= q + 1
      <4>1. d * p >= d * (q + 1) /\ d * (q + 1) = d * q + d
        BY <3>2, <3>3
      <4> QED
        BY <3>2, <4>1
    <3> QED
      BY <3>2, <3>3 DEF p, q
  <2> QED
    BY <1>1, <2>1 DEF CACHE_LENTH
<1> HIDE DEF longs
<1>3. no_pairs * (1 + KeyLen) <= longs /\ no_pairs \in Nat
  <2>1. \A a \in Nat, d \in Nat : d > 0 => (a \div d) * d <= a /\ a \div d \in Nat
    OBVIOUS
  <2> QED
    BY <1>1, <1>2, <2>1 DEF no_pairs, longs
<1>4. no_pairs * (1 + KeyLen) = no_longs + no_pairs /\ no_longs \in Nat
  BY <1>1, <1>3 DEF no_longs
<1>5. /\ KeyWords(n) \subseteq 0 .. (no_longs - 1)
      /\ bval(n) \in no_longs .. (no_longs + no_pairs - 1)
  <2>1. n \in 0 .. (no_pairs - 1)
    BY DEF GeoSlot
  <2> QED
    BY <1>3, <1>4, <2>1, Order DEF bval
<1> QED
  BY <1>2, <1>3, <1>4, <1>5 DEF InNode

(* PairsInside: no operation on a key or a value reaches past the end of   *)
(* the node, however long the keys are; what may lie there is the cache's. *)
THEOREM PairsStayInside == Spec => []PairsInside
<1>1. Init => PairsInside
  BY DEF Init, PairsInside
<1>2. PairsInside /\ [Next]_vars => PairsInside'
  <2> SUFFICES ASSUME PairsInside, [Next]_vars PROVE PairsInside'
    OBVIOUS
  <2>1. CASE \E n \in Touched, v \in {0, 1} : setkey(n, v) \/ setval(n, v)
    <3>1. PICK n \in Touched : at' = KeyWords(n) \/ at' = {bval(n)}
      BY <2>1 DEF setkey, setval, Put
    <3>2. at' \subseteq InNode
      BY <3>1, PairsEnd, TouchedAssumption
    <3> QED
      BY <3>2 DEF PairsInside
  <2>2. CASE \E n \in Touched : clearpair(n)
    <3>1. PICK n \in Touched : at' = KeyWords(n) \cup {bval(n)}
      BY <2>2 DEF clearpair, Put
    <3>2. at' \subseteq InNode
      BY <3>1, PairsEnd, TouchedAssumption
    <3> QED
      BY <3>2 DEF PairsInside
  <2>3. CASE initQueue \/ count_up \/ mark_deleted \/ read_deleted
    BY <2>3, Sizes DEF initQueue, count_up, mark_deleted, read_deleted, Put, PairsInside
  <2>4. CASE UNCHANGED vars
    BY <2>4 DEF vars, PairsInside
  <2> QED
    BY <2>1, <2>2, <2>3, <2>4 DEF Next
<1> QED
  BY <1>1, <1>2, PTL DEF Spec

=============================================================================
