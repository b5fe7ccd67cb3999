----------------------------- MODULE CBTreeGeo -----------------------------
(***************************************************************************)
(* The layout of a node in memory: an array of longs, where a geometry     *)
(* says which hold keys and which hold values, and where the cache keeps   *)
(* the pointer to its queue, the count and the deleted mark.  CBTreeNode's *)
(* view of a node, a function from slots to pairs with the cache's words   *)
(* apart, is right as long as no two of these fields share a long.         *)
(***************************************************************************)
EXTENDS Integers

CONSTANTS
  L1_CACHE_BYTES,
  LongBytes,  \* sizeof(long)
  KeyLen,     \* longs of a key: 1 for cbtree_geo32; LONG_PER_U64 and twice that
              \* for cbtree_geo64 and cbtree_geo128
  Touched     \* the slots that the operations below work on

ASSUME LayoutAssumption == L1_CACHE_BYTES \in Nat /\ LongBytes \in Nat /\ LongBytes >= 4
ASSUME KeyLenAssumption == KeyLen \in Nat \ {0}

NODESIZE == IF L1_CACHE_BYTES > 128 THEN L1_CACHE_BYTES ELSE 128

(* CACHE_LENTH counts longs, and is subtracted from bytes.                 *)
CACHE_LENTH == 3

(* The three geometries differ in the length of the key alone.             *)
no_pairs_keys_only == ((NODESIZE - CACHE_LENTH) \div LongBytes) \div KeyLen
no_pairs == ((NODESIZE - CACHE_LENTH) \div LongBytes) \div (1 + KeyLen)
no_longs == KeyLen * no_pairs

GeoSlot == 0 .. (no_pairs - 1)
ASSUME TouchedAssumption == Touched \subseteq GeoSlot

(* Where key and value of slot n are, and the cache's first word.          *)
bkey(n) == n * KeyLen
bval_unscaled(n) == no_pairs + n
bval(n) == no_longs + n
arr_len == KeyLen * no_pairs + no_longs

KeyWords(n) == bkey(n) .. (bkey(n) + KeyLen - 1)

(* The longs of the node itself, and those that the code reaches.          *)
InNode == 0 .. ((NODESIZE \div LongBytes) - 1)
Reached == 0 .. (arr_len + 2)

VARIABLES
  words,  \* the longs of the node and the memory after it
  at      \* the longs the last operation read or wrote

vars == <<words, at>>

Put(S, v) == words' = [w \in Reached |-> IF w \in S THEN v ELSE words[w]] /\ at' = S

setkey(n, v) == Put(KeyWords(n), v)
setval(n, v) == Put({bval(n)}, v)
clearpair(n) == Put(KeyWords(n) \cup {bval(n)}, 0)

(* The words after the pairs: initQueue stores the pointer, setcache       *)
(* counts, merge marks, and findNode looks for the mark.                   *)
initQueue == Put({arr_len}, 1)
count_up == Put({arr_len + 1}, 1)
mark_deleted == Put({arr_len + 2}, 1)
read_deleted == words' = words /\ at' = {arr_len + 2}

(* A node comes out of the memset of cbtree_node_alloc.                    *)
Init == words = [w \in Reached |-> 0] /\ at = {}

Next ==
  \/ \E n \in Touched, v \in {0, 1} : setkey(n, v) \/ setval(n, v)
  \/ \E n \in Touched : clearpair(n)
  \/ initQueue \/ count_up \/ mark_deleted \/ read_deleted

Spec == Init /\ [][Next]_vars

-----------------------------------------------------------------------------
Field == GeoSlot \cup {-1, -2, -3}

(* The longs of a field: a slot's pair, or one of the cache's three words. *)
WordsOf(f) == IF f \in GeoSlot THEN KeyWords(f) \cup {bval(f)} ELSE {arr_len - f - 1}
View(f) == [w \in WordsOf(f) |-> words[w]]

(* Whatever the geometry, an operation changes one field of the node at    *)
(* most: bkey, bval and the cache's words never share a long.              *)
WritesApart == [][\E f \in Field : \A g \in Field \ {f} : View(g)' = View(g)]_vars

(* The pairs stay inside the node, however long the keys are: only the     *)
(* cache's words, for which CACHE_LENTH reserves too little, may lie past  *)
(* its end.                                                                *)
PairsInside == \A w \in at : w \in InNode \/ w >= arr_len

=============================================================================
