----------------------------- MODULE CBTreeNode -----------------------------
(***************************************************************************)
(* One node of the cached B+tree of cbtree_base.c, and the loops over its  *)
(* slots.                                                                  *)
(*                                                                         *)
(* A node is an array of unsigned longs holding no_pairs keys and no_pairs *)
(* pointers.  Here it is a function from Slot to pairs [k, v].  Keys are   *)
(* one long wide (cbtree_geo32, and cbtree_geo64 on a 64-bit machine).     *)
(* Keys descend from slot 0; an unused slot holds key 0 and pointer NULL,  *)
(* which is what memset and clearpair leave, so an unused slot and a slot  *)
(* with key 0 compare equal to key 0, as they do in the code.              *)
(*                                                                         *)
(* A definition whose name is another one's with a suffix, such as         *)
(* getpos_strict, is a plausible mistake in that code.  Nothing uses it:   *)
(* put in the other's place, it breaks the property it is named with in    *)
(* PROJECT.json.                                                           *)
(***************************************************************************)
EXTENDS Integers

CONSTANTS
  NoPairs,  \* geo->no_pairs, slots of a node (7 for cbtree_geo32 on 64 bits)
  MaxLong,  \* the largest unsigned long, ULONG_MAX
  NULL      \* the null pointer

(* Below 4 pairs no_pairs / 2 is 1: merge() is never reached and the root  *)
(* never shrinks, which is no geometry the library defines.                *)
ASSUME NoPairsAssumption == NoPairs \in Nat /\ NoPairs >= 4
ASSUME MaxLongAssumption == MaxLong \in Nat \ {0}

Long == 0 .. MaxLong
Slot == 0 .. (NoPairs - 1)

Inc(w) == IF w = MaxLong THEN 0 ELSE w + 1
Dec_unwrapped(w) == w - 1
Dec(w) == IF w = 0 THEN MaxLong ELSE w - 1

Half == NoPairs \div 2

(* The slot that ends the half which a split moves to the new node.        *)
SplitSlot_next == Half
SplitSlot == Half - 1

Empty == [k |-> 0, v |-> NULL]
EmptyNode == [i \in Slot |-> Empty]

(* Where a loop over the slots breaks when S are the slots that satisfy    *)
(* its test: the first of them, or no_pairs.                               *)
First(S) == CHOOSE i \in S \cup {NoPairs} : \A j \in S : i <= j

(* The first slot whose key is <= key; empty slots count, their key is 0.  *)
getpos_strict(n, key) == First({i \in Slot : n[i].k < key})
getpos(n, key) == First({i \in Slot : n[i].k <= key})

(* The first slot from start on without a pointer.                         *)
getfill(n, start) == First({i \in Slot : i >= start /\ n[i].v = NULL})

(* The slots a scan for exactly this key stops at.                         *)
matches(n, key) == {i \in Slot : n[i].k = key}

(* Open slot pos by moving pos..fill-1 one to the right, and fill it.      *)
insert_pair(n, pos, fill, key, val) ==
  [i \in Slot |-> IF i = pos THEN [k |-> key, v |-> val]
                  ELSE IF i \in (pos + 1) .. fill THEN n[i - 1] ELSE n[i]]

(* Close slot pos by moving pos+1..fill-1 one to the left; slot fill-1 is  *)
(* cleared even when there was nothing to move.  With fill 0 that is slot  *)
(* -1: a long before the node, which is not modelled, and the last key.    *)
remove_pair_uncleared(n, pos, fill) ==
  [i \in Slot |-> IF i \in pos .. (fill - 2) THEN n[i + 1] ELSE n[i]]
remove_pair(n, pos, fill) ==
  [i \in Slot |-> IF i = fill - 1 THEN Empty
                  ELSE IF i \in pos .. (fill - 2) THEN n[i + 1]
                  ELSE IF fill = 0 /\ i = NoPairs - 1 THEN [n[i] EXCEPT !.k = 0] ELSE n[i]]

(* The two halves of a full node: the larger keys go to the new node, the  *)
(* smaller ones, one more of them when no_pairs is odd, stay.              *)
upper_half(n, new) == [i \in Slot |-> IF i < Half THEN n[i] ELSE new[i]]
lower_half_even(n) == [i \in Slot |-> IF i < Half THEN n[i + Half] ELSE Empty]
lower_half(n) == [i \in Slot |-> IF i + Half < NoPairs THEN n[i + Half] ELSE Empty]

(* left with the first rfill pairs of right stored from slot lfill on.     *)
append_pairs_gap(left, lfill, right, rfill) ==
  [i \in Slot |-> IF i \in (lfill + 1) .. (lfill + rfill) THEN right[i - lfill - 1] ELSE left[i]]
append_pairs(left, lfill, right, rfill) ==
  [i \in Slot |-> IF i \in lfill .. (lfill + rfill - 1) THEN right[i - lfill] ELSE left[i]]

(* Used slots are on the left, unused ones contain NUL, keys descend.      *)
Ordered(n) ==
  /\ \A i \in Slot : n[i].v = NULL => n[i].k = 0
  /\ \A i \in Slot, j \in Slot :
       i < j /\ n[j].v # NULL => n[i].v # NULL /\ n[i].k > n[j].k

=============================================================================
