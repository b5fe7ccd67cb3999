---------------------------- MODULE CBTreePairs ----------------------------
(***************************************************************************)
(* What the loops over a node's slots promise, for two sibling nodes of    *)
(* one level and a caller's key: each changes the pairs at one moment, by  *)
(* the operators of CBTreeNode.  CBTreeWords, where the same loops move    *)
(* one long at a time and a key has several, implements this.              *)
(***************************************************************************)
EXTENDS CBTreeNode, Sequences

CONSTANTS
  Addr,       \* the addresses of the two nodes
  Val,        \* the values that are stored
  ClientKeys  \* the keys that clients use

VARIABLES
  mem,  \* the pairs of each node
  row,  \* the nodes in use, the one with the greater keys first
  key,  \* the caller's key
  pos   \* the slot that the search just made ended at, or 0

vars == <<mem, row, key, pos>>

Used == {row[i] : i \in 1 .. Len(row)}
KeysIn(n) == {mem[n][i].k : i \in {i \in Slot : mem[n][i].v # NULL}}
Fill(n) == getfill(mem[n], 0)

(* A key belongs in a node when the keys of the nodes left of it are all   *)
(* greater, and those of the nodes right of it all smaller.                *)
Belongs(k, i) ==
  \A j \in 1 .. Len(row) : \A q \in KeysIn(row[j]) : (j < i => q > k) /\ (j > i => q < k)

Init ==
  /\ mem = [n \in Addr |-> EmptyNode]
  /\ \E n \in Addr : row = <<n>>
  /\ key \in ClientKeys
  /\ pos = 0

set_key == key' \in ClientKeys /\ pos' = 0 /\ UNCHANGED <<mem, row>>
dec_key == key' = Dec(key) /\ pos' = 0 /\ UNCHANGED <<mem, row>>

search(n) == pos' = getpos(mem[n], key) /\ UNCHANGED <<mem, row, key>>

insert(n, v) ==
  LET p == getpos(mem[n], key)
      fill == getfill(mem[n], p)
  IN /\ key \in ClientKeys /\ fill < NoPairs
     /\ \E i \in 1 .. Len(row) : row[i] = n /\ Belongs(key, i)
     /\ p \notin matches(mem[n], key)
     /\ mem' = [mem EXCEPT ![n] = insert_pair(@, p, fill, key, v)]
     /\ pos' = 0
     /\ UNCHANGED <<row, key>>

remove(n) ==
  LET p == getpos(mem[n], key)
  IN /\ key \in ClientKeys /\ p \in matches(mem[n], key)
     /\ mem' = [mem EXCEPT ![n] = remove_pair(@, p, getfill(mem[n], p))]
     /\ pos' = 0
     /\ UNCHANGED <<row, key>>

split(n, new) ==
  /\ row = <<n>> /\ Fill(n) = NoPairs
  /\ mem[new] = EmptyNode
  /\ mem' = [mem EXCEPT ![new] = upper_half(mem[n], @), ![n] = lower_half(@)]
  /\ row' = <<new, n>>
  /\ pos' = 0
  /\ UNCHANGED key

merge(left, right) ==
  /\ row = <<left, right>> /\ Fill(left) + Fill(right) <= NoPairs
  /\ mem' = [mem EXCEPT ![left] = append_pairs(@, Fill(left), mem[right], Fill(right))]
  /\ row' = <<left>>
  /\ pos' = 0
  /\ UNCHANGED key

(* A split clears its new node first, and perhaps in vain.                 *)
clear(n) ==
  n \notin Used /\ mem' = [mem EXCEPT ![n] = EmptyNode] /\ UNCHANGED <<row, key, pos>>

Next ==
  \/ set_key \/ dec_key
  \/ \E n \in Used : search(n) \/ remove(n) \/ \E v \in Val : insert(n, v)
  \/ \E n \in Used, m \in Addr \ Used : split(n, m)
  \/ \E n \in Used, m \in Used : merge(n, m)
  \/ \E n \in Addr : clear(n)

Spec == Init /\ [][Next]_vars

=============================================================================
