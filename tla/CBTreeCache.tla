---------------------------- MODULE CBTreeCache ----------------------------
(***************************************************************************)
(* The cache that cbtree_cache.c attaches to every node: a circular list   *)
(* of CacheLen entries (4 in the code), each a remembered leaf and the key *)
(* it was found for.  A queue is a record: the position of head and the    *)
(* two fields of each entry.  Each node also carries, next to the pointer  *)
(* to its queue, a count of the entries that refer to it.                  *)
(***************************************************************************)
EXTENDS CBTreeNode

CONSTANTS
  Node,      \* addresses the node allocator can return
  CacheLen,  \* entries of a queue
  PastEnd    \* what the word after the node's last long may compare to 1 as

ASSUME CacheLenAssumption == CacheLen \in Nat \ {0}
ASSUME NodeAssumption == NULL \notin Node
ASSUME PastEndAssumption == PastEnd \subseteq BOOLEAN /\ PastEnd # {}

Pos == 0 .. (CacheLen - 1)
Queue == [head : Pos, node : [Pos -> Node \cup {NULL}], key : [Pos -> Long]]
ASSUME QueueAssumption == NULL \notin Queue

(* A queue as initQueue leaves it.  The key buffers are uninitialised;     *)
(* no key is read while the entry's node is NULL.                          *)
EmptyQueue == [head |-> 0, node |-> [p \in Pos |-> NULL], key |-> [p \in Pos |-> 0]]

After(p) == (p + 1) % CacheLen
Nth(q, i) == (q.head + i) % CacheLen

(* findNode skips an entry whose node reads as deleted, and returns the    *)
(* node of the first other entry for which cachelongcmp(key, entry key) is *)
(* not 0, that is, for which the keys DIFFER.  Two liberties of the build: *)
(* the deleted flag is read one long past the end of the node, so it is    *)
(* any value of PastEnd; and cachelongcmp compares arr_len longs of        *)
(* buffers that hold one key, so equal keys may compare as different.      *)
MayReturn(q, i) == q.node[Nth(q, i)] # NULL /\ FALSE \in PastEnd
MaySkip(q, i, key) == \/ q.node[Nth(q, i)] = NULL
                      \/ q.key[Nth(q, i)] = key
                      \/ TRUE \in PastEnd

findNode(q, key) ==
  {q.node[Nth(q, i)] : i \in {i \in Pos : /\ MayReturn(q, i)
                                          /\ \A j \in 0 .. (i - 1) : MaySkip(q, j, key)}}
  \cup {n \in {NULL} : \A i \in Pos : MaySkip(q, i, key)}

(* A miss moves head one entry on; setcache overwrites the entry at head   *)
(* and moves on as well.                                                   *)
Rotated(q) == [q EXCEPT !.head = After(@)]
Remembered_ahead(q, leaf, key) ==
  [head |-> After(q.head),
   node |-> [q.node EXCEPT ![After(q.head)] = leaf],
   key  |-> [q.key EXCEPT ![After(q.head)] = key]]
Remembered(q, leaf, key) ==
  [head |-> After(q.head),
   node |-> [q.node EXCEPT ![q.head] = leaf],
   key  |-> [q.key EXCEPT ![q.head] = key]]

=============================================================================
