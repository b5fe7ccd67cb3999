---------------------------- MODULE CBTreeProps ----------------------------
(***************************************************************************)
(* What makes the cached B+tree correct: the shape of the tree, the path   *)
(* every search takes, the account of nodes and of cache references, and   *)
(* what the calls may answer.                                              *)
(***************************************************************************)
EXTENDS CBTree, FiniteSets

(* No call runs.  What a call leaves behind is judged here, also when it   *)
(* failed or died in a fault: other tasks go on with that tree.            *)
Quiescent == call.pc \in {"idle", "done"}

(* The nodes of each level, from the root at level height to the leaves.   *)
Children(S) == {mem[n][i].v : n \in S \cap Node, i \in Slot} \ {NULL}
AtLevel ==
  LET at[l \in 1 .. height] == IF l = height THEN {root} ELSE Children(at[l + 1])
  IN at
Leaves == IF height = 0 THEN {} ELSE AtLevel[1] \cap Node
Inner == (UNION {AtLevel[l] : l \in 2 .. height}) \cap Node
Reachable == Inner \cup Leaves

UsedSlots(n) == {i \in Slot : mem[n][i].v # NULL}
Contents == UNION {{mem[n][i] : i \in UsedSlots(n)} : n \in Leaves}
Keys == {p.k : p \in Contents}

(* Where the search for a key gets, level by level: find_level's walk when *)
(* no separator has to be lowered.                                         *)
Route(key) ==
  LET at[l \in 1 .. height] ==
        IF l = height THEN root
        ELSE LET up == at[l + 1]
                 i == IF up \in Node THEN getpos(mem[up], key) ELSE NoPairs
             IN IF i = NoPairs THEN NULL ELSE mem[up][i].v
  IN at

(* Splits, merges, shrinks and removals keep every stored key on the path  *)
(* that the search for it takes: no call, however it ends, strands a pair  *)
(* in a leaf that find_level no longer reaches.                            *)
KeysFound ==
  Quiescent => \A n \in Leaves : \A i \in UsedSlots(n) : Route(mem[n][i].k)[1] = n

(* Every node of the tree is in order, on every level: used slots on the   *)
(* left, NUL in the others (the header comment of cbtree_base.c), and keys *)
(* that descend strictly.                                                  *)
NodesInOrder == Quiescent => \A n \in Reachable : Ordered(mem[n])

(* The nodes form a tree of one height: inner slots lead to nodes of the   *)
(* pool and leaf slots to values, and no node hangs in two places.         *)
Parents(n) == {p \in Inner \X Slot : mem[p[1]][p[2]].v = n}
OneParentEach ==
  Quiescent =>
    /\ (root = NULL) <=> (height = 0)
    /\ \A n \in Inner : \A i \in UsedSlots(n) : mem[n][i].v \in alloc
    /\ \A n \in Leaves : \A i \in UsedSlots(n) : mem[n][i].v \in Val
    /\ \A n \in Reachable : Cardinality(Parents(n)) = IF n = root THEN 0 ELSE 1

(* Removing keeps the tree low: an inner node keeps a child, the root of a *)
(* tree higher than 1 keeps two, only the leaf that is the root empties.   *)
NoEmptyNodes ==
  Quiescent => \A n \in Reachable :
    \/ n = root /\ height = 1
    \/ Cardinality(UsedSlots(n)) >= (IF n = root THEN 2 ELSE 1)

(* The BUG_ONs of find_level, cbtree_shrink, cbtree_insert_level and       *)
(* rebalance fire for a client's mistake alone, a NULL value or a key that *)
(* is present, never for what the library did to its own tree.             *)
BugOnlyOnMisuse ==
  call.pc = "done" /\ call.res.status = "bug" =>
    call.op = "insert" /\ (call.val = NULL \/ call.ukey \in Keys)

(* A removal never climbs past the root, where cbtree_remove_level would   *)
(* drop the whole tree (lines 733-738).                                    *)
NeverAboveRoot == call.pc = "erase" => Level <= height

(* What a call holds in its stack: the new nodes of its splits, and the    *)
(* nodes a removal is to free when it has come back.  A node that neither  *)
(* the tree nor the call holds is lost.                                    *)
FramesOf(kinds) == {call.stack[i] : i \in {i \in 1 .. Len(call.stack) : call.stack[i].kind \in kinds}}
Splitting == {f.new : f \in FramesOf({"split"})}
Freeing == {f.node : f \in FramesOf({"merge", "empty", "shrink"})}
Lost == alloc \ (Reachable \cup Splitting \cup Freeing)

(* No step loses a node of the pool, whether it splits, grows, gives up    *)
(* half way, merges, takes an emptied node out of its parent or shrinks    *)
(* the tree.  The exception is the way back of a removal, where freeQueue  *)
(* faults, or rebalance frees NULL (line 681): it loses the nodes it was   *)
(* about to free, all of them out of the tree by then, and no others.      *)
NoLeak == [][Lost' \subseteq Lost \cup (IF call.pc = "unwind" THEN Freeing ELSE {})]_vars

(* The entries of all caches that refer to a leaf are as many as the leaf  *)
(* counts, so the count says when a leaf may go.  It says so as long as no *)
(* inner node goes: freeQueue forgets to release the entries it frees.     *)
(* The count cannot wrap: a node alone is longer than its queue's entries  *)
(* are many, and all nodes together are shorter than the address space.    *)
ASSUME CountAssumption == IsFiniteSet(Node) /\ Cardinality(Node) * CacheLen <= MaxLong
Entries(n) == {e \in Node \X Pos : queue[e[1]] # NULL /\ queue[e[1]].node[e[2]] = n}
EntriesCounted == call.pc # "answer" => \A n \in Node : cnt[n] = Cardinality(Entries(n))

(* A lookup that answers NULL is right, whatever the caches held.          *)
NullMeansAbsent ==
  call.pc = "done" /\ call.op = "lookup" /\ call.res = NoResult => call.ukey \notin Keys

(* cbtree_base.h:125, cbtree_update: "returns 0 if the update was          *)
(* successful": the value of the key has been replaced in the tree.  The   *)
(* cache keeps this while the tree only grows; a leaf that a removal has   *)
(* merged away stays cached with its old pairs, and takes updates.         *)
UpdateTakes ==
  call.pc = "done" /\ call.op = "update" /\ call.res.status = "ok" =>
    [k |-> call.ukey, v |-> call.val] \in Contents

(* Every call comes back, with a result or a fault: no walk of the tree    *)
(* and no retry of get_prev or of a split goes round for ever.             *)
CallsReturn == call.pc # "idle" ~> call.pc = "idle"

-----------------------------------------------------------------------------
(* The tree implements the map.  What a removal has taken out still counts *)
(* until the call has come back with the value.                            *)
Removing == call.op = "remove" /\ call.pc # "done" /\ call.res.val # NULL
MapPairs == Contents \cup (IF Removing THEN {[k |-> call.ukey, v |-> call.res.val]} ELSE {})
MapAnswer ==
  IF call.pc # "done" THEN NULL
  ELSE [op |-> call.op, key |-> call.ukey, val |-> call.val, status |-> call.res.status,
        rkey |-> call.res.key, rval |-> call.res.val]

(* An answer is something else than none.                                  *)
ASSUME AnswerAssumption ==
  NULL \notin [op : {"insert", "remove", "lookup", "update", "get_prev", "last"},
               key : Long, val : Ptr, status : {"ok", "enomem", "enoent", "bug", "oops"},
               rkey : Long, rval : Ptr]

Map == INSTANCE CBTreeMap WITH map <- MapPairs, res <- MapAnswer, Handle <- Node,
                               Calls <- Calls \cup {Fill[i] : i \in 1 .. Len(Fill)}

(* Seen from outside, every call reads or changes the map of keys to       *)
(* values at one moment and answers accordingly: inserting adds exactly    *)
(* one pair, removing takes exactly that key's away, get_prev and last     *)
(* answer with the right neighbour, through all splits and merges.         *)
ImplementsMap == Map!Spec

=============================================================================
