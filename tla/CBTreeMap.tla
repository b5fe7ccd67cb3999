----------------------------- MODULE CBTreeMap -----------------------------
(***************************************************************************)
(* What the callers of the tree may rely on: a set of pairs of a key and a *)
(* value, one per key, that each call reads or changes at one moment.  The *)
(* contracts are those of the comments in cbtree_base.h, weakened to what  *)
(* the code keeps of them: an insertion may run out of memory or die on a  *)
(* client's mistake, a removal may die after it has removed, and a lookup  *)
(* that finds something answers with some node, so that only NULL says     *)
(* anything.                                                               *)
(***************************************************************************)
EXTENDS Integers

CONSTANTS
  Calls,   \* the calls that may be made
  Handle,  \* what a lookup may answer with
  NULL

VARIABLES
  map,  \* the pairs [k, v] that are stored
  res   \* the answered call and its answer, NULL between calls

NoAnswer == NULL

Answer(c, status, key, val) ==
  [op |-> c.op, key |-> c.key, val |-> c.val, status |-> status, rkey |-> key, rval |-> val]

At(key) == {p \in map : p.k = key}
Below(key) == {p \in map : p.k < key}
Greatest(S) == {p \in S : \A q \in S : q.k <= p.k}

Init == map = {} /\ res = NoAnswer

Insert(c) ==
  /\ c.op = "insert"
  /\ \/ /\ c.val # NULL /\ At(c.key) = {}
        /\ \/ map' = map \cup {[k |-> c.key, v |-> c.val]} /\ res' = Answer(c, "ok", 0, NULL)
           \/ map' = map /\ res' = Answer(c, "enomem", 0, NULL)
     \/ /\ c.val = NULL \/ At(c.key) # {}
        /\ map' = map /\ res' = Answer(c, "bug", 0, NULL)

Remove(c) ==
  /\ c.op = "remove"
  /\ map' = map \ At(c.key)
  /\ \/ At(c.key) = {} /\ res' = Answer(c, "ok", c.key, NULL)
     \/ \E p \in At(c.key) : res' = Answer(c, "ok", c.key, p.v)
     \/ At(c.key) # {} /\ res' = Answer(c, "oops", 0, NULL)

(* The greatest key of S and its value, or NULL and the key as it was.     *)
Found(c, S) ==
  /\ map' = map
  /\ \/ S = {} /\ res' = Answer(c, "ok", c.key, NULL)
     \/ \E p \in Greatest(S) : res' = Answer(c, "ok", p.k, p.v)

GetPrev(c) == c.op = "get_prev" /\ Found(c, Below(c.key))
Last(c) == c.op = "last" /\ Found(c, map)

Lookup(c) ==
  /\ c.op = "lookup"
  /\ map' = map
  /\ \/ At(c.key) = {} /\ res' = Answer(c, "ok", 0, NULL)
     \/ \E n \in Handle : res' = Answer(c, "ok", 0, n)

Update(c) ==
  /\ c.op = "update"
  /\ \/ /\ At(c.key) # {}
        /\ map' = (map \ At(c.key)) \cup {[k |-> c.key, v |-> c.val]}
        /\ res' = Answer(c, "ok", 0, NULL)
     \/ map' = map /\ res' = Answer(c, "enoent", 0, NULL)

Respond ==
  /\ res = NoAnswer
  /\ \E c \in Calls : Insert(c) \/ Remove(c) \/ GetPrev(c) \/ Last(c) \/ Lookup(c) \/ Update(c)

Return == res # NoAnswer /\ res' = NoAnswer /\ map' = map

Next == Respond \/ Return

Spec == Init /\ [][Next]_<<map, res>>
=============================================================================
