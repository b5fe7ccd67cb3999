----------------------------- MODULE CBTreeDocs -----------------------------
(***************************************************************************)
(* What the repository's comments say of the tree and its code does not    *)
(* do.  Each property quotes one of them, and a run finds it violated.     *)
(***************************************************************************)
EXTENDS CBTreeProps

Answered(op) == call.pc = "done" /\ call.op = op

(* cbtree_base.h:98, cbtree_lookup: "This function returns the value for   *)
(* the given key, or %NULL."                                               *)
LookupGivesValue ==
  Answered("lookup") =>
    \/ call.res.val = NULL
    \/ [k |-> call.ukey, v |-> call.res.val] \in Contents

(* cbtree_base.h:137, cbtree_remove: "returns the removed entry, or %NULL  *)
(* if the key could not be found": a removal returns, with one or other.   *)
RemoveReturns == Answered("remove") => call.res.status = "ok"

=============================================================================
