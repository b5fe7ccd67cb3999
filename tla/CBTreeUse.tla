------------------------------ MODULE CBTreeUse ------------------------------
(***************************************************************************)
(* The programs over whole trees, on top of the calls of CBTree:           *)
(* cbtree_merge, the two visitors and cbtree_destroy of cbtree_base.c, and *)
(* the loop cbtree_for_each_safe of cbtree_base.h.  Two heads draw their   *)
(* nodes from one slab cache.  CBTree is instantiated once for each head:  *)
(* the instances share the nodes, and the one call that runs.              *)
(***************************************************************************)
EXTENDS CBTreeCache, SequencesExt, TLC

CONSTANTS
  Val, KmallocFails,  \* as in CBTree
  TargetKeys,         \* the keys clients fill the two heads with,
  VictimKeys,         \*   in this order
  MaxPrograms         \* bound: how many programs run

ASSUME KeysAssumption ==
  TargetKeys \in Seq(Long \ {0}) /\ VictimKeys \in Seq(Long \ {0})

VARIABLES
  mem, alloc, queue, cnt, call,  \* as in CBTree
  troot, theight,                \* the head target
  vroot, vheight,                \* the head victim
  on,       \* the head that the running call was given
  filled,   \* how many of its keys each head has been given
  prog,     \* the program: its locals, its outcome, and what it began with
  ran       \* programs begun

memory == <<mem, alloc, queue, cnt>>
target == <<troot, theight>>
victim == <<vroot, vheight>>
vars == <<mem, alloc, queue, cnt, call, troot, theight, vroot, vheight, on, filled, prog, ran>>

Heads == {"target", "victim"}
Of(h) == IF h = "target" THEN TargetKeys ELSE VictimKeys

Target == INSTANCE CBTreeProps WITH root <- troot, height <- theight, filled <- 0,
                                    Calls <- {}, Fill <- <<>>
Victim == INSTANCE CBTreeProps WITH root <- vroot, height <- vheight, filled <- 0,
                                    Calls <- {}, Fill <- <<>>

Root(h) == IF h = "target" THEN troot ELSE vroot
Height(h) == IF h = "target" THEN theight ELSE vheight
KeysOf(h) == IF h = "target" THEN Target!Keys ELSE Victim!Keys
Reachable(h) == IF h = "target" THEN Target!Reachable ELSE Victim!Reachable

SetHead(h, node, height) ==
  IF h = "target"
  THEN troot' = node /\ theight' = height /\ UNCHANGED victim
  ELSE vroot' = node /\ vheight' = height /\ UNCHANGED target

-----------------------------------------------------------------------------
(* Calls of the library, by the functions that cbtree-type.h makes for     *)
(* keys of one long: these hand the key's address on as it is.             *)

CallIdle == call.pc = "idle"
Answered == call.pc = "done"

Begin(h, op, key, val, gfp, pc, copy) ==
  /\ CallIdle
  /\ on' = h
  /\ LET c == [op |-> op, key |-> key, val |-> val, gfp |-> gfp]
     IN \/ h = "target" /\ Target!Start(c, pc, copy) /\ UNCHANGED victim
        \/ h = "victim" /\ Victim!Start(c, pc, copy) /\ UNCHANGED target

cbtree_insert(h, key, val, gfp) == Begin(h, "insert", key, val, gfp, "enter", 0)
cbtree_lookup(h, key) == Begin(h, "lookup", key, NULL, "GFP_KERNEL", "lookup", 0)
cbtree_remove(h, key) ==
  Begin(h, "remove", key, NULL, "GFP_KERNEL", IF Height(h) = 0 THEN "unwind" ELSE "erase", 0)
cbtree_last(h) ==
  Begin(h, "last", 0, NULL, "GFP_KERNEL", IF Height(h) = 0 THEN "unwind" ELSE "last", 0)
cbtree_get_prev(h, key) ==
  Begin(h, "get_prev", key, NULL, "GFP_KERNEL",
        IF key = 0 \/ Height(h) = 0 THEN "unwind" ELSE "prev", Dec(key))

(* A step inside the call.                                                 *)
Library ==
  /\ ~ Answered
  /\ \/ on = "target" /\ Target!LibraryStep /\ UNCHANGED victim
     \/ on = "victim" /\ Victim!LibraryStep /\ UNCHANGED target
  /\ UNCHANGED <<on, filled, prog, ran>>

(* The call returns to the program, or to the client that fills a head.    *)
Returns == Answered /\ Target!Return /\ UNCHANGED <<target, victim, on, filled, ran>>
Died == call.res.status \in {"bug", "oops"}

-----------------------------------------------------------------------------
(* A program's locals: the statement it is at, the key and value it        *)
(* carries, the C stack of __cbtree_for_each, the keys it has seen and     *)
(* removed; and the keys of both heads when it began.                      *)
NoProgram ==
  [name |-> "none", at |-> "end", head |-> "target", gfp |-> "GFP_KERNEL", key |-> 0,
   val |-> NULL, frames |-> <<>>, seen |-> <<>>, removed |-> {}, outcome |-> "none",
   had |-> [h \in Heads |-> {}]]

Running == prog.at # "end"
At(name, statement) == prog.name = name /\ prog.at = statement
Goto(statement) == prog' = [prog EXCEPT !.at = statement]
End(outcome) == prog' = [prog EXCEPT !.at = "end", !.outcome = outcome]

(* The next one may start, unless its head is gone, or a task has died     *)
(* (what that leaves behind is the subject of CBTree's own runs).          *)
Usable == prog.name # "destroy" /\ prog.outcome \notin {"bug", "oops"}
Starting == CallIdle /\ ~ Running /\ Usable /\ ran < MaxPrograms /\ ran' = ran + 1
Started(name, h) ==
  [NoProgram EXCEPT !.name = name, !.head = h, !.had = [g \in Heads |-> KeysOf(g)]]

(* Before the first program, clients fill the heads, the target first.     *)
fill(h) ==
  /\ ran = 0 /\ filled[h] < Len(Of(h))
  /\ h = "target" => filled["victim"] = 0
  /\ LET key == Of(h)[filled[h] + 1] IN cbtree_insert(h, key, 100 + key, "GFP_KERNEL")
  /\ filled' = [filled EXCEPT ![h] = @ + 1]
  /\ UNCHANGED <<prog, ran>>

fill_returns == ~ Running /\ Returns /\ UNCHANGED <<memory, prog>>

-----------------------------------------------------------------------------
(* cbtree_merge.  (Its BUG_ON: target and victim are two heads here.)      *)

merge_begin_copied ==
  /\ Starting
  /\ \E gfp \in {"GFP_KERNEL", "GFP_ATOMIC"} :
       IF troot = NULL
       THEN /\ troot' = vroot /\ theight' = vheight
            /\ UNCHANGED victim
            /\ prog' = [Started("merge", "target") EXCEPT !.outcome = "ok"]
       ELSE /\ prog' = [Started("merge", "target") EXCEPT !.at = "last", !.gfp = gfp]
            /\ UNCHANGED <<target, victim>>
  /\ UNCHANGED <<memory, call, on, filled>>
merge_begin ==
  /\ Starting
  /\ \E gfp \in {"GFP_KERNEL", "GFP_ATOMIC"} :
       IF troot = NULL
       THEN /\ troot' = vroot /\ theight' = vheight
            /\ vroot' = NULL /\ vheight' = 0
            /\ prog' = [Started("merge", "target") EXCEPT !.outcome = "ok"]
       ELSE /\ prog' = [Started("merge", "target") EXCEPT !.at = "last", !.gfp = gfp]
            /\ UNCHANGED <<target, victim>>
  /\ UNCHANGED <<memory, call, on, filled>>

(* The three tree walks that move one entry.  What the lookup answers is   *)
(* what the target gets: the leaf that it found.                           *)
merge_calls ==
  /\ \/ At("merge", "last") /\ cbtree_last("victim")
     \/ At("merge", "lookup") /\ cbtree_lookup("victim", prog.key)
     \/ At("merge", "insert") /\ cbtree_insert("target", prog.key, prog.val, prog.gfp)
     \/ At("merge", "remove") /\ cbtree_remove("victim", prog.key)
  /\ UNCHANGED <<filled, prog, ran>>

merge_goes_on_unchecked ==
  \/ /\ At("merge", "last")
     /\ IF call.res.val = NULL
        THEN End("ok")
        ELSE prog' = [prog EXCEPT !.at = "lookup", !.key = call.res.key]
  \/ At("merge", "lookup") /\ prog' = [prog EXCEPT !.at = "insert", !.val = call.res.val]
  \/ At("merge", "insert") /\ Goto("remove")
  \/ At("merge", "remove") /\ Goto("last")
merge_goes_on_early ==
  \/ /\ At("merge", "last")
     /\ IF vheight <= 1
        THEN End("ok")
        ELSE prog' = [prog EXCEPT !.at = "lookup", !.key = call.res.key]
  \/ At("merge", "lookup") /\ prog' = [prog EXCEPT !.at = "insert", !.val = call.res.val]
  \/ At("merge", "insert") /\ IF call.res.status = "enomem" THEN End("enomem") ELSE Goto("remove")
  \/ At("merge", "remove") /\ Goto("last")
merge_goes_on ==
  \/ /\ At("merge", "last")
     /\ IF call.res.val = NULL
        THEN End("ok")
        ELSE prog' = [prog EXCEPT !.at = "lookup", !.key = call.res.key]
  \/ At("merge", "lookup") /\ prog' = [prog EXCEPT !.at = "insert", !.val = call.res.val]
  \/ At("merge", "insert") /\ IF call.res.status = "enomem" THEN End("enomem") ELSE Goto("remove")
  \/ At("merge", "remove") /\ Goto("last")

-----------------------------------------------------------------------------
(* cbtree_for_each_safe, with a body that may remove the key it is given.  *)

safe_begin ==
  /\ Starting
  /\ \E h \in Heads : prog' = [Started("safe", h) EXCEPT !.at = "last"]
  /\ UNCHANGED <<memory, call, target, victim, on, filled>>

safe_calls ==
  /\ \/ At("safe", "last") /\ cbtree_last(prog.head)
     \/ At("safe", "prev") /\ cbtree_get_prev(prog.head, prog.key)
     \/ At("safe", "remove") /\ cbtree_remove(prog.head, prog.key)
  /\ UNCHANGED <<filled, prog, ran>>

safe_goes_on ==
  \/ /\ prog.name = "safe" /\ prog.at \in {"last", "prev"}
     /\ IF call.res.val = NULL
        THEN End("ok")
        ELSE \E body \in {"prev", "remove"} :
               prog' = [prog EXCEPT !.at = body, !.key = call.res.key,
                                    !.seen = Append(@, call.res.key),
                                    !.removed = @ \cup {k \in {call.res.key} : body = "remove"}]
  \/ At("safe", "remove") /\ Goto("prev")

-----------------------------------------------------------------------------
(* __cbtree_for_each, for cbtree_visitor and, reaping, cbtree_grim_visitor *)

Frame(node, height) == [node |-> node, i |-> 0, height |-> height]
Top == Head(prog.frames)
Stepped == <<[Top EXCEPT !.i = @ + 1]>> \o Tail(prog.frames)
Visiting == CallIdle /\ prog.at = "visit"

visit_begin ==
  /\ Starting
  /\ \E h \in Heads, name \in {"visitor", "grim"} :
       prog' = [Started(name, h) EXCEPT !.at = "visit",
                  !.frames = IF Root(h) = NULL THEN <<>> ELSE <<Frame(Root(h), Height(h))>>]
  /\ UNCHANGED <<memory, call, target, victim, on, filled>>

(* The loop over the slots ends at the first one without a pointer.        *)
MoreSlots_last_left_out == Top.i < NoPairs - 1 /\ mem[Top.node][Top.i].v # NULL
MoreSlots == Top.i < NoPairs /\ mem[Top.node][Top.i].v # NULL

for_each_slot_freed ==
  /\ Visiting /\ prog.frames # <<>> /\ MoreSlots
  /\ LET p == mem[Top.node][Top.i]
     IN /\ prog' = IF Top.height > 1
                   THEN [prog EXCEPT !.frames = <<Frame(p.v, Top.height - 1)>> \o Stepped]
                   ELSE [prog EXCEPT !.frames = Stepped, !.seen = Append(@, p.k)]
        /\ alloc' = IF prog.name = "grim" THEN alloc \ {Top.node} ELSE alloc
  /\ UNCHANGED <<mem, queue, cnt, call, target, victim, on, filled, ran>>
for_each_slot ==
  /\ Visiting /\ prog.frames # <<>> /\ MoreSlots
  /\ LET p == mem[Top.node][Top.i]
     IN prog' = IF Top.height > 1
                THEN [prog EXCEPT !.frames = <<Frame(p.v, Top.height - 1)>> \o Stepped]
                ELSE [prog EXCEPT !.frames = Stepped, !.seen = Append(@, p.k)]
  /\ UNCHANGED <<memory, call, target, victim, on, filled, ran>>

for_each_up ==
  /\ Visiting /\ prog.name = "visitor" /\ prog.frames # <<>> /\ ~ MoreSlots
  /\ prog' = [prog EXCEPT !.frames = Tail(@)]
  /\ UNCHANGED <<memory, call, target, victim, on, filled, ran>>

(* Reaping: freeQueue and mempool_free, as cbtree_shrink does both.        *)
reap ==
  /\ Visiting /\ prog.name = "grim" /\ prog.frames # <<>> /\ ~ MoreSlots
  /\ call' = [Target!Idle EXCEPT !.pc = "unwind", !.op = "remove",
                                 !.stack = <<[kind |-> "shrink", node |-> Top.node]>>]
  /\ on' = prog.head
  /\ UNCHANGED <<memory, target, victim, filled, prog, ran>>

(* (The queue of a leaf has no nodes in it, so a task never gets here: it  *)
(* dies in freeQueue at the first leaf.)                                   *)
reaped == prog.name = "grim" /\ prog' = [prog EXCEPT !.frames = Tail(@)]

visit_ends ==
  /\ Visiting /\ prog.frames = <<>>
  /\ End("ok")
  /\ IF prog.name = "grim" THEN SetHead(prog.head, NULL, 0) ELSE UNCHANGED <<target, victim>>
  /\ UNCHANGED <<memory, call, on, filled, ran>>

-----------------------------------------------------------------------------
(* A program's call came back, or took the task with it.                   *)
program_goes_on ==
  /\ Running /\ Returns
  /\ IF Died THEN End(call.res.status) ELSE merge_goes_on \/ safe_goes_on \/ reaped
  /\ UNCHANGED memory

(* cbtree_destroy of a head: the root goes back to the slab cache, what    *)
(* hangs below it does not.  The head is not used again.                   *)
cbtree_destroy_pool_only ==
  /\ Starting
  /\ \E h \in Heads : prog' = Started("destroy", h)
  /\ UNCHANGED <<memory, call, target, victim, on, filled>>
cbtree_destroy ==
  /\ Starting
  /\ \E h \in Heads : prog' = Started("destroy", h) /\ alloc' = alloc \ {Root(h)}
  /\ UNCHANGED <<mem, queue, cnt, call, target, victim, on, filled>>

-----------------------------------------------------------------------------
Init ==
  /\ mem = [n \in Node |-> EmptyNode]
  /\ alloc = {}
  /\ queue = [n \in Node |-> NULL]
  /\ cnt = [n \in Node |-> 0]
  /\ call = Target!Idle
  /\ troot = NULL /\ theight = 0
  /\ vroot = NULL /\ vheight = 0
  /\ on = "target"
  /\ filled = [h \in Heads |-> 0]
  /\ prog = NoProgram
  /\ ran = 0

Programs ==
  \/ merge_begin \/ safe_begin \/ visit_begin \/ cbtree_destroy
  \/ \E h \in Heads : fill(h)

ProgramStep ==
  \/ merge_calls \/ safe_calls \/ for_each_slot \/ for_each_up \/ reap \/ visit_ends
  \/ program_goes_on \/ fill_returns

Next == Programs \/ ProgramStep \/ Library

(* A program and its calls run on; nothing obliges clients to start one.   *)
Spec == Init /\ [][Next]_vars /\ WF_vars(ProgramStep \/ Library)

-----------------------------------------------------------------------------
Had == prog.had["target"] \cup prog.had["victim"]
HadBoth == prog.had["target"] \cap prog.had["victim"]
Both == Target!Keys \cap Victim!Keys
Ended(name) == ~ Running /\ prog.name = name

(* cbtree_merge never loses a key: between its calls, and when it gives up *)
(* or meets a duplicate, every key is in one of the trees, and at most the *)
(* one on its way has come to be in both.  A call that faults may change a *)
(* key of the victim (freeQueue does), but none that the target had.       *)
MergeKeepsKeys ==
  prog.name = "merge" /\ Target!Quiescent =>
    /\ prog.had["target"] \subseteq Target!Keys
    /\ "oops" \notin {call.res.status, prog.outcome} =>
         Target!Keys \cup Victim!Keys = Had /\ Cardinality(Both \ HadBoth) <= 1

(* A merge that succeeds has moved everything, and has not passed over a   *)
(* key that both trees had: that is a BUG (cbtree_base.h:151).             *)
MergeMoves ==
  Ended("merge") /\ prog.outcome = "ok" =>
    HadBoth = {} /\ Target!Keys = Had /\ Victim!Keys = {}

(* Every node belongs to one head: none hangs in both trees, not even when *)
(* merging hands a whole tree over.                                        *)
HeadsApart == Target!Reachable \cap Victim!Reachable = {}

(* As long as no task faulted, every node handed out hangs in one of the   *)
(* trees; cbtree_destroy loses exactly those below the root.               *)
Held(h) == IF prog.name = "destroy" /\ prog.head = h
           THEN Reachable(h) \ {Root(h)} ELSE Reachable(h)
NothingLost ==
  CallIdle /\ prog.outcome # "oops" => alloc = Held("target") \cup Held("victim")

(* The visitor and cbtree_for_each_safe give every key of the tree once,   *)
(* from the greatest to the smallest, also when the loop's body removes    *)
(* the key it was given: get_prev goes on below it, from a leaf that may   *)
(* hold no smaller key.  (A removal that merges two leaves faults in       *)
(* freeQueue, and the loop does not go on after it.)                       *)
LoopsVisitAll ==
  (Ended("visitor") \/ Ended("safe")) /\ prog.outcome = "ok" =>
    /\ ToSet(prog.seen) = prog.had[prog.head]
    /\ \A i, j \in 1 .. Len(prog.seen) : i < j => prog.seen[i] > prog.seen[j]

(* Such a body removes the keys it chose and no other.                     *)
LoopRemovesChosen ==
  prog.name = "safe" /\ CallIdle /\ prog.at # "remove" /\ prog.outcome # "oops" =>
    KeysOf(prog.head) = prog.had[prog.head] \ prog.removed

(* The grim visitor never frees a tree that has keys: it dies in freeQueue *)
(* of the first leaf, whose queue is empty (cbtree_cache.c:175), before a  *)
(* single mempool_free, and its head still has the whole tree, intact.     *)
GrimLeavesTree ==
  prog.name = "grim" /\ prog.had[prog.head] # {} =>
    /\ KeysOf(prog.head) = prog.had[prog.head]
    /\ alloc = Reachable("target") \cup Reachable("victim")
    /\ Ended("grim") => prog.outcome = "oops"

(* Every program comes to its end: the victim of a merge gets smaller, and *)
(* the loops never come by the same key twice.                             *)
ProgramsEnd == Running ~> ~ Running

=============================================================================
