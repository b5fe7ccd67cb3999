------------------------------- MODULE CBTree -------------------------------
(***************************************************************************)
(* The cached B+tree of cbtree_base.c and cbtree_cache.c as a state        *)
(* machine: the memory of the nodes, the head of the tree, and the one     *)
(* library call that is running.  The library takes no lock, so one call   *)
(* runs at a time and a caller's steps are sequential; a call is cut into  *)
(* steps at every level of the tree it visits and at every entry of a      *)
(* queue it frees, because it can fail or fault there and leave the tree   *)
(* half way.                                                               *)
(*                                                                         *)
(* A fault (a NULL dereference, or a BUG_ON) kills the calling task.  With *)
(* panic_on_oops = 0, the kernel's default, other tasks go on with the     *)
(* tree as the fault left it, and so does this model.                      *)
(***************************************************************************)
EXTENDS CBTreeCache, Sequences

CONSTANTS
  Val,      \* values a client stores: pointers that are not nodes
  Calls,    \* the calls clients make, records of CallType
  Fill,     \* calls made first, in this order: fill_tree of btree_profiling.c
  KmallocFails  \* whether kmalloc may fail inside initQueue

CallType == [op : {"insert", "remove", "lookup", "update", "get_prev", "last"},
             key : Long, val : Val \cup {NULL}, gfp : {"GFP_KERNEL", "GFP_ATOMIC"}]

ASSUME ValAssumption == NULL \notin Val \cup Long /\ Val \cap Node = {}
ASSUME CallsAssumption == Calls \subseteq CallType /\ Fill \in Seq(CallType)
ASSUME KmallocAssumption == KmallocFails \in BOOLEAN

VARIABLES
  mem,     \* the pairs of every node
  root,    \* head->node
  height,  \* head->height
  alloc,   \* nodes the mempool has handed out and not got back
  queue,   \* the queue a node's queue pointer leads to, NULL without one
  cnt,     \* the count of cache entries a node carries
  call,    \* the running call: its registers, its C stack, its result
  filled   \* how many calls of Fill were made

vars == <<mem, root, height, alloc, queue, cnt, call, filled>>

Ptr == Node \cup Val \cup {NULL}

(* A key argument is a pointer, and remove shifts the keys it points to:   *)
(* NULL stands for the caller's own buffer, <<n, i>> for slot i of node n. *)
KeyPtr == {NULL} \cup (Node \X Slot)
ASSUME KeyPtrAssumption == NULL \notin Node \X Slot

(* What a caller further down the stack is waiting for: "split" for its    *)
(* new node to be inserted one level up; "merge", "empty" and "shrink" to  *)
(* free node; "lookup" to remember in node what its child returned.        *)
SplitFrame == [kind : {"split"}, at : KeyPtr, val : Ptr, node : Node, new : Node]
FreeFrame == [kind : {"merge", "empty", "shrink"}, node : Node]
LookupFrame == [kind : {"lookup"}, node : Node]

Result == [status : {"ok", "enomem", "enoent", "bug", "oops"}, key : Long, val : Ptr]

NoResult == [status |-> "ok", key |-> 0, val |-> NULL]

Idle == [pc |-> "idle", op |-> "none", gfp |-> "GFP_KERNEL", ukey |-> 0, key |-> 0,
         at |-> NULL, val |-> NULL, cur |-> NULL, h |-> 0, child |-> NULL, fill |-> 0,
         retry |-> NULL, stack |-> <<>>, res |-> NoResult]

(* The key the running activation works with, and its level.               *)
Key == IF call.at = NULL THEN call.ukey ELSE mem[call.at[1]][call.at[2]].k
Level == Len(call.stack) + 1
Top == Head(call.stack)
Push(f) == <<f>> \o call.stack

(* find_level stops at the level itself, or above it for the parent.       *)
Goal_same == Level
Goal == IF call.pc = "sibling" THEN Level + 1 ELSE Level

Finish(status, key, val) ==
  call' = [Idle EXCEPT !.pc = "done", !.op = call.op, !.ukey = call.ukey, !.val = call.val,
                       !.res = [status |-> status, key |-> key, val |-> val]]
Bug == Finish("bug", 0, NULL)
Oops == Finish("oops", 0, NULL)

Goto(pc) == call' = [call EXCEPT !.pc = pc]

(* Restart at the root, as find_level and the retries do.                  *)
FromRoot(c, pc) == [c EXCEPT !.pc = pc, !.cur = root, !.h = height]

-----------------------------------------------------------------------------
(* Calls and their return to the client.                                   *)

Client == IF filled < Len(Fill) THEN {Fill[filled + 1]} ELSE Calls

Start(c, pc, key) ==
  /\ filled' = IF filled < Len(Fill) THEN filled + 1 ELSE filled
  /\ call' = [Idle EXCEPT !.pc = pc, !.op = c.op, !.gfp = c.gfp, !.ukey = c.key,
                          !.key = key, !.val = c.val, !.cur = root, !.h = height]
  /\ UNCHANGED <<mem, root, height, alloc, queue, cnt>>

Calling(ops) == {c \in Client : call.pc = "idle" /\ c.op \in ops}

cbtree_insert == \E c \in Calling({"insert"}) : Start(c, "enter", 0)

cbtree_remove ==
  \E c \in Calling({"remove"}) : Start(c, IF height = 0 THEN "unwind" ELSE "erase", 0)

cbtree_lookup == \E c \in Calling({"lookup", "update"}) : Start(c, "lookup", 0)

(* get_prev copies the key and decrements the copy, wrapping at 0.         *)
cbtree_get_prev ==
  \E c \in Calling({"get_prev"}) :
    Start(c, IF c.key = 0 \/ height = 0 THEN "unwind" ELSE "prev", Dec(c.key))

cbtree_last ==
  \E c \in Calling({"last"}) : Start(c, IF height = 0 THEN "unwind" ELSE "last", 0)

Return ==
  /\ call.pc = "done"
  /\ call' = Idle
  /\ UNCHANGED <<mem, root, height, alloc, queue, cnt, filled>>

-----------------------------------------------------------------------------
(* Memory.  mempool_alloc may return NULL unless it may sleep; when the    *)
(* model's nodes are used up it returns NULL too.  Which free address it   *)
(* returns is immaterial, addresses are only compared for equality.        *)

NodeMayFail == call.gfp = "GFP_ATOMIC" \/ alloc = Node
Fresh == CHOOSE n \in Node : n \notin alloc

(* The queue of a new node: none when an entry's kmalloc failed, and no    *)
(* error reaches the caller.  (The kmalloc of an entry's key buffer always *)
(* succeeds here; that of the queue itself is initQueue_faults below.)     *)
NewQueue == {EmptyQueue} \cup {q \in {NULL} : KmallocFails}

cbtree_node_alloc(pairs) ==
  /\ alloc # Node
  /\ alloc' = alloc \cup {Fresh}
  /\ mem' = [mem EXCEPT ![Fresh] = pairs]
  /\ cnt' = [cnt EXCEPT ![Fresh] = 0]
  /\ \E q \in NewQueue : queue' = [queue EXCEPT ![Fresh] = q]

-----------------------------------------------------------------------------
(* find_level, shared by insert_level, remove_level and rebalance: one     *)
(* step down per action.  A key below every key of the node lowers the     *)
(* right-most key, and the walk goes right.                                *)

find_level ==
  /\ call.pc \in {"place", "erase", "sibling"}
  /\ call.h > Goal
  /\ LET n == mem[call.cur]
         i == getpos(n, Key)
         low == i = NoPairs \/ n[i].v = NULL
         j == IF low THEN i - 1 ELSE i
     IN IF call.cur \notin Node
        THEN Oops /\ UNCHANGED mem
        ELSE IF j < 0
        THEN Bug /\ UNCHANGED mem
        ELSE /\ mem' = IF low THEN [mem EXCEPT ![call.cur][j].k = Key] ELSE mem
             /\ call' = [call EXCEPT !.cur = n[j].v, !.h = @ - 1]
  /\ UNCHANGED <<root, height, alloc, queue, cnt, filled>>

AtGoal(pc) == call.pc = pc /\ call.h <= Goal

-----------------------------------------------------------------------------
(* cbtree_insert_level *)

(* The tree is high enough for this level: look for the node.              *)
insert_level ==
  /\ call.pc = "enter"
  /\ IF call.val = NULL
     THEN Bug
     ELSE height >= Level /\ call' = FromRoot(call, "place")
  /\ UNCHANGED <<mem, root, height, alloc, queue, cnt, filled>>

(* cbtree_grow: a new root above the old one, whose smallest key it takes. *)
LastKey(n) == LET fill == getfill(n, 0) IN IF fill = 0 THEN 0 ELSE n[fill - 1].k

cbtree_grow ==
  /\ call.pc = "enter" /\ call.val # NULL /\ height < Level
  /\ cbtree_node_alloc(IF root \in Node
                       THEN [EmptyNode EXCEPT ![0] = [k |-> LastKey(mem[root]), v |-> root]]
                       ELSE EmptyNode)
  /\ root' = Fresh
  /\ height' = height + 1
  /\ call' = [call EXCEPT !.pc = "place", !.cur = Fresh, !.h = height + 1]
  /\ UNCHANGED filled

grow_fails ==
  /\ call.pc = "enter" /\ call.val # NULL /\ height < Level
  /\ NodeMayFail
  /\ call' = [call EXCEPT !.pc = "up", !.res.status = "enomem"]
  /\ UNCHANGED <<mem, root, height, alloc, queue, cnt, filled>>

Position == getpos(mem[call.cur], Key)
FillFrom == getfill(mem[call.cur], Position)
Duplicate == Position < FillFrom /\ Position \in matches(mem[call.cur], Key)

(* BUG_ON: no node, or two identical keys.                                 *)
insert_bug ==
  /\ AtGoal("place")
  /\ call.cur \in Node => Duplicate
  /\ Bug
  /\ UNCHANGED <<mem, root, height, alloc, queue, cnt, filled>>

(* Shift and insert.  At level 1 the call is over, further up a caller     *)
(* waits to move its pairs.                                                *)
insert_shift ==
  /\ AtGoal("place") /\ call.cur \in Node /\ ~ Duplicate
  /\ FillFrom < NoPairs
  /\ mem' = [mem EXCEPT ![call.cur] = insert_pair(@, Position, FillFrom, Key, call.val)]
  /\ IF call.stack = <<>> THEN Finish("ok", 0, NULL) ELSE Goto("up")
  /\ UNCHANGED <<root, height, alloc, queue, cnt, filled>>

(* A full node: allocate its sibling and insert that one level up, under   *)
(* the key that ends the half it will take over.                           *)
insert_split ==
  /\ AtGoal("place") /\ call.cur \in Node /\ ~ Duplicate
  /\ FillFrom = NoPairs
  /\ cbtree_node_alloc(EmptyNode)
  /\ call' = [call EXCEPT
       !.pc = "enter",
       !.at = <<call.cur, SplitSlot>>,
       !.val = Fresh,
       !.stack = Push([kind |-> "split", at |-> call.at, val |-> call.val,
                       node |-> call.cur, new |-> Fresh])]
  /\ UNCHANGED <<root, height, filled>>

split_fails ==
  /\ AtGoal("place") /\ call.cur \in Node /\ ~ Duplicate
  /\ FillFrom = NoPairs
  /\ NodeMayFail
  /\ call' = [call EXCEPT !.pc = "up", !.res.status = "enomem"]
  /\ UNCHANGED <<mem, root, height, alloc, queue, cnt, filled>>

(* The activation the top frame waits for has returned.                    *)
Caller(pc) == [call EXCEPT !.pc = pc, !.at = Top.at, !.val = Top.val,
                           !.stack = Tail(call.stack)]

(* It succeeded: move the upper half to the new node and retry.            *)
split_moves ==
  /\ call.pc = "up" /\ call.stack # <<>> /\ call.res.status = "ok"
  /\ mem' = [mem EXCEPT ![Top.new] = upper_half(mem[Top.node], mem[Top.new]),
                        ![Top.node] = lower_half(mem[Top.node])]
  /\ UNCHANGED <<root, height, alloc, queue, cnt, filled>>
  /\ call' = FromRoot(Caller("up"), "place")

(* It failed: free the new node, but not its queue, and fail as well.      *)
split_undone_kept ==
  /\ call.pc = "up" /\ call.stack # <<>> /\ call.res.status = "enomem"
  /\ call' = Caller("up")
  /\ UNCHANGED <<mem, root, height, alloc, queue, cnt, filled>>
split_undone ==
  /\ call.pc = "up" /\ call.stack # <<>> /\ call.res.status = "enomem"
  /\ alloc' = alloc \ {Top.new}
  /\ call' = Caller("up")
  /\ UNCHANGED <<mem, root, height, queue, cnt, filled>>

insert_fails ==
  /\ call.pc = "up" /\ call.stack = <<>>
  /\ Finish(call.res.status, 0, NULL)
  /\ UNCHANGED <<mem, root, height, alloc, queue, cnt, filled>>

(* The kmalloc of the queue failed, and initQueue stores through NULL: the *)
(* new node is linked nowhere.                                             *)
initQueue_faults ==
  /\ \/ call.pc = "enter" /\ call.val # NULL /\ height < Level
     \/ AtGoal("place") /\ call.cur \in Node /\ ~ Duplicate /\ FillFrom = NoPairs
  /\ KmallocFails /\ alloc # Node
  /\ alloc' = alloc \cup {Fresh}
  /\ mem' = [mem EXCEPT ![Fresh] = EmptyNode]
  /\ Oops
  /\ UNCHANGED <<root, height, queue, cnt, filled>>

-----------------------------------------------------------------------------
(* cbtree_remove_level, rebalance, merge and cbtree_shrink *)

(* At level 1, the leaf does not hold the key.  An empty slot holds key 0. *)
(* No node at all is find_level's last BUG_ON.                             *)
Missing_everywhere == Position \notin matches(mem[call.cur], Key)
Missing == Level = 1 /\ Position \notin matches(mem[call.cur], Key)

remove_missing ==
  /\ AtGoal("erase")
  /\ IF call.cur \notin Node
     THEN Bug
     ELSE Missing /\ Finish("ok", call.ukey, NULL)
  /\ UNCHANGED <<mem, root, height, alloc, queue, cnt, filled>>

AtRoot_beyond == Level > height
AtRoot == Level >= height

(* Remove and shift.  Then, when the node is less than half full: above    *)
(* the root's level rebalance it with a neighbour, or with fill 0 take it  *)
(* out of its parent; the root of a taller tree with one child left goes.  *)
(* Removing never reaches past the root (lines 733-738, which would drop   *)
(* the tree), see NeverAboveRoot.                                          *)
remove_level ==
  /\ AtGoal("erase") /\ call.cur \in Node
  /\ ~ Missing
  /\ LET n == mem[call.cur]
         pairs == remove_pair(n, Position, FillFrom)
         left == FillFrom - 1
         ret == IF Level = 1 THEN n[Position].v ELSE call.res.val
         c == [call EXCEPT !.res.val = ret]
         below == left < Half
         freeing(kind) == Push([kind |-> kind, node |-> call.cur])
     IN /\ mem' = [mem EXCEPT ![call.cur] = pairs]
        /\ \/ /\ ~ below \/ (AtRoot /\ (left # 1 \/ height <= 1))
              /\ call' = [c EXCEPT !.pc = "unwind"]
              /\ UNCHANGED <<root, height>>
           \/ /\ below /\ ~ AtRoot /\ left # 0
              /\ call' = [FromRoot(c, "sibling") EXCEPT !.child = call.cur, !.fill = left]
              /\ UNCHANGED <<root, height>>
           \/ /\ below /\ ~ AtRoot /\ left = 0
              /\ call' = [FromRoot(c, "erase") EXCEPT !.stack = freeing("empty")]
              /\ UNCHANGED <<root, height>>
           \/ /\ below /\ AtRoot /\ left = 1 /\ height > 1
              /\ root' = pairs[0].v
              /\ height' = height - 1
              /\ call' = [c EXCEPT !.pc = "unwind", !.fill = 0, !.stack = freeing("shrink")]
  /\ UNCHANGED <<alloc, queue, cnt, filled>>

(* rebalance's view of the parent: the child's place in it, and the        *)
(* neighbour it can be merged with, the left one first.  (The neighbours   *)
(* of the child's slot are in use, so they lead to nodes.)                 *)
Place == getpos(mem[call.cur], Key)
Sibling(i) == mem[call.cur][i].v
FillOf(n) == getfill(mem[n], 0)
Fits(i) == /\ i \in Slot /\ Sibling(i) \in Node
           /\ call.fill + FillOf(Sibling(i)) <= NoPairs
MergesLeft == Place > 0 /\ Fits(Place - 1)
MergesRight == Place + 1 < getfill(mem[call.cur], Place) /\ Fits(Place + 1)

(* BUG_ON: the key does not lead to the child.                             *)
rebalance_bug ==
  \/ call.cur \notin Node
  \/ Place = NoPairs
  \/ Sibling(Place) # call.child

(* Move right's pairs to the end of left, let the larger of the two parent *)
(* slots point to right and the smaller one to left, and remove the larger *)
(* one; the key handed down is that parent slot itself.  right is freed    *)
(* when the removal has come back.                                         *)
merge_unswapped(left, lfill, right, rfill, lpos) ==
  /\ mem' = [mem EXCEPT ![left] = append_pairs(mem[left], lfill, mem[right], rfill)]
  /\ call' = [FromRoot(call, "erase") EXCEPT
       !.at = <<call.cur, lpos>>, !.child = NULL, !.fill = 0,
       !.stack = Push([kind |-> "merge", node |-> right])]
merge(left, lfill, right, rfill, lpos) ==
  /\ LET moved == [mem EXCEPT ![left] = append_pairs(mem[left], lfill, mem[right], rfill)]
         right_set == [moved EXCEPT ![call.cur][lpos].v = right]
     IN mem' = [right_set EXCEPT ![call.cur][lpos + 1].v = left]
  /\ call' = [FromRoot(call, "erase") EXCEPT
       !.at = <<call.cur, lpos>>, !.child = NULL, !.fill = 0,
       !.stack = Push([kind |-> "merge", node |-> right])]

rebalance ==
  /\ AtGoal("sibling")
  /\ IF rebalance_bug
     THEN Bug /\ UNCHANGED mem
     ELSE \/ /\ MergesLeft
             /\ merge(Sibling(Place - 1), FillOf(Sibling(Place - 1)), call.child, call.fill, Place - 1)
          \/ /\ ~ MergesLeft /\ MergesRight
             /\ merge(call.child, call.fill, Sibling(Place + 1), FillOf(Sibling(Place + 1)), Place)
          \/ /\ ~ MergesLeft /\ ~ MergesRight
             /\ call' = [call EXCEPT !.pc = "unwind", !.child = NULL, !.fill = 0]
             /\ UNCHANGED mem
  /\ UNCHANGED <<root, height, alloc, queue, cnt, filled>>

(* The removals have come back: freeQueue, then mempool_free, for each     *)
(* node on the stack.  freeQueue visits the entries from head->next round  *)
(* to head, one per step (call.fill counts them), and looks into the node  *)
(* of each: NULL faults.  The head entry itself has been kfreed by then.   *)
(* A node that reads as deleted is freed, any other has its SECOND LONG    *)
(* decremented, which is its second key and not the count.                 *)
Entry == Nth(queue[Top.node], call.fill + 1)
EntryNode == IF queue[Top.node] = NULL THEN NULL ELSE queue[Top.node].node[Entry]
Unwinding == call.pc = "unwind" /\ call.stack # <<>>

(* Before a deleted node is freed, its queue goes through freeQueue too,   *)
(* given as the queue where the slot that leads to it is meant: freeQueue  *)
(* takes the head entry for the queue and its node for the first entry.    *)
(* It returns at once when that is NULL; no queue, and a leaf taken for an *)
(* entry, fault.                                                           *)
PassesQueue(n) == queue[n] # NULL /\ queue[n].node[queue[n].head] = NULL

freeQueue_faults ==
  /\ Unwinding /\ call.fill < CacheLen
  /\ \/ EntryNode = NULL \/ call.fill = CacheLen - 1
     \/ /\ EntryNode \in Node /\ TRUE \in PastEnd
        /\ cnt[EntryNode] <= 1 /\ ~ PassesQueue(EntryNode)
  /\ Oops
  /\ UNCHANGED <<mem, root, height, alloc, queue, cnt, filled>>

freeQueue ==
  /\ Unwinding /\ call.fill < CacheLen
  /\ EntryNode # NULL
  /\ call' = [call EXCEPT !.fill = @ + 1]
  /\ \E deleted \in PastEnd :
       IF deleted /\ cnt[EntryNode] <= 1
       THEN PassesQueue(EntryNode) /\ alloc' = alloc \ {EntryNode} /\ UNCHANGED mem
       ELSE mem' = [mem EXCEPT ![EntryNode][1].k = Dec(@)] /\ UNCHANGED alloc
  /\ UNCHANGED <<root, height, queue, cnt, filled>>

(* cbtree_shrink frees the old root.  merge frees right when no cache      *)
(* counts it.  rebalance frees its variable right, which is NULL there,    *)
(* and so keeps the child.  (A counted node would be marked as deleted in  *)
(* the long past its end; only leaves are counted, and freeQueue never     *)
(* gets through the empty queue of a leaf.)                                *)
node_freed ==
  /\ Unwinding /\ call.fill = CacheLen
  /\ queue' = [queue EXCEPT ![Top.node] = NULL]
  /\ alloc' = alloc \ {n \in {Top.node} : \/ Top.kind = "shrink"
                                          \/ Top.kind = "merge" /\ cnt[n] = 0}
  /\ call' = [call EXCEPT !.fill = 0, !.stack = Tail(@)]
  /\ UNCHANGED <<mem, root, height, cnt, filled>>

(* Also where remove, get_prev and last return NULL at once.               *)
remove_returns ==
  /\ call.pc = "unwind" /\ call.stack = <<>>
  /\ Finish("ok", call.ukey, call.res.val)
  /\ UNCHANGED <<mem, root, height, alloc, queue, cnt, filled>>

-----------------------------------------------------------------------------
(* cbtree_lookup_node: down through the caches, and back up through        *)
(* setcache; cbtree_lookup and cbtree_update around it.                    *)

AnswerWith(n) == call' = [call EXCEPT !.pc = "answer", !.cur = n, !.h = 0]

(* The bottom of the recursion: an empty tree, or a leaf scanned for the   *)
(* key.  The answer is the leaf, not the value.                            *)
lookup_leaf ==
  /\ call.pc = "lookup" /\ call.h <= 1
  /\ IF call.h = 0
     THEN AnswerWith(NULL)
     ELSE IF call.cur \notin Node
     THEN Oops
     ELSE AnswerWith(IF matches(mem[call.cur], call.ukey) # {} THEN call.cur ELSE NULL)
  /\ UNCHANGED <<mem, root, height, alloc, queue, cnt, filled>>

(* An inner node: a cached leaf, or a miss that rotates the queue and      *)
(* walks on.                                                               *)
lookup_node ==
  /\ call.pc = "lookup" /\ call.h > 1
  /\ IF call.cur \notin Node
     THEN Oops /\ UNCHANGED queue
     ELSE IF queue[call.cur] = NULL
     THEN Oops /\ UNCHANGED queue
     ELSE \E found \in findNode(queue[call.cur], call.ukey) :
       \/ /\ found # NULL
          /\ AnswerWith(found)
          /\ UNCHANGED queue
       \/ /\ found = NULL
          /\ queue' = [queue EXCEPT ![call.cur] = Rotated(@)]
          /\ LET i == getpos(mem[call.cur], call.ukey)
             IN IF i = NoPairs \/ mem[call.cur][i].v = NULL
                THEN AnswerWith(NULL)
                ELSE call' = [call EXCEPT
                       !.cur = mem[call.cur][i].v, !.h = @ - 1,
                       !.stack = Push([kind |-> "lookup", node |-> call.cur])]
  /\ UNCHANGED <<mem, root, height, alloc, cnt, filled>>

(* On the way back every inner node remembers the leaf in the entry at     *)
(* head.  The entry's old node loses a reference; were it the last one to  *)
(* a deleted node, freeQueue is given the node where it expects the slot   *)
(* of its queue, and takes its first key for an address.                   *)
setcache ==
  /\ call.pc = "answer" /\ call.stack # <<>>
  /\ IF call.cur = NULL
     THEN call' = [call EXCEPT !.stack = Tail(@)] /\ UNCHANGED <<queue, cnt>>
     ELSE LET q == queue[Top.node]
              old == IF q = NULL THEN NULL ELSE q.node[q.head]
              dropped == IF old = NULL THEN cnt ELSE [cnt EXCEPT ![old] = Dec(@)]
              last == IF old = NULL THEN FALSE ELSE cnt[old] = 1
          IN \/ /\ q = NULL \/ (last /\ TRUE \in PastEnd)
                /\ Oops
                /\ UNCHANGED <<queue, cnt>>
             \/ /\ q # NULL /\ (~ last \/ FALSE \in PastEnd)
                /\ queue' = [queue EXCEPT ![Top.node] = Remembered(@, call.cur, call.ukey)]
                /\ cnt' = [dropped EXCEPT ![call.cur] = Inc(@)]
                /\ call' = [call EXCEPT !.stack = Tail(@)]
  /\ UNCHANGED <<mem, root, height, alloc, filled>>

lookup_returns ==
  /\ call.pc = "answer" /\ call.stack = <<>> /\ call.op = "lookup"
  /\ Finish("ok", 0, call.cur)
  /\ UNCHANGED <<mem, root, height, alloc, queue, cnt, filled>>

(* update scans the leaf it was given for the key, and sets its value.     *)
cbtree_update ==
  /\ call.pc = "answer" /\ call.stack = <<>> /\ call.op = "update"
  /\ LET slots == IF call.cur \in Node THEN matches(mem[call.cur], call.ukey) ELSE {}
     IN IF slots = {}
        THEN Finish("enoent", 0, NULL) /\ UNCHANGED mem
        ELSE /\ mem' = [mem EXCEPT ![call.cur][First(slots)].v = call.val]
             /\ Finish("ok", 0, NULL)
  /\ UNCHANGED <<root, height, alloc, queue, cnt, filled>>

-----------------------------------------------------------------------------
(* cbtree_get_prev and cbtree_last, which bypass the caches.               *)

(* A miss starts again below the last parent key seen, or gives up.        *)
Miss_again ==
  IF call.retry = NULL
  THEN Finish("ok", call.ukey, NULL)
  ELSE call' = [FromRoot(call, "prev") EXCEPT !.key = call.retry, !.retry = NULL]
Miss ==
  IF call.retry = NULL
  THEN Finish("ok", call.ukey, NULL)
  ELSE call' = [FromRoot(call, "prev") EXCEPT !.key = Dec(call.retry), !.retry = NULL]

prev_step ==
  /\ call.pc = "prev"
  /\ IF call.cur \notin Node
     THEN IF call.h <= 1 THEN Miss ELSE Oops
     ELSE LET n == mem[call.cur]
              i == getpos(n, call.key)
              none == i = NoPairs \/ n[i].v = NULL
          IN IF none THEN Miss
             ELSE IF call.h > 1
             THEN call' = [call EXCEPT !.cur = n[i].v, !.h = @ - 1, !.retry = n[i].k]
             ELSE Finish("ok", n[i].k, n[i].v)
  /\ UNCHANGED <<mem, root, height, alloc, queue, cnt, filled>>

last_step ==
  /\ call.pc = "last"
  /\ IF call.cur \notin Node
     THEN Oops
     ELSE LET p == mem[call.cur][0]
          IN IF call.h > 1
             THEN call' = [call EXCEPT !.cur = p.v, !.h = @ - 1]
             ELSE Finish("ok", p.k, p.v)
  /\ UNCHANGED <<mem, root, height, alloc, queue, cnt, filled>>

-----------------------------------------------------------------------------
(* cbtree_init leaves an empty head; no node has been handed out yet.      *)
Init ==
  /\ mem = [n \in Node |-> EmptyNode]
  /\ root = NULL
  /\ height = 0
  /\ alloc = {}
  /\ queue = [n \in Node |-> NULL]
  /\ cnt = [n \in Node |-> 0]
  /\ call = Idle
  /\ filled = 0

ClientStep ==
  \/ cbtree_insert \/ cbtree_remove \/ cbtree_lookup \/ cbtree_get_prev \/ cbtree_last

InsertStep ==
  \/ insert_level \/ cbtree_grow \/ grow_fails \/ insert_bug \/ insert_shift
  \/ insert_split \/ split_fails \/ split_moves \/ split_undone \/ insert_fails
  \/ initQueue_faults

RemoveStep ==
  \/ remove_missing \/ remove_level \/ rebalance \/ freeQueue_faults \/ freeQueue
  \/ node_freed \/ remove_returns

QueryStep ==
  \/ lookup_leaf \/ lookup_node \/ setcache \/ lookup_returns \/ cbtree_update
  \/ prev_step \/ last_step

LibraryStep == find_level \/ InsertStep \/ RemoveStep \/ QueryStep \/ Return

Next == ClientStep \/ LibraryStep

(* A call that has begun runs on: the library never sleeps or waits for    *)
(* another task.  Nothing obliges clients to call.                         *)
Spec == Init /\ [][Next]_vars /\ WF_vars(LibraryStep)

-----------------------------------------------------------------------------
(* The variables keep their C types, and the C stack holds the frames of   *)
(* the recursion that runs: a call that inserts, removes or looks up waits *)
(* for itself only, and a query that does not recurse for nothing.         *)
CallRecord ==
  [pc : {"idle", "enter", "place", "up", "erase", "sibling", "unwind",
         "lookup", "answer", "prev", "last", "done"},
   op : {"none", "insert", "remove", "lookup", "update", "get_prev", "last"},
   gfp : {"GFP_KERNEL", "GFP_ATOMIC"}, ukey : Long, key : Long, at : KeyPtr,
   val : Ptr, cur : Ptr, h : Int, child : Node \cup {NULL}, fill : Int,
   retry : Long \cup {NULL}, stack : Seq(SplitFrame \cup FreeFrame \cup LookupFrame),
   res : Result]

StackOK ==
  /\ call.pc \in {"enter", "place", "up"} => call.stack \in Seq(SplitFrame)
  /\ call.pc \in {"erase", "sibling", "unwind"} => call.stack \in Seq(FreeFrame)
  /\ call.pc \in {"lookup", "answer"} => call.stack \in Seq(LookupFrame)
  /\ call.pc \in {"idle", "prev", "last", "done"} => call.stack = <<>>

RegistersOK ==
  /\ call.pc = "sibling" => call.child # NULL /\ call.fill <= NoPairs
  /\ call.pc \in {"erase", "unwind"} => call.fill >= 0
  /\ call.pc = "answer" => call.cur \in Node \cup {NULL}

TypeOK ==
  /\ mem \in [Node -> [Slot -> [k : Long, v : Ptr]]]
  /\ root \in Ptr
  /\ height \in Int
  /\ alloc \subseteq Node
  /\ queue \in [Node -> Queue \cup {NULL}]
  /\ cnt \in [Node -> Long]
  /\ call \in CallRecord
  /\ filled \in 0 .. Len(Fill)
  /\ StackOK
  /\ RegistersOK

=============================================================================
