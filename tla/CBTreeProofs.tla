---------------------------- MODULE CBTreeProofs ----------------------------
(***************************************************************************)
(* Theorems about the tree for every geometry, every pool of nodes, every  *)
(* cache length and every set of calls.  First: the variables keep their   *)
(* types, and the C stack holds the frames of the recursion that runs.     *)
(*                                                                         *)
(* Then: a leaf counts the cache entries that refer to it (EntriesCounted) *)
(* as long as no removal has come to free a node.                          *)
(***************************************************************************)
EXTENDS CBTreeProps, CBTreeNodeProofs, SequenceTheorems, FiniteSetTheorems

AnyFrame == SplitFrame \cup FreeFrame \cup LookupFrame

LEMMA SeqSubset ==
  ASSUME NEW S, NEW T, S \subseteq T
  PROVE  Seq(S) \subseteq Seq(T)
<1> SUFFICES ASSUME NEW s \in Seq(S) PROVE s \in Seq(T)
  OBVIOUS
<1>1. \A i \in 1 .. Len(s) : s[i] \in T
  BY ElementOfSeq
<1> QED
  BY <1>1

LEMMA PushType ==
  ASSUME NEW T, NEW s \in Seq(T), NEW f \in T
  PROVE  <<f>> \o s \in Seq(T)
BY ConcatProperties

(* The stack of a call holds frames of some kind.                          *)
LEMMA StackOfFrames ==
  /\ Seq(SplitFrame) \subseteq Seq(AnyFrame)
  /\ Seq(FreeFrame) \subseteq Seq(AnyFrame)
  /\ Seq(LookupFrame) \subseteq Seq(AnyFrame)
  /\ <<>> \in Seq(SplitFrame) /\ <<>> \in Seq(FreeFrame) /\ <<>> \in Seq(LookupFrame)
BY SeqSubset DEF AnyFrame

(* A step that only moves the running call on.                             *)
LEMMA QuietStep ==
  ASSUME TypeOK, UNCHANGED <<mem, root, height, alloc, queue, cnt, filled>>,
         call' \in CallRecord, StackOK', RegistersOK'
  PROVE  TypeOK'
BY DEF TypeOK

LEMMA LongFacts ==
  /\ 0 \in Long
  /\ \A w \in Long : Dec(w) \in Long /\ Inc(w) \in Long
BY MaxLongAssumption DEF Long, Dec, Inc

LEMMA IdleType == Idle \in CallRecord
BY StackOfFrames, LongFacts
   DEF CallRecord, Idle, Result, NoResult, KeyPtr, Ptr, AnyFrame

LEMMA FinishType ==
  ASSUME TypeOK, NEW status \in {"ok", "enomem", "enoent", "bug", "oops"},
         NEW key \in Long, NEW val \in Ptr, Finish(status, key, val)
  PROVE  call' \in CallRecord /\ StackOK' /\ RegistersOK'
<1>1. call' = [Idle EXCEPT !.pc = "done", !.op = call.op, !.ukey = call.ukey, !.val = call.val,
                           !.res = [status |-> status, key |-> key, val |-> val]]
  BY DEF Finish
<1>2. call' \in CallRecord
  <2>1. call.op \in {"none", "insert", "remove", "lookup", "update", "get_prev", "last"}
        /\ call.ukey \in Long /\ call.val \in Ptr
    BY DEF TypeOK, CallRecord
  <2>2. [status |-> status, key |-> key, val |-> val] \in Result
    BY DEF Result
  <2> QED
    BY <1>1, <2>1, <2>2, IdleType DEF CallRecord
<1>3. call'.pc = "done" /\ call'.stack = <<>>
  BY <1>1 DEF Idle
<1>4. StackOK' /\ RegistersOK'
  BY <1>3 DEF StackOK, RegistersOK
<1> QED
  BY <1>2, <1>4

LEMMA FaultType ==
  ASSUME TypeOK, Bug \/ Oops
  PROVE  call' \in CallRecord /\ StackOK' /\ RegistersOK'
BY FinishType, LongFacts DEF Bug, Oops, Ptr

(* The key an activation works with is a key.                              *)
LEMMA KeyType ==
  ASSUME TypeOK
  PROVE  Key \in Long
BY DEF TypeOK, Key, CallRecord, KeyPtr

LEMMA MemType ==
  ASSUME TypeOK, NEW n \in Node
  PROVE  /\ mem[n] \in NodeOver(Ptr)
         /\ \A i \in Slot : mem[n][i].k \in Long /\ mem[n][i].v \in Ptr
BY DEF TypeOK, NodeOver

MemOver(V) == [Node -> NodeOver(V)]

LEMMA MemOverPtr ==
  ASSUME TypeOK
  PROVE  mem \in MemOver(Ptr)
BY DEF TypeOK, MemOver, NodeOver

LEMMA SetKeyType ==
  ASSUME NEW M \in MemOver(Ptr), NEW n \in Node, NEW i \in Slot, NEW key \in Long
  PROVE  [M EXCEPT ![n][i].k = key] \in MemOver(Ptr)
BY DEF MemOver, NodeOver

LEMMA SetValType ==
  ASSUME NEW M \in MemOver(Ptr), NEW n \in Node, NEW i \in Slot, NEW v \in Ptr
  PROVE  [M EXCEPT ![n][i].v = v] \in MemOver(Ptr)
BY DEF MemOver, NodeOver

LEMMA SetNodeType ==
  ASSUME NEW M \in MemOver(Ptr), NEW n \in Node, NEW pairs \in NodeOver(Ptr)
  PROVE  [M EXCEPT ![n] = pairs] \in MemOver(Ptr)
BY DEF MemOver, NodeOver

LEMMA FillType ==
  ASSUME TypeOK, call.cur \in Node
  PROVE  Position \in 0 .. NoPairs /\ FillFrom \in Position .. NoPairs
<1>1. Position \in 0 .. NoPairs
  BY KeyType, MemType, getposFinds DEF Position
<1>2. FillFrom \in Position .. NoPairs
  BY <1>1, MemType, getfillFinds DEF FillFrom
<1> QED
  BY <1>1, <1>2

THEOREM InitType == Init => TypeOK
<1> SUFFICES ASSUME Init PROVE TypeOK
  OBVIOUS
<1>1. mem \in [Node -> NodeOver(Ptr)]
  BY EmptyNodeType DEF Init, Ptr
<1>2. call \in CallRecord /\ StackOK /\ RegistersOK
  BY StackOfFrames, LongFacts
     DEF Init, CallRecord, Idle, Result, NoResult, KeyPtr, Ptr, AnyFrame, StackOK, RegistersOK
<1> QED
  BY <1>1, <1>2, LongFacts, CallsAssumption DEF Init, TypeOK, NodeOver, Ptr

-----------------------------------------------------------------------------
(* Calls and returns. *)

LEMMA StartType ==
  ASSUME TypeOK, NEW c \in CallType, NEW key \in Long,
         NEW pc \in {"enter", "unwind", "erase", "lookup", "prev", "last"},
         c \in Client, Start(c, pc, key)
  PROVE  TypeOK'
<1>1. call' = [Idle EXCEPT !.pc = pc, !.op = c.op, !.gfp = c.gfp, !.ukey = c.key,
                           !.key = key, !.val = c.val, !.cur = root, !.h = height]
  BY DEF Start
<1>2. call' \in CallRecord
  <2>1. /\ c.op \in {"insert", "remove", "lookup", "update", "get_prev", "last"}
        /\ c.gfp \in {"GFP_KERNEL", "GFP_ATOMIC"} /\ c.key \in Long /\ c.val \in Ptr
    BY DEF CallType, Ptr
  <2>2. root \in Ptr /\ height \in Int
    BY DEF TypeOK
  <2> QED
    BY <1>1, <2>1, <2>2, IdleType DEF CallRecord
<1>3. call'.pc = pc /\ call'.stack = <<>> /\ call'.fill = 0
  BY <1>1 DEF Idle
<1>4. StackOK' /\ RegistersOK'
  BY <1>3, StackOfFrames DEF StackOK, RegistersOK
<1>5. filled' \in 0 .. Len(Fill)
  BY CallsAssumption DEF Start, TypeOK
<1> QED
  BY <1>2, <1>4, <1>5 DEF Start, TypeOK

LEMMA ClientStepType ==
  ASSUME TypeOK, ClientStep
  PROVE  TypeOK'
<1>1. \A c \in Client : c \in CallType
  BY CallsAssumption, ElementOfSeq DEF Client, TypeOK
<1>2. \A c \in CallType : c.key \in Long /\ Dec(c.key) \in Long
  BY LongFacts DEF CallType
<1>3. CASE cbtree_insert
  BY <1>1, <1>3, StartType, LongFacts DEF cbtree_insert, Calling
<1>4. CASE cbtree_remove
  <2>1. PICK c \in Client : Start(c, IF height = 0 THEN "unwind" ELSE "erase", 0)
    BY <1>4 DEF cbtree_remove, Calling
  <2> QED
    BY <1>1, <2>1, StartType, LongFacts
<1>5. CASE cbtree_lookup
  BY <1>1, <1>5, StartType, LongFacts DEF cbtree_lookup, Calling
<1>6. CASE cbtree_get_prev
  <2>1. PICK c \in Client :
          Start(c, IF c.key = 0 \/ height = 0 THEN "unwind" ELSE "prev", Dec(c.key))
    BY <1>6 DEF cbtree_get_prev, Calling
  <2> QED
    BY <1>1, <1>2, <2>1, StartType
<1>7. CASE cbtree_last
  <2>1. PICK c \in Client : Start(c, IF height = 0 THEN "unwind" ELSE "last", 0)
    BY <1>7 DEF cbtree_last, Calling
  <2> QED
    BY <1>1, <2>1, StartType, LongFacts
<1> QED
  BY <1>3, <1>4, <1>5, <1>6, <1>7 DEF ClientStep

LEMMA ReturnType ==
  ASSUME TypeOK, Return
  PROVE  TypeOK'
BY IdleType, QuietStep DEF Return, StackOK, RegistersOK, Idle

-----------------------------------------------------------------------------
(* find_level and insertion. *)

LEMMA find_levelType ==
  ASSUME TypeOK, find_level
  PROVE  TypeOK'
<1> DEFINE n == mem[call.cur]
           i == getpos(n, Key)
           low == i = NoPairs \/ n[i].v = NULL
           j == IF low THEN i - 1 ELSE i
<1>1. UNCHANGED <<root, height, alloc, queue, cnt, filled>>
  BY DEF find_level
<1>2. CASE (Bug \/ Oops) /\ UNCHANGED mem
  BY <1>1, <1>2, FaultType, QuietStep
<1>3. CASE /\ call.cur \in Node /\ ~ (j < 0)
           /\ mem' = IF low THEN [mem EXCEPT ![call.cur][j].k = Key] ELSE mem
           /\ call' = [call EXCEPT !.cur = n[j].v, !.h = @ - 1]
  <2>1. i \in 0 .. NoPairs
    BY <1>3, KeyType, MemType, getposFinds
  <2>2. j \in Slot
    BY <1>3, <2>1, NoPairsAssumption DEF Slot
  <2>3. n[j].v \in Ptr
    BY <1>3, <2>2, MemType
  <2> HIDE DEF i, low, j, n
  <2>4. mem' \in MemOver(Ptr)
    BY <1>3, <2>2, KeyType, MemOverPtr, SetKeyType
  <2>5. call' \in CallRecord
    <3>1. call \in CallRecord /\ call.h - 1 \in Int
      BY DEF TypeOK, CallRecord
    <3>2. call' = [call EXCEPT !.cur = n[j].v, !.h = call.h - 1]
      BY <1>3, <3>1 DEF CallRecord
    <3> QED
      BY <2>3, <3>1, <3>2 DEF CallRecord
  <2>6. call'.pc = call.pc /\ call'.stack = call.stack /\ call'.fill = call.fill
        /\ call'.child = call.child
    BY <1>3 DEF TypeOK, CallRecord
  <2>7. StackOK' /\ RegistersOK'
    BY <2>6 DEF find_level, TypeOK, StackOK, RegistersOK
  <2> QED
    BY <1>1, <2>4, <2>5, <2>7 DEF TypeOK, MemOver, NodeOver
<1> QED
  BY <1>2, <1>3 DEF find_level


LEMMA AllocType ==
  ASSUME TypeOK, NEW pairs \in NodeOver(Ptr), cbtree_node_alloc(pairs)
  PROVE  /\ Fresh \in Node
         /\ mem' \in MemOver(Ptr)
         /\ alloc' \subseteq Node
         /\ queue' \in [Node -> Queue \cup {NULL}]
         /\ cnt' \in [Node -> Long]
<1>1. Fresh \in Node
  BY DEF TypeOK, cbtree_node_alloc, Fresh
<1>2. EmptyQueue \in Queue
  BY LongFacts, CacheLenAssumption DEF EmptyQueue, Queue, Pos
<1>3. mem' \in MemOver(Ptr)
  BY <1>1, MemOverPtr, SetNodeType DEF cbtree_node_alloc
<1>4. PICK q \in NewQueue : queue' = [queue EXCEPT ![Fresh] = q]
  BY DEF cbtree_node_alloc
<1>5. q \in Queue \cup {NULL}
  BY <1>2 DEF NewQueue
<1> QED
  BY <1>1, <1>3, <1>4, <1>5, LongFacts DEF TypeOK, cbtree_node_alloc

LEMMA insert_levelType ==
  ASSUME TypeOK, insert_level
  PROVE  TypeOK'
<1>1. CASE Bug
  BY <1>1, FaultType, QuietStep DEF insert_level
<1>2. CASE call' = FromRoot(call, "place")
  <2>1. call' \in CallRecord
    BY <1>2 DEF FromRoot, TypeOK, CallRecord
  <2>2. call'.pc = "place" /\ call'.stack = call.stack
    BY <1>2 DEF FromRoot, TypeOK, CallRecord
  <2>3. StackOK' /\ RegistersOK'
    BY <2>2 DEF insert_level, TypeOK, StackOK, RegistersOK
  <2> QED
    BY <2>1, <2>3, QuietStep DEF insert_level
<1> QED
  BY <1>1, <1>2 DEF insert_level

(* The new root that cbtree_grow fills in.                                 *)
LEMMA growPairsType ==
  ASSUME TypeOK
  PROVE  (IF root \in Node
          THEN [EmptyNode EXCEPT ![0] = [k |-> LastKey(mem[root]), v |-> root]]
          ELSE EmptyNode) \in NodeOver(Ptr)
<1>1. EmptyNode \in NodeOver(Ptr)
  BY EmptyNodeType DEF Ptr
<1>2. ASSUME root \in Node
      PROVE  LastKey(mem[root]) \in Long
  <2>1. getfill(mem[root], 0) \in 0 .. NoPairs
    BY <1>2, MemType, getfillFinds, NoPairsAssumption
  <2>2. getfill(mem[root], 0) # 0 => getfill(mem[root], 0) - 1 \in Slot
    BY <2>1, NoPairsAssumption DEF Slot
  <2> QED
    BY <1>2, <2>2, MemType, LongFacts DEF LastKey
<1>3. 0 \in Slot
  BY NoPairsAssumption DEF Slot
<1> QED
  BY <1>1, <1>2, <1>3 DEF NodeOver, Ptr

LEMMA cbtree_growType ==
  ASSUME TypeOK, cbtree_grow
  PROVE  TypeOK'
<1> DEFINE pairs == IF root \in Node
                    THEN [EmptyNode EXCEPT ![0] = [k |-> LastKey(mem[root]), v |-> root]]
                    ELSE EmptyNode
<1>1. pairs \in NodeOver(Ptr)
  BY growPairsType
<1>2. cbtree_node_alloc(pairs)
  BY DEF cbtree_grow
<1> HIDE DEF pairs
<1>3. Fresh \in Node /\ mem' \in MemOver(Ptr) /\ alloc' \subseteq Node
      /\ queue' \in [Node -> Queue \cup {NULL}] /\ cnt' \in [Node -> Long]
  BY <1>1, <1>2, AllocType
<1>4. root' \in Ptr /\ height' \in Int /\ filled' = filled
  BY <1>3 DEF cbtree_grow, TypeOK, Ptr
<1>5. call' \in CallRecord /\ call'.pc = "place" /\ call'.stack = call.stack
  <2>1. call \in CallRecord /\ height + 1 \in Int
    BY DEF TypeOK
  <2> QED
    BY <1>3, <2>1 DEF cbtree_grow, CallRecord, Ptr
<1>6. StackOK' /\ RegistersOK'
  BY <1>5 DEF cbtree_grow, TypeOK, StackOK, RegistersOK
<1> QED
  BY <1>3, <1>4, <1>5, <1>6 DEF TypeOK, MemOver, NodeOver

LEMMA AllocFailsType ==
  ASSUME TypeOK, grow_fails \/ split_fails
  PROVE  TypeOK'
<1>1. call' = [call EXCEPT !.pc = "up", !.res.status = "enomem"]
      /\ call.pc \in {"enter", "place"}
      /\ UNCHANGED <<mem, root, height, alloc, queue, cnt, filled>>
  BY DEF grow_fails, split_fails, AtGoal
<1>2. call' \in CallRecord /\ call'.pc = "up" /\ call'.stack = call.stack
  BY <1>1 DEF TypeOK, CallRecord, Result
<1>3. StackOK' /\ RegistersOK'
  BY <1>1, <1>2 DEF TypeOK, StackOK, RegistersOK
<1> QED
  BY <1>1, <1>2, <1>3, QuietStep

LEMMA insert_bugType ==
  ASSUME TypeOK, insert_bug
  PROVE  TypeOK'
BY FaultType, QuietStep DEF insert_bug

LEMMA insert_shiftType ==
  ASSUME TypeOK, insert_shift
  PROVE  TypeOK'
<1>1. call.cur \in Node /\ FillFrom < NoPairs /\ call.pc = "place"
  BY DEF insert_shift, AtGoal
<1>2. Position \in Slot /\ FillFrom \in Slot
  BY <1>1, FillType, NoPairsAssumption DEF Slot
<1>3. call.val \in Ptr
  BY DEF TypeOK, CallRecord
<1>4. insert_pair(mem[call.cur], Position, FillFrom, Key, call.val) \in NodeOver(Ptr)
  BY <1>1, <1>2, <1>3, KeyType, MemType, insert_pairType
<1>5. mem' \in MemOver(Ptr)
  BY <1>1, <1>4, MemOverPtr, SetNodeType DEF insert_shift
<1>6. call' \in CallRecord /\ StackOK' /\ RegistersOK'
  <2>1. CASE Finish("ok", 0, NULL)
    BY <2>1, FinishType, LongFacts DEF Ptr
  <2>2. CASE Goto("up")
    <3>1. call' \in CallRecord /\ call'.pc = "up" /\ call'.stack = call.stack
      BY <2>2 DEF Goto, TypeOK, CallRecord
    <3> QED
      BY <1>1, <3>1 DEF TypeOK, StackOK, RegistersOK
  <2> QED
    BY <2>1, <2>2 DEF insert_shift
<1> QED
  BY <1>5, <1>6 DEF insert_shift, TypeOK, MemOver, NodeOver

LEMMA insert_splitType ==
  ASSUME TypeOK, insert_split
  PROVE  TypeOK'
<1>1. call.cur \in Node /\ call.pc = "place" /\ cbtree_node_alloc(EmptyNode)
  BY DEF insert_split, AtGoal
<1>2. Fresh \in Node /\ mem' \in MemOver(Ptr) /\ alloc' \subseteq Node
      /\ queue' \in [Node -> Queue \cup {NULL}] /\ cnt' \in [Node -> Long]
  BY <1>1, AllocType, EmptyNodeType DEF Ptr
<1> DEFINE frame == [kind |-> "split", at |-> call.at, val |-> call.val,
                     node |-> call.cur, new |-> Fresh]
<1>3. call \in CallRecord /\ call.stack \in Seq(SplitFrame) /\ frame \in SplitFrame
  BY <1>1, <1>2 DEF TypeOK, CallRecord, StackOK, SplitFrame
<1>4. <<frame>> \o call.stack \in Seq(SplitFrame)
  BY <1>3, PushType
<1>5. <<call.cur, SplitSlot>> \in KeyPtr
  BY <1>1, NoPairsAssumption DEF KeyPtr, SplitSlot, Half, Slot
<1>6. call' = [call EXCEPT !.pc = "enter", !.at = <<call.cur, SplitSlot>>, !.val = Fresh,
                           !.stack = <<frame>> \o call.stack]
  BY DEF insert_split, Push
<1> HIDE DEF frame
<1>7. <<frame>> \o call.stack \in Seq(AnyFrame) /\ Fresh \in Ptr
  BY <1>2, <1>4, StackOfFrames DEF Ptr
<1>8. call' \in CallRecord /\ call'.pc = "enter" /\ call'.stack \in Seq(SplitFrame)
  BY <1>3, <1>4, <1>5, <1>6, <1>7 DEF CallRecord, AnyFrame
<1>9. StackOK' /\ RegistersOK'
  BY <1>8 DEF StackOK, RegistersOK
<1> QED
  BY <1>2, <1>8, <1>9 DEF insert_split, TypeOK, MemOver, NodeOver

(* A nested insertion that has come back restores its caller's registers.  *)
LEMMA CallerType ==
  ASSUME TypeOK, call.pc = "up", call.stack # <<>>, NEW pc \in {"up", "place"}
  PROVE  /\ Top \in SplitFrame
         /\ Caller(pc) \in CallRecord
         /\ Caller(pc).pc = pc
         /\ Caller(pc).stack \in Seq(SplitFrame)
<1>1. call \in CallRecord /\ call.stack \in Seq(SplitFrame)
  BY DEF TypeOK, StackOK
<1>2. Top \in SplitFrame /\ Tail(call.stack) \in Seq(SplitFrame)
  BY <1>1, HeadTailProperties DEF Top
<1>3. Tail(call.stack) \in Seq(AnyFrame) /\ Top.at \in KeyPtr /\ Top.val \in Ptr
  BY <1>2, StackOfFrames DEF SplitFrame
<1> QED
  BY <1>1, <1>2, <1>3 DEF Caller, CallRecord, AnyFrame

LEMMA split_movesType ==
  ASSUME TypeOK, split_moves
  PROVE  TypeOK'
<1>1. call.pc = "up" /\ call.stack # <<>>
  BY DEF split_moves
<1>2. Top.node \in Node /\ Top.new \in Node
  BY <1>1, CallerType DEF SplitFrame
<1>3. mem' \in MemOver(Ptr)
  <2>1. upper_half(mem[Top.node], mem[Top.new]) \in NodeOver(Ptr)
        /\ lower_half(mem[Top.node]) \in NodeOver(Ptr)
    BY <1>2, MemType, HalvesType DEF Ptr
  <2>2. mem' = [[mem EXCEPT ![Top.new] = upper_half(mem[Top.node], mem[Top.new])]
                EXCEPT ![Top.node] = lower_half(mem[Top.node])]
    BY DEF split_moves
  <2>3. [mem EXCEPT ![Top.new] = upper_half(mem[Top.node], mem[Top.new])] \in MemOver(Ptr)
    BY <1>2, <2>1, MemOverPtr, SetNodeType
  <2> QED
    BY <1>2, <2>1, <2>2, <2>3, SetNodeType
<1>4. call' = FromRoot(Caller("up"), "place") /\ root \in Ptr /\ height \in Int
  BY DEF split_moves, TypeOK
<1>5. call' \in CallRecord /\ call'.pc = "place" /\ call'.stack \in Seq(SplitFrame)
  <2>1. Caller("up") \in CallRecord /\ Caller("up").stack \in Seq(SplitFrame)
    BY <1>1, CallerType
  <2> QED
    BY <1>4, <2>1 DEF FromRoot, CallRecord
<1>6. StackOK' /\ RegistersOK'
  BY <1>5 DEF StackOK, RegistersOK
<1> QED
  BY <1>3, <1>5, <1>6 DEF split_moves, TypeOK, MemOver, NodeOver

LEMMA split_undoneType ==
  ASSUME TypeOK, split_undone
  PROVE  TypeOK'
<1>1. call.pc = "up" /\ call.stack # <<>> /\ call' = Caller("up")
  BY DEF split_undone
<1>2. call' \in CallRecord /\ call'.pc = "up" /\ call'.stack \in Seq(SplitFrame)
  BY <1>1, CallerType
<1>3. StackOK' /\ RegistersOK'
  BY <1>2 DEF StackOK, RegistersOK
<1> QED
  BY <1>2, <1>3 DEF split_undone, TypeOK

LEMMA insert_failsType ==
  ASSUME TypeOK, insert_fails
  PROVE  TypeOK'
<1>1. call.res.status \in {"ok", "enomem", "enoent", "bug", "oops"}
  BY DEF TypeOK, CallRecord, Result
<1> QED
  BY <1>1, FinishType, LongFacts, QuietStep DEF insert_fails, Ptr

LEMMA initQueue_faultsType ==
  ASSUME TypeOK, initQueue_faults
  PROVE  TypeOK'
<1>1. Fresh \in Node
  BY DEF initQueue_faults, Fresh, TypeOK
<1>2. mem' \in MemOver(Ptr)
  BY <1>1, MemOverPtr, SetNodeType, EmptyNodeType DEF initQueue_faults, Ptr
<1>3. call' \in CallRecord /\ StackOK' /\ RegistersOK'
  BY FaultType DEF initQueue_faults
<1> QED
  BY <1>1, <1>2, <1>3 DEF initQueue_faults, TypeOK, MemOver, NodeOver

LEMMA InsertStepType ==
  ASSUME TypeOK, InsertStep
  PROVE  TypeOK'
BY insert_levelType, cbtree_growType, AllocFailsType, insert_bugType, insert_shiftType,
   insert_splitType, split_movesType, split_undoneType, insert_failsType,
   initQueue_faultsType
   DEF InsertStep

-----------------------------------------------------------------------------
(* Removal. *)

LEMMA remove_missingType ==
  ASSUME TypeOK, remove_missing
  PROVE  TypeOK'
<1>1. call.ukey \in Long
  BY DEF TypeOK, CallRecord
<1>2. UNCHANGED <<mem, root, height, alloc, queue, cnt, filled>>
  BY DEF remove_missing
<1>3. CASE Bug
  BY <1>2, <1>3, FaultType, QuietStep
<1>4. CASE Finish("ok", call.ukey, NULL)
  BY <1>1, <1>2, <1>4, FinishType, QuietStep DEF Ptr
<1> QED
  BY <1>3, <1>4 DEF remove_missing

LEMMA remove_levelType ==
  ASSUME TypeOK, remove_level
  PROVE  TypeOK'
<1> DEFINE n == mem[call.cur]
           pairs == remove_pair(n, Position, FillFrom)
           left == FillFrom - 1
           ret == IF Level = 1 THEN n[Position].v ELSE call.res.val
           c == [call EXCEPT !.res.val = ret]
           freeing(kind) == Push([kind |-> kind, node |-> call.cur])
<1>1. call.pc = "erase" /\ call.cur \in Node /\ ~ Missing
      /\ UNCHANGED <<alloc, queue, cnt, filled>> /\ mem' = [mem EXCEPT ![call.cur] = pairs]
  BY DEF remove_level, AtGoal
<1>2. Position \in 0 .. NoPairs /\ FillFrom \in Position .. NoPairs
  BY <1>1, FillType
<1>3. pairs \in NodeOver(Ptr)
  <2>1. NULL \in Ptr /\ n \in NodeOver(Ptr) /\ FillFrom \in 0 .. NoPairs
    BY <1>1, <1>2, MemType DEF Ptr
  <2> QED
    BY <1>2, <2>1, remove_pairType
<1>4. mem' \in MemOver(Ptr)
  BY <1>1, <1>3, MemOverPtr, SetNodeType
<1>5. ret \in Ptr
  <2>1. CASE Level = 1
    <3>1. Position \in Slot
      BY <1>1, <2>1, matchesAreSlots DEF Missing
    <3> QED
      BY <1>1, <2>1, <3>1, MemType
  <2>2. CASE Level # 1
    BY <2>2 DEF TypeOK, CallRecord, Result
  <2> QED
    BY <2>1, <2>2
<1>6. pairs[0].v \in Ptr
  BY <1>3, NoPairsAssumption DEF NodeOver, Slot
<1>7. left \in Int /\ left <= NoPairs
  BY <1>2, NoPairsAssumption
<1>8. call \in CallRecord /\ call.stack \in Seq(FreeFrame) /\ call.fill >= 0
      /\ root \in Ptr /\ height \in Int
  BY <1>1 DEF TypeOK, StackOK, RegistersOK
<1>9. c \in CallRecord /\ c.stack = call.stack /\ c.fill = call.fill
  BY <1>5, <1>8 DEF CallRecord, Result
<1>10. \A kind \in {"empty", "shrink"} :
         freeing(kind) \in Seq(FreeFrame) /\ freeing(kind) \in Seq(AnyFrame)
  <2> SUFFICES ASSUME NEW kind \in {"empty", "shrink"}
               PROVE  freeing(kind) \in Seq(FreeFrame)
    BY StackOfFrames
  <2>1. [kind |-> kind, node |-> call.cur] \in FreeFrame
    BY <1>1 DEF FreeFrame
  <2> QED
    BY <1>8, <2>1, PushType DEF Push
<1> HIDE DEF n, pairs, left, ret, c, freeing
<1>11. CASE /\ call' = [c EXCEPT !.pc = "unwind"]
            /\ UNCHANGED <<root, height>>
  <2>1. call' \in CallRecord /\ call'.pc = "unwind" /\ call'.stack = call.stack
        /\ call'.fill = call.fill
    BY <1>9, <1>11 DEF CallRecord
  <2>2. StackOK' /\ RegistersOK'
    BY <1>8, <2>1 DEF StackOK, RegistersOK
  <2> QED
    BY <1>1, <1>4, <1>11, <2>1, <2>2 DEF TypeOK, MemOver, NodeOver
<1>12. CASE /\ call' = [FromRoot(c, "sibling") EXCEPT !.child = call.cur, !.fill = left]
            /\ UNCHANGED <<root, height>>
  <2>1. call' \in CallRecord /\ call'.pc = "sibling" /\ call'.stack = call.stack
        /\ call'.fill = left /\ call'.child = call.cur
    BY <1>1, <1>7, <1>8, <1>9, <1>12 DEF CallRecord, FromRoot
  <2>2. StackOK' /\ RegistersOK'
    BY <1>1, <1>7, <1>8, <2>1, NodeAssumption DEF StackOK, RegistersOK
  <2> QED
    BY <1>1, <1>4, <1>12, <2>1, <2>2 DEF TypeOK, MemOver, NodeOver
<1>13. CASE /\ call' = [FromRoot(c, "erase") EXCEPT !.stack = freeing("empty")]
            /\ UNCHANGED <<root, height>>
  <2>1. call' \in CallRecord /\ call'.pc = "erase" /\ call'.stack \in Seq(FreeFrame)
        /\ call'.fill = call.fill
    BY <1>8, <1>9, <1>10, <1>13 DEF CallRecord, FromRoot, AnyFrame
  <2>2. StackOK' /\ RegistersOK'
    BY <1>8, <2>1 DEF StackOK, RegistersOK
  <2> QED
    BY <1>1, <1>4, <1>13, <2>1, <2>2 DEF TypeOK, MemOver, NodeOver
<1>14. CASE /\ root' = pairs[0].v
            /\ height' = height - 1
            /\ call' = [c EXCEPT !.pc = "unwind", !.fill = 0, !.stack = freeing("shrink")]
  <2>0. freeing("shrink") \in Seq(FreeFrame) /\ freeing("shrink") \in Seq(AnyFrame)
    BY <1>10
  <2>1. call' \in CallRecord /\ call'.pc = "unwind" /\ call'.stack \in Seq(FreeFrame)
        /\ call'.fill = 0
    <3>1. call' \in CallRecord
      <4>1. \A f \in Int :
              [c EXCEPT !.pc = "unwind", !.fill = f, !.stack = freeing("shrink")] \in CallRecord
        BY <1>9, <2>0 DEF CallRecord, AnyFrame
      <4>2. 0 \in Int
        OBVIOUS
      <4> QED
        BY <1>14, <4>1, <4>2, Zenon
    <3>2. call'.pc = "unwind" /\ call'.stack = freeing("shrink") /\ call'.fill = 0
      BY <1>9, <1>14 DEF CallRecord
    <3> QED
      BY <2>0, <3>1, <3>2
  <2>2. StackOK' /\ RegistersOK'
    BY <2>1 DEF StackOK, RegistersOK
  <2>3. root' \in Ptr /\ height' \in Int
    BY <1>6, <1>8, <1>14
  <2> QED
    BY <1>1, <1>4, <2>1, <2>2, <2>3 DEF TypeOK, MemOver, NodeOver
<1> QED
  BY <1>11, <1>12, <1>13, <1>14 DEF remove_level, n, pairs, left, ret, c, freeing

(* Merging two nodes of the pool, given the parent's slots.                *)
LEMMA mergeType ==
  ASSUME TypeOK, call.pc = "sibling", call.cur \in Node, NEW left \in Node, NEW right \in Node,
         NEW lfill \in Int, NEW rfill \in Int, rfill <= NoPairs,
         NEW lpos \in Slot, lpos + 1 \in Slot,
         merge(left, lfill, right, rfill, lpos),
         UNCHANGED <<root, height, alloc, queue, cnt, filled>>
  PROVE  TypeOK'
<1>1. append_pairs(mem[left], lfill, mem[right], rfill) \in NodeOver(Ptr)
  BY MemType, append_pairsType
<1> DEFINE moved == [mem EXCEPT ![left] = append_pairs(mem[left], lfill, mem[right], rfill)]
           right_set == [moved EXCEPT ![call.cur][lpos].v = right]
<1>2. moved \in MemOver(Ptr)
  BY <1>1, MemOverPtr, SetNodeType
<1>3. mem' = [right_set EXCEPT ![call.cur][lpos + 1].v = left]
  BY DEF merge
<1> HIDE DEF moved
<1>4. mem' \in MemOver(Ptr)
  <2>1. left \in Ptr /\ right \in Ptr
    BY DEF Ptr
  <2>2. right_set \in MemOver(Ptr)
    BY <1>2, <2>1, SetValType
  <2> HIDE DEF right_set
  <2> QED
    BY <1>3, <2>1, <2>2, SetValType
<1> DEFINE frame == [kind |-> "merge", node |-> right]
           stack == <<frame>> \o call.stack
<1>5. call \in CallRecord /\ call.stack \in Seq(FreeFrame) /\ root \in Ptr /\ height \in Int
  BY DEF TypeOK, StackOK
<1>6. stack \in Seq(FreeFrame) /\ stack \in Seq(AnyFrame)
  <2>1. frame \in FreeFrame
    BY DEF FreeFrame
  <2> QED
    BY <1>5, <2>1, PushType, StackOfFrames
<1>7. call' = [FromRoot(call, "erase") EXCEPT !.at = <<call.cur, lpos>>, !.child = NULL,
                                              !.fill = 0, !.stack = stack]
  BY DEF merge, Push
<1> HIDE DEF frame, stack
<1>8. <<call.cur, lpos>> \in KeyPtr
  BY DEF KeyPtr
<1>9. call' \in CallRecord /\ call'.pc = "erase" /\ call'.stack = stack /\ call'.fill = 0
  <2>1. call' \in CallRecord
    <3>1. \A f \in Int :
            [FromRoot(call, "erase") EXCEPT !.at = <<call.cur, lpos>>, !.child = NULL,
                                            !.fill = f, !.stack = stack] \in CallRecord
      BY <1>5, <1>6, <1>8 DEF CallRecord, FromRoot, AnyFrame
    <3>2. 0 \in Int
      OBVIOUS
    <3> QED
      BY <1>7, <3>1, <3>2, Zenon
  <2>2. call'.pc = "erase" /\ call'.stack = stack /\ call'.fill = 0
    BY <1>5, <1>7 DEF CallRecord, FromRoot
  <2> QED
    BY <2>1, <2>2
<1>10. StackOK' /\ RegistersOK'
  BY <1>6, <1>9 DEF StackOK, RegistersOK
<1> QED
  BY <1>4, <1>9, <1>10 DEF TypeOK, MemOver, NodeOver

LEMMA FillOfType ==
  ASSUME TypeOK, NEW n \in Node
  PROVE  FillOf(n) \in 0 .. NoPairs
BY MemType, getfillFinds, NoPairsAssumption DEF FillOf

LEMMA rebalanceType ==
  ASSUME TypeOK, rebalance
  PROVE  TypeOK'
<1>1. call.pc = "sibling" /\ UNCHANGED <<root, height, alloc, queue, cnt, filled>>
  BY DEF rebalance, AtGoal
<1>2. CASE Bug /\ UNCHANGED mem
  BY <1>1, <1>2, FaultType, QuietStep
<1>3. call \in CallRecord /\ call.child \in Node /\ call.fill \in Int /\ call.fill <= NoPairs
      /\ call.stack \in Seq(FreeFrame)
  BY <1>1 DEF TypeOK, CallRecord, StackOK, RegistersOK
<1>4. ASSUME ~ rebalance_bug
      PROVE  call.cur \in Node /\ Place \in Slot
  <2>1. call.cur \in Node /\ Place # NoPairs
    BY <1>4 DEF rebalance_bug
  <2>2. Place \in 0 .. NoPairs
    BY <2>1, KeyType, MemType, getposFinds DEF Place
  <2> QED
    BY <2>1, <2>2, NoPairsAssumption DEF Slot
<1>5. CASE /\ ~ rebalance_bug /\ MergesLeft
           /\ merge(Sibling(Place - 1), FillOf(Sibling(Place - 1)), call.child, call.fill, Place - 1)
  <2>1. Place - 1 \in Slot /\ Sibling(Place - 1) \in Node /\ (Place - 1) + 1 \in Slot
    BY <1>4, <1>5 DEF MergesLeft, Fits, Slot
  <2>2. FillOf(Sibling(Place - 1)) \in Int
    BY <2>1, FillOfType
  <2> QED
    BY <1>1, <1>3, <1>4, <1>5, <2>1, <2>2, mergeType
<1>6. CASE /\ ~ rebalance_bug /\ MergesRight
           /\ merge(call.child, call.fill, Sibling(Place + 1), FillOf(Sibling(Place + 1)), Place)
  <2>1. Place + 1 \in Slot /\ Sibling(Place + 1) \in Node
    BY <1>6 DEF MergesRight, Fits
  <2>2. FillOf(Sibling(Place + 1)) \in Int /\ FillOf(Sibling(Place + 1)) <= NoPairs
    BY <2>1, FillOfType, NoPairsAssumption
  <2> QED
    BY <1>1, <1>3, <1>4, <1>6, <2>1, <2>2, mergeType
<1>7. CASE /\ call' = [call EXCEPT !.pc = "unwind", !.child = NULL, !.fill = 0]
           /\ UNCHANGED mem
  <2>0. call' \in CallRecord
    <3>1. \A f \in Int : [call EXCEPT !.pc = "unwind", !.child = NULL, !.fill = f] \in CallRecord
      BY <1>3 DEF CallRecord
    <3>2. 0 \in Int
      OBVIOUS
    <3> QED
      BY <1>7, <3>1, <3>2, Zenon
  <2>1. call'.pc = "unwind" /\ call'.stack = call.stack /\ call'.fill = 0
    BY <1>3, <1>7 DEF CallRecord
  <2>2. StackOK' /\ RegistersOK'
    BY <1>3, <2>1 DEF StackOK, RegistersOK
  <2> QED
    BY <1>1, <1>7, <2>0, <2>2, QuietStep
<1> QED
  BY <1>2, <1>5, <1>6, <1>7 DEF rebalance

LEMMA UnwindingType ==
  ASSUME TypeOK, Unwinding
  PROVE  /\ Top \in FreeFrame
         /\ Tail(call.stack) \in Seq(FreeFrame)
         /\ call \in CallRecord /\ call.fill \in Nat
BY HeadTailProperties DEF Unwinding, TypeOK, StackOK, RegistersOK, CallRecord, Top

LEMMA freeQueueType ==
  ASSUME TypeOK, freeQueue
  PROVE  TypeOK'
<1>1. Unwinding /\ EntryNode # NULL /\ UNCHANGED <<root, height, queue, cnt, filled>>
      /\ call' = [call EXCEPT !.fill = @ + 1]
  BY DEF freeQueue
<1>2. Top \in FreeFrame /\ call \in CallRecord /\ call.fill \in Nat
  BY <1>1, UnwindingType
<1>3. EntryNode \in Node
  <2>1. Top.node \in Node
    BY <1>2 DEF FreeFrame
  <2>2. queue[Top.node] \in Queue
    BY <1>1, <2>1 DEF TypeOK, EntryNode
  <2>3. Entry \in Pos
    <3>1. queue[Top.node].head \in Nat
      BY <2>2 DEF Queue, Pos
    <3>2. queue[Top.node].head + (call.fill + 1) \in Nat
      BY <1>2, <3>1
    <3>3. \A x \in Nat : x % CacheLen \in Pos
      BY CacheLenAssumption DEF Pos
    <3> QED
      BY <3>2, <3>3 DEF Entry, Nth
  <2>4. queue[Top.node] # NULL
    BY <1>1 DEF EntryNode
  <2> QED
    BY <1>1, <2>2, <2>3, <2>4 DEF EntryNode, Queue
<1>4. mem' \in MemOver(Ptr) /\ alloc' \subseteq Node
  <2>1. PICK deleted \in PastEnd :
          IF deleted /\ cnt[EntryNode] <= 1
          THEN PassesQueue(EntryNode) /\ alloc' = alloc \ {EntryNode} /\ UNCHANGED mem
          ELSE mem' = [mem EXCEPT ![EntryNode][1].k = Dec(@)] /\ UNCHANGED alloc
    BY DEF freeQueue
  <2>2. CASE alloc' = alloc \ {EntryNode} /\ UNCHANGED mem
    BY <2>2, MemOverPtr DEF TypeOK
  <2>3. CASE mem' = [mem EXCEPT ![EntryNode][1].k = Dec(@)] /\ UNCHANGED alloc
    <3>1. 1 \in Slot
      BY NoPairsAssumption DEF Slot
    <3>2. Dec(mem[EntryNode][1].k) \in Long
      BY <1>3, <3>1, MemType, LongFacts
    <3>3. mem' = [mem EXCEPT ![EntryNode][1].k = Dec(mem[EntryNode][1].k)]
      BY <2>3
    <3>4. mem' \in MemOver(Ptr)
      BY <1>3, <3>1, <3>2, <3>3, MemOverPtr, SetKeyType
    <3> QED
      BY <2>3, <3>4 DEF TypeOK
  <2> QED
    BY <2>1, <2>2, <2>3
<1>5. call' \in CallRecord /\ call'.pc = call.pc /\ call'.stack = call.stack /\ call'.fill \in Nat
  <2>1. call' = [call EXCEPT !.fill = call.fill + 1] /\ call.fill + 1 \in Nat
    BY <1>1, <1>2 DEF CallRecord
  <2>2. call' \in CallRecord
    BY <1>2, <2>1 DEF CallRecord
  <2>3. call'.pc = call.pc /\ call'.stack = call.stack /\ call'.fill = call.fill + 1
    BY <1>2, <2>1 DEF CallRecord
  <2> QED
    BY <2>1, <2>2, <2>3
<1>6. StackOK' /\ RegistersOK'
  BY <1>1, <1>5 DEF TypeOK, StackOK, RegistersOK, Unwinding
<1> QED
  BY <1>1, <1>4, <1>5, <1>6 DEF TypeOK, MemOver, NodeOver

LEMMA node_freedType ==
  ASSUME TypeOK, node_freed
  PROVE  TypeOK'
<1>1. Unwinding /\ call' = [call EXCEPT !.fill = 0, !.stack = Tail(@)]
  BY DEF node_freed
<1>2. Tail(call.stack) \in Seq(FreeFrame) /\ call \in CallRecord
  BY <1>1, UnwindingType
<1>3. Tail(call.stack) \in Seq(AnyFrame)
  BY <1>2, StackOfFrames
<1>4. call' = [call EXCEPT !.fill = 0, !.stack = Tail(call.stack)]
  BY <1>1, <1>2 DEF CallRecord
<1>5. call' \in CallRecord /\ call'.pc = call.pc /\ call'.stack \in Seq(FreeFrame) /\ call'.fill = 0
  <2>1. \A f \in Int : [call EXCEPT !.fill = f, !.stack = Tail(call.stack)] \in CallRecord
    BY <1>2, <1>3 DEF CallRecord, AnyFrame
  <2>2. call' \in CallRecord
    <3>1. 0 \in Int
      OBVIOUS
    <3> QED
      BY <1>4, <2>1, <3>1, Zenon
  <2>3. call'.pc = call.pc /\ call'.stack = Tail(call.stack) /\ call'.fill = 0
    BY <1>2, <1>4 DEF CallRecord
  <2> QED
    BY <1>2, <2>2, <2>3
<1>6. StackOK' /\ RegistersOK'
  BY <1>1, <1>5 DEF StackOK, RegistersOK, Unwinding
<1> QED
  BY <1>5, <1>6 DEF node_freed, TypeOK

LEMMA RemoveStepType ==
  ASSUME TypeOK, RemoveStep
  PROVE  TypeOK'
<1>1. CASE freeQueue_faults
  BY <1>1, FaultType, QuietStep DEF freeQueue_faults
<1>2. CASE remove_returns
  <2>1. call.ukey \in Long /\ call.res.val \in Ptr
    BY DEF TypeOK, CallRecord, Result
  <2> QED
    BY <1>2, <2>1, FinishType, QuietStep DEF remove_returns
<1> QED
  BY <1>1, <1>2, remove_missingType, remove_levelType, rebalanceType, freeQueueType,
     node_freedType DEF RemoveStep

-----------------------------------------------------------------------------
(* Lookups, updates and the two queries that bypass the caches. *)

(* A lookup that has its answer goes back up through the frames it left.   *)
LEMMA AnswerType ==
  ASSUME TypeOK, call.pc = "lookup", NEW n \in Node \cup {NULL}, AnswerWith(n)
  PROVE  call' \in CallRecord /\ StackOK' /\ RegistersOK'
<1>1. call \in CallRecord /\ call.stack \in Seq(LookupFrame) /\ n \in Ptr
  BY DEF TypeOK, StackOK, Ptr
<1>2. call' \in CallRecord
  <2>1. \A h \in Int : [call EXCEPT !.pc = "answer", !.cur = n, !.h = h] \in CallRecord
    BY <1>1 DEF CallRecord
  <2>2. 0 \in Int
    OBVIOUS
  <2> QED
    BY <2>1, <2>2, Zenon DEF AnswerWith
<1>3. call'.pc = "answer" /\ call'.cur = n /\ call'.stack = call.stack
  BY <1>1 DEF AnswerWith, CallRecord
<1> QED
  BY <1>1, <1>2, <1>3 DEF StackOK, RegistersOK

LEMMA lookup_leafType ==
  ASSUME TypeOK, lookup_leaf
  PROVE  TypeOK'
<1>1. CASE AnswerWith(NULL)
  BY <1>1, AnswerType, QuietStep DEF lookup_leaf
<1>2. CASE Oops
  BY <1>2, FaultType, QuietStep DEF lookup_leaf
<1>3. CASE call.cur \in Node
           /\ AnswerWith(IF matches(mem[call.cur], call.ukey) # {} THEN call.cur ELSE NULL)
  BY <1>3, AnswerType, QuietStep DEF lookup_leaf
<1> QED
  BY <1>1, <1>2, <1>3 DEF lookup_leaf

(* What findNode returns is an entry's node, or NULL.                      *)
LEMMA findNodeType ==
  ASSUME NEW q \in Queue, NEW key
  PROVE  findNode(q, key) \subseteq Node \cup {NULL}
<1>1. \A i \in Pos : Nth(q, i) \in Pos
  BY CacheLenAssumption DEF Queue, Pos, Nth
<1> QED
  BY <1>1 DEF findNode, Queue

LEMMA AfterType ==
  ASSUME NEW p \in Pos
  PROVE  After(p) \in Pos
BY CacheLenAssumption DEF Pos, After

LEMMA lookup_nodeType ==
  ASSUME TypeOK, lookup_node
  PROVE  TypeOK'
<1>1. call.pc = "lookup" /\ UNCHANGED <<mem, root, height, alloc, cnt, filled>>
  BY DEF lookup_node
<1>2. CASE Oops /\ UNCHANGED queue
  BY <1>1, <1>2, FaultType, QuietStep
<1>3. CASE /\ call.cur \in Node /\ queue[call.cur] # NULL
           /\ \E found \in findNode(queue[call.cur], call.ukey) :
                found # NULL /\ AnswerWith(found) /\ UNCHANGED queue
  <2>1. queue[call.cur] \in Queue
    BY <1>3 DEF TypeOK
  <2> QED
    BY <1>1, <1>3, <2>1, findNodeType, AnswerType, QuietStep
<1>4. CASE /\ call.cur \in Node /\ queue[call.cur] # NULL
           /\ queue' = [queue EXCEPT ![call.cur] = Rotated(@)]
           /\ LET i == getpos(mem[call.cur], call.ukey)
              IN IF i = NoPairs \/ mem[call.cur][i].v = NULL
                 THEN AnswerWith(NULL)
                 ELSE call' = [call EXCEPT
                        !.cur = mem[call.cur][i].v, !.h = @ - 1,
                        !.stack = Push([kind |-> "lookup", node |-> call.cur])]
  <2> DEFINE i == getpos(mem[call.cur], call.ukey)
             stack == Push([kind |-> "lookup", node |-> call.cur])
  <2>1. queue' \in [Node -> Queue \cup {NULL}]
    <3>1. queue[call.cur] \in Queue
      BY <1>4 DEF TypeOK
    <3>2. Rotated(queue[call.cur]) \in Queue
      BY <3>1, AfterType DEF Rotated, Queue
    <3> QED
      BY <1>4, <3>2 DEF TypeOK
  <2>2. CASE AnswerWith(NULL)
    BY <1>1, <2>1, <2>2, AnswerType DEF TypeOK
  <2>3. CASE /\ i # NoPairs
             /\ call' = [call EXCEPT !.cur = mem[call.cur][i].v, !.h = @ - 1, !.stack = stack]
    <3>1. call \in CallRecord /\ call.ukey \in Long /\ call.h - 1 \in Int
          /\ call.stack \in Seq(LookupFrame)
      BY <1>1 DEF TypeOK, CallRecord, StackOK
    <3>2. mem[call.cur][i].v \in Ptr
      <4>1. i \in Slot
        BY <1>4, <2>3, <3>1, MemType, getposFinds
      <4> QED
        BY <1>4, <4>1, MemType
    <3>3. stack \in Seq(LookupFrame) /\ stack \in Seq(AnyFrame)
      <4>1. [kind |-> "lookup", node |-> call.cur] \in LookupFrame
        BY <1>4 DEF LookupFrame
      <4> QED
        BY <3>1, <4>1, PushType, StackOfFrames DEF Push
    <3>4. call' = [call EXCEPT !.cur = mem[call.cur][i].v, !.h = call.h - 1, !.stack = stack]
      BY <2>3, <3>1 DEF CallRecord
    <3> HIDE DEF i, stack
    <3>5. call' \in CallRecord
      BY <3>1, <3>2, <3>3, <3>4 DEF CallRecord, AnyFrame
    <3>6. call'.pc = "lookup" /\ call'.stack = stack
      BY <1>1, <3>1, <3>4 DEF CallRecord
    <3>7. StackOK' /\ RegistersOK'
      BY <3>3, <3>6 DEF StackOK, RegistersOK
    <3> QED
      BY <1>1, <2>1, <3>5, <3>7 DEF TypeOK
  <2> QED
    BY <1>4, <2>2, <2>3
<1> QED
  BY <1>1, <1>2, <1>3, <1>4 DEF lookup_node

LEMMA setcacheType ==
  ASSUME TypeOK, setcache
  PROVE  TypeOK'
<1>1. call.pc = "answer" /\ call.stack # <<>> /\ UNCHANGED <<mem, root, height, alloc, filled>>
  BY DEF setcache
<1>2. Top \in LookupFrame /\ Tail(call.stack) \in Seq(LookupFrame) /\ call \in CallRecord
      /\ call.cur \in Node \cup {NULL} /\ call.ukey \in Long
  BY <1>1, HeadTailProperties DEF TypeOK, StackOK, RegistersOK, CallRecord, Top
<1>3. ASSUME call' = [call EXCEPT !.stack = Tail(@)]
      PROVE  call' \in CallRecord /\ StackOK' /\ RegistersOK'
  <2>1. Tail(call.stack) \in Seq(AnyFrame)
    BY <1>2, StackOfFrames
  <2>2. call' = [call EXCEPT !.stack = Tail(call.stack)]
    BY <1>2, <1>3 DEF CallRecord
  <2>3. call' \in CallRecord
    BY <1>2, <2>1, <2>2 DEF CallRecord, AnyFrame
  <2>4. call'.pc = "answer" /\ call'.stack = Tail(call.stack) /\ call'.cur = call.cur
    BY <1>1, <1>2, <2>2 DEF CallRecord
  <2> QED
    BY <1>2, <2>3, <2>4 DEF StackOK, RegistersOK
<1>4. CASE call' = [call EXCEPT !.stack = Tail(@)] /\ UNCHANGED <<queue, cnt>>
  BY <1>1, <1>3, <1>4, QuietStep
<1>5. CASE Oops /\ UNCHANGED <<queue, cnt>>
  BY <1>1, <1>5, FaultType, QuietStep
<1> DEFINE q == queue[Top.node]
           old == IF q = NULL THEN NULL ELSE q.node[q.head]
           dropped == IF old = NULL THEN cnt ELSE [cnt EXCEPT ![old] = Dec(@)]
<1>6. CASE /\ call.cur # NULL /\ q # NULL
           /\ queue' = [queue EXCEPT ![Top.node] = Remembered(@, call.cur, call.ukey)]
           /\ cnt' = [dropped EXCEPT ![call.cur] = Inc(@)]
           /\ call' = [call EXCEPT !.stack = Tail(@)]
  <2>1. Top.node \in Node /\ q \in Queue /\ call.cur \in Node
    BY <1>2, <1>6 DEF LookupFrame, TypeOK
  <2>2. Remembered(q, call.cur, call.ukey) \in Queue
    BY <1>2, <2>1, AfterType DEF Remembered, Queue
  <2>3. queue' \in [Node -> Queue \cup {NULL}]
    BY <1>6, <2>1, <2>2 DEF TypeOK
  <2>4. old \in Node \cup {NULL}
    BY <2>1 DEF Queue
  <2>5. dropped \in [Node -> Long]
    BY <2>4, LongFacts DEF TypeOK
  <2> HIDE DEF dropped
  <2>6. cnt' \in [Node -> Long]
    BY <1>6, <2>1, <2>5, LongFacts
  <2> QED
    BY <1>1, <1>3, <1>6, <2>3, <2>6 DEF TypeOK
<1> QED
  BY <1>4, <1>5, <1>6 DEF setcache

LEMMA cbtree_updateType ==
  ASSUME TypeOK, cbtree_update
  PROVE  TypeOK'
<1> DEFINE slots == IF call.cur \in Node THEN matches(mem[call.cur], call.ukey) ELSE {}
<1>1. CASE Finish("enoent", 0, NULL) /\ UNCHANGED mem
  BY <1>1, FinishType, LongFacts, QuietStep DEF cbtree_update, Ptr
<1>2. CASE /\ slots # {} /\ mem' = [mem EXCEPT ![call.cur][First(slots)].v = call.val]
           /\ Finish("ok", 0, NULL)
  <2>1. call.cur \in Node /\ call.val \in Ptr
    BY <1>2 DEF TypeOK, CallRecord
  <2>2. slots \subseteq Slot
    BY matchesAreSlots
  <2>3. First(slots) \in Slot
    BY <1>2, <2>2, FirstIsLeast, NoPairsAssumption DEF Slot
  <2>4. mem' \in MemOver(Ptr)
    BY <1>2, <2>1, <2>3, MemOverPtr, SetValType
  <2>5. call' \in CallRecord /\ StackOK' /\ RegistersOK'
    BY <1>2, FinishType, LongFacts DEF Ptr
  <2> QED
    BY <2>4, <2>5 DEF cbtree_update, TypeOK, MemOver, NodeOver
<1> QED
  BY <1>1, <1>2 DEF cbtree_update

LEMMA MissType ==
  ASSUME TypeOK, call.pc = "prev", Miss
  PROVE  call' \in CallRecord /\ StackOK' /\ RegistersOK'
<1>1. call \in CallRecord /\ call.stack = <<>> /\ call.ukey \in Long
      /\ root \in Ptr /\ height \in Int /\ call.retry \in Long \cup {NULL}
  BY DEF TypeOK, CallRecord, StackOK
<1>2. CASE Finish("ok", call.ukey, NULL)
  BY <1>1, <1>2, FinishType DEF Ptr
<1>3. CASE /\ call.retry # NULL
           /\ call' = [FromRoot(call, "prev") EXCEPT !.key = Dec(call.retry), !.retry = NULL]
  <2>1. Dec(call.retry) \in Long
    BY <1>1, <1>3, LongFacts
  <2>2. call' \in CallRecord
    BY <1>1, <1>3, <2>1 DEF CallRecord, FromRoot
  <2>3. call'.pc = "prev" /\ call'.stack = <<>>
    BY <1>1, <1>3 DEF CallRecord, FromRoot
  <2> QED
    BY <2>2, <2>3 DEF StackOK, RegistersOK
<1> QED
  BY <1>2, <1>3 DEF Miss

LEMMA prev_stepType ==
  ASSUME TypeOK, prev_step
  PROVE  TypeOK'
<1>1. call.pc = "prev" /\ UNCHANGED <<mem, root, height, alloc, queue, cnt, filled>>
  BY DEF prev_step
<1>2. CASE Miss
  BY <1>1, <1>2, MissType, QuietStep
<1>3. CASE Oops
  BY <1>1, <1>3, FaultType, QuietStep
<1> DEFINE i == getpos(mem[call.cur], call.key)
           p == mem[call.cur][i]
<1>4. ASSUME call.cur \in Node, i # NoPairs
      PROVE  p.k \in Long /\ p.v \in Ptr
  <2>1. call.key \in Long
    BY DEF TypeOK, CallRecord
  <2>2. i \in Slot
    BY <1>4, <2>1, MemType, getposFinds
  <2> QED
    BY <1>4, <2>2, MemType
<1>5. CASE /\ call.cur \in Node /\ i # NoPairs
           /\ call' = [call EXCEPT !.cur = p.v, !.h = @ - 1, !.retry = p.k]
  <2>1. call \in CallRecord /\ call.stack = <<>> /\ call.h - 1 \in Int
    BY <1>1 DEF TypeOK, CallRecord, StackOK
  <2>2. p.k \in Long /\ p.v \in Ptr
    BY <1>4, <1>5
  <2>3. call' = [call EXCEPT !.cur = p.v, !.h = call.h - 1, !.retry = p.k]
    BY <1>5, <2>1 DEF CallRecord
  <2> HIDE DEF p, i
  <2>4. call' \in CallRecord
    BY <2>1, <2>2, <2>3 DEF CallRecord
  <2>5. call'.pc = "prev" /\ call'.stack = <<>>
    BY <1>1, <2>1, <2>3 DEF CallRecord
  <2>6. StackOK' /\ RegistersOK'
    BY <2>5 DEF StackOK, RegistersOK
  <2> QED
    BY <1>1, <2>4, <2>6, QuietStep
<1>6. CASE call.cur \in Node /\ i # NoPairs /\ Finish("ok", p.k, p.v)
  BY <1>1, <1>4, <1>6, FinishType, QuietStep
<1> QED
  BY <1>2, <1>3, <1>5, <1>6 DEF prev_step

LEMMA last_stepType ==
  ASSUME TypeOK, last_step
  PROVE  TypeOK'
<1>1. call.pc = "last" /\ UNCHANGED <<mem, root, height, alloc, queue, cnt, filled>>
  BY DEF last_step
<1>2. CASE Oops
  BY <1>1, <1>2, FaultType, QuietStep
<1> DEFINE p == mem[call.cur][0]
<1>3. call.cur \in Node => p.k \in Long /\ p.v \in Ptr
  BY MemType, NoPairsAssumption DEF Slot
<1>4. CASE call.cur \in Node /\ call' = [call EXCEPT !.cur = p.v, !.h = @ - 1]
  <2>1. call \in CallRecord /\ call.stack = <<>> /\ call.h - 1 \in Int
    BY <1>1 DEF TypeOK, CallRecord, StackOK
  <2>2. call' = [call EXCEPT !.cur = p.v, !.h = call.h - 1]
    BY <1>4, <2>1 DEF CallRecord
  <2>3. call' \in CallRecord
    BY <1>3, <1>4, <2>1, <2>2 DEF CallRecord
  <2>4. call'.pc = "last" /\ call'.stack = <<>>
    BY <1>1, <2>1, <2>2 DEF CallRecord
  <2>5. StackOK' /\ RegistersOK'
    BY <2>4 DEF StackOK, RegistersOK
  <2> QED
    BY <1>1, <2>3, <2>5, QuietStep
<1>5. CASE call.cur \in Node /\ Finish("ok", p.k, p.v)
  BY <1>1, <1>3, <1>5, FinishType, QuietStep
<1> QED
  BY <1>2, <1>4, <1>5 DEF last_step

LEMMA QueryStepType ==
  ASSUME TypeOK, QueryStep
  PROVE  TypeOK'
<1>1. CASE lookup_returns
  <2>1. call.cur \in Ptr
    BY DEF TypeOK, CallRecord
  <2> QED
    BY <1>1, <2>1, FinishType, LongFacts, QuietStep DEF lookup_returns
<1> QED
  BY <1>1, lookup_leafType, lookup_nodeType, setcacheType, cbtree_updateType, prev_stepType,
     last_stepType DEF QueryStep

-----------------------------------------------------------------------------
(* Whatever calls are made, in whatever state the caches, the pool and the *)
(* memory past the nodes are, the code keeps the types of its data: slots  *)
(* and registers hold keys and pointers, the recursion of a call holds its *)
(* own frames only, and no index leaves its array.                         *)
THEOREM TypeCorrect == Spec => []TypeOK
<1>1. Init => TypeOK
  BY InitType
<1>2. TypeOK /\ [Next]_vars => TypeOK'
  <2> SUFFICES ASSUME TypeOK, [Next]_vars PROVE TypeOK'
    OBVIOUS
  <2>1. CASE ClientStep
    BY <2>1, ClientStepType
  <2>2. CASE find_level
    BY <2>2, find_levelType
  <2>3. CASE InsertStep
    BY <2>3, InsertStepType
  <2>4. CASE RemoveStep
    BY <2>4, RemoveStepType
  <2>5. CASE QueryStep
    BY <2>5, QueryStepType
  <2>6. CASE Return
    BY <2>6, ReturnType
  <2>7. CASE UNCHANGED vars
    BY <2>7 DEF vars, TypeOK, StackOK, RegistersOK
  <2> QED
    BY <2>1, <2>2, <2>3, <2>4, <2>5, <2>6, <2>7 DEF Next, LibraryStep
<1> QED
  BY <1>1, <1>2, PTL DEF Spec

-----------------------------------------------------------------------------
(* The entries that refer to a leaf. *)

(* No removal frees a node or its queue: freeQueue drops the entries of a  *)
(* filled queue without releasing the leaves that they count.              *)
NothingFreed == call.pc = "unwind" => UNCHANGED <<alloc, queue>>

Inserting == call.pc \in {"enter", "place", "up"}
LookingUp == call.pc \in {"lookup", "answer"}

(* Nothing but the C stack knows a node that is not in the pool's hands,   *)
(* or one that a split has just taken: no register and no slot leads to    *)
(* it, no cache remembers it, and its own queue is empty.  Handing such a  *)
(* node out, and its queue with it, therefore changes no account.          *)
Linked(n) ==
  \/ root = n \/ call.cur = n \/ call.child = n
  \/ \E m \in Node, i \in Slot : mem[m][i].v = n
Blank(n) == queue[n] # NULL => \A p \in Pos : queue[n].node[p] = NULL
Untouched(n) == ~ Linked(n) /\ Entries(n) = {} /\ Blank(n)

(* The new node of each split is awaited until the level above has stored  *)
(* it: the innermost one no longer when its insertion has succeeded.       *)
Delivered == call.pc = "up" /\ call.res.status = "ok"
Awaited(n) ==
  Inserting /\ \E i \in 1 .. Len(call.stack) :
                 call.stack[i].new = n /\ ~ (i = 1 /\ Delivered)
Loose(n) == n \notin alloc \/ Awaited(n)
HeapInv == \A n \in Node : Loose(n) => Untouched(n)

(* Each activation of cbtree_insert_level was handed the new node of the   *)
(* level below, the first one the client's value.                          *)
Chain ==
  Inserting =>
    /\ IF call.stack = <<>> THEN call.val \notin Node ELSE call.val = call.stack[1].new
    /\ \A i \in 1 .. Len(call.stack) :
         /\ call.stack[i].new \in alloc
         /\ IF i < Len(call.stack) THEN call.stack[i].val = call.stack[i + 1].new
                                   ELSE call.stack[i].val \notin Node
    /\ \A i, j \in 1 .. Len(call.stack) : i # j => call.stack[i].new # call.stack[j].new
    /\ call.pc # "up" => call.res.status = "ok"

(* A lookup has the client's value, and comes back to nodes in use.        *)
Asked ==
  LookingUp =>
    /\ call.val \notin Node
    /\ \A i \in 1 .. Len(call.stack) : call.stack[i].node \in alloc

Counted == \A n \in Node : cnt[n] = Cardinality(Entries(n))

CountInv == HeapInv /\ Chain /\ Asked /\ Counted

-----------------------------------------------------------------------------
(* Steps that leave the queues alone. *)

LEMMA SameEntries ==
  ASSUME UNCHANGED queue, NEW n \in Node
  PROVE  Entries(n)' = Entries(n) /\ Blank(n)' = Blank(n)
BY DEF Entries, Blank

LEMMA HeapStep ==
  ASSUME HeapInv,
         \A n \in Node : Loose(n)' => Loose(n) /\ (Linked(n)' => Linked(n)),
         \A n \in Node : Loose(n)' /\ Entries(n) = {} => Entries(n)' = {},
         \A n \in Node : Loose(n)' /\ Blank(n) => Blank(n)'
  PROVE  HeapInv'
<1> SUFFICES ASSUME NEW n \in Node, Loose(n)'
             PROVE  Untouched(n)'
  BY DEF HeapInv
<1>1. Loose(n) /\ (Linked(n)' => Linked(n))
  OBVIOUS
<1>2. Untouched(n)
  BY <1>1 DEF HeapInv
<1> QED
  BY <1>1, <1>2 DEF Untouched

LEMMA QuietHeap ==
  ASSUME HeapInv, UNCHANGED queue,
         \A n \in Node : Loose(n)' => Loose(n) /\ (Linked(n)' => Linked(n))
  PROVE  HeapInv'
<1>1. \A n \in Node : Entries(n)' = Entries(n) /\ Blank(n)' = Blank(n)
  BY SameEntries
<1> QED
  BY <1>1, HeapStep

LEMMA QuietCounts ==
  ASSUME Counted, UNCHANGED <<queue, cnt>>
  PROVE  Counted'
<1> SUFFICES ASSUME NEW n \in Node
             PROVE  cnt'[n] = Cardinality(Entries(n)')
  BY DEF Counted
<1>1. Entries(n)' = Entries(n)
  BY SameEntries
<1> QED
  BY <1>1 DEF Counted

(* What a step links comes from what was linked.                           *)
LEMMA NoNewLinks ==
  ASSUME root' \in Node => Linked(root'),
         call'.cur \in Node => Linked(call'.cur),
         call'.child \in Node => Linked(call'.child),
         \A m \in Node, i \in Slot :
           mem'[m][i].v \in Node => \E o \in Node, j \in Slot : mem[o][j].v = mem'[m][i].v
  PROVE  \A n \in Node : Linked(n)' => Linked(n)
<1> SUFFICES ASSUME NEW n \in Node, Linked(n)'
             PROVE  Linked(n)
  OBVIOUS
<1>1. CASE root' = n
  BY <1>1
<1>2. CASE call'.cur = n
  BY <1>2
<1>3. CASE call'.child = n
  BY <1>3
<1>4. ASSUME NEW m \in Node, NEW i \in Slot, mem'[m][i].v = n
      PROVE  Linked(n)
  BY <1>4 DEF Linked
<1> QED
  BY <1>1, <1>2, <1>3, <1>4 DEF Linked

(* A step that ends a call, or of a call that neither inserts nor looks    *)
(* up.                                                                     *)
LEMMA CalmStep ==
  ASSUME CountInv, alloc \subseteq alloc', UNCHANGED <<queue, cnt>>,
         call'.pc \notin {"enter", "place", "up", "lookup", "answer"},
         \A n \in Node : n \notin alloc' /\ Linked(n)' => Linked(n)
  PROVE  CountInv'
<1>1. ~ Inserting' /\ ~ LookingUp'
  BY DEF Inserting, LookingUp
<1>2. Chain' /\ Asked'
  BY <1>1 DEF Chain, Asked
<1>3. \A n \in Node : Loose(n)' => n \notin alloc'
  BY <1>1 DEF Loose, Awaited
<1>4. \A n \in Node : n \notin alloc' => Loose(n)
  BY DEF Loose
<1>5. HeapInv'
  BY <1>3, <1>4, QuietHeap DEF CountInv
<1> QED
  BY <1>2, <1>5, QuietCounts DEF CountInv

LEMMA FinishFields ==
  ASSUME NEW status, NEW key, NEW val, Finish(status, key, val)
  PROVE  /\ call'.pc = "done" /\ call'.cur = NULL /\ call'.child = NULL
         /\ call'.stack = <<>>
BY DEF Finish, Idle

(* A call that ends.                                                       *)
LEMMA EndStep ==
  ASSUME CountInv, UNCHANGED <<root, queue, cnt>>, alloc \subseteq alloc',
         \/ Bug \/ Oops \/ Return
         \/ \E status, key, val : Finish(status, key, val),
         \A m \in Node, i \in Slot :
           mem'[m][i].v \in Node => \E o \in Node, j \in Slot : mem[o][j].v = mem'[m][i].v
  PROVE  CountInv'
<1>1. call'.pc \in {"idle", "done"} /\ call'.cur = NULL /\ call'.child = NULL
  BY FinishFields DEF Bug, Oops, Return, Idle
<1>2. \A n \in Node : Linked(n)' => Linked(n)
  <2>1. root' \in Node => Linked(root')
    BY DEF Linked
  <2> QED
    BY <1>1, <2>1, NodeAssumption, NoNewLinks
<1> QED
  BY <1>1, <1>2, CalmStep

(* A step of an insertion that goes on with the same frames.               *)
LEMMA SameFrames ==
  ASSUME CountInv, call.pc \in {"enter", "place"}, UNCHANGED <<alloc, queue, cnt>>,
         call'.stack = call.stack, call'.val = call.val,
         \/ call'.pc \in {"enter", "place"} /\ call'.res = call.res
         \/ call'.pc = "up" /\ call'.res.status = "enomem",
         \A n \in Node : Linked(n)' => Linked(n)
  PROVE  CountInv'
<1>1. Inserting /\ Inserting' /\ ~ LookingUp' /\ ~ Delivered /\ ~ Delivered'
  BY DEF Inserting, LookingUp, Delivered
<1>2. Chain' /\ Asked'
  BY <1>1 DEF CountInv, Chain, Asked
<1>3. \A n \in Node : Loose(n)' => Loose(n)
  BY <1>1 DEF Loose, Awaited
<1>4. HeapInv'
  BY <1>3, QuietHeap DEF CountInv
<1> QED
  BY <1>2, <1>4, QuietCounts DEF CountInv

-----------------------------------------------------------------------------
(* Calls, and the walk that insertions and removals share. *)

LEMMA StartStep ==
  ASSUME CountInv, NEW c \in CallType, NEW pc, NEW key, Start(c, pc, key)
  PROVE  CountInv'
<1>1. /\ call'.stack = <<>> /\ call'.val = c.val /\ call'.cur = root /\ call'.child = NULL
      /\ call'.res = NoResult
  BY DEF Start, Idle
<1>2. UNCHANGED <<mem, root, alloc, queue, cnt>>
  BY DEF Start
<1>3. c.val \notin Node
  BY ValAssumption, NodeAssumption DEF CallType
<1>4. Len(call'.stack) = 0
  BY <1>1
<1>5. Chain' /\ Asked'
  BY <1>1, <1>3, <1>4 DEF Chain, Asked, NoResult
<1>6. \A n \in Node : ~ Awaited(n)'
  BY <1>4 DEF Awaited
<1>7. \A n \in Node : Linked(n)' => Linked(n)
  BY <1>1, <1>2, NodeAssumption DEF Linked
<1>8. HeapInv'
  BY <1>2, <1>6, <1>7, QuietHeap DEF CountInv, Loose
<1> QED
  BY <1>2, <1>5, <1>8, QuietCounts DEF CountInv

LEMMA ClientSteps ==
  ASSUME TypeOK, CountInv, ClientStep
  PROVE  CountInv'
<1>1. \A c \in Client : c \in CallType
  BY CallsAssumption, ElementOfSeq DEF Client, TypeOK
<1>2. CASE cbtree_insert
  BY <1>1, <1>2, StartStep DEF cbtree_insert, Calling
<1>3. CASE cbtree_remove
  <2>1. PICK c \in Client : Start(c, IF height = 0 THEN "unwind" ELSE "erase", 0)
    BY <1>3 DEF cbtree_remove, Calling
  <2> QED
    BY <1>1, <2>1, StartStep
<1>4. CASE cbtree_lookup
  BY <1>1, <1>4, StartStep DEF cbtree_lookup, Calling
<1>5. CASE cbtree_get_prev
  <2>1. PICK c \in Client :
          Start(c, IF c.key = 0 \/ height = 0 THEN "unwind" ELSE "prev", Dec(c.key))
    BY <1>5 DEF cbtree_get_prev, Calling
  <2> QED
    BY <1>1, <2>1, StartStep
<1>6. CASE cbtree_last
  <2>1. PICK c \in Client : Start(c, IF height = 0 THEN "unwind" ELSE "last", 0)
    BY <1>6 DEF cbtree_last, Calling
  <2> QED
    BY <1>1, <2>1, StartStep
<1> QED
  BY <1>2, <1>3, <1>4, <1>5, <1>6 DEF ClientStep

(* Setting keys, and moving on to a node that a slot leads to, links       *)
(* nothing new.                                                            *)
LEMMA SetKeyLinks ==
  ASSUME TypeOK, NEW n \in Node, NEW s \in Slot, NEW key,
         mem' = [mem EXCEPT ![n][s].k = key],
         NEW m \in Node, NEW i \in Slot
  PROVE  mem'[m][i].v = mem[m][i].v
BY DEF TypeOK

LEMMA find_levelCounts ==
  ASSUME TypeOK, CountInv, find_level
  PROVE  CountInv'
<1> DEFINE n == mem[call.cur]
           i == getpos(n, Key)
           low == i = NoPairs \/ n[i].v = NULL
           j == IF low THEN i - 1 ELSE i
<1>1. UNCHANGED <<root, height, alloc, queue, cnt, filled>>
      /\ call.pc \in {"place", "erase", "sibling"}
  BY DEF find_level
<1>2. CASE (Bug \/ Oops) /\ UNCHANGED mem
  BY <1>1, <1>2, EndStep
<1>3. CASE /\ call.cur \in Node /\ ~ (j < 0)
           /\ mem' = IF low THEN [mem EXCEPT ![call.cur][j].k = Key] ELSE mem
           /\ call' = [call EXCEPT !.cur = n[j].v, !.h = @ - 1]
  <2>1. i \in 0 .. NoPairs
    BY <1>3, KeyType, MemType, getposFinds
  <2>2. j \in Slot
    BY <1>3, <2>1, NoPairsAssumption DEF Slot
  <2> HIDE DEF i, low, j
  <2>3. /\ call'.pc = call.pc /\ call'.stack = call.stack /\ call'.val = call.val
        /\ call'.res = call.res /\ call'.child = call.child /\ call'.cur = mem[call.cur][j].v
    BY <1>3 DEF TypeOK, CallRecord
  <2>4. \A m \in Node, s \in Slot : mem'[m][s].v = mem[m][s].v
    BY <1>3, <2>2, SetKeyLinks
  <2>5. \A m \in Node : Linked(m)' => Linked(m)
    BY <1>1, <1>3, <2>2, <2>3, <2>4 DEF Linked
  <2>6. CASE call.pc = "place"
    BY <1>1, <2>3, <2>5, <2>6, SameFrames
  <2>7. CASE call.pc # "place"
    BY <1>1, <2>3, <2>5, <2>7, CalmStep
  <2> QED
    BY <2>6, <2>7
<1> QED
  BY <1>2, <1>3 DEF find_level

-----------------------------------------------------------------------------
(* Insertion. *)

LEMMA insert_levelCounts ==
  ASSUME TypeOK, CountInv, insert_level
  PROVE  CountInv'
<1>1. UNCHANGED <<mem, root, height, alloc, queue, cnt, filled>> /\ call.pc = "enter"
  BY DEF insert_level
<1>2. CASE Bug
  BY <1>1, <1>2, EndStep
<1>3. CASE call' = FromRoot(call, "place")
  <2>1. /\ call'.pc = "place" /\ call'.stack = call.stack /\ call'.val = call.val
        /\ call'.res = call.res /\ call'.child = call.child /\ call'.cur = root
    BY <1>3 DEF FromRoot, TypeOK, CallRecord
  <2>2. \A n \in Node : Linked(n)' => Linked(n)
    BY <1>1, <2>1 DEF Linked
  <2> QED
    BY <1>1, <2>1, <2>2, SameFrames
<1> QED
  BY <1>2, <1>3 DEF insert_level

LEMMA AllocFailsCounts ==
  ASSUME TypeOK, CountInv, grow_fails \/ split_fails
  PROVE  CountInv'
<1>1. call' = [call EXCEPT !.pc = "up", !.res.status = "enomem"]
      /\ call.pc \in {"enter", "place"}
      /\ UNCHANGED <<mem, root, height, alloc, queue, cnt, filled>>
  BY DEF grow_fails, split_fails, AtGoal
<1>2. /\ call'.pc = "up" /\ call'.stack = call.stack /\ call'.val = call.val
      /\ call'.res.status = "enomem" /\ call'.child = call.child /\ call'.cur = call.cur
  BY <1>1 DEF TypeOK, CallRecord, Result
<1>3. \A n \in Node : Linked(n)' => Linked(n)
  BY <1>1, <1>2 DEF Linked
<1> QED
  BY <1>1, <1>2, <1>3, SameFrames

(* The node that the pool hands out, and what it leaves as it was: every   *)
(* other node, and the entries of all caches.                              *)
LEMMA AllocCounts ==
  ASSUME TypeOK, CountInv, NEW pairs \in NodeOver(Ptr), cbtree_node_alloc(pairs)
  PROVE  /\ Fresh \in Node /\ Fresh \notin alloc /\ Untouched(Fresh)
         /\ alloc' = alloc \cup {Fresh}
         /\ mem' = [mem EXCEPT ![Fresh] = pairs]
         /\ \A n \in Node : Entries(n)' = Entries(n)
         /\ \A n \in Node : Blank(n) => Blank(n)'
         /\ Counted'
<1>1. Fresh \in Node /\ Fresh \notin alloc
  BY DEF TypeOK, cbtree_node_alloc, Fresh
<1>2. Untouched(Fresh)
  BY <1>1 DEF CountInv, HeapInv, Loose
<1>3. PICK q \in NewQueue : queue' = [queue EXCEPT ![Fresh] = q]
  BY DEF cbtree_node_alloc
<1>4. queue \in [Node -> Queue \cup {NULL}] /\ cnt \in [Node -> Long]
  BY DEF TypeOK
<1>5. q # NULL => \A p \in Pos : q.node[p] = NULL
  BY <1>3 DEF NewQueue, EmptyQueue
<1>6. \A n \in Node : Blank(n) => Blank(n)'
  BY <1>1, <1>3, <1>4, <1>5 DEF Blank
<1>7. ASSUME NEW n \in Node
      PROVE  Entries(n)' = Entries(n)
  <2>1. \A m \in Node, p \in Pos :
          queue'[m] # NULL /\ queue'[m].node[p] = n <=> queue[m] # NULL /\ queue[m].node[p] = n
    <3>1. ASSUME NEW m \in Node, NEW p \in Pos
          PROVE  queue'[m] # NULL /\ queue'[m].node[p] = n <=> queue[m] # NULL /\ queue[m].node[p] = n
      <4>1. CASE m # Fresh
        BY <1>3, <1>4, <4>1
      <4>2. CASE m = Fresh
        BY <1>1, <1>2, <1>3, <1>4, <1>5, <4>2, NodeAssumption DEF Untouched, Blank
      <4> QED
        BY <4>1, <4>2
    <3> QED
      BY <3>1
  <2>2. \A e \in Node \X Pos : e[1] \in Node /\ e[2] \in Pos
    OBVIOUS
  <2>3. \A e \in Node \X Pos : e \in Entries(n)' <=> e \in Entries(n)
    BY <2>1, <2>2 DEF Entries
  <2> QED
    BY <2>3 DEF Entries
<1>8. Counted'
  <2> SUFFICES ASSUME NEW n \in Node
               PROVE  cnt'[n] = Cardinality(Entries(n)')
    BY DEF Counted
  <2>1. cnt[n] = Cardinality(Entries(n))
    BY DEF CountInv, Counted
  <2>2. cnt' = [cnt EXCEPT ![Fresh] = 0]
    BY DEF cbtree_node_alloc
  <2>3. CASE n = Fresh
    BY <1>1, <1>2, <1>4, <1>7, <2>2, <2>3, FS_EmptySet DEF Untouched
  <2>4. CASE n # Fresh
    BY <1>4, <1>7, <2>1, <2>2, <2>4
  <2> QED
    BY <2>3, <2>4
<1> QED
  BY <1>1, <1>2, <1>6, <1>7, <1>8 DEF cbtree_node_alloc

LEMMA cbtree_growCounts ==
  ASSUME TypeOK, CountInv, cbtree_grow
  PROVE  CountInv'
<1> DEFINE pairs == IF root \in Node
                    THEN [EmptyNode EXCEPT ![0] = [k |-> LastKey(mem[root]), v |-> root]]
                    ELSE EmptyNode
<1>1. \A i \in Slot : pairs[i].v \in {root, NULL}
  BY DEF EmptyNode, Empty
<1>2. pairs \in NodeOver(Ptr)
  BY growPairsType
<1>3. cbtree_node_alloc(pairs)
  BY DEF cbtree_grow
<1> HIDE DEF pairs
<1>4. PICK a \in Node : a = Fresh
  BY <1>2, <1>3, AllocCounts
<1>5. /\ a \notin alloc /\ alloc' = alloc \cup {a} /\ mem' = [mem EXCEPT ![a] = pairs]
      /\ \A n \in Node : Entries(n)' = Entries(n)
      /\ \A n \in Node : Blank(n) => Blank(n)'
      /\ Counted'
  BY <1>2, <1>3, <1>4, AllocCounts
<1>6. /\ call.pc = "enter" /\ call'.pc = "place" /\ call'.stack = call.stack
      /\ call'.val = call.val /\ call'.res = call.res /\ call'.child = call.child
      /\ call'.cur = a /\ root' = a
  BY <1>4 DEF cbtree_grow, TypeOK, CallRecord
<1>7. Inserting /\ Inserting' /\ ~ LookingUp' /\ ~ Delivered /\ ~ Delivered'
  BY <1>6 DEF Inserting, LookingUp, Delivered
<1>8. \A i \in 1 .. Len(call.stack) : call.stack[i].new \in alloc
  BY <1>7 DEF CountInv, Chain
<1>9. Chain' /\ Asked'
  BY <1>5, <1>6, <1>7 DEF CountInv, Chain, Asked
<1>10. \A n \in Node : Loose(n)' => Loose(n) /\ n # a
  BY <1>5, <1>6, <1>7, <1>8 DEF Loose, Awaited
<1>11. ASSUME NEW n \in Node, n # a, Linked(n)'
       PROVE  Linked(n)
  <2>1. CASE call'.child = n
    BY <1>6, <2>1 DEF Linked
  <2>2. ASSUME NEW m \in Node, NEW i \in Slot, mem'[m][i].v = n
        PROVE  Linked(n)
    <3>1. CASE m = a
      <4>1. mem'[m] = pairs
        BY <1>5, <3>1 DEF TypeOK
      <4> QED
        BY <1>1, <2>2, <4>1, NodeAssumption DEF Linked
    <3>2. CASE m # a
      BY <1>5, <2>2, <3>2 DEF Linked, TypeOK
    <3> QED
      BY <3>1, <3>2
  <2> QED
    BY <1>6, <1>11, <2>1, <2>2 DEF Linked
<1>12. HeapInv'
  BY <1>5, <1>10, <1>11, HeapStep DEF CountInv
<1> QED
  BY <1>5, <1>9, <1>12 DEF CountInv

(* A queue that initQueue did not get leaves the node out of the tree.     *)
LEMMA initQueue_faultsCounts ==
  ASSUME TypeOK, CountInv, initQueue_faults
  PROVE  CountInv'
<1>1. alloc \subseteq alloc' /\ Oops /\ UNCHANGED <<root, queue, cnt>>
  BY DEF initQueue_faults
<1>2. \A m \in Node, i \in Slot :
        mem'[m][i].v \in Node => mem[m][i].v = mem'[m][i].v
  BY NodeAssumption DEF initQueue_faults, TypeOK, EmptyNode, Empty
<1>3. \A m \in Node, i \in Slot :
        mem'[m][i].v \in Node => \E o \in Node, j \in Slot : mem[o][j].v = mem'[m][i].v
  BY <1>2
<1> QED
  BY <1>1, <1>3, EndStep

LEMMA insert_pairLinks ==
  ASSUME NEW n, NEW pos \in Slot, NEW fill \in Slot, NEW key, NEW val, NEW i \in Slot
  PROVE  \/ insert_pair(n, pos, fill, key, val)[i].v = val
         \/ \E j \in Slot : insert_pair(n, pos, fill, key, val)[i].v = n[j].v
<1>1. i \in (pos + 1) .. fill => i - 1 \in Slot
  BY NoPairsAssumption DEF Slot
<1> QED
  BY <1>1 DEF insert_pair

LEMMA insert_shiftCounts ==
  ASSUME TypeOK, CountInv, insert_shift
  PROVE  CountInv'
<1> DEFINE pairs == insert_pair(mem[call.cur], Position, FillFrom, Key, call.val)
<1>1. /\ call.cur \in Node /\ FillFrom < NoPairs /\ call.pc = "place"
      /\ mem' = [mem EXCEPT ![call.cur] = pairs]
      /\ UNCHANGED <<root, height, alloc, queue, cnt, filled>>
  BY DEF insert_shift, AtGoal
<1>2. Position \in Slot /\ FillFrom \in Slot
  BY <1>1, FillType, NoPairsAssumption DEF Slot
<1>3. \A i \in Slot : pairs[i].v = call.val \/ \E j \in Slot : pairs[i].v = mem[call.cur][j].v
  BY <1>2, insert_pairLinks
<1> HIDE DEF pairs
<1>4. ASSUME NEW m \in Node, NEW i \in Slot
      PROVE  \/ mem'[m][i].v = call.val
             \/ \E o \in Node, j \in Slot : mem[o][j].v = mem'[m][i].v
  <2>1. CASE m = call.cur
    BY <1>1, <1>3, <2>1 DEF TypeOK
  <2>2. CASE m # call.cur
    BY <1>1, <2>2 DEF TypeOK
  <2> QED
    BY <2>1, <2>2
<1>5. Inserting /\ ~ Delivered
  BY <1>1 DEF Inserting, Delivered
<1>6. CASE call.stack = <<>> /\ Finish("ok", 0, NULL)
  <2>1. call.val \notin Node
    BY <1>5, <1>6 DEF CountInv, Chain
  <2>2. \A m \in Node, i \in Slot :
          mem'[m][i].v \in Node => \E o \in Node, j \in Slot : mem[o][j].v = mem'[m][i].v
    BY <1>4, <2>1
  <2> QED
    BY <1>1, <1>6, <2>2, EndStep
<1>7. CASE call.stack # <<>> /\ Goto("up")
  <2>1. /\ call'.pc = "up" /\ call'.stack = call.stack /\ call'.val = call.val
        /\ call'.res = call.res /\ call'.child = call.child /\ call'.cur = call.cur
    BY <1>7 DEF Goto, TypeOK, CallRecord
  <2>2. /\ call.val = call.stack[1].new /\ call.res.status = "ok"
        /\ \A i \in 1 .. Len(call.stack) : call.stack[i].new \in alloc
        /\ \A i, j \in 1 .. Len(call.stack) : i # j => call.stack[i].new # call.stack[j].new
    BY <1>1, <1>5, <1>7 DEF CountInv, Chain
  <2>3. 1 \in 1 .. Len(call.stack)
    <3>1. call.stack \in Seq(AnyFrame)
      BY DEF TypeOK, CallRecord, AnyFrame
    <3> QED
      BY <1>7, <3>1, EmptySeq
  <2>4. Inserting' /\ ~ LookingUp' /\ Delivered'
    BY <2>1, <2>2 DEF Inserting, LookingUp, Delivered
  <2>5. Chain' /\ Asked'
    BY <1>1, <1>5, <2>1, <2>4 DEF CountInv, Chain, Asked
  <2>6. \A n \in Node : Loose(n)' => Loose(n) /\ n # call.val
    BY <1>1, <1>5, <2>1, <2>2, <2>3, <2>4 DEF Loose, Awaited
  <2>7. \A n \in Node : n # call.val /\ Linked(n)' => Linked(n)
    BY <1>1, <1>4, <2>1 DEF Linked
  <2>8. HeapInv'
    BY <1>1, <2>6, <2>7, QuietHeap DEF CountInv
  <2> QED
    BY <1>1, <2>5, <2>8, QuietCounts DEF CountInv
<1> QED
  BY <1>6, <1>7 DEF insert_shift

(* The sibling that a full node gets is awaited from here on.              *)
LEMMA insert_splitCounts ==
  ASSUME TypeOK, CountInv, insert_split
  PROVE  CountInv'
<1>1. EmptyNode \in NodeOver(Ptr) /\ cbtree_node_alloc(EmptyNode)
  BY EmptyNodeType DEF insert_split, Ptr
<1>2. PICK a \in Node : a = Fresh
  BY <1>1, AllocCounts
<1>3. /\ a \notin alloc /\ Untouched(a)
      /\ alloc' = alloc \cup {a} /\ mem' = [mem EXCEPT ![a] = EmptyNode]
      /\ \A n \in Node : Entries(n)' = Entries(n)
      /\ \A n \in Node : Blank(n) => Blank(n)'
      /\ Counted'
  BY <1>1, <1>2, AllocCounts
<1>4. PICK f \in SplitFrame : f.val = call.val /\ f.new = a /\ call'.stack = <<f>> \o call.stack
  <2>1. call.cur \in Node /\ call.at \in KeyPtr /\ call.val \in Ptr
    BY DEF insert_split, TypeOK, CallRecord
  <2>2. [kind |-> "split", at |-> call.at, val |-> call.val, node |-> call.cur, new |-> a]
          \in SplitFrame
    BY <2>1 DEF SplitFrame
  <2>3. call'.stack = <<[kind |-> "split", at |-> call.at, val |-> call.val,
                         node |-> call.cur, new |-> a]>> \o call.stack
    BY <1>2 DEF insert_split, Push, TypeOK, CallRecord
  <2> QED
    BY <2>2, <2>3
<1>5. /\ call.pc = "place" /\ call'.pc = "enter" /\ call'.val = a /\ call'.res = call.res
      /\ call'.child = call.child /\ call'.cur = call.cur /\ root' = root
  BY <1>2 DEF insert_split, AtGoal, TypeOK, CallRecord
<1>6. Inserting /\ Inserting' /\ ~ LookingUp' /\ ~ Delivered /\ ~ Delivered'
  BY <1>5 DEF Inserting, LookingUp, Delivered
<1>7. call.stack \in Seq(SplitFrame)
  BY <1>5 DEF TypeOK, StackOK
<1>8. /\ Len(call'.stack) = Len(call.stack) + 1 /\ call'.stack[1] = f
      /\ \A i \in 2 .. Len(call.stack) + 1 : call'.stack[i] = call.stack[i - 1]
      /\ Len(call.stack) \in Nat
  BY <1>4, <1>7, ConcatProperties, LenProperties
<1>9. Chain' /\ Asked'
  <2>1. /\ IF call.stack = <<>> THEN call.val \notin Node ELSE call.val = call.stack[1].new
        /\ \A i \in 1 .. Len(call.stack) :
             /\ call.stack[i].new \in alloc
             /\ IF i < Len(call.stack) THEN call.stack[i].val = call.stack[i + 1].new
                                       ELSE call.stack[i].val \notin Node
        /\ \A i, j \in 1 .. Len(call.stack) : i # j => call.stack[i].new # call.stack[j].new
        /\ call.res.status = "ok"
    BY <1>5, <1>6 DEF CountInv, Chain
  <2>2. call'.stack # <<>> /\ call'.val = call'.stack[1].new
    BY <1>4, <1>5, <1>8
  <2>3. ASSUME NEW i \in 1 .. Len(call'.stack)
        PROVE  /\ call'.stack[i].new \in alloc'
               /\ IF i < Len(call'.stack) THEN call'.stack[i].val = call'.stack[i + 1].new
                                          ELSE call'.stack[i].val \notin Node
    <3>1. CASE i = 1
      <4>1. call.stack = <<>> <=> Len(call.stack) = 0
        BY <1>7, EmptySeq
      <4>2. Len(call.stack) # 0 => call'.stack[2] = call.stack[1]
        BY <1>8
      <4> QED
        BY <1>3, <1>4, <1>8, <2>1, <3>1, <4>1, <4>2
    <3>2. CASE i # 1
      <4>1. i - 1 \in 1 .. Len(call.stack) /\ call'.stack[i] = call.stack[i - 1]
        BY <1>8, <3>2
      <4>2. i < Len(call'.stack) => call'.stack[i + 1] = call.stack[(i - 1) + 1]
        BY <1>8, <3>2
      <4>3. i < Len(call'.stack) <=> i - 1 < Len(call.stack)
        BY <1>8
      <4> QED
        BY <1>3, <2>1, <4>1, <4>2, <4>3
    <3> QED
      BY <3>1, <3>2
  <2>4. ASSUME NEW i \in 1 .. Len(call'.stack), NEW j \in 1 .. Len(call'.stack), i < j
        PROVE  call'.stack[i].new # call'.stack[j].new
    <3>1. j - 1 \in 1 .. Len(call.stack) /\ call'.stack[j] = call.stack[j - 1]
      BY <1>8, <2>4
    <3>2. CASE i = 1
      BY <1>3, <1>4, <1>8, <2>1, <3>1, <3>2
    <3>3. CASE i # 1
      <4>1. i - 1 \in 1 .. Len(call.stack) /\ call'.stack[i] = call.stack[i - 1]
            /\ i - 1 # j - 1
        BY <1>8, <2>4, <3>3
      <4> QED
        BY <2>1, <3>1, <4>1
    <3> QED
      BY <3>2, <3>3
  <2>5. \A i, j \in 1 .. Len(call'.stack) : i # j => call'.stack[i].new # call'.stack[j].new
    <3>1. \A i, j \in 1 .. Len(call'.stack) : i # j => i < j \/ j < i
      OBVIOUS
    <3> QED
      BY <2>4, <3>1
  <2> QED
    BY <1>5, <1>6, <2>1, <2>2, <2>3, <2>5 DEF Chain, Asked
<1>10. ASSUME NEW n \in Node, Loose(n)'
       PROVE  Loose(n)
  <2>1. CASE n \notin alloc'
    BY <1>3, <2>1 DEF Loose
  <2>2. ASSUME NEW i \in 1 .. Len(call'.stack), call'.stack[i].new = n
        PROVE  Loose(n)
    <3>1. CASE i = 1
      BY <1>3, <1>4, <1>8, <2>2, <3>1 DEF Loose
    <3>2. CASE i # 1
      <4>1. i - 1 \in 1 .. Len(call.stack) /\ call.stack[i - 1].new = n
        BY <1>8, <2>2, <3>2
      <4> QED
        BY <1>6, <4>1 DEF Loose, Awaited
    <3> QED
      BY <3>1, <3>2
  <2> QED
    BY <1>10, <2>1, <2>2 DEF Loose, Awaited
<1>11. \A m \in Node, i \in Slot :
         mem'[m][i].v \in Node => mem[m][i].v = mem'[m][i].v
  BY <1>3, NodeAssumption DEF TypeOK, EmptyNode, Empty
<1>12. \A n \in Node : Linked(n)' => Linked(n)
  BY <1>5, <1>11 DEF Linked
<1>13. HeapInv'
  BY <1>3, <1>10, <1>12, HeapStep DEF CountInv
<1> QED
  BY <1>3, <1>9, <1>13 DEF CountInv

(* The registers and frames that a nested insertion leaves to its caller.  *)
LEMMA CallerFrames ==
  ASSUME TypeOK, call.pc = "up", call.stack # <<>>, NEW pc
  PROVE  /\ Caller(pc).pc = pc /\ Caller(pc).val = call.stack[1].val
         /\ Caller(pc).res = call.res /\ Caller(pc).child = call.child
         /\ Caller(pc).cur = call.cur
         /\ Caller(pc).stack = Tail(call.stack)
         /\ Top = call.stack[1]
         /\ Len(call.stack) \in Nat /\ 1 \in 1 .. Len(call.stack)
         /\ Len(Tail(call.stack)) = Len(call.stack) - 1
         /\ \A i \in 1 .. Len(call.stack) - 1 : Tail(call.stack)[i] = call.stack[i + 1]
<1>1. call \in CallRecord /\ call.stack \in Seq(SplitFrame)
  BY DEF TypeOK, StackOK
<1>2. Top = call.stack[1]
  BY DEF Top
<1> QED
  BY <1>1, <1>2, HeadTailProperties, EmptySeq, LenProperties DEF Caller, CallRecord

LEMMA CallerChain ==
  ASSUME TypeOK, CountInv, call.pc = "up", call.stack # <<>>,
         call'.pc \in {"up", "place"}, call'.val = call.stack[1].val,
         call'.stack = Tail(call.stack), call'.res = call.res,
         call'.pc = "place" => call.res.status = "ok",
         \A n \in alloc : n # call.stack[1].new => n \in alloc'
  PROVE  Chain' /\ Asked'
<1> DEFINE s == call.stack
           t == Tail(call.stack)
<1>1. Inserting /\ Inserting' /\ ~ LookingUp'
  BY DEF Inserting, LookingUp
<1>2. /\ Len(s) \in Nat /\ 1 \in 1 .. Len(s) /\ Len(t) = Len(s) - 1
      /\ \A i \in 1 .. Len(s) - 1 : t[i] = s[i + 1]
  BY CallerFrames
<1>3. /\ \A i \in 1 .. Len(s) :
           /\ s[i].new \in alloc
           /\ IF i < Len(s) THEN s[i].val = s[i + 1].new ELSE s[i].val \notin Node
      /\ \A i, j \in 1 .. Len(s) : i # j => s[i].new # s[j].new
  BY <1>1 DEF CountInv, Chain
<1>4. t \in Seq(SplitFrame)
  BY HeadTailProperties DEF TypeOK, StackOK
<1>5. IF t = <<>> THEN call'.val \notin Node ELSE call'.val = t[1].new
  <2>1. t = <<>> <=> Len(t) = 0
    BY <1>4, EmptySeq
  <2>2. ASSUME Len(t) # 0
        PROVE  t[1] = s[2] /\ s[1].val = s[2].new
    <3>1. PICK k \in Nat : k = Len(s) /\ Len(t) = k - 1
      BY <1>2
    <3>2. k > 1
      <4>1. 1 \in 1 .. k
        BY <1>2, <3>1
      <4>2. k - 1 # 0
        BY <2>2, <3>1
      <4> QED
        BY <4>1, <4>2
    <3>3. 1 \in 1 .. Len(s) - 1 /\ 1 < Len(s) /\ 1 + 1 = 2
      BY <3>1, <3>2
    <3> QED
      BY <1>2, <1>3, <3>3
  <2>3. Len(t) = 0 => s[1].val \notin Node
    BY <1>2, <1>3
  <2> QED
    BY <2>1, <2>2, <2>3
<1>6. ASSUME NEW i \in 1 .. Len(t)
      PROVE  /\ t[i].new \in alloc'
             /\ IF i < Len(t) THEN t[i].val = t[i + 1].new ELSE t[i].val \notin Node
  <2>1. i + 1 \in 1 .. Len(s) /\ i + 1 # 1 /\ t[i] = s[i + 1]
    BY <1>2
  <2>2. i < Len(t) => t[i + 1] = s[(i + 1) + 1]
    BY <1>2
  <2>3. i < Len(t) <=> i + 1 < Len(s)
    BY <1>2
  <2>4. t[i].new \in alloc'
    BY <1>2, <1>3, <2>1
  <2> QED
    BY <1>3, <2>1, <2>2, <2>3, <2>4
<1>7. ASSUME NEW i \in 1 .. Len(t), NEW j \in 1 .. Len(t), i # j
      PROVE  t[i].new # t[j].new
  <2>1. /\ i + 1 \in 1 .. Len(s) /\ j + 1 \in 1 .. Len(s) /\ i + 1 # j + 1
        /\ t[i] = s[i + 1] /\ t[j] = s[j + 1]
    BY <1>2, <1>7
  <2> QED
    BY <1>3, <2>1
<1>8. call'.stack = t
  OBVIOUS
<1> HIDE DEF t, s
<1> QED
  BY <1>1, <1>5, <1>6, <1>7, <1>8 DEF Chain, Asked

(* Both halves hold what the two nodes held.                               *)
LEMMA halvesLink ==
  ASSUME NEW n, NEW new, NEW i \in Slot
  PROVE  /\ upper_half(n, new)[i] \in {n[i], new[i]}
         /\ \/ lower_half(n)[i] = Empty
            \/ \E j \in Slot : lower_half(n)[i] = n[j]
<1>1. Half \in Nat
  BY NoPairsAssumption DEF Half
<1>2. i + Half < NoPairs => i + Half \in Slot
  BY <1>1, NoPairsAssumption DEF Slot
<1> QED
  BY <1>2 DEF upper_half, lower_half

LEMMA split_movesCounts ==
  ASSUME TypeOK, CountInv, split_moves
  PROVE  CountInv'
<1>1. /\ call.pc = "up" /\ call.stack # <<>> /\ call.res.status = "ok"
      /\ UNCHANGED <<root, height, alloc, queue, cnt, filled>>
      /\ call' = FromRoot(Caller("up"), "place")
  BY DEF split_moves
<1>2. PICK n \in Node, new \in Node :
        mem' = [mem EXCEPT ![new] = upper_half(mem[n], mem[new]), ![n] = lower_half(mem[n])]
  <2>1. Top.node \in Node /\ Top.new \in Node
    BY <1>1, CallerType DEF SplitFrame
  <2> QED
    BY <2>1 DEF split_moves
<1>3. /\ call'.pc = "place" /\ call'.val = call.stack[1].val /\ call'.res = call.res
      /\ call'.child = call.child /\ call'.cur = root /\ call'.stack = Tail(call.stack)
  <2>1. Caller("up") \in CallRecord
    BY <1>1, CallerType
  <2>2. /\ call'.pc = "place" /\ call'.val = Caller("up").val /\ call'.res = Caller("up").res
        /\ call'.child = Caller("up").child /\ call'.cur = root
        /\ call'.stack = Caller("up").stack
    BY <1>1, <2>1 DEF FromRoot, CallRecord
  <2> QED
    BY <1>1, <2>2, CallerFrames
<1>4. Chain' /\ Asked'
  BY <1>1, <1>3, CallerChain
<1>5. ASSUME NEW m \in Node, Loose(m)'
      PROVE  Loose(m)
  <2>1. CASE m \notin alloc'
    BY <1>1, <2>1 DEF Loose
  <2>2. ASSUME NEW i \in 1 .. Len(call'.stack), call'.stack[i].new = m
        PROVE  Loose(m)
    <3>1. i \in 1 .. Len(call.stack) - 1 /\ call'.stack[i] = call.stack[i + 1]
      BY <1>1, <1>3, CallerFrames
    <3>3. i + 1 \in 1 .. Len(call.stack) /\ i + 1 # 1 /\ call.stack[i + 1].new = m
      BY <1>1, <2>2, <3>1, CallerFrames
    <3>2. Inserting
      BY <1>1 DEF Inserting
    <3> QED
      BY <3>2, <3>3 DEF Loose, Awaited
  <2> QED
    BY <1>5, <2>1, <2>2 DEF Loose, Awaited
<1>6. ASSUME NEW m \in Node, NEW i \in Slot, mem'[m][i].v \in Node
      PROVE  \E o \in Node, j \in Slot : mem[o][j].v = mem'[m][i].v
  <2>1. CASE m = n
    <3>1. mem'[m][i] = lower_half(mem[n])[i]
      BY <1>2, <2>1 DEF TypeOK
    <3>2. mem'[m][i] # Empty
      BY <1>6, NodeAssumption DEF Empty
    <3>3. PICK j \in Slot : mem'[m][i] = mem[n][j]
      BY <3>1, <3>2, halvesLink
    <3> QED
      BY <3>3
  <2>2. CASE m # n /\ m = new
    <3>1. mem'[m] = upper_half(mem[n], mem[new])
      BY <1>2, <2>2 DEF TypeOK
    <3> QED
      BY <3>1, halvesLink
  <2>3. CASE m # n /\ m # new
    BY <1>2, <2>3 DEF TypeOK
  <2> QED
    BY <2>1, <2>2, <2>3
<1>7. \A m \in Node : Linked(m)' => Linked(m)
  BY <1>1, <1>3, <1>6, NoNewLinks DEF Linked
<1>8. HeapInv'
  BY <1>1, <1>5, <1>7, QuietHeap DEF CountInv
<1> QED
  BY <1>1, <1>4, <1>8, QuietCounts DEF CountInv

(* What was awaited goes back to the pool.                                 *)
LEMMA split_undoneCounts ==
  ASSUME TypeOK, CountInv, split_undone
  PROVE  CountInv'
<1>1. /\ call.pc = "up" /\ call.stack # <<>> /\ call.res.status = "enomem"
      /\ alloc' = alloc \ {Top.new} /\ call' = Caller("up")
      /\ UNCHANGED <<mem, root, height, queue, cnt, filled>>
  BY DEF split_undone
<1>2. /\ call'.pc = "up" /\ call'.val = call.stack[1].val /\ call'.res = call.res
      /\ call'.child = call.child /\ call'.cur = call.cur /\ call'.stack = Tail(call.stack)
      /\ Top = call.stack[1] /\ 1 \in 1 .. Len(call.stack)
  BY <1>1, CallerFrames
<1>3. Chain' /\ Asked'
  BY <1>1, <1>2, CallerChain
<1>4. Inserting /\ ~ Delivered
  BY <1>1 DEF Inserting, Delivered
<1>5. ASSUME NEW m \in Node, Loose(m)'
      PROVE  Loose(m)
  <2>1. CASE m \notin alloc'
    BY <1>1, <1>2, <1>4, <2>1 DEF Loose, Awaited
  <2>2. ASSUME NEW i \in 1 .. Len(call'.stack), call'.stack[i].new = m
        PROVE  Loose(m)
    <3>1. i \in 1 .. Len(call.stack) - 1 /\ call'.stack[i] = call.stack[i + 1]
      BY <1>1, <1>2, CallerFrames
    <3>2. i + 1 \in 1 .. Len(call.stack) /\ call.stack[i + 1].new = m
      BY <1>1, <2>2, <3>1, CallerFrames
    <3> QED
      BY <1>4, <3>2 DEF Loose, Awaited
  <2> QED
    BY <1>5, <2>1, <2>2 DEF Loose, Awaited
<1>6. \A m \in Node : Linked(m)' => Linked(m)
  BY <1>1, <1>2 DEF Linked
<1>7. HeapInv'
  BY <1>1, <1>5, <1>6, QuietHeap DEF CountInv
<1> QED
  BY <1>1, <1>3, <1>7, QuietCounts DEF CountInv

LEMMA InsertSteps ==
  ASSUME TypeOK, CountInv, InsertStep
  PROVE  CountInv'
<1>1. CASE insert_bug \/ insert_fails
  BY <1>1, EndStep DEF insert_bug, insert_fails
<1> QED
  BY <1>1, insert_levelCounts, cbtree_growCounts, AllocFailsCounts, insert_shiftCounts,
     insert_splitCounts, split_movesCounts, split_undoneCounts, initQueue_faultsCounts
     DEF InsertStep

-----------------------------------------------------------------------------
(* Removal. *)

LEMMA remove_pairLinks ==
  ASSUME NEW n \in NodeOver(Ptr), NEW pos \in 0 .. NoPairs, NEW fill \in 0 .. NoPairs,
         NEW i \in Slot, remove_pair(n, pos, fill)[i].v \in Node
  PROVE  \E j \in Slot : remove_pair(n, pos, fill)[i].v = n[j].v
<1>1. i \in pos .. (fill - 2) => i + 1 \in Slot
  BY NoPairsAssumption DEF Slot
<1>2. i # fill - 1
  BY NodeAssumption DEF remove_pair, Empty
<1>3. CASE i \in pos .. (fill - 2)
  BY <1>1, <1>2, <1>3 DEF remove_pair
<1>4. CASE i \notin pos .. (fill - 2)
  BY <1>2, <1>4 DEF remove_pair, NodeOver
<1> QED
  BY <1>3, <1>4

LEMMA remove_levelCounts ==
  ASSUME TypeOK, CountInv, remove_level
  PROVE  CountInv'
<1> DEFINE n == mem[call.cur]
           pairs == remove_pair(n, Position, FillFrom)
           left == FillFrom - 1
           ret == IF Level = 1 THEN n[Position].v ELSE call.res.val
           c == [call EXCEPT !.res.val = ret]
           freeing(kind) == Push([kind |-> kind, node |-> call.cur])
<1>1. call.pc = "erase" /\ call.cur \in Node
      /\ UNCHANGED <<alloc, queue, cnt, filled>> /\ mem' = [mem EXCEPT ![call.cur] = pairs]
  BY DEF remove_level, AtGoal
<1>2. \A i \in Slot : pairs[i].v \in Node => \E j \in Slot : pairs[i].v = n[j].v
  <2>1. Position \in 0 .. NoPairs /\ FillFrom \in 0 .. NoPairs /\ n \in NodeOver(Ptr)
    BY <1>1, FillType, MemType, NoPairsAssumption
  <2> QED
    BY <2>1, remove_pairLinks
<1>3. call \in CallRecord
  BY DEF TypeOK
<1> HIDE DEF pairs, left, ret, freeing
<1>4. /\ call'.pc \in {"unwind", "sibling", "erase"}
      /\ call'.cur \in {call.cur, root}
      /\ call'.child \in {call.child, call.cur}
      /\ root' \in {root, pairs[0].v}
  <2>1. CASE call' = [c EXCEPT !.pc = "unwind"] /\ UNCHANGED <<root, height>>
    BY <1>3, <2>1 DEF CallRecord
  <2>2. CASE call' = [FromRoot(c, "sibling") EXCEPT !.child = call.cur, !.fill = left]
             /\ UNCHANGED <<root, height>>
    BY <1>3, <2>2 DEF CallRecord, FromRoot
  <2>3. CASE call' = [FromRoot(c, "erase") EXCEPT !.stack = freeing("empty")]
             /\ UNCHANGED <<root, height>>
    BY <1>3, <2>3 DEF CallRecord, FromRoot
  <2>4. CASE root' = pairs[0].v
             /\ call' = [c EXCEPT !.pc = "unwind", !.fill = 0, !.stack = freeing("shrink")]
    BY <1>3, <2>4 DEF CallRecord
  <2> QED
    BY <2>1, <2>2, <2>3, <2>4 DEF remove_level, pairs, left, ret, freeing
<1>5. ASSUME NEW m \in Node, NEW i \in Slot, mem'[m][i].v \in Node
      PROVE  \E o \in Node, j \in Slot : mem[o][j].v = mem'[m][i].v
  <2>1. CASE m = call.cur
    <3>1. mem'[m][i] = pairs[i]
      BY <1>1, <2>1 DEF TypeOK
    <3> QED
      BY <1>1, <1>2, <1>5, <3>1
  <2>2. CASE m # call.cur
    BY <1>1, <2>2 DEF TypeOK
  <2> QED
    BY <2>1, <2>2
<1>6. root' \in Node => Linked(root')
  <2>1. 0 \in Slot
    BY NoPairsAssumption DEF Slot
  <2>2. pairs[0].v \in Node => \E j \in Slot : pairs[0].v = mem[call.cur][j].v
    BY <1>2, <2>1
  <2> QED
    BY <1>1, <1>4, <2>2 DEF Linked
<1>7. \A m \in Node : Linked(m)' => Linked(m)
  <2>1. call'.cur \in Node => Linked(call'.cur)
    BY <1>4 DEF Linked
  <2>2. call'.child \in Node => Linked(call'.child)
    BY <1>4 DEF Linked
  <2> QED
    BY <1>5, <1>6, <2>1, <2>2, NoNewLinks
<1> QED
  BY <1>1, <1>4, <1>7, CalmStep

LEMMA mergeCounts ==
  ASSUME TypeOK, CountInv, call.pc = "sibling", call.cur \in Node,
         NEW left \in Node, NEW right \in Node, Linked(left), Linked(right),
         NEW lfill \in Int, NEW rfill \in Int, rfill <= NoPairs,
         NEW lpos \in Slot, lpos + 1 \in Slot,
         merge(left, lfill, right, rfill, lpos),
         UNCHANGED <<root, height, alloc, queue, cnt, filled>>
  PROVE  CountInv'
<1> DEFINE pairs == append_pairs(mem[left], lfill, mem[right], rfill)
           moved == [mem EXCEPT ![left] = pairs]
           right_set == [moved EXCEPT ![call.cur][lpos].v = right]
<1>1. mem' = [right_set EXCEPT ![call.cur][lpos + 1].v = left]
  BY DEF merge
<1>2. pairs \in NodeOver(Ptr)
  BY MemType, append_pairsType
<1>3. ASSUME NEW i \in Slot
      PROVE  \E o \in Node, j \in Slot : pairs[i].v = mem[o][j].v
  <2>1. i \in lfill .. (lfill + rfill - 1) => i - lfill \in Slot
    BY <1>3, NoPairsAssumption DEF Slot
  <2> QED
    BY <2>1 DEF append_pairs
<1> HIDE DEF pairs
<1>4. moved \in MemOver(Ptr) /\ right_set \in MemOver(Ptr)
  <2>1. moved \in MemOver(Ptr)
    BY <1>2, MemOverPtr, SetNodeType
  <2> HIDE DEF moved
  <2>2. right \in Ptr
    BY DEF Ptr
  <2> QED
    BY <2>1, <2>2, SetValType
<1>5. ASSUME NEW m \in Node, NEW i \in Slot
      PROVE  moved[m][i].v = mem[m][i].v \/ moved[m][i].v = pairs[i].v
  BY DEF TypeOK
<1>6. ASSUME NEW m \in Node, NEW i \in Slot
      PROVE  right_set[m][i].v = moved[m][i].v \/ right_set[m][i].v = right
  <2> HIDE DEF moved
  <2> QED
    BY <1>4, <1>6 DEF MemOver, NodeOver
<1>7. ASSUME NEW m \in Node, NEW i \in Slot
      PROVE  mem'[m][i].v = right_set[m][i].v \/ mem'[m][i].v = left
  <2> HIDE DEF moved, right_set
  <2> QED
    BY <1>1, <1>4, <1>7 DEF MemOver, NodeOver
<1> HIDE DEF moved, right_set
<1>8. /\ call'.pc = "erase" /\ call'.cur = root /\ call'.child = NULL
  BY DEF merge, FromRoot, TypeOK, CallRecord
<1>9. ASSUME NEW n \in Node, Linked(n)'
      PROVE  Linked(n)
  <2>1. CASE n \in {root', call'.cur, call'.child}
    BY <1>8, <2>1, NodeAssumption DEF Linked
  <2>2. ASSUME NEW m \in Node, NEW i \in Slot, mem'[m][i].v = n
        PROVE  Linked(n)
    <3>1. n \in {left, right, mem[m][i].v, pairs[i].v}
      BY <1>5, <1>6, <1>7, <2>2
    <3>2. PICK o \in Node, j \in Slot : pairs[i].v = mem[o][j].v
      BY <1>3
    <3> QED
      BY <3>1, <3>2 DEF Linked
  <2> QED
    BY <1>9, <2>1, <2>2 DEF Linked
<1> QED
  BY <1>8, <1>9, CalmStep

LEMMA rebalanceCounts ==
  ASSUME TypeOK, CountInv, rebalance
  PROVE  CountInv'
<1>1. call.pc = "sibling" /\ UNCHANGED <<root, height, alloc, queue, cnt, filled>>
  BY DEF rebalance, AtGoal
<1>2. CASE Bug /\ UNCHANGED mem
  BY <1>1, <1>2, EndStep
<1>3. call \in CallRecord /\ call.child \in Node /\ call.fill \in Int /\ call.fill <= NoPairs
  BY <1>1 DEF TypeOK, CallRecord, RegistersOK
<1>4. ASSUME ~ rebalance_bug
      PROVE  call.cur \in Node /\ Place \in Slot
  <2>1. call.cur \in Node /\ Place # NoPairs
    BY <1>4 DEF rebalance_bug
  <2>2. Place \in 0 .. NoPairs
    BY <2>1, KeyType, MemType, getposFinds DEF Place
  <2> QED
    BY <2>1, <2>2, NoPairsAssumption DEF Slot
<1>5. /\ \A s \in Slot : ~ rebalance_bug => Linked(Sibling(s))
      /\ Linked(call.child)
  BY <1>4 DEF Linked, Sibling
<1>6. CASE /\ ~ rebalance_bug /\ MergesLeft
           /\ merge(Sibling(Place - 1), FillOf(Sibling(Place - 1)), call.child, call.fill, Place - 1)
  <2>1. Place - 1 \in Slot /\ Sibling(Place - 1) \in Node /\ (Place - 1) + 1 \in Slot
    BY <1>4, <1>6 DEF MergesLeft, Fits, Slot
  <2>2. FillOf(Sibling(Place - 1)) \in Int
    BY <2>1, FillOfType
  <2>3. Linked(Sibling(Place - 1))
    BY <1>5, <1>6, <2>1
  <2> QED
    BY <1>1, <1>3, <1>4, <1>5, <1>6, <2>1, <2>2, <2>3, mergeCounts
<1>7. CASE /\ ~ rebalance_bug /\ MergesRight
           /\ merge(call.child, call.fill, Sibling(Place + 1), FillOf(Sibling(Place + 1)), Place)
  <2>1. Place + 1 \in Slot /\ Sibling(Place + 1) \in Node
    BY <1>7 DEF MergesRight, Fits
  <2>2. FillOf(Sibling(Place + 1)) \in Int /\ FillOf(Sibling(Place + 1)) <= NoPairs
    BY <2>1, FillOfType, NoPairsAssumption
  <2>3. Linked(Sibling(Place + 1))
    BY <1>5, <1>7, <2>1
  <2> QED
    BY <1>1, <1>3, <1>4, <1>5, <1>7, <2>1, <2>2, <2>3, mergeCounts
<1>8. CASE /\ call' = [call EXCEPT !.pc = "unwind", !.child = NULL, !.fill = 0]
           /\ UNCHANGED mem
  <2>1. call'.pc = "unwind" /\ call'.cur = call.cur /\ call'.child = NULL
    BY <1>3, <1>8 DEF CallRecord
  <2>2. \A n \in Node : Linked(n)' => Linked(n)
    BY <1>1, <1>8, <2>1, NodeAssumption DEF Linked
  <2> QED
    BY <1>1, <2>1, <2>2, CalmStep
<1> QED
  BY <1>2, <1>6, <1>7, <1>8 DEF rebalance

(* While nothing is freed, unwinding a removal only touches keys.          *)
LEMMA UnwindingCounts ==
  ASSUME TypeOK, CountInv, freeQueue \/ node_freed, NothingFreed
  PROVE  CountInv'
<1>1. call.pc = "unwind" /\ UNCHANGED <<root, height, alloc, queue, cnt>>
  BY DEF freeQueue, node_freed, Unwinding, NothingFreed
<1>2. call'.pc = "unwind" /\ call'.cur = call.cur /\ call'.child = call.child
  BY <1>1 DEF freeQueue, node_freed, TypeOK, CallRecord
<1>3. ASSUME NEW m \in Node, NEW i \in Slot
      PROVE  mem'[m][i].v = mem[m][i].v
  <2>1. CASE UNCHANGED mem
    BY <2>1
  <2>2. CASE mem' = [mem EXCEPT ![EntryNode][1].k = Dec(@)]
    BY <2>2 DEF TypeOK
  <2> QED
    BY <2>1, <2>2 DEF freeQueue, node_freed
<1>4. \A n \in Node : Linked(n)' => Linked(n)
  BY <1>1, <1>2, <1>3 DEF Linked
<1> QED
  BY <1>1, <1>2, <1>4, CalmStep

LEMMA RemoveSteps ==
  ASSUME TypeOK, CountInv, RemoveStep, NothingFreed
  PROVE  CountInv'
<1>1. CASE remove_missing \/ freeQueue_faults \/ remove_returns
  BY <1>1, EndStep DEF remove_missing, freeQueue_faults, remove_returns
<1> QED
  BY <1>1, remove_levelCounts, rebalanceCounts, UnwindingCounts DEF RemoveStep

-----------------------------------------------------------------------------
(* Lookups. *)

(* What a slot or a register leads to, and what a cache remembers, is in   *)
(* use.                                                                    *)
LEMMA LinkedInUse ==
  ASSUME CountInv, NEW n \in Node, Linked(n) \/ Entries(n) # {}
  PROVE  n \in alloc /\ ~ Loose(n)
BY DEF CountInv, HeapInv, Untouched, Loose

LEMMA LookStep ==
  ASSUME CountInv, call.pc \in {"lookup", "answer"}, call'.pc \in {"lookup", "answer"},
         call'.val = call.val, UNCHANGED <<alloc, queue, cnt>>,
         \A i \in 1 .. Len(call'.stack) : call'.stack[i].node \in alloc,
         \A n \in Node : Linked(n)' /\ ~ Linked(n) => n \in alloc
  PROVE  CountInv'
<1>1. LookingUp /\ LookingUp' /\ ~ Inserting /\ ~ Inserting'
  BY DEF Inserting, LookingUp
<1>2. Chain' /\ Asked'
  BY <1>1 DEF CountInv, Chain, Asked
<1>3. \A n \in Node : Loose(n)' => Loose(n) /\ n \notin alloc
  BY <1>1 DEF Loose, Awaited
<1>4. HeapInv'
  BY <1>3, QuietHeap DEF CountInv
<1> QED
  BY <1>2, <1>4, QuietCounts DEF CountInv

LEMMA AnswerFields ==
  ASSUME TypeOK, NEW n, AnswerWith(n)
  PROVE  /\ call'.pc = "answer" /\ call'.cur = n /\ call'.stack = call.stack
         /\ call'.val = call.val /\ call'.child = call.child
BY DEF TypeOK, CallRecord, AnswerWith

LEMMA AnswerCounts ==
  ASSUME TypeOK, CountInv, call.pc = "lookup", NEW n, n \in Node => n \in alloc,
         AnswerWith(n), UNCHANGED <<mem, root, alloc, queue, cnt>>
  PROVE  CountInv'
<1>1. /\ call'.pc = "answer" /\ call'.cur = n /\ call'.stack = call.stack
      /\ call'.val = call.val /\ call'.child = call.child
  BY AnswerFields
<1>2. \A i \in 1 .. Len(call.stack) : call.stack[i].node \in alloc
  BY DEF CountInv, Asked, LookingUp
<1>3. \A m \in Node : Linked(m)' /\ ~ Linked(m) => m = n
  BY <1>1 DEF Linked
<1> QED
  BY <1>1, <1>2, <1>3, LookStep

LEMMA lookup_leafCounts ==
  ASSUME TypeOK, CountInv, lookup_leaf
  PROVE  CountInv'
<1>1. call.pc = "lookup" /\ UNCHANGED <<mem, root, height, alloc, queue, cnt, filled>>
  BY DEF lookup_leaf
<1>2. CASE Oops
  BY <1>1, <1>2, EndStep
<1>3. CASE AnswerWith(NULL)
  BY <1>1, <1>3, NodeAssumption, AnswerCounts
<1>4. CASE AnswerWith(call.cur)
  BY <1>1, <1>4, LinkedInUse, AnswerCounts DEF Linked
<1> QED
  BY <1>2, <1>3, <1>4 DEF lookup_leaf

(* A node that findNode returns is an entry.                               *)
LEMMA foundIsEntry ==
  ASSUME NEW m \in Node, queue[m] \in Queue, queue[m] # NULL,
         NEW key, NEW n \in findNode(queue[m], key), n # NULL
  PROVE  Entries(n) # {}
<1>1. PICK i \in Pos : n = queue[m].node[Nth(queue[m], i)]
  BY DEF findNode
<1>2. Nth(queue[m], i) \in Pos
  BY CacheLenAssumption DEF Queue, Pos, Nth
<1>3. <<m, Nth(queue[m], i)>> \in Entries(n)
  BY <1>1, <1>2 DEF Entries
<1> QED
  BY <1>3

(* Turning a queue keeps its entries.                                      *)
LEMMA RotateKeeps ==
  ASSUME TypeOK, NEW m \in Node, queue[m] # NULL,
         queue' = [queue EXCEPT ![m] = Rotated(@)], NEW n \in Node
  PROVE  Entries(n)' = Entries(n) /\ Blank(n)' = Blank(n)
<1>1. queue \in [Node -> Queue \cup {NULL}] /\ queue[m] \in Queue
  BY DEF TypeOK
<1>2. Rotated(queue[m]).node = queue[m].node /\ Rotated(queue[m]) # NULL
  <2>1. Rotated(queue[m]) \in Queue /\ Rotated(queue[m]).node = queue[m].node
    BY <1>1, AfterType DEF Rotated, Queue
  <2>2. NULL \notin Queue
    BY QueueAssumption
  <2> QED
    BY <2>1, <2>2
<1>3. \A o \in Node : /\ queue'[o] = NULL <=> queue[o] = NULL
                      /\ queue[o] # NULL => queue'[o].node = queue[o].node
  BY <1>1, <1>2
<1>4. \A e \in Node \X Pos : e[1] \in Node
  OBVIOUS
<1>5. \A e \in Node \X Pos : e \in Entries(n)' <=> e \in Entries(n)
  BY <1>3, <1>4 DEF Entries
<1>6. Entries(n)' = Entries(n)
  BY <1>5 DEF Entries
<1> QED
  BY <1>3, <1>6 DEF Blank

LEMMA lookup_nodeCounts ==
  ASSUME TypeOK, CountInv, lookup_node
  PROVE  CountInv'
<1>1. call.pc = "lookup" /\ UNCHANGED <<mem, root, height, alloc, cnt, filled>>
  BY DEF lookup_node
<1>2. CASE Oops /\ UNCHANGED queue
  BY <1>1, <1>2, EndStep
<1>3. CASE /\ call.cur \in Node /\ queue[call.cur] # NULL
           /\ \E found \in findNode(queue[call.cur], call.ukey) :
                found # NULL /\ AnswerWith(found) /\ UNCHANGED queue
  <2>1. queue[call.cur] \in Queue
    BY <1>3 DEF TypeOK
  <2>2. PICK found \in findNode(queue[call.cur], call.ukey) :
          found # NULL /\ AnswerWith(found) /\ UNCHANGED queue
    BY <1>3
  <2>3. Entries(found) # {}
    BY <1>3, <2>1, <2>2, foundIsEntry
  <2>4. found \in Node => found \in alloc
    BY <2>3, LinkedInUse
  <2> QED
    BY <1>1, <2>2, <2>4, AnswerCounts
<1>4. CASE /\ call.cur \in Node /\ queue[call.cur] # NULL
           /\ queue' = [queue EXCEPT ![call.cur] = Rotated(@)]
           /\ LET i == getpos(mem[call.cur], call.ukey)
              IN IF i = NoPairs \/ mem[call.cur][i].v = NULL
                 THEN AnswerWith(NULL)
                 ELSE call' = [call EXCEPT
                        !.cur = mem[call.cur][i].v, !.h = @ - 1,
                        !.stack = Push([kind |-> "lookup", node |-> call.cur])]
  <2> DEFINE i == getpos(mem[call.cur], call.ukey)
             f == [kind |-> "lookup", node |-> call.cur]
  <2>1. \A n \in Node : Entries(n)' = Entries(n) /\ Blank(n)' = Blank(n)
    BY <1>4, RotateKeeps
  <2>2. call.cur \in alloc
    BY <1>4, LinkedInUse DEF Linked
  <2>3. call.val \notin Node /\ \A j \in 1 .. Len(call.stack) : call.stack[j].node \in alloc
    BY <1>1 DEF CountInv, Asked, LookingUp
  <2>4. /\ call'.pc \in {"lookup", "answer"} /\ call'.val = call.val /\ call'.child = call.child
        /\ call'.cur \in Node => Linked(call'.cur)
        /\ \A j \in 1 .. Len(call'.stack) : call'.stack[j].node \in alloc
    <3>1. CASE AnswerWith(NULL)
      BY <2>3, <3>1, AnswerFields, NodeAssumption
    <3>2. CASE /\ i # NoPairs
               /\ call' = [call EXCEPT !.cur = mem[call.cur][i].v, !.h = @ - 1, !.stack = Push(f)]
      <4>1. i \in Slot
        <5>1. call.ukey \in Long
          BY DEF TypeOK, CallRecord
        <5> QED
          BY <1>4, <3>2, <5>1, MemType, getposFinds
      <4> HIDE DEF i
      <4>2. /\ call'.pc = call.pc /\ call'.val = call.val /\ call'.child = call.child
            /\ call'.cur = mem[call.cur][i].v /\ call'.stack = <<f>> \o call.stack
        BY <3>2 DEF TypeOK, CallRecord, Push
      <4>3. call.stack \in Seq(LookupFrame)
        BY <1>1 DEF TypeOK, StackOK
      <4>4. /\ Len(call.stack) \in Nat /\ Len(call'.stack) = Len(call.stack) + 1
            /\ call'.stack[1] = f
            /\ \A j \in 2 .. Len(call.stack) + 1 : call'.stack[j] = call.stack[j - 1]
        BY <4>2, <4>3, ConcatProperties, LenProperties
      <4>5. ASSUME NEW j \in 1 .. Len(call'.stack)
            PROVE  call'.stack[j].node \in alloc
        <5>1. CASE j = 1
          BY <2>2, <4>4, <5>1
        <5>2. CASE j # 1
          <6>1. j - 1 \in 1 .. Len(call.stack) /\ call'.stack[j] = call.stack[j - 1]
            BY <4>4, <5>2
          <6> QED
            BY <2>3, <6>1
        <5> QED
          BY <5>1, <5>2
      <4> QED
        BY <1>1, <1>4, <4>1, <4>2, <4>5 DEF Linked
    <3> QED
      BY <1>4, <3>1, <3>2
  <2>5. \A n \in Node : Linked(n)' => Linked(n)
    BY <1>1, <2>4 DEF Linked
  <2>6. \A n \in Node : Loose(n)' => Loose(n)
    BY <1>1, <2>4 DEF Loose, Awaited, Inserting
  <2>7. HeapInv'
    BY <2>1, <2>5, <2>6, HeapStep DEF CountInv
  <2>8. Chain' /\ Asked'
    BY <1>1, <2>3, <2>4 DEF Chain, Asked, Inserting
  <2>9. Counted'
    BY <1>1, <2>1 DEF CountInv, Counted
  <2> QED
    BY <2>7, <2>8, <2>9 DEF CountInv
<1> QED
  BY <1>1, <1>2, <1>3, <1>4 DEF lookup_node

LEMMA LookupSteps ==
  ASSUME TypeOK, CountInv, lookup_leaf \/ lookup_node \/ lookup_returns
  PROVE  CountInv'
<1>1. CASE lookup_returns
  BY <1>1, EndStep DEF lookup_returns
<1> QED
  BY <1>1, lookup_leafCounts, lookup_nodeCounts

(* An update stores the client's value, which is no node.                  *)
LEMMA cbtree_updateCounts ==
  ASSUME TypeOK, CountInv, cbtree_update
  PROVE  CountInv'
<1>1. call.pc = "answer" /\ UNCHANGED <<root, height, alloc, queue, cnt, filled>>
      /\ \E status, key, val : Finish(status, key, val)
  BY DEF cbtree_update
<1>2. call.val \notin Node
  BY <1>1 DEF CountInv, Asked, LookingUp
<1>3. ASSUME NEW m \in Node, NEW i \in Slot
      PROVE  mem'[m][i].v \in {mem[m][i].v, call.val}
  <2>1. CASE UNCHANGED mem
    BY <2>1
  <2>2. ASSUME NEW s, mem' = [mem EXCEPT ![call.cur][s].v = call.val]
        PROVE  mem'[m][i].v \in {mem[m][i].v, call.val}
    BY <2>2 DEF TypeOK
  <2> QED
    BY <2>1, <2>2 DEF cbtree_update
<1>4. \A m \in Node, i \in Slot :
        mem'[m][i].v \in Node => \E o \in Node, j \in Slot : mem[o][j].v = mem'[m][i].v
  BY <1>2, <1>3
<1> QED
  BY <1>1, <1>4, EndStep

(* The entries of a leaf are some of all nodes' entries, too few for its   *)
(* count to wrap.                                                          *)
LEMMA EntriesBounded ==
  ASSUME NEW S \in SUBSET (Node \X Pos)
  PROVE  /\ IsFiniteSet(S) /\ Cardinality(S) \in Nat
         /\ Cardinality(S) <= MaxLong
<1>1. IsFiniteSet(Pos) /\ Cardinality(Pos) = CacheLen
  BY CacheLenAssumption, FS_Interval DEF Pos
<1>2. IsFiniteSet(Node \X Pos) /\ Cardinality(Node \X Pos) <= MaxLong
  BY <1>1, CountAssumption, FS_Product
<1>3. IsFiniteSet(S) /\ Cardinality(S) <= Cardinality(Node \X Pos)
  BY <1>2, FS_Subset
<1>4. Cardinality(S) \in Nat /\ Cardinality(Node \X Pos) \in Nat
  BY <1>2, <1>3, FS_CardinalityType
<1> QED
  BY <1>2, <1>3, <1>4, MaxLongAssumption

(* The entry at head changes hands: its old node loses it, the leaf that   *)
(* was found gets it, and both counts follow.                              *)
LEMMA RememberedCounts ==
  ASSUME TypeOK, CountInv, NEW t \in Node, queue[t] # NULL, NEW leaf \in Node, NEW key \in Long,
         queue' = [queue EXCEPT ![t] = Remembered(@, leaf, key)],
         NEW old, old = queue[t].node[queue[t].head],
         NEW dropped, dropped = IF old = NULL THEN cnt ELSE [cnt EXCEPT ![old] = Dec(@)],
         cnt' = [dropped EXCEPT ![leaf] = Inc(@)]
  PROVE  /\ Counted'
         /\ \A n \in Node : n # leaf /\ Entries(n) = {} => Entries(n)' = {}
<1> DEFINE e == <<t, queue[t].head>>
<1>1. /\ queue \in [Node -> Queue \cup {NULL}] /\ queue[t] \in Queue /\ cnt \in [Node -> Long]
      /\ queue[t].head \in Pos /\ e \in Node \X Pos /\ old \in Node \cup {NULL}
  BY DEF TypeOK, Queue
<1>2. /\ queue'[t] # NULL
      /\ queue'[t].node = [queue[t].node EXCEPT ![queue[t].head] = leaf]
      /\ \A m \in Node : m # t => queue'[m] = queue[m]
  <2>1. Remembered(queue[t], leaf, key) \in Queue
    BY <1>1, AfterType DEF Remembered, Queue
  <2>2. queue'[t] = Remembered(queue[t], leaf, key) /\ \A m \in Node : m # t => queue'[m] = queue[m]
    BY <1>1
  <2> QED
    BY <2>1, <2>2, QueueAssumption DEF Remembered
<1>3. ASSUME NEW n \in Node, NEW d \in Node \X Pos
      PROVE  d \in Entries(n)' <=> IF d = e THEN n = leaf ELSE d \in Entries(n)
  <2>1. PICK m \in Node, p \in Pos : d = <<m, p>>
    OBVIOUS
  <2>2. d \in Entries(n) <=> queue[m] # NULL /\ queue[m].node[p] = n
    BY <2>1 DEF Entries
  <2>3. d \in Entries(n)' <=> queue'[m] # NULL /\ queue'[m].node[p] = n
    BY <2>1 DEF Entries
  <2>4. queue[t].node \in [Pos -> Node \cup {NULL}]
    BY <1>1 DEF Queue
  <2>5. CASE m # t
    BY <1>2, <2>1, <2>2, <2>3, <2>5
  <2>6. CASE m = t /\ p # queue[t].head
    BY <1>1, <1>2, <2>1, <2>2, <2>3, <2>4, <2>6
  <2>7. CASE m = t /\ p = queue[t].head
    BY <1>1, <1>2, <2>1, <2>2, <2>3, <2>4, <2>7
  <2> QED
    BY <2>5, <2>6, <2>7
<1>4. \A n \in Node : e \in Entries(n) <=> n = old
  BY <1>1 DEF Entries
<1> HIDE DEF e
<1>5. \A n \in Node : Entries(n)' \subseteq Node \X Pos /\ Entries(n) \subseteq Node \X Pos
  BY DEF Entries
<1>6. ASSUME NEW n \in Node
      PROVE  cnt'[n] = Cardinality(Entries(n)')
  <2> DEFINE E == Entries(n)
             F == Entries(n)'
  <2>1. /\ cnt[n] = Cardinality(E) /\ cnt[n] \in Long
        /\ E \in SUBSET (Node \X Pos) /\ F \in SUBSET (Node \X Pos)
    BY <1>1, <1>5 DEF CountInv, Counted
  <2>2. \A d \in Node \X Pos : d \in F <=> IF d = e THEN n = leaf ELSE d \in E
    BY <1>3
  <2>3. e \in E <=> n = old
    BY <1>4
  <2>4. /\ IsFiniteSet(E) /\ IsFiniteSet(F) /\ Cardinality(E) \in Nat /\ Cardinality(F) \in Nat
        /\ Cardinality(F) <= MaxLong
    BY <2>1, EntriesBounded
  <2> HIDE DEF E, F
  <2>5. dropped[n] = IF n = old THEN Dec(cnt[n]) ELSE cnt[n]
    BY <1>1, NodeAssumption
  <2>6. cnt'[n] = IF n = leaf THEN Inc(dropped[n]) ELSE dropped[n]
    <3>1. dropped \in [Node -> Long]
      BY <1>1, LongFacts
    <3> QED
      BY <3>1
  <2>7. CASE n = old /\ n = leaf
    <3>1. F = E /\ E # {}
      BY <1>1, <2>1, <2>2, <2>3, <2>7
    <3>2. Cardinality(E) # 0
      BY <2>4, <3>1, FS_EmptySet
    <3>3. Inc(Dec(cnt[n])) = cnt[n]
      BY <2>1, <3>2 DEF Inc, Dec, Long
    <3> QED
      BY <2>1, <2>5, <2>6, <2>7, <3>1, <3>3 DEF F
  <2>8. CASE n = old /\ n # leaf
    <3>1. F = E \ {e}
      BY <2>1, <2>2, <2>8
    <3>2. Cardinality(F) = Cardinality(E) - 1
      BY <2>3, <2>4, <2>8, <3>1, FS_RemoveElement
    <3>3. Dec(cnt[n]) = cnt[n] - 1
      BY <2>1, <2>4, <3>2 DEF Dec
    <3> QED
      BY <2>1, <2>5, <2>6, <2>8, <3>2, <3>3 DEF F
  <2>9. CASE n # old /\ n = leaf
    <3>1. F = E \cup {e}
      BY <1>1, <2>1, <2>2, <2>9 DEF e
    <3>2. Cardinality(F) = Cardinality(E) + 1
      BY <2>3, <2>4, <2>9, <3>1, FS_AddElement
    <3>3. Inc(cnt[n]) = cnt[n] + 1
      BY <2>1, <2>4, <3>2, MaxLongAssumption DEF Inc
    <3> QED
      BY <2>1, <2>5, <2>6, <2>9, <3>2, <3>3 DEF F
  <2>10. CASE n # old /\ n # leaf
    <3>1. F = E
      BY <2>1, <2>2, <2>3, <2>10
    <3> QED
      BY <2>1, <2>5, <2>6, <2>10, <3>1 DEF F
  <2> QED
    BY <2>7, <2>8, <2>9, <2>10
<1>7. \A n \in Node : n # leaf /\ Entries(n) = {} => Entries(n)' = {}
  BY <1>3, <1>5
<1> QED
  BY <1>6, <1>7 DEF Counted

LEMMA setcacheCounts ==
  ASSUME TypeOK, CountInv, setcache
  PROVE  CountInv'
<1>1. call.pc = "answer" /\ call.stack # <<>> /\ UNCHANGED <<mem, root, height, alloc, filled>>
  BY DEF setcache
<1>2. /\ call \in CallRecord /\ call.stack \in Seq(LookupFrame) /\ Top \in LookupFrame
      /\ call.cur \in Node \cup {NULL} /\ call.ukey \in Long
      /\ Top = call.stack[1] /\ Len(call.stack) \in Nat /\ 1 \in 1 .. Len(call.stack)
      /\ Len(Tail(call.stack)) = Len(call.stack) - 1
      /\ \A i \in 1 .. Len(call.stack) - 1 : Tail(call.stack)[i] = call.stack[i + 1]
  BY <1>1, HeadTailProperties, EmptySeq, LenProperties
     DEF TypeOK, StackOK, RegistersOK, CallRecord, Top
<1>3. /\ call.val \notin Node
      /\ \A i \in 1 .. Len(call.stack) : call.stack[i].node \in alloc
  BY <1>1 DEF CountInv, Asked, LookingUp
<1>4. CASE Oops /\ UNCHANGED <<queue, cnt>>
  BY <1>1, <1>4, EndStep
<1>5. ASSUME call' = [call EXCEPT !.stack = Tail(@)]
      PROVE  /\ call'.pc = "answer" /\ call'.val = call.val /\ call'.cur = call.cur
             /\ call'.child = call.child
             /\ \A i \in 1 .. Len(call'.stack) : call'.stack[i].node \in alloc
             /\ Chain' /\ Asked'
             /\ \A n \in Node : Linked(n)' => Linked(n)
             /\ \A n \in Node : Loose(n)' => Loose(n) /\ n \notin alloc
  <2>1. /\ call'.pc = "answer" /\ call'.val = call.val /\ call'.cur = call.cur
        /\ call'.child = call.child /\ call'.stack = Tail(call.stack)
    BY <1>1, <1>2, <1>5 DEF CallRecord
  <2>2. ASSUME NEW i \in 1 .. Len(call'.stack)
        PROVE  call'.stack[i].node \in alloc
    <3>1. i + 1 \in 1 .. Len(call.stack) /\ call'.stack[i] = call.stack[i + 1]
      BY <1>2, <2>1
    <3> QED
      BY <1>3, <3>1
  <2>3. ~ Inserting /\ ~ Inserting'
    BY <1>1, <2>1 DEF Inserting
  <2> QED
    BY <1>1, <1>3, <2>1, <2>2, <2>3 DEF Chain, Asked, Linked, Loose, Awaited
<1>6. CASE call' = [call EXCEPT !.stack = Tail(@)] /\ UNCHANGED <<queue, cnt>>
  BY <1>1, <1>5, <1>6, LookStep
<1> DEFINE q == queue[Top.node]
           old == IF q = NULL THEN NULL ELSE q.node[q.head]
           dropped == IF old = NULL THEN cnt ELSE [cnt EXCEPT ![old] = Dec(@)]
<1>7. CASE /\ call.cur # NULL /\ q # NULL
           /\ queue' = [queue EXCEPT ![Top.node] = Remembered(@, call.cur, call.ukey)]
           /\ cnt' = [dropped EXCEPT ![call.cur] = Inc(@)]
           /\ call' = [call EXCEPT !.stack = Tail(@)]
  <2>1. Top.node \in Node /\ Top.node \in alloc /\ call.cur \in Node /\ call.cur \in alloc
    BY <1>2, <1>3, <1>7, LinkedInUse DEF LookupFrame, Linked
  <2>2. PICK t \in Node, leaf \in Node : t = Top.node /\ leaf = call.cur
    BY <2>1
  <2>3. /\ Counted'
        /\ \A n \in Node : n # leaf /\ Entries(n) = {} => Entries(n)' = {}
    BY <1>2, <1>7, <2>2, RememberedCounts
  <2>4. \A n \in Node : n # t /\ Blank(n) => Blank(n)'
    BY <1>7, <2>2 DEF Blank, TypeOK
  <2>5. \A n \in Node : Loose(n)' => n # t /\ n # leaf
    BY <1>5, <1>7, <2>1, <2>2
  <2>6. HeapInv'
    BY <1>5, <1>7, <2>3, <2>4, <2>5, HeapStep DEF CountInv
  <2> QED
    BY <1>5, <1>7, <2>3, <2>6 DEF CountInv
<1> QED
  BY <1>4, <1>6, <1>7 DEF setcache

-----------------------------------------------------------------------------
(* The queries that bypass the caches, and the theorem. *)

LEMMA PrevLastCounts ==
  ASSUME TypeOK, CountInv, prev_step \/ last_step
  PROVE  CountInv'
<1>1. call.pc \in {"prev", "last"} /\ UNCHANGED <<mem, root, height, alloc, queue, cnt, filled>>
  BY DEF prev_step, last_step
<1>2. CASE Oops \/ \E status, key, val : Finish(status, key, val)
  BY <1>1, <1>2, EndStep
<1>3. ASSUME call'.pc = call.pc, call'.child = call.child,
             call'.cur \in Node => Linked(call'.cur)
      PROVE  CountInv'
  <2>1. \A n \in Node : Linked(n)' => Linked(n)
    BY <1>1, <1>3 DEF Linked
  <2> QED
    BY <1>1, <1>3, <2>1, CalmStep
<1>4. ASSUME NEW key, call' = [FromRoot(call, "prev") EXCEPT !.key = key, !.retry = NULL],
             call.pc = "prev"
      PROVE  CountInv'
  <2>1. call'.pc = call.pc /\ call'.child = call.child /\ call'.cur = root
    BY <1>4 DEF FromRoot, TypeOK, CallRecord
  <2> QED
    BY <1>3, <2>1 DEF Linked
<1>5. ASSUME NEW i \in Slot, call.cur \in Node, call'.pc = call.pc, call'.child = call.child,
             call'.cur = mem[call.cur][i].v
      PROVE  CountInv'
  BY <1>3, <1>5 DEF Linked
<1>6. CASE prev_step
  <2> DEFINE i == getpos(mem[call.cur], call.key)
  <2>1. CASE Miss
    BY <1>2, <1>4, <1>6, <2>1 DEF Miss, prev_step
  <2>2. CASE /\ call.cur \in Node /\ i # NoPairs
             /\ call' = [call EXCEPT !.cur = mem[call.cur][i].v, !.h = @ - 1,
                                     !.retry = mem[call.cur][i].k]
    <3>1. call.key \in Long
      BY DEF TypeOK, CallRecord
    <3>2. i \in Slot
      BY <2>2, <3>1, MemType, getposFinds
    <3> HIDE DEF i
    <3>3. call'.pc = call.pc /\ call'.child = call.child /\ call'.cur = mem[call.cur][i].v
      BY <2>2 DEF TypeOK, CallRecord
    <3> QED
      BY <1>5, <2>2, <3>2, <3>3
  <2> QED
    BY <1>2, <1>6, <2>1, <2>2 DEF prev_step
<1>7. CASE last_step
  <2>1. CASE /\ call.cur \in Node
             /\ call' = [call EXCEPT !.cur = mem[call.cur][0].v, !.h = @ - 1]
    <3>1. call'.pc = call.pc /\ call'.child = call.child /\ call'.cur = mem[call.cur][0].v
      BY <2>1 DEF TypeOK, CallRecord
    <3>2. 0 \in Slot
      BY NoPairsAssumption DEF Slot
    <3> QED
      BY <1>5, <2>1, <3>1, <3>2
  <2> QED
    BY <1>2, <1>7, <2>1 DEF last_step
<1> QED
  BY <1>6, <1>7

LEMMA InitCounts == Init => CountInv
<1> SUFFICES ASSUME Init PROVE CountInv
  OBVIOUS
<1>1. Chain /\ Asked
  BY DEF Init, Idle, Chain, Asked, Inserting, LookingUp
<1>2. \A n \in Node : Entries(n) = {} /\ Blank(n)
  BY DEF Init, Entries, Blank
<1>3. \A n \in Node : ~ Linked(n)
  BY NodeAssumption DEF Init, Idle, Linked, EmptyNode, Empty
<1>4. Counted
  BY <1>2, FS_EmptySet DEF Init, Counted
<1> QED
  BY <1>1, <1>2, <1>3, <1>4 DEF CountInv, HeapInv, Untouched

(* As long as no removal has freed a node, the count of a leaf is that of  *)
(* the cache entries that refer to it: over any number of lookups, splits, *)
(* half-done insertions whose nodes go back to the pool and come out of it *)
(* again, removals that merge, and calls that die.  Entries are never      *)
(* inherited with a node, and no count wraps.                              *)
THEOREM CountsAgree == Spec /\ [][NothingFreed]_vars => []EntriesCounted
<1>1. Init => CountInv
  BY InitCounts
<1>2. TypeOK /\ CountInv /\ [Next]_vars /\ [NothingFreed]_vars => CountInv'
  <2> SUFFICES ASSUME TypeOK, CountInv, [Next]_vars, [NothingFreed]_vars PROVE CountInv'
    OBVIOUS
  <2>1. CASE UNCHANGED vars
    <3>1. UNCHANGED <<mem, root, alloc, queue, cnt, call>>
      BY <2>1 DEF vars
    <3> QED
      BY <3>1 DEF CountInv, HeapInv, Untouched, Linked, Blank, Entries, Loose, Awaited, Delivered,
                  Chain, Asked, Counted, Inserting, LookingUp
  <2>2. CASE NothingFreed /\ Next
    <3>1. CASE ClientStep
      BY <3>1, ClientSteps
    <3>2. CASE find_level
      BY <3>2, find_levelCounts
    <3>3. CASE InsertStep
      BY <3>3, InsertSteps
    <3>4. CASE RemoveStep
      BY <2>2, <3>4, RemoveSteps
    <3>5. CASE QueryStep
      BY <3>5, LookupSteps, setcacheCounts, cbtree_updateCounts, PrevLastCounts DEF QueryStep
    <3>6. CASE Return
      BY <3>6, EndStep DEF Return
    <3> QED
      BY <2>2, <3>1, <3>2, <3>3, <3>4, <3>5, <3>6 DEF Next, LibraryStep
  <2> QED
    BY <2>1, <2>2
<1>3. CountInv => EntriesCounted
  BY DEF CountInv, Counted, EntriesCounted
<1> QED
  BY <1>1, <1>2, <1>3, TypeCorrect, PTL DEF Spec

=============================================================================
