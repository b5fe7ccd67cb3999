-------------------------- MODULE CBTreeShapeProofs --------------------------
(***************************************************************************)
(* The shape of the tree.  First: a removal stays below the root.  What    *)
(* cbtree_remove_level does in lines 733-738 when "we recursed all the way *)
(* up" can never happen, because the root of a tree is neither rebalanced  *)
(* nor taken out of a parent.                                              *)
(*                                                                         *)
(* Then: a tree that clients only grow, as those of btree_profiling.c do,  *)
(* has the shape of a B+tree at every step of every call: levels, edges    *)
(* from each level to the next, and for each node the span of keys that    *)
(* it has, lo to below hi, of which its slots cut out its children's.  A   *)
(* split moves pairs once its new node is delivered, so its pairs are      *)
(* looked at as they will be then (Tree).                                  *)
(***************************************************************************)
EXTENDS CBTreeProofs

(* A level that rebalances a node is below the root's, and a height is     *)
(* never negative: shrinking stops at 1.                                   *)
HeightInv ==
  /\ height \in Nat
  /\ call.pc = "erase" => Level <= height
  /\ call.pc = "sibling" => Level < height

LEMMA FinishPc ==
  ASSUME NEW status, NEW key, NEW val, Finish(status, key, val)
  PROVE  call'.pc = "done"
BY DEF Finish, Idle

LEMMA FaultPc ==
  ASSUME Bug \/ Oops
  PROVE  call'.pc = "done"
BY FinishPc DEF Bug, Oops

(* Steps that neither climb nor shrink.                                    *)
LEMMA QuietHeight ==
  ASSUME HeightInv, height' = height \/ height' = height + 1,
         call'.pc \notin {"erase", "sibling"}
  PROVE  HeightInv'
BY DEF HeightInv

LEMMA ClientHeight ==
  ASSUME HeightInv, ClientStep
  PROVE  HeightInv'
<1>1. ASSUME NEW c, NEW pc, NEW key, Start(c, pc, key)
      PROVE  call'.pc = pc /\ call'.stack = <<>> /\ height' = height
  BY <1>1 DEF Start, Idle
<1>2. CASE cbtree_remove
  <2>1. PICK c \in Client : Start(c, IF height = 0 THEN "unwind" ELSE "erase", 0)
    BY <1>2 DEF cbtree_remove, Calling
  <2>2. call'.pc = (IF height = 0 THEN "unwind" ELSE "erase")
        /\ call'.stack = <<>> /\ height' = height
    BY <1>1, <2>1
  <2>3. Level' = 1
    BY <2>2 DEF Level
  <2> QED
    BY <2>2, <2>3 DEF HeightInv
<1>3. CASE cbtree_insert
  BY <1>1, <1>3, QuietHeight DEF cbtree_insert, Calling
<1>4. CASE cbtree_lookup
  BY <1>1, <1>4, QuietHeight DEF cbtree_lookup, Calling
<1>5. CASE cbtree_get_prev
  <2>1. PICK c \in Client :
          Start(c, IF c.key = 0 \/ height = 0 THEN "unwind" ELSE "prev", Dec(c.key))
    BY <1>5 DEF cbtree_get_prev, Calling
  <2>2. call'.pc \in {"unwind", "prev"} /\ height' = height
    BY <1>1, <2>1
  <2> QED
    BY <2>2, QuietHeight
<1>6. CASE cbtree_last
  <2>1. PICK c \in Client : Start(c, IF height = 0 THEN "unwind" ELSE "last", 0)
    BY <1>6 DEF cbtree_last, Calling
  <2>2. call'.pc \in {"unwind", "last"} /\ height' = height
    BY <1>1, <2>1
  <2> QED
    BY <2>2, QuietHeight
<1> QED
  BY <1>2, <1>3, <1>4, <1>5, <1>6 DEF ClientStep

LEMMA find_levelHeight ==
  ASSUME TypeOK, HeightInv, find_level
  PROVE  HeightInv'
<1>1. height' = height
  BY DEF find_level
<1>2. CASE Bug \/ Oops
  BY <1>1, <1>2, FaultPc, QuietHeight
<1>3. ASSUME NEW v, NEW h, call' = [call EXCEPT !.cur = v, !.h = h]
      PROVE  HeightInv'
  <2>1. call'.pc = call.pc /\ call'.stack = call.stack
    BY <1>3 DEF TypeOK, CallRecord
  <2> QED
    BY <1>1, <2>1 DEF HeightInv, Level
<1> QED
  BY <1>2, <1>3 DEF find_level

LEMMA InsertHeight ==
  ASSUME TypeOK, HeightInv, InsertStep
  PROVE  HeightInv'
<1> USE DEF TypeOK, CallRecord
<1>1. height' = height \/ height' = height + 1
  BY DEF InsertStep, insert_level, cbtree_grow, grow_fails, insert_bug, insert_shift,
         insert_split, split_fails, split_moves, split_undone, insert_fails, initQueue_faults
<1>2. ASSUME NEW pc \in {"up", "place"}, call' = Caller(pc) \/ call' = FromRoot(Caller(pc), pc)
      PROVE  call'.pc = pc
  BY <1>2 DEF Caller, FromRoot
<1>3. call'.pc \in {"enter", "place", "up", "done"}
  <2>1. CASE insert_level
    BY <2>1, FaultPc DEF insert_level, FromRoot
  <2>2. CASE cbtree_grow \/ grow_fails \/ split_fails \/ insert_split
    BY <2>2 DEF cbtree_grow, grow_fails, split_fails, insert_split
  <2>3. CASE insert_shift
    BY <2>3, FinishPc DEF insert_shift, Goto
  <2>4. CASE split_moves
    <3>1. call' = FromRoot(Caller("up"), "place")
      BY <2>4 DEF split_moves
    <3> QED
      BY <3>1 DEF Caller, FromRoot
  <2>5. CASE split_undone
    BY <1>2, <2>5 DEF split_undone
  <2>6. CASE insert_bug \/ insert_fails \/ initQueue_faults
    BY <2>6, FinishPc, FaultPc DEF insert_bug, insert_fails, initQueue_faults
  <2> QED
    BY <2>1, <2>2, <2>3, <2>4, <2>5, <2>6 DEF InsertStep
<1> QED
  BY <1>1, <1>3, QuietHeight

(* A frame more on the stack is a level more.                              *)
LEMMA PushLevel ==
  ASSUME TypeOK, call.pc \in {"erase", "sibling"}, NEW f, f \in FreeFrame
  PROVE  Len(Push(f)) = Len(call.stack) + 1 /\ Len(call.stack) \in Nat
<1>1. call.stack \in Seq(FreeFrame) /\ <<f>> \in Seq(FreeFrame) /\ Len(<<f>>) = 1
  BY DEF TypeOK, StackOK
<1> QED
  BY <1>1, ConcatProperties, LenProperties DEF Push

LEMMA remove_levelHeight ==
  ASSUME TypeOK, HeightInv, remove_level
  PROVE  HeightInv'
<1>1. call.pc = "erase" /\ call.cur \in Node /\ Level <= height /\ height \in Nat
      /\ call \in CallRecord /\ Level \in Nat
  <2>1. call.pc = "erase" /\ call.cur \in Node
    BY DEF remove_level, AtGoal
  <2> QED
    BY <2>1, LenProperties DEF HeightInv, TypeOK, StackOK, Level
<1>2. PICK c : /\ c \in {[call EXCEPT !.res.val = r] : r \in {call.res.val,
                                                   mem[call.cur][Position].v}}
               /\ \/ /\ call' = [c EXCEPT !.pc = "unwind"]
                     /\ UNCHANGED <<root, height>>
                  \/ /\ ~ AtRoot
                     /\ call' = [FromRoot(c, "sibling") EXCEPT !.child = call.cur,
                                                               !.fill = FillFrom - 1]
                     /\ UNCHANGED <<root, height>>
                  \/ /\ ~ AtRoot
                     /\ call' = [FromRoot(c, "erase") EXCEPT
                                   !.stack = Push([kind |-> "empty", node |-> call.cur])]
                     /\ UNCHANGED <<root, height>>
                  \/ /\ height > 1 /\ height' = height - 1
                     /\ call' = [c EXCEPT !.pc = "unwind", !.fill = 0,
                                   !.stack = Push([kind |-> "shrink", node |-> call.cur])]
  BY DEF remove_level
<1>3. c.stack = call.stack /\ DOMAIN c = DOMAIN call
  BY <1>1, <1>2 DEF CallRecord
<1>4. CASE call'.pc = "unwind" /\ UNCHANGED height
  BY <1>4, QuietHeight
<1>5. CASE /\ ~ AtRoot
           /\ call' = [FromRoot(c, "sibling") EXCEPT !.child = call.cur, !.fill = FillFrom - 1]
           /\ UNCHANGED <<root, height>>
  <2>1. call'.pc = "sibling" /\ call'.stack = call.stack
    BY <1>1, <1>3, <1>5 DEF FromRoot, CallRecord
  <2> QED
    BY <1>1, <1>5, <2>1 DEF HeightInv, AtRoot, Level
<1>6. CASE /\ ~ AtRoot
           /\ call' = [FromRoot(c, "erase") EXCEPT
                         !.stack = Push([kind |-> "empty", node |-> call.cur])]
           /\ UNCHANGED <<root, height>>
  <2>1. call'.pc = "erase" /\ call'.stack = Push([kind |-> "empty", node |-> call.cur])
    BY <1>1, <1>3, <1>6 DEF FromRoot, CallRecord
  <2>2. [kind |-> "empty", node |-> call.cur] \in FreeFrame
    BY <1>1 DEF FreeFrame
  <2>3. Len(call'.stack) = Len(call.stack) + 1
    BY <1>1, <2>1, <2>2, PushLevel
  <2> QED
    BY <1>1, <1>6, <2>1, <2>3 DEF HeightInv, AtRoot, Level
<1>7. CASE height > 1 /\ height' = height - 1 /\ call'.pc = "unwind"
  BY <1>1, <1>7 DEF HeightInv
<1>8. ASSUME call' = [c EXCEPT !.pc = "unwind"]
      PROVE  call'.pc = "unwind"
  BY <1>1, <1>3, <1>8 DEF CallRecord
<1>9. ASSUME call' = [c EXCEPT !.pc = "unwind", !.fill = 0,
                        !.stack = Push([kind |-> "shrink", node |-> call.cur])]
      PROVE  call'.pc = "unwind"
  BY <1>1, <1>3, <1>9 DEF CallRecord
<1> QED
  BY <1>2, <1>4, <1>5, <1>6, <1>7, <1>8, <1>9

LEMMA rebalanceHeight ==
  ASSUME TypeOK, HeightInv, rebalance
  PROVE  HeightInv'
<1>1. call.pc = "sibling" /\ Level < height /\ height \in Nat /\ height' = height
      /\ call \in CallRecord
  BY DEF rebalance, AtGoal, HeightInv, TypeOK
<1>2. CASE Bug
  BY <1>1, <1>2, FaultPc, QuietHeight
<1>3. ASSUME NEW left, NEW lfill, NEW right \in Node, NEW rfill, NEW lpos,
             merge(left, lfill, right, rfill, lpos)
      PROVE  HeightInv'
  <2>1. call'.pc = "erase" /\ call'.stack = Push([kind |-> "merge", node |-> right])
    BY <1>1, <1>3 DEF merge, FromRoot, CallRecord
  <2>2. [kind |-> "merge", node |-> right] \in FreeFrame
    BY DEF FreeFrame
  <2>3. Len(call'.stack) = Len(call.stack) + 1 /\ Len(call.stack) \in Nat
    BY <1>1, <2>1, <2>2, PushLevel
  <2> QED
    BY <1>1, <2>1, <2>3 DEF HeightInv, Level
<1>4. CASE call' = [call EXCEPT !.pc = "unwind", !.child = NULL, !.fill = 0]
  <2>1. call'.pc = "unwind"
    BY <1>1, <1>4 DEF CallRecord
  <2> QED
    BY <1>1, <2>1, QuietHeight
<1>5. ~ rebalance_bug => call.child \in Node
  BY <1>1 DEF TypeOK, RegistersOK, CallRecord
<1>6. MergesRight => Sibling(Place + 1) \in Node
  BY DEF MergesRight, Fits
<1> QED
  BY <1>2, <1>3, <1>4, <1>5, <1>6 DEF rebalance

LEMMA RemoveHeight ==
  ASSUME TypeOK, HeightInv, RemoveStep
  PROVE  HeightInv'
<1>1. CASE remove_missing \/ remove_returns \/ freeQueue_faults
  BY <1>1, FinishPc, FaultPc, QuietHeight
     DEF remove_missing, remove_returns, freeQueue_faults
<1>2. CASE freeQueue \/ node_freed
  <2>1. call'.pc = "unwind" /\ height' = height
    BY <1>2 DEF freeQueue, node_freed, Unwinding, TypeOK, CallRecord
  <2> QED
    BY <2>1, QuietHeight
<1> QED
  BY <1>1, <1>2, remove_levelHeight, rebalanceHeight DEF RemoveStep

LEMMA QueryHeight ==
  ASSUME TypeOK, HeightInv, QueryStep
  PROVE  HeightInv'
<1> USE DEF TypeOK, CallRecord
<1>1. height' = height
  BY DEF QueryStep, lookup_leaf, lookup_node, setcache, lookup_returns, cbtree_update,
         prev_step, last_step
<1>2. \A n : AnswerWith(n) => call'.pc = "answer"
  BY DEF AnswerWith
<1>3. call'.pc \in {"lookup", "answer", "prev", "last", "done"}
  <2>1. CASE lookup_leaf
    BY <1>2, <2>1, FaultPc DEF lookup_leaf
  <2>2. CASE lookup_node
    BY <1>2, <2>2, FaultPc DEF lookup_node
  <2>3. CASE setcache
    BY <2>3, FaultPc DEF setcache
  <2>4. CASE lookup_returns \/ cbtree_update
    BY <2>4, FinishPc DEF lookup_returns, cbtree_update
  <2>5. Miss => call'.pc \in {"prev", "done"}
    BY FinishPc DEF Miss, FromRoot
  <2>6. CASE prev_step
    BY <2>5, <2>6, FinishPc, FaultPc DEF prev_step
  <2>7. CASE last_step
    BY <2>7, FinishPc, FaultPc DEF last_step
  <2> QED
    BY <2>1, <2>2, <2>3, <2>4, <2>6, <2>7 DEF QueryStep
<1> QED
  BY <1>1, <1>3, QuietHeight

(* For every tree, geometry and sequence of calls, a removal only works on *)
(* levels the tree has: the tree is never dropped by lines 733-738.        *)
THEOREM RemovalStaysInTree == Spec => []NeverAboveRoot
<1>1. Init => HeightInv
  BY DEF Init, Idle, HeightInv
<1>2. TypeOK /\ HeightInv /\ [Next]_vars => HeightInv'
  <2> SUFFICES ASSUME TypeOK, HeightInv, [Next]_vars PROVE HeightInv'
    OBVIOUS
  <2>1. CASE Return
    BY <2>1, QuietHeight DEF Return, Idle
  <2>2. CASE UNCHANGED vars
    BY <2>2 DEF vars, HeightInv, Level
  <2> QED
    BY <2>1, <2>2, ClientHeight, find_levelHeight, InsertHeight, RemoveHeight, QueryHeight
       DEF Next, LibraryStep
<1>3. HeightInv => NeverAboveRoot
  BY DEF HeightInv, NeverAboveRoot
<1> QED
  BY <1>1, <1>2, <1>3, TypeCorrect, PTL DEF Spec

-----------------------------------------------------------------------------
(* A growing tree: its shape, and what the operations on slots do to it.   *)

(* Going up or down one level at a time reaches every level.               *)
LEMMA Ascent ==
  ASSUME NEW top \in Nat, NEW S, 1 \in S,
         \A l \in 1 .. (top - 1) : l \in S => l + 1 \in S
  PROVE  \A l \in 1 .. top : l \in S
<1> SUFFICES ASSUME NEW m \in 1 .. top, m \notin S
             PROVE  FALSE
  OBVIOUS
<1> DEFINE B == {l \in Nat : l \in 1 .. top /\ l \notin S}
<1>1. m \in B /\ B \subseteq Nat
  OBVIOUS
<1>2. PICK l \in B : \A j \in B : ~ (<<j, l>> \in OpToRel(<, Nat))
  BY <1>1, WFMin, NatLessThanWellFounded
<1>3. \A j \in B : ~ (j < l)
  BY <1>1, <1>2 DEF OpToRel
<1>4. l \in 1 .. top /\ l \notin S /\ l # 1
  BY <1>2
<1>5. l - 1 \in 1 .. (top - 1) /\ l - 1 \in Nat
  BY <1>4
<1>6. l - 1 \in S
  BY <1>3, <1>5
<1>7. (l - 1) + 1 \in S
  BY <1>5, <1>6
<1> QED
  BY <1>4, <1>7

LEMMA Descent ==
  ASSUME NEW top \in Nat, NEW S, top \in S,
         \A l \in 1 .. (top - 1) : l + 1 \in S => l \in S
  PROVE  \A l \in 1 .. top : l \in S
<1> DEFINE R == {l \in Int : top + 1 - l \in S}
<1>1. 1 \in R
  BY DEF R
<1>2. ASSUME NEW l \in 1 .. (top - 1), l \in R PROVE l + 1 \in R
  <2>1. top - l \in 1 .. (top - 1) /\ (top - l) + 1 \in S
    BY <1>2
  <2>2. top - l \in S
    BY <2>1
  <2>3. top + 1 - (l + 1) = top - l
    OBVIOUS
  <2> QED
    BY <2>2, <2>3
<1> HIDE DEF R
<1>3. \A l \in 1 .. top : l \in R
  BY <1>1, <1>2, Ascent
<1> SUFFICES ASSUME NEW l \in 1 .. top PROVE l \in S
  OBVIOUS
<1>4. top + 1 - l \in 1 .. top
  OBVIOUS
<1>5. top + 1 - l \in R
  BY <1>3, <1>4
<1>6. top + 1 - (top + 1 - l) = l
  OBVIOUS
<1> QED
  BY <1>5, <1>6 DEF R

LEMMA LevelsAre ==
  ASSUME height \in Nat, NEW at, at = [l \in 1 .. height |-> IF l = height THEN {root} ELSE Children(at[l + 1])]
  PROVE AtLevel = at
<1> DEFINE Is(f) == f = [l \in 1 .. height |-> IF l = height THEN {root} ELSE Children(f[l + 1])]
<1>1. AtLevel = CHOOSE f : Is(f)
  BY DEF AtLevel
<1>2. Is(AtLevel)
  BY <1>1
<1>3. CASE height = 0
  BY <1>2, <1>3
<1>4. CASE height > 0
  <2> DEFINE S == {l \in 1 .. height : AtLevel[l] = at[l]}
  <2>1. height \in S
    BY <1>2, <1>4
  <2>2. ASSUME NEW l \in 1 .. (height - 1), l + 1 \in S
        PROVE  l \in S
    <3>1. l \in 1 .. height /\ l + 1 \in 1 .. height /\ l # height
      BY <1>4
    <3>2. AtLevel[l] = Children(AtLevel[l + 1])
      BY <1>2, <3>1
    <3>3. at[l] = Children(at[l + 1])
      BY <3>1
    <3> QED
      BY <2>2, <3>1, <3>2, <3>3
  <2> HIDE DEF S
  <2>3. \A l \in 1 .. height : l \in S
    BY <2>1, <2>2, Descent
  <2> QED
    BY <1>2, <2>3 DEF S
<1> QED
  BY <1>3, <1>4
(* Nodes m, of which those of the tree are at[1], the leaves, to at[ht],   *)
(* the root r.                                                             *)
Memory == MemOver(Ptr)
Used(m, n) == {i \in Slot : m[n][i].v # NULL}

Levels(m, r, ht, at) ==
  /\ ht \in Nat /\ at \in [1 .. ht -> SUBSET Node]
  /\ IF ht = 0 THEN r = NULL ELSE at[ht] = {r}
  /\ \A k, l \in 1 .. ht : k # l => at[k] \cap at[l] = {}
  /\ ht > 0 => \A n \in at[1], i \in Slot : m[n][i].v \in Val \cup {NULL}
  /\ ht > 1 => \A l \in 1 .. ht : \A n \in at[l] : m[n][0].v # NULL

(* The slots of one level lead to the nodes of the next, and to all of it. *)
Edges(m, ht, at) ==
  \A l \in 1 .. (ht - 1) :
    /\ \A n \in at[l + 1] : \A i \in Used(m, n) : m[n][i].v \in at[l]
    /\ \A c \in at[l] : \E n \in at[l + 1], i \in Slot : m[n][i].v = c

(* Each node has the keys from lo to below hi: the root all of them, the   *)
(* node in a slot those from the slot's key to below the one before.       *)
Spans(m, r, ht, at, lo, hi) ==
  /\ lo \in [Node -> Int] /\ hi \in [Node -> Int]
  /\ ht > 0 => lo[r] = 0 /\ hi[r] = MaxLong + 1
  /\ \A l \in 1 .. ht : \A n \in at[l] :
       /\ Ordered(m[n]) /\ lo[n] < hi[n]
       /\ \A i \in Used(m, n) : lo[n] <= m[n][i].k /\ m[n][i].k < hi[n]
Apart(ht, at, lo, hi) ==
  \A l \in 1 .. ht : \A n, c \in at[l] : n = c \/ hi[c] <= lo[n] \/ hi[n] <= lo[c]
Bounds(m, ht, at, lo, hi) ==
  \A l \in 1 .. (ht - 1) : \A n \in at[l + 1] : \A i \in Used(m, n) :
    /\ lo[m[n][i].v] = m[n][i].k
    /\ hi[m[n][i].v] = IF i = 0 THEN hi[n] ELSE m[n][i - 1].k

Shape(m, r, ht, at, lo, hi) ==
  /\ m \in Memory
  /\ Levels(m, r, ht, at) /\ Edges(m, ht, at)
  /\ Spans(m, r, ht, at, lo, hi) /\ Apart(ht, at, lo, hi) /\ Bounds(m, ht, at, lo, hi)

InSpan(key, n, lo, hi) == lo[n] <= key /\ key < hi[n]

-----------------------------------------------------------------------------
(* What a tree of this shape is like. *)

LEMMA NodeKind ==
  ASSUME NEW m \in Memory, NEW n \in Node
  PROVE  /\ m[n] \in NodeOver(Ptr)
         /\ \A i \in Slot : m[n][i].k \in Long /\ m[n][i].v \in Ptr
BY DEF Memory, MemOver, NodeOver

LEMMA SlotFacts ==
  /\ \A i \in Slot : i \in Nat /\ i < NoPairs
  /\ \A i \in Int : i \in Slot <=> 0 <= i /\ i < NoPairs
  /\ 0 \in Slot /\ 1 \in Slot /\ NoPairs \in Nat
BY NoPairsAssumption DEF Slot

(* The spans of a level do not meet.                                       *)
LEMMA SpansApart ==
  ASSUME NEW m, NEW r, NEW ht, NEW at, NEW lo, NEW hi, Shape(m, r, ht, at, lo, hi),
         NEW l \in 1 .. ht, NEW n \in at[l], NEW c \in at[l], NEW key \in Int,
         InSpan(key, n, lo, hi), InSpan(key, c, lo, hi)
  PROVE  n = c
<1>1. n \in Node /\ c \in Node
  BY DEF Shape, Levels
<1>2. lo[n] \in Int /\ hi[n] \in Int /\ lo[c] \in Int /\ hi[c] \in Int
  BY <1>1 DEF Shape, Spans
<1>3. n = c \/ hi[c] <= lo[n] \/ hi[n] <= lo[c]
  BY DEF Shape, Apart
<1> QED
  BY <1>2, <1>3 DEF InSpan

(* A child's span lies in its parent's.                                    *)
LEMMA ChildSpan ==
  ASSUME NEW m, NEW r, NEW ht, NEW at, NEW lo, NEW hi, Shape(m, r, ht, at, lo, hi),
         NEW l \in 1 .. (ht - 1), NEW n \in at[l + 1], NEW i \in Used(m, n)
  PROVE  /\ m[n][i].v \in at[l] /\ m[n][i].v \in Node /\ n \in Node
         /\ lo[m[n][i].v] = m[n][i].k
         /\ hi[m[n][i].v] = IF i = 0 THEN hi[n] ELSE m[n][i - 1].k
         /\ lo[n] <= lo[m[n][i].v] /\ hi[m[n][i].v] <= hi[n]
<1>1. l \in 1 .. ht /\ l + 1 \in 1 .. ht /\ i \in Slot /\ m[n][i].v # NULL
  BY DEF Shape, Levels, Used
<1>2. m[n][i].v \in at[l] /\ at[l] \subseteq Node /\ at[l + 1] \subseteq Node
  BY <1>1 DEF Shape, Levels, Edges
<1>3. lo[m[n][i].v] = m[n][i].k /\ hi[m[n][i].v] = IF i = 0 THEN hi[n] ELSE m[n][i - 1].k
  BY <1>1 DEF Shape, Bounds
<1>4. Ordered(m[n]) /\ lo[n] <= m[n][i].k /\ hi[n] \in Int
  BY <1>1, <1>2 DEF Shape, Spans
<1>5. CASE i = 0
  BY <1>2, <1>3, <1>4, <1>5
<1>6. CASE i # 0
  <2>1. i - 1 \in Slot /\ i - 1 < i
    BY <1>1, <1>6, SlotFacts
  <2>2. m[n][i - 1].v # NULL
    BY <1>1, <1>4, <2>1 DEF Ordered
  <2>3. m[n][i - 1].k < hi[n] /\ m[n][i - 1].k \in Long
    BY <1>1, <1>2, <2>1, <2>2, NodeKind DEF Shape, Spans, Used
  <2> QED
    BY <1>2, <1>3, <1>4, <1>6, <2>3 DEF Long
<1> QED
  BY <1>5, <1>6

(* A node hangs in one slot of the level above.                            *)
LEMMA OneSlot ==
  ASSUME NEW m, NEW r, NEW ht, NEW at, NEW lo, NEW hi, Shape(m, r, ht, at, lo, hi),
         NEW l \in 1 .. (ht - 1),
         NEW n \in at[l + 1], NEW i \in Used(m, n), NEW p \in at[l + 1], NEW j \in Used(m, p),
         m[n][i].v = m[p][j].v
  PROVE  n = p /\ i = j
<1>1. l + 1 \in 1 .. ht /\ n \in Node /\ p \in Node
      /\ i \in Slot /\ m[n][i].v # NULL /\ j \in Slot /\ m[p][j].v # NULL
  BY DEF Shape, Levels, Used
<1>2. m[n][i].k = m[p][j].k /\ m[n][i].k \in Int
  BY <1>1, ChildSpan, NodeKind DEF Long, Shape
<1>3. InSpan(m[n][i].k, n, lo, hi) /\ InSpan(m[p][j].k, p, lo, hi) /\ Ordered(m[n])
  BY <1>1 DEF Shape, Spans, InSpan
<1>4. n = p
  BY <1>1, <1>2, <1>3, SpansApart
<1>5. i \in Int /\ j \in Int
  BY <1>1, SlotFacts
<1>6. ~ (i < j) /\ ~ (j < i)
  BY <1>1, <1>2, <1>3, <1>4, <1>5 DEF Ordered
<1> QED
  BY <1>4, <1>5, <1>6

(* The walk down for a key gets to a node whose span has it.               *)
LEMMA Descend ==
  ASSUME NEW m, NEW r, NEW ht, NEW at, NEW lo, NEW hi, Shape(m, r, ht, at, lo, hi),
         NEW l \in 1 .. (ht - 1), NEW n \in at[l + 1], NEW key \in Long,
         InSpan(key, n, lo, hi), NEW i, i = getpos(m[n], key), i # NoPairs, m[n][i].v # NULL
  PROVE  i \in Used(m, n) /\ m[n][i].v \in at[l] /\ InSpan(key, m[n][i].v, lo, hi)
<1>1. n \in Node /\ l + 1 \in 1 .. ht
  BY DEF Shape, Levels
<1>2. m[n] \in NodeOver(Ptr) /\ \A j \in Slot : m[n][j].k \in Long
  BY <1>1, NodeKind DEF Shape
<1>3. i \in Slot /\ m[n][i].k <= key /\ \A j \in Slot : j < i => m[n][j].k > key
  BY <1>2, getposFinds
<1>4. i \in Used(m, n)
  BY <1>3 DEF Used
<1>5. m[n][i].v \in at[l] /\ lo[m[n][i].v] = m[n][i].k
      /\ hi[m[n][i].v] = IF i = 0 THEN hi[n] ELSE m[n][i - 1].k
  BY <1>4, ChildSpan
<1>6. CASE i = 0
  BY <1>3, <1>4, <1>5, <1>6 DEF InSpan
<1>7. CASE i # 0
  <2>1. i - 1 \in Slot /\ i - 1 < i
    BY <1>3, <1>7, SlotFacts
  <2>2. m[n][i - 1].k > key /\ m[n][i - 1].k \in Long
    BY <1>2, <1>3, <2>1
  <2> QED
    BY <1>3, <1>4, <1>5, <1>7, <2>2 DEF InSpan, Long
<1> QED
  BY <1>6, <1>7

(* Where the spans of a node and of one a level below share a key, the     *)
(* lower one hangs in the slot that getpos finds for the key.              *)
LEMMA SlotOfKey ==
  ASSUME NEW m, NEW r, NEW ht, NEW at, NEW lo, NEW hi, Shape(m, r, ht, at, lo, hi),
         NEW l \in 1 .. (ht - 1), NEW n \in at[l + 1], NEW c \in at[l], NEW key \in Long,
         InSpan(key, n, lo, hi), InSpan(key, c, lo, hi)
  PROVE  getpos(m[n], key) \in Used(m, n) /\ m[n][getpos(m[n], key)].v = c
<1>1. c \in Node /\ n \in Node /\ l + 1 \in 1 .. ht
  BY DEF Shape, Levels
<1>2. PICK p \in at[l + 1], j \in Slot : m[p][j].v = c
  BY DEF Shape, Edges
<1>3. j \in Used(m, p)
  BY <1>1, <1>2, NodeAssumption DEF Used
<1>4. /\ lo[c] = m[p][j].k /\ hi[c] = IF j = 0 THEN hi[p] ELSE m[p][j - 1].k
      /\ lo[p] <= lo[c] /\ hi[c] <= hi[p] /\ p \in Node
  BY <1>2, <1>3, ChildSpan
<1>5. key \in Int /\ lo[p] \in Int /\ hi[p] \in Int /\ lo[c] \in Int /\ hi[c] \in Int
  BY <1>1, <1>4 DEF Shape, Spans, Long
<1>6. InSpan(key, p, lo, hi)
  BY <1>4, <1>5 DEF InSpan
<1>7. n = p
  BY <1>1, <1>5, <1>6, SpansApart
<1> DEFINE i == getpos(m[n], key)
<1>8. m[n] \in NodeOver(Ptr) /\ \A s \in Slot : m[n][s].k \in Long /\ s \in Int
  BY <1>1, NodeKind, SlotFacts DEF Shape
<1>9. /\ i \in 0 .. NoPairs
      /\ i # NoPairs => i \in Slot /\ m[n][i].k <= key
      /\ \A s \in Slot : s < i => m[n][s].k > key
  BY <1>8, getposFinds
<1>10. Ordered(m[n]) /\ m[n][j].v # NULL
  BY <1>1, <1>3, <1>7 DEF Shape, Spans, Used
<1> HIDE DEF i
<1>11. ~ (j < i)
  <2>1. m[n][j].k <= key
    BY <1>4, <1>7 DEF InSpan
  <2> QED
    BY <1>5, <1>8, <1>9, <2>1 DEF Long
<1>12. ~ (i < j)
  <2>1. SUFFICES ASSUME i < j PROVE FALSE
    OBVIOUS
  <2>2. i \in Slot /\ j # 0 /\ j - 1 \in Slot /\ m[n][i].k <= key
    BY <1>9, <2>1, SlotFacts
  <2>3. key < m[n][j - 1].k
    BY <1>4, <1>7, <2>2 DEF InSpan
  <2>4. m[n][j - 1].v # NULL
    BY <1>8, <1>10, <2>2 DEF Ordered
  <2>5. i = j - 1 \/ m[n][i].k > m[n][j - 1].k
    BY <1>8, <1>10, <2>1, <2>2, <2>4 DEF Ordered
  <2> QED
    BY <1>5, <1>8, <2>2, <2>3, <2>5 DEF Long
<1>13. i = j
  BY <1>8, <1>9, <1>11, <1>12
<1> QED
  BY <1>2, <1>3, <1>7, <1>13 DEF i

(* A key in the span of a node is in one of each level above.              *)
LEMMA SpanAbove ==
  ASSUME NEW m, NEW r, NEW ht, NEW at, NEW lo, NEW hi, Shape(m, r, ht, at, lo, hi),
         ht > 0, NEW key \in Long, NEW c \in at[1], InSpan(key, c, lo, hi)
  PROVE  \A l \in 1 .. ht : \E n \in at[l] : InSpan(key, n, lo, hi)
<1> DEFINE S == {l \in 1 .. ht : \E n \in at[l] : InSpan(key, n, lo, hi)}
<1>1. ht \in Nat /\ 1 \in S
  BY DEF Shape, Levels
<1>2. ASSUME NEW l \in 1 .. (ht - 1), l \in S
      PROVE  l + 1 \in S
  <2>1. PICK n \in at[l] : InSpan(key, n, lo, hi)
    BY <1>2
  <2>2. PICK p \in at[l + 1], j \in Slot : m[p][j].v = n
    BY DEF Shape, Edges
  <2>3. n \in Node /\ l + 1 \in 1 .. ht
    BY <1>1 DEF Shape, Levels
  <2>4. j \in Used(m, p)
    BY <2>2, <2>3, NodeAssumption DEF Used
  <2>5. lo[p] <= lo[n] /\ hi[n] <= hi[p] /\ p \in Node
    BY <2>2, <2>4, ChildSpan
  <2>6. key \in Int /\ lo[p] \in Int /\ hi[p] \in Int /\ lo[n] \in Int /\ hi[n] \in Int
    BY <2>3, <2>5 DEF Shape, Spans, Long
  <2>7. InSpan(key, p, lo, hi)
    BY <2>1, <2>5, <2>6 DEF InSpan
  <2> QED
    BY <2>2, <2>3, <2>7
<1> HIDE DEF S
<1>3. \A l \in 1 .. ht : l \in S
  BY <1>1, <1>2, Ascent
<1> QED
  BY <1>3 DEF S

-----------------------------------------------------------------------------
(* What the steps make of one node. *)

LEMMA InsertSlots ==
  ASSUME NEW n \in NodeOver(Ptr), Ordered(n), NEW key \in Long, NEW val \in Ptr, val # NULL,
         NEW pos, pos = getpos(n, key), NEW fill, fill = getfill(n, pos), fill # NoPairs,
         NEW o, o = insert_pair(n, pos, fill, key, val)
  PROVE  /\ pos \in Slot /\ fill \in Slot /\ pos <= fill
         /\ o[pos] = [k |-> key, v |-> val]
         /\ \A i \in Slot : i < pos => o[i] = n[i] /\ n[i].v # NULL
         /\ \A i \in Slot : pos < i /\ i <= fill => o[i] = n[i - 1] /\ n[i - 1].v # NULL
         /\ \A i \in Slot : fill < i => o[i] = n[i] /\ n[i].v = NULL
         /\ o \in NodeOver(Ptr)
<1>1. pos \in 0 .. NoPairs /\ \A j \in Slot : j < pos => n[j].k > key
  BY getposFinds
<1>2. /\ fill \in pos .. NoPairs /\ n[fill].v = NULL
      /\ \A j \in Slot : pos <= j /\ j < fill => n[j].v # NULL
  BY <1>1, getfillFinds
<1>3. pos \in Slot /\ fill \in Slot /\ pos <= fill /\ pos \in Int /\ fill \in Int
  BY <1>1, <1>2, SlotFacts
<1>4. \A i \in Slot : o[i] = IF i = pos THEN [k |-> key, v |-> val]
                             ELSE IF i \in (pos + 1) .. fill THEN n[i - 1] ELSE n[i]
  BY DEF insert_pair
<1>5. o[pos] = [k |-> key, v |-> val]
  BY <1>3, <1>4
<1>6. ASSUME NEW i \in Slot, i < pos
      PROVE  o[i] = n[i] /\ n[i].v # NULL
  <2>1. i \in Int /\ i # pos /\ i \notin (pos + 1) .. fill
    BY <1>3, <1>6, SlotFacts
  <2>2. n[i].k > key /\ n[i].k \in Long
    BY <1>1, <1>6 DEF NodeOver
  <2> QED
    BY <1>4, <2>1, <2>2 DEF Ordered, Long
<1>7. ASSUME NEW i \in Slot, pos < i, i <= fill
      PROVE  o[i] = n[i - 1] /\ n[i - 1].v # NULL
  <2>1. i \in Int /\ i # pos /\ i \in (pos + 1) .. fill /\ i - 1 \in Slot /\ pos <= i - 1 /\ i - 1 < fill
    BY <1>3, <1>7, SlotFacts
  <2> QED
    BY <1>2, <1>4, <2>1
<1>8. ASSUME NEW i \in Slot, fill < i
      PROVE  o[i] = n[i] /\ n[i].v = NULL
  <2>1. i \in Int /\ i # pos /\ i \notin (pos + 1) .. fill
    BY <1>3, <1>8, SlotFacts
  <2> QED
    BY <1>2, <1>3, <1>4, <1>8, <2>1 DEF Ordered
<1>9. o \in NodeOver(Ptr)
  BY <1>3, insert_pairType
<1> QED
  BY <1>3, <1>5, <1>6, <1>7, <1>8, <1>9

(* The right-most key lowered further.                                     *)
LEMMA LowerOrder ==
  ASSUME NEW n \in NodeOver(Ptr), Ordered(n), NEW j \in Slot, n[j].v # NULL,
         NEW key \in Long, key <= n[j].k,
         \A i \in Slot : j < i => n[i].v = NULL,
         NEW o, o = [n EXCEPT ![j].k = key]
  PROVE  Ordered(o) /\ o \in NodeOver(Ptr)
<1>1. \A i \in Slot : o[i].v = n[i].v /\ o[i].k = (IF i = j THEN key ELSE n[i].k)
  BY DEF NodeOver
<1>2. \A i \in Slot : i \in Int /\ n[i].k \in Int
  BY SlotFacts DEF NodeOver, Long
<1>3. \A i \in Slot : o[i].v = NULL => o[i].k = 0
  BY <1>1 DEF Ordered
<1>4. ASSUME NEW i \in Slot, NEW s \in Slot, i < s, o[s].v # NULL
      PROVE  o[i].v # NULL /\ o[i].k > o[s].k
  <2>1. n[s].v # NULL /\ n[i].v # NULL /\ n[i].k > n[s].k
    BY <1>1, <1>4 DEF Ordered
  <2>2. i # j
    BY <1>4, <2>1
  <2> QED
    BY <1>1, <1>2, <2>1, <2>2 DEF Long
<1>5. o \in NodeOver(Ptr)
  BY DEF NodeOver
<1> QED
  BY <1>3, <1>4, <1>5 DEF Ordered

(* Another pointer in a used slot.                                         *)
LEMMA SetOrder ==
  ASSUME NEW n \in NodeOver(Ptr), Ordered(n), NEW j \in Slot, n[j].v # NULL,
         NEW val \in Ptr, val # NULL, NEW o, o = [n EXCEPT ![j].v = val]
  PROVE  Ordered(o) /\ o \in NodeOver(Ptr)
<1>1. \A i \in Slot : o[i].k = n[i].k /\ o[i].v = (IF i = j THEN val ELSE n[i].v)
  BY DEF NodeOver
<1>2. o \in NodeOver(Ptr)
  BY DEF NodeOver
<1> QED
  BY <1>1, <1>2 DEF Ordered

LEMMA HalfFacts ==
  /\ Half \in Nat /\ 2 <= Half /\ Half + Half <= NoPairs /\ NoPairs <= Half + Half + 1
  /\ SplitSlot = Half - 1 /\ SplitSlot \in Slot /\ Half \in Slot
<1>1. Half \in Nat /\ 2 <= Half /\ Half + Half <= NoPairs /\ NoPairs <= Half + Half + 1
  BY NoPairsAssumption DEF Half
<1> QED
  BY <1>1, SlotFacts DEF SplitSlot

(* The halves of a full node.                                              *)
LEMMA HalfSlots ==
  ASSUME NEW n \in NodeOver(Ptr), Ordered(n), \A i \in Slot : n[i].v # NULL,
         NEW up, up = upper_half(n, EmptyNode), NEW low, low = lower_half(n)
  PROVE  /\ \A i \in Slot : i < Half => up[i] = n[i]
         /\ \A i \in Slot : i >= Half => up[i] = Empty
         /\ \A i \in Slot : i + Half < NoPairs => i + Half \in Slot /\ low[i] = n[i + Half]
         /\ \A i \in Slot : i + Half >= NoPairs => low[i] = Empty
         /\ Ordered(up) /\ Ordered(low)
         /\ up \in NodeOver(Ptr) /\ low \in NodeOver(Ptr)
<1>1. /\ \A i \in Slot : i < Half => up[i] = n[i]
      /\ \A i \in Slot : i >= Half => up[i] = Empty
  BY SlotFacts, HalfFacts DEF upper_half, EmptyNode
<1>2. /\ \A i \in Slot : i + Half < NoPairs => i + Half \in Slot /\ low[i] = n[i + Half]
      /\ \A i \in Slot : i + Half >= NoPairs => low[i] = Empty
  BY SlotFacts, HalfFacts DEF lower_half
<1>3. Empty.v = NULL /\ Empty.k = 0
  BY DEF Empty
<1>4. Ordered(up)
  <2>1. ASSUME NEW i \in Slot, NEW s \in Slot, i < s, up[s].v # NULL
        PROVE  up[i].v # NULL /\ up[i].k > up[s].k
    <3>1. s < Half /\ i < Half
      BY <1>1, <1>3, <2>1, SlotFacts, HalfFacts
    <3> QED
      BY <1>1, <2>1, <3>1 DEF Ordered
  <2>2. \A i \in Slot : up[i].v = NULL => up[i].k = 0
    BY <1>1, <1>3, SlotFacts, HalfFacts
  <2> QED
    BY <2>1, <2>2 DEF Ordered
<1>5. Ordered(low)
  <2>1. ASSUME NEW i \in Slot, NEW s \in Slot, i < s, low[s].v # NULL
        PROVE  low[i].v # NULL /\ low[i].k > low[s].k
    <3>1. s + Half < NoPairs /\ i + Half < NoPairs /\ i + Half < s + Half
      BY <1>2, <1>3, <2>1, SlotFacts, HalfFacts
    <3> QED
      BY <1>2, <2>1, <3>1 DEF Ordered
  <2>2. \A i \in Slot : low[i].v = NULL => low[i].k = 0
    BY <1>2, <1>3, SlotFacts, HalfFacts
  <2> QED
    BY <2>1, <2>2 DEF Ordered
<1>6. up \in NodeOver(Ptr) /\ low \in NodeOver(Ptr)
  BY EmptyNodeType, HalvesType DEF Ptr
<1> QED
  BY <1>1, <1>2, <1>4, <1>5, <1>6

LEMMA EmptyOrder == Ordered(EmptyNode) /\ \A i \in Slot : EmptyNode[i].v = NULL
BY DEF Ordered, EmptyNode, Empty

(* What a new root holds: the old one's smallest key.                      *)
LEMMA LastKeyLeast ==
  ASSUME NEW n \in NodeOver(Ptr), Ordered(n), n[0].v # NULL
  PROVE  LastKey(n) \in Long /\ \A i \in Slot : n[i].v # NULL => LastKey(n) <= n[i].k
<1> DEFINE fill == getfill(n, 0)
<1>1. /\ fill \in 0 .. NoPairs
      /\ fill # NoPairs => n[fill].v = NULL
      /\ \A j \in Slot : 0 <= j /\ j < fill => n[j].v # NULL
  BY getfillFinds, SlotFacts
<1> HIDE DEF fill
<1>2. fill # 0
  BY <1>1, SlotFacts
<1>3. fill - 1 \in Slot /\ fill - 1 < fill /\ 0 <= fill - 1
  BY <1>1, <1>2, SlotFacts
<1>4. LastKey(n) = n[fill - 1].k
  BY <1>2 DEF LastKey, fill
<1>5. \A i \in Slot : i \in Int /\ n[i].k \in Int /\ n[i].k \in Long
  BY SlotFacts DEF NodeOver, Long
<1>6. ASSUME NEW i \in Slot, n[i].v # NULL
      PROVE  LastKey(n) <= n[i].k
  <2>1. i < fill
    <3>1. SUFFICES ASSUME fill <= i PROVE FALSE
      BY <1>1, <1>5
    <3>2. fill # NoPairs /\ fill \in Slot /\ n[fill].v = NULL
      BY <1>1, <1>5, <3>1, SlotFacts
    <3>3. fill # i
      BY <1>6, <3>2
    <3> QED
      BY <1>1, <1>5, <1>6, <3>1, <3>2, <3>3 DEF Ordered
  <2>2. i = fill - 1 \/ i < fill - 1
    BY <1>1, <1>5, <2>1
  <2>3. n[fill - 1].v # NULL
    BY <1>1, <1>3
  <2> QED
    BY <1>3, <1>4, <1>5, <2>2, <2>3 DEF Ordered
<1> QED
  BY <1>3, <1>4, <1>5, <1>6

(* A new root above the old one.                                           *)
LEMMA FirstPairOrder ==
  ASSUME NEW key \in Long, NEW val \in Ptr, val # NULL
  PROVE  \E o \in NodeOver(Ptr) :
           /\ o = [EmptyNode EXCEPT ![0] = [k |-> key, v |-> val]]
           /\ Ordered(o) /\ o[0] = [k |-> key, v |-> val]
           /\ \A i \in Slot : i # 0 => o[i] = Empty
<1> DEFINE o == [EmptyNode EXCEPT ![0] = [k |-> key, v |-> val]]
<1>1. \A i \in Slot : o[i] = IF i = 0 THEN [k |-> key, v |-> val] ELSE Empty
  BY SlotFacts DEF EmptyNode
<1>2. o[0] = [k |-> key, v |-> val] /\ \A i \in Slot : i # 0 => o[i] = Empty
  BY <1>1, SlotFacts
<1>3. Empty \in [k : Long, v : Ptr] /\ Empty.v = NULL /\ Empty.k = 0
  BY MaxLongAssumption DEF Empty, Long, Ptr
<1>4. o \in NodeOver(Ptr)
  BY <1>1, <1>3 DEF NodeOver, EmptyNode
<1>5. Ordered(o)
  BY <1>1, <1>3, SlotFacts DEF Ordered
<1> QED
  BY <1>2, <1>4, <1>5

-----------------------------------------------------------------------------
(* What the steps make of the tree. *)

LEMMA SameUsed ==
  ASSUME NEW m, NEW o, NEW n, o[n] = m[n]
  PROVE  Used(o, n) = Used(m, n)
BY DEF Used

(* Nodes outside the tree do not matter.                                   *)
LEMMA OutsideShape ==
  ASSUME NEW m, NEW r, NEW ht, NEW at, NEW lo, NEW hi, Shape(m, r, ht, at, lo, hi),
         NEW o \in Memory, \A l \in 1 .. ht : \A n \in at[l] : o[n] = m[n]
  PROVE  Shape(o, r, ht, at, lo, hi)
<1>1. ht \in Nat /\ \A l \in 1 .. ht : \A n \in at[l] : o[n] = m[n] /\ Used(o, n) = Used(m, n)
  BY SameUsed DEF Shape, Levels
<1>2. Levels(o, r, ht, at)
  <2>1. ht > 0 => 1 \in 1 .. ht
    BY <1>1
  <2> QED
    BY <1>1, <2>1 DEF Shape, Levels
<1>3. \A l \in 1 .. (ht - 1) : l + 1 \in 1 .. ht /\ l \in 1 .. ht
  BY <1>1
<1>4. Edges(o, ht, at)
  BY <1>1, <1>3 DEF Shape, Edges
<1>5. Spans(o, r, ht, at, lo, hi)
  BY <1>1 DEF Shape, Spans
<1>6. Bounds(o, ht, at, lo, hi)
  BY <1>1, <1>3 DEF Shape, Bounds
<1> QED
  BY <1>2, <1>4, <1>5, <1>6 DEF Shape

(* A leaf may change while it stays in order and in its span.              *)
LEMMA LeafShape ==
  ASSUME NEW m, NEW r, NEW ht, NEW at, NEW lo, NEW hi, Shape(m, r, ht, at, lo, hi),
         ht > 0, NEW n \in at[1], NEW p \in NodeOver(Ptr), Ordered(p),
         \A i \in Slot : p[i].v \in Val \cup {NULL},
         \A i \in Slot : p[i].v # NULL => InSpan(p[i].k, n, lo, hi),
         ht > 1 => p[0].v # NULL,
         NEW o, o = [m EXCEPT ![n] = p]
  PROVE  Shape(o, r, ht, at, lo, hi)
<1>1. /\ ht \in Nat /\ 1 \in 1 .. ht /\ n \in Node /\ m \in [Node -> NodeOver(Ptr)]
      /\ \A l \in 1 .. ht : at[l] \subseteq Node
  BY DEF Shape, Levels, Memory, MemOver
<1>2. /\ o \in Memory /\ o[n] = p
      /\ \A c \in Node : c # n => o[c] = m[c]
  BY <1>1 DEF Memory, MemOver
<1>3. \A l \in 2 .. ht : \A c \in at[l] : c # n /\ c \in Node
  BY <1>1 DEF Shape, Levels
<1>4. \A l \in 2 .. ht : \A c \in at[l] : o[c] = m[c] /\ Used(o, c) = Used(m, c)
  <2> SUFFICES ASSUME NEW l \in 2 .. ht, NEW c \in at[l]
               PROVE  o[c] = m[c] /\ Used(o, c) = Used(m, c)
    OBVIOUS
  <2>1. o[c] = m[c]
    BY <1>2, <1>3
  <2> QED
    BY <2>1 DEF Used
<1>5. Levels(o, r, ht, at)
  BY <1>1, <1>2, <1>4 DEF Shape, Levels
<1>6. \A l \in 1 .. (ht - 1) : l + 1 \in 2 .. ht
  BY <1>1
<1>7. Edges(o, ht, at)
  <2>1. ASSUME NEW l \in 1 .. (ht - 1), NEW c \in at[l + 1]
        PROVE  o[c] = m[c] /\ Used(o, c) = Used(m, c)
    BY <1>4, <1>6
  <2>2. Edges(m, ht, at)
    BY DEF Shape
  <2> SUFFICES ASSUME NEW l \in 1 .. (ht - 1)
               PROVE  /\ \A c \in at[l + 1] : \A i \in Used(o, c) : o[c][i].v \in at[l]
                      /\ \A d \in at[l] : \E c \in at[l + 1], i \in Slot : o[c][i].v = d
    BY DEF Edges
  <2>3. \A c \in at[l + 1] : \A i \in Used(o, c) : o[c][i].v \in at[l]
    BY <2>1, <2>2 DEF Edges
  <2>4. \A d \in at[l] : \E c \in at[l + 1], i \in Slot : o[c][i].v = d
    BY <2>1, <2>2 DEF Edges
  <2> QED
    BY <2>3, <2>4
<1>8. Spans(o, r, ht, at, lo, hi)
  <2> SUFFICES ASSUME NEW l \in 1 .. ht, NEW c \in at[l]
               PROVE  /\ Ordered(o[c]) /\ lo[c] < hi[c]
                      /\ \A i \in Used(o, c) : lo[c] <= o[c][i].k /\ o[c][i].k < hi[c]
    BY DEF Shape, Spans
  <2>1. CASE c = n
    <3>1. lo[c] < hi[c] /\ Ordered(o[c])
      BY <1>2, <2>1 DEF Shape, Spans
    <3>2. \A i \in Used(o, c) : i \in Slot /\ p[i].v # NULL
      BY <1>2, <2>1 DEF Used
    <3> QED
      BY <1>2, <2>1, <3>1, <3>2 DEF InSpan
  <2>2. CASE c # n
    <3>1. o[c] = m[c] /\ Used(o, c) = Used(m, c)
      <4>1. c \in Node
        BY <1>1
      <4>2. o[c] = m[c]
        BY <1>2, <2>2, <4>1
      <4> QED
        BY <4>2, SameUsed
    <3>2. Spans(m, r, ht, at, lo, hi)
      BY DEF Shape
    <3> QED
      BY <3>1, <3>2 DEF Spans
  <2> QED
    BY <2>1, <2>2
<1>9. Bounds(o, ht, at, lo, hi)
  BY <1>4, <1>6 DEF Shape, Bounds
<1> QED
  BY <1>2, <1>5, <1>7, <1>8, <1>9 DEF Shape

(* find_level lowers the right-most key of a node on the way to a key that *)
(* is below it: the child there takes over the keys in between.            *)
LowerStep(m, lo, n, j, key, o, d, lw) ==
  /\ o = [m EXCEPT ![n][j].k = key]
  /\ lw = [lo EXCEPT ![d] = key]

LEMMA LowerShape ==
  ASSUME NEW m, NEW r, NEW ht, NEW at, NEW lo, NEW hi, Shape(m, r, ht, at, lo, hi),
         NEW l \in 1 .. (ht - 1), NEW n \in at[l + 1], NEW j \in Used(m, n),
         NEW key \in Long, InSpan(key, n, lo, hi), key <= m[n][j].k,
         \A i \in Slot : j < i => m[n][i].v = NULL,
         NEW d, d = m[n][j].v, NEW o, NEW lw, LowerStep(m, lo, n, j, key, o, d, lw)
  PROVE  /\ Shape(o, r, ht, at, lw, hi)
         /\ d \in at[l] /\ InSpan(key, d, lw, hi)
         /\ \A c \in Node : lw[c] <= lo[c]
<1>1. /\ ht \in Nat /\ l \in 1 .. ht /\ l + 1 \in 1 .. ht /\ n \in Node
      /\ m \in [Node -> NodeOver(Ptr)] /\ \A k \in 1 .. ht : at[k] \subseteq Node
      /\ j \in Slot /\ m[n][j].v # NULL
      /\ lo \in [Node -> Int] /\ hi \in [Node -> Int] /\ key \in Int
  BY DEF Shape, Levels, Memory, MemOver, Used, Spans, Long
<1>2. /\ d \in at[l] /\ d \in Node /\ lo[d] = m[n][j].k
      /\ hi[d] = IF j = 0 THEN hi[n] ELSE m[n][j - 1].k
      /\ lo[n] <= lo[d] /\ hi[d] <= hi[n]
  BY ChildSpan
<1>3. /\ m[n] \in NodeOver(Ptr) /\ o[n] = [m[n] EXCEPT ![j].k = key]
      /\ \A c \in Node : c # n => o[c] = m[c]
  BY <1>1 DEF LowerStep
<1>4. Ordered(m[n]) /\ lo[d] < hi[d]
  BY <1>1, <1>2 DEF Shape, Spans
<1>5. Ordered(o[n]) /\ o[n] \in NodeOver(Ptr)
  BY <1>1, <1>3, <1>4, LowerOrder
<1>6. o \in Memory
  BY <1>1, <1>3, <1>5 DEF Memory, MemOver, LowerStep
<1>7. \A c \in Node, i \in Slot : o[c][i].v = m[c][i].v
                                   /\ o[c][i].k = IF c = n /\ i = j THEN key ELSE m[c][i].k
  BY <1>1, <1>3 DEF NodeOver, LowerStep
<1>8. \A c \in Node : Used(o, c) = Used(m, c)
  BY <1>7 DEF Used
<1>9. /\ lw \in [Node -> Int] /\ lw[d] = key
      /\ \A c \in Node : c # d => lw[c] = lo[c]
  BY <1>1, <1>2 DEF LowerStep
<1>10. \A c \in Node : lw[c] <= lo[c]
  BY <1>1, <1>2, <1>9
<1>11. \A k \in 1 .. ht : k # l => d \notin at[k]
  BY <1>1, <1>2 DEF Shape, Levels
<1>12. d # r
  <2>1. ht \in 1 .. ht /\ ht # l /\ ht # 0
    BY <1>1
  <2> QED
    BY <1>11, <2>1 DEF Shape, Levels
<1>13. Levels(o, r, ht, at)
  <2>1. \A k \in 1 .. ht : \A c \in at[k], i \in Slot : o[c][i].v = m[c][i].v
    BY <1>1, <1>7
  <2>2. 0 \in Slot /\ 1 \in 1 .. ht
    BY <1>1, SlotFacts
  <2>3. Levels(m, r, ht, at)
    BY DEF Shape
  <2>4. ht > 0 => \A c \in at[1], i \in Slot : o[c][i].v \in Val \cup {NULL}
    BY <2>1, <2>2, <2>3 DEF Levels
  <2>5. ht > 1 => \A k \in 1 .. ht : \A c \in at[k] : o[c][0].v # NULL
    BY <2>1, <2>2, <2>3 DEF Levels
  <2> QED
    BY <2>3, <2>4, <2>5 DEF Levels
<1>14. \A k \in 1 .. (ht - 1) : k + 1 \in 1 .. ht /\ k \in 1 .. ht
  BY <1>1
<1>15. Edges(o, ht, at)
  <2>1. \A k \in 1 .. (ht - 1) : \A c \in at[k + 1] : c \in Node
    BY <1>1, <1>14
  <2> QED
    BY <1>7, <1>8, <2>1 DEF Shape, Edges, Used
<1>16. InSpan(key, d, lw, hi)
  BY <1>1, <1>2, <1>4, <1>9 DEF InSpan
<1>17. Spans(o, r, ht, at, lw, hi)
  <2>1. ht > 0 => lw[r] = 0 /\ hi[r] = MaxLong + 1
    <3>1. r \in Node
      BY <1>1 DEF Shape, Levels
    <3> QED
      BY <1>1, <1>9, <1>12, <3>1 DEF Shape, Spans
  <2>2. ASSUME NEW k \in 1 .. ht, NEW c \in at[k]
        PROVE  /\ Ordered(o[c]) /\ lw[c] < hi[c]
               /\ \A i \in Used(o, c) : lw[c] <= o[c][i].k /\ o[c][i].k < hi[c]
    <3>1. /\ Ordered(m[c]) /\ lo[c] < hi[c] /\ c \in Node
          /\ \A i \in Used(m, c) : lo[c] <= m[c][i].k /\ m[c][i].k < hi[c]
      BY <1>1 DEF Shape, Spans
    <3>2. Ordered(o[c])
      BY <1>3, <1>5, <3>1
    <3>3. lw[c] <= lo[c] /\ lw[c] \in Int /\ lo[c] \in Int /\ hi[c] \in Int
      BY <1>1, <1>9, <1>10, <3>1
    <3>4. ASSUME NEW i \in Used(o, c)
          PROVE  lw[c] <= o[c][i].k /\ o[c][i].k < hi[c]
      <4>1. i \in Used(m, c) /\ i \in Slot
        BY <1>8, <3>1 DEF Used
      <4>2. CASE c = n /\ i = j
        <5>1. n # d
          BY <1>1, <1>11
        <5> QED
          BY <1>7, <1>9, <3>1, <3>3, <4>1, <4>2, <5>1 DEF InSpan
      <4>3. CASE ~ (c = n /\ i = j)
        <5>1. o[c][i].k = m[c][i].k /\ m[c][i].k \in Int
          BY <1>1, <1>7, <3>1, <4>1, <4>3 DEF NodeOver, Long
        <5> QED
          BY <3>1, <3>3, <4>1, <5>1
      <4> QED
        BY <4>2, <4>3
    <3>5. lw[c] < hi[c]
      BY <3>1, <3>3
    <3> QED
      BY <3>2, <3>4, <3>5
  <2>3. lw \in [Node -> Int] /\ hi \in [Node -> Int]
    BY <1>1, <1>9
  <2> QED
    BY <2>1, <2>2, <2>3 DEF Spans
<1>18. Apart(ht, at, lw, hi)
  <2>1. ASSUME NEW c \in at[l], c # d
        PROVE  hi[c] <= lw[d] \/ hi[d] <= lo[c]
    <3>1. c \in Node /\ lo[c] < hi[c] /\ (hi[c] <= lo[d] \/ hi[d] <= lo[c])
      BY <1>1, <1>2, <2>1 DEF Shape, Spans, Apart
    <3>2. PICK p \in at[l + 1], i \in Slot : m[p][i].v = c
      BY DEF Shape, Edges
    <3>3. i \in Used(m, p)
      BY <3>1, <3>2, NodeAssumption DEF Used
    <3>4. lo[p] <= lo[c] /\ hi[c] <= hi[p] /\ lo[c] = m[p][i].k /\ p \in Node
      BY <3>2, <3>3, ChildSpan
    <3>5. CASE p = n
      <4>1. i \in Slot /\ i # j
        BY <2>1, <3>2, <3>5
      <4>2. ~ (j < i)
        BY <3>2, <3>1, <3>5, <4>1, NodeAssumption
      <4>3. i < j
        BY <1>1, <4>1, <4>2, SlotFacts
      <4>4. m[n][i].k > m[n][j].k /\ m[n][i].k \in Int /\ m[n][j].k \in Int
        BY <1>1, <1>4, <4>1, <4>3 DEF Ordered, NodeOver, Long
      <4>5. ~ (hi[c] <= lo[d])
        BY <1>1, <1>2, <3>1, <3>4, <3>5, <4>4
      <4> QED
        BY <3>1, <4>5
    <3>6. CASE p # n
      <4>1. hi[p] <= lo[n] \/ hi[n] <= lo[p]
        BY <1>1, <3>2, <3>6 DEF Shape, Apart
      <4>2. /\ lo[p] \in Int /\ hi[p] \in Int /\ lo[n] \in Int /\ hi[n] \in Int
            /\ lo[c] \in Int /\ hi[c] \in Int /\ lo[d] \in Int /\ hi[d] \in Int
        BY <1>1, <1>2, <3>1, <3>4
      <4>3. lo[n] <= key /\ lw[d] = key
        BY <1>9 DEF InSpan
      <4>4. CASE hi[p] <= lo[n]
        BY <1>1, <3>4, <4>2, <4>3, <4>4
      <4>5. CASE hi[n] <= lo[p]
        BY <1>2, <3>4, <4>2, <4>5
      <4> QED
        BY <4>1, <4>4, <4>5
    <3> QED
      BY <3>5, <3>6
  <2> SUFFICES ASSUME NEW k \in 1 .. ht, NEW a \in at[k], NEW c \in at[k], a # c
               PROVE  hi[c] <= lw[a] \/ hi[a] <= lw[c]
    BY DEF Apart
  <2>2. a \in Node /\ c \in Node /\ (hi[c] <= lo[a] \/ hi[a] <= lo[c])
    BY <1>1 DEF Shape, Apart
  <2>3. CASE a = d
    BY <1>9, <1>11, <2>1, <2>2, <2>3
  <2>4. CASE c = d
    BY <1>9, <1>11, <2>1, <2>2, <2>4
  <2>5. CASE a # d /\ c # d
    BY <1>9, <2>2, <2>5
  <2> QED
    BY <2>3, <2>4, <2>5
<1>19. Bounds(o, ht, at, lw, hi)
  <2> SUFFICES ASSUME NEW k \in 1 .. (ht - 1), NEW c \in at[k + 1], NEW i \in Used(o, c)
               PROVE  /\ lw[o[c][i].v] = o[c][i].k
                      /\ hi[o[c][i].v] = IF i = 0 THEN hi[c] ELSE o[c][i - 1].k
    BY DEF Bounds
  <2>1. k + 1 \in 1 .. ht /\ c \in Node /\ i \in Slot /\ i \in Used(m, c)
    BY <1>1, <1>8 DEF Used
  <2>2. /\ m[c][i].v \in Node /\ lo[m[c][i].v] = m[c][i].k
        /\ hi[m[c][i].v] = IF i = 0 THEN hi[c] ELSE m[c][i - 1].k
    BY <2>1, ChildSpan
  <2>3. o[c][i].v = m[c][i].v
    BY <1>7, <2>1
  <2>4. i # 0 => i - 1 \in Slot
    BY <2>1, SlotFacts
  <2>5. i # 0 => o[c][i - 1].k = m[c][i - 1].k
    <3>1. SUFFICES ASSUME i # 0, c = n, i - 1 = j PROVE FALSE
      BY <1>7, <2>1, <2>4
    <3>2. j < i /\ m[n][i].v # NULL
      BY <1>1, <2>1, <3>1, SlotFacts DEF Used
    <3> QED
      BY <2>1, <3>2
  <2>6. CASE c = n /\ i = j
    BY <1>7, <1>9, <2>1, <2>2, <2>3, <2>5, <2>6
  <2>7. CASE ~ (c = n /\ i = j)
    <3>1. m[c][i].v # d
      <4>1. SUFFICES ASSUME m[c][i].v = d PROVE FALSE
        OBVIOUS
      <4>2. k = l
        <5>1. m[c][i].v \in at[k] /\ k \in 1 .. ht
          BY <1>14, <2>1, ChildSpan
        <5> QED
          BY <1>11, <4>1, <5>1
      <4>3. c = n /\ i = j
        BY <2>1, <4>1, <4>2, OneSlot
      <4> QED
        BY <2>7, <4>3
    <3>2. lw[m[c][i].v] = m[c][i].k
      BY <1>9, <2>2, <3>1
    <3>3. o[c][i].k = m[c][i].k
      BY <1>7, <2>1, <2>7
    <3> QED
      BY <2>2, <2>3, <2>5, <3>2, <3>3
  <2> QED
    BY <2>6, <2>7
<1> QED
  BY <1>2, <1>6, <1>10, <1>13, <1>15, <1>16, <1>17, <1>18, <1>19 DEF Shape

(* A leaf takes a pair.                                                    *)
LEMMA PutShape ==
  ASSUME NEW m, NEW r, NEW ht, NEW at, NEW lo, NEW hi, Shape(m, r, ht, at, lo, hi),
         ht > 0, NEW n \in at[1], NEW key \in Long, InSpan(key, n, lo, hi), NEW val \in Val,
         NEW pos, pos = getpos(m[n], key), NEW fill, fill = getfill(m[n], pos), fill # NoPairs,
         pos < fill => m[n][pos].k # key,
         NEW p, p = insert_pair(m[n], pos, fill, key, val), NEW o, o = [m EXCEPT ![n] = p]
  PROVE  Shape(o, r, ht, at, lo, hi)
<1>1. n \in Node /\ 1 \in 1 .. ht /\ ht \in Nat
  BY DEF Shape, Levels
<1>2. m[n] \in NodeOver(Ptr) /\ Ordered(m[n]) /\ val \in Ptr /\ val # NULL
  BY <1>1, NodeKind, ValAssumption DEF Shape, Spans, Ptr
<1>3. /\ pos \in Slot /\ fill \in Slot /\ pos <= fill
      /\ p[pos] = [k |-> key, v |-> val]
      /\ \A i \in Slot : i < pos => p[i] = m[n][i] /\ m[n][i].v # NULL
      /\ \A i \in Slot : pos < i /\ i <= fill => p[i] = m[n][i - 1] /\ m[n][i - 1].v # NULL
      /\ \A i \in Slot : fill < i => p[i] = m[n][i] /\ m[n][i].v = NULL
      /\ p \in NodeOver(Ptr)
  BY <1>2, InsertSlots
<1>4. Ordered(p)
  BY <1>2, InsertKeepsOrder
<1>5. ASSUME NEW i \in Slot
      PROVE  \/ p[i] = [k |-> key, v |-> val]
             \/ \E j \in Slot : p[i] = m[n][j]
  <2>1. i < pos \/ i = pos \/ (pos < i /\ i <= fill) \/ fill < i
    BY <1>3, SlotFacts
  <2>2. pos < i => i - 1 \in Slot
    BY <1>3, SlotFacts
  <2> QED
    BY <1>3, <2>1, <2>2
<1>6. \A i \in Slot : p[i].v \in Val \cup {NULL}
  BY <1>1, <1>5 DEF Shape, Levels
<1>7. \A j \in Slot : m[n][j].v # NULL => InSpan(m[n][j].k, n, lo, hi)
  BY <1>1 DEF Shape, Spans, Used, InSpan
<1>8. \A i \in Slot : p[i].v # NULL => InSpan(p[i].k, n, lo, hi)
  BY <1>5, <1>7
<1>9. p[0].v # NULL
  <2>1. CASE pos = 0
    BY <1>2, <1>3, <2>1
  <2>2. CASE 0 < pos
    BY <1>3, <2>2, SlotFacts
  <2> QED
    BY <1>3, <2>1, <2>2, SlotFacts
<1> QED
  BY <1>3, <1>4, <1>6, <1>8, <1>9, LeafShape

(* The first node.                                                         *)
LEMMA FirstShape ==
  ASSUME NEW m, NEW r, NEW at, NEW lo, NEW hi, Shape(m, r, 0, at, lo, hi),
         NEW a \in Node, NEW o, o = [m EXCEPT ![a] = EmptyNode],
         NEW up, up = [l \in 1 .. 1 |-> {a}],
         NEW lw, lw = [lo EXCEPT ![a] = 0], NEW hg, hg = [hi EXCEPT ![a] = MaxLong + 1]
  PROVE  Shape(o, a, 1, up, lw, hg)
<1>1. m \in [Node -> NodeOver(Ptr)] /\ lo \in [Node -> Int] /\ hi \in [Node -> Int]
      /\ EmptyNode \in NodeOver(Ptr)
  BY EmptyNodeType DEF Shape, Memory, MemOver, Spans, Ptr
<1>2. o \in Memory /\ o[a] = EmptyNode
  BY <1>1 DEF Memory, MemOver
<1>3. lw \in [Node -> Int] /\ hg \in [Node -> Int] /\ lw[a] = 0 /\ hg[a] = MaxLong + 1
  BY <1>1, MaxLongAssumption
<1>4. 1 .. 1 = {1} /\ up[1] = {a} /\ up \in [1 .. 1 -> SUBSET Node]
  OBVIOUS
<1>5. 1 .. (1 - 1) = {}
  OBVIOUS
<1>6. Ordered(EmptyNode) /\ \A i \in Slot : EmptyNode[i].v = NULL
  BY EmptyOrder
<1>7. Levels(o, a, 1, up)
  BY <1>2, <1>4, <1>6 DEF Levels
<1>8. Edges(o, 1, up) /\ Bounds(o, 1, up, lw, hg)
  BY <1>5 DEF Edges, Bounds
<1>9. Spans(o, a, 1, up, lw, hg)
  BY <1>2, <1>3, <1>4, <1>6, MaxLongAssumption DEF Spans, Used
<1>10. Apart(1, up, lw, hg)
  BY <1>4 DEF Apart
<1> QED
  BY <1>2, <1>7, <1>8, <1>9, <1>10 DEF Shape

(* A new root above the old one, which is not empty.                       *)
GrowStep(m, r, ht, at, lo, hi, a, key, p, o, up, lw, hg) ==
  /\ key = LastKey(m[r])
  /\ p \in NodeOver(Ptr) /\ Ordered(p) /\ p[0] = [k |-> key, v |-> r]
  /\ \A i \in Slot : i # 0 => p[i] = Empty
  /\ o = [m EXCEPT ![a] = p]
  /\ up = [l \in 1 .. (ht + 1) |-> IF l = ht + 1 THEN {a} ELSE at[l]]
  /\ lw = [[lo EXCEPT ![a] = 0] EXCEPT ![r] = key]
  /\ hg = [hi EXCEPT ![a] = MaxLong + 1]

LEMMA GrowShape ==
  ASSUME NEW m, NEW r, NEW ht, NEW at, NEW lo, NEW hi, Shape(m, r, ht, at, lo, hi),
         ht > 0, m[r][0].v # NULL,
         NEW a \in Node, \A l \in 1 .. ht : a \notin at[l],
         NEW key, NEW p, NEW o, NEW up, NEW lw, NEW hg,
         GrowStep(m, r, ht, at, lo, hi, a, key, p, o, up, lw, hg)
  PROVE  Shape(o, a, ht + 1, up, lw, hg)
<1>1. /\ ht \in Nat /\ ht \in 1 .. ht /\ at[ht] = {r} /\ r \in Node /\ r # a
      /\ \A l \in 1 .. ht : at[l] \subseteq Node
      /\ m \in [Node -> NodeOver(Ptr)] /\ lo \in [Node -> Int] /\ hi \in [Node -> Int]
      /\ lo[r] = 0 /\ hi[r] = MaxLong + 1
      /\ \A k, l \in 1 .. ht : k # l => at[k] \cap at[l] = {}
  BY DEF Shape, Levels, Memory, MemOver, Spans
<1>2. m[r] \in NodeOver(Ptr) /\ Ordered(m[r]) /\ r \in Ptr /\ r # NULL
  BY <1>1, NodeAssumption DEF Shape, Spans, Ptr
<1>3. key \in Long /\ \A i \in Slot : m[r][i].v # NULL => key <= m[r][i].k
  BY <1>2, LastKeyLeast DEF GrowStep
<1>4. /\ Ordered(p) /\ p \in NodeOver(Ptr) /\ p[0] = [k |-> key, v |-> r]
      /\ \A i \in Slot : i # 0 => p[i] = Empty
  BY DEF GrowStep
<1>5. o \in [Node -> NodeOver(Ptr)] /\ o[a] = p /\ \A n \in Node : n # a => o[n] = m[n]
  BY <1>1, <1>4 DEF GrowStep
<1>6. o \in Memory /\ o[a] = p /\ \A n \in Node : n # a => o[n] = m[n] /\ Used(o, n) = Used(m, n)
  BY <1>5, SameUsed DEF Memory, MemOver
<1>7. /\ up \in [1 .. (ht + 1) -> SUBSET Node] /\ up[ht + 1] = {a}
      /\ \A l \in 1 .. ht : up[l] = at[l] /\ l \in 1 .. (ht + 1) /\ l # ht + 1
      /\ \A l \in 1 .. (ht + 1) : l \in 1 .. ht \/ l = ht + 1
  BY <1>1 DEF GrowStep
<1>8. /\ lw \in [Node -> Int] /\ hg \in [Node -> Int]
      /\ lw[a] = 0 /\ hg[a] = MaxLong + 1 /\ lw[r] = key /\ hg[r] = MaxLong + 1
      /\ \A n \in Node : n # a => hg[n] = hi[n] /\ (n # r => lw[n] = lo[n])
  BY <1>1, <1>3, MaxLongAssumption DEF Long, GrowStep
<1>9. Used(o, a) = {0}
  <2>1. p[0].v = r /\ \A i \in Slot : i # 0 => p[i].v = NULL
    BY <1>4 DEF Empty
  <2> QED
    BY <1>2, <1>6, <2>1, SlotFacts DEF Used
<1>10. \A l \in 1 .. ht : \A n \in at[l] : /\ n \in Node /\ n # a /\ o[n] = m[n]
                                           /\ Used(o, n) = Used(m, n)
  <2> SUFFICES ASSUME NEW l \in 1 .. ht, NEW n \in at[l]
               PROVE  n \in Node /\ n # a /\ o[n] = m[n] /\ Used(o, n) = Used(m, n)
    OBVIOUS
  <2>1. n \in Node /\ n # a
    BY <1>1
  <2> QED
    BY <1>6, <2>1
<1>11. Levels(o, a, ht + 1, up)
  <2>1. \A k, l \in 1 .. (ht + 1) : k # l => up[k] \cap up[l] = {}
    <3> SUFFICES ASSUME NEW k \in 1 .. (ht + 1), NEW l \in 1 .. (ht + 1), k # l
                 PROVE  up[k] \cap up[l] = {}
      OBVIOUS
    <3>1. CASE k \in 1 .. ht /\ l \in 1 .. ht
      BY <1>1, <1>7, <3>1
    <3>2. CASE k = ht + 1
      <4>1. l \in 1 .. ht /\ up[k] = {a} /\ up[l] = at[l]
        BY <1>7, <3>2
      <4> QED
        BY <4>1
    <3>3. CASE l = ht + 1
      <4>1. k \in 1 .. ht /\ up[l] = {a} /\ up[k] = at[k]
        BY <1>7, <3>3
      <4> QED
        BY <4>1
    <3> QED
      BY <1>7, <3>1, <3>2, <3>3
  <2>2. ht + 1 > 0 => \A n \in up[1], i \in Slot : o[n][i].v \in Val \cup {NULL}
    <3>1. 1 \in 1 .. ht
      BY <1>1
    <3> QED
      BY <1>7, <1>10, <3>1 DEF Shape, Levels
  <2>3. ASSUME NEW l \in 1 .. (ht + 1), NEW n \in up[l]
        PROVE  o[n][0].v # NULL
    <3>1. CASE l = ht + 1
      <4>1. n = a /\ p[0].v = r
        BY <1>4, <1>7, <3>1
      <4> QED
        BY <1>2, <1>6, <4>1
    <3>2. CASE l \in 1 .. ht /\ ht > 1
      BY <1>7, <1>10, <3>2 DEF Shape, Levels
    <3>3. CASE l \in 1 .. ht /\ ht = 1
      <4>1. n = r
        BY <1>1, <1>7, <3>3
      <4> QED
        BY <1>1, <1>6, <4>1
    <3> QED
      BY <1>1, <1>7, <3>1, <3>2, <3>3
  <2>4. ht + 1 \in Nat /\ ht + 1 # 0
    BY <1>1
  <2> QED
    BY <1>7, <2>1, <2>2, <2>3, <2>4 DEF Levels
<1>12. \A l \in 1 .. ((ht + 1) - 1) : l = ht \/ (l \in 1 .. (ht - 1) /\ l + 1 \in 1 .. ht /\ l \in 1 .. ht)
  BY <1>1
<1>13. Edges(o, ht + 1, up)
  <2> SUFFICES ASSUME NEW l \in 1 .. ((ht + 1) - 1)
               PROVE  /\ \A n \in up[l + 1] : \A i \in Used(o, n) : o[n][i].v \in up[l]
                      /\ \A c \in up[l] : \E n \in up[l + 1], i \in Slot : o[n][i].v = c
    BY DEF Edges
  <2>1. CASE l = ht
    <3>1. up[l + 1] = {a} /\ up[l] = {r}
      BY <1>1, <1>7, <2>1
    <3>2. o[a][0].v = r
      BY <1>4, <1>6
    <3> QED
      BY <1>9, <3>1, <3>2, SlotFacts
  <2>2. CASE l \in 1 .. (ht - 1) /\ l + 1 \in 1 .. ht /\ l \in 1 .. ht
    <3>1. up[l] = at[l] /\ up[l + 1] = at[l + 1]
      BY <1>7, <2>2
    <3>2. \A n \in at[l + 1] : o[n] = m[n] /\ Used(o, n) = Used(m, n)
      BY <1>10, <2>2
    <3>3. /\ \A n \in at[l + 1] : \A i \in Used(m, n) : m[n][i].v \in at[l]
          /\ \A c \in at[l] : \E n \in at[l + 1], i \in Slot : m[n][i].v = c
      <4> USE <2>2
      <4>1. Edges(m, ht, at)
        BY DEF Shape
      <4> QED
        BY <4>1 DEF Edges
    <3>4. ASSUME NEW n \in at[l + 1], NEW i \in Used(o, n)
          PROVE  o[n][i].v \in at[l]
      BY <3>2, <3>3
    <3>5. ASSUME NEW c \in at[l]
          PROVE  \E n \in at[l + 1], i \in Slot : o[n][i].v = c
      <4>1. PICK n \in at[l + 1], i \in Slot : m[n][i].v = c
        BY <3>3
      <4> QED
        BY <3>2, <4>1
    <3>6. \A n \in up[l + 1] : \A i \in Used(o, n) : o[n][i].v \in up[l]
      BY <3>1, <3>4
    <3>7. \A c \in up[l] : \E n \in up[l + 1], i \in Slot : o[n][i].v = c
      <4> SUFFICES ASSUME NEW c \in up[l]
                   PROVE  \E n \in up[l + 1], i \in Slot : o[n][i].v = c
        OBVIOUS
      <4>1. c \in at[l]
        BY <3>1
      <4>2. PICK n \in at[l + 1], i \in Slot : o[n][i].v = c
        BY <3>5, <4>1
      <4>3. n \in up[l + 1]
        BY <3>1, <4>2
      <4> QED
        BY <4>2, <4>3
    <3> QED
      BY <3>6, <3>7
  <2> QED
    BY <1>12, <2>1, <2>2
<1>14. Spans(o, a, ht + 1, up, lw, hg)
  <2>1. ASSUME NEW l \in 1 .. (ht + 1), NEW n \in up[l]
        PROVE  /\ Ordered(o[n]) /\ lw[n] < hg[n]
               /\ \A i \in Used(o, n) : lw[n] <= o[n][i].k /\ o[n][i].k < hg[n]
    <3>1. CASE l = ht + 1
      <4>1. n = a
        BY <1>7, <3>1
      <4>2. lw[a] < hg[a] /\ lw[a] <= key /\ key < hg[a]
        BY <1>3, <1>8, MaxLongAssumption DEF Long
      <4>3. o[a][0].k = key
        BY <1>4, <1>6
      <4>4. Ordered(o[a])
        BY <1>4, <1>6
      <4>5. \A i \in Used(o, a) : lw[a] <= o[a][i].k /\ o[a][i].k < hg[a]
        <5> SUFFICES ASSUME NEW i \in Used(o, a)
                     PROVE  lw[a] <= o[a][i].k /\ o[a][i].k < hg[a]
          OBVIOUS
        <5>1. i = 0
          BY <1>9
        <5> QED
          BY <4>2, <4>3, <5>1
      <4> QED
        BY <4>1, <4>2, <4>4, <4>5
    <3>2. CASE l \in 1 .. ht
      <4>1. n \in at[l] /\ n \in Node /\ n # a /\ o[n] = m[n] /\ Used(o, n) = Used(m, n)
        BY <1>7, <1>10, <3>2
      <4>2. /\ Ordered(m[n]) /\ lo[n] < hi[n]
            /\ \A i \in Used(m, n) : lo[n] <= m[n][i].k /\ m[n][i].k < hi[n]
        BY <3>2, <4>1 DEF Shape, Spans
      <4>3. CASE n # r
        BY <1>8, <4>1, <4>2, <4>3
      <4>4. CASE n = r
        <5>1. \A i \in Used(m, n) : key <= m[n][i].k
          BY <1>3, <4>4 DEF Used
        <5>2. key < MaxLong + 1
          BY <1>3, MaxLongAssumption DEF Long
        <5> QED
          BY <1>1, <1>8, <4>1, <4>2, <4>4, <5>1, <5>2
      <4> QED
        BY <4>3, <4>4
    <3> QED
      BY <1>7, <3>1, <3>2
  <2> QED
    BY <1>8, <2>1 DEF Spans
<1>15. Apart(ht + 1, up, lw, hg)
  <2> SUFFICES ASSUME NEW l \in 1 .. (ht + 1), NEW n \in up[l], NEW c \in up[l], n # c
               PROVE  hg[c] <= lw[n] \/ hg[n] <= lw[c]
    BY DEF Apart
  <2>1. l \in 1 .. ht /\ l # ht
    BY <1>1, <1>7
  <2>2. n \in at[l] /\ c \in at[l] /\ n # r /\ c # r
    BY <1>1, <1>7, <2>1
  <2>3. hi[c] <= lo[n] \/ hi[n] <= lo[c]
    BY <2>1, <2>2 DEF Shape, Apart
  <2> QED
    BY <1>8, <1>10, <2>1, <2>2, <2>3
<1>16. Bounds(o, ht + 1, up, lw, hg)
  <2> SUFFICES ASSUME NEW l \in 1 .. ((ht + 1) - 1), NEW n \in up[l + 1], NEW i \in Used(o, n)
               PROVE  /\ lw[o[n][i].v] = o[n][i].k
                      /\ hg[o[n][i].v] = IF i = 0 THEN hg[n] ELSE o[n][i - 1].k
    BY DEF Bounds
  <2>1. CASE l = ht
    <3>1. n = a /\ i = 0
      BY <1>7, <1>9, <2>1
    <3>2. o[n][i].v = r /\ o[n][i].k = key
      BY <1>4, <1>6, <3>1
    <3> QED
      BY <1>8, <3>1, <3>2
  <2>2. CASE l \in 1 .. (ht - 1) /\ l + 1 \in 1 .. ht /\ l \in 1 .. ht
    <3>1. n \in at[l + 1] /\ n \in Node /\ n # a /\ o[n] = m[n] /\ i \in Used(m, n)
      BY <1>7, <1>10, <2>2
    <3>2. /\ m[n][i].v \in at[l] /\ m[n][i].v \in Node /\ lo[m[n][i].v] = m[n][i].k
          /\ hi[m[n][i].v] = IF i = 0 THEN hi[n] ELSE m[n][i - 1].k
      BY <2>2, <3>1, ChildSpan
    <3>3. m[n][i].v # r /\ m[n][i].v # a
      <4>1. l # ht
        BY <1>1, <2>2
      <4> QED
        BY <1>1, <1>10, <2>2, <3>2, <4>1
    <3> QED
      BY <1>8, <3>1, <3>2, <3>3
  <2> QED
    BY <1>12, <2>1, <2>2
<1> QED
  BY <1>6, <1>11, <1>13, <1>14, <1>15, <1>16 DEF Shape

(* A full node splits: its parent takes the new node a under the key that  *)
(* ends the half which moves to it.                                        *)
SplitStep(m, ht, at, lo, hi, l, n, c, a, key, pos, fill, o, up, lw, hg) ==
  /\ \A i \in Slot : m[c][i].v # NULL
  /\ \A k \in 1 .. ht : a \notin at[k]
  /\ key = m[c][SplitSlot].k /\ InSpan(key, n, lo, hi)
  /\ pos = getpos(m[n], key) /\ fill = getfill(m[n], pos) /\ fill # NoPairs
  /\ o \in Memory
  /\ o[n] = insert_pair(m[n], pos, fill, key, a)
  /\ o[a] = upper_half(m[c], EmptyNode)
  /\ o[c] = lower_half(m[c])
  /\ \A x \in Node : x \notin {n, a, c} => o[x] = m[x]
  /\ up \in [1 .. ht -> SUBSET Node] /\ up[l] = at[l] \cup {a}
  /\ \A k \in 1 .. ht : k # l => up[k] = at[k]
  /\ lw \in [Node -> Int] /\ hg \in [Node -> Int]
  /\ lw[a] = key /\ hg[a] = hi[c] /\ hg[c] = key
  /\ \A x \in Node : x # a => lw[x] = lo[x]
  /\ \A x \in Node : x # a /\ x # c => hg[x] = hi[x]

LEMMA SplitShape ==
  ASSUME NEW m, NEW r, NEW ht, NEW at, NEW lo, NEW hi, Shape(m, r, ht, at, lo, hi),
         NEW l \in 1 .. (ht - 1), NEW n \in at[l + 1], NEW c \in at[l], NEW a \in Node,
         NEW key, NEW pos, NEW fill, NEW o, NEW up, NEW lw, NEW hg,
         SplitStep(m, ht, at, lo, hi, l, n, c, a, key, pos, fill, o, up, lw, hg)
  PROVE  Shape(o, r, ht, up, lw, hg)
<1>0. /\ \A i \in Slot : m[c][i].v # NULL
      /\ \A k \in 1 .. ht : a \notin at[k]
      /\ key = m[c][SplitSlot].k /\ InSpan(key, n, lo, hi)
  BY DEF SplitStep
<1>1. /\ ht \in Nat /\ l \in 1 .. ht /\ l + 1 \in 1 .. ht /\ l # ht /\ n \in Node /\ c \in Node
      /\ \A k \in 1 .. ht : at[k] \subseteq Node
      /\ at \in [1 .. ht -> SUBSET Node] /\ at[ht] = {r} /\ ht > 1
      /\ lo \in [Node -> Int] /\ hi \in [Node -> Int] /\ m \in Memory
      /\ \A k, j \in 1 .. ht : k # j => at[k] \cap at[j] = {}
  BY DEF Shape, Levels, Spans
<1>2. n # c /\ n # a /\ c # a
  BY <1>0, <1>1
<1>3. /\ m[n] \in NodeOver(Ptr) /\ m[c] \in NodeOver(Ptr) /\ Ordered(m[n]) /\ Ordered(m[c])
      /\ \A i \in Slot : m[n][i].k \in Long /\ m[c][i].k \in Long
      /\ a \in Ptr /\ a # NULL
  BY <1>1, NodeKind, NodeAssumption DEF Shape, Spans, Ptr
<1>4. /\ SplitSlot \in Slot /\ Half \in Slot /\ SplitSlot < Half /\ key \in Long /\ key \in Int
      /\ \A i \in Slot : lo[c] <= m[c][i].k /\ m[c][i].k < hi[c]
      /\ m[c][SplitSlot].k > m[c][Half].k
  <2>1. SplitSlot \in Slot /\ Half \in Slot /\ SplitSlot < Half
    BY HalfFacts
  <2>2. \A i \in Slot : lo[c] <= m[c][i].k /\ m[c][i].k < hi[c]
    BY <1>0, <1>1 DEF Shape, Spans, Used
  <2>3. m[c][SplitSlot].k > m[c][Half].k
    BY <1>0, <1>3, <2>1 DEF Ordered
  <2> QED
    BY <1>0, <1>3, <2>1, <2>2, <2>3 DEF Long
<1>5. /\ lo[c] < key /\ key < hi[c] /\ lo[c] \in Int /\ hi[c] \in Int /\ InSpan(key, c, lo, hi)
      /\ \A i \in Slot : m[c][i].k \in Int /\ m[n][i].k \in Int
  <2>1. lo[c] \in Int /\ hi[c] \in Int
    BY <1>1
  <2>2. \A i \in Slot : m[c][i].k \in Int /\ m[n][i].k \in Int
    BY <1>3 DEF Long
  <2>3. lo[c] <= m[c][Half].k /\ m[c][SplitSlot].k < hi[c] /\ m[c][Half].k \in Int
    BY <1>4, <2>2
  <2>4. lo[c] < key /\ key < hi[c]
    BY <1>0, <1>4, <2>1, <2>3
  <2> QED
    BY <1>4, <2>1, <2>2, <2>4 DEF InSpan
<1>6. pos \in Used(m, n) /\ m[n][pos].v = c
  <2>1. pos = getpos(m[n], key)
    BY DEF SplitStep
  <2> QED
    BY <1>0, <1>4, <1>5, <2>1, SlotOfKey
<1>7. lo[c] = m[n][pos].k /\ hi[c] = IF pos = 0 THEN hi[n] ELSE m[n][pos - 1].k
  BY <1>6, ChildSpan
<1>8. /\ pos \in Slot /\ fill \in Slot /\ pos <= fill
      /\ o[n][pos] = [k |-> key, v |-> a]
      /\ \A i \in Slot : i < pos => o[n][i] = m[n][i] /\ m[n][i].v # NULL
      /\ \A i \in Slot : pos < i /\ i <= fill => o[n][i] = m[n][i - 1] /\ m[n][i - 1].v # NULL
      /\ \A i \in Slot : fill < i => o[n][i] = m[n][i] /\ m[n][i].v = NULL
      /\ o[n] \in NodeOver(Ptr)
  BY <1>3, <1>4, InsertSlots DEF SplitStep
<1>9. /\ m[n][fill].v = NULL /\ \A i \in Used(m, n) : i \in Slot /\ i < fill
      /\ pos < fill /\ pos + 1 \in Slot
  <2>1. m[n][fill].v = NULL
    <3>1. pos \in 0 .. NoPairs
      BY <1>8, SlotFacts
    <3> QED
      BY <1>3, <3>1, getfillFinds DEF SplitStep
  <2>2. \A i \in Used(m, n) : i \in Slot /\ i < fill
    BY <1>8, <2>1, SlotFacts DEF Used
  <2>3. pos < fill
    BY <1>6, <2>2
  <2>4. pos + 1 \in Slot
    BY <1>8, <2>3, SlotFacts
  <2> QED
    BY <2>1, <2>2, <2>3, <2>4
<1>10. Ordered(o[n])
  <2>1. m[n][pos].k # key
    BY <1>5, <1>7
  <2> QED
    <3>1. o[n] = insert_pair(m[n], pos, fill, key, a) /\ pos = getpos(m[n], key)
          /\ fill = getfill(m[n], pos) /\ fill # NoPairs
      BY DEF SplitStep
    <3> QED
      BY <1>3, <1>4, <2>1, <3>1, InsertKeepsOrder
<1>11. /\ \A i \in Slot : i < Half => o[a][i] = m[c][i]
       /\ \A i \in Slot : i >= Half => o[a][i] = Empty
       /\ \A i \in Slot : i + Half < NoPairs => i + Half \in Slot /\ o[c][i] = m[c][i + Half]
       /\ \A i \in Slot : i + Half >= NoPairs => o[c][i] = Empty
       /\ Ordered(o[a]) /\ Ordered(o[c])
  BY <1>0, <1>3, HalfSlots DEF SplitStep
<1>12. Empty.v = NULL
  BY DEF Empty
<1>13. /\ \A i \in Used(o, a) : i \in Slot /\ i < Half /\ o[a][i] = m[c][i]
       /\ \A i \in Used(o, c) : i \in Slot /\ i + Half \in Slot /\ o[c][i] = m[c][i + Half]
       /\ \A i \in Used(o, n) : i \in Slot /\ i <= fill
  <2>1. \A i \in Slot : i \in Int /\ Half \in Int /\ fill \in Int
    <3>1. \A i \in Slot : i \in Int
      BY SlotFacts
    <3>2. Half \in Int
      BY HalfFacts
    <3>3. fill \in Int
      BY <1>8, <3>1
    <3> QED
      BY <3>1, <3>2, <3>3
  <2>2. \A i \in Used(o, a) : i \in Slot /\ i < Half /\ o[a][i] = m[c][i]
    BY <1>11, <1>12, <2>1 DEF Used
  <2>3. \A i \in Used(o, c) : i \in Slot /\ i + Half \in Slot /\ o[c][i] = m[c][i + Half]
    BY <1>11, <1>12, <2>1, SlotFacts DEF Used
  <2>4. \A i \in Used(o, n) : i \in Slot /\ i <= fill
    BY <1>8, <2>1 DEF Used
  <2> QED
    BY <2>2, <2>3, <2>4
<1>14. /\ up \in [1 .. ht -> SUBSET Node] /\ up[l] = at[l] \cup {a}
       /\ \A k \in 1 .. ht : k # l => up[k] = at[k]
  BY DEF SplitStep
<1>15. /\ lw \in [Node -> Int] /\ hg \in [Node -> Int]
       /\ lw[a] = key /\ hg[a] = hi[c] /\ hg[c] = key
       /\ \A x \in Node : x # a => lw[x] = lo[x]
       /\ \A x \in Node : x # a /\ x # c => hg[x] = hi[x]
  BY DEF SplitStep
(* The other nodes of the tree.                                            *)
<1>16. \A k \in 1 .. ht : \A x \in at[k] :
         x \in Node /\ x # a /\ (x # n /\ x # c => o[x] = m[x] /\ Used(o, x) = Used(m, x))
  <2> SUFFICES ASSUME NEW k \in 1 .. ht, NEW x \in at[k]
               PROVE  x \in Node /\ x # a /\ (x # n /\ x # c => o[x] = m[x] /\ Used(o, x) = Used(m, x))
    OBVIOUS
  <2>1. x \in Node /\ x # a
    BY <1>0, <1>1
  <2>2. x # n /\ x # c => o[x] = m[x]
    BY <2>1 DEF SplitStep
  <2> QED
    BY <2>1, <2>2, SameUsed
<1>17. \A k \in 1 .. ht : (n \in at[k] => k = l + 1) /\ (c \in at[k] => k = l)
  BY <1>1
<1>18. Levels(o, r, ht, up)
  <2>1. up[ht] = {r} /\ ht # 0
    BY <1>1, <1>14
  <2>2. \A k, j \in 1 .. ht : k # j => up[k] \cap up[j] = {}
    BY <1>0, <1>1, <1>14
  <2>3. ASSUME NEW x \in up[1], NEW i \in Slot
        PROVE  o[x][i].v \in Val \cup {NULL}
    <3>1. 1 \in 1 .. ht /\ l + 1 # 1
      BY <1>1
    <3>2. \A y \in at[1] : \A s \in Slot : m[y][s].v \in Val \cup {NULL}
      BY <1>1 DEF Shape, Levels
    <3>3. x # n
      BY <1>2, <1>14, <1>17, <3>1
    <3>4. CASE x \in {a, c} /\ i \in Used(o, x)
      <4>1. l = 1 /\ c \in at[1]
        BY <1>0, <1>1, <1>2, <1>14, <1>17, <3>1, <3>4
      <4> QED
        BY <1>13, <3>2, <3>4, <4>1
    <3>5. CASE i \notin Used(o, x)
      BY <3>5 DEF Used
    <3>6. CASE x \notin {a, c}
      <4>1. x \in at[1]
        BY <1>14, <3>1, <3>6
      <4>2. o[x] = m[x]
        BY <1>16, <3>1, <3>3, <3>6, <4>1
      <4> QED
        BY <3>2, <4>1, <4>2
    <3> QED
      BY <3>4, <3>5, <3>6
  <2>4. ASSUME NEW k \in 1 .. ht, NEW x \in up[k]
        PROVE  o[x][0].v # NULL
    <3>1. CASE x = a
      BY <1>0, <1>11, <3>1, HalfFacts, SlotFacts
    <3>2. CASE x = c
      <4>1. 0 + Half < NoPairs /\ 0 \in Slot
        BY HalfFacts, SlotFacts
      <4>2. o[c][0] = m[c][0 + Half] /\ 0 + Half \in Slot
        BY <1>11, <4>1
      <4> QED
        BY <1>0, <3>2, <4>2
    <3>3. CASE x = n
      <4>1. CASE pos = 0
        BY <1>3, <1>8, <3>3, <4>1
      <4>2. CASE pos # 0
        BY <1>8, <3>3, <4>2, SlotFacts
      <4> QED
        BY <4>1, <4>2
    <3>4. CASE x \notin {a, c, n}
      <4>1. x \in at[k] /\ o[x] = m[x]
        BY <1>14, <1>16, <3>4
      <4> QED
        BY <1>1, <4>1 DEF Shape, Levels
    <3> QED
      BY <3>1, <3>2, <3>3, <3>4
  <2> QED
    BY <1>1, <1>14, <2>1, <2>2, <2>3, <2>4 DEF Levels
<1>18a. ht \in Nat /\ l \in Int /\ l + 1 \in 2 .. ht
  BY <1>1
<1>19. /\ \A k \in 1 .. (ht - 1) : k \in 1 .. ht /\ k + 1 \in 1 .. ht /\ k \in Int
       /\ \A i \in Slot : i \in Int /\ Half \in Int /\ pos \in Int /\ fill \in Int
  <2>1. \A k \in 1 .. (ht - 1) : k \in 1 .. ht /\ k + 1 \in 1 .. ht /\ k \in Int
    BY <1>1
  <2>2. \A i \in Slot : i \in Int
    BY SlotFacts
  <2>3. Half \in Int
    BY HalfFacts
  <2> QED
    BY <1>8, <2>1, <2>2, <2>3
(* Where the pairs of n are now.                                           *)
<1>20. \A i \in Used(o, n) : \/ i < pos /\ i \in Used(m, n) /\ o[n][i] = m[n][i]
                             \/ i = pos /\ o[n][i] = [k |-> key, v |-> a]
                             \/ pos < i /\ i - 1 \in Used(m, n) /\ o[n][i] = m[n][i - 1]
  <2> SUFFICES ASSUME NEW i \in Used(o, n)
               PROVE  \/ i < pos /\ i \in Used(m, n) /\ o[n][i] = m[n][i]
                      \/ i = pos /\ o[n][i] = [k |-> key, v |-> a]
                      \/ pos < i /\ i - 1 \in Used(m, n) /\ o[n][i] = m[n][i - 1]
    OBVIOUS
  <2>1. i \in Slot /\ i <= fill /\ i \in Int
    BY <1>13, <1>19
  <2>2. CASE i < pos
    BY <1>8, <2>1, <2>2 DEF Used
  <2>3. CASE i = pos
    BY <1>8, <2>3
  <2>4. CASE pos < i
    <3>1. i - 1 \in Slot
      BY <1>8, <1>19, <2>1, <2>4, SlotFacts
    <3> QED
      BY <1>8, <2>1, <2>4, <3>1 DEF Used
  <2> QED
    BY <1>19, <2>1, <2>2, <2>3, <2>4
<1>21. Edges(m, ht, at)
  BY DEF Shape
<1>22. Edges(o, ht, up)
  <2>1. ASSUME NEW k \in 1 .. (ht - 1), NEW x \in up[k + 1], NEW i \in Used(o, x)
        PROVE  o[x][i].v \in up[k]
    <3>1. at[k] \subseteq up[k] /\ \A y \in at[k + 1] : \A j \in Used(m, y) : m[y][j].v \in at[k]
      BY <1>14, <1>19, <1>21 DEF Edges
    <3>2. CASE x = n
      <4>1. k = l
        <5>1. n \in at[k + 1]
          BY <1>14, <1>19, <1>2, <3>2
        <5>2. k + 1 = l + 1
          BY <1>17, <1>19, <5>1
        <5> QED
          BY <1>19, <5>2
      <4>2. n \in at[k + 1] /\ a \in up[k]
        BY <1>14, <4>1
      <4> QED
        BY <1>20, <3>1, <3>2, <4>2
    <3>3. CASE x \in {a, c}
      <4>1. k + 1 = l /\ c \in at[k + 1]
        BY <1>1, <1>14, <1>16, <1>17, <1>19, <3>3
      <4>2. \A j \in Slot : j \in Used(m, c)
        BY <1>0 DEF Used
      <4> QED
        BY <1>13, <3>1, <3>3, <4>1, <4>2
    <3>4. CASE x \notin {n, a, c}
      <4>1. x \in at[k + 1]
        BY <1>14, <1>19, <3>4
      <4>2. o[x] = m[x] /\ i \in Used(m, x)
        BY <1>16, <1>19, <3>4, <4>1
      <4> QED
        BY <3>1, <4>1, <4>2
    <3> QED
      BY <3>2, <3>3, <3>4
  <2>2. ASSUME NEW k \in 1 .. (ht - 1), NEW d \in up[k]
        PROVE  \E x \in up[k + 1], i \in Slot : o[x][i].v = d
    <3>1. at[k + 1] \subseteq up[k + 1]
      BY <1>14, <1>19
    <3>2. CASE d = a
      <4>1. k = l
        BY <1>14, <1>16, <1>19, <3>2
      <4> QED
        BY <1>8, <3>1, <3>2, <4>1
    <3>3. CASE d # a
      <4>1. d \in at[k] /\ d \in Node
        BY <1>14, <1>16, <1>19, <3>3
      <4>2. PICK x \in at[k + 1], i \in Slot : m[x][i].v = d
        BY <1>21, <4>1 DEF Edges
      <4>3. i \in Used(m, x) /\ i \in Int
        BY <1>19, <4>1, <4>2, NodeAssumption DEF Used
      <4>4. CASE x = n /\ i < pos
        BY <1>8, <3>1, <4>2, <4>4
      <4>5. CASE x = n /\ pos <= i
        <5>1. i + 1 \in Slot /\ pos < i + 1 /\ i + 1 <= fill /\ (i + 1) - 1 = i
          BY <1>8, <1>9, <1>19, <4>3, <4>5, SlotFacts
        <5>2. o[n][i + 1] = m[n][(i + 1) - 1]
          BY <1>8, <5>1
        <5> QED
          BY <3>1, <4>2, <4>5, <5>1, <5>2
      <4>6. CASE x = c /\ i < Half
        <5>1. k + 1 = l /\ a \in up[k + 1]
          BY <1>14, <1>17, <1>19, <4>2, <4>6
        <5> QED
          BY <1>11, <4>2, <4>6, <5>1
      <4>7. CASE x = c /\ Half <= i
        <5>1. i - Half \in Slot /\ (i - Half) + Half < NoPairs /\ (i - Half) + Half = i
          <6>1. i \in Nat /\ i < NoPairs /\ Half \in Nat /\ NoPairs \in Nat /\ Half <= i
            BY <4>7, SlotFacts, HalfFacts
          <6>2. i - Half \in Int /\ 0 <= i - Half /\ i - Half < NoPairs /\ (i - Half) + Half = i
            BY <6>1
          <6> QED
            BY <6>1, <6>2, SlotFacts
        <5>2. o[c][i - Half] = m[c][(i - Half) + Half]
          BY <1>11, <5>1
        <5> QED
          BY <3>1, <4>2, <4>7, <5>1, <5>2
      <4>8. CASE x \notin {n, c}
        BY <1>16, <1>19, <3>1, <4>2, <4>8
      <4> QED
        BY <1>19, <4>3, <4>4, <4>5, <4>6, <4>7, <4>8
    <3> QED
      BY <3>2, <3>3
  <2> QED
    BY <2>1, <2>2 DEF Edges
<1>23. Spans(o, r, ht, up, lw, hg)
  <2>1. lw[r] = 0 /\ hg[r] = MaxLong + 1
    <3>1. r # a /\ r # c /\ r \in Node
      BY <1>1, <1>16
    <3> QED
      BY <1>1, <1>15, <3>1 DEF Shape, Spans
  <2>2. ASSUME NEW k \in 1 .. ht, NEW x \in up[k]
        PROVE  /\ Ordered(o[x]) /\ lw[x] < hg[x]
               /\ \A i \in Used(o, x) : lw[x] <= o[x][i].k /\ o[x][i].k < hg[x]
    <3>1. CASE x = a
      <4>1. lw[a] < hg[a] /\ Ordered(o[a])
        BY <1>5, <1>11, <1>15
      <4>2. ASSUME NEW i \in Used(o, a)
            PROVE  lw[a] <= o[a][i].k /\ o[a][i].k < hg[a]
        <5>1. i \in Slot /\ i < Half /\ o[a][i] = m[c][i] /\ i <= SplitSlot /\ i \in Int
          <6>1. i \in Slot /\ i < Half /\ o[a][i] = m[c][i]
            BY <1>13
          <6>2. i \in Int /\ Half \in Int
            BY <1>19, <6>1
          <6> QED
            BY <6>1, <6>2, HalfFacts
        <5>2. i = SplitSlot \/ m[c][i].k > m[c][SplitSlot].k
          BY <1>3, <1>4, <1>19, <5>1 DEF Ordered
        <5>3. m[c][i].k \in Int /\ m[c][i].k < hi[c]
          BY <1>4, <1>5, <5>1
        <5> QED
          BY <1>0, <1>4, <1>15, <5>1, <5>2, <5>3
      <4> QED
        BY <3>1, <4>1, <4>2
    <3>2. CASE x = c
      <4>1. lw[c] < hg[c] /\ Ordered(o[c])
        BY <1>2, <1>1, <1>5, <1>11, <1>15
      <4>2. ASSUME NEW i \in Used(o, c)
            PROVE  lw[c] <= o[c][i].k /\ o[c][i].k < hg[c]
        <5>1. i \in Slot /\ i + Half \in Slot /\ o[c][i] = m[c][i + Half] /\ SplitSlot < i + Half
          <6>1. i \in Slot /\ i + Half \in Slot /\ o[c][i] = m[c][i + Half]
            BY <1>13
          <6>2. i \in Nat /\ Half \in Int
            BY <1>19, <6>1, SlotFacts
          <6> QED
            BY <6>1, <6>2, HalfFacts
        <5>2. m[c][SplitSlot].k > m[c][i + Half].k
          BY <1>0, <1>3, <1>4, <5>1 DEF Ordered
        <5>3. lo[c] <= m[c][i + Half].k
          BY <1>4, <5>1
        <5> QED
          BY <1>0, <1>1, <1>2, <1>4, <1>15, <5>1, <5>2, <5>3
      <4> QED
        BY <3>2, <4>1, <4>2
    <3>3. CASE x = n
      <4>1. lw[n] = lo[n] /\ hg[n] = hi[n]
        BY <1>1, <1>2, <1>15
      <4>2. lo[n] < hi[n] /\ \A i \in Used(m, n) : lo[n] <= m[n][i].k /\ m[n][i].k < hi[n]
        BY <1>1 DEF Shape, Spans
      <4>3. ASSUME NEW i \in Used(o, n)
            PROVE  lo[n] <= o[n][i].k /\ o[n][i].k < hi[n]
        <5>1. [k |-> key, v |-> a].k = key /\ lo[n] <= key /\ key < hi[n]
          BY <1>0 DEF InSpan
        <5> QED
          BY <1>20, <4>2, <5>1
      <4> QED
        BY <1>10, <3>3, <4>1, <4>2, <4>3
    <3>4. CASE x \notin {n, a, c}
      <4>1. x \in at[k] /\ x \in Node /\ o[x] = m[x] /\ Used(o, x) = Used(m, x)
        BY <1>14, <1>16, <3>4
      <4>2. lw[x] = lo[x] /\ hg[x] = hi[x]
        BY <1>15, <3>4, <4>1
      <4>3. /\ Ordered(m[x]) /\ lo[x] < hi[x]
            /\ \A i \in Used(m, x) : lo[x] <= m[x][i].k /\ m[x][i].k < hi[x]
        BY <4>1 DEF Shape, Spans
      <4> QED
        BY <4>1, <4>2, <4>3
    <3> QED
      BY <3>1, <3>2, <3>3, <3>4
  <2> QED
    BY <1>15, <2>1, <2>2 DEF Spans
<1>24. Apart(ht, up, lw, hg)
  <2>1. ASSUME NEW x \in at[l], x # c
        PROVE  (hg[x] <= lo[c] \/ hi[c] <= lw[x]) /\ x # a
    <3>1. x \in Node /\ x # a /\ (hi[x] <= lo[c] \/ hi[c] <= lo[x])
      BY <1>1, <1>16, <2>1 DEF Shape, Apart
    <3> QED
      BY <1>15, <2>1, <3>1
  <2>2. /\ lw[c] = lo[c] /\ hg[c] = key /\ lw[a] = key /\ hg[a] = hi[c]
        /\ lo[c] < key /\ key < hi[c] /\ lo[c] \in Int /\ hi[c] \in Int /\ key \in Int
    BY <1>1, <1>2, <1>4, <1>5, <1>15
  <2> SUFFICES ASSUME NEW k \in 1 .. ht, NEW x \in up[k], NEW y \in up[k], x # y
               PROVE  hg[y] <= lw[x] \/ hg[x] <= lw[y]
    BY DEF Apart
  <2>3. x \in Node /\ y \in Node
    BY <1>14, <1>16
  <2>4. lw[x] \in Int /\ hg[x] \in Int /\ lw[y] \in Int /\ hg[y] \in Int
    BY <1>15, <2>3
  <2>5. x \in {a, c} \/ y \in {a, c} => k = l
    BY <1>14, <1>16, <1>17
  <2>6. CASE x \in {a, c} /\ y \in {a, c}
    <3>1. (x = a /\ y = c) \/ (x = c /\ y = a)
      BY <2>6
    <3>2. hg[c] <= lw[a]
      BY <2>2
    <3> QED
      BY <3>1, <3>2
  <2>7. CASE x \in {a, c} /\ y \notin {a, c}
    <3>1. y \in at[l] /\ y # c
      BY <1>14, <2>5, <2>7
    <3>2. hg[y] <= lo[c] \/ hi[c] <= lw[y]
      BY <2>1, <3>1
    <3>3. x = a \/ x = c
      BY <2>7
    <3>4. hg[y] <= lw[x] \/ hg[x] <= lw[y]
      <4>1. CASE hg[y] <= lo[c]
        <5>1. lo[c] <= lw[x]
          BY <2>2, <3>3
        <5> QED
          BY <2>2, <2>4, <4>1, <5>1
      <4>2. CASE hi[c] <= lw[y]
        <5>1. hg[x] <= hi[c]
          BY <2>2, <3>3
        <5> QED
          BY <2>2, <2>4, <4>2, <5>1
      <4> QED
        BY <3>2, <4>1, <4>2
    <3> QED
      BY <3>4
  <2>8. CASE x \notin {a, c} /\ y \in {a, c}
    <3>1. x \in at[l] /\ x # c
      BY <1>14, <2>5, <2>8
    <3>2. hg[x] <= lo[c] \/ hi[c] <= lw[x]
      BY <2>1, <3>1
    <3>3. y = a \/ y = c
      BY <2>8
    <3>4. hg[y] <= lw[x] \/ hg[x] <= lw[y]
      <4>1. CASE hg[x] <= lo[c]
        <5>1. lo[c] <= lw[y]
          BY <2>2, <3>3
        <5> QED
          BY <2>2, <2>4, <4>1, <5>1
      <4>2. CASE hi[c] <= lw[x]
        <5>1. hg[y] <= hi[c]
          BY <2>2, <3>3
        <5> QED
          BY <2>2, <2>4, <4>2, <5>1
      <4> QED
        BY <3>2, <4>1, <4>2
    <3> QED
      BY <3>4
  <2>9. CASE x \notin {a, c} /\ y \notin {a, c}
    <3>1. x \in at[k] /\ y \in at[k]
      BY <1>14, <2>9
    <3>2. hi[y] <= lo[x] \/ hi[x] <= lo[y]
      BY <3>1 DEF Shape, Apart
    <3> QED
      BY <1>15, <2>3, <2>9, <3>2
  <2> QED
    BY <2>6, <2>7, <2>8, <2>9
(* The span of a child other than c is the one it had.                     *)
<1> DEFINE Above(x, i) == IF i = 0 THEN hi[x] ELSE m[x][i - 1].k
<1>25. ASSUME NEW kk \in 2 .. ht, NEW x \in at[kk], NEW i \in Used(m, x)
       PROVE  /\ lw[m[x][i].v] = m[x][i].k
              /\ x # n \/ i # pos => hg[m[x][i].v] = Above(x, i)
  <2> DEFINE k == kk - 1
  <2>0. k \in 1 .. (ht - 1) /\ k + 1 = kk
    BY <1>18a
  <2> HIDE DEF k
  <2>1. /\ m[x][i].v \in at[k] /\ m[x][i].v \in Node
        /\ lo[m[x][i].v] = m[x][i].k
        /\ hi[m[x][i].v] = IF i = 0 THEN hi[x] ELSE m[x][i - 1].k
    BY <2>0, ChildSpan
  <2>2. m[x][i].v # a
    BY <1>16, <1>19, <2>0, <2>1
  <2>3. x # n \/ i # pos => m[x][i].v # c
    <3> SUFFICES ASSUME m[x][i].v = c PROVE x = n /\ i = pos
      OBVIOUS
    <3>1. k = l
      BY <1>17, <1>19, <2>0, <2>1
    <3>2. x \in at[l + 1] /\ m[x][i].v = m[n][pos].v
      BY <1>6, <2>0, <3>1
    <3> QED
      BY <1>6, <3>2, OneSlot
  <2> QED
    BY <1>15, <2>1, <2>2, <2>3
<1> HIDE DEF Above
<1>26. /\ \A i \in Slot : i - 1 \in Int /\ (i # 0 => i - 1 \in Slot)
       /\ 0 \in Slot
  BY SlotFacts
<1>27. /\ lw[a] = key /\ hg[a] = hi[c] /\ lw[c] = lo[c] /\ hg[c] = key
       /\ lw[n] = lo[n] /\ hg[n] = hi[n]
  BY <1>1, <1>2, <1>15
<1>28. ASSUME NEW i \in Used(o, n)
       PROVE  /\ lw[o[n][i].v] = o[n][i].k
              /\ hg[o[n][i].v] = IF i = 0 THEN hg[n] ELSE o[n][i - 1].k
  <2>1. i \in Slot /\ i \in Int /\ i <= fill
    BY <1>13, <1>19
  <2>2. CASE i < pos
    <3>1. i \in Used(m, n) /\ o[n][i] = m[n][i]
      BY <1>19, <1>20, <2>1, <2>2
    <3>2. i # 0 => o[n][i - 1] = m[n][i - 1]
      BY <1>8, <1>19, <1>26, <2>1, <2>2
    <3>3. /\ lw[m[n][i].v] = m[n][i].k
          /\ hg[m[n][i].v] = Above(n, i)
      <4>1. i # pos
        BY <1>19, <2>1, <2>2
      <4> QED
        BY <1>18a, <1>25, <3>1, <4>1
    <3> QED
      BY <1>27, <3>1, <3>2, <3>3 DEF Above
  <2>3. CASE i = pos
    <3>1. o[n][i].v = a /\ o[n][i].k = key
      BY <1>8, <2>3
    <3>2. i # 0 => o[n][i - 1] = m[n][i - 1]
      BY <1>8, <1>19, <1>26, <2>1, <2>3
    <3> QED
      BY <1>7, <1>27, <2>3, <3>1, <3>2
  <2>4. CASE i = pos + 1
    <3>1. o[n][i] = m[n][pos] /\ i - 1 = pos /\ i # 0
      BY <1>8, <1>19, <2>1, <2>4, SlotFacts
    <3>2. o[n][i - 1].k = key
      BY <1>8, <3>1
    <3> QED
      BY <1>6, <1>7, <1>27, <3>1, <3>2
  <2>5. CASE pos + 1 < i
    <3>1. i # 0 /\ i - 1 # 0 /\ i - 1 \in Slot /\ (i - 1) - 1 \in Slot /\ i - 1 # pos
          /\ pos < i /\ pos < i - 1 /\ i - 1 <= fill
      BY <1>8, <1>19, <2>1, <2>5, SlotFacts
    <3>2. i - 1 \in Used(m, n) /\ o[n][i] = m[n][i - 1]
      BY <1>19, <1>20, <2>1, <3>1
    <3>3. o[n][i - 1] = m[n][(i - 1) - 1]
      BY <1>8, <3>1
    <3>4. /\ lw[m[n][i - 1].v] = m[n][i - 1].k
          /\ hg[m[n][i - 1].v] = Above(n, i - 1)
      BY <1>18a, <1>25, <3>1, <3>2
    <3> QED
      BY <3>1, <3>2, <3>3, <3>4 DEF Above
  <2> QED
    <3>1. i < pos \/ i = pos \/ i = pos + 1 \/ pos + 1 < i
      BY <1>19, <1>8, <2>1
    <3> QED
      BY <2>2, <2>3, <2>4, <2>5, <3>1
<1>29. Bounds(o, ht, up, lw, hg)
  <2> SUFFICES ASSUME NEW k \in 1 .. (ht - 1), NEW x \in up[k + 1], NEW i \in Used(o, x)
               PROVE  /\ lw[o[x][i].v] = o[x][i].k
                      /\ hg[o[x][i].v] = IF i = 0 THEN hg[x] ELSE o[x][i - 1].k
    BY DEF Bounds
  <2>1. i \in Slot /\ i \in Int /\ k + 1 \in 1 .. ht /\ k + 1 \in 2 .. ht
    BY <1>18a, <1>19 DEF Used
  <2>2. CASE x = n
    <3>1. i \in Used(o, n)
      BY <2>2
    <3> QED
      BY <1>28, <2>2, <3>1
  <2>3. x \in {a, c} => c \in at[k + 1]
    BY <1>1, <1>14, <1>16, <1>17, <2>1
  <2>4. \A j \in Slot : j \in Used(m, c)
    BY <1>0 DEF Used
  <2>5. CASE x = a
    <3>1. c \in at[k + 1] /\ i < Half /\ o[a][i] = m[c][i] /\ i \in Used(m, c)
      BY <1>13, <2>1, <2>3, <2>4, <2>5
    <3>2. i # 0 => i - 1 \in Slot /\ o[a][i - 1] = m[c][i - 1]
      BY <1>11, <1>19, <1>26, <2>1, <3>1
    <3>3. /\ lw[m[c][i].v] = m[c][i].k
          /\ hg[m[c][i].v] = Above(c, i)
      BY <1>18a, <1>2, <1>25, <2>1, <3>1
    <3> QED
      BY <1>27, <2>5, <3>1, <3>2, <3>3 DEF Above
  <2>6. CASE x = c
    <3>1. c \in at[k + 1] /\ i + Half \in Slot /\ o[c][i] = m[c][i + Half] /\ i + Half \in Used(m, c)
      BY <1>13, <2>3, <2>4, <2>6
    <3>2. i + Half # 0 /\ (i + Half) - 1 \in Slot /\ (i = 0 => (i + Half) - 1 = SplitSlot)
      BY <1>19, <2>1, <3>1, SlotFacts, HalfFacts
    <3>3. /\ lw[m[c][i + Half].v] = m[c][i + Half].k
          /\ hg[m[c][i + Half].v] = Above(c, i + Half)
      BY <1>18a, <1>2, <1>25, <2>1, <3>1, <3>2
    <3>4. i # 0 => o[c][i - 1] = m[c][(i + Half) - 1]
      <4>1. i # 0 => i - 1 \in Slot /\ (i - 1) + Half = (i + Half) - 1 /\ (i - 1) + Half < NoPairs
        BY <1>19, <2>1, <3>1, <3>2, SlotFacts
      <4> QED
        BY <1>11, <4>1
    <3>5. lw[o[c][i].v] = o[c][i].k /\ hg[o[c][i].v] = m[c][(i + Half) - 1].k
      BY <3>1, <3>2, <3>3 DEF Above
    <3>6. CASE i = 0
      BY <1>0, <1>27, <2>6, <3>2, <3>5, <3>6
    <3>7. CASE i # 0
      BY <2>6, <3>4, <3>5, <3>7
    <3> QED
      BY <3>6, <3>7
  <2>7. CASE x \notin {n, a, c}
    <3>1. x \in at[k + 1]
      BY <1>14, <2>1, <2>7
    <3>2. x \in Node /\ o[x] = m[x] /\ i \in Used(m, x)
      BY <1>16, <2>1, <2>7, <3>1
    <3>3. /\ lw[m[x][i].v] = m[x][i].k
          /\ hg[m[x][i].v] = Above(x, i)
      BY <1>18a, <1>25, <2>1, <2>7, <3>1, <3>2
    <3>4. hg[x] = hi[x]
      BY <1>15, <2>7, <3>2
    <3> QED
      BY <3>2, <3>3, <3>4 DEF Above
  <2> QED
    BY <2>2, <2>5, <2>6, <2>7
<1>30. o \in Memory
  BY DEF SplitStep
<1> QED
  BY <1>18, <1>22, <1>23, <1>24, <1>29, <1>30 DEF Shape

-----------------------------------------------------------------------------
(* The clients, and the steps that are left.                               *)

(* Clients that never remove, and update neither key 0 nor a value to NULL *)
(* (which would turn an unused slot into a used one, or the reverse): what *)
(* btree_profiling.c is, which inserts, looks up and never removes.        *)
Growing ==
  \A c \in Calls \cup {Fill[i] : i \in 1 .. Len(Fill)} :
    c.op # "remove" /\ (c.op = "update" => c.key # 0 /\ c.val # NULL)

Kinds ==
  /\ call.pc \notin {"erase", "sibling"}
  /\ call.pc = "unwind" => call.stack = <<>>
  /\ Inserting => call.op = "insert"
  /\ call.pc = "up" => call.res.status \in {"ok", "enomem"}
  /\ LookingUp => call.op \in {"lookup", "update"}
  /\ call.op # "remove"
  /\ call.op \in {"lookup", "update"} => call.pc \in {"lookup", "answer", "done"}
  /\ LookingUp /\ call.op = "update" => call.ukey # 0 /\ call.val # NULL

LEMMA ClientKinds ==
  ASSUME Growing, TypeOK, Kinds, ClientStep
  PROVE  Kinds'
<1>1. \A c \in Client : /\ c \in CallType /\ c.op # "remove"
                        /\ c.op = "update" => c.key # 0 /\ c.val # NULL
  <2>1. \A c \in Client : c \in Calls \cup {Fill[i] : i \in 1 .. Len(Fill)}
    <3>1. CASE filled < Len(Fill)
      <4>1. filled + 1 \in 1 .. Len(Fill)
        BY <3>1, CallsAssumption, LenProperties DEF TypeOK
      <4> QED
        BY <3>1, <4>1 DEF Client
    <3>2. CASE ~ (filled < Len(Fill))
      BY <3>2 DEF Client
    <3> QED
      BY <3>1, <3>2
  <2>2. \A c \in Calls \cup {Fill[i] : i \in 1 .. Len(Fill)} : c \in CallType
    BY CallsAssumption, ElementOfSeq
  <2> QED
    BY <2>1, <2>2 DEF Growing
<1>2. ASSUME NEW c \in Client, NEW pc, NEW key, Start(c, pc, key)
      PROVE  /\ call'.pc = pc /\ call'.stack = <<>> /\ call'.op = c.op
             /\ call'.ukey = c.key /\ call'.val = c.val
  BY <1>2 DEF Start, Idle
<1>3. CASE cbtree_remove
  BY <1>1, <1>3 DEF cbtree_remove, Calling
<1>4. CASE cbtree_insert
  <2>1. PICK c \in Client : c.op = "insert" /\ Start(c, "enter", 0)
    BY <1>4 DEF cbtree_insert, Calling
  <2> QED
    BY <1>2, <2>1 DEF Kinds, Inserting, LookingUp
<1>5. CASE cbtree_lookup
  <2>1. PICK c \in Client : c.op \in {"lookup", "update"} /\ Start(c, "lookup", 0)
    BY <1>5 DEF cbtree_lookup, Calling
  <2> QED
    BY <1>1, <1>2, <2>1 DEF Kinds, Inserting, LookingUp
<1>6. CASE cbtree_get_prev
  <2>1. PICK c \in Client : c.op = "get_prev" /\
          Start(c, IF c.key = 0 \/ height = 0 THEN "unwind" ELSE "prev", Dec(c.key))
    BY <1>6 DEF cbtree_get_prev, Calling
  <2> QED
    BY <1>2, <2>1 DEF Kinds, Inserting, LookingUp
<1>7. CASE cbtree_last
  <2>1. PICK c \in Client : c.op = "last" /\
          Start(c, IF height = 0 THEN "unwind" ELSE "last", 0)
    BY <1>7 DEF cbtree_last, Calling
  <2> QED
    BY <1>2, <2>1 DEF Kinds, Inserting, LookingUp
<1> QED
  BY <1>3, <1>4, <1>5, <1>6, <1>7 DEF ClientStep

LEMMA FinishKinds ==
  ASSUME NEW status, NEW key, NEW val, Finish(status, key, val)
  PROVE  /\ Kinds => Kinds'
         /\ call'.pc = "done" /\ call'.op = call.op /\ call'.ukey = call.ukey
         /\ call'.val = call.val /\ call'.stack = <<>> /\ call'.cur = NULL
         /\ call'.res = [status |-> status, key |-> key, val |-> val]
         /\ call'.res.status = status
<1>1. /\ call'.pc = "done" /\ call'.op = call.op /\ call'.ukey = call.ukey
      /\ call'.val = call.val /\ call'.stack = <<>> /\ call'.cur = NULL
      /\ call'.res = [status |-> status, key |-> key, val |-> val]
  BY DEF Finish, Idle
<1> QED
  BY <1>1 DEF Kinds, Inserting, LookingUp

LEMMA FaultKinds ==
  ASSUME Bug \/ Oops
  PROVE  /\ Kinds => Kinds'
         /\ call'.pc = "done" /\ call'.op = call.op /\ call'.ukey = call.ukey
         /\ call'.val = call.val /\ call'.stack = <<>> /\ call'.cur = NULL
         /\ call'.res.status = (IF Bug THEN "bug" ELSE "oops")
<1>1. Bug => call'.res.status = "bug"
  BY FinishKinds DEF Bug
<1>2. Oops => call'.res.status = "oops"
  BY FinishKinds DEF Oops
<1> QED
  BY <1>1, <1>2, FinishKinds DEF Bug, Oops

(* Steps of an insertion, a search or a scan that go on.                   *)
LEMMA OnwardKinds ==
  ASSUME Kinds, call'.op = call.op, call'.ukey = call.ukey,
         \/ /\ Inserting /\ Inserting'
            /\ call'.pc = "up" => call'.res.status \in {"ok", "enomem"}
         \/ LookingUp /\ LookingUp' /\ call'.val = call.val
         \/ call.pc \in {"prev", "last"} /\ call'.pc \in {"prev", "last"}
  PROVE  Kinds'
BY DEF Kinds, Inserting, LookingUp

LEMMA InsertKinds ==
  ASSUME TypeOK, Kinds, CountInv, InsertStep \/ find_level
  PROVE  Kinds'
<1>1. call \in CallRecord
  BY DEF TypeOK
<1>2. CASE Bug \/ Oops
  BY <1>2, FaultKinds
<1>3. CASE find_level
  <2>1. Inserting
    BY <1>3 DEF find_level, Kinds, Inserting
  <2>2. ASSUME NEW v, NEW h, call' = [call EXCEPT !.cur = v, !.h = h]
        PROVE  Kinds'
    <3>1. call'.op = call.op /\ call'.ukey = call.ukey /\ call'.pc = call.pc
          /\ call'.res = call.res
      BY <1>1, <2>2 DEF CallRecord
    <3> QED
      BY <2>1, <3>1, OnwardKinds DEF Kinds, Inserting
  <2> QED
    BY <1>2, <1>3, <2>2 DEF find_level
<1>4. CASE insert_level
  <2>1. CASE call' = FromRoot(call, "place")
    <3>1. call'.op = call.op /\ call'.ukey = call.ukey /\ call'.pc = "place"
      BY <1>1, <2>1 DEF CallRecord, FromRoot
    <3> QED
      BY <1>4, <3>1, OnwardKinds DEF Inserting, insert_level
  <2> QED
    BY <1>2, <1>4, <2>1 DEF insert_level
<1>5. CASE cbtree_grow
  <2>1. call'.op = call.op /\ call'.ukey = call.ukey /\ call'.pc = "place" /\ call.pc = "enter"
    BY <1>1, <1>5 DEF CallRecord, cbtree_grow
  <2> QED
    BY <2>1, OnwardKinds DEF Inserting
<1>6. CASE grow_fails \/ split_fails
  <2>1. /\ call'.op = call.op /\ call'.ukey = call.ukey /\ call'.pc = "up"
        /\ call'.res.status = "enomem" /\ call.pc \in {"enter", "place"}
    <3>1. /\ call' = [call EXCEPT !.pc = "up", !.res.status = "enomem"]
          /\ call.pc \in {"enter", "place"}
      BY <1>6 DEF grow_fails, split_fails, AtGoal
    <3>2. call.res \in Result
      BY <1>1 DEF CallRecord
    <3>3. /\ call'.op = call.op /\ call'.ukey = call.ukey /\ call'.pc = "up"
          /\ call'.res = [call.res EXCEPT !.status = "enomem"]
      BY <1>1, <3>1 DEF CallRecord
    <3> QED
      BY <3>1, <3>2, <3>3 DEF Result
  <2> QED
    BY <2>1, OnwardKinds DEF Inserting
<1>7. CASE insert_bug \/ initQueue_faults
  BY <1>2, <1>7 DEF insert_bug, initQueue_faults
<1>8. CASE insert_shift
  <2>1. CASE Goto("up")
    <3>1. call'.op = call.op /\ call'.ukey = call.ukey /\ call'.pc = "up" /\ call'.res = call.res
      BY <1>1, <2>1 DEF CallRecord, Goto
    <3>2. call.pc = "place"
      BY <1>8 DEF insert_shift, AtGoal
    <3>3. call.res.status = "ok"
      BY <3>2 DEF CountInv, Chain, Inserting
    <3> QED
      BY <3>1, <3>2, <3>3, OnwardKinds DEF Inserting
  <2> QED
    BY <1>8, <2>1, FinishKinds DEF insert_shift
<1>9. CASE insert_split
  <2>1. call'.op = call.op /\ call'.ukey = call.ukey /\ call'.pc = "enter" /\ call.pc = "place"
    BY <1>1, <1>9 DEF CallRecord, insert_split, AtGoal
  <2> QED
    BY <2>1, OnwardKinds DEF Inserting
<1>10. CASE split_moves
  <2>1. call' = FromRoot(Caller("up"), "place") /\ call.pc = "up"
    BY <1>10 DEF split_moves
  <2>2. call'.op = call.op /\ call'.ukey = call.ukey /\ call'.pc = "place"
    BY <1>1, <2>1 DEF CallRecord, FromRoot, Caller
  <2> QED
    BY <2>1, <2>2, OnwardKinds DEF Inserting
<1>11. CASE split_undone
  <2>1. call' = Caller("up") /\ call.pc = "up"
    BY <1>11 DEF split_undone
  <2>2. call'.op = call.op /\ call'.ukey = call.ukey /\ call'.pc = "up" /\ call'.res = call.res
    BY <1>1, <2>1 DEF CallRecord, Caller
  <2> QED
    BY <2>1, <2>2, OnwardKinds DEF Inserting, Kinds
<1>12. CASE insert_fails
  BY <1>12, FinishKinds DEF insert_fails
<1> QED
  BY <1>3, <1>4, <1>5, <1>6, <1>7, <1>8, <1>9, <1>10, <1>11, <1>12 DEF InsertStep

(* Of the removal's steps only the one is left in which get_prev and last  *)
(* return.                                                                 *)
LEMMA NoRemoval ==
  ASSUME Kinds, RemoveStep
  PROVE  remove_returns
BY DEF Kinds, RemoveStep, remove_missing, remove_level, rebalance, freeQueue_faults, freeQueue,
       node_freed, Unwinding, AtGoal

LEMMA QueryKinds ==
  ASSUME TypeOK, Kinds, QueryStep
  PROVE  Kinds'
<1>1. call \in CallRecord
  BY DEF TypeOK
<1>2. CASE Bug \/ Oops
  BY <1>2, FaultKinds
<1>3. ASSUME LookingUp, LookingUp', call'.op = call.op, call'.ukey = call.ukey, call'.val = call.val
      PROVE  Kinds'
  BY <1>3, OnwardKinds
<1>4. ASSUME NEW n, AnswerWith(n), LookingUp
      PROVE  Kinds'
  <2>1. call'.pc = "answer" /\ call'.op = call.op /\ call'.ukey = call.ukey /\ call'.val = call.val
    BY <1>1, <1>4 DEF AnswerWith, CallRecord
  <2> QED
    BY <1>3, <1>4, <2>1 DEF LookingUp
<1>5. CASE lookup_leaf
  BY <1>2, <1>4, <1>5 DEF lookup_leaf, LookingUp
<1>6. CASE lookup_node
  <2>1. ASSUME NEW v, NEW h, NEW s, call' = [call EXCEPT !.cur = v, !.h = h, !.stack = s]
        PROVE  Kinds'
    <3>1. call'.pc = call.pc /\ call'.op = call.op /\ call'.ukey = call.ukey /\ call'.val = call.val
      BY <1>1, <2>1 DEF CallRecord
    <3> QED
      BY <1>3, <1>6, <3>1 DEF lookup_node, LookingUp
  <2>2. LookingUp
    BY <1>6 DEF lookup_node, LookingUp
  <2> QED
    <3>1. CASE Oops
      BY <1>2, <3>1
    <3>2. CASE ~ Oops
      <4> DEFINE i == getpos(mem[call.cur], call.ukey)
      <4>1. PICK found : \/ AnswerWith(found)
                         \/ IF i = NoPairs \/ mem[call.cur][i].v = NULL
                            THEN AnswerWith(NULL)
                            ELSE call' = [call EXCEPT
                                   !.cur = mem[call.cur][i].v, !.h = @ - 1,
                                   !.stack = Push([kind |-> "lookup", node |-> call.cur])]
        BY <1>6, <3>2 DEF lookup_node
      <4> HIDE DEF i
      <4> QED
        BY <1>4, <2>1, <2>2, <4>1
    <3> QED
      BY <3>1, <3>2
<1>7. CASE setcache
  <2>1. CASE call' = [call EXCEPT !.stack = Tail(@)]
    <3>1. call'.pc = call.pc /\ call'.op = call.op /\ call'.ukey = call.ukey /\ call'.val = call.val
      BY <1>1, <2>1 DEF CallRecord
    <3> QED
      BY <1>3, <1>7, <3>1 DEF setcache, LookingUp
  <2> QED
    BY <1>2, <1>7, <2>1 DEF setcache
<1>8. CASE lookup_returns \/ cbtree_update
  BY <1>8, FinishKinds DEF lookup_returns, cbtree_update
<1>9. ASSUME call'.pc = call.pc, call.pc \in {"prev", "last"},
             call'.op = call.op, call'.ukey = call.ukey
      PROVE  Kinds'
  BY <1>9, OnwardKinds
<1>10. CASE prev_step
  <2>1. ASSUME NEW key, call' = [FromRoot(call, "prev") EXCEPT !.key = key, !.retry = NULL]
        PROVE  Kinds'
    <3>1. call'.pc = "prev" /\ call'.op = call.op /\ call'.ukey = call.ukey
      BY <1>1, <2>1 DEF FromRoot, CallRecord
    <3> QED
      BY <1>9, <1>10, <3>1 DEF prev_step
  <2>2. Miss => Kinds'
    BY <2>1, FinishKinds DEF Miss
  <2>3. ASSUME NEW v, NEW h, NEW k, call' = [call EXCEPT !.cur = v, !.h = h, !.retry = k]
        PROVE  Kinds'
    <3>1. call'.pc = call.pc /\ call'.op = call.op /\ call'.ukey = call.ukey
      BY <1>1, <2>3 DEF CallRecord
    <3> QED
      BY <1>9, <1>10, <3>1 DEF prev_step
  <2> QED
    BY <1>2, <1>10, <2>2, <2>3, FinishKinds DEF prev_step
<1>11. CASE last_step
  <2>1. ASSUME NEW v, NEW h, call' = [call EXCEPT !.cur = v, !.h = h]
        PROVE  Kinds'
    <3>1. call'.pc = call.pc /\ call'.op = call.op /\ call'.ukey = call.ukey
      BY <1>1, <2>1 DEF CallRecord
    <3> QED
      BY <1>9, <1>11, <3>1 DEF last_step
  <2> QED
    BY <1>2, <1>11, <2>1, FinishKinds DEF last_step
<1> QED
  BY <1>5, <1>6, <1>7, <1>8, <1>10, <1>11 DEF QueryStep

LEMMA KindsStep ==
  ASSUME Growing, TypeOK, CountInv, Kinds, [Next]_vars
  PROVE  Kinds'
<1>1. CASE UNCHANGED vars
  BY <1>1 DEF vars, Kinds, Inserting, LookingUp
<1>2. CASE RemoveStep
  BY <1>2, NoRemoval, FinishKinds DEF remove_returns
<1>3. CASE Return
  BY <1>3 DEF Return, Idle, Kinds, Inserting, LookingUp
<1> QED
  BY <1>1, <1>2, <1>3, ClientKinds, InsertKinds, QueryKinds DEF Next, LibraryStep

-----------------------------------------------------------------------------
(* The invariant.                                                          *)

(* The tree as it is once the split of the innermost frame, whose new node *)
(* the level above has stored, has moved its pairs.                        *)
Tree == IF Delivered /\ call.stack # <<>>
        THEN [mem EXCEPT ![Top.new] = upper_half(mem[Top.node], mem[Top.new]),
                         ![Top.node] = lower_half(mem[Top.node])]
        ELSE mem

Stored(at, key) ==
  height > 0 /\ \E n \in at[1], i \in Slot : mem[n][i].v # NULL /\ mem[n][i].k = key

(* Each frame waits with a full node, one level below that of the next,    *)
(* and with a new one that is still empty.                                 *)
Frames(at) ==
  Inserting =>
    /\ Len(call.stack) <= height
    /\ \A i \in 1 .. Len(call.stack) :
         /\ call.stack[i].node \in at[Len(call.stack) + 1 - i]
         /\ \A s \in Slot : mem[call.stack[i].node][s].v # NULL
         /\ call.stack[i].val # NULL
         /\ call.stack[i].at = IF i = Len(call.stack) THEN NULL
                               ELSE <<call.stack[i + 1].node, SplitSlot>>
         /\ mem[call.stack[i].new] = EmptyNode
    /\ Delivered /\ call.stack # <<>> => Top.new \in at[Len(call.stack)]
    /\ call.pc # "up" =>
         call.at = IF call.stack = <<>> THEN NULL ELSE <<call.stack[1].node, SplitSlot>>
    /\ call.pc = "place" => call.val # NULL

Walk(at, lo, hi) ==
  call.pc = "place" =>
    call.h \in Level .. height /\ call.cur \in at[call.h] /\ InSpan(Key, call.cur, lo, hi)

(* A root above the leaves has two children, but for the moment between    *)
(* its making and the insertion for which it was made.                     *)
NewRoot == /\ call.pc = "place" /\ call.cur = root /\ call.stack # <<>>
           /\ call.h = Level /\ Level = height
Wide == height > 1 => NewRoot \/ Tree[root][1].v # NULL

Cached(at) == \A n \in Node : Entries(n) # {} => height > 0 /\ n \in at[1]

Look(at, lo, hi) ==
  /\ call.pc = "lookup" /\ height = 0 => call.h = 0
  /\ call.pc = "lookup" /\ height > 0 =>
       call.h \in 1 .. height /\ call.cur \in at[call.h] /\ InSpan(call.ukey, call.cur, lo, hi)
  /\ call.pc = "answer" =>
       IF call.cur = NULL THEN ~ Stored(at, call.ukey) ELSE height > 0 /\ call.cur \in at[1]

Verdict(at) ==
  call.pc = "done" =>
    /\ call.res.status = "bug" => call.op = "insert" /\ (call.val = NULL \/ Stored(at, call.ukey))
    /\ call.op = "lookup" /\ call.res = NoResult => ~ Stored(at, call.ukey)

Account(at) ==
  ~ KmallocFails =>
    \A n \in alloc : \/ \E l \in 1 .. height : n \in at[l]
                     \/ Inserting /\ \E i \in 1 .. Len(call.stack) : call.stack[i].new = n

Grown(at, lo, hi) ==
  /\ Shape(Tree, root, height, at, lo, hi)
  /\ Frames(at) /\ Walk(at, lo, hi) /\ Wide
  /\ Cached(at) /\ Look(at, lo, hi) /\ Verdict(at) /\ Account(at)

GrowInv == \E at, lo, hi : Grown(at, lo, hi)

-----------------------------------------------------------------------------

LEMMA InTreeLinked ==
  ASSUME TypeOK, NEW at, NEW lo, NEW hi, Shape(Tree, root, height, at, lo, hi),
         NEW l \in 1 .. height, NEW n \in at[l]
  PROVE  n \in Node /\ Linked(n)
<1>1. n \in Node /\ height \in Nat /\ (height > 0 => at[height] = {root})
  BY DEF Shape, Levels
<1>2. CASE l = height
  <2>1. n = root
    BY <1>1, <1>2
  <2> QED
    BY <1>1, <2>1 DEF Linked
<1>3. CASE l # height
  <2>1. l \in 1 .. (height - 1)
    BY <1>1, <1>3
  <2>2. PICK p \in at[l + 1], i \in Slot : Tree[p][i].v = n
    BY <2>1 DEF Shape, Edges
  <2>3. p \in Node
    BY <1>1, <2>1 DEF Shape, Levels
  <2>4. CASE ~ (Delivered /\ call.stack # <<>>)
    <3>1. mem[p][i].v = n
      BY <2>2, <2>4 DEF Tree
    <3> QED
      BY <1>1, <2>3, <3>1 DEF Linked
  <2>5. CASE Delivered /\ call.stack # <<>>
    <3>1. Tree = [mem EXCEPT ![Top.new] = upper_half(mem[Top.node], mem[Top.new]),
                             ![Top.node] = lower_half(mem[Top.node])]
      BY <2>5 DEF Tree
    <3>2. Top \in SplitFrame
      <4>1. call.stack \in Seq(SplitFrame)
        BY <2>5 DEF TypeOK, StackOK, Delivered
      <4> QED
        BY <2>5, <4>1, HeadTailProperties DEF Top
    <3>3. Top.node \in Node /\ Top.new \in Node
      BY <3>2 DEF SplitFrame
    <3>4. mem \in [Node -> [Slot -> [k : Long, v : Ptr]]]
      BY DEF TypeOK
    <3>5. \/ Tree[p] = mem[p]
          \/ Tree[p] = lower_half(mem[Top.node])
          \/ Tree[p] = upper_half(mem[Top.node], mem[Top.new])
      BY <2>3, <3>1, <3>3, <3>4
    <3>6. ASSUME Tree[p] = lower_half(mem[Top.node])
          PROVE  \E q \in Node, j \in Slot : mem[q][j].v = n
      <4>1. Tree[p][i] = IF i + Half < NoPairs THEN mem[Top.node][i + Half] ELSE Empty
        BY <3>6 DEF lower_half
      <4>2. i + Half < NoPairs /\ i + Half \in Slot
        <5>1. Empty.v = NULL
          BY DEF Empty
        <5>2. i + Half < NoPairs
          BY <1>1, <2>2, <4>1, <5>1, NodeAssumption
        <5> QED
          BY <5>2, SlotFacts, HalfFacts
      <4> QED
        BY <2>2, <3>3, <4>1, <4>2
    <3>7. ASSUME Tree[p] = upper_half(mem[Top.node], mem[Top.new])
          PROVE  \E q \in Node, j \in Slot : mem[q][j].v = n
      <4>1. Tree[p][i] = mem[Top.node][i] \/ Tree[p][i] = mem[Top.new][i]
        BY <3>7 DEF upper_half
      <4> QED
        BY <2>2, <3>3, <4>1
    <3> QED
      BY <1>1, <2>2, <2>3, <3>5, <3>6, <3>7 DEF Linked
  <2> QED
    BY <2>4, <2>5
<1> QED
  BY <1>2, <1>3

(* Nodes of the pool, and those a split still awaits, are not in the tree. *)
LEMMA LooseOutside ==
  ASSUME TypeOK, CountInv, NEW at, NEW lo, NEW hi, Shape(Tree, root, height, at, lo, hi),
         NEW a \in Node, Loose(a)
  PROVE  \A l \in 1 .. height : a \notin at[l]
<1>1. ~ Linked(a)
  BY DEF CountInv, HeapInv, Untouched
<1> QED
  BY <1>1, InTreeLinked

LEMMA FreshOutside ==
  ASSUME TypeOK, CountInv, NEW at, NEW lo, NEW hi, Shape(Tree, root, height, at, lo, hi),
         alloc # Node
  PROVE  /\ Fresh \in Node /\ Fresh \notin alloc
         /\ \A l \in 1 .. height : Fresh \notin at[l]
<1>1. Fresh \in Node /\ Fresh \notin alloc
  BY DEF TypeOK, Fresh
<1> QED
  BY <1>1, LooseOutside DEF Loose

(* The frames of a running insertion.                                      *)
LEMMA StackFacts ==
  ASSUME TypeOK, Inserting
  PROVE  /\ call.stack \in Seq(SplitFrame) /\ Len(call.stack) \in Nat
         /\ call.stack = <<>> <=> Len(call.stack) = 0
         /\ call.stack # <<>> => 1 \in 1 .. Len(call.stack) /\ Top = call.stack[1]
         /\ \A i \in 1 .. Len(call.stack) :
              /\ call.stack[i] \in SplitFrame
              /\ call.stack[i].node \in Node /\ call.stack[i].new \in Node
         /\ Level = Len(call.stack) + 1
<1>1. call.stack \in Seq(SplitFrame)
  BY DEF TypeOK, StackOK, Inserting
<1>2. Len(call.stack) \in Nat /\ (call.stack = <<>> <=> Len(call.stack) = 0)
  BY <1>1, LenProperties, EmptySeq
<1>3. \A i \in 1 .. Len(call.stack) : call.stack[i] \in SplitFrame
  BY <1>1, ElementOfSeq
<1>4. \A i \in 1 .. Len(call.stack) : call.stack[i].node \in Node /\ call.stack[i].new \in Node
  BY <1>3 DEF SplitFrame
<1>5. call.stack # <<>> => 1 \in 1 .. Len(call.stack) /\ Top = call.stack[1]
  BY <1>1, <1>2 DEF Top
<1> QED
  BY <1>1, <1>2, <1>3, <1>4, <1>5 DEF Level

(* Where the walk has ended.                                               *)
LEMMA GoalFacts ==
  ASSUME TypeOK, NEW at, NEW lo, NEW hi, Grown(at, lo, hi), AtGoal("place")
  PROVE  /\ Inserting /\ ~ Delivered /\ Tree = mem
         /\ call.h = Level /\ Level \in 1 .. height /\ call.cur \in at[Level]
         /\ call.cur \in Node /\ mem[call.cur] \in NodeOver(Ptr) /\ Ordered(mem[call.cur])
         /\ Key \in Long /\ InSpan(Key, call.cur, lo, hi)
         /\ call.val \in Ptr /\ call.val # NULL
         /\ Position \in 0 .. NoPairs /\ FillFrom \in Position .. NoPairs
         /\ call.stack # <<>> => /\ call.stack[1].node \in at[Len(call.stack)]
                                 /\ Len(call.stack) \in 1 .. (height - 1)
                                 /\ Level = Len(call.stack) + 1
                                 /\ \A s \in Slot : mem[call.stack[1].node][s].v # NULL
                                 /\ Key = mem[call.stack[1].node][SplitSlot].k
                                 /\ mem[call.stack[1].new] = EmptyNode
         /\ call.stack = <<>> => Level = 1 /\ Key = call.ukey
<1>1. call.pc = "place" /\ Inserting /\ ~ Delivered /\ Goal = Level /\ height \in Nat
  BY DEF AtGoal, Inserting, Delivered, Goal, Grown, Shape, Levels
<1>2. Tree = mem
  BY <1>1 DEF Tree
<1>3. call.h \in Level .. height /\ Level \in Nat /\ call.h <= Level /\ call.h \in Int
  BY <1>1, StackFacts DEF AtGoal, Grown, Walk, TypeOK, CallRecord
<1>4. call.h = Level /\ Level \in 1 .. height /\ call.cur \in at[Level]
  BY <1>1, <1>3, StackFacts DEF Grown, Walk
<1>5. call.cur \in Node /\ Ordered(mem[call.cur]) /\ mem \in Memory
  BY <1>2, <1>4 DEF Grown, Shape, Levels, Spans
<1>6. Key \in Long /\ InSpan(Key, call.cur, lo, hi)
  BY <1>1, KeyType DEF Grown, Walk
<1>7. call.val \in Ptr /\ call.val # NULL
  BY <1>1 DEF Grown, Frames, TypeOK, CallRecord
<1>8. mem[call.cur] \in NodeOver(Ptr)
  BY <1>5, NodeKind
<1>9. Position \in 0 .. NoPairs /\ FillFrom \in Position .. NoPairs
  BY <1>6, <1>8, getposFinds, getfillFinds DEF Position, FillFrom
<1>10. ASSUME call.stack # <<>>
       PROVE  /\ call.stack[1].node \in at[Len(call.stack)]
              /\ Len(call.stack) \in 1 .. (height - 1)
              /\ Level = Len(call.stack) + 1
              /\ \A s \in Slot : mem[call.stack[1].node][s].v # NULL
              /\ Key = mem[call.stack[1].node][SplitSlot].k
              /\ mem[call.stack[1].new] = EmptyNode
  <2>1. 1 \in 1 .. Len(call.stack) /\ Level = Len(call.stack) + 1 /\ Len(call.stack) \in Nat
    BY <1>1, <1>10, StackFacts
  <2>2. Len(call.stack) + 1 - 1 = Len(call.stack) /\ Len(call.stack) \in 1 .. (height - 1)
    BY <1>1, <1>4, <2>1
  <2>3. /\ call.stack[1].node \in at[Len(call.stack) + 1 - 1]
        /\ \A s \in Slot : mem[call.stack[1].node][s].v # NULL
        /\ mem[call.stack[1].new] = EmptyNode
    BY <1>1, <2>1 DEF Grown, Frames
  <2>4. call.at = <<call.stack[1].node, SplitSlot>>
    BY <1>1, <1>10 DEF Grown, Frames
  <2>5. call.at # NULL
    <3>1. call.stack[1].node \in Node /\ SplitSlot \in Slot
      BY <1>1, <2>1, StackFacts, HalfFacts
    <3> QED
      BY <2>4, <3>1, KeyPtrAssumption
  <2>6. Key = mem[call.stack[1].node][SplitSlot].k
    BY <2>4, <2>5 DEF Key
  <2> QED
    BY <2>1, <2>2, <2>3, <2>6
<1>11. call.stack = <<>> => Level = 1 /\ Key = call.ukey
  BY <1>1, StackFacts DEF Grown, Frames, Key
<1> QED
  BY <1>1, <1>2, <1>4, <1>5, <1>6, <1>7, <1>8, <1>9, <1>10, <1>11

-----------------------------------------------------------------------------
(* One lemma per action: it keeps the invariant.                           *)

LEMMA SameCached ==
  ASSUME NEW at, Cached(at), height' = height,
         \A n \in Node : Entries(n)' # {} => Entries(n) # {}
  PROVE  Cached(at)'
BY DEF Cached

(* A step that leaves the tree and the caches alone, and is not one of an  *)
(* insertion or a search that goes on.                                     *)
LEMMA RestGrows ==
  ASSUME TypeOK, NEW at, NEW lo, NEW hi, Grown(at, lo, hi),
         UNCHANGED <<mem, root, height, alloc, queue>>,
         Tree = mem, NewRoot => mem[root][1].v # NULL,
         KmallocFails \/ ~ Inserting \/ call.stack = <<>>,
         ~ Inserting', ~ LookingUp', Verdict(at)'
  PROVE  Grown(at, lo, hi)'
<1>1. Tree' = mem /\ call'.pc # "place" /\ call'.pc # "lookup" /\ call'.pc # "answer"
  BY DEF Tree, Delivered, Inserting, LookingUp
<1>2. Shape(Tree, root, height, at, lo, hi)'
  BY <1>1 DEF Grown
<1>3. Wide'
  BY <1>1 DEF Grown, Wide
<1>4. Cached(at)'
  BY SameEntries, SameCached DEF Grown
<1>5. Account(at)'
  <2>1. height \in Nat
    BY DEF Grown, Shape, Levels
  <2>2. ASSUME ~ KmallocFails, NEW n \in alloc
        PROVE  \E l \in 1 .. height : n \in at[l]
    <3>1. \/ \E l \in 1 .. height : n \in at[l]
          \/ Inserting /\ \E i \in 1 .. Len(call.stack) : call.stack[i].new = n
      BY <2>2 DEF Grown, Account
    <3>2. call.stack = <<>> => 1 .. Len(call.stack) = {}
      OBVIOUS
    <3> QED
      BY <2>2, <3>1, <3>2
  <2> QED
    BY <2>2 DEF Account
<1> QED
  BY <1>1, <1>2, <1>3, <1>4, <1>5 DEF Grown, Frames, Walk, Look

LEMMA StoredSame ==
  ASSUME NEW at, NEW key, height' = height, mem' = mem
  PROVE  Stored(at, key)' <=> Stored(at, key)
BY DEF Stored

(* A call that ends without a verdict to be judged.                        *)
LEMMA EndGrows ==
  ASSUME TypeOK, NEW at, NEW lo, NEW hi, Grown(at, lo, hi),
         UNCHANGED <<mem, root, height, alloc, queue>>,
         Tree = mem, NewRoot => mem[root][1].v # NULL,
         KmallocFails \/ ~ Inserting \/ call.stack = <<>>,
         NEW status, NEW key, NEW val, Finish(status, key, val),
         status # "bug", call.op = "lookup" => status # "ok" \/ val # NULL
  PROVE  Grown(at, lo, hi)'
<1>1. /\ call'.pc = "done" /\ call'.op = call.op
      /\ call'.res = [status |-> status, key |-> key, val |-> val]
  BY FinishKinds
<1>2. call'.res.status = status /\ call'.res.val = val
  BY <1>1
<1>3. NoResult.status = "ok" /\ NoResult.val = NULL
  BY DEF NoResult
<1>4. ~ (call'.op = "lookup" /\ call'.res = NoResult)
  BY <1>1, <1>2, <1>3
<1>5. Verdict(at)'
  BY <1>2, <1>4 DEF Verdict
<1> QED
  BY <1>1, <1>5, RestGrows DEF Inserting, LookingUp

LEMMA OopsGrows ==
  ASSUME TypeOK, NEW at, NEW lo, NEW hi, Grown(at, lo, hi),
         UNCHANGED <<mem, root, height, alloc, queue>>,
         ~ Inserting, Oops
  PROVE  Grown(at, lo, hi)'
<1>1. Tree = mem /\ ~ NewRoot
  BY DEF Tree, Delivered, NewRoot, Inserting
<1> QED
  BY <1>1, EndGrows DEF Oops

(* Where a tree has a root, that root has every key in its span.           *)
LEMMA RootSpan ==
  ASSUME NEW m, NEW r, NEW ht, NEW at, NEW lo, NEW hi, Shape(m, r, ht, at, lo, hi),
         ht > 0, NEW key \in Long
  PROVE  ht \in 1 .. ht /\ r \in at[ht] /\ r \in Node /\ InSpan(key, r, lo, hi)
<1>1. ht \in Nat /\ ht \in 1 .. ht /\ at[ht] = {r} /\ r \in Node
  BY DEF Shape, Levels
<1>2. lo[r] = 0 /\ hi[r] = MaxLong + 1
  BY DEF Shape, Spans
<1> QED
  BY <1>1, <1>2, MaxLongAssumption DEF InSpan, Long

LEMMA ClientGrows ==
  ASSUME TypeOK, NEW at, NEW lo, NEW hi, Grown(at, lo, hi), ClientStep
  PROVE  Grown(at, lo, hi)'
<1>1. call.pc = "idle" /\ UNCHANGED <<mem, root, height, alloc, queue>>
  BY DEF ClientStep, cbtree_insert, cbtree_remove, cbtree_lookup, cbtree_get_prev, cbtree_last,
         Calling, Start
<1>2. Tree = mem /\ ~ Inserting /\ ~ NewRoot
  BY <1>1 DEF Tree, Delivered, Inserting, NewRoot
<1>3. ASSUME NEW c, NEW pc, NEW key, Start(c, pc, key)
      PROVE  /\ call'.pc = pc /\ call'.stack = <<>> /\ call'.ukey = c.key
             /\ call'.cur = root /\ call'.h = height /\ call'.at = NULL
  BY <1>3 DEF Start, Idle
<1>4. ASSUME call'.pc \in {"unwind", "erase", "prev", "last"}
      PROVE  Grown(at, lo, hi)'
  <2>1. Verdict(at)'
    BY <1>4 DEF Verdict
  <2> QED
    BY <1>1, <1>2, <1>4, <2>1, RestGrows DEF Inserting, LookingUp
<1>5. CASE cbtree_remove
  <2>1. PICK c : Start(c, IF height = 0 THEN "unwind" ELSE "erase", 0)
    BY <1>5 DEF cbtree_remove
  <2> QED
    BY <1>3, <1>4, <2>1
<1>6. CASE cbtree_get_prev
  <2>1. PICK c : Start(c, IF c.key = 0 \/ height = 0 THEN "unwind" ELSE "prev", Dec(c.key))
    BY <1>6 DEF cbtree_get_prev
  <2> QED
    BY <1>3, <1>4, <2>1
<1>7. CASE cbtree_last
  <2>1. PICK c : Start(c, IF height = 0 THEN "unwind" ELSE "last", 0)
    BY <1>7 DEF cbtree_last
  <2> QED
    BY <1>3, <1>4, <2>1
<1>8. ASSUME call'.pc \in {"enter", "lookup"}, call'.stack = <<>>, call'.at = NULL,
             call'.cur = root, call'.h = height, call'.ukey \in Long
      PROVE  Grown(at, lo, hi)'
  <2>1. Tree' = mem
    BY <1>1, <1>8 DEF Tree, Delivered
  <2>2. Shape(Tree, root, height, at, lo, hi)'
    BY <1>1, <1>2, <2>1 DEF Grown
  <2>3. Wide'
    BY <1>1, <1>2, <2>1 DEF Grown, Wide
  <2>4. Cached(at)'
    BY <1>1, SameEntries, SameCached DEF Grown
  <2>5. height \in Nat
    BY DEF Grown, Shape, Levels
  <2>6. Account(at)'
    BY <1>1, <1>2 DEF Grown, Account
  <2>7. Frames(at)'
    <3>1. call'.stack = <<>> /\ Len(call'.stack) = 0 /\ height' \in Nat /\ 1 .. 0 = {}
      BY <1>1, <1>8, <2>5
    <3>2. ~ (call'.pc = "place") /\ ~ Delivered'
      BY <1>8 DEF Delivered
    <3> QED
      BY <1>8, <3>1, <3>2 DEF Frames
  <2>8. Look(at, lo, hi)'
    <3>1. height > 0 => InSpan(call'.ukey, root, lo, hi) /\ height \in 1 .. height /\ root \in at[height]
      BY <1>8, RootSpan DEF Grown
    <3> QED
      BY <1>1, <1>8, <2>5, <3>1 DEF Look
  <2>9. Walk(at, lo, hi)' /\ Verdict(at)'
    BY <1>8 DEF Walk, Verdict
  <2> QED
    BY <2>2, <2>3, <2>4, <2>6, <2>7, <2>8, <2>9 DEF Grown
<1>9. call' \in CallRecord
  BY ClientStepType DEF TypeOK
<1>10. call'.ukey \in Long
  BY <1>9 DEF CallRecord
<1>11. CASE cbtree_insert
  <2>1. PICK c : Start(c, "enter", 0)
    BY <1>11 DEF cbtree_insert
  <2> QED
    BY <1>3, <1>8, <1>10, <2>1
<1>12. CASE cbtree_lookup
  <2>1. PICK c : Start(c, "lookup", 0)
    BY <1>12 DEF cbtree_lookup
  <2> QED
    BY <1>3, <1>8, <1>10, <2>1
<1> QED
  BY <1>5, <1>6, <1>7, <1>11, <1>12 DEF ClientStep

(* Calls that only read and then end. *)

LEMMA StillTree ==
  ~ Inserting => Tree = mem /\ ~ NewRoot
BY DEF Tree, Delivered, NewRoot, Inserting

LEMMA ReturnGrows ==
  ASSUME TypeOK, NEW at, NEW lo, NEW hi, Grown(at, lo, hi), Return
  PROVE  Grown(at, lo, hi)'
<1>1. /\ call.pc = "done" /\ call'.pc = "idle"
      /\ UNCHANGED <<mem, root, height, alloc, queue>>
  BY DEF Return, Idle
<1>2. ~ Inserting /\ ~ Inserting' /\ ~ LookingUp' /\ Verdict(at)'
  BY <1>1 DEF Inserting, LookingUp, Verdict
<1> QED
  BY <1>1, <1>2, StillTree, RestGrows

LEMMA remove_returnsGrows ==
  ASSUME TypeOK, Kinds, NEW at, NEW lo, NEW hi, Grown(at, lo, hi), remove_returns
  PROVE  Grown(at, lo, hi)'
<1>1. /\ call.pc = "unwind" /\ UNCHANGED <<mem, root, height, alloc, queue>>
      /\ Finish("ok", call.ukey, call.res.val)
  BY DEF remove_returns
<1>2. ~ Inserting /\ call.op # "lookup"
  BY <1>1 DEF Inserting, Kinds
<1>3. Tree = mem /\ ~ NewRoot
  BY <1>2, StillTree
<1> QED
  BY <1>1, <1>2, <1>3, EndGrows

LEMMA PrevLastGrows ==
  ASSUME TypeOK, Kinds, NEW at, NEW lo, NEW hi, Grown(at, lo, hi), prev_step \/ last_step
  PROVE  Grown(at, lo, hi)'
<1>1. call.pc \in {"prev", "last"} /\ UNCHANGED <<mem, root, height, alloc, queue>>
  BY DEF prev_step, last_step
<1>2. ~ Inserting /\ call.op # "lookup" /\ Tree = mem /\ ~ NewRoot
  BY <1>1, StillTree DEF Inserting, Kinds
<1>3. ASSUME NEW key, NEW val, Finish("ok", key, val)
      PROVE  Grown(at, lo, hi)'
  BY <1>1, <1>2, <1>3, EndGrows
<1>4. ASSUME call'.pc \in {"prev", "last"}
      PROVE  Grown(at, lo, hi)'
  <2>1. ~ Inserting' /\ ~ LookingUp' /\ Verdict(at)'
    BY <1>4 DEF Inserting, LookingUp, Verdict
  <2> QED
    BY <1>1, <1>2, <2>1, RestGrows
<1>5. call \in CallRecord
  BY DEF TypeOK
<1>6. \/ Oops
      \/ \E key, val : Finish("ok", key, val)
      \/ call'.pc \in {"prev", "last"}
  <2>1. CASE last_step
    <3> DEFINE p == mem[call.cur][0]
    <3>1. \/ Oops
          \/ call' = [call EXCEPT !.cur = p.v, !.h = @ - 1]
          \/ Finish("ok", p.k, p.v)
      BY <2>1 DEF last_step
    <3> QED
      BY <1>1, <1>5, <3>1 DEF CallRecord
  <2>2. CASE prev_step
    <3> DEFINE n == mem[call.cur]
               i == getpos(n, call.key)
    <3>1. \/ Oops \/ Miss
          \/ call' = [call EXCEPT !.cur = n[i].v, !.h = @ - 1, !.retry = n[i].k]
          \/ Finish("ok", n[i].k, n[i].v)
      BY <2>2 DEF prev_step
    <3>2. Miss => \/ Finish("ok", call.ukey, NULL)
                  \/ call'.pc = "prev"
      BY <1>5 DEF Miss, FromRoot, CallRecord
    <3>3. call.pc = "prev"
      BY <2>2 DEF prev_step
    <3> HIDE DEF n, i
    <3> QED
      BY <1>5, <3>1, <3>2, <3>3 DEF CallRecord
  <2> QED
    BY <2>1, <2>2
<1> QED
  BY <1>1, <1>2, <1>3, <1>4, <1>6, OopsGrows

(* An update or a lookup that goes on leaves all but its own registers.    *)
LEMMA LookGrows ==
  ASSUME TypeOK, NEW at, NEW lo, NEW hi, Grown(at, lo, hi), LookingUp, LookingUp',
         UNCHANGED <<mem, root, height, alloc>>, Cached(at)', Look(at, lo, hi)'
  PROVE  Grown(at, lo, hi)'
<1>1. ~ Inserting /\ ~ Inserting'
  BY DEF Inserting, LookingUp
<1>2. Tree = mem /\ Tree' = mem /\ ~ NewRoot /\ call'.pc # "place" /\ call'.pc # "done"
  BY <1>1 DEF Tree, Delivered, NewRoot, Inserting, LookingUp
<1>3. Shape(Tree, root, height, at, lo, hi)'
  BY <1>2 DEF Grown
<1>4. Wide'
  BY <1>2 DEF Grown, Wide
<1>5. Account(at)'
  BY <1>1 DEF Grown, Account
<1> QED
  BY <1>1, <1>2, <1>3, <1>4, <1>5 DEF Grown, Frames, Walk, Verdict

LEMMA lookup_leafGrows ==
  ASSUME TypeOK, Kinds, NEW at, NEW lo, NEW hi, Grown(at, lo, hi), lookup_leaf
  PROVE  Grown(at, lo, hi)'
<1>1. /\ call.pc = "lookup" /\ call.h <= 1 /\ LookingUp
      /\ UNCHANGED <<mem, root, height, alloc, queue>>
  BY DEF lookup_leaf, LookingUp
<1>2. ~ Inserting /\ Tree = mem
  BY <1>1, StillTree DEF Inserting
<1>3. Shape(mem, root, height, at, lo, hi) /\ height \in Nat
  BY <1>2 DEF Grown, Shape, Levels
<1>4. CASE Oops
  BY <1>1, <1>2, <1>4, OopsGrows
<1>5. ASSUME NEW n, AnswerWith(n),
             n = NULL => ~ Stored(at, call.ukey), n # NULL => height > 0 /\ n \in at[1]
      PROVE  Grown(at, lo, hi)'
  <2>1. call'.pc = "answer" /\ call'.cur = n /\ call'.ukey = call.ukey
    <3>1. call'.ukey = call.ukey
      BY <1>5 DEF AnswerWith, TypeOK, CallRecord
    <3> QED
      BY <1>5, <3>1, AnswerFields
  <2>2. Cached(at)'
    BY <1>1, SameEntries, SameCached DEF Grown
  <2>3. Stored(at, call.ukey)' <=> Stored(at, call.ukey)
    BY <1>1, <2>1 DEF Stored
  <2>4. Look(at, lo, hi)'
    BY <1>1, <1>5, <2>1, <2>3 DEF Look
  <2> QED
    BY <1>1, <2>1, <2>2, <2>4, LookGrows DEF LookingUp
<1>6. CASE call.h = 0
  <2>1. height = 0
    BY <1>1, <1>3, <1>6 DEF Grown, Look
  <2>2. ~ Stored(at, call.ukey)
    BY <2>1 DEF Stored
  <2>3. AnswerWith(NULL)
    BY <1>6 DEF lookup_leaf
  <2> QED
    BY <1>5, <2>2, <2>3
<1>7. CASE call.h # 0 /\ ~ Oops
  <2>1. height > 0 /\ call.h = 1 /\ call.cur \in at[1] /\ InSpan(call.ukey, call.cur, lo, hi)
    <3>1. height > 0
      BY <1>1, <1>3, <1>7 DEF Grown, Look
    <3>2. call.h \in 1 .. height
      BY <1>1, <3>1 DEF Grown, Look
    <3>3. call.h = 1
      BY <1>1, <3>2
    <3> QED
      BY <1>1, <3>1, <3>3 DEF Grown, Look
  <2>2. call.cur \in Node /\ 1 \in 1 .. height
    BY <1>3, <2>1 DEF Shape, Levels
  <2>3. AnswerWith(IF matches(mem[call.cur], call.ukey) # {} THEN call.cur ELSE NULL)
    BY <1>7, <2>1, <2>2 DEF lookup_leaf
  <2>4. CASE matches(mem[call.cur], call.ukey) # {}
    <3>1. call.cur # NULL
      BY <2>2, NodeAssumption
    <3> QED
      BY <1>5, <2>1, <2>3, <2>4, <3>1
  <2>5. CASE matches(mem[call.cur], call.ukey) = {}
    <3>1. ASSUME NEW n \in at[1], NEW i \in Slot, mem[n][i].v # NULL, mem[n][i].k = call.ukey
          PROVE  FALSE
      <4>1. InSpan(call.ukey, n, lo, hi)
        BY <1>3, <2>2, <3>1 DEF Shape, Spans, InSpan, Used
      <4>2. call.ukey \in Int
        BY DEF TypeOK, CallRecord, Long
      <4>3. n = call.cur
        BY <1>3, <2>1, <2>2, <4>1, <4>2, SpansApart
      <4>4. i \in matches(mem[call.cur], call.ukey)
        BY <3>1, <4>3 DEF matches
      <4> QED
        BY <2>5, <4>4
    <3>2. ~ Stored(at, call.ukey)
      BY <3>1 DEF Stored
    <3> QED
      BY <1>5, <2>3, <2>5, <3>2
  <2> QED
    BY <2>4, <2>5
<1> QED
  BY <1>4, <1>6, <1>7

LEMMA AnswerGrows ==
  ASSUME TypeOK, NEW at, NEW lo, NEW hi, Grown(at, lo, hi), call.pc = "lookup",
         UNCHANGED <<mem, root, height, alloc>>, \A m \in Node : Entries(m)' = Entries(m),
         NEW n, AnswerWith(n),
         n = NULL => ~ Stored(at, call.ukey), n # NULL => height > 0 /\ n \in at[1]
  PROVE  Grown(at, lo, hi)'
<1>1. call'.pc = "answer" /\ call'.cur = n /\ call'.ukey = call.ukey
  <2>1. call'.ukey = call.ukey
    BY DEF AnswerWith, TypeOK, CallRecord
  <2> QED
    BY <2>1, AnswerFields
<1>2. Cached(at)'
  BY SameCached DEF Grown
<1>3. Stored(at, call.ukey)' <=> Stored(at, call.ukey)
  BY <1>1 DEF Stored
<1>4. Look(at, lo, hi)'
  BY <1>1, <1>3 DEF Look
<1> QED
  BY <1>1, <1>2, <1>4, LookGrows DEF LookingUp

(* A key that no slot of an inner node on its way can lead to is stored    *)
(* nowhere.                                                                *)
LEMMA DeadEnd ==
  ASSUME TypeOK, NEW at, NEW lo, NEW hi, Shape(mem, root, height, at, lo, hi),
         NEW h \in 2 .. height, NEW n \in at[h], NEW key \in Long, InSpan(key, n, lo, hi),
         getpos(mem[n], key) = NoPairs \/ mem[n][getpos(mem[n], key)].v = NULL
  PROVE  ~ Stored(at, key)
<1> SUFFICES ASSUME NEW c \in at[1], NEW i \in Slot, mem[c][i].v # NULL, mem[c][i].k = key
             PROVE  FALSE
  BY DEF Stored
<1>1. height \in Nat /\ height > 0 /\ 1 \in 1 .. height /\ h - 1 \in 1 .. (height - 1)
      /\ h - 1 + 1 = h /\ h - 1 \in 1 .. height
  BY DEF Shape, Levels
<1>2. InSpan(key, c, lo, hi)
  BY <1>1 DEF Shape, Spans, InSpan, Used
<1>3. PICK d \in at[h - 1] : InSpan(key, d, lo, hi)
  BY <1>1, <1>2, SpanAbove
<1>4. getpos(mem[n], key) \in Used(mem, n)
  BY <1>1, <1>3, SlotOfKey
<1> QED
  BY <1>4, SlotFacts DEF Used

LEMMA lookup_nodeGrows ==
  ASSUME TypeOK, Kinds, NEW at, NEW lo, NEW hi, Grown(at, lo, hi), lookup_node
  PROVE  Grown(at, lo, hi)'
<1>1. /\ call.pc = "lookup" /\ call.h > 1 /\ LookingUp
      /\ UNCHANGED <<mem, root, height, alloc>>
  BY DEF lookup_node, LookingUp
<1>2. ~ Inserting /\ Tree = mem
  BY <1>1, StillTree DEF Inserting
<1>3. Shape(mem, root, height, at, lo, hi) /\ height \in Nat
  BY <1>2 DEF Grown, Shape, Levels
<1>4. call \in CallRecord /\ call.ukey \in Long /\ call.h \in Int
  BY DEF TypeOK, CallRecord
<1>5. height > 0 /\ call.h \in 2 .. height
      /\ call.cur \in at[call.h] /\ InSpan(call.ukey, call.cur, lo, hi)
  BY <1>1, <1>3, <1>4 DEF Grown, Look
<1>6. call.cur \in Node /\ call.h - 1 \in 1 .. (height - 1) /\ call.h - 1 + 1 = call.h
  BY <1>3, <1>5 DEF Shape, Levels
<1>7. CASE Oops /\ UNCHANGED queue
  BY <1>1, <1>2, <1>7, OopsGrows
<1>8. CASE ~ (Oops /\ UNCHANGED queue)
  <2> DEFINE i == getpos(mem[call.cur], call.ukey)
  <2>1. queue[call.cur] # NULL
    BY <1>6, <1>8 DEF lookup_node
  <2>2. PICK found \in findNode(queue[call.cur], call.ukey) :
          \/ /\ found # NULL
             /\ AnswerWith(found)
             /\ UNCHANGED queue
          \/ /\ found = NULL
             /\ queue' = [queue EXCEPT ![call.cur] = Rotated(@)]
             /\ IF i = NoPairs \/ mem[call.cur][i].v = NULL
                THEN AnswerWith(NULL)
                ELSE call' = [call EXCEPT
                       !.cur = mem[call.cur][i].v, !.h = @ - 1,
                       !.stack = Push([kind |-> "lookup", node |-> call.cur])]
    BY <1>6, <1>8, <2>1 DEF lookup_node
  <2>3. queue[call.cur] \in Queue
    BY <1>6, <2>1 DEF TypeOK
  <2>4. CASE found # NULL
    <3>1. AnswerWith(found) /\ UNCHANGED queue
      BY <2>2, <2>4
    <3>2. found \in Node
      BY <2>3, <2>4, findNodeType
    <3>3. Entries(found) # {}
      BY <1>6, <2>1, <2>3, <2>4, foundIsEntry
    <3>4. height > 0 /\ found \in at[1]
      BY <3>2, <3>3 DEF Grown, Cached
    <3>5. \A m \in Node : Entries(m)' = Entries(m)
      BY <3>1, SameEntries
    <3> QED
      BY <1>1, <2>4, <3>1, <3>4, <3>5, AnswerGrows
  <2>5. CASE found = NULL
    <3>1. queue' = [queue EXCEPT ![call.cur] = Rotated(@)]
      BY <2>2, <2>5
    <3>2. \A m \in Node : Entries(m)' = Entries(m)
      BY <1>6, <2>1, <3>1, RotateKeeps
    <3>3. CASE i = NoPairs \/ mem[call.cur][i].v = NULL
      <4>1. AnswerWith(NULL)
        BY <2>2, <2>5, <3>3
      <4>2. ~ Stored(at, call.ukey)
        BY <1>3, <1>4, <1>5, <3>3, DeadEnd
      <4> QED
        BY <1>1, <3>2, <4>1, <4>2, AnswerGrows
    <3>4. CASE ~ (i = NoPairs \/ mem[call.cur][i].v = NULL)
      <4>1. call' = [call EXCEPT
               !.cur = mem[call.cur][i].v, !.h = @ - 1,
               !.stack = Push([kind |-> "lookup", node |-> call.cur])]
        BY <2>2, <2>5, <3>4
      <4> HIDE DEF i
      <4>2. /\ call'.pc = "lookup" /\ call'.cur = mem[call.cur][i].v /\ call'.h = call.h - 1
            /\ call'.ukey = call.ukey /\ call'.val = call.val
        BY <1>1, <1>4, <4>1 DEF CallRecord
      <4>3. call.cur \in at[call.h - 1 + 1] /\ i # NoPairs /\ mem[call.cur][i].v # NULL
        BY <1>5, <1>6, <3>4
      <4>4. i = getpos(mem[call.cur], call.ukey)
        BY DEF i
      <4>5. mem[call.cur][i].v \in at[call.h - 1] /\ InSpan(call.ukey, mem[call.cur][i].v, lo, hi)
        BY <1>3, <1>4, <1>5, <1>6, <4>3, <4>4, Descend
      <4>6. Look(at, lo, hi)'
        BY <1>1, <1>3, <1>5, <1>6, <4>2, <4>5 DEF Look
      <4>7. Cached(at)'
        BY <1>1, <3>2, SameCached DEF Grown
      <4> QED
        BY <1>1, <4>2, <4>6, <4>7, LookGrows DEF LookingUp
    <3> QED
      BY <3>3, <3>4
  <2> QED
    BY <2>4, <2>5
<1> QED
  BY <1>7, <1>8

LEMMA RememberedEntries ==
  ASSUME TypeOK, NEW t \in Node, queue[t] # NULL, NEW leaf \in Node, NEW key \in Long,
         queue' = [queue EXCEPT ![t] = Remembered(@, leaf, key)],
         NEW n \in Node, n # leaf, Entries(n)' # {}
  PROVE  Entries(n) # {}
<1>1. queue \in [Node -> Queue \cup {NULL}] /\ queue[t] \in Queue
  BY DEF TypeOK
<1>2. PICK e \in Node \X Pos : queue'[e[1]] # NULL /\ queue'[e[1]].node[e[2]] = n
  BY DEF Entries
<1>3. CASE e[1] # t
  BY <1>1, <1>2, <1>3 DEF Entries
<1>4. CASE e[1] = t
  <2>1. e[2] \in Pos /\ queue[t].node \in [Pos -> Node \cup {NULL}]
    BY <1>1 DEF Queue
  <2>2. queue'[t].node = [queue[t].node EXCEPT ![queue[t].head] = leaf]
    BY <1>1 DEF Remembered
  <2>3. queue[t].node[e[2]] = n
    BY <1>2, <1>4, <2>1, <2>2
  <2> QED
    BY <1>4, <2>3 DEF Entries
<1> QED
  BY <1>3, <1>4

LEMMA setcacheGrows ==
  ASSUME TypeOK, Kinds, NEW at, NEW lo, NEW hi, Grown(at, lo, hi), setcache
  PROVE  Grown(at, lo, hi)'
<1>1. /\ call.pc = "answer" /\ LookingUp /\ UNCHANGED <<mem, root, height, alloc>>
  BY DEF setcache, LookingUp
<1>2. ~ Inserting /\ call \in CallRecord /\ call.ukey \in Long /\ call.cur \in Node \cup {NULL}
  BY <1>1 DEF Inserting, TypeOK, CallRecord, RegistersOK
<1>3. ASSUME call' = [call EXCEPT !.stack = Tail(@)], Cached(at)'
      PROVE  Grown(at, lo, hi)'
  <2>1. /\ call'.pc = "answer" /\ call'.cur = call.cur
        /\ call'.ukey = call.ukey /\ call'.val = call.val
    BY <1>1, <1>2, <1>3 DEF CallRecord
  <2>2. Stored(at, call.ukey)' <=> Stored(at, call.ukey)
    BY <1>1, <2>1 DEF Stored
  <2>3. Look(at, lo, hi)'
    BY <1>1, <2>1, <2>2 DEF Grown, Look
  <2> QED
    BY <1>1, <1>3, <2>1, <2>3, LookGrows DEF LookingUp
<1>4. CASE call.cur = NULL
  <2>1. call' = [call EXCEPT !.stack = Tail(@)] /\ UNCHANGED queue
    BY <1>4 DEF setcache
  <2>2. Cached(at)'
    BY <1>1, <2>1, SameEntries, SameCached DEF Grown
  <2> QED
    BY <1>3, <2>1, <2>2
<1>5. CASE call.cur # NULL
  <2>1. \/ Oops /\ UNCHANGED queue
        \/ /\ queue[Top.node] # NULL
           /\ queue' = [queue EXCEPT ![Top.node] = Remembered(@, call.cur, call.ukey)]
           /\ call' = [call EXCEPT !.stack = Tail(@)]
    BY <1>5 DEF setcache
  <2>2. CASE Oops /\ UNCHANGED queue
    BY <1>1, <1>2, <2>2, OopsGrows
  <2>3. CASE ~ (Oops /\ UNCHANGED queue)
    <3>1. Top.node \in Node
      <4>1. call.stack \in Seq(LookupFrame) /\ call.stack # <<>>
        BY <1>1 DEF TypeOK, StackOK, setcache
      <4>2. Top \in LookupFrame
        BY <4>1, HeadTailProperties DEF Top
      <4> QED
        BY <4>2 DEF LookupFrame
    <3>2. PICK t \in Node : t = Top.node
      BY <3>1
    <3>3. PICK leaf \in Node : leaf = call.cur
      BY <1>2, <1>5
    <3>4. /\ queue[t] # NULL /\ queue' = [queue EXCEPT ![t] = Remembered(@, leaf, call.ukey)]
          /\ call' = [call EXCEPT !.stack = Tail(@)]
      BY <2>1, <2>3, <3>2, <3>3
    <3>5. \A n \in Node : n # leaf /\ Entries(n)' # {} => Entries(n) # {}
      BY <1>2, <3>4, RememberedEntries
    <3>6. height > 0 /\ leaf \in at[1]
      BY <1>1, <1>5, <3>3 DEF Grown, Look
    <3>7. Cached(at)'
      BY <1>1, <3>5, <3>6 DEF Grown, Cached
    <3> QED
      BY <1>3, <3>4, <3>7
  <2> QED
    BY <2>2, <2>3
<1> QED
  BY <1>4, <1>5

LEMMA lookup_returnsGrows ==
  ASSUME TypeOK, Kinds, NEW at, NEW lo, NEW hi, Grown(at, lo, hi), lookup_returns
  PROVE  Grown(at, lo, hi)'
<1>1. /\ call.pc = "answer" /\ UNCHANGED <<mem, root, height, alloc, queue>>
      /\ Finish("ok", 0, call.cur)
  BY DEF lookup_returns
<1>2. ~ Inserting /\ Tree = mem /\ ~ NewRoot
  BY <1>1, StillTree DEF Inserting
<1>3. /\ call'.pc = "done" /\ call'.res.status = "ok" /\ call'.ukey = call.ukey
      /\ call'.res = [status |-> "ok", key |-> 0, val |-> call.cur]
  BY <1>1, FinishKinds
<1>4. Verdict(at)'
  <2>1. call'.res = NoResult => call.cur = NULL
    BY <1>3 DEF NoResult
  <2>2. call.cur = NULL => ~ Stored(at, call.ukey)
    BY <1>1 DEF Grown, Look
  <2>3. Stored(at, call.ukey)' <=> Stored(at, call.ukey)
    BY <1>1, <1>3 DEF Stored
  <2> QED
    BY <1>3, <2>1, <2>2, <2>3 DEF Verdict
<1> QED
  BY <1>1, <1>2, <1>3, <1>4, RestGrows DEF Inserting, LookingUp

(* What an update that succeeded has done.                                 *)
Updated == call.pc = "done" /\ call.op = "update" /\ call.res.status = "ok"
Took(at) ==
  Updated =>
    /\ height > 0 /\ call.val # NULL
    /\ \E n \in at[1], i \in Slot : mem[n][i] = [k |-> call.ukey, v |-> call.val]

(* cbtree_update: the key is not 0, so the slot that it matches is used.   *)
LEMMA cbtree_updateGrows ==
  ASSUME TypeOK, CountInv, Kinds, NEW at, NEW lo, NEW hi, Grown(at, lo, hi), cbtree_update
  PROVE  Grown(at, lo, hi)' /\ Took(at)'
<1>1. /\ call.pc = "answer" /\ call.op = "update" /\ LookingUp
      /\ UNCHANGED <<root, height, alloc, queue>>
  BY DEF cbtree_update, LookingUp
<1>2. ~ Inserting /\ Tree = mem /\ ~ NewRoot
  BY <1>1, StillTree DEF Inserting
<1>3. call.ukey # 0 /\ call.val # NULL /\ call.val \in Val
  BY <1>1 DEF Kinds, CountInv, Asked, TypeOK, CallRecord, Ptr
<1> DEFINE slots == IF call.cur \in Node THEN matches(mem[call.cur], call.ukey) ELSE {}
<1>4. CASE slots = {}
  <2>1. Finish("enoent", 0, NULL) /\ UNCHANGED mem
    BY <1>4 DEF cbtree_update
  <2>2. Took(at)'
    <3>1. call'.res.status = "enoent"
      BY <2>1, FinishKinds
    <3> QED
      BY <3>1 DEF Took, Updated
  <2> QED
    BY <1>1, <1>2, <2>1, <2>2, EndGrows
<1>5. CASE slots # {}
  <2>1. PICK c \in Node : c = call.cur
    BY <1>5
  <2>2. slots = matches(mem[c], call.ukey)
    BY <2>1
  <2>3. /\ mem' = [mem EXCEPT ![c][First(slots)].v = call.val]
        /\ Finish("ok", 0, NULL)
    BY <1>5, <2>1 DEF cbtree_update
  <2> HIDE DEF slots
  <2>4. First(slots) \in slots /\ slots \subseteq Slot
    <3>1. slots \subseteq Slot
      BY <2>2, matchesAreSlots
    <3>2. First(slots) \in slots \cup {NoPairs} /\ \A j \in slots : First(slots) <= j
      BY <3>1, FirstIsLeast
    <3>3. First(slots) # NoPairs
      BY <1>5, <3>1, <3>2, SlotFacts
    <3> QED
      BY <3>1, <3>2, <3>3
  <2>5. PICK j \in Slot : j = First(slots)
    BY <2>4
  <2>6. mem[c][j].k = call.ukey
    BY <2>2, <2>4, <2>5 DEF matches
  <2>7. height > 0 /\ c \in at[1]
    BY <1>1, <2>1, NodeAssumption DEF Grown, Look
  <2>8. Shape(mem, root, height, at, lo, hi) /\ height \in Nat /\ 1 \in 1 .. height
    BY <1>2, <2>7 DEF Grown, Shape, Levels
  <2>9. Ordered(mem[c]) /\ mem[c] \in NodeOver(Ptr) /\ mem[c][j].v # NULL
    <3>1. Ordered(mem[c])
      BY <2>7, <2>8 DEF Shape, Spans
    <3> QED
      BY <1>3, <2>6, <3>1, MemType DEF Ordered
  <2>10. PICK p : p = [mem[c] EXCEPT ![j].v = call.val]
    OBVIOUS
  <2>11. Ordered(p) /\ p \in NodeOver(Ptr)
    BY <1>3, <2>9, <2>10, SetOrder DEF Ptr
  <2>12. \A i \in Slot : p[i].k = mem[c][i].k /\ p[i].v = IF i = j THEN call.val ELSE mem[c][i].v
    BY <2>9, <2>10 DEF NodeOver
  <2>13. mem' = [mem EXCEPT ![c] = p]
    BY <2>3, <2>5, <2>10
  <2>14. Shape(mem', root, height, at, lo, hi)
    <3>1. \A i \in Slot : p[i].v \in Val \cup {NULL}
      BY <1>3, <2>7, <2>8, <2>12 DEF Shape, Levels
    <3>2. \A i \in Slot : p[i].v # NULL => InSpan(p[i].k, c, lo, hi)
      BY <2>7, <2>8, <2>9, <2>12 DEF Shape, Spans, InSpan, Used
    <3>3. height > 1 => p[0].v # NULL
      <4>1. height > 1 => mem[c][0].v # NULL
        BY <2>7, <2>8 DEF Shape, Levels
      <4> QED
        BY <1>3, <2>12, <4>1, SlotFacts
    <3> QED
      BY <2>7, <2>8, <2>11, <2>13, <3>1, <3>2, <3>3, LeafShape
  <2>15. /\ call'.pc = "done" /\ call'.res.status = "ok" /\ call'.op = "update"
    BY <1>1, <2>3, FinishKinds
  <2>16. ~ Inserting' /\ ~ Delivered' /\ Tree' = mem'
    BY <2>15 DEF Inserting, Delivered, Tree
  <2>17. Shape(Tree, root, height, at, lo, hi)'
    BY <1>1, <2>14, <2>16
  <2>18. Wide'
    <3>1. height > 1 => mem[root][1].v # NULL
      BY <1>2 DEF Grown, Wide
    <3>2. height > 1 => mem'[root][1].v # NULL
      BY <1>3, <2>8, <2>9, <2>12, <2>13, <3>1, SlotFacts, MemOverPtr DEF MemOver
    <3> QED
      BY <1>1, <2>16, <3>2 DEF Wide
  <2>19. Cached(at)'
    BY <1>1, SameEntries, SameCached DEF Grown
  <2>20. Account(at)'
    BY <1>1, <1>2 DEF Grown, Account
  <2>21. Took(at)'
    <3>1. mem'[c][j].k = call.ukey /\ mem'[c][j].v = call.val
      BY <2>6, <2>12, <2>13, MemOverPtr DEF MemOver
    <3>2. mem'[c][j] = [k |-> call.ukey, v |-> call.val]
      BY <2>11, <2>13, <3>1, MemOverPtr DEF MemOver, NodeOver
    <3>3. call'.ukey = call.ukey /\ call'.val = call.val
      BY <2>3, FinishKinds
    <3> QED
      BY <1>1, <1>3, <2>7, <3>2, <3>3 DEF Took
  <2> QED
    BY <2>15, <2>16, <2>17, <2>18, <2>19, <2>20, <2>21 DEF Grown, Frames, Walk, Look, Verdict
<1> QED
  BY <1>4, <1>5

(* The frames of a running insertion, in the tree.                         *)
LEMMA FrameFacts ==
  ASSUME TypeOK, CountInv, NEW at, NEW lo, NEW hi, Grown(at, lo, hi), Inserting
  PROVE  /\ height \in Nat /\ Len(call.stack) \in 0 .. height
         /\ \A i \in 1 .. Len(call.stack) :
              /\ Len(call.stack) + 1 - i \in 1 .. height
              /\ call.stack[i].node \in at[Len(call.stack) + 1 - i]
              /\ call.stack[i].node \in Node
              /\ \A s \in Slot : mem[call.stack[i].node][s].v # NULL
              /\ call.stack[i].val # NULL
              /\ call.stack[i].at = IF i = Len(call.stack) THEN NULL
                                    ELSE <<call.stack[i + 1].node, SplitSlot>>
              /\ call.stack[i].new \in Node /\ call.stack[i].new \in alloc
              /\ mem[call.stack[i].new] = EmptyNode
              /\ ~ (i = 1 /\ Delivered) =>
                   \A l \in 1 .. height : call.stack[i].new \notin at[l]
<1>1. height \in Nat /\ Len(call.stack) \in Nat /\ Len(call.stack) <= height
  BY StackFacts DEF Grown, Frames, Shape, Levels
<1>2. ASSUME NEW i \in 1 .. Len(call.stack)
      PROVE  /\ Len(call.stack) + 1 - i \in 1 .. height
             /\ call.stack[i].node \in Node
             /\ call.stack[i].new \in Node /\ call.stack[i].new \in alloc
             /\ ~ (i = 1 /\ Delivered) => \A l \in 1 .. height : call.stack[i].new \notin at[l]
  <2>1. Len(call.stack) + 1 - i \in 1 .. height
    BY <1>1
  <2>2. call.stack[i].node \in Node /\ call.stack[i].new \in Node
    BY StackFacts
  <2>3. call.stack[i].new \in alloc
    BY DEF CountInv, Chain
  <2>4. ASSUME ~ (i = 1 /\ Delivered)
        PROVE  \A l \in 1 .. height : call.stack[i].new \notin at[l]
    <3>1. Loose(call.stack[i].new)
      BY <2>4 DEF Loose, Awaited
    <3> QED
      BY <2>2, <3>1, LooseOutside DEF Grown
  <2> QED
    BY <2>1, <2>2, <2>3, <2>4
<1>3. Len(call.stack) \in 0 .. height
  BY <1>1
<1> SUFFICES ASSUME NEW i \in 1 .. Len(call.stack)
             PROVE  /\ Len(call.stack) + 1 - i \in 1 .. height
                    /\ call.stack[i].node \in at[Len(call.stack) + 1 - i]
                    /\ call.stack[i].node \in Node
                    /\ \A s \in Slot : mem[call.stack[i].node][s].v # NULL
                    /\ call.stack[i].val # NULL
                    /\ call.stack[i].at = IF i = Len(call.stack) THEN NULL
                                          ELSE <<call.stack[i + 1].node, SplitSlot>>
                    /\ call.stack[i].new \in Node /\ call.stack[i].new \in alloc
                    /\ mem[call.stack[i].new] = EmptyNode
                    /\ ~ (i = 1 /\ Delivered) =>
                         \A l \in 1 .. height : call.stack[i].new \notin at[l]
  BY <1>1, <1>3
<1>4. /\ call.stack[i].node \in at[Len(call.stack) + 1 - i]
      /\ \A s \in Slot : mem[call.stack[i].node][s].v # NULL
      /\ call.stack[i].val # NULL
      /\ call.stack[i].at = IF i = Len(call.stack) THEN NULL
                            ELSE <<call.stack[i + 1].node, SplitSlot>>
      /\ mem[call.stack[i].new] = EmptyNode
  BY DEF Grown, Frames
<1> QED
  BY <1>2, <1>4

(* A step below which the same activations wait.                           *)
LEMMA FramesStay ==
  ASSUME TypeOK, CountInv, NEW at, NEW lo, NEW hi, Grown(at, lo, hi), Inserting, ~ Delivered,
         call'.stack = call.stack, call'.at = call.at, call'.val = call.val,
         call'.pc = "up" \/ call.pc # "up", call'.pc = "place" => call.val # NULL,
         ~ Delivered', NEW up, height' \in Nat, height <= height',
         \A l \in 1 .. height : up[l] = at[l],
         \A i \in 1 .. Len(call.stack) : /\ mem'[call.stack[i].node] = mem[call.stack[i].node]
                                         /\ mem'[call.stack[i].new] = mem[call.stack[i].new]
  PROVE  Frames(up)'
<1>1. /\ height \in Nat /\ Len(call.stack) \in 0 .. height
      /\ \A i \in 1 .. Len(call.stack) :
           /\ Len(call.stack) + 1 - i \in 1 .. height
           /\ call.stack[i].node \in at[Len(call.stack) + 1 - i]
           /\ \A s \in Slot : mem[call.stack[i].node][s].v # NULL
           /\ call.stack[i].val # NULL
           /\ call.stack[i].at = IF i = Len(call.stack) THEN NULL
                                 ELSE <<call.stack[i + 1].node, SplitSlot>>
           /\ mem[call.stack[i].new] = EmptyNode
  BY FrameFacts
<1>2. Len(call.stack) <= height'
  BY <1>1
<1>3. call.pc # "up" =>
        call.at = IF call.stack = <<>> THEN NULL ELSE <<call.stack[1].node, SplitSlot>>
  BY DEF Grown, Frames
<1>4. \A i \in 1 .. Len(call.stack) :
        /\ call.stack[i].node \in up[Len(call.stack) + 1 - i]
        /\ \A s \in Slot : mem'[call.stack[i].node][s].v # NULL
        /\ mem'[call.stack[i].new] = EmptyNode
  BY <1>1
<1>5. call'.pc # "up" =>
        call'.at = IF call'.stack = <<>> THEN NULL ELSE <<call'.stack[1].node, SplitSlot>>
  BY <1>3
<1> QED
  BY <1>1, <1>2, <1>4, <1>5 DEF Frames

(* The key that an insertion works with lies in a node that waits below.   *)
LEMMA KeyStays ==
  ASSUME TypeOK, CountInv, NEW at, NEW lo, NEW hi, Grown(at, lo, hi),
         call.pc \in {"enter", "place"},
         call'.at = call.at, call'.ukey = call.ukey,
         \A i \in 1 .. Len(call.stack) : mem'[call.stack[i].node] = mem[call.stack[i].node]
  PROVE  Key' = Key /\ Key \in Long
<1>1. call.at = IF call.stack = <<>> THEN NULL ELSE <<call.stack[1].node, SplitSlot>>
  BY DEF Grown, Frames, Inserting
<1>2. CASE call.stack = <<>>
  BY <1>1, <1>2, KeyType DEF Key
<1>3. CASE call.stack # <<>>
  <2>1. 1 \in 1 .. Len(call.stack)
    BY <1>3, StackFacts DEF Inserting
  <2>2. call.at[1] = call.stack[1].node
    BY <1>1, <1>3
  <2> QED
    BY <2>1, <2>2, KeyType DEF Key
<1> QED
  BY <1>2, <1>3

LEMMA AccountStays ==
  ASSUME NEW at, Account(at), Inserting, Inserting', call'.stack = call.stack,
         NEW up, height \in Nat, height' \in Nat, height <= height',
         \A l \in 1 .. height : at[l] \subseteq up[l],
         \A n \in alloc' : n \in alloc \/ \E l \in 1 .. height' : n \in up[l]
  PROVE  Account(up)'
<1> SUFFICES ASSUME ~ KmallocFails, NEW n \in alloc'
             PROVE  \/ \E l \in 1 .. height' : n \in up[l]
                    \/ \E i \in 1 .. Len(call.stack) : call.stack[i].new = n
  BY DEF Account
<1>1. CASE n \in alloc
  <2>1. \/ \E l \in 1 .. height : n \in at[l]
        \/ \E i \in 1 .. Len(call.stack) : call.stack[i].new = n
    BY <1>1 DEF Account
  <2>2. \A l \in 1 .. height : l \in 1 .. height'
    OBVIOUS
  <2> QED
    BY <2>1, <2>2
<1> QED
  BY <1>1

LEMMA OtherParts ==
  ASSUME NEW at, NEW lo, NEW hi, call'.pc \in {"enter", "up"}
  PROVE  Look(at, lo, hi)' /\ Verdict(at)' /\ Walk(at, lo, hi)' /\ ~ NewRoot'
BY DEF Look, Verdict, Walk, NewRoot

(* A level that could not get a node fails.                                *)
LEMMA FailGrows ==
  ASSUME TypeOK, CountInv, NEW at, NEW lo, NEW hi, Grown(at, lo, hi), Inserting, ~ Delivered,
         UNCHANGED <<mem, root, height, alloc, queue>>,
         height > 1 => mem[root][1].v # NULL,
         call' = [call EXCEPT !.pc = "up", !.res.status = "enomem"]
  PROVE  Grown(at, lo, hi)'
<1>1. /\ call'.pc = "up" /\ call'.res.status = "enomem" /\ call'.stack = call.stack
      /\ call'.at = call.at /\ call'.val = call.val
  BY DEF TypeOK, CallRecord, Result
<1>2. Tree = mem /\ Tree' = mem /\ ~ Delivered' /\ Inserting'
  BY <1>1 DEF Tree, Delivered, Inserting
<1>3. Shape(mem, root, height, at, lo, hi) /\ height \in Nat
  BY <1>2 DEF Grown, Shape, Levels
<1>4. Frames(at)'
  BY <1>1, <1>2, <1>3, FramesStay
<1>5. Account(at)'
  BY <1>1, <1>2, <1>3, AccountStays DEF Grown
<1>6. Cached(at)'
  BY SameEntries, SameCached DEF Grown
<1> QED
  BY <1>1, <1>2, <1>3, <1>4, <1>5, <1>6, OtherParts DEF Grown, Wide

LEMMA insert_levelGrows ==
  ASSUME TypeOK, CountInv, Kinds, NEW at, NEW lo, NEW hi, Grown(at, lo, hi), insert_level
  PROVE  Grown(at, lo, hi)'
<1>1. call.pc = "enter" /\ UNCHANGED <<mem, root, height, alloc, queue>>
  BY DEF insert_level
<1>2. Inserting /\ ~ Delivered /\ ~ NewRoot /\ Tree = mem /\ call \in CallRecord
  BY <1>1 DEF Inserting, Delivered, NewRoot, Tree, TypeOK
<1>3. Shape(mem, root, height, at, lo, hi) /\ height \in Nat
  BY <1>2 DEF Grown, Shape, Levels
<1>4. CASE call.val = NULL
  <2>1. Finish("bug", 0, NULL)
    BY <1>4 DEF insert_level, Bug
  <2>2. call.stack = <<>>
    <3>1. ASSUME call.stack # <<>> PROVE FALSE
      <4>1. call.val = call.stack[1].new /\ call.stack[1].new \in Node
        BY <1>2, <3>1, StackFacts DEF CountInv, Chain
      <4> QED
        BY <1>4, <4>1, NodeAssumption
    <3> QED
      BY <3>1
  <2>3. call'.pc = "done" /\ call'.op = "insert" /\ call'.val = NULL
    BY <1>2, <1>4, <2>1, FinishKinds DEF Kinds
  <2>4. Verdict(at)' /\ ~ Inserting' /\ ~ LookingUp'
    BY <2>3 DEF Verdict, Inserting, LookingUp
  <2> QED
    BY <1>1, <1>2, <2>2, <2>4, RestGrows
<1>5. CASE call.val # NULL
  <2>1. height >= Level /\ call' = FromRoot(call, "place")
    BY <1>5 DEF insert_level
  <2>2. /\ call'.pc = "place" /\ call'.cur = root /\ call'.h = height
        /\ call'.stack = call.stack /\ call'.at = call.at /\ call'.val = call.val
        /\ call'.ukey = call.ukey
    BY <1>2, <2>1 DEF FromRoot, CallRecord
  <2>3. Inserting' /\ ~ Delivered' /\ Tree' = mem /\ Level' = Level
    BY <1>1, <2>2 DEF Inserting, Delivered, Tree, Level
  <2>4. Frames(at)'
    BY <1>1, <1>2, <1>3, <1>5, <2>2, <2>3, FramesStay
  <2>5. Walk(at, lo, hi)'
    <3>1. Key' = Key /\ Key \in Long
      BY <1>1, <2>2, KeyStays
    <3>2. Level \in Nat /\ Level > 0
      BY <1>2, StackFacts
    <3>3. height \in 1 .. height /\ root \in at[height] /\ InSpan(Key, root, lo, hi)
      BY <1>3, <2>1, <3>1, <3>2, RootSpan
    <3> QED
      BY <1>1, <1>3, <2>1, <2>2, <2>3, <3>1, <3>2, <3>3 DEF Walk
  <2>6. Wide'
    BY <1>1, <1>2, <2>3 DEF Grown, Wide
  <2>7. Cached(at)'
    BY <1>1, SameEntries, SameCached DEF Grown
  <2>8. Account(at)'
    BY <1>1, <1>2, <1>3, <2>2, <2>3, AccountStays DEF Grown
  <2> QED
    BY <1>1, <1>3, <2>2, <2>3, <2>4, <2>5, <2>6, <2>7, <2>8 DEF Grown, Look, Verdict
<1> QED
  BY <1>4, <1>5

LEMMA grow_failsGrows ==
  ASSUME TypeOK, CountInv, Kinds, NEW at, NEW lo, NEW hi, Grown(at, lo, hi), grow_fails
  PROVE  Grown(at, lo, hi)'
<1>1. /\ call.pc = "enter" /\ UNCHANGED <<mem, root, height, alloc, queue>>
      /\ call' = [call EXCEPT !.pc = "up", !.res.status = "enomem"]
  BY DEF grow_fails
<1>2. Inserting /\ ~ Delivered /\ ~ NewRoot /\ Tree = mem
  BY <1>1 DEF Inserting, Delivered, NewRoot, Tree
<1>3. height > 1 => mem[root][1].v # NULL
  BY <1>2 DEF Grown, Wide
<1> QED
  BY <1>1, <1>2, <1>3, FailGrows

LEMMA insert_failsGrows ==
  ASSUME TypeOK, Kinds, NEW at, NEW lo, NEW hi, Grown(at, lo, hi), insert_fails
  PROVE  Grown(at, lo, hi)'
<1>1. /\ call.pc = "up" /\ call.stack = <<>> /\ UNCHANGED <<mem, root, height, alloc, queue>>
      /\ Finish(call.res.status, 0, NULL)
  BY DEF insert_fails
<1>2. Tree = mem /\ ~ NewRoot /\ call.op = "insert" /\ call.res.status # "bug"
  BY <1>1 DEF Tree, NewRoot, Kinds, Inserting
<1> QED
  BY <1>1, <1>2, EndGrows

(* A node without a free slot from the key's place on is full.             *)
LEMMA FullNode ==
  ASSUME TypeOK, NEW at, NEW lo, NEW hi, Grown(at, lo, hi), AtGoal("place"), FillFrom = NoPairs
  PROVE  \A s \in Slot : mem[call.cur][s].v # NULL
<1>1. /\ mem[call.cur] \in NodeOver(Ptr) /\ Ordered(mem[call.cur]) /\ Key \in Long
      /\ call.cur \in Node /\ Position \in 0 .. NoPairs
  BY GoalFacts
<1>2. \A s \in Slot : s < Position => mem[call.cur][s].k > Key
  BY <1>1, getposFinds DEF Position
<1>3. \A s \in Slot : Position <= s /\ s < FillFrom => mem[call.cur][s].v # NULL
  BY <1>1, getfillFinds DEF FillFrom
<1>4. ASSUME NEW s \in Slot, s < Position
      PROVE  mem[call.cur][s].v # NULL
  <2>1. mem[call.cur][s].k # 0
    BY <1>1, <1>2, <1>4, MemType DEF Long
  <2> QED
    BY <1>1, <2>1 DEF Ordered
<1>5. ASSUME NEW s \in Slot, ~ (s < Position)
      PROVE  mem[call.cur][s].v # NULL
  <2>1. Position <= s /\ s < FillFrom
    BY <1>1, <1>5, SlotFacts
  <2> QED
    BY <1>3, <2>1
<1> QED
  BY <1>4, <1>5

LEMMA FullRoot ==
  ASSUME TypeOK, NEW at, NEW lo, NEW hi, Grown(at, lo, hi), AtGoal("place"), FillFrom = NoPairs
  PROVE  height > 1 => mem[root][1].v # NULL
<1>1. Tree = mem /\ \A s \in Slot : mem[call.cur][s].v # NULL
  BY FullNode, GoalFacts
<1>2. CASE call.cur = root
  BY <1>1, <1>2, SlotFacts
<1>3. CASE call.cur # root
  BY <1>1, <1>3 DEF Grown, Wide, NewRoot
<1> QED
  BY <1>2, <1>3

LEMMA split_failsGrows ==
  ASSUME TypeOK, CountInv, Kinds, NEW at, NEW lo, NEW hi, Grown(at, lo, hi), split_fails
  PROVE  Grown(at, lo, hi)'
<1>1. /\ AtGoal("place") /\ FillFrom = NoPairs
      /\ UNCHANGED <<mem, root, height, alloc, queue>>
      /\ call' = [call EXCEPT !.pc = "up", !.res.status = "enomem"]
  BY DEF split_fails
<1>2. Inserting /\ ~ Delivered
  BY <1>1, GoalFacts
<1>3. height > 1 => mem[root][1].v # NULL
  BY <1>1, FullRoot
<1> QED
  BY <1>1, <1>2, <1>3, FailGrows

(* Where a split is awaited, the key of its separator is not there yet:    *)
(* the waiting node has keys below it.                                     *)
LEMMA NoDuplicateAbove ==
  ASSUME TypeOK, NEW at, NEW lo, NEW hi, Grown(at, lo, hi), AtGoal("place"),
         call.stack # <<>>
  PROVE  /\ Position \in Used(mem, call.cur)
         /\ mem[call.cur][Position].v = call.stack[1].node
         /\ InSpan(Key, call.stack[1].node, lo, hi)
         /\ ~ Duplicate
<1>1. PICK c : c = call.stack[1].node
  OBVIOUS
<1>2. PICK l : l = Len(call.stack)
  OBVIOUS
<1>3. /\ Tree = mem /\ c \in at[l] /\ l \in 1 .. (height - 1) /\ call.cur \in at[l + 1]
      /\ \A s \in Slot : mem[c][s].v # NULL
      /\ Key = mem[c][SplitSlot].k /\ Key \in Long /\ InSpan(Key, call.cur, lo, hi)
  BY <1>1, <1>2, GoalFacts
<1>4. Shape(mem, root, height, at, lo, hi) /\ height \in Nat
  BY <1>3 DEF Grown, Shape, Levels
<1>5. c \in Node /\ l \in 1 .. height /\ SplitSlot \in Slot /\ Half \in Slot /\ SplitSlot < Half
  BY <1>3, <1>4, HalfFacts DEF Shape, Levels
<1>6. Ordered(mem[c]) /\ \A s \in Slot : lo[c] <= mem[c][s].k /\ mem[c][s].k < hi[c]
  BY <1>3, <1>4, <1>5 DEF Shape, Spans, Used
<1>7. InSpan(Key, c, lo, hi)
  BY <1>3, <1>5, <1>6 DEF InSpan
<1>8. Position \in Used(mem, call.cur) /\ mem[call.cur][Position].v = c
  BY <1>3, <1>4, <1>7, SlotOfKey DEF Position
<1>9. lo[c] = mem[call.cur][Position].k
  BY <1>3, <1>4, <1>8, ChildSpan
<1>10. mem[c][Half].k < Key /\ lo[c] <= mem[c][Half].k /\ mem[c][Half].k \in Long
  BY <1>3, <1>5, <1>6, MemType DEF Ordered
<1>11. lo[c] \in Int
  BY <1>4, <1>5 DEF Shape, Spans
<1>12. mem[call.cur][Position].k # Key
  BY <1>3, <1>9, <1>10, <1>11 DEF Long
<1> QED
  BY <1>1, <1>7, <1>8, <1>12 DEF Duplicate, matches

LEMMA insert_bugGrows ==
  ASSUME TypeOK, CountInv, Kinds, NEW at, NEW lo, NEW hi, Grown(at, lo, hi), insert_bug
  PROVE  Grown(at, lo, hi)'
<1>1. AtGoal("place") /\ Bug /\ UNCHANGED <<mem, root, height, alloc, queue>>
  BY DEF insert_bug
<1>2. /\ Inserting /\ Tree = mem /\ call.cur \in Node /\ Level \in 1 .. height
      /\ call.cur \in at[Level] /\ Position \in 0 .. NoPairs /\ FillFrom \in Position .. NoPairs
      /\ mem[call.cur] \in NodeOver(Ptr)
  BY <1>1, GoalFacts
<1>3. Duplicate
  BY <1>2 DEF insert_bug
<1>4. call.stack = <<>>
  BY <1>1, <1>3, NoDuplicateAbove
<1>5. Level = 1 /\ Key = call.ukey
  BY <1>1, <1>4, GoalFacts
<1>6. Stored(at, call.ukey)
  <2>1. Position \in Slot /\ mem[call.cur][Position].k = call.ukey
    BY <1>3, <1>5, matchesAreSlots DEF Duplicate, matches
  <2>2. mem[call.cur][Position].v # NULL
    <3>1. \A j \in Slot : Position <= j /\ j < FillFrom => mem[call.cur][j].v # NULL
      BY <1>2, getfillFinds DEF FillFrom
    <3>2. Position < FillFrom /\ Position <= Position
      BY <1>2, <1>3 DEF Duplicate
    <3> QED
      BY <2>1, <3>1, <3>2
  <2>3. height > 0
    BY <1>2, <1>5 DEF TypeOK
  <2> QED
    BY <1>2, <1>5, <2>1, <2>2, <2>3 DEF Stored
<1>7. call'.pc = "done" /\ call'.op = "insert" /\ call'.ukey = call.ukey
  BY <1>1, <1>2, FinishKinds DEF Bug, Kinds
<1>8. Stored(at, call.ukey)' <=> Stored(at, call.ukey)
  BY <1>1, <1>7 DEF Stored
<1>9. Verdict(at)' /\ ~ Inserting' /\ ~ LookingUp'
  BY <1>6, <1>7, <1>8 DEF Verdict, Inserting, LookingUp
<1>10. ~ NewRoot
  BY <1>4 DEF NewRoot
<1> QED
  BY <1>1, <1>2, <1>4, <1>9, <1>10, RestGrows

(* The fault of an allocation: its node stays behind, outside the tree.    *)
LEMMA initQueue_faultsGrows ==
  ASSUME TypeOK, CountInv, Kinds, NEW at, NEW lo, NEW hi, Grown(at, lo, hi), initQueue_faults
  PROVE  Grown(at, lo, hi)'
<1>1. /\ KmallocFails /\ alloc # Node /\ mem' = [mem EXCEPT ![Fresh] = EmptyNode]
      /\ Oops /\ UNCHANGED <<root, height, queue>>
      /\ \/ call.pc = "enter"
         \/ AtGoal("place") /\ FillFrom = NoPairs
  BY DEF initQueue_faults
<1>2. Tree = mem /\ (height > 1 => mem[root][1].v # NULL) /\ Inserting
  <2>1. CASE call.pc = "enter"
    BY <2>1 DEF Tree, Delivered, Grown, Wide, NewRoot, Inserting
  <2>2. CASE AtGoal("place") /\ FillFrom = NoPairs
    BY <2>2, FullRoot, GoalFacts
  <2> QED
    BY <1>1, <2>1, <2>2
<1>3. Shape(mem, root, height, at, lo, hi) /\ height \in Nat
  BY <1>2 DEF Grown, Shape, Levels
<1>4. PICK a \in Node : a = Fresh /\ a \notin alloc /\ \A l \in 1 .. height : a \notin at[l]
  BY <1>1, FreshOutside DEF Grown
<1>5. mem' = [mem EXCEPT ![a] = EmptyNode] /\ mem' \in Memory
  BY <1>1, <1>4, MemOverPtr, EmptyNodeType, SetNodeType DEF Memory, Ptr
<1>6. Shape(mem', root, height, at, lo, hi)
  <2>1. \A l \in 1 .. height : \A n \in at[l] : mem'[n] = mem[n]
    BY <1>3, <1>4, <1>5 DEF Shape, Levels
  <2> QED
    BY <1>3, <1>5, <2>1, OutsideShape
<1>7. call'.pc = "done" /\ call'.res.status = "oops" /\ call'.op = "insert"
  BY <1>1, <1>2, FinishKinds DEF Oops, Kinds
<1>8. Tree' = mem' /\ ~ Inserting' /\ ~ LookingUp' /\ Verdict(at)'
  BY <1>7 DEF Tree, Delivered, Inserting, LookingUp, Verdict
<1>9. Wide'
  <2>1. height > 1 => mem'[root] = mem[root]
    <3>1. height > 1 => root \in Node /\ root # a
      BY <1>3, <1>4 DEF Shape, Levels
    <3> QED
      BY <1>5, <3>1
  <2> QED
    BY <1>1, <1>2, <1>8, <2>1 DEF Wide
<1>10. Cached(at)'
  BY <1>1, SameEntries, SameCached DEF Grown
<1>11. Shape(Tree, root, height, at, lo, hi)'
  BY <1>1, <1>6, <1>8
<1> QED
  BY <1>1, <1>7, <1>8, <1>9, <1>10, <1>11 DEF Grown, Frames, Walk, Look, Account, LookingUp

(* The tree gets its first node, or another level.                         *)
LEMMA GrowsBy ==
  ASSUME TypeOK, CountInv, NEW at, NEW lo, NEW hi, Grown(at, lo, hi), call.pc = "enter",
         call.val # NULL, NEW a \in Node, a \notin alloc, alloc' = alloc \cup {a},
         root' = a, height' = height + 1,
         call' = [call EXCEPT !.pc = "place", !.cur = a, !.h = height + 1],
         \A n \in Node : Entries(n)' = Entries(n),
         \A n \in Node : n # a => mem'[n] = mem[n],
         NEW up, NEW lw, NEW hg, \A l \in 1 .. height : up[l] = at[l],
         up[height + 1] = {a}, Len(call.stack) = height,
         Shape(mem', a, height + 1, up, lw, hg)
  PROVE  Grown(up, lw, hg)'
<1>1. Inserting /\ ~ Delivered /\ Tree = mem /\ call \in CallRecord
  BY DEF Inserting, Delivered, Tree, TypeOK
<1>2. /\ call'.pc = "place" /\ call'.cur = a /\ call'.h = height + 1
      /\ call'.stack = call.stack /\ call'.at = call.at /\ call'.val = call.val
      /\ call'.ukey = call.ukey
  BY <1>1 DEF CallRecord
<1>3. Inserting' /\ ~ Delivered' /\ Tree' = mem' /\ Level' = height + 1
  BY <1>1, <1>2 DEF Inserting, Delivered, Tree, Level
<1>4. height \in Nat /\ height' \in Nat /\ height <= height'
  BY <1>1 DEF Grown, Shape, Levels
<1>5. ASSUME NEW i \in 1 .. Len(call.stack)
      PROVE  /\ mem'[call.stack[i].node] = mem[call.stack[i].node]
             /\ mem'[call.stack[i].new] = mem[call.stack[i].new]
  <2>1. /\ call.stack[i].new \in Node /\ call.stack[i].new \in alloc
        /\ call.stack[i].node \in Node
        /\ Len(call.stack) + 1 - i \in 1 .. height
        /\ call.stack[i].node \in at[Len(call.stack) + 1 - i]
    BY <1>1, FrameFacts
  <2>2. Loose(a)
    BY DEF Loose
  <2>3. \A l \in 1 .. height : a \notin at[l]
    BY <2>2, LooseOutside DEF Grown
  <2> QED
    BY <2>1, <2>3
<1>6. Frames(up)'
  BY <1>1, <1>2, <1>3, <1>4, <1>5, FramesStay
<1>7. Key' = Key /\ Key \in Long
  BY <1>1, <1>2, <1>5, KeyStays
<1>8. InSpan(Key, a, lw, hg)
  <2>1. height + 1 > 0
    BY <1>4
  <2> QED
    BY <1>7, <2>1, RootSpan
<1>9. Walk(up, lw, hg)'
  <2>1. a \in up[height + 1] /\ height + 1 \in (height + 1) .. (height + 1)
    BY <1>4
  <2> QED
    BY <1>2, <1>3, <1>7, <1>8, <2>1 DEF Walk
<1>10. Wide'
  <2>1. CASE height = 0
    BY <2>1 DEF Wide
  <2>2. CASE height # 0
    <3>1. call.stack # <<>>
      BY <2>2
    <3> QED
      BY <1>2, <1>3, <3>1 DEF Wide, NewRoot
  <2> QED
    BY <2>1, <2>2
<1>11. Cached(up)'
  <2>1. \A n \in Node : Entries(n) # {} => height > 0 /\ n \in at[1]
    BY DEF Grown, Cached
  <2>2. height > 0 => 1 \in 1 .. height
    BY <1>4
  <2> QED
    BY <1>4, <2>1, <2>2 DEF Cached
<1>12. Account(up)'
  <2>1. height' \in 1 .. height'
    BY <1>4
  <2>2. \A n \in alloc' : n \in alloc \/ \E l \in 1 .. height' : n \in up[l]
    BY <1>4, <2>1
  <2> QED
    BY <1>1, <1>2, <1>3, <1>4, <2>2, AccountStays DEF Grown
<1>13. Shape(Tree, root, height, up, lw, hg)'
  BY <1>3
<1> QED
  BY <1>2, <1>6, <1>9, <1>10, <1>11, <1>12, <1>13 DEF Grown, Look, Verdict

LEMMA cbtree_growGrows ==
  ASSUME TypeOK, CountInv, Kinds, NEW at, NEW lo, NEW hi, Grown(at, lo, hi), cbtree_grow
  PROVE  \E up, lw, hg :
           /\ up = [l \in 1 .. (height + 1) |-> IF l = height + 1 THEN {Fresh} ELSE at[l]]
           /\ Grown(up, lw, hg)'
<1> DEFINE pairs == IF root \in Node
                    THEN [EmptyNode EXCEPT ![0] = [k |-> LastKey(mem[root]), v |-> root]]
                    ELSE EmptyNode
<1>1. /\ call.pc = "enter" /\ call.val # NULL /\ height < Level /\ cbtree_node_alloc(pairs)
      /\ root' = Fresh /\ height' = height + 1
      /\ call' = [call EXCEPT !.pc = "place", !.cur = Fresh, !.h = height + 1]
  BY DEF cbtree_grow
<1>2. pairs \in NodeOver(Ptr)
  BY growPairsType
<1>3. /\ Fresh \in Node /\ Fresh \notin alloc /\ Untouched(Fresh)
      /\ alloc' = alloc \cup {Fresh} /\ mem' = [mem EXCEPT ![Fresh] = pairs]
      /\ \A n \in Node : Entries(n)' = Entries(n)
  <2> HIDE DEF pairs
  <2> QED
    BY <1>1, <1>2, AllocCounts
<1>4. PICK a \in Node : a = Fresh
  BY <1>3
<1>5. Inserting /\ ~ Delivered /\ Tree = mem
  BY <1>1 DEF Inserting, Delivered, Tree
<1>6. Shape(mem, root, height, at, lo, hi) /\ height \in Nat
  BY <1>5 DEF Grown, Shape, Levels
<1>7. Loose(a) /\ \A l \in 1 .. height : a \notin at[l]
  <2>1. Loose(a)
    BY <1>3, <1>4 DEF Loose
  <2> QED
    BY <2>1, LooseOutside DEF Grown
<1>8. Len(call.stack) = height
  <2>1. Len(call.stack) \in 0 .. height /\ Level = Len(call.stack) + 1
    BY <1>5, FrameFacts, StackFacts
  <2> QED
    BY <1>1, <1>6, <2>1
<1>9. /\ call.pc = "enter" /\ call.val # NULL
      /\ root' = a /\ height' = height + 1 /\ a \notin alloc /\ alloc' = alloc \cup {a}
      /\ call' = [call EXCEPT !.pc = "place", !.cur = a, !.h = height + 1]
      /\ \A n \in Node : Entries(n)' = Entries(n)
      /\ mem' = [mem EXCEPT ![a] = pairs]
  BY <1>1, <1>3, <1>4
<1>10. mem \in [Node -> NodeOver(Ptr)]
  BY MemOverPtr DEF MemOver
<1>11. CASE height = 0
  <2>1. pairs = EmptyNode
    <3>1. root = NULL
      BY <1>6, <1>11 DEF Shape, Levels
    <3> QED
      BY <3>1, NodeAssumption
  <2> HIDE DEF pairs
  <2>2. PICK up : up = [l \in 1 .. (height + 1) |-> IF l = height + 1 THEN {a} ELSE at[l]]
    OBVIOUS
  <2>3. PICK lw : lw = [lo EXCEPT ![a] = 0]
    OBVIOUS
  <2>4. PICK hg : hg = [hi EXCEPT ![a] = MaxLong + 1]
    OBVIOUS
  <2>5. PICK o : o = mem'
    OBVIOUS
  <2>6. Shape(o, a, 1, up, lw, hg)
    <3>1. o = [mem EXCEPT ![a] = EmptyNode]
      BY <1>9, <2>1, <2>5
    <3>2. Shape(mem, root, 0, at, lo, hi)
      BY <1>6, <1>11
    <3>3. up = [l \in 1 .. 1 |-> {a}]
      BY <1>11, <2>2
    <3> QED
      BY <2>3, <2>4, <3>1, <3>2, <3>3, FirstShape
  <2>7. /\ \A n \in Node : n # a => mem'[n] = mem[n]
        /\ \A l \in 1 .. height : up[l] = at[l]
        /\ up[height + 1] = {a} /\ Shape(mem', a, height + 1, up, lw, hg)
    <3>1. \A n \in Node : n # a => mem'[n] = mem[n]
      BY <1>9, <1>10
    <3>2. height + 1 = 1 /\ 1 \in 1 .. 1 /\ 1 .. height = {}
      BY <1>11
    <3> QED
      BY <2>2, <2>5, <2>6, <3>1, <3>2
  <2>8. Grown(up, lw, hg)'
    BY <1>8, <1>9, <2>7, GrowsBy
  <2> QED
    BY <1>4, <2>2, <2>8
<1>12. CASE height # 0
  <2>1. height > 0 /\ height \in 1 .. height /\ at[height] = {root} /\ root \in Node /\ root # NULL
    BY <1>6, <1>7, <1>12, NodeAssumption DEF Shape, Levels
  <2>2. mem[root][0].v # NULL
    <3>1. 1 \in 1 .. Len(call.stack) /\ Len(call.stack) + 1 - 1 = height
      BY <1>8, <2>1, <1>6
    <3>2. call.stack[1].node \in at[height] /\ \A s \in Slot : mem[call.stack[1].node][s].v # NULL
      BY <1>5, <3>1, FrameFacts
    <3> QED
      BY <2>1, <3>2, SlotFacts
  <2>3. PICK key : key = LastKey(mem[root])
    OBVIOUS
  <2>4. mem[root] \in NodeOver(Ptr) /\ Ordered(mem[root])
    BY <1>6, <1>10, <2>1 DEF Shape, Spans
  <2>5. key \in Long
    BY <2>2, <2>3, <2>4, LastKeyLeast
  <2>6. root \in Ptr
    BY DEF TypeOK
  <2>7. PICK p \in NodeOver(Ptr) :
          /\ p = [EmptyNode EXCEPT ![0] = [k |-> key, v |-> root]]
          /\ Ordered(p) /\ p[0] = [k |-> key, v |-> root]
          /\ \A i \in Slot : i # 0 => p[i] = Empty
    BY <2>1, <2>5, <2>6, FirstPairOrder
  <2>8. pairs = p
    BY <2>1, <2>3, <2>7
  <2> HIDE DEF pairs
  <2>9. PICK up : up = [l \in 1 .. (height + 1) |-> IF l = height + 1 THEN {a} ELSE at[l]]
    OBVIOUS
  <2>10. PICK lw : lw = [[lo EXCEPT ![a] = 0] EXCEPT ![root] = key]
    OBVIOUS
  <2>11. PICK hg : hg = [hi EXCEPT ![a] = MaxLong + 1]
    OBVIOUS
  <2>12. PICK o : o = mem'
    OBVIOUS
  <2>13. o = [mem EXCEPT ![a] = p]
    BY <1>9, <2>8, <2>12
  <2>14. GrowStep(mem, root, height, at, lo, hi, a, key, p, o, up, lw, hg)
    BY <2>3, <2>7, <2>9, <2>10, <2>11, <2>13 DEF GrowStep
  <2>15. \A l \in 1 .. height : a \notin at[l]
    BY <1>7
  <2>16. Shape(o, a, height + 1, up, lw, hg)
    BY <1>6, <2>1, <2>2, <2>14, <2>15, GrowShape
  <2>17. /\ \A n \in Node : n # a => mem'[n] = mem[n]
         /\ \A l \in 1 .. height : up[l] = at[l]
         /\ up[height + 1] = {a} /\ Shape(mem', a, height + 1, up, lw, hg)
    <3>1. \A n \in Node : n # a => mem'[n] = mem[n]
      BY <1>10, <2>12, <2>13
    <3>2. \A l \in 1 .. height : up[l] = at[l]
      BY <1>6, <2>9
    <3>3. up[height + 1] = {a}
      BY <1>6, <2>9
    <3> QED
      BY <2>12, <2>16, <3>1, <3>2, <3>3
  <2>18. Grown(up, lw, hg)'
    BY <1>8, <1>9, <2>17, GrowsBy
  <2> QED
    BY <1>4, <2>9, <2>18
<1> QED
  BY <1>11, <1>12

(* A step down, with the slot of the child perhaps lowered to the key.     *)
LEMMA WalkGrows ==
  ASSUME TypeOK, CountInv, NEW at, NEW lo, NEW hi, Grown(at, lo, hi), call.pc = "place",
         call.h \in (Level + 1) .. height, NEW d,
         call' = [call EXCEPT !.cur = d, !.h = @ - 1],
         UNCHANGED <<root, height, alloc, queue>>,
         \A n \in Node : n # call.cur => mem'[n] = mem[n],
         \A n \in Node, i \in Slot : mem'[n][i].v = mem[n][i].v,
         NEW lw, Shape(mem', root, height, at, lw, hi),
         d \in at[call.h - 1], InSpan(Key, d, lw, hi)
  PROVE  Grown(at, lw, hi)'
<1>1. Inserting /\ ~ Delivered /\ Tree = mem /\ call \in CallRecord
  BY DEF Inserting, Delivered, Tree, TypeOK
<1>2. /\ call'.pc = "place" /\ call'.cur = d /\ call'.h = call.h - 1
      /\ call'.stack = call.stack /\ call'.at = call.at /\ call'.val = call.val
      /\ call'.ukey = call.ukey
  BY <1>1 DEF CallRecord
<1>3. Inserting' /\ ~ Delivered' /\ Tree' = mem' /\ Level' = Level
  BY <1>1, <1>2 DEF Inserting, Delivered, Tree, Level
<1>4. /\ height \in Nat /\ call.h \in Int /\ Level = Len(call.stack) + 1
      /\ Len(call.stack) \in Nat /\ call.cur \in at[call.h]
      /\ \A k, l \in 1 .. height : k # l => at[k] \cap at[l] = {}
  <2>1. Level = Len(call.stack) + 1 /\ Len(call.stack) \in Nat
    BY <1>1, StackFacts
  <2>2. call.cur \in at[call.h] /\ call.h \in Int
    BY <1>1 DEF Grown, Walk, CallRecord
  <2> QED
    BY <2>1, <2>2 DEF Grown, Shape, Levels
<1>5. ASSUME NEW i \in 1 .. Len(call.stack)
      PROVE  /\ mem'[call.stack[i].node] = mem[call.stack[i].node]
             /\ mem'[call.stack[i].new] = mem[call.stack[i].new]
  <2>1. /\ call.stack[i].new \in Node /\ call.stack[i].node \in Node
        /\ Len(call.stack) + 1 - i \in 1 .. height
        /\ call.stack[i].node \in at[Len(call.stack) + 1 - i]
        /\ \A l \in 1 .. height : call.stack[i].new \notin at[l]
    BY <1>1, FrameFacts
  <2>2. call.h \in 1 .. height /\ Len(call.stack) + 1 - i # call.h
    BY <1>4
  <2>3. call.stack[i].node # call.cur /\ call.stack[i].new # call.cur
    BY <1>4, <2>1, <2>2
  <2> QED
    BY <2>1, <2>3
<1>6. Frames(at)'
  <2>1. call.val # NULL
    BY <1>1 DEF Grown, Frames
  <2> QED
    BY <1>1, <1>2, <1>3, <1>4, <1>5, <2>1, FramesStay
<1>7. Key' = Key
  BY <1>2, <1>5, KeyStays
<1>8. Walk(at, lw, hi)'
  BY <1>2, <1>3, <1>4, <1>7 DEF Walk
<1>9. Wide'
  <2>1. ~ NewRoot
    BY <1>4 DEF NewRoot
  <2>2. height > 1 => mem[root][1].v # NULL /\ root \in Node
    BY <1>1, <2>1 DEF Grown, Wide, Shape, Levels
  <2> QED
    BY <1>3, <2>2, SlotFacts DEF Wide
<1>10. Cached(at)'
  BY SameEntries, SameCached DEF Grown
<1>11. Account(at)'
  BY <1>1, <1>2, <1>3, <1>4, AccountStays DEF Grown
<1>12. Shape(Tree, root, height, at, lw, hi)'
  BY <1>3
<1> QED
  BY <1>2, <1>6, <1>8, <1>9, <1>10, <1>11, <1>12 DEF Grown, Look, Verdict

(* Where no slot is for the key, the last used one is lowered to it.       *)
LEMMA LowSlot ==
  ASSUME NEW n \in NodeOver(Ptr), Ordered(n), NEW key \in Long, n[0].v # NULL,
         NEW i, i = getpos(n, key), i = NoPairs \/ n[i].v = NULL
  PROVE  /\ i - 1 \in Slot /\ n[i - 1].v # NULL /\ key <= n[i - 1].k
         /\ \A s \in Slot : i - 1 < s => n[s].v = NULL
<1>1. /\ i \in 0 .. NoPairs /\ (i # NoPairs => i \in Slot)
      /\ \A j \in Slot : j < i => n[j].k > key
  BY getposFinds
<1>2. i # 0
  BY NoPairsAssumption
<1>3. i - 1 \in Slot /\ i - 1 < i
  BY <1>1, <1>2, SlotFacts
<1>4. n[i - 1].k > key /\ n[i - 1].k \in Long
  BY <1>1, <1>3 DEF NodeOver
<1>5. n[i - 1].v # NULL
  BY <1>3, <1>4 DEF Ordered, Long
<1>6. ASSUME NEW s \in Slot, i - 1 < s
      PROVE  n[s].v = NULL
  <2>1. i \in Slot /\ n[i].v = NULL /\ (i = s \/ i < s)
    BY <1>1, <1>6, SlotFacts
  <2> QED
    BY <2>1 DEF Ordered
<1> QED
  BY <1>3, <1>4, <1>5, <1>6 DEF Long

LEMMA find_levelGrows ==
  ASSUME TypeOK, CountInv, Kinds, NEW at, NEW lo, NEW hi, Grown(at, lo, hi), find_level
  PROVE  \E lw : Grown(at, lw, hi)'
<1> DEFINE n == mem[call.cur]
           i == getpos(n, Key)
           low == i = NoPairs \/ n[i].v = NULL
           j == IF low THEN i - 1 ELSE i
<1>1. /\ call.pc = "place" /\ call.h > Level /\ UNCHANGED <<root, height, alloc, queue>>
  BY DEF find_level, Kinds, Goal
<1>2. Inserting /\ ~ Delivered /\ Tree = mem /\ call \in CallRecord
  BY <1>1 DEF Inserting, Delivered, Tree, TypeOK
<1>3. Shape(mem, root, height, at, lo, hi) /\ height \in Nat
  BY <1>2 DEF Grown, Shape, Levels
<1>4. /\ call.h \in Int /\ Level \in Nat /\ Level >= 1 /\ call.h \in (Level + 1) .. height
      /\ call.cur \in at[call.h] /\ InSpan(Key, call.cur, lo, hi) /\ Key \in Long
  <2>1. Level = Len(call.stack) + 1 /\ Len(call.stack) \in Nat
    BY <1>2, StackFacts
  <2>2. /\ call.h \in Level .. height /\ call.cur \in at[call.h]
        /\ InSpan(Key, call.cur, lo, hi) /\ call.h \in Int
    BY <1>1, <1>2 DEF Grown, Walk, CallRecord
  <2> QED
    BY <1>1, <1>3, <2>1, <2>2, KeyType
<1>5. PICK l : l = call.h - 1
  OBVIOUS
<1>6. l \in 1 .. (height - 1) /\ l + 1 = call.h /\ height > 1 /\ l + 1 \in 1 .. height
  BY <1>3, <1>4, <1>5
<1>7. PICK c \in Node : c = call.cur /\ c \in at[l + 1] /\ InSpan(Key, c, lo, hi)
  BY <1>3, <1>4, <1>6 DEF Shape, Levels
<1>8. n \in NodeOver(Ptr) /\ Ordered(n) /\ n[0].v # NULL
  BY <1>3, <1>6, <1>7, MemType DEF Shape, Spans, Levels
<1>9. CASE ~ low
  <2>1. i \in Slot
    BY <1>4, <1>8, <1>9, getposFinds
  <2>2. mem' = mem /\ call' = [call EXCEPT !.cur = n[i].v, !.h = @ - 1]
    <3>1. ~ (i < 0)
      BY <2>1, SlotFacts
    <3> QED
      BY <1>7, <1>9, <3>1 DEF find_level
  <2>3. PICK k : k = i
    OBVIOUS
  <2>4. mem[c][k].v \in at[l] /\ InSpan(Key, mem[c][k].v, lo, hi)
    <3>1. k = getpos(mem[c], Key) /\ k # NoPairs /\ mem[c][k].v # NULL
      BY <1>7, <1>9, <2>3
    <3> QED
      BY <1>3, <1>4, <1>6, <1>7, <3>1, Descend
  <2>5. PICK d : d = mem[c][k].v
    OBVIOUS
  <2>6. call' = [call EXCEPT !.cur = d, !.h = @ - 1] /\ d \in at[call.h - 1] /\ InSpan(Key, d, lo, hi)
    BY <1>5, <1>7, <2>2, <2>3, <2>4, <2>5
  <2>7. Grown(at, lo, hi)'
    <3>1. Shape(mem', root, height, at, lo, hi)
      BY <1>3, <2>2
    <3> QED
      BY <1>1, <1>4, <2>2, <2>6, <3>1, WalkGrows
  <2> QED
    BY <2>7
<1>10. CASE low
  <2>1. /\ i - 1 \in Slot /\ n[i - 1].v # NULL /\ Key <= n[i - 1].k
        /\ \A s \in Slot : i - 1 < s => n[s].v = NULL
    BY <1>4, <1>8, <1>10, LowSlot
  <2>2. PICK k \in Slot : k = i - 1
    BY <2>1
  <2>3. /\ mem' = [mem EXCEPT ![c][k].k = Key]
        /\ call' = [call EXCEPT !.cur = mem[c][k].v, !.h = @ - 1]
    <3>1. ~ (j < 0) /\ j = k
      BY <1>10, <2>2, SlotFacts
    <3> QED
      BY <1>7, <1>10, <3>1 DEF find_level
  <2>4. PICK d : d = mem[c][k].v
    OBVIOUS
  <2>5. PICK lw : lw = [lo EXCEPT ![d] = Key]
    OBVIOUS
  <2>6. PICK o : o = mem'
    OBVIOUS
  <2>7. PICK key \in Long : key = Key
    BY <1>4
  <2>8. LowerStep(mem, lo, c, k, key, o, d, lw)
    BY <2>3, <2>4, <2>5, <2>6, <2>7 DEF LowerStep
  <2>9. /\ k \in Used(mem, c) /\ key <= mem[c][k].k /\ InSpan(key, c, lo, hi)
        /\ \A s \in Slot : k < s => mem[c][s].v = NULL
    BY <1>7, <2>1, <2>2, <2>7 DEF Used
  <2>10. Shape(o, root, height, at, lw, hi) /\ d \in at[l] /\ InSpan(key, d, lw, hi)
    BY <1>3, <1>6, <1>7, <2>4, <2>8, <2>9, LowerShape
  <2>11. \A m \in Node : m # c => mem'[m] = mem[m]
    BY <2>3, MemOverPtr DEF MemOver
  <2>12. \A m \in Node, s \in Slot : mem'[m][s].v = mem[m][s].v
    BY <2>3, SetKeyLinks
  <2>13. Grown(at, lw, hi)'
    <3>1. /\ call' = [call EXCEPT !.cur = d, !.h = @ - 1]
          /\ \A m \in Node : m # call.cur => mem'[m] = mem[m]
          /\ Shape(mem', root, height, at, lw, hi)
          /\ d \in at[call.h - 1] /\ InSpan(Key, d, lw, hi)
      BY <1>5, <1>7, <2>3, <2>4, <2>6, <2>7, <2>10, <2>11
    <3> QED
      BY <1>1, <1>4, <2>12, <3>1, WalkGrows
  <2> QED
    BY <2>13
<1> QED
  BY <1>9, <1>10

LEMMA PushFacts ==
  ASSUME NEW T, NEW s \in Seq(T), NEW f \in T
  PROVE  /\ Len(<<f>> \o s) = Len(s) + 1 /\ (<<f>> \o s)[1] = f
         /\ \A i \in 1 .. Len(s) : (<<f>> \o s)[i + 1] = s[i]
         /\ \A i \in 2 .. (Len(s) + 1) : (<<f>> \o s)[i] = s[i - 1]
OBVIOUS

(* A full node: the new one waits outside the tree.                        *)
LEMMA insert_splitGrows ==
  ASSUME TypeOK, CountInv, Kinds, NEW at, NEW lo, NEW hi, Grown(at, lo, hi), insert_split
  PROVE  Grown(at, lo, hi)'
<1>1. /\ AtGoal("place") /\ FillFrom = NoPairs /\ cbtree_node_alloc(EmptyNode)
      /\ UNCHANGED <<root, height>>
      /\ call' = [call EXCEPT
           !.pc = "enter", !.at = <<call.cur, SplitSlot>>, !.val = Fresh,
           !.stack = Push([kind |-> "split", at |-> call.at, val |-> call.val,
                           node |-> call.cur, new |-> Fresh])]
  BY DEF insert_split
<1>2. /\ Inserting /\ ~ Delivered /\ Tree = mem /\ Level \in 1 .. height
      /\ call.cur \in at[Level] /\ call.cur \in Node /\ call.val # NULL
  BY <1>1, GoalFacts
<1>3. \A s \in Slot : mem[call.cur][s].v # NULL
  BY <1>1, FullNode
<1>4. /\ EmptyNode \in NodeOver(Ptr) /\ Fresh \in Node /\ Fresh \notin alloc
      /\ alloc' = alloc \cup {Fresh} /\ mem' = [mem EXCEPT ![Fresh] = EmptyNode]
      /\ \A n \in Node : Entries(n)' = Entries(n)
  <2>1. EmptyNode \in NodeOver(Ptr)
    BY EmptyNodeType DEF Ptr
  <2> QED
    BY <1>1, <2>1, AllocCounts
<1>5. PICK a \in Node : a = Fresh /\ a \notin alloc
  BY <1>4
<1>6. \A l \in 1 .. height : a \notin at[l]
  BY <1>5, LooseOutside DEF Grown, Loose
<1>7. mem' = [mem EXCEPT ![a] = EmptyNode] /\ mem' \in Memory /\ alloc' = alloc \cup {a}
  BY <1>4, <1>5, MemOverPtr, SetNodeType DEF Memory
<1>8. mem'[a] = EmptyNode /\ \A n \in Node : n # a => mem'[n] = mem[n]
  BY <1>7, MemOverPtr DEF MemOver
<1>9. Shape(mem, root, height, at, lo, hi) /\ height \in Nat
  BY <1>2 DEF Grown, Shape, Levels
<1>10. Shape(mem', root, height, at, lo, hi)
  <2>1. \A l \in 1 .. height : \A n \in at[l] : mem'[n] = mem[n]
    BY <1>6, <1>8, <1>9 DEF Shape, Levels
  <2> QED
    BY <1>7, <1>9, <2>1, OutsideShape
<1>11. PICK f : f = [kind |-> "split", at |-> call.at, val |-> call.val,
                     node |-> call.cur, new |-> a]
  OBVIOUS
<1>12. f \in SplitFrame /\ f.node = call.cur /\ f.new = a /\ f.at = call.at /\ f.val = call.val
  BY <1>2, <1>11 DEF TypeOK, CallRecord, SplitFrame
<1>13. call.stack \in Seq(SplitFrame) /\ Len(call.stack) \in Nat /\ Level = Len(call.stack) + 1
  BY <1>2, StackFacts
<1>14. PICK s : s = <<f>> \o call.stack
  OBVIOUS
<1>15. /\ Len(s) = Len(call.stack) + 1 /\ s[1] = f
       /\ \A i \in 1 .. Len(call.stack) : s[i + 1] = call.stack[i]
       /\ \A i \in 2 .. Len(s) : i - 1 \in 1 .. Len(call.stack) /\ s[i] = call.stack[i - 1]
  <2>1. \A i \in 2 .. Len(s) : i - 1 \in 1 .. Len(call.stack)
    BY <1>12, <1>13, <1>14, PushFacts
  <2> QED
    BY <1>12, <1>13, <1>14, <2>1, PushFacts
<1>16. /\ call'.pc = "enter" /\ call'.at = <<call.cur, SplitSlot>> /\ call'.val = a
       /\ call'.stack = s
  BY <1>1, <1>5, <1>11, <1>14 DEF TypeOK, CallRecord, Push
<1>17. Inserting' /\ ~ Delivered' /\ Tree' = mem'
  BY <1>16 DEF Inserting, Delivered, Tree
<1>18. call.at = IF call.stack = <<>> THEN NULL ELSE <<call.stack[1].node, SplitSlot>>
  BY <1>1, <1>2 DEF Grown, Frames, AtGoal
<1>19. s # <<>> /\ (call.stack = <<>> <=> Len(s) = 1) /\ Len(s) \in Nat
  BY <1>2, <1>13, <1>15, StackFacts
<1>20. ASSUME NEW i \in 1 .. Len(s)
       PROVE  /\ s[i].node \in at[Len(s) + 1 - i]
              /\ \A k \in Slot : mem'[s[i].node][k].v # NULL
              /\ s[i].val # NULL
              /\ s[i].at = IF i = Len(s) THEN NULL ELSE <<s[i + 1].node, SplitSlot>>
              /\ mem'[s[i].new] = EmptyNode
  <2>1. CASE i = 1
    <3>1. Len(s) + 1 - 1 = Level
      BY <1>13, <1>15
    <3>2. s[1].node \in at[Len(s) + 1 - 1] /\ s[1].val # NULL /\ mem'[s[1].new] = EmptyNode
      BY <1>2, <1>8, <1>12, <1>15, <3>1
    <3>3. call.cur # a
      BY <1>2, <1>6
    <3>4. \A k \in Slot : mem'[s[1].node][k].v # NULL
      BY <1>2, <1>3, <1>8, <1>12, <1>15, <3>3
    <3>5. s[1].at = IF 1 = Len(s) THEN NULL ELSE <<s[1 + 1].node, SplitSlot>>
      <4>1. CASE Len(s) = 1
        BY <1>12, <1>15, <1>18, <1>19, <4>1
      <4>2. CASE Len(s) # 1
        <5>1. 1 \in 1 .. Len(call.stack)
          BY <1>13, <1>15, <4>2
        <5>2. s[1 + 1] = call.stack[1]
          BY <1>15, <5>1
        <5> QED
          BY <1>12, <1>15, <1>18, <1>19, <4>2, <5>2
      <4> QED
        BY <4>1, <4>2
    <3> QED
      BY <2>1, <3>2, <3>4, <3>5
  <2>2. CASE i # 1
    <3>1. i \in 2 .. Len(s)
      BY <1>19, <2>2
    <3>2. PICK j \in 1 .. Len(call.stack) : j = i - 1 /\ s[i] = call.stack[j]
      BY <1>15, <3>1
    <3>3. /\ call.stack[j].node \in at[Len(call.stack) + 1 - j]
          /\ call.stack[j].node \in Node /\ Len(call.stack) + 1 - j \in 1 .. height
          /\ \A k \in Slot : mem[call.stack[j].node][k].v # NULL
          /\ call.stack[j].val # NULL
          /\ call.stack[j].at = IF j = Len(call.stack) THEN NULL
                                ELSE <<call.stack[j + 1].node, SplitSlot>>
          /\ call.stack[j].new \in Node /\ call.stack[j].new \in alloc
          /\ mem[call.stack[j].new] = EmptyNode
      BY <1>2, FrameFacts
    <3>4. Len(s) + 1 - i = Len(call.stack) + 1 - j /\ (i = Len(s) <=> j = Len(call.stack))
      BY <1>13, <1>15, <3>2
    <3>5. j # Len(call.stack) => s[i + 1] = call.stack[j + 1]
      <4>1. j # Len(call.stack) => j + 1 \in 1 .. Len(call.stack) /\ (j + 1) + 1 = i + 1
        BY <1>13, <3>2
      <4> QED
        BY <1>15, <4>1
    <3>6. call.stack[j].node # a /\ call.stack[j].new # a
      BY <1>5, <1>6, <3>3
    <3>7. /\ mem'[call.stack[j].node] = mem[call.stack[j].node]
          /\ mem'[call.stack[j].new] = mem[call.stack[j].new]
      BY <1>8, <3>3, <3>6
    <3> QED
      BY <3>2, <3>3, <3>4, <3>5, <3>7
  <2> QED
    BY <2>1, <2>2
<1>21. Frames(at)'
  <2>1. Len(s) <= height
    BY <1>2, <1>9, <1>13, <1>15
  <2>2. call'.at = <<s[1].node, SplitSlot>>
    BY <1>12, <1>15, <1>16
  <2> QED
    BY <1>1, <1>16, <1>17, <1>19, <1>20, <2>1, <2>2 DEF Frames
<1>22. Wide'
  <2>1. height > 1 => mem[root][1].v # NULL
    BY <1>1, FullRoot
  <2>2. height > 1 => root \in Node /\ root # a
    BY <1>6, <1>9 DEF Shape, Levels
  <2> QED
    BY <1>1, <1>8, <1>17, <2>1, <2>2 DEF Wide
<1>23. Cached(at)'
  BY <1>1, <1>4, SameCached DEF Grown
<1>24. Account(at)'
  <2> SUFFICES ASSUME ~ KmallocFails, NEW n \in alloc'
               PROVE  \/ \E l \in 1 .. height : n \in at[l]
                      \/ \E i \in 1 .. Len(s) : s[i].new = n
    BY <1>1, <1>16, <1>17 DEF Account
  <2>1. CASE n = a
    <3>1. 1 \in 1 .. Len(s) /\ s[1].new = a
      BY <1>12, <1>13, <1>15
    <3> QED
      BY <2>1, <3>1
  <2>2. CASE n # a
    <3>1. n \in alloc
      BY <1>7, <2>2
    <3>2. \/ \E l \in 1 .. height : n \in at[l]
          \/ \E i \in 1 .. Len(call.stack) : call.stack[i].new = n
      BY <3>1 DEF Grown, Account
    <3>3. ASSUME NEW i \in 1 .. Len(call.stack), call.stack[i].new = n
          PROVE  \E k \in 1 .. Len(s) : s[k].new = n
      <4>1. i + 1 \in 1 .. Len(s) /\ s[i + 1] = call.stack[i]
        BY <1>13, <1>15
      <4> QED
        BY <3>3, <4>1
    <3> QED
      BY <3>2, <3>3
  <2> QED
    BY <2>1, <2>2
<1>25. Shape(Tree, root, height, at, lo, hi)'
  BY <1>1, <1>10, <1>17
<1> QED
  BY <1>16, <1>21, <1>22, <1>23, <1>24, <1>25, OtherParts DEF Grown

LEMMA CallerFields ==
  ASSUME TypeOK, call.pc = "up", call.stack # <<>>, NEW pc
  PROVE  /\ Caller(pc).at = call.stack[1].at /\ Caller(pc).ukey = call.ukey
         /\ Top = call.stack[1]
BY StackFacts DEF Inserting, Caller, TypeOK, CallRecord

(* Where the innermost activation returns, the frames of the others stay.  *)
LEMMA FramesPop ==
  ASSUME TypeOK, CountInv, NEW at, NEW lo, NEW hi, Grown(at, lo, hi),
         call.pc = "up", call.stack # <<>>, UNCHANGED height,
         call'.pc \in {"up", "place"}, call'.stack = Tail(call.stack),
         call'.at = call.stack[1].at, call'.val = call.stack[1].val, ~ Delivered',
         \A i \in 2 .. Len(call.stack) :
           /\ mem'[call.stack[i].node] = mem[call.stack[i].node]
           /\ mem'[call.stack[i].new] = mem[call.stack[i].new]
  PROVE  Frames(at)'
<1>1. Inserting /\ Len(call.stack) \in Nat /\ 1 \in 1 .. Len(call.stack)
  BY StackFacts DEF Inserting
<1>2. PICK s : s = Tail(call.stack)
  OBVIOUS
<1>3. /\ Len(s) = Len(call.stack) - 1
      /\ \A i \in 1 .. Len(s) : i + 1 \in 2 .. Len(call.stack) /\ s[i] = call.stack[i + 1]
  <2>1. /\ Len(Tail(call.stack)) = Len(call.stack) - 1
        /\ \A i \in 1 .. Len(call.stack) - 1 : Tail(call.stack)[i] = call.stack[i + 1]
    BY CallerFrames
  <2>2. \A i \in 1 .. Len(call.stack) - 1 : i + 1 \in 2 .. Len(call.stack)
    BY <1>1
  <2> QED
    BY <1>2, <2>1, <2>2
<1>4. s = <<>> <=> Len(s) = 0
  <2>1. s \in Seq(SplitFrame)
    BY <1>1, <1>2, StackFacts, HeadTailProperties
  <2> QED
    BY <2>1, EmptySeq
<1>5. /\ height \in Nat /\ Len(call.stack) \in 0 .. height
      /\ \A i \in 1 .. Len(call.stack) :
           /\ call.stack[i].node \in at[Len(call.stack) + 1 - i]
           /\ \A k \in Slot : mem[call.stack[i].node][k].v # NULL
           /\ call.stack[i].val # NULL
           /\ call.stack[i].at = IF i = Len(call.stack) THEN NULL
                                 ELSE <<call.stack[i + 1].node, SplitSlot>>
           /\ i # 1 => mem[call.stack[i].new] = EmptyNode
  BY <1>1, FrameFacts
<1>6. Len(s) <= height
  BY <1>1, <1>3, <1>5
<1>7. ASSUME NEW i \in 1 .. Len(s)
      PROVE  /\ s[i].node \in at[Len(s) + 1 - i]
             /\ \A k \in Slot : mem'[s[i].node][k].v # NULL
             /\ s[i].val # NULL
             /\ s[i].at = IF i = Len(s) THEN NULL ELSE <<s[i + 1].node, SplitSlot>>
             /\ mem'[s[i].new] = EmptyNode
  <2>1. PICK j \in 2 .. Len(call.stack) : j = i + 1 /\ s[i] = call.stack[j]
    BY <1>3
  <2>2. j \in 1 .. Len(call.stack) /\ j # 1
    BY <1>1, <2>1
  <2>3. Len(s) + 1 - i = Len(call.stack) + 1 - j /\ (i = Len(s) <=> j = Len(call.stack))
    <3>1. i \in Int /\ j = i + 1
      BY <1>1, <1>3, <2>1
    <3>2. PICK k \in Int : k = Len(call.stack)
      BY <1>1
    <3>3. Len(s) = k - 1
      BY <1>3, <3>2
    <3>4. (k - 1) + 1 - i = k + 1 - j /\ (i = k - 1 <=> j = k)
      BY <3>1
    <3> QED
      BY <3>2, <3>3, <3>4
  <2>4. i # Len(s) => s[i + 1] = call.stack[j + 1]
    <3>1. i # Len(s) => i + 1 \in 1 .. Len(s)
      BY <1>1, <1>3
    <3> QED
      BY <1>3, <2>1, <3>1
  <2>5. /\ call.stack[j].node \in at[Len(call.stack) + 1 - j]
        /\ \A k \in Slot : mem[call.stack[j].node][k].v # NULL
        /\ call.stack[j].val # NULL
        /\ call.stack[j].at = IF j = Len(call.stack) THEN NULL
                              ELSE <<call.stack[j + 1].node, SplitSlot>>
        /\ mem[call.stack[j].new] = EmptyNode
    BY <1>5, <2>2
  <2>6. /\ mem'[call.stack[j].node] = mem[call.stack[j].node]
        /\ mem'[call.stack[j].new] = mem[call.stack[j].new]
    BY <2>1
  <2> QED
    BY <2>1, <2>3, <2>4, <2>5, <2>6
<1>8. call'.at = IF s = <<>> THEN NULL ELSE <<s[1].node, SplitSlot>>
  <2>1. CASE Len(call.stack) = 1
    BY <1>1, <1>3, <1>4, <1>5, <2>1
  <2>2. CASE Len(call.stack) # 1
    <3>1. 1 \in 1 .. Len(s)
      <4>1. PICK k \in Int : k = Len(call.stack) /\ k >= 1
        BY <1>1
      <4>2. Len(s) = k - 1 /\ k # 1
        BY <1>3, <2>2, <4>1
      <4>3. k - 1 >= 1
        BY <4>1, <4>2
      <4> QED
        BY <4>2, <4>3
    <3>2. s[1] = call.stack[1 + 1]
      BY <1>3, <3>1
    <3>3. call.stack[1].at = <<call.stack[1 + 1].node, SplitSlot>>
      BY <1>1, <1>5, <2>2
    <3>4. s # <<>>
      BY <1>3, <1>4, <1>1, <2>2
    <3> QED
      BY <3>2, <3>3, <3>4
  <2> QED
    BY <2>1, <2>2
<1>9. call'.val # NULL
  BY <1>1, <1>5
<1> QED
  BY <1>2, <1>6, <1>7, <1>8, <1>9 DEF Frames

LEMMA AccountPop ==
  ASSUME TypeOK, NEW at, Account(at), call.pc = "up", call.stack # <<>>, UNCHANGED height,
         call'.stack = Tail(call.stack), Inserting', alloc' \subseteq alloc,
         \/ call.stack[1].new \notin alloc'
         \/ \E l \in 1 .. height : call.stack[1].new \in at[l]
  PROVE  Account(at)'
<1>1. Inserting /\ Len(call.stack) \in Nat
  BY StackFacts DEF Inserting
<1>2. /\ Len(Tail(call.stack)) = Len(call.stack) - 1
      /\ \A i \in 1 .. Len(call.stack) - 1 : Tail(call.stack)[i] = call.stack[i + 1]
  BY CallerFrames
<1> SUFFICES ASSUME ~ KmallocFails, NEW n \in alloc'
             PROVE  \/ \E l \in 1 .. height : n \in at[l]
                    \/ \E i \in 1 .. Len(Tail(call.stack)) : Tail(call.stack)[i].new = n
  BY DEF Account
<1>3. \/ \E l \in 1 .. height : n \in at[l]
      \/ \E i \in 1 .. Len(call.stack) : call.stack[i].new = n
  BY DEF Account
<1>4. ASSUME NEW i \in 1 .. Len(call.stack), call.stack[i].new = n, i # 1
      PROVE  \E k \in 1 .. Len(Tail(call.stack)) : Tail(call.stack)[k].new = n
  <2>1. PICK k \in 1 .. Len(call.stack) - 1 : k + 1 = i
    <3>1. i - 1 \in 1 .. Len(call.stack) - 1 /\ (i - 1) + 1 = i
      BY <1>1, <1>4
    <3> QED
      BY <3>1
  <2>2. k \in 1 .. Len(Tail(call.stack)) /\ Tail(call.stack)[k] = call.stack[i]
    BY <1>2, <2>1
  <2> QED
    BY <1>4, <2>2
<1> QED
  BY <1>3, <1>4

LEMMA split_undoneGrows ==
  ASSUME TypeOK, CountInv, Kinds, NEW at, NEW lo, NEW hi, Grown(at, lo, hi), split_undone
  PROVE  Grown(at, lo, hi)'
<1>1. /\ call.pc = "up" /\ call.stack # <<>> /\ call.res.status = "enomem"
      /\ alloc' = alloc \ {Top.new} /\ call' = Caller("up")
      /\ UNCHANGED <<mem, root, height, queue>>
  BY DEF split_undone
<1>2. /\ call'.pc = "up" /\ call'.val = call.stack[1].val /\ call'.res = call.res
      /\ call'.stack = Tail(call.stack) /\ call'.at = call.stack[1].at /\ Top = call.stack[1]
  BY <1>1, CallerFrames, CallerFields
<1>3. Inserting /\ Inserting' /\ ~ Delivered /\ ~ Delivered' /\ ~ NewRoot /\ ~ NewRoot'
  BY <1>1, <1>2 DEF Inserting, Delivered, NewRoot
<1>4. Tree = mem /\ Tree' = mem
  BY <1>1, <1>3 DEF Tree
<1>5. Frames(at)'
  BY <1>1, <1>2, <1>3, FramesPop
<1>6. Account(at)'
  BY <1>1, <1>2, <1>3, AccountPop DEF Grown
<1>7. Cached(at)'
  BY <1>1, SameEntries, SameCached DEF Grown
<1>8. Shape(Tree, root, height, at, lo, hi)' /\ Wide'
  BY <1>1, <1>3, <1>4 DEF Grown, Wide
<1> QED
  BY <1>2, <1>5, <1>6, <1>7, <1>8, OtherParts DEF Grown

LEMMA split_movesGrows ==
  ASSUME TypeOK, CountInv, Kinds, NEW at, NEW lo, NEW hi, Grown(at, lo, hi), split_moves
  PROVE  Grown(at, lo, hi)'
<1>1. /\ call.pc = "up" /\ call.stack # <<>> /\ call.res.status = "ok"
      /\ mem' = [mem EXCEPT ![Top.new] = upper_half(mem[Top.node], mem[Top.new]),
                            ![Top.node] = lower_half(mem[Top.node])]
      /\ UNCHANGED <<root, height, alloc, queue>>
      /\ call' = FromRoot(Caller("up"), "place")
  BY DEF split_moves
<1>2. /\ call'.pc = "place" /\ call'.val = call.stack[1].val
      /\ call'.stack = Tail(call.stack) /\ call'.at = call.stack[1].at
      /\ call'.cur = root /\ call'.h = height /\ Top = call.stack[1]
  <2>1. /\ Caller("up").val = call.stack[1].val /\ Caller("up").stack = Tail(call.stack)
        /\ Caller("up").at = call.stack[1].at /\ Top = call.stack[1]
    BY <1>1, CallerFrames, CallerFields
  <2>2. Caller("up") \in CallRecord
    BY <1>1, CallerType
  <2> QED
    BY <1>1, <2>1, <2>2 DEF FromRoot, CallRecord
<1>3. Inserting /\ Inserting' /\ Delivered /\ ~ Delivered' /\ ~ NewRoot
  BY <1>1, <1>2 DEF Inserting, Delivered, NewRoot
<1>4. Tree = mem' /\ Tree' = mem'
  BY <1>1, <1>3 DEF Tree
<1>5. Shape(mem', root, height, at, lo, hi) /\ height \in Nat
  BY <1>4 DEF Grown, Shape, Levels
<1>6. /\ Len(call.stack) \in 1 .. height /\ Top.node \in at[Len(call.stack)]
      /\ Top.new \in at[Len(call.stack)] /\ Top.node \in Node /\ Top.new \in Node
  <2>1. 1 \in 1 .. Len(call.stack) /\ Len(call.stack) \in 0 .. height
    BY <1>1, <1>3, FrameFacts, StackFacts
  <2>2. Len(call.stack) + 1 - 1 = Len(call.stack) /\ Len(call.stack) \in 1 .. height
    BY <1>5, <2>1
  <2>3. call.stack[1].node \in at[Len(call.stack) + 1 - 1] /\ call.stack[1].node \in Node
        /\ call.stack[1].new \in Node
    BY <1>3, <2>1, FrameFacts
  <2>4. Top.new \in at[Len(call.stack)]
    BY <1>1, <1>3 DEF Grown, Frames
  <2> QED
    BY <1>2, <2>2, <2>3, <2>4
<1>7. ASSUME NEW i \in 2 .. Len(call.stack)
      PROVE  /\ mem'[call.stack[i].node] = mem[call.stack[i].node]
             /\ mem'[call.stack[i].new] = mem[call.stack[i].new]
  <2>1. i \in 1 .. Len(call.stack) /\ i # 1
    BY <1>6
  <2>2. /\ call.stack[i].node \in at[Len(call.stack) + 1 - i]
        /\ Len(call.stack) + 1 - i \in 1 .. height
        /\ call.stack[i].node \in Node /\ call.stack[i].new \in Node
        /\ \A l \in 1 .. height : call.stack[i].new \notin at[l]
    BY <1>3, <2>1, FrameFacts
  <2>3. Len(call.stack) + 1 - i # Len(call.stack)
    BY <1>6, <2>1
  <2>4. \A k, l \in 1 .. height : k # l => at[k] \cap at[l] = {}
    BY <1>5 DEF Shape, Levels
  <2>5. call.stack[i].node # Top.node /\ call.stack[i].node # Top.new
    BY <1>6, <2>2, <2>3, <2>4
  <2>6. call.stack[i].new # Top.node /\ call.stack[i].new # Top.new
    BY <1>6, <2>2
  <2>7. \A n \in Node : n # Top.node /\ n # Top.new => mem'[n] = mem[n]
    BY <1>1, <1>6, MemOverPtr DEF MemOver
  <2> QED
    BY <2>2, <2>5, <2>6, <2>7
<1>8. Frames(at)'
  BY <1>1, <1>2, <1>3, <1>7, FramesPop
<1>9. Walk(at, lo, hi)'
  <2>1. TypeOK'
    BY split_movesType
  <2>2. Key' \in Long
    BY <2>1 DEF TypeOK, Key, CallRecord, KeyPtr
  <2>3. PICK key \in Long : key = Key'
    BY <2>2
  <2>4. height \in 1 .. height /\ root \in at[height] /\ InSpan(key, root, lo, hi)
    BY <1>5, <1>6, RootSpan
  <2>5. Level' = Len(call.stack)
    <3>1. Len(Tail(call.stack)) = Len(call.stack) - 1
      BY <1>1, CallerFrames
    <3> QED
      BY <1>2, <1>6, <3>1 DEF Level
  <2>6. height \in Level' .. height
    BY <1>5, <1>6, <2>5
  <2> QED
    BY <1>1, <1>2, <2>3, <2>4, <2>6 DEF Walk
<1>10. Account(at)'
  BY <1>1, <1>2, <1>3, <1>6, AccountPop DEF Grown
<1>11. Cached(at)'
  BY <1>1, SameEntries, SameCached DEF Grown
<1>12. Shape(Tree, root, height, at, lo, hi)' /\ Wide'
  BY <1>1, <1>3, <1>4, <1>5 DEF Grown, Wide
<1> QED
  BY <1>2, <1>8, <1>9, <1>10, <1>11, <1>12 DEF Grown, Look, Verdict

(* A pair stored in a leaf ends the insertion.                             *)
LEMMA PutGrows ==
  ASSUME TypeOK, CountInv, Kinds, NEW at, NEW lo, NEW hi, Grown(at, lo, hi),
         insert_shift, call.stack = <<>>
  PROVE  Grown(at, lo, hi)'
<1>1. /\ AtGoal("place") /\ ~ Duplicate /\ FillFrom < NoPairs
      /\ mem' = [mem EXCEPT ![call.cur] = insert_pair(@, Position, FillFrom, Key, call.val)]
      /\ UNCHANGED <<root, height, alloc, queue>>
      /\ Finish("ok", 0, NULL)
  BY DEF insert_shift
<1>2. /\ Inserting /\ ~ Delivered /\ Tree = mem /\ Level = 1 /\ Level \in 1 .. height
      /\ call.cur \in at[Level] /\ call.cur \in Node /\ Key \in Long
      /\ mem[call.cur] \in NodeOver(Ptr) /\ InSpan(Key, call.cur, lo, hi)
      /\ call.val \in Ptr /\ call.val # NULL
      /\ Position \in 0 .. NoPairs /\ FillFrom \in Position .. NoPairs
  BY <1>1, GoalFacts
<1>3. call.val \in Val
  BY <1>2 DEF CountInv, Chain, Ptr
<1>4. Shape(mem, root, height, at, lo, hi) /\ height \in Nat /\ height > 0
  BY <1>2 DEF Grown, Shape, Levels
<1>5. PICK c \in Node : c = call.cur /\ c \in at[1] /\ InSpan(Key, c, lo, hi)
  BY <1>2
<1>6. PICK key \in Long : key = Key
  BY <1>2
<1>7. PICK pos : pos = Position
  OBVIOUS
<1>8. PICK fill : fill = FillFrom
  OBVIOUS
<1>9. PICK p : p = insert_pair(mem[c], pos, fill, key, call.val)
  OBVIOUS
<1>10. PICK o : o = [mem EXCEPT ![c] = p]
  OBVIOUS
<1>11. mem' = o
  BY <1>1, <1>5, <1>6, <1>7, <1>8, <1>9, <1>10
<1>12. /\ pos = getpos(mem[c], key) /\ fill = getfill(mem[c], pos) /\ fill # NoPairs
       /\ pos \in 0 .. NoPairs /\ fill \in pos .. NoPairs /\ fill < NoPairs
       /\ InSpan(key, c, lo, hi)
  <2>1. fill # NoPairs
    BY <1>1, <1>2, <1>8, SlotFacts
  <2> QED
    BY <1>1, <1>2, <1>5, <1>6, <1>7, <1>8, <2>1 DEF Position, FillFrom
<1>13. pos < fill => mem[c][pos].k # key
  <2>1. pos < fill => pos \in Slot
    BY <1>12, SlotFacts
  <2> QED
    BY <1>1, <1>5, <1>6, <1>7, <1>8, <2>1 DEF Duplicate, matches
<1>14. Shape(o, root, height, at, lo, hi)
  BY <1>3, <1>4, <1>5, <1>9, <1>10, <1>12, <1>13, PutShape
<1>15. call'.pc = "done" /\ call'.op = "insert" /\ call'.res.status = "ok"
  BY <1>1, <1>2, FinishKinds DEF Kinds
<1>16. ~ Inserting' /\ ~ LookingUp' /\ ~ NewRoot' /\ Tree' = o /\ Verdict(at)'
  BY <1>11, <1>15 DEF Inserting, LookingUp, NewRoot, Delivered, Tree, Verdict
<1>17. Wide'
  <2>1. ASSUME height > 1
        PROVE  o[root][1].v # NULL
    <3>1. ~ NewRoot /\ mem[root][1].v # NULL
      BY <1>2, <2>1 DEF NewRoot, Grown, Wide
    <3>2. root \in at[height] /\ root \in Node /\ height \in 1 .. height /\ 1 \in 1 .. height
      BY <1>4 DEF Shape, Levels
    <3>3. root # c
      BY <1>4, <1>5, <2>1, <3>2 DEF Shape, Levels
    <3>4. o[root] = mem[root]
      BY <1>10, <3>2, <3>3, MemOverPtr DEF MemOver
    <3> QED
      BY <3>1, <3>4
  <2> QED
    BY <1>1, <1>16, <2>1 DEF Wide
<1>18. Cached(at)'
  BY <1>1, SameEntries, SameCached DEF Grown
<1>19. Account(at)'
  <2>1. Len(call.stack) = 0 /\ 1 .. Len(call.stack) = {}
    BY <1>2, StackFacts
  <2> QED
    BY <1>1, <2>1 DEF Grown, Account
<1>20. Shape(Tree, root, height, at, lo, hi)'
  BY <1>1, <1>14, <1>16
<1> QED
  BY <1>15, <1>16, <1>17, <1>18, <1>19, <1>20 DEF Grown, Frames, Walk, Look, LookingUp

(* The new node of a split stored under its separator: from here on the    *)
(* tree is the one that the moved pairs will leave.                        *)
LEMMA DeliverGrows ==
  ASSUME TypeOK, CountInv, Kinds, NEW at, NEW lo, NEW hi, Grown(at, lo, hi),
         insert_shift, call.stack # <<>>
  PROVE  \E up, lw, hg :
           /\ up[Len(call.stack)] = at[Len(call.stack)] \cup {call.stack[1].new}
           /\ \A k \in 1 .. height : k # Len(call.stack) => up[k] = at[k]
           /\ Grown(up, lw, hg)'
<1>1. /\ AtGoal("place") /\ ~ Duplicate /\ FillFrom < NoPairs
      /\ mem' = [mem EXCEPT ![call.cur] = insert_pair(@, Position, FillFrom, Key, call.val)]
      /\ UNCHANGED <<root, height, alloc, queue>>
      /\ call' = [call EXCEPT !.pc = "up"]
  BY DEF insert_shift, Goto
<1>2. /\ Inserting /\ ~ Delivered /\ Tree = mem /\ Level \in 1 .. height
      /\ call.cur \in at[Level] /\ call.cur \in Node /\ Key \in Long
      /\ mem[call.cur] \in NodeOver(Ptr) /\ Ordered(mem[call.cur])
      /\ InSpan(Key, call.cur, lo, hi)
      /\ call.stack[1].node \in at[Len(call.stack)]
      /\ Len(call.stack) \in 1 .. (height - 1)
      /\ Level = Len(call.stack) + 1
      /\ \A s \in Slot : mem[call.stack[1].node][s].v # NULL
      /\ Key = mem[call.stack[1].node][SplitSlot].k
      /\ mem[call.stack[1].new] = EmptyNode
      /\ Position \in 0 .. NoPairs /\ FillFrom \in Position .. NoPairs
  BY <1>1, GoalFacts
<1>3. Shape(mem, root, height, at, lo, hi) /\ height \in Nat
  BY <1>2 DEF Grown, Shape, Levels
<1>4. /\ at \in [1 .. height -> SUBSET Node]
      /\ \A k, l \in 1 .. height : k # l => at[k] \cap at[l] = {}
      /\ lo \in [Node -> Int] /\ hi \in [Node -> Int] /\ mem \in [Node -> NodeOver(Ptr)]
  BY <1>3, MemOverPtr DEF Shape, Levels, Spans, MemOver
<1>5. PICK l \in 1 .. (height - 1) : l = Len(call.stack) /\ l + 1 = Level
  BY <1>2
<1>6. l \in 1 .. height /\ l + 1 \in 1 .. height /\ l # l + 1
  BY <1>3
<1>7. PICK n \in Node : n = call.cur /\ n \in at[l + 1]
  BY <1>2, <1>5
<1>8. PICK c \in Node : c = call.stack[1].node /\ c \in at[l]
  BY <1>2, <1>4, <1>5, <1>6
<1>9. PICK a \in Node : a = call.stack[1].new /\ (\A k \in 1 .. height : a \notin at[k])
  <2>1. 1 \in 1 .. Len(call.stack)
    BY <1>2, StackFacts
  <2> QED
    BY <1>2, <2>1, FrameFacts
<1>10. a = call.val
  BY <1>1, <1>2, <1>9 DEF CountInv, Chain
<1>11. a # n /\ a # c /\ n # c
  BY <1>4, <1>6, <1>7, <1>8, <1>9
<1>12. PICK key \in Long : key = Key /\ key = mem[c][SplitSlot].k /\ InSpan(key, n, lo, hi)
  BY <1>2, <1>7, <1>8
<1>13. PICK pos : pos = Position
  OBVIOUS
<1>14. PICK fill : fill = FillFrom
  OBVIOUS
<1>15. pos = getpos(mem[n], key) /\ fill = getfill(mem[n], pos) /\ fill # NoPairs
  <2>1. fill # NoPairs
    BY <1>1, <1>2, <1>14, SlotFacts
  <2> QED
    BY <1>7, <1>12, <1>13, <1>14, <2>1 DEF Position, FillFrom
<1>16. PICK p : p = insert_pair(mem[n], pos, fill, key, a)
  OBVIOUS
<1>17. mem' = [mem EXCEPT ![n] = p]
  BY <1>1, <1>7, <1>10, <1>12, <1>13, <1>14, <1>16
<1>18. mem' \in [Node -> NodeOver(Ptr)]
  <2>1. TypeOK'
    BY insert_shiftType
  <2> QED
    BY <2>1 DEF TypeOK, NodeOver
<1>19. mem'[n] = p /\ mem'[c] = mem[c] /\ mem'[a] = EmptyNode
       /\ \A x \in Node : x # n => mem'[x] = mem[x]
  BY <1>2, <1>4, <1>9, <1>11, <1>17
<1>20. /\ call'.pc = "up" /\ call'.res.status = "ok" /\ call'.stack = call.stack
       /\ call'.at = call.at /\ call'.val = call.val
  BY <1>1, <1>2 DEF TypeOK, CallRecord, CountInv, Chain, AtGoal
<1>21. Inserting' /\ Delivered' /\ ~ NewRoot'
  BY <1>20 DEF Inserting, Delivered, NewRoot
<1>22. Top' = call.stack[1] /\ call'.stack # <<>>
  BY <1>2, <1>20, StackFacts DEF Top
<1>23. PICK q : q = upper_half(mem[c], EmptyNode)
  OBVIOUS
<1>24. PICK w : w = lower_half(mem[c])
  OBVIOUS
<1>25. PICK o : o = [[mem' EXCEPT ![a] = q] EXCEPT ![c] = w]
  OBVIOUS
<1>26. Tree' = o
  <2>1. Tree' = [mem' EXCEPT ![a] = upper_half(mem'[c], mem'[a]), ![c] = lower_half(mem'[c])]
    BY <1>8, <1>9, <1>21, <1>22 DEF Tree
  <2> QED
    BY <1>19, <1>23, <1>24, <1>25, <2>1
<1>27. q \in NodeOver(Ptr) /\ w \in NodeOver(Ptr)
  BY <1>4, <1>23, <1>24, EmptyNodeType, HalvesType DEF Ptr
<1>28. /\ o \in Memory /\ o[n] = p /\ o[a] = q /\ o[c] = w
       /\ \A x \in Node : x \notin {n, a, c} => o[x] = mem[x]
  BY <1>11, <1>18, <1>19, <1>25, <1>27 DEF Memory, MemOver
<1>29. PICK up : up = [at EXCEPT ![l] = @ \cup {a}]
  OBVIOUS
<1>30. /\ up \in [1 .. height -> SUBSET Node] /\ up[l] = at[l] \cup {a}
       /\ \A k \in 1 .. height : k # l => up[k] = at[k]
  BY <1>4, <1>6, <1>29
<1>31. PICK lw : lw = [lo EXCEPT ![a] = key]
  OBVIOUS
<1>32. lw \in [Node -> Int] /\ lw[a] = key /\ \A x \in Node : x # a => lw[x] = lo[x]
  BY <1>4, <1>31 DEF Long
<1>33. PICK hg : hg = [[hi EXCEPT ![a] = hi[c]] EXCEPT ![c] = key]
  OBVIOUS
<1>34. /\ hg \in [Node -> Int] /\ hg[a] = hi[c] /\ hg[c] = key
       /\ \A x \in Node : x # a /\ x # c => hg[x] = hi[x]
  BY <1>4, <1>11, <1>33 DEF Long
<1>35. Shape(o, root, height, up, lw, hg)
  <2>1. SplitStep(mem, height, at, lo, hi, l, n, c, a, key, pos, fill, o, up, lw, hg)
    BY <1>2, <1>8, <1>9, <1>12, <1>15, <1>16, <1>23, <1>24, <1>28, <1>30, <1>32, <1>34
    DEF SplitStep
  <2> QED
    BY <1>3, <1>7, <1>8, <2>1, SplitShape
<1>36. \A k \in 1 .. height : at[k] \subseteq up[k]
  BY <1>30
<1>37. ASSUME NEW i \in 1 .. Len(call.stack)
       PROVE  /\ call.stack[i].node \in up[Len(call.stack) + 1 - i]
              /\ \A s \in Slot : mem'[call.stack[i].node][s].v # NULL
              /\ call.stack[i].val # NULL
              /\ call.stack[i].at = IF i = Len(call.stack) THEN NULL
                                    ELSE <<call.stack[i + 1].node, SplitSlot>>
              /\ mem'[call.stack[i].new] = EmptyNode
  <2>1. /\ Len(call.stack) + 1 - i \in 1 .. height
        /\ call.stack[i].node \in at[Len(call.stack) + 1 - i]
        /\ call.stack[i].node \in Node
        /\ \A s \in Slot : mem[call.stack[i].node][s].v # NULL
        /\ call.stack[i].val # NULL
        /\ call.stack[i].at = IF i = Len(call.stack) THEN NULL
                              ELSE <<call.stack[i + 1].node, SplitSlot>>
        /\ call.stack[i].new \in Node
        /\ mem[call.stack[i].new] = EmptyNode
        /\ \A k \in 1 .. height : call.stack[i].new \notin at[k]
    BY <1>2, FrameFacts
  <2>2. Len(call.stack) + 1 - i # l + 1
    BY <1>5
  <2>3. call.stack[i].node # n /\ call.stack[i].new # n
    BY <1>4, <1>6, <1>7, <2>1, <2>2
  <2> QED
    BY <1>19, <1>36, <2>1, <2>3
<1>38. Frames(up)'
  <2>1. Len(call.stack) <= height
    BY <1>2, <1>3
  <2>2. a \in up[Len(call.stack)]
    BY <1>5, <1>30
  <2> QED
    BY <1>1, <1>9, <1>20, <1>22, <1>37, <2>1, <2>2 DEF Frames
<1>39. Wide'
  <2>1. ASSUME height > 1
        PROVE  o[root][1].v # NULL
    <3>1. root \in at[height] /\ root \in Node /\ height \in 1 .. height /\ height # l
      BY <1>3, <2>1 DEF Shape, Levels
    <3>2. root # c /\ root # a
      BY <1>4, <1>6, <1>8, <1>9, <3>1
    <3>3. CASE root # n
      <4>1. mem[root][1].v # NULL
        BY <1>2, <1>7, <2>1, <3>3 DEF Grown, Wide, NewRoot
      <4> QED
        BY <1>28, <3>1, <3>2, <3>3, <4>1
    <3>4. CASE root = n
      <4>1. pos \in Used(mem, n)
        BY <1>1, <1>2, <1>7, <1>13, NoDuplicateAbove
      <4>2. /\ pos \in Slot /\ fill \in Slot /\ pos <= fill
            /\ \A i \in Slot : pos < i /\ i <= fill => p[i] = mem[n][i - 1]
            /\ mem[n][fill].v = NULL
        <5>1. mem[n] \in NodeOver(Ptr) /\ Ordered(mem[n]) /\ a \in Ptr /\ a # NULL
          BY <1>2, <1>7, NodeAssumption DEF Ptr
        <5>2. /\ pos \in Slot /\ fill \in Slot /\ pos <= fill
              /\ \A i \in Slot : pos < i /\ i <= fill => p[i] = mem[n][i - 1]
          <6>1. PICK b \in NodeOver(Ptr) : b = mem[n] /\ Ordered(b)
            BY <5>1
          <6>2. pos = getpos(b, key) /\ fill = getfill(b, pos) /\ fill # NoPairs
                /\ p = insert_pair(b, pos, fill, key, a)
            BY <1>15, <1>16, <6>1
          <6>3. /\ pos \in Slot /\ fill \in Slot /\ pos <= fill
                /\ p[pos] = [k |-> key, v |-> a]
                /\ \A i \in Slot : i < pos => p[i] = b[i] /\ b[i].v # NULL
                /\ \A i \in Slot : pos < i /\ i <= fill => p[i] = b[i - 1] /\ b[i - 1].v # NULL
                /\ \A i \in Slot : fill < i => p[i] = b[i] /\ b[i].v = NULL
                /\ p \in NodeOver(Ptr)
            BY <5>1, <6>1, <6>2, InsertSlots
          <6> QED
            BY <6>1, <6>3
        <5>3. mem[n][fill].v = NULL
          <6>1. pos \in 0 .. NoPairs
            BY <5>2, SlotFacts
          <6> QED
            BY <1>15, <5>1, <6>1, getfillFinds
        <5> QED
          BY <5>2, <5>3
      <4>3. pos + 1 \in Slot /\ pos + 1 <= fill /\ pos + 1 - 1 = pos /\ pos \in Nat
        <5>1. pos # fill
          BY <4>1, <4>2 DEF Used
        <5> QED
          BY <4>2, <5>1, SlotFacts
      <4>4. p[pos + 1].v # NULL
        BY <4>1, <4>2, <4>3 DEF Used
      <4>5. Ordered(p)
        <5>1. n \in up[l + 1]
          BY <1>6, <1>7, <1>36
        <5> QED
          BY <1>6, <1>28, <1>35, <5>1 DEF Shape, Spans
      <4>6. pos + 1 = 1 \/ 1 < pos + 1
        BY <4>3
      <4> QED
        BY <1>28, <3>4, <4>3, <4>4, <4>5, <4>6, SlotFacts DEF Ordered
    <3> QED
      BY <3>3, <3>4
  <2> QED
    BY <1>1, <1>26, <2>1 DEF Wide
<1>40. Cached(up)'
  <2>1. \A x \in Node : Entries(x) # {} => height > 0 /\ x \in at[1]
    BY DEF Grown, Cached
  <2>2. height > 0 => 1 \in 1 .. height
    BY <1>3
  <2>3. \A x \in Node : Entries(x)' = Entries(x)
    BY <1>1, SameEntries
  <2> QED
    BY <1>1, <1>36, <2>1, <2>2, <2>3 DEF Cached
<1>41. Account(up)'
  BY <1>1, <1>2, <1>3, <1>20, <1>21, <1>36, AccountStays DEF Grown
<1>42. Shape(Tree, root, height, up, lw, hg)'
  BY <1>1, <1>26, <1>35
<1>43. Grown(up, lw, hg)'
  BY <1>20, <1>38, <1>39, <1>40, <1>41, <1>42, OtherParts DEF Grown
<1> QED
  BY <1>5, <1>9, <1>30, <1>43

LEMMA insert_shiftGrows ==
  ASSUME TypeOK, CountInv, Kinds, NEW at, NEW lo, NEW hi, Grown(at, lo, hi), insert_shift
  PROVE  GrowInv'
<1>1. CASE call.stack = <<>>
  <2>1. Grown(at, lo, hi)'
    BY <1>1, PutGrows
  <2> QED
    BY <2>1 DEF GrowInv
<1>2. CASE call.stack # <<>>
  BY <1>2, DeliverGrows DEF GrowInv
<1> QED
  BY <1>1, <1>2

-----------------------------------------------------------------------------
(* Every step keeps the invariant.                                         *)

(* The empty tree is grown.                                                *)
LEMMA InitGrows == Init => Kinds /\ GrowInv
<1> SUFFICES ASSUME Init PROVE Kinds /\ GrowInv
  OBVIOUS
<1>1. /\ mem = [n \in Node |-> EmptyNode] /\ root = NULL /\ height = 0 /\ alloc = {}
      /\ call = Idle /\ queue = [n \in Node |-> NULL]
      /\ call.pc = "idle" /\ call.op = "none" /\ call.stack = <<>>
  BY DEF Init, Idle
<1>2. Kinds
  BY <1>1 DEF Kinds, Inserting, LookingUp
<1>3. PICK at : at = [l \in 1 .. 0 |-> {}]
  OBVIOUS
<1>4. PICK lo : lo = [n \in Node |-> 0]
  OBVIOUS
<1>5. Tree = mem /\ mem \in Memory
  <2>1. Tree = mem
    BY <1>1 DEF Tree, Delivered
  <2>2. mem \in Memory
    BY <1>1, EmptyNodeType DEF Memory, MemOver, Ptr
  <2> QED
    BY <2>1, <2>2
<1>6. \A l \in Int : l \notin 1 .. 0 /\ l \notin 1 .. (0 - 1)
  OBVIOUS
<1>7. Levels(mem, root, height, at)
  BY <1>1, <1>3, <1>6 DEF Levels
<1>8. Edges(mem, height, at) /\ Bounds(mem, height, at, lo, lo)
  BY <1>1, <1>6 DEF Edges, Bounds
<1>9. Spans(mem, root, height, at, lo, lo) /\ Apart(height, at, lo, lo)
  BY <1>1, <1>4, <1>6 DEF Spans, Apart
<1>10. Shape(Tree, root, height, at, lo, lo)
  BY <1>5, <1>7, <1>8, <1>9 DEF Shape
<1>11. Frames(at) /\ Walk(at, lo, lo) /\ Wide /\ Look(at, lo, lo) /\ Verdict(at)
  BY <1>1 DEF Frames, Inserting, Walk, Wide, Look, Verdict
<1>12. Cached(at) /\ Account(at)
  BY <1>1 DEF Cached, Entries, Account
<1> QED
  BY <1>2, <1>10, <1>11, <1>12 DEF Grown, GrowInv

LEMMA InsertGrows ==
  ASSUME TypeOK, CountInv, Kinds, NEW at, NEW lo, NEW hi, Grown(at, lo, hi), InsertStep
  PROVE  GrowInv'
<1>1. CASE insert_level
  BY <1>1, insert_levelGrows DEF GrowInv
<1>2. CASE cbtree_grow
  BY <1>2, cbtree_growGrows DEF GrowInv
<1>3. CASE grow_fails
  BY <1>3, grow_failsGrows DEF GrowInv
<1>4. CASE insert_bug
  BY <1>4, insert_bugGrows DEF GrowInv
<1>5. CASE insert_shift
  BY <1>5, insert_shiftGrows
<1>6. CASE insert_split
  BY <1>6, insert_splitGrows DEF GrowInv
<1>7. CASE split_fails
  BY <1>7, split_failsGrows DEF GrowInv
<1>8. CASE split_moves
  BY <1>8, split_movesGrows DEF GrowInv
<1>9. CASE split_undone
  BY <1>9, split_undoneGrows DEF GrowInv
<1>10. CASE insert_fails
  BY <1>10, insert_failsGrows DEF GrowInv
<1>11. CASE initQueue_faults
  BY <1>11, initQueue_faultsGrows DEF GrowInv
<1> QED
  BY <1>1, <1>2, <1>3, <1>4, <1>5, <1>6, <1>7, <1>8, <1>9, <1>10, <1>11 DEF InsertStep

LEMMA QueryGrows ==
  ASSUME TypeOK, CountInv, Kinds, NEW at, NEW lo, NEW hi, Grown(at, lo, hi), QueryStep
  PROVE  Grown(at, lo, hi)'
<1>1. CASE lookup_leaf
  BY <1>1, lookup_leafGrows
<1>2. CASE lookup_node
  BY <1>2, lookup_nodeGrows
<1>3. CASE setcache
  BY <1>3, setcacheGrows
<1>4. CASE lookup_returns
  BY <1>4, lookup_returnsGrows
<1>5. CASE cbtree_update
  BY <1>5, cbtree_updateGrows
<1>6. CASE prev_step \/ last_step
  BY <1>6, PrevLastGrows
<1> QED
  BY <1>1, <1>2, <1>3, <1>4, <1>5, <1>6 DEF QueryStep

LEMMA StutterGrows ==
  ASSUME NEW at, NEW lo, NEW hi, Grown(at, lo, hi), UNCHANGED vars
  PROVE  Grown(at, lo, hi)'
<1>1. UNCHANGED <<mem, root, height, alloc, queue, cnt, call>>
  BY DEF vars
<1>2. UNCHANGED <<Tree, Level, Key, NewRoot>>
  BY <1>1 DEF Tree, Level, Key, NewRoot, Delivered, Top
<1>3. Shape(Tree, root, height, at, lo, hi)'
  BY <1>1, <1>2 DEF Grown
<1>4. Frames(at)' /\ Account(at)'
  BY <1>1 DEF Grown, Frames, Account, Inserting, Delivered, Top
<1>5. Walk(at, lo, hi)' /\ Wide'
  BY <1>1, <1>2 DEF Grown, Walk, Wide
<1>6. Cached(at)' /\ Look(at, lo, hi)' /\ Verdict(at)'
  BY <1>1 DEF Grown, Cached, Entries, Look, Verdict, Stored
<1> QED
  BY <1>3, <1>4, <1>5, <1>6 DEF Grown

LEMMA GrowthStep ==
  ASSUME Growing, TypeOK, CountInv, Kinds, GrowInv, [Next]_vars
  PROVE  CountInv' /\ Kinds' /\ GrowInv'
<1>1. PICK at, lo, hi : Grown(at, lo, hi)
  BY DEF GrowInv
<1>2. Kinds'
  BY KindsStep
<1>3. ASSUME Grown(at, lo, hi)' PROVE GrowInv'
  BY <1>3 DEF GrowInv
<1>4. CASE UNCHANGED vars
  <2>1. UNCHANGED <<mem, root, alloc, queue, cnt, call>>
    BY <1>4 DEF vars
  <2>2. CountInv'
    BY <2>1 DEF CountInv, HeapInv, Untouched, Linked, Blank, Entries, Loose, Awaited, Delivered,
                Chain, Asked, Counted, Inserting, LookingUp
  <2> QED
    BY <1>1, <1>2, <1>3, <1>4, <2>2, StutterGrows
<1>5. CASE ClientStep
  BY <1>1, <1>2, <1>3, <1>5, ClientSteps, ClientGrows
<1>6. CASE find_level
  BY <1>1, <1>2, <1>6, find_levelCounts, find_levelGrows DEF GrowInv
<1>7. CASE InsertStep
  BY <1>1, <1>2, <1>7, InsertSteps, InsertGrows
<1>8. CASE RemoveStep
  <2>1. remove_returns
    BY <1>8, NoRemoval
  <2>2. NothingFreed
    BY <2>1 DEF remove_returns, NothingFreed
  <2> QED
    BY <1>1, <1>2, <1>3, <1>8, <2>1, <2>2, RemoveSteps, remove_returnsGrows
<1>9. CASE QueryStep
  <2>1. CountInv'
    BY <1>9, LookupSteps, setcacheCounts, cbtree_updateCounts, PrevLastCounts DEF QueryStep
  <2> QED
    BY <1>1, <1>2, <1>3, <1>9, <2>1, QueryGrows
<1>10. CASE Return
  <2>1. CountInv'
    BY <1>10, EndStep DEF Return
  <2> QED
    BY <1>1, <1>2, <1>3, <1>10, <2>1, ReturnGrows
<1> QED
  BY <1>4, <1>5, <1>6, <1>7, <1>8, <1>9, <1>10 DEF Next, LibraryStep

(* What a run of such clients keeps.                                       *)
LEMMA GrowthKept ==
  ASSUME Growing
  PROVE  Spec => [](TypeOK /\ CountInv /\ Kinds /\ GrowInv)
<1>1. Init => CountInv /\ Kinds /\ GrowInv
  BY InitCounts, InitGrows
<1>2. TypeOK /\ CountInv /\ Kinds /\ GrowInv /\ [Next]_vars => CountInv' /\ Kinds' /\ GrowInv'
  BY GrowthStep
<1> QED
  BY <1>1, <1>2, TypeCorrect, PTL DEF Spec

(* Between calls the levels of a grown tree are those of CBTreeProps.      *)
LEMMA LevelsAtRest ==
  ASSUME TypeOK, NEW at, NEW lo, NEW hi, Grown(at, lo, hi), Quiescent
  PROVE  /\ Tree = mem /\ ~ Inserting /\ ~ NewRoot /\ Shape(mem, root, height, at, lo, hi)
         /\ height \in Nat /\ AtLevel = at
         /\ Leaves = (IF height = 0 THEN {} ELSE at[1])
         /\ \A n : n \in Inner <=> \E l \in 2 .. height : n \in at[l]
         /\ \A n : n \in Reachable <=> \E l \in 1 .. height : n \in at[l]
<1>1. ~ Inserting
  BY DEF Quiescent, Inserting
<1>2. Tree = mem /\ ~ NewRoot
  BY <1>1, StillTree
<1>3. Shape(mem, root, height, at, lo, hi)
  BY <1>2 DEF Grown
<1>4. height \in Nat /\ at \in [1 .. height -> SUBSET Node]
  BY <1>3 DEF Shape, Levels
<1>5. height > 0 => at[height] = {root}
  BY <1>3, <1>4 DEF Shape, Levels
<1>6. ASSUME NEW l \in 1 .. (height - 1)
      PROVE  at[l] = Children(at[l + 1])
  <2>1. l + 1 \in 1 .. height /\ l \in 1 .. height
    BY <1>4
  <2>2. at[l] \subseteq Node /\ at[l + 1] \subseteq Node
    BY <1>4, <2>1
  <2>3. ASSUME NEW c \in at[l] PROVE c \in Children(at[l + 1])
    <3>1. PICK n \in at[l + 1], i \in Slot : mem[n][i].v = c
      BY <1>3 DEF Shape, Edges
    <3>2. c # NULL
      BY <2>2, NodeAssumption
    <3> QED
      BY <2>2, <3>1, <3>2 DEF Children
  <2>4. ASSUME NEW c \in Children(at[l + 1]) PROVE c \in at[l]
    <3>1. PICK n \in at[l + 1], i \in Slot : mem[n][i].v = c /\ c # NULL
      BY DEF Children
    <3> QED
      BY <1>3, <3>1 DEF Shape, Edges, Used
  <2> QED
    BY <2>3, <2>4
<1>7. at = [l \in 1 .. height |-> IF l = height THEN {root} ELSE Children(at[l + 1])]
  <2>1. ASSUME NEW l \in 1 .. height
        PROVE  at[l] = IF l = height THEN {root} ELSE Children(at[l + 1])
    <3>1. l # height => l \in 1 .. (height - 1)
      BY <1>4
    <3> QED
      BY <1>4, <1>5, <1>6, <3>1
  <2> QED
    BY <1>4, <2>1
<1>8. AtLevel = at
  BY <1>4, <1>7, LevelsAre
<1>9. Leaves = (IF height = 0 THEN {} ELSE at[1])
  <2>1. height # 0 => 1 \in 1 .. height /\ at[1] \subseteq Node
    BY <1>4
  <2> QED
    BY <1>8, <2>1 DEF Leaves
<1>10. \A n : n \in Inner <=> \E l \in 2 .. height : n \in at[l]
  <2>1. \A l \in 2 .. height : l \in 1 .. height
    BY <1>4
  <2>2. \A l \in 2 .. height : at[l] \subseteq Node
    BY <1>4, <2>1
  <2> QED
    BY <1>8, <2>2 DEF Inner
<1>11. ASSUME NEW n
       PROVE  n \in Reachable <=> \E l \in 1 .. height : n \in at[l]
  <2>1. \A l \in 1 .. height : l = 1 \/ l \in 2 .. height
    BY <1>4
  <2>2. \A l \in 2 .. height : l \in 1 .. height
    BY <1>4
  <2>3. height # 0 <=> 1 \in 1 .. height
    BY <1>4
  <2> QED
    BY <1>9, <1>10, <2>1, <2>2, <2>3 DEF Reachable
<1> QED
  BY <1>1, <1>2, <1>3, <1>4, <1>8, <1>9, <1>10, <1>11

LEMMA GrownInOrder ==
  ASSUME TypeOK, NEW at, NEW lo, NEW hi, Grown(at, lo, hi)
  PROVE  NodesInOrder
<1> SUFFICES ASSUME Quiescent, NEW n \in Reachable PROVE Ordered(mem[n])
  BY DEF NodesInOrder
<1> QED
  BY LevelsAtRest DEF Shape, Spans

LEMMA StoredKeys ==
  ASSUME TypeOK, NEW at, NEW lo, NEW hi, Grown(at, lo, hi), Quiescent, NEW key
  PROVE  Stored(at, key) <=> key \in Keys
<1>1. Leaves = (IF height = 0 THEN {} ELSE at[1]) /\ height \in Nat
  BY LevelsAtRest
<1>2. Stored(at, key) <=> \E n \in Leaves, i \in Slot : mem[n][i].v # NULL /\ mem[n][i].k = key
  BY <1>1 DEF Stored
<1> QED
  BY <1>2 DEF Keys, Contents, UsedSlots

LEMMA GrownVerdicts ==
  ASSUME TypeOK, NEW at, NEW lo, NEW hi, Grown(at, lo, hi)
  PROVE  BugOnlyOnMisuse /\ NullMeansAbsent
<1>1. Verdict(at)
  BY DEF Grown
<1>2. call.pc = "done" => (Stored(at, call.ukey) <=> call.ukey \in Keys)
  <2> SUFFICES ASSUME call.pc = "done" PROVE Stored(at, call.ukey) <=> call.ukey \in Keys
    OBVIOUS
  <2>1. PICK key : key = call.ukey
    OBVIOUS
  <2>2. Quiescent
    BY DEF Quiescent
  <2> QED
    BY <2>1, <2>2, StoredKeys
<1> QED
  BY <1>1, <1>2 DEF Verdict, BugOnlyOnMisuse, NullMeansAbsent

LEMMA GrownNotEmpty ==
  ASSUME TypeOK, NEW at, NEW lo, NEW hi, Grown(at, lo, hi)
  PROVE  NoEmptyNodes
<1> SUFFICES ASSUME Quiescent, NEW n \in Reachable, ~ (n = root /\ height = 1)
             PROVE  Cardinality(UsedSlots(n)) >= (IF n = root THEN 2 ELSE 1)
  BY DEF NoEmptyNodes
<1>1. /\ Shape(mem, root, height, at, lo, hi) /\ height \in Nat /\ ~ NewRoot /\ Tree = mem
  BY LevelsAtRest
<1>2. PICK l \in 1 .. height : n \in at[l]
  BY LevelsAtRest
<1>3. height = 1 => n = root
  BY <1>1, <1>2 DEF Shape, Levels
<1>4. height > 1
  BY <1>1, <1>2, <1>3
<1>5. 0 \in UsedSlots(n)
  BY <1>1, <1>2, <1>4, SlotFacts DEF Shape, Levels, UsedSlots
<1>6. n = root => 1 \in UsedSlots(n)
  BY <1>1, <1>4, SlotFacts DEF Grown, Wide, UsedSlots
<1>7. IsFiniteSet(UsedSlots(n))
  <2>1. IsFiniteSet(Slot)
    BY FS_Interval, NoPairsAssumption DEF Slot
  <2>2. UsedSlots(n) \subseteq Slot
    BY DEF UsedSlots
  <2> QED
    BY <2>1, <2>2, FS_Subset
<1>8. Cardinality({0}) = 1 /\ IsFiniteSet({0})
  BY FS_Singleton
<1>9. Cardinality({0} \cup {1}) = 2
  <2>1. 1 \notin {0}
    OBVIOUS
  <2> QED
    BY <1>8, <2>1, FS_AddElement
<1>10. Cardinality(UsedSlots(n)) \in Nat
  BY <1>7, FS_CardinalityType
<1>11. Cardinality(UsedSlots(n)) >= 1
  <2>1. {0} \subseteq UsedSlots(n)
    BY <1>5
  <2>2. Cardinality({0}) <= Cardinality(UsedSlots(n))
    BY <1>7, <2>1, FS_Subset
  <2> QED
    BY <1>8, <1>10, <2>2
<1>12. CASE n = root
  <2>1. {0} \cup {1} \subseteq UsedSlots(n)
    BY <1>5, <1>6, <1>12
  <2>2. Cardinality({0} \cup {1}) <= Cardinality(UsedSlots(n))
    BY <1>7, <2>1, FS_Subset
  <2> QED
    BY <1>9, <1>10, <1>12, <2>2
<1> QED
  BY <1>11, <1>12

LEMMA GrownParents ==
  ASSUME TypeOK, CountInv, NEW at, NEW lo, NEW hi, Grown(at, lo, hi)
  PROVE  OneParentEach
<1> SUFFICES ASSUME Quiescent
             PROVE  /\ (root = NULL) <=> (height = 0)
                    /\ \A n \in Inner : \A i \in UsedSlots(n) : mem[n][i].v \in alloc
                    /\ \A n \in Leaves : \A i \in UsedSlots(n) : mem[n][i].v \in Val
                    /\ \A n \in Reachable : Cardinality(Parents(n)) = IF n = root THEN 0 ELSE 1
  BY DEF OneParentEach
<1>1. /\ Shape(mem, root, height, at, lo, hi) /\ height \in Nat /\ Tree = mem
      /\ Leaves = (IF height = 0 THEN {} ELSE at[1])
      /\ \A n : n \in Inner <=> \E l \in 2 .. height : n \in at[l]
      /\ \A n : n \in Reachable <=> \E l \in 1 .. height : n \in at[l]
  BY LevelsAtRest
<1>2. \A l \in 1 .. height : at[l] \subseteq Node
  BY <1>1 DEF Shape, Levels
<1>3. \A k, l \in 1 .. height : k # l => at[k] \cap at[l] = {}
  BY <1>1 DEF Shape, Levels
<1>4. height > 0 => at[height] = {root} /\ root \in Node
  <2>1. height > 0 => at[height] = {root} /\ height \in 1 .. height
    BY <1>1 DEF Shape, Levels
  <2> QED
    BY <1>2, <2>1
<1>5. (root = NULL) <=> (height = 0)
  BY <1>1, <1>4, NodeAssumption DEF Shape, Levels
<1>6. ASSUME NEW p \in Node, NEW l \in 2 .. height, p \in at[l], NEW i \in UsedSlots(p)
      PROVE  l - 1 \in 1 .. (height - 1) /\ p \in at[(l - 1) + 1]
             /\ i \in Used(mem, p) /\ mem[p][i].v \in at[l - 1]
  <2>1. l - 1 \in 1 .. (height - 1) /\ (l - 1) + 1 = l
    BY <1>1
  <2>2. i \in Used(mem, p) /\ p \in at[(l - 1) + 1]
    BY <1>6, <2>1 DEF UsedSlots, Used
  <2> QED
    BY <1>1, <2>1, <2>2 DEF Shape, Edges
<1>7. ASSUME NEW n \in Inner, NEW i \in UsedSlots(n)
      PROVE  mem[n][i].v \in alloc
  <2>1. PICK l \in 2 .. height : n \in at[l]
    BY <1>1
  <2>2. l \in 1 .. height /\ l - 1 \in 1 .. height
    BY <1>1
  <2>3. mem[n][i].v \in at[l - 1]
    BY <1>2, <1>6, <2>1, <2>2
  <2>4. mem[n][i].v \in Node /\ Linked(mem[n][i].v)
    BY <1>1, <2>2, <2>3, InTreeLinked
  <2> QED
    BY <2>4, LinkedInUse
<1>8. ASSUME NEW n \in Leaves, NEW i \in UsedSlots(n)
      PROVE  mem[n][i].v \in Val
  BY <1>1 DEF Shape, Levels, UsedSlots
<1>9. ASSUME NEW n \in Reachable, n = root
      PROVE  Cardinality(Parents(n)) = 0
  <2>1. PICK h \in 1 .. height : n \in at[h]
    BY <1>1
  <2>2. ASSUME NEW p \in Inner, NEW i \in Slot, mem[p][i].v = n
        PROVE  FALSE
    <3>1. PICK l \in 2 .. height : p \in at[l]
      BY <1>1
    <3>2. p \in Node /\ n # NULL
      <4>1. l \in 1 .. height
        BY <1>1
      <4> QED
        BY <1>2, <2>1, <3>1, <4>1, NodeAssumption
    <3>3. i \in UsedSlots(p)
      BY <2>2, <3>2 DEF UsedSlots
    <3>4. n \in at[l - 1]
      BY <1>6, <2>2, <3>1, <3>2, <3>3
    <3>5. l - 1 \in 1 .. height /\ height \in 1 .. height /\ l - 1 # height /\ height > 0
      BY <1>1
    <3>6. n \in at[height]
      BY <1>4, <1>9, <3>5
    <3> QED
      BY <1>3, <3>4, <3>5, <3>6
  <2>3. Parents(n) = {}
    BY <2>2 DEF Parents
  <2> QED
    BY <2>3, FS_EmptySet
<1>10. ASSUME NEW n \in Reachable, n # root
       PROVE  Cardinality(Parents(n)) = 1
  <2>1. PICK h \in 1 .. height : n \in at[h]
    BY <1>1
  <2>2. h # height
    BY <1>1, <1>4, <1>10, <2>1
  <2>3. h \in 1 .. (height - 1) /\ h + 1 \in 2 .. height /\ h + 1 \in 1 .. height /\ h = (h + 1) - 1
    BY <1>1, <2>2
  <2>4. n \in Node /\ n # NULL
    BY <1>2, <2>1, NodeAssumption
  <2>5. PICK p \in at[h + 1], i \in Slot : mem[p][i].v = n
    BY <1>1, <2>1, <2>3 DEF Shape, Edges
  <2>6. p \in Inner /\ i \in Used(mem, p) /\ p \in Node
    BY <1>1, <1>2, <2>3, <2>4, <2>5 DEF Used
  <2>7. ASSUME NEW q \in Inner, NEW j \in Slot, mem[q][j].v = n
        PROVE  q = p /\ j = i
    <3>1. PICK l \in 2 .. height : q \in at[l]
      BY <1>1
    <3>2. q \in Node
      <4>1. l \in 1 .. height
        BY <1>1
      <4> QED
        BY <1>2, <3>1, <4>1
    <3>3. j \in UsedSlots(q)
      BY <2>4, <2>7 DEF UsedSlots
    <3>4. n \in at[l - 1] /\ l - 1 \in 1 .. (height - 1) /\ j \in Used(mem, q)
      BY <1>6, <2>7, <3>1, <3>2, <3>3
    <3>5. l - 1 \in 1 .. height
      BY <1>1, <3>4
    <3>6. l - 1 = h
      BY <1>3, <2>1, <3>4, <3>5
    <3>7. q \in at[h + 1]
      BY <1>1, <3>1, <3>6
    <3>8. mem[q][j].v = mem[p][i].v
      BY <2>5, <2>7
    <3> QED
      BY <1>1, <2>3, <2>6, <3>4, <3>7, <3>8, OneSlot
  <2>8. Parents(n) = {<<p, i>>}
    BY <2>5, <2>6, <2>7 DEF Parents
  <2> QED
    BY <2>8, FS_Singleton
<1> QED
  BY <1>5, <1>7, <1>8, <1>9, <1>10

LEMMA GrownRoutes ==
  ASSUME TypeOK, NEW at, NEW lo, NEW hi, Grown(at, lo, hi)
  PROVE  KeysFound
<1> SUFFICES ASSUME Quiescent, NEW n \in Leaves, NEW s \in UsedSlots(n)
             PROVE  Route(mem[n][s].k)[1] = n
  BY DEF KeysFound
<1>1. /\ Shape(mem, root, height, at, lo, hi) /\ height \in Nat
      /\ Leaves = (IF height = 0 THEN {} ELSE at[1])
  BY LevelsAtRest
<1>2. height > 0 /\ n \in at[1] /\ n \in Node /\ 1 \in 1 .. height
  BY <1>1 DEF Shape, Levels
<1>3. PICK key : key = mem[n][s].k
  OBVIOUS
<1>4. key \in Long /\ InSpan(key, n, lo, hi)
  <2>1. s \in Slot /\ s \in Used(mem, n)
    BY DEF UsedSlots, Used
  <2> QED
    BY <1>1, <1>2, <1>3, <2>1, NodeKind DEF Shape, Spans, InSpan
<1>5. \A l \in 1 .. height : \E c \in at[l] : InSpan(key, c, lo, hi)
  BY <1>1, <1>2, <1>4, SpanAbove
<1> DEFINE On(l) == CHOOSE c \in at[l] : InSpan(key, c, lo, hi)
           Down(f, l) == LET up == f[l + 1]
                             i == IF up \in Node THEN getpos(mem[up], key) ELSE NoPairs
                         IN IF i = NoPairs THEN NULL ELSE mem[up][i].v
           Is(f) == f = [l \in 1 .. height |-> IF l = height THEN root ELSE Down(f, l)]
<1>6. \A l \in 1 .. height : On(l) \in at[l] /\ InSpan(key, On(l), lo, hi)
  BY <1>5
<1> HIDE DEF On
<1>7. PICK r : r = [l \in 1 .. height |-> On(l)]
  OBVIOUS
<1>8. \A l \in 1 .. height : r[l] \in at[l] /\ r[l] \in Node /\ InSpan(key, r[l], lo, hi)
  BY <1>1, <1>6, <1>7 DEF Shape, Levels
<1>9. r[height] = root
  <2>1. height \in 1 .. height /\ at[height] = {root}
    BY <1>1, <1>2 DEF Shape, Levels
  <2> QED
    BY <1>8, <2>1
<1>10. ASSUME NEW l \in 1 .. (height - 1)
       PROVE  Down(r, l) = r[l]
  <2>1. l \in 1 .. height /\ l + 1 \in 1 .. height
    BY <1>1
  <2>2. /\ r[l + 1] \in at[l + 1] /\ r[l + 1] \in Node /\ InSpan(key, r[l + 1], lo, hi)
        /\ r[l] \in at[l] /\ InSpan(key, r[l], lo, hi)
    BY <1>8, <2>1
  <2>3. /\ getpos(mem[r[l + 1]], key) \in Used(mem, r[l + 1])
        /\ mem[r[l + 1]][getpos(mem[r[l + 1]], key)].v = r[l]
    BY <1>1, <1>4, <2>2, SlotOfKey
  <2>4. getpos(mem[r[l + 1]], key) # NoPairs
    BY <2>3, SlotFacts DEF Used
  <2> QED
    BY <2>2, <2>3, <2>4
<1>11. Is(r)
  <2>1. ASSUME NEW l \in 1 .. height
        PROVE  r[l] = IF l = height THEN root ELSE Down(r, l)
    <3>1. l # height => l \in 1 .. (height - 1)
      BY <1>1
    <3> QED
      BY <1>9, <1>10, <3>1
  <2>2. r = [l \in 1 .. height |-> r[l]]
    BY <1>7
  <2> QED
    BY <2>1, <2>2
<1>12. Route(key) = CHOOSE f : Is(f)
  BY DEF Route
<1> HIDE DEF Is
<1>13. Is(Route(key))
  BY <1>11, <1>12
<1> USE DEF Is
<1> DEFINE S == {l \in 1 .. height : Route(key)[l] = r[l]}
<1>14. height \in S
  BY <1>1, <1>2, <1>9, <1>13
<1>15. ASSUME NEW l \in 1 .. (height - 1), l + 1 \in S
       PROVE  l \in S
  <2>1. l \in 1 .. height /\ l # height /\ Route(key)[l + 1] = r[l + 1]
    BY <1>1, <1>15
  <2>2. Route(key)[l] = Down(Route(key), l)
    BY <1>13, <2>1
  <2>3. Down(Route(key), l) = Down(r, l)
    BY <2>1
  <2> QED
    BY <1>10, <2>1, <2>2, <2>3
<1> HIDE DEF S
<1>16. \A l \in 1 .. height : l \in S
  BY <1>1, <1>14, <1>15, Descent
<1>17. Route(key)[1] = r[1]
  BY <1>2, <1>16 DEF S
<1>18. r[1] = n
  <2>1. r[1] \in at[1] /\ InSpan(key, r[1], lo, hi)
    BY <1>2, <1>8
  <2>2. key \in Int
    BY <1>4 DEF Long
  <2> QED
    BY <1>1, <1>2, <1>4, <2>1, <2>2, SpansApart
<1> QED
  BY <1>3, <1>17, <1>18

(* An update that ends well has passed through cbtree_update.              *)
LEMMA UpdateEnds ==
  ASSUME TypeOK, Kinds, ClientStep \/ LibraryStep, Updated'
  PROVE  cbtree_update
<1>1. call \in CallRecord
  BY DEF TypeOK
<1>2. ASSUME NEW status, NEW key, NEW val, Finish(status, key, val)
      PROVE  call.op = "update" /\ status = "ok"
  BY <1>2, FinishKinds DEF Updated
<1>3. ~ Bug /\ ~ Oops
  BY <1>2 DEF Bug, Oops
<1>4. call.op = "update" => ~ Inserting /\ call.pc \notin {"prev", "last", "unwind"}
  BY DEF Kinds, Inserting
<1>5. ASSUME NEW c, NEW pc, NEW key, Start(c, pc, key) PROVE pc = "done"
  BY <1>5 DEF Start, Idle, Updated
<1>6. ~ ClientStep
  <2>1. ASSUME NEW c, NEW key, NEW pc \in {"enter", "unwind", "erase", "lookup", "prev", "last"},
               Start(c, pc, key)
        PROVE  FALSE
    BY <1>5, <2>1
  <2> QED
    BY <2>1 DEF ClientStep, Calling, cbtree_insert, cbtree_remove, cbtree_lookup,
                cbtree_get_prev, cbtree_last
<1>7. ~ find_level
  <2>1. SUFFICES ASSUME find_level PROVE FALSE
    OBVIOUS
  <2>2. PICK v, h : call.pc # "done" /\ call' = [call EXCEPT !.cur = v, !.h = h]
    BY <1>3, <2>1 DEF find_level
  <2> QED
    BY <1>1, <2>2 DEF CallRecord, Updated
<1>8. ~ InsertStep
  <2>1. SUFFICES ASSUME InsertStep, Inserting PROVE FALSE
    BY DEF InsertStep, insert_level, cbtree_grow, grow_fails, insert_bug, insert_shift, AtGoal,
           insert_split, split_fails, split_moves, split_undone, insert_fails,
           initQueue_faults, Inserting
  <2>2. \A status, key, val : ~ Finish(status, key, val)
    BY <1>2, <1>4, <2>1
  <2>3. call'.pc \in {"enter", "place", "up"}
    <3>1. CASE insert_level
      BY <1>1, <1>3, <3>1 DEF insert_level, FromRoot, CallRecord, Updated
    <3>2. CASE cbtree_grow
      BY <1>1, <3>2 DEF cbtree_grow, CallRecord, Updated
    <3>3. CASE grow_fails \/ split_fails
      <4>1. call' = [call EXCEPT !.pc = "up", !.res.status = "enomem"]
        BY <3>3 DEF grow_fails, split_fails
      <4> QED
        BY <1>1, <4>1 DEF CallRecord, Updated
    <3>4. CASE insert_shift
      BY <1>1, <2>2, <3>4 DEF insert_shift, Goto, CallRecord, Updated
    <3>5. CASE insert_split
      BY <1>1, <3>5 DEF insert_split, CallRecord, Updated
    <3>6. CASE split_moves
      BY <1>1, <3>6 DEF split_moves, Caller, FromRoot, CallRecord, Updated
    <3>7. CASE split_undone
      BY <1>1, <3>7 DEF split_undone, Caller, CallRecord, Updated
    <3> QED
      BY <1>3, <2>1, <2>2, <3>1, <3>2, <3>3, <3>4, <3>5, <3>6, <3>7
         DEF InsertStep, insert_bug, insert_fails, initQueue_faults
  <2> QED
    BY <2>3 DEF Updated
<1>9. ~ RemoveStep
  BY <1>2, <1>4, NoRemoval DEF remove_returns
<1>10. ~ Return
  BY DEF Return, Idle, Updated
<1>11. ~ lookup_leaf
  BY <1>1, <1>3 DEF lookup_leaf, AnswerWith, CallRecord, Updated
<1>12. ~ lookup_node
  <2>1. SUFFICES ASSUME lookup_node PROVE FALSE
    OBVIOUS
  <2>2. ASSUME NEW n, AnswerWith(n) PROVE FALSE
    BY <1>1, <2>2 DEF AnswerWith, CallRecord, Updated
  <2>3. call.pc = "lookup"
    BY <2>1 DEF lookup_node
  <2>4. ASSUME NEW v, NEW h, NEW s, call' = [call EXCEPT !.cur = v, !.h = h, !.stack = s]
        PROVE  FALSE
    BY <1>1, <2>3, <2>4 DEF CallRecord, Updated
  <2> DEFINE i == getpos(mem[call.cur], call.ukey)
  <2>5. PICK found : \/ AnswerWith(found)
                     \/ IF i = NoPairs \/ mem[call.cur][i].v = NULL
                        THEN AnswerWith(NULL)
                        ELSE call' = [call EXCEPT
                               !.cur = mem[call.cur][i].v, !.h = @ - 1,
                               !.stack = Push([kind |-> "lookup", node |-> call.cur])]
    BY <1>3, <2>1 DEF lookup_node
  <2> HIDE DEF i
  <2>6. FALSE
    BY <2>2, <2>4, <2>5
  <2> QED
    BY <2>6
<1>13. ~ setcache
  <2>1. SUFFICES ASSUME setcache PROVE FALSE
    OBVIOUS
  <2>2. call.pc = "answer" /\ call' = [call EXCEPT !.stack = Tail(@)]
    BY <1>3, <2>1 DEF setcache
  <2> QED
    BY <1>1, <2>2 DEF CallRecord, Updated
<1>14. ~ lookup_returns
  BY <1>2 DEF lookup_returns
<1>15. ~ prev_step
  <2>1. SUFFICES ASSUME prev_step PROVE FALSE
    OBVIOUS
  <2>2. \A status, key, val : ~ Finish(status, key, val)
    BY <1>2, <1>4, <2>1 DEF prev_step
  <2>3. call.pc = "prev"
    BY <2>1 DEF prev_step
  <2>4. ~ Miss
    BY <1>1, <2>2 DEF Miss, FromRoot, CallRecord, Updated
  <2>5. ASSUME NEW v, NEW h, NEW k, call' = [call EXCEPT !.cur = v, !.h = h, !.retry = k]
        PROVE  FALSE
    BY <1>1, <2>3, <2>5 DEF CallRecord, Updated
  <2>6. FALSE
    BY <1>3, <2>1, <2>2, <2>4, <2>5 DEF prev_step
  <2> QED
    BY <2>6
<1>16. ~ last_step
  <2>1. SUFFICES ASSUME last_step PROVE FALSE
    OBVIOUS
  <2>2. \A status, key, val : ~ Finish(status, key, val)
    BY <1>2, <1>4, <2>1 DEF last_step
  <2>3. PICK v, h : call.pc = "last" /\ call' = [call EXCEPT !.cur = v, !.h = h]
    BY <1>3, <2>1, <2>2 DEF last_step
  <2> QED
    BY <1>1, <2>3 DEF CallRecord, Updated
<1> QED
  BY <1>6, <1>7, <1>8, <1>9, <1>10, <1>11, <1>12, <1>13, <1>14, <1>15, <1>16
     DEF LibraryStep, QueryStep

(* As long as clients only grow the tree, an update that answers 0 has     *)
(* replaced the value.                                                     *)
GrownAndTook == \E at, lo, hi : Grown(at, lo, hi) /\ Took(at)

LEMMA TookStep ==
  ASSUME Growing, TypeOK, CountInv, Kinds, GrownAndTook, [Next]_vars
  PROVE  GrownAndTook'
<1>1. PICK at, lo, hi : Grown(at, lo, hi) /\ Took(at)
  BY DEF GrownAndTook
<1>2. GrowInv
  BY <1>1 DEF GrowInv
<1>3. CASE UNCHANGED vars
  <2>1. Grown(at, lo, hi)'
    BY <1>1, <1>3, StutterGrows
  <2>2. UNCHANGED <<mem, height, call>>
    BY <1>3 DEF vars
  <2>3. Took(at)'
    BY <1>1, <2>2 DEF Took, Updated
  <2> QED
    BY <2>1, <2>3 DEF GrownAndTook
<1>4. CASE ~ Updated'
  <2>1. GrowInv'
    BY <1>2, GrowthStep
  <2> QED
    BY <1>4, <2>1 DEF GrowInv, GrownAndTook, Took
<1>5. CASE Updated' /\ Next
  <2>1. cbtree_update
    BY <1>5, UpdateEnds DEF Next
  <2> QED
    BY <1>1, <2>1, cbtree_updateGrows DEF GrownAndTook
<1> QED
  BY <1>3, <1>4, <1>5

LEMMA GrownTakes ==
  ASSUME TypeOK, NEW at, NEW lo, NEW hi, Grown(at, lo, hi), Took(at)
  PROVE  UpdateTakes
<1> SUFFICES ASSUME Updated PROVE [k |-> call.ukey, v |-> call.val] \in Contents
  BY DEF UpdateTakes, Updated
<1>1. height > 0
  BY DEF Took
<1>2. PICK n \in at[1], i \in Slot : mem[n][i] = [k |-> call.ukey, v |-> call.val]
  BY DEF Took
<1>3. Quiescent
  BY DEF Updated, Quiescent
<1>4. Leaves = at[1]
  BY <1>1, <1>3, LevelsAtRest
<1>5. mem[n][i].v # NULL
  BY <1>2 DEF Took
<1> QED
  BY <1>2, <1>4, <1>5 DEF Contents, UsedSlots

-----------------------------------------------------------------------------

(* While clients only grow the tree, every node is in order between calls: *)
(* used slots on the left, keys that descend strictly.  An insertion that  *)
(* splits half of a path, runs out of memory or dies keeps it so.          *)
THEOREM GrowingKeepsOrder ==
  ASSUME Growing PROVE Spec => []NodesInOrder
<1>1. TypeOK /\ GrowInv => NodesInOrder
  BY GrownInOrder DEF GrowInv
<1> QED
  BY <1>1, GrowthKept, PTL

(* No insertion, however it ends, strands a pair in a leaf that the search *)
(* for its key does not reach.                                             *)
THEOREM GrowingStrandsNoKey ==
  ASSUME Growing PROVE Spec => []KeysFound
<1>1. TypeOK /\ GrowInv => KeysFound
  BY GrownRoutes DEF GrowInv
<1> QED
  BY <1>1, GrowthKept, PTL

(* The nodes are a tree of one height: inner slots lead to nodes in use,   *)
(* leaf slots to values, and every node but the root hangs in one slot.    *)
THEOREM GrowingKeepsTree ==
  ASSUME Growing PROVE Spec => []OneParentEach
<1>1. TypeOK /\ CountInv /\ GrowInv => OneParentEach
  BY GrownParents DEF GrowInv
<1> QED
  BY <1>1, GrowthKept, PTL

(* A node above the leaves is never left empty, nor a tall tree's root     *)
(* with one child: an insertion that has grown a new root above the full   *)
(* one cannot fail before that root has its second child.                  *)
THEOREM GrowingKeepsNodesFilled ==
  ASSUME Growing PROVE Spec => []NoEmptyNodes
<1>1. TypeOK /\ GrowInv => NoEmptyNodes
  BY GrownNotEmpty DEF GrowInv
<1> QED
  BY <1>1, GrowthKept, PTL

(* The BUG_ONs fire for a client's mistake alone: the separator under      *)
(* which a split inserts its node is never one the parent holds already.   *)
THEOREM GrowingBugsOnlyOnMisuse ==
  ASSUME Growing PROVE Spec => []BugOnlyOnMisuse
<1>1. TypeOK /\ GrowInv => BugOnlyOnMisuse
  BY GrownVerdicts DEF GrowInv
<1> QED
  BY <1>1, GrowthKept, PTL

(* A lookup that answers NULL is right, whatever the caches held and after *)
(* whatever splits.                                                        *)
THEOREM GrowingAnswersNullForAbsent ==
  ASSUME Growing PROVE Spec => []NullMeansAbsent
<1>1. TypeOK /\ GrowInv => NullMeansAbsent
  BY GrownVerdicts DEF GrowInv
<1> QED
  BY <1>1, GrowthKept, PTL

(* Without removals no node is freed, and the counts need no premise.      *)
THEOREM GrowingCountsEntries ==
  ASSUME Growing PROVE Spec => []EntriesCounted
<1>1. CountInv => EntriesCounted
  BY DEF CountInv, Counted, EntriesCounted
<1> QED
  BY <1>1, GrowthKept, PTL

(* cbtree_base.h:125 is true of clients that never remove: an update that  *)
(* answers 0 has replaced the value in the tree, also when a cache gave it *)
(* the leaf.                                                               *)
THEOREM GrowingUpdatesTake ==
  ASSUME Growing PROVE Spec => []UpdateTakes
<1>1. Init => GrownAndTook
  BY InitGrows DEF GrowInv, GrownAndTook, Took, Updated, Init, Idle
<1>2. TypeOK /\ CountInv /\ Kinds /\ GrownAndTook /\ [Next]_vars => GrownAndTook'
  BY TookStep
<1>3. TypeOK /\ GrownAndTook => UpdateTakes
  BY GrownTakes DEF GrownAndTook
<1> QED
  BY <1>1, <1>2, <1>3, GrowthKept, PTL DEF Spec

=============================================================================
