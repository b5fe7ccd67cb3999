---------------------------- MODULE CBTreeMapProofs ----------------------------
(***************************************************************************)
(* The tree that clients grow implements the map of CBTreeMap: for every   *)
(* geometry, every pool of nodes, every cache and every set of calls that  *)
(* insert, update, look up and ask for neighbours, each call reads or      *)
(* changes the set of stored pairs at one moment and answers accordingly.  *)
(***************************************************************************)
EXTENDS CBTreeShapeProofs

-----------------------------------------------------------------------------
(* What the tree holds: the pairs of its leaves, at every moment. *)

Holds(at, p) == height > 0 /\ \E n \in at[1], i \in Slot : mem[n][i] = p /\ p.v # NULL

(* A split that has delivered its new node has its pairs twice in mind: in *)
(* the full node, where they are, and in the halves, where they will be.   *)
LEMMA HalvesHold ==
  ASSUME TypeOK, CountInv, NEW at, NEW lo, NEW hi, Grown(at, lo, hi),
         Delivered, call.stack # <<>>
  PROVE  /\ Len(call.stack) \in 1 .. height
         /\ Top.node \in at[Len(call.stack)] /\ Top.new \in at[Len(call.stack)]
         /\ Top.node \in Node /\ Top.new \in Node /\ Top.node # Top.new
         /\ \A s \in Slot : mem[Top.node][s].v # NULL
         /\ mem[Top.new] = EmptyNode
         /\ \A n \in Node : n # Top.node /\ n # Top.new => Tree[n] = mem[n]
         /\ \A i \in Slot : \/ \E j \in Slot : Tree[Top.new][j] = mem[Top.node][i]
                            \/ \E j \in Slot : Tree[Top.node][j] = mem[Top.node][i]
         /\ \A j \in Slot : \/ Tree[Top.new][j].v = NULL
                            \/ \E i \in Slot : Tree[Top.new][j] = mem[Top.node][i]
         /\ \A j \in Slot : \/ Tree[Top.node][j].v = NULL
                            \/ \E i \in Slot : Tree[Top.node][j] = mem[Top.node][i]
<1>1. Inserting /\ 1 \in 1 .. Len(call.stack) /\ Top = call.stack[1] /\ height \in Nat
      /\ Len(call.stack) \in Nat /\ Len(call.stack) \in 0 .. height
  <2>1. Inserting
    BY DEF Delivered, Inserting
  <2> QED
    BY <2>1, StackFacts, FrameFacts
<1>2. /\ Len(call.stack) \in 1 .. height /\ Len(call.stack) + 1 - 1 = Len(call.stack)
  BY <1>1
<1>3. /\ Top.node \in at[Len(call.stack)] /\ Top.node \in Node /\ Top.new \in Node
      /\ \A s \in Slot : mem[Top.node][s].v # NULL
      /\ mem[Top.new] = EmptyNode
  BY <1>1, <1>2, FrameFacts
<1>4. Top.new \in at[Len(call.stack)]
  BY <1>1 DEF Grown, Frames
<1>5. Top.node # Top.new
  BY <1>3, SlotFacts, EmptyOrder
<1>6. PICK c \in Node, a \in Node : c = Top.node /\ a = Top.new
  BY <1>3
<1>7. /\ mem \in [Node -> NodeOver(Ptr)]
      /\ Tree = [mem EXCEPT ![a] = upper_half(mem[c], EmptyNode), ![c] = lower_half(mem[c])]
  BY <1>3, <1>6, MemOverPtr DEF Tree, MemOver
<1>8. /\ Tree[a] = upper_half(mem[c], EmptyNode) /\ Tree[c] = lower_half(mem[c])
      /\ \A n \in Node : n # c /\ n # a => Tree[n] = mem[n]
  BY <1>5, <1>6, <1>7
<1>9. Half \in Nat /\ 2 <= Half /\ Half + Half <= NoPairs /\ NoPairs \in Nat
  BY HalfFacts, SlotFacts
<1>10. ASSUME NEW i \in Slot
       PROVE  \/ \E j \in Slot : Tree[a][j] = mem[c][i]
              \/ \E j \in Slot : Tree[c][j] = mem[c][i]
  <2>1. i \in Nat /\ i < NoPairs
    BY SlotFacts
  <2>2. CASE i < Half
    BY <1>8, <2>2 DEF upper_half
  <2>3. CASE ~ (i < Half)
    <3>1. i - Half \in Slot /\ (i - Half) + Half = i
      BY <1>9, <2>1, <2>3, SlotFacts
    <3>2. Tree[c][i - Half] = mem[c][i]
      BY <1>8, <2>1, <3>1 DEF lower_half
    <3> QED
      BY <3>1, <3>2
  <2> QED
    BY <2>2, <2>3
<1>11. ASSUME NEW j \in Slot
       PROVE  Tree[a][j].v = NULL \/ \E i \in Slot : Tree[a][j] = mem[c][i]
  <2>1. Tree[a][j] = mem[c][j] \/ Tree[a][j] = EmptyNode[j]
    BY <1>8 DEF upper_half
  <2> QED
    BY <2>1, EmptyOrder
<1>12. ASSUME NEW j \in Slot
       PROVE  Tree[c][j].v = NULL \/ \E i \in Slot : Tree[c][j] = mem[c][i]
  <2>1. Tree[c][j] = IF j + Half < NoPairs THEN mem[c][j + Half] ELSE Empty
    BY <1>8 DEF lower_half
  <2>2. j + Half < NoPairs => j + Half \in Slot
    BY <1>9, SlotFacts
  <2> QED
    BY <2>1, <2>2 DEF Empty
<1> QED
  BY <1>2, <1>3, <1>4, <1>5, <1>6, <1>8, <1>10, <1>11, <1>12

LEMMA SamePairs ==
  ASSUME TypeOK, CountInv, NEW at, NEW lo, NEW hi, Grown(at, lo, hi), NEW l \in 1 .. height, NEW p
  PROVE  (\E n \in at[l], i \in Slot : mem[n][i] = p /\ p.v # NULL)
         <=> (\E n \in at[l], i \in Slot : Tree[n][i] = p /\ p.v # NULL)
<1>1. CASE ~ (Delivered /\ call.stack # <<>>)
  BY <1>1 DEF Tree
<1>2. CASE Delivered /\ call.stack # <<>>
  <2>1. /\ Len(call.stack) \in 1 .. height
        /\ Top.node \in at[Len(call.stack)] /\ Top.new \in at[Len(call.stack)]
        /\ Top.node \in Node /\ Top.new \in Node
        /\ mem[Top.new] = EmptyNode
        /\ \A n \in Node : n # Top.node /\ n # Top.new => Tree[n] = mem[n]
        /\ \A i \in Slot : \/ \E j \in Slot : Tree[Top.new][j] = mem[Top.node][i]
                           \/ \E j \in Slot : Tree[Top.node][j] = mem[Top.node][i]
        /\ \A j \in Slot : \/ Tree[Top.new][j].v = NULL
                           \/ \E i \in Slot : Tree[Top.new][j] = mem[Top.node][i]
        /\ \A j \in Slot : \/ Tree[Top.node][j].v = NULL
                           \/ \E i \in Slot : Tree[Top.node][j] = mem[Top.node][i]
    BY <1>2, HalvesHold
  <2>2. /\ \A k \in 1 .. height : at[k] \subseteq Node
        /\ \A k, m \in 1 .. height : k # m => at[k] \cap at[m] = {}
    BY DEF Grown, Shape, Levels
  <2>3. \A n \in at[l] : n \in {Top.node, Top.new} => l = Len(call.stack)
    BY <2>1, <2>2
  <2>4. ASSUME NEW n \in at[l], NEW i \in Slot, mem[n][i] = p, p.v # NULL
        PROVE  \E q \in at[l], j \in Slot : Tree[q][j] = p
    <3>1. n # Top.new
      BY <2>1, <2>4, EmptyOrder
    <3>2. CASE n = Top.node
      BY <2>1, <2>3, <2>4, <3>2
    <3>3. CASE n # Top.node
      BY <2>1, <2>2, <2>4, <3>1, <3>3
    <3> QED
      BY <3>2, <3>3
  <2>5. ASSUME NEW n \in at[l], NEW i \in Slot, Tree[n][i] = p, p.v # NULL
        PROVE  \E q \in at[l], j \in Slot : mem[q][j] = p
    <3>1. CASE n \in {Top.node, Top.new}
      <4>1. \E j \in Slot : mem[Top.node][j] = p
        BY <2>1, <2>5, <3>1
      <4> QED
        BY <2>1, <2>3, <3>1, <4>1
    <3>2. CASE n \notin {Top.node, Top.new}
      BY <2>1, <2>2, <2>5, <3>2
    <3> QED
      BY <3>1, <3>2
  <2> QED
    BY <2>4, <2>5
<1> QED
  BY <1>1, <1>2

(* So the levels of a grown tree are those of CBTreeProps also while a     *)
(* call runs, before the last split has moved its pairs.                   *)
LEMMA GrownLevels ==
  ASSUME TypeOK, CountInv, NEW at, NEW lo, NEW hi, Grown(at, lo, hi)
  PROVE  /\ height \in Nat /\ at \in [1 .. height -> SUBSET Node]
         /\ AtLevel = at /\ Leaves = (IF height = 0 THEN {} ELSE at[1])
<1>1. Shape(Tree, root, height, at, lo, hi) /\ height \in Nat /\ at \in [1 .. height -> SUBSET Node]
  BY DEF Grown, Shape, Levels
<1>2. height > 0 => at[height] = {root}
  BY <1>1 DEF Shape, Levels
<1>3. ASSUME NEW l \in 1 .. (height - 1)
      PROVE  at[l] = Children(at[l + 1])
  <2>1. l + 1 \in 1 .. height /\ l \in 1 .. height
    BY <1>1
  <2>2. at[l] \subseteq Node /\ at[l + 1] \subseteq Node
    BY <1>1, <2>1
  <2>3. ASSUME NEW c \in at[l] PROVE c \in Children(at[l + 1])
    <3>1. c # NULL
      BY <2>2, NodeAssumption
    <3>2. PICK n \in at[l + 1], i \in Slot : Tree[n][i].v = c
      BY <1>1 DEF Shape, Edges
    <3>3. PICK p : p = Tree[n][i]
      OBVIOUS
    <3>4. \E m \in at[l + 1], j \in Slot : Tree[m][j] = p /\ p.v # NULL
      BY <3>1, <3>2, <3>3
    <3>5. PICK m \in at[l + 1], j \in Slot : mem[m][j] = p
      BY <2>1, <3>4, SamePairs
    <3> QED
      BY <2>2, <3>1, <3>2, <3>3, <3>5 DEF Children
  <2>4. ASSUME NEW c \in Children(at[l + 1]) PROVE c \in at[l]
    <3>1. PICK n \in at[l + 1], i \in Slot : mem[n][i].v = c /\ c # NULL
      BY DEF Children
    <3>2. PICK p : p = mem[n][i]
      OBVIOUS
    <3>3. \E m \in at[l + 1], j \in Slot : mem[m][j] = p /\ p.v # NULL
      BY <3>1, <3>2
    <3>4. PICK m \in at[l + 1], j \in Slot : Tree[m][j] = p /\ p.v # NULL
      BY <2>1, <3>3, SamePairs
    <3> QED
      BY <1>1, <3>1, <3>2, <3>4 DEF Shape, Edges, Used
  <2> QED
    BY <2>3, <2>4
<1>4. at = [l \in 1 .. height |-> IF l = height THEN {root} ELSE Children(at[l + 1])]
  <2>1. ASSUME NEW l \in 1 .. height
        PROVE  at[l] = IF l = height THEN {root} ELSE Children(at[l + 1])
    <3>1. l # height => l \in 1 .. (height - 1)
      BY <1>1
    <3> QED
      BY <1>1, <1>2, <1>3, <3>1
  <2> QED
    BY <1>1, <2>1
<1>5. AtLevel = at
  BY <1>1, <1>4, LevelsAre
<1>6. Leaves = (IF height = 0 THEN {} ELSE at[1])
  <2>1. height # 0 => 1 \in 1 .. height /\ at[1] \subseteq Node
    BY <1>1
  <2> QED
    BY <1>5, <2>1 DEF Leaves
<1> QED
  BY <1>1, <1>5, <1>6

(* The pairs of the leaves are what CBTreeProps calls the contents.        *)
LEMMA HeldPairs ==
  ASSUME TypeOK, CountInv, NEW at, NEW lo, NEW hi, Grown(at, lo, hi)
  PROVE  \A p : p \in Contents <=> Holds(at, p)
BY GrownLevels DEF Contents, UsedSlots, Holds

(* A node in use hangs in a level or is the new node of a split that       *)
(* waits.                                                                  *)
LEMMA GrownLosesNothing ==
  ASSUME TypeOK, CountInv, NEW at, NEW lo, NEW hi, Grown(at, lo, hi), ~ KmallocFails
  PROVE  Lost = {}
<1> SUFFICES ASSUME NEW n \in alloc PROVE n \in Reachable \cup Splitting
  BY DEF Lost
<1>1. /\ height \in Nat /\ at \in [1 .. height -> SUBSET Node]
      /\ AtLevel = at /\ Leaves = (IF height = 0 THEN {} ELSE at[1])
  BY GrownLevels
<1>2. ASSUME NEW l \in 1 .. height, n \in at[l]
      PROVE  n \in Reachable
  <2>1. n \in Node /\ (l = 1 \/ l \in 2 .. height) /\ height # 0
    BY <1>1, <1>2
  <2> QED
    BY <1>1, <1>2, <2>1 DEF Reachable, Inner
<1>3. ASSUME Inserting, NEW i \in 1 .. Len(call.stack), call.stack[i].new = n
      PROVE  n \in Splitting
  <2>1. call.stack[i] \in SplitFrame
    BY <1>3, StackFacts
  <2>2. call.stack[i] \in FramesOf({"split"})
    BY <2>1 DEF FramesOf, SplitFrame
  <2> QED
    BY <1>3, <2>2 DEF Splitting
<1> QED
  BY <1>2, <1>3 DEF Grown, Account

LEMMA ContentsHeld ==
  TypeOK /\ CountInv =>
    \A at, lo, hi : Grown(at, lo, hi) => \A p : p \in Contents <=> Holds(at, p)
BY HeldPairs

LEMMA ContentsHeldNext ==
  (TypeOK /\ CountInv =>
     \A at, lo, hi : Grown(at, lo, hi) => \A p : p \in Contents <=> Holds(at, p))'
BY ContentsHeld, PTL

(* The contents stay when the leaves hold the same pairs.                  *)
LEMMA StillHolds ==
  ASSUME TypeOK, CountInv, NEW at, NEW lo, NEW hi, Grown(at, lo, hi),
         TypeOK', CountInv', NEW up, NEW lw, NEW hg, Grown(up, lw, hg)',
         \A p : Holds(up, p)' <=> Holds(at, p)
  PROVE  Contents' = Contents
<1>1. \A p : p \in Contents <=> Holds(at, p)
  BY HeldPairs
<1>2. \A p : p \in Contents' <=> Holds(up, p)'
  BY ContentsHeldNext
<1>3. \A p : p \in Contents' <=> p \in Contents
  BY <1>1, <1>2
<1>4. Contents' \subseteq Contents /\ Contents \subseteq Contents'
  BY <1>3
<1> QED
  BY <1>4

LEMMA QuietContents ==
  ASSUME UNCHANGED <<mem, root, height>>
  PROVE  Contents' = Contents
BY DEF Contents, Leaves, AtLevel, Children, UsedSlots

(* Levels do not meet, and the level of the leaves is the first.           *)
LEMMA LevelFacts ==
  ASSUME NEW at, NEW lo, NEW hi, Grown(at, lo, hi)
  PROVE  /\ height \in Nat /\ at \in [1 .. height -> SUBSET Node]
         /\ height > 0 => 1 \in 1 .. height /\ height \in 1 .. height /\ at[height] = {root}
         /\ height = 0 => root = NULL
         /\ \A k, l \in 1 .. height : k # l => at[k] \cap at[l] = {}
BY DEF Grown, Shape, Levels

LEMMA find_levelKeepsContents ==
  ASSUME TypeOK, CountInv, Kinds, NEW at, NEW lo, NEW hi, Grown(at, lo, hi), find_level,
         TypeOK', CountInv'
  PROVE  Contents' = Contents
<1>1. PICK lw : Grown(at, lw, hi)'
  BY find_levelGrows
<1>2. /\ call.pc = "place" /\ call.h > Level /\ Inserting /\ UNCHANGED <<height, root>>
  BY DEF find_level, Kinds, Goal, Inserting
<1>3. Level \in Nat /\ Level >= 1 /\ call.h \in Level .. height /\ call.cur \in at[call.h]
  BY <1>2, StackFacts DEF Grown, Walk
<1>4. /\ height \in Nat /\ at \in [1 .. height -> SUBSET Node]
      /\ \A k, l \in 1 .. height : k # l => at[k] \cap at[l] = {}
  BY LevelFacts
<1>5. height > 0 /\ 1 \in 1 .. height /\ call.h \in 1 .. height /\ call.h # 1
  BY <1>2, <1>3, <1>4
<1>6. call.cur \notin at[1] /\ at[1] \subseteq Node /\ call.cur \in Node
  BY <1>3, <1>4, <1>5
<1>7. mem \in [Node -> NodeOver(Ptr)]
  BY MemOverPtr DEF MemOver
<1>8. \A n \in Node : n # call.cur => mem'[n] = mem[n]
  BY <1>6, <1>7 DEF find_level
<1>9. \A p : Holds(at, p)' <=> Holds(at, p)
  BY <1>2, <1>6, <1>8 DEF Holds
<1> QED
  BY <1>1, <1>9, StillHolds

LEMMA cbtree_growKeepsContents ==
  ASSUME TypeOK, CountInv, Kinds, NEW at, NEW lo, NEW hi, Grown(at, lo, hi), cbtree_grow,
         TypeOK', CountInv'
  PROVE  Contents' = Contents
<1>1. PICK up, lw, hg :
        /\ up = [l \in 1 .. (height + 1) |-> IF l = height + 1 THEN {Fresh} ELSE at[l]]
        /\ Grown(up, lw, hg)'
  BY cbtree_growGrows
<1>2. /\ height' = height + 1 /\ alloc # Node
      /\ mem' = [mem EXCEPT ![Fresh] =
                   IF root \in Node
                   THEN [EmptyNode EXCEPT ![0] = [k |-> LastKey(mem[root]), v |-> root]]
                   ELSE EmptyNode]
  BY DEF cbtree_grow, cbtree_node_alloc
<1>3. Fresh \in Node /\ \A l \in 1 .. height : Fresh \notin at[l]
  BY <1>2, FreshOutside DEF Grown
<1>4. height \in Nat /\ at \in [1 .. height -> SUBSET Node] /\ (height = 0 => root = NULL)
  BY LevelFacts
<1>5. mem \in [Node -> NodeOver(Ptr)]
  BY MemOverPtr DEF MemOver
<1>6. CASE height = 0
  <2>1. mem'[Fresh] = EmptyNode
    BY <1>2, <1>3, <1>4, <1>5, <1>6, NodeAssumption
  <2>2. up[1] = {Fresh}
    BY <1>1, <1>6
  <2>3. \A p : ~ Holds(up, p)' /\ ~ Holds(at, p)
    BY <1>6, <2>1, <2>2, EmptyOrder DEF Holds
  <2> QED
    BY <1>1, <2>3, StillHolds
<1>7. CASE height # 0
  <2>1. 1 \in 1 .. height /\ 1 \in 1 .. (height + 1) /\ 1 # height + 1 /\ height > 0
    BY <1>4, <1>7
  <2>2. up[1] = at[1]
    BY <1>1, <2>1
  <2>3. \A n \in at[1] : mem'[n] = mem[n]
    BY <1>2, <1>3, <1>4, <1>5, <2>1
  <2>4. height' > 0
    BY <1>2, <1>4
  <2>5. \A p : Holds(up, p)' <=> Holds(at, p)
    BY <2>1, <2>2, <2>3, <2>4 DEF Holds
  <2> QED
    BY <1>1, <2>5, StillHolds
<1> QED
  BY <1>6, <1>7

LEMMA insert_splitKeepsContents ==
  ASSUME TypeOK, CountInv, Kinds, NEW at, NEW lo, NEW hi, Grown(at, lo, hi), insert_split,
         TypeOK', CountInv'
  PROVE  Contents' = Contents
<1>1. Grown(at, lo, hi)'
  BY insert_splitGrows
<1>2. height' = height /\ alloc # Node /\ mem' = [mem EXCEPT ![Fresh] = EmptyNode]
  BY DEF insert_split, cbtree_node_alloc
<1>3. Fresh \in Node /\ \A l \in 1 .. height : Fresh \notin at[l]
  BY <1>2, FreshOutside DEF Grown
<1>4. /\ height \in Nat /\ at \in [1 .. height -> SUBSET Node]
      /\ height > 0 => 1 \in 1 .. height
  BY LevelFacts
<1>5. mem \in [Node -> NodeOver(Ptr)]
  BY MemOverPtr DEF MemOver
<1>6. height > 0 => \A n \in at[1] : mem'[n] = mem[n]
  BY <1>2, <1>3, <1>4, <1>5
<1>7. \A p : Holds(at, p)' <=> Holds(at, p)
  BY <1>2, <1>6 DEF Holds
<1> QED
  BY <1>1, <1>7, StillHolds

LEMMA split_movesKeepsContents ==
  ASSUME TypeOK, CountInv, Kinds, NEW at, NEW lo, NEW hi, Grown(at, lo, hi), split_moves,
         TypeOK', CountInv'
  PROVE  Contents' = Contents
<1>1. Grown(at, lo, hi)'
  BY split_movesGrows
<1>2. height' = height /\ mem' = Tree
  BY DEF split_moves, Tree, Delivered
<1>3. height > 0 => 1 \in 1 .. height
  BY LevelFacts
<1>4. ASSUME NEW p
      PROVE  Holds(at, p)' <=> Holds(at, p)
  <2>1. height > 0 =>
          ((\E n \in at[1], i \in Slot : mem[n][i] = p /\ p.v # NULL)
           <=> (\E n \in at[1], i \in Slot : Tree[n][i] = p /\ p.v # NULL))
    BY <1>3, SamePairs
  <2> QED
    BY <1>2, <2>1 DEF Holds
<1> QED
  BY <1>1, <1>4, StillHolds

(* A pair that goes to an inner level, for the new node of a split.        *)
LEMMA DeliveryKeepsContents ==
  ASSUME TypeOK, CountInv, Kinds, NEW at, NEW lo, NEW hi, Grown(at, lo, hi), insert_shift,
         call.stack # <<>>, TypeOK', CountInv'
  PROVE  Contents' = Contents
<1>1. PICK up, lw, hg : /\ up[Len(call.stack)] = at[Len(call.stack)] \cup {call.stack[1].new}
                        /\ \A k \in 1 .. height : k # Len(call.stack) => up[k] = at[k]
                        /\ Grown(up, lw, hg)'
  BY DeliverGrows
<1>2. /\ AtGoal("place") /\ UNCHANGED <<height, root>>
      /\ mem' = [mem EXCEPT ![call.cur] = insert_pair(@, Position, FillFrom, Key, call.val)]
  BY DEF insert_shift
<1>3. /\ Inserting /\ Level \in 1 .. height /\ call.cur \in at[Level] /\ call.cur \in Node
      /\ Len(call.stack) \in 1 .. (height - 1) /\ Level = Len(call.stack) + 1
      /\ mem[call.stack[1].new] = EmptyNode /\ ~ Delivered
  BY <1>2, GoalFacts
<1>4. /\ height \in Nat /\ at \in [1 .. height -> SUBSET Node]
      /\ \A k, l \in 1 .. height : k # l => at[k] \cap at[l] = {}
  BY LevelFacts
<1>5. height > 0 /\ 1 \in 1 .. height /\ Level # 1 /\ Len(call.stack) \in 1 .. height
  BY <1>3, <1>4
<1>6. /\ call.stack[1].new \in Node
      /\ \A l \in 1 .. height : call.stack[1].new \notin at[l]
  <2>1. 1 \in 1 .. Len(call.stack)
    BY <1>3
  <2> QED
    BY <1>3, <2>1, FrameFacts
<1>7. call.cur \notin at[1] /\ call.cur # call.stack[1].new /\ at[1] \subseteq Node
  BY <1>3, <1>4, <1>5, <1>6
<1>8. mem \in [Node -> NodeOver(Ptr)]
  BY MemOverPtr DEF MemOver
<1>9. \A n \in Node : n # call.cur => mem'[n] = mem[n]
  BY <1>2, <1>3, <1>8
<1>10. up[1] = at[1] \/ up[1] = at[1] \cup {call.stack[1].new}
  BY <1>1, <1>4, <1>5
<1>11. ASSUME NEW p
       PROVE  Holds(up, p)' <=> Holds(at, p)
  <2>1. Holds(at, p) => Holds(up, p)'
    BY <1>2, <1>7, <1>9, <1>10 DEF Holds
  <2>2. ASSUME Holds(up, p)'
        PROVE  Holds(at, p)
    <3>1. PICK n \in up[1], i \in Slot : mem'[n][i] = p /\ p.v # NULL
      BY <2>2 DEF Holds
    <3>2. n # call.stack[1].new
      BY <1>3, <1>6, <1>7, <1>9, <3>1, EmptyOrder
    <3> QED
      BY <1>5, <1>7, <1>9, <1>10, <3>1, <3>2 DEF Holds
  <2> QED
    BY <2>1, <2>2
<1> QED
  BY <1>1, <1>11, StillHolds

-----------------------------------------------------------------------------
(* One pair per key, in the place where it is looked for. *)

LEMMA HeldFacts ==
  ASSUME TypeOK, NEW at, NEW lo, NEW hi, Shape(mem, root, height, at, lo, hi), height > 0,
         NEW n \in at[1]
  PROVE  /\ height \in Nat /\ 1 \in 1 .. height /\ n \in Node /\ mem[n] \in NodeOver(Ptr)
         /\ Ordered(mem[n]) /\ lo[n] \in Int /\ hi[n] \in Int
         /\ \A i \in Slot : /\ mem[n][i].k \in Long /\ mem[n][i].k \in Int
                            /\ mem[n][i].v \in Val \cup {NULL}
                            /\ mem[n][i] = [k |-> mem[n][i].k, v |-> mem[n][i].v]
                            /\ mem[n][i].v # NULL => InSpan(mem[n][i].k, n, lo, hi)
<1>1. height \in Nat /\ 1 \in 1 .. height /\ n \in Node
  BY DEF Shape, Levels
<1>2. mem[n] \in NodeOver(Ptr)
  BY <1>1, MemType
<1>3. Ordered(mem[n]) /\ lo[n] \in Int /\ hi[n] \in Int
  BY <1>1 DEF Shape, Spans
<1> SUFFICES ASSUME NEW i \in Slot
             PROVE  /\ mem[n][i].k \in Long /\ mem[n][i].k \in Int
                    /\ mem[n][i].v \in Val \cup {NULL}
                    /\ mem[n][i] = [k |-> mem[n][i].k, v |-> mem[n][i].v]
                    /\ mem[n][i].v # NULL => InSpan(mem[n][i].k, n, lo, hi)
  BY <1>1, <1>2, <1>3
<1>4. mem[n][i] \in [k : Long, v : Ptr]
  BY <1>2 DEF NodeOver
<1>5. mem[n][i].v \in Val \cup {NULL}
  BY <1>1 DEF Shape, Levels
<1>6. mem[n][i].v # NULL => InSpan(mem[n][i].k, n, lo, hi)
  BY <1>1 DEF Shape, Spans, Used, InSpan
<1> QED
  BY <1>4, <1>5, <1>6 DEF Long

LEMMA HeldOnce ==
  ASSUME TypeOK, NEW at, NEW lo, NEW hi, Shape(mem, root, height, at, lo, hi), height > 0,
         NEW n \in at[1], NEW i \in Slot, mem[n][i].v # NULL,
         NEW c \in at[1], NEW j \in Slot, mem[c][j].v # NULL,
         mem[n][i].k = mem[c][j].k
  PROVE  n = c /\ i = j
<1>1. PICK key \in Int : key = mem[n][i].k /\ key = mem[c][j].k
  BY HeldFacts
<1>2. InSpan(key, n, lo, hi) /\ InSpan(key, c, lo, hi) /\ 1 \in 1 .. height /\ Ordered(mem[n])
  <2>1. InSpan(mem[n][i].k, n, lo, hi) /\ 1 \in 1 .. height /\ Ordered(mem[n])
    BY HeldFacts
  <2>2. InSpan(mem[c][j].k, c, lo, hi)
    BY HeldFacts
  <2> QED
    BY <1>1, <2>1, <2>2
<1>3. n = c
  BY <1>2, SpansApart
<1>4. i \in Int /\ j \in Int
  BY SlotFacts
<1>5. ~ (i < j) /\ ~ (j < i)
  BY <1>1, <1>2, <1>3, <1>4 DEF Ordered
<1> QED
  BY <1>3, <1>4, <1>5

(* A key with a stored pair in a leaf is found there by getpos.            *)
LEMMA FoundAt ==
  ASSUME NEW n \in NodeOver(Ptr), Ordered(n), NEW j \in Slot, n[j].v # NULL
  PROVE  getpos(n, n[j].k) = j
<1>1. n[j].k \in Long /\ j \in Int /\ \A i \in Slot : n[i].k \in Int /\ i \in Int
  BY SlotFacts DEF NodeOver, Long
<1>2. PICK key \in Long : key = n[j].k
  BY <1>1
<1>3. PICK g : g = getpos(n, key)
  OBVIOUS
<1>4. /\ g \in 0 .. NoPairs
      /\ g # NoPairs => g \in Slot /\ n[g].k <= key
      /\ \A i \in Slot : i < g => n[i].k > key
  BY <1>3, getposFinds
<1>5. ~ (j < g)
  BY <1>1, <1>2, <1>4
<1>6. g # NoPairs /\ g \in Slot /\ g \in Int
  <2>1. j < NoPairs /\ g \in Int
    BY <1>1, <1>4, SlotFacts
  <2>2. g # NoPairs
    BY <1>5, <2>1
  <2> QED
    BY <1>4, <2>1, <2>2
<1>7. ~ (g < j)
  BY <1>1, <1>2, <1>4, <1>6 DEF Ordered
<1> QED
  BY <1>1, <1>2, <1>3, <1>5, <1>6, <1>7

(* What an insertion has found when it stands at a leaf without a          *)
(* duplicate: its key is stored nowhere.                                   *)
LEMMA KeyAbsent ==
  ASSUME TypeOK, CountInv, NEW at, NEW lo, NEW hi, Grown(at, lo, hi),
         AtGoal("place"), call.stack = <<>>, ~ Duplicate, NEW p \in Contents
  PROVE  p.k # call.ukey
<1>1. /\ Tree = mem /\ Level = 1 /\ 1 \in 1 .. height /\ call.cur \in at[1] /\ Key = call.ukey
      /\ Key \in Long /\ InSpan(Key, call.cur, lo, hi)
      /\ Position \in 0 .. NoPairs /\ FillFrom \in Position .. NoPairs
  BY GoalFacts
<1>2. Shape(mem, root, height, at, lo, hi) /\ height > 0
  BY <1>1 DEF Grown, Shape, Levels
<1>3. PICK c \in at[1], j \in Slot : mem[c][j] = p /\ p.v # NULL
  BY HeldPairs DEF Holds
<1> SUFFICES ASSUME p.k = call.ukey PROVE FALSE
  OBVIOUS
<1>4. InSpan(Key, c, lo, hi) /\ Key \in Int
  <2>1. mem[c][j].k = Key /\ mem[c][j].v # NULL
    BY <1>1, <1>3
  <2>2. InSpan(mem[c][j].k, c, lo, hi) /\ mem[c][j].k \in Int
    BY <1>2, <2>1, HeldFacts
  <2> QED
    BY <2>1, <2>2
<1>5. c = call.cur
  BY <1>1, <1>2, <1>4, SpansApart
<1>6. PICK n \in NodeOver(Ptr) : n = mem[c] /\ Ordered(n)
  BY <1>2, HeldFacts
<1>7. Position = j
  BY <1>1, <1>3, <1>5, <1>6, FoundAt DEF Position
<1>8. FillFrom # j
  BY <1>1, <1>3, <1>5, <1>6, <1>7, SlotFacts, getfillFinds DEF FillFrom
<1>9. Position < FillFrom /\ Position \in matches(mem[call.cur], Key)
  BY <1>1, <1>3, <1>5, <1>7, <1>8 DEF matches
<1> QED
  BY <1>9 DEF Duplicate

LEMMA PutPairs ==
  ASSUME NEW n \in NodeOver(Ptr), Ordered(n), NEW key \in Long, NEW val \in Ptr, val # NULL,
         NEW pos, pos = getpos(n, key), NEW fill, fill = getfill(n, pos), fill # NoPairs,
         NEW o, o = insert_pair(n, pos, fill, key, val)
  PROVE  PairsOf(o) = PairsOf(n) \cup {[k |-> key, v |-> val]} /\ o[0].v # NULL
<1>1. /\ pos \in Slot /\ fill \in Slot /\ pos <= fill
      /\ o[pos] = [k |-> key, v |-> val]
      /\ \A i \in Slot : i < pos => o[i] = n[i] /\ n[i].v # NULL
      /\ \A i \in Slot : pos < i /\ i <= fill => o[i] = n[i - 1] /\ n[i - 1].v # NULL
      /\ \A i \in Slot : fill < i => o[i] = n[i] /\ n[i].v = NULL
      /\ o \in NodeOver(Ptr)
  BY InsertSlots
<1>2. PairsOf(insert_pair(n, pos, fill, key, val)) = PairsOf(n) \cup {[k |-> key, v |-> val]}
  BY <1>1, InsertAddsPair
<1>3. o[0].v # NULL
  <2>1. 0 \in Slot /\ (pos = 0 \/ 0 < pos)
    BY <1>1, SlotFacts
  <2>2. CASE pos = 0
    BY <1>1, <2>2
  <2>3. CASE 0 < pos
    BY <1>1, <2>1, <2>3
  <2> QED
    BY <2>1, <2>2, <2>3
<1> QED
  BY <1>2, <1>3

(* An insertion into a leaf adds its pair to the contents.                 *)
LEMMA PutContents ==
  ASSUME TypeOK, CountInv, Kinds, NEW at, NEW lo, NEW hi, Grown(at, lo, hi),
         insert_shift, call.stack = <<>>, TypeOK', CountInv'
  PROVE  /\ \A p \in Contents : p.k # call.ukey
         /\ Contents' = Contents \cup {[k |-> call.ukey, v |-> call.val]}
         /\ call.val # NULL /\ Finish("ok", 0, NULL)
<1>1. /\ AtGoal("place") /\ ~ Duplicate /\ FillFrom < NoPairs /\ UNCHANGED <<root, height>>
      /\ mem' = [mem EXCEPT ![call.cur] = insert_pair(@, Position, FillFrom, Key, call.val)]
      /\ Finish("ok", 0, NULL)
  BY DEF insert_shift
<1>2. Grown(at, lo, hi)'
  BY PutGrows
<1>3. /\ Level = 1 /\ 1 \in 1 .. height /\ call.cur \in at[1] /\ Key = call.ukey
      /\ Key \in Long /\ call.cur \in Node /\ mem[call.cur] \in NodeOver(Ptr)
      /\ Ordered(mem[call.cur]) /\ call.val \in Ptr /\ call.val # NULL
  BY <1>1, GoalFacts
<1>4. \A p \in Contents : p.k # call.ukey
  BY <1>1, KeyAbsent
<1>5. PICK n \in NodeOver(Ptr) : n = mem[call.cur] /\ Ordered(n)
  BY <1>3
<1>6. PICK key \in Long : key = Key /\ key = call.ukey
  BY <1>3
<1>7. PICK val \in Ptr : val = call.val /\ val # NULL
  BY <1>3
<1>8. Position = getpos(n, key) /\ FillFrom = getfill(n, Position) /\ FillFrom # NoPairs
  BY <1>1, <1>5, <1>6, SlotFacts DEF Position, FillFrom
<1>9. PICK o : o = insert_pair(n, Position, FillFrom, key, val)
  OBVIOUS
<1>12. PairsOf(o) = PairsOf(n) \cup {[k |-> key, v |-> val]}
  BY <1>5, <1>7, <1>8, <1>9, PutPairs
<1>13. /\ mem'[call.cur] = o
       /\ \A c \in Node : c # call.cur => mem'[c] = mem[c]
  BY <1>1, <1>3, <1>5, <1>6, <1>7, <1>8, <1>9, MemOverPtr DEF MemOver
<1>14. height > 0 /\ at[1] \subseteq Node
  BY <1>3, LevelFacts
<1>15. \A p : Holds(at, p) <=> p \in Contents
  BY HeldPairs
<1>16. \A p : Holds(at, p)' <=> p \in Contents'
  BY <1>2, ContentsHeldNext
<1>17. ASSUME NEW p
       PROVE  Holds(at, p)' <=> Holds(at, p) \/ p = [k |-> key, v |-> val]
  <2>1. p \in PairsOf(o) <=> p \in PairsOf(n) \/ p = [k |-> key, v |-> val]
    BY <1>12
  <2>2. /\ p \in PairsOf(o) <=> \E i \in Slot : mem'[call.cur][i] = p /\ p.v # NULL
        /\ p \in PairsOf(n) <=> \E i \in Slot : mem[call.cur][i] = p /\ p.v # NULL
    BY <1>5, <1>13 DEF PairsOf
  <2>3. ASSUME NEW c \in at[1], c # call.cur
        PROVE  mem'[c] = mem[c]
    BY <1>13, <1>14, <2>3
  <2>4. /\ Holds(at, p) <=> \/ \E i \in Slot : mem[call.cur][i] = p /\ p.v # NULL
                            \/ \E c \in at[1], i \in Slot :
                                 c # call.cur /\ mem[c][i] = p /\ p.v # NULL
        /\ Holds(at, p)' <=> \/ \E i \in Slot : mem'[call.cur][i] = p /\ p.v # NULL
                             \/ \E c \in at[1], i \in Slot :
                                  c # call.cur /\ mem'[c][i] = p /\ p.v # NULL
    BY <1>1, <1>3, <1>14 DEF Holds
  <2> QED
    BY <2>1, <2>2, <2>3, <2>4
<1>18. \A p : p \in Contents' <=> p \in Contents \/ p = [k |-> key, v |-> val]
  BY <1>15, <1>16, <1>17
<1> QED
  BY <1>1, <1>4, <1>6, <1>7, <1>18

(* An update that says ok has changed the value of the one pair of its     *)
(* key.                                                                    *)
LEMMA UpdateContents ==
  ASSUME TypeOK, CountInv, Kinds, NEW at, NEW lo, NEW hi, Grown(at, lo, hi), cbtree_update,
         TypeOK', CountInv'
  PROVE  \/ Contents' = Contents /\ Finish("enoent", 0, NULL)
         \/ /\ \E p \in Contents : p.k = call.ukey
            /\ Contents' = (Contents \ {p \in Contents : p.k = call.ukey})
                           \cup {[k |-> call.ukey, v |-> call.val]}
            /\ Finish("ok", 0, NULL)
<1>1. /\ call.pc = "answer" /\ call.op = "update" /\ LookingUp /\ UNCHANGED <<root, height>>
  BY DEF cbtree_update, LookingUp
<1>2. Tree = mem
  BY <1>1, StillTree DEF Inserting
<1>3. call.ukey # 0 /\ call.val # NULL
  BY <1>1 DEF Kinds
<1> DEFINE slots == IF call.cur \in Node THEN matches(mem[call.cur], call.ukey) ELSE {}
<1>4. CASE slots = {}
  <2>1. Finish("enoent", 0, NULL) /\ UNCHANGED mem
    BY <1>4 DEF cbtree_update
  <2> QED
    BY <1>1, <2>1, QuietContents
<1>5. CASE slots # {}
  <2>1. PICK c \in Node : c = call.cur
    BY <1>5
  <2>2. slots = matches(mem[c], call.ukey)
    BY <2>1
  <2>3. /\ mem' = [mem EXCEPT ![c][First(slots)].v = call.val]
        /\ Finish("ok", 0, NULL)
    BY <1>5, <2>1 DEF cbtree_update
  <2> HIDE DEF slots
  <2>4. First(slots) \in slots /\ slots \subseteq Slot
    <3>1. slots \subseteq Slot
      BY <2>2, matchesAreSlots
    <3>2. First(slots) \in slots \cup {NoPairs} /\ \A j \in slots : First(slots) <= j
      BY <3>1, FirstIsLeast
    <3>3. First(slots) # NoPairs
      BY <1>5, <3>1, <3>2, SlotFacts
    <3> QED
      BY <3>1, <3>2, <3>3
  <2>5. PICK j \in Slot : j = First(slots)
    BY <2>4
  <2>6. mem[c][j].k = call.ukey
    BY <2>2, <2>4, <2>5 DEF matches
  <2>7. height > 0 /\ c \in at[1]
    BY <1>1, <2>1, NodeAssumption DEF Grown, Look
  <2>8. Shape(mem, root, height, at, lo, hi) /\ at[1] \subseteq Node
    BY <1>2, <2>7, LevelFacts DEF Grown
  <2>9. Ordered(mem[c]) /\ mem[c][j] = [k |-> call.ukey, v |-> mem[c][j].v]
    BY <2>6, <2>7, <2>8, HeldFacts
  <2>10. mem[c][j].v # NULL
    BY <1>3, <2>6, <2>9 DEF Ordered
  <2>11. /\ mem'[c][j] = [k |-> call.ukey, v |-> call.val]
         /\ \A i \in Slot : i # j => mem'[c][i] = mem[c][i]
         /\ \A n \in Node : n # c => mem'[n] = mem[n]
    <3>1. mem \in [Node -> [Slot -> [k : Long, v : Ptr]]]
      BY DEF TypeOK
    <3>2. mem' = [mem EXCEPT ![c] = [mem[c] EXCEPT ![j] = [mem[c][j] EXCEPT !.v = call.val]]]
      BY <2>3, <2>5
    <3>3. [mem[c][j] EXCEPT !.v = call.val] = [k |-> call.ukey, v |-> call.val]
      BY <2>6, <3>1
    <3> QED
      BY <3>1, <3>2, <3>3
  <2>12. \A p : Holds(at, p) <=> p \in Contents
    BY HeldPairs
  <2>13. \A p : Holds(at, p)' <=> p \in Contents'
    <3>1. Grown(at, lo, hi)'
      BY cbtree_updateGrows
    <3> QED
      BY <3>1, ContentsHeldNext
  <2>14. mem[c][j] \in Contents /\ mem[c][j].k = call.ukey
    BY <2>6, <2>7, <2>10, <2>12 DEF Holds
  <2>15. ASSUME NEW p, Holds(at, p), p.k # call.ukey
         PROVE  Holds(at, p)'
    <3>1. PICK n \in at[1], i \in Slot : mem[n][i] = p /\ p.v # NULL
      BY <2>15 DEF Holds
    <3>2. n = c => i # j
      BY <2>6, <2>15, <3>1
    <3>3. mem'[n][i] = p
      BY <2>8, <2>11, <3>1, <3>2
    <3> QED
      BY <1>1, <2>7, <3>1, <3>3 DEF Holds
  <2>16. ASSUME NEW p, p = [k |-> call.ukey, v |-> call.val]
         PROVE  Holds(at, p)'
    <3>1. mem'[c][j] = p /\ p.v # NULL
      BY <1>3, <2>11, <2>16
    <3> QED
      BY <1>1, <2>7, <3>1 DEF Holds
  <2>17. ASSUME NEW p, Holds(at, p)', p # [k |-> call.ukey, v |-> call.val]
         PROVE  Holds(at, p) /\ p.k # call.ukey
    <3>1. PICK n \in at[1], i \in Slot : mem'[n][i] = p /\ p.v # NULL
      BY <2>17 DEF Holds
    <3>2. ~ (n = c /\ i = j)
      BY <2>11, <2>17, <3>1
    <3>3. mem[n][i] = p
      BY <2>8, <2>11, <3>1, <3>2
    <3>4. mem[n][i].k # mem[c][j].k
      BY <2>7, <2>8, <2>10, <3>1, <3>2, <3>3, HeldOnce
    <3> QED
      BY <2>6, <2>7, <3>1, <3>3, <3>4 DEF Holds
  <2>18. \A p : p \in Contents' <=> \/ p \in Contents /\ p.k # call.ukey
                                    \/ p = [k |-> call.ukey, v |-> call.val]
    BY <2>12, <2>13, <2>15, <2>16, <2>17
  <2>19. Contents' = (Contents \ {p \in Contents : p.k = call.ukey})
                     \cup {[k |-> call.ukey, v |-> call.val]}
    BY <2>18
  <2> QED
    BY <2>3, <2>14, <2>19
<1> QED
  BY <1>4, <1>5

-----------------------------------------------------------------------------
(* The clients, and what their calls keep in mind.                         *)

Requests == Calls \cup {Fill[i] : i \in 1 .. Len(Fill)}
Asks(op) == \E c \in Requests : c.op = op

(* Where the map is kept: kmalloc gives memory (or else initQueue faults,  *)
(* or leaves a node without its queue), the long past the end of a node is *)
(* not taken for the mark of a deleted one (or else the cache frees what   *)
(* is no queue), and who asks for neighbours stores nothing under key 0    *)
(* (or else a separator 0 sends get_prev round to the largest keys).       *)
Served ==
  /\ ~ KmallocFails /\ TRUE \notin PastEnd
  /\ Asks("get_prev") => \A c \in Requests : c.op = "insert" => c.key # 0

(* Every node of the tree has a queue.                                     *)
Queued == \A n \in alloc : queue[n] # NULL

(* The client's value is in the outermost frame while a split goes on.     *)
ClientVal == IF Inserting /\ call.stack # <<>> THEN call.stack[Len(call.stack)].val ELSE call.val
Asking ==
  call.pc # "idle" =>
    \E c \in Requests : c.op = call.op /\ c.key = call.ukey /\ c.val = ClientVal

Nonzero ==
  Asks("get_prev") => \A n \in Node, i \in Slot : mem[n][i].v # NULL => mem[n][i].k # 0

(* A tree of one node is empty only while its first pair is on the way.    *)
Seeded ==
  height = 1 => mem[root][0].v # NULL \/ (call.pc = "place" /\ call.stack = <<>>)

(* An insertion that has met a full leaf, or no memory, has a new key.     *)
Refused ==
  /\ Inserting /\ (call.pc = "up" \/ call.stack # <<>>) =>
       \A p \in Contents : p.k # call.ukey
  /\ call.pc = "up" /\ call.stack = <<>> => call.res.status = "enomem" /\ call.val # NULL

(* get_prev has passed no key between the one it looks for and the one it  *)
(* was asked for; last stays at the right end of its level.                *)
PrevWalk(at, lo, hi) ==
  call.pc = "prev" =>
    /\ call.op = "get_prev" /\ height > 0
    /\ call.h \in 1 .. height /\ call.cur \in at[call.h] /\ InSpan(call.key, call.cur, lo, hi)
    /\ call.key < call.ukey
    /\ \A p : Holds(at, p) /\ p.k < call.ukey => p.k <= call.key
    /\ IF call.h = height THEN call.retry = NULL
       ELSE call.retry = lo[call.cur] /\ call.retry \in Long \ {0}
LastWalk(at, hi) ==
  call.pc = "last" =>
    /\ call.op = "last" /\ height > 0
    /\ call.h \in 1 .. height /\ call.cur \in at[call.h] /\ hi[call.cur] = MaxLong + 1
NothingThere ==
  call.pc = "unwind" =>
    /\ call.op \in {"get_prev", "last"} /\ call.res.val = NULL
    /\ height = 0 \/ (call.op = "get_prev" /\ call.ukey = 0)

Standing == Queued /\ Asking /\ Nonzero /\ Seeded /\ Refused /\ NothingThere
Walking(at, lo, hi) == Grown(at, lo, hi) /\ PrevWalk(at, lo, hi) /\ LastWalk(at, hi)
WalkInv == \E at, lo, hi : Walking(at, lo, hi)
MapInv == Standing /\ WalkInv

LEMMA ClientsRequest ==
  ASSUME TypeOK
  PROVE  \A c \in Client : c \in Requests /\ c \in CallType
<1>1. \A c \in Client : c \in Requests
  <2>1. CASE filled < Len(Fill)
    <3>1. filled + 1 \in 1 .. Len(Fill)
      BY <2>1, CallsAssumption, LenProperties DEF TypeOK
    <3> QED
      BY <2>1, <3>1 DEF Client, Requests
  <2>2. CASE ~ (filled < Len(Fill))
    BY <2>2 DEF Client, Requests
  <2> QED
    BY <2>1, <2>2
<1>2. \A c \in Requests : c \in CallType
  BY CallsAssumption, ElementOfSeq DEF Requests
<1> QED
  BY <1>1, <1>2

(* find_level always finds its way: the tree has the node, and a slot.     *)
LEMMA FindsWay ==
  ASSUME TypeOK, Kinds, NEW at, NEW lo, NEW hi, Grown(at, lo, hi), find_level
  PROVE  /\ \E d : call' = [call EXCEPT !.cur = d, !.h = @ - 1]
         /\ call.pc = "place" /\ call.h > Level /\ call.h \in 2 .. height
         /\ UNCHANGED <<root, height, alloc, queue>>
         /\ \A m \in Node, s \in Slot :
              /\ mem'[m][s].v = mem[m][s].v
              /\ mem'[m][s].k = mem[m][s].k \/ mem'[m][s].k = Key
<1> DEFINE n == mem[call.cur]
           i == getpos(n, Key)
           low == i = NoPairs \/ n[i].v = NULL
           j == IF low THEN i - 1 ELSE i
<1>1. /\ call.pc = "place" /\ call.h > Level /\ UNCHANGED <<root, height, alloc, queue>>
  BY DEF find_level, Kinds, Goal
<1>2. Inserting /\ ~ Delivered /\ Tree = mem /\ call \in CallRecord
  BY <1>1 DEF Inserting, Delivered, Tree, TypeOK
<1>3. Shape(mem, root, height, at, lo, hi) /\ height \in Nat
  BY <1>2 DEF Grown, Shape, Levels
<1>4. /\ call.h \in Int /\ call.h \in 2 .. height
      /\ call.cur \in at[call.h] /\ Key \in Long
  <2>1. Level = Len(call.stack) + 1 /\ Len(call.stack) \in Nat
    BY <1>2, StackFacts
  <2>2. /\ call.h \in Level .. height /\ call.cur \in at[call.h] /\ call.h \in Int
    BY <1>1, <1>2 DEF Grown, Walk, CallRecord
  <2> QED
    BY <1>1, <1>3, <2>1, <2>2, KeyType
<1>5. height > 1 /\ call.h \in 1 .. height
  BY <1>3, <1>4
<1>6. call.cur \in Node /\ n[0].v # NULL /\ Ordered(n)
  BY <1>3, <1>4, <1>5 DEF Shape, Levels, Spans
<1>7. n \in NodeOver(Ptr)
  BY <1>6, MemType
<1>8. PICK k \in Slot : k = j
  <2>1. CASE low
    <3>1. i - 1 \in Slot
      BY <1>4, <1>6, <1>7, <2>1, LowSlot
    <3> QED
      BY <2>1, <3>1
  <2>2. CASE ~ low
    <3>1. i \in Slot
      BY <1>4, <1>7, <2>2, getposFinds
    <3> QED
      BY <2>2, <3>1
  <2> QED
    BY <2>1, <2>2
<1>9. /\ mem' = IF low THEN [mem EXCEPT ![call.cur][k].k = Key] ELSE mem
      /\ call' = [call EXCEPT !.cur = n[k].v, !.h = @ - 1]
  <2>1. ~ (j < 0) /\ j = k
    BY <1>8, SlotFacts
  <2> QED
    BY <1>6, <2>1 DEF find_level
<1> HIDE DEF low, n, i, j
<1>10. mem \in [Node -> [Slot -> [k : Long, v : Ptr]]]
  BY DEF TypeOK
<1>11. \A m \in Node, s \in Slot :
         /\ mem'[m][s].v = mem[m][s].v
         /\ mem'[m][s].k = mem[m][s].k \/ mem'[m][s].k = Key
  BY <1>6, <1>9, <1>10
<1> QED
  BY <1>1, <1>4, <1>9, <1>11

(* The step of an insertion that ends it.                                  *)
InsertEnds ==
  \/ insert_level /\ call.val = NULL
  \/ insert_bug
  \/ insert_shift /\ call.stack = <<>>
  \/ insert_fails

LEMMA SameClient ==
  ASSUME Inserting, Inserting', call'.stack = call.stack, call'.val = call.val
  PROVE  ClientVal' = ClientVal
BY DEF ClientVal

LEMMA PoppedClient ==
  ASSUME TypeOK, call.pc = "up", call.stack # <<>>, Inserting',
         call'.stack = Tail(call.stack), call'.val = call.stack[1].val
  PROVE  ClientVal' = ClientVal
<1>1. PICK s, t : s = call.stack /\ t = Tail(call.stack)
  OBVIOUS
<1>2. s \in Seq(SplitFrame) /\ s # <<>>
  BY <1>1 DEF TypeOK, StackOK
<1>3. /\ t = Tail(s) /\ t \in Seq(SplitFrame) /\ Len(t) = Len(s) - 1 /\ Len(s) \in Nat \ {0}
      /\ \A i \in 1 .. Len(t) : t[i] = s[i + 1]
  BY <1>1, <1>2, HeadTailProperties, EmptySeq
<1>4. t = <<>> <=> Len(t) = 0
  BY <1>3, EmptySeq
<1>5. ClientVal = s[Len(s)].val /\ call'.val = s[1].val /\ call'.stack = t
  BY <1>1 DEF ClientVal, Inserting
<1>6. CASE Len(s) = 1
  <2>1. call'.stack = <<>>
    <3>1. Len(t) = 0
      BY <1>3, <1>6
    <3> QED
      BY <1>4, <1>5, <3>1
  <2>2. ClientVal' = call'.val
    BY <2>1 DEF ClientVal
  <2> QED
    BY <1>5, <1>6, <2>2
<1>7. CASE Len(s) # 1
  <2>1. Len(t) \in 1 .. Len(t) /\ Len(t) + 1 = Len(s)
    BY <1>3, <1>7
  <2>2. t[Len(t)] = s[Len(s)]
    BY <1>3, <2>1
  <2>3. t # <<>>
    BY <1>4, <2>1
  <2>4. ClientVal' = call'.stack[Len(call'.stack)].val
    BY <1>5, <2>3 DEF ClientVal
  <2> QED
    BY <1>5, <2>2, <2>4
<1> QED
  BY <1>6, <1>7

LEMMA PushedClient ==
  ASSUME TypeOK, Inserting, Inserting', NEW f \in SplitFrame, f.val = call.val,
         call'.stack = Push(f)
  PROVE  ClientVal' = ClientVal /\ call'.stack # <<>>
<1>1. call.stack \in Seq(SplitFrame) /\ Len(call.stack) \in Nat
      /\ (call.stack = <<>> <=> Len(call.stack) = 0)
  BY StackFacts
<1>2. /\ Len(call'.stack) = Len(call.stack) + 1 /\ call'.stack[1] = f
      /\ \A i \in 1 .. Len(call.stack) : call'.stack[i + 1] = call.stack[i]
  BY <1>1, PushFacts DEF Push
<1>3. call'.stack # <<>>
  BY <1>1, <1>2, EmptySeq
<1>4. ClientVal' = call'.stack[Len(call.stack) + 1].val
  BY <1>2, <1>3 DEF ClientVal
<1>5. CASE call.stack = <<>>
  BY <1>1, <1>2, <1>3, <1>4, <1>5 DEF ClientVal
<1>6. CASE call.stack # <<>>
  <2>1. Len(call.stack) \in 1 .. Len(call.stack)
    BY <1>1, <1>6
  <2> QED
    BY <1>2, <1>3, <1>4, <1>6, <2>1 DEF ClientVal
<1> QED
  BY <1>5, <1>6

(* Any other step of an insertion goes on with it.  One that has refused   *)
(* its leaf goes on refusing; others refuse where the key is new.          *)
LEMMA InsertMoves ==
  ASSUME TypeOK, CountInv, Kinds, NEW at, NEW lo, NEW hi, Grown(at, lo, hi),
         InsertStep \/ find_level, ~ InsertEnds, ~ KmallocFails
  PROVE  /\ Inserting /\ Inserting' /\ call'.op = call.op /\ call'.ukey = call.ukey
         /\ ClientVal' = ClientVal
         /\ call'.pc = "up" /\ call'.stack = <<>> =>
              call'.res.status = "enomem" /\ call'.val # NULL
         /\ \/ call.pc = "up" \/ call.stack # <<>>
            \/ call'.pc # "up" /\ call'.stack = <<>>
            \/ height = 0
            \/ AtGoal("place") /\ ~ Duplicate
<1>1. call \in CallRecord
  BY DEF TypeOK
<1>2. CASE find_level
  <2>1. PICK d : call' = [call EXCEPT !.cur = d, !.h = @ - 1]
    BY <1>2, FindsWay
  <2>2. /\ call'.pc = "place" /\ call.pc = "place" /\ call'.op = call.op /\ call'.ukey = call.ukey
        /\ call'.stack = call.stack /\ call'.val = call.val
    BY <1>1, <1>2, <2>1, FindsWay DEF CallRecord
  <2>3. Inserting /\ Inserting'
    BY <2>2 DEF Inserting
  <2> QED
    BY <2>2, <2>3, SameClient
<1>3. CASE insert_level
  <2>1. call.val # NULL
    BY <1>3 DEF InsertEnds
  <2>2. /\ call'.pc = "place" /\ call.pc = "enter" /\ call'.op = call.op /\ call'.ukey = call.ukey
        /\ call'.stack = call.stack /\ call'.val = call.val
    BY <1>1, <1>3, <2>1 DEF insert_level, FromRoot, CallRecord
  <2>3. Inserting /\ Inserting'
    BY <2>2 DEF Inserting
  <2> QED
    BY <2>2, <2>3, SameClient
<1>4. CASE cbtree_grow
  <2>1. /\ call'.pc = "place" /\ call.pc = "enter" /\ call'.op = call.op /\ call'.ukey = call.ukey
        /\ call'.stack = call.stack /\ call'.val = call.val
    BY <1>1, <1>4 DEF cbtree_grow, CallRecord
  <2>2. Inserting /\ Inserting'
    BY <2>1 DEF Inserting
  <2> QED
    BY <2>1, <2>2, SameClient
<1>5. CASE grow_fails
  <2>1. /\ call'.pc = "up" /\ call.pc = "enter" /\ call'.op = call.op /\ call'.ukey = call.ukey
        /\ call'.stack = call.stack /\ call'.val = call.val /\ call.val # NULL
        /\ call'.res.status = "enomem" /\ height < Level
    BY <1>1, <1>5 DEF grow_fails, CallRecord, Result
  <2>2. Inserting /\ Inserting'
    BY <2>1 DEF Inserting
  <2>3. call.stack # <<>> \/ height = 0
    <3>1. /\ Level = Len(call.stack) + 1 /\ height \in Nat
          /\ (call.stack = <<>> <=> Len(call.stack) = 0)
      BY <2>2, StackFacts, FrameFacts
    <3> QED
      BY <2>1, <3>1
  <2> QED
    BY <2>1, <2>2, <2>3, SameClient
<1>6. CASE insert_shift
  <2>1. call.stack # <<>>
    BY <1>6 DEF InsertEnds
  <2>2. /\ call'.pc = "up" /\ call.pc = "place" /\ call'.op = call.op /\ call'.ukey = call.ukey
        /\ call'.stack = call.stack /\ call'.val = call.val
    BY <1>1, <1>6, <2>1 DEF insert_shift, AtGoal, Goto, CallRecord
  <2>3. Inserting /\ Inserting'
    BY <2>2 DEF Inserting
  <2> QED
    BY <2>1, <2>2, <2>3, SameClient
<1>7. CASE insert_split
  <2>1. AtGoal("place") /\ ~ Duplicate /\ call.cur \in Node /\ alloc # Node
    BY <1>7 DEF insert_split, cbtree_node_alloc
  <2>2. Fresh \in Node /\ call.at \in KeyPtr /\ call.val \in Ptr
    BY <1>1, <2>1, FreshOutside DEF CallRecord, Grown
  <2>3. PICK f : f = [kind |-> "split", at |-> call.at, val |-> call.val,
                      node |-> call.cur, new |-> Fresh]
    OBVIOUS
  <2>4. f \in SplitFrame /\ f.val = call.val
    BY <2>1, <2>2, <2>3 DEF SplitFrame
  <2>5. /\ call'.pc = "enter" /\ call.pc = "place" /\ call'.op = call.op /\ call'.ukey = call.ukey
        /\ call'.stack = Push(f)
    BY <1>1, <1>7, <2>1, <2>3 DEF insert_split, AtGoal, CallRecord
  <2>6. Inserting /\ Inserting'
    BY <2>5 DEF Inserting
  <2>7. ClientVal' = ClientVal
    BY <2>4, <2>5, <2>6, PushedClient
  <2> QED
    BY <2>1, <2>5, <2>6, <2>7
<1>8. CASE split_fails
  <2>1. /\ call'.pc = "up" /\ call.pc = "place" /\ call'.op = call.op /\ call'.ukey = call.ukey
        /\ call'.stack = call.stack /\ call'.val = call.val
        /\ call'.res.status = "enomem" /\ AtGoal("place") /\ ~ Duplicate
    BY <1>1, <1>8 DEF split_fails, AtGoal, CallRecord, Result
  <2>2. Inserting /\ Inserting'
    BY <2>1 DEF Inserting
  <2>3. call.val # NULL
    BY <2>1, GoalFacts
  <2> QED
    BY <2>1, <2>2, <2>3, SameClient
<1>9. CASE split_moves
  <2>1. call.pc = "up" /\ call.stack # <<>> /\ call' = FromRoot(Caller("up"), "place")
    BY <1>9 DEF split_moves
  <2>2. /\ call'.pc = "place" /\ call'.op = call.op /\ call'.ukey = call.ukey
        /\ call'.stack = Tail(call.stack) /\ call'.val = call.stack[1].val
    BY <1>1, <2>1, CallerFrames DEF FromRoot, Caller, CallRecord
  <2>3. Inserting /\ Inserting'
    BY <2>1, <2>2 DEF Inserting
  <2>4. ClientVal' = ClientVal
    BY <2>1, <2>2, <2>3, PoppedClient
  <2> QED
    BY <2>1, <2>2, <2>3, <2>4
<1>10. CASE split_undone
  <2>1. /\ call.pc = "up" /\ call.stack # <<>> /\ call.res.status = "enomem"
        /\ call' = Caller("up")
    BY <1>10 DEF split_undone
  <2>2. /\ call'.pc = "up" /\ call'.op = call.op /\ call'.ukey = call.ukey
        /\ call'.stack = Tail(call.stack) /\ call'.val = call.stack[1].val
        /\ call'.res = call.res
    BY <1>1, <2>1, CallerFrames DEF Caller, CallRecord
  <2>3. Inserting /\ Inserting'
    BY <2>1, <2>2 DEF Inserting
  <2>4. ClientVal' = ClientVal
    BY <2>1, <2>2, <2>3, PoppedClient
  <2>5. call.stack[1].val # NULL
    <3>1. 1 \in 1 .. Len(call.stack)
      BY <2>1, <2>3, StackFacts
    <3> QED
      BY <2>3, <3>1, FrameFacts
  <2> QED
    BY <2>1, <2>2, <2>3, <2>4, <2>5
<1> QED
  <2>1. ~ initQueue_faults
    BY DEF initQueue_faults
  <2> QED
    BY <1>2, <1>3, <1>4, <1>5, <1>6, <1>7, <1>8, <1>9, <1>10, <2>1 DEF InsertStep, InsertEnds

(* None of them changes what the tree holds.                               *)
LEMMA InsertKeepsContents ==
  ASSUME TypeOK, CountInv, Kinds, NEW at, NEW lo, NEW hi, Grown(at, lo, hi),
         InsertStep \/ find_level, ~ InsertEnds, ~ KmallocFails, TypeOK', CountInv'
  PROVE  Contents' = Contents
<1>1. CASE find_level
  BY <1>1, find_levelKeepsContents
<1>2. CASE insert_level \/ grow_fails \/ split_fails \/ split_undone
  <2>1. UNCHANGED <<mem, root, height>>
    BY <1>2 DEF insert_level, grow_fails, split_fails, split_undone
  <2> QED
    BY <2>1, QuietContents
<1>3. CASE cbtree_grow
  BY <1>3, cbtree_growKeepsContents
<1>4. CASE insert_shift
  <2>1. call.stack # <<>>
    BY <1>4 DEF InsertEnds
  <2> QED
    BY <1>4, <2>1, DeliveryKeepsContents
<1>5. CASE insert_split
  BY <1>5, insert_splitKeepsContents
<1>6. CASE split_moves
  BY <1>6, split_movesKeepsContents
<1> QED
  <2>1. ~ initQueue_faults
    BY DEF initQueue_faults
  <2> QED
    BY <1>1, <1>2, <1>3, <1>4, <1>5, <1>6, <2>1 DEF InsertStep, InsertEnds

LEMMA EndsAlone ==
  ASSUME TypeOK, CountInv, Kinds, NEW at, NEW lo, NEW hi, Grown(at, lo, hi), InsertEnds
  PROVE  /\ call.stack = <<>> /\ Inserting /\ call.op = "insert"
         /\ \E status \in {"ok", "enomem", "bug"} : Finish(status, 0, NULL)
<1>1. Inserting /\ call.op = "insert"
  <2>1. Inserting
    BY DEF InsertEnds, insert_level, insert_bug, insert_shift, insert_fails, AtGoal, Inserting
  <2> QED
    BY <2>1 DEF Kinds
<1>2. CASE insert_level /\ call.val = NULL
  <2>1. Finish("bug", 0, NULL)
    BY <1>2 DEF insert_level, Bug
  <2>2. call.stack = <<>>
    <3>1. SUFFICES ASSUME call.stack # <<>> PROVE FALSE
      OBVIOUS
    <3>2. 1 \in 1 .. Len(call.stack) /\ call.val = call.stack[1].new
      BY <1>1, <3>1, StackFacts DEF CountInv, Chain
    <3> QED
      BY <1>1, <1>2, <3>2, StackFacts, NodeAssumption
  <2> QED
    BY <1>1, <2>1, <2>2
<1>3. CASE insert_bug
  <2>1. AtGoal("place") /\ (call.cur \in Node => Duplicate) /\ Finish("bug", 0, NULL)
    BY <1>3 DEF insert_bug, Bug
  <2>2. call.cur \in Node
    BY <2>1, GoalFacts
  <2> QED
    BY <1>1, <2>1, <2>2, NoDuplicateAbove
<1>4. CASE insert_shift /\ call.stack = <<>>
  BY <1>1, <1>4 DEF insert_shift
<1>5. CASE insert_fails
  BY <1>1, <1>5 DEF insert_fails, Kinds
<1> QED
  BY <1>2, <1>3, <1>4, <1>5 DEF InsertEnds

(* A call that reads takes its arguments with it.                          *)
LEMMA QueryMoves ==
  ASSUME TypeOK, Kinds, QueryStep \/ remove_returns
  PROVE  /\ call'.op = call.op /\ call'.ukey = call.ukey /\ call'.val = call.val
         /\ ~ Inserting /\ ~ Inserting' /\ call'.pc # "unwind" /\ call.pc \notin {"idle", "done"}
<1>1. call \in CallRecord
  BY DEF TypeOK
<1>2. ASSUME NEW status, NEW key, NEW val, Finish(status, key, val)
      PROVE  /\ call'.op = call.op /\ call'.ukey = call.ukey /\ call'.val = call.val
             /\ ~ Inserting' /\ call'.pc # "unwind"
  BY <1>2, FinishKinds DEF Inserting
<1>3. ASSUME Oops
      PROVE  /\ call'.op = call.op /\ call'.ukey = call.ukey /\ call'.val = call.val
             /\ ~ Inserting' /\ call'.pc # "unwind"
  BY <1>3, FaultKinds DEF Inserting
<1>4. ASSUME NEW n, AnswerWith(n)
      PROVE  /\ call'.op = call.op /\ call'.ukey = call.ukey /\ call'.val = call.val
             /\ ~ Inserting' /\ call'.pc # "unwind"
  BY <1>1, <1>4 DEF AnswerWith, Inserting, CallRecord
<1>5. CASE lookup_leaf
  <2>1. Oops \/ \E n : AnswerWith(n)
    BY <1>5 DEF lookup_leaf
  <2>2. ~ Inserting /\ call.pc \notin {"idle", "done"}
    BY <1>5 DEF lookup_leaf, Inserting
  <2> QED
    BY <1>3, <1>4, <2>1, <2>2
<1>6. CASE lookup_node
  <2>1. ~ Inserting /\ call.pc = "lookup"
    BY <1>6 DEF lookup_node, Inserting
  <2>2. \/ Oops \/ \E n : AnswerWith(n)
        \/ \E d, s : call' = [call EXCEPT !.cur = d, !.h = @ - 1, !.stack = s]
    BY <1>6 DEF lookup_node
  <2>3. ASSUME NEW d, NEW s, call' = [call EXCEPT !.cur = d, !.h = @ - 1, !.stack = s]
        PROVE  /\ call'.op = call.op /\ call'.ukey = call.ukey /\ call'.val = call.val
               /\ ~ Inserting' /\ call'.pc # "unwind"
    BY <1>1, <2>1, <2>3 DEF Inserting, CallRecord
  <2> QED
    BY <1>3, <1>4, <2>1, <2>2, <2>3
<1>7. CASE setcache
  <2>1. ~ Inserting /\ call.pc = "answer"
    BY <1>7 DEF setcache, Inserting
  <2>2. Oops \/ \E s : call' = [call EXCEPT !.stack = s]
    BY <1>7 DEF setcache
  <2>3. ASSUME NEW s, call' = [call EXCEPT !.stack = s]
        PROVE  /\ call'.op = call.op /\ call'.ukey = call.ukey /\ call'.val = call.val
               /\ ~ Inserting' /\ call'.pc # "unwind"
    BY <1>1, <2>1, <2>3 DEF Inserting, CallRecord
  <2> QED
    BY <1>3, <2>1, <2>2, <2>3
<1>8. CASE lookup_returns
  BY <1>2, <1>8 DEF lookup_returns, Inserting
<1>9. CASE cbtree_update
  <2>1. ~ Inserting /\ call.pc = "answer"
    BY <1>9 DEF cbtree_update, Inserting
  <2>2. Finish("enoent", 0, NULL) \/ Finish("ok", 0, NULL)
    BY <1>9 DEF cbtree_update
  <2> QED
    BY <1>2, <2>1, <2>2
<1>10. CASE prev_step \/ last_step
  <2>1. ~ Inserting /\ call.pc \in {"prev", "last"}
    BY <1>10 DEF prev_step, last_step, Inserting
  <2>2. \/ Oops \/ \E status, key, val : Finish(status, key, val)
        \/ \E d, k : call' = [call EXCEPT !.cur = d, !.h = @ - 1, !.retry = k]
        \/ \E d : call' = [call EXCEPT !.cur = d, !.h = @ - 1]
        \/ \E k : call' = [FromRoot(call, "prev") EXCEPT !.key = k, !.retry = NULL]
    BY <1>10 DEF prev_step, last_step, Miss
  <2>3. ASSUME NEW d, NEW k, call' = [call EXCEPT !.cur = d, !.h = @ - 1, !.retry = k]
        PROVE  /\ call'.op = call.op /\ call'.ukey = call.ukey /\ call'.val = call.val
               /\ ~ Inserting' /\ call'.pc # "unwind"
    BY <1>1, <2>1, <2>3 DEF Inserting, CallRecord
  <2>4. ASSUME NEW d, call' = [call EXCEPT !.cur = d, !.h = @ - 1]
        PROVE  /\ call'.op = call.op /\ call'.ukey = call.ukey /\ call'.val = call.val
               /\ ~ Inserting' /\ call'.pc # "unwind"
    BY <1>1, <2>1, <2>4 DEF Inserting, CallRecord
  <2>5. ASSUME NEW k, call' = [FromRoot(call, "prev") EXCEPT !.key = k, !.retry = NULL]
        PROVE  /\ call'.op = call.op /\ call'.ukey = call.ukey /\ call'.val = call.val
               /\ ~ Inserting' /\ call'.pc # "unwind"
    BY <1>1, <2>1, <2>5 DEF Inserting, CallRecord, FromRoot
  <2> QED
    BY <1>2, <1>3, <2>1, <2>2, <2>3, <2>4, <2>5
<1>11. CASE remove_returns
  BY <1>2, <1>11 DEF remove_returns, Inserting
<1> QED
  BY <1>5, <1>6, <1>7, <1>8, <1>9, <1>10, <1>11 DEF QueryStep

LEMMA AskingStep ==
  ASSUME TypeOK, CountInv, Kinds, NEW at, NEW lo, NEW hi, Grown(at, lo, hi), ~ KmallocFails,
         Asking, [Next]_vars
  PROVE  Asking'
<1>1. CASE UNCHANGED vars
  BY <1>1 DEF vars, Asking, ClientVal, Inserting
<1>2. CASE ClientStep
  <2>1. PICK c, pc, key : c \in Client /\ Start(c, pc, key)
    BY <1>2 DEF ClientStep, cbtree_insert, cbtree_remove, cbtree_lookup, cbtree_get_prev,
                cbtree_last, Calling
  <2>2. call'.stack = <<>> /\ call'.op = c.op /\ call'.ukey = c.key /\ call'.val = c.val
    BY <2>1 DEF Start, Idle
  <2>3. ClientVal' = c.val
    BY <2>2 DEF ClientVal
  <2>4. c \in Requests
    BY <2>1, ClientsRequest
  <2> QED
    BY <2>2, <2>3, <2>4 DEF Asking, Requests
<1>3. ASSUME call.pc # "idle", call'.op = call.op, call'.ukey = call.ukey, ClientVal' = ClientVal
      PROVE  Asking'
  BY <1>3 DEF Asking, Requests
<1>4. CASE find_level \/ InsertStep
  <2>1. CASE InsertEnds
    <3>1. call.stack = <<>> /\ Inserting /\ \E status : Finish(status, 0, NULL)
      BY <2>1, EndsAlone
    <3>2. /\ call'.op = call.op /\ call'.ukey = call.ukey /\ call'.val = call.val
          /\ call'.stack = <<>>
      BY <3>1, FinishKinds
    <3>3. ClientVal' = ClientVal
      BY <3>1, <3>2 DEF ClientVal
    <3> QED
      BY <1>3, <3>1, <3>2, <3>3 DEF Inserting
  <2>2. CASE ~ InsertEnds
    BY <1>3, <1>4, <2>2, InsertMoves DEF Inserting
  <2> QED
    BY <2>1, <2>2
<1>5. CASE RemoveStep \/ QueryStep
  <2>1. QueryStep \/ remove_returns
    BY <1>5, NoRemoval
  <2>2. /\ call'.op = call.op /\ call'.ukey = call.ukey /\ call'.val = call.val
        /\ ~ Inserting /\ ~ Inserting' /\ call.pc # "idle"
    BY <2>1, QueryMoves
  <2>3. ClientVal' = ClientVal
    BY <2>2 DEF ClientVal
  <2> QED
    BY <1>3, <2>2, <2>3
<1>6. CASE Return
  BY <1>6 DEF Return, Idle, Asking
<1> QED
  BY <1>1, <1>2, <1>4, <1>5, <1>6 DEF Next, LibraryStep

LEMMA QueuedStep ==
  ASSUME TypeOK, Kinds, ~ KmallocFails, Queued, [Next]_vars
  PROVE  Queued'
<1>1. ASSUME alloc' \subseteq alloc, UNCHANGED queue
      PROVE  Queued'
  BY <1>1 DEF Queued
<1>2. ASSUME NEW pairs, cbtree_node_alloc(pairs)
      PROVE  Queued'
  <2>1. Fresh \in Node /\ alloc' = alloc \cup {Fresh}
    BY <1>2 DEF TypeOK, cbtree_node_alloc, Fresh
  <2>2. queue' = [queue EXCEPT ![Fresh] = EmptyQueue]
    BY <1>2 DEF cbtree_node_alloc, NewQueue
  <2>3. EmptyQueue # NULL
    <3>1. EmptyQueue \in Queue
      BY LongFacts, CacheLenAssumption DEF EmptyQueue, Queue, Pos
    <3> QED
      BY <3>1, QueueAssumption
  <2> QED
    BY <2>1, <2>2, <2>3 DEF Queued, TypeOK
<1>3. CASE UNCHANGED vars
  BY <1>1, <1>3 DEF vars
<1>4. CASE ClientStep
  BY <1>1, <1>4 DEF ClientStep, cbtree_insert, cbtree_remove, cbtree_lookup, cbtree_get_prev,
                cbtree_last, Start
<1>5. CASE find_level
  BY <1>1, <1>5 DEF find_level
<1>6. CASE InsertStep
  <2>1. ~ initQueue_faults
    BY DEF initQueue_faults
  <2>2. CASE cbtree_grow \/ insert_split
    BY <1>2, <2>2 DEF cbtree_grow, insert_split
  <2>3. CASE ~ (cbtree_grow \/ insert_split)
    BY <1>1, <1>6, <2>1, <2>3 DEF InsertStep, insert_level, grow_fails, insert_bug, insert_shift,
         split_fails, split_moves, split_undone, insert_fails
  <2> QED
    BY <2>2, <2>3
<1>7. CASE RemoveStep
  <2>1. remove_returns
    BY <1>7, NoRemoval
  <2> QED
    BY <1>1, <2>1 DEF remove_returns
<1>8. CASE lookup_node
  <2>1. UNCHANGED alloc
    BY <1>8 DEF lookup_node
  <2>2. CASE UNCHANGED queue
    BY <1>1, <2>1, <2>2
  <2>3. CASE ~ UNCHANGED queue
    <3>1. /\ call.cur \in Node /\ queue[call.cur] # NULL
          /\ queue' = [queue EXCEPT ![call.cur] = Rotated(@)]
      BY <1>8, <2>3 DEF lookup_node
    <3>2. queue[call.cur] \in Queue
      BY <3>1 DEF TypeOK
    <3>3. Rotated(queue[call.cur]) \in Queue
      BY <3>2, AfterType DEF Rotated, Queue
    <3>4. Rotated(queue[call.cur]) # NULL
      BY <3>3, QueueAssumption
    <3> QED
      BY <2>1, <3>1, <3>4 DEF Queued, TypeOK
  <2> QED
    BY <2>2, <2>3
<1>9. CASE setcache
  <2>1. UNCHANGED alloc /\ call.pc = "answer" /\ call.stack # <<>>
    BY <1>9 DEF setcache
  <2>2. CASE UNCHANGED queue
    BY <1>1, <2>1, <2>2
  <2>3. CASE ~ UNCHANGED queue
    <3>1. /\ call.cur # NULL /\ queue[Top.node] # NULL
          /\ queue' = [queue EXCEPT ![Top.node] = Remembered(@, call.cur, call.ukey)]
      BY <1>9, <2>3 DEF setcache
    <3>2. Top \in LookupFrame /\ call.ukey \in Long
      BY <2>1, HeadTailProperties DEF TypeOK, StackOK, CallRecord, Top
    <3>3. Top.node \in Node /\ call.cur \in Node
      BY <2>1, <3>1, <3>2 DEF TypeOK, RegistersOK, LookupFrame
    <3>4. queue[Top.node] \in Queue
      BY <3>1, <3>3 DEF TypeOK
    <3>5. Remembered(queue[Top.node], call.cur, call.ukey) \in Queue
      BY <3>2, <3>3, <3>4, AfterType DEF Remembered, Queue
    <3>6. Remembered(queue[Top.node], call.cur, call.ukey) # NULL
      BY <3>5, QueueAssumption
    <3> QED
      BY <2>1, <3>1, <3>3, <3>6 DEF Queued, TypeOK
  <2> QED
    BY <2>2, <2>3
<1>10. CASE QueryStep /\ ~ lookup_node /\ ~ setcache
  BY <1>1, <1>10 DEF QueryStep, lookup_leaf, lookup_returns, cbtree_update, prev_step, last_step
<1>11. CASE Return
  BY <1>1, <1>11 DEF Return
<1> QED
  BY <1>3, <1>4, <1>5, <1>6, <1>7, <1>8, <1>9, <1>10, <1>11 DEF Next, LibraryStep

(* The slot that cbtree_update writes.                                     *)
LEMMA UpdateSlot ==
  ASSUME TypeOK, cbtree_update
  PROVE  \/ UNCHANGED mem /\ Finish("enoent", 0, NULL)
         \/ \E j \in Slot : /\ call.cur \in Node /\ mem[call.cur][j].k = call.ukey
                            /\ mem' = [mem EXCEPT ![call.cur][j].v = call.val]
                            /\ Finish("ok", 0, NULL)
<1> DEFINE slots == IF call.cur \in Node THEN matches(mem[call.cur], call.ukey) ELSE {}
<1>1. CASE slots = {}
  BY <1>1 DEF cbtree_update
<1>2. CASE slots # {}
  <2>1. call.cur \in Node /\ slots = matches(mem[call.cur], call.ukey)
    BY <1>2
  <2>2. /\ mem' = [mem EXCEPT ![call.cur][First(slots)].v = call.val]
        /\ Finish("ok", 0, NULL)
    BY <1>2 DEF cbtree_update
  <2> HIDE DEF slots
  <2>3. slots \subseteq Slot
    BY <2>1, matchesAreSlots
  <2>4. First(slots) \in slots \cup {NoPairs} /\ \A j \in slots : First(slots) <= j
    BY <2>3, FirstIsLeast
  <2>5. First(slots) \in slots
    BY <1>2, <2>3, <2>4, SlotFacts
  <2>6. PICK j \in Slot : j = First(slots)
    BY <2>3, <2>5
  <2>7. mem[call.cur][j].k = call.ukey
    BY <2>1, <2>5, <2>6 DEF matches
  <2> QED
    BY <2>1, <2>2, <2>6, <2>7
<1> QED
  BY <1>1, <1>2

LEMMA KeyNonzero ==
  ASSUME TypeOK, CountInv, Kinds, NEW at, NEW lo, NEW hi, Grown(at, lo, hi),
         Asking, Served, Nonzero, Asks("get_prev"), call.pc \in {"enter", "place"}
  PROVE  Key # 0
<1>1. Inserting /\ call.op = "insert" /\ call.pc # "idle"
  BY DEF Inserting, Kinds
<1>2. call.ukey # 0
  <2>1. PICK c \in Requests : c.op = call.op /\ c.key = call.ukey
    BY <1>1 DEF Asking, Requests
  <2> QED
    BY <1>1, <2>1 DEF Served
<1>3. call.at = IF call.stack = <<>> THEN NULL ELSE <<call.stack[1].node, SplitSlot>>
  BY <1>1 DEF Grown, Frames
<1>4. CASE call.stack = <<>>
  BY <1>2, <1>3, <1>4 DEF Key
<1>5. CASE call.stack # <<>>
  <2>1. 1 \in 1 .. Len(call.stack) /\ SplitSlot \in Slot
    BY <1>1, <1>5, StackFacts, HalfFacts
  <2>2. /\ call.stack[1].node \in Node
        /\ \A s \in Slot : mem[call.stack[1].node][s].v # NULL
    BY <1>1, <2>1, FrameFacts
  <2>3. <<call.stack[1].node, SplitSlot>> \in Node \X Slot
    BY <2>1, <2>2
  <2>4. call.at # NULL
    BY <1>3, <1>5, <2>3, KeyPtrAssumption
  <2>5. Key = mem[call.stack[1].node][SplitSlot].k
    BY <1>3, <1>5, <2>4 DEF Key
  <2> QED
    BY <2>1, <2>2, <2>5 DEF Nonzero
<1> QED
  BY <1>4, <1>5

LEMMA NonzeroStep ==
  ASSUME TypeOK, CountInv, Kinds, NEW at, NEW lo, NEW hi, Grown(at, lo, hi),
         Asking, Served, Nonzero, [Next]_vars
  PROVE  Nonzero'
<1> SUFFICES ASSUME Asks("get_prev"),
                    NEW n \in Node, NEW i \in Slot, mem'[n][i].v # NULL
             PROVE  mem'[n][i].k # 0
  BY DEF Nonzero, Asks, Requests
<1>1. \A m \in Node, s \in Slot : mem[m][s].v # NULL => mem[m][s].k # 0
  BY DEF Nonzero
<1>2. mem \in [Node -> [Slot -> [k : Long, v : Ptr]]]
  BY DEF TypeOK
<1>3. CASE UNCHANGED mem
  BY <1>1, <1>3
<1>4. CASE find_level
  <2>1. mem'[n][i].v = mem[n][i].v /\ (mem'[n][i].k = mem[n][i].k \/ mem'[n][i].k = Key)
    BY <1>4, FindsWay
  <2>2. Key # 0
    BY <1>4, FindsWay, KeyNonzero
  <2> QED
    BY <1>1, <2>1, <2>2
<1>5. CASE cbtree_grow
  <2> DEFINE pairs == IF root \in Node
                      THEN [EmptyNode EXCEPT ![0] = [k |-> LastKey(mem[root]), v |-> root]]
                      ELSE EmptyNode
  <2>1. mem' = [mem EXCEPT ![Fresh] = pairs] /\ call.pc = "enter" /\ height < Level
    BY <1>5 DEF cbtree_grow, cbtree_node_alloc
  <2>2. CASE n # Fresh
    BY <1>1, <1>2, <2>1, <2>2
  <2>3. CASE n = Fresh /\ root \notin Node
    BY <1>2, <2>1, <2>3, EmptyOrder
  <2>4. CASE n = Fresh /\ root \in Node
    <3>1. Inserting /\ height \in Nat /\ Len(call.stack) \in 0 .. height
          /\ Level = Len(call.stack) + 1
      BY <2>1, FrameFacts, StackFacts DEF Inserting
    <3>2. height # 0 /\ Len(call.stack) = height /\ 1 \in 1 .. Len(call.stack)
      <4>1. height = 0 => root = NULL
        BY LevelFacts
      <4>2. height # 0
        BY <2>4, <4>1, NodeAssumption
      <4> QED
        BY <2>1, <3>1, <4>2
    <3>3. /\ call.stack[1].node \in at[Len(call.stack) + 1 - 1]
          /\ \A s \in Slot : mem[call.stack[1].node][s].v # NULL
      BY <3>1, <3>2, FrameFacts
    <3>4. call.stack[1].node = root
      <4>1. Len(call.stack) + 1 - 1 = height /\ at[height] = {root}
        BY <3>1, <3>2, LevelFacts
      <4> QED
        BY <3>3, <4>1
    <3>5. PICK r \in NodeOver(Ptr) : r = mem[root]
      BY <2>4, MemType
    <3>6. getfill(r, 0) = NoPairs
      <4>1. 0 \in 0 .. NoPairs
        BY SlotFacts
      <4>2. /\ getfill(r, 0) \in 0 .. NoPairs
            /\ getfill(r, 0) # NoPairs => r[getfill(r, 0)].v = NULL
        BY <4>1, getfillFinds
      <4>3. getfill(r, 0) # NoPairs => getfill(r, 0) \in Slot
        BY <4>2, SlotFacts
      <4> QED
        BY <3>3, <3>4, <3>5, <4>2, <4>3
    <3>7. NoPairs - 1 \in Slot /\ NoPairs # 0
      BY SlotFacts, NoPairsAssumption
    <3>8. LastKey(mem[root]) = mem[root][NoPairs - 1].k
      BY <3>5, <3>6, <3>7 DEF LastKey
    <3>9. LastKey(mem[root]) # 0
      BY <1>1, <2>4, <3>3, <3>4, <3>7, <3>8
    <3>10. PICK key : key = LastKey(mem[root])
      OBVIOUS
    <3>11. mem'[n] = [EmptyNode EXCEPT ![0] = [k |-> key, v |-> root]]
      BY <1>2, <2>1, <2>4, <3>10
    <3>12. mem'[n][i] = [k |-> key, v |-> root] \/ mem'[n][i] = EmptyNode[i]
      BY <3>11 DEF EmptyNode
    <3>13. mem'[n][i] # EmptyNode[i]
      BY EmptyOrder
    <3> QED
      BY <3>9, <3>10, <3>12, <3>13
  <2> QED
    BY <2>2, <2>3, <2>4
<1>6. CASE insert_split
  <2>1. mem' = [mem EXCEPT ![Fresh] = EmptyNode]
    BY <1>6 DEF insert_split, cbtree_node_alloc
  <2>2. n # Fresh
    BY <1>2, <2>1, EmptyOrder
  <2> QED
    BY <1>1, <1>2, <2>1, <2>2
<1>7. CASE insert_shift
  <2>1. /\ AtGoal("place")
        /\ mem' = [mem EXCEPT ![call.cur] = insert_pair(@, Position, FillFrom, Key, call.val)]
    BY <1>7 DEF insert_shift
  <2>2. Key # 0
    BY <2>1, KeyNonzero DEF AtGoal
  <2>3. CASE n # call.cur
    BY <1>1, <1>2, <2>1, <2>3
  <2>4. CASE n = call.cur
    <3>1. mem'[n] = insert_pair(mem[n], Position, FillFrom, Key, call.val)
      BY <1>2, <2>1, <2>4
    <3>2. Position \in 0 .. NoPairs /\ FillFrom \in Position .. NoPairs
      BY <2>1, GoalFacts
    <3>3. \/ mem'[n][i] = [k |-> Key, v |-> call.val]
          \/ mem'[n][i] = mem[n][i]
          \/ mem'[n][i] = mem[n][i - 1] /\ i \in (Position + 1) .. FillFrom
      BY <3>1 DEF insert_pair
    <3>4. i \in (Position + 1) .. FillFrom => i - 1 \in Slot
      BY <3>2, SlotFacts
    <3> QED
      BY <1>1, <2>2, <3>3, <3>4
  <2> QED
    BY <2>3, <2>4
<1>8. CASE split_moves
  <2>1. /\ call.pc = "up" /\ call.stack # <<>>
        /\ mem' = [mem EXCEPT ![Top.new] = upper_half(mem[Top.node], mem[Top.new]),
                              ![Top.node] = lower_half(mem[Top.node])]
    BY <1>8 DEF split_moves
  <2>2. Top.node \in Node /\ Top.new \in Node
    BY <2>1, StackFacts DEF Inserting
  <2>3. PICK c \in Node, a \in Node : c = Top.node /\ a = Top.new
    BY <2>2
  <2>4. mem' = [mem EXCEPT ![a] = upper_half(mem[c], mem[a]), ![c] = lower_half(mem[c])]
    BY <2>1, <2>3
  <2>5. mem'[n] = mem[n] \/ mem'[n] = upper_half(mem[c], mem[a]) \/ mem'[n] = lower_half(mem[c])
    BY <1>2, <2>4
  <2>6. mem'[n][i] = Empty \/ \E m \in Node, j \in Slot : mem'[n][i] = mem[m][j]
    BY <2>5, halvesLink
  <2> QED
    BY <1>1, <2>6 DEF Empty
<1>9. CASE cbtree_update
  <2>1. CASE UNCHANGED mem
    BY <1>3, <2>1
  <2>2. CASE ~ UNCHANGED mem
    <3>1. PICK j \in Slot : /\ call.cur \in Node /\ mem[call.cur][j].k = call.ukey
                            /\ mem' = [mem EXCEPT ![call.cur][j].v = call.val]
      BY <1>9, <2>2, UpdateSlot
    <3>2. call.ukey # 0
      BY <1>9 DEF cbtree_update, Kinds, LookingUp
    <3>3. mem'[n][i].k = mem[n][i].k
      BY <1>2, <3>1
    <3>4. ~ (n = call.cur /\ i = j) => mem'[n][i].v = mem[n][i].v
      BY <1>2, <3>1
    <3> QED
      BY <1>1, <3>1, <3>2, <3>3, <3>4
  <2> QED
    BY <2>1, <2>2
<1>10. ~ initQueue_faults
  BY DEF initQueue_faults, Served
<1>11. CASE RemoveStep
  <2>1. remove_returns
    BY <1>11, NoRemoval
  <2> QED
    BY <1>3, <2>1 DEF remove_returns
<1>12. CASE UNCHANGED vars \/ ClientStep \/ Return
  BY <1>3, <1>12 DEF vars, ClientStep, cbtree_insert, cbtree_remove, cbtree_lookup,
                     cbtree_get_prev, cbtree_last, Start, Return
<1>13. CASE InsertStep /\ ~ (cbtree_grow \/ insert_shift \/ insert_split \/ split_moves)
  BY <1>3, <1>10, <1>13 DEF InsertStep, insert_level, grow_fails, insert_bug, split_fails,
                            split_undone, insert_fails
<1>14. CASE QueryStep /\ ~ cbtree_update
  BY <1>3, <1>14 DEF QueryStep, lookup_leaf, lookup_node, setcache, lookup_returns, prev_step,
                     last_step
<1> QED
  BY <1>4, <1>5, <1>6, <1>7, <1>8, <1>9, <1>11, <1>12, <1>13, <1>14 DEF Next, LibraryStep

LEMMA RefusedStep ==
  ASSUME TypeOK, CountInv, Kinds, NEW at, NEW lo, NEW hi, Grown(at, lo, hi), Refused,
         ~ KmallocFails, [Next]_vars, TypeOK', CountInv'
  PROVE  Refused'
<1>1. CASE UNCHANGED vars
  <2>1. UNCHANGED <<mem, root, height, call>>
    BY <1>1 DEF vars
  <2> QED
    BY <2>1, QuietContents DEF Refused, Inserting
<1>2. ASSUME ~ Inserting'
      PROVE  Refused'
  BY <1>2 DEF Refused, Inserting
<1>3. CASE ClientStep
  <2>1. PICK c, pc, key :
          /\ c \in Client /\ Start(c, pc, key)
          /\ pc \in {"enter", "unwind", "erase", "lookup", "prev", "last"}
    BY <1>3 DEF ClientStep, cbtree_insert, cbtree_remove, cbtree_lookup, cbtree_get_prev,
                cbtree_last, Calling
  <2>2. call'.stack = <<>> /\ call'.pc # "up"
    BY <2>1 DEF Start, Idle
  <2> QED
    BY <2>2 DEF Refused
<1>4. CASE find_level \/ InsertStep
  <2>1. CASE InsertEnds
    <3>1. \E status : Finish(status, 0, NULL)
      BY <2>1, EndsAlone
    <3> QED
      BY <1>2, <3>1, FinishKinds DEF Inserting
  <2>2. CASE ~ InsertEnds
    <3>1. Contents' = Contents
      BY <1>4, <2>2, InsertKeepsContents
    <3>2. /\ Inserting /\ call'.ukey = call.ukey
          /\ call'.pc = "up" /\ call'.stack = <<>> =>
               call'.res.status = "enomem" /\ call'.val # NULL
          /\ \/ call.pc = "up" \/ call.stack # <<>>
             \/ call'.pc # "up" /\ call'.stack = <<>>
             \/ height = 0
             \/ AtGoal("place") /\ ~ Duplicate
      BY <1>4, <2>2, InsertMoves
    <3>3. ASSUME call'.pc = "up" \/ call'.stack # <<>>, NEW p \in Contents
          PROVE  p.k # call.ukey
      <4>1. CASE call.pc = "up" \/ call.stack # <<>>
        BY <3>2, <4>1 DEF Refused
      <4>2. CASE height = 0
        BY <4>2 DEF Contents, Leaves
      <4>3. CASE AtGoal("place") /\ ~ Duplicate /\ call.stack = <<>>
        BY <4>3, KeyAbsent
      <4> QED
        BY <3>2, <3>3, <4>1, <4>2, <4>3
    <3> QED
      BY <3>1, <3>2, <3>3 DEF Refused
  <2> QED
    BY <2>1, <2>2
<1>5. CASE RemoveStep \/ QueryStep
  <2>1. QueryStep \/ remove_returns
    BY <1>5, NoRemoval
  <2> QED
    BY <1>2, <2>1, QueryMoves
<1>6. CASE Return
  BY <1>2, <1>6 DEF Return, Idle, Inserting
<1> QED
  BY <1>1, <1>3, <1>4, <1>5, <1>6 DEF Next, LibraryStep

(* The leaf that is the root, when an insertion has come to it.            *)
LEMMA LoneRoot ==
  ASSUME TypeOK, NEW at, NEW lo, NEW hi, Grown(at, lo, hi), AtGoal("place"), height = 1
  PROVE  call.stack = <<>> /\ call.cur = root /\ root \in Node
<1>1. /\ call.stack # <<>> => Len(call.stack) \in 1 .. (height - 1)
      /\ call.cur \in at[Level] /\ Level \in 1 .. height /\ call.cur \in Node
  BY GoalFacts
<1>2. call.stack = <<>>
  BY <1>1
<1>3. Level = 1 /\ at[height] = {root}
  BY <1>1, LevelFacts
<1> QED
  BY <1>1, <1>2, <1>3

LEMMA SeededStep ==
  ASSUME TypeOK, CountInv, Kinds, NEW at, NEW lo, NEW hi, Grown(at, lo, hi), Seeded,
         ~ KmallocFails, [Next]_vars
  PROVE  Seeded'
<1>1. mem \in [Node -> [Slot -> [k : Long, v : Ptr]]] /\ 0 \in Slot
  BY SlotFacts DEF TypeOK
<1>2. ASSUME UNCHANGED <<mem, root, height>>, call.pc # "place"
      PROVE  Seeded'
  BY <1>2 DEF Seeded
<1>3. CASE UNCHANGED vars
  BY <1>3 DEF vars, Seeded
<1>4. CASE ClientStep \/ Return
  BY <1>2, <1>4 DEF ClientStep, cbtree_insert, cbtree_remove, cbtree_lookup,
                    cbtree_get_prev, cbtree_last, Start, Calling, Return
<1>5. CASE find_level
  <2>1. UNCHANGED height /\ call.h \in 2 .. height
    BY <1>5, FindsWay
  <2> QED
    BY <2>1 DEF Seeded
<1>6. CASE insert_level \/ grow_fails \/ split_undone \/ insert_fails
  BY <1>2, <1>6 DEF insert_level, grow_fails, split_undone, insert_fails
<1>7. CASE cbtree_grow
  <2>1. /\ call.pc = "enter" /\ height' = height + 1 /\ call \in CallRecord
        /\ call' = [call EXCEPT !.pc = "place", !.cur = Fresh, !.h = height + 1]
    BY <1>7 DEF cbtree_grow, TypeOK
  <2>2. call'.pc = "place" /\ call'.stack = call.stack
    BY <2>1 DEF CallRecord
  <2>3. Len(call.stack) \in 0 .. height /\ height \in Nat
        /\ (call.stack = <<>> <=> Len(call.stack) = 0)
    BY <2>1, FrameFacts, StackFacts DEF Inserting
  <2> QED
    BY <2>1, <2>2, <2>3 DEF Seeded
<1>8. CASE AtGoal("place") /\ FillFrom = NoPairs /\ (insert_split \/ split_fails)
  <2>1. UNCHANGED <<root, height>>
    BY <1>8 DEF insert_split, split_fails
  <2>2. SUFFICES ASSUME height = 1 PROVE mem'[root][0].v # NULL
    BY <2>1 DEF Seeded
  <2>3. call.cur = root /\ root \in Node /\ mem[root][0].v # NULL
    BY <1>1, <1>8, <2>2, LoneRoot, FullNode
  <2>4. mem' = mem \/ (alloc # Node /\ mem' = [mem EXCEPT ![Fresh] = EmptyNode])
    BY <1>8 DEF insert_split, split_fails, cbtree_node_alloc
  <2>5. alloc # Node => Fresh # root
    <3>1. 1 \in 1 .. height /\ at[height] = {root}
      BY <2>2, LevelFacts
    <3> QED
      BY <2>2, <3>1, FreshOutside DEF Grown
  <2> QED
    BY <1>1, <2>3, <2>4, <2>5
<1>9. CASE insert_bug
  <2>1. AtGoal("place") /\ (call.cur \in Node => Duplicate) /\ UNCHANGED <<mem, root, height>>
    BY <1>9 DEF insert_bug
  <2>2. SUFFICES ASSUME height = 1 PROVE mem[root][0].v # NULL
    BY <2>1 DEF Seeded
  <2>3. call.cur = root /\ root \in Node /\ Duplicate
    BY <2>1, <2>2, LoneRoot
  <2>4. /\ mem[root] \in NodeOver(Ptr) /\ Ordered(mem[root])
        /\ Position \in 0 .. NoPairs /\ FillFrom \in Position .. NoPairs
    BY <2>1, <2>3, GoalFacts
  <2>5. Position \in Slot /\ Position < FillFrom
    BY <2>3, <2>4, SlotFacts DEF Duplicate
  <2>6. mem[root][Position].v # NULL
    <3>1. PICK n \in NodeOver(Ptr), pos \in 0 .. NoPairs : n = mem[root] /\ pos = Position
      BY <2>4
    <3>2. FillFrom = getfill(n, pos)
      BY <2>3, <3>1 DEF FillFrom
    <3>3. \A j \in Slot : pos <= j /\ j < getfill(n, pos) => n[j].v # NULL
      BY getfillFinds
    <3>4. pos <= pos
      OBVIOUS
    <3> QED
      BY <2>5, <3>1, <3>2, <3>3, <3>4
  <2> QED
    BY <1>1, <2>4, <2>5, <2>6, SlotFacts DEF Ordered
<1>10. CASE insert_shift
  <2>1. /\ AtGoal("place") /\ UNCHANGED <<root, height>> /\ FillFrom < NoPairs
        /\ mem' = [mem EXCEPT ![call.cur] = insert_pair(@, Position, FillFrom, Key, call.val)]
    BY <1>10 DEF insert_shift
  <2>2. SUFFICES ASSUME height = 1 PROVE mem'[root][0].v # NULL
    BY <2>1 DEF Seeded
  <2>3. call.cur = root /\ root \in Node
    BY <2>1, <2>2, LoneRoot
  <2>4. /\ mem[root] \in NodeOver(Ptr) /\ Ordered(mem[root]) /\ Key \in Long
        /\ call.val \in Ptr /\ call.val # NULL
    BY <2>1, <2>3, GoalFacts
  <2>5. PICK n \in NodeOver(Ptr) : n = mem[root] /\ Ordered(n)
    BY <2>4
  <2>6. PICK key \in Long, val \in Ptr : key = Key /\ val = call.val /\ val # NULL
    BY <2>4
  <2>7. Position = getpos(n, key) /\ FillFrom = getfill(n, Position) /\ FillFrom # NoPairs
    BY <2>1, <2>3, <2>5, <2>6, SlotFacts DEF Position, FillFrom
  <2>8. PICK o : o = insert_pair(n, Position, FillFrom, key, val)
    OBVIOUS
  <2>9. o[0].v # NULL
    BY <2>5, <2>6, <2>7, <2>8, PutPairs
  <2>10. mem'[root] = o
    BY <1>1, <2>1, <2>3, <2>5, <2>6, <2>7, <2>8
  <2> QED
    BY <2>9, <2>10
<1>11. CASE split_moves
  <2>1. Delivered /\ call.stack # <<>> /\ UNCHANGED height
    BY <1>11 DEF split_moves, Delivered
  <2>2. height # 1
    <3>1. /\ Len(call.stack) \in 1 .. height /\ Top.node # Top.new
          /\ Top.node \in at[Len(call.stack)] /\ Top.new \in at[Len(call.stack)]
      BY <2>1, HalvesHold
    <3> QED
      BY <3>1, LevelFacts
  <2> QED
    BY <2>1, <2>2 DEF Seeded
<1>12. CASE cbtree_update
  <2>1. call.pc = "answer" /\ call.val # NULL /\ UNCHANGED <<root, height>>
    BY <1>12 DEF cbtree_update, Kinds, LookingUp
  <2>2. CASE UNCHANGED mem
    BY <1>2, <2>1, <2>2
  <2>3. CASE ~ UNCHANGED mem
    <3>1. PICK j \in Slot : /\ call.cur \in Node
                            /\ mem' = [mem EXCEPT ![call.cur][j].v = call.val]
      BY <1>12, <2>3, UpdateSlot
    <3>2. SUFFICES ASSUME height = 1 PROVE mem'[root][0].v # NULL
      BY <2>1 DEF Seeded
    <3>3. root \in Node /\ mem[root][0].v # NULL
      <4>1. at[height] = {root} /\ at \in [1 .. height -> SUBSET Node] /\ height \in 1 .. height
        BY <3>2, LevelFacts
      <4> QED
        BY <2>1, <3>2, <4>1 DEF Seeded
    <3> QED
      BY <1>1, <2>1, <3>1, <3>3
  <2> QED
    BY <2>2, <2>3
<1>13. CASE RemoveStep
  <2>1. remove_returns
    BY <1>13, NoRemoval
  <2> QED
    BY <1>2, <2>1 DEF remove_returns
<1>14. CASE QueryStep /\ ~ cbtree_update
  BY <1>2, <1>14 DEF QueryStep, lookup_leaf, lookup_node, setcache, lookup_returns, prev_step,
                     last_step
<1>15. ~ initQueue_faults
  BY DEF initQueue_faults
<1>16. insert_split \/ split_fails => AtGoal("place") /\ FillFrom = NoPairs
  BY DEF insert_split, split_fails
<1> QED
  BY <1>3, <1>4, <1>5, <1>6, <1>7, <1>8, <1>9, <1>10, <1>11, <1>12, <1>13, <1>14, <1>15, <1>16
     DEF Next, LibraryStep, InsertStep

-----------------------------------------------------------------------------
(* The walks of get_prev and last. *)

LEMMA SlotsFrom ==
  ASSUME NEW n \in NodeOver(Ptr), Ordered(n), NEW key \in Long
  PROVE  /\ getpos(n, key) \in 0 .. NoPairs
         /\ getpos(n, key) # NoPairs => getpos(n, key) \in Slot /\ n[getpos(n, key)].k <= key
         /\ \A j \in Slot : n[j].v # NULL /\ n[j].k <= key =>
              /\ getpos(n, key) \in Slot /\ getpos(n, key) <= j
              /\ n[getpos(n, key)].v # NULL /\ n[j].k <= n[getpos(n, key)].k
<1>1. \A i \in Slot : i \in Int /\ i < NoPairs /\ n[i].k \in Int
  BY SlotFacts DEF NodeOver, Long
<1>2. PICK g : g = getpos(n, key)
  OBVIOUS
<1>3. /\ g \in 0 .. NoPairs
      /\ g # NoPairs => g \in Slot /\ n[g].k <= key
      /\ \A j \in Slot : j < g => n[j].k > key
  BY <1>2, getposFinds
<1>4. ASSUME NEW j \in Slot, n[j].v # NULL, n[j].k <= key
      PROVE  g \in Slot /\ g <= j /\ n[g].v # NULL /\ n[j].k <= n[g].k
  <2>1. ~ (j < g)
    BY <1>1, <1>3, <1>4 DEF Long
  <2>2. g \in Int /\ NoPairs \in Int
    BY <1>3, SlotFacts
  <2>3. g <= j /\ g # NoPairs
    BY <1>1, <2>1, <2>2
  <2>4. g \in Slot
    BY <1>3, <2>3
  <2>5. g = j \/ g < j
    BY <1>1, <2>2, <2>3
  <2>6. CASE g = j
    BY <1>1, <1>4, <2>3, <2>4, <2>6
  <2>7. CASE g < j
    <3>1. n[g].v # NULL /\ n[g].k > n[j].k
      BY <1>4, <2>4, <2>7 DEF Ordered
    <3> QED
      BY <1>1, <2>3, <2>4, <3>1
  <2> QED
    BY <2>5, <2>6, <2>7
<1> QED
  BY <1>2, <1>3, <1>4

LEMMA EmptyFrom ==
  ASSUME NEW n \in NodeOver(Ptr), Ordered(n), NEW key \in Long, NEW low \in Long, low <= key,
         getpos(n, key) = NoPairs \/ n[getpos(n, key)].v = NULL
  PROVE  getpos(n, low) = NoPairs \/ n[getpos(n, low)].v = NULL
<1>1. SUFFICES ASSUME getpos(n, low) # NoPairs, n[getpos(n, low)].v # NULL
               PROVE  FALSE
  OBVIOUS
<1>2. PICK j \in Slot : j = getpos(n, low) /\ n[j].k <= low /\ n[j].v # NULL
  BY <1>1, SlotsFrom
<1>3. n[j].k <= key
  BY <1>2 DEF NodeOver, Long
<1>4. getpos(n, key) \in Slot /\ n[getpos(n, key)].v # NULL
  BY <1>2, <1>3, SlotsFrom
<1> QED
  BY <1>4, SlotFacts

LEMMA HeldKey ==
  ASSUME TypeOK, NEW at, NEW lo, NEW hi, Shape(mem, root, height, at, lo, hi),
         NEW p, Holds(at, p)
  PROVE  /\ height > 0 /\ p.k \in Long /\ p.v # NULL
         /\ \E c \in at[1], j \in Slot : mem[c][j] = p /\ InSpan(p.k, c, lo, hi)
<1>1. height > 0
  BY DEF Holds
<1>2. PICK c \in at[1], j \in Slot : mem[c][j] = p /\ p.v # NULL
  BY DEF Holds
<1>3. mem[c][j].v # NULL
  BY <1>2
<1>4. mem[c][j].k \in Long /\ InSpan(mem[c][j].k, c, lo, hi)
  BY <1>1, <1>3, HeldFacts
<1> QED
  BY <1>1, <1>2, <1>4

(* Where the walk for a key finds no slot, there is no key up to it.       *)
LEMMA NoneBelow ==
  ASSUME TypeOK, NEW at, NEW lo, NEW hi, Shape(mem, root, height, at, lo, hi),
         NEW h \in 1 .. height, NEW n \in at[h], NEW key \in Long, InSpan(key, n, lo, hi),
         getpos(mem[n], key) = NoPairs \/ mem[n][getpos(mem[n], key)].v = NULL,
         NEW p, Holds(at, p), p.k <= key
  PROVE  ~ (lo[n] <= p.k)
<1>1. /\ height > 0 /\ p.k \in Long /\ p.v # NULL /\ height \in Nat
  BY HeldKey DEF Shape, Levels
<1>2. PICK c \in at[1], j \in Slot : mem[c][j] = p /\ InSpan(p.k, c, lo, hi)
  BY HeldKey
<1>3. n \in Node /\ Ordered(mem[n]) /\ lo[n] \in Int /\ hi[n] \in Int
  BY DEF Shape, Levels, Spans
<1>4. PICK b \in NodeOver(Ptr) : b = mem[n] /\ Ordered(b)
  BY <1>3, MemType
<1>5. PICK low \in Long : low = p.k
  BY <1>1
<1>6. SUFFICES ASSUME lo[n] <= p.k PROVE FALSE
  OBVIOUS
<1>7. InSpan(low, n, lo, hi)
  BY <1>3, <1>5, <1>6 DEF InSpan, Long
<1>8. getpos(mem[n], low) = NoPairs \/ mem[n][getpos(mem[n], low)].v = NULL
  BY <1>4, <1>5, EmptyFrom
<1>9. CASE h \in 2 .. height
  <2>1. ~ Stored(at, low)
    BY <1>7, <1>8, <1>9, DeadEnd
  <2> QED
    BY <1>1, <1>2, <1>5, <2>1 DEF Stored
<1>10. CASE h = 1
  <2>1. 1 \in 1 .. height /\ low \in Int /\ InSpan(low, c, lo, hi)
    BY <1>1, <1>2, <1>5 DEF Long
  <2>2. c = n
    BY <1>7, <1>10, <2>1, SpansApart
  <2>3. b[j].v # NULL /\ b[j].k <= low
    BY <1>1, <1>2, <1>4, <1>5, <2>1, <2>2
  <2>4. getpos(b, low) \in Slot /\ b[getpos(b, low)].v # NULL
    BY <2>3, <1>4, SlotsFrom
  <2> QED
    BY <1>4, <1>8, <2>4, SlotFacts
<1> QED
  BY <1>1, <1>9, <1>10

(* Where it finds one in a leaf, that is the greatest key up to it.        *)
LEMMA GreatestBelow ==
  ASSUME TypeOK, NEW at, NEW lo, NEW hi, Shape(mem, root, height, at, lo, hi), height > 0,
         NEW n \in at[1], NEW key \in Long, InSpan(key, n, lo, hi),
         NEW i, i = getpos(mem[n], key), i # NoPairs, mem[n][i].v # NULL
  PROVE  /\ i \in Slot /\ mem[n][i].k \in Long /\ mem[n][i].k <= key
         /\ Holds(at, mem[n][i])
         /\ \A p : Holds(at, p) /\ p.k <= key => p.k <= mem[n][i].k
<1>1. 1 \in 1 .. height /\ n \in Node /\ Ordered(mem[n]) /\ lo[n] \in Int /\ hi[n] \in Int
  BY HeldFacts
<1>2. PICK b \in NodeOver(Ptr) : b = mem[n] /\ Ordered(b)
  BY <1>1, MemType
<1>3. i \in Slot /\ b[i].k <= key
  BY <1>2, SlotsFrom
<1>4. b[i].k \in Long /\ InSpan(b[i].k, n, lo, hi)
  BY <1>2, <1>3, HeldFacts
<1>5. ASSUME NEW p, Holds(at, p), p.k <= key
      PROVE  p.k <= b[i].k
  <2>1. p.k \in Long /\ p.v # NULL
    BY <1>5, HeldKey
  <2>2. PICK c \in at[1], j \in Slot : mem[c][j] = p /\ InSpan(p.k, c, lo, hi)
    BY <1>5, HeldKey
  <2>3. SUFFICES ASSUME b[i].k < p.k PROVE FALSE
    BY <1>4, <2>1 DEF Long
  <2>4. PICK k \in Int : k = p.k
    BY <2>1 DEF Long
  <2>5. InSpan(k, n, lo, hi) /\ InSpan(k, c, lo, hi)
    BY <1>1, <1>4, <1>5, <2>2, <2>3, <2>4 DEF InSpan, Long
  <2>6. c = n
    BY <1>1, <2>5, SpansApart
  <2>7. b[j].v # NULL /\ b[j].k <= key
    BY <1>2, <1>5, <2>1, <2>2, <2>6
  <2>8. b[j].k <= b[getpos(b, key)].k
    BY <1>2, <2>7, SlotsFrom
  <2> QED
    BY <1>2, <1>4, <2>1, <2>2, <2>3, <2>6, <2>8 DEF Long
<1>6. Holds(at, mem[n][i])
  BY <1>2, <1>3 DEF Holds
<1> QED
  BY <1>2, <1>3, <1>4, <1>5, <1>6

(* The first slot of the leaf at the right end has the greatest key.       *)
LEMMA GreatestOfAll ==
  ASSUME TypeOK, NEW at, NEW lo, NEW hi, Shape(mem, root, height, at, lo, hi), height > 0,
         NEW n \in at[1], hi[n] = MaxLong + 1, mem[n][0].v # NULL
  PROVE  /\ Holds(at, mem[n][0])
         /\ \A p : Holds(at, p) => p.k <= mem[n][0].k
<1>1. /\ 1 \in 1 .. height /\ n \in Node /\ Ordered(mem[n]) /\ lo[n] \in Int /\ 0 \in Slot
  BY HeldFacts, SlotFacts
<1>2. mem[n][0].k \in Long /\ InSpan(mem[n][0].k, n, lo, hi)
  BY <1>1, HeldFacts
<1>3. ASSUME NEW p, Holds(at, p)
      PROVE  p.k <= mem[n][0].k
  <2>1. p.k \in Long /\ p.v # NULL
    BY <1>3, HeldKey
  <2>2. PICK c \in at[1], j \in Slot : mem[c][j] = p /\ InSpan(p.k, c, lo, hi)
    BY <1>3, HeldKey
  <2>3. CASE c = n
    <3>1. j = 0 \/ 0 < j
      BY SlotFacts
    <3>2. 0 < j => mem[n][0].k > mem[n][j].k
      BY <1>1, <2>1, <2>2, <2>3 DEF Ordered
    <3> QED
      BY <1>2, <2>1, <2>2, <2>3, <3>1, <3>2 DEF Long
  <2>4. CASE c # n
    <3>1. hi[c] <= lo[n] \/ hi[n] <= lo[c]
      BY <1>1, <2>4 DEF Shape, Apart
    <3>2. lo[c] \in Int /\ hi[c] \in Int /\ MaxLong \in Nat
      BY HeldFacts, MaxLongAssumption
    <3> QED
      BY <1>1, <1>2, <2>1, <2>2, <3>1, <3>2 DEF InSpan, Long
  <2> QED
    BY <2>3, <2>4
<1>4. Holds(at, mem[n][0])
  BY <1>1 DEF Holds
<1> QED
  BY <1>3, <1>4

LEMMA HoldsSame ==
  ASSUME UNCHANGED <<mem, height>>, NEW at, NEW p
  PROVE  Holds(at, p)' <=> Holds(at, p)
BY DEF Holds

(* What a call that looks for the greatest key below another answers.      *)
AnswersBelow(at, key, val) ==
  \/ key = call.ukey /\ val = NULL /\ \A p : Holds(at, p) => ~ (p.k < call.ukey)
  \/ \E p : /\ Holds(at, p) /\ p.k < call.ukey /\ key = p.k /\ val = p.v
            /\ \A q : Holds(at, q) /\ q.k < call.ukey => q.k <= p.k

LEMMA prev_stepWalks ==
  ASSUME TypeOK, Kinds, NEW at, NEW lo, NEW hi, Grown(at, lo, hi), PrevWalk(at, lo, hi),
         Nonzero, Asking, prev_step
  PROVE  \/ \E key, val : Finish("ok", key, val) /\ AnswersBelow(at, key, val)
         \/ call'.pc = "prev" /\ PrevWalk(at, lo, hi)'
<1>1. /\ call.pc = "prev" /\ call.op = "get_prev" /\ height > 0
      /\ call.h \in 1 .. height /\ call.cur \in at[call.h] /\ InSpan(call.key, call.cur, lo, hi)
      /\ call.key < call.ukey
      /\ \A p : Holds(at, p) /\ p.k < call.ukey => p.k <= call.key
      /\ IF call.h = height THEN call.retry = NULL
         ELSE call.retry = lo[call.cur] /\ call.retry \in Long \ {0}
      /\ UNCHANGED <<mem, root, height>>
  BY DEF prev_step, PrevWalk
<1>2. /\ Shape(mem, root, height, at, lo, hi) /\ height \in Nat
      /\ at \in [1 .. height -> SUBSET Node] /\ lo \in [Node -> Int]
  BY <1>1, StillTree DEF Inserting, Grown, Shape, Levels, Spans
<1>3. call \in CallRecord /\ call.key \in Long /\ call.ukey \in Long /\ call.h \in Int
  BY DEF TypeOK, CallRecord
<1>4. PICK h \in 1 .. height, c \in Node, key \in Long :
        h = call.h /\ c = call.cur /\ key = call.key /\ c \in at[h] /\ InSpan(key, c, lo, hi)
  BY <1>1, <1>2, <1>3
<1>5. PICK n \in NodeOver(Ptr) : n = mem[c]
  BY MemType
<1>6. PICK i : i = getpos(n, key)
  OBVIOUS
<1>7. Asks("get_prev")
  <2>1. PICK r \in Requests : r.op = call.op
    BY <1>1 DEF Asking, Requests
  <2> QED
    BY <1>1, <2>1 DEF Asks
<1>8. CASE i = NoPairs \/ n[i].v = NULL
  <2>1. \A p : Holds(at, p) /\ p.k <= key => ~ (lo[c] <= p.k)
    BY <1>2, <1>4, <1>5, <1>6, <1>8, NoneBelow
  <2>2. Miss
    BY <1>1, <1>4, <1>5, <1>6, <1>8 DEF prev_step
  <2>3. CASE call.retry = NULL
    <3>1. Finish("ok", call.ukey, NULL)
      BY <2>2, <2>3 DEF Miss
    <3>2. call.h = height
      BY <1>1, <2>3, ValAssumption
    <3>3. lo[c] = 0
      <4>1. at[height] = {root} /\ lo[root] = 0
        BY <1>1, <1>2 DEF Shape, Levels, Spans
      <4> QED
        BY <1>4, <3>2, <4>1
    <3>4. \A p : Holds(at, p) => ~ (p.k < call.ukey)
      <4>1. ASSUME NEW p, Holds(at, p), p.k < call.ukey
            PROVE  FALSE
        <5>1. p.k \in Long /\ p.k <= key
          BY <1>1, <1>2, <1>4, <4>1, HeldKey
        <5> QED
          BY <2>1, <3>3, <4>1, <5>1 DEF Long
      <4> QED
        BY <4>1
    <3> QED
      BY <3>1, <3>4 DEF AnswersBelow
  <2>4. CASE call.retry # NULL
    <3>1. call.retry = lo[c] /\ lo[c] \in Long \ {0}
      BY <1>1, <1>4, <2>4
    <3>2. PICK low \in Long : low = lo[c] - 1 /\ low = Dec(call.retry)
      <4>1. Dec(call.retry) = lo[c] - 1
        BY <3>1 DEF Dec
      <4>2. lo[c] - 1 \in Long
        BY <3>1, MaxLongAssumption DEF Long
      <4> QED
        BY <4>1, <4>2
    <3>3. call' = [FromRoot(call, "prev") EXCEPT !.key = low, !.retry = NULL]
      BY <2>2, <2>4, <3>2 DEF Miss
    <3>4. /\ call'.pc = "prev" /\ call'.op = call.op /\ call'.ukey = call.ukey
          /\ call'.key = low /\ call'.cur = root /\ call'.h = height /\ call'.retry = NULL
      BY <1>3, <3>3 DEF FromRoot, CallRecord
    <3>5. height \in 1 .. height /\ root \in at[height] /\ InSpan(low, root, lo, hi)
      BY <1>1, <1>2, RootSpan
    <3>6. low < call.ukey
      BY <1>1, <1>3, <1>4, <3>1, <3>2 DEF InSpan, Long
    <3>7. ASSUME NEW p, Holds(at, p), p.k < call.ukey
          PROVE  p.k <= low
      <4>1. p.k \in Long /\ p.k <= key
        BY <1>1, <1>2, <1>4, <3>7, HeldKey
      <4>2. ~ (lo[c] <= p.k)
        BY <2>1, <3>7, <4>1
      <4> QED
        BY <3>1, <3>2, <4>1, <4>2 DEF Long
    <3>8. \A p : Holds(at, p)' <=> Holds(at, p)
      BY <1>1, HoldsSame
    <3>9. InSpan(call'.key, call'.cur, lo, hi)
      BY <3>4, <3>5
    <3> QED
      BY <1>1, <3>4, <3>5, <3>6, <3>7, <3>8, <3>9 DEF PrevWalk, InSpan
  <2> QED
    BY <2>3, <2>4
<1>9. CASE i # NoPairs /\ n[i].v # NULL
  <2>1. Ordered(n)
    BY <1>2, <1>4, <1>5 DEF Shape, Spans
  <2>2. i \in Slot
    BY <1>6, <1>9, <2>1, SlotsFrom
  <2>3. CASE h > 1
    <3>1. call' = [call EXCEPT !.cur = n[i].v, !.h = @ - 1, !.retry = n[i].k]
      BY <1>1, <1>4, <1>5, <1>6, <1>9, <2>3 DEF prev_step
    <3>2. PICK l \in 1 .. (height - 1) : l = h - 1 /\ l + 1 = h
      BY <1>2, <2>3
    <3>3. PICK d : d = n[i].v
      OBVIOUS
    <3>4. i \in Used(mem, c) /\ d \in at[l] /\ InSpan(key, d, lo, hi)
      <4>1. c \in at[l + 1] /\ InSpan(key, c, lo, hi)
        BY <1>4, <3>2
      <4>2. i = getpos(mem[c], key) /\ mem[c][i].v # NULL /\ mem[c][i].v = d
        BY <1>5, <1>6, <1>9, <3>3
      <4>3. i \in Used(mem, c) /\ mem[c][i].v \in at[l] /\ InSpan(key, mem[c][i].v, lo, hi)
        BY <1>2, <1>9, <4>1, <4>2, Descend
      <4> QED
        BY <4>2, <4>3
    <3>5. lo[d] = n[i].k /\ d \in Node
      BY <1>2, <1>4, <1>5, <3>2, <3>3, <3>4, ChildSpan
    <3>6. n[i].k \in Long \ {0}
      <4>1. n[i].k \in Long
        BY <2>2 DEF NodeOver
      <4> QED
        BY <1>5, <1>7, <1>9, <2>2, <4>1 DEF Nonzero
    <3>7. /\ call'.pc = "prev" /\ call'.op = call.op /\ call'.ukey = call.ukey
          /\ call'.key = key /\ call'.cur = d /\ call'.h = l /\ call'.retry = lo[d]
      BY <1>1, <1>3, <1>4, <3>1, <3>2, <3>3, <3>5 DEF CallRecord
    <3>8. l \in 1 .. height /\ l # height
      BY <1>2, <3>2
    <3>9. \A p : Holds(at, p)' <=> Holds(at, p)
      BY <1>1, HoldsSame
    <3>10. InSpan(call'.key, call'.cur, lo, hi)
      BY <3>4, <3>7
    <3> QED
      BY <1>1, <1>4, <3>4, <3>5, <3>6, <3>7, <3>8, <3>9, <3>10 DEF PrevWalk, InSpan
  <2>4. CASE h = 1
    <3>1. Finish("ok", n[i].k, n[i].v)
      BY <1>1, <1>4, <1>5, <1>6, <1>9, <2>4 DEF prev_step
    <3>2. /\ n[i].k \in Long /\ n[i].k <= key /\ Holds(at, n[i])
          /\ \A p : Holds(at, p) /\ p.k <= key => p.k <= n[i].k
      BY <1>1, <1>2, <1>4, <1>5, <1>6, <1>9, <2>4, GreatestBelow
    <3>3. n[i].k < call.ukey
      BY <1>1, <1>3, <1>4, <3>2 DEF Long
    <3>4. \A q : Holds(at, q) /\ q.k < call.ukey => q.k <= n[i].k
      BY <1>1, <1>4, <3>2
    <3> QED
      BY <3>1, <3>2, <3>3, <3>4 DEF AnswersBelow
  <2> QED
    BY <1>2, <2>3, <2>4
<1> QED
  BY <1>8, <1>9

(* What a call that looks for the greatest key of all answers.             *)
AnswersLast(at, key, val) ==
  \E p : Holds(at, p) /\ key = p.k /\ val = p.v /\ \A q : Holds(at, q) => q.k <= p.k

LEMMA last_stepWalks ==
  ASSUME TypeOK, Kinds, NEW at, NEW lo, NEW hi, Grown(at, lo, hi), LastWalk(at, hi), Seeded,
         last_step
  PROVE  \/ \E key, val : Finish("ok", key, val) /\ AnswersLast(at, key, val)
         \/ call'.pc = "last" /\ LastWalk(at, hi)'
<1>1. /\ call.pc = "last" /\ call.op = "last" /\ height > 0
      /\ call.h \in 1 .. height /\ call.cur \in at[call.h] /\ hi[call.cur] = MaxLong + 1
      /\ UNCHANGED <<mem, root, height>>
  BY DEF last_step, LastWalk
<1>2. /\ Shape(mem, root, height, at, lo, hi) /\ height \in Nat
      /\ at \in [1 .. height -> SUBSET Node] /\ 0 \in Slot
  BY <1>1, StillTree, SlotFacts DEF Inserting, Grown, Shape, Levels
<1>3. call \in CallRecord
  BY DEF TypeOK
<1>4. PICK h \in 1 .. height, c \in Node :
        h = call.h /\ c = call.cur /\ c \in at[h] /\ hi[c] = MaxLong + 1
  BY <1>1, <1>2
<1>5. mem[c][0].v # NULL
  <2>1. CASE height > 1
    BY <1>2, <1>4, <2>1 DEF Shape, Levels
  <2>2. CASE height = 1
    <3>1. at[height] = {root} /\ mem[root][0].v # NULL
      BY <1>1, <1>2, <2>2 DEF Shape, Levels, Seeded
    <3>2. h = height
      BY <1>4, <2>2
    <3> QED
      BY <1>4, <3>1, <3>2
  <2> QED
    BY <1>1, <1>2, <2>1, <2>2
<1>6. CASE h > 1
  <2>1. call' = [call EXCEPT !.cur = mem[c][0].v, !.h = @ - 1]
    BY <1>1, <1>4, <1>6 DEF last_step
  <2>2. PICK l \in 1 .. (height - 1) : l = h - 1 /\ l + 1 = h
    BY <1>2, <1>6
  <2>3. c \in at[l + 1] /\ 0 \in Used(mem, c)
    BY <1>2, <1>4, <1>5, <2>2 DEF Used
  <2>4. mem[c][0].v \in at[l] /\ hi[mem[c][0].v] = hi[c]
    BY <1>2, <2>3, ChildSpan
  <2>5. /\ call'.pc = "last" /\ call'.op = "last" /\ call'.cur = mem[c][0].v /\ call'.h = l
    BY <1>1, <1>3, <1>4, <2>1, <2>2 DEF CallRecord
  <2>6. l \in 1 .. height
    BY <1>2, <2>2
  <2> QED
    BY <1>1, <1>4, <2>4, <2>5, <2>6 DEF LastWalk
<1>7. CASE h = 1
  <2>1. Finish("ok", mem[c][0].k, mem[c][0].v)
    BY <1>1, <1>4, <1>7 DEF last_step
  <2>2. /\ Holds(at, mem[c][0])
        /\ \A p : Holds(at, p) => p.k <= mem[c][0].k
    BY <1>1, <1>2, <1>4, <1>5, <1>7, GreatestOfAll
  <2> QED
    BY <2>1, <2>2 DEF AnswersLast
<1> QED
  BY <1>2, <1>6, <1>7

LEMMA NothingThereStep ==
  ASSUME Growing, TypeOK, CountInv, Kinds, Kinds', NEW at, NEW lo, NEW hi, Grown(at, lo, hi),
         ~ KmallocFails, NothingThere, [Next]_vars
  PROVE  NothingThere'
<1>1. ASSUME call'.pc # "unwind" PROVE NothingThere'
  BY <1>1 DEF NothingThere
<1>2. CASE UNCHANGED vars
  BY <1>2 DEF vars, NothingThere
<1>3. CASE ClientStep
  <2>1. CASE cbtree_insert \/ cbtree_lookup
    BY <1>1, <2>1 DEF cbtree_insert, cbtree_lookup, Start, Idle
  <2>2. ~ cbtree_remove
    <3>1. SUFFICES ASSUME cbtree_remove PROVE FALSE
      OBVIOUS
    <3>2. PICK c \in Client : /\ c.op = "remove"
                              /\ Start(c, IF height = 0 THEN "unwind" ELSE "erase", 0)
      BY <3>1 DEF cbtree_remove, Calling
    <3>3. call'.op = "remove"
      BY <3>2 DEF Start, Idle
    <3>4. call'.op # "remove"
      BY DEF Kinds
    <3> QED
      BY <3>3, <3>4
  <2>3. CASE cbtree_get_prev
    <3>1. PICK c \in Client : /\ c.op = "get_prev"
                              /\ Start(c, IF c.key = 0 \/ height = 0 THEN "unwind" ELSE "prev",
                                       Dec(c.key))
      BY <2>3 DEF cbtree_get_prev, Calling
    <3>2. /\ call'.op = "get_prev" /\ call'.ukey = c.key /\ call'.res.val = NULL
          /\ call'.pc = IF c.key = 0 \/ height = 0 THEN "unwind" ELSE "prev"
          /\ UNCHANGED height
      BY <3>1 DEF Start, Idle, NoResult
    <3> QED
      BY <3>2 DEF NothingThere
  <2>4. CASE cbtree_last
    <3>1. PICK c \in Client :
            c.op = "last" /\ Start(c, IF height = 0 THEN "unwind" ELSE "last", 0)
      BY <2>4 DEF cbtree_last, Calling
    <3>2. /\ call'.op = "last" /\ call'.res.val = NULL
          /\ call'.pc = IF height = 0 THEN "unwind" ELSE "last"
          /\ UNCHANGED height
      BY <3>1 DEF Start, Idle, NoResult
    <3> QED
      BY <3>2 DEF NothingThere
  <2> QED
    BY <1>3, <2>1, <2>2, <2>3, <2>4 DEF ClientStep
<1>4. CASE find_level \/ InsertStep
  <2>1. CASE InsertEnds
    <3>1. \E status : Finish(status, 0, NULL)
      BY <2>1, EndsAlone
    <3> QED
      BY <1>1, <3>1, FinishKinds
  <2>2. CASE ~ InsertEnds
    <3>1. Inserting'
      BY <1>4, <2>2, InsertMoves
    <3> QED
      BY <1>1, <3>1 DEF Inserting
  <2> QED
    BY <2>1, <2>2
<1>5. CASE RemoveStep \/ QueryStep
  <2>1. QueryStep \/ remove_returns
    BY <1>5, NoRemoval
  <2> QED
    BY <1>1, <2>1, QueryMoves
<1>6. CASE Return
  BY <1>1, <1>6 DEF Return, Idle
<1> QED
  BY <1>2, <1>3, <1>4, <1>5, <1>6 DEF Next, LibraryStep

LEMMA WalkStep ==
  ASSUME Growing, TypeOK, CountInv, Kinds, Kinds', NEW at, NEW lo, NEW hi, Walking(at, lo, hi),
         ~ KmallocFails, Seeded, Nonzero, Asking, [Next]_vars, GrowInv'
  PROVE  WalkInv'
<1>1. Grown(at, lo, hi) /\ PrevWalk(at, lo, hi) /\ LastWalk(at, hi)
  BY DEF Walking
<1>2. ASSUME call'.pc \notin {"prev", "last"} PROVE WalkInv'
  <2>1. PICK b, l, h : Grown(b, l, h)'
    BY DEF GrowInv
  <2>2. Walking(b, l, h)'
    BY <1>2, <2>1 DEF Walking, PrevWalk, LastWalk
  <2> QED
    BY <2>2 DEF WalkInv
<1>3. ASSUME Grown(at, lo, hi)', PrevWalk(at, lo, hi)', LastWalk(at, hi)' PROVE WalkInv'
  BY <1>3 DEF Walking, WalkInv
<1>4. CASE UNCHANGED vars
  <2>1. UNCHANGED <<mem, root, height, call>>
    BY <1>4 DEF vars
  <2>2. PrevWalk(at, lo, hi)'
    BY <1>1, <2>1 DEF PrevWalk, InSpan, Holds
  <2>3. LastWalk(at, hi)'
    BY <1>1, <2>1 DEF LastWalk
  <2> QED
    BY <1>1, <1>3, <1>4, <2>2, <2>3, StutterGrows
<1>5. CASE ClientStep
  <2>1. Grown(at, lo, hi)'
    BY <1>1, <1>5, ClientGrows
  <2>2. Shape(mem, root, height, at, lo, hi)
    BY <1>1, <1>5, StillTree DEF Grown, ClientStep, cbtree_insert, cbtree_remove, cbtree_lookup,
       cbtree_get_prev, cbtree_last, Calling, Inserting
  <2>3. height \in Nat
    BY <2>2 DEF Shape, Levels
  <2>4. CASE cbtree_get_prev
    <3>1. PICK c \in Client : /\ c.op = "get_prev"
                              /\ Start(c, IF c.key = 0 \/ height = 0 THEN "unwind" ELSE "prev",
                                       Dec(c.key))
      BY <2>4 DEF cbtree_get_prev, Calling
    <3>2. /\ call'.pc = IF c.key = 0 \/ height = 0 THEN "unwind" ELSE "prev"
          /\ UNCHANGED <<mem, root, height>>
          /\ call'.op = "get_prev" /\ call'.ukey = c.key /\ call'.key = Dec(c.key)
          /\ call'.cur = root /\ call'.h = height /\ call'.retry = NULL
      BY <3>1 DEF Start, Idle
    <3>3. CASE call'.pc # "prev"
      BY <1>2, <3>2, <3>3
    <3>4. CASE call'.pc = "prev"
      <4>1. height > 0 /\ c.key \in Long /\ c.key # 0
        BY <2>3, <3>2, <3>4, ClientsRequest DEF CallType
      <4>2. PICK key \in Long : key = Dec(c.key) /\ key = c.key - 1
        BY <4>1, MaxLongAssumption DEF Dec, Long
      <4>3. height \in 1 .. height /\ root \in at[height] /\ InSpan(key, root, lo, hi)
        BY <2>2, <4>1, RootSpan
      <4>4. key < c.key
        BY <4>1, <4>2 DEF Long
      <4>5. ASSUME NEW p, Holds(at, p), p.k < c.key
            PROVE  p.k <= key
        <5>1. p.k \in Long
          BY <2>2, <4>5, HeldKey
        <5> QED
          BY <4>1, <4>2, <4>5, <5>1 DEF Long
      <4>6. \A p : Holds(at, p)' <=> Holds(at, p)
        BY <3>2, HoldsSame
      <4>7. PrevWalk(at, lo, hi)'
        BY <3>2, <3>4, <4>1, <4>2, <4>3, <4>4, <4>5, <4>6 DEF PrevWalk, InSpan
      <4>8. LastWalk(at, hi)'
        BY <3>4 DEF LastWalk
      <4> QED
        BY <1>3, <2>1, <4>7, <4>8
    <3> QED
      BY <3>3, <3>4
  <2>5. CASE cbtree_last
    <3>1. PICK c \in Client :
            c.op = "last" /\ Start(c, IF height = 0 THEN "unwind" ELSE "last", 0)
      BY <2>5 DEF cbtree_last, Calling
    <3>2. /\ call'.pc = IF height = 0 THEN "unwind" ELSE "last"
          /\ UNCHANGED <<mem, root, height>>
          /\ call'.op = "last" /\ call'.cur = root /\ call'.h = height
      BY <3>1 DEF Start, Idle
    <3>3. CASE height = 0
      BY <1>2, <3>2, <3>3
    <3>4. CASE height # 0
      <4>1. height > 0 /\ hi[root] = MaxLong + 1
        BY <2>2, <2>3, <3>4 DEF Shape, Spans
      <4>2. height \in 1 .. height /\ root \in at[height]
        BY <2>2, <2>3, <4>1 DEF Shape, Levels
      <4>3. LastWalk(at, hi)'
        BY <3>2, <4>1, <4>2 DEF LastWalk
      <4>4. PrevWalk(at, lo, hi)'
        BY <3>2, <3>4 DEF PrevWalk
      <4> QED
        BY <1>3, <2>1, <4>3, <4>4
    <3> QED
      BY <3>3, <3>4
  <2>6. CASE cbtree_insert \/ cbtree_remove \/ cbtree_lookup
    <3>1. call'.pc \in {"enter", "unwind", "erase", "lookup"}
      BY <2>6 DEF cbtree_insert, cbtree_remove, cbtree_lookup, Start, Idle
    <3> QED
      BY <1>2, <3>1
  <2> QED
    BY <1>5, <2>4, <2>5, <2>6 DEF ClientStep
<1>6. CASE find_level \/ InsertStep
  <2>1. CASE InsertEnds
    <3>1. \E status : Finish(status, 0, NULL)
      BY <1>1, <2>1, EndsAlone
    <3> QED
      BY <1>2, <3>1, FinishKinds
  <2>2. CASE ~ InsertEnds
    <3>1. Inserting'
      BY <1>1, <1>6, <2>2, InsertMoves
    <3> QED
      BY <1>2, <3>1 DEF Inserting
  <2> QED
    BY <2>1, <2>2
<1>7. CASE prev_step
  <2>1. CASE \E key, val : Finish("ok", key, val)
    BY <1>2, <2>1, FinishKinds
  <2>2. CASE call'.pc = "prev" /\ PrevWalk(at, lo, hi)'
    <3>1. Grown(at, lo, hi)'
      BY <1>1, <1>7, PrevLastGrows
    <3>2. LastWalk(at, hi)'
      BY <2>2 DEF LastWalk
    <3> QED
      BY <1>3, <2>2, <3>1, <3>2
  <2> QED
    BY <1>1, <1>7, <2>1, <2>2, prev_stepWalks
<1>8. CASE last_step
  <2>1. CASE \E key, val : Finish("ok", key, val)
    BY <1>2, <2>1, FinishKinds
  <2>2. CASE call'.pc = "last" /\ LastWalk(at, hi)'
    <3>1. Grown(at, lo, hi)'
      BY <1>1, <1>8, PrevLastGrows
    <3>2. PrevWalk(at, lo, hi)'
      BY <2>2 DEF PrevWalk
    <3> QED
      BY <1>3, <2>2, <3>1, <3>2
  <2> QED
    BY <1>1, <1>8, <2>1, <2>2, last_stepWalks
<1>9. CASE RemoveStep
  <2>1. remove_returns
    BY <1>9, NoRemoval
  <2>2. call'.pc = "done"
    BY <2>1, FinishKinds DEF remove_returns
  <2> QED
    BY <1>2, <2>2
<1>10. CASE QueryStep /\ ~ prev_step /\ ~ last_step
  <2>1. call.pc \in {"lookup", "answer"}
    BY <1>10 DEF QueryStep, lookup_leaf, lookup_node, setcache, lookup_returns, cbtree_update
  <2>2. call.op \in {"lookup", "update"}
    BY <2>1 DEF Kinds, LookingUp
  <2>3. call'.op = call.op
    BY <1>10, QueryMoves
  <2>4. call'.pc \notin {"prev", "last"}
    BY <2>2, <2>3 DEF Kinds
  <2> QED
    BY <1>2, <2>4
<1>11. CASE Return
  BY <1>2, <1>11 DEF Return, Idle
<1> QED
  BY <1>4, <1>5, <1>6, <1>7, <1>8, <1>9, <1>10, <1>11 DEF Next, LibraryStep

LEMMA InitMap == Init => MapInv
<1> SUFFICES ASSUME Init PROVE MapInv
  OBVIOUS
<1>1. /\ mem = [n \in Node |-> EmptyNode] /\ root = NULL /\ height = 0 /\ alloc = {}
      /\ call.pc = "idle" /\ call.op = "none" /\ call.stack = <<>>
  BY DEF Init, Idle
<1>2. Queued /\ Asking /\ Seeded /\ Refused /\ NothingThere
  BY <1>1 DEF Queued, Asking, Seeded, Refused, NothingThere, Inserting
<1>3. Nonzero
  BY <1>1, EmptyOrder DEF Nonzero
<1>4. PICK at, lo, hi : Grown(at, lo, hi)
  BY InitGrows DEF GrowInv
<1>5. Walking(at, lo, hi)
  BY <1>1, <1>4 DEF Walking, PrevWalk, LastWalk
<1> QED
  BY <1>2, <1>3, <1>5 DEF MapInv, Standing, WalkInv

LEMMA MapStep ==
  ASSUME Growing, Served, TypeOK, CountInv, Kinds, GrowInv, MapInv, [Next]_vars,
         TypeOK', CountInv', Kinds', GrowInv'
  PROVE  MapInv'
<1>1. PICK at, lo, hi : Walking(at, lo, hi)
  BY DEF MapInv, WalkInv
<1>2. Grown(at, lo, hi) /\ ~ KmallocFails
  BY <1>1 DEF Walking, Served
<1>3. Queued /\ Asking /\ Nonzero /\ Seeded /\ Refused /\ NothingThere
  BY DEF MapInv, Standing
<1>4. Queued'
  BY <1>2, <1>3, QueuedStep
<1>5. Asking'
  BY <1>2, <1>3, AskingStep
<1>6. Nonzero'
  BY <1>2, <1>3, NonzeroStep
<1>7. Seeded'
  BY <1>2, <1>3, SeededStep
<1>8. Refused'
  BY <1>2, <1>3, RefusedStep
<1>9. NothingThere'
  BY <1>2, <1>3, NothingThereStep
<1>10. WalkInv'
  BY <1>1, <1>2, <1>3, WalkStep
<1> QED
  BY <1>4, <1>5, <1>6, <1>7, <1>8, <1>9, <1>10 DEF MapInv, Standing

(* A growing tree whose clients are served keeps the map's invariant.      *)
LEMMA MapKept ==
  ASSUME Growing, Served
  PROVE  Spec => [](TypeOK /\ CountInv /\ Kinds /\ GrowInv /\ MapInv)
<1>1. Init => CountInv /\ Kinds /\ GrowInv /\ MapInv
  BY InitCounts, InitGrows, InitMap
<1>2. TypeOK /\ CountInv /\ Kinds /\ GrowInv /\ MapInv /\ [Next]_vars /\ TypeOK'
      => CountInv' /\ Kinds' /\ GrowInv' /\ MapInv'
  BY GrowthStep, MapStep
<1> QED
  BY <1>1, <1>2, TypeCorrect, PTL DEF Spec

-----------------------------------------------------------------------------
(* Each step of the tree is a step of the map, or none. *)

LEMMA Responds ==
  ASSUME NEW c \in Requests, MapAnswer = NULL,
         Map!Insert(c) \/ Map!GetPrev(c) \/ Map!Last(c) \/ Map!Lookup(c) \/ Map!Update(c)
  PROVE  Map!Next
BY DEF Map!Next, Map!Respond, Map!NoAnswer, Requests

(* A call of these that has not been answered leaves the pairs alone, and  *)
(* one that is answered now shows them as they are.                        *)
LEMMA Unanswered ==
  ASSUME Kinds
  PROVE  /\ call.pc # "done" => MapAnswer = NULL
         /\ MapPairs = Contents
BY DEF Kinds, MapAnswer, MapPairs, Removing

LEMMA UnansweredNext ==
  ASSUME Kinds'
  PROVE  /\ call'.pc # "done" => MapAnswer' = NULL
         /\ MapPairs' = Contents'
BY DEF Kinds, MapAnswer, MapPairs, Removing

LEMMA Answered ==
  ASSUME NEW status, NEW key, NEW val, Finish(status, key, val), NEW c,
         c.op = call.op, c.key = call.ukey, c.val = call.val
  PROVE  MapAnswer' = Map!Answer(c, status, key, val)
<1>1. /\ call'.pc = "done" /\ call'.op = call.op /\ call'.ukey = call.ukey
      /\ call'.val = call.val
      /\ call'.res = [status |-> status, key |-> key, val |-> val]
  BY FinishKinds
<1>2. call'.res.status = status /\ call'.res.key = key /\ call'.res.val = val
  BY <1>1
<1> QED
  BY <1>1, <1>2 DEF MapAnswer, Map!Answer

(* The pairs of the map at a key.                                          *)
LEMMA AtStored ==
  ASSUME TypeOK, CountInv, Kinds, NEW at, NEW lo, NEW hi, Grown(at, lo, hi), NEW key
  PROVE  Map!At(key) = {} <=> ~ Stored(at, key)
<1>1. MapPairs = Contents
  BY Unanswered
<1>2. Map!At(key) = {p \in Contents : p.k = key}
  BY <1>1 DEF Map!At
<1>3. \A p : p \in Contents <=> Holds(at, p)
  BY HeldPairs
<1>4. ASSUME NEW p \in Contents, p.k = key
      PROVE  Stored(at, key)
  <2>1. height > 0 /\ \E n \in at[1], i \in Slot : mem[n][i] = p /\ p.v # NULL
    BY <1>3 DEF Holds
  <2> QED
    BY <1>4, <2>1 DEF Stored
<1>5. ASSUME Stored(at, key)
      PROVE  \E p \in Contents : p.k = key
  <2>1. PICK n \in at[1], i \in Slot : height > 0 /\ mem[n][i].v # NULL /\ mem[n][i].k = key
    BY <1>5 DEF Stored
  <2>2. Holds(at, mem[n][i])
    BY <2>1 DEF Holds
  <2> QED
    BY <1>3, <2>1, <2>2
<1> QED
  BY <1>2, <1>4, <1>5

(* An answer is something else than none.                                  *)
LEMMA AnswerShown ==
  ASSUME TypeOK, Asking, call.pc = "done"
  PROVE  MapAnswer # NULL
<1>1. PICK c \in Requests : c.op = call.op
  BY DEF Asking, Requests
<1>2. c \in CallType
  <2>1. CASE c \in Calls
    BY <2>1, CallsAssumption
  <2>2. CASE \E i \in 1 .. Len(Fill) : c = Fill[i]
    BY <2>2, CallsAssumption, ElementOfSeq
  <2> QED
    BY <2>1, <2>2 DEF Requests
<1>3. call.op \in {"insert", "remove", "lookup", "update", "get_prev", "last"}
  BY <1>1, <1>2 DEF CallType
<1>4. call.ukey \in Long /\ call.val \in Ptr /\ call.res \in Result
  BY DEF TypeOK, CallRecord
<1>5. /\ call.res.status \in {"ok", "enomem", "enoent", "bug", "oops"}
      /\ call.res.key \in Long /\ call.res.val \in Ptr
  BY <1>4 DEF Result
<1>6. MapAnswer \in [op : {"insert", "remove", "lookup", "update", "get_prev", "last"},
                     key : Long, val : Ptr, status : {"ok", "enomem", "enoent", "bug", "oops"},
                     rkey : Long, rval : Ptr]
  BY <1>3, <1>4, <1>5 DEF MapAnswer
<1> QED
  BY <1>6, AnswerAssumption

LEMMA MapReturns ==
  ASSUME TypeOK, Kinds, Kinds', Asking, Return
  PROVE  Map!Next
<1>1. call.pc = "done" /\ call'.pc = "idle" /\ UNCHANGED <<mem, root, height>>
  BY DEF Return, Idle
<1>2. MapAnswer # NULL /\ MapAnswer' = NULL
  BY <1>1, AnswerShown, UnansweredNext
<1>3. MapPairs' = MapPairs
  BY <1>1, QuietContents, Unanswered, UnansweredNext
<1> QED
  BY <1>2, <1>3 DEF Map!Next, Map!Return, Map!NoAnswer

(* The request that is being answered.                                     *)
LEMMA Requested ==
  ASSUME Asking, call.pc # "idle", call.stack = <<>> \/ ~ Inserting
  PROVE  \E c \in Requests : c.op = call.op /\ c.key = call.ukey /\ c.val = call.val
BY DEF Asking, ClientVal

LEMMA InsertAnswers ==
  ASSUME TypeOK, CountInv, Kinds, NEW at, NEW lo, NEW hi, Grown(at, lo, hi), Asking, Refused,
         InsertEnds, TypeOK', CountInv', Kinds'
  PROVE  Map!Next
<1>1. call.stack = <<>> /\ Inserting /\ call.op = "insert" /\ call.pc \notin {"idle", "done"}
  BY EndsAlone DEF Inserting
<1>2. PICK c \in Requests : c.op = call.op /\ c.key = call.ukey /\ c.val = call.val
  BY <1>1, Requested
<1>3. MapAnswer = NULL /\ MapPairs = Contents /\ MapPairs' = Contents'
  BY <1>1, Unanswered, UnansweredNext
<1>4. Map!At(c.key) = {p \in Contents : p.k = c.key}
  BY <1>3 DEF Map!At
<1>5. SUFFICES Map!Insert(c)
  BY <1>3, Responds
<1>6. CASE insert_level /\ call.val = NULL
  <2>1. Finish("bug", 0, NULL) /\ UNCHANGED <<mem, root, height>>
    BY <1>6 DEF insert_level, Bug
  <2>2. MapPairs' = MapPairs
    BY <1>3, <2>1, QuietContents
  <2>3. MapAnswer' = Map!Answer(c, "bug", 0, NULL)
    BY <1>2, <2>1, Answered
  <2> QED
    BY <1>1, <1>2, <1>6, <2>2, <2>3 DEF Map!Insert
<1>7. CASE insert_bug
  <2>1. Finish("bug", 0, NULL) /\ UNCHANGED <<mem, root, height>>
    BY <1>7 DEF insert_bug, Bug
  <2>2. MapPairs' = MapPairs
    BY <1>3, <2>1, QuietContents
  <2>3. MapAnswer' = Map!Answer(c, "bug", 0, NULL)
    BY <1>2, <2>1, Answered
  <2>4. call.val = NULL \/ Stored(at, call.ukey)
    <3>1. Verdict(at)'
      BY <1>7, insert_bugGrows DEF Grown
    <3>2. /\ call'.pc = "done" /\ call'.res.status = "bug" /\ call'.val = call.val
          /\ call'.ukey = call.ukey
      BY <2>1, FinishKinds
    <3>3. Stored(at, call.ukey)' => Stored(at, call.ukey)
      BY <2>1, <3>2 DEF Stored
    <3> QED
      BY <3>1, <3>2, <3>3 DEF Verdict
  <2>5. c.val = NULL \/ Map!At(c.key) # {}
    BY <1>2, <2>4, AtStored
  <2> QED
    BY <1>1, <1>2, <2>2, <2>3, <2>5 DEF Map!Insert
<1>8. CASE insert_shift /\ call.stack = <<>>
  <2>1. /\ \A p \in Contents : p.k # call.ukey
        /\ Contents' = Contents \cup {[k |-> call.ukey, v |-> call.val]}
        /\ call.val # NULL /\ Finish("ok", 0, NULL)
    BY <1>8, PutContents
  <2>2. MapPairs' = MapPairs \cup {[k |-> c.key, v |-> c.val]}
    BY <1>2, <1>3, <2>1
  <2>3. MapAnswer' = Map!Answer(c, "ok", 0, NULL)
    BY <1>2, <2>1, Answered
  <2>4. c.val # NULL /\ Map!At(c.key) = {}
    BY <1>2, <1>4, <2>1
  <2> QED
    BY <1>1, <1>2, <2>2, <2>3, <2>4 DEF Map!Insert
<1>9. CASE insert_fails
  <2>1. call.pc = "up" /\ Finish(call.res.status, 0, NULL) /\ UNCHANGED <<mem, root, height>>
    BY <1>9 DEF insert_fails
  <2>2. call.res.status = "enomem" /\ call.val # NULL /\ \A p \in Contents : p.k # call.ukey
    BY <1>1, <2>1 DEF Refused
  <2>3. MapPairs' = MapPairs
    BY <1>3, <2>1, QuietContents
  <2>4. MapAnswer' = Map!Answer(c, "enomem", 0, NULL)
    BY <1>2, <2>1, <2>2, Answered
  <2>5. c.val # NULL /\ Map!At(c.key) = {}
    BY <1>2, <1>4, <2>2
  <2> QED
    BY <1>1, <1>2, <2>3, <2>4, <2>5 DEF Map!Insert
<1> QED
  BY <1>6, <1>7, <1>8, <1>9 DEF InsertEnds

LEMMA LookupAnswers ==
  ASSUME TypeOK, CountInv, Kinds, NEW at, NEW lo, NEW hi, Grown(at, lo, hi), Asking,
         lookup_returns, Kinds'
  PROVE  Map!Next
<1>1. /\ call.pc = "answer" /\ call.op = "lookup" /\ Finish("ok", 0, call.cur)
      /\ UNCHANGED <<mem, root, height>> /\ ~ Inserting
  BY DEF lookup_returns, Inserting
<1>2. PICK c \in Requests : c.op = call.op /\ c.key = call.ukey /\ c.val = call.val
  BY <1>1, Requested
<1>3. MapAnswer = NULL /\ MapPairs' = MapPairs
  BY <1>1, Unanswered, UnansweredNext, QuietContents
<1>4. MapAnswer' = Map!Answer(c, "ok", 0, call.cur)
  BY <1>1, <1>2, Answered
<1>5. call.cur = NULL => Map!At(c.key) = {}
  <2>1. call.cur = NULL => ~ Stored(at, call.ukey)
    BY <1>1 DEF Grown, Look
  <2> QED
    BY <1>2, <2>1, AtStored
<1>6. call.cur \in Node \cup {NULL}
  BY <1>1 DEF TypeOK, RegistersOK
<1>7. Map!Lookup(c)
  BY <1>1, <1>2, <1>3, <1>4, <1>5, <1>6 DEF Map!Lookup
<1> QED
  BY <1>3, <1>7, Responds

LEMMA UpdateAnswers ==
  ASSUME TypeOK, CountInv, Kinds, NEW at, NEW lo, NEW hi, Grown(at, lo, hi), Asking,
         cbtree_update, TypeOK', CountInv', Kinds'
  PROVE  Map!Next
<1>1. call.pc = "answer" /\ call.op = "update" /\ ~ Inserting
  BY DEF cbtree_update, Inserting
<1>2. PICK c \in Requests : c.op = call.op /\ c.key = call.ukey /\ c.val = call.val
  BY <1>1, Requested
<1>3. MapAnswer = NULL /\ MapPairs = Contents /\ MapPairs' = Contents'
  BY <1>1, Unanswered, UnansweredNext
<1>4. Map!At(c.key) = {p \in Contents : p.k = c.key}
  BY <1>3 DEF Map!At
<1>5. CASE Contents' = Contents /\ Finish("enoent", 0, NULL)
  <2>1. MapAnswer' = Map!Answer(c, "enoent", 0, NULL)
    BY <1>2, <1>5, Answered
  <2>2. Map!Update(c)
    BY <1>1, <1>2, <1>3, <1>5, <2>1 DEF Map!Update
  <2> QED
    BY <1>3, <2>2, Responds
<1>6. CASE /\ \E p \in Contents : p.k = call.ukey
           /\ Contents' = (Contents \ {p \in Contents : p.k = call.ukey})
                          \cup {[k |-> call.ukey, v |-> call.val]}
           /\ Finish("ok", 0, NULL)
  <2>1. MapAnswer' = Map!Answer(c, "ok", 0, NULL)
    BY <1>2, <1>6, Answered
  <2>2. Map!At(c.key) # {}
    BY <1>2, <1>4, <1>6
  <2>3. MapPairs' = (MapPairs \ Map!At(c.key)) \cup {[k |-> c.key, v |-> c.val]}
    BY <1>2, <1>3, <1>4, <1>6
  <2>4. Map!Update(c)
    BY <1>1, <1>2, <2>1, <2>2, <2>3 DEF Map!Update
  <2> QED
    BY <1>3, <2>4, Responds
<1> QED
  BY <1>5, <1>6, UpdateContents

LEMMA PrevAnswers ==
  ASSUME TypeOK, CountInv, Kinds, NEW at, NEW lo, NEW hi, Grown(at, lo, hi),
         PrevWalk(at, lo, hi), Asking, prev_step, Kinds',
         NEW key, NEW val, Finish("ok", key, val), AnswersBelow(at, key, val)
  PROVE  Map!Next
<1>1. /\ call.pc = "prev" /\ call.op = "get_prev" /\ ~ Inserting
      /\ UNCHANGED <<mem, root, height>>
  BY DEF prev_step, PrevWalk, Inserting
<1>2. PICK c \in Requests : c.op = call.op /\ c.key = call.ukey /\ c.val = call.val
  BY <1>1, Requested
<1>3. MapAnswer = NULL /\ MapPairs = Contents /\ MapPairs' = MapPairs
  BY <1>1, Unanswered, UnansweredNext, QuietContents
<1>4. MapAnswer' = Map!Answer(c, "ok", key, val)
  BY <1>2, Answered
<1>5. \A p : p \in Contents <=> Holds(at, p)
  BY HeldPairs
<1>6. Map!Below(c.key) = {p \in Contents : p.k < call.ukey}
  BY <1>2, <1>3 DEF Map!Below
<1>7. CASE key = call.ukey /\ val = NULL /\ \A p : Holds(at, p) => ~ (p.k < call.ukey)
  <2>1. Map!Below(c.key) = {}
    BY <1>5, <1>6, <1>7
  <2>2. MapAnswer' = Map!Answer(c, "ok", c.key, NULL)
    BY <1>2, <1>4, <1>7
  <2>3. Map!GetPrev(c)
    BY <1>1, <1>2, <1>3, <2>1, <2>2 DEF Map!GetPrev, Map!Found
  <2> QED
    BY <1>3, <2>3, Responds
<1>8. ASSUME NEW p, Holds(at, p), p.k < call.ukey, key = p.k, val = p.v,
             \A q : Holds(at, q) /\ q.k < call.ukey => q.k <= p.k
      PROVE  Map!Next
  <2>1. p \in Map!Greatest(Map!Below(c.key))
    BY <1>5, <1>6, <1>8 DEF Map!Greatest
  <2>2. MapAnswer' = Map!Answer(c, "ok", p.k, p.v)
    BY <1>4, <1>8
  <2>3. Map!GetPrev(c)
    BY <1>1, <1>2, <1>3, <2>1, <2>2 DEF Map!GetPrev, Map!Found
  <2> QED
    BY <1>3, <2>3, Responds
<1> QED
  BY <1>7, <1>8 DEF AnswersBelow

LEMMA LastAnswers ==
  ASSUME TypeOK, CountInv, Kinds, NEW at, NEW lo, NEW hi, Grown(at, lo, hi),
         LastWalk(at, hi), Asking, last_step, Kinds',
         NEW key, NEW val, Finish("ok", key, val), AnswersLast(at, key, val)
  PROVE  Map!Next
<1>1. /\ call.pc = "last" /\ call.op = "last" /\ ~ Inserting
      /\ UNCHANGED <<mem, root, height>>
  BY DEF last_step, LastWalk, Inserting
<1>2. PICK c \in Requests : c.op = call.op /\ c.key = call.ukey /\ c.val = call.val
  BY <1>1, Requested
<1>3. MapAnswer = NULL /\ MapPairs = Contents /\ MapPairs' = MapPairs
  BY <1>1, Unanswered, UnansweredNext, QuietContents
<1>4. MapAnswer' = Map!Answer(c, "ok", key, val)
  BY <1>2, Answered
<1>5. \A p : p \in Contents <=> Holds(at, p)
  BY HeldPairs
<1>6. PICK p : Holds(at, p) /\ key = p.k /\ val = p.v /\ \A q : Holds(at, q) => q.k <= p.k
  BY DEF AnswersLast
<1>7. p \in Map!Greatest(MapPairs)
  BY <1>3, <1>5, <1>6 DEF Map!Greatest
<1>8. MapAnswer' = Map!Answer(c, "ok", p.k, p.v)
  BY <1>4, <1>6
<1>9. Map!Last(c)
  BY <1>1, <1>2, <1>3, <1>7, <1>8 DEF Map!Last, Map!Found
<1> QED
  BY <1>3, <1>9, Responds

(* get_prev and last at once, of an empty tree or from key 0.              *)
LEMMA NothingAnswers ==
  ASSUME TypeOK, CountInv, Kinds, NEW at, NEW lo, NEW hi, Grown(at, lo, hi), Asking,
         NothingThere, remove_returns, Kinds'
  PROVE  Map!Next
<1>1. /\ call.pc = "unwind" /\ call.op \in {"get_prev", "last"} /\ ~ Inserting
      /\ height = 0 \/ (call.op = "get_prev" /\ call.ukey = 0)
      /\ Finish("ok", call.ukey, NULL) /\ UNCHANGED <<mem, root, height>>
  BY DEF remove_returns, NothingThere, Inserting
<1>2. PICK c \in Requests : c.op = call.op /\ c.key = call.ukey /\ c.val = call.val
  BY <1>1, Requested
<1>3. MapAnswer = NULL /\ MapPairs = Contents /\ MapPairs' = MapPairs
  BY <1>1, Unanswered, UnansweredNext, QuietContents
<1>4. MapAnswer' = Map!Answer(c, "ok", c.key, NULL)
  BY <1>1, <1>2, Answered
<1>5. height = 0 => Contents = {}
  BY DEF Contents, Leaves
<1>6. CASE call.op = "last"
  <2>1. MapPairs = {}
    BY <1>1, <1>3, <1>5, <1>6
  <2>2. Map!Last(c)
    BY <1>2, <1>3, <1>4, <1>6, <2>1 DEF Map!Last, Map!Found
  <2> QED
    BY <1>3, <2>2, Responds
<1>7. CASE call.op = "get_prev"
  <2>1. Map!Below(c.key) = {p \in Contents : p.k < call.ukey}
    BY <1>2, <1>3 DEF Map!Below
  <2>2. ASSUME NEW p \in Contents, p.k < call.ukey PROVE FALSE
    <3>1. call.ukey = 0
      BY <1>1, <1>5, <2>2
    <3>2. Holds(at, p) /\ Shape(mem, root, height, at, lo, hi)
      BY <1>1, <2>2, HeldPairs, StillTree DEF Grown
    <3>3. p.k \in Long
      BY <3>2, HeldKey
    <3> QED
      BY <2>2, <3>1, <3>3 DEF Long
  <2>3. Map!Below(c.key) = {}
    BY <2>1, <2>2
  <2>4. Map!GetPrev(c)
    BY <1>2, <1>3, <1>4, <1>7, <2>3 DEF Map!GetPrev, Map!Found
  <2> QED
    BY <1>3, <2>4, Responds
<1> QED
  BY <1>1, <1>6, <1>7

(* The steps of a lookup that do not answer yet, and never fault.          *)
LEMMA LookupSilent ==
  ASSUME TypeOK, CountInv, Kinds, NEW at, NEW lo, NEW hi, Grown(at, lo, hi), Queued,
         TRUE \notin PastEnd, lookup_leaf \/ lookup_node \/ setcache
  PROVE  call.pc # "done" /\ call'.pc # "done" /\ UNCHANGED <<mem, root, height>>
<1>1. call \in CallRecord /\ ~ Inserting
  BY DEF TypeOK, lookup_leaf, lookup_node, setcache, Inserting
<1>2. Shape(Tree, root, height, at, lo, hi) /\ height \in Nat
      /\ at \in [1 .. height -> SUBSET Node]
  BY DEF Grown, Shape, Levels
<1>3. call.pc = "lookup" /\ height = 0 => call.h = 0
  BY DEF Grown, Look
<1>4. call.pc = "lookup" /\ height > 0 => call.h \in 1 .. height /\ call.cur \in at[call.h]
  BY DEF Grown, Look
<1>5. ASSUME NEW n, AnswerWith(n) PROVE call'.pc = "answer"
  BY <1>1, <1>5 DEF AnswerWith, CallRecord
<1>6. CASE lookup_leaf
  <2>1. call.h = 0 \/ call.cur \in Node
    BY <1>2, <1>3, <1>4, <1>6 DEF lookup_leaf
  <2>2. \E n : AnswerWith(n)
    BY <1>6, <2>1 DEF lookup_leaf
  <2> QED
    BY <1>5, <1>6, <2>2 DEF lookup_leaf
<1>7. CASE lookup_node
  <2>1. call.pc = "lookup" /\ height > 0 /\ call.h \in 1 .. height /\ call.cur \in at[call.h]
    BY <1>1, <1>2, <1>3, <1>4, <1>7 DEF lookup_node, CallRecord
  <2>2. call.cur \in Node
    BY <1>2, <2>1
  <2>3. call.cur \in alloc
    BY <1>2, <2>1, <2>2, LooseOutside DEF Loose
  <2>4. queue[call.cur] # NULL
    BY <2>3 DEF Queued
  <2>5. \/ \E n : AnswerWith(n)
        \/ \E d, s : call' = [call EXCEPT !.cur = d, !.h = @ - 1, !.stack = s]
    BY <1>7, <2>2, <2>4 DEF lookup_node
  <2>6. ASSUME NEW d, NEW s, call' = [call EXCEPT !.cur = d, !.h = @ - 1, !.stack = s]
        PROVE  call'.pc = "lookup"
    BY <1>1, <2>1, <2>6 DEF CallRecord
  <2> QED
    BY <1>5, <1>7, <2>1, <2>5, <2>6 DEF lookup_node
<1>8. CASE setcache
  <2>1. call.pc = "answer" /\ call.stack # <<>> /\ UNCHANGED <<mem, root, height>>
    BY <1>8 DEF setcache
  <2>2. Top.node \in alloc
    <3>1. 1 \in 1 .. Len(call.stack) /\ Top = call.stack[1]
      BY <2>1, HeadTailProperties, LenProperties, EmptySeq DEF TypeOK, StackOK, Top
    <3>2. call.stack[1].node \in alloc
      BY <2>1, <3>1 DEF CountInv, Asked, LookingUp
    <3> QED
      BY <3>1, <3>2
  <2>3. queue[Top.node] # NULL
    BY <2>2 DEF Queued
  <2>4. \E s : call' = [call EXCEPT !.stack = s]
    BY <1>8, <2>3 DEF setcache
  <2>5. call'.pc = "answer"
    BY <1>1, <2>1, <2>4 DEF CallRecord
  <2> QED
    BY <2>1, <2>5
<1> QED
  BY <1>6, <1>7, <1>8

LEMMA QueryMaps ==
  ASSUME Served, TypeOK, CountInv, Kinds, NEW at, NEW lo, NEW hi, Walking(at, lo, hi), Standing,
         QueryStep \/ remove_returns, TypeOK', CountInv', Kinds'
  PROVE  Map!Next \/ UNCHANGED <<MapPairs, MapAnswer>>
<1>1. Grown(at, lo, hi) /\ PrevWalk(at, lo, hi) /\ LastWalk(at, hi) /\ TRUE \notin PastEnd
      /\ Queued /\ Asking /\ Nonzero /\ Seeded /\ NothingThere
  BY DEF Walking, Standing, Served
<1>2. ASSUME call.pc # "done", call'.pc # "done", UNCHANGED <<mem, root, height>>
      PROVE  UNCHANGED <<MapPairs, MapAnswer>>
  BY <1>2, QuietContents, Unanswered, UnansweredNext
<1>3. CASE lookup_leaf \/ lookup_node \/ setcache
  BY <1>1, <1>2, <1>3, LookupSilent
<1>4. CASE lookup_returns
  BY <1>1, <1>4, LookupAnswers
<1>5. CASE cbtree_update
  BY <1>1, <1>5, UpdateAnswers
<1>6. CASE prev_step
  <2>1. ASSUME NEW key, NEW val, Finish("ok", key, val), AnswersBelow(at, key, val)
        PROVE  Map!Next
    BY <1>1, <1>6, <2>1, PrevAnswers
  <2>2. CASE call'.pc = "prev"
    BY <1>2, <1>6, <2>2 DEF prev_step
  <2> QED
    BY <1>1, <1>6, <2>1, <2>2, prev_stepWalks
<1>7. CASE last_step
  <2>1. ASSUME NEW key, NEW val, Finish("ok", key, val), AnswersLast(at, key, val)
        PROVE  Map!Next
    BY <1>1, <1>7, <2>1, LastAnswers
  <2>2. CASE call'.pc = "last"
    BY <1>2, <1>7, <2>2 DEF last_step
  <2> QED
    BY <1>1, <1>7, <2>1, <2>2, last_stepWalks
<1>8. CASE remove_returns
  BY <1>1, <1>8, NothingAnswers
<1> QED
  BY <1>3, <1>4, <1>5, <1>6, <1>7, <1>8 DEF QueryStep

LEMMA StepMaps ==
  ASSUME Growing, Served, TypeOK, CountInv, Kinds, GrowInv, MapInv, [Next]_vars,
         TypeOK', CountInv', Kinds', GrowInv'
  PROVE  [Map!Next]_<<MapPairs, MapAnswer>>
<1>1. PICK at, lo, hi : Walking(at, lo, hi)
  BY DEF MapInv, WalkInv
<1>2. Grown(at, lo, hi) /\ ~ KmallocFails /\ Standing /\ Asking /\ Refused
  BY <1>1 DEF Walking, Served, MapInv, Standing
<1>3. ASSUME call.pc # "done", call'.pc # "done", Contents' = Contents
      PROVE  UNCHANGED <<MapPairs, MapAnswer>>
  BY <1>3, Unanswered, UnansweredNext
<1>4. CASE UNCHANGED vars
  <2>1. UNCHANGED <<mem, root, height, call>>
    BY <1>4 DEF vars
  <2>2. MapPairs' = MapPairs
    BY <2>1, QuietContents, Unanswered, UnansweredNext
  <2>3. MapAnswer' = MapAnswer
    BY <2>1 DEF MapAnswer
  <2> QED
    BY <2>2, <2>3
<1>5. CASE ClientStep
  <2>1. PICK c, pc, key :
          /\ c \in Client /\ Start(c, pc, key) /\ call.pc = "idle"
          /\ pc \in {"enter", "unwind", "erase", "lookup", "prev", "last"}
    BY <1>5 DEF ClientStep, cbtree_insert, cbtree_remove, cbtree_lookup, cbtree_get_prev,
                cbtree_last, Calling
  <2>2. call'.pc # "done" /\ UNCHANGED <<mem, root, height>>
    BY <2>1 DEF Start, Idle
  <2> QED
    BY <1>3, <2>1, <2>2, QuietContents
<1>6. CASE find_level \/ InsertStep
  <2>1. CASE InsertEnds
    BY <1>2, <2>1, InsertAnswers
  <2>2. CASE ~ InsertEnds
    <3>1. Inserting /\ Inserting'
      BY <1>2, <1>6, <2>2, InsertMoves
    <3>2. Contents' = Contents
      BY <1>2, <1>6, <2>2, InsertKeepsContents
    <3> QED
      BY <1>3, <3>1, <3>2 DEF Inserting
  <2> QED
    BY <2>1, <2>2
<1>7. CASE RemoveStep \/ QueryStep
  <2>1. QueryStep \/ remove_returns
    BY <1>7, NoRemoval
  <2> QED
    BY <1>1, <1>2, <2>1, QueryMaps
<1>8. CASE Return
  BY <1>2, <1>8, MapReturns
<1> QED
  BY <1>4, <1>5, <1>6, <1>7, <1>8 DEF Next, LibraryStep

LEMMA InitMaps == Init => Map!Init
<1> SUFFICES ASSUME Init PROVE Map!Init
  OBVIOUS
<1>1. height = 0 /\ call.pc = "idle" /\ call.op = "none"
  BY DEF Init, Idle
<1>2. MapPairs = {}
  BY <1>1 DEF MapPairs, Removing, Contents, Leaves
<1>3. MapAnswer = NULL
  BY <1>1 DEF MapAnswer
<1> QED
  BY <1>2, <1>3 DEF Map!Init, Map!NoAnswer

(* ImplementsMap, the refinement of CBTreeMap, of a tree that only grows.  *)
(* Every call of insert, update, lookup, get_prev and last reads or        *)
(* changes the map of the stored pairs in one step of it and answers as    *)
(* the map does: no split, however deep, loses, doubles or invents a pair, *)
(* a failed insertion has left none, and a cached lookup, an update, the   *)
(* predecessor of a key and the greatest key are those of the stored       *)
(* pairs.  No call of such clients dies in a fault, for the map has no     *)
(* answer "oops" to them.                                                  *)
THEOREM GrowingImplementsMap ==
  ASSUME Growing, Served
  PROVE  Spec => ImplementsMap
<1>1. Init => Map!Init
  BY InitMaps
<1>2. TypeOK /\ CountInv /\ Kinds /\ GrowInv /\ MapInv /\ [Next]_vars
      /\ (TypeOK /\ CountInv /\ Kinds /\ GrowInv /\ MapInv)'
      => [Map!Next]_<<MapPairs, MapAnswer>>
  BY StepMaps
<1>3. Spec => [](TypeOK /\ CountInv /\ Kinds /\ GrowInv /\ MapInv)
  BY MapKept
<1> QED
  BY <1>1, <1>2, <1>3, PTL DEF Spec, Map!Spec, ImplementsMap

(* While clients only grow the tree, no step loses a node: an insertion    *)
(* that fails half way up gives back what its splits took, or leaves it    *)
(* hanging in the tree.  (A fault inside initQueue would keep one.)        *)
THEOREM GrowingLeaksNothing ==
  ASSUME Growing, ~ KmallocFails PROVE Spec => NoLeak
<1>1. TypeOK /\ CountInv /\ GrowInv => Lost = {}
  BY GrownLosesNothing DEF GrowInv
<1>2. Spec => [](Lost = {})
  BY <1>1, GrowthKept, PTL
<1>3. (Lost = {})' =>
        [Lost' \subseteq Lost \cup (IF call.pc = "unwind" THEN Freeing ELSE {})]_vars
  OBVIOUS
<1> QED
  BY <1>2, <1>3, PTL DEF NoLeak

=============================================================================
