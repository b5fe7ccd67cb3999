---------------------------- MODULE CBTreeWords ----------------------------
(***************************************************************************)
(* The loops over a node's slots as the longs of memory see them: keys of  *)
(* KeyLen longs, compared by longcmp, copied a long at a time by setkey,   *)
(* moved slot by slot by the loops of cbtree_insert_level,                 *)
(* cbtree_remove_level and merge, and decremented by dec_key with a borrow *)
(* from long to long.  CBTreeNode gives every key one number and every     *)
(* loop one step; the refinement below says that it may.                   *)
(***************************************************************************)
EXTENDS Integers, SequencesExt

CONSTANTS
  L1_CACHE_BYTES, LongBytes, KeyLen,  \* the geometry, as in CBTreeGeo
  Base,       \* how many values a long of a key has, 2^64 in the code
  Addr,       \* the addresses of two nodes
  ClientKeys, \* the keys that clients use: functions from KeyWord
  ValueOf,    \* the value a client stores under a key: a pointer, as a number
  Behind,     \* the node right behind each in memory, or something else
  Queue       \* the address of a node's queue

Geo == INSTANCE CBTreeGeo WITH Touched <- {}, words <- 0, at <- 0

KeyWord == 0 .. (KeyLen - 1)
Slot == Geo!GeoSlot
NoPairs == Geo!no_pairs
NULL == 0

(* CBTreeNode takes four slots for granted; each geometry has more.        *)
ASSUME GeometryAssumption ==
  /\ L1_CACHE_BYTES \in Nat /\ LongBytes \in Nat /\ LongBytes >= 4 /\ KeyLen \in Nat \ {0}
  /\ NoPairs >= 4
ASSUME AddrAssumption == Addr # {}
ASSUME KeysAssumption ==
  /\ ClientKeys \subseteq [KeyWord -> 0 .. (Base - 1)]
  /\ [w \in KeyWord |-> 0] \notin ClientKeys
ASSUME ValuesAssumption == ValueOf \in [ClientKeys -> Nat \ {NULL}]
ASSUME BaseAssumption == Base \in Nat \ {0, 1}
ASSUME QueueAssumption == Queue \in Nat

(* The words of the cache are in the node that they belong to, or at least *)
(* in no other: CACHE_LENTH is too little for keys of several longs.       *)
Inside == Geo!arr_len \in Geo!InNode
Apart == Inside \/ \A n \in Addr : Behind[n] \notin Addr

VARIABLES
  words,  \* the longs of each node
  row,    \* the nodes in use, the one with the greater keys first
  key,    \* the longs of the caller's key
  pos,    \* the slot that the search just made ended at, or 0
  todo,   \* the moves that the running loop has still to make
  w,      \* how many longs of the current pair, or of the key, are done
  before  \* history: words, row, key and pos when the running loop began; a
          \* split's begins when its new node is there

vars == <<words, row, key, pos, todo, w, before>>

Idle == todo = <<>>

-----------------------------------------------------------------------------
(* The wrappers of cbtree-128.h put the two halves of a key, the greater   *)
(* one first, into its longs: u64 key[2] = {k1, k2}.                       *)
Key128(k1, k2) == [j \in KeyWord |-> IF j = 0 THEN k1 ELSE k2]

(* The key and the value of slot i.                                        *)
bkey(n, i) == [j \in KeyWord |-> words[n][Geo!bkey(i) + j]]
bval(n, i) == words[n][Geo!bval(i)]

longcmp_last(l1, l2) ==
  LET differ == {j \in KeyWord : l1[j] # l2[j]}
  IN IF differ = {} THEN 0 ELSE IF l1[Max(differ)] < l2[Max(differ)] THEN -1 ELSE 1
longcmp(l1, l2) ==
  LET differ == {j \in KeyWord : l1[j] # l2[j]}
  IN IF differ = {} THEN 0 ELSE IF l1[Min(differ)] < l2[Min(differ)] THEN -1 ELSE 1

keycmp(n, i, k) == longcmp(bkey(n, i), k)

First(S) == Min(S \cup {NoPairs})
getpos(n) == First({i \in Slot : keycmp(n, i, key) <= 0})
getfill(n, start) == First({i \in Slot : i >= start /\ bval(n, i) = NULL})

Used == ToSet(row)
KeysIn(n) == {bkey(n, i) : i \in {i \in Slot : bval(n, i) # NULL}}
Belongs(k, i) ==
  \A j \in 1 .. Len(row) : \A q \in KeysIn(row[j]) :
    (j < i => longcmp(q, k) > 0) /\ (j > i => longcmp(q, k) < 0)

-----------------------------------------------------------------------------
(* The loops, as the moves they make in order.  A move sets slot i of node *)
(* n to slot j of node m (setkey, then setval), to the caller's key and    *)
(* value, or clears it (clearpair).                                        *)
Copy(n, i, m, j) == [op |-> "copy", n |-> n, i |-> i, m |-> m, j |-> j, v |-> NULL]
Store(n, i, v) == [op |-> "store", n |-> n, i |-> i, m |-> n, j |-> i, v |-> v]
Clear(n, i) == [op |-> "clear", n |-> n, i |-> i, m |-> n, j |-> i, v |-> NULL]

insert_moves_upwards(n, p, fill, v) ==
  [c \in 1 .. (fill - p) |-> Copy(n, p + c, n, p + c - 1)] \o <<Store(n, p, v)>>
insert_moves(n, p, fill, v) ==
  [c \in 1 .. (fill - p) |-> Copy(n, fill - c + 1, n, fill - c)] \o <<Store(n, p, v)>>

remove_moves(n, p, fill) ==
  [c \in 1 .. (fill - 1 - p) |-> Copy(n, p + c - 1, n, p + c)] \o <<Clear(n, fill - 1)>>

(* Each round of the split's loop moves a pair to new, one of the lower    *)
(* half into its place, and clears that one's; an odd last pair follows.   *)
split_moves(n, new, fill) ==
  LET half == fill \div 2
      round(c, i) == CASE c % 3 = 1 -> Copy(new, i, n, i)
                       [] c % 3 = 2 -> Copy(n, i, n, i + half)
                       [] c % 3 = 0 -> Clear(n, i + half)
  IN [c \in 1 .. 3 * half |-> round(c, (c - 1) \div 3)]
     \o IF fill % 2 = 1 THEN <<Copy(n, half, n, fill - 1), Clear(n, fill - 1)>> ELSE <<>>

merge_moves(left, lfill, right, rfill) ==
  [c \in 1 .. rfill |-> Copy(left, lfill + c - 1, right, c - 1)]

(* What an allocation makes of the longs: memset clears NODESIZE bytes,    *)
(* and initQueue, if it got memory for all of the queue, stores its        *)
(* address at long arr_len, counted on into the node behind.               *)
cbtree_node_alloc(ws, n, queued) ==
  LET cleared == [ws EXCEPT ![n] = [j \in Geo!InNode |-> 0]]
      beyond == Geo!arr_len - (Geo!NODESIZE \div LongBytes)
  IN IF ~ queued THEN cleared
     ELSE IF Inside THEN [cleared EXCEPT ![n][Geo!arr_len] = Queue]
     ELSE IF Behind[n] \in Addr THEN [cleared EXCEPT ![Behind[n]][beyond] = Queue]
     ELSE cleared

Begin(moves, first, ws) ==
  /\ Idle
  /\ todo' = moves /\ w' = first
  /\ words' = ws
  /\ before' = [words |-> ws, row |-> row, key |-> key, pos |-> pos]
  /\ pos' = 0
  /\ UNCHANGED key
Start(moves) == Begin(moves, 0, words)
Ends == todo' = <<>> /\ w' = 0 /\ before' = <<>>

insert(n) ==
  LET p == getpos(n)
      fill == getfill(n, p)
  IN /\ key \in ClientKeys /\ fill < NoPairs
     /\ \E i \in 1 .. Len(row) : row[i] = n /\ Belongs(key, i)
     /\ ~ (p < fill /\ keycmp(n, p, key) = 0)
     /\ Start(insert_moves(n, p, fill, ValueOf[key])) /\ UNCHANGED row

remove(n) ==
  LET p == getpos(n)
      fill == getfill(n, p)
  IN /\ key \in ClientKeys /\ p \in Slot /\ keycmp(n, p, key) = 0
     /\ Start(remove_moves(n, p, fill)) /\ UNCHANGED row

(* The parent takes the separator of the new node, or it cannot and the    *)
(* new node is freed again.                                                *)
split(n, new, queued) ==
  LET fill == getfill(n, 0)
  IN /\ row = <<n>> /\ fill = NoPairs
     /\ Begin(split_moves(n, new, fill), 0, cbtree_node_alloc(words, new, queued))
     /\ row' = <<new, n>>

split_fails(n, new, queued) ==
  /\ Idle /\ row = <<n>> /\ getfill(n, 0) = NoPairs
  /\ words' = cbtree_node_alloc(words, new, queued)
  /\ UNCHANGED <<row, key, pos, todo, w, before>>

(* rebalance merges nodes that have something to move.                     *)
merge(left, right) ==
  LET lfill == getfill(left, 0)
      rfill == getfill(right, 0)
  IN /\ row = <<left, right>> /\ rfill > 0 /\ lfill + rfill <= NoPairs
     /\ Start(merge_moves(left, lfill, right, rfill)) /\ row' = <<left>>

-----------------------------------------------------------------------------
(* One long of the current move: longcpy or longset of a key's long, then  *)
(* the value.                                                              *)
Move == Head(todo)
Source(j) == CASE Move.op = "copy"  -> words[Move.m][Geo!bkey(Move.j) + j]
               [] Move.op = "store" -> key[j]
               [] Move.op = "clear" -> 0

longcpy ==
  /\ ~ Idle /\ Move.op # "dec" /\ w < KeyLen
  /\ words' = [words EXCEPT ![Move.n][Geo!bkey(Move.i) + w] = Source(w)]
  /\ w' = w + 1
  /\ UNCHANGED <<row, key, pos, todo, before>>

setval ==
  /\ ~ Idle /\ Move.op # "dec" /\ w = KeyLen
  /\ words' = [words EXCEPT ![Move.n][Geo!bval(Move.i)] =
                 IF Move.op = "copy" THEN bval(Move.m, Move.j) ELSE Move.v]
  /\ IF Len(todo) = 1 THEN Ends ELSE todo' = Tail(todo) /\ w' = 0 /\ UNCHANGED before
  /\ UNCHANGED <<row, key, pos>>

(* dec_key: from the last long on, until one was not 0 before.             *)
dec_key == Begin(<<[op |-> "dec"]>>, KeyLen - 1, words) /\ UNCHANGED row

dec_word_unborrowed ==
  /\ ~ Idle /\ Move.op = "dec"
  /\ key' = [key EXCEPT ![w] = (@ - 1) % Base]
  /\ Ends
  /\ UNCHANGED <<words, row, pos>>
dec_word ==
  /\ ~ Idle /\ Move.op = "dec"
  /\ key' = [key EXCEPT ![w] = (@ - 1) % Base]
  /\ IF key[w] # 0 \/ w = 0 THEN Ends ELSE w' = w - 1 /\ UNCHANGED <<todo, before>>
  /\ UNCHANGED <<words, row, pos>>

(* The caller takes another key.                                           *)
set_key ==
  Idle /\ key' \in ClientKeys /\ pos' = 0 /\ UNCHANGED <<words, row, todo, w, before>>

search(n) == Idle /\ pos' = getpos(n) /\ UNCHANGED <<words, row, key, todo, w, before>>

-----------------------------------------------------------------------------
(* A tree's first node has just been allocated.                            *)
Init ==
  /\ \E n \in Addr, queued \in BOOLEAN :
       /\ words = cbtree_node_alloc([m \in Addr |-> [j \in Geo!InNode |-> 0]], n, queued)
       /\ row = <<n>>
  /\ key \in ClientKeys
  /\ pos = 0
  /\ todo = <<>> /\ w = 0
  /\ before = <<>>

Caller ==
  \/ set_key \/ dec_key
  \/ \E n \in Used : search(n) \/ remove(n) \/ insert(n)
  \/ \E n \in Used, m \in Addr \ Used, queued \in BOOLEAN :
       split(n, m, queued) \/ split_fails(n, m, queued)
  \/ \E n \in Used, m \in Used : merge(n, m)

Next == Caller \/ longcpy \/ setval \/ dec_word

(* A loop that runs goes on.                                               *)
Spec == Init /\ [][Next]_vars /\ WF_vars(longcpy \/ setval \/ dec_word)

-----------------------------------------------------------------------------
(* The number of a key, that of its first longs, and that of the key whose *)
(* longs are all ones.                                                     *)
Upto(k) ==
  LET f[j \in 0 .. KeyLen] == IF j = 0 THEN 0 ELSE f[j - 1] * Base + k[j - 1] IN f
Number(k) == Upto(k)[KeyLen]
Greatest == Number([j \in KeyWord |-> Base - 1])

(* The pairs that the longs hold.  While a loop runs, nothing has happened *)
(* yet, but that a split's new node is clear.                              *)
Then ==
  IF Idle THEN [words |-> words, row |-> row, key |-> key, pos |-> pos] ELSE before
PairsOf(ws) ==
  [n \in Addr |-> [i \in Slot |->
     [k |-> Number([j \in KeyWord |-> ws[n][Geo!bkey(i) + j]]), v |-> ws[n][Geo!bval(i)]]]]

Pairs == INSTANCE CBTreePairs WITH
  mem <- PairsOf(Then.words), row <- Then.row, key <- Number(Then.key), pos <- Then.pos,
  MaxLong <- Greatest, Val <- {ValueOf[k] : k \in ClientKeys},
  ClientKeys <- {Number(k) : k \in ClientKeys}

(* Long by long, the loops do what CBTreeNode's operators say in one step: *)
(* shifting never overwrites a pair that is still to be moved, a split     *)
(* takes the middle pair of an odd node along, comparing long by long      *)
(* orders keys as numbers, and the borrow of dec_key goes as far as it     *)
(* must.                                                                   *)
ImplementsPairs == Pairs!Spec

(* What getpos takes for granted of its node, and cbtree_insert_level of   *)
(* the node's sibling: keys descend from slot to slot and from left to     *)
(* right, with the NULs at the end, in the order of longcmp.               *)
RowInOrder ==
  Idle =>
    /\ \A n \in Used : Pairs!Ordered(PairsOf(words)[n])
    /\ Len(row) = 2 =>
         \A p \in KeysIn(row[1]), q \in KeysIn(row[2]) : longcmp(p, q) > 0

(* No loop drops a pair on its way: a pair that a node held when a loop    *)
(* began is found there, or in the sibling it is moved to, whole and at    *)
(* every moment, but for the one that is being removed.                    *)
Held(ws, S) == {p \in UNION {{PairsOf(ws)[n][i] : i \in Slot} : n \in S} : p.v # NULL}
PairsKept ==
  ~ Idle => \A p \in Held(before.words, ToSet(before.row)) :
              p \in Held(words, Addr) \/ p.k = Number(key)

=============================================================================
