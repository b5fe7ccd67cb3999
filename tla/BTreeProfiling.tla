--------------------------- MODULE BTreeProfiling ---------------------------
(***************************************************************************)
(* The life of the kernel module: btree_profiling.c creates two trees,     *)
(* fills both, looks up random keys in both, and times every call with the *)
(* per-CPU clocks of calclock.h; when it is unloaded it prints them.  One  *)
(* task does it all, first insmod and then rmmod, while time passes and    *)
(* the scheduler moves it from CPU to CPU.  The cached tree is the map of  *)
(* CBTreeMap; the kernel's own lib/btree.c is a set of keys.               *)
(***************************************************************************)
EXTENDS Integers, Sequences, FiniteSetsExt, Tally

CONSTANTS
  TREE_SIZE,   \* how many keys are inserted
  Rounds,      \* find_tree looks up TREE_SIZE * Rounds keys: 10 in the code
  Cpu,         \* the CPUs, which all stay online
  NULL,
  Node,        \* what a lookup that finds something answers with
  CacheLen,    \* entries of a node's cache, 4 in the code
  PastEnd,     \* what the long behind a node may compare to 1 as, as in CBTreeCache
  MaxClock,    \* bound: how far time goes
  MaxMoves,    \* bound: how often the task moves to another CPU
  MaxFailures  \* bound: how many allocations fail

ASSUME SizeAssumption == TREE_SIZE \in Nat \ {0} /\ Rounds \in Nat \ {0}
ASSUME CpuAssumption == IsFiniteSet(Cpu) /\ Cpu # {}
ASSUME NullAssumption == NULL \notin Nat
ASSUME CacheAssumption == CacheLen \in Nat \ {0} /\ PastEnd \subseteq BOOLEAN
ASSUME BoundsAssumption == MaxClock \in Nat /\ MaxMoves \in Nat /\ MaxFailures \in Nat

VARIABLES
  pc,      \* the statement that the task is at
  op,      \* what is being measured: insertions, later lookups
  tree,    \* the tree whose turn it is
  i,       \* the loop variable of fill_tree or find_tree
  key,     \* the key at hand
  val,     \* the value to insert
  keys,    \* the keys in lib/btree's tree
  map,     \* the pairs in the cached tree, as in CBTreeMap
  res,     \* the answer of the call of the cached tree that has just returned
  queueless, \* a node of the cached tree has no queue
  cachep,  \* whether cbtree_cachep is a slab cache
  mempool, \* whether the head of each tree has a mempool
  stopwatch,      \* stopwatch_b and stopwatch_cb: two readings each
  clock,          \* funcname##_clock: time and count of each function, per CPU
  search_counts,  \* of the keys below TREE_SIZE
  printed,        \* the lines that ktprint has printed: time, count and share
  totaltime,      \* the static variable of __ktprint
  now, cpu,       \* the time, and the CPU that the task runs on
  moves, failures, beyond  \* history: CPU changes, failed allocations, and
                           \* searches of key TREE_SIZE

measuring == <<stopwatch, clock>>
trees == <<keys, map, res, queueless>>
setup == <<cachep, mempool>>
report == <<printed, totaltime>>
world == <<now, cpu, moves>>
loop == <<op, tree, i, key>>
counts == <<search_counts, beyond>>
vars == <<pc, loop, val, trees, setup, measuring, counts, report, world, failures>>

Op == {"insert", "lookup"}
Tree == {"btree", "cbtree"}
Func == Op \X Tree

Cached == INSTANCE CBTreeMap WITH Handle <- Node, Calls <- {}
CachedCall == [op |-> op, key |-> key, val |-> val]

(* An allocation fails, or does not.                                       *)
MayFail(n) == failures + n <= MaxFailures /\ failures' = failures + n
Succeeds == failures' = failures

-----------------------------------------------------------------------------
(* bplus_module_init.  It goes on whatever failed: a failure of            *)
(* kmem_cache_create it prints, and one of mempool_create is not looked at *)
(* by create_tree.  (btree_cachep is created too, and used by nobody.)     *)
bplus_module_init ==
  /\ pc = "init"
  /\ \/ cachep' = TRUE /\ Succeeds
     \/ cachep' = FALSE /\ MayFail(1)
  /\ pc' = "create"
  /\ UNCHANGED <<loop, val, trees, mempool, measuring, counts, report, world>>

create_tree ==
  /\ pc = "create"
  /\ \E failed \in SUBSET Tree :
       /\ mempool' = [t \in Tree |-> t \notin failed]
       /\ MayFail(Cardinality(failed))
  /\ pc' = "value"
  /\ UNCHANGED <<loop, val, trees, cachep, measuring, counts, report, world>>

-----------------------------------------------------------------------------
(* insert_element and find_element: for lib/btree's tree, then for the     *)
(* cached one, a reading of the clock before and after the call.           *)

kmalloc_value ==
  /\ pc = "value"
  /\ \/ val' = i /\ Succeeds
     \/ val' = NULL /\ MayFail(1)
  /\ pc' = "start"
  /\ UNCHANGED <<loop, trees, setup, measuring, counts, report, world>>

ktget_start_once ==
  /\ pc = "start"
  /\ stopwatch' = [stopwatch EXCEPT ![tree][1] = IF tree = "btree" THEN now ELSE stopwatch["btree"][1]]
  /\ pc' = "call"
  /\ UNCHANGED <<loop, val, trees, setup, clock, counts, report, world, failures>>
ktget_start ==
  /\ pc = "start"
  /\ stopwatch' = [stopwatch EXCEPT ![tree][1] = now]
  /\ pc' = "call"
  /\ UNCHANGED <<loop, val, trees, setup, clock, counts, report, world, failures>>

(* What an insertion may need: a new node for its tree, with a mempool and *)
(* (the cached one) a slab cache to take it from, and the memory of its    *)
(* queue.  The first one does need it.  GFP_KERNEL waits for the node.     *)
(* Without memory for the queue the task dies; without memory for one of   *)
(* its entries the node gets no queue, and a lookup may die there.         *)
NodeOrNot(stored) == {needed \in BOOLEAN : stored = {} => needed}

btree_insert ==
  /\ op = "insert" /\ tree = "btree"
  /\ \E needed \in NodeOrNot(keys) :
       \/ /\ val # NULL /\ (needed => mempool["btree"])
          /\ keys' = keys \cup {key} /\ pc' = "stop"
       \/ val = NULL /\ pc' = "bug" /\ keys' = keys
       \/ val # NULL /\ needed /\ ~ mempool["btree"] /\ pc' = "oops" /\ keys' = keys
  /\ UNCHANGED <<map, res, queueless, failures>>

cbtree_insert_waits ==
  /\ op = "insert" /\ tree = "cbtree"
  /\ \E needed \in NodeOrNot(map) :
       \/ /\ val = NULL \/ (needed => mempool["cbtree"] /\ cachep)
          /\ Cached!Insert(CachedCall) /\ res'.status # "enomem"
          /\ pc' = IF res'.status = "bug" THEN "bug" ELSE "stop"
          /\ \/ Succeeds /\ queueless' = queueless
             \/ val # NULL /\ needed /\ MayFail(1) /\ queueless' = TRUE
       \/ /\ val # NULL /\ needed /\ MayFail(1)
          /\ pc' = "oops" /\ UNCHANGED <<map, res, queueless>>
  /\ UNCHANGED keys
cbtree_insert ==
  /\ op = "insert" /\ tree = "cbtree"
  /\ \E needed \in NodeOrNot(map) :
       \/ /\ val = NULL \/ (needed => mempool["cbtree"] /\ cachep)
          /\ Cached!Insert(CachedCall) /\ res'.status # "enomem"
          /\ pc' = IF res'.status = "bug" THEN "bug" ELSE "stop"
          /\ \/ Succeeds /\ queueless' = queueless
             \/ val # NULL /\ needed /\ MayFail(1) /\ queueless' = TRUE
       \/ /\ val # NULL /\ needed
          /\ \/ ~ (mempool["cbtree"] /\ cachep) /\ Succeeds
             \/ MayFail(1)
          /\ pc' = "oops" /\ UNCHANGED <<map, res, queueless>>
  /\ UNCHANGED keys

(* A lookup moves the head of a queue on once when it misses there and     *)
(* once when it remembers its leaf: it takes half as many lookups as there *)
(* are entries until one comes back to an entry in use.  When the leaf in  *)
(* it reads as deleted and this was its last reference, setcache gives     *)
(* that leaf to freeQueue, which takes its first key for an address.       *)
Overwrites == 2 * (i - 1) >= CacheLen
MarkKills == tree = "cbtree" /\ Overwrites /\ TRUE \in PastEnd

lookup ==
  /\ op = "lookup"
  /\ \/ /\ IF tree = "cbtree" THEN Cached!Lookup(CachedCall) ELSE UNCHANGED <<map, res>>
        /\ pc' = "stop"
     \/ /\ MarkKills \/ (tree = "cbtree" /\ queueless)
        /\ pc' = "oops" /\ UNCHANGED <<map, res>>
  /\ UNCHANGED <<keys, queueless, failures>>

measured_call ==
  /\ pc = "call"
  /\ btree_insert \/ cbtree_insert \/ lookup
  /\ UNCHANGED <<loop, val, setup, measuring, counts, report, world>>

ktget_stop_early ==
  /\ pc = "stop"
  /\ stopwatch' = [stopwatch EXCEPT ![tree] = <<now, @[1]>>]
  /\ res' = NULL
  /\ pc' = "put"
  /\ UNCHANGED <<loop, val, keys, map, queueless, setup, clock, counts, report, world, failures>>
ktget_stop ==
  /\ pc = "stop"
  /\ stopwatch' = [stopwatch EXCEPT ![tree][2] = now]
  /\ res' = NULL
  /\ pc' = "put"
  /\ UNCHANGED <<loop, val, keys, map, queueless, setup, clock, counts, report, world, failures>>

(* Where the task goes on after the cached tree's call: fill_tree's loop,  *)
(* find_tree's, or the end of the initialisation.  The stopwatches are     *)
(* locals of insert_element and find_element.                              *)
NoReadings == [t \in Tree |-> <<0, 0>>]

fill_tree_short ==
  IF i + 1 < TREE_SIZE
  THEN pc' = "value" /\ op' = op /\ i' = i + 1 /\ key' = i + 1
  ELSE pc' = "draw" /\ op' = "lookup" /\ i' = 1 /\ key' = key
fill_tree ==
  IF i < TREE_SIZE
  THEN pc' = "value" /\ op' = op /\ i' = i + 1 /\ key' = i + 1
  ELSE pc' = "draw" /\ op' = "lookup" /\ i' = 1 /\ key' = key

find_tree ==
  /\ UNCHANGED <<op, key>>
  /\ IF i < TREE_SIZE * Rounds THEN pc' = "draw" /\ i' = i + 1 ELSE pc' = "loaded" /\ i' = i

Onwards ==
  \/ /\ tree = "btree"
     /\ tree' = "cbtree"
     /\ pc' = IF op = "insert" THEN "value" ELSE "start"
     /\ UNCHANGED <<op, i, key, stopwatch>>
  \/ /\ tree = "cbtree"
     /\ tree' = "btree"
     /\ stopwatch' = NoReadings
     /\ IF op = "insert" THEN fill_tree ELSE find_tree

(* With preemption disabled: the clock of the CPU that the task has come   *)
(* to.  Time that went backwards would be a BUG.                           *)
Lap == stopwatch[tree][2] - stopwatch[tree][1]

ktput_first_name ==
  /\ pc = "put"
  /\ clock' = [clock EXCEPT ![<<op, "btree">>][cpu] = [time |-> @.time + Lap, count |-> @.count + 1]]
  /\ Onwards
  /\ UNCHANGED <<val, trees, setup, counts, report, world, failures>>
ktput ==
  /\ pc = "put"
  /\ IF Lap < 0
     THEN pc' = "bug" /\ UNCHANGED <<measuring, loop>>
     ELSE /\ clock' = [clock EXCEPT ![<<op, tree>>][cpu] =
                         [time |-> @.time + Lap, count |-> @.count + 1]]
          /\ Onwards
  /\ UNCHANGED <<val, trees, setup, counts, report, world, failures>>

(* A random key, of those inserted and 0; update_search_count has no place *)
(* for the greatest one.                                                   *)
update_search_count_short(k) ==
  search_counts' = IF k < TREE_SIZE - 1 THEN [search_counts EXCEPT ![k] = @ + 1] ELSE search_counts
update_search_count(k) ==
  search_counts' = IF k < TREE_SIZE THEN [search_counts EXCEPT ![k] = @ + 1] ELSE search_counts

draw_key ==
  /\ pc = "draw"
  /\ \E k \in 0 .. TREE_SIZE :
       /\ key' = k
       /\ update_search_count(k)
       /\ beyond' = IF k = TREE_SIZE THEN beyond + 1 ELSE beyond
  /\ pc' = "start"
  /\ UNCHANGED <<op, tree, i, val, trees, setup, measuring, report, world, failures>>

-----------------------------------------------------------------------------
(* bplus_module_exit: kmem_cache_destroy while the nodes are still in use, *)
(* the four lines of ktprint, and then the trees.                          *)

bplus_module_exit ==
  /\ pc = "loaded"
  /\ cachep' = FALSE
  /\ pc' = "print"
  /\ UNCHANGED <<loop, val, trees, mempool, measuring, counts, report, world, failures>>

Order == <<<<"insert", "cbtree">>, <<"lookup", "cbtree">>, <<"insert", "btree">>, <<"lookup", "btree">>>>

Time(f) == Tally([c \in Cpu |-> clock[f][c].time], Cpu)
Count(f) == Tally([c \in Cpu |-> clock[f][c].count], Cpu)

(* __ktprint.  The share, in hundredths of a percent, is of the longest    *)
(* time printed so far.                                                    *)
Whole == 10000
Share(time, total) == (time * Whole) \div total
__ktprint_first(time, count) ==
  /\ totaltime' = IF printed = <<>> /\ time > totaltime THEN time ELSE totaltime
  /\ printed' = Append(printed, [time |-> time, count |-> count,
                                 share |-> Share(time, totaltime')])
__ktprint(time, count) ==
  /\ totaltime' = IF totaltime < time THEN time ELSE totaltime
  /\ printed' = Append(printed, [time |-> time, count |-> count,
                                 share |-> Share(time, totaltime')])

ktprint ==
  /\ pc = "print" /\ Len(printed) < Len(Order)
  /\ LET f == Order[Len(printed) + 1] IN __ktprint(Time(f), Count(f))
  /\ UNCHANGED <<pc, loop, val, trees, setup, measuring, counts, world, failures>>

destroy_trees ==
  /\ pc = "print" /\ Len(printed) = Len(Order)
  /\ keys' = {} /\ map' = {}
  /\ mempool' = [t \in Tree |-> FALSE]
  /\ pc' = "gone"
  /\ UNCHANGED <<loop, val, res, queueless, cachep, measuring, counts, report, world, failures>>

-----------------------------------------------------------------------------
(* The world, while the task measures: time passes, and the scheduler      *)
(* moves the task.                                                         *)
Measures == pc \in {"value", "start", "call", "stop", "put", "draw"}

tick == Measures /\ now < MaxClock /\ now' = now + 1 /\ UNCHANGED <<cpu, moves>>
migrate == Measures /\ moves < MaxMoves /\ cpu' \in Cpu \ {cpu} /\ moves' = moves + 1 /\ now' = now

World ==
  /\ tick \/ migrate
  /\ UNCHANGED <<pc, loop, val, trees, setup, measuring, counts, report, failures>>

Init ==
  /\ pc = "init"
  /\ op = "insert" /\ tree = "btree" /\ i = 1 /\ key = 1
  /\ val = NULL
  /\ keys = {} /\ map = {} /\ res = NULL /\ queueless = FALSE
  /\ cachep = FALSE /\ mempool = [t \in Tree |-> FALSE]
  /\ stopwatch = NoReadings
  /\ clock = [f \in Func |-> [c \in Cpu |-> [time |-> 0, count |-> 0]]]
  /\ search_counts = [k \in 0 .. (TREE_SIZE - 1) |-> 0]
  /\ printed = <<>> /\ totaltime = 1
  /\ now = 0 /\ cpu \in Cpu
  /\ moves = 0 /\ failures = 0 /\ beyond = 0

Task ==
  \/ bplus_module_init \/ create_tree
  \/ kmalloc_value \/ ktget_start \/ measured_call \/ ktget_stop \/ ktput
  \/ draw_key
  \/ ktprint \/ destroy_trees

Next == Task \/ bplus_module_exit \/ World

(* The task runs on; nothing obliges anybody to unload the module.         *)
Spec == Init /\ [][Next]_vars /\ WF_vars(Task)

-----------------------------------------------------------------------------
(* What is compared is alike: whenever lookups are measured, both trees    *)
(* hold exactly the keys from 1 to TREE_SIZE, although no failure of the   *)
(* initialisation was looked at and no insertion's answer either.          *)
TreesAlike ==
  op = "lookup" /\ pc # "gone" =>
    keys = 1 .. TREE_SIZE /\ {p.k : p \in map} = keys /\ \A p \in map : p.v # NULL

(* The calls of one function so far, by the place in the loops, and what   *)
(* the clocks of all CPUs say: each call is counted once, under the name   *)
(* of its own tree, however often the task moved in the middle of it.      *)
Measured(f) ==
  LET done == IF pc \in {"loaded", "print", "gone"} THEN i
              ELSE IF tree = "cbtree" /\ f[2] = "btree" THEN i ELSE i - 1
  IN IF f[1] = op THEN done ELSE IF op = "lookup" THEN TREE_SIZE ELSE 0
CallsCounted ==
  pc \notin {"bug", "oops"} =>
    /\ \A f \in Func : Count(f) = Measured(f)
    /\ \A l \in 1 .. Len(printed) : printed[l].count = Measured(Order[l])

(* No moment is measured twice: the times of all functions on all CPUs     *)
(* together are no longer than the time that has passed.                   *)
Times == [fc \in Func \X Cpu |-> clock[fc[1]][fc[2]].time]
TimesApart == Tally(Times, Func \X Cpu) <= now

(* search_counts and the clocks are two accounts of the same lookups: they *)
(* differ by the searches of key TREE_SIZE, which has no counter, and by   *)
(* the one that is under way.                                              *)
SearchesAgree ==
  LET underway == IF op = "insert" \/ pc \in {"draw", "loaded", "print", "gone"} THEN 0 ELSE 1
  IN Tally(search_counts, 0 .. (TREE_SIZE - 1)) + beyond
       = Count(<<"lookup", "cbtree">>) + underway

(* The percentages printed lie between 0 and 100, and each is that of the  *)
(* longest time among the lines up to its own: the longest function shows  *)
(* 100%, whether it is printed first or last.                              *)
Longest(l) == Max({printed[j].time : j \in 1 .. l})
SharesOfLongest ==
  \A l \in 1 .. Len(printed) :
    /\ printed[l].share \in 0 .. Whole
    /\ Longest(l) > 0 => printed[l].share = Share(printed[l].time, Longest(l))

(* The task dies where an allocation has failed, or in a lookup of the     *)
(* cached tree that overwrites a cache entry, of the long that lies behind *)
(* a leaf; of nothing else: no key is inserted twice, and no reading of a  *)
(* stopwatch is used before it is taken.                                   *)
DiesOfMemoryOrMark ==
  pc \in {"bug", "oops"} => failures > 0 \/ (pc = "oops" /\ op = "lookup" /\ MarkKills)

(* Loading and unloading come to their end, in success or in a fault.      *)
TaskEnds == pc # "loaded" ~> pc \in {"loaded", "gone", "bug", "oops"}

=============================================================================
