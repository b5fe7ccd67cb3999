# A TLA+ model of the cached B+tree

The repository is a kernel module that measures a B+tree against a variant of
it whose nodes carry a small cache of leaves. The variant is Linux's
`lib/btree.c` (with fixed-size nodes, descending keys, no rebalancing by
shifting) in `cbtree_base.c`, plus the cache in `cbtree_cache.c`. This
directory models the variant (its algorithms, the cache, the node layout, the
ways a call can fail or fault, and what its callers may rely on), the programs
over whole trees that come with it, the module that measures both trees, and
the search counters that the repository keeps beside them.

## 1. Inventory

| component | state | operations | interacts with |
|---|---|---|---|
| node slots (`cbtree_base.c:118-189, 241-270, 461-481`) | keys and pointers of one node | `getpos`, `getfill`, `setkey`, `setval`, `clearpair`, the shifting, splitting and appending loops | used by every tree operation |
| geometries and layout (`cbtree_base.c:49-81, 163-189`, `cbtree_base.h`) | constants, the longs of a node | `bkey`, `bval`, the words of the cache after the pairs | nodes, cache |
| the tree (`cbtree_base.c:191-771`) | `head->node`, `head->height`, the nodes, the mempool | `cbtree_init`, `insert`, `remove`, `lookup`, `update`, `get_prev`, `last`, `destroy` | mempool (may fail under `GFP_ATOMIC`), cache |
| the leaf cache (`cbtree_cache.c`) | a circular queue per node, a count and a deleted mark per leaf | `initQueue`, `findNode`, `setcache`, `freeQueue` | called by node allocation, lookup, merge, shrink; writes into nodes |
| merging two trees, visitors (`cbtree_base.c:773-938`) | two trees | `cbtree_merge`, `cbtree_visitor`, `cbtree_grim_visitor` | the tree's operations |
| typed wrappers (`cbtree-type.h`, `cbtree-128.h`) | none | casts and key conversion | the tree's operations |
| profiling module (`btree_profiling.c`) | both trees, two slab caches, `search_counts` | module init and exit, `fill_tree`, `find_tree` | everything above |
| `calclock.c` | per-CPU sums | `ktget`, `ktput`, `ktprint` | profiling module |
| `ds_monitoring.c` (not built, see the Makefile) | an XArray of counted elements, their total | `find_ds_monitoring`, `print_ds_monitoring`, `delete_ds_monitoring`, by any number of tasks | nothing in the build |

What is hard here:

* **Recursion that writes behind itself.** An insertion that splits inserts the
  new node one level up *before* it moves the pairs, and then starts again at
  the root. A removal that merges passes the parent's own slot down as the key
  of the next removal, which shifts that very slot.
* **Half-done calls.** Any of the allocations of one insertion may fail, and the
  levels below must be undone. A fault (the code has several that ordinary
  calls reach) leaves the tree as it is in the middle of a call.
* **Stale cache entries.** Queues remember leaves by pointer. Splits move keys
  out of them, merges empty them, shrinking frees queues.
* **Programs over many calls.** `cbtree_merge` moves an entry by two calls that
  may fail in turn; `cbtree_for_each_safe` goes on from a key that its own body
  may have removed.
* **Accounts that must agree.** The clocks, `search_counts`, and the counters of
  `ds_monitoring.c` are added to by a task that moves between CPUs, and by
  several tasks without a lock.
* **Boundaries.** Key 0 is also what an empty slot contains; `dec_key` wraps;
  `no_pairs` may be odd; the cache's three words are reserved as three bytes.

What makes each part correct: a node stays in order (slots); fields of a node
do not overlap and lie inside it (layout); every stored key is on the path its
search takes, the nodes form a tree, no node leaks, and calls behave as a map
of keys to values (tree); counts agree with entries and an answer of NULL is
never wrong (cache); every call comes back (all of them). A merge keeps every
key and separates the heads, a loop visits all keys once and removes those it
chose (programs); what is compared is alike, every call is counted once, and
printed shares are right (profiling); no search is forgotten or counted twice
and what races may cost is bounded (`ds_monitoring`).

## 2. Modules

| module | what it models |
|---|---|
| `CBTreeNode` | one node as a function from slots to pairs `[k, v]`; the loops over slots |
| `CBTreeCache` | the circular queue and its four operations |
| `CBTree` | the state machine: all calls on one tree, with failures and faults |
| `CBTreeMap` | the abstract specification: a map of keys to values with the contracts of `cbtree_base.h` |
| `CBTreeProps` | shape, path, account and answer properties; the refinement of `CBTreeMap` |
| `CBTreeDocs` | what comments of the code say and the code does not do |
| `CBTreeGeo` | where keys, values and cache words lie in a node's longs |
| `CBTreePairs` | the abstract specification of the loops over slots: each changes the pairs in one step, by `CBTreeNode`'s operators |
| `CBTreeWords` | the same loops one long at a time, with keys of several longs, `longcmp` and `dec_key`; implements `CBTreePairs` |
| `CBTreeUse` | programs over two heads: `cbtree_merge`, both visitors, `cbtree_for_each_safe`, `cbtree_destroy` |
| `BTreeProfiling` | the kernel module from `insmod` to `rmmod`, with the clocks of `calclock` |
| `DSMonitoring` | the concurrent search counters |
| `Tally` | the sum of a function's values over a finite set: what the counters of `BTreeProfiling` and `DSMonitoring` add up to |
| `CBTreeNodeProofs`, `CBTreeGeoProofs` | lemmas and theorems on the operators |
| `CBTreeWordsProofs`, `CBTreeProofs`, `CBTreeShapeProofs`, `CBTreeMapProofs`, `BTreeProfilingProofs`, `DSMonitoringProofs` | theorems on the state machines |
| `MCCBTree`, `MCCBTreeGeo`, `MCCBTreeWords`, `MCCBTreeUse`, `MCBTreeProfiling`, `MCDSMonitoring` | instances for TLC |

`CBTree` extends `CBTreeCache`, which extends `CBTreeNode`. Four modules are
composed of others:

* `CBTreeProps` maps the tree to `CBTreeMap` (`ImplementsMap`).
* `CBTreeWords` takes its layout from `CBTreeGeo` and maps its longs to
  `CBTreePairs`, whose steps are `CBTreeNode`'s operators (`ImplementsPairs`).
  This closes the gap between memory and the pairs that `CBTree` works on.
* `CBTreeUse` instantiates `CBTreeProps` once for each head. The two share the
  nodes (one slab cache) and the one call that runs; every step inside a call is
  a step of `CBTree`.
* `BTreeProfiling` uses `CBTreeMap` for the cached tree.

A definition named after another one with a suffix (`getpos_strict`,
`Goal_same`) is a plausible mistake in the code. Nothing uses it; put in the
other's place, it breaks the property that PROJECT.json names beside it.

### State and actions

`mem` holds the pairs of every node, `root` and `height` the head, `alloc` the
nodes the mempool has handed out, `queue` and `cnt` the first two of the
cache's words of each node. `call` is the call that runs: its local variables
(`cur`, `h`, `child`, `fill`, `key`, `retry`), its result, and as `stack` what
the activations further down the C stack wait for. The library takes no lock
and its only user calls it from one task, so one call runs at a time.

A call is cut into steps at each level it visits, at each node it allocates and
at each entry of a queue it frees, because those are the points where it can
fail, fault or restart. `find_level` is one step per level; `cbtree_insert_level`
is `insert_level`, `cbtree_grow` (or `grow_fails`), then `insert_bug`,
`insert_shift`, `insert_split` or `split_fails`, and on the way back
`split_moves` or `split_undone`; `cbtree_remove_level` is `remove_missing` or
`remove_level`, the latter with all of its tail, and `rebalance` contains
`merge`. `freeQueue`, `freeQueue_faults` and `node_freed` run on the way back of
a removal, as in the code. `lookup_node` and `setcache` are the two halves of
the recursion of `cbtree_lookup_node`.

Faults. A NULL dereference gives the status `oops`, a `BUG_ON` the status `bug`,
and both end the call where it is. The kernel's default (`panic_on_oops = 0`)
kills the task and goes on, so the model goes on with the tree as it is left.
The memory after the node's last long, which `findNode` and `freeQueue` read as
the deleted mark, belongs to somebody else: it reads as any value of the
constant `PastEnd`. `cachelongcmp` compares `arr_len` longs of buffers that hold
one key, so equal keys may compare as different.

`CBTreeWords`: `words` is the memory of two nodes, `row` which of them are in
use, `todo` the moves that the running loop has still to make (set slot i to
slot j, store, clear) and `w` the long that is next. `longcpy` and `setval` move
one long. `before` remembers what the loop started from: the refinement mapping
shows the abstract state as it was until the last long is moved. A split first
allocates its new node (`cbtree_node_alloc`): the longs of the node are cleared,
and the address of its queue (`Queue`), unless it got none, is stored at long
`arr_len`, which for keys of several longs is one of the node behind (`Behind`).
Then the loop begins, or the new node is given back (`split_fails`). `Apart` says
that no queue lands in the other of the two nodes. The nodes of other levels and
trees, whose queues may land here as well, are not modelled, nor are counts and
marks, which lookups cause: they lie behind the queue and go astray where it does.

`CBTreeUse`: `prog` is the program that runs: the statement it is at, the key and
value it carries, the C stack of `__cbtree_for_each`, and what it has seen and
removed. A program's step begins a call of `CBTree`, and the call's return lets
it go on; the visitors read nodes themselves, one slot a step. A call that dies
takes its program with it. The grim visitor frees a node as `cbtree_shrink`
does, so it dies at the first leaf. No program starts after a death: what that leaves behind is the subject
of `CBTree`'s own runs.

`BTreeProfiling`: `pc` is the statement of the one task, `i` and `key` the loops
of `fill_tree` and `find_tree`; `clock` holds time and count per function and
CPU, `stopwatch` the two readings of each tree. `tick` lets time pass and
`migrate` moves the task to another CPU before any statement. An insertion that
needs a node dies when the mempool or the slab cache was not created, or the
queue got no memory; a node whose queue got none of its entries is marked by
`queueless`, and a later lookup may die there. A lookup may also die in `setcache`
with no allocation failed (`MarkKills`): once earlier lookups have filled a cache of
`CacheLen` entries (`Overwrites`), the entry that is dropped may be the only one of
its leaf, and the long past that leaf (`PastEnd`, as in `CBTree`) read as a mark.

`DSMonitoring`: `task[t].pc` is the statement each task is at. `xa_load`, the two
`__sync_fetch_and_add`, `kmalloc`, `xa_store` and each round of `xa_for_each` are
a step each. `delete_ds_monitoring` needs all tasks out of the other functions,
as at the unloading of a module.

Abstractions. In `CBTree`, keys are one long (`cbtree_geo32`, or `cbtree_geo64`
on a 64-bit machine) and wrap at `MaxLong`. Values and nodes are opaque addresses. The
`kmalloc` of an entry's key buffer always succeeds (that of entries and of the
queue may fail); the long before a node, which `clearpair` of slot -1 would
reach, is not modelled; queues that no node leads to are not accounted for.
`setcache`'s write of the freed-node path ends in a fault as soon as a mark
reads as set. `freeQueue` gives a remembered leaf back only when the leaf's own
queue would let it pass (`PassesQueue`); otherwise it faults there.

## 3. Runs

| run | instance | shows |
|---|---|---|
| `small` | 4 slots, 5 nodes, insertions and removals of keys 1..6 in every order | `KeysFound`, `OneParentEach`, `NoEmptyNodes`, `BugOnlyOnMisuse`, `NeverAboveRoot`: the tree is in order after every call, also after the ones that failed or died; `NoLeak`: the only nodes that get lost are those which a removal was giving back when it died |
| `tall` | 5 slots, 11 nodes, 18 keys ascending (height 3), the last of them first under `GFP_ATOMIC`; then removals, `GFP_ATOMIC` insertions of 0, 13, 19 and of a NULL value, `get_prev` and `last` in any order | `NodesInOrder`; `NoLeak`: an insertion that fails at any of its three allocations gives its nodes back, and merges on two levels lose no other node than the one they free; and `ImplementsMap`: seen from outside the tree is a map |
| `cache` | 4 slots, 16 nodes, queues of 3, 16 even keys (height 3), then insertions that split, a removal that merges, and lookups | `EntriesCounted`, `NullMeansAbsent` |
| `faults` | 4 slots, 4 nodes, queues of 2, any deleted mark, any failed allocation | `TypeOK`, and `CallsReturn` under fairness |
| `apart` | the layout of `cbtree_geo128` on 64 bits | `WritesApart`, `PairsInside` |
| `words` | 128-bit keys in nodes of 128 bytes (5 slots), longs of three values, 5 keys, no node right behind the other | `RowInOrder`, `PairsKept`, and `ImplementsPairs`: moving longs implements moving pairs |
| `use` | 4 slots, 12 nodes, two heads of 0 to 5 and 0 to 6 keys, any two programs one after the other | a merge that succeeds, stops or dies keeps every key and leaves the heads apart (`MergeKeepsKeys`, `MergeMoves`, `HeadsApart`); nothing but what `cbtree_destroy` drops is lost (`NothingLost`); the loops visit all keys once and remove those they chose (`LoopsVisitAll`, `LoopRemovesChosen`); the grim visitor dies in a tree with keys and leaves all of it to its owner (`GrimLeavesTree`); `ProgramsEnd` under fairness |
| `monitor` | 2 tasks, 2 indices, 5 searches, 1 failing allocation | `TypeOK`; `SearchesCounted` and `TotalCounted`: no search is forgotten by the elements or the total; `LeakBounded`, `LagBounded`: what the race on a new element and on the total can cost; `TasksReturn` under fairness |
| `profiling` | 2 keys, 2 lookups, 2 CPUs, 2 ticks of time, 1 migration, 1 failing allocation, caches of 2 entries, any deleted mark | `TreesAlike`, `CallsCounted`, `TimesApart`, `SearchesAgree`, `SharesOfLongest`, `DiesOfMemoryOrMark`; `TaskEnds` under fairness |
| `doc_lookup` | five keys, lookups | a lookup returns a leaf, and possibly another key's leaf; `cbtree_base.h:98` promises the value |
| `doc_stale` | seven keys, a lookup, a removal, an update | an update answers 0 after changing a leaf that is no longer in the tree; `cbtree_base.h:125` calls that a success |
| `doc_oops` | five keys, removals | the first merge of two leaves faults in `freeQueue`, in the trace for the old root that `cbtree_shrink` frees; `cbtree_base.h:137` says that a removal returns |

Bounds and why they are enough. Four slots are the least for which the code's
`no_pairs / 2` merges at all (assumed in `CBTreeNode`); five give the uneven
split. Five nodes let a tree of height 2 split, merge, shrink and run out of
nodes. Height 3 is the least at which one removal merges leaves, then inner
nodes, then shrinks the root, and one insertion allocates three times. Every
key from 0 to `MaxLong = 99` is legal; 0 is inserted in `tall` and decremented
past in `faults`. A queue has 4 entries in the code; 2 or 3 fill and rotate
sooner. In `cache` the fill keeps every inner node in the tree, because
`EntriesCounted` does not survive the loss of one: `freeQueue` drops the entries
of a filled queue without releasing the leaves they count.

In `words`, three values of a long are the least at which a borrow meets a long
that is 0, 1 and the greatest, and five keys fill a node, whose halves after the
split may be filled, emptied and merged again. The two nodes are alike there, so
they are symmetric (`Either`). In `use`, the heads may be
filled up to one split each, so that a merge meets an empty head, a leaf and a
tree of height 2 on either side; one key may be in both. A body that removes,
or a merge, empties trees of height 2, which merges leaves on the way. In
`monitor` two tasks can miss the same index at once and a third search then
meets the element that stayed; five searches leave some for the other index. In
`profiling` the four measured functions are called twice each, between any two
readings of which the clock may stand still or advance, and the task may move
once within any call or between calls.

The deadlock check is off in three runs because their systems stop: `use` after
`MaxPrograms` programs or the loss of its head, `monitor` when the counters are
deleted or every task has died, `profiling` when the module is unloaded or its
task has died. In the others a client can always call again.

Where `ImplementsMap` is weaker than the comments of `cbtree_base.h` it is so
because the code is: an insertion may fail or BUG on a duplicate, a removal may
die after it has removed, a lookup that finds something answers with some node,
and an update may always answer `-ENOENT`.

Fairness. `CBTree` assumes `WF_vars(LibraryStep)`: a call that has begun takes
its next step. The library sleeps only in `mempool_alloc`, which returns, and
waits for no other task. `CBTreeUse` assumes the same of a program and its calls
together, `BTreeProfiling` of its one task (not of time, of the scheduler's
moves, or of the unloading), `DSMonitoring` of every task for itself: each is a
kernel task that is scheduled again and takes no lock that another could keep.
`CBTreeWords` lets a loop that has begun go on. Nothing obliges a client to call.

### Divergences without a run of their own

* `cbtree_update` answers `-ENOENT` for a present key when the cache gave it
  another key's leaf (`cbtree_base.c:397` against `cbtree_base.h:125`).
* Updating an absent key 0 matches the first empty slot of the leaf that the
  lookup answered with (any key's leaf, when a cache answered), stores the value
  there and answers 0 (`cbtree_base.c:397-406` against `cbtree_base.h:125`).
* Removing an absent key 0 matches an empty slot and removes the last pair of the
  right-most leaf, the smallest entry (`cbtree_base.c:743` against
  `cbtree_base.h:137`).
* `cbtree_get_prev` of the smallest key restarts below a separator 0, wraps, and
  answers with the largest entry (`cbtree_base.c:453` against `cbtree_base.h:182`);
  `cbtree_for_each_safe` then never ends.
* `cbtree_last` sets the caller's key to 0 on a tree that was emptied
  (`cbtree_base.c:236` against `cbtree_base.h:168`).
* Neighbours that would fit into one node occur (`cbtree_base.c:717-723` says
  not), because only a node that has just shrunk below half is looked at; and a
  leaf that empties may have siblings (`cbtree_base.c:668-671` says not).
* `rebalance` frees `right`, which is NULL at line 681, and leaks the child.
* `freeQueue` drops the entries of a filled queue without releasing the leaves they
  count (`cbtree_cache.c:182`), whose counts then stay too high for good.
* Freeing the filled queue of an old root decrements a key (slot 1) of each leaf
  in it (`cbtree_cache.c:180`): the count it means to release lies `arr_len`
  longs further on. A node of the tree is then out of order.
* The deleted mark of a geometry with keys of one long is one long past the node
  (`cbtree_base.c:60` against the reservation at line 49; theorem
  `DeletedMarkPastEnd`). With 128-bit keys on 64 bits even the queue is stored
  past the node, in a key of the one packed behind it (`cbtree_base.c:112`;
  theorem `QueueInNextKeys`), whose keys may lose their order.
* `cbtree_merge` inserts what a lookup returns, which is the leaf and not the
  value (`cbtree_base.c:798`); `CBTreeUse` does so too, and its properties speak
  of keys.
* Two tasks that miss the same new element of `ds_monitoring` lose the count of
  one (`ds_monitoring.h:55` calls it the number of searches): `SearchesCounted`
  says where the lost count is, `LeakBounded` how many can be.
* The percentages of `__ktprint` are of the longest time printed so far, and not
  of the total that the variable's name announces (`calclock.c:45`).
* The module's exit destroys the slab cache before the trees give their nodes
  back (`btree_profiling.c:172`), and destroys a cache that may be NULL.
* `cbtree-type.h` hands `visitorl` to `cbtree_visitor`, where `cbtree_base.c`
  defines `cvisitorl`.
* On a 32-bit little-endian machine a u64 key lies in memory with its lower half
  first, and `longcmp` compares that half first.

## 4. Proofs

All theorems hold for every value of the constants that the assumptions of the
modules allow: any number of slots from 4 on, any set of nodes and values, any
queue length, any calls, any number of tasks, CPUs and elements. The assumptions
say that the kernel's objects are told apart (`NULL` is no node, value, element,
queue or slot of a node, a client's values are no nodes, and an answer of the
map is not one of its own words: `NodeAssumption`, `ValAssumption`,
`QueueAssumption`, `KeyPtrAssumption`, `NullAssumption`, `AnswerAssumption`), that sets of tasks, CPUs and elements are
finite, that the loops of `CBTreeWords` work for clients who store no NULL and
nothing under key 0, which unused slots hold too (`KeysAssumption`,
`ValuesAssumption`; `CBTree` allows both), and two things about sizes: a node has
at least four slots (`NoPairsAssumption`, `GeometryAssumption`), and all cache entries together are no more than a long
can count (`CountAssumption`; a node of 128 bytes is longer than its queue's
entries are many, and all nodes fit the address space, so the count of a leaf
cannot wrap).

An invariant that TLC checks is seldom inductive as it stands. Each paragraph
names the strengthening and says why it is needed.

### The tree under all calls

* `CBTreeProofs!TypeCorrect` proves `Spec => []TypeOK`. `TypeOK` is inductive. It
  says more than types: a call's stack holds frames of its own recursion only
  (`StackOK`) and a few registers are in range when they are read
  (`RegistersOK`), without which the step of `split_moves`, `merge` or
  `node_freed` would not keep the types. There is one lemma per action.
* `CBTreeShapeProofs!RemovalStaysInTree` proves `Spec => []NeverAboveRoot`: the
  branch of `cbtree_remove_level` that drops the whole tree (lines 733-738) is
  dead. The property alone is not inductive: `rebalance` goes one level up. The
  strengthening `HeightInv` adds that a level that rebalances is strictly below
  the root's and that the height is never negative.
* `CBTreeProofs!CountsAgree` proves `Spec /\ [][NothingFreed]_vars =>
  []EntriesCounted`: the count of a leaf is that of the cache entries which refer
  to it. The premise is what the code needs: once a removal frees a node,
  `freeQueue` drops the entries of its queue without releasing the leaves. A
  removal may do everything else. `CountInv` strengthens the property three
  times. A node that comes out of the pool has its count reset, so nothing may
  refer to it: `HeapInv` says that no register, no slot and no cache leads to a
  node of the pool, or to one that a split has taken and the level above has not
  stored yet, and that its own queue is empty (a failed insertion gives a node
  back with its queue, and the next one finds it there). `Chain` says that each
  activation of `cbtree_insert_level` was handed the node the one below it took,
  no node twice; `Asked`, that a lookup comes back to nodes in use.

### The tree that only grows

`btree_profiling.c` inserts and looks up and never removes. `Growing` is the
hypothesis that no client removes, and that none updates key 0 or stores a NULL
by an update, either of which makes a used slot of an unused one or the reverse
(see the divergences). Clients may insert duplicates and NULL, look up, update,
walk with `get_prev` and `last`; any allocation may fail, and any call may die.
The constants of `doc_lookup` satisfy it. Under it, eight properties that the
runs check are theorems of `CBTreeShapeProofs` and `CBTreeMapProofs`, and so is the one of
`doc_stale`, which removals break:

| theorem | property |
|---|---|
| `GrowingKeepsOrder` | `NodesInOrder` |
| `GrowingStrandsNoKey` | `KeysFound` |
| `GrowingKeepsTree` | `OneParentEach` |
| `GrowingKeepsNodesFilled` | `NoEmptyNodes` |
| `GrowingBugsOnlyOnMisuse` | `BugOnlyOnMisuse` |
| `GrowingAnswersNullForAbsent` | `NullMeansAbsent` |
| `GrowingLeaksNothing` (in `CBTreeMapProofs`) | `NoLeak`, when no `kmalloc` fails inside `initQueue`: no step loses a node (`Lost` stays empty) |
| `GrowingCountsEntries` | `EntriesCounted`, without `NothingFreed` |
| `GrowingUpdatesTake` | `UpdateTakes`, which `cbtree_base.h:125` promises |

They share one inductive invariant, `GrowInv`: there are levels `at`, and for
every node a span of keys from `lo` to below `hi`, such that `Grown(at, lo, hi)`.

* `Shape` is the B+tree. The slots of one level lead to the nodes of the next and
  to all of it, every node is in order and has keys of its span only, the spans of
  one level do not meet, and the span of a child begins at the key of its slot and
  ends at the key of the slot before. Between calls the levels are those of
  `CBTreeProps` (`LevelsAtRest`), and a key leads down to the one leaf whose span
  it is in, which is why every stored key is found. Spans rather than keys are
  needed because a separator need not be a key of the leaf below it, and because
  `find_level` lowers the right-most separator on the way down, before it is known
  whether the insertion succeeds.
* A split has its new node stored one level up before it moves a pair. `Tree` is
  the memory in which the innermost split that has got this far has moved its
  pairs, and `Shape` speaks of `Tree`: storing the new node is then the step that
  splits the span (`SplitShape`), and moving the pairs changes nothing.
* `Frames` says that the activations of an insertion wait with a full node each,
  one level apart, with an empty new node, and with the key in the slot at which
  the level below splits (`SplitSlot`). `Walk`, `Look`, `Cached` say where a
  descent and the caches may point: to a node whose span has the key, to leaves.
* `Wide`, that a root above the leaves has two children, holds but for the moment
  between `cbtree_grow` and the insertion for which it was called (`NewRoot`).
  `Verdict` and `Account` carry the answer of a call and the nodes in use.
* `Kinds` says that only insertions insert: the premise `Growing`, step by step.

There is one lemma per action. `GrowthStep` joins them with those of `CountInv`,
which needs no premise here because no step of a removal is left but the return
of `get_prev` and `last` (`NoRemoval`).

### The tree implements the map

`CBTreeMapProofs!GrowingImplementsMap` proves `Spec => ImplementsMap` under
`Growing` and `Served`: every behaviour of the tree, seen through the refinement
mapping of `CBTreeProps` (`MapPairs`, the pairs of the leaves, and `MapAnswer`,
the answer of the call that has come back), is one of `CBTreeMap`. Each step of
the tree is the map's step or leaves the map and the answer alone. So no walk,
split or cache makes a call answer with what the map would not.

`Served` says in which world that is so. `kmalloc` gives memory, and the long past
the end of a node is not taken for a deleted mark: otherwise a lookup may die in
the cache, which no client asked for and the map does not allow. And clients that
call `get_prev` store nothing under key 0: otherwise a separator 0 arises and
`get_prev` wraps (see the divergences). The constants of `doc_lookup` satisfy both.
The mempool may still fail, duplicates and NULL values still end in a `BUG_ON`;
the map allows for both.

The invariant is `MapInv`, on top of `GrowInv`, `CountInv` and `Kinds`:

* `Queued`: every node of the tree has its queue, so no lookup faults.
* `Asking`: the call that runs is one that a client makes. A split overwrites
  the register of the value on the way up; the client's value is then in the
  outermost frame (`ClientVal`).
* `Refused`: an insertion that has met a full leaf has seen that its key is
  absent, and stays entitled to fail with `-ENOMEM`.
* `Seeded`: a root leaf is empty only while its first pair is on the way;
  `cbtree_last` would read the empty slot.
* `Nonzero`, for clients of `get_prev`: no slot in use has key 0. Without it the
  key that `get_prev` restarts with could be decremented past 0.
* `PrevWalk`: the node that `get_prev` has reached has the decremented key in its
  span, no key of the tree lies between that key and the client's, and the key it
  would restart with is the lower end of the node's span. So a miss proves that
  the node's span holds nothing smaller, and the restart goes to the span below.
* `LastWalk`: the node that `last` has reached is the right-most of its level.
* `NothingThere`: who answers NULL at once has an empty tree, or asked below 0.

`CBTreeMapProofs` has one lemma for each action again, twice: that it keeps
`MapInv`, and what it is to the map. The contents of the leaves are a union over
the nodes of the lowest level, so a step that splits a leaf moves pairs between
two members (`Tree`, above, lets it do so in one step).

### Nodes and their layout

* `CBTreeNodeProofs` proves what the loops over slots do, for every node:
  `InsertKeepsOrder`, `RemoveKeepsOrder` (order), `InsertAddsPair`,
  `RemoveTakesPair` (contents), and lemmas on `getpos`, `getfill` and splitting.
* `CBTreeGeoProofs!FieldsApart` proves that no two fields of a node share a long,
  whatever the cache line, the size of a long and the length of a key, so the
  view of `CBTreeNode` is sound; `PairsStayInside`, that no write to a key or a
  value reaches past the node; `DeletedMarkPastEnd` shows where the mark of a
  geometry with keys of one long is, and `QueueInNextKeys` where the queue of
  `cbtree_geo128` is.

### The loops, long by long

`CBTreeWordsProofs` proves what the run `words` checks of nodes with five slots
and keys of two longs, for every cache line, size of a long, length of a key and
number of values of a long (`Base`), so long as a node has four slots:

The last three have the premise `Apart`, without which they are false
(`QueueInNextKeys`):

| theorem | says |
|---|---|
| `LongcmpOrders` | `longcmp` orders keys as the numbers that their longs spell |
| `OneLongKeysApart` | `Apart` holds for keys of one long, those of `btree_profiling` |
| `RowStaysInOrder` | `RowInOrder`: `getpos` always meets nodes in order, and so does whoever relies on siblings not to cross |
| `PairsStayKept` | `PairsKept`: no loop drops a pair on its way |
| `WordsImplementPairs` | `ImplementsPairs`: each loop is one step of `CBTreePairs` |

* `Number` is a recursive function, and what holds of it up to the last long is
  proved from the first long on without an induction theorem: the least long at
  which it would fail has one before it, at which it does not (`UpTo`).
  `FirstDecides` then orders keys, `BorrowDecrements` justifies `dec_key`.
* A view (`View`) is the memory as a vector of longs for each slot; that a write
  to one place of it changes no other rests on `FieldsApart` (`WriteLong`). A
  chain of views (`Goes`) has one move between each view and the next, and each
  move spares, in a slot that it does not write, every pair that must be kept.
* The invariant `Inv` says that while a loop runs there is a chain through the
  moves it has still to make, that memory is the chain's first view with the first
  `w` longs of the next move written (`Partly`), and that the chain's last view
  holds the pairs which `CBTreeNode`'s operator makes of those before the loop
  (`Promise`). A copy reads from a slot that the move does not write, so a half
  written slot does no harm. For `dec_key` it says which longs were 0 and have
  wrapped (`Decrementing`).
* `InsertChain`, `RemoveChain`, `SplitChain` and `MergeChain` give the chain of
  each loop in closed form: which slot holds what after `e` moves. Here it shows
  that a shift goes in the right direction, and that an odd node's last pair is
  moved by its own two moves.
* An allocation changes no slot but those of its node (`AllocatedLongs`): the
  queue's place is no pair's, if it is in the node at all (`PlacesBefore`). To the
  pairs, a split is two steps: the new node is cleared, then the pairs move.
* `PromiseSorted` shows that the operators keep the row in order, from the lemmas
  of `CBTreeNodeProofs`; the next loop's search relies on it.

### The counters

`Tally` defines the sum of a function's values over a set as the number of units
its bars are made of, a cardinality. A fold would say the same, but what a fold
computes can be proved by induction only, which the prover does not offer for
operators; what adding one unit does to a cardinality follows from the facts on
finite sets. Both proof modules below begin with the lemmas on `Tally` they need.

* `DSMonitoringProofs` proves all of the run's safety properties, for any number
  of tasks. `Typed` is `TypeOK` with what a task knows of its locals (`Local`),
  that an element found under an index is one of that index (`Keyed`), and that
  nobody searches what was deleted (`AtRest`). `EverySearchCounted` and
  `TotalKeepsUp` need nothing more. `PrintsLagLittle` needs `ReadCounts`: a count
  that a print has read is still no more than what the elements have now.
  `LeaksBounded` needs `LeakInv`: the elements of an index and the tasks that have
  just missed it are no more than all tasks and the failed stores, and as long as
  the array has none for it, each element is that of a task about to store it or
  of a failed store.
* `BTreeProfilingProofs` proves all of the run's safety properties, for any size
  of the trees, any number of CPUs, moves and failures. `InLoop` ties the
  statement to the loop it is in; `Clocks` and `Accounts` give clocks, counters and
  printed lines their types. `EveryCallCounted` and `AccountsOfSearchesAgree` need
  nothing more. `NoTimeTwice` adds `TimesInOrder`: the time that has been charged
  lies before the first reading of a stopwatch that runs. `LookupsSeeEqualTrees`
  adds `Contents`: which keys each tree holds, given where the loops of
  `fill_tree` are. `MemoryOrMarkKills` adds `Lacking`, that a cache, a pool, a queue
  or a value that is missing has been counted as a failed allocation.
  `SharesAreOfLongest` adds `Shares`, that `totaltime` is the longest time printed.

### What is only model-checked

* `KeysFound`, `OneParentEach`, `NoEmptyNodes`, `BugOnlyOnMisuse`, `NodesInOrder`,
  `NoLeak` and `NullMeansAbsent` where clients remove (`small`, `tall`, `cache`).
  A removal that merges hands down a slot that it then shifts, and one that dies
  leaves pairs in two nodes: the invariant has to describe every such moment.
* `ImplementsMap` where clients remove (`tall`), and all of `CBTreeUse`, whose
  programs remove.
* `CallsReturn`, `ProgramsEnd`, `TasksReturn` and `TaskEnds`: liveness under
  fairness is out of the prover's reach.

## 5. Not modelled, and the plan

Not modelled:

* Two tasks in one tree. Nothing in the repository calls the library from two
  tasks, and it takes no lock.
* `getNodeValue`, which nothing calls; the entries that a failed `initQueue`
  leaks; the allocator's reuse of queues that were freed.
* CPUs that come and go: `ktprint` reads the clocks of the CPUs online, and in
  the model all of them stay so.
* `separate_num`, indentation and the time per thread: the layout of a line.
* What the allocator does with nodes of a slab cache that is gone.
* `lib/btree.c`, which is the kernel's: a set of keys.
* The Makefile and `sh_test.sh`, which build, load and unload the module.

Next, in this order, are proofs:

1. `GrowInv` for removals that end: the moment between the two slots of a merge,
   and the separators of a tree that shrinks.
2. `CBTreeUse!GrimLeavesTree` and `HeadsApart` for a program's own steps.
