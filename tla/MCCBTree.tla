------------------------------ MODULE MCCBTree ------------------------------
(***************************************************************************)
(* Instances of CBTree for TLC: the calls that each run's clients make.    *)
(* The value stored for key k is the integer 100 + k, or 200 + k.          *)
(***************************************************************************)
EXTENDS CBTreeDocs

CONSTANTS n1, n2, n3, n4, n5, n6, n7, n8, n9, n10, n11, n12, n13, n14, n15, n16

Nodes4 == {n1, n2, n3, n4}
Nodes5 == Nodes4 \cup {n5}
Nodes8 == Nodes5 \cup {n6, n7, n8}
Nodes11 == Nodes8 \cup {n9, n10, n11}
Nodes16 == Nodes11 \cup {n12, n13, n14, n15, n16}

AllVal == 100 .. 299
FreshMemory == {FALSE}
AnyMemory == {TRUE, FALSE}
NoFill == <<>>

Call(op, key, val, gfp) == [op |-> op, key |-> key, val |-> val, gfp |-> gfp]
Insert(S, gfp) == {Call("insert", k, 100 + k, gfp) : k \in S}
Query(ops, S) == {Call(op, k, NULL, "GFP_KERNEL") : op \in ops, k \in S}
Update(S) == {Call("update", k, 200 + k, "GFP_KERNEL") : k \in S}
Last == Query({"last"}, {0})
Ascending(n) == [k \in 1 .. n |-> Call("insert", k, 100 + k, "GFP_KERNEL")]

(* Calls in any order on a small range of keys.                            *)
SmallCalls == Insert(1 .. 6, "GFP_KERNEL") \cup Query({"remove"}, 1 .. 6)

(* Eighteen keys in fill_tree's order make a tree of height 3 with five    *)
(* slots in a node, as cbtree_geo128 has: a full node splits unevenly, and *)
(* one removal can merge leaves, then inner nodes, then shrink the root.   *)
(* The last of them needs three nodes at once, and may not sleep at first: *)
(* any of the three allocations fails, or the second try finds the key.    *)
Fill18 == Ascending(17) \o <<Call("insert", 18, 118, "GFP_ATOMIC"), Call("insert", 18, 118, "GFP_KERNEL")>>
TallCalls == Query({"remove"}, {1, 10, 11, 13, 14, 16, 17}) \cup Insert({0, 13, 19}, "GFP_ATOMIC")
             \cup {Call("insert", 3, NULL, "GFP_ATOMIC")}
             \cup Query({"get_prev"}, {13, 25}) \cup Last

(* The caches of a tree of height 3 whose leaves go on splitting, of which *)
(* one is merged away under them, and whose inner nodes all stay: none of  *)
(* their queues is freed.                                                  *)
EvenFill == [k \in 1 .. 16 |-> Call("insert", 2 * k, 100 + 2 * k, "GFP_KERNEL")]
CacheCalls == Insert({27, 31}, "GFP_KERNEL") \cup Query({"remove"}, {32})
              \cup Query({"lookup"}, {2, 28, 33})

(* Every fault the code can meet: queues that could not be allocated,      *)
(* deleted marks that read as anything, queues freed full or empty.        *)
Fill5 == Ascending(5)
FaultCalls == Insert({5}, "GFP_KERNEL") \cup Query({"remove"}, {1, 3, 5})
              \cup Query({"lookup"}, {5, 6}) \cup Query({"get_prev"}, {4}) \cup Update({1})

(* The calls of the runs that find a comment violated.                     *)
LookupCalls == Query({"lookup"}, {2, 4})
RemoveCalls == Query({"remove"}, 1 .. 5)
Fill7 == Ascending(7)
StaleCalls == Query({"lookup"}, {4}) \cup Query({"remove"}, {4}) \cup Update({3})

=============================================================================
