---------------------------- MODULE MCCBTreeWords ----------------------------
(***************************************************************************)
(* Instances of CBTreeWords for TLC: 128-bit keys on a 64-bit machine, in  *)
(* nodes of 128 bytes, which have five slots.                              *)
(***************************************************************************)
EXTENDS CBTreeWords

CONSTANTS n1, n2

Nodes == {n1, n2}

(* The node behind each is another tree's.                                 *)
Elsewhere == [n \in Nodes |-> "elsewhere"]

Either == Permutations(Nodes)

Keys128 == {Key128(0, 1), Key128(0, 2), Key128(1, 0), Key128(1, 2), Key128(2, 0)}
Values == [k \in Keys128 |-> 10 + 3 * k[0] + k[1]]

=============================================================================
