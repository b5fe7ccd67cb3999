-------------------------- MODULE MCBTreeProfiling --------------------------
(***************************************************************************)
(* Instances of BTreeProfiling for TLC.                                    *)
(***************************************************************************)
EXTENDS BTreeProfiling

CONSTANTS c1, c2, n1

Cpus == {c1, c2}
Nodes == {n1}
AnyMemory == {TRUE, FALSE}

=============================================================================
