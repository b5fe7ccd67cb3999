----------------------------- MODULE MCCBTreeUse -----------------------------
(***************************************************************************)
(* Instances of CBTreeUse for TLC.                                         *)
(***************************************************************************)
EXTENDS CBTreeUse

CONSTANTS n1, n2, n3, n4, n5, n6, n7, n8, n9, n10, n11, n12

Nodes == {n1, n2, n3, n4, n5, n6, n7, n8, n9, n10, n11, n12}
AllVal == 100 .. 199
FreshMemory == {FALSE}

(* Both fill a node and split it; the last key of the victim is one that   *)
(* the target may have.                                                    *)
EvenKeys == <<2, 4, 6, 8, 10>>
OddKeys == <<1, 3, 7, 9, 11, 6>>

=============================================================================
