---------------------------- MODULE MCCBTreeGeo ----------------------------
(***************************************************************************)
(* Instances of CBTreeGeo for TLC: the first, a middle and the last slot.  *)
(***************************************************************************)
EXTENDS CBTreeGeo

Ends == {0, 1, no_pairs - 1}

=============================================================================
