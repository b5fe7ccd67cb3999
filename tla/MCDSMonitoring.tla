--------------------------- MODULE MCDSMonitoring ---------------------------
(***************************************************************************)
(* Instances of DSMonitoring for TLC.                                      *)
(***************************************************************************)
EXTENDS DSMonitoring

CONSTANTS t1, t2, e1, e2, e3, e4, e5

Tasks == {t1, t2}
Elems == {e1, e2, e3, e4, e5}
Indices == {0, 3}

=============================================================================
