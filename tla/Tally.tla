------------------------------- MODULE Tally -------------------------------
(***************************************************************************)
(* The sum of a function's values over a finite set, for the accounts that *)
(* the profiling modules keep: counts, times and searches.  It is the      *)
(* number of units that the function's bars are made of, rather than a     *)
(* fold: what a fold computes can only be proved by induction, and what a  *)
(* cardinality is follows from the facts on finite sets.                   *)
(***************************************************************************)
EXTENDS Integers, FiniteSets

Units(f, S) == UNION {{s} \X (1 .. f[s]) : s \in S}
Tally(f, S) == Cardinality(Units(f, S))

=============================================================================
