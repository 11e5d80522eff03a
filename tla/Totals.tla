------------------------------- MODULE Totals -------------------------------
(***************************************************************************)
(* Sums of money over the rows of a table, counted unit by unit: one pair  *)
(* <<a, i>> for every unit i of the amount f[a] of every row a of S. The   *)
(* sum needs no recursion, so that facts on finite sets are facts on sums. *)
(***************************************************************************)
EXTENDS Integers, FiniteSets

Units(f, S) == UNION {{a} \X (1..f[a]) : a \in S}

Total(f, S) == Cardinality(Units(f, S))
=============================================================================
