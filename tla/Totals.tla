-------------------------------- MODULE Totals --------------------------------
(***************************************************************************)
(* Sums over finite sets.                                                  *)
(***************************************************************************)
EXTENDS Integers, FiniteSets

\* The sum of the positive values of f over S, counted as the set of its units.
Total(f, S) == Cardinality(UNION {{x} \X (1..f[x]) : x \in S})

\* The sum of values of either sign.
Net(f, S) == Total(f, S) - Total([x \in S |-> -f[x]], S)
=============================================================================
