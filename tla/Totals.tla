-------------------------------- MODULE Totals --------------------------------
(***************************************************************************)
(* Sums of natural numbers over finite sets.  A sum is the number of units *)
(* it counts, so that what adding, removing or changing one summand does   *)
(* to it follows from facts about cardinalities (SharedTheorems).          *)
(***************************************************************************)
EXTENDS Integers, FiniteSets

\* The units of amount[x], for every x in S.
Units(amount, S) == UNION {{x} \X (1 .. amount[x]) : x \in S}

\* The sum of amount[x] for x in S.
Total(amount, S) == Cardinality(Units(amount, S))
===============================================================================
