---------------------------- MODULE MCBudgetMeter ----------------------------
(***************************************************************************)
(* Small instances of BudgetMeter for TLC: two dimensions, of which one    *)
(* is tight, and calls that take nothing of one, or of the other, or more  *)
(* than was reserved.                                                      *)
(***************************************************************************)
EXTENDS BudgetMeter, TLC

CONSTANTS a, b, c1

Pair(x, y) == [k \in Dims |-> IF k = "model_calls" THEN x ELSE y]

MeterDims == {"model_calls", "output_tokens"}
MeterLimits == Pair(2, 3)
MeterUsages == {Pair(1, 0), Pair(1, 1), Pair(1, 2), Pair(0, 3)}

Symmetry == Permutations(Calls)
=============================================================================
