-------------------------- MODULE MCMaterialization --------------------------
(***************************************************************************)
(* Runs of two and three concepts: two axes of the root compete for what   *)
(* the first one's own children leave; three concepts below each other are *)
(* complete; retries find a third axis; and questions run out at every     *)
(* point of a run.  A number is 10^99, the largest power that can be read  *)
(* back as it is written, or 10^100.                                       *)
(***************************************************************************)
EXTENDS Materialization, TLC

CONSTANT c1

Limits(candidates, retries, probes, depth, size, questions) ==
    [candidates |-> candidates, retries |-> retries, probes |-> probes,
     depth |-> depth, nodes |-> size, calls |-> questions]

MCPolicies == {Limits(2, 1, 1, 1, 2, q) : q \in {7, 13}}
         \cup {Limits(2, 0, 1, 2, 3, 13), Limits(1, 0, 1, 2, 3, 15)}

Power(exponent) == [digits |-> 1, exponent |-> exponent]

MCNumbers == {Power(99), Power(100)}
=============================================================================
