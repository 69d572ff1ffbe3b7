----------------------------- MODULE MCReframing -----------------------------
(***************************************************************************)
(* A source whose root takes two attempts and may delegate one leaf.  Of   *)
(* the successors, one has a constraint more, may delegate and be reframed *)
(* in turn, and may be overdue before it is; one has two constraints more, *)
(* and one changes no more than the price.                                 *)
(***************************************************************************)
EXTENDS Reframing, TLC

CONSTANTS n1, n2, c1, r1, r2, r3, k1, s1, p1, p2, p3, q1, q2, f1, f2

Spec2(reward, budget, max, cons) ==
    [cap |-> c1, reward |-> reward, budget |-> budget, max |-> max, cons |-> cons]

Leaf == Spec2(1, 0, 1, {q1})
Root2 == Spec2(2, 1, 2, {})
Versioned == Spec2(1, 1, 1, {q1})
Again == Spec2(1, 0, 1, {q1, q2})
Dearer == Spec2(3, 0, 2, {})

MCSpecs == {Leaf, Root2, Versioned, Again, Dearer}
MCPlans == {<<Leaf>>}
MCBodies == {[funded |-> 4, deadline |-> 2, spec |-> Root2]}
MCSuccessors == {[funded |-> 2, deadline |-> 1, spec |-> Versioned],
                 [funded |-> 1, deadline |-> 2, spec |-> Again],
                 [funded |-> 3, deadline |-> 2, spec |-> Dearer]}

Symmetry == Permutations({n1, n2}) \cup Permutations({r1, r2, r3}) \cup Permutations({f1, f2})
            \cup Permutations({p1, p2, p3})
=============================================================================
