---------------------------- MODULE MCCoordinator ----------------------------
(***************************************************************************)
(* Small instances of Coordinator for TLC.  Amounts are a few minor units; *)
(* the 34 per cent fee takes 1 of 3 units and, rounded down, 0 of 1 or 2.  *)
(***************************************************************************)
EXTENDS CoordinatorSafety, TLC

CONSTANTS n1, n2, c1, r1, r2, k1, s1, p1, p2, q1, q2

Spec1(reward, budget, max, cons) ==
    [cap |-> c1, reward |-> reward, budget |-> budget, max |-> max, cons |-> cons]

Leaf == Spec1(1, 0, 1, {})

\* lifecycle: a problem with two attempts is delegated into two children that can
\* be leased, and be overdue, at the same time, one on its last attempt ...
WideRoot == Spec1(3, 2, 2, {q1})
Last == Spec1(1, 0, 1, {q1})
Retry == Spec1(1, 0, 2, {q1})

\* ... or a problem whose delegated task delegates again, within its budget or, if
\* into another Middle, beyond it.  The constraints keep the plans of the two
\* problems apart, and a leaf without any out of both.
DeepRoot == Spec1(1, 2, 1, {q2})
Middle == Spec1(1, 1, 1, {q2})
DeepLeaf == Spec1(1, 0, 1, {q2})

LifecycleSpecs == {WideRoot, Last, Retry, DeepRoot, Middle, DeepLeaf, Leaf}
LifecyclePlans == {<<Last, Retry>>, <<Middle>>, <<DeepLeaf>>, <<Leaf>>}
LifecycleBodies == {[funded |-> 5, deadline |-> 4, spec |-> WideRoot],
                    [funded |-> 3, deadline |-> 2, spec |-> DeepRoot]}

\* market: two problems, one of them delegated, compete for the same nodes;
\* small enough for liveness, which allows no symmetry.
Root == Spec1(3, 2, 2, {})
MarketSpecs == {Leaf, Root}
MarketPlans == {<<Leaf>>}
MarketBodies == {[funded |-> 5, deadline |-> 2, spec |-> Root],
                 [funded |-> 1, deadline |-> 1, spec |-> Leaf]}

Symmetry == Permutations({n1, n2}) \cup Permutations({r1, r2})
=============================================================================
