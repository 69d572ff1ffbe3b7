---------------------------- MODULE MCRegistration ----------------------------
(***************************************************************************)
(* Two invites that may expire at different times, with two registration   *)
(* ids and two bodies mixed in every way.                                  *)
(***************************************************************************)
EXTENDS Registration, TLC

CONSTANTS i1, i2, n1, n2, n3, r1, r2, b1, b2

Symmetry == Permutations(Nodes) \cup Permutations(Registrations) \cup Permutations(Bodies)
=============================================================================
