--------------------------- MODULE MCConnectedNode ---------------------------
(* Small instances of ConnectedNode for TLC. *)
EXTENDS ConnectedNode, TLC

CONSTANTS w1, w2, r1, r2, s1, s2, ok, bad

Symmetry == Permutations(Workers) \cup Permutations(SubmissionIds)
              \cup Permutations(Results)
=============================================================================
