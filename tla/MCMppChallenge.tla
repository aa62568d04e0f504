--------------------------- MODULE MCMppChallenge ---------------------------
(* Instances of MppChallenge for TLC. *)
EXTENDS MppChallenge, TLC
Symmetry == Permutations(Challenges) \cup Permutations(Requests)
=============================================================================
