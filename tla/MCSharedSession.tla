-------------------------- MODULE MCSharedSession --------------------------
(* Instances of SharedSession for TLC. *)
EXTENDS SharedSession, TLC
CONSTANTS r1, r2, r3
Symmetry == Permutations(Requests)
=============================================================================
