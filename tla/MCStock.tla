------------------------------ MODULE MCStock ------------------------------
(* Instances of Stock for TLC. *)
EXTENDS Stock, TLC

CONSTANTS s1, s2, b1, b2

MCSymmetry == Permutations(Bottles)
=============================================================================
