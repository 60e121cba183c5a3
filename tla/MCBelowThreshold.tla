-------------------------- MODULE MCBelowThreshold --------------------------
(* Model-checking instance of BelowThreshold with interchangeable lots. *)
EXTENDS BelowThreshold, TLC

LotSymmetry == Permutations(Lots)
=============================================================================
