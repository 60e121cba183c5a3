------------------------ MODULE MCTenderCancellation ------------------------
(* Model-checking instance of TenderCancellation with interchangeable lots. *)
EXTENDS TenderCancellation, TLC

LotSymmetry == Permutations(Lots)
=============================================================================
