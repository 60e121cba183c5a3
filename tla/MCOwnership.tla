----------------------------- MODULE MCOwnership -----------------------------
(* Model-checking instance of Ownership: symmetric objects, Transfers, requests. *)
EXTENDS Ownership, TLC

Symmetry == Permutations(Objects) \cup Permutations(Transfers) \cup Permutations(Requests)
=============================================================================
