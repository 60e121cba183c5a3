-------------------------- MODULE MCDocumentStore --------------------------
(* Model-checking instance of DocumentStore and of the history it keeps. *)
EXTENDS Historical, TLC

RequestSymmetry == Permutations(Requests)
=============================================================================
