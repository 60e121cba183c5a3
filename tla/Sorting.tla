------------------------------- MODULE Sorting -------------------------------
(***************************************************************************)
(* Lists that are cut from other lists, or sorted, by the procedures.      *)
(***************************************************************************)
EXTENDS Integers, FiniteSets

\* A finite set of numbers, in order.
Ascending(S) ==
  CHOOSE s \in [1 .. Cardinality(S) -> S] : \A i, j \in 1 .. Cardinality(S) : i < j => s[i] < s[j]

\* The entries of s at the places chosen, in the order of s: [e for e in s if ...].
Kept(s, chosen) == [k \in 1 .. Cardinality(chosen) |-> s[Ascending(chosen)[k]]]
=============================================================================
