------------------------------- MODULE MCTrade -------------------------------
(* Small instances of Trade for TLC. *)
EXTENDS Trade, TLC

Symmetry == Permutations(Char) \cup Permutations(Item) \cup Permutations(Map)
=============================================================================
