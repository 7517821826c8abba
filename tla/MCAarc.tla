------------------------------ MODULE MCAarc ------------------------------
(* Instances of Aarc for TLC. *)
EXTENDS Aarc, TLC

Symmetry == Permutations(Threads) \cup Permutations(Objects) \cup Permutations(Refs)
===========================================================================
