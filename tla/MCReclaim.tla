----------------------------- MODULE MCReclaim ------------------------------
(* Instances of Reclaim for TLC. *)
EXTENDS Reclaim, TLC

Symmetry == Permutations(Entries) \cup Permutations(Inodes)
=============================================================================
