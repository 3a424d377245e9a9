----------------------------- MODULE MCHandoff -----------------------------
(* Handoff on small instances.  The torrents are interchangeable, and so are  *)
(* the task slots; liveness is checked without symmetry.                      *)
EXTENDS Handoff, TLC

Symmetry == Permutations(Torrents) \cup Permutations(Tasks)
=============================================================================
