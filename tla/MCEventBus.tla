----------------------------- MODULE MCEventBus -----------------------------
(* EventBus for the event loop, a storage thread and two browsers.            *)
EXTENDS EventBus, TLC

Symmetry == Permutations(Threads) \cup Permutations(Streams)
=============================================================================
