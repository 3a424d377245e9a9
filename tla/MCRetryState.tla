---------------------------- MODULE MCRetryState ----------------------------
(* Instances of RetryState for TLC. *)
EXTENDS RetryState
=============================================================================
