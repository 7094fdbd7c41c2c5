------------------------------ MODULE MCClient ------------------------------
(* Two calls of the application share a client, the poller polls twice. *)
EXTENDS Client, TLC

MCSymmetry == Permutations(Calls) \cup Permutations(Polls)
=============================================================================
