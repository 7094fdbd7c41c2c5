-------------------------- MODULE MCTrafficHistory --------------------------
(* One pair of addresses and ports, used by two connections. *)
EXTENDS TrafficHistory
=============================================================================
