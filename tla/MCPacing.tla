------------------------------ MODULE MCPacing ------------------------------
(* Small sets for the constants of Pacing that a .cfg cannot write. *)
EXTENDS Pacing

OnOrOff == {<<0, 0>>, <<0, 1>>}
Interchangeable == Permutations(Cpus)
=============================================================================
