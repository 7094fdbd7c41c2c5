---------------------------- MODULE MCKernelSync ----------------------------
(* Two spellings of one path (a client's and the driver's), small bounds. *)
EXTENDS KernelSync

MCSpellings == {"A", "a"}
MCnormalize_path == [s \in MCSpellings |-> "a"]
=============================================================================
