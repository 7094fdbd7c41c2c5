------------------------------ MODULE MCService ------------------------------
(* Three settings: the defaults, a locked-down machine, and one without       *)
(* system rules.                                                              *)
EXTENDS Service, TLC

MCSymmetry == Permutations(Clients)

MCConfigs == {Defaults,
              [allow |-> FALSE, system |-> TRUE, protect |-> TRUE, limit |-> TRUE],
              [allow |-> FALSE, system |-> FALSE, protect |-> FALSE, limit |-> FALSE]}
=============================================================================
