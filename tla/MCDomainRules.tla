---------------------------- MODULE MCDomainRules ----------------------------
(* A wildcard rule and an exact one, both matched by the longer name; the    *)
(* shorter name is the wildcard's own suffix and matches neither.            *)
EXTENDS DomainRules

MCPatterns == [r \in RuleIds |-> IF r = 1 THEN [wild |-> TRUE, labels |-> <<"a", "com">>]
                                 ELSE [wild |-> FALSE, labels |-> <<"x", "a", "com">>]]
MCDomains == {<<"x", "a", "com">>, <<"a", "com">>}
=============================================================================
