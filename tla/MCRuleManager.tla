--------------------------- MODULE MCRuleManager ---------------------------
(* Rules that cover, repeat and contradict each other, with and without a
   group.  Apart from the requests of a client, behaviours compare two rules
   that differ from one base in up to two fields, so that each condition meets
   each other; addresses of two and three bits. *)
EXTENDS RuleManager, RuleCoverage

MCVolumes == [d \in {"c:"} |-> "volume"]

Base == [direction |-> "Both", protocol |-> {}, process_path |-> {}, process_id |-> {},
         remote_addr |-> {}, remote_domain |-> {}, remote_port |-> {}, local_addr |-> {},
         local_port |-> {}, network_zone |-> {}, app_group_id |-> {},
         action |-> "Block", enabled |-> TRUE, system |-> FALSE]

Ports == [kind |-> "Range", first |-> 1, last |-> 2]
MorePorts == [kind |-> "Range", first |-> 2, last |-> 3]
OnePort == [kind |-> "Single", first |-> 1, last |-> 1]

BlockPorts == [Base EXCEPT !.remote_port = {Ports}, !.process_path = {<<"x">>}]
BlockPort == [BlockPorts EXCEPT !.remote_port = {OnePort}, !.process_path = {<<"c:", "x">>}]
AllowPorts == [BlockPorts EXCEPT !.action = "Allow"]
BlockOff == [BlockPorts EXCEPT !.enabled = FALSE]
BlockGroup == [Base EXCEPT !.app_group_id = {"g"}]
SystemRule == [Base EXCEPT !.action = "Allow", !.process_path = {<<"x">>}, !.system = TRUE]

MCDirect == {BlockPorts, BlockPort, AllowPorts, BlockOff, SystemRule}
MCRules == MCDirect \cup {BlockGroup}

MCBatches == {<<BlockGroup, BlockPort>>, <<BlockOff>>}

MCMemberPaths == {<<"volume", "x">>, <<"volume", "y">>}
MCTemplates == {<<"volume", "x">>}

MCSymmetry == Permutations(Clients)

MCConnections ==
  [Direction : {1}, ProcessId : {0}, ProcessPath : {<<"volume", "x">>, <<"volume", "y">>},
   Protocol : {6}, AddressFamily : {4}, RemoteAddr : {{1}}, RemotePort : 1 .. 3, LocalPort : {1}]
-----------------------------------------------------------------------------
Addr(f, b, c, m) == [family |-> f, bits |-> b, cidr |-> c, mask |-> m]
PortRange(s, e) == [kind |-> "Range", first |-> s, last |-> e]

Edits ==
  {<<"direction", "Inbound">>, <<"direction", "Outbound">>, <<"protocol", {"Tcp"}>>,
   <<"protocol", {"Any"}>>, <<"process_path", {<<"c:", "x">>}>>, <<"process_path", {<<"x">>}>>,
   <<"process_id", {7}>>, <<"network_zone", {"Lan"}>>,
   <<"remote_addr", {Addr(4, {1, 2}, {}, {})}>>, <<"remote_addr", {Addr(4, {1}, {1}, {2})}>>,
   <<"remote_addr", {Addr(4, {1}, {}, {2})}>>, <<"remote_addr", {Addr(4, {}, {0}, {})}>>,
   <<"remote_addr", {Addr(6, {1}, {2}, {})}>>,
   <<"local_addr", {Addr(4, {2}, {}, {})}>>, <<"remote_port", {OnePort}>>,
   <<"remote_port", {Ports}>>, <<"remote_port", {MorePorts}>>,
   <<"local_port", {PortRange(1, 1)}>>}

MCCoverRules == {[[Base EXCEPT ![d[1]] = d[2]] EXCEPT ![e[1]] = e[2]] : d \in Edits, e \in Edits} \cup {Base}

MCCoverConnections ==
  [Direction : {1, 2}, ProcessId : {0, 7}, ProcessPath : {<<"volume", "x">>, <<"volume", "y", "x">>},
   Protocol : {6, 17}, AddressFamily : {4}, RemoteAddr : SUBSET {1, 2}, RemotePort : 1 .. 3,
   LocalPort : {1}]
  \cup
  [Direction : {1}, ProcessId : {0}, ProcessPath : {<<"volume", "x">>},
   Protocol : {6}, AddressFamily : {6}, RemoteAddr : SUBSET {1, 2, 3}, RemotePort : {1, 2},
   LocalPort : {1, 2}]

Untouched == ManagerInit
NoComparison == broad = Base /\ narrow = Base

(* A bound: a third request does not begin beside the second of two that have
   met; the service may die there. *)
TwoAtATime ==
  requests' > requests => overlapped = {} \/ \E c \in Clients : client'[c].kind = "start"

MCInit == ManagerInit /\ CoverInit
MCNext ==
  \/ NoComparison /\ ManagerNext /\ TwoAtATime /\ UNCHANGED <<broad, narrow>>
  \/ Untouched /\ Compare /\ UNCHANGED mvars
MCSpec == MCInit /\ [][MCNext]_<<mvars, broad, narrow>>
=============================================================================
