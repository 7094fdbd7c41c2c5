---------------------------- MODULE RuleCoverage ----------------------------
(***************************************************************************)
(* What create_rule relies on when it drops one of two rules: each step    *)
(* compares a pair of rules, and the properties relate what the service    *)
(* concludes (or documents) to the connections that the driver, given the  *)
(* two RULE_INPUTs, decides with them.                                     *)
(***************************************************************************)
EXTENDS RuleCover

CONSTANTS
  CoverRules,        \* rules of the service to compare
  CoverConnections   \* connections the driver classifies

(* The types of rules and connections, as far as coverage and the driver look at
   them. *)
RuleType(rule) ==
  /\ rule.direction \in {"Both", "Inbound", "Outbound"}
  /\ Optional(rule.protocol, {"Tcp", "Udp", "Icmp", "Icmpv6", "Any"})
  /\ Optional(rule.process_path, Path) /\ Optional(rule.process_id, Nat)
  /\ Optional(rule.remote_addr, Address)
  /\ Optional(rule.remote_port, Port) /\ Optional(rule.local_port, Port)

ConnectionType(conn) ==
  conn.ProcessPath \in Seq(STRING) /\ {conn.RemotePort, conn.LocalPort} \subseteq Nat

CoverType ==
  /\ \A d \in DOMAIN Volumes : Volumes[d] \in STRING
  /\ \A rule \in CoverRules : RuleType(rule)
  /\ \A conn \in CoverConnections : ConnectionType(conn)

ASSUME CoverAssumption == CoverType

VARIABLES broad, narrow

cvars == <<broad, narrow>>

(* matchset_covers(r, &rule) and matchset_covers(&rule, r): a stored rule meets
   a new one.  A behaviour makes one comparison. *)
Compare ==
  /\ narrow = broad
  /\ narrow' \in CoverRules
  /\ UNCHANGED broad

CoverInit == broad \in CoverRules /\ narrow = broad

CoverSpec == CoverInit /\ [][Compare]_cvars
-----------------------------------------------------------------------------
(* Fields whose zero the driver would read as "any", and a path it would cut. *)
Plain(rule) ==
  /\ \A a \in rule.remote_addr : a.bits # {}
  /\ \A p \in rule.remote_port \cup rule.local_port : p.first > 0
  /\ \A path \in rule.process_path : Len(path) <= PathLength

AllHit(n, b) == \A conn \in CoverConnections : HitBy(n, conn) => HitBy(b, conn)

(* A rule that matchset_covers another decides every connection the other
   decides in the driver: through the NT form of the path, the suffix match,
   the prefix masks, the port bounds and the zeros that stand for "any".  This
   is what makes it safe to merge the narrow rule away.  Both rules have a
   remote address or neither has. *)
CoverSound ==
  (/\ narrow # broad
   /\ matchset_covers(broad, narrow)
   /\ Plain(narrow)
   /\ (broad.remote_addr = {}) = (narrow.remote_addr = {}))
  => AllHit(narrow, broad)

=============================================================================
