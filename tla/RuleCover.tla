----------------------------- MODULE RuleCover -----------------------------
(***************************************************************************)
(* Rules as the service keeps them, what the driver is sent for one        *)
(* (DriverRuleInput::from_rule, service/src/driver/converter.rs) and when  *)
(* RuleManager takes one rule to cover another (same_effective_fields and  *)
(* matchset_covers, service/src/rule/manager.rs).                          *)
(*                                                                         *)
(* An Option is a set of at most one element.  A path is a sequence of     *)
(* lower-case characters whose drive, if it has one, is its first element. *)
(* An address carries the prefix length of its CIDR notation, if any, and  *)
(* the rule's mask field is kept beside it.                                *)
(***************************************************************************)
EXTENDS DriverMatch, FiniteSets

CONSTANTS
  Volumes,       \* QueryDosDeviceW: the device of each drive
  PathLength     \* characters that fit a RULE_INPUT's path

ASSUME PathAssumption == PathLength \in Nat

(* What the fields of a rule are made of.  A drive is the first element of a path,
   or there is none. *)
Optional(o, S) == o \subseteq S /\ \A x, y \in o : x = y

Path == {p \in Seq(STRING) : \A i \in 2 .. Len(p) : p[i] \notin DOMAIN Volumes}

Address ==
  {a \in [family : Int, bits : SUBSET Nat, cidr : SUBSET Nat, mask : SUBSET Nat] :
     Optional(a.cidr, Nat) /\ Optional(a.mask, Nat)}

Port ==
  {p \in [kind : {"Single", "Range"}, first : Nat, last : Nat] :
     p.kind = "Single" => p.first = p.last}

Or(option, default) == IF option = {} THEN default ELSE CHOOSE x \in option : TRUE

HostBits(family) == IF family = CF_ADDR_FAMILY_V4 THEN V4Width ELSE V6Width

(* prefix.or(mask).unwrap_or(host bits), the same in every reader. *)
Prefix(a) == Or(a.cidr, Or(a.mask, HostBits(a.family)))
-----------------------------------------------------------------------------
(***************************************************************************)
(* The RULE_INPUT of a rule.                                               *)
(***************************************************************************)
convert_dos_path_to_nt(path) ==
  IF path # <<>> /\ path[1] \in DOMAIN Volumes
  THEN [path EXCEPT ![1] = Volumes[path[1]]] ELSE path

Truncated(path) == IF Len(path) <= PathLength THEN path ELSE SubSeq(path, 1, PathLength)

ProtocolNumber(p) ==
  CASE p = "Tcp" -> 6 [] p = "Udp" -> 17 [] p = "Icmp" -> 1 [] p = "Icmpv6" -> 58 [] p = "Any" -> 0

DirectionNumber(d) ==
  CASE d = "Both" -> RULE_DIRECTION_BOTH
    [] d = "Inbound" -> RULE_DIRECTION_IN
    [] d = "Outbound" -> RULE_DIRECTION_OUT

(* Any port is (0, 0), a port p is (p, p). *)
PortStart(port) == Or({p.first : p \in port}, 0)
PortEnd(port) == Or({p.last : p \in port}, 0)

from_rule(rule) ==
  [Enabled |-> rule.enabled,
   IsAllow |-> rule.action = "Allow",
   Direction |-> DirectionNumber(rule.direction),
   ProcessId |-> Or(rule.process_id, 0),
   ProcessPath |-> Truncated(convert_dos_path_to_nt(Or(rule.process_path, <<>>))),
   Protocol |-> Or({ProtocolNumber(p) : p \in rule.protocol}, 0),
   AddressFamily |-> Or({a.family : a \in rule.remote_addr}, 0),
   RemoteAddr |-> Or({a.bits : a \in rule.remote_addr}, {}),
   RemoteAddrMask |-> Or({1 .. Prefix(a) : a \in rule.remote_addr}, {}),
   RemotePort |-> PortStart(rule.remote_port),
   RemotePortEnd |-> PortEnd(rule.remote_port),
   LocalPort |-> PortStart(rule.local_port),
   LocalPortEnd |-> PortEnd(rule.local_port)]

(* The connections an enabled rule decides, once the driver has it. *)
HitBy(rule, conn) == Applies([from_rule(rule) EXCEPT !.Enabled = TRUE], conn)
-----------------------------------------------------------------------------
(***************************************************************************)
(* Coverage.                                                               *)
(***************************************************************************)
EffectiveFields == {"direction", "protocol", "process_path", "process_id", "remote_addr",
                    "remote_domain", "remote_port", "local_addr", "local_port",
                    "network_zone", "app_group_id"}

same_effective_fields(a, b) == \A f \in EffectiveFields : a[f] = b[f]

addr_field_covers(broad, narrow) ==
  \/ narrow = {}
  \/ \E b \in broad, n \in narrow :
       /\ Prefix(b) <= Prefix(n)
       /\ b.family = n.family
       /\ b.bits \cap 1 .. Prefix(b) = n.bits \cap 1 .. Prefix(b)

(* A mutant: only the start of the narrow range is looked at. *)
port_covers_start(broad, narrow) ==
  \/ broad = {}
  \/ \E b \in broad, n \in narrow :
       \/ b.kind = "Single" /\ n.kind = "Single" /\ b.first = n.first
       \/ b.kind = "Range" /\ b.first <= n.first /\ n.first <= b.last

(* A Single covers only the equal Single, not the Range of one port. *)
port_covers(broad, narrow) ==
  \/ broad = {}
  \/ \E b \in broad, n \in narrow :
       \/ b.kind = "Single" /\ n.kind = "Single" /\ b.first = n.first
       \/ b.kind = "Range" /\ b.first <= n.first /\ n.last <= b.last

(* broad: None, or equal. *)
OptionCovers(broad, narrow) == broad = {} \/ broad = narrow

direction_covers(broad, narrow) == broad = "Both" \/ broad = narrow
protocol_covers(broad, narrow) == broad = {"Any"} \/ OptionCovers(broad, narrow)
path_covers(broad, narrow) ==
  \/ broad = {}
  \/ \E b \in broad, n \in narrow : WcsEndsWithIgnoreCase(n, b)

matchset_covers(broad, narrow) ==
  /\ direction_covers(broad.direction, narrow.direction)
  /\ protocol_covers(broad.protocol, narrow.protocol)
  /\ path_covers(broad.process_path, narrow.process_path)
  /\ OptionCovers(broad.process_id, narrow.process_id)
  /\ OptionCovers(broad.network_zone, narrow.network_zone)
  /\ OptionCovers(broad.app_group_id, narrow.app_group_id)
  /\ broad.remote_domain = narrow.remote_domain
  /\ addr_field_covers(broad.remote_addr, narrow.remote_addr)
  /\ addr_field_covers(broad.local_addr, narrow.local_addr)
  /\ port_covers(broad.remote_port, narrow.remote_port)
  /\ port_covers(broad.local_port, narrow.local_port)
=============================================================================
