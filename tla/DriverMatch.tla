---------------------------- MODULE DriverMatch ----------------------------
(***************************************************************************)
(* When a rule of the driver applies to a connection: the conditions of    *)
(* MatchRules in driver/src/rules.c.                                       *)
(*                                                                         *)
(* An address is the set of its 1 bits, bit 1 the most significant, so     *)
(* that masking is intersection and an array of zeros is the empty set.    *)
(* A path is a sequence of characters up to ASCII case.  Zero, empty and   *)
(* all-zero fields of a rule match anything.                               *)
(***************************************************************************)
EXTENDS Integers, Sequences

CONSTANTS
  V4Width,   \* bits of an IPv4 address
  V6Width    \* bits of an IPv6 address

ASSUME WidthAssumption == V4Width \in Nat /\ V6Width \in Nat

RULE_DIRECTION_BOTH == 0
RULE_DIRECTION_IN == 1
RULE_DIRECTION_OUT == 2
CF_ADDR_FAMILY_V4 == 4

WcsEndsWithIgnoreCase(haystack, needle) ==
  /\ Len(needle) <= Len(haystack)
  /\ \A i \in 1 .. Len(needle) : haystack[Len(haystack) - Len(needle) + i] = needle[i]

AddressApplies(r, conn) ==
  \/ r.RemoteAddr = {}
  \/ /\ r.AddressFamily = conn.AddressFamily
     /\ LET mask == IF conn.AddressFamily = CF_ADDR_FAMILY_V4
                    THEN r.RemoteAddrMask \cap 1 .. V4Width ELSE r.RemoteAddrMask
        IN  conn.RemoteAddr \cap mask = r.RemoteAddr \cap mask

PortApplies(first, last, port) == (first = 0 /\ last = 0) \/ (first <= port /\ port <= last)

Applies(r, conn) ==
  /\ r.Enabled
  /\ r.Direction \in {RULE_DIRECTION_BOTH, conn.Direction}
  /\ r.ProcessId \in {0, conn.ProcessId}
  /\ WcsEndsWithIgnoreCase(conn.ProcessPath, r.ProcessPath)
  /\ r.Protocol \in {0, conn.Protocol}
  /\ AddressApplies(r, conn)
  /\ PortApplies(r.RemotePort, r.RemotePortEnd, conn.RemotePort)
  /\ PortApplies(r.LocalPort, r.LocalPortEnd, conn.LocalPort)
=============================================================================
