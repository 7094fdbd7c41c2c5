------------------------------ MODULE RuleIds ------------------------------
(***************************************************************************)
(* The driver knows a rule by one 32-bit number.  Rules of the database    *)
(* are sent under their own id, the members of a group and the addresses   *)
(* of a domain under made-up ones (rule/manager.rs, domain_expander.rs).   *)
(* RuleManager and DomainRules use tuples for these; IdsApart, in          *)
(* AleAuth_proofs, says up to where the numbers are as good.  TLC's        *)
(* integers are too small for them: this module is only proved about.      *)
(***************************************************************************)
EXTENDS Integers

U32 == 4294967296
GROUP_RULE_ID_BASE == 1073741824
SHADOW_RULE_ID_BASE == 2147483648

wrapping_add(a, b) == (a + b) % U32

(* rule_id.wrapping_shl(12), then the index masked with 0xFFF. *)
expanded_rule_id(rule_id, member_index) ==
  wrapping_add(wrapping_add(GROUP_RULE_ID_BASE, (rule_id * 4096) % U32), member_index % 4096)

shadow_id(next_index) == wrapping_add(SHADOW_RULE_ID_BASE, next_index)

(* Ids that AUTOINCREMENT gives out, members of one group, shadows of a run. *)
RuleIdRange == {n \in Int : 0 < n /\ n < 262144}
MemberRange == {n \in Int : 0 <= n /\ n < 4096}
ShadowRange == {n \in Int : 0 <= n /\ n < 2147483648}
=============================================================================
