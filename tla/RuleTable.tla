----------------------------- MODULE RuleTable -----------------------------
(***************************************************************************)
(* The kernel rule list (driver/src/rules.c) and its four IOCTLs           *)
(* (driver/src/driver.c).  g_RuleList is a doubly linked list kept in      *)
(* Priority order, smaller first, under one spin lock: every function      *)
(* below is one critical section, so one step.                             *)
(*                                                                         *)
(* A rule is a record of the fields of FIREWALL_RULE.  Only RuleId,        *)
(* Priority and ProcessPath are looked at here; module AleAuth says which  *)
(* connections the others select.  A path is a sequence of characters, up  *)
(* to ASCII case, and a RULE_INPUT's path may fill its array: the copy in  *)
(* the rule always ends in a NUL, so it keeps one character less.          *)
(***************************************************************************)
EXTENDS Integers, Sequences, SequencesExt

CONSTANTS
  MAX_RULES,        \* the cap AddRule enforces
  MAX_PATH_LENGTH,  \* characters of a path array, its NUL included
  Characters,       \* what paths are made of
  RuleInputs        \* the RULE_INPUTs the service can send

ASSUME CapAssumption == MAX_RULES \in Nat /\ MAX_PATH_LENGTH \in Nat \ {0}
ASSUME RuleAssumption ==
  \A r \in RuleInputs : /\ DOMAIN r = {"RuleId", "Priority", "Enabled", "IsAllow", "Direction",
                             "ProcessId", "ProcessPath", "Protocol", "RemoteAddr",
                             "RemoteAddrMask", "AddressFamily", "RemotePort", "RemotePortEnd",
                             "LocalPort", "LocalPortEnd"}
                        /\ r.RuleId \in Nat /\ r.Priority \in Nat /\ r.ProcessPath \in Seq(Characters)

VARIABLE g_RuleList

RuleInit == g_RuleList = <<>>

Holding(id) == {i \in DOMAIN g_RuleList : g_RuleList[i].RuleId = id}
-----------------------------------------------------------------------------
(* The rule kept for an input: its path is cut to leave room for the NUL. *)
Kept(input) ==
  [input EXCEPT !.ProcessPath =
     IF Len(@) < MAX_PATH_LENGTH THEN @ ELSE SubSeq(@, 1, MAX_PATH_LENGTH - 1)]

(* A search that stops at the first rule that is not smaller: newcomers go in
   front of their equals. *)
BelongsBeforeEquals(list, rule, i) ==
  /\ \A j \in 1 .. i - 1 : list[j].Priority < rule.Priority
  /\ i <= Len(list) => rule.Priority <= list[i].Priority

(* The search for the insertion point: the first rule with a larger Priority,
   or the end of the list. *)
BelongsAt(list, rule, i) ==
  /\ \A j \in 1 .. i - 1 : list[j].Priority <= rule.Priority
  /\ i <= Len(list) => rule.Priority < list[i].Priority

InsertByPriority(list, rule) ==
  \E i \in 1 .. Len(list) + 1 :
    BelongsAt(list, rule, i) /\ g_RuleList' = InsertAt(list, i, rule)

(* IOCTL_ADD_RULE.  A failed allocation, a RuleId already present and a full
   list leave the list as it was. *)
AddRule(input) ==
  \/ UNCHANGED g_RuleList
  \/ /\ Holding(input.RuleId) = {}
     /\ Len(g_RuleList) + 1 <= MAX_RULES
     /\ InsertByPriority(g_RuleList, Kept(input))

(* IOCTL_REMOVE_RULE: the first rule with the id. *)
RemoveRule(id) ==
  \/ \E i \in Holding(id) :
       /\ \A j \in Holding(id) : i <= j
       /\ g_RuleList' = RemoveAt(g_RuleList, i)
  \/ Holding(id) = {} /\ UNCHANGED g_RuleList

(* An UpdateRule that writes the new fields where the rule stands. *)
UpdateRuleInPlace(input) ==
  \/ \E i \in Holding(input.RuleId) : g_RuleList' = [g_RuleList EXCEPT ![i] = Kept(input)]
  \/ Holding(input.RuleId) = {} /\ UNCHANGED g_RuleList

(* IOCTL_UPDATE_RULE: in place when the Priority is the same, otherwise the
   rule is taken out and inserted as if it were new. *)
UpdateRule(input) ==
  \/ \E i \in Holding(input.RuleId) :
       /\ \A j \in Holding(input.RuleId) : i <= j
       /\ \/ /\ g_RuleList[i].Priority = input.Priority
             /\ g_RuleList' = [g_RuleList EXCEPT ![i] = Kept(input)]
          \/ /\ g_RuleList[i].Priority # input.Priority
             /\ InsertByPriority(RemoveAt(g_RuleList, i), Kept(input))
  \/ Holding(input.RuleId) = {} /\ UNCHANGED g_RuleList

(* IOCTL_CLEAR_RULES, and unload. *)
ClearRules == g_RuleList' = <<>>

RuleNext ==
  \/ \E input \in RuleInputs : AddRule(input) \/ UpdateRule(input) \/ RemoveRule(input.RuleId)
  \/ ClearRules

RuleSpec == RuleInit /\ [][RuleNext]_g_RuleList
-----------------------------------------------------------------------------
Rules == {Kept(input) : input \in RuleInputs}

(* The list holds rules made from inputs, and every path leaves room for its
   NUL: WcsEndsWithIgnoreCase reads up to it. *)
RuleTypeOK ==
  /\ g_RuleList \in Seq(Rules)
  /\ \A i \in DOMAIN g_RuleList : Len(g_RuleList[i].ProcessPath) < MAX_PATH_LENGTH

Distinct(list) == \A i, j \in DOMAIN list : list[i].RuleId = list[j].RuleId => i = j
Sorted(list) == \A i, j \in DOMAIN list : i < j => list[i].Priority <= list[j].Priority

(* No two rules share a RuleId, and the list never grows past its cap:
   RemoveRule and UpdateRule stop at the first rule with the id, so a second
   one could be neither removed nor changed. *)
IdsUniqueAndCapped == Distinct(g_RuleList) /\ Len(g_RuleList) <= MAX_RULES

(* The list is in Priority order after every sequence of additions, updates and
   removals: MatchRules stops at the first match and relies on it. *)
SortedByPriority == Sorted(g_RuleList)

(* Whatever is added, updated, removed or cleared, in whatever order: paths are
   terminated, ids unique, the cap is kept and the list is sorted. *)
ListWellFormed == RuleTypeOK /\ IdsUniqueAndCapped /\ SortedByPriority

(* A rule of the list keeps its RuleId and Priority from one state to the next. *)
Settled(list, r) == \E i \in DOMAIN list : /\ list[i].RuleId = r.RuleId
                                           /\ list[i].Priority = r.Priority
Precedes(list, a, b) == \E i, j \in DOMAIN list : /\ i < j
                                                  /\ list[i].RuleId = a.RuleId
                                                  /\ list[j].RuleId = b.RuleId

InArrivalOrder(old, new) ==
  \A i, j \in DOMAIN new : i < j =>
    /\ Settled(old, new[i]) /\ Settled(old, new[j]) => Precedes(old, new[i], new[j])
    /\ new[i].Priority = new[j].Priority => Settled(old, new[i])

(* Rules of equal Priority are tried in the order they arrived: no step swaps
   two rules that keep their Priority, and a rule that is new, or takes a new
   Priority, goes behind all its equals. *)
ArrivalOrder == [][InArrivalOrder(g_RuleList, g_RuleList')]_g_RuleList
=============================================================================
