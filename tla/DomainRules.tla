---------------------------- MODULE DomainRules ----------------------------
(***************************************************************************)
(* Domain rules (rule/domain_expander.rs, the domain branches of           *)
(* rule/manager.rs and the broadcast of dns_cache.rs).  The driver knows   *)
(* no domains: when a DNS answer matches an enabled domain rule, the       *)
(* expander enters (rule, address) in its ledger and gives the driver a    *)
(* shadow rule for that address, which it takes back when it expires.  An  *)
(* IPC request that edits, disables or deletes the rule withdraws its      *)
(* shadows, and a reload of the driver's rules sends them again.           *)
(*                                                                         *)
(* The ledger has a lock, but the lock is not held across the IOCTLs and   *)
(* the database reads, so the expander and a request interleave: a step is *)
(* what happens under one lock or in one call.  Time is kept as what is    *)
(* left of each entry's life.  A rule is its version: an edit makes a new  *)
(* one; the other fields of a shadow are copied from the rule.             *)
(***************************************************************************)
EXTENDS Naturals, Sequences, FiniteSets, SequencesExt

CONSTANTS
  RuleIds,          \* domain rules
  Ips,              \* addresses
  Domains,          \* domain names in answers: sequences of labels
  Patterns,         \* Patterns[r]: [wild, labels], the rule's remote_domain
  Ttls,             \* times to live in answers
  SHADOW_TTL_CAP,   \* longest life of a shadow
  CHANNEL,          \* answers the broadcast channel keeps (256)
  None,
  MaxAnswers,       \* bound: answers
  MaxRequests,      \* bound: requests
  MaxFaults         \* bound: calls that fail

ASSUME DomainAssumption ==
  /\ {SHADOW_TTL_CAP, MaxAnswers, MaxRequests, MaxFaults} \subseteq Nat /\ CHANNEL \in Nat \ {0}
  /\ Ttls \subseteq Nat /\ RuleIds \subseteq Nat
  /\ None \notin [sid : Nat, left : Nat]

VARIABLES
  rules,     \* the rows of the table rules
  driver,    \* shadow rules in the driver
  entries,   \* ShadowStore.entries
  next_index,
  channel,   \* answers broadcast and not yet received
  expander,  \* where DomainRuleEngine::run is
  request,   \* where the request of an IPC client is
  raced,     \* history: what has disturbed the shadows of each rule
  answers, requests, faults

dvars == <<rules, driver, entries, next_index, channel, expander, request, raced, answers, requests, faults>>
bounds == <<answers, requests, faults>>

Keys == RuleIds \X Ips
Waiting == [pc |-> "wait"]
Idle == [pc |-> "idle"]
Blame(rs, why) == raced' = [r \in RuleIds |-> IF r \in rs THEN raced[r] \cup {why} ELSE raced[r]]
Fault == faults < MaxFaults /\ faults' = faults + 1
Min2(a, b) == IF a < b THEN a ELSE b

DomainInit ==
  /\ rules = [r \in RuleIds |-> [enabled |-> TRUE, version |-> 1]]
  /\ driver = {} /\ entries = [k \in Keys |-> None] /\ next_index = 1
  /\ channel = <<>> /\ expander = Waiting /\ request = Idle
  /\ raced = [r \in RuleIds |-> {}]
  /\ answers = 0 /\ requests = 0 /\ faults = 0

-----------------------------------------------------------------------------
(* An exact name, or "*." and a suffix that follows at least one label. *)
domain_pattern_matches(pattern, domain) ==
  IF pattern.wild
  THEN pattern.labels # <<>> /\ IsSuffix(pattern.labels, domain) /\ Len(domain) > Len(pattern.labels)
  ELSE pattern.labels # <<>> /\ pattern.labels = domain

shadow_lifetime(ttl) == Min2(ttl, SHADOW_TTL_CAP)

Shadow(sid, key, version) == [sid |-> sid, key |-> key, version |-> version]
Source(shadow) == shadow.key[1]

(* IOCTL_ADD_RULE refuses an id it has; IOCTL_REMOVE_RULE one it has not. *)
DriverHas(sid) == \E s \in driver : s.sid = sid
Added(shadow) == driver' = driver \cup {shadow}
Removed(sid) == driver' = {s \in driver : s.sid # sid}

-----------------------------------------------------------------------------
(* DnsCache::add_entry broadcasts; a slow receiver loses the oldest. *)
add_entry(ip, domain, ttl) ==
  /\ answers < MaxAnswers /\ answers' = answers + 1
  /\ channel' = Append(IF Len(channel) = CHANNEL THEN Tail(channel) ELSE channel,
                       [ip |-> ip, domain |-> domain, ttl |-> ttl])
  /\ UNCHANGED <<rules, driver, entries, next_index, expander, request, raced, requests, faults>>

Tick ==
  /\ \E k \in Keys : entries[k] # None /\ entries[k].left > 0
  /\ entries' = [k \in Keys |-> IF entries[k] = None \/ entries[k].left = 0 THEN entries[k]
                                ELSE [entries[k] EXCEPT !.left = @ - 1]]
  /\ UNCHANGED <<rules, driver, next_index, channel, expander, request, raced, bounds>>

-----------------------------------------------------------------------------
(* The expander: an answer, the rules as they are listed now, one by one. *)

Hits(obs) == {r \in RuleIds : rules[r] # None /\ rules[r].enabled
                              /\ domain_pattern_matches(Patterns[r], obs.domain)}

Receive ==
  /\ expander = Waiting /\ channel # <<>>
  /\ channel' = Tail(channel)
  /\ \/ /\ expander' = [pc |-> "rules", obs |-> Head(channel),
                        todo |-> {[id |-> r, version |-> rules[r].version] : r \in Hits(Head(channel))}]
        /\ UNCHANGED faults
     \/ Fault /\ UNCHANGED expander
  /\ UNCHANGED <<rules, driver, entries, next_index, request, raced, answers, requests>>

(* A reload is between its clear and the end of its resync. *)
Reloading == request.pc \in {"snapshot", "list", "readd", "drop"}

(* ShadowStore::hit: a known address gets the longer of the two lives. *)
hit ==
  /\ expander.pc = "rules" /\ expander.todo # {}
  /\ LET rule == CHOOSE r \in expander.todo : \A o \in expander.todo : r.id <= o.id
         key == <<rule.id, expander.obs.ip>>
         left == shadow_lifetime(expander.obs.ttl)
         rest == [expander EXCEPT !.todo = @ \ {rule}]
     IN  \/ /\ entries[key] # None
            /\ entries' = [entries EXCEPT ![key].left = IF left > @ THEN left ELSE @]
            /\ expander' = rest
            /\ UNCHANGED <<next_index, raced>>
         \/ /\ entries[key] = None
            /\ entries' = [entries EXCEPT ![key] = [sid |-> next_index, left |-> left]]
            /\ next_index' = next_index + 1
            /\ expander' = [pc |-> "add", obs |-> expander.obs, todo |-> rest.todo,
                            shadow |-> Shadow(next_index, key, rule.version)]
            /\ IF Reloading THEN Blame({rule.id}, "reload") ELSE UNCHANGED raced
  /\ UNCHANGED <<rules, driver, channel, request, bounds>>

AddShadow ==
  /\ expander.pc = "add"
  /\ \/ /\ ~DriverHas(expander.shadow.sid)
        /\ Added(expander.shadow)
        /\ expander' = [pc |-> "rules", obs |-> expander.obs, todo |-> expander.todo]
        /\ UNCHANGED faults
     \/ /\ IF DriverHas(expander.shadow.sid) THEN UNCHANGED faults ELSE Fault
        /\ expander' = [expander EXCEPT !.pc = "undo"]
        /\ UNCHANGED driver
  /\ UNCHANGED <<rules, entries, next_index, channel, request, raced, answers, requests>>

(* The entry of a shadow that could not be sent goes, so that the next answer tries again. *)
remove_entry ==
  /\ expander.pc = "undo"
  /\ entries' = [entries EXCEPT ![expander.shadow.key] = None]
  /\ expander' = [pc |-> "rules", obs |-> expander.obs, todo |-> expander.todo]
  /\ UNCHANGED <<rules, driver, next_index, channel, request, raced, bounds>>

Answered ==
  /\ expander.pc = "rules" /\ expander.todo = {}
  /\ expander' = Waiting
  /\ UNCHANGED <<rules, driver, entries, next_index, channel, request, raced, bounds>>

Expired == {k \in Keys : entries[k] # None /\ entries[k].left = 0}

(* The ledger forgets what the driver keeps. *)
ReapForgets ==
  /\ expander = Waiting /\ Expired # {}
  /\ entries' = [k \in Keys |-> IF k \in Expired THEN None ELSE entries[k]]
  /\ UNCHANGED <<rules, driver, next_index, channel, expander, request, raced, bounds>>

(* Expiry is looked at only when an answer arrives. *)
ReapOnAnswer ==
  /\ channel # <<>>
  /\ expander = Waiting /\ Expired # {}
  /\ expander' = [pc |-> "reap", ids |-> {[sid |-> entries[k].sid, rule |-> k[1]] : k \in Expired}]
  /\ entries' = [k \in Keys |-> IF k \in Expired THEN None ELSE entries[k]]
  /\ UNCHANGED <<rules, driver, next_index, channel, request, raced, bounds>>

(* The expired entries leave the ledger together, then the driver one by one. *)
reap ==
  /\ expander = Waiting /\ Expired # {}
  /\ expander' = [pc |-> "reap", ids |-> {[sid |-> entries[k].sid, rule |-> k[1]] : k \in Expired}]
  /\ entries' = [k \in Keys |-> IF k \in Expired THEN None ELSE entries[k]]
  /\ UNCHANGED <<rules, driver, next_index, channel, request, raced, bounds>>

RemoveExpired ==
  /\ expander.pc = "reap"
  /\ \E x \in expander.ids :
       /\ expander' = IF expander.ids = {x} THEN Waiting ELSE [expander EXCEPT !.ids = @ \ {x}]
       /\ \/ /\ Removed(x.sid)
             /\ UNCHANGED faults
             /\ IF Reloading THEN Blame({x.rule}, "reload") ELSE UNCHANGED raced
          \/ Fault /\ Blame({x.rule}, "failed") /\ UNCHANGED driver
  /\ UNCHANGED <<rules, entries, next_index, channel, request, answers, requests>>

Expander == Receive \/ hit \/ AddShadow \/ remove_entry \/ Answered \/ reap \/ RemoveExpired

-----------------------------------------------------------------------------
(* Requests. *)

Begin == request = Idle /\ requests < MaxRequests /\ requests' = requests + 1

(* The row is written first; what the expander has listed is then out of date. *)
Change(r, row) ==
  /\ Begin
  /\ rules' = [rules EXCEPT ![r] = row]
  /\ request' = [pc |-> "revoke", rule |-> r]
  /\ UNCHANGED <<driver, entries, next_index, channel, expander, raced, answers, faults>>

update_rule(r) == rules[r] # None /\ Change(r, [rules[r] EXCEPT !.version = @ + 1])
disable_rule(r) == rules[r] # None /\ rules[r].enabled /\ Change(r, [rules[r] EXCEPT !.enabled = FALSE])
delete_rule(r) == rules[r] # None /\ Change(r, None)

enable_rule(r) ==
  /\ Begin
  /\ rules[r] # None /\ ~rules[r].enabled
  /\ rules' = [rules EXCEPT ![r].enabled = TRUE]
  /\ UNCHANGED <<driver, entries, next_index, channel, expander, request, raced, answers, faults>>

(* The expander is sending a shadow of r, or has r still to do from a list
   made before the change. *)
Sending(r) == expander.pc \in {"add", "undo"} /\ Source(expander.shadow) = r
Listed(r) == /\ expander.pc \in {"rules", "add", "undo"}
             /\ \E x \in expander.todo : x.id = r /\ rules[r] # [enabled |-> TRUE, version |-> x.version]

Entered(r) == {k \in Keys : k[1] = r /\ entries[k] # None}

(* A request that returns when the row is written. *)
RevokeNothing ==
  /\ request.pc = "revoke"
  /\ request' = Idle
  /\ UNCHANGED <<rules, driver, entries, next_index, channel, expander, raced, bounds>>

(* DomainRuleEngine::revoke_rule: out of the ledger, then out of the driver. *)
revoke_rule ==
  /\ request.pc = "revoke"
  /\ LET r == request.rule
     IN  /\ entries' = [k \in Keys |-> IF k \in Entered(r) THEN None ELSE entries[k]]
         /\ request' = [pc |-> "remove", rule |-> r, ids |-> {entries[k].sid : k \in Entered(r)}]
         /\ raced' = [raced EXCEPT ![r] = @ \cup (IF Sending(r) THEN {"sending"} ELSE {})
                                            \cup (IF Listed(r) THEN {"listed"} ELSE {})]
  /\ UNCHANGED <<rules, driver, next_index, channel, expander, bounds>>

RemoveRevoked ==
  /\ request.pc = "remove"
  /\ \/ /\ request.ids = {} /\ request' = Idle
        /\ UNCHANGED <<driver, faults, raced>>
     \/ \E sid \in request.ids :
          /\ request' = [request EXCEPT !.ids = @ \ {sid}]
          /\ \/ Removed(sid) /\ UNCHANGED <<faults, raced>>
             \/ Fault /\ Blame({request.rule}, "failed") /\ UNCHANGED driver
  /\ UNCHANGED <<rules, entries, next_index, channel, expander, answers, requests>>

(* A reload clears the driver, shadows and all, and loads the other rules;
   resync_after_reload sends what the ledger has. *)
reload_rules_to_driver ==
  /\ Begin
  /\ driver' = {}
  /\ request' = [pc |-> "snapshot"]
  /\ raced' = [r \in RuleIds |-> IF Sending(r) THEN raced[r] \cup {"reload"} ELSE raced[r]]
  /\ UNCHANGED <<rules, entries, next_index, channel, expander, answers, faults>>

TakeSnapshot ==
  /\ request.pc = "snapshot"
  /\ LET all == {[key |-> k, sid |-> entries[k].sid] : k \in {x \in Keys : entries[x] # None}}
     IN  request' = IF all = {} THEN Idle ELSE [pc |-> "list", todo |-> all]
  /\ UNCHANGED <<rules, driver, entries, next_index, channel, expander, raced, bounds>>

ListForResync ==
  /\ request.pc = "list"
  /\ \/ request' = [pc |-> "readd", todo |-> request.todo, listed |-> rules] /\ UNCHANGED <<faults, raced>>
     \/ Fault /\ request' = Idle /\ Blame({x.key[1] : x \in request.todo}, "failed")
  /\ UNCHANGED <<rules, driver, entries, next_index, channel, expander, answers, requests>>

Readd ==
  /\ request.pc = "readd"
  /\ \/ request.todo = {} /\ request' = Idle /\ UNCHANGED <<driver, faults>>
     \/ \E x \in request.todo :
          LET row == request.listed[x.key[1]]
              live == row # None /\ row.enabled
              rest == [request EXCEPT !.todo = @ \ {x}]
              drop == [pc |-> "drop", todo |-> rest.todo, listed |-> request.listed, key |-> x.key]
          IN  \/ ~live /\ request' = drop /\ UNCHANGED <<driver, faults>>
              \/ live /\ ~DriverHas(x.sid) /\ Added(Shadow(x.sid, x.key, row.version))
                 /\ request' = rest /\ UNCHANGED faults
              \/ live /\ DriverHas(x.sid) /\ request' = drop /\ UNCHANGED <<driver, faults>>
              \/ live /\ Fault /\ request' = drop /\ UNCHANGED driver
  /\ UNCHANGED <<rules, entries, next_index, channel, expander, raced, answers, requests>>

DropEntry ==
  /\ request.pc = "drop"
  /\ entries' = [entries EXCEPT ![request.key] = None]
  /\ request' = [pc |-> "readd", todo |-> request.todo, listed |-> request.listed]
  /\ UNCHANGED <<rules, driver, next_index, channel, expander, raced, bounds>>

Request ==
  \/ \E r \in RuleIds : update_rule(r) \/ disable_rule(r) \/ delete_rule(r) \/ enable_rule(r)
  \/ reload_rules_to_driver

Serve == revoke_rule \/ RemoveRevoked \/ TakeSnapshot \/ ListForResync \/ Readd \/ DropEntry

DomainNext ==
  \/ \E ip \in Ips, domain \in Domains, ttl \in Ttls : add_entry(ip, domain, ttl)
  \/ Tick
  \/ Expander
  \/ Request
  \/ Serve

(* Time passes, and the runtime schedules the expander and the request's task. *)
DomainSpec ==
  DomainInit /\ [][DomainNext]_dvars /\ WF_dvars(Tick) /\ WF_dvars(Expander) /\ WF_dvars(Serve)

-----------------------------------------------------------------------------
Quiet == expander = Waiting /\ request = Idle
InLedger(s) == entries[s.key] # None /\ entries[s.key].sid = s.sid

(* The ledger is the driver: between answers and requests every shadow in the
   driver is in the ledger under its id and the other way round, so nothing
   blocks or allows an address for good.  The exceptions: a rule was changed
   while its shadow was being sent, the rules were reloaded meanwhile, or a
   call failed (on_dns_observation, revoke_rule, resync_after_reload). *)
LedgerIsDriver ==
  Quiet =>
    /\ \A s \in driver : InLedger(s) \/ raced[Source(s)] \cap {"sending", "reload", "failed"} # {}
    /\ \A k \in Keys : entries[k] # None =>
         (\E s \in driver : s.sid = entries[k].sid) \/ raced[k[1]] \cap {"sending", "reload", "failed"} # {}

(* A rule that was edited, disabled or deleted has no shadow of its old form
   left, unless the expander was at work on it from an older list, or one of
   the exceptions above. *)
ShadowsCurrent ==
  Quiet =>
    \A s \in driver : rules[Source(s)] = [enabled |-> TRUE, version |-> s.version]
                      \/ raced[Source(s)] # {}

(* When the answers end every shadow expires: the ledger runs empty, whatever
   was refreshed, revoked or reloaded (reap, shadow_lifetime). *)
ShadowsExpire == <>[](\A k \in Keys : entries[k] = None)
=============================================================================
