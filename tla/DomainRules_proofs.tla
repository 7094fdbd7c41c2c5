------------------------- MODULE DomainRules_proofs -------------------------
(***************************************************************************)
(* DomainRules for any rules, addresses and answers: that the ledger and   *)
(* the driver agree between answers and requests, and that no shadow of an *)
(* old form of a rule is left, up to the exceptions the properties name.   *)
(*                                                                         *)
(* The properties say nothing of the moments when the expander or a        *)
(* request is at work, so DomainInv follows each shadow through them: an   *)
(* id is given once and is not in the ledger while it is being taken from  *)
(* the driver (Numbered); a shadow on its way to the driver is in the      *)
(* ledger and not in the driver yet (Pending); what a reload has still to  *)
(* send, and what it has sent (Resync); a shadow of the driver is in the   *)
(* ledger or is about to be taken back (DriverKnown), an entry of the      *)
(* ledger is in the driver or about to be sent (LedgerSent); and whatever  *)
(* was made from a row of the table is of the row as it is now (Current).  *)
(***************************************************************************)
EXTENDS DomainRules, WellFoundedInduction, TLAPS

Row == [enabled : BOOLEAN, version : Nat]
Table == [RuleIds -> Row \cup {None}]
Entry == [sid : Nat, left : Nat]
ShadowRule == [sid : Nat, key : Keys, version : Nat]
Answer == [ip : Ips, domain : Domains, ttl : Ttls]
Items == SUBSET [id : RuleIds, version : Nat]
Snapshots == SUBSET [key : Keys, sid : Nat]
Expanding ==
  {Waiting} \cup [pc : {"rules"}, obs : Answer, todo : Items]
            \cup [pc : {"add", "undo"}, obs : Answer, todo : Items, shadow : ShadowRule]
            \cup [pc : {"reap"}, ids : SUBSET [sid : Nat, rule : RuleIds]]
Requesting ==
  {Idle} \cup [pc : {"revoke"}, rule : RuleIds]
         \cup [pc : {"remove"}, rule : RuleIds, ids : SUBSET Nat]
         \cup [pc : {"snapshot"}]
         \cup [pc : {"list"}, todo : Snapshots]
         \cup [pc : {"readd"}, todo : Snapshots, listed : Table]
         \cup [pc : {"drop"}, todo : Snapshots, listed : Table, key : Keys]

DomainType ==
  /\ rules \in Table
  /\ driver \subseteq ShadowRule
  /\ entries \in [Keys -> Entry \cup {None}]
  /\ next_index \in Nat
  /\ channel \in Seq(Answer)
  /\ expander \in Expanding
  /\ request \in Requesting
  /\ raced \in [RuleIds -> SUBSET {"sending", "listed", "reload", "failed"}]

Excused(r) == raced[r] \cap {"sending", "reload", "failed"} # {}
InEntry(k, sid) == entries[k] # None /\ entries[k].sid = sid
Expires(sid, r) == expander.pc = "reap" /\ [sid |-> sid, rule |-> r] \in expander.ids
Withdraws(sid, r) == request.pc = "remove" /\ request.rule = r /\ sid \in request.ids
SendsNow == expander.pc \in {"add", "undo"}
Resending == request.pc \in {"list", "readd", "drop"}

(* Ids are given once; one that is being taken back is no longer in the ledger. *)
Numbered ==
  /\ \A k \in Keys : entries[k] # None => entries[k].sid < next_index
  /\ \A k, l \in Keys : entries[k] # None /\ entries[l] # None /\ entries[k].sid = entries[l].sid => k = l
  /\ \A s \in driver : s.sid < next_index
  /\ SendsNow => expander.shadow.sid < next_index
  /\ expander.pc = "reap" => \A x \in expander.ids : x.sid < next_index /\ \A k \in Keys : ~InEntry(k, x.sid)
  /\ request.pc = "remove" => \A i \in request.ids : i < next_index /\ \A k \in Keys : ~InEntry(k, i)
  /\ Resending => \A x \in request.todo : x.sid < next_index

(* The shadow that is being sent is in the ledger, and not in the driver. *)
Pending ==
  SendsNow => \/ Excused(Source(expander.shadow))
              \/ ~Reloading /\ InLedger(expander.shadow) /\ ~DriverHas(expander.shadow.sid)

(* What a reload has still to send is in the ledger; what is not excused and
   in the driver was sent by it. *)
Resync ==
  /\ Resending => \A x \in request.todo :
       /\ InEntry(x.key, x.sid) \/ Expires(x.sid, x.key[1]) \/ Excused(x.key[1])
       /\ \A y \in request.todo : x.key = y.key => x = y
       /\ request.pc = "drop" => x.key # request.key
  /\ Reloading => \A s \in driver :
       \/ Excused(Source(s))
       \/ /\ request.pc \in {"readd", "drop"} /\ \A x \in request.todo : x.key # s.key
          /\ request.pc = "drop" => request.key # s.key

DriverKnown ==
  \A s \in driver : \/ InLedger(s) \/ Excused(Source(s))
                    \/ Expires(s.sid, Source(s)) \/ Withdraws(s.sid, Source(s))

LedgerSent ==
  \A k \in Keys : entries[k] # None =>
    \/ DriverHas(entries[k].sid) \/ Excused(k[1])
    \/ SendsNow /\ expander.shadow.key = k /\ expander.shadow.sid = entries[k].sid
    \/ request.pc = "snapshot"
    \/ Resending /\ [key |-> k, sid |-> entries[k].sid] \in request.todo
    \/ request.pc = "drop" /\ request.key = k

(* A row of the table is r's as it is now, unless r is about to be revoked. *)
OfNow(r, version) ==
  \/ rules[r] = [enabled |-> TRUE, version |-> version]
  \/ raced[r] # {}
  \/ request.pc = "revoke" /\ request.rule = r

Current ==
  /\ \A s \in driver : \/ OfNow(Source(s), s.version)
                       \/ Expires(s.sid, Source(s)) \/ Withdraws(s.sid, Source(s))
  /\ SendsNow => OfNow(Source(expander.shadow), expander.shadow.version)
  /\ expander.pc = "rules" \/ SendsNow => \A x \in expander.todo : OfNow(x.id, x.version)
  /\ request.pc \in {"readd", "drop"} => request.listed = rules

DomainInv ==
  DomainType /\ Numbered /\ Pending /\ Resync /\ DriverKnown /\ LedgerSent /\ Current

-----------------------------------------------------------------------------
(* What the expander and the request hold, by where they are. *)
LEMMA ExpanderShape ==
  ASSUME DomainType
  PROVE  /\ expander = Waiting => expander.pc = "wait"
         /\ expander.pc = "wait" => expander = Waiting
         /\ expander.pc = "rules" => expander \in [pc : {"rules"}, obs : Answer, todo : Items]
         /\ SendsNow => expander \in [pc : {"add", "undo"}, obs : Answer, todo : Items, shadow : ShadowRule]
         /\ expander.pc = "reap" => expander \in [pc : {"reap"}, ids : SUBSET [sid : Nat, rule : RuleIds]]
         /\ expander.pc \in {"wait", "rules", "add", "undo", "reap"}
BY DEF DomainType, Expanding, Waiting, SendsNow

LEMMA RequestShape ==
  ASSUME DomainType
  PROVE  /\ request = Idle => request.pc = "idle"
         /\ request.pc = "idle" => request = Idle
         /\ request.pc = "revoke" => request \in [pc : {"revoke"}, rule : RuleIds]
         /\ request.pc = "remove" => request \in [pc : {"remove"}, rule : RuleIds, ids : SUBSET Nat]
         /\ request.pc = "list" => request \in [pc : {"list"}, todo : Snapshots]
         /\ request.pc = "readd" => request \in [pc : {"readd"}, todo : Snapshots, listed : Table]
         /\ request.pc = "drop" => request \in [pc : {"drop"}, todo : Snapshots, listed : Table, key : Keys]
         /\ request.pc \in {"idle", "revoke", "remove", "snapshot", "list", "readd", "drop"}
BY DEF DomainType, Requesting, Idle

(* The rules that are left to do have a first one. *)
LEMMA FirstRule ==
  ASSUME NEW S \in Items, S # {}
  PROVE  (CHOOSE r \in S : \A o \in S : r.id <= o.id) \in S
<1> DEFINE ids == {r.id : r \in S}
<1>1. ids \in SUBSET Nat /\ ids # {}
  BY DomainAssumption DEF Items
<1>2. PICK n \in ids : \A m \in ids : ~(<<m, n>> \in OpToRel(<, Nat))
  BY <1>1, WFMin, NatLessThanWellFounded, Zenon
<1>3. \A m \in ids : ~(m < n)
  <2>1. n \in Nat /\ ids \in SUBSET Nat
    BY <1>1, <1>2
  <2> HIDE DEF ids
  <2> QED
    BY <1>2, <2>1, Zenon DEF OpToRel
<1>4. \A m \in ids : n <= m
  <2>1. n \in Nat /\ ids \in SUBSET Nat
    BY <1>1, <1>2
  <2> HIDE DEF ids
  <2> QED
    BY <1>3, <2>1
<1>5. PICK r \in S : r.id = n
  BY <1>2
<1>6. \A o \in S : r.id <= o.id
  BY <1>4, <1>5
<1> QED
  BY <1>6, Zenon

-----------------------------------------------------------------------------
LEMMA InitInv == DomainInit => DomainInv
<1> SUFFICES ASSUME DomainInit PROVE DomainInv
  OBVIOUS
<1>1. DomainType
  BY DEF DomainInit, DomainType, Table, Row, Expanding, Requesting
<1>2. expander.pc = "wait" /\ request.pc = "idle"
  BY DEF DomainInit, Waiting, Idle
<1> QED
  BY <1>1, <1>2 DEF DomainInit, DomainInv, Numbered, Pending, Resync, Reloading, DriverKnown, LedgerSent, Current,
     SendsNow, Resending

(* The answer the expander takes next. *)
LEMMA ChannelKept ==
  ASSUME channel \in Seq(Answer), channel # <<>>
  PROVE  Head(channel) \in Answer /\ Tail(channel) \in Seq(Answer)
OBVIOUS

LEMMA TypeKept ==
  ASSUME DomainType, [DomainNext]_dvars
  PROVE  DomainType'
<1> DEFINE RacedType(rs) == rs \in [RuleIds -> SUBSET {"sending", "listed", "reload", "failed"}]
<1>1. \A rs, why : why \in {"sending", "listed", "reload", "failed"} /\ Blame(rs, why) => RacedType(raced')
  BY DEF DomainType, Blame
<1>2. \A s \in Nat, l \in Nat : [sid |-> s, left |-> l] \in Entry
  BY DEF Entry
<1>3. CASE UNCHANGED dvars
  BY <1>3 DEF DomainType, dvars
<1>4. ASSUME NEW ip \in Ips, NEW domain \in Domains, NEW ttl \in Ttls, add_entry(ip, domain, ttl)
      PROVE  DomainType'
  <2>1. [ip |-> ip, domain |-> domain, ttl |-> ttl] \in Answer
    BY DEF Answer
  <2>2. (IF Len(channel) = CHANNEL THEN Tail(channel) ELSE channel) \in Seq(Answer)
    <3>1. channel \in Seq(Answer) /\ CHANNEL \in Nat \ {0}
      BY DomainAssumption DEF DomainType
    <3>2. CASE Len(channel) = CHANNEL
      BY <3>1, <3>2
    <3> QED
      BY <3>1, <3>2
  <2>3. channel' \in Seq(Answer)
    BY <1>4, <2>1, <2>2 DEF add_entry
  <2> QED
    BY <1>4, <2>3 DEF add_entry, DomainType
<1>5. CASE Tick
  <2>1. \A k \in Keys : entries[k] # None /\ entries[k].left # 0 =>
          [entries[k] EXCEPT !.left = @ - 1] \in Entry
    BY DEF DomainType, Entry
  <2>2. entries' \in [Keys -> Entry \cup {None}]
    BY <1>5, <2>1 DEF Tick, DomainType
  <2> QED
    BY <1>5, <2>2 DEF Tick, DomainType, bounds
<1>6. CASE Receive
  <2>1. Head(channel) \in Answer /\ Tail(channel) \in Seq(Answer)
    BY <1>6, ChannelKept DEF Receive, DomainType
  <2>2. \A r \in RuleIds : rules[r] # None => rules[r].version \in Nat
    BY DEF DomainType, Table, Row
  <2>3. {[id |-> r, version |-> rules[r].version] : r \in Hits(Head(channel))} \in Items
    BY <2>2 DEF Items, Hits
  <2>4. expander' \in Expanding
    <3> DEFINE items == {[id |-> r, version |-> rules[r].version] : r \in Hits(Head(channel))}
    <3>1. [pc |-> "rules", obs |-> Head(channel), todo |-> items] \in Expanding
      BY <2>1, <2>3 DEF Expanding
    <3>2. expander \in Expanding
      BY DEF DomainType
    <3> QED
      BY <1>6, <3>1, <3>2 DEF Receive
  <2> QED
    BY <1>6, <2>1, <2>4 DEF Receive, DomainType
<1>7. CASE hit
  <2>1. expander \in [pc : {"rules"}, obs : Answer, todo : Items]
    BY <1>7, ExpanderShape DEF hit
  <2> DEFINE rule == CHOOSE r \in expander.todo : \A o \in expander.todo : r.id <= o.id
             key == <<rule.id, expander.obs.ip>>
             left == shadow_lifetime(expander.obs.ttl)
             rest == [expander EXCEPT !.todo = @ \ {rule}]
  <2>2. rule \in expander.todo
    BY <1>7, <2>1, FirstRule DEF hit
  <2>3. rule.id \in RuleIds /\ rule.version \in Nat /\ expander.obs.ip \in Ips /\ expander.obs.ttl \in Ttls
    BY <2>1, <2>2 DEF Items, Answer
  <2>4. key \in Keys
    BY <2>3 DEF Keys
  <2>5. left \in Nat
    BY <2>3, DomainAssumption DEF shadow_lifetime, Min2
  <2>6. rest \in [pc : {"rules"}, obs : Answer, todo : Items] /\ rest.todo \in Items
    BY <2>1 DEF Items
  <2> HIDE DEF rule
  <2>7. CASE /\ entries[key] # None
             /\ entries' = [entries EXCEPT ![key].left = IF left > @ THEN left ELSE @]
             /\ expander' = rest
             /\ UNCHANGED <<next_index, raced>>
    <3>1. entries[key] \in Entry
      BY <2>4, <2>7 DEF DomainType
    <3>2. [entries[key] EXCEPT !.left = IF left > @ THEN left ELSE @] \in Entry
      BY <2>5, <3>1 DEF Entry
    <3>3. entries' \in [Keys -> Entry \cup {None}]
      BY <2>7, <3>2 DEF DomainType
    <3>4. expander' \in Expanding
      BY <2>6, <2>7 DEF Expanding
    <3> QED
      BY <1>7, <2>7, <3>3, <3>4 DEF hit, DomainType, bounds
  <2>8. CASE /\ entries[key] = None
             /\ entries' = [entries EXCEPT ![key] = [sid |-> next_index, left |-> left]]
             /\ next_index' = next_index + 1
             /\ expander' = [pc |-> "add", obs |-> expander.obs, todo |-> rest.todo,
                             shadow |-> Shadow(next_index, key, rule.version)]
             /\ IF Reloading THEN Blame({rule.id}, "reload") ELSE UNCHANGED raced
    <3>0. next_index \in Nat /\ next_index' \in Nat
      BY <2>8 DEF DomainType
    <3>1. entries' \in [Keys -> Entry \cup {None}]
      <4>1. [sid |-> next_index, left |-> left] \in Entry
        BY <1>2, <2>5, <3>0
      <4> QED
        BY <2>8, <4>1 DEF DomainType
    <3>2. Shadow(next_index, key, rule.version) \in ShadowRule
      BY <2>3, <2>4, <3>0 DEF Shadow, ShadowRule
    <3>3. expander' \in Expanding
      BY <2>1, <2>6, <2>8, <3>2 DEF Expanding
    <3>4. RacedType(raced')
      BY <1>1, <2>8 DEF DomainType
    <3> QED
      BY <1>7, <3>0, <3>1, <3>3, <3>4 DEF hit, DomainType, bounds
  <2> QED
    BY <1>7, <2>7, <2>8 DEF hit, rule
<1>8. CASE AddShadow
  <2>1. expander \in [pc : {"add", "undo"}, obs : Answer, todo : Items, shadow : ShadowRule]
    BY <1>8, ExpanderShape DEF AddShadow, SendsNow
  <2>2. expander' \in Expanding
    <3>1. [pc |-> "rules", obs |-> expander.obs, todo |-> expander.todo] \in Expanding
      BY <2>1 DEF Expanding
    <3>2. [expander EXCEPT !.pc = "undo"] \in Expanding
      BY <2>1 DEF Expanding
    <3> QED
      BY <1>8, <3>1, <3>2 DEF AddShadow
  <2>3. driver' \subseteq ShadowRule
    BY <1>8, <2>1 DEF AddShadow, Added, DomainType
  <2> QED
    BY <1>8, <2>2, <2>3 DEF AddShadow, DomainType
<1>9. CASE remove_entry
  <2>1. expander \in [pc : {"add", "undo"}, obs : Answer, todo : Items, shadow : ShadowRule]
    BY <1>9, ExpanderShape DEF remove_entry, SendsNow
  <2>2. expander' \in Expanding
    BY <1>9, <2>1 DEF remove_entry, Expanding
  <2> QED
    BY <1>9, <2>2 DEF remove_entry, DomainType, bounds
<1>10. CASE Answered
  BY <1>10 DEF Answered, DomainType, Expanding, bounds
<1>11. CASE reap
  <2>1. \A k \in Expired : entries[k].sid \in Nat /\ k[1] \in RuleIds
    BY DEF DomainType, Expired, Entry, Keys
  <2>2. expander' \in Expanding
    <3>1. {[sid |-> entries[k].sid, rule |-> k[1]] : k \in Expired} \in SUBSET [sid : Nat, rule : RuleIds]
      BY <2>1
    <3> QED
      BY <1>11, <3>1 DEF reap, Expanding
  <2>3. entries' \in [Keys -> Entry \cup {None}]
    BY <1>11 DEF reap, DomainType
  <2> QED
    BY <1>11, <2>2, <2>3 DEF reap, DomainType, bounds
<1>12. CASE RemoveExpired
  <2>1. expander \in [pc : {"reap"}, ids : SUBSET [sid : Nat, rule : RuleIds]]
    BY <1>12, ExpanderShape DEF RemoveExpired
  <2>2. \A x : [expander EXCEPT !.ids = @ \ {x}] \in Expanding
    BY <2>1 DEF Expanding
  <2>3. expander' \in Expanding
    BY <1>12, <2>2 DEF RemoveExpired, Expanding
  <2>4. RacedType(raced')
    BY <1>12, <1>1 DEF RemoveExpired, DomainType
  <2>5. driver' \subseteq ShadowRule
    BY <1>12 DEF RemoveExpired, Removed, DomainType
  <2> QED
    BY <1>12, <2>3, <2>4, <2>5 DEF RemoveExpired, DomainType
<1>13. ASSUME NEW r \in RuleIds, NEW row \in Row \cup {None}, Change(r, row)
       PROVE  DomainType'
  <2>1. rules' \in Table
    BY <1>13 DEF Change, DomainType, Table
  <2>2. request' \in Requesting
    BY <1>13 DEF Change, Requesting
  <2> QED
    BY <1>13, <2>1, <2>2 DEF Change, DomainType
<1>14. ASSUME NEW r \in RuleIds, update_rule(r) \/ disable_rule(r) \/ delete_rule(r)
       PROVE  DomainType'
  <2>1. rules[r] \in Row \cup {None}
    BY DEF DomainType, Table
  <2>2. rules[r] # None => [rules[r] EXCEPT !.version = @ + 1] \in Row
    BY <2>1 DEF Row
  <2>3. rules[r] # None => [rules[r] EXCEPT !.enabled = FALSE] \in Row
    BY <2>1 DEF Row
  <2> QED
    BY <1>13, <1>14, <2>2, <2>3 DEF update_rule, disable_rule, delete_rule
<1>15. ASSUME NEW r \in RuleIds, enable_rule(r)
       PROVE  DomainType'
  <2>1. [rules[r] EXCEPT !.enabled = TRUE] \in Row
    BY <1>15 DEF DomainType, Table, Row, enable_rule
  <2>2. rules' \in Table
    BY <1>15, <2>1 DEF enable_rule, DomainType, Table
  <2> QED
    BY <1>15, <2>2 DEF enable_rule, DomainType
<1>16. CASE reload_rules_to_driver
  <2>1. RacedType(raced')
    BY <1>16 DEF reload_rules_to_driver, DomainType
  <2> QED
    BY <1>16, <2>1 DEF reload_rules_to_driver, DomainType, Requesting
<1>17. CASE revoke_rule
  <2>1. request \in [pc : {"revoke"}, rule : RuleIds]
    BY <1>17, RequestShape DEF revoke_rule
  <2>2. entries' \in [Keys -> Entry \cup {None}]
    BY <1>17 DEF revoke_rule, DomainType
  <2>3. {entries[k].sid : k \in Entered(request.rule)} \in SUBSET Nat
    BY DEF DomainType, Entered, Entry
  <2>4. request' \in Requesting
    BY <1>17, <2>1, <2>3 DEF revoke_rule, Requesting
  <2>5. RacedType(raced')
    BY <1>17 DEF revoke_rule, DomainType
  <2> QED
    BY <1>17, <2>2, <2>4, <2>5 DEF revoke_rule, DomainType, bounds
<1>18. CASE RemoveRevoked
  <2>1. request \in [pc : {"remove"}, rule : RuleIds, ids : SUBSET Nat]
    BY <1>18, RequestShape DEF RemoveRevoked
  <2>2. \A i : [request EXCEPT !.ids = @ \ {i}] \in Requesting
    BY <2>1 DEF Requesting
  <2>3. request' \in Requesting
    BY <1>18, <2>2 DEF RemoveRevoked, Requesting
  <2>4. RacedType(raced')
    BY <1>18, <1>1 DEF RemoveRevoked, DomainType
  <2>5. driver' \subseteq ShadowRule
    BY <1>18 DEF RemoveRevoked, Removed, DomainType
  <2> QED
    BY <1>18, <2>3, <2>4, <2>5 DEF RemoveRevoked, DomainType
<1>19. CASE TakeSnapshot
  <2> DEFINE all == {[key |-> k, sid |-> entries[k].sid] : k \in {x \in Keys : entries[x] # None}}
  <2>1. all \in Snapshots
    BY DEF DomainType, Snapshots, Entry
  <2>2. [pc |-> "list", todo |-> all] \in Requesting
    BY <2>1 DEF Requesting
  <2>3. request' \in Requesting
    BY <1>19, <2>2 DEF TakeSnapshot, Requesting
  <2> QED
    BY <1>19, <2>3 DEF TakeSnapshot, DomainType, bounds
<1>20. CASE ListForResync
  <2>1. request \in [pc : {"list"}, todo : Snapshots]
    BY <1>20, RequestShape DEF ListForResync
  <2>2. [pc |-> "readd", todo |-> request.todo, listed |-> rules] \in Requesting
    BY <2>1 DEF Requesting, DomainType
  <2>3. request' \in Requesting
    BY <1>20, <2>2 DEF ListForResync, Requesting
  <2>4. RacedType(raced')
    BY <1>20, <1>1 DEF ListForResync, DomainType
  <2> QED
    BY <1>20, <2>3, <2>4 DEF ListForResync, DomainType
<1>21. CASE Readd
  <2>1. request \in [pc : {"readd"}, todo : Snapshots, listed : Table]
    BY <1>21, RequestShape DEF Readd
  <2>2. ASSUME NEW x \in request.todo
        PROVE  /\ [request EXCEPT !.todo = @ \ {x}] \in Requesting
               /\ [pc |-> "drop", todo |-> [request EXCEPT !.todo = @ \ {x}].todo,
                   listed |-> request.listed, key |-> x.key] \in Requesting
               /\ x.key \in Keys /\ x.sid \in Nat /\ x.key[1] \in RuleIds
    <3>1. request.todo \ {x} \in Snapshots
      BY <2>1 DEF Snapshots
    <3>2. x.key \in Keys /\ x.sid \in Nat
      BY <2>1 DEF Snapshots
    <3>3. x.key[1] \in RuleIds
      BY <3>2 DEF Keys
    <3>4. [request EXCEPT !.todo = @ \ {x}] = [pc |-> "readd", todo |-> request.todo \ {x}, listed |-> request.listed]
      BY <2>1
    <3> QED
      BY <2>1, <3>1, <3>2, <3>3, <3>4 DEF Requesting
  <2>3. request' \in Requesting
    <3>1. CASE request.todo = {} /\ request' = Idle
      BY <3>1 DEF Requesting
    <3>2. ASSUME NEW x \in request.todo,
                 \/ request' = [request EXCEPT !.todo = @ \ {x}]
                 \/ request' = [pc |-> "drop", todo |-> [request EXCEPT !.todo = @ \ {x}].todo,
                                listed |-> request.listed, key |-> x.key]
          PROVE  request' \in Requesting
      BY <2>2, <3>2
    <3> QED
      BY <1>21, <3>1, <3>2 DEF Readd
  <2>4. \A x \in request.todo : request.listed[x.key[1]] # None => request.listed[x.key[1]].version \in Nat
    BY <2>1, <2>2 DEF Table, Row
  <2>5. driver' \subseteq ShadowRule
    <3>1. ASSUME NEW x \in request.todo, request.listed[x.key[1]] # None
          PROVE  Shadow(x.sid, x.key, request.listed[x.key[1]].version) \in ShadowRule
      BY <2>2, <2>4, <3>1 DEF Shadow, ShadowRule
    <3>2. \/ driver' = driver
          \/ \E x \in request.todo : /\ request.listed[x.key[1]] # None
                                    /\ Added(Shadow(x.sid, x.key, request.listed[x.key[1]].version))
      BY <1>21 DEF Readd
    <3> QED
      BY <3>1, <3>2 DEF Added, DomainType
  <2> QED
    BY <1>21, <2>3, <2>5 DEF Readd, DomainType
<1>22. CASE DropEntry
  <2>1. request \in [pc : {"drop"}, todo : Snapshots, listed : Table, key : Keys]
    BY <1>22, RequestShape DEF DropEntry
  <2>2. request' \in Requesting
    BY <1>22, <2>1 DEF DropEntry, Requesting
  <2> QED
    BY <1>22, <2>2 DEF DropEntry, DomainType, bounds
<1> QED
  BY <1>3, <1>4, <1>5, <1>6, <1>7, <1>8, <1>9, <1>10, <1>11, <1>12, <1>14, <1>15, <1>16, <1>17, <1>18,
     <1>19, <1>20, <1>21, <1>22 DEF DomainNext, Expander, Request, Serve

-----------------------------------------------------------------------------
Known == Numbered /\ Pending /\ Resync /\ DriverKnown /\ LedgerSent /\ Current

(* Time and answers leave every entry its id. *)
LEMMA LedgerFrame ==
  ASSUME DomainInv, UNCHANGED <<rules, driver, next_index, expander, request, raced>>,
         \A k \in Keys : /\ entries'[k] = None <=> entries[k] = None
                         /\ entries[k] # None => entries'[k].sid = entries[k].sid
  PROVE  Known'
<1>1. \A k \in Keys : \A i : InEntry(k, i)' <=> InEntry(k, i)
  BY DEF InEntry
<1>2. \A s \in ShadowRule : InLedger(s)' <=> InLedger(s)
  BY DEF InLedger, ShadowRule
<1>3. Numbered'
  BY <1>1 DEF DomainInv, Numbered, SendsNow, Resending
<1>4. Pending'
  BY <1>2, ExpanderShape DEF DomainInv, Pending, SendsNow, Excused, Reloading, DriverHas
<1>5. Resync'
  <2>1. Resending => \A x \in request.todo : x.key \in Keys
    BY RequestShape DEF DomainInv, Resending, Snapshots
  <2> QED
    BY <1>1, <2>1 DEF DomainInv, Resync, Resending, Reloading, Excused, Expires
<1>6. DriverKnown'
  BY <1>2 DEF DomainInv, DomainType, DriverKnown, Excused, Expires, Withdraws
<1>7. LedgerSent'
  BY DEF DomainInv, LedgerSent, DriverHas, Excused, SendsNow, Resending
<1>8. Current'
  BY DEF DomainInv, Current, OfNow, Expires, Withdraws, SendsNow
<1> QED
  BY <1>3, <1>4, <1>5, <1>6, <1>7, <1>8 DEF Known

LEMMA AnswerKeeps ==
  ASSUME DomainInv, NEW ip \in Ips, NEW domain \in Domains, NEW ttl \in Ttls, add_entry(ip, domain, ttl)
  PROVE  Known'
BY LedgerFrame DEF add_entry

LEMMA TickKeeps ==
  ASSUME DomainInv, Tick
  PROVE  Known'
<1>1. ASSUME NEW k \in Keys
      PROVE  /\ entries'[k] = None <=> entries[k] = None
             /\ entries[k] # None => entries'[k].sid = entries[k].sid
  <2>1. CASE entries[k] = None \/ entries[k].left = 0
    BY <2>1 DEF Tick
  <2>2. CASE entries[k] # None /\ entries[k].left # 0
    <3>1. entries[k] \in [sid : Nat, left : Nat]
      BY <2>2 DEF DomainInv, DomainType, Entry
    <3>2. entries'[k] = [entries[k] EXCEPT !.left = @ - 1]
      BY <2>2 DEF Tick
    <3>3. entries[k].left - 1 \in Nat
      BY <2>2, <3>1
    <3>4. entries'[k] \in [sid : Nat, left : Nat] /\ entries'[k].sid = entries[k].sid
      BY <3>1, <3>2, <3>3
    <3> QED
      BY <2>2, <3>4, DomainAssumption
  <2> QED
    BY <2>1, <2>2
<1> QED
  BY <1>1, LedgerFrame DEF Tick, bounds

(* The expander takes an answer, or has done with it. *)
LEMMA ReceiveKeeps ==
  ASSUME DomainInv, Receive
  PROVE  Known'
<1>1. expander.pc = "wait" /\ expander'.pc \in {"wait", "rules"}
      /\ UNCHANGED <<rules, driver, next_index, entries, request, raced>>
  BY ExpanderShape DEF Receive, DomainInv
<1>2. expander'.pc = "rules" => \A x \in expander'.todo :
         rules[x.id] = [enabled |-> TRUE, version |-> x.version]
  <2>1. ASSUME NEW r \in Hits(Head(channel))
        PROVE  rules[r] = [enabled |-> TRUE, version |-> rules[r].version]
    <3>1. rules[r] \in Row /\ rules[r].enabled = TRUE
      BY DEF Hits, DomainInv, DomainType, Table
    <3> QED
      BY <3>1 DEF Row
  <2>2. CASE expander' = [pc |-> "rules", obs |-> Head(channel),
                          todo |-> {[id |-> r, version |-> rules[r].version] : r \in Hits(Head(channel))}]
    BY <2>1, <2>2
  <2>3. CASE expander' = expander
    BY <1>1, <2>3
  <2> QED
    BY <2>2, <2>3 DEF Receive
<1>3. Numbered'
  BY <1>1 DEF DomainInv, Numbered, SendsNow, Resending, InEntry
<1>4. Pending'
  BY <1>1 DEF Pending, SendsNow
<1>5. Resync'
  BY <1>1 DEF DomainInv, Resync, Resending, Reloading, Excused, Expires, InEntry
<1>6. DriverKnown'
  BY <1>1 DEF DomainInv, DriverKnown, Excused, Expires, Withdraws, InLedger
<1>7. LedgerSent'
  BY <1>1 DEF DomainInv, LedgerSent, DriverHas, Excused, SendsNow, Resending
<1>8. Current'
  BY <1>1, <1>2 DEF DomainInv, Current, OfNow, Expires, Withdraws, SendsNow
<1> QED
  BY <1>3, <1>4, <1>5, <1>6, <1>7, <1>8 DEF Known

LEMMA AnsweredKeeps ==
  ASSUME DomainInv, Answered
  PROVE  Known'
<1>1. expander.pc = "rules" /\ expander'.pc = "wait"
      /\ UNCHANGED <<rules, driver, next_index, entries, request, raced>>
  BY DEF Answered, Waiting, bounds
<1>3. Numbered'
  BY <1>1 DEF DomainInv, Numbered, SendsNow, Resending, InEntry
<1>4. Pending'
  BY <1>1 DEF Pending, SendsNow
<1>5. Resync'
  BY <1>1 DEF DomainInv, Resync, Resending, Reloading, Excused, Expires, InEntry
<1>6. DriverKnown'
  BY <1>1 DEF DomainInv, DriverKnown, Excused, Expires, Withdraws, InLedger
<1>7. LedgerSent'
  BY <1>1 DEF DomainInv, LedgerSent, DriverHas, Excused, SendsNow, Resending
<1>8. Current'
  BY <1>1 DEF DomainInv, Current, OfNow, Expires, Withdraws, SendsNow
<1> QED
  BY <1>3, <1>4, <1>5, <1>6, <1>7, <1>8 DEF Known

(* An answer that matches a rule: its address is known, or gets a new id. *)
LEMMA HitKeeps ==
  ASSUME DomainInv, hit
  PROVE  Known'
<1>1. expander \in [pc : {"rules"}, obs : Answer, todo : Items]
  BY ExpanderShape DEF hit, DomainInv
<1> DEFINE rule == CHOOSE r \in expander.todo : \A o \in expander.todo : r.id <= o.id
           key == <<rule.id, expander.obs.ip>>
           left == shadow_lifetime(expander.obs.ttl)
           rest == [expander EXCEPT !.todo = @ \ {rule}]
<1>2. rule \in expander.todo
  BY <1>1, FirstRule DEF hit
<1>3. rule.id \in RuleIds /\ key \in Keys /\ key[1] = rule.id /\ OfNow(rule.id, rule.version)
  <2> HIDE DEF rule
  <2>1. rule.id \in RuleIds
    BY <1>1, <1>2 DEF Items
  <2>2. expander.obs.ip \in Ips
    BY <1>1 DEF Answer
  <2>3. OfNow(rule.id, rule.version)
    BY <1>1, <1>2 DEF DomainInv, Current
  <2> QED
    BY <2>1, <2>2, <2>3 DEF Keys
<1>4. rest.pc = "rules" /\ rest.todo \subseteq expander.todo
  BY <1>1
<1>5. UNCHANGED <<rules, driver, request>>
  BY DEF hit
<1> HIDE DEF rule
<1>6. CASE /\ entries[key] # None
           /\ entries' = [entries EXCEPT ![key].left = IF left > @ THEN left ELSE @]
           /\ expander' = rest
           /\ UNCHANGED <<next_index, raced>>
  <2>1. entries[key] \in [sid : Nat, left : Nat] /\ left \in Nat
    <3>1. expander.obs.ttl \in Nat
      BY <1>1, DomainAssumption DEF Answer
    <3>2. left \in Nat
      BY <3>1, DomainAssumption DEF shadow_lifetime, Min2
    <3> QED
      BY <1>3, <1>6, <3>2 DEF DomainInv, DomainType, Entry
  <2> HIDE DEF key, left
  <2>2. entries'[key] = [entries[key] EXCEPT !.left = IF left > @ THEN left ELSE @]
    BY <1>3, <1>6 DEF DomainInv, DomainType
  <2>3. entries'[key] \in [sid : Nat, left : Nat] /\ entries'[key].sid = entries[key].sid
    BY <2>1, <2>2
  <2>4. \A k \in Keys : /\ entries'[k] = None <=> entries[k] = None
                        /\ entries[k] # None => entries'[k].sid = entries[k].sid
    BY <1>6, <2>1, <2>3, DomainAssumption DEF DomainInv, DomainType
  <2>5. \A k \in Keys : \A i : InEntry(k, i)' <=> InEntry(k, i)
    BY <2>4 DEF InEntry
  <2>6. \A s \in ShadowRule : InLedger(s)' <=> InLedger(s)
    BY <2>4 DEF InLedger, ShadowRule
  <2>7. expander.pc = "rules" /\ expander'.pc = "rules"
    BY <1>1, <1>4, <1>6
  <2>8. Numbered'
    BY <1>5, <1>6, <2>4, <2>5, <2>7 DEF DomainInv, Numbered, SendsNow, Resending
  <2>9. Pending'
    BY <2>7 DEF Pending, SendsNow
  <2>10. Resync'
    <3>1. Resending => \A x \in request.todo : x.key \in Keys
      BY RequestShape DEF DomainInv, Resending, Snapshots
    <3> QED
      BY <1>5, <1>6, <2>5, <2>7, <3>1 DEF DomainInv, Resync, Resending, Reloading, Excused, Expires
  <2>11. DriverKnown'
    BY <1>5, <1>6, <2>6, <2>7 DEF DomainInv, DomainType, DriverKnown, Excused, Expires, Withdraws
  <2>12. LedgerSent'
    BY <1>5, <1>6, <2>4, <2>7 DEF DomainInv, LedgerSent, DriverHas, Excused, SendsNow, Resending
  <2>13. Current'
    BY <1>4, <1>5, <1>6, <2>7 DEF DomainInv, Current, OfNow, Expires, Withdraws, SendsNow
  <2> QED
    BY <2>8, <2>9, <2>10, <2>11, <2>12, <2>13 DEF Known
<1>7. CASE /\ entries[key] = None
           /\ entries' = [entries EXCEPT ![key] = [sid |-> next_index, left |-> left]]
           /\ next_index' = next_index + 1
           /\ expander' = [pc |-> "add", obs |-> expander.obs, todo |-> rest.todo,
                           shadow |-> Shadow(next_index, key, rule.version)]
           /\ IF Reloading THEN Blame({rule.id}, "reload") ELSE UNCHANGED raced
  <2>1. next_index \in Nat /\ left \in Nat
    <3>1. expander.obs.ttl \in Nat
      BY <1>1, DomainAssumption DEF Answer
    <3>2. left \in Nat
      BY <3>1, DomainAssumption DEF shadow_lifetime, Min2
    <3> QED
      BY <3>2 DEF DomainInv, DomainType
  <2>2. /\ expander.pc = "rules" /\ expander'.pc = "add" /\ expander'.todo \subseteq expander.todo
        /\ expander'.shadow.sid = next_index /\ expander'.shadow.key = key
        /\ expander'.shadow.version = rule.version
    BY <1>1, <1>4, <1>7 DEF Shadow
  <2> HIDE DEF key, left, rest
  <2>3. /\ [sid |-> next_index, left |-> left] # None
        /\ \A k \in Keys : entries'[k] = IF k = key THEN [sid |-> next_index, left |-> left] ELSE entries[k]
    BY <1>7, <2>1, DomainAssumption DEF DomainInv, DomainType
  <2>4. \A k \in Keys : \A i : InEntry(k, i)' <=> (InEntry(k, i) \/ (k = key /\ i = next_index))
    <3>1. PICK new \in Keys : new = key
      BY <1>3
    <3>2. entries'[new] # None /\ entries'[new].sid = next_index
      BY <2>3, <3>1
    <3>3. \A i : InEntry(new, i)' <=> i = next_index
      BY <3>2 DEF InEntry
    <3>4. \A i : ~InEntry(new, i)
      BY <1>7, <3>1 DEF InEntry
    <3>5. \A k \in Keys : \A i : k # new => (InEntry(k, i)' <=> InEntry(k, i))
      BY <2>3, <3>1 DEF InEntry
    <3> TAKE k \in Keys
    <3> TAKE i
    <3>6. CASE k = new
      BY <3>1, <3>3, <3>4, <3>6
    <3>7. CASE k # new
      BY <3>1, <3>5, <3>7
    <3> QED
      BY <3>6, <3>7
  <2>5. \A s \in ShadowRule : InLedger(s) => InLedger(s)'
    BY <1>7, <2>3 DEF InLedger, ShadowRule
  <2>6. /\ \A r \in RuleIds : raced[r] \subseteq raced'[r]
        /\ Reloading => "reload" \in raced'[rule.id]
    BY <1>3, <1>7 DEF Blame, DomainInv, DomainType
  <2>7. \A r \in RuleIds : Excused(r) => Excused(r)'
    BY <2>6 DEF Excused
  <2>8. Numbered'
    <3>1. /\ \A k \in Keys : entries'[k] # None => entries'[k].sid < next_index'
          /\ \A k, l \in Keys : entries'[k] # None /\ entries'[l] # None /\ entries'[k].sid = entries'[l].sid => k = l
      <4>1. \A k \in Keys : entries[k] # None => entries[k].sid < next_index /\ entries[k].sid \in Nat
        BY DEF DomainInv, Numbered, DomainType, Entry
      <4>2. \A k, l \in Keys : entries[k] # None /\ entries[l] # None /\ entries[k].sid = entries[l].sid => k = l
        BY DEF DomainInv, Numbered
      <4>3. \A k \in Keys : entries'[k] # None => entries'[k].sid < next_index'
        BY <1>7, <2>1, <2>3, <4>1
      <4>4. \A k \in Keys : k # key /\ entries'[k] # None => entries'[k].sid # next_index
        BY <2>1, <2>3, <4>1
      <4>5. \A k, l \in Keys : entries'[k] # None /\ entries'[l] # None /\ entries'[k].sid = entries'[l].sid => k = l
        BY <2>3, <4>2, <4>4
      <4> QED
        BY <4>3, <4>5
    <3>2. \A s \in driver : s.sid < next_index'
      <4>1. \A s \in driver : s.sid < next_index /\ s.sid \in Nat
        BY DEF DomainInv, Numbered, DomainType, ShadowRule
      <4> QED
        BY <1>7, <2>1, <4>1
    <3>3. request.pc = "remove" => \A i \in request.ids : i < next_index' /\ i # next_index
                                                         /\ \A k \in Keys : ~InEntry(k, i)
      <4>1. request.pc = "remove" => \A i \in request.ids : i \in Nat /\ i < next_index /\ \A k \in Keys : ~InEntry(k, i)
        BY RequestShape DEF DomainInv, Numbered
      <4> QED
        BY <1>7, <2>1, <4>1
    <3>4. Resending => \A x \in request.todo : x.sid < next_index'
      <4>1. Resending => \A x \in request.todo : x.sid \in Nat /\ x.sid < next_index
        BY RequestShape DEF DomainInv, Numbered, Resending, Snapshots
      <4> QED
        BY <1>7, <2>1, <4>1
    <3>5. expander'.shadow.sid < next_index'
      BY <1>7, <2>1, <2>2
    <3> QED
      BY <1>5, <2>2, <2>4, <3>1, <3>2, <3>3, <3>4, <3>5 DEF Numbered, SendsNow, Resending
  <2>9. Pending'
    <3>1. Source(expander'.shadow) = rule.id
      BY <1>3, <2>2 DEF Source, key
    <3>2. CASE Reloading
      BY <1>3, <2>6, <3>1, <3>2 DEF Pending, Excused
    <3>3. CASE ~Reloading
      <4>1. InLedger(expander.shadow)'
        BY <1>3, <2>2, <2>3 DEF InLedger
      <4>2. ~DriverHas(expander.shadow.sid)'
        <5>1. \A s \in driver : s.sid < next_index /\ s.sid \in Nat
          BY DEF DomainInv, Numbered, DomainType, ShadowRule
        <5>2. \A s \in driver : s.sid # next_index
          BY <2>1, <5>1
        <5> QED
          BY <1>5, <2>2, <5>2 DEF DriverHas
      <4> QED
        BY <1>5, <3>3, <4>1, <4>2 DEF Pending, Reloading
    <3> QED
      BY <3>2, <3>3
  <2>10. Resync'
    <3>1. Resending => \A x \in request.todo : x.key \in Keys /\ x.key[1] \in RuleIds
      BY RequestShape DEF DomainInv, Resending, Snapshots, Keys
    <3>2. \A s \in driver : Source(s) \in RuleIds
      BY DEF DomainInv, DomainType, ShadowRule, Keys, Source
    <3> QED
      BY <1>5, <2>2, <2>4, <2>7, <3>1, <3>2 DEF DomainInv, Resync, Resending, Reloading, Expires
  <2>11. DriverKnown'
    <3>1. \A s \in driver : Source(s) \in RuleIds /\ s \in ShadowRule
      BY DEF DomainInv, DomainType, ShadowRule, Keys, Source
    <3> QED
      BY <1>5, <2>2, <2>5, <2>7, <3>1 DEF DomainInv, DriverKnown, Expires, Withdraws
  <2>12. LedgerSent'
    <3>1. \A k \in Keys : k[1] \in RuleIds
      BY DEF Keys
    <3> QED
      BY <1>5, <2>2, <2>3, <2>7, <3>1 DEF DomainInv, LedgerSent, DriverHas, SendsNow, Resending
  <2>13. Current'
    <3>1. \A s \in driver : Source(s) \in RuleIds
      BY DEF DomainInv, DomainType, ShadowRule, Keys, Source
    <3>2. \A r \in RuleIds : \A v : OfNow(r, v) => OfNow(r, v)'
      BY <1>5, <2>6 DEF OfNow
    <3>3. OfNow(Source(expander.shadow), expander.shadow.version)'
      BY <1>3, <2>2, <3>2 DEF Source, key
    <3>4. \A x \in expander.todo : x.id \in RuleIds
      BY <1>1 DEF Items
    <3> QED
      BY <1>5, <2>2, <3>1, <3>2, <3>3, <3>4 DEF DomainInv, Current, Expires, Withdraws, SendsNow
  <2> QED
    BY <2>8, <2>9, <2>10, <2>11, <2>12, <2>13 DEF Known
<1> QED
  BY <1>6, <1>7 DEF hit, rule

(* Every shadow and every entry is of a rule. *)
LEMMA Typed ==
  ASSUME DomainInv
  PROVE  /\ \A s \in driver : s \in ShadowRule /\ s.key \in Keys /\ Source(s) \in RuleIds /\ s.sid \in Nat
         /\ SendsNow => /\ expander.shadow \in ShadowRule /\ expander.shadow.key \in Keys
                        /\ Source(expander.shadow) \in RuleIds /\ expander.shadow.sid \in Nat
         /\ Resending => \A x \in request.todo : x.key \in Keys /\ x.key[1] \in RuleIds /\ x.sid \in Nat
         /\ expander.pc = "reap" => \A x \in expander.ids : x.rule \in RuleIds /\ x.sid \in Nat
         /\ \A k \in Keys : k[1] \in RuleIds
         /\ \A k \in Keys : entries[k] # None => entries[k].sid \in Nat
<1>1. \A k \in Keys : k[1] \in RuleIds
  BY DEF Keys
<1>2. \A s \in ShadowRule : s.key \in Keys /\ Source(s) \in RuleIds /\ s.sid \in Nat
  BY <1>1 DEF ShadowRule, Source
<1>3. driver \subseteq ShadowRule
  BY DEF DomainInv, DomainType
<1>4. SendsNow => expander.shadow \in ShadowRule
  BY ExpanderShape DEF DomainInv
<1>5. Resending => \A x \in request.todo : x.key \in Keys /\ x.sid \in Nat
  BY RequestShape DEF DomainInv, Resending, Snapshots
<1>6. expander.pc = "reap" => \A x \in expander.ids : x.rule \in RuleIds /\ x.sid \in Nat
  BY ExpanderShape DEF DomainInv
<1>7. \A k \in Keys : entries[k] # None => entries[k].sid \in Nat
  BY DEF DomainInv, DomainType, Entry
<1> QED
  BY <1>1, <1>2, <1>3, <1>4, <1>5, <1>6, <1>7

(* The shadow reaches the driver, or the call fails and the entry is to go. *)
LEMMA AddKeeps ==
  ASSUME DomainInv, AddShadow
  PROVE  Known'
<1>1. /\ expander \in [pc : {"add", "undo"}, obs : Answer, todo : Items, shadow : ShadowRule]
      /\ expander.pc = "add" /\ SendsNow
  BY ExpanderShape DEF AddShadow, SendsNow, DomainInv
<1>2. UNCHANGED <<rules, entries, next_index, request, raced>>
  BY DEF AddShadow
<1>3. /\ expander.shadow.sid < next_index
      /\ \/ Excused(Source(expander.shadow))
         \/ ~Reloading /\ InLedger(expander.shadow) /\ ~DriverHas(expander.shadow.sid)
      /\ OfNow(Source(expander.shadow), expander.shadow.version)
  BY <1>1 DEF DomainInv, Numbered, Pending, Current
<1>4. \A r, v : OfNow(r, v)' <=> OfNow(r, v)
  BY <1>2 DEF OfNow
<1>5. CASE /\ driver' = driver \cup {expander.shadow}
           /\ expander' = [pc |-> "rules", obs |-> expander.obs, todo |-> expander.todo]
  <2>1. expander'.pc = "rules" /\ expander'.todo = expander.todo
    BY <1>5
  <2>2. Numbered'
    BY <1>1, <1>2, <1>3, <1>5, <2>1 DEF DomainInv, Numbered, SendsNow, Resending, InEntry
  <2>3. Pending'
    BY <2>1 DEF Pending, SendsNow
  <2>4. Resync'
    BY <1>1, <1>2, <1>3, <1>5, <2>1 DEF DomainInv, Resync, Resending, Reloading, Excused, Expires, InEntry
  <2>5. DriverKnown'
    BY <1>1, <1>2, <1>3, <1>5, <2>1 DEF DomainInv, DriverKnown, Excused, Expires, Withdraws, InLedger
  <2>6. LedgerSent'
    BY <1>1, <1>2, <1>5, <2>1 DEF DomainInv, LedgerSent, DriverHas, Excused, SendsNow, Resending
  <2>7. Current'
    <3>1. \A s \in driver' : OfNow(Source(s), s.version)' \/ Withdraws(s.sid, Source(s))'
      BY <1>1, <1>2, <1>3, <1>4, <1>5 DEF DomainInv, Current, Expires, Withdraws
    <3> QED
      BY <1>1, <1>2, <1>4, <2>1, <3>1 DEF DomainInv, Current, SendsNow
  <2> QED
    BY <2>2, <2>3, <2>4, <2>5, <2>6, <2>7 DEF Known
<1>6. CASE driver' = driver /\ expander' = [expander EXCEPT !.pc = "undo"]
  <2>1. expander'.pc = "undo" /\ expander'.todo = expander.todo /\ expander'.shadow = expander.shadow
    BY <1>1, <1>6
  <2>2. Numbered'
    BY <1>1, <1>2, <1>6, <2>1 DEF DomainInv, Numbered, SendsNow, Resending, InEntry
  <2>3. Pending'
    BY <1>2, <1>3, <1>6, <2>1 DEF Pending, SendsNow, Excused, Reloading, InLedger, DriverHas
  <2>4. Resync'
    BY <1>1, <1>2, <1>6, <2>1 DEF DomainInv, Resync, Resending, Reloading, Excused, Expires, InEntry
  <2>5. DriverKnown'
    BY <1>1, <1>2, <1>6, <2>1 DEF DomainInv, DriverKnown, Excused, Expires, Withdraws, InLedger
  <2>6. LedgerSent'
    BY <1>1, <1>2, <1>6, <2>1 DEF DomainInv, LedgerSent, DriverHas, Excused, SendsNow, Resending
  <2>7. Current'
    BY <1>1, <1>2, <1>4, <1>6, <2>1 DEF DomainInv, Current, Expires, Withdraws, SendsNow
  <2> QED
    BY <2>2, <2>3, <2>4, <2>5, <2>6, <2>7 DEF Known
<1> QED
  BY <1>5, <1>6 DEF AddShadow, Added

(* The entry of a shadow that was not sent goes. *)
LEMMA UndoKeeps ==
  ASSUME DomainInv, remove_entry
  PROVE  Known'
<1>1. /\ expander.pc = "undo" /\ SendsNow
      /\ expander'.pc = "rules" /\ expander'.todo = expander.todo
      /\ UNCHANGED <<rules, driver, next_index, request, raced>>
  BY DEF remove_entry, SendsNow, bounds
<1>2. PICK gone \in Keys : gone = expander.shadow.key
  BY <1>1, Typed
<1>3. \A k \in Keys : entries'[k] = IF k = gone THEN None ELSE entries[k]
  BY <1>2 DEF remove_entry, DomainInv, DomainType
<1>4. \/ Excused(gone[1])
      \/ ~Reloading /\ InLedger(expander.shadow) /\ ~DriverHas(expander.shadow.sid)
  <2>1. Source(expander.shadow) = gone[1]
    BY <1>2 DEF Source
  <2> QED
    BY <1>1, <2>1 DEF DomainInv, Pending
<1>5. \A r : Excused(r)' <=> Excused(r)
  BY <1>1 DEF Excused
<1>6. \A k \in Keys : \A i : InEntry(k, i)' <=> (InEntry(k, i) /\ k # gone)
  BY <1>3 DEF InEntry
<1>7. Numbered'
  BY <1>1, <1>3, <1>6 DEF DomainInv, Numbered, SendsNow, Resending
<1>8. Pending'
  BY <1>1 DEF Pending, SendsNow
<1>9. Resync'
  BY <1>1, <1>4, <1>5, <1>6, Typed DEF DomainInv, Resync, Resending, Reloading, Expires
<1>10. DriverKnown'
  <2>1. ASSUME NEW s \in driver, s.key = gone, InLedger(s)
        PROVE  Excused(Source(s))
    <3>1. InLedger(expander.shadow) => s.sid = expander.shadow.sid
      BY <1>2, <2>1 DEF InLedger
    <3> QED
      BY <1>4, <2>1, <3>1 DEF DriverHas, Source
  <2>2. \A s \in driver : s.key # gone => (InLedger(s)' <=> InLedger(s))
    BY <1>3, Typed DEF InLedger
  <2> QED
    BY <1>1, <1>5, <2>1, <2>2 DEF DomainInv, DriverKnown, Expires, Withdraws
<1>11. LedgerSent'
  BY <1>1, <1>2, <1>3, <1>5 DEF DomainInv, LedgerSent, DriverHas, SendsNow, Resending
<1>12. Current'
  BY <1>1 DEF DomainInv, Current, OfNow, Expires, Withdraws, SendsNow
<1> QED
  BY <1>7, <1>8, <1>9, <1>10, <1>11, <1>12 DEF Known

(* Expired entries leave the ledger for the expander's list. *)
LEMMA ReapKeeps ==
  ASSUME DomainInv, reap
  PROVE  Known'
<1>1. /\ expander.pc = "wait" /\ expander'.pc = "reap"
      /\ UNCHANGED <<rules, driver, next_index, request, raced>>
  BY ExpanderShape DEF reap, bounds, DomainInv
<1>2. \A k \in Keys : entries'[k] = IF k \in Expired THEN None ELSE entries[k]
  BY DEF reap
<1>3. \A k \in Expired : /\ k \in Keys /\ entries[k] # None
                         /\ [sid |-> entries[k].sid, rule |-> k[1]] \in expander'.ids
  BY DEF reap, Expired
<1>4. \A x \in expander'.ids : \E k \in Expired : x.sid = entries[k].sid /\ x.rule = k[1]
  BY DEF reap
<1>5. \A r : Excused(r)' <=> Excused(r)
  BY <1>1 DEF Excused
<1>6. ASSUME NEW k \in Keys, NEW i, InEntry(k, i)
      PROVE  InEntry(k, i)' \/ Expires(i, k[1])'
  BY <1>1, <1>2, <1>3, <1>6 DEF InEntry, Expires
<1>7. Numbered'
  <2>1. \A x \in expander'.ids : x.sid < next_index /\ \A k \in Keys : ~InEntry(k, x.sid)'
    <3> TAKE x \in expander'.ids
    <3>1. PICK l \in Expired : x.sid = entries[l].sid /\ l \in Keys /\ entries[l] # None
      BY <1>3, <1>4
    <3>2. x.sid < next_index
      BY <3>1 DEF DomainInv, Numbered
    <3>3. \A k \in Keys : entries[k] # None /\ entries[k].sid = x.sid => k = l
      BY <3>1 DEF DomainInv, Numbered
    <3>4. \A k \in Keys : ~InEntry(k, x.sid)'
      BY <1>2, <3>3 DEF InEntry
    <3> QED
      BY <3>2, <3>4
  <2>2. \A k \in Keys : entries'[k] # None => entries'[k] = entries[k]
    BY <1>2
  <2>3. \A k \in Keys : \A i : InEntry(k, i)' => InEntry(k, i)
    BY <2>2 DEF InEntry
  <2> QED
    BY <1>1, <2>1, <2>2, <2>3 DEF DomainInv, Numbered, SendsNow, Resending, InEntry
<1>8. Pending'
  BY <1>1 DEF Pending, SendsNow
<1>9. Resync'
  <2>1. Resending => \A x \in request.todo : InEntry(x.key, x.sid)' \/ Expires(x.sid, x.key[1])' \/ Excused(x.key[1])'
    BY <1>1, <1>5, <1>6, Typed DEF DomainInv, Resync, Expires
  <2> QED
    BY <1>1, <1>5, <2>1 DEF DomainInv, Resync, Resending, Reloading
<1>10. DriverKnown'
  <2>1. \A s \in driver : InLedger(s) => InLedger(s)' \/ Expires(s.sid, Source(s))'
    BY <1>1, <1>2, <1>3, Typed DEF InLedger, Expires, Source
  <2> QED
    BY <1>1, <1>5, <2>1 DEF DomainInv, DriverKnown, Expires, Withdraws
<1>11. LedgerSent'
  BY <1>1, <1>2, <1>5 DEF DomainInv, LedgerSent, DriverHas, SendsNow, Resending
<1>12. Current'
  BY <1>1 DEF DomainInv, Current, OfNow, Expires, Withdraws, SendsNow
<1> QED
  BY <1>7, <1>8, <1>9, <1>10, <1>11, <1>12 DEF Known

(* The driver gives an expired shadow back, or does not. *)
LEMMA RemoveExpiredKeeps ==
  ASSUME DomainInv, RemoveExpired
  PROVE  Known'
<1>1. /\ expander \in [pc : {"reap"}, ids : SUBSET [sid : Nat, rule : RuleIds]]
      /\ expander.pc = "reap" /\ UNCHANGED <<rules, entries, next_index, request>>
  BY ExpanderShape DEF RemoveExpired, DomainInv
<1>2. PICK x \in expander.ids :
         /\ expander' = IF expander.ids = {x} THEN Waiting ELSE [expander EXCEPT !.ids = @ \ {x}]
         /\ \/ /\ Removed(x.sid)
               /\ IF Reloading THEN Blame({x.rule}, "reload") ELSE UNCHANGED raced
            \/ Blame({x.rule}, "failed") /\ UNCHANGED driver
  BY DEF RemoveExpired
<1>3. /\ x.rule \in RuleIds /\ x.sid \in Nat /\ x = [sid |-> x.sid, rule |-> x.rule]
      /\ x.sid < next_index /\ \A k \in Keys : ~InEntry(k, x.sid)
  BY <1>1 DEF DomainInv, Numbered
<1>4. /\ expander'.pc \in {"wait", "reap"}
      /\ expander'.pc = "reap" => expander'.ids = expander.ids \ {x}
      /\ expander'.pc = "wait" => expander.ids = {x}
  BY <1>1, <1>2 DEF Waiting
<1>5. /\ driver' \subseteq driver
      /\ \A s \in driver : s.sid # x.sid => s \in driver'
      /\ \A s \in driver' : s.sid = x.sid => Excused(x.rule)'
  BY <1>2, <1>3 DEF Removed, Blame, Excused, DomainInv, DomainType
<1>6. /\ \A r \in RuleIds : raced[r] \subseteq raced'[r]
      /\ Reloading => Excused(x.rule)'
  BY SMTT(30), <1>2, <1>3 DEF Blame, Excused, DomainInv, DomainType
<1>7. \A r \in RuleIds : Excused(r) => Excused(r)'
  BY <1>6 DEF Excused
<1>8. \A k \in Keys : \A i : InEntry(k, i)' <=> InEntry(k, i)
  BY <1>1 DEF InEntry
<1>9. ASSUME NEW i, NEW r, Expires(i, r)
      PROVE  Expires(i, r)' \/ (i = x.sid /\ r = x.rule)
  BY <1>1, <1>3, <1>4, <1>9 DEF Expires
<1>10. Numbered'
  BY <1>1, <1>4, <1>5, <1>8 DEF DomainInv, Numbered, SendsNow, Resending
<1>11. Pending'
  BY <1>4 DEF Pending, SendsNow
<1>12. Resync'
  <2>1. Resending => \A y \in request.todo : InEntry(y.key, y.sid)' \/ Expires(y.sid, y.key[1])' \/ Excused(y.key[1])'
    <3> SUFFICES ASSUME Resending, NEW y \in request.todo
                 PROVE  InEntry(y.key, y.sid)' \/ Expires(y.sid, y.key[1])' \/ Excused(y.key[1])'
      OBVIOUS
    <3>1. InEntry(y.key, y.sid) \/ Expires(y.sid, y.key[1]) \/ Excused(y.key[1])
      BY DEF DomainInv, Resync
    <3>2. y.key \in Keys /\ y.key[1] \in RuleIds
      BY Typed
    <3>3. Reloading
      BY DEF Resending, Reloading
    <3> QED
      BY <1>6, <1>7, <1>8, <1>9, <3>1, <3>2, <3>3
  <2> QED
    BY <1>1, <1>5, <1>7, <2>1, Typed DEF DomainInv, Resync, Resending, Reloading
<1>13. DriverKnown'
  <2> SUFFICES ASSUME NEW s \in driver'
               PROVE  InLedger(s)' \/ Excused(Source(s))' \/ Expires(s.sid, Source(s))' \/ Withdraws(s.sid, Source(s))'
    BY DEF DriverKnown
  <2>1. s \in driver /\ Source(s) \in RuleIds
    BY <1>5, Typed
  <2>2. InLedger(s) \/ Excused(Source(s)) \/ Expires(s.sid, Source(s)) \/ Withdraws(s.sid, Source(s))
    BY <2>1 DEF DomainInv, DriverKnown
  <2>3. Expires(s.sid, Source(s)) => Expires(s.sid, Source(s))' \/ Excused(Source(s))'
    BY <1>5, <1>9
  <2> QED
    BY <1>1, <1>7, <2>1, <2>2, <2>3 DEF InLedger, Withdraws
<1>14. LedgerSent'
  <2>1. \A k \in Keys : entries[k] # None /\ DriverHas(entries[k].sid) => DriverHas(entries[k].sid)'
    BY <1>1, <1>3, <1>5 DEF DriverHas, InEntry
  <2> QED
    BY <1>1, <1>4, <1>7, <2>1, Typed DEF DomainInv, LedgerSent, SendsNow, Resending
<1>15. Current'
  <2>1. \A r \in RuleIds : \A v : OfNow(r, v) => OfNow(r, v)'
    BY <1>1, <1>6 DEF OfNow
  <2> SUFFICES ASSUME NEW s \in driver'
               PROVE  OfNow(Source(s), s.version)' \/ Expires(s.sid, Source(s))' \/ Withdraws(s.sid, Source(s))'
    BY <1>1, <1>4 DEF DomainInv, Current, SendsNow
  <2>2. s \in driver /\ Source(s) \in RuleIds
    BY <1>5, Typed
  <2>3. OfNow(Source(s), s.version) \/ Expires(s.sid, Source(s)) \/ Withdraws(s.sid, Source(s))
    BY <2>2 DEF DomainInv, Current
  <2>4. Expires(s.sid, Source(s)) => Expires(s.sid, Source(s))' \/ Excused(Source(s))'
    BY <1>5, <1>9
  <2>5. Excused(Source(s))' => OfNow(Source(s), s.version)'
    BY DEF Excused, OfNow
  <2> QED
    BY <1>1, <2>1, <2>2, <2>3, <2>4, <2>5 DEF Withdraws
<1> QED
  BY <1>10, <1>11, <1>12, <1>13, <1>14, <1>15 DEF Known

-----------------------------------------------------------------------------
(* Requests. *)

(* What the expander has listed and is sending is of the rows as they are,
   after a step that leaves the expander alone and no row out of date. *)
LEMMA ListedFrame ==
  ASSUME DomainInv, UNCHANGED expander, \A q \in RuleIds : \A v : OfNow(q, v) => OfNow(q, v)'
  PROVE  /\ SendsNow => OfNow(Source(expander.shadow), expander.shadow.version)'
         /\ expander.pc = "rules" \/ SendsNow => \A x \in expander.todo : OfNow(x.id, x.version)'
<1>1. SendsNow => OfNow(Source(expander.shadow), expander.shadow.version)'
  <2> SUFFICES ASSUME SendsNow PROVE OfNow(Source(expander.shadow), expander.shadow.version)'
    OBVIOUS
  <2>1. PICK q, v : q \in RuleIds /\ q = Source(expander.shadow) /\ v = expander.shadow.version
    BY Typed
  <2>2. Source(expander.shadow)' = q /\ expander'.shadow.version = v
    BY <2>1 DEF Source
  <2>3. OfNow(q, v)'
    BY <2>1 DEF DomainInv, Current
  <2> QED
    BY <2>2, <2>3 DEF OfNow
<1>2. expander.pc = "rules" \/ SendsNow => \A x \in expander.todo : x.id \in RuleIds
  BY ExpanderShape DEF DomainInv, Items, SendsNow
<1>3. expander.pc = "rules" \/ SendsNow => \A x \in expander.todo : OfNow(x.id, x.version)'
  BY <1>2 DEF DomainInv, Current
<1> QED
  BY <1>1, <1>3

(* A step that changes the table and the request only, when no reload is at
   work before or after it. *)
LEMMA TableFrame ==
  ASSUME DomainInv, UNCHANGED <<driver, entries, next_index, expander, raced>>,
         request.pc = "idle", request'.pc \in {"idle", "revoke"}
  PROVE  Numbered' /\ Pending' /\ Resync' /\ DriverKnown' /\ LedgerSent'
<1>1. Numbered'
  BY DEF DomainInv, Numbered, SendsNow, Resending, InEntry
<1>2. Pending'
  BY ExpanderShape DEF DomainInv, Pending, SendsNow, Excused, Reloading, InLedger, DriverHas, Source
<1>3. Resync'
  BY DEF Resync, Resending, Reloading
<1>4. DriverKnown'
  BY DEF DomainInv, DriverKnown, Excused, Expires, Withdraws, InLedger
<1>5. LedgerSent'
  BY DEF DomainInv, LedgerSent, DriverHas, Excused, SendsNow, Resending
<1> QED
  BY <1>1, <1>2, <1>3, <1>4, <1>5

LEMMA ChangeKeeps ==
  ASSUME DomainInv, NEW r \in RuleIds, NEW row, Change(r, row)
  PROVE  Known'
<1>1. /\ request.pc = "idle" /\ request'.pc = "revoke" /\ request'.rule = r
      /\ UNCHANGED <<driver, entries, next_index, expander, raced>>
      /\ \A q \in RuleIds : q # r => rules'[q] = rules[q]
  BY RequestShape DEF Change, Begin, DomainInv, DomainType, Table
<1>2. \A q \in RuleIds : \A v : OfNow(q, v) => OfNow(q, v)'
  BY <1>1 DEF OfNow
<1>3. Current'
  <2>1. \A s \in driver : \/ OfNow(Source(s), s.version)' \/ Expires(s.sid, Source(s))'
    BY <1>1, <1>2, Typed DEF DomainInv, Current, Expires, Withdraws
  <2> QED
    BY <1>1, <1>2, <2>1, ListedFrame DEF Current, SendsNow
<1> QED
  BY <1>1, <1>3, TableFrame DEF Known

(* Nothing was made from a disabled row that is not excused. *)
LEMMA EnableKeeps ==
  ASSUME DomainInv, NEW r \in RuleIds, enable_rule(r)
  PROVE  Known'
<1>1. /\ request.pc = "idle" /\ request'.pc = "idle"
      /\ UNCHANGED <<driver, entries, next_index, expander, raced>>
      /\ \A q \in RuleIds : q # r => rules'[q] = rules[q]
      /\ ~rules[r].enabled
  BY RequestShape DEF enable_rule, Begin, DomainInv, DomainType, Table
<1>2. \A q \in RuleIds : \A v : OfNow(q, v) => OfNow(q, v)'
  BY <1>1 DEF OfNow
<1>3. Current'
  <2>1. \A s \in driver : \/ OfNow(Source(s), s.version)' \/ Expires(s.sid, Source(s))'
    BY <1>1, <1>2, Typed DEF DomainInv, Current, Expires, Withdraws
  <2> QED
    BY <1>1, <1>2, <2>1, ListedFrame DEF Current, SendsNow
<1> QED
  BY <1>1, <1>3, TableFrame DEF Known

(* The entries of the rule leave the ledger for the request's list. *)
LEMMA RevokeKeeps ==
  ASSUME DomainInv, revoke_rule
  PROVE  Known'
<1>1. PICK r \in RuleIds : r = request.rule
  BY RequestShape DEF revoke_rule, DomainInv
<1>2. /\ request.pc = "revoke" /\ request'.pc = "remove" /\ request'.rule = r
      /\ request'.ids = {entries[k].sid : k \in Entered(r)}
      /\ UNCHANGED <<rules, driver, next_index, expander>>
  BY <1>1 DEF revoke_rule, bounds
<1>3. \A k \in Keys : entries'[k] = IF k \in Entered(r) THEN None ELSE entries[k]
  BY <1>1 DEF revoke_rule
<1>4. \A k : k \in Entered(r) <=> k \in Keys /\ k[1] = r /\ entries[k] # None
  BY DEF Entered
<1>5. raced' = [raced EXCEPT ![r] = @ \cup (IF Sending(r) THEN {"sending"} ELSE {})
                                       \cup (IF Listed(r) THEN {"listed"} ELSE {})]
  BY <1>1 DEF revoke_rule
<1>6. /\ \A q \in RuleIds : raced[q] \subseteq raced'[q]
      /\ Sending(r) => "sending" \in raced'[r]
      /\ Listed(r) => "listed" \in raced'[r]
  BY <1>5 DEF DomainInv, DomainType
<1>7. \A q \in RuleIds : Excused(q) => Excused(q)'
  BY <1>6 DEF Excused
<1>8. Numbered'
  <2>1. \A i \in request'.ids : i < next_index /\ \A k \in Keys : ~InEntry(k, i)'
    <3> TAKE i \in request'.ids
    <3>1. PICK l \in Entered(r) : i = entries[l].sid /\ l \in Keys /\ entries[l] # None
      BY <1>2, <1>4
    <3>2. i < next_index
      BY <3>1 DEF DomainInv, Numbered
    <3>3. \A k \in Keys : entries[k] # None /\ entries[k].sid = i => k = l
      BY <3>1 DEF DomainInv, Numbered
    <3>4. \A k \in Keys : ~InEntry(k, i)'
      BY <1>3, <3>1, <3>3 DEF InEntry
    <3> QED
      BY <3>2, <3>4
  <2>2. \A k \in Keys : entries'[k] # None => entries'[k] = entries[k]
    BY <1>3
  <2>3. \A k \in Keys : \A i : InEntry(k, i)' => InEntry(k, i)
    BY <2>2 DEF InEntry
  <2> QED
    BY <1>2, <2>1, <2>2, <2>3 DEF DomainInv, Numbered, SendsNow, Resending
<1>9. Pending'
  <2> SUFFICES ASSUME SendsNow PROVE Pending'
    BY <1>2 DEF Pending, SendsNow
  <2>1. expander'.shadow = expander.shadow /\ ~Reloading'
    BY <1>2 DEF Reloading
  <2>2. PICK q \in RuleIds : q = Source(expander.shadow)
    BY Typed
  <2>3. Excused(q)' => Pending'
    BY <2>1, <2>2 DEF Pending, Source, Excused
  <2>4. CASE q = r
    <3>1. Sending(r)
      BY <2>2, <2>4 DEF Sending, SendsNow
    <3> QED
      BY <1>6, <2>3, <2>4, <3>1 DEF Excused
  <2>5. CASE q # r
    <3>1. expander.shadow.key \notin Entered(r) /\ expander.shadow.key \in Keys
      BY <1>4, <2>2, <2>5, Typed DEF Source
    <3>2. InLedger(expander.shadow) => InLedger(expander.shadow)'
      BY <1>2, <1>3, <3>1 DEF InLedger
    <3>3. DriverHas(expander.shadow.sid)' => DriverHas(expander.shadow.sid)
      BY <1>2 DEF DriverHas
    <3>4. Excused(q) \/ (InLedger(expander.shadow) /\ ~DriverHas(expander.shadow.sid))
      BY <2>2 DEF DomainInv, Pending
    <3> QED
      BY <1>7, <2>1, <2>3, <3>2, <3>3, <3>4 DEF Pending
  <2> QED
    BY <2>4, <2>5
<1>10. Resync'
  BY <1>2 DEF Resync, Resending, Reloading
<1>11. DriverKnown'
  <2>1. ASSUME NEW s \in driver, InLedger(s)
        PROVE  InLedger(s)' \/ Withdraws(s.sid, Source(s))'
    <3>1. CASE s.key \in Entered(r)
      BY <1>2, <1>4, <2>1, <3>1 DEF InLedger, Withdraws, Source
    <3>2. CASE s.key \notin Entered(r)
      BY <1>3, <2>1, <3>2, Typed DEF InLedger
    <3> QED
      BY <3>1, <3>2
  <2> QED
    BY <1>2, <1>7, <2>1, Typed DEF DomainInv, DriverKnown, Expires, Withdraws
<1>12. LedgerSent'
  BY <1>2, <1>3, <1>7, Typed DEF DomainInv, LedgerSent, DriverHas, SendsNow, Resending
<1>13. Current'
  <2>1. ASSUME NEW s \in driver
        PROVE  OfNow(Source(s), s.version)' \/ Expires(s.sid, Source(s))' \/ Withdraws(s.sid, Source(s))'
    <3>0. Source(s) \in RuleIds /\ s.key \in Keys
      BY Typed
    <3>1. CASE Source(s) # r
      <4>1. OfNow(Source(s), s.version) \/ Expires(s.sid, Source(s))
        BY <1>2 DEF DomainInv, Current, Withdraws
      <4>2. OfNow(Source(s), s.version) => OfNow(Source(s), s.version)'
        BY <1>1, <1>2, <1>6, <3>0, <3>1 DEF OfNow
      <4> QED
        BY <1>2, <4>1, <4>2 DEF Expires
    <3>2. CASE Source(s) = r
      <4>1. Excused(r)' => OfNow(Source(s), s.version)'
        BY <3>2 DEF Excused, OfNow
      <4>2. InLedger(s) => Withdraws(s.sid, Source(s))'
        BY <1>2, <1>4, <3>0, <3>2 DEF InLedger, Withdraws, Source
      <4>3. InLedger(s) \/ Excused(r) \/ Expires(s.sid, Source(s))
        BY <1>2, <3>2 DEF DomainInv, DriverKnown, Withdraws
      <4>4. Expires(s.sid, Source(s)) => Expires(s.sid, Source(s))'
        BY <1>2 DEF Expires
      <4> QED
        BY <1>7, <4>1, <4>2, <4>3, <4>4
    <3> QED
      BY <3>1, <3>2
  <2>2. SendsNow => OfNow(Source(expander.shadow), expander.shadow.version)'
    <3> SUFFICES ASSUME SendsNow PROVE OfNow(Source(expander.shadow), expander.shadow.version)'
      OBVIOUS
    <3>1. PICK q, v : q \in RuleIds /\ q = Source(expander.shadow) /\ v = expander.shadow.version
      BY Typed
    <3>2. Source(expander.shadow)' = q /\ expander'.shadow.version = v
      BY <1>2, <3>1 DEF Source
    <3>3. OfNow(q, v)
      BY <3>1 DEF DomainInv, Current
    <3>4. q = r => Sending(r)
      BY <3>1 DEF Sending, SendsNow
    <3>5. OfNow(q, v)'
      BY <1>1, <1>2, <1>6, <3>1, <3>3, <3>4 DEF OfNow
    <3> QED
      BY <3>2, <3>5 DEF OfNow
  <2>3. ASSUME expander.pc = "rules" \/ SendsNow, NEW x \in expander.todo
        PROVE  OfNow(x.id, x.version)'
    <3>1. x.id \in RuleIds
      BY <2>3, ExpanderShape DEF DomainInv, Items
    <3>2. OfNow(x.id, x.version)
      BY <2>3 DEF DomainInv, Current
    <3>3. CASE x.id = r /\ rules[r] # [enabled |-> TRUE, version |-> x.version]
      <4>1. Listed(r)
        BY <2>3, <3>3 DEF Listed, SendsNow
      <4> QED
        BY <1>6, <3>3, <4>1 DEF OfNow
    <3>4. CASE ~(x.id = r /\ rules[r] # [enabled |-> TRUE, version |-> x.version])
      BY <1>1, <1>2, <1>6, <3>1, <3>2, <3>4 DEF OfNow
    <3> QED
      BY <3>3, <3>4
  <2> QED
    BY <1>2, <2>1, <2>2, <2>3 DEF Current, SendsNow
<1> QED
  BY <1>8, <1>9, <1>10, <1>11, <1>12, <1>13 DEF Known

(* The driver gives a withdrawn shadow back, or does not. *)
LEMMA RemoveRevokedKeeps ==
  ASSUME DomainInv, RemoveRevoked
  PROVE  Known'
<1>1. /\ request \in [pc : {"remove"}, rule : RuleIds, ids : SUBSET Nat] /\ request.pc = "remove"
      /\ UNCHANGED <<rules, entries, next_index, expander>>
  BY RequestShape DEF RemoveRevoked, DomainInv
<1>2. PICK r \in RuleIds : r = request.rule
  BY <1>1
(* What both cases keep. *)
<1>3. ASSUME driver' \subseteq driver, ~Reloading', ~Resending',
             \A q \in RuleIds : raced[q] \subseteq raced'[q],
             \A k \in Keys : entries[k] # None /\ DriverHas(entries[k].sid) => DriverHas(entries[k].sid)',
             request'.pc = "remove" => request'.ids \subseteq request.ids,
             \A s \in driver' : Withdraws(s.sid, r) => Withdraws(s.sid, r)' \/ Excused(r)',
             request'.pc \in {"idle", "remove"}
      PROVE  Known'
  <2>1. \A q \in RuleIds : Excused(q) => Excused(q)'
    BY <1>3 DEF Excused
  <2>2. Numbered'
    <3>1. \A s \in driver' : s.sid < next_index
      BY <1>3 DEF DomainInv, Numbered
    <3>2. request'.pc = "remove" => \A i \in request'.ids : i < next_index /\ \A k \in Keys : ~InEntry(k, i)
      BY <1>1, <1>3 DEF DomainInv, Numbered
    <3> QED
      BY <1>1, <1>3, <3>1, <3>2 DEF DomainInv, Numbered, SendsNow, InEntry
  <2>3. Pending'
    <3> SUFFICES ASSUME SendsNow PROVE Pending'
      BY <1>1 DEF Pending, SendsNow
    <3>1. PICK q \in RuleIds : q = Source(expander.shadow)
      BY Typed
    <3>2. Excused(q) \/ (InLedger(expander.shadow) /\ ~DriverHas(expander.shadow.sid))
      BY <3>1 DEF DomainInv, Pending
    <3>3. Excused(q)' => Pending'
      BY <1>1, <3>1 DEF Pending, Source, Excused
    <3>4. InLedger(expander.shadow) => InLedger(expander.shadow)'
      BY <1>1 DEF InLedger
    <3>5. DriverHas(expander.shadow.sid)' => DriverHas(expander.shadow.sid)
      BY <1>1, <1>3 DEF DriverHas
    <3> QED
      BY <1>3, <2>1, <3>2, <3>3, <3>4, <3>5 DEF Pending
  <2>4. Resync'
    BY <1>3 DEF Resync
  <2>5. DriverKnown'
    <3> SUFFICES ASSUME NEW s \in driver'
                 PROVE  InLedger(s)' \/ Excused(Source(s))' \/ Expires(s.sid, Source(s))' \/ Withdraws(s.sid, Source(s))'
      BY DEF DriverKnown
    <3>1. s \in driver /\ Source(s) \in RuleIds
      BY <1>3, Typed
    <3>2. InLedger(s) \/ Excused(Source(s)) \/ Expires(s.sid, Source(s)) \/ Withdraws(s.sid, Source(s))
      BY <3>1 DEF DomainInv, DriverKnown
    <3>3. Withdraws(s.sid, Source(s)) => Source(s) = r
      BY <1>2 DEF Withdraws
    <3>4. Withdraws(s.sid, Source(s)) => Withdraws(s.sid, Source(s))' \/ Excused(Source(s))'
      BY <1>3, <3>3
    <3> QED
      BY <1>1, <2>1, <3>1, <3>2, <3>4 DEF InLedger, Expires
  <2>6. LedgerSent'
    BY <1>1, <1>3, <2>1, Typed DEF DomainInv, LedgerSent, SendsNow, Resending
  <2>7. Current'
    <3>1. \A q \in RuleIds : \A v : OfNow(q, v) => OfNow(q, v)'
      BY <1>1, <1>3 DEF OfNow
    <3>2. ASSUME NEW s \in driver'
          PROVE  OfNow(Source(s), s.version)' \/ Expires(s.sid, Source(s))' \/ Withdraws(s.sid, Source(s))'
      <4>1. s \in driver /\ Source(s) \in RuleIds
        BY <1>3, Typed
      <4>2. OfNow(Source(s), s.version) \/ Expires(s.sid, Source(s)) \/ Withdraws(s.sid, Source(s))
        BY <4>1 DEF DomainInv, Current
      <4>3. Withdraws(s.sid, Source(s)) => Source(s) = r
        BY <1>2 DEF Withdraws
      <4>4. Withdraws(s.sid, Source(s)) => Withdraws(s.sid, Source(s))' \/ Excused(Source(s))'
        BY <1>3, <3>2, <4>3
      <4>5. Excused(Source(s))' => OfNow(Source(s), s.version)'
        BY DEF Excused, OfNow
      <4>6. OfNow(Source(s), s.version) => OfNow(Source(s), s.version)'
        BY <3>1, <4>1
      <4> QED
        BY <1>1, <4>2, <4>4, <4>5, <4>6 DEF Expires
    <3> QED
      BY <1>1, <1>3, <3>1, <3>2, ListedFrame DEF Current, SendsNow
  <2> QED
    BY <2>2, <2>3, <2>4, <2>5, <2>6, <2>7 DEF Known
<1>4. CASE request.ids = {} /\ request' = Idle /\ UNCHANGED <<driver, faults, raced>>
  <2>1. request'.pc = "idle"
    BY <1>4 DEF Idle
  <2>2. ~Reloading' /\ ~Resending'
    BY <2>1 DEF Reloading, Resending
  <2>3. \A s \in driver' : ~Withdraws(s.sid, r)
    BY <1>4 DEF Withdraws
  <2>4. \A k \in Keys : entries[k] # None /\ DriverHas(entries[k].sid) => DriverHas(entries[k].sid)'
    BY <1>1, <1>4 DEF DriverHas
  <2> QED
    BY <1>3, <1>4, <2>1, <2>2, <2>3, <2>4
<1>5. ASSUME NEW sid \in request.ids,
             request' = [request EXCEPT !.ids = @ \ {sid}],
             \/ Removed(sid) /\ UNCHANGED raced
             \/ Blame({request.rule}, "failed") /\ UNCHANGED driver
      PROVE  Known'
  <2>1. request'.pc = "remove" /\ request'.ids = request.ids \ {sid} /\ request'.rule = r
    BY <1>1, <1>2, <1>5
  <2>2. ~Reloading' /\ ~Resending'
    BY <2>1 DEF Reloading, Resending
  <2>3. /\ driver' \subseteq driver
        /\ \A s \in driver : s.sid # sid => s \in driver'
        /\ \A s \in driver' : s.sid = sid => Excused(r)'
        /\ \A q \in RuleIds : raced[q] \subseteq raced'[q]
    BY <1>2, <1>5 DEF Removed, Blame, Excused, DomainInv, DomainType
  <2>4. \A k \in Keys : ~InEntry(k, sid)
    BY <1>1, <1>5 DEF DomainInv, Numbered
  <2>5. \A k \in Keys : entries[k] # None /\ DriverHas(entries[k].sid) => DriverHas(entries[k].sid)'
    BY <1>1, <2>3, <2>4 DEF DriverHas, InEntry
  <2>6. \A s \in driver' : Withdraws(s.sid, r) => Withdraws(s.sid, r)' \/ Excused(r)'
    BY <1>1, <2>1, <2>3 DEF Withdraws
  <2> QED
    BY <1>3, <2>1, <2>2, <2>3, <2>5, <2>6
<1> QED
  BY <1>4, <1>5 DEF RemoveRevoked

(* The driver is cleared; the shadow that is being sent will not be resent. *)
LEMMA ReloadKeeps ==
  ASSUME DomainInv, reload_rules_to_driver
  PROVE  Known'
<1>1. /\ request.pc = "idle" /\ request'.pc = "snapshot" /\ driver' = {}
      /\ UNCHANGED <<rules, entries, next_index, expander>>
  BY RequestShape DEF reload_rules_to_driver, Begin, DomainInv
<1>2. /\ \A q \in RuleIds : raced[q] \subseteq raced'[q]
      /\ \A q \in RuleIds : Sending(q) => "reload" \in raced'[q]
  BY DEF reload_rules_to_driver
<1>3. Numbered'
  BY <1>1 DEF DomainInv, Numbered, SendsNow, Resending, InEntry
<1>4. Pending'
  <2> SUFFICES ASSUME SendsNow PROVE Pending'
    BY <1>1 DEF Pending, SendsNow
  <2>1. PICK q \in RuleIds : q = Source(expander.shadow)
    BY Typed
  <2>2. Sending(q)
    BY <2>1 DEF Sending, SendsNow
  <2>3. Source(expander.shadow)' = q
    BY <1>1, <2>1 DEF Source
  <2> QED
    BY <1>2, <2>2, <2>3 DEF Pending, Excused
<1>5. Resync' /\ DriverKnown'
  BY <1>1 DEF Resync, Resending, DriverKnown
<1>6. LedgerSent'
  BY <1>1 DEF LedgerSent
<1>7. Current'
  <2>1. \A q \in RuleIds : \A v : OfNow(q, v) => OfNow(q, v)'
    BY <1>1, <1>2 DEF OfNow
  <2> QED
    BY <1>1, <2>1, ListedFrame DEF Current, SendsNow
<1> QED
  BY <1>3, <1>4, <1>5, <1>6, <1>7 DEF Known

(* A step of a resync that leaves the table, the ledger and the expander: what
   has to be shown of it. *)
LEMMA ResyncFrame ==
  ASSUME DomainInv, Reloading, UNCHANGED <<rules, entries, next_index, expander>>,
         request'.pc \in {"idle", "list", "readd", "drop"},
         \A q \in RuleIds : raced[q] \subseteq raced'[q],
         driver \subseteq driver',
         \A s \in driver' \ driver :
           /\ s.sid < next_index /\ OfNow(Source(s), s.version)'
           /\ InLedger(s)' \/ Excused(Source(s))' \/ Expires(s.sid, Source(s))',
         request'.pc # "idle" => \A x \in request'.todo : x.sid < next_index,
         Resync', LedgerSent',
         request'.pc \in {"readd", "drop"} => request'.listed = rules
  PROVE  Known'
<1>1. \A q \in RuleIds : Excused(q) => Excused(q)'
  BY DEF Excused
<1>2. \A q \in RuleIds : \A v : OfNow(q, v) => OfNow(q, v)'
  BY DEF OfNow, Reloading
<1>3. Numbered'
  BY DEF DomainInv, Numbered, SendsNow, Resending, InEntry
<1>4. Pending'
  <2> SUFFICES ASSUME SendsNow PROVE Pending'
    BY DEF Pending, SendsNow
  <2>1. PICK q \in RuleIds : q = Source(expander.shadow)
    BY Typed
  <2>2. Excused(q)
    BY <2>1 DEF DomainInv, Pending
  <2>3. Source(expander.shadow)' = q
    BY <2>1 DEF Source
  <2> QED
    BY <1>1, <2>2, <2>3 DEF Pending, Excused
<1>5. DriverKnown'
  <2>1. ASSUME NEW s \in driver
        PROVE  InLedger(s)' \/ Excused(Source(s))' \/ Expires(s.sid, Source(s))'
    BY <1>1, Typed DEF DomainInv, DriverKnown, Reloading, InLedger, Expires, Withdraws
  <2> QED
    BY <2>1 DEF DriverKnown
<1>6. Current'
  <2>1. ASSUME NEW s \in driver
        PROVE  OfNow(Source(s), s.version)' \/ Expires(s.sid, Source(s))'
    <3>1. OfNow(Source(s), s.version) \/ Expires(s.sid, Source(s))
      BY DEF DomainInv, Current, Reloading, Withdraws
    <3> QED
      BY <1>2, <3>1, Typed DEF Expires
  <2> QED
    BY <1>2, <2>1, ListedFrame DEF Current, SendsNow
<1> QED
  BY <1>3, <1>4, <1>5, <1>6 DEF Known

(* What the ledger has is to be sent again. *)
LEMMA SnapshotKeeps ==
  ASSUME DomainInv, TakeSnapshot
  PROVE  Known'
<1> DEFINE all == {[key |-> k, sid |-> entries[k].sid] : k \in {x \in Keys : entries[x] # None}}
<1>1. /\ request.pc = "snapshot" /\ UNCHANGED <<rules, driver, entries, next_index, expander, raced>>
      /\ \/ all = {} /\ request'.pc = "idle"
         \/ request'.pc = "list" /\ request'.todo = all
  BY DEF TakeSnapshot, bounds, Idle
<1>2. \A x \in all : x.key \in Keys /\ entries[x.key] # None /\ x.sid = entries[x.key].sid
                    /\ \A y \in all : x.key = y.key => x = y
  OBVIOUS
<1>3. \A k \in Keys : entries[k] # None => [key |-> k, sid |-> entries[k].sid] \in all
  OBVIOUS
<1> HIDE DEF all
<1>4. Reloading
  BY <1>1 DEF Reloading
<1>5. \A s \in driver : Excused(Source(s))'
  BY <1>1, <1>4 DEF DomainInv, Resync, Excused
<1>6. Resync'
  BY <1>1, <1>2, <1>5 DEF Resync, Resending, Reloading, InEntry
<1>7. LedgerSent'
  BY <1>1, <1>3 DEF LedgerSent, Resending
<1>8. request'.pc # "idle" => \A x \in request'.todo : x.sid < next_index
  BY <1>1, <1>2 DEF DomainInv, Numbered
<1> QED
  BY <1>1, <1>4, <1>6, <1>7, <1>8, ResyncFrame

(* The table is read; if it cannot be, nothing is sent. *)
LEMMA ListKeeps ==
  ASSUME DomainInv, ListForResync
  PROVE  Known'
<1>1. /\ request.pc = "list" /\ Reloading /\ Resending
      /\ UNCHANGED <<rules, driver, entries, next_index, expander>>
  BY DEF ListForResync, Reloading, Resending
<1>2. /\ \A q \in RuleIds : raced[q] \subseteq raced'[q]
      /\ \/ /\ request'.pc = "readd" /\ request'.todo = request.todo /\ request'.listed = rules
            /\ raced' = raced
         \/ /\ request'.pc = "idle" /\ \A x \in request.todo : Excused(x.key[1])'
  <2>1. CASE request' = [pc |-> "readd", todo |-> request.todo, listed |-> rules] /\ UNCHANGED raced
    BY <2>1
  <2>2. CASE request' = Idle /\ Blame({x.key[1] : x \in request.todo}, "failed")
    <3>1. \A q \in RuleIds : raced[q] \subseteq raced'[q]
      BY <2>2 DEF Blame
    <3>2. \A x \in request.todo : x.key[1] \in RuleIds
      BY <1>1, Typed
    <3>3. \A x \in request.todo : "failed" \in raced'[x.key[1]]
      BY <2>2, <3>2 DEF Blame
    <3> QED
      BY <2>2, <3>1, <3>3 DEF Excused, Idle
  <2> QED
    BY <2>1, <2>2 DEF ListForResync
<1>3. \A q \in RuleIds : Excused(q) => Excused(q)'
  BY <1>2 DEF Excused
<1>4. Resync'
  <2>1. \A s \in driver : Excused(Source(s))'
    BY <1>1, <1>3, Typed DEF DomainInv, Resync
  <2>2. \A x \in request.todo : \A y \in request.todo : x.key = y.key => x = y
    BY <1>1 DEF DomainInv, Resync
  <2>3. \A x \in request.todo : InEntry(x.key, x.sid)' \/ Expires(x.sid, x.key[1])' \/ Excused(x.key[1])'
    BY <1>1, <1>3, Typed DEF DomainInv, Resync, InEntry, Expires
  <2> QED
    BY <1>1, <1>2, <2>1, <2>2, <2>3 DEF Resync, Resending, Reloading
<1>5. LedgerSent'
  <2> SUFFICES ASSUME NEW k \in Keys, entries[k] # None
               PROVE  \/ DriverHas(entries[k].sid)' \/ Excused(k[1])'
                      \/ (SendsNow /\ expander.shadow.key = k /\ expander.shadow.sid = entries[k].sid)'
                      \/ (Resending /\ [key |-> k, sid |-> entries[k].sid] \in request.todo)'
    BY <1>1 DEF LedgerSent
  <2>1. \/ DriverHas(entries[k].sid) \/ Excused(k[1])
        \/ SendsNow /\ expander.shadow.key = k /\ expander.shadow.sid = entries[k].sid
        \/ [key |-> k, sid |-> entries[k].sid] \in request.todo
    BY <1>1 DEF DomainInv, LedgerSent
  <2> QED
    BY <1>1, <1>2, <1>3, <2>1, Typed DEF DriverHas, SendsNow, Resending
<1>6. request'.pc # "idle" => \A x \in request'.todo : x.sid < next_index
  BY <1>1, <1>2 DEF DomainInv, Numbered
<1> QED
  BY <1>1, <1>2, <1>4, <1>5, <1>6, ResyncFrame

(* The shadow of an entry is sent, or the entry is to go. *)
LEMMA ReaddKeeps ==
  ASSUME DomainInv, Readd
  PROVE  Known'
<1>1. /\ request \in [pc : {"readd"}, todo : Snapshots, listed : Table]
      /\ request.pc = "readd" /\ Reloading /\ Resending /\ request.listed = rules
      /\ UNCHANGED <<rules, entries, next_index, expander, raced>>
  BY RequestShape DEF Readd, Reloading, Resending, DomainInv, Current
<1>2. \A q : Excused(q)' <=> Excused(q)
  BY <1>1 DEF Excused
<1>3. \A x \in request.todo : x.sid < next_index
  BY <1>1 DEF DomainInv, Numbered
<1>4. CASE request.todo = {} /\ request' = Idle /\ UNCHANGED driver
  <2>1. request'.pc = "idle"
    BY <1>4 DEF Idle
  <2>2. Resync'
    BY <2>1 DEF Resync, Resending, Reloading
  <2>3. LedgerSent'
    BY <1>1, <1>2, <1>4 DEF DomainInv, LedgerSent, DriverHas, SendsNow, Resending
  <2> QED
    BY <1>1, <1>4, <2>1, <2>2, <2>3, ResyncFrame
<1>5. ASSUME NEW x \in request.todo, UNCHANGED driver,
             request' = [pc |-> "drop", todo |-> [request EXCEPT !.todo = @ \ {x}].todo,
                        listed |-> request.listed, key |-> x.key]
      PROVE  Known'
  <2>1. /\ request'.pc = "drop" /\ request'.todo = request.todo \ {x}
        /\ request'.listed = rules /\ request'.key = x.key
    BY <1>1, <1>5
  <2>2. Resync'
    BY <1>1, <1>2, <1>5, <2>1 DEF DomainInv, Resync, Resending, Reloading, InEntry, Expires
  <2>3. LedgerSent'
    <3> SUFFICES ASSUME NEW k \in Keys, entries[k] # None
                 PROVE  \/ DriverHas(entries[k].sid)' \/ Excused(k[1])'
                        \/ (SendsNow /\ expander.shadow.key = k /\ expander.shadow.sid = entries[k].sid)'
                        \/ (Resending /\ [key |-> k, sid |-> entries[k].sid] \in request.todo)'
                        \/ (request.pc = "drop" /\ request.key = k)'
      BY <1>1 DEF LedgerSent
    <3>1. \/ DriverHas(entries[k].sid) \/ Excused(k[1])
          \/ SendsNow /\ expander.shadow.key = k /\ expander.shadow.sid = entries[k].sid
          \/ [key |-> k, sid |-> entries[k].sid] \in request.todo
      BY <1>1 DEF DomainInv, LedgerSent
    <3> QED
      BY <1>1, <1>2, <1>5, <2>1, <3>1 DEF DriverHas, SendsNow, Resending
  <2>4. \A y \in request'.todo : y.sid < next_index
    BY <1>3, <2>1
  <2> QED
    BY <1>1, <1>5, <2>1, <2>2, <2>3, <2>4, ResyncFrame
<1>6. ASSUME NEW x \in request.todo,
             request' = [request EXCEPT !.todo = @ \ {x}],
             rules[x.key[1]] # None, rules[x.key[1]].enabled,
             Added(Shadow(x.sid, x.key, rules[x.key[1]].version))
      PROVE  Known'
  <2>1. request'.pc = "readd" /\ request'.todo = request.todo \ {x} /\ request'.listed = rules
    BY <1>1, <1>6
  <2>2. PICK r \in RuleIds : r = x.key[1]
    BY <1>1, Typed
  <2>3. PICK s : s = Shadow(x.sid, x.key, rules[r].version)
    OBVIOUS
  <2>4. s.sid = x.sid /\ s.key = x.key /\ s.version = rules[r].version /\ Source(s) = r /\ driver' = driver \cup {s}
    BY <1>6, <2>2, <2>3 DEF Shadow, Source, Added
  <2>5. rules[r] = [enabled |-> TRUE, version |-> rules[r].version]
    <3>1. rules[r] \in Row /\ rules[r].enabled = TRUE
      BY <1>6, <2>2 DEF DomainInv, DomainType, Table
    <3> QED
      BY <3>1 DEF Row
  <2>6. InLedger(s)' \/ Excused(Source(s))' \/ Expires(s.sid, Source(s))'
    <3>1. InEntry(x.key, x.sid) \/ Expires(x.sid, r) \/ Excused(r)
      BY <1>1, <2>2 DEF DomainInv, Resync
    <3> QED
      BY <1>1, <1>2, <2>4, <3>1 DEF InEntry, InLedger, Expires
  <2>7. OfNow(Source(s), s.version)'
    BY <1>1, <2>4, <2>5 DEF OfNow
  <2>8. Resync'
    <3>1. \A y \in request'.todo : y.key # x.key
      BY <1>1, <2>1 DEF DomainInv, Resync
    <3> QED
      BY <1>1, <1>2, <2>1, <2>4, <3>1 DEF DomainInv, Resync, Resending, Reloading, InEntry, Expires
  <2>9. LedgerSent'
    <3> SUFFICES ASSUME NEW k \in Keys, entries[k] # None
                 PROVE  \/ DriverHas(entries[k].sid)' \/ Excused(k[1])'
                        \/ (SendsNow /\ expander.shadow.key = k /\ expander.shadow.sid = entries[k].sid)'
                        \/ (Resending /\ [key |-> k, sid |-> entries[k].sid] \in request.todo)'
      BY <1>1 DEF LedgerSent
    <3>1. \/ DriverHas(entries[k].sid) \/ Excused(k[1])
          \/ SendsNow /\ expander.shadow.key = k /\ expander.shadow.sid = entries[k].sid
          \/ [key |-> k, sid |-> entries[k].sid] \in request.todo
      BY <1>1 DEF DomainInv, LedgerSent
    <3>2. x = [key |-> k, sid |-> entries[k].sid] => x.sid = entries[k].sid
      OBVIOUS
    <3> QED
      BY <1>1, <1>2, <2>1, <2>4, <3>1, <3>2 DEF DriverHas, SendsNow, Resending
  <2>10. \A y \in request'.todo : y.sid < next_index
    BY <1>3, <2>1
  <2>11. s.sid < next_index
    BY <1>3, <2>4
  <2> QED
    BY <1>1, <2>1, <2>4, <2>6, <2>7, <2>8, <2>9, <2>10, <2>11, ResyncFrame
<1> QED
  BY <1>1, <1>4, <1>5, <1>6 DEF Readd

(* The entry goes; the driver has no shadow of it that is not excused. *)
LEMMA DropKeeps ==
  ASSUME DomainInv, DropEntry
  PROVE  Known'
<1>1. /\ request.pc = "drop" /\ Reloading /\ Resending
      /\ request'.pc = "readd" /\ request'.todo = request.todo /\ request'.listed = request.listed
      /\ UNCHANGED <<rules, driver, next_index, expander, raced>>
  BY DEF DropEntry, Reloading, Resending, bounds
<1>2. PICK gone \in Keys : gone = request.key
  BY <1>1, RequestShape DEF DomainInv
<1>3. \A k \in Keys : entries'[k] = IF k = gone THEN None ELSE entries[k]
  BY <1>2 DEF DropEntry, DomainInv, DomainType
<1>4. \A r : Excused(r)' <=> Excused(r)
  BY <1>1 DEF Excused
<1>5. \A k \in Keys : \A i : InEntry(k, i)' <=> (InEntry(k, i) /\ k # gone)
  BY <1>3 DEF InEntry
<1>6. Reloading' /\ Resending'
  BY <1>1 DEF Reloading, Resending
<1>7. Numbered'
  BY <1>1, <1>3, <1>5 DEF DomainInv, Numbered, SendsNow, Resending
<1>8. Pending'
  <2> SUFFICES ASSUME SendsNow PROVE Pending'
    BY <1>1 DEF Pending, SendsNow
  <2>1. PICK q \in RuleIds : q = Source(expander.shadow)
    BY Typed
  <2>2. Excused(q)
    BY <1>1, <2>1 DEF DomainInv, Pending
  <2>3. Source(expander.shadow)' = q
    BY <1>1, <2>1 DEF Source
  <2> QED
    BY <1>4, <2>2, <2>3 DEF Pending, Excused
<1>9. Resync'
  <2>1. \A x \in request.todo : x.key # gone
    BY <1>1, <1>2 DEF DomainInv, Resync
  <2>2. \A x \in request.todo : InEntry(x.key, x.sid)' \/ Expires(x.sid, x.key[1])' \/ Excused(x.key[1])'
    BY <1>1, <1>4, <1>5, <2>1, Typed DEF DomainInv, Resync, Expires
  <2> QED
    BY <1>1, <1>4, <2>2 DEF DomainInv, Resync, Resending, Reloading
<1>10. DriverKnown'
  <2>1. \A s \in driver : s.key = gone => Excused(Source(s))
    BY <1>1, <1>2 DEF DomainInv, Resync
  <2>2. \A s \in driver : s.key # gone => (InLedger(s)' <=> InLedger(s))
    BY <1>3, Typed DEF InLedger
  <2> QED
    BY <1>1, <1>4, <2>1, <2>2 DEF DomainInv, DriverKnown, Expires, Withdraws
<1>11. LedgerSent'
  BY <1>1, <1>2, <1>3, <1>4 DEF DomainInv, LedgerSent, DriverHas, SendsNow, Resending
<1>12. Current'
  BY <1>1 DEF DomainInv, Current, OfNow, Expires, Withdraws, SendsNow
<1> QED
  BY <1>7, <1>8, <1>9, <1>10, <1>11, <1>12 DEF Known

-----------------------------------------------------------------------------
LEMMA NextInv == DomainInv /\ [DomainNext]_dvars => DomainInv'
<1> SUFFICES ASSUME DomainInv, [DomainNext]_dvars PROVE DomainInv'
  OBVIOUS
<1>1. DomainType'
  BY TypeKept DEF DomainInv
<1>2. Known'
  <2>1. CASE UNCHANGED dvars
    BY <2>1, LedgerFrame DEF dvars
  <2>2. CASE \E ip \in Ips, domain \in Domains, ttl \in Ttls : add_entry(ip, domain, ttl)
    BY <2>2, AnswerKeeps
  <2>3. CASE Tick
    BY <2>3, TickKeeps
  <2>4. CASE Expander
    BY <2>4, ReceiveKeeps, HitKeeps, AddKeeps, UndoKeeps, AnsweredKeeps, ReapKeeps, RemoveExpiredKeeps DEF Expander
  <2>5. CASE Request
    <3>1. ASSUME NEW r \in RuleIds, update_rule(r) \/ disable_rule(r) \/ delete_rule(r)
          PROVE  Known'
      BY <3>1, ChangeKeeps DEF update_rule, disable_rule, delete_rule
    <3> QED
      BY <2>5, <3>1, EnableKeeps, ReloadKeeps DEF Request
  <2>6. CASE Serve
    BY <2>6, RevokeKeeps, RemoveRevokedKeeps, SnapshotKeeps, ListKeeps, ReaddKeeps, DropKeeps DEF Serve
  <2> QED
    BY <2>1, <2>2, <2>3, <2>4, <2>5, <2>6 DEF DomainNext
<1> QED
  BY <1>1, <1>2 DEF Known, DomainInv

(* Every step of the expander, of a request and of time keeps each part of the
   invariant (DomainNext). *)
THEOREM DomainInvariant == DomainSpec => []DomainInv
BY InitInv, NextInv, PTL DEF DomainSpec

(* Between answers and requests the ledger and the driver have the same
   shadows, whatever was refreshed, expired, revoked and reloaded before, but
   for the exceptions the property names (on_dns_observation, reap,
   revoke_rule, resync_after_reload). *)
THEOREM LedgerAgrees == DomainSpec => []LedgerIsDriver
<1>1. DomainInv => LedgerIsDriver
  <2> SUFFICES ASSUME DomainInv, Quiet PROVE LedgerIsDriver
    BY DEF LedgerIsDriver
  <2>1. expander.pc = "wait" /\ request.pc = "idle"
    BY DEF Quiet, Waiting, Idle
  <2> QED
    BY <2>1 DEF DomainInv, DriverKnown, LedgerSent, LedgerIsDriver, Excused, Expires, Withdraws,
                DriverHas, SendsNow, Resending
<1> QED
  BY <1>1, DomainInvariant, PTL

(* A rule that was edited, disabled or deleted has no shadow of its old form,
   but for the exceptions the property names (revoke_rule). *)
THEOREM NoOldShadow == DomainSpec => []ShadowsCurrent
<1>1. DomainInv => ShadowsCurrent
  <2> SUFFICES ASSUME DomainInv, Quiet PROVE ShadowsCurrent
    BY DEF ShadowsCurrent
  <2>1. expander.pc = "wait" /\ request.pc = "idle"
    BY DEF Quiet, Waiting, Idle
  <2> QED
    BY <2>1 DEF DomainInv, Current, OfNow, ShadowsCurrent, Expires, Withdraws
<1> QED
  BY <1>1, DomainInvariant, PTL
=============================================================================
