------------------------- MODULE RuleManager_proofs -------------------------
(***************************************************************************)
(* The rule manager: what its table and its requests look like at every    *)
(* step, that a reload settles what is owed, that the driver holds the     *)
(* expansion of the table whenever nothing is owed, that one failed call   *)
(* costs no rule, and that a rule merged into another loses no connection. *)
(*                                                                         *)
(* Four inductive invariants, each resting on those before.  RequestsInv:  *)
(* the types, the ids in use, which requests are alone, and what an        *)
(* undisturbed reload has put together.  DriverFollows: while nothing is   *)
(* owed, the driver and the table agree about every rule but those that a  *)
(* request is at work on, whose step says what they lack.  RulesPresent:   *)
(* the same with failed calls, where the rule may be left behind but not   *)
(* left out.  CreateRight: what a creation has arrived at, at each of its  *)
(* steps; it rests on what the service concludes from two rules, which     *)
(* holds in the driver for any rules and connections and any widths of an  *)
(* address.                                                                *)
(***************************************************************************)
EXTENDS RuleManager, RuleCoverage, SequenceTheorems, TLAPS

Numbers == Nat \ {0}
(* The rules that requests carry and rows hold: a rule that was asked for, but for
   its action and whether it is enabled. *)
Stored == {r \in Rule : \E s \in Rules : same_effective_fields(r, s)}
Table == UNION {[S -> Stored] : S \in SUBSET Numbers}
Keyed(entries) == \A e \in entries : e.key[1] \in Numbers
Single(S) == \A x, y \in S : x = y

Fields == {"pc", "kind", "id", "rule", "old", "undo", "todo", "snapshot", "clean", "asked",
           "before", "batch", "victims"}

(* The rows a request may go back to, and none. *)
Backs == {<<>>} \cup {<<r>> : r \in Stored}

(* What a request carries, at each of its steps. *)
IsTask(x) ==
  /\ x = [f \in Fields |-> x[f]]
  /\ x.id \in Nat /\ x.rule \subseteq Stored /\ x.old \subseteq Stored
  /\ x.undo \subseteq Backs
  /\ Keyed(x.todo) /\ x.snapshot \in Table /\ x.clean \in BOOLEAN
  /\ x.batch \in Seq(Stored) /\ x.victims \subseteq Numbers

Reloading(x) == x.pc \in {"snapshot", "paths", "load"}
Deciding(x) == x.pc \in {"guard", "read", "write"}
Working(x) == x.pc \in {"add", "modify", "remove", "undo"}
Deleting(x) == x.kind \in {"delete", "uninstall", "replace"}

Same(r, s) == r.remote_domain = s.remote_domain /\ r.app_group_id = s.app_group_id

Carries(x) ==
  /\ Single(x.rule) /\ Single(x.old) /\ Single(x.undo)
  /\ Deciding(x) \/ Working(x) \/ x.undo # {} => x.id # 0
  /\ Deciding(x) => x.undo = {} /\ x.kind \in {"update", "delete", "uninstall", "replace", "enable", "disable"}
  /\ x.victims # {} => x.kind = "replace"
  /\ x.pc \in {"list", "insert"} => x.batch = <<>> /\ x.undo = {} /\ x.kind = "create"
  /\ Deleting(x) => x.undo = {}
  /\ x.pc = "write" /\ x.kind \in {"enable", "disable"} =>
       \A o \in x.old, r \in x.rule : Same(r, o) /\ r.enabled # o.enabled
  /\ x.kind = "start" => (x.pc = "clear" \/ Reloading(x)) /\ x.batch = <<>> /\ x.id = 0

ManagerType ==
  /\ db \in Table /\ nextId \in Numbers
  /\ Keyed(driver)
  /\ client = [c \in Clients |-> client[c]]
  /\ \A c \in Clients : IsTask(client[c]) /\ Carries(client[c])
  /\ broken \in BOOLEAN /\ raced \in BOOLEAN /\ requests \in Nat

(* Ids are given out once. *)
Given(x, n) == x.id < n /\ \A i \in x.victims : i < n
Numbered == (\A i \in Ids : i < nextId) /\ \A c \in Clients : Given(client[c], nextId)

(* A start has the service to itself, and so has a request that has met no other. *)
Alone ==
  \A c \in Clients :
    /\ c \in overlapped => UnderWay(c) /\ client[c].kind # "start"
    /\ UnderWay(c) /\ c \notin overlapped => \A d \in Clients : d # c => ~UnderWay(d)

(* A reload that is alone adds nothing the database does not ask for, and
   everything it asks for as long as no read has failed and nothing was skipped. *)
Rebuilt(x) ==
  /\ x.pc = "snapshot" => driver = {}
  /\ x.pc = "paths" => driver = {} /\ x.snapshot = db
  /\ x.pc = "load" => driver \cup x.todo \subseteq Expansion(db, members)
  /\ x.pc = "load" /\ x.clean => driver \cup x.todo = Expansion(db, members)
ReloadRight == \A c \in Clients : c \notin overlapped => Rebuilt(client[c])
Owed == \A c \in Clients : Reloading(client[c]) => broken

(* Requests that have a rule to themselves know its row. *)
OwnRow ==
  ~raced =>
    /\ \A c, d \in Clients : c # d /\ client[c].id # 0 => client[c].id # client[d].id
    /\ \A c \in Clients : At(c, "write") => client[c].old = Row(client[c].id)

RequestsInv == ManagerType /\ Numbered /\ Alone /\ Owed /\ ReloadRight /\ OwnRow
-----------------------------------------------------------------------------
(* Tables and rules. *)
LEMMA TableShape ==
  ASSUME NEW t \in Table
  PROVE  /\ DOMAIN t \subseteq Numbers
         /\ \A i \in DOMAIN t : t[i] \in Stored
         /\ t = [i \in DOMAIN t |-> t[i]]
  BY DEF Table

(* The table before the first row. *)
LEMMA EmptyTable == <<>> \in Table /\ DOMAIN <<>> = {}
<1>1. <<>> = [i \in {} |-> i]
  OBVIOUS
<1> QED
  BY <1>1 DEF Table

(* The fields that decide which connections a rule hits. *)
LEMMA EffectiveSame ==
  ASSUME NEW r, NEW s, NEW t,
         r.direction = s.direction, r.protocol = s.protocol, r.process_path = s.process_path,
         r.process_id = s.process_id, r.remote_addr = s.remote_addr,
         r.remote_domain = s.remote_domain, r.remote_port = s.remote_port,
         r.local_addr = s.local_addr, r.local_port = s.local_port,
         r.network_zone = s.network_zone, r.app_group_id = s.app_group_id
  PROVE  same_effective_fields(r, t) <=> same_effective_fields(s, t)
  BY DEF same_effective_fields, EffectiveFields

(* A rule that gets another action or is switched is the same in all else. *)
Altered(r, a, on) == [r EXCEPT !.action = a, !.enabled = on]

LEMMA Merging ==
  ASSUME NEW r \in Stored, NEW a \in {"Allow", "Block"}, NEW on \in BOOLEAN
  PROVE  LET n == Altered(r, a, on)
         IN
         /\ n \in Stored /\ n.enabled = on /\ n.action = a
         /\ n.direction = r.direction /\ n.protocol = r.protocol /\ n.process_path = r.process_path
         /\ n.process_id = r.process_id /\ n.remote_addr = r.remote_addr
         /\ n.remote_domain = r.remote_domain /\ n.remote_port = r.remote_port
         /\ n.local_addr = r.local_addr /\ n.local_port = r.local_port
         /\ n.network_zone = r.network_zone /\ n.app_group_id = r.app_group_id
<1> DEFINE n == Altered(r, a, on)
<1>1. n \in Rule /\ n.enabled = on /\ n.action = a
  BY DEF Stored, Rule, Altered
<1>2. /\ n.direction = r.direction /\ n.protocol = r.protocol /\ n.process_path = r.process_path
      /\ n.process_id = r.process_id /\ n.remote_addr = r.remote_addr
      /\ n.remote_domain = r.remote_domain /\ n.remote_port = r.remote_port
      /\ n.local_addr = r.local_addr /\ n.local_port = r.local_port
      /\ n.network_zone = r.network_zone /\ n.app_group_id = r.app_group_id
  BY DEF Stored, Rule, Altered
<1> HIDE DEF n
<1>3. PICK s \in Rules : same_effective_fields(r, s)
  BY DEF Stored
<1>4. same_effective_fields(n, s)
  BY <1>2, <1>3, EffectiveSame
<1>5. n \in Stored
  BY <1>1, <1>3, <1>4 DEF Stored
<1> QED
  BY <1>1, <1>2, <1>5 DEF n

LEMMA Switching ==
  ASSUME NEW r \in Stored, NEW on \in BOOLEAN
  PROVE  /\ [r EXCEPT !.enabled = on] \in Stored
         /\ [r EXCEPT !.enabled = on].enabled = on
         /\ Same([r EXCEPT !.enabled = on], r)
<1>1. PICK n : n = [r EXCEPT !.enabled = on]
  OBVIOUS
<1>2. n = [r EXCEPT !.action = r.action, !.enabled = on] /\ r.action \in {"Allow", "Block"}
  BY <1>1 DEF Stored, Rule
<1>3. PICK a \in {"Allow", "Block"} : a = r.action
  BY <1>2
<1> DEFINE k == Altered(r, a, on)
<1>4. k \in Stored /\ k.enabled = on /\ Same(k, r)
  <2>1. k \in Stored /\ k.enabled = on
    BY Merging
  <2>2. k.remote_domain = r.remote_domain /\ k.app_group_id = r.app_group_id
    BY Merging
  <2> QED
    BY <2>1, <2>2 DEF Same
<1>5. k = n
  BY <1>2, <1>3 DEF Altered
<1> QED
  BY <1>1, <1>4, <1>5

(* What the guards look at. *)
LEMMA RuleFields ==
  ASSUME NEW r \in Stored
  PROVE  r.enabled \in BOOLEAN /\ r.action \in {"Allow", "Block"}
  BY DEF Stored, Rule

(* What was asked for is stored. *)
LEMMA RulesStored == Rules \subseteq Stored
<1>1. \A r : same_effective_fields(r, r)
  BY DEF same_effective_fields
<1> QED
  BY <1>1, ManagerAssumption DEF Stored

(* Where no rule asked for has a domain, no rule has. *)
LEMMA StoredPlain ==
  ASSUME \A s \in Rules : s.remote_domain = {}, NEW r \in Stored
  PROVE  r.remote_domain = {}
<1>1. PICK s \in Rules : same_effective_fields(r, s)
  BY DEF Stored
<1>2. r["remote_domain"] = s["remote_domain"]
  BY <1>1 DEF same_effective_fields, EffectiveFields
<1> QED
  BY <1>2

LEMMA MergesShape ==
  ASSUME ManagerType, NEW rule \in Stored, NEW m \in Merges(rule)
  PROVE  m[1] \in Ids /\ m[2] \in Stored
<1>1. UserRules \subseteq Ids /\ \A i \in Ids : db[i] \in Stored
  BY TableShape DEF ManagerType, UserRules, Ids
<1>2. Duplicates(rule) \subseteq Ids /\ Narrower(rule) \subseteq Ids /\ Broader(rule) \subseteq Ids
  BY <1>1 DEF Duplicates, Narrower, Broader
<1>3. CASE m \in {<<id, [db[id] EXCEPT !.action = rule.action, !.enabled = rule.enabled]>> : id \in Duplicates(rule)}
  <2>1. PICK id \in Duplicates(rule) :
          m = <<id, [db[id] EXCEPT !.action = rule.action, !.enabled = rule.enabled]>>
    BY <1>3
  <2>2. id \in Ids /\ db[id] \in Stored
    BY <1>1, <1>2
  <2>3. rule.action \in {"Allow", "Block"} /\ rule.enabled \in BOOLEAN
    BY RuleFields
  <2> QED
    BY <2>1, <2>2, <2>3, Merging DEF Altered
<1>4. CASE m \in {<<id, rule>> : id \in Narrower(rule)}
  BY <1>2, <1>4
<1>5. CASE m \in {<<id, [db[id] EXCEPT !.enabled = rule.enabled]>> : id \in Broader(rule)}
  BY <1>1, <1>2, <1>5, Switching, RuleFields
<1> QED
  BY <1>3, <1>4, <1>5 DEF Merges

(* A client that asks for nothing. *)
LEMMA IdleTask ==
  /\ IsTask(Idle) /\ Carries(Idle)
  /\ Idle.pc = "idle" /\ Idle.kind = "none" /\ Idle.id = 0 /\ Idle.rule = {} /\ Idle.old = {}
  /\ Idle.undo = {} /\ Idle.todo = {} /\ Idle.clean = FALSE /\ Idle.batch = <<>>
  /\ Idle.victims = {} /\ Idle.snapshot = <<>>
<1>1. /\ Idle.pc = "idle" /\ Idle.kind = "none" /\ Idle.id = 0 /\ Idle.rule = {} /\ Idle.old = {}
      /\ Idle.undo = {} /\ Idle.todo = {} /\ Idle.clean = FALSE /\ Idle.batch = <<>>
      /\ Idle.victims = {} /\ Idle.snapshot = <<>>
  BY DEF Idle
<1>2. Idle = [f \in Fields |-> Idle[f]]
  BY DEF Idle, Fields
<1>3. IsTask(Idle)
  <2>1. <<>> \in Seq(Stored) /\ 0 \in Nat
    OBVIOUS
  <2> QED
    BY <1>1, <1>2, <2>1, EmptyTable DEF IsTask, Keyed
<1>4. Carries(Idle)
  BY <1>1 DEF Carries, Single, Deciding, Working, Deleting
<1> QED
  BY <1>1, <1>3, <1>4
-----------------------------------------------------------------------------
(* The entries of one rule. *)
Made(e, i, r, paths) ==
  /\ r.enabled /\ r.remote_domain = {}
  /\ \/ r.app_group_id = {} /\ e = DirectEntry(i, r)
     \/ \E g \in r.app_group_id : \E j \in DOMAIN paths[g] : e = MemberEntry(i, j, r, paths[g][j])
Of(entries, i) == {e \in entries : e.key[1] = i}

(* An entry says whose it is. *)
LEMMA EntryKeys ==
  ASSUME NEW i, NEW j, NEW r, NEW path
  PROVE  /\ DirectEntry(i, r).key = <<i>> /\ DirectEntry(i, r).key[1] = i
         /\ MemberEntry(i, j, r, path).key[1] = i
  BY DEF DirectEntry, MemberEntry

(* An entry of the expansion stands for a rule or for a member of its group. *)
LEMMA ExpansionIs ==
  ASSUME NEW rules \in Table, NEW paths, NEW e
  PROVE  e \in Expansion(rules, paths) <=> \E i \in DOMAIN rules : Made(e, i, rules[i], paths)
<1>1. ASSUME e \in Expansion(rules, paths)
      PROVE  \E i \in DOMAIN rules : Made(e, i, rules[i], paths)
  <2>1. CASE e \in {DirectEntry(id, rules[id]) : id \in {j \in DOMAIN rules : rules[j].enabled /\ Direct(rules[j])}}
    BY <2>1 DEF Made, Direct
  <2>2. CASE e \in UNION {UNION {{MemberEntry(id, i, rules[id], paths[g][i]) : i \in DOMAIN paths[g]} :
                                   g \in rules[id].app_group_id} :
                            id \in {j \in DOMAIN rules : rules[j].enabled /\ rules[j].remote_domain = {}}}
    <3>1. PICK id \in DOMAIN rules :
            /\ rules[id].enabled /\ rules[id].remote_domain = {}
            /\ e \in UNION {{MemberEntry(id, i, rules[id], paths[g][i]) : i \in DOMAIN paths[g]} :
                              g \in rules[id].app_group_id}
      BY <2>2
    <3>2. PICK g \in rules[id].app_group_id :
            e \in {MemberEntry(id, i, rules[id], paths[g][i]) : i \in DOMAIN paths[g]}
      BY <3>1
    <3> QED
      BY <3>1, <3>2 DEF Made
  <2> QED
    BY <1>1, <2>1, <2>2 DEF Expansion
<1>2. ASSUME NEW id \in DOMAIN rules, Made(e, id, rules[id], paths)
      PROVE  e \in Expansion(rules, paths)
  <2>1. CASE rules[id].app_group_id = {} /\ e = DirectEntry(id, rules[id])
    <3>1. e \in {DirectEntry(j, rules[j]) : j \in {i \in DOMAIN rules : rules[i].enabled /\ Direct(rules[i])}}
      BY <1>2, <2>1 DEF Made, Direct
    <3> QED
      BY <3>1 DEF Expansion
  <2>2. CASE \E g \in rules[id].app_group_id : \E j \in DOMAIN paths[g] : e = MemberEntry(id, j, rules[id], paths[g][j])
    <3>1. e \in UNION {{MemberEntry(id, i, rules[id], paths[g][i]) : i \in DOMAIN paths[g]} :
                         g \in rules[id].app_group_id}
      BY <2>2
    <3>2. id \in {j \in DOMAIN rules : rules[j].enabled /\ rules[j].remote_domain = {}}
      BY <1>2 DEF Made
    <3>3. e \in UNION {UNION {{MemberEntry(k, i, rules[k], paths[g][i]) : i \in DOMAIN paths[g]} :
                                g \in rules[k].app_group_id} :
                         k \in {j \in DOMAIN rules : rules[j].enabled /\ rules[j].remote_domain = {}}}
      BY <3>1, <3>2
    <3> QED
      BY <3>3 DEF Expansion
  <2> QED
    BY <1>2, <2>1, <2>2 DEF Made
<1> QED
  BY <1>1, <1>2

LEMMA MadeKey ==
  ASSUME NEW e, NEW i, NEW r, NEW paths, Made(e, i, r, paths)
  PROVE  e.key[1] = i
  BY EntryKeys DEF Made

(* A rule's entries depend on the rule and the members alone. *)
LEMMA OfExpansion ==
  ASSUME NEW rules \in Table, NEW paths, NEW i, NEW e
  PROVE  e \in Of(Expansion(rules, paths), i) <=> i \in DOMAIN rules /\ Made(e, i, rules[i], paths)
  BY ExpansionIs, MadeKey DEF Of

(* Every entry belongs to a rule. *)
LEMMA ExpansionKeyed ==
  ASSUME NEW rules \in Table, NEW paths
  PROVE  Keyed(Expansion(rules, paths))
  BY ExpansionIs, MadeKey, TableShape DEF Keyed
-----------------------------------------------------------------------------
(* One task moves on, and the row of its rule may change, or rows that are new. *)
RowKept(i) == (i \in DOMAIN db' <=> i \in Ids) /\ (i \in Ids => db'[i] = db[i])
Moved(c) == client' = [client EXCEPT ![c] = client'[c]] /\ IsTask(client'[c]) /\ Carries(client'[c])
Rests(x) == x.pc \in {"idle", "victim"} /\ x.kind # "start" /\ x.id = 0
Heals == broken /\ ~broken'

Effect(c) ==
  /\ Moved(c) /\ Given(client'[c], nextId')
  /\ db' \in Table /\ nextId' \in Numbers /\ nextId <= nextId' /\ \A i \in DOMAIN db' : i < nextId'
  /\ \A i \in Numbers : \/ RowKept(i) \/ i >= nextId
                        \/ (i = client[c].id /\ (Deciding(client[c]) \/ Working(client[c])))
  /\ Keyed(driver') /\ broken' \in BOOLEAN /\ requests' \in Nat
  /\ client'[c].pc = "write" => client'[c].old = Row(client'[c].id) /\ db' = db
  /\ Reloading(client'[c]) => broken'
  /\ Heals => c \notin overlapped /\ UnderWay(c) /\ Rests(client'[c])
  /\ client'[c].kind = "start" => client[c].kind = "start"
  /\ c \notin overlapped => Rebuilt(client[c])'
  /\ \/ UnderWay(c)
     \/ client'[c].pc # "idle" /\ \A d \in Clients : client[d].kind # "start"

(* A step of one request leaves the requests of others as they are. *)
LEMMA OthersStay ==
  ASSUME ManagerType, NEW c \in Clients, Moved(c)
  PROVE  /\ client' = [d \in Clients |-> client'[d]]
         /\ \A d \in Clients : d # c => client'[d] = client[d]
  BY DEF ManagerType, Moved

(* A request beside the one that moves is overlapped from now on, at the latest. *)
LEMMA OthersOverlap ==
  ASSUME RequestsInv, NEW c \in Clients, Effect(c), Observe,
         NEW d \in Clients, d # c, UnderWay(d)
  PROVE  d \in overlapped'
<1>1. client'[d] = client[d]
  BY OthersStay DEF RequestsInv, Effect
<1>2. client[d].kind # "start"
  <2>1. SUFFICES ASSUME client[d].kind = "start" PROVE FALSE
    OBVIOUS
  <2>2. ~UnderWay(c)
    BY <2>1 DEF RequestsInv, Alone
  <2> QED
    BY <2>1, <2>2 DEF Effect
<1>3. d \in overlapped \/ UnderWay(c)'
  <2>1. UnderWay(c) \/ UnderWay(c)'
    BY DEF Effect, UnderWay
  <2> QED
    BY <2>1 DEF RequestsInv, Alone
<1> QED
  BY <1>1, <1>2, <1>3 DEF Observe, UnderWay

(* A step with such an effect preserves the invariant. *)
LEMMA EffectKeeps ==
  ASSUME RequestsInv, NEW c \in Clients, Effect(c), Observe
  PROVE  RequestsInv'
<1>1. /\ client' = [d \in Clients |-> client'[d]]
      /\ \A d \in Clients : d # c => client'[d] = client[d]
  BY OthersStay DEF RequestsInv, Effect
<1>2. \A d \in Clients : d # c /\ UnderWay(d) => d \in overlapped'
  BY OthersOverlap
<1>3. Heals => \A d \in Clients : d # c => ~UnderWay(d)
  BY DEF Effect, RequestsInv, Alone
<1>4. ManagerType'
  <2>1. \A d \in Clients : IsTask(client'[d]) /\ Carries(client'[d])
    BY <1>1 DEF RequestsInv, ManagerType, Effect, Moved
  <2>2. raced' \in BOOLEAN
    BY Zenon DEF Observe
  <2>3. db' \in Table /\ nextId' \in Numbers /\ Keyed(driver') /\ broken' \in BOOLEAN /\ requests' \in Nat
    BY DEF Effect
  <2> QED
    BY <1>1, <2>1, <2>2, <2>3 DEF ManagerType, Keyed
<1>5. Numbered'
  <2>1. ASSUME NEW d \in Clients PROVE Given(client'[d], nextId')
    <3>1. CASE d = c
      BY <3>1 DEF Effect
    <3>2. CASE d # c
      <4>1. Given(client[d], nextId) /\ nextId <= nextId' /\ nextId \in Nat /\ nextId' \in Nat
        BY DEF RequestsInv, Numbered, Effect, ManagerType, Numbers
      <4>2. client[d].id \in Nat /\ \A i \in client[d].victims : i \in Nat
        BY DEF RequestsInv, ManagerType, IsTask, Numbers
      <4>3. client'[d] = client[d]
        BY <1>1, <3>2
      <4> QED
        BY <4>1, <4>2, <4>3 DEF Given
    <3> QED
      BY <3>1, <3>2
  <2> QED
    BY <2>1 DEF Numbered, Effect, Ids
<1>6. Alone'
  <2>1. ASSUME NEW d \in Clients, d \in overlapped'
        PROVE  UnderWay(d)' /\ client'[d].kind # "start"
    BY <2>1 DEF Observe
  <2>2. ASSUME NEW d \in Clients, UnderWay(d)', d \notin overlapped', NEW f \in Clients, f # d
        PROVE  ~UnderWay(f)'
    <3>1. CASE client'[d].kind # "start"
      BY <2>2, <3>1 DEF Observe
    <3>2. CASE client'[d].kind = "start"
      <4>1. client[d].kind = "start"
        BY <1>1, <3>2 DEF Effect
      <4>2. UnderWay(d)
        BY <4>1 DEF RequestsInv, ManagerType, Carries, Reloading, UnderWay
      <4>3. d = c
        BY <1>2, <2>2, <4>2
      <4>4. ~UnderWay(f)
        BY <2>2, <4>1, <4>2 DEF RequestsInv, Alone
      <4> QED
        BY <1>1, <2>2, <4>3, <4>4 DEF UnderWay
    <3> QED
      BY <3>1, <3>2
  <2> QED
    BY <2>1, <2>2 DEF Alone
<1>7. Owed'
  <2>1. ASSUME NEW d \in Clients, Reloading(client'[d]) PROVE broken'
    <3>1. CASE d = c
      BY <2>1, <3>1 DEF Effect
    <3>2. CASE d # c
      BY <1>1, <1>3, <2>1, <3>2 DEF RequestsInv, Owed, Heals, Reloading, UnderWay
    <3> QED
      BY <3>1, <3>2
  <2> QED
    BY <2>1 DEF Owed, Reloading
<1>8. ReloadRight'
  <2>1. ASSUME NEW d \in Clients, d \notin overlapped' PROVE Rebuilt(client[d])'
    <3>1. CASE d = c
      <4>1. CASE c \notin overlapped
        BY <3>1, <4>1 DEF Effect
      <4>2. CASE c \in overlapped
        <5>1. client'[c].kind # "start"
          BY <4>2 DEF RequestsInv, Alone, Effect
        <5>2. ~UnderWay(c)'
          BY <2>1, <3>1, <4>2, <5>1 DEF Observe
        <5> QED
          BY <3>1, <5>2 DEF UnderWay, Rebuilt
      <4> QED
        BY <4>1, <4>2
    <3>2. CASE d # c
      <4>1. client'[d].pc = "idle"
        BY <1>1, <1>2, <2>1, <3>2 DEF UnderWay
      <4> QED
        BY <4>1 DEF Rebuilt
    <3> QED
      BY <3>1, <3>2
  <2> QED
    BY <2>1 DEF ReloadRight
<1>9. OwnRow'
  <2> SUFFICES ASSUME ~raced'
               PROVE  /\ \A d, f \in Clients : d # f /\ client'[d].id # 0 => client'[d].id # client'[f].id
                      /\ \A d \in Clients : client'[d].pc = "write" => client'[d].old = Row(client[d].id)'
    BY DEF OwnRow, At
  <2>1. \A d, f \in Clients : d # f /\ client'[d].id # 0 => client'[d].id # client'[f].id
    BY DEF Observe
  <2>2. ASSUME NEW d \in Clients, client'[d].pc = "write"
        PROVE  client'[d].old = Row(client[d].id)'
    <3>1. CASE d = c
      BY <2>2, <3>1 DEF Effect, Row, Ids
    <3>2. CASE d # c
      <4>0. PICK i : i = client[d].id
        OBVIOUS
      <4>1. client'[d] = client[d] /\ At(d, "write") /\ UnderWay(d)
        BY <1>1, <2>2, <3>2 DEF At, UnderWay
      <4>2. ~raced
        BY <1>3, <3>2, <4>1 DEF Observe, Heals
      <4>3. client[d].old = Row(i) /\ i # client[c].id
        <5>1. i # 0
          BY <4>0, <4>1 DEF RequestsInv, ManagerType, Carries, At, Deciding
        <5> QED
          BY <3>2, <4>0, <4>1, <4>2, <5>1 DEF RequestsInv, OwnRow
      <4>4. i \in Numbers /\ i < nextId /\ nextId \in Nat
        BY <4>0, <4>1 DEF RequestsInv, ManagerType, Numbered, Given, IsTask, Carries, Numbers, At, Deciding
      <4>5. RowKept(i)
        BY <4>3, <4>4 DEF Effect, Numbers
      <4>6. Row(i)' = Row(i)
        BY <4>5 DEF RowKept, Row, Ids
      <4> QED
        BY <4>0, <4>1, <4>3, <4>6
    <3> QED
      BY <3>1, <3>2
  <2> QED
    BY <2>1, <2>2
<1> QED
  BY <1>4, <1>5, <1>6, <1>7, <1>8, <1>9 DEF RequestsInv
-----------------------------------------------------------------------------
(* How the steps of a request change its task. *)
LEMMA AtStep ==
  ASSUME NEW x, IsTask(x), NEW p
  PROVE  LET n == [x EXCEPT !.pc = p]
         IN  /\ IsTask(n) /\ n.pc = p /\ n.kind = x.kind /\ n.id = x.id /\ n.rule = x.rule /\ n.old = x.old
             /\ n.undo = x.undo /\ n.todo = x.todo /\ n.snapshot = x.snapshot /\ n.clean = x.clean
             /\ n.batch = x.batch /\ n.victims = x.victims
  BY DEF IsTask, Fields

LEMMA WithUndo ==
  ASSUME NEW x, IsTask(x), NEW p, NEW u, u \subseteq Backs
  PROVE  LET n == [x EXCEPT !.pc = p, !.undo = u]
         IN  /\ IsTask(n) /\ n.pc = p /\ n.kind = x.kind /\ n.id = x.id /\ n.rule = x.rule /\ n.old = x.old
             /\ n.undo = u /\ n.todo = x.todo /\ n.snapshot = x.snapshot /\ n.clean = x.clean
             /\ n.batch = x.batch /\ n.victims = x.victims
  BY DEF IsTask, Fields

LEMMA WithRule ==
  ASSUME NEW x, IsTask(x), NEW rule, rule \subseteq Stored
  PROVE  LET n == [x EXCEPT !.rule = rule]
         IN  /\ IsTask(n) /\ n.pc = x.pc /\ n.kind = x.kind /\ n.id = x.id /\ n.rule = rule /\ n.old = x.old
             /\ n.undo = x.undo /\ n.batch = x.batch /\ n.victims = x.victims
  BY DEF IsTask, Fields

(* Where a request goes. *)
LEMMA Goal ==
  ASSUME NEW c \in Clients, NEW n, ManagerType, Goes(c, n)
  PROVE  client'[c] = n /\ client' = [client EXCEPT ![c] = client'[c]]
  BY DEF Goes, ManagerType

(* A request that ends rests, or turns to the next rule of its import. *)
LEMMA EndsRests ==
  ASSUME RequestsInv, NEW c \in Clients, Ends(c)
  PROVE  /\ Moved(c) /\ Rests(client'[c]) /\ Given(client'[c], nextId)
         /\ client[c].batch = <<>> => client'[c] = Idle
<1> DEFINE n == [Idle EXCEPT !.pc = "victim", !.kind = client[c].kind, !.batch = client[c].batch,
                             !.victims = client[c].victims]
<1>1. IsTask(client[c]) /\ Carries(client[c]) /\ Given(client[c], nextId) /\ nextId \in Numbers
  BY DEF RequestsInv, ManagerType, Numbered
<1>2. CASE client[c].batch = <<>>
  <2>1. client'[c] = Idle /\ client' = [client EXCEPT ![c] = client'[c]]
    BY <1>2, Goal DEF RequestsInv, Ends
  <2> QED
    BY <1>1, <2>1, IdleTask DEF Moved, Rests, Given, Numbers
<1>3. CASE client[c].batch # <<>>
  <2>1. client'[c] = n /\ client' = [client EXCEPT ![c] = client'[c]]
    BY <1>3, Goal DEF RequestsInv, Ends, Importing
  <2>2. /\ n = [f \in Fields |-> n[f]] /\ n.pc = "victim" /\ n.kind = client[c].kind /\ n.batch = client[c].batch
        /\ n.victims = client[c].victims /\ n.id = 0 /\ n.rule = {} /\ n.old = {} /\ n.undo = {}
        /\ n.todo = {} /\ n.snapshot = <<>> /\ n.clean = FALSE
    BY IdleTask DEF IsTask, Fields
  <2> HIDE DEF n
  <2>3. IsTask(n)
    <3>1. client[c].batch \in Seq(Stored) /\ client[c].victims \subseteq Numbers
      BY <1>1 DEF IsTask
    <3>2. n.snapshot \in Table
      BY <2>2, EmptyTable
    <3>3. Keyed(n.todo) /\ n.id \in Nat
      BY <2>2 DEF Keyed
    <3>4. n.clean \in BOOLEAN
      BY <2>2, Zenon
    <3> QED
      BY <2>2, <3>1, <3>2, <3>3, <3>4 DEF IsTask
  <2>4. client[c].kind # "start"
    BY <1>1, <1>3 DEF Carries
  <2>5. Carries(n) /\ Rests(n)
    BY <1>1, <2>2, <2>4 DEF Carries, Rests, Single, Deciding, Working, Deleting, Reloading
  <2>6. Given(n, nextId)
    BY <1>1, <2>2 DEF Given, Numbers
  <2> QED
    BY <1>3, <2>1, <2>3, <2>5, <2>6 DEF Moved
<1> QED
  BY <1>2, <1>3
(* A step that is no part of a reload and gives out no id. *)
LEMMA StepEffect ==
  ASSUME RequestsInv, NEW c \in Clients, UnderWay(c), Moved(c), Given(client'[c], nextId),
         UNCHANGED <<nextId, broken, requests>>,
         Keyed(driver'), db' \in Table, \A i \in DOMAIN db' : i < nextId,
         \A i \in Numbers : \/ RowKept(i)
                            \/ (i = client[c].id /\ (Deciding(client[c]) \/ Working(client[c]))),
         client'[c].kind = "start" => client[c].kind = "start",
         ~Reloading(client'[c]),
         client'[c].pc = "write" => client'[c].old = Row(client'[c].id) /\ db' = db
  PROVE  Effect(c)
<1>1. nextId \in Nat /\ nextId \in Numbers /\ requests \in Nat /\ broken \in BOOLEAN
  BY DEF RequestsInv, ManagerType, Numbers
<1>2. Given(client'[c], nextId') /\ nextId' \in Numbers /\ nextId <= nextId' /\ broken' \in BOOLEAN /\ requests' \in Nat
  BY <1>1
<1>3. ~Heals
  BY DEF Heals
<1>4. Rebuilt(client[c])'
  BY DEF Rebuilt, Reloading
<1> QED
  BY <1>2, <1>3, <1>4 DEF Effect

LEMMA StayEffect ==
  ASSUME RequestsInv, NEW c \in Clients, UnderWay(c), Moved(c), Given(client'[c], nextId),
         UNCHANGED <<db, nextId, driver, broken, requests>>,
         client'[c].kind = "start" => client[c].kind = "start",
         ~Reloading(client'[c]),
         client'[c].pc = "write" => client'[c].old = Row(client'[c].id)
  PROVE  Effect(c)
<1>1. Keyed(driver') /\ db' \in Table /\ \A i \in DOMAIN db' : i < nextId
  BY DEF RequestsInv, ManagerType, Numbered, Ids
<1>2. \A i : RowKept(i)
  BY DEF RowKept, Ids
<1> QED
  BY <1>1, <1>2, StepEffect

LEMMA ListRulesEffect ==
  ASSUME RequestsInv, NEW c \in Clients, ListRules(c)
  PROVE  Effect(c)
<1> DEFINE x == client[c]
<1>0. IsTask(x) /\ Carries(x) /\ Given(x, nextId) /\ x.pc = "list"
  BY DEF RequestsInv, ManagerType, Numbered, ListRules, At
<1>1. x.batch = <<>> /\ x.undo = {} /\ x.kind = "create" /\ UnderWay(c)
  BY <1>0 DEF Carries, UnderWay
<1>2. PICK rule \in x.rule :
        \/ GoesTo(c, "insert")
        \/ \E m \in Merges(rule) :
             Goes(c, [x EXCEPT !.pc = "guard", !.kind = "update", !.id = m[1], !.rule = {m[2]}])
  BY DEF ListRules
<1>3. CASE GoesTo(c, "insert")
  <2> DEFINE n == [x EXCEPT !.pc = "insert"]
  <2>1. client'[c] = n /\ client' = [client EXCEPT ![c] = client'[c]]
    BY <1>3, Goal DEF RequestsInv, Goes, GoesTo
  <2>2. /\ IsTask(n) /\ n.pc = "insert" /\ n.kind = x.kind /\ n.id = x.id /\ n.rule = x.rule /\ n.old = x.old
        /\ n.undo = x.undo /\ n.batch = x.batch /\ n.victims = x.victims
    BY <1>0, AtStep
  <2> HIDE DEF n
  <2>3. Carries(n) /\ Given(n, nextId) /\ ~Reloading(n)
    BY <1>0, <1>1, <2>2 DEF Carries, Given, Deciding, Working, Deleting, Reloading
  <2> QED
    BY <1>1, <2>1, <2>2, <2>3, StayEffect DEF Moved, ListRules
<1>4. CASE \E m \in Merges(rule) :
             Goes(c, [x EXCEPT !.pc = "guard", !.kind = "update", !.id = m[1], !.rule = {m[2]}])
  <2>1. PICK m \in Merges(rule) :
             Goes(c, [x EXCEPT !.pc = "guard", !.kind = "update", !.id = m[1], !.rule = {m[2]}])
    BY <1>4
  <2>2. m[1] \in Ids /\ m[2] \in Stored
    BY <1>0, MergesShape DEF RequestsInv, IsTask
  <2>3. m[1] \in Nat /\ m[1] # 0 /\ m[1] < nextId
    BY <2>2, TableShape DEF RequestsInv, ManagerType, Numbered, Ids, Numbers
  <2> DEFINE n == [x EXCEPT !.pc = "guard", !.kind = "update", !.id = m[1], !.rule = {m[2]}]
  <2>4. client'[c] = n /\ client' = [client EXCEPT ![c] = client'[c]]
    BY <2>1, Goal DEF RequestsInv
  <2>5. /\ IsTask(n) /\ n.pc = "guard" /\ n.kind = "update" /\ n.id = m[1] /\ n.rule = {m[2]} /\ n.old = x.old
        /\ n.undo = x.undo /\ n.batch = x.batch /\ n.victims = x.victims
    BY <1>0, <2>2, <2>3 DEF IsTask, Fields
  <2> HIDE DEF n
  <2>6. Carries(n) /\ Given(n, nextId) /\ ~Reloading(n)
    BY <1>0, <1>1, <2>3, <2>5 DEF Carries, Given, Single, Deciding, Working, Deleting, Reloading
  <2> QED
    BY <1>1, <2>4, <2>5, <2>6, StayEffect DEF Moved, ListRules
<1> QED
  BY <1>2, <1>3, <1>4

(* The table with a row, and without one. *)
LEMMA WithTable ==
  ASSUME RequestsInv, NEW i \in Numbers, NEW r \in Stored
  PROVE  /\ With(i, r) \in Table /\ DOMAIN With(i, r) = Ids \cup {i} /\ With(i, r)[i] = r
         /\ \A j \in Ids : j # i => With(i, r)[j] = db[j]
<1>1. Ids \subseteq Numbers /\ \A j \in Ids : db[j] \in Stored
  BY TableShape DEF RequestsInv, ManagerType, Ids
<1>2. /\ DOMAIN With(i, r) = Ids \cup {i} /\ With(i, r)[i] = r
      /\ \A j \in Ids : j # i => With(i, r)[j] = db[j]
  BY DEF With
<1>3. With(i, r) \in [Ids \cup {i} -> Stored]
  BY <1>1 DEF With
<1> QED
  BY <1>1, <1>2, <1>3 DEF Table

(* The same of a step that writes one. *)
LEMMA WithRow ==
  ASSUME RequestsInv, NEW i \in Numbers, NEW r \in Stored, db' = With(i, r)
  PROVE  /\ db' \in Table /\ DOMAIN db' = Ids \cup {i} /\ db'[i] = r
         /\ \A j \in Ids : j # i => db'[j] = db[j]
<1>1. PICK t : t = With(i, r)
  OBVIOUS
<1>2. t \in Table /\ DOMAIN t = Ids \cup {i} /\ t[i] = r /\ \A j \in Ids : j # i => t[j] = db[j]
  BY <1>1, WithTable
<1> QED
  BY <1>1, <1>2

LEMMA WithoutTable ==
  ASSUME RequestsInv, NEW i
  PROVE  /\ Without(i) \in Table /\ DOMAIN Without(i) = Ids \ {i}
         /\ \A j \in Ids \ {i} : Without(i)[j] = db[j]
<1>1. Ids \subseteq Numbers /\ \A j \in Ids : db[j] \in Stored
  BY TableShape DEF RequestsInv, ManagerType, Ids
<1>2. Without(i) \in [Ids \ {i} -> Stored]
  BY <1>1 DEF Without
<1> QED
  BY <1>1, <1>2 DEF Table, Without

(* What Insert leaves behind. *)
LEMMA InsertShape ==
  ASSUME RequestsInv, NEW c \in Clients, Insert(c)
  PROVE  \E rule \in client[c].rule :
           /\ rule \in Stored /\ db' = With(nextId, rule) /\ nextId' = nextId + 1
           /\ UNCHANGED <<groups, driver, requests, faults, broken>>
           /\ Moved(c) /\ Given(client'[c], nextId')
           /\ IF rule.enabled /\ rule.remote_domain = {}
              THEN /\ client'[c].pc = IF rule.app_group_id = {} THEN "add" ELSE "clear"
                   /\ client'[c].id = nextId /\ client'[c].undo = {<<>>}
                   /\ client'[c].rule = {rule} /\ client'[c].kind = "create"
              ELSE client'[c] = Idle
<1> DEFINE x == client[c]
<1>0. IsTask(x) /\ Carries(x) /\ Given(x, nextId) /\ x.pc = "insert" /\ nextId \in Numbers
  BY DEF RequestsInv, ManagerType, Numbered, Insert, At
<1>1. x.batch = <<>> /\ x.undo = {} /\ x.kind = "create" /\ UnderWay(c) /\ nextId \in Nat /\ nextId # 0
  BY <1>0 DEF Carries, UnderWay, Numbers
<1>2. PICK rule \in x.rule :
        /\ db' = With(nextId, rule) /\ nextId' = nextId + 1
        /\ IF rule.enabled /\ rule.remote_domain = {}
           THEN Goes(c, [x EXCEPT !.id = nextId, !.undo = {<<>>},
                           !.pc = IF rule.app_group_id = {} THEN "add" ELSE "clear"])
           ELSE Ends(c)
  BY DEF Insert
<1>3. rule \in Stored /\ x.rule = {rule}
  BY <1>0 DEF IsTask, Carries, Single
<1>4. CASE rule.enabled /\ rule.remote_domain = {}
  <2> DEFINE p == IF rule.app_group_id = {} THEN "add" ELSE "clear"
             n == [x EXCEPT !.id = nextId, !.undo = {<<>>}, !.pc = p]
  <2>1. client'[c] = n /\ client' = [client EXCEPT ![c] = client'[c]]
    BY <1>2, <1>4, Goal DEF RequestsInv
  <2>2. p \in {"add", "clear"}
    OBVIOUS
  <2> HIDE DEF p
  <2>3. /\ IsTask(n) /\ n.pc = p /\ n.kind = x.kind /\ n.id = nextId /\ n.rule = x.rule /\ n.old = x.old
        /\ n.undo = {<<>>} /\ n.batch = x.batch /\ n.victims = x.victims
    BY <1>0, <1>1 DEF IsTask, Fields, Backs
  <2> HIDE DEF n
  <2>4. Carries(n)
    BY <1>0, <1>1, <2>2, <2>3 DEF Carries, Single, Deciding, Working, Deleting, Reloading
  <2>5. Given(n, nextId')
    <3>1. \A i \in x.victims : i \in Nat /\ i < nextId
      BY <1>0 DEF Given, IsTask, Numbers
    <3>2. nextId < nextId + 1 /\ \A i \in x.victims : i < nextId + 1
      BY <1>1, <3>1
    <3> QED
      BY <1>2, <2>3, <3>2 DEF Given
  <2>6. n.pc = IF rule.app_group_id = {} THEN "add" ELSE "clear"
    BY <2>3 DEF p
  <2> QED
    BY <1>1, <1>2, <1>3, <1>4, <2>1, <2>3, <2>4, <2>5, <2>6 DEF Moved, Insert
<1>5. CASE ~(rule.enabled /\ rule.remote_domain = {})
  <2>1. Moved(c) /\ client'[c] = Idle
    BY <1>1, <1>2, <1>5, EndsRests
  <2>2. Given(Idle, nextId')
    BY <1>1, <1>2, IdleTask DEF Given
  <2> QED
    BY <1>2, <1>3, <1>5, <2>1, <2>2 DEF Insert
<1> QED
  BY <1>4, <1>5

(* Each step of a request has such an effect: creation, *)
LEMMA InsertEffect ==
  ASSUME RequestsInv, NEW c \in Clients, Insert(c)
  PROVE  Effect(c)
<1>1. PICK rule \in client[c].rule :
           /\ rule \in Stored /\ db' = With(nextId, rule) /\ nextId' = nextId + 1
           /\ UNCHANGED <<groups, driver, requests, faults, broken>>
           /\ Moved(c) /\ Given(client'[c], nextId')
           /\ client'[c].pc \in {"add", "clear", "idle"} /\ client'[c].kind # "start"
  BY InsertShape, IdleTask
<1>2. /\ nextId \in Numbers /\ nextId \in Nat /\ \A i \in Ids : i \in Nat /\ i < nextId
      /\ Keyed(driver) /\ broken \in BOOLEAN /\ requests \in Nat
  BY TableShape DEF RequestsInv, ManagerType, Numbered, Numbers, Ids
<1>3. UnderWay(c)
  BY DEF Insert, At, UnderWay
<1>4. db' \in Table /\ \A i \in DOMAIN db' : i < nextId'
  <2>1. db' \in Table /\ DOMAIN db' = Ids \cup {nextId}
    BY <1>1, <1>2, WithRow
  <2>2. nextId < nextId + 1 /\ \A i \in Ids : i < nextId + 1
    BY <1>2
  <2> QED
    BY <1>1, <2>1, <2>2
<1>5. \A i \in Numbers : RowKept(i) \/ i >= nextId
  <2>1. DOMAIN db' = Ids \cup {nextId} /\ \A i \in Ids : i # nextId => db'[i] = db[i]
    BY <1>1, <1>2, WithRow
  <2>2. \A i \in Numbers : i # nextId => RowKept(i)
    BY <2>1 DEF RowKept
  <2> QED
    BY <1>2, <2>2
<1>6. nextId' \in Numbers /\ nextId <= nextId'
  BY <1>1, <1>2 DEF Numbers
<1>7. ~Heals /\ Rebuilt(client[c])' /\ ~Reloading(client'[c]) /\ client'[c].pc # "write"
  BY <1>1 DEF Heals, Rebuilt, Reloading
<1>8. Keyed(driver') /\ broken' \in BOOLEAN /\ requests' \in Nat
  BY <1>1, <1>2
<1> QED
  BY <1>1, <1>3, <1>4, <1>5, <1>6, <1>7, <1>8 DEF Effect

LEMMA GuardEffect ==
  ASSUME RequestsInv, NEW c \in Clients, Guard(c)
  PROVE  Effect(c)
<1> DEFINE x == client[c]
           n == [x EXCEPT !.pc = "read"]
<1>0. IsTask(x) /\ Carries(x) /\ Given(x, nextId) /\ x.pc = "guard" /\ UnderWay(c)
  BY DEF RequestsInv, ManagerType, Numbered, Guard, At, UnderWay
<1>1. UNCHANGED <<db, nextId, driver, broken, requests>> /\ (GoesTo(c, "read") \/ Ends(c))
  BY DEF Guard
<1>2. CASE GoesTo(c, "read")
  <2>1. client'[c] = n /\ client' = [client EXCEPT ![c] = client'[c]]
    BY <1>2, Goal DEF RequestsInv, Goes, GoesTo
  <2>2. /\ IsTask(n) /\ n.pc = "read" /\ n.kind = x.kind /\ n.id = x.id /\ n.rule = x.rule /\ n.old = x.old
        /\ n.undo = x.undo /\ n.batch = x.batch /\ n.victims = x.victims
    BY <1>0, AtStep
  <2> HIDE DEF n
  <2>3. Carries(n) /\ Given(n, nextId) /\ ~Reloading(n)
    BY <1>0, <2>2 DEF Carries, Given, Deciding, Working, Deleting, Reloading
  <2> QED
    BY <1>0, <1>1, <2>1, <2>2, <2>3, StayEffect DEF Moved
<1>3. CASE Ends(c)
  BY <1>0, <1>1, <1>3, EndsRests, StayEffect DEF Rests, Reloading
<1> QED
  BY <1>1, <1>2, <1>3

(* The row that is read is what the request knows when it writes. *)
LEMMA ReadShape ==
  ASSUME RequestsInv, NEW c \in Clients, Read(c)
  PROVE  /\ UNCHANGED <<db, nextId, groups, driver, requests, faults, broken>>
         /\ Moved(c) /\ Given(client'[c], nextId)
         /\ \/ Rests(client'[c])
            \/ /\ client'[c].pc = "write" /\ client'[c].kind = client[c].kind /\ client'[c].id = client[c].id
               /\ client'[c].old = Row(client[c].id)
<1> DEFINE x == client[c]
           row == Row(x.id)
           n == [x EXCEPT !.pc = "write", !.old = row]
<1>0. IsTask(x) /\ Carries(x) /\ Given(x, nextId) /\ x.pc = "read" /\ x.id # 0
  BY DEF RequestsInv, ManagerType, Numbered, Read, At, Carries, Deciding
<1>1. row \subseteq Stored /\ Single(row)
  BY TableShape DEF RequestsInv, ManagerType, Row, Single, Ids
<1>2. CASE Ends(c)
  BY <1>2, EndsRests DEF Read
<1>3. CASE Goes(c, n) /\ (Deletes(c) \/ x.kind = "update")
  <2>1. client'[c] = n /\ client' = [client EXCEPT ![c] = client'[c]]
    BY <1>3, Goal DEF RequestsInv
  <2>2. /\ IsTask(n) /\ n.pc = "write" /\ n.kind = x.kind /\ n.id = x.id /\ n.rule = x.rule /\ n.old = row
        /\ n.undo = x.undo /\ n.batch = x.batch /\ n.victims = x.victims
    BY <1>0, <1>1 DEF IsTask, Fields
  <2> HIDE DEF n
  <2>3. Carries(n) /\ Given(n, nextId)
    BY <1>0, <1>1, <1>3, <2>2 DEF Carries, Given, Deciding, Working, Deleting, Deletes, Reloading
  <2> QED
    BY <2>1, <2>2, <2>3 DEF Moved, Read
<1>4. CASE Goes(c, [n EXCEPT !.rule = {[r EXCEPT !.enabled = Switched(c)] : r \in row}])
           /\ (\E r \in row : r.enabled # Switched(c))
  <2> DEFINE rule == {[r EXCEPT !.enabled = Switched(c)] : r \in row}
             m == [n EXCEPT !.rule = rule]
  <2>0. Switched(c) \in BOOLEAN
    BY DEF Switched
  <2>1. client'[c] = m /\ client' = [client EXCEPT ![c] = client'[c]]
    BY <1>4, Goal DEF RequestsInv
  <2>2. /\ IsTask(n) /\ n.pc = "write" /\ n.kind = x.kind /\ n.id = x.id /\ n.old = row
        /\ n.undo = x.undo /\ n.batch = x.batch /\ n.victims = x.victims
    BY <1>0, <1>1 DEF IsTask, Fields
  <2>3. rule \subseteq Stored /\ Single(rule) /\ \A o \in row, r \in rule : Same(r, o) /\ r.enabled # o.enabled
    <3>1. PICK o \in row : o.enabled # Switched(c)
      BY <1>4
    <3>2. row = {o} /\ o \in Stored
      BY <1>1, <3>1 DEF Single
    <3>3. rule = {[o EXCEPT !.enabled = Switched(c)]}
      BY <3>2
    <3> QED
      BY <2>0, <3>1, <3>2, <3>3, Switching DEF Single
  <2> HIDE DEF n, rule
  <2>4. /\ IsTask(m) /\ m.pc = "write" /\ m.kind = x.kind /\ m.id = x.id /\ m.rule = rule /\ m.old = row
        /\ m.undo = x.undo /\ m.batch = x.batch /\ m.victims = x.victims
    BY <2>2, <2>3, WithRule
  <2> HIDE DEF m
  <2>5. Carries(m) /\ Given(m, nextId)
    BY <1>0, <1>1, <2>3, <2>4 DEF Carries, Given, Deciding, Working, Deleting, Reloading
  <2> QED
    BY <2>1, <2>4, <2>5 DEF Moved, Read
<1> QED
  BY <1>2, <1>3, <1>4 DEF Read

LEMMA ReadEffect ==
  ASSUME RequestsInv, NEW c \in Clients, Read(c)
  PROVE  Effect(c)
<1>1. UnderWay(c) /\ Carries(client[c]) /\ At(c, "read")
  BY DEF Read, At, UnderWay, RequestsInv, ManagerType
<1>2. client[c].kind # "start"
  BY <1>1 DEF Carries, Reloading, At
<1> QED
  BY <1>1, <1>2, ReadShape, StayEffect DEF Rests, Reloading

(* What the driver is to be told of a row that was written. *)
Told(n, x, old, rule) ==
  \/ /\ n = Idle
     /\ old.remote_domain # {} \/ rule.remote_domain # {} \/ ~(old.enabled \/ rule.enabled)
  \/ n.pc = "clear"
  \/ /\ Direct(old) /\ Direct(rule) /\ n.id = x.id /\ n.rule = {rule}
     /\ \/ n.pc = "add" /\ ~old.enabled /\ rule.enabled /\ n.undo = Restores(rule, FALSE)
        \/ n.pc = "modify" /\ old.enabled /\ rule.enabled /\ n.undo = {<<old>>}
        \/ n.pc = "remove" /\ old.enabled /\ ~rule.enabled /\ n.undo = Restores(rule, TRUE)

(* What a failed call will be answered with. *)
LEMMA RestoresShape ==
  ASSUME NEW r \in Stored, NEW on \in BOOLEAN
  PROVE  Restores(r, on) \subseteq Backs /\ Single(Restores(r, on))
  BY Switching DEF Restores, Single, Backs

(* A task that goes on with its rule, perhaps with a row to go back to. *)
LEMMA GoesOn ==
  ASSUME NEW x, Carries(x), x.pc = "write", ~Deleting(x), NEW k, Given(x, k),
         NEW n, n.pc \in {"add", "modify", "remove", "clear"}, Single(n.undo), n.kind = x.kind, n.id = x.id,
         n.rule = x.rule, n.old = x.old, n.batch = x.batch, n.victims = x.victims
  PROVE  Carries(n) /\ Given(n, k)
<1>1. x.id # 0 /\ x.kind # "start"
  BY DEF Carries, Deciding, Reloading
<1> QED
  BY <1>1 DEF Carries, Given, Single, Deciding, Working, Deleting, Reloading

(* What an update or a switch writes, and what it then asks of the driver. *)
LEMMA WriteShape ==
  ASSUME RequestsInv, NEW c \in Clients, WriteRow(c)
  PROVE  /\ UNCHANGED <<nextId, groups, driver, requests, faults, broken>>
         /\ Moved(c) /\ Given(client'[c], nextId) /\ client[c].id # 0
         /\ client'[c].kind = "start" => client[c].kind = "start"
         /\ \E rule, old \in Stored :
              /\ client[c].old = {old}
              /\ db' = IF client[c].id \in Ids THEN With(client[c].id, rule) ELSE db
              /\ Told(client'[c], client[c], old, rule)
<1> DEFINE x == client[c]
<1>0. IsTask(x) /\ Carries(x) /\ Given(x, nextId) /\ x.pc = "write" /\ ~Deleting(x) /\ x.id # 0
  BY DEF RequestsInv, ManagerType, Numbered, WriteRow, At, Deletes, Deleting, Carries, Deciding
<1>1. PICK rule \in x.rule, old \in x.old :
        /\ db' = IF x.id \in Ids THEN With(x.id, rule) ELSE db
        /\ Goes(c, IF x.kind = "update" THEN AfterUpdate(c, old, rule) ELSE AfterSwitch(c, rule))
  BY DEF WriteRow
<1>2. rule \in Stored /\ old \in Stored /\ x.old = {old} /\ x.rule = {rule} /\ rule.enabled \in BOOLEAN
      /\ old.enabled \in BOOLEAN
  <2>1. rule \in Stored /\ old \in Stored /\ x.old = {old} /\ x.rule = {rule}
    BY <1>0, <1>1 DEF IsTask, Carries, Single
  <2> QED
    BY <2>1, RuleFields
<1> DEFINE n == IF x.kind = "update" THEN AfterUpdate(c, old, rule) ELSE AfterSwitch(c, rule)
<1>3. client'[c] = n /\ client' = [client EXCEPT ![c] = client'[c]]
  BY <1>1, Goal DEF RequestsInv
<1>4. x.kind # "update" => rule.remote_domain = old.remote_domain /\ rule.app_group_id = old.app_group_id
                           /\ rule.enabled # old.enabled
  BY <1>0, <1>2 DEF Carries, Deciding, Deleting, Same
<1>5. \/ n = Idle /\ (old.remote_domain # {} \/ rule.remote_domain # {} \/ ~(old.enabled \/ rule.enabled))
      \/ \E u \in {x.undo, Restores(rule, ~rule.enabled)} : n = [x EXCEPT !.pc = "clear", !.undo = u]
      \/ /\ Direct(old) /\ Direct(rule)
         /\ \/ ~old.enabled /\ rule.enabled /\ n = [x EXCEPT !.pc = "add", !.undo = Restores(rule, FALSE)]
            \/ old.enabled /\ rule.enabled /\ n = [x EXCEPT !.pc = "modify", !.undo = {<<old>>}]
            \/ old.enabled /\ ~rule.enabled /\ n = [x EXCEPT !.pc = "remove", !.undo = Restores(rule, TRUE)]
  <2>1. CASE x.kind = "update"
    <3>1. n = AfterUpdate(c, old, rule)
      BY <2>1
    <3>2. [x EXCEPT !.pc = "clear"] = [x EXCEPT !.pc = "clear", !.undo = x.undo]
      BY <1>0 DEF IsTask, Fields
    <3> HIDE DEF n
    <3> QED
      BY <1>2, <3>1, <3>2 DEF AfterUpdate, Direct
  <2>2. CASE x.kind # "update"
    <3>1. n = AfterSwitch(c, rule)
      BY <2>2
    <3>2. \A u, p : [x EXCEPT !.undo = u, !.pc = p] = [x EXCEPT !.pc = p, !.undo = u]
      BY <1>0 DEF IsTask, Fields
    <3> HIDE DEF n
    <3>3. CASE rule.remote_domain # {}
      BY <3>1, <3>3 DEF AfterSwitch
    <3>4. CASE rule.remote_domain = {} /\ rule.app_group_id # {}
      BY <3>1, <3>2, <3>4 DEF AfterSwitch
    <3>5. CASE rule.remote_domain = {} /\ rule.app_group_id = {} /\ rule.enabled
      BY <1>2, <1>4, <2>2, <3>1, <3>2, <3>5 DEF AfterSwitch, Direct
    <3>6. CASE rule.remote_domain = {} /\ rule.app_group_id = {} /\ ~rule.enabled
      BY <1>2, <1>4, <2>2, <3>1, <3>2, <3>6 DEF AfterSwitch, Direct
    <3> QED
      BY <3>3, <3>4, <3>5, <3>6
  <2> QED
    BY <2>1, <2>2
<1> HIDE DEF n
<1>6. /\ IsTask(n) /\ Carries(n) /\ Given(n, nextId) /\ Told(n, x, old, rule)
      /\ n.kind = "start" => x.kind = "start"
  <2>0. \A u \in {x.undo, Restores(rule, TRUE), Restores(rule, FALSE), Restores(rule, ~rule.enabled), {<<old>>}} :
           u \subseteq Backs /\ Single(u)
    <3>1. x.undo \subseteq Backs /\ Single(x.undo)
      BY <1>0 DEF IsTask, Carries
    <3>2. {<<old>>} \subseteq Backs /\ Single({<<old>>})
      BY <1>2 DEF Single, Backs
    <3> QED
      BY <1>2, <3>1, <3>2, RestoresShape
  <2>1. CASE n = Idle /\ (old.remote_domain # {} \/ rule.remote_domain # {} \/ ~(old.enabled \/ rule.enabled))
    <3>1. Given(Idle, nextId)
      BY IdleTask DEF Given, RequestsInv, ManagerType, Numbers
    <3> QED
      BY <2>1, <3>1, IdleTask DEF Told
  <2>2. CASE \E u \in {x.undo, Restores(rule, ~rule.enabled)} : n = [x EXCEPT !.pc = "clear", !.undo = u]
    <3>1. PICK u \in {x.undo, Restores(rule, ~rule.enabled)} : n = [x EXCEPT !.pc = "clear", !.undo = u]
      BY <2>2
    <3>2. u \subseteq Backs /\ Single(u)
      BY <2>0
    <3>3. /\ IsTask(n) /\ Carries(n) /\ Given(n, nextId) /\ n.pc = "clear" /\ n.kind = x.kind
      <4>1. /\ IsTask(n) /\ n.pc = "clear" /\ n.kind = x.kind /\ n.id = x.id /\ n.rule = x.rule
            /\ n.old = x.old /\ n.batch = x.batch /\ n.victims = x.victims /\ n.undo = u
        BY <1>0, <3>1, <3>2 DEF IsTask, Fields
      <4> QED
        BY <1>0, <3>2, <4>1, GoesOn
    <3> QED
      BY <3>3 DEF Told
  <2>3. CASE Direct(old) /\ Direct(rule) /\ ~old.enabled /\ rule.enabled /\ n = [x EXCEPT !.pc = "add", !.undo = Restores(rule, FALSE)]
    <3>1. /\ IsTask(n) /\ Carries(n) /\ Given(n, nextId) /\ n.pc = "add" /\ n.kind = x.kind
          /\ n.id = x.id /\ n.rule = x.rule /\ n.undo = Restores(rule, FALSE)
      <4>1. Restores(rule, FALSE) \subseteq Backs /\ Single(Restores(rule, FALSE))
        BY <2>0
      <4>2. n = [x EXCEPT !.pc = "add", !.undo = Restores(rule, FALSE)]
        BY <2>3
      <4>3. /\ IsTask(n) /\ n.pc = "add" /\ n.kind = x.kind /\ n.id = x.id /\ n.rule = x.rule
            /\ n.old = x.old /\ n.batch = x.batch /\ n.victims = x.victims
        BY <1>0, <4>1, <4>2 DEF IsTask, Fields
      <4>4. n.undo = Restores(rule, FALSE)
        BY <1>0, <4>1, <4>2 DEF IsTask, Fields
      <4>5. Single(n.undo)
        BY <4>1, <4>4, Zenon
      <4>6. Carries(n) /\ Given(n, nextId)
        BY <1>0, <4>3, <4>5, GoesOn
      <4> QED
        BY <4>3, <4>4, <4>6
    <3> QED
      BY <1>2, <2>3, <3>1 DEF Told
  <2>4. CASE Direct(old) /\ Direct(rule) /\ old.enabled /\ rule.enabled /\ n = [x EXCEPT !.pc = "modify", !.undo = {<<old>>}]
    <3>1. /\ IsTask(n) /\ Carries(n) /\ Given(n, nextId) /\ n.pc = "modify" /\ n.kind = x.kind
          /\ n.id = x.id /\ n.rule = x.rule /\ n.undo = {<<old>>}
      <4>1. {<<old>>} \subseteq Backs /\ Single({<<old>>})
        BY <2>0
      <4>2. n = [x EXCEPT !.pc = "modify", !.undo = {<<old>>}]
        BY <2>4
      <4>3. /\ IsTask(n) /\ n.pc = "modify" /\ n.kind = x.kind /\ n.id = x.id /\ n.rule = x.rule
            /\ n.old = x.old /\ n.batch = x.batch /\ n.victims = x.victims
        BY <1>0, <4>1, <4>2 DEF IsTask, Fields
      <4>4. n.undo = {<<old>>}
        BY <1>0, <4>1, <4>2 DEF IsTask, Fields
      <4>5. Single(n.undo)
        BY <4>1, <4>4, Zenon
      <4>6. Carries(n) /\ Given(n, nextId)
        BY <1>0, <4>3, <4>5, GoesOn
      <4> QED
        BY <4>3, <4>4, <4>6
    <3> QED
      BY <1>2, <2>4, <3>1 DEF Told
  <2>5. CASE Direct(old) /\ Direct(rule) /\ old.enabled /\ ~rule.enabled /\ n = [x EXCEPT !.pc = "remove", !.undo = Restores(rule, TRUE)]
    <3>1. /\ IsTask(n) /\ Carries(n) /\ Given(n, nextId) /\ n.pc = "remove" /\ n.kind = x.kind
          /\ n.id = x.id /\ n.rule = x.rule /\ n.undo = Restores(rule, TRUE)
      <4>1. Restores(rule, TRUE) \subseteq Backs /\ Single(Restores(rule, TRUE))
        BY <2>0
      <4>2. n = [x EXCEPT !.pc = "remove", !.undo = Restores(rule, TRUE)]
        BY <2>5
      <4>3. /\ IsTask(n) /\ n.pc = "remove" /\ n.kind = x.kind /\ n.id = x.id /\ n.rule = x.rule
            /\ n.old = x.old /\ n.batch = x.batch /\ n.victims = x.victims
        BY <1>0, <4>1, <4>2 DEF IsTask, Fields
      <4>4. n.undo = Restores(rule, TRUE)
        BY <1>0, <4>1, <4>2 DEF IsTask, Fields
      <4>5. Single(n.undo)
        BY <4>1, <4>4, Zenon
      <4>6. Carries(n) /\ Given(n, nextId)
        BY <1>0, <4>3, <4>5, GoesOn
      <4> QED
        BY <4>3, <4>4, <4>6
    <3> QED
      BY <1>2, <2>5, <3>1 DEF Told
  <2> QED
    BY <1>5, <2>1, <2>2, <2>3, <2>4, <2>5
<1>7. UNCHANGED <<nextId, groups, driver, requests, faults, broken>>
  BY DEF WriteRow
<1> QED
  BY <1>0, <1>1, <1>2, <1>3, <1>6, <1>7 DEF Moved

(* an update or a switch, *)
LEMMA WriteEffect ==
  ASSUME RequestsInv, NEW c \in Clients, WriteRow(c)
  PROVE  Effect(c)
<1> DEFINE x == client[c]
<1>1. PICK rule \in Stored, old \in Stored :
         /\ db' = IF x.id \in Ids THEN With(x.id, rule) ELSE db
         /\ Told(client'[c], x, old, rule)
  BY WriteShape
<1>2. /\ UNCHANGED <<nextId, driver, requests, broken>> /\ Moved(c) /\ Given(client'[c], nextId)
      /\ client'[c].kind = "start" => x.kind = "start"
  BY WriteShape
<1>3. At(c, "write") /\ UnderWay(c) /\ x.id \in Numbers /\ Deciding(x)
  BY WriteShape DEF WriteRow, At, UnderWay, RequestsInv, ManagerType, IsTask, Numbers, Deciding
<1>4. client'[c].pc \in {"idle", "clear", "add", "modify", "remove"}
  BY <1>1, IdleTask DEF Told
<1>5. db' \in Table /\ DOMAIN db' = Ids /\ \A i \in Ids : i # x.id => db'[i] = db[i]
  <2>1. CASE x.id \in Ids
    <3>1. db' = With(x.id, rule) /\ x.id \in Numbers
      BY <1>1, <1>3, <2>1
    <3> HIDE DEF x
    <3> QED
      BY <2>1, <3>1, WithTable
  <2>2. CASE x.id \notin Ids
    BY <1>1, <2>2 DEF RequestsInv, ManagerType, Ids
  <2> QED
    BY <2>1, <2>2
<1>6. \A i \in Numbers : RowKept(i) \/ (i = x.id /\ (Deciding(x) \/ Working(x)))
  BY <1>3, <1>5 DEF RowKept
<1>7. Keyed(driver') /\ \A i \in DOMAIN db' : i < nextId
  BY <1>2, <1>5 DEF RequestsInv, ManagerType, Numbered
<1>8. ~Reloading(client'[c]) /\ client'[c].pc # "write"
  BY <1>4 DEF Reloading
<1> QED
  BY <1>2, <1>3, <1>5, <1>6, <1>7, <1>8, StepEffect

(* What a deletion leaves, and what it then asks of the driver. *)
LEMMA DeleteShape ==
  ASSUME RequestsInv, NEW c \in Clients, DeleteRow(c)
  PROVE  /\ UNCHANGED <<nextId, groups, driver, requests, faults, broken>> /\ db' = Without(client[c].id)
         /\ Moved(c) /\ Given(client'[c], nextId) /\ client[c].id # 0 /\ client[c].undo = {}
         /\ client'[c].kind = "start" => client[c].kind = "start"
         /\ \/ Rests(client'[c]) /\ \E old \in client[c].old : old.remote_domain # {}
            \/ client'[c].pc = "clear"
            \/ /\ client'[c].pc = "remove" /\ client'[c].id = client[c].id /\ client'[c].undo = {}
               /\ \A old \in client[c].old : Direct(old)
<1> DEFINE x == client[c]
<1>0. IsTask(x) /\ Carries(x) /\ Given(x, nextId) /\ x.pc = "write" /\ Deleting(x) /\ x.id # 0 /\ x.undo = {}
      /\ x.kind # "start"
  BY DEF RequestsInv, ManagerType, Numbered, DeleteRow, At, Deletes, Deleting, Carries, Deciding
<1>1. UNCHANGED <<nextId, groups, driver, requests, faults, broken>> /\ db' = Without(x.id)
  BY DEF DeleteRow
<1>2. CASE Ends(c) /\ \E old \in x.old : old.remote_domain # {}
  BY <1>0, <1>1, <1>2, EndsRests DEF Rests
<1>3. ASSUME NEW p \in {"clear", "remove"}, GoesTo(c, p), \A old \in x.old : old.remote_domain = {},
             p = "remove" => \A old \in x.old : old.app_group_id = {}
      PROVE  /\ Moved(c) /\ Given(client'[c], nextId) /\ client'[c].kind # "start"
             /\ \/ client'[c].pc = "clear"
                \/ /\ client'[c].pc = "remove" /\ client'[c].id = x.id /\ client'[c].undo = {}
                   /\ \A old \in x.old : Direct(old)
  <2> DEFINE n == [x EXCEPT !.pc = p]
  <2>1. client'[c] = n /\ client' = [client EXCEPT ![c] = client'[c]]
    BY <1>3, Goal DEF RequestsInv, Goes, GoesTo
  <2>2. /\ IsTask(n) /\ n.pc = p /\ n.kind = x.kind /\ n.id = x.id /\ n.rule = x.rule /\ n.old = x.old
        /\ n.undo = x.undo /\ n.batch = x.batch /\ n.victims = x.victims
    BY <1>0, AtStep
  <2> HIDE DEF n
  <2>3. Carries(n) /\ Given(n, nextId)
    BY <1>0, <2>2 DEF Carries, Given, Deciding, Working, Deleting, Reloading
  <2> QED
    BY <1>0, <1>3, <2>1, <2>2, <2>3 DEF Moved, Direct
<1>4. \/ Ends(c) /\ \E old \in x.old : old.remote_domain # {}
      \/ \E p \in {"clear", "remove"} : /\ GoesTo(c, p) /\ \A old \in x.old : old.remote_domain = {}
                                        /\ p = "remove" => \A old \in x.old : old.app_group_id = {}
  BY DEF DeleteRow
<1> QED
  BY <1>0, <1>1, <1>2, <1>3, <1>4

(* a deletion, *)
LEMMA DeleteEffect ==
  ASSUME RequestsInv, NEW c \in Clients, DeleteRow(c)
  PROVE  Effect(c)
<1> DEFINE x == client[c]
<1>1. /\ UNCHANGED <<nextId, driver, requests, broken>> /\ Moved(c) /\ Given(client'[c], nextId)
      /\ client'[c].kind = "start" => x.kind = "start"
      /\ db' = Without(x.id) /\ client'[c].pc \in {"idle", "victim", "clear", "remove"}
  BY DeleteShape DEF Rests
<1>2. UnderWay(c) /\ Deciding(x)
  BY DEF DeleteRow, At, UnderWay, Deciding
<1>3. db' \in Table /\ DOMAIN db' = Ids \ {x.id} /\ \A i \in Ids \ {x.id} : db'[i] = db[i]
  BY <1>1, WithoutTable
<1>4. \A i \in Numbers : RowKept(i) \/ (i = x.id /\ (Deciding(x) \/ Working(x)))
  BY <1>2, <1>3 DEF RowKept
<1>5. Keyed(driver') /\ \A i \in DOMAIN db' : i < nextId
  BY <1>1, <1>3 DEF RequestsInv, ManagerType, Numbered
<1>6. ~Reloading(client'[c]) /\ client'[c].pc # "write"
  BY <1>1 DEF Reloading
<1> QED
  BY <1>1, <1>2, <1>3, <1>4, <1>5, <1>6, StepEffect

(* A deletion that an import makes, and the batch. *)
LEMMA ImportingTask ==
  ASSUME RequestsInv, NEW c \in Clients, client[c].kind # "start", NEW batch \in Seq(Stored),
         NEW victims \in SUBSET Numbers, victims # {} => client[c].kind = "replace",
         \A i \in victims : i < nextId
  PROVE  LET n == Importing(c, batch, victims)
         IN  IsTask(n) /\ Carries(n) /\ Given(n, nextId) /\ n.pc = "victim" /\ n.kind # "start" /\ n.id = 0
<1> DEFINE n == Importing(c, batch, victims)
<1>1. /\ n = [f \in Fields |-> n[f]] /\ n.pc = "victim" /\ n.kind = client[c].kind /\ n.batch = batch
      /\ n.victims = victims /\ n.id = 0 /\ n.rule = {} /\ n.old = {} /\ n.undo = {}
      /\ n.todo = {} /\ n.snapshot = <<>> /\ n.clean = FALSE
  BY IdleTask DEF IsTask, Fields, Importing
<1> HIDE DEF n
<1>2. IsTask(n)
  <2>1. n.clean \in BOOLEAN
    BY <1>1, Zenon
  <2>2. n.snapshot \in Table /\ Keyed(n.todo) /\ n.id \in Nat
    <3>1. n.snapshot = <<>> /\ n.todo = {} /\ n.id = 0
      BY <1>1
    <3>2. n.snapshot \in Table
      BY <3>1, EmptyTable
    <3> QED
      BY <3>1, <3>2 DEF Keyed
  <2> QED
    BY <1>1, <2>1, <2>2 DEF IsTask
<1>3. Carries(n)
  BY <1>1 DEF Carries, Single, Deciding, Working, Deleting, Reloading
<1>4. Given(n, nextId)
  BY <1>1 DEF Given, RequestsInv, ManagerType, Numbers
<1> QED
  BY <1>1, <1>2, <1>3, <1>4 DEF n

(* What is left of the rules of an import. *)
LEMMA KeptBatch ==
  ASSUME NEW batch \in Seq(Stored), NEW f \in NotSkipped(batch)
  PROVE  [j \in DOMAIN f |-> batch[f[j]]] \in Seq(Stored)
<1>1. PICK n \in Nat : f \in [1 .. n -> DOMAIN batch]
  BY DEF NotSkipped
<1>2. \A i \in DOMAIN batch : batch[i] \in Stored
  OBVIOUS
<1>3. [j \in DOMAIN f |-> batch[f[j]]] \in [1 .. n -> Stored]
  BY <1>1, <1>2
<1> QED
  BY <1>3

(* an import that compares its rules with the table, *)
LEMMA ListForImportEffect ==
  ASSUME RequestsInv, NEW c \in Clients, ListForImport(c)
  PROVE  Effect(c)
<1>1. At(c, "import") /\ UnderWay(c) /\ UNCHANGED <<db, nextId, driver, broken, requests>>
  BY DEF ListForImport, At, UnderWay
<1>2. client[c].batch \in Seq(Stored)
  BY DEF RequestsInv, ManagerType, IsTask
<1>3. CASE client[c].kind = "replace" /\ Goes(c, Importing(c, client[c].batch, UserRules))
  <2> DEFINE n == Importing(c, client[c].batch, UserRules)
  <2>1. UserRules \in SUBSET Numbers /\ \A i \in UserRules : i < nextId
    BY TableShape DEF RequestsInv, ManagerType, Numbered, UserRules, Ids
  <2>2. IsTask(n) /\ Carries(n) /\ Given(n, nextId) /\ n.pc = "victim" /\ n.kind # "start"
    BY <1>2, <1>3, <2>1, ImportingTask
  <2>3. client'[c] = n /\ client' = [client EXCEPT ![c] = client'[c]]
    BY <1>3, Goal DEF RequestsInv
  <2> HIDE DEF n
  <2> QED
    BY <1>1, <2>2, <2>3, StayEffect DEF Moved, Reloading
<1>4. ASSUME client[c].kind = "merge", NEW f \in NotSkipped(client[c].batch),
             LET kept == [j \in DOMAIN f |-> client[c].batch[f[j]]]
             IN  Goes(c, IF kept = <<>> THEN Idle ELSE Importing(c, kept, {}))
      PROVE  Effect(c)
  <2> DEFINE kept == [j \in DOMAIN f |-> client[c].batch[f[j]]]
             n == IF kept = <<>> THEN Idle ELSE Importing(c, kept, {})
  <2>1. kept \in Seq(Stored)
    BY <1>2, <1>4, KeptBatch
  <2>2. Given(Idle, nextId)
    BY IdleTask DEF Given, RequestsInv, ManagerType, Numbers
  <2>3. client'[c] = n /\ client' = [client EXCEPT ![c] = client'[c]]
    BY <1>4, Goal DEF RequestsInv
  <2> HIDE DEF kept
  <2>4. IsTask(n) /\ Carries(n) /\ Given(n, nextId) /\ n.pc \in {"idle", "victim"} /\ n.kind # "start"
    BY <1>4, <2>1, <2>2, IdleTask, ImportingTask
  <2> HIDE DEF n
  <2> QED
    BY <1>1, <2>3, <2>4, StayEffect DEF Moved, Reloading
<1> QED
  BY <1>3, <1>4 DEF ListForImport

(* the next row that an import replaces, *)
LEMMA NextVictimEffect ==
  ASSUME RequestsInv, NEW c \in Clients, NextVictim(c)
  PROVE  Effect(c)
<1> DEFINE x == client[c]
<1>0. IsTask(x) /\ Carries(x) /\ Given(x, nextId) /\ x.pc = "victim" /\ UnderWay(c)
  BY DEF RequestsInv, ManagerType, Numbered, NextVictim, At, UnderWay
<1>1. PICK id \in x.victims : Goes(c, [x EXCEPT !.pc = "read", !.id = id, !.victims = @ \ {id}])
  BY DEF NextVictim
<1>2. x.kind = "replace" /\ x.undo = {} /\ id \in Numbers /\ id < nextId
  BY <1>0 DEF Carries, Deleting, IsTask, Given
<1> DEFINE n == [x EXCEPT !.pc = "read", !.id = id, !.victims = @ \ {id}]
<1>3. client'[c] = n /\ client' = [client EXCEPT ![c] = client'[c]]
  BY <1>1, Goal DEF RequestsInv
<1>4. /\ IsTask(n) /\ n.pc = "read" /\ n.kind = x.kind /\ n.id = id /\ n.rule = x.rule /\ n.old = x.old
      /\ n.undo = x.undo /\ n.batch = x.batch /\ n.victims = x.victims \ {id}
  BY <1>0, <1>2 DEF IsTask, Fields, Numbers
<1> HIDE DEF n
<1>5. Carries(n) /\ Given(n, nextId) /\ ~Reloading(n)
  BY <1>0, <1>2, <1>4 DEF Carries, Given, Single, Deciding, Working, Deleting, Reloading, Numbers
<1> QED
  BY <1>0, <1>3, <1>4, <1>5, StayEffect DEF Moved, NextVictim

(* the rows of an import, *)
LEMMA InsertBatchEffect ==
  ASSUME RequestsInv, NEW c \in Clients, InsertBatch(c)
  PROVE  Effect(c)
<1> DEFINE x == client[c]
           batch == x.batch
           k == nextId + Len(batch)
           n == [Idle EXCEPT !.pc = "clear", !.kind = x.kind]
<1>0. IsTask(x) /\ Carries(x) /\ x.pc = "victim" /\ UnderWay(c) /\ x.kind # "start"
  BY DEF RequestsInv, ManagerType, InsertBatch, At, UnderWay, Carries, Reloading
<1>1. batch \in Seq(Stored) /\ nextId \in Nat /\ nextId \in Numbers /\ Len(batch) \in Nat
  BY <1>0 DEF RequestsInv, ManagerType, Numbers, IsTask
<1>2. k \in Numbers /\ nextId <= k /\ k \in Nat
  BY <1>1 DEF Numbers
<1>3. /\ n = [f \in Fields |-> n[f]] /\ n.pc = "clear" /\ n.kind = x.kind /\ n.batch = <<>>
      /\ n.victims = {} /\ n.id = 0 /\ n.rule = {} /\ n.old = {} /\ n.undo = {}
      /\ n.todo = {} /\ n.snapshot = <<>> /\ n.clean = FALSE
  BY IdleTask DEF IsTask, Fields
<1> HIDE DEF n
<1>4. IsTask(n) /\ Carries(n)
  <2>1. n.clean \in BOOLEAN
    BY <1>3, Zenon
  <2>2. n.snapshot \in Table /\ Keyed(n.todo) /\ n.id \in Nat /\ <<>> \in Seq(Stored)
    <3>1. n.snapshot = <<>> /\ n.todo = {} /\ n.id = 0
      BY <1>3
    <3>2. n.snapshot \in Table
      BY <3>1, EmptyTable
    <3> QED
      BY <3>1, <3>2 DEF Keyed
  <2>3. IsTask(n)
    BY <1>3, <2>1, <2>2 DEF IsTask
  <2> QED
    BY <1>0, <1>3, <2>3 DEF Carries, Single, Deciding, Working, Deleting, Reloading
<1>5. \A j \in Numbers : Given(n, j) /\ Given(Idle, j)
  <2>1. n.id = 0 /\ n.victims = {} /\ Idle.id = 0 /\ Idle.victims = {}
    BY <1>3, IdleTask
  <2> QED
    BY <2>1 DEF Given, Numbers
<1>6. ASSUME db' = [i \in Ids \cup (nextId .. nextId + Len(batch) - 1) |-> IF i < nextId THEN db[i] ELSE batch[i - nextId + 1]],
             nextId' = k, UNCHANGED <<driver, requests, broken>>,
             (Goes(c, n) \/ Goes(c, Idle))
      PROVE  Effect(c)
  <2>1. Moved(c) /\ client'[c] \in {n, Idle}
    BY <1>4, <1>6, Goal, IdleTask DEF RequestsInv, Moved
  <2>2. Given(client'[c], nextId') /\ client'[c].pc \in {"clear", "idle"} /\ client'[c].kind # "start"
    BY <1>0, <1>2, <1>3, <1>5, <1>6, <2>1, IdleTask
  <2>3. Ids \subseteq Numbers /\ \A i \in Ids : db[i] \in Stored /\ i \in Nat /\ i < nextId
    BY TableShape DEF RequestsInv, ManagerType, Numbered, Ids, Numbers
  <2>4. DOMAIN db' = Ids \cup (nextId .. k - 1)
    <3>1. nextId + Len(batch) - 1 = k - 1
      BY <1>1
    <3>2. DOMAIN db' = Ids \cup (nextId .. nextId + Len(batch) - 1)
      BY <1>6
    <3> QED
      BY <3>1, <3>2
  <2>5. \A i \in DOMAIN db' : i \in Numbers /\ i < k /\ db'[i] \in Stored
    <3>1. ASSUME NEW i \in Ids PROVE i \in Numbers /\ i < k /\ db'[i] \in Stored
      BY <1>1, <1>2, <1>6, <2>3, <3>1
    <3>2. ASSUME NEW i \in nextId .. k - 1 PROVE i \in Numbers /\ i < k /\ db'[i] \in Stored
      <4>1. i \in Nat /\ i # 0 /\ ~(i < nextId) /\ i - nextId + 1 \in 1 .. Len(batch) /\ i < k
        BY <1>1, <1>2, <3>2 DEF Numbers
      <4>2. batch[i - nextId + 1] \in Stored
        BY <1>1, <4>1
      <4>3. db'[i] = batch[i - nextId + 1]
        <5>1. i \in Ids \cup (nextId .. nextId + Len(batch) - 1)
          BY <1>6, <2>4, <3>2
        <5> QED
          BY <1>6, <4>1, <5>1
      <4> QED
        BY <4>1, <4>2, <4>3 DEF Numbers
    <3> QED
      BY <2>4, <3>1, <3>2
  <2>6. db' \in Table
    <3>1. db' = [i \in DOMAIN db' |-> db'[i]]
      BY <1>6
    <3>2. db' \in [DOMAIN db' -> Stored] /\ DOMAIN db' \in SUBSET Numbers
      BY <2>5, <3>1
    <3> QED
      BY <3>2 DEF Table
  <2>7. ASSUME NEW i \in Numbers PROVE RowKept(i) \/ i >= nextId
    <3>1. SUFFICES ASSUME i < nextId PROVE RowKept(i)
      BY <1>1 DEF Numbers
    <3>2. i \in DOMAIN db' <=> i \in Ids
      BY <1>1, <1>2, <2>4, <3>1
    <3> QED
      BY <1>6, <3>1, <3>2 DEF RowKept
  <2>8. nextId' \in Numbers /\ nextId <= nextId' /\ \A i \in DOMAIN db' : i < nextId'
    BY <1>2, <1>6, <2>5
  <2>9. Keyed(driver') /\ broken' \in BOOLEAN /\ requests' \in Nat
    BY <1>6 DEF RequestsInv, ManagerType
  <2>10. ~Heals /\ ~Reloading(client'[c]) /\ client'[c].pc # "write" /\ Rebuilt(client[c])'
    BY <1>6, <2>2 DEF Heals, Reloading, Rebuilt
  <2> QED
    BY <1>0, <2>1, <2>2, <2>6, <2>7, <2>8, <2>9, <2>10 DEF Effect
<1>7. ASSUME Goes(c, Idle), UNCHANGED <<db, nextId, driver, requests, broken>>
      PROVE  Effect(c)
  <2>1. client'[c] = Idle /\ Moved(c)
    BY <1>7, Goal, IdleTask DEF RequestsInv, Moved
  <2>2. Given(client'[c], nextId)
    BY <1>1, <1>5, <2>1
  <2> QED
    BY <1>0, <1>7, <2>1, <2>2, IdleTask, StayEffect DEF Reloading
<1> QED
  <2>1. UNCHANGED <<driver, requests, broken>>
    BY DEF InsertBatch
  <2>2. CASE Goes(c, Idle) /\ UNCHANGED <<db, nextId>>
    BY <1>7, <2>1, <2>2
  <2>3. CASE /\ db' = [i \in Ids \cup (nextId .. nextId + Len(batch) - 1) |-> IF i < nextId THEN db[i] ELSE batch[i - nextId + 1]]
             /\ nextId' = k
             /\ (Goes(c, n) \/ Goes(c, Idle))
    BY <1>6, <2>1, <2>3
  <2> QED
    <3>1. ASSUME Goes(c, IF \E i \in DOMAIN batch : batch[i].enabled
                        THEN [Idle EXCEPT !.pc = "clear", !.kind = x.kind] ELSE Idle)
          PROVE  Goes(c, n) \/ Goes(c, Idle)
      BY <3>1, Zenon DEF n
    <3> QED
      BY <2>2, <2>3, <3>1, Zenon DEF InsertBatch

(* A call that fails: the start again, the rollback, or the end. *)
LEMMA FailsShape ==
  ASSUME RequestsInv, NEW c \in Clients, Fails(c), client[c].pc \in {"add", "modify", "remove", "clear", "snapshot"}
  PROVE  /\ Moved(c) /\ Given(client'[c], nextId)
         /\ client'[c].kind = "start" => client[c].kind = "start"
         /\ \/ client'[c].pc = "clear" /\ client[c].kind = "start"
            \/ Rests(client'[c]) /\ client[c].undo = {}
            \/ /\ client'[c].pc = "undo" /\ client[c].undo # {}
               /\ client'[c].undo = client[c].undo /\ client'[c].id = client[c].id
<1> DEFINE x == client[c]
<1>0. IsTask(x) /\ Carries(x) /\ Given(x, nextId)
  BY DEF RequestsInv, ManagerType, Numbered
<1>1. ASSUME NEW p \in {"clear", "undo"}, GoesTo(c, p), p = "clear" <=> x.kind = "start", p = "undo" => x.undo # {}
      PROVE  /\ Moved(c) /\ Given(client'[c], nextId) /\ client'[c].kind = x.kind /\ client'[c].pc = p
             /\ client'[c].undo = x.undo /\ client'[c].id = x.id
  <2> DEFINE n == [x EXCEPT !.pc = p]
  <2>1. client'[c] = n /\ client' = [client EXCEPT ![c] = client'[c]]
    BY <1>1, Goal DEF RequestsInv, Goes, GoesTo
  <2>2. /\ IsTask(n) /\ n.pc = p /\ n.kind = x.kind /\ n.id = x.id /\ n.rule = x.rule /\ n.old = x.old
        /\ n.undo = x.undo /\ n.batch = x.batch /\ n.victims = x.victims
    BY <1>0, AtStep
  <2> HIDE DEF n
  <2>3. Carries(n) /\ Given(n, nextId)
    BY <1>0, <1>1, <2>2 DEF Carries, Given, Deciding, Working, Deleting, Reloading
  <2> QED
    BY <2>1, <2>2, <2>3 DEF Moved
<1>2. CASE x.kind = "start"
  BY <1>1, <1>2 DEF Fails
<1>3. CASE x.kind # "start" /\ x.undo = {}
  BY <1>3, EndsRests DEF Fails, Rests
<1>4. CASE x.kind # "start" /\ x.undo # {}
  BY <1>1, <1>4 DEF Fails
<1> QED
  BY <1>2, <1>3, <1>4

(* A call of the driver: it has done it, or the row is taken back. *)
LEMMA IoctlShape ==
  ASSUME RequestsInv, NEW c \in Clients, Ioctl(c)
  PROVE  /\ UNCHANGED <<db, nextId, groups, requests, broken>>
         /\ Moved(c) /\ Given(client'[c], nextId) /\ client'[c].kind # "start" /\ client[c].id # 0
         /\ \/ /\ Accepted(c) /\ Rests(client'[c]) /\ UNCHANGED faults
               /\ driver' = Dropping(<<client[c].id>>) \cup
                            {DirectEntry(client[c].id, r) : r \in IF At(c, "remove") THEN {} ELSE client[c].rule}
            \/ /\ UNCHANGED driver /\ ((~Accepted(c) /\ UNCHANGED faults) \/ Fault)
               /\ \/ Rests(client'[c]) /\ client[c].undo = {}
                  \/ /\ client'[c].pc = "undo" /\ client[c].undo # {}
                     /\ client'[c].undo = client[c].undo /\ client'[c].id = client[c].id
<1>1. /\ client[c].pc \in {"add", "modify", "remove"} /\ client[c].kind # "start" /\ client[c].id # 0
  BY DEF Ioctl, At, RequestsInv, ManagerType, Carries, Working, Reloading
<1>2. UNCHANGED <<db, nextId, groups, requests, broken>>
  BY DEF Ioctl
<1>3. CASE /\ Accepted(c) /\ Ends(c) /\ UNCHANGED faults
           /\ driver' = Dropping(<<client[c].id>>) \cup
                            {DirectEntry(client[c].id, r) : r \in IF At(c, "remove") THEN {} ELSE client[c].rule}
  BY <1>1, <1>2, <1>3, EndsRests DEF Rests
<1>4. CASE Fails(c) /\ UNCHANGED driver /\ ((~Accepted(c) /\ UNCHANGED faults) \/ Fault)
  BY <1>1, <1>2, <1>4, FailsShape
<1> QED
  BY <1>3, <1>4 DEF Ioctl

(* a call of the driver, *)
LEMMA IoctlEffect ==
  ASSUME RequestsInv, NEW c \in Clients, Ioctl(c)
  PROVE  Effect(c)
<1>1. /\ UNCHANGED <<db, nextId, requests, broken>>
      /\ Moved(c) /\ Given(client'[c], nextId) /\ client'[c].kind # "start" /\ client[c].id # 0
      /\ Rests(client'[c]) \/ client'[c].pc = "undo"
  BY IoctlShape
<1>2. UnderWay(c) /\ client[c].id \in Numbers
  BY <1>1 DEF Ioctl, At, UnderWay, RequestsInv, ManagerType, IsTask, Numbers
<1>3. Keyed(driver')
  <2>1. Keyed(driver)
    BY DEF RequestsInv, ManagerType
  <2>2. ASSUME NEW S, driver' = Dropping(<<client[c].id>>) \cup {DirectEntry(client[c].id, r) : r \in S}
        PROVE  Keyed(driver')
    <3>1. ASSUME NEW e \in driver' PROVE e.key[1] \in Numbers
      <4>1. CASE e \in driver
        BY <2>1, <4>1 DEF Keyed
      <4>2. CASE e \in {DirectEntry(client[c].id, r) : r \in S}
        <5>1. PICK r \in S : e = DirectEntry(client[c].id, r)
          BY <4>2
        <5>2. DirectEntry(client[c].id, r).key[1] = client[c].id
          BY EntryKeys
        <5> QED
          BY <1>2, <5>1, <5>2
      <4> QED
        BY <2>2, <3>1, <4>1, <4>2 DEF Dropping
    <3> QED
      BY <3>1 DEF Keyed
  <2> QED
    BY <2>1, <2>2, IoctlShape
<1>4. db' \in Table /\ (\A i \in DOMAIN db' : i < nextId) /\ \A i : RowKept(i)
  BY <1>1 DEF RequestsInv, ManagerType, Numbered, Ids, RowKept
<1>5. ~Reloading(client'[c]) /\ client'[c].pc # "write"
  BY <1>1 DEF Rests, Reloading
<1> QED
  BY <1>1, <1>2, <1>3, <1>4, <1>5, StepEffect

(* The row that a rollback leaves. *)
LEMMA UndoShape ==
  ASSUME RequestsInv, NEW c \in Clients, Undo(c)
  PROVE  /\ UNCHANGED <<nextId, groups, driver, requests, broken>>
         /\ Moved(c) /\ Given(client'[c], nextId) /\ Rests(client'[c]) /\ client[c].id \in Numbers
         /\ \/ /\ UNCHANGED faults
               /\ \E u \in client[c].undo :
                    /\ u = <<>> \/ u[1] \in Stored
                    /\ db' = IF u = <<>> THEN Without(client[c].id)
                             ELSE IF client[c].id \in Ids THEN With(client[c].id, u[1]) ELSE db
            \/ Fault /\ UNCHANGED db
<1>1. IsTask(client[c]) /\ Carries(client[c]) /\ client[c].pc = "undo"
  BY DEF Undo, At, RequestsInv, ManagerType
<1>2. client[c].id \in Numbers
  BY <1>1 DEF IsTask, Carries, Working, Numbers
<1>3. \A u \in client[c].undo : u = <<>> \/ u[1] \in Stored
  <2>1. ASSUME NEW u \in Backs PROVE u = <<>> \/ u[1] \in Stored
    <3>1. CASE \E r \in Stored : u = <<r>>
      BY <3>1
    <3> QED
      BY <3>1 DEF Backs
  <2> QED
    BY <1>1, <2>1 DEF IsTask
<1>4. Moved(c) /\ Given(client'[c], nextId) /\ Rests(client'[c])
  BY EndsRests DEF Undo
<1>5. UNCHANGED <<nextId, groups, driver, requests, broken>>
  BY DEF Undo
<1>6. CASE Fault /\ UNCHANGED db
  BY <1>2, <1>4, <1>5, <1>6
<1>7. ASSUME UNCHANGED faults, NEW u \in client[c].undo,
             db' = IF u = <<>> THEN Without(client[c].id)
                   ELSE IF client[c].id \in Ids THEN With(client[c].id, u[1]) ELSE db
      PROVE  /\ UNCHANGED faults
             /\ \E v \in client[c].undo :
                    /\ v = <<>> \/ v[1] \in Stored
                    /\ db' = IF v = <<>> THEN Without(client[c].id)
                             ELSE IF client[c].id \in Ids THEN With(client[c].id, v[1]) ELSE db
  BY <1>3, <1>7
<1> QED
  BY <1>2, <1>4, <1>5, <1>6, <1>7 DEF Undo

(* the answer to a failed one, *)
LEMMA UndoEffect ==
  ASSUME RequestsInv, NEW c \in Clients, Undo(c)
  PROVE  Effect(c)
<1> DEFINE i == client[c].id
<1>1. /\ UNCHANGED <<nextId, driver, requests, broken>>
      /\ Moved(c) /\ Given(client'[c], nextId) /\ Rests(client'[c]) /\ i \in Numbers
  BY UndoShape
<1>2. UnderWay(c) /\ Working(client[c]) /\ Keyed(driver')
  BY <1>1 DEF Undo, At, UnderWay, Working, RequestsInv, ManagerType
<1>3. db' \in Table /\ DOMAIN db' \subseteq Ids /\ \A j \in Ids : j # i => j \in DOMAIN db' /\ db'[j] = db[j]
  <2>1. CASE UNCHANGED db
    BY <2>1 DEF RequestsInv, ManagerType, Ids
  <2>2. CASE db' = Without(i)
    BY <2>2, WithoutTable
  <2>3. CASE i \in Ids /\ \E r \in Stored : db' = With(i, r)
    BY <1>1, <2>3, WithTable
  <2> QED
    BY <2>1, <2>2, <2>3, UndoShape
<1>4. \A j \in DOMAIN db' : j < nextId
  BY <1>3 DEF RequestsInv, Numbered
<1>5. \A j \in Numbers : RowKept(j) \/ (j = i /\ (Deciding(client[c]) \/ Working(client[c])))
  BY <1>2, <1>3 DEF RowKept
<1>6. ~Reloading(client'[c]) /\ client'[c].pc # "write" /\ client'[c].kind # "start"
  BY <1>1 DEF Rests, Reloading
<1> HIDE DEF i
<1> QED
  BY <1>1, <1>2, <1>3, <1>4, <1>5, <1>6, StepEffect DEF i

(* A step of a reload. *)
LEMMA ReloadEffect ==
  ASSUME RequestsInv, NEW c \in Clients, UnderWay(c), Moved(c), Given(client'[c], nextId),
         UNCHANGED <<db, nextId, requests>>, Keyed(driver'), broken',
         client'[c].kind = "start" => client[c].kind = "start", client'[c].pc # "write",
         c \notin overlapped => Rebuilt(client[c])'
  PROVE  Effect(c)
<1>1. /\ nextId \in Nat /\ nextId \in Numbers /\ requests \in Nat /\ db \in Table /\ \A i \in DOMAIN db : i < nextId
  BY DEF RequestsInv, ManagerType, Numbered, Numbers, Ids
<1>2. \A i : RowKept(i)
  BY DEF RowKept, Ids
<1>3. ~Heals
  BY DEF Heals
<1>4. broken' \in BOOLEAN
  OBVIOUS
<1> QED
  BY <1>1, <1>2, <1>3, <1>4 DEF Effect

(* and a reload, step by step. *)
LEMMA ClearEffect ==
  ASSUME RequestsInv, NEW c \in Clients, Clear(c)
  PROVE  Effect(c)
<1> DEFINE x == client[c]
<1>0. IsTask(x) /\ Carries(x) /\ Given(x, nextId) /\ x.pc = "clear" /\ UnderWay(c)
  BY DEF RequestsInv, ManagerType, Numbered, Clear, At, UnderWay
<1>1. broken' /\ UNCHANGED <<db, nextId, requests>>
  BY DEF Clear
<1>2. CASE driver' = {} /\ Goes(c, [x EXCEPT !.pc = "snapshot", !.clean = TRUE])
  <2> DEFINE n == [x EXCEPT !.pc = "snapshot", !.clean = TRUE]
  <2>1. client'[c] = n /\ client' = [client EXCEPT ![c] = client'[c]]
    BY <1>2, Goal DEF RequestsInv
  <2>2. /\ IsTask(n) /\ n.pc = "snapshot" /\ n.kind = x.kind /\ n.id = x.id /\ n.rule = x.rule /\ n.old = x.old
        /\ n.undo = x.undo /\ n.batch = x.batch /\ n.victims = x.victims
    BY <1>0 DEF IsTask, Fields
  <2> HIDE DEF n
  <2>3. Carries(n) /\ Given(n, nextId)
    BY <1>0, <2>2 DEF Carries, Given, Deciding, Working, Deleting, Reloading
  <2>4. Keyed(driver')
    BY <1>2 DEF Keyed
  <2>5. Rebuilt(client[c])'
    BY <1>2, <2>1, <2>2 DEF Rebuilt
  <2> QED
    BY <1>0, <1>1, <2>1, <2>2, <2>3, <2>4, <2>5, ReloadEffect DEF Moved
<1>3. CASE Fails(c) /\ UNCHANGED driver
  <2>1. Keyed(driver') /\ Moved(c) /\ Given(client'[c], nextId)
        /\ (client'[c].kind = "start" => x.kind = "start") /\ client'[c].pc \in {"clear", "idle", "victim", "undo"}
    BY <1>0, <1>3, FailsShape DEF Rests, RequestsInv, ManagerType
  <2>2. Rebuilt(client[c])'
    BY <2>1 DEF Rebuilt
  <2> QED
    BY <1>0, <1>1, <2>1, <2>2, ReloadEffect
<1> QED
  BY <1>2, <1>3 DEF Clear

LEMMA SnapshotEffect ==
  ASSUME RequestsInv, NEW c \in Clients, Snapshot(c)
  PROVE  Effect(c)
<1> DEFINE x == client[c]
<1>0. IsTask(x) /\ Carries(x) /\ Given(x, nextId) /\ x.pc = "snapshot" /\ UnderWay(c)
  BY DEF RequestsInv, ManagerType, Numbered, Snapshot, At, UnderWay
<1>1. broken' /\ UNCHANGED <<db, nextId, driver, requests>> /\ Keyed(driver')
  BY <1>0 DEF Snapshot, RequestsInv, Owed, Reloading, ManagerType
<1>2. CASE Goes(c, [x EXCEPT !.pc = "paths", !.snapshot = db])
  <2> DEFINE n == [x EXCEPT !.pc = "paths", !.snapshot = db]
  <2>0. db \in Table
    BY DEF RequestsInv, ManagerType
  <2>1. client'[c] = n /\ client' = [client EXCEPT ![c] = client'[c]]
    BY <1>2, Goal DEF RequestsInv
  <2>2. /\ IsTask(n) /\ n.pc = "paths" /\ n.kind = x.kind /\ n.id = x.id /\ n.rule = x.rule /\ n.old = x.old
        /\ n.undo = x.undo /\ n.batch = x.batch /\ n.victims = x.victims /\ n.snapshot = db
    BY <1>0, <2>0 DEF IsTask, Fields
  <2> HIDE DEF n
  <2>3. Carries(n) /\ Given(n, nextId)
    BY <1>0, <2>2 DEF Carries, Given, Deciding, Working, Deleting, Reloading
  <2>4. c \notin overlapped => Rebuilt(client[c])'
    <3>1. c \notin overlapped => driver = {}
      BY <1>0 DEF RequestsInv, ReloadRight, Rebuilt
    <3> QED
      BY <1>1, <2>1, <2>2, <3>1 DEF Rebuilt
  <2> QED
    BY <1>0, <1>1, <2>1, <2>2, <2>3, <2>4, ReloadEffect DEF Moved
<1>3. CASE Fails(c)
  <2>1. Moved(c) /\ Given(client'[c], nextId)
        /\ (client'[c].kind = "start" => x.kind = "start") /\ client'[c].pc \in {"clear", "idle", "victim", "undo"}
    BY <1>0, <1>3, FailsShape DEF Rests
  <2>2. Rebuilt(client[c])'
    BY <2>1 DEF Rebuilt
  <2> QED
    BY <1>0, <1>1, <2>1, <2>2, ReloadEffect
<1> QED
  BY <1>2, <1>3 DEF Snapshot

(* Members that could not be read are missing from the expansion. *)
LEMMA LostMembers ==
  ASSUME NEW t \in Table, NEW lost \in SUBSET Groups
  PROVE  Expansion(t, Found(lost)) \subseteq Expansion(t, members)
<1>1. SUFFICES ASSUME NEW e \in Expansion(t, Found(lost)) PROVE e \in Expansion(t, members)
  OBVIOUS
<1>2. CASE e \in {DirectEntry(id, t[id]) : id \in {j \in DOMAIN t : t[j].enabled /\ Direct(t[j])}}
  BY <1>2 DEF Expansion
<1>3. ASSUME NEW id \in DOMAIN t, t[id].enabled, t[id].remote_domain = {}, NEW g \in t[id].app_group_id,
             NEW i \in DOMAIN Found(lost)[g], e = MemberEntry(id, i, t[id], Found(lost)[g][i])
      PROVE  e \in Expansion(t, members)
  <2>1. g \in Groups
    BY TableShape DEF Stored, Rule
  <2>2. Found(lost)[g] = IF g \in lost THEN <<>> ELSE members[g]
    BY <2>1 DEF Found
  <2>3. Found(lost)[g] = members[g]
    BY <1>3, <2>2, EmptyTable
  <2>4. e = MemberEntry(id, i, t[id], members[g][i]) /\ i \in DOMAIN members[g]
    BY <1>3, <2>3
  <2> QED
    BY <1>3, <2>4 DEF Expansion
<1> QED
  BY <1>1, <1>2, <1>3 DEF Expansion

LEMMA LoadGroupPathsEffect ==
  ASSUME RequestsInv, NEW c \in Clients, LoadGroupPaths(c)
  PROVE  Effect(c)
<1> DEFINE x == client[c]
<1>0. IsTask(x) /\ Carries(x) /\ Given(x, nextId) /\ x.pc = "paths" /\ UnderWay(c)
  BY DEF RequestsInv, ManagerType, Numbered, LoadGroupPaths, At, UnderWay
<1>1. broken' /\ UNCHANGED <<db, nextId, members, driver, requests>> /\ Keyed(driver')
  BY <1>0 DEF LoadGroupPaths, groups, RequestsInv, Owed, Reloading, ManagerType
<1>2. ASSUME NEW paths, NEW ok \in BOOLEAN,
             Goes(c, [x EXCEPT !.pc = "load", !.snapshot = <<>>, !.clean = ok,
                               !.todo = Expansion(x.snapshot, paths)]),
             Expansion(x.snapshot, paths) \subseteq Expansion(x.snapshot, members),
             ok => Expansion(x.snapshot, paths) = Expansion(x.snapshot, members)
      PROVE  Effect(c)
  <2> DEFINE todo == Expansion(x.snapshot, paths)
             n == [x EXCEPT !.pc = "load", !.snapshot = <<>>, !.clean = ok, !.todo = todo]
  <2>1. client'[c] = n /\ client' = [client EXCEPT ![c] = client'[c]]
    BY <1>2, Goal DEF RequestsInv
  <2>2. Keyed(todo)
    BY <1>0, ExpansionKeyed DEF IsTask
  <2>3. c \notin overlapped => driver \cup todo \subseteq Expansion(db, members)
    BY <1>0, <1>2 DEF RequestsInv, ReloadRight, Rebuilt
  <2>4. c \notin overlapped /\ ok => driver \cup todo = Expansion(db, members)
    BY <1>0, <1>2 DEF RequestsInv, ReloadRight, Rebuilt
  <2> HIDE DEF todo
  <2>5. /\ IsTask(n) /\ n.pc = "load" /\ n.kind = x.kind /\ n.id = x.id /\ n.rule = x.rule /\ n.old = x.old
        /\ n.undo = x.undo /\ n.batch = x.batch /\ n.victims = x.victims /\ n.todo = todo
    BY <1>0, <2>2, EmptyTable DEF IsTask, Fields
  <2>6. n.clean => ok
    BY <1>0 DEF IsTask, Fields
  <2> HIDE DEF n
  <2>7. Carries(n) /\ Given(n, nextId)
    BY <1>0, <2>5 DEF Carries, Given, Deciding, Working, Deleting, Reloading
  <2>8. c \notin overlapped => Rebuilt(client[c])'
    <3>1. c \notin overlapped => driver' \cup client'[c].todo \subseteq Expansion(db', members')
      BY <1>1, <2>1, <2>3, <2>5
    <3>2. c \notin overlapped /\ client'[c].clean => driver' \cup client'[c].todo = Expansion(db', members')
      BY <1>1, <2>1, <2>4, <2>5, <2>6
    <3> QED
      BY <2>1, <2>5, <3>1, <3>2 DEF Rebuilt
  <2> QED
    BY <1>0, <1>1, <2>1, <2>5, <2>7, <2>8, ReloadEffect DEF Moved
<1>3. CASE Goes(c, [x EXCEPT !.pc = "load", !.snapshot = <<>>, !.todo = Expansion(x.snapshot, members)])
  <2>1. x.clean \in BOOLEAN
    BY <1>0 DEF IsTask
  <2>2. \A t : [x EXCEPT !.pc = "load", !.snapshot = <<>>, !.todo = t]
                = [x EXCEPT !.pc = "load", !.snapshot = <<>>, !.clean = x.clean, !.todo = t]
    BY <1>0 DEF IsTask, Fields
  <2>3. Goes(c, [x EXCEPT !.pc = "load", !.snapshot = <<>>, !.clean = x.clean,
                          !.todo = Expansion(x.snapshot, members)])
    BY <1>3, <2>2
  <2> QED
    BY <1>2, <2>1, <2>3
<1>4. ASSUME NEW lost \in SUBSET Groups,
             Goes(c, [x EXCEPT !.pc = "load", !.snapshot = <<>>, !.clean = FALSE,
                               !.todo = Expansion(x.snapshot, Found(lost))])
      PROVE  Effect(c)
  <2>1. Expansion(x.snapshot, Found(lost)) \subseteq Expansion(x.snapshot, members)
    BY <1>0, LostMembers DEF IsTask
  <2> QED
    BY <1>2, <1>4, <2>1
<1> QED
  BY <1>3, <1>4 DEF LoadGroupPaths

LEMMA LoadEffect ==
  ASSUME RequestsInv, NEW c \in Clients, Load(c)
  PROVE  Effect(c)
<1> DEFINE x == client[c]
<1>0. IsTask(x) /\ Carries(x) /\ Given(x, nextId) /\ x.pc = "load" /\ UnderWay(c)
  BY DEF RequestsInv, ManagerType, Numbered, Load, At, UnderWay
<1>1. broken /\ UNCHANGED <<db, nextId, members, requests>> /\ Keyed(driver) /\ Keyed(x.todo)
  BY <1>0 DEF Load, groups, RequestsInv, Owed, Reloading, ManagerType, IsTask
<1>2. CASE /\ Ends(c) /\ broken' = (broken /\ ~(x.clean /\ c \notin overlapped)) /\ UNCHANGED <<driver, faults>>
  <2>1. Moved(c) /\ Rests(client'[c]) /\ Given(client'[c], nextId)
    BY <1>2, EndsRests
  <2>2. Rebuilt(client[c])' /\ ~Reloading(client'[c]) /\ client'[c].pc # "write" /\ client'[c].kind # "start"
    BY <2>1 DEF Rests, Rebuilt, Reloading
  <2>3. /\ nextId \in Nat /\ nextId \in Numbers /\ requests \in Nat /\ db \in Table /\ \A i \in DOMAIN db : i < nextId
    BY DEF RequestsInv, ManagerType, Numbered, Numbers, Ids
  <2>4. \A i : RowKept(i)
    BY <1>1 DEF RowKept, Ids
  <2>5. Heals => c \notin overlapped
    BY <1>2 DEF Heals
  <2>6. broken' \in BOOLEAN
    BY <1>2, Zenon
  <2> QED
    BY <1>0, <1>1, <1>2, <2>1, <2>2, <2>3, <2>4, <2>5, <2>6 DEF Effect
<1>3. ASSUME NEW e \in x.todo, NEW ok, UNCHANGED broken, Loaded(c, e, ok),
             \/ ok /\ driver' = driver \cup {e}
             \/ ~ok /\ driver' = driver
      PROVE  Effect(c)
  <2> DEFINE n == [x EXCEPT !.todo = @ \ {e}, !.clean = @ /\ ok]
  <2>1. client'[c] = n /\ client' = [client EXCEPT ![c] = client'[c]]
    BY <1>3 DEF Loaded, RequestsInv, ManagerType
  <2>2. (x.clean /\ ok) \in BOOLEAN
    BY Zenon
  <2>3. /\ IsTask(n) /\ n.pc = "load" /\ n.kind = x.kind /\ n.id = x.id /\ n.rule = x.rule /\ n.old = x.old
        /\ n.undo = x.undo /\ n.batch = x.batch /\ n.victims = x.victims /\ n.todo = x.todo \ {e}
    BY <1>0, <1>1, <2>2 DEF IsTask, Fields, Keyed
  <2>4. n.clean => x.clean /\ ok
    BY <1>0 DEF IsTask, Fields
  <2> HIDE DEF n
  <2>5. Carries(n) /\ Given(n, nextId)
    BY <1>0, <2>3 DEF Carries, Given, Deciding, Working, Deleting, Reloading
  <2>6. c \notin overlapped => Rebuilt(client[c])'
    <3>1. SUFFICES ASSUME c \notin overlapped
                   PROVE  /\ driver' \cup n.todo \subseteq Expansion(db', members')
                          /\ n.clean => driver' \cup n.todo = Expansion(db', members')
      BY <2>1, <2>3 DEF Rebuilt
    <3>2. /\ driver \cup x.todo \subseteq Expansion(db, members)
          /\ x.clean => driver \cup x.todo = Expansion(db, members)
      BY <1>0, <3>1 DEF RequestsInv, ReloadRight, Rebuilt
    <3>3. driver' \cup n.todo \subseteq driver \cup x.todo
      BY <1>3, <2>3
    <3>4. n.clean => driver' \cup n.todo = driver \cup x.todo
      BY <1>3, <2>3, <2>4
    <3>5. UNCHANGED <<db, members>>
      BY <1>1
    <3> QED
      BY <2>4, <3>2, <3>3, <3>4, <3>5
  <2>7. Keyed(driver')
    BY <1>1, <1>3 DEF Keyed
  <2> QED
    BY <1>0, <1>1, <1>3, <2>1, <2>3, <2>5, <2>6, <2>7, ReloadEffect DEF Moved
<1>4. ASSUME NEW e \in x.todo, UNCHANGED broken,
             driver' = IF Addable(e.key) THEN driver \cup {e} ELSE driver, Loaded(c, e, Addable(e.key))
      PROVE  Effect(c)
  BY <1>3, <1>4
<1>5. ASSUME NEW e \in x.todo, UNCHANGED broken, UNCHANGED driver, Loaded(c, e, FALSE)
      PROVE  Effect(c)
  BY <1>3, <1>5
<1> QED
  BY <1>2, <1>4, <1>5 DEF Load
-----------------------------------------------------------------------------
(* The requests. *)
LEMMA BeginEffect ==
  ASSUME RequestsInv, NEW c \in Clients, NEW x, Begin(c, x), IsTask(x), Carries(x), Given(x, nextId),
         x.pc \notin {"idle", "write"}, ~Reloading(x), x.kind # "start"
  PROVE  Effect(c)
<1>1. client'[c] = x /\ client' = [client EXCEPT ![c] = client'[c]]
  BY Goal DEF RequestsInv, Begin
<1>2. /\ nextId \in Nat /\ nextId \in Numbers /\ requests \in Nat /\ db \in Table /\ \A i \in DOMAIN db : i < nextId
      /\ Keyed(driver) /\ broken \in BOOLEAN
  BY DEF RequestsInv, ManagerType, Numbered, Numbers, Ids
<1>3. UNCHANGED <<db, nextId, driver, broken>> /\ requests' \in Nat /\ \A d \in Clients : client[d].kind # "start"
  BY <1>2 DEF Begin
<1>4. \A i : RowKept(i)
  BY <1>3 DEF RowKept, Ids
<1>5. ~Heals /\ Rebuilt(client[c])'
  BY <1>1, <1>3 DEF Heals, Rebuilt, Reloading
<1> QED
  BY <1>1, <1>2, <1>3, <1>4, <1>5 DEF Effect, Moved

LEMMA FirstTask ==
  ASSUME RequestsInv, NEW n, n = [f \in Fields |-> n[f]],
         n.pc \in {"insert", "list", "guard", "read", "clear", "import"},
         n.kind \in {"create", "update", "delete", "uninstall", "enable", "disable",
                     "join", "leave", "switch", "merge", "replace"},
         n.pc \in {"list", "insert"} => n.batch = <<>> /\ n.kind = "create",
         Deciding(n) => n.id # 0 /\ n.kind \in {"update", "delete", "uninstall", "enable", "disable"},
         n.id = 0 \/ n.id \in Ids, n.rule \subseteq Rules, Single(n.rule), n.old = {}, n.undo = {}, n.todo = {},
         n.snapshot = <<>>, n.clean = FALSE, n.batch \in Seq(Rules), n.victims = {}
  PROVE  /\ IsTask(n) /\ Carries(n) /\ Given(n, nextId)
         /\ n.pc \notin {"idle", "write"} /\ ~Reloading(n) /\ n.kind # "start"
<1>1. n.clean \in BOOLEAN
  BY Zenon
<1>2. n.id \in Nat /\ n.id < nextId
  BY TableShape DEF RequestsInv, ManagerType, Numbered, Numbers, Ids
<1>3. n.rule \subseteq Stored /\ n.batch \in Seq(Stored)
  <2>1. Rules \subseteq Stored
    BY RulesStored
  <2>2. \A b \in Seq(Rules) : b \in Seq(Stored)
    BY <2>1
  <2> QED
    BY <2>1, <2>2
<1>4. IsTask(n)
  BY <1>1, <1>2, <1>3, EmptyTable DEF IsTask, Keyed
<1>5. Carries(n)
  BY DEF Carries, Single, Deciding, Working, Deleting, Reloading
<1> QED
  BY <1>2, <1>4, <1>5 DEF Given, Reloading

(* The requests that begin. *)
LEMMA CreateEffect ==
  ASSUME RequestsInv, NEW c \in Clients, NEW rule \in Rules, RequestCreate(c, rule)
  PROVE  Effect(c)
<1> DEFINE p == IF rule.system THEN "insert" ELSE "list"
           n == [Idle EXCEPT !.pc = p, !.kind = "create", !.rule = {rule}, !.asked = {rule}, !.before = driver]
<1>1. Begin(c, n)
  BY DEF RequestCreate
<1>2. p \in {"insert", "list"}
  OBVIOUS
<1> HIDE DEF p
<1>3. /\ n = [f \in Fields |-> n[f]] /\ n.pc = p /\ n.kind = "create" /\ n.id = 0 /\ n.rule = {rule}
      /\ n.old = {} /\ n.undo = {} /\ n.todo = {} /\ n.snapshot = <<>> /\ n.batch = <<>> /\ n.victims = {}
  BY DEF Idle, Fields
<1>4. n.clean = FALSE
  BY DEF Idle
<1> HIDE DEF n
<1>5. n.pc \in {"insert", "list"} /\ Single(n.rule) /\ n.rule \subseteq Rules /\ n.batch \in Seq(Rules)
  <2>1. n.rule = {rule} /\ n.batch = <<>> /\ n.pc = p
    BY <1>3
  <2>2. <<>> \in Seq(Rules)
    OBVIOUS
  <2> QED
    BY <1>2, <2>1, <2>2 DEF Single
<1>6. ~Deciding(n)
  BY <1>5 DEF Deciding
<1>7. /\ IsTask(n) /\ Carries(n) /\ Given(n, nextId)
      /\ n.pc \notin {"idle", "write"} /\ ~Reloading(n) /\ n.kind # "start"
  BY <1>3, <1>4, <1>5, <1>6, FirstTask
<1> QED
  BY <1>1, <1>7, BeginEffect

LEMMA ByIdEffect ==
  ASSUME RequestsInv, NEW c \in Clients, NEW id \in Ids, NEW p \in {"guard", "read"},
         NEW kind \in {"update", "delete", "uninstall", "enable", "disable"},
         NEW n, Begin(c, n), n = [f \in Fields |-> n[f]], n.pc = p, n.kind = kind, n.id = id,
         n.rule = {} \/ \E rule \in Rules : n.rule = {rule},
         n.old = {}, n.undo = {}, n.todo = {}, n.snapshot = <<>>, n.clean = FALSE, n.batch = <<>>, n.victims = {}
  PROVE  Effect(c)
<1>1. n.id # 0
  BY TableShape DEF RequestsInv, ManagerType, Numbers, Ids
<1>2. Single(n.rule) /\ n.rule \subseteq Rules
  BY DEF Single
<1>3. n.batch \in Seq(Rules)
  <2>1. <<>> \in Seq(Rules)
    OBVIOUS
  <2> QED
    BY <2>1
<1>4. /\ IsTask(n) /\ Carries(n) /\ Given(n, nextId)
      /\ n.pc \notin {"idle", "write"} /\ ~Reloading(n) /\ n.kind # "start"
  BY <1>1, <1>2, <1>3, FirstTask
<1> QED
  BY <1>4, BeginEffect

LEMMA ImportEffect ==
  ASSUME RequestsInv, NEW c \in Clients, NEW kind \in {"merge", "replace"}, NEW batch \in Batches,
         ImportRules(c, kind, batch)
  PROVE  Effect(c)
<1> DEFINE n == [Idle EXCEPT !.pc = "import", !.kind = kind, !.batch = batch]
<1>1. /\ n = [f \in Fields |-> n[f]] /\ n.pc = "import" /\ n.kind = kind /\ n.id = 0 /\ n.rule = {}
      /\ n.old = {} /\ n.undo = {} /\ n.todo = {} /\ n.snapshot = <<>> /\ n.batch = batch /\ n.victims = {}
  BY DEF Idle, Fields
<1>2. n.clean = FALSE
  BY DEF Idle
<1>3. Begin(c, n)
  BY DEF ImportRules
<1> HIDE DEF n
<1>4. Single(n.rule) /\ n.batch \in Seq(Rules) /\ ~Deciding(n)
  BY <1>1, ManagerAssumption DEF Single, Deciding
<1>5. /\ IsTask(n) /\ Carries(n) /\ Given(n, nextId)
      /\ n.pc \notin {"idle", "write"} /\ ~Reloading(n) /\ n.kind # "start"
  BY <1>1, <1>2, <1>4, FirstTask
<1> QED
  BY <1>3, <1>5, BeginEffect

LEMMA ReloadsEffect ==
  ASSUME RequestsInv, NEW c \in Clients, NEW kind \in {"join", "leave", "switch"}, Reloads(c, kind)
  PROVE  Effect(c)
<1> DEFINE n == [Idle EXCEPT !.pc = "clear", !.kind = kind]
<1>1. /\ n = [f \in Fields |-> n[f]] /\ n.pc = "clear" /\ n.kind = kind /\ n.id = 0 /\ n.rule = {}
      /\ n.old = {} /\ n.undo = {} /\ n.todo = {} /\ n.snapshot = <<>> /\ n.batch = <<>> /\ n.victims = {}
  BY DEF Idle, Fields
<1>2. n.clean = FALSE
  BY DEF Idle
<1>3. Begin(c, n)
  BY DEF Reloads
<1> HIDE DEF n
<1>4. Single(n.rule) /\ n.batch \in Seq(Rules) /\ ~Deciding(n)
  <2>1. n.rule = {} /\ n.batch = <<>> /\ n.pc = "clear"
    BY <1>1
  <2>2. <<>> \in Seq(Rules)
    OBVIOUS
  <2> QED
    BY <2>1, <2>2 DEF Single, Deciding
<1>5. /\ IsTask(n) /\ Carries(n) /\ Given(n, nextId)
      /\ n.pc \notin {"idle", "write"} /\ ~Reloading(n) /\ n.kind # "start"
  BY <1>1, <1>2, <1>4, FirstTask
<1> QED
  BY <1>3, <1>5, BeginEffect

(* A request, but for the two that begin elsewhere. *)
LEMMA RequestEffect ==
  ASSUME RequestsInv, NEW c \in Clients, Request(c)
  PROVE  \/ Effect(c) \/ Restart(c)
         \/ \E g \in Groups, T \in SUBSET Templates : SyncPredefinedMembers(c, g, T)
<1>1. ASSUME NEW rule \in Rules, NEW id \in Ids, RequestUpdate(c, id, rule) PROVE Effect(c)
  <2> DEFINE n == [Idle EXCEPT !.pc = "guard", !.kind = "update", !.id = id, !.rule = {rule}]
  <2>1. Begin(c, n)
    BY <1>1 DEF RequestUpdate
  <2>2. /\ n = [f \in Fields |-> n[f]] /\ n.pc = "guard" /\ n.kind = "update" /\ n.id = id /\ n.rule = {rule}
        /\ n.old = {} /\ n.undo = {} /\ n.todo = {} /\ n.snapshot = <<>> /\ n.batch = <<>> /\ n.victims = {}
    BY DEF Idle, Fields
  <2>3. n.clean = FALSE
    BY DEF Idle
  <2> HIDE DEF n
  <2> QED
    BY <2>1, <2>2, <2>3, ByIdEffect
<1>2. ASSUME NEW id \in Ids, NEW kind \in {"delete", "enable", "disable"}, RequestById(c, kind, id)
      PROVE  Effect(c)
  <2> DEFINE p == IF kind = "delete" THEN "guard" ELSE "read"
             n == [Idle EXCEPT !.pc = p, !.kind = kind, !.id = id]
  <2>1. Begin(c, n)
    BY <1>2 DEF RequestById
  <2>2. p \in {"guard", "read"}
    OBVIOUS
  <2> HIDE DEF p
  <2>3. /\ n = [f \in Fields |-> n[f]] /\ n.pc = p /\ n.kind = kind /\ n.id = id /\ n.rule = {}
        /\ n.old = {} /\ n.undo = {} /\ n.todo = {} /\ n.snapshot = <<>> /\ n.batch = <<>> /\ n.victims = {}
    BY DEF Idle, Fields
  <2>4. n.clean = FALSE
    BY DEF Idle
  <2> HIDE DEF n
  <2> QED
    BY <2>1, <2>2, <2>3, <2>4, ByIdEffect
<1>3. ASSUME NEW id \in Ids, Uninstall(c, id) PROVE Effect(c)
  <2> DEFINE n == [Idle EXCEPT !.pc = "read", !.kind = "uninstall", !.id = id]
  <2>1. Begin(c, n)
    BY <1>3 DEF Uninstall
  <2>2. /\ n = [f \in Fields |-> n[f]] /\ n.pc = "read" /\ n.kind = "uninstall" /\ n.id = id /\ n.rule = {}
        /\ n.old = {} /\ n.undo = {} /\ n.todo = {} /\ n.snapshot = <<>> /\ n.batch = <<>> /\ n.victims = {}
    BY DEF Idle, Fields
  <2>3. n.clean = FALSE
    BY DEF Idle
  <2> HIDE DEF n
  <2> QED
    BY <2>1, <2>2, <2>3, ByIdEffect
<1>4. ASSUME NEW g \in Groups, NEW path \in MemberPaths, AddMember(c, g, path) \/ RemoveMember(c, g, path)
      PROVE  Effect(c)
  BY <1>4, ReloadsEffect DEF AddMember, RemoveMember
<1>5. ASSUME NEW g \in Groups, NEW on \in BOOLEAN, SetGroupEnabled(c, g, on) PROVE Effect(c)
  BY <1>5, ReloadsEffect DEF SetGroupEnabled
<1> QED
  BY <1>1, <1>2, <1>3, <1>4, <1>5, CreateEffect, ImportEffect, Zenon DEF Request

(* The steps of no request. *)
LEMMA SyncKeeps ==
  ASSUME RequestsInv, NEW c \in Clients, NEW g \in Groups, NEW T \in SUBSET Templates,
         SyncPredefinedMembers(c, g, T), Observe
  PROVE  RequestsInv' /\ broken' /\ UNCHANGED <<db, driver, client, faults>>
<1>1. /\ UNCHANGED <<db, nextId, driver, client, faults>> /\ broken' /\ broken' \in BOOLEAN
      /\ requests' = requests + 1 /\ requests \in Nat /\ requests' > requests /\ requests' \in Nat
      /\ \A d \in Clients : client[d].kind # "start"
  BY DEF SyncPredefinedMembers, RequestsInv, ManagerType
<1>2. \A d \in Clients : d \in overlapped' <=> UnderWay(d)
  BY <1>1 DEF Observe, UnderWay
<1>3. ManagerType'
  <2>1. raced' \in BOOLEAN
    BY Zenon DEF Observe
  <2> QED
    BY <1>1, <2>1 DEF RequestsInv, ManagerType, Keyed
<1>4. Numbered' /\ Owed'
  BY <1>1 DEF RequestsInv, Numbered, Ids, Owed
<1>5. Alone'
  BY <1>1, <1>2 DEF Alone, UnderWay
<1>6. ReloadRight'
  <2>1. ASSUME NEW d \in Clients, d \notin overlapped' PROVE Rebuilt(client[d])'
    BY <1>1, <1>2, <2>1 DEF UnderWay, Rebuilt
  <2> QED
    BY <2>1 DEF ReloadRight
<1>7. OwnRow'
  <2>1. SUFFICES ASSUME ~raced' PROVE OwnRow'
    BY DEF OwnRow
  <2>2. ~raced
    BY <1>1, <2>1 DEF Observe
  <2>3. \A i : Row(i)' = Row(i)
    BY <1>1 DEF Row, Ids
  <2> QED
    BY <1>1, <2>2, <2>3 DEF RequestsInv, OwnRow, At, Row, Ids
<1> QED
  BY <1>1, <1>3, <1>4, <1>5, <1>6, <1>7 DEF RequestsInv

LEMMA StartTask ==
  ASSUME NEW n, n = [Idle EXCEPT !.pc = "clear", !.kind = "start"]
  PROVE  IsTask(n) /\ Carries(n) /\ n.pc = "clear" /\ n.kind = "start" /\ n.id = 0 /\ n.victims = {}
<1>1. /\ n = [f \in Fields |-> n[f]] /\ n.pc = "clear" /\ n.kind = "start" /\ n.id = 0 /\ n.rule = {}
      /\ n.old = {} /\ n.undo = {} /\ n.todo = {} /\ n.snapshot = <<>> /\ n.batch = <<>> /\ n.victims = {}
  BY DEF Idle, Fields
<1>2. n.clean \in BOOLEAN
  BY DEF Idle
<1>3. n.batch \in Seq(Stored) /\ n.id \in Nat /\ n.snapshot \in Table /\ Keyed(n.todo)
  <2>1. <<>> \in Seq(Stored)
    OBVIOUS
  <2>2. n.batch = <<>> /\ n.snapshot = <<>> /\ n.todo = {} /\ n.id = 0
    BY <1>1
  <2>3. n.snapshot \in Table
    BY <2>2, EmptyTable
  <2> QED
    <3>1. n.batch \in Seq(Stored)
      <4>1. n.batch = <<>>
        BY <2>2
      <4> QED
        BY <2>1, <4>1, Zenon
    <3>2. n.id \in Nat /\ Keyed(n.todo)
      BY <2>2 DEF Keyed
    <3> QED
      BY <2>3, <3>1, <3>2
<1>4. IsTask(n)
  BY <1>1, <1>2, <1>3 DEF IsTask
<1>5. Carries(n)
  BY <1>1 DEF Carries, Single, Deciding, Working, Deleting
<1> QED
  BY <1>1, <1>4, <1>5

(* A start that follows a crash begins from the table alone. *)
LEMMA RestartKeeps ==
  ASSUME RequestsInv, NEW c \in Clients, Restart(c), Observe
  PROVE  RequestsInv' /\ client'[c].pc = "clear" /\ UNCHANGED <<db, driver, members, broken>>
<1> DEFINE n == [Idle EXCEPT !.pc = "clear", !.kind = "start"]
<1>1. /\ UNCHANGED <<db, nextId, members, driver, faults, broken>> /\ requests' \in Nat
      /\ client' = [d \in Clients |-> IF d = c THEN n ELSE Idle]
  BY DEF Restart, groups, RequestsInv, ManagerType
<1>2. IsTask(n) /\ Carries(n) /\ n.pc = "clear" /\ n.kind = "start" /\ n.id = 0 /\ n.victims = {}
  BY StartTask
<1> HIDE DEF n
<1>3. client'[c] = n /\ \A d \in Clients : (client'[d] = n /\ d = c) \/ client'[d] = Idle
  BY <1>1
<1>4. \A d \in Clients : /\ client'[d].id = 0 /\ client'[d].victims = {} /\ client'[d].pc \in {"clear", "idle"}
                         /\ IsTask(client'[d]) /\ Carries(client'[d])
                         /\ client'[d].kind = "start" \/ client'[d].pc = "idle"
  BY <1>2, <1>3, IdleTask
<1>5. ManagerType'
  <2>1. raced' \in BOOLEAN
    BY Zenon DEF Observe
  <2>2. client' = [d \in Clients |-> client'[d]]
    BY <1>1
  <2> QED
    BY <1>1, <1>4, <2>1, <2>2 DEF RequestsInv, ManagerType, Keyed
<1>6. Numbered'
  <2>1. nextId' \in Nat /\ 0 < nextId' /\ \A i \in DOMAIN db' : i < nextId'
    BY <1>1 DEF RequestsInv, ManagerType, Numbers, Numbered, Ids
  <2> QED
    BY <1>4, <2>1 DEF Numbered, Given, Ids
<1>7. Owed' /\ ReloadRight'
  BY <1>4 DEF Owed, ReloadRight, Reloading, Rebuilt
<1>8. Alone'
  <2>1. \A d \in Clients : d \notin overlapped'
    BY <1>4 DEF Observe, UnderWay
  <2>2. \A d \in Clients : d # c => client'[d].pc = "idle"
    BY <1>3, IdleTask
  <2> QED
    BY <2>1, <2>2 DEF Alone, UnderWay
<1>9. OwnRow'
  BY <1>4 DEF OwnRow, At
<1> QED
  BY <1>1, <1>2, <1>3, <1>5, <1>6, <1>7, <1>8, <1>9 DEF RequestsInv

(* All steps of requests. *)
LEMMA StepsEffect ==
  ASSUME RequestsInv, NEW c \in Clients, Step(c)
  PROVE  Effect(c)
  BY ListRulesEffect, InsertEffect, GuardEffect, ReadEffect, WriteEffect, DeleteEffect, ListForImportEffect,
     NextVictimEffect, InsertBatchEffect, IoctlEffect, UndoEffect, ClearEffect, SnapshotEffect,
     LoadGroupPathsEffect, LoadEffect DEF Step

(* It holds at first, *)
LEMMA InitRequests == ManagerInit => RequestsInv
<1> SUFFICES ASSUME ManagerInit PROVE RequestsInv
  OBVIOUS
<1>1. /\ db = <<>> /\ nextId = 1 /\ driver = {} /\ client = [c \in Clients |-> Idle] /\ broken = FALSE
      /\ overlapped = {} /\ raced = FALSE /\ requests = 0
  BY DEF ManagerInit
<1>2. \A c \in Clients : client[c] = Idle
  BY <1>1
<1>3. ManagerType
  <2>1. broken \in BOOLEAN /\ raced \in BOOLEAN
    BY <1>1, Zenon
  <2>2. db \in Table /\ nextId \in Numbers /\ Keyed(driver) /\ requests \in Nat
    BY <1>1, EmptyTable DEF Numbers, Keyed
  <2> QED
    BY <1>1, <1>2, <2>1, <2>2, IdleTask DEF ManagerType
<1>4. Numbered
  BY <1>1, <1>2, EmptyTable, IdleTask DEF Numbered, Given, Ids
<1>5. Alone /\ Owed /\ ReloadRight /\ OwnRow
  BY <1>1, <1>2, IdleTask DEF Alone, UnderWay, Owed, Reloading, ReloadRight, Rebuilt, OwnRow, At
<1> QED
  BY <1>3, <1>4, <1>5 DEF RequestsInv

(* and every step preserves it. *)
LEMMA NextRequests ==
  ASSUME RequestsInv, [ManagerNext]_mvars
  PROVE  RequestsInv'
<1>1. ASSUME NEW c \in Clients, Request(c) \/ Step(c), Observe
      PROVE  RequestsInv'
  BY <1>1, RequestEffect, StepsEffect, EffectKeeps, SyncKeeps, RestartKeeps
<1>2. CASE UNCHANGED mvars
  <2>1. UNCHANGED <<db, nextId, members, driver, client, broken, overlapped, raced, requests>>
    BY <1>2 DEF mvars
  <2>2. ManagerType' /\ Numbered'
    BY <2>1 DEF RequestsInv, ManagerType, Numbered, Keyed, Ids
  <2>3. Alone' /\ Owed' /\ OwnRow'
    BY <2>1 DEF RequestsInv, Alone, UnderWay, Owed, OwnRow, At, Row, Ids
  <2>4. ReloadRight'
    BY <2>1 DEF RequestsInv, ReloadRight, Rebuilt
  <2> QED
    BY <2>2, <2>3, <2>4 DEF RequestsInv
<1> QED
  BY <1>1, <1>2 DEF ManagerNext

(* Whatever requests interleave and whichever calls fail: ids are given out once,
   a request that has met no other is alone, a reload that is alone puts together
   nothing but the expansion, and all of it if no read has failed and nothing was
   skipped, and a request that has its rule to itself knows the row (create_rule,
   update_rule, delete_rule, load_rules_to_driver). *)
THEOREM RequestsInvariant == ManagerSpec => []RequestsInv
<1>1. ManagerInit => RequestsInv
  BY InitRequests
<1>2. RequestsInv /\ [ManagerNext]_mvars => RequestsInv'
  BY NextRequests
<1> QED
  BY <1>1, <1>2, PTL DEF ManagerSpec
-----------------------------------------------------------------------------
(* A reload that settles what was owed. *)
LEMMA BrokenSteps ==
  ASSUME RequestsInv, NEW c \in Clients, Request(c) \/ Step(c), Heals
  PROVE  /\ Load(c) /\ client[c].todo = {} /\ client[c].clean /\ c \notin overlapped /\ Ends(c)
         /\ UNCHANGED <<db, members, driver, faults>>
<1>1. ~UNCHANGED broken /\ ~broken'
  BY DEF Heals, RequestsInv, ManagerType
<1>2. ~Request(c)
  BY <1>1 DEF Request, RequestCreate, RequestUpdate, RequestById, Uninstall, ImportRules, AddMember,
     RemoveMember, SetGroupEnabled, SyncPredefinedMembers, Restart, Reloads, Begin
<1>3. Load(c)
  BY <1>1, <1>2 DEF Step, ListRules, Insert, Guard, Read, WriteRow, DeleteRow, ListForImport, NextVictim,
     InsertBatch, Ioctl, Undo, Clear, Snapshot, LoadGroupPaths
<1>4. /\ client[c].todo = {} /\ Ends(c) /\ UNCHANGED <<driver, faults>>
      /\ broken' = (broken /\ ~(client[c].clean /\ c \notin overlapped))
  BY <1>1, <1>3 DEF Load
<1>5. client[c].clean /\ c \notin overlapped
  BY <1>4 DEF Heals
<1>6. UNCHANGED <<db, members>>
  BY <1>3 DEF Load, groups
<1> QED
  BY <1>3, <1>4, <1>5, <1>6

(* Only the end of a reload that is alone and skipped nothing settles what is owed. *)
LEMMA HealedDriver ==
  ASSUME RequestsInv, NEW c \in Clients, Request(c) \/ Step(c), Heals
  PROVE  driver' = Expansion(db', members')
<1>1. /\ Load(c) /\ client[c].todo = {} /\ client[c].clean /\ c \notin overlapped
      /\ UNCHANGED <<db, members, driver>>
  BY BrokenSteps
<1>2. client[c].pc = "load"
  BY <1>1 DEF Load, At
<1>3. driver \cup client[c].todo = Expansion(db, members)
  BY <1>1, <1>2 DEF RequestsInv, ReloadRight, Rebuilt
<1>4. driver = Expansion(db, members)
  BY <1>1, <1>3
<1> QED
  BY <1>1, <1>4

(* For any rules, groups, clients and failing calls, reads of group members among
   them: when load_rules_to_driver settles what was owed, the driver holds exactly
   the expansion of the table; a reload that is alone, and in which calls may fail,
   never has an entry in the driver that the table does not ask for, and until its
   end the repair is owed. *)
THEOREM ReloadsHeal == ManagerSpec => ReloadHeals
<1>1. ASSUME RequestsInv, [ManagerNext]_mvars
      PROVE  [/\ (broken /\ ~broken') => driver' = Expansion(db', members')
              /\ \A c \in Clients \ overlapped :
                   At(c, "load") => broken /\ driver \subseteq Expansion(db, members)]_mvars
  <2>1. ASSUME NEW c \in Clients \ overlapped, At(c, "load")
        PROVE  broken /\ driver \subseteq Expansion(db, members)
    BY <1>1, <2>1 DEF RequestsInv, Owed, Reloading, ReloadRight, Rebuilt, At
  <2>2. ~UNCHANGED mvars => ((broken /\ ~broken') => driver' = Expansion(db', members'))
    BY <1>1, HealedDriver DEF ManagerNext, Heals
  <2> QED
    BY <2>1, <2>2
<1> QED
  BY <1>1, RequestsInvariant, PTL DEF ManagerSpec, ReloadHeals
-----------------------------------------------------------------------------
(* What happens while no reload is owed, under way or about to be. *)
Calm == ~broken /\ ~raced /\ \A c \in Clients : ~At(c, "clear")
Wanted == Expansion(db, members)
Agrees(i) == Of(driver, i) = Of(Wanted, i)

(* An update neither gives a rule a domain nor takes one from it. *)
DomainsKept ==
  \A i \in Ids \cap DOMAIN db' : (db'[i].remote_domain = {}) <=> (db[i].remote_domain = {})

(* A row that no entry stands for: none, or one that is disabled. *)
Off(u) == u = <<>> \/ ~u[1].enabled

Stage(x) ==
  /\ x.pc = "add" =>
       /\ x.undo # {} /\ \A u \in x.undo : Off(u)
       /\ Of(driver, x.id) = {}
       /\ x.id \in Ids /\ x.rule = {db[x.id]} /\ db[x.id].enabled /\ Direct(db[x.id])
  /\ x.pc = "modify" =>
       /\ x.id \in Ids /\ x.rule = {db[x.id]} /\ db[x.id].enabled /\ Direct(db[x.id])
       /\ Of(driver, x.id) # {} /\ \A e \in Of(driver, x.id) : e.key = <<x.id>>
  /\ x.pc = "remove" =>
       /\ \A e \in Of(driver, x.id) : e.key = <<x.id>>
       /\ \/ x.id \in Ids /\ ~db[x.id].enabled /\ Of(driver, x.id) # {}
          \/ x.id \notin Ids /\ x.undo = {}
  /\ x.pc = "undo" => Of(driver, x.id) = {} /\ \A u \in x.undo : Off(u)

Busy(i) == \E c \in Clients : Working(client[c]) /\ client[c].id = i

Follows ==
  /\ \A c \in Clients : Stage(client[c])
  /\ \A i \in Numbers : Busy(i) \/ Agrees(i)

DriverFollows == Calm /\ faults = 0 => Follows

(* The entries of a row. *)
LEMMA WantedOf ==
  ASSUME RequestsInv, NEW i
  PROVE  /\ i \notin Ids => Of(Wanted, i) = {}
         /\ i \in Ids /\ (~db[i].enabled \/ db[i].remote_domain # {}) => Of(Wanted, i) = {}
         /\ i \in Ids /\ db[i].enabled /\ Direct(db[i]) => Of(Wanted, i) = {DirectEntry(i, db[i])}
<1>1. \A e : e \in Of(Wanted, i) <=> i \in Ids /\ Made(e, i, db[i], members)
  BY OfExpansion DEF RequestsInv, ManagerType, Wanted, Ids
<1>2. i \in Ids /\ db[i].enabled /\ Direct(db[i]) => \A e : Made(e, i, db[i], members) <=> e = DirectEntry(i, db[i])
  BY DEF Made, Direct
<1>3. i \in Ids /\ (~db[i].enabled \/ db[i].remote_domain # {}) => \A e : ~Made(e, i, db[i], members)
  BY DEF Made
<1> QED
  BY <1>1, <1>2, <1>3

(* What the table wants of a rule after a step, *)
LEMMA WantedAfter ==
  ASSUME RequestsInv', NEW i
  PROVE  /\ i \notin DOMAIN db' => Of(Wanted, i)' = {}
         /\ i \in DOMAIN db' /\ (~db'[i].enabled \/ db'[i].remote_domain # {}) => Of(Wanted, i)' = {}
         /\ i \in DOMAIN db' /\ db'[i].enabled /\ Direct(db'[i]) => Of(Wanted, i)' = {DirectEntry(i, db'[i])}
         /\ Of(driver', i) = Of(Wanted, i)' => Agrees(i)'
<1> DEFINE W == Of(Expansion(db', members'), i)
<1>1. \A e : e \in W <=> i \in DOMAIN db' /\ Made(e, i, db'[i], members')
  BY OfExpansion DEF RequestsInv, ManagerType
<1>2. i \in DOMAIN db' /\ db'[i].enabled /\ Direct(db'[i]) =>
        \A e : Made(e, i, db'[i], members') <=> e = DirectEntry(i, db'[i])
  BY DEF Made, Direct
<1>3. i \in DOMAIN db' /\ (~db'[i].enabled \/ db'[i].remote_domain # {}) => \A e : ~Made(e, i, db'[i], members')
  BY DEF Made
<1>4. Of(Wanted, i)' = W /\ Of(driver, i)' = Of(driver', i)
  BY DEF Of, Wanted
<1> HIDE DEF W
<1>5. Of(driver', i) = Of(Wanted, i)' => Agrees(i)'
  BY <1>4 DEF Agrees
<1> QED
  BY <1>1, <1>2, <1>3, <1>4, <1>5

(* and where a step leaves that alone. *)
LEMMA WantedKept ==
  ASSUME RequestsInv, RequestsInv', NEW i, RowKept(i), UNCHANGED members
  PROVE  Of(Wanted, i)' = Of(Wanted, i)
<1>1. \A e : e \in Of(Wanted, i) <=> i \in Ids /\ Made(e, i, db[i], members)
  BY OfExpansion DEF RequestsInv, ManagerType, Wanted, Ids
<1>2. \A e : e \in Of(Expansion(db', members'), i) <=> i \in DOMAIN db' /\ Made(e, i, db'[i], members')
  BY OfExpansion DEF RequestsInv, ManagerType
<1>3. Of(Expansion(db', members'), i) = Of(Wanted, i)
  <2>1. ASSUME NEW e PROVE e \in Of(Expansion(db', members'), i) <=> e \in Of(Wanted, i)
    BY <1>1, <1>2 DEF RowKept
  <2> QED
    BY <2>1 DEF Of
<1> QED
  BY <1>3 DEF Of, Wanted

Entries(i, S) == {DirectEntry(i, r) : r \in S}

LEMMA OfDropping ==
  ASSUME NEW i, NEW S,
         NEW after, after = Dropping(<<i>>) \cup Entries(i, S)
  PROVE  /\ \A j : j # i => Of(after, j) = Of(driver, j)
         /\ (\A e \in Of(driver, i) : e.key = <<i>>) => Of(after, i) = Entries(i, S)
<1>1. \A r : DirectEntry(i, r).key[1] = i
  BY EntryKeys
<1>2. ASSUME NEW j, j # i PROVE Of(after, j) = Of(driver, j)
  <2>1. ASSUME NEW e PROVE e \in Of(after, j) <=> e \in Of(driver, j)
    <3>1. e \in Entries(i, S) => e.key[1] # j
      BY <1>1, <1>2 DEF Entries
    <3>2. e.key = <<i>> => e.key[1] # j
      BY <1>2
    <3> QED
      BY <3>1, <3>2 DEF Of, Dropping
  <2> QED
    BY <2>1 DEF Of
<1>3. ASSUME \A e \in Of(driver, i) : e.key = <<i>> PROVE Of(after, i) = Entries(i, S)
  <2>1. ASSUME NEW e PROVE e \in Of(after, i) <=> e \in Entries(i, S)
    <3>1. e \in Entries(i, S) => e.key[1] = i
      BY <1>1 DEF Entries
    <3>2. e \in Dropping(<<i>>) => e.key[1] # i
      BY <1>3 DEF Of, Dropping
    <3> QED
      BY <3>1, <3>2 DEF Of
  <2> QED
    BY <2>1
<1> QED
  BY <1>2, <1>3
-----------------------------------------------------------------------------
(* One step, seen from the rule it is at. *)
Still(i) == RowKept(i) /\ Of(driver', i) = Of(driver, i)
WorksOn(x, i) == Working(x) /\ x.id = i

StepFollows(c) ==
  /\ UNCHANGED members /\ Stage(client[c])'
  /\ \A i \in Numbers :
       /\ Still(i) \/ i = client[c].id \/ i >= nextId
       /\ (Still(i) /\ ~WorksOn(client[c], i)) \/ WorksOn(client'[c], i) \/ Agrees(i)'

(* A request that does not move keeps its stage. *)
LEMMA StageKept ==
  ASSUME NEW c \in Clients, NEW d \in Clients, client'[d] = client[d], Stage(client[d]),
         Working(client[d]) => Still(client[d].id)
  PROVE  Stage(client[d])'
<1>1. CASE ~Working(client[d])
  BY <1>1 DEF Stage, Working
<1>2. CASE Working(client[d])
  <2>1. PICK x : x = client[d]
    OBVIOUS
  <2>2. /\ x.id \in DOMAIN db' <=> x.id \in Ids
        /\ x.id \in Ids => db'[x.id] = db[x.id]
        /\ Of(driver', x.id) = Of(driver, x.id)
    BY <1>2, <2>1 DEF Still, RowKept
  <2>3. Stage(x)
    BY <2>1
  <2>4. Stage(x)'
    BY <2>2, <2>3 DEF Stage, Ids, Of
  <2> QED
    BY <2>1, <2>4
<1> QED
  BY <1>1, <1>2

(* What a step has to show of its own rule and of the others. *)
LEMMA KeepsFollowing ==
  ASSUME RequestsInv, RequestsInv', Calm, Follows, NEW c \in Clients, Moved(c), StepFollows(c)
  PROVE  Follows'
<1>1. \A d \in Clients : d # c => client'[d] = client[d]
  BY OthersStay DEF RequestsInv
<1>2. ASSUME NEW d \in Clients PROVE Stage(client[d])'
  <2>1. CASE d = c
    BY <2>1 DEF StepFollows
  <2>2. CASE d # c
    <3>1. ASSUME Working(client[d]) PROVE Still(client[d].id)
      <4>1. client[d].id \in Numbers /\ client[d].id < nextId /\ nextId \in Nat /\ client[d].id # client[c].id
        BY <2>2, <3>1 DEF RequestsInv, ManagerType, Numbered, Given, IsTask, Carries, Numbers, OwnRow, Calm
      <4> QED
        BY <4>1 DEF StepFollows, Numbers
    <3> QED
      BY <1>1, <2>2, <3>1, StageKept DEF Follows
  <2> QED
    BY <2>1, <2>2
<1>3. ASSUME NEW i \in Numbers, ~Busy(i)' PROVE Agrees(i)'
  <2>1. ~WorksOn(client'[c], i)
    BY <1>3 DEF Busy, WorksOn, Working
  <2>2. CASE Still(i) /\ ~WorksOn(client[c], i)
    <3>1. ~Busy(i)
      BY <1>1, <1>3, <2>2 DEF Busy, WorksOn, Working
    <3>2. Agrees(i)
      BY <1>3, <3>1 DEF Follows
    <3>3. Of(Wanted, i)' = Of(Wanted, i)
      BY <2>2, WantedKept DEF StepFollows, Still
    <3>4. Of(driver, i)' = Of(driver', i)
      BY DEF Of
    <3> QED
      BY <2>2, <3>2, <3>3, <3>4 DEF Agrees, Still
  <2> QED
    BY <1>3, <2>1, <2>2 DEF StepFollows
<1> QED
  BY <1>2, <1>3 DEF Follows

(* Nothing but the task has changed. *)
LEMMA QuietFollows ==
  ASSUME NEW c \in Clients, UNCHANGED <<db, members, driver>>, ~Working(client[c]), ~Working(client'[c])
  PROVE  StepFollows(c)
<1>1. \A i : Still(i)
  BY DEF Still, RowKept, Ids
<1>2. Stage(client[c])'
  BY DEF Stage, Working
<1> QED
  BY <1>1, <1>2 DEF StepFollows, WorksOn

(* A rule that no task works on stands as it should. *)
LEMMA NewIdFree ==
  ASSUME RequestsInv, Follows, NEW i \in Numbers, i >= nextId
  PROVE  Of(driver, i) = {} /\ i \notin Ids /\ \A c \in Clients : client[c].id # i
<1>1. i \notin Ids /\ \A c \in Clients : client[c].id # i
  <2>1. nextId \in Nat /\ i \in Nat /\ ~(i < nextId)
    BY DEF RequestsInv, ManagerType, Numbers
  <2> QED
    BY <2>1 DEF RequestsInv, Numbered, Given
<1>2. Agrees(i)
  BY <1>1 DEF Follows, Busy
<1> QED
  BY <1>1, <1>2, WantedOf DEF Agrees

(* The rule of a request before its first step at it. *)
LEMMA OwnRowAgrees ==
  ASSUME RequestsInv, Calm, Follows, NEW c \in Clients, At(c, "write")
  PROVE  /\ client[c].id \in Numbers /\ client[c].id < nextId
         /\ client[c].old = Row(client[c].id) /\ Agrees(client[c].id)
<1>1. client[c].id \in Numbers /\ client[c].id < nextId /\ client[c].id # 0
  BY DEF At, RequestsInv, ManagerType, Numbered, Given, IsTask, Carries, Deciding, Numbers
<1>2. client[c].old = Row(client[c].id) /\ \A d \in Clients : d # c => client[d].id # client[c].id
  BY <1>1 DEF RequestsInv, OwnRow, Calm
<1>3. ~Busy(client[c].id)
  BY <1>2 DEF Busy, At, Working
<1> QED
  BY <1>1, <1>2, <1>3 DEF Follows

(* One rule is the whole of the step. *)
LEMMA OneRule ==
  ASSUME NEW c \in Clients, NEW i, UNCHANGED members, Stage(client[c])',
         i = client[c].id \/ i >= nextId, Working(client[c]) => client[c].id = i,
         \A j \in Numbers : j # i => Still(j),
         WorksOn(client'[c], i) \/ Agrees(i)'
  PROVE  StepFollows(c)
  BY DEF StepFollows, WorksOn

(* The driver follows each step: the row of a creation, *)
LEMMA InsertFollows ==
  ASSUME RequestsInv, RequestsInv', Follows, Calm', NEW c \in Clients, Insert(c)
  PROVE  StepFollows(c)
<1>0. PICK i : i = nextId
  OBVIOUS
<1>1. PICK rule \in client[c].rule :
           /\ rule \in Stored /\ db' = With(i, rule)
           /\ UNCHANGED <<groups, driver>>
           /\ IF rule.enabled /\ rule.remote_domain = {}
              THEN /\ client'[c].pc = IF rule.app_group_id = {} THEN "add" ELSE "clear"
                   /\ client'[c].id = i /\ client'[c].undo = {<<>>}
                   /\ client'[c].rule = {rule}
              ELSE client'[c] = Idle
  BY <1>0, InsertShape
<1>2. i \in Numbers /\ i >= nextId /\ ~Working(client[c]) /\ UNCHANGED members
  BY <1>0, <1>1 DEF RequestsInv, ManagerType, Numbers, Insert, At, Working, groups
<1>3. Of(driver, i) = {} /\ Of(driver', i) = {}
  BY <1>1, <1>2, NewIdFree
<1>4. /\ DOMAIN db' = Ids \cup {i} /\ db'[i] = rule /\ \A j \in Ids : j # i => db'[j] = db[j]
  <2>1. db' = With(i, rule) /\ rule \in Stored /\ i \in Numbers
    BY <1>1, <1>2
  <2> QED
    BY <2>1, WithTable
<1>5. \A j : j # i => Still(j)
  BY <1>1, <1>4 DEF Still, RowKept
<1>6. CASE rule.enabled /\ rule.remote_domain = {}
  <2>1. client'[c].pc # "clear"
    BY DEF Calm, At
  <2>2. client'[c].pc = "add" /\ rule.app_group_id = {}
    BY <1>1, <1>6, <2>1
  <2>3. Stage(client[c])'
    <3>1. \A u \in client'[c].undo : u = <<>>
      BY <1>1, <1>6
    <3>2. client'[c].undo # {} /\ client'[c].id = i /\ client'[c].rule = {rule}
      BY <1>1, <1>6
    <3>3. PICK y : y = client'[c]
      OBVIOUS
    <3>4. y.pc = "add" /\ y.id = i /\ y.rule = {db'[i]} /\ y.undo # {} /\ \A u \in y.undo : Off(u)
      BY <1>4, <2>2, <3>1, <3>2, <3>3 DEF Off
    <3>5. i \in DOMAIN db' /\ db'[i].enabled /\ Direct(db'[i])
      BY <1>4, <1>6, <2>2 DEF Direct
    <3>6. Stage(y)'
      BY <1>3, <3>4, <3>5 DEF Stage, Ids, Of
    <3> QED
      BY <3>3, <3>6
  <2>4. WorksOn(client'[c], i)
    BY <1>1, <1>6, <2>2 DEF WorksOn, Working
  <2> QED
    BY <1>2, <1>5, <2>3, <2>4, OneRule
<1>7. CASE ~(rule.enabled /\ rule.remote_domain = {})
  <2>1. client'[c].pc = "idle"
    BY <1>1, <1>7, IdleTask
  <2>2. Stage(client[c])'
    BY <2>1 DEF Stage
  <2>3. Agrees(i)'
    <3>1. i \in DOMAIN db' /\ (~db'[i].enabled \/ db'[i].remote_domain # {})
      BY <1>4, <1>7
    <3> QED
      BY <1>3, <3>1, WantedAfter
  <2> QED
    BY <1>2, <1>5, <2>2, <2>3, OneRule
<1> QED
  BY <1>6, <1>7

(* What is put back is disabled wherever the driver was to add. *)
LEMMA OffRestores ==
  ASSUME NEW rule \in Stored
  PROVE  Restores(rule, FALSE) # {} /\ \A u \in Restores(rule, FALSE) : Off(u)
<1>1. PICK r : r = [rule EXCEPT !.enabled = FALSE]
  OBVIOUS
<1>2. ~r.enabled
  BY <1>1 DEF Stored, Rule
<1>3. Restores(rule, FALSE) = {<<r>>}
  BY <1>1 DEF Restores
<1>4. Off(<<r>>)
  BY <1>2 DEF Off
<1> QED
  BY <1>3, <1>4, Zenon

(* of an update or a switch, *)
LEMMA WriteFollows ==
  ASSUME RequestsInv, RequestsInv', Calm, Follows, Calm', DomainsKept, NEW c \in Clients, WriteRow(c)
  PROVE  StepFollows(c)
<1>0. PICK i : i = client[c].id
  OBVIOUS
<1>1. PICK rule \in Stored, old \in Stored :
         /\ client[c].old = {old}
         /\ db' = IF i \in Ids THEN With(i, rule) ELSE db
         /\ Told(client'[c], client[c], old, rule)
  BY <1>0, WriteShape
<1>2. /\ UNCHANGED <<groups, driver>> /\ At(c, "write") /\ ~Working(client[c]) /\ UNCHANGED members
  BY WriteShape DEF WriteRow, At, Working, groups
<1>3. i \in Numbers /\ client[c].old = Row(i) /\ Agrees(i)
  BY <1>0, <1>2, OwnRowAgrees
<1>4. i \in Ids /\ db[i] = old /\ db' = With(i, rule)
  <2>1. Row(i) = {old}
    BY <1>1, <1>3
  <2>2. i \in Ids /\ db[i] = old
    BY <2>1 DEF Row
  <2> QED
    BY <1>1, <2>2
<1>5. DOMAIN db' = Ids /\ db'[i] = rule /\ \A j \in Ids : j # i => db'[j] = db[j]
  <2>1. DOMAIN db' = Ids \cup {i} /\ db'[i] = rule /\ \A j \in Ids : j # i => db'[j] = db[j]
    BY <1>3, <1>4, WithTable
  <2> QED
    BY <1>4, <2>1
<1>6. \A j : j # i => Still(j)
  BY <1>2, <1>5 DEF Still, RowKept
<1>7. Of(driver', i) = Of(Wanted, i)
  BY <1>2, <1>3 DEF Agrees
<1>8. PICK y : y = client'[c]
  OBVIOUS
<1>9. y.pc # "clear"
  BY <1>8 DEF Calm, At
<1>10. CASE y = Idle /\ (old.remote_domain # {} \/ rule.remote_domain # {} \/ ~(old.enabled \/ rule.enabled))
  <2>1. (~old.enabled \/ old.remote_domain # {}) /\ (~rule.enabled \/ rule.remote_domain # {})
    BY <1>4, <1>5, <1>10 DEF DomainsKept
  <2>2. Of(Wanted, i) = {}
    BY <1>4, <2>1, WantedOf
  <2>3. Of(Wanted, i)' = {} /\ (Of(driver', i) = Of(Wanted, i)' => Agrees(i)')
    BY <1>4, <1>5, <2>1, WantedAfter
  <2>4. Agrees(i)'
    BY <1>7, <2>2, <2>3
  <2>5. Stage(client[c])'
    BY <1>8, <1>10, IdleTask DEF Stage
  <2> QED
    BY <1>0, <1>2, <1>6, <2>4, <2>5, OneRule
<1>11. CASE /\ Direct(old) /\ Direct(rule) /\ y.id = i /\ y.rule = {rule}
            /\ \/ y.pc = "add" /\ ~old.enabled /\ rule.enabled /\ y.undo = Restores(rule, FALSE)
               \/ y.pc = "modify" /\ old.enabled /\ rule.enabled /\ y.undo = {<<old>>}
               \/ y.pc = "remove" /\ old.enabled /\ ~rule.enabled /\ y.undo = Restores(rule, TRUE)
  <2>1. WorksOn(client'[c], i)
    BY <1>8, <1>11 DEF WorksOn, Working
  <2>2. i \in DOMAIN db' /\ y.rule = {db'[i]} /\ Direct(db'[i]) /\ (db'[i].enabled <=> rule.enabled)
    BY <1>4, <1>5, <1>11
  <2>3. ~old.enabled => Of(driver', i) = {}
    BY <1>4, <1>7, WantedOf
  <2>4. old.enabled => Of(driver', i) # {} /\ \A e \in Of(driver', i) : e.key = <<i>>
    <3>1. old.enabled => Of(driver', i) = {DirectEntry(i, old)}
      BY <1>4, <1>7, <1>11, WantedOf
    <3>2. DirectEntry(i, old).key = <<i>>
      BY EntryKeys
    <3> QED
      BY <3>1, <3>2
  <2>5. y.undo = Restores(rule, FALSE) => y.undo # {} /\ \A u \in y.undo : Off(u)
    BY OffRestores
  <2>6. Stage(y)'
    <3>1. CASE y.pc = "add" /\ ~old.enabled /\ rule.enabled /\ y.undo = Restores(rule, FALSE)
      BY <1>11, <2>2, <2>3, <2>5, <3>1 DEF Stage, Ids, Of
    <3>2. CASE y.pc = "modify" /\ old.enabled /\ rule.enabled
      BY <1>11, <2>2, <2>4, <3>2 DEF Stage, Ids, Of
    <3>3. CASE y.pc = "remove" /\ old.enabled /\ ~rule.enabled
      BY <1>11, <2>2, <2>4, <3>3 DEF Stage, Ids, Of
    <3> QED
      BY <1>11, <3>1, <3>2, <3>3
  <2>7. Stage(client[c])'
    BY <1>8, <2>6
  <2> QED
    BY <1>0, <1>2, <1>6, <2>1, <2>7, OneRule
<1> QED
  BY <1>0, <1>1, <1>8, <1>9, <1>10, <1>11 DEF Told

(* of a deletion, *)
LEMMA DeleteFollows ==
  ASSUME RequestsInv, RequestsInv', Calm, Follows, Calm', NEW c \in Clients, DeleteRow(c)
  PROVE  StepFollows(c)
<1>0. PICK i : i = client[c].id
  OBVIOUS
<1>8. PICK y : y = client'[c]
  OBVIOUS
<1>1. /\ UNCHANGED <<groups, driver>> /\ db' = Without(i)
      /\ \/ Rests(y) /\ \E old \in client[c].old : old.remote_domain # {}
         \/ y.pc = "clear"
         \/ y.pc = "remove" /\ y.id = i /\ y.undo = {} /\ \A old \in client[c].old : Direct(old)
  BY <1>0, <1>8, DeleteShape
<1>2. /\ At(c, "write") /\ ~Working(client[c]) /\ UNCHANGED members
  BY <1>1 DEF DeleteRow, At, Working, groups
<1>3. i \in Numbers /\ client[c].old = Row(i) /\ Agrees(i)
  BY <1>0, <1>2, OwnRowAgrees
<1>4. DOMAIN db' = Ids \ {i} /\ \A j \in Ids \ {i} : db'[j] = db[j]
  BY <1>1, WithoutTable
<1>5. \A j : j # i => Still(j)
  BY <1>1, <1>4 DEF Still, RowKept
<1>6. Of(driver', i) = Of(Wanted, i)
  BY <1>1, <1>3 DEF Agrees
<1>7. y.pc # "clear"
  BY <1>8 DEF Calm, At
<1>9. CASE Rests(y) /\ \E old \in client[c].old : old.remote_domain # {}
  <2>1. i \in Ids /\ db[i].remote_domain # {}
    BY <1>3, <1>9 DEF Row
  <2>2. Of(Wanted, i) = {}
    BY <2>1, WantedOf
  <2>3. Agrees(i)'
    BY <1>4, <1>6, <2>2, WantedAfter
  <2>4. Stage(client[c])'
    BY <1>8, <1>9 DEF Rests, Stage
  <2> QED
    BY <1>0, <1>2, <1>5, <2>3, <2>4, OneRule
<1>10. CASE y.pc = "remove" /\ y.id = i /\ y.undo = {} /\ \A old \in client[c].old : Direct(old)
  <2>1. \A e \in Of(driver', i) : e.key = <<i>>
    <3>1. CASE i \in Ids /\ db[i].enabled
      <4>1. Direct(db[i])
        BY <1>3, <1>10, <3>1 DEF Row
      <4>2. Of(driver', i) = {DirectEntry(i, db[i])}
        BY <1>6, <3>1, <4>1, WantedOf
      <4> QED
        BY <4>2, EntryKeys
    <3>2. CASE ~(i \in Ids /\ db[i].enabled)
      BY <1>6, <3>2, WantedOf
    <3> QED
      BY <3>1, <3>2
  <2>2. Stage(y)'
    BY <1>4, <1>10, <2>1 DEF Stage, Ids, Of
  <2>3. Stage(client[c])' /\ WorksOn(client'[c], i)
    BY <1>8, <1>10, <2>2 DEF WorksOn, Working
  <2> QED
    BY <1>0, <1>2, <1>5, <2>3, OneRule
<1> QED
  BY <1>1, <1>7, <1>9, <1>10

(* A batch without an enabled rule, the only kind after which nothing reloads. *)
BatchOff(c) ==
  /\ client'[c] = Idle
  /\ \A i \in Numbers : i < nextId => RowKept(i)
  /\ \A i \in Numbers : i >= nextId /\ i \in DOMAIN db' => ~db'[i].enabled

LEMMA BatchIsOff ==
  ASSUME RequestsInv, Calm', NEW c \in Clients,
         db' = [i \in Ids \cup (nextId .. nextId + Len(client[c].batch) - 1) |->
                  IF i < nextId THEN db[i] ELSE client[c].batch[i - nextId + 1]],
         Goes(c, IF \E i \in DOMAIN client[c].batch : client[c].batch[i].enabled
                 THEN [Idle EXCEPT !.pc = "clear", !.kind = client[c].kind] ELSE Idle)
  PROVE  BatchOff(c)
<1> DEFINE batch == client[c].batch
<1>1. nextId \in Nat /\ batch \in Seq(Stored) /\ Len(batch) \in Nat
  BY DEF RequestsInv, ManagerType, Numbers, IsTask
<1>2. \A i \in Ids : i < nextId /\ i \in Nat
  BY TableShape DEF RequestsInv, ManagerType, Numbered, Numbers, Ids
<1>3. ~\E i \in DOMAIN batch : batch[i].enabled
  <2>1. SUFFICES ASSUME \E i \in DOMAIN batch : batch[i].enabled PROVE FALSE
    OBVIOUS
  <2>2. Goes(c, [Idle EXCEPT !.pc = "clear", !.kind = client[c].kind])
    BY <2>1, Zenon
  <2>3. client'[c] = [Idle EXCEPT !.pc = "clear", !.kind = client[c].kind]
    BY <2>2, Goal DEF RequestsInv
  <2>4. client'[c].pc = "clear"
    BY <2>3 DEF Idle
  <2> QED
    BY <2>4 DEF Calm, At
<1>4. client'[c] = Idle
  <2>1. Goes(c, Idle)
    BY <1>3, Zenon
  <2> QED
    BY <2>1, Goal DEF RequestsInv
<1>5. ASSUME NEW i \in Numbers, i < nextId PROVE RowKept(i)
  <2>1. i \in Nat
    BY DEF Numbers
  <2>2. i \notin nextId .. nextId + Len(batch) - 1
    BY <1>1, <1>5, <2>1
  <2>3. DOMAIN db' = Ids \cup (nextId .. nextId + Len(batch) - 1)
    OBVIOUS
  <2>4. i \in Ids => db'[i] = db[i]
    BY <1>5
  <2> QED
    BY <2>2, <2>3, <2>4 DEF RowKept
<1>6. ASSUME NEW i \in Numbers, i >= nextId, i \in DOMAIN db' PROVE ~db'[i].enabled
  <2>1. i \in Ids \cup (nextId .. nextId + Len(batch) - 1)
    BY <1>6
  <2>2. i \in Nat /\ ~(i < nextId)
    BY <1>1, <1>6 DEF Numbers
  <2>3. i \in nextId .. nextId + Len(batch) - 1
    BY <1>2, <2>1, <2>2
  <2>4. i - nextId + 1 \in 1 .. Len(batch)
    BY <1>1, <2>2, <2>3
  <2>5. i - nextId + 1 \in DOMAIN batch
    BY <1>1, <2>4
  <2>6. db'[i] = batch[i - nextId + 1]
    BY <2>1, <2>2
  <2> QED
    BY <1>3, <2>5, <2>6
<1> QED
  BY <1>4, <1>5, <1>6 DEF BatchOff

(* the rows of an import, which are disabled, *)
LEMMA InsertBatchFollows ==
  ASSUME RequestsInv, RequestsInv', Follows, Calm', NEW c \in Clients, InsertBatch(c)
  PROVE  StepFollows(c)
<1> DEFINE batch == client[c].batch
<1>0. UNCHANGED <<members, driver>> /\ ~Working(client[c])
  BY DEF InsertBatch, groups, At, Working
<1>1. CASE Goes(c, Idle) /\ UNCHANGED <<db, nextId>>
  <2>1. client'[c] = Idle
    BY <1>1, Goal DEF RequestsInv
  <2>2. ~Working(client'[c])
    BY <2>1, IdleTask DEF Working
  <2> QED
    BY <1>0, <1>1, <2>2, QuietFollows
<1>2. CASE /\ db' = [i \in Ids \cup (nextId .. nextId + Len(batch) - 1) |->
                        IF i < nextId THEN db[i] ELSE batch[i - nextId + 1]]
           /\ Goes(c, IF \E i \in DOMAIN batch : batch[i].enabled
                      THEN [Idle EXCEPT !.pc = "clear", !.kind = client[c].kind] ELSE Idle)
  <2>1. BatchOff(c)
    BY <1>2, BatchIsOff
  <2>2. ~Working(client'[c]) /\ Stage(client[c])'
    BY <2>1, IdleTask DEF BatchOff, Working, Stage
  <2>3. \A i \in Numbers : i < nextId => Still(i)
    BY <1>0, <2>1 DEF BatchOff, Still
  <2>4. ASSUME NEW i \in Numbers, i >= nextId PROVE Agrees(i)'
    <3>1. Of(driver', i) = {}
      BY <1>0, <2>4, NewIdFree
    <3>2. i \in DOMAIN db' => ~db'[i].enabled
      BY <2>1, <2>4 DEF BatchOff
    <3> QED
      BY <3>1, <3>2, WantedAfter
  <2>5. \A i \in Numbers : i < nextId \/ i >= nextId
    BY DEF Numbers, RequestsInv, ManagerType
  <2> QED
    BY <1>0, <2>2, <2>3, <2>4, <2>5 DEF StepFollows, WorksOn
<1> QED
  BY <1>1, <1>2, Zenon DEF InsertBatch

(* the call of the driver that catches up with the row, *)
LEMMA IoctlFollows ==
  ASSUME RequestsInv, RequestsInv', Follows, faults \in Nat, faults' = 0, NEW c \in Clients, Ioctl(c)
  PROVE  StepFollows(c)
<1>0. PICK x, y, i : x = client[c] /\ y = client'[c] /\ i = x.id
  OBVIOUS
<1>1. UNCHANGED <<db, members>> /\ x.pc \in {"add", "modify", "remove"} /\ Stage(x)
  BY <1>0, IoctlShape DEF Ioctl, At, Follows, groups
<1>2. ~Fault
  BY DEF Fault
<1>3. i \in Numbers
  BY <1>0, IoctlShape DEF RequestsInv, ManagerType, IsTask, Numbers
<1>4. \A j : RowKept(j)
  BY <1>1 DEF RowKept, Ids
<1>5. DOMAIN db' = Ids /\ db' = db
  BY <1>1 DEF Ids
<1>6. CASE /\ Accepted(c) /\ Rests(y)
           /\ driver' = Dropping(<<i>>) \cup {DirectEntry(i, r) : r \in IF At(c, "remove") THEN {} ELSE x.rule}
  <2>0. PICK S : S = IF At(c, "remove") THEN {} ELSE x.rule
    OBVIOUS
  <2>1. /\ \A j : j # i => Of(driver', j) = Of(driver, j)
        /\ (\A e \in Of(driver, i) : e.key = <<i>>) => Of(driver', i) = Entries(i, S)
    <3>1. driver' = Dropping(<<i>>) \cup Entries(i, S)
      BY <1>6, <2>0 DEF Entries
    <3> QED
      BY <3>1, OfDropping
  <2>2. \A e \in Of(driver, i) : e.key = <<i>>
    BY <1>0, <1>1 DEF Stage
  <2>3. Agrees(i)'
    <3>1. CASE x.pc = "remove"
      <4>1. Of(driver', i) = {}
        BY <1>0, <2>0, <2>1, <2>2, <3>1 DEF At, Entries
      <4>2. i \notin DOMAIN db' \/ ~db'[i].enabled
        BY <1>0, <1>1, <1>5, <3>1 DEF Stage
      <4> QED
        BY <4>1, <4>2, WantedAfter
    <3>2. CASE x.pc \in {"add", "modify"}
      <4>1. i \in Ids /\ x.rule = {db[i]} /\ db[i].enabled /\ Direct(db[i])
        BY <1>0, <1>1, <3>2 DEF Stage
      <4>2. Of(driver', i) = {DirectEntry(i, db[i])}
        BY <1>0, <2>0, <2>1, <2>2, <3>2, <4>1 DEF At, Entries
      <4> QED
        BY <1>5, <4>1, <4>2, WantedAfter
    <3> QED
      BY <1>1, <3>1, <3>2
  <2>4. Stage(client[c])'
    BY <1>0, <1>6 DEF Rests, Stage
  <2>5. \A j \in Numbers : j # i => Still(j)
    BY <1>4, <2>1 DEF Still
  <2> QED
    BY <1>0, <1>1, <2>3, <2>4, <2>5, OneRule
<1>7. CASE /\ ~Accepted(c) /\ UNCHANGED driver
           /\ \/ Rests(y) /\ x.undo = {}
              \/ y.pc = "undo" /\ x.undo # {} /\ y.undo = x.undo /\ y.id = i
  <2>1. x.pc # "modify"
    <3>1. x.pc = "modify" => Has(<<i>>)
      BY <1>0, <1>1 DEF Stage, Of, Has
    <3> QED
      BY <1>0, <1>7, <3>1 DEF Accepted, At
  <2>2. x.pc = "remove" => Of(driver, i) = {} /\ i \notin Ids /\ x.undo = {}
    <3>1. x.pc = "remove" => ~Has(<<i>>)
      BY <1>0, <1>7 DEF Accepted, At
    <3> QED
      BY <1>0, <1>1, <3>1 DEF Stage, Of, Has
  <2>3. \A j \in Numbers : j # i => Still(j)
    BY <1>4, <1>7 DEF Still
  <2>4. CASE x.pc = "remove"
    <3>1. Agrees(i)'
      BY <1>5, <1>7, <2>2, <2>4, WantedAfter
    <3>2. Stage(client[c])'
      BY <1>0, <1>7, <2>2, <2>4 DEF Rests, Stage
    <3> QED
      BY <1>0, <1>1, <2>3, <3>1, <3>2, OneRule
  <2>5. CASE x.pc = "add"
    <3>1. y.pc = "undo" /\ y.id = i /\ Of(driver', i) = {} /\ \A u \in y.undo : Off(u)
      BY <1>0, <1>1, <1>7, <2>5 DEF Stage
    <3>2. Stage(y)'
      BY <3>1 DEF Stage, Of
    <3>3. Stage(client[c])' /\ WorksOn(client'[c], i)
      BY <1>0, <3>1, <3>2 DEF WorksOn, Working
    <3> QED
      BY <1>0, <1>1, <2>3, <3>3, OneRule
  <2> QED
    BY <1>1, <2>1, <2>4, <2>5
<1> QED
  BY <1>0, <1>2, <1>6, <1>7, IoctlShape

(* and the row that goes back. *)
LEMMA UndoFollows ==
  ASSUME RequestsInv, RequestsInv', Follows, faults \in Nat, faults' = 0, NEW c \in Clients, Undo(c)
  PROVE  StepFollows(c)
<1>0. PICK x, i : x = client[c] /\ i = x.id
  OBVIOUS
<1>1. UNCHANGED <<driver, members>> /\ Rests(client'[c]) /\ i \in Numbers /\ x.pc = "undo" /\ Stage(x)
  BY <1>0, UndoShape DEF groups, Undo, At, Follows
<1>2. PICK u \in x.undo : /\ u = <<>> \/ u[1] \in Stored
                          /\ db' = IF u = <<>> THEN Without(i) ELSE IF i \in Ids THEN With(i, u[1]) ELSE db
  BY <1>0, UndoShape DEF Fault
<1>3. Of(driver', i) = {} /\ Off(u)
  BY <1>0, <1>1 DEF Stage
<1>4. /\ i \notin DOMAIN db' \/ ~db'[i].enabled
      /\ \A j : j # i => RowKept(j)
  <2>1. CASE u = <<>>
    <3>1. db' = Without(i)
      BY <1>2, <2>1
    <3> QED
      BY <3>1, WithoutTable DEF RowKept
  <2>2. CASE u # <<>> /\ i \in Ids
    <3>1. db' = With(i, u[1]) /\ u[1] \in Stored /\ ~u[1].enabled
      BY <1>2, <1>3, <2>2 DEF Off
    <3>2. DOMAIN db' = Ids \cup {i} /\ db'[i] = u[1] /\ \A j \in Ids : j # i => db'[j] = db[j]
      BY <1>1, <3>1, WithRow
    <3> QED
      BY <3>1, <3>2 DEF RowKept
  <2>3. CASE u # <<>> /\ i \notin Ids
    BY <1>2, <2>3 DEF RowKept, Ids
  <2> QED
    BY <2>1, <2>2, <2>3
<1>5. Agrees(i)'
  BY <1>3, <1>4, WantedAfter
<1>6. \A j \in Numbers : j # i => Still(j)
  BY <1>1, <1>4 DEF Still
<1>7. Stage(client[c])'
  BY <1>1 DEF Rests, Stage
<1> QED
  BY <1>0, <1>1, <1>5, <1>6, <1>7, OneRule

(* Steps that touch neither the table nor the driver. *)
LEMMA QuietSteps ==
  ASSUME RequestsInv, NEW c \in Clients, ListRules(c) \/ Guard(c) \/ Read(c) \/ ListForImport(c) \/ NextVictim(c)
  PROVE  ~Working(client'[c])
<1>1. ASSUME NEW n, Goes(c, n), n.pc \in {"insert", "guard", "read", "write", "idle", "victim"}
      PROVE  ~Working(client'[c])
  BY <1>1, Goal DEF RequestsInv, Working
<1>2. IsTask(client[c])
  BY DEF RequestsInv, ManagerType
<1>3. Ends(c) => ~Working(client'[c])
  BY EndsRests DEF Rests, Working
<1>4. ASSUME NEW p \in {"insert", "read"}, GoesTo(c, p) PROVE ~Working(client'[c])
  <2>1. client'[c] = [client[c] EXCEPT !.pc = p]
    BY <1>4 DEF GoesTo, RequestsInv, ManagerType
  <2>2. client'[c].pc = p
    BY <1>2, <2>1 DEF IsTask, Fields
  <2> QED
    BY <2>2 DEF Working
<1>5. ASSUME ListRules(c) PROVE ~Working(client'[c])
  <2>1. CASE GoesTo(c, "insert")
    BY <1>4, <2>1
  <2>2. ASSUME NEW m, Goes(c, [client[c] EXCEPT !.pc = "guard", !.kind = "update", !.id = m[1], !.rule = {m[2]}])
        PROVE  ~Working(client'[c])
    <3>1. [client[c] EXCEPT !.pc = "guard", !.kind = "update", !.id = m[1], !.rule = {m[2]}].pc = "guard"
      BY <1>2 DEF IsTask, Fields
    <3> QED
      BY <1>1, <2>2, <3>1
  <2> QED
    BY <1>5, <2>1, <2>2 DEF ListRules
<1>6. ASSUME Guard(c) PROVE ~Working(client'[c])
  BY <1>3, <1>4, <1>6 DEF Guard
<1>7. ASSUME Read(c) PROVE ~Working(client'[c])
  BY <1>7, ReadShape DEF Rests, Working
<1>8. ASSUME ListForImport(c) PROVE ~Working(client'[c])
  <2>1. \A batch, victims : Importing(c, batch, victims).pc = "victim"
    BY DEF Importing, Idle
  <2>2. Idle.pc = "idle"
    BY IdleTask
  <2> QED
    BY <1>1, <1>8, <2>1, <2>2 DEF ListForImport
<1>9. ASSUME NextVictim(c) PROVE ~Working(client'[c])
  <2>1. PICK id \in client[c].victims : Goes(c, [client[c] EXCEPT !.pc = "read", !.id = id, !.victims = @ \ {id}])
    BY <1>9 DEF NextVictim
  <2>2. [client[c] EXCEPT !.pc = "read", !.id = id, !.victims = @ \ {id}].pc = "read"
    BY <1>2 DEF IsTask, Fields
  <2> QED
    BY <1>1, <2>1, <2>2
<1> QED
  BY <1>5, <1>6, <1>7, <1>8, <1>9
-----------------------------------------------------------------------------
(* The driver is what a reload would build. *)
LEMMA Counting ==
  ASSUME NEW c \in Clients, Request(c) \/ Step(c)
  PROVE  UNCHANGED faults \/ \E n \in Nat \ {0} : faults' = faults + n
<1>1. Request(c) => UNCHANGED faults
  BY DEF Request, RequestCreate, RequestUpdate, RequestById, Uninstall, ImportRules, AddMember,
     RemoveMember, SetGroupEnabled, SyncPredefinedMembers, Restart, Reloads, Begin
<1>2. CASE LoadGroupPaths(c)
  <2>1. UNCHANGED faults \/ \E n \in 1..(MaxFaults - faults) : faults' = faults + n
    BY <1>2, Zenon DEF LoadGroupPaths
  <2>2. \A k : 1..k \subseteq Nat \ {0}
    OBVIOUS
  <2> QED
    BY <2>1, <2>2, Zenon
<1>3. Step(c) /\ ~LoadGroupPaths(c) => UNCHANGED faults \/ Fault
  BY DEF Step, ListRules, Insert, Guard, Read, WriteRow, DeleteRow, ListForImport, NextVictim,
     InsertBatch, Ioctl, Undo, Clear, Snapshot, Load
<1> QED
  BY <1>1, <1>2, <1>3 DEF Fault

(* The count of failed calls. *)
LEMMA CountingKept ==
  ASSUME faults \in Nat, [ManagerNext]_mvars
  PROVE  faults' \in Nat /\ faults <= faults'
<1>1. CASE UNCHANGED mvars
  BY <1>1 DEF mvars
<1>2. ASSUME NEW c \in Clients, Request(c) \/ Step(c)
      PROVE  faults' \in Nat /\ faults <= faults'
  BY <1>2, Counting
<1> QED
  BY <1>1, <1>2 DEF ManagerNext

(* A request that leaves the service calm begins without touching the driver. *)
LEMMA CalmRequest ==
  ASSUME NEW c \in Clients, ManagerType, Request(c), Calm'
  PROVE  UNCHANGED <<db, members, driver>> /\ At(c, "idle") /\ ~Working(client'[c])
<1>1. \A d \in Clients : client'[d].pc # "clear"
  BY DEF Calm, At
<1>2. ASSUME NEW n, Begin(c, n), n.pc \in {"insert", "list", "guard", "read", "import", "clear"}, UNCHANGED groups
      PROVE  UNCHANGED <<db, members, driver>> /\ At(c, "idle") /\ ~Working(client'[c])
  <2>1. client'[c] = n
    BY <1>2, Goal DEF Begin
  <2> QED
    BY <1>2, <2>1 DEF Begin, At, Working, groups
<1>3. ASSUME NEW kind, Reloads(c, kind) PROVE FALSE
  <2>1. client'[c] = [Idle EXCEPT !.pc = "clear", !.kind = kind]
    BY <1>3, Goal DEF Reloads, Begin
  <2>2. client'[c].pc = "clear"
    BY <2>1 DEF Idle
  <2> QED
    BY <1>1, <2>2
<1>4. ASSUME NEW rule \in Rules, RequestCreate(c, rule)
      PROVE  UNCHANGED <<db, members, driver>> /\ At(c, "idle") /\ ~Working(client'[c])
  <2> DEFINE n == [Idle EXCEPT !.pc = IF rule.system THEN "insert" ELSE "list", !.kind = "create",
                           !.rule = {rule}, !.asked = {rule}, !.before = driver]
  <2>1. n.pc \in {"insert", "list"}
    BY DEF Idle
  <2>2. Begin(c, n) /\ UNCHANGED groups
    BY <1>4 DEF RequestCreate
  <2> HIDE DEF n
  <2> QED
    BY <1>2, <2>1, <2>2
<1>5. ASSUME NEW rule \in Rules, NEW id \in Ids, RequestUpdate(c, id, rule)
      PROVE  UNCHANGED <<db, members, driver>> /\ At(c, "idle") /\ ~Working(client'[c])
  <2> DEFINE n == [Idle EXCEPT !.pc = "guard", !.kind = "update", !.id = id, !.rule = {rule}]
  <2>1. n.pc = "guard"
    BY DEF Idle
  <2>2. Begin(c, n) /\ UNCHANGED groups
    BY <1>5 DEF RequestUpdate
  <2> HIDE DEF n
  <2> QED
    BY <1>2, <2>1, <2>2
<1>6. ASSUME NEW id \in Ids, NEW kind, RequestById(c, kind, id)
      PROVE  UNCHANGED <<db, members, driver>> /\ At(c, "idle") /\ ~Working(client'[c])
  <2> DEFINE n == [Idle EXCEPT !.pc = IF kind = "delete" THEN "guard" ELSE "read", !.kind = kind, !.id = id]
  <2>1. n.pc \in {"guard", "read"}
    BY DEF Idle
  <2>2. Begin(c, n) /\ UNCHANGED groups
    BY <1>6 DEF RequestById
  <2> HIDE DEF n
  <2> QED
    BY <1>2, <2>1, <2>2
<1>7. ASSUME NEW id \in Ids, Uninstall(c, id)
      PROVE  UNCHANGED <<db, members, driver>> /\ At(c, "idle") /\ ~Working(client'[c])
  <2> DEFINE n == [Idle EXCEPT !.pc = "read", !.kind = "uninstall", !.id = id]
  <2>1. n.pc = "read"
    BY DEF Idle
  <2>2. Begin(c, n) /\ UNCHANGED groups
    BY <1>7 DEF Uninstall
  <2> HIDE DEF n
  <2> QED
    BY <1>2, <2>1, <2>2
<1>8. ASSUME NEW kind, NEW batch, ImportRules(c, kind, batch)
      PROVE  UNCHANGED <<db, members, driver>> /\ At(c, "idle") /\ ~Working(client'[c])
  <2> DEFINE n == [Idle EXCEPT !.pc = "import", !.kind = kind, !.batch = batch]
  <2>1. n.pc = "import"
    BY DEF Idle
  <2>2. Begin(c, n) /\ UNCHANGED groups
    BY <1>8 DEF ImportRules
  <2> HIDE DEF n
  <2> QED
    BY <1>2, <2>1, <2>2
<1>9. ~Restart(c)
  <2>1. SUFFICES ASSUME Restart(c) PROVE FALSE
    OBVIOUS
  <2>2. client'[c] = [Idle EXCEPT !.pc = "clear", !.kind = "start"]
    BY <2>1 DEF Restart
  <2>3. client'[c].pc = "clear"
    BY <2>2 DEF Idle
  <2> QED
    BY <1>1, <2>3
<1>10. \A g \in Groups, T \in SUBSET Templates : ~SyncPredefinedMembers(c, g, T)
  BY DEF SyncPredefinedMembers, Calm
<1>11. \A g \in Groups : /\ \A path \in MemberPaths : ~AddMember(c, g, path) /\ ~RemoveMember(c, g, path)
                         /\ \A on \in BOOLEAN : ~SetGroupEnabled(c, g, on)
  BY <1>3 DEF AddMember, RemoveMember, SetGroupEnabled
<1> QED
  BY <1>4, <1>5, <1>6, <1>7, <1>8, <1>9, <1>10, <1>11, Zenon DEF Request

LEMMA TaskMoves ==
  ASSUME RequestsInv, NEW c \in Clients, Request(c) \/ Step(c), Calm'
  PROVE  Moved(c)
<1>1. ~Restart(c)
  <2>1. SUFFICES ASSUME Restart(c) PROVE FALSE
    OBVIOUS
  <2>2. client'[c].pc = "clear"
    <3>1. client'[c] = [Idle EXCEPT !.pc = "clear", !.kind = "start"]
      BY <2>1 DEF Restart
    <3> QED
      BY <3>1 DEF Idle
  <2> QED
    BY <2>2 DEF Calm, At
<1>2. \A g \in Groups, T \in SUBSET Templates : ~SyncPredefinedMembers(c, g, T)
  BY DEF SyncPredefinedMembers, Calm
<1> QED
  BY <1>1, <1>2, RequestEffect, StepsEffect DEF Effect

(* The service was calm before, or it has just been healed. *)
LEMMA CalmBefore ==
  ASSUME RequestsInv, NEW c \in Clients, Request(c) \/ Step(c), Observe, Calm'
  PROVE  Calm \/ Heals
<1>1. SUFFICES ASSUME ~Heals PROVE Calm
  OBVIOUS
<1>2. ~broken /\ ~raced
  BY <1>1 DEF Heals, Observe, Calm, RequestsInv, ManagerType
<1>3. \A d \in Clients : d # c => client'[d] = client[d]
  BY TaskMoves, OthersStay DEF RequestsInv
<1>4. ~At(c, "clear")
  <2>1. SUFFICES ASSUME At(c, "clear") PROVE FALSE
    OBVIOUS
  <2>2. Step(c) => Clear(c)
    BY <2>1 DEF At, Step, ListRules, Insert, Guard, Read, WriteRow, DeleteRow, ListForImport, NextVictim,
       InsertBatch, Ioctl, Undo, Snapshot, LoadGroupPaths, Load
  <2>3. ~Clear(c)
    BY DEF Clear, Calm
  <2>4. Request(c) => At(c, "idle")
    BY CalmRequest DEF RequestsInv
  <2> QED
    BY <2>1, <2>2, <2>3, <2>4 DEF At
<1>5. \A d \in Clients : ~At(d, "clear")
  BY <1>3, <1>4 DEF Calm, At
<1> QED
  BY <1>2, <1>5 DEF Calm

(* The end of a reload. *)
LEMMA HealFollows ==
  ASSUME RequestsInv, RequestsInv', NEW c \in Clients, Request(c) \/ Step(c), Heals
  PROVE  Follows'
<1>1. driver' = Expansion(db', members')
  BY HealedDriver
<1>2. /\ c \notin overlapped /\ Ends(c) /\ Load(c)
  BY BrokenSteps
<1>3. Moved(c) /\ Rests(client'[c]) /\ UnderWay(c)
  BY <1>2, EndsRests DEF Load, At, UnderWay
<1>4. \A d \in Clients : ~Working(client'[d])
  <2>1. ASSUME NEW d \in Clients PROVE ~Working(client'[d])
    <3>1. CASE d = c
      BY <1>3, <3>1 DEF Rests, Working
    <3>2. CASE d # c
      <4>1. ~UnderWay(d) /\ client'[d] = client[d]
        BY <1>2, <1>3, <3>2, OthersStay DEF RequestsInv, Alone
      <4> QED
        BY <4>1 DEF UnderWay, Working
    <3> QED
      BY <3>1, <3>2
  <2> QED
    BY <2>1
<1>5. \A d \in Clients : Stage(client[d])'
  BY <1>4 DEF Stage, Working
<1>6. \A i : Agrees(i)'
  <2>1. \A i : Of(driver', i) = Of(Expansion(db', members'), i)
    BY <1>1
  <2> QED
    BY <2>1 DEF Agrees, Wanted, Of
<1> QED
  BY <1>5, <1>6 DEF Follows

(* A step while nothing is owed. *)
LEMMA CalmStepFollows ==
  ASSUME RequestsInv, RequestsInv', Calm, Calm', Follows, DomainsKept, faults \in Nat, faults' = 0,
         NEW c \in Clients, Request(c) \/ Step(c)
  PROVE  StepFollows(c)
<1>1. CASE Request(c)
  <2>1. UNCHANGED <<db, members, driver>> /\ ~Working(client[c]) /\ ~Working(client'[c])
    BY <1>1, CalmRequest DEF RequestsInv, At, Working
  <2> QED
    BY <2>1, QuietFollows
<1>2. CASE ListRules(c) \/ Guard(c) \/ Read(c) \/ ListForImport(c) \/ NextVictim(c)
  <2>1. UNCHANGED <<db, members, driver>> /\ ~Working(client[c])
    BY <1>2 DEF ListRules, Guard, Read, ListForImport, NextVictim, groups, At, Working
  <2>2. ~Working(client'[c])
    BY <1>2, QuietSteps
  <2> QED
    BY <2>1, <2>2, QuietFollows
<1>3. CASE Insert(c) \/ WriteRow(c) \/ DeleteRow(c) \/ InsertBatch(c) \/ Ioctl(c) \/ Undo(c)
  BY <1>3, InsertFollows, WriteFollows, DeleteFollows, InsertBatchFollows, IoctlFollows, UndoFollows
<1>4. ~Clear(c)
  BY DEF Clear, Calm
<1>5. ~Snapshot(c) /\ ~LoadGroupPaths(c) /\ ~Load(c)
  BY DEF Snapshot, LoadGroupPaths, Load, At, RequestsInv, Owed, Reloading, Calm
<1> QED
  BY <1>1, <1>2, <1>3, <1>4, <1>5 DEF Step

LEMMA NextFollows ==
  ASSUME RequestsInv, RequestsInv', DriverFollows, faults \in Nat, [DomainsKept]_mvars, [ManagerNext]_mvars
  PROVE  DriverFollows'
<1>1. CASE UNCHANGED mvars
  <2>1. UNCHANGED <<db, members, driver, client, broken, raced, faults>>
    BY <1>1 DEF mvars
  <2>2. Follows => Follows'
    BY <2>1 DEF Follows, Stage, Busy, Agrees, Wanted, Of, Ids
  <2>3. Calm' => Calm
    BY <2>1 DEF Calm, At
  <2> QED
    BY <2>1, <2>2, <2>3 DEF DriverFollows
<1>2. ASSUME NEW c \in Clients, Request(c) \/ Step(c), Observe, DomainsKept
      PROVE  DriverFollows'
  <2>1. SUFFICES ASSUME Calm', faults' = 0 PROVE Follows'
    BY DEF DriverFollows
  <2>2. CASE Heals
    BY <1>2, <2>2, HealFollows
  <2>3. CASE Calm
    <3>1. faults = 0
      BY <1>2, <2>1, Counting
    <3>2. Follows
      BY <2>3, <3>1 DEF DriverFollows
    <3>3. StepFollows(c) /\ Moved(c)
      BY <1>2, <2>1, <2>3, <3>2, CalmStepFollows, TaskMoves
    <3> QED
      BY <2>3, <3>2, <3>3, KeepsFollowing
  <2> QED
    BY <1>2, <2>1, <2>2, <2>3, CalmBefore
<1>3. UNCHANGED mvars => DriverFollows'
  BY <1>1
<1> QED
  BY <1>2, <1>3 DEF ManagerNext

LEMMA InitFollows == ManagerInit => DriverFollows /\ faults \in Nat
<1> SUFFICES ASSUME ManagerInit PROVE Follows /\ faults \in Nat
  BY DEF DriverFollows
<1>1. db = <<>> /\ driver = {} /\ client = [c \in Clients |-> Idle] /\ faults = 0
  BY DEF ManagerInit
<1>2. \A c \in Clients : client[c].pc = "idle"
  BY <1>1, IdleTask
<1>3. \A c \in Clients : Stage(client[c])
  BY <1>2 DEF Stage
<1>4. RequestsInv /\ Ids = {}
  BY <1>1, InitRequests, EmptyTable DEF Ids
<1>5. \A i : Agrees(i)
  <2>1. ASSUME NEW i PROVE Of(Wanted, i) = {} /\ Of(driver, i) = {}
    BY <1>1, <1>4, WantedOf DEF Of
  <2> QED
    BY <2>1 DEF Agrees
<1> QED
  BY <1>1, <1>3, <1>5 DEF Follows

(* At rest no request is at work on a rule. *)
LEMMA FollowsIsExpansion ==
  ASSUME RequestsInv, DriverFollows
  PROVE  DriverIsExpansion
<1> SUFFICES ASSUME Quiet, faults = 0, ~Excused PROVE driver = Wanted
  BY DEF DriverIsExpansion, Wanted
<1>1. Calm
  BY DEF Quiet, Excused, Calm, UnderWay, At
<1>2. \A i \in Numbers : Agrees(i)
  BY <1>1 DEF DriverFollows, Follows, Busy, Working, Quiet, UnderWay
<1>3. Keyed(driver) /\ Keyed(Wanted)
  BY ExpansionKeyed DEF RequestsInv, ManagerType, Wanted
<1>4. ASSUME NEW e PROVE e \in driver <=> e \in Wanted
  <2>1. e \in driver \/ e \in Wanted => e.key[1] \in Numbers
    BY <1>3 DEF Keyed
  <2>2. e.key[1] \in Numbers => (e \in Of(driver, e.key[1]) <=> e \in Of(Wanted, e.key[1]))
    BY <1>2 DEF Agrees
  <2> QED
    BY <2>1, <2>2 DEF Of
<1> QED
  BY <1>4

(* For any rules, groups and clients: at rest, with nothing owed and no call failed,
   the driver holds the expansion of the table; as long as no update gives a rule a
   domain or takes it away, which update_rule does not follow up in the driver. *)
THEOREM DriverStaysExpansion == ManagerSpec /\ [][DomainsKept]_mvars => []DriverIsExpansion
<1> DEFINE Inv == RequestsInv /\ DriverFollows /\ faults \in Nat
<1>1. ManagerInit => Inv
  BY InitRequests, InitFollows
<1>2. Inv /\ [ManagerNext]_mvars /\ [DomainsKept]_mvars => Inv'
  BY NextRequests, NextFollows, CountingKept
<1>3. Inv => DriverIsExpansion
  BY FollowsIsExpansion
<1> QED
  BY <1>1, <1>2, <1>3, PTL DEF ManagerSpec

(* The same without a condition on the steps, when no rule asked for has a domain. *)
THEOREM PlainDriverIsExpansion ==
  ASSUME \A r \in Rules : r.remote_domain = {}
  PROVE  ManagerSpec => []DriverIsExpansion
<1>1. RequestsInv /\ RequestsInv' => DomainsKept
  BY TableShape, StoredPlain DEF RequestsInv, ManagerType, DomainsKept, Ids
<1>2. ManagerSpec => [][DomainsKept]_mvars
  BY <1>1, RequestsInvariant, PTL
<1> QED
  BY <1>2, DriverStaysExpansion, PTL
-----------------------------------------------------------------------------
(* No single call that fails loses a rule. *)
Room == Cardinality(driver) < MAX_RULES
Present(i) == i \in Ids /\ db[i].enabled /\ Direct(db[i]) => Has(<<i>>)

(* Where a failed call would leave the rule. *)
Fallback(x) ==
  /\ x.pc = "add" => x.rule # {} /\ x.undo # {} /\ \A u \in x.undo : Off(u)
  /\ x.pc = "modify" => x.rule # {} /\ x.undo # {} /\ Has(<<x.id>>)
  /\ x.pc = "remove" => \/ x.id \in Ids /\ ~db[x.id].enabled /\ Has(<<x.id>>) /\ x.undo # {}
                        \/ x.id \notin Ids /\ x.undo = {}
  /\ x.pc = "undo" => Has(<<x.id>>) \/ (faults >= 1 /\ \A u \in x.undo : Off(u))

Owns(x, i) == x.pc \in {"add", "undo"} /\ x.id = i

Covered ==
  /\ \A c \in Clients : Fallback(client[c])
  /\ \A i \in Numbers : Present(i) \/ \E c \in Clients : Owns(client[c], i)

RulesPresent == Calm => Covered

Sits(i) == RowKept(i) /\ (Has(<<i>>) => \E e \in driver' : e.key = <<i>>)

StepCovers(c) ==
  /\ Fallback(client[c])' /\ faults \in Nat /\ faults' \in Nat /\ faults <= faults'
  /\ \A i \in Numbers :
       /\ Sits(i) \/ i = client[c].id \/ i >= nextId
       /\ (Sits(i) /\ ~Owns(client[c], i)) \/ Owns(client'[c], i) \/ Present(i)'

(* A request that does not move keeps its way back. *)
LEMMA FallbackKept ==
  ASSUME NEW c \in Clients, NEW d \in Clients, client'[d] = client[d], Fallback(client[d]),
         faults \in Nat, faults' \in Nat, faults <= faults', Working(client[d]) => Sits(client[d].id)
  PROVE  Fallback(client[d])'
<1>1. CASE ~Working(client[d])
  BY <1>1 DEF Fallback, Working
<1>2. CASE Working(client[d])
  <2>1. PICK x : x = client[d]
    OBVIOUS
  <2>2. /\ x.id \in DOMAIN db' <=> x.id \in Ids
        /\ x.id \in Ids => db'[x.id] = db[x.id]
        /\ Has(<<x.id>>) => \E e \in driver' : e.key = <<x.id>>
    BY <1>2, <2>1 DEF Sits, RowKept
  <2>3. Fallback(x) /\ (faults >= 1 => faults' >= 1)
    BY <2>1
  <2>4. Fallback(x)'
    BY <2>2, <2>3 DEF Fallback, Ids, Has
  <2> QED
    BY <2>1, <2>4
<1> QED
  BY <1>1, <1>2

(* A rule whose row and entries stay is as present as before. *)
LEMMA PresentKept ==
  ASSUME NEW i, Sits(i), Present(i)
  PROVE  Present(i)'
  BY DEF Sits, RowKept, Present, Ids, Has

(* What a step has to show of its own rule and of the others. *)
LEMMA KeepsCovered ==
  ASSUME RequestsInv, Calm, Covered, NEW c \in Clients, Moved(c), StepCovers(c)
  PROVE  Covered'
<1>1. \A d \in Clients : d # c => client'[d] = client[d]
  BY OthersStay DEF RequestsInv
<1>2. ASSUME NEW d \in Clients PROVE Fallback(client[d])'
  <2>1. CASE d = c
    BY <2>1 DEF StepCovers
  <2>2. CASE d # c
    <3>1. ASSUME Working(client[d]) PROVE Sits(client[d].id)
      <4>1. client[d].id \in Numbers /\ client[d].id < nextId /\ nextId \in Nat /\ client[d].id # client[c].id
        BY <2>2, <3>1 DEF RequestsInv, ManagerType, Numbered, Given, IsTask, Carries, Numbers, OwnRow, Calm
      <4> QED
        BY <4>1 DEF StepCovers, Numbers
    <3>2. Fallback(client[d]) /\ client'[d] = client[d] /\ faults \in Nat /\ faults' \in Nat /\ faults <= faults'
      BY <1>1, <2>2 DEF Covered, StepCovers
    <3> QED
      BY <3>1, <3>2, FallbackKept
  <2> QED
    BY <2>1, <2>2
<1>3. ASSUME NEW i \in Numbers, \A d \in Clients : ~Owns(client'[d], i) PROVE Present(i)'
  <2>1. CASE Sits(i) /\ ~Owns(client[c], i)
    <3>1. \A d \in Clients : ~Owns(client[d], i)
      BY <1>1, <1>3, <2>1
    <3>2. Present(i)
      BY <1>3, <3>1 DEF Covered
    <3> QED
      BY <2>1, <3>2, PresentKept
  <2> QED
    BY <1>3, <2>1 DEF StepCovers
<1>4. \A i \in Numbers : Present(i)' \/ \E d \in Clients : Owns(client'[d], i)
  BY <1>3
<1>5. \A d \in Clients : \A i : Owns(client[d], i)' <=> Owns(client'[d], i)
  BY DEF Owns
<1> QED
  BY <1>2, <1>4, <1>5 DEF Covered

(* Steps that touch neither the table nor the driver. *)
LEMMA QuietCovers ==
  ASSUME NEW c \in Clients, UNCHANGED <<db, driver>>, ~Working(client[c]), ~Working(client'[c]),
         faults \in Nat, faults' \in Nat, faults <= faults'
  PROVE  StepCovers(c)
<1>1. \A i : Sits(i)
  BY DEF Sits, RowKept, Ids, Has
<1>2. Fallback(client[c])'
  BY DEF Fallback, Working
<1> QED
  BY <1>1, <1>2 DEF StepCovers, Owns, Working

LEMMA OneCovered ==
  ASSUME NEW c \in Clients, NEW i, Fallback(client[c])', faults \in Nat, faults' \in Nat, faults <= faults',
         i = client[c].id \/ i >= nextId, Working(client[c]) => client[c].id = i,
         \A j \in Numbers : j # i => Sits(j),
         Owns(client'[c], i) \/ Present(i)'
  PROVE  StepCovers(c)
  BY DEF StepCovers, Owns, Working

LEMMA RowSits ==
  ASSUME NEW j, RowKept(j), UNCHANGED driver
  PROVE  Sits(j)
  BY DEF Sits, Has

(* No step leaves a rule out: the row of a creation, *)
LEMMA InsertCovers ==
  ASSUME RequestsInv, Covered, Calm', faults \in Nat, NEW c \in Clients, Insert(c)
  PROVE  StepCovers(c)
<1>0. PICK i : i = nextId
  OBVIOUS
<1>1. PICK rule \in client[c].rule :
           /\ rule \in Stored /\ db' = With(i, rule)
           /\ UNCHANGED <<groups, driver, faults>>
           /\ IF rule.enabled /\ rule.remote_domain = {}
              THEN /\ client'[c].pc = IF rule.app_group_id = {} THEN "add" ELSE "clear"
                   /\ client'[c].id = i /\ client'[c].undo = {<<>>}
                   /\ client'[c].rule = {rule}
              ELSE client'[c] = Idle
  BY <1>0, InsertShape
<1>2. /\ i \in Numbers /\ i >= nextId /\ ~Working(client[c])
      /\ faults' \in Nat /\ faults <= faults'
  BY <1>0, <1>1 DEF RequestsInv, ManagerType, Numbers, Insert, At, Working
<1>3. /\ DOMAIN db' = Ids \cup {i} /\ db'[i] = rule /\ \A j \in Ids : j # i => db'[j] = db[j]
  <2>1. db' = With(i, rule) /\ rule \in Stored /\ i \in Numbers
    BY <1>1, <1>2
  <2> QED
    BY <2>1, WithTable
<1>4. \A j : j # i => Sits(j)
  <2>1. \A j : j # i => RowKept(j)
    BY <1>3 DEF RowKept
  <2> QED
    BY <1>1, <2>1, RowSits
<1>5. CASE rule.enabled /\ rule.remote_domain = {}
  <2>1. client'[c].pc # "clear"
    BY DEF Calm, At
  <2>2. client'[c].pc = "add" /\ client'[c].id = i /\ client'[c].undo = {<<>>} /\ client'[c].rule = {rule}
    BY <1>1, <1>5, <2>1
  <2>3. \A u \in client'[c].undo : Off(u)
    BY <2>2 DEF Off
  <2>4. Fallback(client[c])'
    BY <2>2, <2>3 DEF Fallback
  <2>5. Owns(client'[c], i)
    BY <2>2 DEF Owns
  <2> QED
    BY <1>2, <1>4, <2>4, <2>5, OneCovered
<1>6. CASE ~(rule.enabled /\ rule.remote_domain = {})
  <2>1. client'[c].pc = "idle"
    BY <1>1, <1>6, IdleTask
  <2>2. Fallback(client[c])'
    BY <2>1 DEF Fallback
  <2>3. Present(i)'
    BY <1>3, <1>6 DEF Present, Direct
  <2> QED
    BY <1>2, <1>4, <2>2, <2>3, OneCovered
<1> QED
  BY <1>5, <1>6

(* of an update or a switch, *)
LEMMA WriteCovers ==
  ASSUME RequestsInv, Calm, Covered, Calm', DomainsKept, faults \in Nat, NEW c \in Clients, WriteRow(c)
  PROVE  StepCovers(c)
<1>0. PICK i, y : i = client[c].id /\ y = client'[c]
  OBVIOUS
<1>1. PICK rule \in Stored, old \in Stored :
         /\ client[c].old = {old}
         /\ db' = IF i \in Ids THEN With(i, rule) ELSE db
         /\ Told(y, client[c], old, rule)
  BY <1>0, WriteShape
<1>2. /\ UNCHANGED driver /\ At(c, "write") /\ ~Working(client[c]) /\ faults' \in Nat /\ faults <= faults'
  BY WriteShape DEF WriteRow, At, Working
<1>3. /\ i \in Numbers /\ client[c].old = Row(i)
      /\ \A d \in Clients : ~Owns(client[d], i)
  <2>1. client[c].id # 0 /\ client[c].id \in Numbers
    BY <1>2 DEF At, RequestsInv, ManagerType, IsTask, Carries, Deciding, Numbers
  <2>2. client[c].old = Row(client[c].id) /\ \A d \in Clients : d # c => client[d].id # client[c].id
    BY <1>2, <2>1 DEF RequestsInv, OwnRow, Calm
  <2> QED
    BY <1>0, <1>2, <2>1, <2>2 DEF Owns, Working
<1>4. Present(i)
  BY <1>3 DEF Covered
<1>5. i \in Ids /\ db[i] = old /\ db' = With(i, rule)
  <2>1. Row(i) = {old}
    BY <1>1, <1>3
  <2>2. i \in Ids /\ db[i] = old
    BY <2>1 DEF Row
  <2> QED
    BY <1>1, <2>2
<1>6. DOMAIN db' = Ids /\ db'[i] = rule /\ \A j \in Ids : j # i => db'[j] = db[j]
  <2>1. DOMAIN db' = Ids \cup {i} /\ db'[i] = rule /\ \A j \in Ids : j # i => db'[j] = db[j]
    BY <1>3, <1>5, WithTable
  <2> QED
    BY <1>5, <2>1
<1>7. \A j : j # i => Sits(j)
  <2>1. \A j : j # i => RowKept(j)
    BY <1>6 DEF RowKept
  <2> QED
    BY <1>2, <2>1, RowSits
<1>8. old.enabled /\ Direct(old) => \E e \in driver' : e.key = <<i>>
  BY <1>2, <1>4, <1>5 DEF Present, Has
<1>9. y.pc # "clear"
  BY <1>0 DEF Calm, At
<1>10. CASE y = Idle /\ (old.remote_domain # {} \/ rule.remote_domain # {} \/ ~(old.enabled \/ rule.enabled))
  <2>1. ~rule.enabled \/ rule.remote_domain # {}
    BY <1>5, <1>6, <1>10 DEF DomainsKept
  <2>2. Present(i)'
    BY <1>6, <2>1 DEF Present, Direct
  <2>3. Fallback(client[c])'
    BY <1>0, <1>10, IdleTask DEF Fallback
  <2> QED
    BY <1>0, <1>2, <1>7, <2>2, <2>3, OneCovered
<1>11. CASE Direct(old) /\ y.id = i /\ y.rule = {rule} /\ y.pc = "add" /\ y.undo = Restores(rule, FALSE)
  <2>1. y.undo # {} /\ \A u \in y.undo : Off(u)
    BY <1>11, OffRestores, Zenon
  <2>2. Fallback(client[c])' /\ Owns(client'[c], i)
    BY <1>0, <1>11, <2>1 DEF Fallback, Owns
  <2> QED
    BY <1>0, <1>2, <1>7, <2>2, OneCovered
<1>12. CASE Direct(old) /\ y.id = i /\ y.rule = {rule} /\ y.pc = "modify" /\ old.enabled /\ y.undo = {<<old>>}
  <2>1. \E e \in driver' : e.key = <<i>>
    BY <1>8, <1>12
  <2>2. Fallback(client[c])'
    BY <1>0, <1>12, <2>1 DEF Fallback, Has
  <2>3. Present(i)'
    BY <2>1 DEF Present, Has
  <2> QED
    BY <1>0, <1>2, <1>7, <2>2, <2>3, OneCovered
<1>13. CASE /\ Direct(old) /\ y.id = i /\ y.rule = {rule} /\ y.pc = "remove"
            /\ old.enabled /\ ~rule.enabled /\ y.undo = Restores(rule, TRUE)
  <2>1. \E e \in driver' : e.key = <<i>>
    BY <1>8, <1>13
  <2>2. y.undo # {}
    <3>1. Restores(rule, TRUE) # {}
      BY DEF Restores
    <3> QED
      BY <1>13, <3>1, Zenon
  <2>3. Fallback(y)'
    <3>1. y.pc = "remove" /\ y.id = i /\ i \in DOMAIN db' /\ ~db'[i].enabled
      BY <1>5, <1>6, <1>13
    <3> QED
      BY <2>1, <2>2, <3>1 DEF Fallback, Has, Ids
  <2>4. Fallback(client[c])'
    BY <1>0, <2>3
  <2>5. Present(i)'
    BY <2>1 DEF Present, Has
  <2> QED
    BY <1>0, <1>2, <1>7, <2>4, <2>5, OneCovered
<1> QED
  BY <1>0, <1>1, <1>9, <1>10, <1>11, <1>12, <1>13 DEF Told

(* of a deletion, *)
LEMMA DeleteCovers ==
  ASSUME RequestsInv, Calm, Covered, Calm', faults \in Nat, NEW c \in Clients, DeleteRow(c)
  PROVE  StepCovers(c)
<1>0. PICK i, y : i = client[c].id /\ y = client'[c]
  OBVIOUS
<1>1. /\ UNCHANGED <<driver, faults>> /\ db' = Without(i)
      /\ \/ Rests(y)
         \/ y.pc = "clear"
         \/ y.pc = "remove" /\ y.id = i /\ y.undo = {}
  <2>1. UNCHANGED driver /\ UNCHANGED faults /\ db' = Without(i)
    BY <1>0 DEF DeleteRow
  <2>2. \/ Rests(client'[c]) \/ client'[c].pc = "clear"
        \/ client'[c].pc = "remove" /\ client'[c].id = client[c].id /\ client'[c].undo = {}
    BY DeleteShape
  <2> QED
    BY <1>0, <2>1, <2>2 DEF Rests
<1>2. /\ ~Working(client[c]) /\ faults' \in Nat /\ faults <= faults'
  BY <1>1 DEF DeleteRow, At, Working
<1>3. DOMAIN db' = Ids \ {i} /\ \A j \in Ids \ {i} : db'[j] = db[j]
  BY <1>1, WithoutTable
<1>4. \A j : j # i => Sits(j)
  <2>1. \A j : j # i => RowKept(j)
    BY <1>3 DEF RowKept
  <2> QED
    BY <1>1, <2>1, RowSits
<1>5. y.pc # "clear"
  BY <1>0 DEF Calm, At
<1>6. Present(i)'
  BY <1>3 DEF Present, Ids
<1>7. Fallback(y)'
  BY <1>1, <1>3, <1>5 DEF Fallback, Rests, Ids
<1>8. Fallback(client[c])'
  BY <1>0, <1>7
<1> QED
  BY <1>0, <1>2, <1>4, <1>6, <1>8, OneCovered

(* the rows of an import, *)
LEMMA InsertBatchCovers ==
  ASSUME RequestsInv, Covered, Calm', faults \in Nat, faults' \in Nat, faults <= faults',
         NEW c \in Clients, InsertBatch(c)
  PROVE  StepCovers(c)
<1> DEFINE batch == client[c].batch
<1>0. UNCHANGED driver /\ ~Working(client[c])
  BY DEF InsertBatch, At, Working
<1>1. CASE Goes(c, Idle) /\ UNCHANGED <<db, nextId>>
  <2>1. client'[c] = Idle
    BY <1>1, Goal DEF RequestsInv
  <2>2. ~Working(client'[c])
    BY <2>1, IdleTask DEF Working
  <2> QED
    BY <1>0, <1>1, <2>2, QuietCovers
<1>2. CASE /\ db' = [i \in Ids \cup (nextId .. nextId + Len(batch) - 1) |->
                        IF i < nextId THEN db[i] ELSE batch[i - nextId + 1]]
           /\ Goes(c, IF \E i \in DOMAIN batch : batch[i].enabled
                      THEN [Idle EXCEPT !.pc = "clear", !.kind = client[c].kind] ELSE Idle)
  <2>1. BatchOff(c)
    BY <1>2, BatchIsOff
  <2>2. ~Working(client'[c]) /\ Fallback(client[c])'
    BY <2>1, IdleTask DEF BatchOff, Working, Fallback
  <2>3. \A i \in Numbers : i < nextId => Sits(i)
    BY <1>0, <2>1, RowSits DEF BatchOff
  <2>4. \A i \in Numbers : i >= nextId => Present(i)'
    BY <2>1 DEF BatchOff, Present, Ids
  <2>5. \A i \in Numbers : i < nextId \/ i >= nextId
    BY DEF Numbers, RequestsInv, ManagerType
  <2> QED
    BY <1>0, <2>2, <2>3, <2>4, <2>5 DEF StepCovers, Owns, Working
<1> QED
  BY <1>1, <1>2, Zenon DEF InsertBatch

(* the call of the driver, made or failed, *)
LEMMA IoctlCovers ==
  ASSUME RequestsInv, Covered, Room, faults \in Nat, faults' \in Nat, faults <= faults',
         NEW c \in Clients, Ioctl(c)
  PROVE  StepCovers(c)
<1>0. PICK x, y, i : x = client[c] /\ y = client'[c] /\ i = x.id
  OBVIOUS
<1>1. UNCHANGED db /\ x.pc \in {"add", "modify", "remove"} /\ Fallback(x)
  BY <1>0, IoctlShape DEF Ioctl, At, Covered
<1>2. \A j : RowKept(j)
  BY <1>1 DEF RowKept, Ids
<1>3. x.pc = "remove" => Present(i)'
  BY <1>0, <1>1 DEF Fallback, Present, Ids
<1>4. CASE /\ Accepted(c) /\ Rests(y)
           /\ driver' = Dropping(<<i>>) \cup {DirectEntry(i, r) : r \in IF At(c, "remove") THEN {} ELSE x.rule}
  <2>1. \A j : j # i => Sits(j)
    <3>1. ASSUME NEW j, j # i, NEW e \in driver, e.key = <<j>> PROVE e \in driver'
      <4>1. e.key # <<i>>
        BY <3>1
      <4> QED
        BY <1>4, <4>1 DEF Dropping
    <3> QED
      BY <1>2, <3>1 DEF Sits, Has
  <2>2. x.pc # "remove" => Present(i)'
    <3>1. SUFFICES ASSUME x.pc # "remove" PROVE \E e \in driver' : e.key = <<i>>
      BY DEF Present, Has
    <3>2. PICK r \in x.rule : TRUE
      BY <1>1, <3>1 DEF Fallback
    <3>3. DirectEntry(i, r) \in driver'
      BY <1>0, <1>4, <3>1, <3>2 DEF At
    <3>4. DirectEntry(i, r).key = <<i>>
      BY EntryKeys
    <3> QED
      BY <3>3, <3>4
  <2>3. Fallback(client[c])'
    BY <1>0, <1>4 DEF Rests, Fallback
  <2> QED
    BY <1>0, <1>3, <2>1, <2>2, <2>3, OneCovered
<1>5. CASE /\ UNCHANGED driver /\ ((~Accepted(c) /\ UNCHANGED faults) \/ Fault)
           /\ \/ Rests(y) /\ x.undo = {}
              \/ y.pc = "undo" /\ x.undo # {} /\ y.undo = x.undo /\ y.id = i
  <2>1. \A j : Sits(j)
    BY <1>2, <1>5, RowSits
  <2>2. CASE Rests(y) /\ x.undo = {}
    <3>1. x.pc = "remove"
      BY <1>1, <2>2 DEF Fallback
    <3>2. Fallback(client[c])'
      BY <1>0, <2>2 DEF Rests, Fallback
    <3> QED
      BY <1>0, <1>3, <2>1, <3>1, <3>2, OneCovered
  <2>3. CASE y.pc = "undo" /\ x.undo # {} /\ y.undo = x.undo /\ y.id = i
    <3>1. Has(<<i>>) \/ (faults' >= 1 /\ \A u \in x.undo : Off(u))
      <4>1. CASE x.pc = "add"
        <5>1. Fault => faults' >= 1
          BY DEF Fault
        <5>2. ~Accepted(c) => Has(<<i>>)
          BY <1>0, <4>1 DEF Accepted, At, Addable, Room
        <5> QED
          BY <1>1, <1>5, <4>1, <5>1, <5>2 DEF Fallback
      <4>2. CASE x.pc # "add"
        <5>1. Has(<<x.id>>)
          <6>1. CASE x.pc = "modify"
            BY <1>1, <6>1 DEF Fallback
          <6>2. CASE x.pc = "remove"
            BY <1>1, <2>3, <6>2 DEF Fallback
          <6> QED
            BY <1>1, <4>2, <6>1, <6>2
        <5> QED
          BY <1>0, <5>1 DEF Has
      <4> QED
        BY <4>1, <4>2
    <3>2. (\E e \in driver' : e.key = <<i>>) \/ (faults' >= 1 /\ \A u \in y.undo : Off(u))
      BY <1>5, <2>3, <3>1 DEF Has
    <3>3. Fallback(y)'
      BY <2>3, <3>2 DEF Fallback, Has
    <3>4. Fallback(client[c])' /\ Owns(client'[c], i)
      BY <1>0, <2>3, <3>3 DEF Owns
    <3> QED
      BY <1>0, <2>1, <3>4, OneCovered
  <2> QED
    BY <1>5, <2>2, <2>3
<1> QED
  BY <1>0, <1>4, <1>5, IoctlShape

(* the row that goes back, or could not, *)
LEMMA UndoCovers ==
  ASSUME RequestsInv, Covered, MaxFaults <= 1, faults \in Nat, faults' \in Nat, faults <= faults',
         NEW c \in Clients, Undo(c)
  PROVE  StepCovers(c)
<1>0. PICK x, i : x = client[c] /\ i = x.id
  OBVIOUS
<1>1. UNCHANGED driver /\ Rests(client'[c]) /\ i \in Numbers /\ x.pc = "undo" /\ Fallback(x)
  BY <1>0, UndoShape DEF Undo, At, Covered
<1>2. Fallback(client[c])'
  BY <1>1 DEF Rests, Fallback
<1>3. Has(<<i>>) => Present(i)'
  BY <1>1 DEF Has, Present
<1>4. CASE Fault /\ UNCHANGED db
  <2>1. faults = 0
    BY <1>4, ManagerAssumption DEF Fault
  <2>2. Has(<<i>>)
    BY <1>0, <1>1, <2>1 DEF Fallback
  <2>3. \A j : Sits(j)
    BY <1>1, <1>4, RowSits DEF RowKept, Ids
  <2> QED
    BY <1>0, <1>2, <1>3, <2>2, <2>3, OneCovered
<1>5. ASSUME NEW u \in x.undo, u = <<>> \/ u[1] \in Stored,
             db' = IF u = <<>> THEN Without(i) ELSE IF i \in Ids THEN With(i, u[1]) ELSE db
      PROVE  StepCovers(c)
  <2>1. /\ Off(u) => i \notin DOMAIN db' \/ ~db'[i].enabled
        /\ \A j : j # i => RowKept(j)
    <3>1. CASE u = <<>>
      <4>1. db' = Without(i)
        BY <1>5, <3>1
      <4> QED
        BY <4>1, WithoutTable DEF RowKept
    <3>2. CASE u # <<>> /\ i \in Ids
      <4>1. db' = With(i, u[1]) /\ u[1] \in Stored /\ (Off(u) => ~u[1].enabled)
        BY <1>5, <3>2 DEF Off
      <4>2. DOMAIN db' = Ids \cup {i} /\ db'[i] = u[1] /\ \A j \in Ids : j # i => db'[j] = db[j]
        BY <1>1, <4>1, WithRow
      <4> QED
        BY <4>1, <4>2 DEF RowKept
    <3>3. CASE u # <<>> /\ i \notin Ids
      BY <1>5, <3>3 DEF RowKept, Ids
    <3> QED
      BY <3>1, <3>2, <3>3
  <2>2. Has(<<i>>) \/ Off(u)
    BY <1>0, <1>1, <1>5 DEF Fallback
  <2>3. Present(i)'
    BY <1>3, <2>1, <2>2 DEF Present, Ids
  <2>4. \A j : j # i => Sits(j)
    BY <1>1, <2>1, RowSits
  <2> QED
    BY <1>0, <1>2, <2>3, <2>4, OneCovered
<1> QED
  BY <1>0, <1>4, <1>5, UndoShape

(* and the end of a reload. *)
LEMMA HealCovers ==
  ASSUME RequestsInv, RequestsInv', NEW c \in Clients, Request(c) \/ Step(c), Heals
  PROVE  Covered'
<1>1. Follows' /\ driver' = Expansion(db', members')
  BY HealFollows, HealedDriver
<1>2. Moved(c) /\ Rests(client'[c]) /\ UnderWay(c) /\ c \notin overlapped
  BY BrokenSteps, EndsRests DEF Load, At, UnderWay
<1>3. \A d \in Clients : ~Working(client'[d])
  <2>1. \A d \in Clients : d # c => ~UnderWay(d) /\ client'[d] = client[d]
    BY <1>2, OthersStay DEF RequestsInv, Alone
  <2> QED
    BY <1>2, <2>1 DEF UnderWay, Working, Rests
<1>4. \A d \in Clients : Fallback(client[d])'
  BY <1>3 DEF Fallback, Working
<1>5. ASSUME NEW i, i \in DOMAIN db', db'[i].enabled, Direct(db'[i])
      PROVE  \E e \in driver' : e.key = <<i>>
  <2>1. Of(Wanted, i)' = {DirectEntry(i, db'[i])}
    BY <1>5, WantedAfter
  <2>2. Of(Wanted, i)' = Of(driver', i)
    BY <1>1 DEF Wanted, Of
  <2>3. DirectEntry(i, db'[i]) \in driver'
    BY <2>1, <2>2 DEF Of
  <2>4. DirectEntry(i, db'[i]).key = <<i>>
    BY EntryKeys
  <2> QED
    BY <2>3, <2>4
<1>6. \A i : Present(i)'
  BY <1>5 DEF Present, Has, Ids
<1> QED
  BY <1>4, <1>6 DEF Covered

LEMMA CalmStepCovers ==
  ASSUME RequestsInv, Calm, Calm', Covered, Room, MaxFaults <= 1, DomainsKept,
         faults \in Nat, faults' \in Nat, faults <= faults', NEW c \in Clients, Request(c) \/ Step(c)
  PROVE  StepCovers(c)
<1>1. CASE Request(c)
  <2>1. UNCHANGED <<db, members, driver>> /\ ~Working(client[c]) /\ ~Working(client'[c])
    BY <1>1, CalmRequest DEF RequestsInv, At, Working
  <2> QED
    BY <2>1, QuietCovers
<1>2. CASE ListRules(c) \/ Guard(c) \/ Read(c) \/ ListForImport(c) \/ NextVictim(c)
  <2>1. UNCHANGED <<db, driver>> /\ ~Working(client[c])
    BY <1>2 DEF ListRules, Guard, Read, ListForImport, NextVictim, At, Working
  <2>2. ~Working(client'[c])
    BY <1>2, QuietSteps
  <2> QED
    BY <2>1, <2>2, QuietCovers
<1>3. CASE Insert(c) \/ WriteRow(c) \/ DeleteRow(c) \/ InsertBatch(c) \/ Ioctl(c) \/ Undo(c)
  BY <1>3, InsertCovers, WriteCovers, DeleteCovers, InsertBatchCovers, IoctlCovers, UndoCovers
<1>4. ~Clear(c)
  BY DEF Clear, Calm
<1>5. ~Snapshot(c) /\ ~LoadGroupPaths(c) /\ ~Load(c)
  BY DEF Snapshot, LoadGroupPaths, Load, At, RequestsInv, Owed, Reloading, Calm
<1> QED
  BY <1>1, <1>2, <1>3, <1>4, <1>5 DEF Step

LEMMA NextCovered ==
  ASSUME RequestsInv, RequestsInv', RulesPresent, Room, MaxFaults <= 1, faults \in Nat,
         [DomainsKept]_mvars, [ManagerNext]_mvars
  PROVE  RulesPresent'
<1>0. faults' \in Nat /\ faults <= faults'
  BY CountingKept
<1>1. ASSUME UNCHANGED mvars PROVE RulesPresent'
  <2>1. UNCHANGED <<db, members, driver, client, broken, raced, faults>>
    BY <1>1 DEF mvars
  <2>2. Covered => Covered'
    BY <2>1 DEF Covered, Fallback, Owns, Present, Has, Ids
  <2>3. Calm' => Calm
    BY <2>1 DEF Calm, At
  <2> QED
    BY <2>2, <2>3 DEF RulesPresent
<1>2. ASSUME NEW c \in Clients, Request(c) \/ Step(c), Observe, DomainsKept
      PROVE  RulesPresent'
  <2>1. SUFFICES ASSUME Calm' PROVE Covered'
    BY DEF RulesPresent
  <2>2. CASE Heals
    BY <1>2, <2>2, HealCovers
  <2>3. CASE Calm
    <3>1. Covered
      BY <2>3 DEF RulesPresent
    <3>2. StepCovers(c) /\ Moved(c)
      BY <1>0, <1>2, <2>1, <2>3, <3>1, CalmStepCovers, TaskMoves
    <3> QED
      BY <2>3, <3>1, <3>2, KeepsCovered
  <2> QED
    BY <1>2, <2>1, <2>2, <2>3, CalmBefore
<1> QED
  BY <1>1, <1>2 DEF ManagerNext

LEMMA InitCovered == ManagerInit => RulesPresent
<1> SUFFICES ASSUME ManagerInit PROVE Covered
  BY DEF RulesPresent
<1>1. client = [c \in Clients |-> Idle] /\ Ids = {}
  BY EmptyTable DEF ManagerInit, Ids
<1>2. \A c \in Clients : client[c].pc = "idle"
  BY <1>1, IdleTask
<1>3. \A c \in Clients : Fallback(client[c])
  BY <1>2 DEF Fallback
<1> QED
  BY <1>1, <1>3 DEF Covered, Present

(* At rest every enabled rule is present. *)
LEMMA CoveredMisses ==
  ASSUME RulesPresent, RequestsInv
  PROVE  NoMissingRule
<1> SUFFICES ASSUME Quiet, ~Excused, NEW i \in Ids, db[i].enabled, Direct(db[i]) PROVE Has(<<i>>)
  BY DEF NoMissingRule
<1>1. Calm
  BY DEF Quiet, Excused, Calm, UnderWay, At
<1>2. i \in Numbers
  BY TableShape DEF RequestsInv, ManagerType, Ids
<1>3. \A c \in Clients : ~Owns(client[c], i)
  BY DEF Owns, Quiet, UnderWay
<1> QED
  BY <1>1, <1>2, <1>3 DEF RulesPresent, Covered, Present

(* One failed call of the database or the driver, wherever it falls, leaves every
   rule that is enabled in the table in force in the driver, as long as the driver
   has room and no update gives a rule a domain or takes it away: a step that
   fails is undone in the table (update_rule, enable_rule, disable_rule). *)
THEOREM OneFailureMissesNoRule ==
  ASSUME MaxFaults <= 1
  PROVE  ManagerSpec /\ []Room /\ [][DomainsKept]_mvars => []NoMissingRule
<1> DEFINE Inv == RequestsInv /\ RulesPresent /\ faults \in Nat
<1>1. ManagerInit => Inv
  BY InitRequests, InitCovered, InitFollows
<1>2. Inv /\ Room /\ [ManagerNext]_mvars /\ [DomainsKept]_mvars => Inv'
  BY NextRequests, NextCovered, CountingKept
<1>3. Inv => NoMissingRule
  BY CoveredMisses
<1> QED
  BY <1>1, <1>2, <1>3, PTL DEF ManagerSpec

(* The same without a condition on the steps, when no rule asked for has a domain. *)
THEOREM PlainRulesMissNone ==
  ASSUME MaxFaults <= 1, \A r \in Rules : r.remote_domain = {}
  PROVE  ManagerSpec /\ []Room => []NoMissingRule
<1>1. RequestsInv /\ RequestsInv' => DomainsKept
  BY TableShape, StoredPlain DEF RequestsInv, ManagerType, DomainsKept, Ids
<1>2. ManagerSpec => [][DomainsKept]_mvars
  BY <1>1, RequestsInvariant, PTL
<1> QED
  BY <1>2, OneFailureMissesNoRule, PTL
-----------------------------------------------------------------------------
(* When one rule covers another. *)
Option(S) == {{}} \cup {{x} : x \in S}

LEMMA OptionOf ==
  ASSUME NEW S, NEW o, Optional(o, S)
  PROVE  o \in Option(S)
BY DEF Optional, Option

-----------------------------------------------------------------------------
(* The fields of a RULE_INPUT. *)
LEMMA OrValue == \A x, default : Or({x}, default) = x /\ Or({}, default) = default
  BY DEF Or

(* A rule decides a connection when each of its fields applies. *)
HitPath(rule, conn) ==
  WcsEndsWithIgnoreCase(conn.ProcessPath, Truncated(convert_dos_path_to_nt(Or(rule.process_path, <<>>))))
HitAddress(rule, conn) ==
  LET mask == Or({1 .. Prefix(a) : a \in rule.remote_addr}, {})
      bits == Or({a.bits : a \in rule.remote_addr}, {})
      seen == IF conn.AddressFamily = CF_ADDR_FAMILY_V4 THEN mask \cap 1 .. V4Width ELSE mask
  IN  \/ bits = {}
      \/ Or({a.family : a \in rule.remote_addr}, 0) = conn.AddressFamily
         /\ conn.RemoteAddr \cap seen = bits \cap seen

LEMMA HitFields ==
  ASSUME NEW rule, NEW conn
  PROVE  HitBy(rule, conn) <=>
           /\ DirectionNumber(rule.direction) \in {RULE_DIRECTION_BOTH, conn.Direction}
           /\ Or(rule.process_id, 0) \in {0, conn.ProcessId}
           /\ HitPath(rule, conn)
           /\ Or({ProtocolNumber(p) : p \in rule.protocol}, 0) \in {0, conn.Protocol}
           /\ HitAddress(rule, conn)
           /\ PortApplies(PortStart(rule.remote_port), PortEnd(rule.remote_port), conn.RemotePort)
           /\ PortApplies(PortStart(rule.local_port), PortEnd(rule.local_port), conn.LocalPort)
BY DEF HitBy, from_rule, Applies, AddressApplies, HitPath, HitAddress

(* A suffix of a suffix, whatever drive the two paths begin with. *)
LEMMA PathCovered ==
  ASSUME NEW b, NEW n, NEW conn, RuleType(b), RuleType(n), ConnectionType(conn),
         \A d \in DOMAIN Volumes : Volumes[d] \in STRING,
         path_covers(b.process_path, n.process_path),
         \A path \in n.process_path : Len(path) <= PathLength,
         HitPath(n, conn)
  PROVE  HitPath(b, conn)
<1>1. CASE b.process_path = {}
  <2>1. Truncated(convert_dos_path_to_nt(<<>>)) = <<>>
    BY PathAssumption DEF Truncated, convert_dos_path_to_nt
  <2> QED
    BY <1>1, <2>1, OrValue DEF HitPath, WcsEndsWithIgnoreCase, ConnectionType
<1>2. CASE b.process_path # {}
  <2>1. PICK s \in Path, p \in Path : /\ b.process_path = {s} /\ n.process_path = {p}
                                      /\ WcsEndsWithIgnoreCase(p, s)
    BY <1>2, OptionOf DEF RuleType, Option, path_covers
  <2> DEFINE S == convert_dos_path_to_nt(s)
             P == convert_dos_path_to_nt(p)
             c == conn.ProcessPath
  <2>2. /\ s \in Seq(STRING) /\ Len(s) \in Nat /\ p \in Seq(STRING) /\ Len(p) \in Nat
        /\ c \in Seq(STRING) /\ Len(c) \in Nat /\ PathLength \in Nat /\ Len(p) <= PathLength
        /\ Len(s) <= Len(p) /\ \A i \in 1 .. Len(s) : p[Len(p) - Len(s) + i] = s[i]
    <3>1. s \in Seq(STRING) /\ p \in Seq(STRING) /\ c \in Seq(STRING) /\ PathLength \in Nat
      BY <2>1, PathAssumption DEF Path, ConnectionType
    <3>2. Len(p) <= PathLength
      BY <2>1
    <3>3. Len(s) <= Len(p) /\ \A i \in 1 .. Len(s) : p[Len(p) - Len(s) + i] = s[i]
      BY <2>1 DEF WcsEndsWithIgnoreCase
    <3>4. Len(s) \in Nat /\ Len(p) \in Nat /\ Len(c) \in Nat
      BY <3>1, LenProperties
    <3> QED
      BY <3>1, <3>2, <3>3, <3>4, Zenon
  <2>3. ASSUME NEW q \in Path
        PROVE  /\ convert_dos_path_to_nt(q) \in Seq(STRING)
               /\ Len(convert_dos_path_to_nt(q)) = Len(q)
               /\ \A i \in 1 .. Len(q) :
                    convert_dos_path_to_nt(q)[i] =
                      IF i = 1 /\ q[1] \in DOMAIN Volumes THEN Volumes[q[1]] ELSE q[i]
    BY SMTT(30) DEF Path, convert_dos_path_to_nt
  <2>4. /\ S \in Seq(STRING) /\ Len(S) = Len(s) /\ P \in Seq(STRING) /\ Len(P) = Len(p)
        /\ \A i \in 1 .. Len(s) : S[i] = IF i = 1 /\ s[1] \in DOMAIN Volumes THEN Volumes[s[1]] ELSE s[i]
        /\ \A i \in 1 .. Len(p) : P[i] = IF i = 1 /\ p[1] \in DOMAIN Volumes THEN Volumes[p[1]] ELSE p[i]
    BY <2>1, <2>3
  <2> HIDE DEF S, P, c
  <2>5. Truncated(S) = S /\ Truncated(P) = P
    BY <2>2, <2>4 DEF Truncated
  <2>6. WcsEndsWithIgnoreCase(c, P)
    BY <2>1, <2>5, OrValue DEF HitPath, P, c
  <2>7. ASSUME NEW i \in 1 .. Len(s)
        PROVE  P[Len(p) - Len(s) + i] = S[i]
    <3> DEFINE j == Len(p) - Len(s) + i
    <3>1. j \in 1 .. Len(p) /\ p[j] = s[i] /\ (j = 1 => i = 1 /\ Len(p) = Len(s))
      BY <2>2
    <3>2. CASE j = 1
      BY <2>4, <3>1, <3>2
    <3>3. CASE j # 1
      <4>1. j \in 2 .. Len(p)
        BY <2>2, <3>1, <3>3
      <4>2. p[j] \notin DOMAIN Volumes
        BY <2>1, <4>1 DEF Path
      <4> QED
        BY <2>4, <3>1, <3>3, <4>2
    <3> QED
      BY <3>2, <3>3
  <2>8. ASSUME NEW i \in 1 .. Len(S)
        PROVE  c[Len(c) - Len(S) + i] = S[i]
    <3> DEFINE j == Len(p) - Len(s) + i
    <3>1. i \in 1 .. Len(s) /\ Len(S) = Len(s) /\ Len(P) = Len(p) /\ Len(c) \in Nat
      BY <2>2, <2>4 DEF c
    <3>2. j \in 1 .. Len(P) /\ Len(c) - Len(P) + j = Len(c) - Len(S) + i
      <4>1. \A k, l, m \in Nat : \A x \in 1 .. k :
              k <= l => l - k + x \in 1 .. l /\ m - l + (l - k + x) = m - k + x
        OBVIOUS
      <4>2. Len(s) \in Nat /\ Len(p) \in Nat /\ Len(s) <= Len(p)
        BY <2>2
      <4> QED
        BY <3>1, <4>1, <4>2
    <3>3. c[Len(c) - Len(P) + j] = P[j]
      BY <2>6, <3>2 DEF WcsEndsWithIgnoreCase
    <3>4. P[j] = S[i]
      BY <2>7, <3>1
    <3> QED
      BY <3>2, <3>3, <3>4
  <2>9. Len(S) <= Len(c)
    <3>1. Len(P) <= Len(c)
      BY <2>6 DEF WcsEndsWithIgnoreCase
    <3>2. Len(c) \in Nat
      BY <2>2 DEF c
    <3> QED
      BY <2>2, <2>4, <3>1, <3>2
  <2>10. WcsEndsWithIgnoreCase(c, S)
    BY <2>8, <2>9 DEF WcsEndsWithIgnoreCase
  <2>11. Or(b.process_path, <<>>) = s
    BY <2>1, OrValue
  <2> QED
    BY <2>5, <2>10, <2>11 DEF HitPath, S, c
<1> QED
  BY <1>1, <1>2

LEMMA PrefixType ==
  ASSUME NEW x \in Address
  PROVE  Prefix(x) \in Nat
<1>1. HostBits(x.family) \in Nat
  BY WidthAssumption DEF HostBits
<1>2. ASSUME NEW option \in Option(Nat), NEW default \in Nat
      PROVE  Or(option, default) \in Nat
  <2>1. CASE option = {}
    BY <2>1, OrValue
  <2>2. CASE option # {}
    <3>1. PICK k \in Nat : option = {k}
      BY <2>2 DEF Option
    <3> QED
      BY <3>1, OrValue
  <2> QED
    BY <2>1, <2>2
<1>3. x.cidr \in Option(Nat) /\ x.mask \in Option(Nat)
  BY OptionOf DEF Address
<1> QED
  BY <1>1, <1>2, <1>3 DEF Prefix

(* A shorter prefix of the same bits; the mask of the driver is the prefix of
   the service, cut at the width of the family. *)
LEMMA AddressCovered ==
  ASSUME NEW b, NEW n, NEW conn, RuleType(b), RuleType(n),
         addr_field_covers(b.remote_addr, n.remote_addr),
         \A a \in n.remote_addr : a.bits # {},
         (b.remote_addr = {}) = (n.remote_addr = {}),
         HitAddress(n, conn)
  PROVE  HitAddress(b, conn)
<1>1. CASE b.remote_addr = {}
  BY <1>1, OrValue DEF HitAddress
<1>2. CASE b.remote_addr # {}
  <2>1. PICK s \in Address, a \in Address :
          /\ b.remote_addr = {s} /\ n.remote_addr = {a}
          /\ Prefix(s) <= Prefix(a) /\ s.family = a.family
          /\ s.bits \cap 1 .. Prefix(s) = a.bits \cap 1 .. Prefix(s)
    BY <1>2, OptionOf DEF RuleType, Option, addr_field_covers
  <2>2. \A x \in Address : Prefix(x) \in Nat
    BY PrefixType
  <2> DEFINE seen(x) == IF conn.AddressFamily = CF_ADDR_FAMILY_V4
                        THEN 1 .. Prefix(x) \cap 1 .. V4Width ELSE 1 .. Prefix(x)
  <2>3. ASSUME NEW rule, NEW x \in Address, rule.remote_addr = {x}
        PROVE  HitAddress(rule, conn) <=>
                 x.bits = {} \/ (x.family = conn.AddressFamily /\ conn.RemoteAddr \cap seen(x) = x.bits \cap seen(x))
    <3>1. /\ {1 .. Prefix(y) : y \in rule.remote_addr} = {1 .. Prefix(x)}
          /\ {y.bits : y \in rule.remote_addr} = {x.bits}
          /\ {y.family : y \in rule.remote_addr} = {x.family}
      BY <2>3
    <3>2. /\ Or({1 .. Prefix(y) : y \in rule.remote_addr}, {}) = 1 .. Prefix(x)
          /\ Or({y.bits : y \in rule.remote_addr}, {}) = x.bits
          /\ Or({y.family : y \in rule.remote_addr}, 0) = x.family
      BY <3>1, OrValue
    <3> QED
      BY <3>2 DEF HitAddress
  <2>4. a.family = conn.AddressFamily /\ conn.RemoteAddr \cap seen(a) = a.bits \cap seen(a)
    BY <2>1, <2>3
  <2>5. seen(s) \subseteq seen(a) /\ seen(s) \subseteq 1 .. Prefix(s)
    BY <2>1, <2>2
  <2> HIDE DEF seen
  <2>6. conn.RemoteAddr \cap seen(s) = s.bits \cap seen(s)
    BY <2>1, <2>4, <2>5
  <2> QED
    BY <2>1, <2>3, <2>4, <2>6
<1> QED
  BY <1>1, <1>2

LEMMA PortCovered ==
  ASSUME NEW b \in Option(Port), NEW n \in Option(Port), NEW port \in Nat,
         port_covers(b, n), \A p \in n : p.first > 0,
         PortApplies(PortStart(n), PortEnd(n), port)
  PROVE  PortApplies(PortStart(b), PortEnd(b), port)
<1>1. CASE b = {}
  BY <1>1, OrValue DEF PortApplies, PortStart, PortEnd
<1>2. CASE b # {}
  <2>1. PICK s \in Port, p \in Port :
          /\ b = {s} /\ n = {p}
          /\ \/ s.kind = "Single" /\ p.kind = "Single" /\ s.first = p.first
             \/ s.kind = "Range" /\ s.first <= p.first /\ p.last <= s.last
    BY <1>2 DEF Option, port_covers
  <2>2. \A q : PortStart({q}) = q.first /\ PortEnd({q}) = q.last
    <3>1. \A q : {x.first : x \in {q}} = {q.first} /\ {x.last : x \in {q}} = {q.last}
      OBVIOUS
    <3> QED
      BY <3>1, OrValue DEF PortStart, PortEnd
  <2>3. p.first > 0 /\ p.first <= port /\ port <= p.last
    BY <2>1, <2>2 DEF PortApplies, Port
  <2> QED
    BY <2>1, <2>2, <2>3 DEF PortApplies, Port
<1> QED
  BY <1>1, <1>2

(* One comparison. *)
LEMMA CoveredHits ==
  ASSUME NEW b, NEW n, NEW conn, RuleType(b), RuleType(n), ConnectionType(conn),
         \A d \in DOMAIN Volumes : Volumes[d] \in STRING,
         matchset_covers(b, n), Plain(n), (b.remote_addr = {}) = (n.remote_addr = {}),
         HitBy(n, conn)
  PROVE  HitBy(b, conn)
<1>1. DirectionNumber(b.direction) \in {RULE_DIRECTION_BOTH, conn.Direction}
  BY HitFields DEF matchset_covers, direction_covers, DirectionNumber
<1>2. Or(b.process_id, 0) \in {0, conn.ProcessId}
  BY HitFields, OrValue DEF matchset_covers, OptionCovers
<1>3. HitPath(b, conn)
  BY HitFields, PathCovered DEF matchset_covers, Plain
<1>4. Or({ProtocolNumber(p) : p \in b.protocol}, 0) \in {0, conn.Protocol}
  <2>1. CASE b.protocol = {"Any"} \/ b.protocol = {}
    <3>1. ProtocolNumber("Any") = 0
      BY DEF ProtocolNumber
    <3>2. \/ {ProtocolNumber(p) : p \in b.protocol} = {0}
          \/ {ProtocolNumber(p) : p \in b.protocol} = {}
      BY <2>1, <3>1
    <3> QED
      BY <3>2, OrValue
  <2>2. CASE b.protocol = n.protocol
    BY <2>2, HitFields
  <2> QED
    BY <2>1, <2>2 DEF matchset_covers, protocol_covers, OptionCovers
<1>5. HitAddress(b, conn)
  BY HitFields, AddressCovered DEF matchset_covers, Plain
<1>6. PortApplies(PortStart(b.remote_port), PortEnd(b.remote_port), conn.RemotePort)
  BY HitFields, PortCovered, OptionOf DEF matchset_covers, Plain, RuleType, ConnectionType
<1>7. PortApplies(PortStart(b.local_port), PortEnd(b.local_port), conn.LocalPort)
  BY HitFields, PortCovered, OptionOf DEF matchset_covers, Plain, RuleType, ConnectionType
<1> QED
  BY <1>1, <1>2, <1>3, <1>4, <1>5, <1>6, <1>7, HitFields

(* A rule that matchset_covers another decides in the driver every connection
   the other decides, for rules and connections of these types: create_rule
   may drop the narrow one (matchset_covers, manager.rs). *)
THEOREM CoveredIsDecided == CoverSpec => []CoverSound
<1> DEFINE Inv == broad \in CoverRules /\ narrow \in CoverRules
<1>1. CoverInit => Inv
  BY DEF CoverInit
<1>2. Inv /\ [Compare]_cvars => Inv'
  BY DEF Compare, cvars
<1>3. Inv => CoverSound
  BY CoverAssumption, CoveredHits DEF CoverType, CoverSound, AllHit
<1> QED
  BY <1>1, <1>2, <1>3, PTL DEF CoverSpec
-----------------------------------------------------------------------------
(* What a rule that is asked for may be merged into. *)

(* Rules and connections of the types the driver can tell apart, with none of the
   zeros that it takes for "any", all with a remote address or all without. *)
Comparable ==
  /\ \A d \in DOMAIN Volumes : Volumes[d] \in STRING
  /\ \A r \in Rules : RuleType(r) /\ Plain(r)
  /\ \A conn \in Connections : ConnectionType(conn)
  /\ \A r, s \in Rules : (r.remote_addr = {}) = (s.remote_addr = {})

(* A rule that decides what was asked for as it was asked, *)
TakesOver(rule, new) ==
  /\ new.enabled /\ new.action = rule.action
  /\ \A conn \in Connections : HitBy(rule, conn) => HitBy(new, conn)

(* and goes on deciding what the row before it decided. *)
Merged(rule, old, new) ==
  /\ TakesOver(rule, new)
  /\ \A conn \in Connections :
       HitBy(old, conn) => HitBy(rule, conn) \/ (HitBy(new, conn) /\ old.action = new.action)

(* The fields a connection is compared with. *)
Hits(direction, id, path, protocol, addr, remote, local, conn) ==
  /\ DirectionNumber(direction) \in {RULE_DIRECTION_BOTH, conn.Direction}
  /\ Or(id, 0) \in {0, conn.ProcessId}
  /\ WcsEndsWithIgnoreCase(conn.ProcessPath, Truncated(convert_dos_path_to_nt(Or(path, <<>>))))
  /\ Or({ProtocolNumber(p) : p \in protocol}, 0) \in {0, conn.Protocol}
  /\ LET mask == Or({1 .. Prefix(a) : a \in addr}, {})
         bits == Or({a.bits : a \in addr}, {})
         seen == IF conn.AddressFamily = CF_ADDR_FAMILY_V4 THEN mask \cap 1 .. V4Width ELSE mask
     IN  \/ bits = {}
         \/ Or({a.family : a \in addr}, 0) = conn.AddressFamily
            /\ conn.RemoteAddr \cap seen = bits \cap seen
  /\ PortApplies(PortStart(remote), PortEnd(remote), conn.RemotePort)
  /\ PortApplies(PortStart(local), PortEnd(local), conn.LocalPort)

LEMMA HitIs ==
  ASSUME NEW rule, NEW conn
  PROVE  HitBy(rule, conn) <=>
           Hits(rule.direction, rule.process_id, rule.process_path, rule.protocol, rule.remote_addr,
                rule.remote_port, rule.local_port, conn)
  BY HitFields, Zenon DEF Hits, HitPath, HitAddress

LEMMA SameHits ==
  ASSUME NEW r, NEW s, NEW conn,
         r.direction = s.direction, r.protocol = s.protocol, r.process_path = s.process_path,
         r.process_id = s.process_id, r.remote_addr = s.remote_addr,
         r.remote_port = s.remote_port, r.local_port = s.local_port
  PROVE  HitBy(r, conn) <=> HitBy(s, conn)
  BY HitIs

(* The entry of a rule. *)
LEMMA EntryDecides ==
  ASSUME NEW i, NEW r, NEW conn
  PROVE  LET e == DirectEntry(i, r)
         IN  /\ Applies(e.input, conn) <=> r.enabled /\ HitBy(r, conn)
             /\ e.input.IsAllow = (r.action = "Allow")
<1>1. Applies(from_rule(r), conn) <=> r.enabled /\ HitBy(r, conn)
  BY DEF HitBy, from_rule, Applies, AddressApplies
<1>2. from_rule(r).IsAllow = (r.action = "Allow")
  BY DEF from_rule
<1> QED
  BY <1>1, <1>2 DEF DirectEntry

(* Rows are of the types of the rules they were asked for as. *)
LEMMA StoredComparable ==
  ASSUME Comparable, NEW r \in Stored
  PROVE  RuleType(r) /\ Plain(r) /\ \A s \in Rules : (r.remote_addr = {}) = (s.remote_addr = {})
<1>1. PICK s \in Rules : same_effective_fields(r, s)
  BY DEF Stored
<1>2. /\ r["direction"] = s["direction"] /\ r["protocol"] = s["protocol"]
      /\ r["process_path"] = s["process_path"] /\ r["process_id"] = s["process_id"]
      /\ r["remote_addr"] = s["remote_addr"] /\ r["remote_port"] = s["remote_port"]
      /\ r["local_port"] = s["local_port"]
  BY <1>1 DEF same_effective_fields, EffectiveFields
<1>3. RuleType(s) /\ Plain(s) /\ \A t \in Rules : (s.remote_addr = {}) = (t.remote_addr = {})
  BY DEF Comparable
<1>4. RuleType(r)
  BY <1>2, <1>3 DEF RuleType
<1>5. Plain(r)
  BY <1>2, <1>3 DEF Plain
<1> QED
  BY <1>2, <1>3, <1>4, <1>5

LEMMA CoveredStored ==
  ASSUME Comparable, NEW b \in Stored, NEW n \in Stored, NEW conn \in Connections,
         matchset_covers(b, n), b \in Rules \/ n \in Rules, HitBy(n, conn)
  PROVE  HitBy(b, conn)
<1>1. RuleType(b) /\ RuleType(n) /\ Plain(n)
  BY StoredComparable
<1>2. (b.remote_addr = {}) = (n.remote_addr = {})
  BY StoredComparable
<1>3. ConnectionType(conn) /\ \A d \in DOMAIN Volumes : Volumes[d] \in STRING
  BY DEF Comparable
<1> QED
  BY <1>1, <1>2, <1>3, CoveredHits

(* Whichever rule is merged into, the row it becomes decides what was asked for,
   and what the row decided before. *)
LEMMA MergesLoseNothing ==
  ASSUME Comparable, ManagerType, NEW rule \in Rules, rule.enabled, Direct(rule), NEW m \in Merges(rule)
  PROVE  /\ m[1] \in Ids /\ ~db[m[1]].system /\ Direct(db[m[1]]) /\ Direct(m[2])
         /\ Merged(rule, db[m[1]], m[2])
<1>1. \A i \in UserRules : i \in Ids /\ db[i] \in Stored /\ ~db[i].system
  BY TableShape DEF ManagerType, UserRules, Ids
<1>2. rule \in Stored /\ rule.action \in {"Allow", "Block"} /\ rule.enabled = TRUE
  <2>1. rule \in Stored
    BY RulesStored
  <2> QED
    BY <2>1, RuleFields
<1>0. PICK a \in {"Allow", "Block"}, on \in BOOLEAN : a = rule.action /\ on = rule.enabled
  <2>1. rule.enabled \in BOOLEAN
    BY <1>2, Zenon
  <2> QED
    BY <1>2, <2>1, Zenon
<1>3. ASSUME NEW id \in Duplicates(rule),
             m = <<id, [db[id] EXCEPT !.action = rule.action, !.enabled = rule.enabled]>>
      PROVE  /\ m[1] \in Ids /\ ~db[m[1]].system /\ Direct(db[m[1]]) /\ Direct(m[2])
             /\ Merged(rule, db[m[1]], m[2])
  <2>1. PICK o, n : o = db[id] /\ n = Altered(o, a, on)
    OBVIOUS
  <2>2. id \in UserRules /\ same_effective_fields(o, rule)
    BY <2>1 DEF Duplicates
  <2>3. o \in Stored /\ id \in Ids /\ ~o.system
    BY <1>1, <2>1, <2>2
  <2>4. m[1] = id /\ m[2] = n
    BY <1>0, <1>3, <2>1 DEF Altered
  <2>5. /\ n.enabled = on /\ n.action = a
        /\ n.direction = o.direction /\ n.protocol = o.protocol /\ n.process_path = o.process_path
        /\ n.process_id = o.process_id /\ n.remote_addr = o.remote_addr
        /\ n.remote_domain = o.remote_domain /\ n.remote_port = o.remote_port
        /\ n.local_port = o.local_port /\ n.app_group_id = o.app_group_id
    BY <2>1, <2>3, Merging
  <2>6. /\ o["direction"] = rule["direction"] /\ o["protocol"] = rule["protocol"]
        /\ o["process_path"] = rule["process_path"] /\ o["process_id"] = rule["process_id"]
        /\ o["remote_addr"] = rule["remote_addr"] /\ o["remote_port"] = rule["remote_port"]
        /\ o["local_port"] = rule["local_port"] /\ o["remote_domain"] = rule["remote_domain"]
        /\ o["app_group_id"] = rule["app_group_id"]
    BY <2>2 DEF same_effective_fields, EffectiveFields
  <2>7. \A conn : (HitBy(o, conn) <=> HitBy(rule, conn)) /\ (HitBy(n, conn) <=> HitBy(o, conn))
    BY <2>5, <2>6, SameHits
  <2>8. Direct(o) /\ Direct(n)
    BY <2>5, <2>6 DEF Direct
  <2>9. Merged(rule, o, n)
    BY <1>0, <2>5, <2>7 DEF Merged, TakesOver
  <2> QED
    BY <2>1, <2>3, <2>4, <2>8, <2>9
<1>4. ASSUME NEW id \in Narrower(rule), m = <<id, rule>>
      PROVE  /\ m[1] \in Ids /\ ~db[m[1]].system /\ Direct(db[m[1]]) /\ Direct(m[2])
             /\ Merged(rule, db[m[1]], m[2])
  <2>1. PICK o : o = db[id]
    OBVIOUS
  <2>2. id \in UserRules /\ SameIntent(o, rule) /\ matchset_covers(rule, o)
    BY <2>1 DEF Narrower
  <2>3. o \in Stored /\ id \in Ids /\ ~o.system
    BY <1>1, <2>1, <2>2
  <2>4. m[1] = id /\ m[2] = rule
    BY <1>4
  <2>5. Direct(o)
    BY <2>2 DEF Direct, SameIntent, matchset_covers
  <2>6. \A conn \in Connections : HitBy(o, conn) => HitBy(rule, conn)
    BY <1>2, <2>2, <2>3, CoveredStored
  <2>7. Merged(rule, o, rule)
    BY <2>6 DEF Merged, TakesOver
  <2> QED
    BY <2>1, <2>3, <2>4, <2>5, <2>7
<1>5. ASSUME NEW id \in Broader(rule), m = <<id, [db[id] EXCEPT !.enabled = rule.enabled]>>
      PROVE  /\ m[1] \in Ids /\ ~db[m[1]].system /\ Direct(db[m[1]]) /\ Direct(m[2])
             /\ Merged(rule, db[m[1]], m[2])
  <2>1. PICK o : o = db[id]
    OBVIOUS
  <2>2. id \in UserRules /\ SameIntent(o, rule) /\ matchset_covers(o, rule)
    BY <2>1 DEF Broader
  <2>3. o \in Stored /\ id \in Ids /\ ~o.system
    BY <1>1, <2>1, <2>2
  <2>4. PICK n : n = Altered(o, a, on)
    OBVIOUS
  <2>5. m[1] = id /\ m[2] = n
    <3>1. o.action = rule.action
      BY <2>2 DEF SameIntent
    <3>2. [o EXCEPT !.enabled = rule.enabled] = [o EXCEPT !.action = rule.action, !.enabled = rule.enabled]
      BY <2>3, <3>1 DEF Stored, Rule
    <3> QED
      BY <1>0, <1>5, <2>1, <2>4, <3>2 DEF Altered
  <2>6. /\ n.enabled = on /\ n.action = a
        /\ n.direction = o.direction /\ n.protocol = o.protocol /\ n.process_path = o.process_path
        /\ n.process_id = o.process_id /\ n.remote_addr = o.remote_addr
        /\ n.remote_domain = o.remote_domain /\ n.remote_port = o.remote_port
        /\ n.local_port = o.local_port /\ n.app_group_id = o.app_group_id
    BY <2>3, <2>4, Merging
  <2>7. \A conn : HitBy(n, conn) <=> HitBy(o, conn)
    BY <2>6, SameHits
  <2>8. Direct(o) /\ Direct(n)
    BY <2>2, <2>6 DEF Direct, SameIntent, matchset_covers
  <2>9. \A conn \in Connections : HitBy(rule, conn) => HitBy(o, conn)
    BY <1>2, <2>2, <2>3, CoveredStored
  <2>10. o.action = n.action
    BY <1>0, <2>2, <2>6 DEF SameIntent
  <2>11. Merged(rule, o, n)
    BY <1>0, <2>6, <2>7, <2>9, <2>10 DEF Merged, TakesOver
  <2> QED
    BY <2>1, <2>3, <2>5, <2>8, <2>11
<1> QED
  BY <1>3, <1>4, <1>5 DEF Merges
-----------------------------------------------------------------------------
(* A request keeps in mind what it was asked for and what it found, or drops it. *)
Remembers(y, x) ==
  y.asked = {} \/ (y.asked = x.asked /\ y.before = x.before /\ y.batch = x.batch)
Recalls(c) == Remembers(client'[c], client[c])

LEMMA RecallsAt ==
  ASSUME ManagerType, NEW c \in Clients, NEW p, GoesTo(c, p)
  PROVE  Recalls(c)
<1> DEFINE n == [client[c] EXCEPT !.pc = p]
<1>1. client'[c] = n
  BY Goal DEF GoesTo, Goes
<1>2. n.asked = client[c].asked /\ n.before = client[c].before /\ n.batch = client[c].batch
  BY DEF ManagerType, IsTask, Fields
<1> QED
  BY <1>1, <1>2 DEF Recalls, Remembers

LEMMA EndsRecalls ==
  ASSUME ManagerType, NEW c \in Clients, Ends(c)
  PROVE  client'[c].asked = {} /\ Recalls(c)
<1>1. \A b, v : Importing(c, b, v).asked = {}
  BY DEF Importing, Idle
<1>2. Idle.asked = {}
  BY DEF Idle
<1>3. client'[c] \in {Idle, Importing(c, client[c].batch, client[c].victims)}
  BY Goal DEF Ends
<1> QED
  BY <1>1, <1>2, <1>3 DEF Recalls, Remembers

LEMMA FailsRecalls ==
  ASSUME ManagerType, NEW c \in Clients, Fails(c)
  PROVE  Recalls(c)
  BY RecallsAt, EndsRecalls DEF Fails

LEMMA WriteRecalls ==
  ASSUME ManagerType, NEW c \in Clients, WriteRow(c)
  PROVE  Recalls(c)
<1> DEFINE x == client[c]
<1>1. PICK rule \in x.rule, old \in x.old :
        Goes(c, IF x.kind = "update" THEN AfterUpdate(c, old, rule) ELSE AfterSwitch(c, rule))
  BY DEF WriteRow
<1> DEFINE n == IF x.kind = "update" THEN AfterUpdate(c, old, rule) ELSE AfterSwitch(c, rule)
<1>2. client'[c] = n
  BY <1>1, Goal
<1>3. IsTask(x)
  BY DEF ManagerType
<1> DEFINE Like(k) == k.asked = x.asked /\ k.before = x.before /\ k.batch = x.batch
<1>4. \A p : Like([x EXCEPT !.pc = p])
  BY <1>3 DEF IsTask, Fields
<1>5. \A p, u : Like([x EXCEPT !.pc = p, !.undo = u])
  BY <1>3 DEF IsTask, Fields
<1>6. \A p, u : Like([x EXCEPT !.undo = u, !.pc = p])
  BY <1>3 DEF IsTask, Fields
<1>7. Idle.asked = {}
  BY DEF Idle
<1>8. \/ n = Idle
      \/ \E p : n = [x EXCEPT !.pc = p]
      \/ \E p, u : n = [x EXCEPT !.pc = p, !.undo = u] \/ n = [x EXCEPT !.undo = u, !.pc = p]
  <2>1. CASE x.kind = "update"
    <3>1. n = AfterUpdate(c, old, rule)
      BY <2>1
    <3> HIDE DEF n
    <3> QED
      BY <3>1, Zenon DEF AfterUpdate
  <2>2. CASE x.kind # "update"
    <3>1. n = AfterSwitch(c, rule)
      BY <2>2
    <3> HIDE DEF n
    <3> QED
      BY <3>1, Zenon DEF AfterSwitch
  <2> QED
    BY <2>1, <2>2
<1> HIDE DEF n
<1>9. n.asked = {} \/ Like(n)
  <2> HIDE DEF Like
  <2>1. CASE n = Idle
    BY <1>7, <2>1
  <2>2. ASSUME NEW p, n = [x EXCEPT !.pc = p] PROVE Like(n)
    BY <1>4, <2>2
  <2>3. ASSUME NEW p, NEW u, n = [x EXCEPT !.pc = p, !.undo = u] PROVE Like(n)
    BY <1>5, <2>3, Zenon
  <2>4. ASSUME NEW p, NEW u, n = [x EXCEPT !.undo = u, !.pc = p] PROVE Like(n)
    BY <1>6, <2>4, Zenon
  <2> QED
    BY <1>8, <2>1, <2>2, <2>3, <2>4, Zenon
<1> QED
  BY <1>2, <1>9 DEF Recalls, Remembers

LEMMA StepRecalls ==
  ASSUME ManagerType, NEW c \in Clients, Step(c)
  PROVE  Recalls(c)
<1> DEFINE x == client[c]
           Like(k) == k.asked = x.asked /\ k.before = x.before /\ k.batch = x.batch
<1>0. IsTask(x) /\ \A n : Goes(c, n) => client'[c] = n
  BY Goal DEF ManagerType
<1>1. ASSUME NEW n, Goes(c, n), n.asked = {} \/ Like(n) PROVE Recalls(c)
  BY <1>0, <1>1 DEF Recalls, Remembers
<1>2. CASE ListRules(c)
  <2>1. \A i, r : Like([x EXCEPT !.pc = "guard", !.kind = "update", !.id = i, !.rule = r])
    BY <1>0 DEF IsTask, Fields
  <2> HIDE DEF Like
  <2> QED
    BY <1>1, <1>2, <2>1, RecallsAt DEF ListRules
<1>3. CASE Insert(c)
  <2>1. \A i, u, p : Like([x EXCEPT !.id = i, !.undo = u, !.pc = p])
    BY <1>0 DEF IsTask, Fields
  <2> HIDE DEF Like
  <2> QED
    BY <1>1, <1>3, <2>1, EndsRecalls DEF Insert
<1>4. CASE ListForImport(c) \/ InsertBatch(c)
  <2>1. Idle.asked = {} /\ \A k : [Idle EXCEPT !.pc = "clear", !.kind = k].asked = {}
    BY DEF Idle
  <2>2. \A b, v : Importing(c, b, v).asked = {}
    BY DEF Importing, Idle
  <2> HIDE DEF Like
  <2> QED
    BY <1>1, <1>4, <2>1, <2>2 DEF ListForImport, InsertBatch
<1>5. CASE NextVictim(c)
  <2>1. \A i, v : Like([x EXCEPT !.pc = "read", !.id = i, !.victims = v])
    BY <1>0 DEF IsTask, Fields
  <2>2. PICK i \in x.victims : Goes(c, [x EXCEPT !.pc = "read", !.id = i, !.victims = x.victims \ {i}])
    BY <1>5 DEF NextVictim
  <2> HIDE DEF Like
  <2> QED
    BY <1>1, <2>1, <2>2
<1>6. CASE Guard(c)
  BY <1>6, RecallsAt, EndsRecalls DEF Guard
<1>7. CASE Read(c)
  <2> DEFINE n == [x EXCEPT !.pc = "write", !.old = Row(x.id)]
  <2>1. IsTask(n) /\ Like(n)
    <3>1. Row(x.id) \subseteq Stored
      BY TableShape DEF ManagerType, Row, Ids
    <3> QED
      BY <1>0, <3>1 DEF IsTask, Fields
  <2>2. Ends(c) \/ Goes(c, n) \/ \E S : Goes(c, [n EXCEPT !.rule = S])
    BY <1>7, Zenon DEF Read
  <2> HIDE DEF n
  <2>3. \A S : Like([n EXCEPT !.rule = S])
    BY <2>1 DEF IsTask, Fields
  <2> HIDE DEF Like
  <2> QED
    BY <1>1, <2>1, <2>2, <2>3, EndsRecalls
<1>8. CASE WriteRow(c)
  BY <1>8, WriteRecalls
<1>9. CASE DeleteRow(c) \/ Ioctl(c) \/ Undo(c)
  BY <1>9, RecallsAt, EndsRecalls, FailsRecalls DEF DeleteRow, Ioctl, Undo
<1>10. CASE Clear(c)
  <2>1. Like([x EXCEPT !.pc = "snapshot", !.clean = TRUE])
    BY <1>0 DEF IsTask, Fields
  <2> HIDE DEF Like
  <2> QED
    BY <1>1, <1>10, <2>1, FailsRecalls DEF Clear
<1>11. CASE Snapshot(c)
  <2>1. \A s : Like([x EXCEPT !.pc = "paths", !.snapshot = s])
    BY <1>0 DEF IsTask, Fields
  <2> HIDE DEF Like
  <2> QED
    BY <1>1, <1>11, <2>1, FailsRecalls DEF Snapshot
<1>12. CASE LoadGroupPaths(c)
  <2>1. \A s, t : Like([x EXCEPT !.pc = "load", !.snapshot = s, !.todo = t])
    BY <1>0 DEF IsTask, Fields
  <2>2. \A s, t : Like([x EXCEPT !.pc = "load", !.snapshot = s, !.clean = FALSE, !.todo = t])
    BY <1>0 DEF IsTask, Fields
  <2> HIDE DEF Like
  <2> QED
    BY <1>1, <1>12, <2>1, <2>2 DEF LoadGroupPaths
<1>13. CASE Load(c)
  <2>1. ASSUME NEW e, NEW ok, Loaded(c, e, ok) PROVE Recalls(c)
    <3>1. client'[c].asked = x.asked /\ client'[c].before = x.before /\ client'[c].batch = x.batch
      BY <1>0, <2>1 DEF Loaded, ManagerType, IsTask, Fields
    <3> QED
      BY <3>1 DEF Recalls, Remembers
  <2> QED
    BY <1>13, <2>1, EndsRecalls DEF Load
<1> QED
  BY <1>2, <1>3, <1>4, <1>5, <1>6, <1>7, <1>8, <1>9, <1>10, <1>11, <1>12, <1>13 DEF Step
-----------------------------------------------------------------------------
(* A creation that has met no other request, at each of its steps: what it found in
   the driver is still there, and the rule it has arrived at will make up for what
   it takes away. *)
Making(x, rule) ==
  /\ rule \in Rules /\ x.before = driver /\ x.batch = <<>>
  /\ \/ x.pc \in {"list", "insert"} /\ x.rule = {rule}
     \/ /\ Deciding(x) /\ x.kind = "update"
        /\ x.id \in Ids /\ ~db[x.id].system /\ Direct(db[x.id])
        /\ \E new : x.rule = {new} /\ Direct(new) /\ Merged(rule, db[x.id], new)
     \/ x.pc = "add" /\ \E new : x.rule = {new} /\ TakesOver(rule, new)
     \/ /\ x.pc = "modify"
        /\ \E old, new : /\ x.rule = {new} /\ Merged(rule, old, new)
                         /\ Of(driver, x.id) = {DirectEntry(x.id, old)}

CreateRight ==
  ~broken /\ ~raced /\ faults = 0 =>
    \A c \in Clients \ overlapped : UnderWay(c) =>
      \A rule \in client[c].asked : (rule.enabled /\ Direct(rule)) => Making(client[c], rule)

(* What the end of a creation owes. *)
Kept(c, rule) ==
  \A conn \in Connections :
    /\ HitBy(rule, conn) => Decided(driver', conn, rule.action = "Allow")
    /\ \A allow \in BOOLEAN :
         (Decided(client[c].before, conn, allow) /\ ~HitBy(rule, conn)) => Decided(driver', conn, allow)

StepMakes(c, rule) ==
  /\ client'[c] = Idle => Kept(c, rule)
  /\ client'[c].asked # {} => Making(client[c], rule)'

LEMMA ListMakes ==
  ASSUME Comparable, RequestsInv, NEW c \in Clients, NEW rule, rule.enabled, Direct(rule),
         Making(client[c], rule), ListRules(c), Recalls(c)
  PROVE  StepMakes(c, rule)
<1>0. PICK x, y : x = client[c] /\ y = client'[c]
  OBVIOUS
<1>1. IsTask(x) /\ x.pc = "list" /\ UNCHANGED <<db, driver>>
  BY <1>0 DEF RequestsInv, ManagerType, ListRules, At
<1>2. rule \in Rules /\ x.before = driver /\ x.batch = <<>> /\ x.rule = {rule}
  BY <1>0, <1>1 DEF Making, Deciding
<1>3. \/ GoesTo(c, "insert")
      \/ \E m \in Merges(rule) :
           Goes(c, [x EXCEPT !.pc = "guard", !.kind = "update", !.id = m[1], !.rule = {m[2]}])
  BY <1>0, <1>2 DEF ListRules
<1>4. y.asked # {} => y.before = driver' /\ y.batch = <<>>
  BY <1>0, <1>1, <1>2 DEF Recalls, Remembers
<1>5. CASE GoesTo(c, "insert")
  <2> DEFINE n == [x EXCEPT !.pc = "insert"]
  <2>1. y = n
    BY <1>0, <1>5, Goal DEF RequestsInv, Goes, GoesTo
  <2>2. n.pc = "insert" /\ n.rule = x.rule
    BY <1>1, AtStep
  <2> HIDE DEF n
  <2>3. y.pc = "insert" /\ y.rule = {rule}
    BY <1>2, <2>1, <2>2
  <2> QED
    BY <1>0, <1>2, <1>4, <2>3, IdleTask DEF StepMakes, Making
<1>6. ASSUME NEW m \in Merges(rule),
             Goes(c, [x EXCEPT !.pc = "guard", !.kind = "update", !.id = m[1], !.rule = {m[2]}])
      PROVE  StepMakes(c, rule)
  <2>1. y = [x EXCEPT !.pc = "guard", !.kind = "update", !.id = m[1], !.rule = {m[2]}]
    BY <1>0, <1>6, Goal DEF RequestsInv
  <2>2. y.pc = "guard" /\ y.kind = "update" /\ y.id = m[1] /\ y.rule = {m[2]}
    BY <1>1, <2>1 DEF IsTask, Fields
  <2>3. /\ m[1] \in Ids /\ ~db[m[1]].system /\ Direct(db[m[1]]) /\ Direct(m[2])
        /\ Merged(rule, db[m[1]], m[2])
    BY <1>2, MergesLoseNothing DEF RequestsInv
  <2>4. DOMAIN db' = Ids /\ db' = db
    BY <1>1 DEF Ids
  <2>5. y.asked # {} => Making(y, rule)'
    BY <1>2, <1>4, <2>2, <2>3, <2>4 DEF Making, Deciding, Ids
  <2> QED
    BY <1>0, <2>2, <2>5, IdleTask DEF StepMakes
<1> QED
  BY <1>3, <1>5, <1>6

LEMMA InsertMakes ==
  ASSUME RequestsInv, NEW c \in Clients, NEW rule, rule.enabled, Direct(rule),
         Making(client[c], rule), Insert(c), Recalls(c)
  PROVE  StepMakes(c, rule)
<1>0. PICK x, y : x = client[c] /\ y = client'[c]
  OBVIOUS
<1>1. x.pc = "insert" /\ UNCHANGED driver
  BY <1>0 DEF Insert, At
<1>2. rule \in Rules /\ x.before = driver /\ x.batch = <<>> /\ x.rule = {rule}
  BY <1>0, <1>1 DEF Making, Deciding
<1>3. y.pc = "add" /\ y.rule = {rule}
  BY <1>0, <1>2, InsertShape DEF Direct
<1>4. y.asked # {} => y.before = driver' /\ y.batch = <<>>
  BY <1>0, <1>1, <1>2 DEF Recalls, Remembers
<1>5. TakesOver(rule, rule)
  BY DEF TakesOver
<1>6. y.asked # {} => Making(y, rule)'
  BY <1>2, <1>3, <1>4, <1>5 DEF Making
<1> QED
  BY <1>0, <1>3, <1>6, IdleTask DEF StepMakes

LEMMA GuardMakes ==
  ASSUME RequestsInv, NEW c \in Clients, NEW rule, Making(client[c], rule), Guard(c), Recalls(c)
  PROVE  StepMakes(c, rule)
<1>0. PICK x, y : x = client[c] /\ y = client'[c]
  OBVIOUS
<1>1. IsTask(x) /\ x.pc = "guard" /\ UNCHANGED <<db, driver>>
  BY <1>0 DEF RequestsInv, ManagerType, Guard, At
<1>2. /\ rule \in Rules /\ x.before = driver /\ x.batch = <<>> /\ x.kind = "update"
      /\ x.id \in Ids /\ ~db[x.id].system /\ Direct(db[x.id])
      /\ \E new : x.rule = {new} /\ Direct(new) /\ Merged(rule, db[x.id], new)
  BY <1>0, <1>1 DEF Making
<1>3. Permitted(c)
  BY <1>0, <1>2 DEF Permitted, Row
<1> DEFINE n == [x EXCEPT !.pc = "read"]
<1>4. y = n
  BY <1>0, <1>3, Goal DEF Guard, RequestsInv, Goes, GoesTo
<1>5. n.pc = "read" /\ n.kind = x.kind /\ n.id = x.id /\ n.rule = x.rule
  BY <1>1, AtStep
<1> HIDE DEF n
<1>6. y.asked # {} => y.before = driver' /\ y.batch = <<>>
  BY <1>0, <1>1, <1>2 DEF Recalls, Remembers
<1>7. DOMAIN db' = Ids /\ db' = db
  BY <1>1 DEF Ids
<1>8. y.asked # {} => Making(y, rule)'
  BY <1>2, <1>4, <1>5, <1>6, <1>7 DEF Making, Deciding, Ids
<1> QED
  BY <1>0, <1>4, <1>5, <1>8, IdleTask DEF StepMakes

LEMMA ReadMakes ==
  ASSUME RequestsInv, NEW c \in Clients, NEW rule, Making(client[c], rule), Read(c), Recalls(c)
  PROVE  StepMakes(c, rule)
<1>0. PICK x, y : x = client[c] /\ y = client'[c]
  OBVIOUS
<1>1. IsTask(x) /\ x.pc = "read" /\ UNCHANGED <<db, driver>>
  BY <1>0 DEF RequestsInv, ManagerType, Read, At
<1>2. /\ rule \in Rules /\ x.before = driver /\ x.batch = <<>> /\ x.kind = "update"
      /\ x.id \in Ids /\ ~db[x.id].system /\ Direct(db[x.id])
      /\ \E new : x.rule = {new} /\ Direct(new) /\ Merged(rule, db[x.id], new)
  BY <1>0, <1>1 DEF Making
<1>3. ~Deletes(c) /\ client[c].kind = "update" /\ Row(x.id) # {}
  BY <1>0, <1>2 DEF Deletes, Row
<1> DEFINE n == [x EXCEPT !.pc = "write", !.old = Row(x.id)]
<1>4. Goes(c, n)
  BY <1>0, <1>3 DEF Read
<1>5. y = n
  BY <1>0, <1>4, Goal DEF RequestsInv
<1>6. n.pc = "write" /\ n.kind = x.kind /\ n.id = x.id /\ n.rule = x.rule
  BY <1>1 DEF IsTask, Fields
<1> HIDE DEF n
<1>7. y.asked # {} => y.before = driver' /\ y.batch = <<>>
  BY <1>0, <1>1, <1>2 DEF Recalls, Remembers
<1>8. DOMAIN db' = Ids /\ db' = db
  BY <1>1 DEF Ids
<1>9. y.asked # {} => Making(y, rule)'
  BY <1>2, <1>5, <1>6, <1>7, <1>8 DEF Making, Deciding, Ids
<1> QED
  BY <1>0, <1>5, <1>6, <1>9, IdleTask DEF StepMakes

LEMMA WriteMakes ==
  ASSUME RequestsInv, Calm, Follows, NEW c \in Clients, NEW rule, Making(client[c], rule),
         WriteRow(c), Recalls(c)
  PROVE  StepMakes(c, rule)
<1>0. PICK x, y, i : x = client[c] /\ y = client'[c] /\ i = x.id
  OBVIOUS
<1>1. IsTask(x) /\ x.pc = "write" /\ UNCHANGED driver
  BY <1>0 DEF RequestsInv, ManagerType, WriteRow, At
<1>2. /\ rule \in Rules /\ x.before = driver /\ x.batch = <<>> /\ x.kind = "update"
      /\ i \in Ids /\ Direct(db[i])
      /\ \E new : x.rule = {new} /\ Direct(new) /\ Merged(rule, db[i], new)
  BY <1>0, <1>1 DEF Making
<1>3. PICK old, new : old = db[i] /\ x.rule = {new} /\ Direct(old) /\ Direct(new) /\ Merged(rule, old, new)
  BY <1>2
<1>4. x.old = {old} /\ Agrees(i)
  <2>1. x.old = Row(i) /\ Agrees(i)
    BY <1>0, <1>1, OwnRowAgrees DEF At
  <2> QED
    BY <1>2, <1>3, <2>1 DEF Row
<1>5. Goes(c, AfterUpdate(c, old, new))
  BY <1>0, <1>2, <1>3, <1>4 DEF WriteRow
<1>6. new.enabled
  BY <1>3 DEF Merged, TakesOver
<1>7. y.asked # {} => y.before = driver' /\ y.batch = <<>>
  BY <1>0, <1>1, <1>2 DEF Recalls, Remembers
<1>8. CASE ~old.enabled
  <2> DEFINE n == [x EXCEPT !.pc = "add", !.undo = Restores(new, FALSE)]
  <2>1. AfterUpdate(c, old, new) = n
    BY <1>0, <1>3, <1>6, <1>8 DEF AfterUpdate, Direct
  <2>2. y = n
    BY <1>0, <1>5, <2>1, Goal DEF RequestsInv
  <2>3. n.pc = "add" /\ n.rule = x.rule
    BY <1>1 DEF IsTask, Fields
  <2> HIDE DEF n
  <2>4. y.asked # {} => Making(y, rule)'
    BY <1>2, <1>3, <1>7, <2>2, <2>3 DEF Making, Merged
  <2> QED
    BY <1>0, <2>2, <2>3, <2>4, IdleTask DEF StepMakes
<1>9. CASE old.enabled
  <2> DEFINE n == [x EXCEPT !.pc = "modify", !.undo = {<<old>>}]
  <2>1. AfterUpdate(c, old, new) = n
    BY <1>0, <1>3, <1>6, <1>9 DEF AfterUpdate, Direct
  <2>2. y = n
    BY <1>0, <1>5, <2>1, Goal DEF RequestsInv
  <2>3. n.pc = "modify" /\ n.rule = x.rule /\ n.id = i
    BY <1>0, <1>1 DEF IsTask, Fields
  <2> HIDE DEF n
  <2>4. Of(driver, i) = {DirectEntry(i, old)}
    BY <1>2, <1>3, <1>4, <1>9, WantedOf DEF Agrees
  <2>5. Of(driver', i) = {DirectEntry(i, old)}
    BY <1>1, <2>4
  <2>6. y.asked # {} => Making(y, rule)'
    BY <1>2, <1>3, <1>7, <2>2, <2>3, <2>5 DEF Making
  <2> QED
    BY <1>0, <2>2, <2>3, <2>6, IdleTask DEF StepMakes
<1> QED
  BY <1>8, <1>9

(* The call of the driver that a creation ends with. *)
LEMMA IoctlMakes ==
  ASSUME RequestsInv, Room, Follows, faults \in Nat, faults' = 0, NEW c \in Clients, NEW rule,
         Making(client[c], rule), Ioctl(c), Recalls(c)
  PROVE  StepMakes(c, rule)
<1>0. PICK x, y, i : x = client[c] /\ y = client'[c] /\ i = x.id
  OBVIOUS
<1>1. IsTask(x) /\ x.pc \in {"add", "modify", "remove"} /\ Stage(x)
  BY <1>0 DEF RequestsInv, ManagerType, Ioctl, At, Follows
<1>2. rule \in Rules /\ x.before = driver /\ x.batch = <<>> /\ x.pc \in {"add", "modify"}
  BY <1>0, <1>1 DEF Making, Deciding
<1>3. PICK new : /\ x.rule = {new} /\ TakesOver(rule, new)
                 /\ x.pc = "modify" => \E old : Merged(rule, old, new) /\ Of(driver, i) = {DirectEntry(i, old)}
  BY <1>0, <1>2 DEF Making, Deciding, Merged
<1>4. Accepted(c)
  <2>1. CASE x.pc = "add"
    <3>1. Of(driver, i) = {}
      BY <1>0, <1>1, <2>1 DEF Stage
    <3>2. \A e : e.key = <<i>> => e.key[1] = i
      OBVIOUS
    <3>3. ~Has(<<i>>)
      BY <3>1, <3>2 DEF Has, Of
    <3> QED
      BY <1>0, <2>1, <3>3 DEF Accepted, At, Addable, Room
  <2>2. CASE x.pc = "modify"
    <3>1. Of(driver, i) # {} /\ \A e \in Of(driver, i) : e.key = <<i>>
      BY <1>0, <1>1, <2>2 DEF Stage
    <3> QED
      BY <1>0, <2>2, <3>1 DEF Accepted, At, Has, Of
  <2> QED
    BY <1>2, <2>1, <2>2
<1>5. ~Fault
  BY DEF Fault
<1>6. /\ driver' = Dropping(<<i>>) \cup {DirectEntry(i, r) : r \in x.rule}
      /\ Ends(c)
  BY <1>0, <1>2, <1>4, <1>5 DEF Ioctl, At
<1>7. y.asked = {}
  BY <1>0, <1>6, EndsRecalls DEF RequestsInv
<1>8. PICK entry : entry = DirectEntry(i, new)
  OBVIOUS
<1>9. /\ \A conn : Applies(entry.input, conn) <=> new.enabled /\ HitBy(new, conn)
      /\ entry.input.IsAllow = (new.action = "Allow")
  BY <1>8, EntryDecides
<1>10. entry \in driver' /\ Dropping(<<i>>) \subseteq driver'
  BY <1>3, <1>6, <1>8
<1>11. new.enabled /\ new.action = rule.action
  BY <1>3 DEF TakesOver
<1>12. ASSUME NEW conn \in Connections, HitBy(rule, conn)
       PROVE  Decided(driver', conn, rule.action = "Allow")
  <2>1. Applies(entry.input, conn)
    BY <1>3, <1>9, <1>11, <1>12 DEF TakesOver
  <2>2. entry.input.IsAllow = (rule.action = "Allow")
    BY <1>9, <1>11, Zenon
  <2> QED
    BY <1>10, <2>1, <2>2, Zenon DEF Decided
<1>13. ASSUME NEW conn \in Connections, NEW allow \in BOOLEAN, Decided(x.before, conn, allow), ~HitBy(rule, conn)
       PROVE  Decided(driver', conn, allow)
  <2>1. PICK e \in driver : e.input.IsAllow = allow /\ Applies(e.input, conn)
    BY <1>2, <1>13 DEF Decided
  <2>2. CASE e.key # <<i>>
    <3>1. e \in Dropping(<<i>>)
      BY <2>2 DEF Dropping
    <3> QED
      BY <1>10, <2>1, <3>1 DEF Decided
  <2>3. CASE e.key = <<i>>
    <3>1. e \in Of(driver, i)
      BY <2>3 DEF Of
    <3>2. x.pc = "modify"
      BY <1>0, <1>1, <1>2, <3>1 DEF Stage
    <3>3. PICK old : Merged(rule, old, new) /\ Of(driver, i) = {DirectEntry(i, old)}
      BY <1>3, <3>2
    <3>4. e = DirectEntry(i, old)
      BY <3>1, <3>3
    <3>5. HitBy(old, conn)
      BY <2>1, <3>4, EntryDecides
    <3>6. e.input.IsAllow = (old.action = "Allow")
      BY <3>4, EntryDecides
    <3>7. HitBy(new, conn) /\ old.action = new.action
      BY <1>13, <3>3, <3>5 DEF Merged
    <3>8. entry.input.IsAllow = allow
      BY <1>9, <2>1, <3>6, <3>7, Zenon
    <3>9. Applies(entry.input, conn)
      BY <1>9, <1>11, <3>7
    <3> QED
      BY <1>10, <3>8, <3>9 DEF Decided
  <2> QED
    BY <2>2, <2>3
<1>14. Kept(c, rule)
  BY <1>0, <1>12, <1>13 DEF Kept
<1> QED
  BY <1>0, <1>7, <1>14 DEF StepMakes

(* A step of a creation, while nothing is owed and no call fails. *)
LEMMA StepKeepsMaking ==
  ASSUME Comparable, RequestsInv, Room, Calm, Follows, faults \in Nat, faults' = 0, NEW c \in Clients,
         NEW rule, rule.enabled, Direct(rule), Making(client[c], rule), Step(c)
  PROVE  StepMakes(c, rule)
<1>1. Recalls(c)
  BY StepRecalls DEF RequestsInv
<1>2. client[c].pc \in {"list", "insert", "guard", "read", "write", "add", "modify"}
  BY DEF Making, Deciding
<1>3. ListRules(c) \/ Insert(c) \/ Guard(c) \/ Read(c) \/ WriteRow(c) \/ Ioctl(c) \/ DeleteRow(c)
  BY <1>2 DEF Step, ListForImport, NextVictim, InsertBatch, Undo, Clear, Snapshot, LoadGroupPaths, Load, At
<1>4. ~DeleteRow(c)
  <2>1. At(c, "write") => ~Deletes(c)
    BY DEF Making, Deciding, Deletes, At
  <2> QED
    BY <2>1 DEF DeleteRow
<1> QED
  BY <1>1, <1>3, <1>4, ListMakes, InsertMakes, GuardMakes, ReadMakes, WriteMakes, IoctlMakes
-----------------------------------------------------------------------------
(* The creation has the service to itself. *)
LEMMA MakingCalm ==
  ASSUME RequestsInv, ~broken, ~raced, NEW c \in Clients, c \notin overlapped, NEW rule, Making(client[c], rule)
  PROVE  Calm
<1>1. client[c].pc \notin {"idle", "clear"}
  BY DEF Making, Deciding
<1>2. \A d \in Clients : d # c => client[d].pc = "idle"
  BY <1>1 DEF RequestsInv, Alone, UnderWay
<1> QED
  BY <1>1, <1>2 DEF Calm, At

LEMMA RequestIdle ==
  ASSUME NEW c \in Clients, Request(c)
  PROVE  At(c, "idle") \/ Restart(c)
  BY DEF Request, RequestCreate, RequestUpdate, RequestById, Uninstall, ImportRules, AddMember,
     RemoveMember, SetGroupEnabled, SyncPredefinedMembers, Reloads, Begin

(* A request that begins asks for a rule, with the driver before it, or for none. *)
LEMMA RequestMakes ==
  ASSUME ManagerType, NEW c \in Clients, Request(c), ~Restart(c), ~broken', NEW rule \in client'[c].asked
  PROVE  Making(client[c], rule)'
<1>1. ASSUME NEW n, Begin(c, n), n.asked = {} PROVE FALSE
  BY <1>1, Goal DEF Begin
<1>2. \A k : [Idle EXCEPT !.pc = "clear", !.kind = k].asked = {}
  BY DEF Idle
<1>3. \A k : ~Reloads(c, k)
  BY <1>1, <1>2 DEF Reloads
<1>4. ASSUME NEW id \in Ids, NEW r \in Rules PROVE ~RequestUpdate(c, id, r)
  <2>1. [Idle EXCEPT !.pc = "guard", !.kind = "update", !.id = id, !.rule = {r}].asked = {}
    BY DEF Idle
  <2> QED
    BY <1>1, <2>1 DEF RequestUpdate
<1>5. ASSUME NEW id \in Ids, NEW kind PROVE ~RequestById(c, kind, id)
  <2>1. \A p : [Idle EXCEPT !.pc = p, !.kind = kind, !.id = id].asked = {}
    BY DEF Idle
  <2> QED
    BY <1>1, <2>1 DEF RequestById
<1>6. ASSUME NEW id \in Ids PROVE ~Uninstall(c, id)
  <2>1. [Idle EXCEPT !.pc = "read", !.kind = "uninstall", !.id = id].asked = {}
    BY DEF Idle
  <2> QED
    BY <1>1, <2>1 DEF Uninstall
<1>7. ASSUME NEW kind, NEW batch PROVE ~ImportRules(c, kind, batch)
  <2>1. [Idle EXCEPT !.pc = "import", !.kind = kind, !.batch = batch].asked = {}
    BY DEF Idle
  <2> QED
    BY <1>1, <2>1 DEF ImportRules
<1>8. \A g \in Groups, T \in SUBSET Templates : ~SyncPredefinedMembers(c, g, T)
  BY DEF SyncPredefinedMembers
<1>9. PICK r \in Rules : RequestCreate(c, r)
  BY <1>3, <1>4, <1>5, <1>6, <1>7, <1>8, Zenon DEF Request, AddMember, RemoveMember, SetGroupEnabled
<1> DEFINE p == IF r.system THEN "insert" ELSE "list"
           n == [Idle EXCEPT !.pc = p, !.kind = "create", !.rule = {r}, !.asked = {r}, !.before = driver]
<1>10. client'[c] = n /\ driver' = driver
  BY <1>9, Goal DEF RequestCreate, Begin
<1>11. p \in {"insert", "list"}
  OBVIOUS
<1> HIDE DEF p
<1>12. n.pc = p /\ n.rule = {r} /\ n.asked = {r} /\ n.before = driver /\ n.batch = <<>>
  BY DEF Idle
<1> HIDE DEF n
<1>13. rule = r
  BY <1>10, <1>12
<1> QED
  BY <1>10, <1>11, <1>12, <1>13 DEF Making

LEMMA NextCreates ==
  ASSUME Comparable, RequestsInv, DriverFollows, CreateRight, faults \in Nat, Room, [ManagerNext]_mvars
  PROVE  CreateRight'
<1> SUFFICES ASSUME ~broken', ~raced', faults' = 0, NEW c \in Clients, c \notin overlapped', UnderWay(c)',
                    NEW rule \in client'[c].asked, rule.enabled, Direct(rule)
             PROVE  Making(client[c], rule)'
  BY DEF CreateRight
<1>1. CASE UNCHANGED mvars
  <2>1. UNCHANGED <<db, driver, client, broken, overlapped, raced, faults>>
    BY <1>1 DEF mvars
  <2>2. Making(client[c], rule)
    BY <2>1 DEF CreateRight, UnderWay
  <2> QED
    BY <2>1, <2>2 DEF Making, Ids, Of
<1>2. ASSUME NEW d \in Clients, Request(d) \/ Step(d), Observe
      PROVE  Making(client[c], rule)'
  <2>1. ~Restart(d)
    <3>1. SUFFICES ASSUME Restart(d) PROVE FALSE
      OBVIOUS
    <3>2. client'[c] \in {Idle, [Idle EXCEPT !.pc = "clear", !.kind = "start"]}
      BY <3>1 DEF Restart
    <3>3. Idle.asked = {} /\ [Idle EXCEPT !.pc = "clear", !.kind = "start"].asked = {}
      BY DEF Idle
    <3> QED
      BY <3>2, <3>3
  <2>2. \A g \in Groups, T \in SUBSET Templates : ~SyncPredefinedMembers(d, g, T)
    BY DEF SyncPredefinedMembers
  <2>3. Effect(d)
    BY <1>2, <2>1, <2>2, RequestEffect, StepsEffect
  <2>4. d = c
    <3>1. SUFFICES ASSUME d # c PROVE FALSE
      OBVIOUS
    <3>2. client'[c] = client[c]
      BY <2>3, <3>1, OthersStay DEF RequestsInv, Effect
    <3>3. UnderWay(c)
      BY <3>2 DEF UnderWay
    <3> QED
      BY <1>2, <2>3, <3>1, <3>3, OthersOverlap
  <2>5. CASE Request(c)
    BY <2>1, <2>4, <2>5, RequestMakes DEF RequestsInv
  <2>6. CASE Step(c)
    <3>1. ~Heals
      <4>1. SUFFICES ASSUME Heals PROVE FALSE
        OBVIOUS
      <4>2. Ends(c)
        BY <2>6, <4>1, BrokenSteps
      <4> QED
        BY <4>2, EndsRecalls DEF RequestsInv
    <3>2. ~broken /\ ~raced
      BY <1>2, <3>1 DEF Heals, Observe, RequestsInv, ManagerType
    <3>3. faults = 0
      BY <2>6, Counting
    <3>4. UnderWay(c)
      BY <2>6 DEF Step, ListRules, Insert, Guard, Read, WriteRow, DeleteRow, ListForImport, NextVictim,
         InsertBatch, Ioctl, Undo, Clear, Snapshot, LoadGroupPaths, Load, At, UnderWay
    <3>5. c \notin overlapped
      <4>1. SUFFICES ASSUME c \in overlapped PROVE FALSE
        OBVIOUS
      <4>2. client[c].kind # "start"
        BY <4>1 DEF RequestsInv, Alone
      <4>3. client'[c].kind # "start"
        BY <2>3, <2>4, <4>2 DEF Effect
      <4> QED
        BY <1>2, <4>1, <4>3 DEF Observe
    <3>6. client'[c].asked = client[c].asked
      BY <2>6, StepRecalls DEF RequestsInv, Recalls, Remembers
    <3>7. Making(client[c], rule)
      BY <3>2, <3>3, <3>4, <3>5, <3>6 DEF CreateRight
    <3>8. Calm
      BY <3>2, <3>5, <3>7, MakingCalm
    <3>9. Follows
      BY <3>3, <3>8 DEF DriverFollows
    <3>10. StepMakes(c, rule)
      BY <2>6, <3>7, <3>8, <3>9, StepKeepsMaking
    <3> QED
      BY <3>10 DEF StepMakes
  <2> QED
    BY <1>2, <2>4, <2>5, <2>6
<1> QED
  BY <1>1, <1>2 DEF ManagerNext

LEMMA InitCreates == ManagerInit => CreateRight
<1>1. ManagerInit => \A c \in Clients : client[c] = Idle
  BY DEF ManagerInit
<1> QED
  BY <1>1, IdleTask DEF CreateRight, UnderWay

(* The step with which a creation is done. *)
LEMMA CreateEnds ==
  ASSUME Comparable, RequestsInv, DriverFollows, CreateRight, faults \in Nat, Room, [ManagerNext]_mvars,
         NEW c \in Clients \ overlapped, NEW rule \in client[c].asked,
         client'[c] = Idle, \A d \in Clients : client'[d].kind # "start",
         rule.enabled, Direct(rule), faults' = 0, ~Excused
  PROVE  Kept(c, rule)
<1>1. client[c] # Idle
  BY DEF Idle
<1>2. client' # client
  BY <1>1
<1>3. PICK d \in Clients : Request(d) \/ Step(d)
  BY <1>2 DEF ManagerNext, mvars
<1>4. ~Restart(d)
  <2>1. [Idle EXCEPT !.pc = "clear", !.kind = "start"].kind = "start"
    BY DEF Idle
  <2> QED
    BY <2>1 DEF Restart
<1>5. \A g \in Groups, T \in SUBSET Templates : ~SyncPredefinedMembers(d, g, T)
  BY <1>2 DEF SyncPredefinedMembers
<1>6. Effect(d)
  BY <1>3, <1>4, <1>5, RequestEffect, StepsEffect
<1>7. d = c
  BY <1>1, <1>6, OthersStay DEF RequestsInv, Effect
<1>8. UnderWay(c)
  BY <1>6, <1>7, IdleTask DEF Effect
<1>9. Step(c)
  BY <1>3, <1>4, <1>7, <1>8, RequestIdle DEF At, UnderWay
<1>10. ~broken /\ ~raced /\ faults = 0
  BY <1>9, Counting DEF Excused
<1>11. Making(client[c], rule)
  BY <1>8, <1>10 DEF CreateRight
<1>12. Calm
  BY <1>10, <1>11, MakingCalm
<1>13. Follows
  BY <1>10, <1>12 DEF DriverFollows
<1>14. StepMakes(c, rule)
  BY <1>9, <1>11, <1>12, <1>13, StepKeepsMaking
<1> QED
  BY <1>14 DEF StepMakes

(* For any such rules, and any groups, clients and connections, while the driver has
   room: a creation that meets no other request and no failed call leaves an entry
   with its action for every connection its rule selects, and each other connection
   is decided as before, whether its rule was inserted or merged into another (the
   merging of create_rule, manager.rs). *)
THEOREM MergingLosesNothing ==
  ASSUME Comparable
  PROVE  ManagerSpec /\ []Room /\ [][DomainsKept]_mvars => CreateLosesNothing
<1> DEFINE Inv == RequestsInv /\ DriverFollows /\ faults \in Nat /\ CreateRight
           Done == \A c \in Clients \ overlapped : \A rule \in client[c].asked :
                     (/\ client'[c] = Idle /\ \A d \in Clients : client'[d].kind # "start"
                      /\ rule.enabled /\ Direct(rule) /\ faults' = 0 /\ ~Excused) => Kept(c, rule)
<1>1. ManagerInit => Inv
  BY InitRequests, InitFollows, InitCreates
<1>2. Inv /\ Room /\ [ManagerNext]_mvars /\ [DomainsKept]_mvars => Inv'
  BY NextRequests, NextFollows, CountingKept, NextCreates
<1>3. Inv /\ Room /\ [ManagerNext]_mvars => [Done]_mvars
  BY CreateEnds
<1>4. CreateLosesNothing <=> [][Done]_mvars
  BY DEF CreateLosesNothing, Kept
<1> QED
  BY <1>1, <1>2, <1>3, <1>4, PTL DEF ManagerSpec
=============================================================================
