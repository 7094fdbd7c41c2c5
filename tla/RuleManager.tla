---------------------------- MODULE RuleManager ----------------------------
(***************************************************************************)
(* RuleManager (service/src/rule/manager.rs): rules live in the database,  *)
(* and the driver must hold the enabled ones.  Each IPC client is served   *)
(* by its own task and no lock spans a request, so a step is one database  *)
(* call or one IOCTL, and other tasks run between two of them.             *)
(*                                                                         *)
(* The database and the driver's list are functions of the rule's identity *)
(* here: module RuleTable says how the list is ordered, and the priority,  *)
(* the name and the description of a rule are left out, except for whether *)
(* the name has the [System] prefix.  A group rule stands in the driver as *)
(* one entry for each member of its group.  A domain rule has no entry of  *)
(* its own; the entries the domain engine makes for it, in an id space of  *)
(* their own, are not modelled here.                                       *)
(***************************************************************************)
EXTENDS RuleCover, SequencesExt

CONSTANTS
  Rules,        \* rules that requests carry: records of RuleCover, with system
  Batches,      \* lists of rules that an import carries
  Connections,  \* connections the driver classifies
  Groups,       \* application groups
  MemberPaths,  \* paths that may join a group
  Templates,    \* the paths among them that predefined groups look for
  Clients,      \* IPC connections
  Kinds,        \* the requests they make
  MAX_RULES,    \* the driver's cap
  MaxRequests,  \* bound: requests of all clients together
  MaxFaults     \* bound: calls of the database or the driver that fail

(* The fields of a rule that decide something. *)
Rule ==
  [direction : {"Both", "Inbound", "Outbound"}, protocol : SUBSET STRING,
   process_path : SUBSET Path, process_id : SUBSET Nat,
   remote_addr : SUBSET Address, remote_domain : SUBSET STRING, remote_port : SUBSET Port,
   local_addr : SUBSET Address, local_port : SUBSET Port, network_zone : SUBSET STRING,
   app_group_id : SUBSET Groups, action : {"Allow", "Block"}, enabled : BOOLEAN, system : BOOLEAN]

ASSUME ManagerAssumption ==
  /\ {MAX_RULES, MaxRequests, MaxFaults} \subseteq Nat
  /\ Kinds \subseteq {"create", "update", "delete", "uninstall", "enable", "disable",
                      "join", "leave", "switch", "predefined", "merge", "replace", "start"}
  /\ Batches \subseteq Seq(Rules) \ {<<>>}
  /\ Templates \subseteq MemberPaths /\ MemberPaths \subseteq Path
  /\ Rules \subseteq Rule /\ \A r \in Rules : r.remote_domain = {} \/ r.remote_addr = {}

VARIABLES
  db,        \* the table rules: a partial map from ids
  nextId,    \* AUTOINCREMENT: the id of the next row
  members,   \* app_group_members: the paths of each group, in order of arrival
  groupOn,   \* app_groups.enabled
  driver,    \* the driver's rules: records of a key and the RULE_INPUT
  client,    \* where the task of each client is
  broken,    \* history: a reload is owed, or has begun and not ended alone with every rule
  overlapped, \* history: clients whose request has met another one under way
  raced,     \* history: two requests were at one rule at a time, since the last reload
  requests, faults

groups == <<members, groupOn>>
mvars == <<db, nextId, members, groupOn, driver, client, broken, overlapped, raced, requests, faults>>

Ids == DOMAIN db
Deletes(c) == client[c].kind \in {"delete", "uninstall", "replace"}
Idle == [pc |-> "idle", kind |-> "none", id |-> 0, rule |-> {}, old |-> {}, undo |-> {},
         todo |-> {}, snapshot |-> <<>>, clean |-> FALSE, asked |-> {}, before |-> {},
         batch |-> <<>>, victims |-> {}]

Direct(rule) == rule.remote_domain = {} /\ rule.app_group_id = {}
Row(id) == IF id \in Ids THEN {db[id]} ELSE {}
With(id, rule) == [i \in Ids \cup {id} |-> IF i = id THEN rule ELSE db[i]]
Without(id) == [i \in Ids \ {id} |-> db[i]]

(* load_rules_to_driver: the entries for a list of rules and the group members. *)
DirectEntry(id, rule) == [key |-> <<id>>, input |-> from_rule(rule)]
MemberEntry(id, i, rule, path) ==
  [key |-> <<id, i>>, input |-> from_rule([rule EXCEPT !.process_path = {path}])]

Expansion(rules, paths) ==
  {DirectEntry(id, rules[id]) : id \in {j \in DOMAIN rules : rules[j].enabled /\ Direct(rules[j])}}
  \cup UNION {UNION {{MemberEntry(id, i, rules[id], paths[g][i]) : i \in DOMAIN paths[g]} :
                        g \in rules[id].app_group_id} :
                 id \in {j \in DOMAIN rules : rules[j].enabled /\ rules[j].remote_domain = {}}}

ManagerInit ==
  /\ db = <<>> /\ nextId = 1
  /\ members = [g \in Groups |-> <<>>] /\ groupOn = [g \in Groups |-> TRUE]
  /\ driver = {}
  /\ client = [c \in Clients |-> Idle]
  /\ broken = FALSE /\ overlapped = {} /\ raced = FALSE /\ requests = 0 /\ faults = 0
-----------------------------------------------------------------------------
At(c, pc) == client[c].pc = pc
Goes(c, to) == client' = [client EXCEPT ![c] = to]
GoesTo(c, pc) == client' = [client EXCEPT ![c].pc = pc]

(* A deletion that an import makes is followed by the next one, or by the batch,
   whether it has failed or not; any other request is done. *)
Importing(c, batch, victims) ==
  [Idle EXCEPT !.pc = "victim", !.kind = client[c].kind, !.batch = batch, !.victims = victims]

Ends(c) == Goes(c, IF client[c].batch = <<>> THEN Idle
                   ELSE Importing(c, client[c].batch, client[c].victims))

(* A failed call ends the request, after the rollback if there is one.  A start
   that fails leaves the service down, until it is started again. *)
Fails(c) ==
  IF client[c].kind = "start" THEN GoesTo(c, "clear")
  ELSE IF client[c].undo = {} THEN Ends(c) ELSE GoesTo(c, "undo")
Fault == faults < MaxFaults /\ faults' = faults + 1

(* The requests.  A group is changed in the database before the rules are
   reloaded; add_member refuses a group that is switched off. *)
Begin(c, first) ==
  /\ At(c, "idle") /\ requests < MaxRequests
  /\ \A d \in Clients : client[d].kind # "start"
  /\ requests' = requests + 1
  /\ Goes(c, first)
  /\ UNCHANGED <<db, nextId, driver, faults, broken>>

RequestCreate(c, rule) ==
  /\ "create" \in Kinds
  /\ Begin(c, [Idle EXCEPT !.pc = IF rule.system THEN "insert" ELSE "list", !.kind = "create",
                           !.rule = {rule}, !.asked = {rule}, !.before = driver])
  /\ UNCHANGED groups

RequestUpdate(c, id, rule) ==
  /\ "update" \in Kinds
  /\ Begin(c, [Idle EXCEPT !.pc = "guard", !.kind = "update", !.id = id, !.rule = {rule}])
  /\ UNCHANGED groups

RequestById(c, kind, id) ==
  /\ kind \in Kinds \cap {"delete", "enable", "disable"}
  /\ Begin(c, [Idle EXCEPT !.pc = IF kind = "delete" THEN "guard" ELSE "read",
                           !.kind = kind, !.id = id])
  /\ UNCHANGED groups

(* system_rules::remove_all calls delete_rule_internal for each system rule. *)
Uninstall(c, id) ==
  /\ "uninstall" \in Kinds /\ id \in Ids /\ db[id].system
  /\ Begin(c, [Idle EXCEPT !.pc = "read", !.kind = "uninstall", !.id = id])
  /\ UNCHANGED groups

(* import_rules: a rule that does not pass, or has the prefix, refuses the whole
   batch, which then changes nothing.  A group it creates has no member yet, as
   the groups of the model have none. *)
ImportRules(c, kind, batch) ==
  /\ kind \in Kinds \cap {"merge", "replace"}
  /\ \A i \in DOMAIN batch : ~batch[i].system
  /\ Begin(c, [Idle EXCEPT !.pc = "import", !.kind = kind, !.batch = batch])
  /\ UNCHANGED groups

Reloads(c, kind) == kind \in Kinds /\ Begin(c, [Idle EXCEPT !.pc = "clear", !.kind = kind])

(* INSERT OR REPLACE: a member that joins again moves to the end. *)
AddMember(c, g, path) ==
  /\ Reloads(c, "join")
  /\ groupOn[g]
  /\ members' = [members EXCEPT ![g] = Append(Remove(@, path), path)]
  /\ UNCHANGED groupOn

RemoveMember(c, g, path) ==
  /\ Reloads(c, "leave")
  /\ members' = [members EXCEPT ![g] = Remove(@, path)]
  /\ UNCHANGED groupOn

SetGroupEnabled(c, g, on) ==
  /\ Reloads(c, "switch")
  /\ groupOn' = [groupOn EXCEPT ![g] = on]
  /\ UNCHANGED members

(* initialize_predefined: the members from the templates become those that are
   installed now, the other members stay, and the reload that is owed is left
   to the next request that makes one. *)
SyncPredefinedMembers(c, g, installed) ==
  /\ At(c, "idle") /\ "predefined" \in Kinds /\ requests < MaxRequests
  /\ \A d \in Clients : client[d].kind # "start"
  /\ members' = [members EXCEPT ![g] =
                   SelectSeq(@, LAMBDA p : p \notin Templates \ installed)
                   \o SetToSeq(installed \ ToSet(@))]
  /\ requests' = requests + 1
  /\ broken' = TRUE
  /\ UNCHANGED <<db, nextId, groupOn, driver, client, faults>>

(* The service dies with the requests under way, and starts: while the driver
   stays loaded it clears the rules and loads them again before it listens. *)
Restart(c) ==
  /\ "start" \in Kinds /\ requests < MaxRequests
  /\ client' = [d \in Clients |-> IF d = c THEN [Idle EXCEPT !.pc = "clear", !.kind = "start"]
                                  ELSE Idle]
  /\ requests' = requests + 1
  /\ UNCHANGED <<db, nextId, groups, driver, faults, broken>>
-----------------------------------------------------------------------------
(* create_rule: what a new rule is merged into, and as what.  The first of the
   list by priority is taken; priorities are left out, so it may be any. *)
UserRules == {id \in Ids : ~db[id].system}
(* A mutant: the action of the rules is not compared. *)
SameIntentAnyAction(r, rule) == r.network_zone = rule.network_zone /\ r.app_group_id = rule.app_group_id

SameIntent(r, rule) == /\ r.action = rule.action
                       /\ r.network_zone = rule.network_zone
                       /\ r.app_group_id = rule.app_group_id

Duplicates(rule) == {id \in UserRules : same_effective_fields(db[id], rule)}
Narrower(rule) == {id \in UserRules : SameIntent(db[id], rule) /\ matchset_covers(rule, db[id])}
Broader(rule) == {id \in UserRules : SameIntent(db[id], rule) /\ matchset_covers(db[id], rule)}

Merges(rule) ==
  IF Duplicates(rule) # {}
  THEN {<<id, [db[id] EXCEPT !.action = rule.action, !.enabled = rule.enabled]>> :
          id \in Duplicates(rule)}
  ELSE IF Narrower(rule) # {}
  THEN {<<id, rule>> : id \in Narrower(rule)}
  ELSE {<<id, [db[id] EXCEPT !.enabled = rule.enabled]>> : id \in Broader(rule)}

ListRules(c) ==
  /\ At(c, "list")
  /\ \E rule \in client[c].rule :
       \/ /\ Merges(rule) = {} /\ GoesTo(c, "insert")
       \/ \E m \in Merges(rule) :
            Goes(c, [client[c] EXCEPT !.pc = "guard", !.kind = "update", !.id = m[1],
                                      !.rule = {m[2]}])
  /\ UNCHANGED <<db, nextId, groups, driver, requests, faults, broken>>

(* INSERT, then the driver: a group rule reloads everything, and the row is
   deleted again when that fails. *)
Insert(c) ==
  /\ At(c, "insert")
  /\ \E rule \in client[c].rule :
       /\ db' = With(nextId, rule) /\ nextId' = nextId + 1
       /\ IF rule.enabled /\ rule.remote_domain = {}
          THEN Goes(c, [client[c] EXCEPT !.id = nextId, !.undo = {<<>>},
                          !.pc = IF rule.app_group_id = {} THEN "add" ELSE "clear"])
          ELSE Ends(c)
  /\ UNCHANGED <<groups, driver, requests, faults, broken>>

(* An import lists the rules.  Merge skips those whose name and path a rule of
   the user has; names are left out, so any of those whose path it has. *)
SamePath(rule) == \E id \in UserRules : db[id].process_path = rule.process_path

(* The positions of what is left, in order. *)
NotSkipped(batch) ==
  {f \in UNION {[1 .. n -> DOMAIN batch] : n \in 0 .. Len(batch)} :
     /\ \A i, j \in DOMAIN f : i < j => f[i] < f[j]
     /\ \A i \in DOMAIN batch : SamePath(batch[i]) \/ \E j \in DOMAIN f : f[j] = i}

ListForImport(c) ==
  /\ At(c, "import")
  /\ \/ /\ client[c].kind = "replace"
        /\ Goes(c, Importing(c, client[c].batch, UserRules))
     \/ /\ client[c].kind = "merge"
        /\ \E f \in NotSkipped(client[c].batch) :
             LET kept == [j \in DOMAIN f |-> client[c].batch[f[j]]]
             IN  Goes(c, IF kept = <<>> THEN Idle ELSE Importing(c, kept, {}))
  /\ UNCHANGED <<db, nextId, groups, driver, requests, faults, broken>>

(* Replace deletes what it has listed, with delete_rule_internal. *)
NextVictim(c) ==
  /\ At(c, "victim")
  /\ \E id \in client[c].victims :
       Goes(c, [client[c] EXCEPT !.pc = "read", !.id = id, !.victims = @ \ {id}])
  /\ UNCHANGED <<db, nextId, groups, driver, requests, faults, broken>>

(* create_rules_batch: one transaction; then a reload if a rule is enabled. *)
InsertBatch(c) ==
  /\ At(c, "victim") /\ client[c].victims = {}
  /\ LET batch == client[c].batch
     IN  \/ /\ db' = [i \in Ids \cup (nextId .. nextId + Len(batch) - 1) |->
                        IF i < nextId THEN db[i] ELSE batch[i - nextId + 1]]
            /\ nextId' = nextId + Len(batch)
            /\ Goes(c, IF \E i \in DOMAIN batch : batch[i].enabled
                       THEN [Idle EXCEPT !.pc = "clear", !.kind = client[c].kind] ELSE Idle)
            /\ UNCHANGED faults
         \/ Fault /\ Goes(c, Idle) /\ UNCHANGED <<db, nextId>>
  /\ UNCHANGED <<groups, driver, requests, broken>>
-----------------------------------------------------------------------------
(* update_rule and delete_rule look at the name of the rule first. *)
Unchanged(rule, old) == rule = [old EXCEPT !.enabled = rule.enabled]

Permitted(c) ==
  IF client[c].kind = "update"
  THEN \E old \in Row(client[c].id) :
         old.system => \A rule \in client[c].rule : Unchanged(rule, old)
  ELSE \A old \in Row(client[c].id) : ~old.system

Guard(c) ==
  /\ At(c, "guard")
  /\ IF Permitted(c) THEN GoesTo(c, "read") ELSE Ends(c)
  /\ UNCHANGED <<db, nextId, groups, driver, requests, faults, broken>>

(* The second read of the row, by the function that does the work.  enable_rule
   and disable_rule return at once when the row is as it should be. *)
Switched(c) == client[c].kind = "enable"

Read(c) ==
  /\ At(c, "read")
  /\ LET row == Row(client[c].id)
         asIs == [client[c] EXCEPT !.pc = "write", !.old = row]
     IN  CASE Deletes(c) -> Goes(c, asIs)
           [] client[c].kind = "update" -> IF row = {} THEN Ends(c) ELSE Goes(c, asIs)
           [] OTHER -> IF \E r \in row : r.enabled # Switched(c)
                       THEN Goes(c, [asIs EXCEPT !.rule =
                                       {[r EXCEPT !.enabled = Switched(c)] : r \in row}])
                       ELSE Ends(c)
  /\ UNCHANGED <<db, nextId, groups, driver, requests, faults, broken>>

Restores(rule, on) == {<<[rule EXCEPT !.enabled = on]>>}

(* A mutant: a rule that leaves a group is treated as any other. *)
AfterUpdateDirect(c, old, rule) ==
  IF old.remote_domain # {} \/ rule.remote_domain # {} THEN Idle
  ELSE IF rule.app_group_id # {} THEN [client[c] EXCEPT !.pc = "clear"]
  ELSE CASE old.enabled /\ ~rule.enabled ->
              [client[c] EXCEPT !.pc = "remove", !.undo = Restores(rule, TRUE)]
         [] ~old.enabled /\ rule.enabled ->
              [client[c] EXCEPT !.pc = "add", !.undo = Restores(rule, FALSE)]
         [] old.enabled /\ rule.enabled -> [client[c] EXCEPT !.pc = "modify", !.undo = {<<old>>}]
         [] OTHER -> Idle

(* What the driver is told of an update, and the row to go back to. *)
AfterUpdate(c, old, rule) ==
  IF old.remote_domain # {} \/ rule.remote_domain # {} THEN Idle
  ELSE IF old.app_group_id # {} \/ rule.app_group_id # {} THEN [client[c] EXCEPT !.pc = "clear"]
  ELSE CASE old.enabled /\ ~rule.enabled ->
              [client[c] EXCEPT !.pc = "remove", !.undo = Restores(rule, TRUE)]
         [] ~old.enabled /\ rule.enabled ->
              [client[c] EXCEPT !.pc = "add", !.undo = Restores(rule, FALSE)]
         [] old.enabled /\ rule.enabled -> [client[c] EXCEPT !.pc = "modify", !.undo = {<<old>>}]
         [] OTHER -> Idle

AfterSwitch(c, rule) ==
  IF rule.remote_domain # {} THEN Idle
  ELSE [client[c] EXCEPT !.undo = Restores(rule, ~rule.enabled),
          !.pc = IF rule.app_group_id # {} THEN "clear"
                 ELSE IF rule.enabled THEN "add" ELSE "remove"]

(* UPDATE of a row that is gone changes nothing and succeeds. *)
WriteRow(c) ==
  /\ At(c, "write") /\ ~Deletes(c)
  /\ \E rule \in client[c].rule, old \in client[c].old :
       /\ db' = IF client[c].id \in Ids THEN With(client[c].id, rule) ELSE db
       /\ Goes(c, IF client[c].kind = "update" THEN AfterUpdate(c, old, rule)
                  ELSE AfterSwitch(c, rule))
  /\ UNCHANGED <<nextId, groups, driver, requests, faults, broken>>

(* DELETE; the driver is told even when there was no row. *)
DeleteRow(c) ==
  /\ At(c, "write") /\ Deletes(c)
  /\ db' = Without(client[c].id)
  /\ IF \E old \in client[c].old : old.remote_domain # {} THEN Ends(c)
     ELSE GoesTo(c, IF \E old \in client[c].old : old.app_group_id # {} THEN "clear" ELSE "remove")
  /\ UNCHANGED <<nextId, groups, driver, requests, faults, broken>>
-----------------------------------------------------------------------------
(* The IOCTLs.  A key that is present cannot be added, one that is absent can
   be neither removed nor updated, and the list has a cap. *)
Has(key) == \E e \in driver : e.key = key
Addable(key) == ~Has(key) /\ Cardinality(driver) < MAX_RULES
Dropping(key) == {e \in driver : e.key # key}

Accepted(c) ==
  \/ At(c, "add") /\ Addable(<<client[c].id>>)
  \/ At(c, "modify") /\ Has(<<client[c].id>>)
  \/ At(c, "remove") /\ Has(<<client[c].id>>)

Ioctl(c) ==
  /\ At(c, "add") \/ At(c, "modify") \/ At(c, "remove")
  /\ \/ /\ Accepted(c)
        /\ driver' = Dropping(<<client[c].id>>) \cup
                     {DirectEntry(client[c].id, r) : r \in IF At(c, "remove") THEN {} ELSE client[c].rule}
        /\ Ends(c) /\ UNCHANGED faults
     \/ /\ ~Accepted(c)
        /\ Fails(c) /\ UNCHANGED <<driver, faults>>
     \/ /\ Fault
        /\ Fails(c) /\ UNCHANGED driver
  /\ UNCHANGED <<db, nextId, groups, requests, broken>>

(* A mutant: the caller is told, and the row stays as it was written. *)
UndoNothing(c) == At(c, "undo") /\ Ends(c) /\ UNCHANGED <<db, nextId, groups, driver, requests, faults, broken>>

(* The rollback of the row; when it fails too, that is only logged. *)
Undo(c) ==
  /\ At(c, "undo")
  /\ Ends(c)
  /\ \/ /\ \E u \in client[c].undo :
             db' = IF u = <<>> THEN Without(client[c].id)
                   ELSE IF client[c].id \in Ids THEN With(client[c].id, u[1]) ELSE db
        /\ UNCHANGED faults
     \/ Fault /\ UNCHANGED db
  /\ UNCHANGED <<nextId, groups, driver, requests, broken>>

(* A mutant: the list is not cleared. *)
ClearNothing(c) ==
  /\ At(c, "clear")
  /\ Goes(c, [client[c] EXCEPT !.pc = "snapshot", !.clean = TRUE]) /\ broken' = TRUE
  /\ UNCHANGED <<db, nextId, groups, driver, requests, faults>>

(* reload_rules_to_driver: clear, list the rules, read the members, add.  The
   field clean records that no read has failed and no entry was skipped so far. *)
Clear(c) ==
  /\ At(c, "clear")
  /\ \/ /\ driver' = {}
        /\ Goes(c, [client[c] EXCEPT !.pc = "snapshot", !.clean = TRUE]) /\ UNCHANGED faults
     \/ Fault /\ Fails(c) /\ UNCHANGED driver
  /\ broken' = TRUE
  /\ UNCHANGED <<db, nextId, groups, requests>>

Snapshot(c) ==
  /\ At(c, "snapshot")
  /\ \/ /\ Goes(c, [client[c] EXCEPT !.pc = "paths", !.snapshot = db]) /\ UNCHANGED faults
     \/ Fault /\ Fails(c)
  /\ UNCHANGED <<db, nextId, groups, driver, requests, broken>>

(* The rules for which a lost group has been read, and the members of the others. *)
FailedReads(c, lost) ==
  {id \in DOMAIN client[c].snapshot : client[c].snapshot[id].app_group_id \cap lost # {}}
Found(lost) == [g \in Groups |-> IF g \in lost THEN <<>> ELSE members[g]]

(* A failed read counts as a group without members, and its rules are skipped.
   The group is read again for its next rule, so it is lost when all reads fail. *)
LoadGroupPaths(c) ==
  /\ At(c, "paths")
  /\ \/ /\ Goes(c, [client[c] EXCEPT !.pc = "load", !.snapshot = <<>>,
                                     !.todo = Expansion(client[c].snapshot, members)])
        /\ UNCHANGED faults
     \/ \E lost \in SUBSET Groups, n \in 1..(MaxFaults - faults) :
          /\ Cardinality(FailedReads(c, lost)) = n /\ faults' = faults + n
          /\ Goes(c, [client[c] EXCEPT !.pc = "load", !.snapshot = <<>>, !.clean = FALSE,
                                       !.todo = Expansion(client[c].snapshot, Found(lost))])
  /\ UNCHANGED <<db, nextId, groups, driver, requests, broken>>

(* One entry after the other; one that fails is skipped. *)
Loaded(c, e, ok) == client' = [client EXCEPT ![c].todo = @ \ {e}, ![c].clean = @ /\ ok]

Load(c) ==
  /\ At(c, "load")
  /\ \/ /\ client[c].todo = {} /\ Ends(c)
        /\ broken' = (broken /\ ~(client[c].clean /\ c \notin overlapped))
        /\ UNCHANGED <<driver, faults>>
     \/ \E e \in client[c].todo :
          /\ UNCHANGED broken
          /\ \/ /\ driver' = IF Addable(e.key) THEN driver \cup {e} ELSE driver
                /\ Loaded(c, e, Addable(e.key)) /\ UNCHANGED faults
             \/ Fault /\ Loaded(c, e, FALSE) /\ UNCHANGED driver
  /\ UNCHANGED <<db, nextId, groups, requests>>
-----------------------------------------------------------------------------
Request(c) ==
  \/ \E rule \in Rules : RequestCreate(c, rule) \/ \E id \in Ids : RequestUpdate(c, id, rule)
  \/ \E id \in Ids : \/ \E kind \in {"delete", "enable", "disable"} : RequestById(c, kind, id)
                     \/ Uninstall(c, id)
  \/ \E kind \in {"merge", "replace"}, batch \in Batches : ImportRules(c, kind, batch)
  \/ \E g \in Groups : \/ \E path \in MemberPaths : AddMember(c, g, path) \/ RemoveMember(c, g, path)
                       \/ \E on \in BOOLEAN : SetGroupEnabled(c, g, on)
                       \/ \E T \in SUBSET Templates : SyncPredefinedMembers(c, g, T)
  \/ Restart(c)

Step(c) ==
  \/ ListRules(c) \/ Insert(c) \/ Guard(c) \/ Read(c) \/ WriteRow(c) \/ DeleteRow(c)
  \/ ListForImport(c) \/ NextVictim(c) \/ InsertBatch(c)
  \/ Ioctl(c) \/ Undo(c) \/ Clear(c) \/ Snapshot(c) \/ LoadGroupPaths(c) \/ Load(c)

(* History, after each step. *)
UnderWay(c) == client[c].pc # "idle"

Observe ==
  /\ overlapped' = {c \in Clients : /\ UnderWay(c)' /\ client'[c].kind # "start"
                                    /\ \/ c \in overlapped \/ \E d \in Clients \ {c} : UnderWay(d)'
                                       \/ UnderWay(c) /\ requests' > requests}
  /\ raced' = \/ raced /\ ~(broken /\ ~broken')
              \/ \E c, d \in Clients : c # d /\ client'[c].id = client'[d].id /\ client'[c].id # 0

ManagerNext == (\E c \in Clients : Request(c) \/ Step(c)) /\ Observe

ManagerSpec == ManagerInit /\ [][ManagerNext]_mvars
-----------------------------------------------------------------------------
Quiet == \A c \in Clients : ~UnderWay(c)
Excused == broken \/ raced

(* Between requests, while no call has failed and no reload is owed, the driver
   holds exactly the enabled rules, group rules expanded over the present
   members: what the increments of create, update and delete arrive at is what
   a reload from the database would build, also when requests of two clients
   interleave, and a crash in the middle of a request leaves no trace once the
   service is back.  Only two requests at one rule, and one beside a reload,
   may leave the driver behind until the next reload. *)
DriverIsExpansion == (Quiet /\ faults = 0 /\ ~Excused) => driver = Expansion(db, members)

(* Whatever single call fails, and when: between requests every enabled rule
   that stands for itself is in the driver, with the same exceptions.
   (manager.rs:329, of the rollback: it avoids "in the database, not in the
   driver".) *)
NoMissingRule ==
  (Quiet /\ ~Excused) => \A id \in Ids : (db[id].enabled /\ Direct(db[id])) => Has(<<id>>)

(* manager.rs:408: a reload is idempotent, so the next change of a group or of
   a group rule repairs what failed calls and races have left behind, orphans
   and gaps, when it has the service to itself and no call fails.  One in which
   calls fail may leave gaps, the members of a group that could not be read
   among them (manager.rs:854), but the driver then holds nothing that the
   database does not ask for, and the repair is still owed. *)
ReloadHeals ==
  [][/\ (broken /\ ~broken') => driver' = Expansion(db', members')
     /\ \A c \in Clients \ overlapped :
          At(c, "load") => broken /\ driver \subseteq Expansion(db, members)]_mvars

(* The entries that decide a connection in one way. *)
Decided(entries, conn, allow) ==
  \E e \in entries : e.input.IsAllow = allow /\ Applies(e.input, conn)

(* Whether a new rule is inserted or merged: once create_rule is done, every
   connection the asked rule selects has an entry with its action, and no
   connection that another rule decided has lost it.  The rules are enabled,
   and neither another request nor a crash has come in between. *)
CreateLosesNothing ==
  [][\A c \in Clients \ overlapped : \A rule \in client[c].asked :
       (/\ client'[c] = Idle /\ \A d \in Clients : client'[d].kind # "start"
        /\ rule.enabled /\ Direct(rule) /\ faults' = 0 /\ ~Excused) =>
         \A conn \in Connections :
           /\ HitBy(rule, conn) => Decided(driver', conn, rule.action = "Allow")
           /\ \A allow \in BOOLEAN :
                (Decided(client[c].before, conn, allow) /\ ~HitBy(rule, conn))
                => Decided(driver', conn, allow)]_mvars
=============================================================================
