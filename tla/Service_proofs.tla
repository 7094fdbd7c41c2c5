-------------------------- MODULE Service_proofs --------------------------
(***************************************************************************)
(* What the settings promise is in force while the service runs, through   *)
(* failed calls, overlapping requests, crashes and restarts, for any       *)
(* clients, settings, system rules, layers and bounds.                     *)
(*                                                                         *)
(* Each of these invariants holds only between requests, and start applies *)
(* the settings one by one: the invariant says for each setting what a     *)
(* request or a start that is half done has already put in force.          *)
(***************************************************************************)
EXTENDS Service, FiniteSetTheorems, TLAPS

SettingsType == [allow : BOOLEAN, system : BOOLEAN, protect : BOOLEAN, limit : BOOLEAN]
Items == ({"add"} \X Defs) \cup ({"move", "delete"} \X Nat)
Begun == [want : SettingsType, ok : BOOLEAN, work : SUBSET Items]

ReqStates ==
  {NoReq}
  \cup [pc : {"save", "limit", "policy", "list"}, want : SettingsType, work : {{}}]
  \cup [pc : {"system"}, want : SettingsType, work : SUBSET Items]
  \cup [pc : {"setglobal", "read"}, on : BOOLEAN]
  \cup [pc : {"write"}, want : SettingsType]
  \cup [pc : {"predefined"}]
  \cup [pc : {"member", "reload"}, in : BOOLEAN]

Stopping == {"stop", "kernel", "close"}
Applying == {"system", "policy", "load", "groups", "kill", "limits"}
Preparing == {"driver", "wfp", "settings", "list"} \cup Applying
Phases == {"down", "running"} \cup Stopping \cup Preparing

Active(c) == req[c] # NoReq
Asks(pcs) == \E c \in Clients : req[c].pc \in pcs
Saving == {"limit", "policy", "list", "system"}

ProcessType ==
  /\ phase \in Phases /\ exit \in {"none", "ok", "failed", "gone"}
  /\ settings \in SettingsType /\ wanted \in SettingsType
  /\ begun \in Begun /\ (phase = "list" => begun.work = {})
  /\ req \in [Clients -> ReqStates]
  /\ {opened, policy, limit, members, expanded, kill, engine} \subseteq BOOLEAN

(* Where the process is. *)
Life ==
  /\ Starting => exit = "none"
  /\ phase \notin {"running"} \cup Stopping => Idle
  /\ phase \in {"wfp", "settings", "list", "running"} \cup Applying => opened
  /\ phase = "down" => ~opened
  /\ phase \in {"list"} \cup Applying =>
       IF begun.ok THEN begun.want = settings ELSE {"policy", "system", "kill"} \subseteq tainted

(* Requests that overlap, or that go on while the service stops, taint every
   setting; otherwise there is one, and it holds the settings of now. *)
Disturbed == Aspects \ {"groups"} \subseteq tainted
Undisturbed ==
  /\ \A c, d \in Clients : Active(c) /\ Active(d) => c = d
  /\ phase \in Stopping => Idle
  /\ \A c \in Clients :
       /\ req[c].pc \in Saving => req[c].want = settings
       /\ req[c].pc = "write" => req[c].want = [settings EXCEPT !.limit = req[c].want.limit]
OneAtATime == Disturbed \/ Undisturbed

Saved == "settings" \notin tainted => settings = wanted

KillFollows ==
  "kill" \notin tainted /\ ~Asks(Saving) => kill = (settings.protect /\ exit # "gone")

LayersFollow ==
  /\ engine => phase \notin {"down", "driver", "wfp", "kernel", "close"}
  /\ phase \in ({"settings", "list", "running"} \cup Applying) => engine
  /\ "layers" \notin tainted =>
       IF engine
       THEN \A k \in Auth, f \in Families : \E x \in filters :
              x.layer = <<k, f>> /\ x.match = "any" /\ x.action = "terminating"
       ELSE filters = {}

LimitFollows ==
  "limit" \notin tainted =>
    /\ ~opened \/ phase \in {"close"} \cup Preparing => ~limit
    /\ phase = "running" =>
         /\ \A c \in Clients : /\ req[c].pc = "read" => limit = req[c].on
                               /\ req[c].pc = "write" => limit = req[c].want.limit
         /\ Asks({"limit", "read", "write"}) \/ limit = settings.limit

PolicyFollows ==
  "policy" \notin tainted /\ phase \in {"load", "groups", "kill", "limits", "running"} =>
    Asks({"limit", "policy"}) \/ policy = settings.allow

GroupsFollow ==
  "groups" \notin tainted /\ phase \in {"groups", "kill", "limits", "running"} =>
    Asks({"reload"}) \/ expanded = members

(* A rule with a short path is the oldest of its name. *)
RowsType ==
  /\ next_id \in Nat /\ \A i \in DOMAIN rows : DOMAIN rows[i] = {"name", "path", "enabled"}
  /\ \A i \in DOMAIN rows : i \in Nat /\ i < next_id
  /\ \A i \in SystemIds(rows), j \in DOMAIN rows :
       rows[i].path # "full" /\ rows[j].name = rows[i].name => i <= j

(* Without overlapping requests a definition has one rule, and a rule that is
   still to be installed has none. *)
Unlisted(list, work) == \A d \in Defs : <<"add", d>> \in work => Named(list, d) = {}
Single(list) == \A d \in Defs : \A i, j \in Named(list, d) : i = j
Once ==
  "twice" \notin tainted =>
    /\ \A c, d \in Clients : Active(c) /\ Active(d) => c = d
    /\ Single(rows)
    /\ phase = "system" => Unlisted(rows, begun.work)
    /\ \A c \in Clients : req[c].pc = "system" => Unlisted(rows, req[c].work)

(* What the settings ask of the table is there or is still to be done. *)
Todo(want, list, work) ==
  /\ ~want.allow /\ want.system =>
       /\ \A d \in Defs : Named(list, d) # {} \/ <<"add", d>> \in work
       /\ \A i \in SystemIds(list) : list[i].path = "full" \/ <<"move", i>> \in work
       /\ \A item \in work : item[1] # "delete"
  /\ ~want.system =>
       /\ \A i \in SystemIds(list) : <<"delete", i>> \in work
       /\ \A item \in work : item[1] # "add"
InDriver(list, held) == \A i \in SystemIds(list) : list[i].enabled => i \in held
SystemFollows ==
  "system" \notin tainted =>
    /\ phase = "system" => Todo(settings, rows, begun.work)
    /\ phase \in {"policy", "load", "groups", "kill", "limits"} => Todo(settings, rows, {})
    /\ phase \in {"groups", "kill", "limits", "running"} => InDriver(rows, loaded)
    /\ phase = "running" =>
         /\ \A c \in Clients : req[c].pc = "system" => Todo(settings, rows, req[c].work)
         /\ Asks(Saving) \/ Todo(settings, rows, {})

ServiceInv ==
  /\ ProcessType /\ Life /\ OneAtATime /\ Saved
  /\ KillFollows /\ LayersFollow /\ LimitFollows /\ PolicyFollows /\ GroupsFollow
  /\ RowsType /\ Once /\ SystemFollows

-----------------------------------------------------------------------------
(* What a step does to the filters, the engine and the kill switch. *)
LEMMA KillWritten ==
  ASSUME NEW want \in BOOLEAN, SetKillSwitch(want)
  PROVE  kill' = want /\ UNCHANGED <<filters, engine>>
  BY DEF SetKillSwitch, add_persistent_block_filters, remove_persistent_block_filters

LEMMA EngineClosed ==
  ASSUME NEW left, cleanup_wfp(left), engine \in BOOLEAN
  PROVE  /\ kill' = kill /\ engine' = FALSE
         /\ IF engine THEN filters' = left ELSE filters' = filters
  BY DEF cleanup_wfp, remove_filters, wvars

LEMMA EngineOpened ==
  ASSUME NEW a, NEW b, InitializeOk(a, b)
  PROVE  kill' = kill /\ engine' = TRUE
  BY DEF InitializeOk

LEMMA EngineFailed ==
  ASSUME NEW a, NEW b, InitializeFails(a, b)
  PROVE  UNCHANGED <<kill, engine>> /\ filters' = {}
  BY DEF InitializeFails, remove_filters

(* An engine opened without a failure has a deciding filter at the connect and
   accept layers of both families. *)
LEMMA AuthFiltered ==
  ASSUME InitializeOk(NoLayer, NoLayer), NEW k \in Auth, NEW f \in Families
  PROVE  \E x \in filters' : x.layer = <<k, f>> /\ x.match = "any" /\ x.action = "terminating"
<1> DEFINE s == session'
           t == <<k, "any", "terminating">>
           x == Filter(<<k, f>>, "any", "terminating", s)
<1>1. <<k, f>> \in add_filters(NoLayer)
  <2>1. UpTo(NoLayer) = Layers \ {NoLayer} /\ <<k, f>> \in Layers /\ <<k, f>> # NoLayer
    BY DEF UpTo, NoLayer, Layers, Auth, Families
  <2>2. <<k, f>> \in callouts'
    BY <2>1 DEF InitializeOk, register_callouts
  <2>3. <<k, f>> \notin Skipped
    BY FilterAssumption DEF Skipped
  <2> QED
    BY <2>1, <2>2, <2>3 DEF add_filters
<1>2. t \in FiltersV4 /\ t[1] = k /\ t[2] = "any" /\ t[3] = "terminating"
  BY DEF FiltersV4, Auth, add_filter_v4, add_filter_recv_accept
<1>3. t \in add_filter_v6
  BY <1>2 DEF add_filter_v6
<1>4. x \in FiltersAt(add_filters(NoLayer), s)
  BY <1>1, <1>2, <1>3 DEF FiltersAt, Families
<1>5. x \in filters'
  BY <1>4 DEF InitializeOk
<1>6. x.layer = <<k, f>> /\ x.match = "any" /\ x.action = "terminating"
  BY DEF Filter
<1> HIDE DEF x
<1> QED
  BY <1>5, <1>6

-----------------------------------------------------------------------------
LEMMA InitService == ServiceInit => ServiceInv
<1> SUFFICES ASSUME ServiceInit PROVE ServiceInv
  OBVIOUS
<1> USE DEF ServiceInit, WfpInit
<1>0. settings \in SettingsType /\ Defaults \in SettingsType
  BY ServiceAssumption DEF SettingsType, Defaults
<1>1. ProcessType
  BY <1>0 DEF ProcessType, Phases, Begun, Nothing, Items, ReqStates
<1>2. Life /\ Saved /\ KillFollows
  BY DEF Life, Saved, KillFollows, Starting, Stopping, Applying, Idle, Asks
<1>3. OneAtATime
  BY DEF OneAtATime, Undisturbed, Active, Stopping, Saving, NoReq
<1>4. LayersFollow /\ LimitFollows /\ PolicyFollows /\ GroupsFollow /\ SystemFollows
  BY DEF LayersFollow, LimitFollows, PolicyFollows, GroupsFollow, SystemFollows, Applying, Preparing
<1>5. RowsType /\ \A i, j \in SystemIds(rows) : i = j
  <2>1. PICK d : rows = <<[name |-> User, path |-> "full", enabled |-> TRUE],
                          [name |-> d, path |-> "short", enabled |-> FALSE]>>
    OBVIOUS
  <2>2. /\ DOMAIN rows = {1, 2} /\ rows[1].name = User /\ rows[1].path = "full"
        /\ DOMAIN rows[1] = {"name", "path", "enabled"} /\ DOMAIN rows[2] = {"name", "path", "enabled"}
    BY <2>1
  <2>3. SystemIds(rows) \subseteq {2}
    BY <2>2, ServiceAssumption DEF SystemIds
  <2> QED
    BY <2>2, <2>3, ServiceAssumption DEF RowsType, SystemIds
<1>6. Once
  BY <1>5 DEF Once, Single, Active, NoReq, Named, SystemIds
<1> QED
  BY <1>1, <1>2, <1>3, <1>4, <1>5, <1>6 DEF ServiceInv

(* The shape of a request by where it is. *)
LEMMA ReqShape ==
  ASSUME ProcessType, NEW c \in Clients
  PROVE  /\ req[c] \in ReqStates
         /\ req[c].pc \in {"save", "limit", "policy", "list"} =>
              req[c] \in [pc : {"save", "limit", "policy", "list"}, want : SettingsType, work : {{}}]
         /\ req[c].pc = "system" =>
              req[c] \in [pc : {"system"}, want : SettingsType, work : SUBSET Items]
         /\ req[c].pc \in {"setglobal", "read"} => req[c] \in [pc : {"setglobal", "read"}, on : BOOLEAN]
         /\ req[c].pc = "write" => req[c] \in [pc : {"write"}, want : SettingsType]
         /\ req[c].pc \in {"member", "reload"} => req[c] \in [pc : {"member", "reload"}, in : BOOLEAN]
  BY DEF ProcessType, ReqStates, NoReq

(* What there is to do is made of items. *)
LEMMA WorkItems ==
  ASSUME RowsType, NEW want
  PROVE  SystemWork(want, rows) \subseteq Items
  BY DEF SystemWork, RowsType, Items, ensure_installed, remove_all, Missing, Outdated, SystemIds

-----------------------------------------------------------------------------
(* ProcessType and Life. *)
LEMMA StartsType ==
  ASSUME ServiceInv, Starts
  PROVE  ProcessType'
<1> USE DEF ServiceInv, ProcessType, Then, StartFails, driver, table
<1>1. CASE load_driver
  BY <1>1 DEF load_driver, wvars, Phases, Preparing, Stopping
<1>2. CASE initialize_wfp
  BY <1>2, EngineOpened, EngineFailed DEF initialize_wfp, wvars, Phases, Preparing, Stopping
<1>3. CASE ReadSettings
  <2>1. Nothing \in Begun /\ Nothing.work = {}
    BY DEF Nothing, Begun, Defaults, SettingsType
  <2> QED
    <3>1. begun' \in Begun /\ begun'.work = {}
      <4>1. CASE begun' = Nothing
        BY <2>1, <4>1
      <4>2. CASE begun' # Nothing
        <5>1. begun' = [want |-> settings, ok |-> TRUE, work |-> {}] /\ settings \in SettingsType
          BY ONLY <1>3, <4>2, ServiceInv DEF ReadSettings, get_settings, ServiceInv, ProcessType
        <5> QED
          BY ONLY <5>1 DEF Begun
      <4> QED
        BY <4>1, <4>2
    <3> QED
      BY <1>3, <3>1 DEF ReadSettings, wvars, Phases, Preparing
<1>4. CASE ListSystemRules
  <2>1. SystemWork(begun.want, rows) \subseteq Items
    BY WorkItems
  <2> QED
    BY <1>4, <2>1 DEF ListSystemRules, wvars, Phases, Preparing, Applying, Begun
<1>5. CASE StartSystemRule
  BY <1>5 DEF StartSystemRule, wvars, Begun
<1>6. CASE clear_rules
  BY <1>6 DEF clear_rules, wvars, Phases, Preparing, Applying, Stopping
<1>7. CASE StartPolicy
  BY <1>7 DEF StartPolicy, wvars, Phases, Preparing, Applying, Stopping, Begun, SettingsType
<1>8. CASE load_rules_to_driver
  BY <1>8 DEF load_rules_to_driver, wvars, Phases, Preparing, Applying, Stopping
<1>9. CASE StartGroups
  BY <1>9 DEF StartGroups, initialize_predefined, expand_member_paths, wvars, Phases, Preparing, Applying
<1>10. CASE StartKillSwitch
  BY <1>10, KillWritten DEF StartKillSwitch, wvars, Phases, Preparing, Applying, Begun, SettingsType
<1>11. CASE StartLimits
  BY <1>11 DEF StartLimits, wvars, Phases, SettingsType, get_settings
<1> QED
  BY <1>1, <1>2, <1>3, <1>4, <1>5, <1>6, <1>7, <1>8, <1>9, <1>10, <1>11 DEF Starts

(* Where a request can go on from where it is. *)
LEMMA ReqMoves ==
  ASSUME ProcessType, NEW c \in Clients, NEW pc, Goto(c, pc),
         \/ req[c].pc \in {"save", "limit", "policy", "list"} /\ pc \in {"limit", "policy", "list", "system"}
         \/ req[c].pc = "setglobal" /\ pc = "read"
         \/ req[c].pc = "member" /\ pc = "reload"
  PROVE  \E r \in ReqStates : r = [req[c] EXCEPT !.pc = pc] /\ req' = [req EXCEPT ![c] = r]
<1> DEFINE r == [req[c] EXCEPT !.pc = pc]
<1>1. req' = [req EXCEPT ![c] = r]
  BY DEF Goto, ProcessType
<1>2. CASE req[c].pc \in {"save", "limit", "policy", "list"} /\ pc \in {"limit", "policy", "list", "system"}
  BY ZenonT(60), <1>1, <1>2, ReqShape DEF ReqStates
<1>3. CASE req[c].pc = "setglobal" /\ pc = "read"
  BY ZenonT(60), <1>1, <1>3, ReqShape DEF ReqStates
<1>4. CASE req[c].pc = "member" /\ pc = "reload"
  BY <1>1, <1>4, ReqShape DEF ReqStates
<1> QED
  BY <1>2, <1>3, <1>4

LEMMA ReqDone == ASSUME NEW c \in Clients, Done(c) PROVE \E r \in ReqStates : req' = [req EXCEPT ![c] = r]
  BY DEF Done, ReqStates

(* A step of a request leaves the life of the process alone. *)
LEMMA ServeType ==
  ASSUME ServiceInv, NEW c \in Clients, Serve(c)
  PROVE  /\ UNCHANGED <<phase, exit, begun, opened, starts>>
         /\ \E r \in ReqStates : req' = [req EXCEPT ![c] = r]
         /\ {settings', wanted'} \subseteq SettingsType
         /\ {policy', limit', members', expanded', kill', engine'} \subseteq BOOLEAN
<1>1. ProcessType /\ RowsType
  BY DEF ServiceInv
<1>2. UNCHANGED <<phase, exit, begun, opened, starts>>
  BY DEF driver, table, bounds, Serve, update_settings, UpdateGlobal, PushPolicy,
         ListForUpdate, UpdateSystemRule, UpdateKillSwitch, SetGlobal, ReadBack, WriteBack,
         InitializePredefinedGroups, ChangeMember, reload_rules_quietly
<1>3. \E r \in ReqStates : req' = [req EXCEPT ![c] = r]
  <2>1. CASE update_settings(c)
    BY <1>1, <2>1, ReqMoves, ReqDone DEF update_settings, At
  <2>2. CASE UpdateGlobal(c) \/ PushPolicy(c)
    BY <1>1, <2>2, ReqMoves DEF UpdateGlobal, PushPolicy, At
  <2>3. CASE ListForUpdate(c)
    <3>1. CASE Goto(c, "system")
      BY <1>1, <2>3, <3>1, ReqMoves DEF ListForUpdate, At
    <3>2. CASE ~Goto(c, "system")
      <4> DEFINE r == [req[c] EXCEPT !.pc = "system", !.work = SystemWork(req[c].want, rows)]
      <4>1. req' = [req EXCEPT ![c] = r]
        BY <1>1, <2>3, <3>2 DEF ListForUpdate, ProcessType
      <4>2. r \in ReqStates
        BY <1>1, <2>3, ReqShape, WorkItems DEF ListForUpdate, At, ReqStates
      <4> QED
        BY <4>1, <4>2
    <3> QED
      BY <3>1, <3>2
  <2>4. CASE UpdateSystemRule(c)
    <3>1. PICK item \in req[c].work : req' = [req EXCEPT ![c].work = @ \ {item}]
      BY <2>4 DEF UpdateSystemRule
    <3> DEFINE r == [req[c] EXCEPT !.work = @ \ {item}]
    <3>2. req' = [req EXCEPT ![c] = r]
      BY <1>1, <3>1 DEF ProcessType
    <3>3. r \in ReqStates
      BY <1>1, <2>4, ReqShape DEF UpdateSystemRule, At, ReqStates
    <3> QED
      BY <3>2, <3>3
  <2>5. CASE UpdateKillSwitch(c) \/ InitializePredefinedGroups(c) \/ reload_rules_quietly(c) \/ WriteBack(c)
    BY <2>5, ReqDone DEF UpdateKillSwitch, InitializePredefinedGroups, reload_rules_quietly, WriteBack
  <2>6. CASE SetGlobal(c) \/ ChangeMember(c)
    BY <1>1, <2>6, ReqMoves DEF SetGlobal, ChangeMember, At
  <2>7. CASE ReadBack(c)
    <3>1. CASE Done(c)
      BY <3>1, ReqDone
    <3>2. CASE ~Done(c)
      <4> DEFINE r == [pc |-> "write", want |-> [get_settings EXCEPT !.limit = req[c].on]]
      <4>1. req' = [req EXCEPT ![c] = r]
        BY <2>7, <3>2 DEF ReadBack
      <4>2. [get_settings EXCEPT !.limit = req[c].on] \in SettingsType
        BY <1>1, <2>7, ReqShape DEF ReadBack, At, get_settings, SettingsType, ProcessType
      <4>3. r \in ReqStates
        BY <4>2 DEF ReqStates
      <4> QED
        BY <4>1, <4>3
    <3> QED
      BY <3>1, <3>2
  <2> QED
    BY <2>1, <2>2, <2>3, <2>4, <2>5, <2>6, <2>7 DEF Serve
<1>4. {settings', wanted'} \subseteq SettingsType
  <2>1. CASE update_settings(c)
    BY <1>1, <2>1, ReqShape DEF update_settings, store_settings, At, ProcessType
  <2>2. CASE WriteBack(c)
    <3>1. req[c].want \in SettingsType
      BY <1>1, <2>2, ReqShape DEF WriteBack, At
    <3>2. [wanted EXCEPT !.limit = req[c].want.limit] \in SettingsType
      BY <1>1, <3>1 DEF ProcessType, SettingsType
    <3> QED
      BY <1>1, <2>2, <3>1, <3>2 DEF WriteBack, store_settings, ProcessType
  <2>3. CASE ~(update_settings(c) \/ WriteBack(c))
    <3>1. UNCHANGED <<settings, wanted>>
      BY <2>3 DEF table, Serve, UpdateGlobal, PushPolicy,
         ListForUpdate, UpdateSystemRule, UpdateKillSwitch, SetGlobal, ReadBack,
         InitializePredefinedGroups, ChangeMember, reload_rules_quietly
    <3> QED
      BY <1>1, <3>1 DEF ProcessType
  <2> QED
    BY <2>1, <2>2, <2>3
<1>5. {policy', limit'} \subseteq BOOLEAN
  <2>1. CASE UpdateGlobal(c) \/ PushPolicy(c)
    <3>1. req[c].want \in SettingsType
      BY <1>1, <2>1, ReqShape DEF UpdateGlobal, PushPolicy, At
    <3> QED
      BY <1>1, <2>1, <3>1 DEF UpdateGlobal, PushPolicy, SettingsType, ProcessType
  <2>2. CASE SetGlobal(c)
    BY <1>1, <2>2, ReqShape DEF SetGlobal, At, ProcessType
  <2>3. CASE ~(UpdateGlobal(c) \/ PushPolicy(c) \/ SetGlobal(c))
    <3>1. UNCHANGED <<policy, limit>>
      BY <2>3 DEF driver, Serve, update_settings, WriteBack,
         ListForUpdate, UpdateSystemRule, UpdateKillSwitch, ReadBack,
         InitializePredefinedGroups, ChangeMember, reload_rules_quietly
    <3> QED
      BY <1>1, <3>1 DEF ProcessType
  <2> QED
    BY <2>1, <2>2, <2>3
<1>6. {members', expanded'} \subseteq BOOLEAN
  <2>1. CASE ChangeMember(c)
    BY <1>1, <2>1, ReqShape DEF ChangeMember, At, ProcessType, driver
  <2>2. CASE InitializePredefinedGroups(c) \/ reload_rules_quietly(c)
    BY <1>1, <2>2 DEF InitializePredefinedGroups, initialize_predefined, expand_member_paths,
                      reload_rules_quietly, ProcessType, driver, table
  <2>3. CASE ~(ChangeMember(c) \/ InitializePredefinedGroups(c) \/ reload_rules_quietly(c))
    <3>1. UNCHANGED <<members, expanded>>
      BY <2>3 DEF driver, table, Serve, update_settings, WriteBack, UpdateGlobal, PushPolicy, SetGlobal,
         ListForUpdate, UpdateSystemRule, UpdateKillSwitch, ReadBack
    <3> QED
      BY <1>1, <3>1 DEF ProcessType
  <2> QED
    BY <2>1, <2>2, <2>3
<1>7. {kill', engine'} \subseteq BOOLEAN
  <2>1. CASE UpdateKillSwitch(c)
    <3>1. req[c].want.protect \in BOOLEAN
      BY <1>1, <2>1, ReqShape DEF UpdateKillSwitch, At, SettingsType
    <3> QED
      BY <1>1, <2>1, <3>1, KillWritten DEF UpdateKillSwitch, ProcessType, wvars
  <2>2. CASE ~UpdateKillSwitch(c)
    <3>1. UNCHANGED <<kill, engine>>
      BY <2>2 DEF wvars, Serve, update_settings, WriteBack, UpdateGlobal, PushPolicy, SetGlobal,
         ListForUpdate, UpdateSystemRule, ReadBack, InitializePredefinedGroups, ChangeMember,
         reload_rules_quietly
    <3> QED
      BY <1>1, <3>1 DEF ProcessType
  <2> QED
    BY <2>1, <2>2
<1> QED
  BY <1>2, <1>3, <1>4, <1>5, <1>6, <1>7

Lives == StartService \/ Restart \/ StopRequested \/ Stops \/ Crash \/ uninstall_service

LEMMA LivesType ==
  ASSUME ServiceInv, Lives
  PROVE  ProcessType'
<1> USE DEF ServiceInv, ProcessType, Then, driver, table, bounds
<1>1. CASE StartService \/ Restart
  BY <1>1 DEF StartService, Restart, Launch, wvars, Phases, Preparing
<1>2. CASE StopRequested
  BY <1>2 DEF StopRequested, wvars, Phases, Stopping
<1>3. CASE StopWfp
  BY <1>3, EngineClosed DEF StopWfp, Phases, Stopping
<1>4. CASE clear_kernel
  BY <1>4 DEF clear_kernel, wvars, Phases, Stopping
<1>5. req \in [Clients -> ReqStates] /\ [c \in Clients |-> NoReq] \in [Clients -> ReqStates]
  BY DEF ReqStates
<1>6. CASE unload_driver
  BY <1>5, <1>6 DEF unload_driver, wvars, Phases
<1>7. CASE Crash
  BY <1>5, <1>7 DEF Crash, Phases
<1>8. CASE uninstall_service
  BY <1>8, KillWritten DEF uninstall_service, wvars, Phases, Starting
<1> QED
  BY <1>1, <1>2, <1>3, <1>4, <1>6, <1>7, <1>8 DEF Lives, Stops

LEMMA ArriveType ==
  ASSUME ServiceInv, NEW c \in Clients, Arrive(c)
  PROVE  /\ UNCHANGED <<phase, exit, begun, table, driver, wanted, starts, faults, wvars>>
         /\ phase = "running" /\ req[c] = NoReq /\ tainted' = tainted \cup Overlap(c)
         /\ \E r \in ReqStates : /\ r.pc \in {"save", "setglobal", "predefined", "member"}
                                 /\ req' = [req EXCEPT ![c] = r]
<1>1. PICK r : Ask(c, r) /\ r \in ReqStates /\ r.pc \in {"save", "setglobal", "predefined", "member"}
  <2>1. Configs \subseteq SettingsType
    BY ServiceAssumption DEF SettingsType
  <2>2. \A want \in Configs : [pc |-> "save", want |-> want, work |-> {}] \in ReqStates
    BY <2>1 DEF ReqStates
  <2>3. /\ \A on \in BOOLEAN : [pc |-> "setglobal", on |-> on] \in ReqStates
        /\ [pc |-> "predefined"] \in ReqStates
        /\ \A in \in BOOLEAN : [pc |-> "member", in |-> in] \in ReqStates
    BY DEF ReqStates
  <2>4. \/ \E want \in Configs : Ask(c, [pc |-> "save", want |-> want, work |-> {}])
        \/ \E on \in BOOLEAN : Ask(c, [pc |-> "setglobal", on |-> on])
        \/ Ask(c, [pc |-> "predefined"])
        \/ \E in \in BOOLEAN : Ask(c, [pc |-> "member", in |-> in])
    BY DEF Arrive
  <2>5. CASE \E want \in Configs : Ask(c, [pc |-> "save", want |-> want, work |-> {}])
    BY <2>2, <2>5
  <2>6. CASE \E on \in BOOLEAN : Ask(c, [pc |-> "setglobal", on |-> on])
    BY <2>3, <2>6
  <2>7. CASE Ask(c, [pc |-> "predefined"])
    BY <2>3, <2>7
  <2>8. CASE \E in \in BOOLEAN : Ask(c, [pc |-> "member", in |-> in])
    BY <2>3, <2>8
  <2> QED
    BY <2>4, <2>5, <2>6, <2>7, <2>8
<1> QED
  BY <1>1 DEF Arrive, Ask, Taint, driver, table

LEMMA TypeKeeps == ServiceInv /\ [ServiceNext]_allvars => ProcessType'
<1> SUFFICES ASSUME ServiceInv, [ServiceNext]_allvars PROVE ProcessType'
  OBVIOUS
<1>0. ProcessType
  BY DEF ServiceInv
<1>1. CASE \E c \in Clients : Arrive(c)
  <2>1. PICK c \in Clients : Arrive(c)
    BY <1>1
  <2>2. PICK r \in ReqStates : req' = [req EXCEPT ![c] = r]
    BY <2>1, ArriveType
  <2>3. req' \in [Clients -> ReqStates]
    BY <1>0, <2>2 DEF ProcessType
  <2> QED
    BY <1>0, <2>1, <2>3, ArriveType DEF ProcessType, table, driver, wvars
<1>2. CASE \E c \in Clients : Serve(c)
  <2>1. PICK c \in Clients : Serve(c)
    BY <1>2
  <2>2. PICK r \in ReqStates : req' = [req EXCEPT ![c] = r]
    BY <2>1, ServeType
  <2>3. req' \in [Clients -> ReqStates]
    BY <1>0, <2>2 DEF ProcessType
  <2> QED
    BY <1>0, <2>1, <2>3, ServeType DEF ProcessType
<1>3. CASE UNCHANGED allvars
  BY <1>0, <1>3 DEF ProcessType, allvars, svars, wvars
<1> QED
  BY <1>1, <1>2, <1>3, StartsType, LivesType DEF ServiceNext, Lives

(* start and stop go through their phases in order, start with no request
   under way. *)
LEMMA LifeKeeps == ServiceInv /\ [ServiceNext]_allvars => Life'
<1> SUFFICES ASSUME ServiceInv, [ServiceNext]_allvars PROVE Life'
  OBVIOUS
<1>0. Life /\ ProcessType
  BY DEF ServiceInv
<1>1. CASE Starts
  <2>1. req' = req
    BY <1>1 DEF Starts, load_driver, initialize_wfp, ReadSettings, ListSystemRules, StartSystemRule,
       clear_rules, StartPolicy, load_rules_to_driver, StartGroups, StartKillSwitch, StartLimits
  <2>2. Idle'
    BY <1>0, <1>1, <2>1 DEF Life, Idle, Stopping, Starts, load_driver, initialize_wfp, ReadSettings, ListSystemRules, StartSystemRule,
       clear_rules, StartPolicy, load_rules_to_driver, StartGroups, StartKillSwitch, StartLimits
  <2>3. settings' = settings
    BY <1>1 DEF table, Starts, load_driver, initialize_wfp, ReadSettings, ListSystemRules, StartSystemRule,
       clear_rules, StartPolicy, load_rules_to_driver, StartGroups, StartKillSwitch, StartLimits
  <2>4. Starting' => exit' = "none"
    BY <1>0, <1>1 DEF Life, Starting, Then, StartFails, Starts, load_driver, initialize_wfp, ReadSettings,
       ListSystemRules, StartSystemRule, clear_rules, StartPolicy, load_rules_to_driver, StartGroups,
       StartKillSwitch, StartLimits
  <2>5. /\ phase' \in {"wfp", "settings", "list", "running"} \cup Applying => opened'
        /\ phase' # "down"
    BY <1>0, <1>1 DEF Life, Applying, driver, Then, StartFails, Starts, load_driver, initialize_wfp, ReadSettings,
       ListSystemRules, StartSystemRule, clear_rules, StartPolicy, load_rules_to_driver, StartGroups,
       StartKillSwitch, StartLimits
  <2>6. phase' \in {"list"} \cup Applying =>
          IF begun'.ok THEN begun'.want = settings' ELSE {"policy", "system", "kill"} \subseteq tainted'
    <3>1. CASE ReadSettings
      BY <2>3, <3>1 DEF ReadSettings, get_settings, Nothing, Taint
    <3>2. CASE load_driver \/ initialize_wfp \/ StartLimits
      BY <3>2 DEF load_driver, initialize_wfp, StartLimits, Then, StartFails, Applying
    <3>3. CASE ListSystemRules \/ StartPolicy \/ StartKillSwitch
      <4>1. phase \in {"list"} \cup Applying /\ begun'.want = begun.want /\ begun'.ok = begun.ok
        BY <1>0, <3>3 DEF ListSystemRules, StartPolicy, StartKillSwitch, ProcessType, Begun, Applying
      <4>2. ~begun.ok => tainted \subseteq tainted'
        BY <3>3 DEF ListSystemRules, StartPolicy, StartKillSwitch, Applied, Taint
      <4> QED
        BY <1>0, <2>3, <4>1, <4>2 DEF Life
    <3>4. CASE StartSystemRule \/ clear_rules \/ load_rules_to_driver \/ StartGroups
      <4>1. phase \in {"list"} \cup Applying /\ begun'.want = begun.want /\ begun'.ok = begun.ok
        BY <1>0, <3>4 DEF StartSystemRule, clear_rules, load_rules_to_driver, StartGroups, ProcessType, Begun, Applying
      <4>2. tainted \ {"groups"} \subseteq tainted'
        BY <3>4 DEF StartSystemRule, clear_rules, load_rules_to_driver, StartGroups, initialize_predefined, Taint, Heal
      <4> QED
        BY <1>0, <2>3, <4>1, <4>2 DEF Life
    <3> QED
      BY <1>1, <3>1, <3>2, <3>3, <3>4 DEF Starts
  <2> QED
    BY <2>2, <2>4, <2>5, <2>6 DEF Life
<1>2. CASE Lives
  <2>1. settings' = settings
    BY <1>2 DEF table, Lives, StartService, Restart, Launch, StopRequested, Stops, StopWfp, clear_kernel,
                unload_driver, Crash, uninstall_service
  <2>2. CASE StartService \/ Restart
    BY <1>0, <2>2 DEF Life, StartService, Restart, Launch, Idle, Stopping, Applying, Starting
  <2>3. CASE StopRequested
    BY <1>0, <2>3 DEF Life, StopRequested, Starting, Stopping, Applying
  <2>4. CASE StopWfp \/ clear_kernel
    BY <1>0, <2>4 DEF Life, StopWfp, clear_kernel, Then, Starting, Stopping, Applying
  <2>5. CASE unload_driver \/ Crash
    BY <1>0, <2>5 DEF Life, unload_driver, Crash, Then, Starting, Stopping, Applying, Idle
  <2>6. CASE uninstall_service
    BY <1>0, <2>1, <2>6 DEF Life, uninstall_service, Starting, Stopping, Applying, Idle, driver, table, Taint
  <2> QED
    BY <1>2, <2>2, <2>3, <2>4, <2>5, <2>6 DEF Lives, Stops
<1>3. CASE \E c \in Clients : Arrive(c)
  <2>1. UNCHANGED <<phase, exit, begun, opened, settings>> /\ phase = "running"
    BY <1>3, ArriveType DEF driver, table
  <2> QED
    BY <1>0, <2>1 DEF Life, Starting, Stopping, Applying
<1>4. CASE \E c \in Clients : Serve(c)
  <2>1. UNCHANGED <<phase, exit, begun, opened>>
    BY <1>4, ServeType
  <2>2. PICK c \in Clients : Serve(c)
    BY <1>4
  <2>3. ~Idle
    BY <2>2 DEF Idle, NoReq, At, Serve, update_settings, UpdateGlobal, PushPolicy,
         ListForUpdate, UpdateSystemRule, UpdateKillSwitch, SetGlobal, ReadBack, WriteBack,
         InitializePredefinedGroups, ChangeMember, reload_rules_quietly
  <2> QED
    BY <1>0, <2>1, <2>3 DEF Life, Starting, Stopping, Applying
<1>5. CASE UNCHANGED allvars
  BY <1>0, <1>5 DEF Life, Starting, Idle, allvars, svars
<1> QED
  BY <1>1, <1>2, <1>3, <1>4, <1>5 DEF ServiceNext, Lives

-----------------------------------------------------------------------------
(* OneAtATime and Saved. *)
LEMMA IdleUndisturbed == (Idle => Undisturbed) /\ (Idle' => Undisturbed')
  BY DEF Idle, Undisturbed, Active, NoReq, Saving

(* A request that is served keeps every taint but that of the groups, and
   leaves the other requests alone. *)
LEMMA ServeFrame ==
  ASSUME ServiceInv, NEW c \in Clients, Serve(c)
  PROVE  /\ tainted \ {"groups"} \subseteq tainted'
         /\ Active(c)
         /\ \A d \in Clients : d # c => req'[d] = req[d]
         /\ DOMAIN req' = Clients
<1>1. tainted \ {"groups"} \subseteq tainted'
  BY DEF bounds, Taint, Heal, Sent, Serve, update_settings, UpdateGlobal, PushPolicy, ListForUpdate,
         UpdateSystemRule, UpdateKillSwitch, SetGlobal, ReadBack, WriteBack,
         InitializePredefinedGroups, initialize_predefined, ChangeMember, reload_rules_quietly
<1>2. req[c].pc # "idle"
  BY DEF At, Serve, update_settings, UpdateGlobal, PushPolicy, ListForUpdate, UpdateSystemRule,
         UpdateKillSwitch, SetGlobal, ReadBack, WriteBack, InitializePredefinedGroups, ChangeMember,
         reload_rules_quietly
<1>3. PICK r : req' = [req EXCEPT ![c] = r]
  BY ServeType
<1> QED
  BY <1>1, <1>2, <1>3 DEF Active, NoReq, ServiceInv, ProcessType

LEMMA StartsFrame ==
  ASSUME ServiceInv, Starts
  PROVE  /\ UNCHANGED <<settings, wanted, req>> /\ Idle /\ Idle'
         /\ {"settings", "twice"} \cap tainted \subseteq tainted'
         /\ Starting /\ exit = "none"
<1>1. UNCHANGED <<settings, wanted, req>>
  BY DEF table, Starts, load_driver, initialize_wfp, ReadSettings, ListSystemRules, StartSystemRule,
     clear_rules, StartPolicy, load_rules_to_driver, StartGroups, StartKillSwitch, StartLimits
<1>2. phase \in Preparing
  BY DEF Preparing, Applying, Starts, load_driver, initialize_wfp, ReadSettings, ListSystemRules, StartSystemRule,
     clear_rules, StartPolicy, load_rules_to_driver, StartGroups, StartKillSwitch, StartLimits
<1>3. Idle /\ Idle' /\ Starting /\ exit = "none"
  BY <1>1, <1>2 DEF ServiceInv, Life, Preparing, Applying, Stopping, Idle, Starting
<1>4. {"settings", "twice"} \cap tainted \subseteq tainted'
  BY DEF Taint, Heal, Applied, Starts, load_driver, initialize_wfp, ReadSettings, ListSystemRules,
     StartSystemRule, clear_rules, StartPolicy, load_rules_to_driver, StartGroups, initialize_predefined,
     StartKillSwitch, StartLimits
<1> QED
  BY <1>1, <1>3, <1>4

LEMMA LivesFrame ==
  ASSUME ServiceInv, Lives
  PROVE  /\ UNCHANGED <<settings, wanted>> /\ tainted \subseteq tainted'
         /\ req' = req \/ Idle'
         /\ Idle => Idle'
         /\ ~Idle => Aspects \ {"groups"} \subseteq tainted'
<1> USE DEF Lives, StartService, Restart, Launch, StopRequested, Stops, StopWfp, clear_kernel,
            unload_driver, Crash, uninstall_service
<1>1. UNCHANGED <<settings, wanted>> /\ tainted \subseteq tainted'
  BY DEF table, Taint
<1>2. (req' = req \/ Idle') /\ (Idle => Idle')
  BY DEF Idle
<1>3. ASSUME ~Idle
      PROVE  Aspects \ {"groups"} \subseteq tainted'
  <2>1. CASE StartService \/ Restart
    BY <1>3, <2>1 DEF ServiceInv, Life, Stopping
  <2>2. CASE StopRequested \/ Crash
    BY <1>3, <2>2 DEF CutOff, Taint
  <2>3. CASE Stops \/ uninstall_service
    <3>1. phase \in Stopping
      BY <1>3, <2>3 DEF Stopping, Starting, ServiceInv, Life
    <3> QED
      BY <1>1, <1>3, <3>1 DEF ServiceInv, OneAtATime, Disturbed, Undisturbed
  <2> QED
    BY <2>1, <2>2, <2>3
<1> QED
  BY <1>1, <1>2, <1>3

LEMMA OneAtATimeKeeps == ServiceInv /\ [ServiceNext]_allvars => OneAtATime'
<1> SUFFICES ASSUME ServiceInv, [ServiceNext]_allvars PROVE OneAtATime'
  OBVIOUS
<1>0. OneAtATime /\ ProcessType
  BY DEF ServiceInv
<1>1. CASE Starts
  BY <1>1, StartsFrame, IdleUndisturbed DEF OneAtATime
<1>2. CASE Lives
  <2>1. CASE Idle'
    BY <2>1, IdleUndisturbed DEF OneAtATime
  <2>2. CASE ~Idle'
    BY <1>0, <1>2, <2>2, LivesFrame DEF OneAtATime, Disturbed, Undisturbed, Active
  <2> QED
    BY <2>1, <2>2
<1>3. CASE \E c \in Clients : Arrive(c)
  <2>1. PICK c \in Clients : Arrive(c)
    BY <1>3
  <2>2. PICK r \in ReqStates : /\ r.pc \in {"save", "setglobal", "predefined", "member"}
                               /\ req' = [req EXCEPT ![c] = r]
    BY <2>1, ArriveType
  <2>3. /\ UNCHANGED <<phase, settings>> /\ phase = "running" /\ tainted' = tainted \cup Overlap(c)
    BY <2>1, ArriveType DEF table
  <2>4. CASE \A o \in Clients \ {c} : req[o] = NoReq
    <3>1. /\ req'[c].pc \in {"save", "setglobal", "predefined", "member"}
          /\ \A o \in Clients \ {c} : req'[o] = NoReq
      BY <1>0, <2>2, <2>4 DEF ProcessType
    <3> QED
      BY <2>3, <3>1 DEF OneAtATime, Undisturbed, Active, Stopping, Saving, NoReq
  <2>5. CASE ~\A o \in Clients \ {c} : req[o] = NoReq
    BY <2>3, <2>5 DEF Overlap, OneAtATime, Disturbed
  <2> QED
    BY <2>4, <2>5
<1>4. CASE \E c \in Clients : Serve(c)
  <2>1. PICK c \in Clients : Serve(c)
    BY <1>4
  <2>2. CASE Disturbed
    BY <2>1, <2>2, ServeFrame DEF OneAtATime, Disturbed
  <2>3. CASE Undisturbed
    <3>1. /\ \A d \in Clients : d # c => req'[d] = NoReq
          /\ phase' = phase /\ phase \notin Stopping
      BY <2>1, <2>3, ServeFrame, ServeType DEF Undisturbed, Idle, Active
    <3>2. /\ req'[c].pc \in Saving => req'[c].want = settings'
          /\ req'[c].pc = "write" => req'[c].want = [settings' EXCEPT !.limit = req'[c].want.limit]
      <4> USE DEF At, Goto, Done, Saving, table, ProcessType
      <4>1. CASE update_settings(c)
        BY <1>0, <2>3, <4>1, ReqShape DEF update_settings, store_settings, NoReq
      <4>2. CASE UpdateGlobal(c) \/ PushPolicy(c)
        BY <1>0, <2>3, <4>2, ReqShape DEF UpdateGlobal, PushPolicy, Undisturbed
      <4>3. CASE ListForUpdate(c) \/ UpdateSystemRule(c)
        BY <1>0, <2>3, <4>3, ReqShape DEF ListForUpdate, UpdateSystemRule, Undisturbed
      <4>4. CASE UpdateKillSwitch(c) \/ WriteBack(c) \/ InitializePredefinedGroups(c) \/ reload_rules_quietly(c)
        BY <1>0, <4>4 DEF UpdateKillSwitch, WriteBack, InitializePredefinedGroups, reload_rules_quietly, NoReq
      <4>5. CASE SetGlobal(c) \/ ChangeMember(c)
        BY <1>0, <4>5, ReqShape DEF SetGlobal, ChangeMember
      <4>6. CASE ReadBack(c)
        BY <1>0, <4>6 DEF ReadBack, NoReq, get_settings, SettingsType
      <4> QED
        BY <2>1, <4>1, <4>2, <4>3, <4>4, <4>5, <4>6 DEF Serve
    <3> QED
      BY <3>1, <3>2 DEF OneAtATime, Undisturbed, Active, NoReq, Saving
  <2> QED
    BY <1>0, <2>2, <2>3 DEF OneAtATime
<1>5. CASE UNCHANGED allvars
  BY <1>0, <1>5 DEF OneAtATime, Disturbed, Undisturbed, Active, Idle, allvars, svars
<1> QED
  BY <1>1, <1>2, <1>3, <1>4, <1>5 DEF ServiceNext, Lives

LEMMA SavedKeeps == ServiceInv /\ [ServiceNext]_allvars => Saved'
<1> SUFFICES ASSUME ServiceInv, [ServiceNext]_allvars PROVE Saved'
  OBVIOUS
<1>0. Saved /\ ProcessType
  BY DEF ServiceInv
<1>1. CASE Starts \/ Lives
  BY <1>0, <1>1, StartsFrame, LivesFrame DEF Saved
<1>2. CASE \E c \in Clients : Arrive(c)
  BY <1>0, <1>2, ArriveType DEF Saved, table
<1>3. CASE \E c \in Clients : Serve(c)
  <2>1. PICK c \in Clients : Serve(c)
    BY <1>3
  <2>2. "settings" \in tainted => "settings" \in tainted'
    BY <2>1, ServeFrame
  <2>3. CASE update_settings(c)
    BY <1>0, <2>2, <2>3 DEF Saved, update_settings, store_settings
  <2>4. CASE WriteBack(c)
    <3>1. "settings" \notin tainted => settings = wanted /\ req[c].want = [settings EXCEPT !.limit = req[c].want.limit]
      BY <2>4 DEF ServiceInv, Saved, OneAtATime, Disturbed, Undisturbed, Aspects, WriteBack, At
    <3> QED
      BY <1>0, <2>2, <2>4, <3>1 DEF Saved, WriteBack, store_settings
  <2>5. CASE ~(update_settings(c) \/ WriteBack(c))
    <3>1. UNCHANGED <<settings, wanted>>
      BY <2>1, <2>5 DEF table, Serve, UpdateGlobal, PushPolicy,
         ListForUpdate, UpdateSystemRule, UpdateKillSwitch, SetGlobal, ReadBack,
         InitializePredefinedGroups, ChangeMember, reload_rules_quietly
    <3> QED
      BY <1>0, <2>2, <3>1 DEF Saved
  <2> QED
    BY <2>3, <2>4, <2>5
<1>4. CASE UNCHANGED allvars
  BY <1>0, <1>4 DEF Saved, allvars, svars
<1> QED
  BY <1>1, <1>2, <1>3, <1>4 DEF ServiceNext, Lives

-----------------------------------------------------------------------------
(* The kill switch, the layers and the limit. *)
LEMMA AsksFrame ==
  ASSUME NEW c \in Clients, NEW pcs, \A d \in Clients : d # c => req'[d] = req[d],
         req[c].pc \in pcs <=> req'[c].pc \in pcs
  PROVE  Asks(pcs)' <=> Asks(pcs)
  BY DEF Asks

LEMMA IdleAsks ==
  ASSUME NEW pcs, "idle" \notin pcs
  PROVE  (Idle => ~Asks(pcs)) /\ (Idle' => ~Asks(pcs)')
  BY DEF Idle, Asks, NoReq

(* A request that comes in is at its beginning. *)
LEMMA ArriveFrame ==
  ASSUME ServiceInv, NEW c \in Clients, Arrive(c), NEW pcs,
         pcs \cap {"idle", "save", "setglobal", "predefined", "member"} = {}
  PROVE  /\ Asks(pcs)' <=> Asks(pcs)
         /\ req'[c].pc \in {"save", "setglobal", "predefined", "member"}
         /\ \A d \in Clients : d # c => req'[d] = req[d]
         /\ tainted \subseteq tainted'
<1>1. PICK r : /\ r.pc \in {"save", "setglobal", "predefined", "member"}
               /\ req' = [req EXCEPT ![c] = r]
  BY ArriveType
<1>2. /\ req'[c].pc \in {"save", "setglobal", "predefined", "member"}
      /\ \A d \in Clients : d # c => req'[d] = req[d]
  BY <1>1 DEF ServiceInv, ProcessType
<1>3. req[c].pc = "idle" /\ tainted \subseteq tainted'
  BY ArriveType DEF NoReq
<1> QED
  BY <1>2, <1>3, AsksFrame

(* A request that no taint follows runs alone in a running service. *)
LEMMA ServeAlone ==
  ASSUME ServiceInv, NEW c \in Clients, Active(c), ~Disturbed
  PROVE  /\ phase = "running" /\ exit = "none" /\ opened
         /\ \A d \in Clients : d # c => req[d] = NoReq
         /\ req[c].pc \in Saving => req[c].want = settings
         /\ req[c].pc = "write" => req[c].want = [settings EXCEPT !.limit = req[c].want.limit]
<1>1. Undisturbed
  BY DEF ServiceInv, OneAtATime
<1>2. phase = "running" /\ exit = "none" /\ opened
  BY <1>1 DEF Undisturbed, ServiceInv, Life, Idle, Active, Starting, Stopping
<1> QED
  BY <1>1, <1>2 DEF Undisturbed, Active

LEMMA KillKeeps == ServiceInv /\ [ServiceNext]_allvars => KillFollows'
<1> SUFFICES ASSUME ServiceInv, [ServiceNext]_allvars PROVE KillFollows'
  OBVIOUS
<1>0. KillFollows /\ ProcessType
  BY DEF ServiceInv
<1>1. CASE Starts
  <2>0. Idle /\ ~Asks(Saving) /\ settings' = settings /\ exit = "none"
    BY <1>1, StartsFrame, IdleAsks DEF Saving
  <2>1. CASE StartKillSwitch
    <3>1. begun.want.protect \in BOOLEAN /\ exit' = "none"
      BY <1>0, <2>0, <2>1 DEF ProcessType, Begun, SettingsType, StartKillSwitch, Then
    <3>2. IF begun.ok THEN begun.want = settings ELSE "kill" \in tainted
      BY <2>1 DEF ServiceInv, Life, StartKillSwitch, Applying
    <3>3. CASE SetKillSwitch(begun.want.protect) /\ Applied("kill")
      <4>1. kill' = begun.want.protect
        BY <3>1, <3>3, KillWritten
      <4> QED
        BY <2>0, <3>1, <3>2, <3>3, <4>1 DEF KillFollows, Applied
    <3>4. CASE Taint({"kill"})
      BY <3>4 DEF KillFollows, Taint
    <3> QED
      BY <2>1, <3>3, <3>4 DEF StartKillSwitch
  <2>2. CASE ~StartKillSwitch
    <3>1. /\ exit' # "gone" /\ kill' = kill /\ ("kill" \in tainted => "kill" \in tainted')
      <4>1. CASE initialize_wfp
        BY <2>0, <4>1, EngineOpened, EngineFailed DEF initialize_wfp, wvars, Taint, Heal, Then, StartFails
      <4>2. CASE ~initialize_wfp
        BY <1>1, <2>0, <2>2, <4>2 DEF wvars, Starts, load_driver, ReadSettings, ListSystemRules, StartSystemRule,
           clear_rules, StartPolicy, load_rules_to_driver, StartGroups, initialize_predefined,
           StartLimits, Taint, Heal, Applied, Then, StartFails
      <4> QED
        BY <4>1, <4>2
    <3> QED
      BY <1>0, <2>0, <3>1 DEF KillFollows
  <2> QED
    BY <2>1, <2>2
<1>2. CASE Lives
  <2>1. CASE ~Idle
    BY <1>2, <2>1, LivesFrame DEF KillFollows, Aspects
  <2>2. CASE Idle
    <3>0. ~Asks(Saving) /\ settings' = settings /\ tainted \subseteq tainted'
      BY <1>2, <2>2, LivesFrame, IdleAsks DEF Saving
    <3>1. CASE uninstall_service
      BY <3>0, <3>1, KillWritten DEF KillFollows, uninstall_service, Taint
    <3>2. CASE ~uninstall_service
      <4>1. kill' = kill
        <5>1. CASE StopWfp
          BY <1>0, <5>1, EngineClosed DEF StopWfp, ProcessType
        <5>2. CASE ~StopWfp
          BY <1>2, <3>2, <5>2 DEF wvars, Lives, StartService, Restart, Launch, StopRequested, Stops,
             clear_kernel, unload_driver, Crash
        <5> QED
          BY <5>1, <5>2
      <4>2. exit' = "gone" <=> exit = "gone"
        BY <1>2, <3>2 DEF Lives, StartService, Restart, Launch, StopRequested, Stops,
             StopWfp, clear_kernel, unload_driver, Crash, Then, ServiceInv, Life
      <4> QED
        BY <1>0, <3>0, <4>1, <4>2 DEF KillFollows
    <3> QED
      BY <3>1, <3>2
  <2> QED
    BY <2>1, <2>2
<1>3. CASE \E c \in Clients : Arrive(c)
  <2>1. PICK c \in Clients : Arrive(c)
    BY <1>3
  <2>2. Asks(Saving)' <=> Asks(Saving)
    BY <2>1, ArriveFrame DEF Saving
  <2> QED
    BY <1>0, <2>1, <2>2, ArriveType DEF KillFollows, table, wvars
<1>4. CASE \E c \in Clients : Serve(c)
  <2>1. PICK c \in Clients : Serve(c)
    BY <1>4
  <2>2. CASE "kill" \in tainted
    BY <2>1, <2>2, ServeFrame DEF KillFollows
  <2>3. CASE "kill" \notin tainted
    <3>0. /\ exit' = exit /\ exit = "none" /\ \A d \in Clients : d # c => req'[d] = req[d]
          /\ req[c].pc \in Saving => req[c].want = settings
          /\ req[c].pc = "write" => req[c].want = [settings EXCEPT !.limit = req[c].want.limit]
      BY <2>1, <2>3, ServeAlone, ServeFrame, ServeType DEF Disturbed, Aspects
    <3> USE DEF At, Goto, Done, NoReq, Saving, table
    <3>1. CASE update_settings(c)
      <4>1. CASE Goto(c, "limit")
        BY <1>0, <4>1 DEF KillFollows, Asks, ProcessType
      <4>2. CASE ~Goto(c, "limit")
        <5>1. UNCHANGED <<settings, kill>> /\ req[c].pc = "save" /\ req'[c].pc = "idle"
          BY <1>0, <3>1, <4>2 DEF update_settings, ProcessType, wvars
        <5>2. Asks(Saving)' <=> Asks(Saving)
          BY <3>0, <5>1, AsksFrame
        <5> QED
          BY <1>0, <2>3, <3>0, <5>1, <5>2 DEF KillFollows
      <4> QED
        BY <4>1, <4>2
    <3>2. CASE UpdateGlobal(c) \/ PushPolicy(c) \/ ListForUpdate(c) \/ UpdateSystemRule(c)
      <4>1. req'[c].pc \in Saving
        <5>1. CASE UpdateSystemRule(c)
          BY <1>0, <5>1, ReqShape DEF UpdateSystemRule, ProcessType
        <5>2. CASE ~UpdateSystemRule(c)
          BY <1>0, <3>2, <5>2, ReqShape DEF UpdateGlobal, PushPolicy, ListForUpdate, ProcessType
        <5> QED
          BY <5>1, <5>2
      <4> QED
        BY <4>1 DEF KillFollows, Asks
    <3>3. CASE UpdateKillSwitch(c)
      <4>1. req[c].want.protect \in BOOLEAN /\ req[c].want = settings
        BY <1>0, <3>0, <3>3, ReqShape DEF UpdateKillSwitch, SettingsType
      <4> QED
        BY <2>3, <3>0, <3>3, <4>1, KillWritten DEF UpdateKillSwitch, KillFollows, Taint
    <3>4. CASE WriteBack(c)
      <4>1. /\ settings'.protect = settings.protect /\ kill' = kill
            /\ req[c].pc = "write" /\ req'[c].pc = "idle"
        BY <1>0, <3>0, <3>4 DEF WriteBack, store_settings, ProcessType, SettingsType, wvars
      <4>2. Asks(Saving)' <=> Asks(Saving)
        BY <3>0, <4>1, AsksFrame
      <4> QED
        BY <1>0, <2>3, <3>0, <4>1, <4>2 DEF KillFollows
    <3>5. CASE SetGlobal(c) \/ ReadBack(c) \/ InitializePredefinedGroups(c) \/ ChangeMember(c) \/ reload_rules_quietly(c)
      <4>1. /\ UNCHANGED <<settings, kill>> /\ req[c].pc \notin Saving /\ req'[c].pc \notin Saving
        <5>1. UNCHANGED <<settings, kill>>
          BY <3>5 DEF SetGlobal, ReadBack, InitializePredefinedGroups, ChangeMember, reload_rules_quietly, wvars
        <5>2. CASE SetGlobal(c) \/ ChangeMember(c)
          BY <1>0, <5>1, <5>2, ReqShape DEF SetGlobal, ChangeMember, ProcessType
        <5>3. CASE ReadBack(c) \/ InitializePredefinedGroups(c) \/ reload_rules_quietly(c)
          BY <1>0, <5>1, <5>3 DEF ReadBack, InitializePredefinedGroups, reload_rules_quietly, ProcessType
        <5> QED
          BY <3>5, <5>2, <5>3
      <4>2. Asks(Saving)' <=> Asks(Saving)
        BY <3>0, <4>1, AsksFrame
      <4> QED
        BY <1>0, <2>3, <3>0, <4>1, <4>2 DEF KillFollows
    <3> QED
      BY <2>1, <3>1, <3>2, <3>3, <3>4, <3>5 DEF Serve
  <2> QED
    BY <2>2, <2>3
<1>5. CASE UNCHANGED allvars
  BY <1>0, <1>5 DEF KillFollows, Asks, allvars, svars, wvars
<1> QED
  BY <1>1, <1>2, <1>3, <1>4, <1>5 DEF ServiceNext, Lives

LEMMA LayersKeep == ServiceInv /\ [ServiceNext]_allvars => LayersFollow'
<1> SUFFICES ASSUME ServiceInv, [ServiceNext]_allvars PROVE LayersFollow'
  OBVIOUS
<1>0. LayersFollow /\ ProcessType
  BY DEF ServiceInv
<1>1. CASE initialize_wfp
  <2>0. engine = FALSE
    BY <1>0, <1>1 DEF initialize_wfp, LayersFollow, ProcessType
  <2>1. CASE InitializeOk(NoLayer, NoLayer) /\ Then("settings")
    BY <2>1, AuthFiltered, EngineOpened DEF LayersFollow, Then
  <2>2. CASE Then("settings") /\ Taint({"layers"}) /\ \E a, b : InitializeOk(a, b)
    BY <2>2, EngineOpened DEF LayersFollow, Then, Taint
  <2>3. CASE StartFails /\ \E a, b : InitializeFails(a, b)
    BY <2>0, <2>3, EngineFailed DEF LayersFollow, StartFails, Applying
  <2>4. CASE StartFails /\ UNCHANGED <<wvars, tainted>>
    BY <1>0, <2>0, <2>4 DEF LayersFollow, StartFails, Applying, wvars
  <2> QED
    BY <1>1, <2>1, <2>2, <2>3, <2>4 DEF initialize_wfp
<1>2. CASE Starts /\ ~initialize_wfp
  <2>1. UNCHANGED <<filters, engine>>
    <3>1. CASE StartKillSwitch
      BY <1>0, <3>1, KillWritten DEF StartKillSwitch, wvars, ProcessType, Begun, SettingsType
    <3>2. CASE ~StartKillSwitch
      BY <1>2, <3>2 DEF wvars, Starts, load_driver, ReadSettings, ListSystemRules, StartSystemRule,
           clear_rules, StartPolicy, load_rules_to_driver, StartGroups, StartLimits
    <3> QED
      BY <3>1, <3>2
  <2>2. "layers" \in tainted => "layers" \in tainted'
    BY <1>2 DEF Starts, load_driver, ReadSettings, ListSystemRules, StartSystemRule,
           clear_rules, StartPolicy, load_rules_to_driver, StartGroups, initialize_predefined,
           StartKillSwitch, StartLimits, Taint, Heal, Applied
  <2>3. \/ phase = "driver" /\ phase' \in {"wfp", "stop"}
        \/ /\ phase \in {"settings", "list"} \cup Applying
           /\ phase' \in {"list", "stop", "running"} \cup Applying
    BY <1>2 DEF Applying, Then, StartFails, Starts, load_driver, ReadSettings, ListSystemRules, StartSystemRule,
           clear_rules, StartPolicy, load_rules_to_driver, StartGroups, StartKillSwitch, StartLimits
  <2> QED
    BY <1>0, <2>1, <2>2, <2>3 DEF LayersFollow, Applying
<1>3. CASE StopWfp
  BY <1>0, <1>3, EngineClosed DEF StopWfp, LayersFollow, ProcessType, Applying, Then, Taint
<1>4. CASE Crash
  BY <1>4 DEF Crash, LayersFollow, Applying, Taint
<1>5. CASE Lives /\ ~StopWfp /\ ~Crash
  <2>1. UNCHANGED <<filters, engine>>
    BY <1>5, KillWritten DEF wvars, Lives, StartService, Restart, Launch, StopRequested, Stops,
       clear_kernel, unload_driver, uninstall_service
  <2>2. "layers" \in tainted => "layers" \in tainted'
    BY <1>5, LivesFrame
  <2>3. \/ phase = "down" /\ phase' = "driver"
        \/ phase' = "stop"
        \/ phase = "kernel" /\ phase' = "close"
        \/ phase = "close" /\ phase' = "down"
        \/ phase' = phase
    BY <1>5 DEF Then, Lives, StartService, Restart, Launch, StopRequested, Stops,
       clear_kernel, unload_driver, uninstall_service
  <2> QED
    BY <1>0, <2>1, <2>2, <2>3 DEF LayersFollow, Applying
<1>6. CASE \E c \in Clients : Arrive(c) \/ Serve(c)
  <2>1. PICK c \in Clients : Arrive(c) \/ Serve(c)
    BY <1>6
  <2>2. phase' = phase /\ ("layers" \in tainted => "layers" \in tainted')
    BY <2>1, ArriveType, ServeType, ServeFrame
  <2>3. UNCHANGED <<filters, engine>>
    <3>1. CASE UpdateKillSwitch(c)
      <4>1. req[c].want.protect \in BOOLEAN
        BY <1>0, <3>1, ReqShape DEF UpdateKillSwitch, At, SettingsType
      <4> QED
        BY <3>1, <4>1, KillWritten DEF UpdateKillSwitch, wvars
    <3>2. CASE ~UpdateKillSwitch(c)
      BY <2>1, <3>2 DEF wvars, Arrive, Serve, update_settings, WriteBack, UpdateGlobal, PushPolicy, SetGlobal,
         ListForUpdate, UpdateSystemRule, ReadBack, InitializePredefinedGroups, ChangeMember,
         reload_rules_quietly
    <3> QED
      BY <3>1, <3>2
  <2> QED
    BY <1>0, <2>2, <2>3 DEF LayersFollow
<1>7. CASE UNCHANGED allvars
  BY <1>0, <1>7 DEF LayersFollow, allvars, svars, wvars
<1> QED
  BY <1>1, <1>2, <1>3, <1>4, <1>5, <1>6, <1>7 DEF ServiceNext, Lives

LEMMA LimitKeeps == ServiceInv /\ [ServiceNext]_allvars => LimitFollows'
<1> SUFFICES ASSUME ServiceInv, [ServiceNext]_allvars PROVE LimitFollows'
  OBVIOUS
<1>0. LimitFollows /\ ProcessType
  BY DEF ServiceInv
<1>1. CASE Starts
  <2>0. /\ \A c \in Clients : req'[c].pc = "idle"
        /\ settings' = settings
    BY <1>1, StartsFrame DEF Idle, NoReq
  <2>1. CASE StartLimits
    <3>1. CASE limit' = settings.limit
      <4>1. phase' = "running" /\ opened'
        BY <2>1 DEF ServiceInv, Life, StartLimits, Then, Applying
      <4> QED
        BY <2>0, <3>1, <4>1 DEF LimitFollows, Preparing, Applying
    <3>2. CASE limit' # settings.limit
      BY <2>1, <3>2 DEF StartLimits, get_settings, Taint, LimitFollows
    <3> QED
      BY <3>1, <3>2
  <2>2. CASE ~StartLimits
    <3>1. limit' = limit /\ phase \in Preparing /\ phase' \in {"stop"} \cup Preparing
      BY <1>1, <2>2 DEF Starts, load_driver, initialize_wfp, ReadSettings, ListSystemRules, StartSystemRule,
         clear_rules, StartPolicy, load_rules_to_driver, StartGroups, StartKillSwitch, driver,
         Then, StartFails, Preparing, Applying
    <3>2. "limit" \in tainted => "limit" \in tainted'
      BY <1>1, <2>2 DEF Starts, load_driver, initialize_wfp, ReadSettings, ListSystemRules, StartSystemRule,
         clear_rules, StartPolicy, load_rules_to_driver, StartGroups, initialize_predefined, StartKillSwitch,
         Taint, Heal, Applied
    <3>3. phase' # "running"
      BY <3>1 DEF Preparing, Applying
    <3> QED
      BY <1>0, <3>1, <3>2, <3>3 DEF LimitFollows
  <2> QED
    BY <2>1, <2>2
<1>2. CASE Lives
  <2>1. CASE "limit" \in tainted'
    BY <2>1 DEF LimitFollows
  <2>2. CASE "limit" \notin tainted'
    <3>0. "limit" \notin tainted /\ Idle
      BY <1>2, <2>2, LivesFrame DEF Aspects
    <3>1. CASE StartService \/ Restart
      BY <1>0, <3>0, <3>1 DEF StartService, Restart, Launch, LimitFollows, driver, ServiceInv, Life
    <3>2. CASE StopRequested
      BY <1>0, <3>0, <3>2 DEF StopRequested, LimitFollows, driver, Preparing, Applying
    <3>3. CASE StopWfp
      BY <1>0, <3>0, <3>3 DEF StopWfp, Then, LimitFollows, driver, Preparing, Applying
    <3>4. CASE clear_kernel
      BY <1>0, <2>2, <3>0, <3>4 DEF clear_kernel, Then, Taint, LimitFollows, ProcessType
    <3>5. CASE unload_driver
      BY <1>0, <3>0, <3>5 DEF unload_driver, Then, LimitFollows
    <3>6. CASE Crash
      BY <2>2, <3>6 DEF Crash, Taint
    <3>7. CASE uninstall_service
      BY <1>0, <3>0, <3>7 DEF uninstall_service, driver, Starting, LimitFollows
    <3> QED
      BY <1>2, <3>1, <3>2, <3>3, <3>4, <3>5, <3>6, <3>7 DEF Lives, Stops
  <2> QED
    BY <2>1, <2>2
<1>3. CASE \E c \in Clients : Arrive(c)
  <2>1. PICK c \in Clients : Arrive(c)
    BY <1>3
  <2>2. /\ Asks({"limit", "read", "write"})' <=> Asks({"limit", "read", "write"})
        /\ req'[c].pc \in {"save", "setglobal", "predefined", "member"}
        /\ \A d \in Clients : d # c => req'[d] = req[d]
        /\ tainted \subseteq tainted'
    <3> DEFINE pcs == {"limit", "read", "write"}
    <3>1. pcs \cap {"idle", "save", "setglobal", "predefined", "member"} = {}
      OBVIOUS
    <3> HIDE DEF pcs
    <3>2. /\ Asks(pcs)' <=> Asks(pcs)
          /\ req'[c].pc \in {"save", "setglobal", "predefined", "member"}
          /\ \A d \in Clients : d # c => req'[d] = req[d]
          /\ tainted \subseteq tainted'
      BY <2>1, <3>1, ArriveFrame
    <3> QED
      BY <3>2 DEF pcs
  <2>3. UNCHANGED <<phase, limit, opened, settings>>
    BY <2>1, ArriveType DEF table, driver
  <2> QED
    BY <1>0, <2>2, <2>3 DEF LimitFollows
<1>4. CASE \E c \in Clients : Serve(c)
  <2>1. PICK c \in Clients : Serve(c)
    BY <1>4
  <2>2. CASE "limit" \in tainted
    BY <2>1, <2>2, ServeFrame DEF LimitFollows
  <2>3. CASE "limit" \notin tainted
    <3>0. /\ phase' = "running" /\ opened' /\ opened
          /\ \A d \in Clients : d # c => req'[d] = NoReq /\ req[d] = NoReq
          /\ req[c].pc \in Saving => req[c].want = settings
          /\ req[c].pc = "write" => req[c].want = [settings EXCEPT !.limit = req[c].want.limit]
          /\ phase = "running"
      BY <2>1, <2>3, ServeAlone, ServeFrame, ServeType DEF Disturbed, Aspects
    <3>1. SUFFICES ASSUME "limit" \notin tainted'
                   PROVE  /\ req'[c].pc = "read" => limit' = req'[c].on
                          /\ req'[c].pc = "write" => limit' = req'[c].want.limit
                          /\ req'[c].pc \in {"limit", "read", "write"} \/ limit' = settings'.limit
      BY <3>0 DEF LimitFollows, NoReq, Preparing, Applying, Asks
    <3>2. /\ req[c].pc = "read" => limit = req[c].on
          /\ req[c].pc = "write" => limit = req[c].want.limit
          /\ req[c].pc \in {"limit", "read", "write"} \/ limit = settings.limit
      BY <1>0, <2>3, <3>0 DEF LimitFollows, Asks, NoReq
    <3> USE DEF At, Goto, Done, NoReq, table, driver
    <3>3. CASE update_settings(c)
      BY <1>0, <3>2, <3>3, ReqShape DEF update_settings, ProcessType
    <3>4. CASE UpdateGlobal(c)
      <4>1. limit' = req[c].want.limit /\ settings' = settings /\ req[c].want = settings
        BY <3>0, <3>1, <3>4 DEF UpdateGlobal, Taint, Saving
      <4>2. req'[c].pc = "policy"
        BY <1>0, <3>4, ReqShape DEF UpdateGlobal, ProcessType
      <4> QED
        BY <4>1, <4>2
    <3>5. CASE PushPolicy(c) \/ ListForUpdate(c) \/ UpdateSystemRule(c) \/ UpdateKillSwitch(c)
      <4>1. UNCHANGED <<limit, settings>> /\ req[c].pc \notin {"limit", "read", "write"}
        BY <3>5 DEF PushPolicy, ListForUpdate, UpdateSystemRule, UpdateKillSwitch
      <4>2. req'[c].pc \notin {"read", "write"}
        <5>1. CASE UpdateSystemRule(c)
          BY <1>0, <5>1, ReqShape DEF UpdateSystemRule, ProcessType
        <5>2. CASE ~UpdateSystemRule(c)
          BY <1>0, <3>5, <5>2, ReqShape DEF PushPolicy, ListForUpdate, UpdateKillSwitch, ProcessType
        <5> QED
          BY <5>1, <5>2
      <4> QED
        BY <3>2, <4>1, <4>2
    <3>6. CASE SetGlobal(c)
      <4>1. limit' = req[c].on
        BY <3>0, <3>1, <3>6 DEF SetGlobal, Taint
      <4>2. req'[c].pc = "read" /\ req'[c].on = req[c].on
        BY <1>0, <3>6, ReqShape DEF SetGlobal, ProcessType
      <4> QED
        BY <4>1, <4>2
    <3>7. CASE ReadBack(c)
      BY <1>0, <3>1, <3>2, <3>7 DEF ReadBack, Taint, ProcessType, SettingsType, get_settings
    <3>8. CASE WriteBack(c)
      BY <1>0, <3>1, <3>2, <3>8 DEF WriteBack, Taint, ProcessType, store_settings
    <3>9. CASE InitializePredefinedGroups(c) \/ ChangeMember(c) \/ reload_rules_quietly(c)
      <4>1. UNCHANGED <<limit, settings>> /\ req[c].pc \notin {"limit", "read", "write"}
        BY <3>9 DEF InitializePredefinedGroups, ChangeMember, reload_rules_quietly
      <4>2. req'[c].pc \notin {"read", "write"}
        BY <1>0, <3>9, ReqShape DEF InitializePredefinedGroups, ChangeMember, reload_rules_quietly, ProcessType
      <4> QED
        BY <3>2, <4>1, <4>2
    <3> QED
      BY <2>1, <3>3, <3>4, <3>5, <3>6, <3>7, <3>8, <3>9 DEF Serve
  <2> QED
    BY <2>2, <2>3
<1>5. CASE UNCHANGED allvars
  BY <1>0, <1>5 DEF LimitFollows, Asks, allvars, svars
<1> QED
  BY <1>1, <1>2, <1>3, <1>4, <1>5 DEF ServiceNext, Lives

LEMMA PolicyKeeps == ServiceInv /\ [ServiceNext]_allvars => PolicyFollows'
<1> SUFFICES ASSUME ServiceInv, [ServiceNext]_allvars PROVE PolicyFollows'
  OBVIOUS
<1>0. PolicyFollows /\ ProcessType
  BY DEF ServiceInv
<1>1. CASE Starts
  <2>0. settings' = settings /\ ~Asks({"limit", "policy"})
    BY <1>1, StartsFrame, IdleAsks
  <2>1. CASE StartPolicy
    <3>1. IF begun.ok THEN begun.want = settings ELSE "policy" \in tainted
      BY <2>1 DEF ServiceInv, Life, StartPolicy, Applying
    <3> QED
      BY <2>0, <2>1, <3>1 DEF StartPolicy, PolicyFollows, Applied, StartFails
  <2>2. CASE ~StartPolicy
    <3>1. policy' = policy /\ ("policy" \in tainted => "policy" \in tainted')
      BY <1>1, <2>2 DEF Starts, load_driver, initialize_wfp, ReadSettings, ListSystemRules, StartSystemRule,
         clear_rules, load_rules_to_driver, StartGroups, initialize_predefined, StartKillSwitch, StartLimits,
         driver, Taint, Heal, Applied
    <3>2. \/ phase' \notin {"load", "groups", "kill", "limits", "running"}
          \/ phase \in {"load", "groups", "kill", "limits", "running"}
      BY <1>1, <2>2 DEF Starts, load_driver, initialize_wfp, ReadSettings, ListSystemRules, StartSystemRule,
         clear_rules, load_rules_to_driver, StartGroups, StartKillSwitch, StartLimits, Then, StartFails
    <3> QED
      BY <1>0, <2>0, <3>1, <3>2 DEF PolicyFollows
  <2> QED
    BY <2>1, <2>2
<1>2. CASE Lives
  <2>1. phase' \notin {"load", "groups", "kill", "limits", "running"}
    BY <1>2 DEF Lives, StartService, Restart, Launch, StopRequested, Stops, StopWfp, clear_kernel,
       unload_driver, Crash, uninstall_service, Starting, Then
  <2> QED
    BY <2>1 DEF PolicyFollows
<1>3. CASE \E c \in Clients : Arrive(c)
  <2>1. PICK c \in Clients : Arrive(c)
    BY <1>3
  <2>2. (Asks({"limit", "policy"})' <=> Asks({"limit", "policy"})) /\ tainted \subseteq tainted'
    BY <2>1, ArriveFrame
  <2>3. UNCHANGED <<phase, policy, settings>>
    BY <2>1, ArriveType DEF table, driver
  <2> QED
    BY <1>0, <2>2, <2>3 DEF PolicyFollows
<1>4. CASE \E c \in Clients : Serve(c)
  <2>1. PICK c \in Clients : Serve(c)
    BY <1>4
  <2>2. CASE "policy" \in tainted
    BY <2>1, <2>2, ServeFrame DEF PolicyFollows
  <2>3. CASE "policy" \notin tainted
    <3>0. /\ phase' = "running" /\ phase = "running" /\ opened
          /\ \A d \in Clients : d # c => req'[d] = NoReq /\ req[d] = NoReq
          /\ req[c].pc \in Saving => req[c].want = settings
          /\ req[c].pc = "write" => req[c].want = [settings EXCEPT !.limit = req[c].want.limit]
      BY <2>1, <2>3, ServeAlone, ServeFrame, ServeType DEF Disturbed, Aspects
    <3>1. SUFFICES ASSUME "policy" \notin tainted'
                   PROVE  req'[c].pc \in {"limit", "policy"} \/ policy' = settings'.allow
      BY <3>0 DEF PolicyFollows, Asks
    <3>2. req[c].pc \in {"limit", "policy"} \/ policy = settings.allow
      BY <1>0, <2>3, <3>0 DEF PolicyFollows, Asks, NoReq
    <3> USE DEF At, Goto, Done, table, driver
    <3>3. CASE update_settings(c)
      BY <1>0, <3>2, <3>3, ReqShape DEF update_settings, ProcessType
    <3>4. CASE UpdateGlobal(c)
      BY <1>0, <3>4, ReqShape DEF UpdateGlobal, ProcessType
    <3>5. CASE PushPolicy(c)
      BY <3>0, <3>1, <3>5 DEF PushPolicy, Taint, Saving
    <3>6. CASE WriteBack(c)
      BY <1>0, <3>0, <3>2, <3>6 DEF WriteBack, store_settings, ProcessType, SettingsType
    <3>7. CASE ~(update_settings(c) \/ UpdateGlobal(c) \/ PushPolicy(c) \/ WriteBack(c))
      <4>1. UNCHANGED <<policy, settings>> /\ req[c].pc \notin {"limit", "policy"}
        BY <2>1, <3>7 DEF Serve, ListForUpdate, UpdateSystemRule, UpdateKillSwitch, SetGlobal, ReadBack,
           InitializePredefinedGroups, ChangeMember, reload_rules_quietly
      <4> QED
        BY <3>2, <4>1
    <3> QED
      BY <2>1, <3>3, <3>4, <3>5, <3>6, <3>7
  <2> QED
    BY <2>2, <2>3
<1>5. CASE UNCHANGED allvars
  BY <1>0, <1>5 DEF PolicyFollows, Asks, allvars, svars
<1> QED
  BY <1>1, <1>2, <1>3, <1>4, <1>5 DEF ServiceNext, Lives

LEMMA GroupsKeep == ServiceInv /\ [ServiceNext]_allvars => GroupsFollow'
<1> SUFFICES ASSUME ServiceInv, [ServiceNext]_allvars PROVE GroupsFollow'
  OBVIOUS
<1>0. GroupsFollow /\ ProcessType
  BY DEF ServiceInv
<1>1. CASE Starts
  <2>0. ~Asks({"reload"})
    BY <1>1, StartsFrame, IdleAsks
  <2>1. CASE load_rules_to_driver
    BY <2>1 DEF load_rules_to_driver, table, GroupsFollow, StartFails
  <2>2. CASE StartGroups
    BY <1>0, <2>0, <2>2 DEF StartGroups, initialize_predefined, driver, GroupsFollow, Taint
  <2>3. CASE ~(load_rules_to_driver \/ StartGroups)
    <3>1. \/ phase' \notin {"groups", "kill", "limits", "running"}
          \/ /\ phase \in {"groups", "kill", "limits", "running"}
             /\ UNCHANGED <<members, expanded>> /\ ("groups" \in tainted => "groups" \in tainted')
      BY <1>1, <2>3 DEF Starts, load_driver, initialize_wfp, ReadSettings, ListSystemRules, StartSystemRule,
         clear_rules, StartPolicy, StartKillSwitch, StartLimits, driver, table, Taint, Heal, Applied,
         Then, StartFails
    <3> QED
      BY <1>0, <2>0, <3>1 DEF GroupsFollow
  <2> QED
    BY <2>1, <2>2, <2>3
<1>2. CASE Lives
  <2>1. phase' \notin {"groups", "kill", "limits", "running"}
    BY <1>2 DEF Lives, StartService, Restart, Launch, StopRequested, Stops, StopWfp, clear_kernel,
       unload_driver, Crash, uninstall_service, Starting, Then
  <2> QED
    BY <2>1 DEF GroupsFollow
<1>3. CASE \E c \in Clients : Arrive(c)
  <2>1. PICK c \in Clients : Arrive(c)
    BY <1>3
  <2>2. (Asks({"reload"})' <=> Asks({"reload"})) /\ tainted \subseteq tainted'
    BY <2>1, ArriveFrame
  <2>3. UNCHANGED <<phase, members, expanded>>
    BY <2>1, ArriveType DEF table, driver
  <2> QED
    BY <1>0, <2>2, <2>3 DEF GroupsFollow
<1>4. CASE \E c \in Clients : Serve(c)
  <2>1. PICK c \in Clients : Serve(c)
    BY <1>4
  <2>2. phase' = phase /\ \A d \in Clients : d # c => req'[d] = req[d]
    BY <2>1, ServeFrame, ServeType
  <2> USE DEF At, Goto, Done, table, driver
  <2>3. CASE ChangeMember(c)
    <3>1. req'[c].pc = "reload"
      BY <1>0, <2>3, ReqShape DEF ChangeMember, ProcessType
    <3> QED
      BY <3>1 DEF GroupsFollow, Asks
  <2>4. CASE reload_rules_quietly(c)
    BY <2>4 DEF reload_rules_quietly, GroupsFollow, Taint
  <2>5. CASE InitializePredefinedGroups(c)
    <3>1. req[c].pc = "predefined" /\ req'[c].pc = "idle"
      BY <1>0, <2>5 DEF InitializePredefinedGroups, ProcessType, NoReq
    <3>2. Asks({"reload"})' <=> Asks({"reload"})
      BY <2>2, <3>1, AsksFrame
    <3> QED
      BY <1>0, <2>2, <2>5, <3>2 DEF InitializePredefinedGroups, initialize_predefined, GroupsFollow, Taint
  <2>6. CASE ~(ChangeMember(c) \/ reload_rules_quietly(c) \/ InitializePredefinedGroups(c))
    <3>1. UNCHANGED <<members, expanded>>
      BY <2>1, <2>6 DEF Serve, update_settings, UpdateGlobal, PushPolicy, ListForUpdate, UpdateSystemRule,
         UpdateKillSwitch, SetGlobal, ReadBack, WriteBack
    <3>2. "groups" \in tainted => "groups" \in tainted'
      BY <2>1, <2>6 DEF Serve, update_settings, UpdateGlobal, PushPolicy, ListForUpdate, UpdateSystemRule,
         UpdateKillSwitch, SetGlobal, ReadBack, WriteBack, Taint, Sent
    <3>3. req[c].pc # "reload" /\ req'[c].pc # "reload"
      <4>1. CASE update_settings(c) \/ UpdateGlobal(c) \/ PushPolicy(c) \/ ListForUpdate(c)
        BY <1>0, <4>1, ReqShape DEF update_settings, UpdateGlobal, PushPolicy, ListForUpdate, ProcessType, NoReq
      <4>2. CASE UpdateSystemRule(c) \/ SetGlobal(c)
        BY <1>0, <4>2, ReqShape DEF UpdateSystemRule, SetGlobal, ProcessType
      <4>3. CASE UpdateKillSwitch(c) \/ ReadBack(c) \/ WriteBack(c)
        BY <1>0, <4>3 DEF UpdateKillSwitch, ReadBack, WriteBack, ProcessType, NoReq
      <4> QED
        BY <2>1, <2>6, <4>1, <4>2, <4>3 DEF Serve
    <3>4. Asks({"reload"})' <=> Asks({"reload"})
      BY <2>2, <3>3, AsksFrame
    <3> QED
      BY <1>0, <2>2, <3>1, <3>2, <3>4 DEF GroupsFollow
  <2> QED
    BY <2>3, <2>4, <2>5, <2>6
<1>5. CASE UNCHANGED allvars
  BY <1>0, <1>5 DEF GroupsFollow, Asks, allvars, svars
<1> QED
  BY <1>1, <1>2, <1>3, <1>4, <1>5 DEF ServiceNext, Lives

-----------------------------------------------------------------------------
(* The table and the system rules. *)
LEMMA ItemKinds ==
  ASSUME NEW item \in Items
  PROVE  \/ item[1] = "add" /\ item[2] \in Defs /\ item = <<"add", item[2]>>
         \/ item[1] = "move" /\ item = <<"move", item[2]>>
         \/ item[1] = "delete" /\ item = <<"delete", item[2]>>
  BY DEF Items

(* What carrying out an item leaves in the table. *)
LEMMA RuleAdded ==
  ASSUME RowsType, NEW item \in Items, item[1] = "add", SystemStep(item)
  PROVE  /\ DOMAIN rows' = DOMAIN rows \cup {next_id} /\ next_id \notin DOMAIN rows
         /\ rows'[next_id].name = item[2] /\ rows'[next_id].path = "full"
         /\ DOMAIN rows'[next_id] = {"name", "path", "enabled"}
         /\ \A i \in DOMAIN rows : rows'[i] = rows[i]
         /\ next_id' = next_id + 1
         /\ opened => loaded' = loaded \cup {next_id}
  BY DEF SystemStep, With, RowsType

LEMMA RuleMoved ==
  ASSUME RowsType, NEW item \in Items, item[1] = "move", SystemStep(item)
  PROVE  /\ DOMAIN rows' = DOMAIN rows
         /\ \A i \in DOMAIN rows :
              /\ rows'[i].name = rows[i].name /\ rows'[i].enabled = rows[i].enabled
              /\ DOMAIN rows'[i] = {"name", "path", "enabled"}
              /\ rows'[i].path = IF i = item[2] THEN "full" ELSE rows[i].path
         /\ UNCHANGED <<next_id, loaded>>
  BY DEF SystemStep, With, RowsType, Migrated

LEMMA RuleDeleted ==
  ASSUME RowsType, NEW item \in Items, item[1] = "delete", SystemStep(item)
  PROVE  /\ DOMAIN rows' = DOMAIN rows \ {item[2]}
         /\ \A i \in DOMAIN rows' : rows'[i] = rows[i]
         /\ next_id' = next_id
         /\ opened => loaded' = loaded \ {item[2]}
  BY DEF SystemStep, RowsType

LEMMA StepRowsType ==
  ASSUME RowsType, NEW item \in Items, SystemStep(item)
  PROVE  RowsType'
<1>1. CASE item[1] = "add"
  <2>1. /\ DOMAIN rows' = DOMAIN rows \cup {next_id}
        /\ rows'[next_id].path = "full" /\ DOMAIN rows'[next_id] = {"name", "path", "enabled"}
        /\ \A i \in DOMAIN rows : rows'[i] = rows[i]
        /\ next_id' = next_id + 1
    BY <1>1, RuleAdded
  <2> QED
    BY <2>1 DEF RowsType, SystemIds
<1>2. CASE item[1] = "move"
  BY <1>2, RuleMoved DEF RowsType, SystemIds
<1>3. CASE item[1] = "delete"
  BY ZenonT(60), <1>3, RuleDeleted DEF RowsType, SystemIds
<1> QED
  BY <1>1, <1>2, <1>3, ItemKinds

(* A definition that is installed when no rule of its name is there has one. *)
LEMMA StepSingle ==
  ASSUME RowsType, NEW work \in SUBSET Items, NEW item \in work, SystemStep(item),
         Single(rows), Unlisted(rows, work)
  PROVE  Single(rows') /\ Unlisted(rows', work \ {item})
<1>1. CASE item[1] = "add"
  <2>1. item[2] \in Defs /\ Named(rows, item[2]) = {} /\ item = <<"add", item[2]>>
    BY <1>1, ItemKinds DEF Unlisted
  <2>0. /\ DOMAIN rows' = DOMAIN rows \cup {next_id} /\ rows'[next_id].name = item[2]
        /\ \A i \in DOMAIN rows : rows'[i] = rows[i]
    BY <1>1, RuleAdded
  <2>2. Named(rows', item[2]) = {next_id}
    BY <2>0, <2>1 DEF Named
  <2>3. \A d \in Defs : d # item[2] => Named(rows', d) = Named(rows, d)
    BY <2>0 DEF Named
  <2>4. Single(rows')
    BY <2>2, <2>3 DEF Single
  <2>5. ASSUME NEW d \in Defs, <<"add", d>> \in work \ {item} PROVE Named(rows', d) = {}
    BY <2>1, <2>3, <2>5 DEF Unlisted
  <2> QED
    BY <2>4, <2>5 DEF Unlisted
<1>2. CASE item[1] = "move"
  <2>1. \A d \in Defs : Named(rows', d) = Named(rows, d)
    BY <1>2, RuleMoved DEF Named
  <2> QED
    BY <2>1 DEF Single, Unlisted
<1>3. CASE item[1] = "delete"
  <2>1. \A d \in Defs : Named(rows', d) \subseteq Named(rows, d)
    BY <1>3, RuleDeleted DEF Named
  <2> QED
    BY <2>1 DEF Single, Unlisted
<1> QED
  BY <1>1, <1>2, <1>3, ItemKinds

(* Each item done leaves the others to be done. *)
LEMMA StepTodo ==
  ASSUME RowsType, NEW work \in SUBSET Items, NEW item \in work, SystemStep(item),
         NEW want, Todo(want, rows, work)
  PROVE  Todo(want, rows', work \ {item})
<1>1. CASE item[1] = "add"
  <2>0. /\ DOMAIN rows' = DOMAIN rows \cup {next_id}
        /\ rows'[next_id].name = item[2] /\ rows'[next_id].path = "full"
        /\ \A i \in DOMAIN rows : rows'[i] = rows[i]
    BY <1>1, RuleAdded
  <2>1. want.system /\ item[2] \in Defs /\ item = <<"add", item[2]>>
    BY <1>1, ItemKinds DEF Todo
  <2>2. CASE ~want.allow
    <3>1. ASSUME NEW d \in Defs PROVE Named(rows', d) # {} \/ <<"add", d>> \in work \ {item}
      <4>1. CASE d = item[2]
        <5>1. next_id \in Named(rows', d)
          BY <2>0, <4>1 DEF Named
        <5> QED
          BY <5>1
      <4>2. CASE d # item[2]
        <5>1. Named(rows, d) \subseteq Named(rows', d)
          BY <2>0 DEF Named
        <5>2. <<"add", d>> # item
          BY <2>1, <4>2
        <5> QED
          BY <2>1, <2>2, <5>1, <5>2 DEF Todo
      <4> QED
        BY <4>1, <4>2
    <3>2. \A i \in SystemIds(rows') : rows'[i].path = "full" \/ <<"move", i>> \in work \ {item}
      <4>1. \A i \in SystemIds(rows') : i = next_id \/ i \in SystemIds(rows)
        BY <2>0 DEF SystemIds
      <4>2. \A i \in SystemIds(rows) : rows'[i] = rows[i]
        BY <2>0 DEF SystemIds
      <4>3. \A i : <<"move", i>> # item
        BY <2>1
      <4> QED
        BY <2>0, <2>1, <2>2, <4>1, <4>2, <4>3 DEF Todo
    <3> QED
      BY <2>1, <2>2, <3>1, <3>2 DEF Todo
  <2> QED
    BY <2>1, <2>2 DEF Todo
<1>2. CASE item[1] = "move"
  <2>1. /\ \A d : Named(rows', d) = Named(rows, d)
        /\ SystemIds(rows') = SystemIds(rows)
        /\ \A i \in SystemIds(rows) : rows'[i].path = IF i = item[2] THEN "full" ELSE rows[i].path
    BY <1>2, RuleMoved DEF Named, SystemIds
  <2>2. item = <<"move", item[2]>>
    BY <1>2, ItemKinds
  <2>3. /\ \A d : <<"add", d>> # item /\ <<"delete", d>> # item
        /\ \A i : i # item[2] => <<"move", i>> # item
    BY <2>2
  <2> QED
    BY <2>1, <2>3 DEF Todo
<1>3. CASE item[1] = "delete"
  <2>1. ~(~want.allow /\ want.system) /\ item = <<"delete", item[2]>>
    BY <1>3, ItemKinds DEF Todo
  <2>2. SystemIds(rows') = SystemIds(rows) \ {item[2]}
    BY <1>3, RuleDeleted DEF SystemIds
  <2>3. \A i : i # item[2] => <<"delete", i>> # item
    BY <2>1
  <2> QED
    BY <2>1, <2>2, <2>3 DEF Todo
<1> QED
  BY <1>1, <1>2, <1>3, ItemKinds

LEMMA StepInDriver ==
  ASSUME RowsType, NEW item \in Items, SystemStep(item), opened, InDriver(rows, loaded)
  PROVE  InDriver(rows', loaded')
<1>1. CASE item[1] = "add"
  BY <1>1, RuleAdded DEF InDriver, SystemIds
<1>2. CASE item[1] = "move"
  BY <1>2, RuleMoved DEF InDriver, SystemIds
<1>3. CASE item[1] = "delete"
  BY <1>3, RuleDeleted DEF InDriver, SystemIds
<1> QED
  BY <1>1, <1>2, <1>3, ItemKinds

(* A listing finds everything there is to do. *)
LEMMA ListedTodo ==
  ASSUME RowsType, NEW want
  PROVE  /\ Todo(want, rows, SystemWork(want, rows))
         /\ Unlisted(rows, SystemWork(want, rows))
<1>1. \A d, e, i : <<"add", d>> # <<"move", i>> /\ <<"add", d>> # <<"delete", i>>
  OBVIOUS
<1>2. Unlisted(rows, SystemWork(want, rows))
  BY <1>1 DEF Unlisted, SystemWork, ensure_installed, remove_all, Missing
<1>3. CASE ~want.allow /\ want.system
  <2>1. SystemWork(want, rows) = ensure_installed(rows)
    BY <1>3 DEF SystemWork
  <2>2. \A d \in Defs : Named(rows, d) # {} \/ <<"add", d>> \in ensure_installed(rows)
    BY DEF ensure_installed, Missing
  <2>3. \A i \in SystemIds(rows) : rows[i].path = "full" \/ <<"move", i>> \in ensure_installed(rows)
    BY DEF ensure_installed, Outdated, RowsType, Named
  <2>4. \A item \in ensure_installed(rows) : item[1] # "delete"
    BY DEF ensure_installed
  <2> QED
    BY <1>2, <1>3, <2>1, <2>2, <2>3, <2>4 DEF Todo
<1>4. CASE ~want.system
  <2>1. SystemWork(want, rows) = remove_all(rows)
    BY <1>4 DEF SystemWork
  <2>2. \A item \in remove_all(rows) : item[1] # "add"
    BY DEF remove_all
  <2> QED
    BY <1>2, <1>4, <2>1, <2>2 DEF Todo, remove_all
<1>5. CASE want.allow /\ want.system
  BY <1>2, <1>5 DEF Todo
<1> QED
  BY <1>3, <1>4, <1>5

(* Only these two steps write the rules of the table. *)
LEMMA RowsFrame ==
  ASSUME ServiceInv, [ServiceNext]_allvars
  PROVE  \/ UNCHANGED <<rows, next_id>>
         \/ StartSystemRule /\ \E item \in begun.work : SystemStep(item)
         \/ \E c \in Clients : UpdateSystemRule(c) /\ \E item \in req[c].work : SystemStep(item)
<1> USE DEF table
<1>1. CASE StartSystemRule
  BY <1>1 DEF StartSystemRule
<1>2. CASE Starts /\ ~StartSystemRule
  BY <1>2 DEF Starts, load_driver, initialize_wfp, ReadSettings, ListSystemRules,
     clear_rules, StartPolicy, load_rules_to_driver, StartGroups, StartKillSwitch, StartLimits
<1>3. CASE Lives
  BY <1>3 DEF Lives, StartService, Restart, Launch, StopRequested, Stops, StopWfp, clear_kernel,
     unload_driver, Crash, uninstall_service
<1>4. CASE \E c \in Clients : UpdateSystemRule(c)
  BY <1>4 DEF UpdateSystemRule
<1>5. CASE \E c \in Clients : (Arrive(c) \/ Serve(c)) /\ ~UpdateSystemRule(c)
  BY <1>5 DEF Arrive, Serve, update_settings, UpdateGlobal, PushPolicy, ListForUpdate,
     UpdateKillSwitch, SetGlobal, ReadBack, WriteBack, InitializePredefinedGroups, ChangeMember,
     reload_rules_quietly
<1>6. CASE UNCHANGED allvars
  BY <1>6 DEF allvars, svars
<1> QED
  BY <1>1, <1>2, <1>3, <1>4, <1>5, <1>6 DEF ServiceNext, Lives

LEMMA RowsKeep == ServiceInv /\ [ServiceNext]_allvars => RowsType'
<1> SUFFICES ASSUME ServiceInv, [ServiceNext]_allvars PROVE RowsType'
  OBVIOUS
<1>0. RowsType /\ begun.work \subseteq Items
  BY DEF ServiceInv, ProcessType, Begun
<1>1. CASE UNCHANGED <<rows, next_id>>
  BY <1>0, <1>1 DEF RowsType, SystemIds
<1>2. CASE StartSystemRule /\ \E item \in begun.work : SystemStep(item)
  BY <1>0, <1>2, StepRowsType
<1>3. ASSUME NEW c \in Clients, UpdateSystemRule(c), NEW item \in req[c].work, SystemStep(item)
      PROVE  RowsType'
  <2>1. req[c].work \subseteq Items
    BY <1>3, ReqShape DEF ServiceInv, UpdateSystemRule, At
  <2> QED
    BY <1>0, <1>3, <2>1, StepRowsType
<1> QED
  BY <1>1, <1>2, <1>3, RowsFrame

LEMMA OnceKeeps == ServiceInv /\ [ServiceNext]_allvars => Once'
<1> SUFFICES ASSUME ServiceInv, [ServiceNext]_allvars, "twice" \notin tainted'
             PROVE  Once'
  BY DEF Once
<1>0. Once /\ ProcessType /\ RowsType
  BY DEF ServiceInv
<1>1. CASE Starts
  <2>0. /\ \A c \in Clients : req'[c] = NoReq
        /\ "twice" \notin tainted /\ Single(rows)
    BY <1>0, <1>1, StartsFrame DEF Idle, Once
  <2>1. SUFFICES Single(rows') /\ (phase' = "system" => Unlisted(rows', begun'.work))
    BY <2>0 DEF Once, Active, NoReq
  <2>2. CASE StartSystemRule
    <3>1. PICK item \in begun.work :
            /\ begun' = [begun EXCEPT !.work = @ \ {item}]
            /\ SystemStep(item) \/ UNCHANGED <<rows, next_id, loaded>>
      BY <2>2 DEF StartSystemRule
    <3>2. /\ begun.work \in SUBSET Items /\ Unlisted(rows, begun.work)
          /\ begun'.work = begun.work \ {item}
      BY <1>0, <2>0, <2>2, <3>1 DEF ProcessType, Begun, Once, StartSystemRule
    <3>3. CASE SystemStep(item)
      BY <1>0, <2>0, <3>2, <3>3, StepSingle
    <3>4. CASE UNCHANGED <<rows, next_id, loaded>>
      BY <2>0, <3>2, <3>4 DEF Unlisted
    <3> QED
      BY <3>1, <3>3, <3>4
  <2>3. CASE ListSystemRules
    <3>1. rows' = rows /\ begun'.work \in {SystemWork(begun.want, rows), {}}
      BY <1>0, <2>3 DEF ListSystemRules, table, ProcessType, Begun
    <3>2. Unlisted(rows, {}) /\ Unlisted(rows, SystemWork(begun.want, rows))
      BY <1>0, ListedTodo DEF Unlisted
    <3> QED
      BY <2>0, <3>1, <3>2
  <2>4. CASE ~(StartSystemRule \/ ListSystemRules)
    BY <1>1, <2>0, <2>4 DEF table, Starts, load_driver, initialize_wfp, ReadSettings,
       clear_rules, StartPolicy, load_rules_to_driver, StartGroups, StartKillSwitch, StartLimits, Then, StartFails
  <2> QED
    BY <2>2, <2>3, <2>4
<1>2. CASE Lives
  <2>1. rows' = rows /\ phase' # "system"
    BY <1>2 DEF table, Lives, StartService, Restart, Launch, StopRequested, Stops, StopWfp, clear_kernel,
       unload_driver, Crash, uninstall_service, Starting, Then
  <2>2. "twice" \notin tainted
    BY <1>2, LivesFrame
  <2>3. CASE req' = req
    BY <1>0, <2>1, <2>2, <2>3 DEF Once, Active
  <2>4. CASE Idle'
    BY <1>0, <2>1, <2>2, <2>4 DEF Once, Active, Idle, NoReq
  <2> QED
    BY <1>2, <2>3, <2>4, LivesFrame
<1>3. CASE \E c \in Clients : Arrive(c)
  <2>1. PICK c \in Clients : Arrive(c)
    BY <1>3
  <2>2. PICK r \in ReqStates : /\ r.pc \in {"save", "setglobal", "predefined", "member"}
                               /\ req' = [req EXCEPT ![c] = r]
    BY <2>1, ArriveType
  <2>3. /\ UNCHANGED <<phase, rows>> /\ phase = "running" /\ tainted' = tainted \cup Overlap(c)
    BY <2>1, ArriveType DEF table
  <2>4. \A o \in Clients : o # c => req[o] = NoReq
    BY <2>3 DEF Overlap
  <2>5. /\ req'[c].pc # "system" /\ \A o \in Clients : o # c => req'[o] = NoReq
    BY <1>0, <2>2, <2>4 DEF ProcessType
  <2> QED
    BY <1>0, <2>3, <2>5 DEF Once, Active, NoReq
<1>4. CASE \E c \in Clients : Serve(c)
  <2>1. PICK c \in Clients : Serve(c)
    BY <1>4
  <2>2. /\ "twice" \notin tainted /\ phase' = phase /\ phase # "system"
        /\ \A d \in Clients : d # c => req'[d] = NoReq
        /\ Single(rows)
    <3>1. "twice" \notin tainted /\ Active(c) /\ \A d \in Clients : d # c => req'[d] = req[d]
      BY <2>1, ServeFrame
    <3> QED
      BY <1>0, <2>1, <3>1, ServeType DEF Once, Active, ServiceInv, Life, Stopping, Idle
  <2>3. SUFFICES Single(rows') /\ (req'[c].pc = "system" => Unlisted(rows', req'[c].work))
    BY <2>2 DEF Once, Active, NoReq
  <2>4. CASE UpdateSystemRule(c)
    <3>1. PICK item \in req[c].work :
            /\ req' = [req EXCEPT ![c].work = @ \ {item}]
            /\ SystemStep(item) \/ UNCHANGED <<rows, next_id, loaded>>
      BY <2>4 DEF UpdateSystemRule
    <3>2. /\ req[c].work \in SUBSET Items /\ Unlisted(rows, req[c].work)
          /\ req'[c].work = req[c].work \ {item}
      BY <1>0, <2>2, <2>4, <3>1, ReqShape DEF ProcessType, Once, UpdateSystemRule, At
    <3>3. CASE SystemStep(item)
      BY <1>0, <2>2, <3>2, <3>3, StepSingle
    <3>4. CASE UNCHANGED <<rows, next_id, loaded>>
      BY <2>2, <3>2, <3>4 DEF Unlisted
    <3> QED
      BY <3>1, <3>3, <3>4
  <2>5. CASE ListForUpdate(c)
    <3>1. rows' = rows /\ req'[c].work \in {SystemWork(req[c].want, rows), {}}
      BY <1>0, <2>5, ReqShape DEF ListForUpdate, At, Goto, table, ProcessType
    <3>2. Unlisted(rows, {}) /\ Unlisted(rows, SystemWork(req[c].want, rows))
      BY <1>0, ListedTodo DEF Unlisted
    <3> QED
      BY <2>2, <3>1, <3>2
  <2>6. CASE ~(UpdateSystemRule(c) \/ ListForUpdate(c))
    <3>1. rows' = rows
      BY <2>1, <2>6 DEF table, Serve, update_settings, UpdateGlobal, PushPolicy,
         UpdateKillSwitch, SetGlobal, ReadBack, WriteBack, InitializePredefinedGroups, ChangeMember,
         reload_rules_quietly
    <3>2. req'[c].pc # "system"
      <4>1. CASE update_settings(c) \/ UpdateGlobal(c) \/ PushPolicy(c) \/ SetGlobal(c) \/ ChangeMember(c)
        BY <1>0, <4>1, ReqShape DEF update_settings, UpdateGlobal, PushPolicy, SetGlobal, ChangeMember,
           At, Goto, Done, ProcessType, NoReq
      <4>2. CASE UpdateKillSwitch(c) \/ ReadBack(c) \/ WriteBack(c) \/ InitializePredefinedGroups(c)
                 \/ reload_rules_quietly(c)
        BY <1>0, <4>2 DEF UpdateKillSwitch, ReadBack, WriteBack, InitializePredefinedGroups,
           reload_rules_quietly, Done, ProcessType, NoReq
      <4> QED
        BY <2>1, <2>6, <4>1, <4>2 DEF Serve
    <3> QED
      BY <2>2, <3>1, <3>2
  <2> QED
    BY <2>4, <2>5, <2>6
<1>5. CASE UNCHANGED allvars
  BY <1>0, <1>5 DEF Once, Active, allvars, svars
<1> QED
  BY <1>1, <1>2, <1>3, <1>4, <1>5 DEF ServiceNext, Lives

LEMMA SystemKeeps == ServiceInv /\ [ServiceNext]_allvars => SystemFollows'
<1> SUFFICES ASSUME ServiceInv, [ServiceNext]_allvars, "system" \notin tainted'
             PROVE  SystemFollows'
  BY DEF SystemFollows
<1>0. SystemFollows /\ ProcessType /\ RowsType
  BY DEF ServiceInv
<1> DEFINE Late == {"policy", "load", "groups", "kill", "limits"}
<1>1. CASE Starts
  <2>0. /\ \A c \in Clients : req'[c] = NoReq
        /\ settings' = settings
    BY <1>1, StartsFrame DEF Idle
  <2>1. CASE ListSystemRules
    <3>1. begun.ok /\ begun.want = settings /\ begun'.work = SystemWork(begun.want, rows)
      BY <1>0, <2>1 DEF ListSystemRules, ServiceInv, Life, Taint, Applied, ProcessType, Begun
    <3>2. phase' = "system" /\ rows' = rows
      BY <2>1 DEF ListSystemRules, Then, table
    <3>3. Todo(settings, rows, begun'.work)
      BY <1>0, <3>1, ListedTodo
    <3> QED
      BY <2>0, <3>2, <3>3 DEF SystemFollows
  <2>2. CASE StartSystemRule
    <3>1. PICK item \in begun.work :
            /\ begun' = [begun EXCEPT !.work = @ \ {item}]
            /\ SystemStep(item) /\ UNCHANGED tainted
      BY <2>2 DEF StartSystemRule, Taint
    <3>2. /\ begun.work \in SUBSET Items /\ Todo(settings, rows, begun.work)
          /\ begun'.work = begun.work \ {item} /\ phase' = "system"
      BY <1>0, <2>2, <3>1 DEF ProcessType, Begun, SystemFollows, StartSystemRule
    <3>3. Todo(settings, rows', begun'.work)
      BY <1>0, <3>1, <3>2, StepTodo
    <3> QED
      BY <2>0, <3>2, <3>3 DEF SystemFollows
  <2>3. CASE clear_rules
    <3>1. phase' \in {"policy", "stop"} /\ rows' = rows /\ Todo(settings, rows, {})
      BY <1>0, <2>3 DEF clear_rules, Then, StartFails, table, SystemFollows
    <3> QED
      BY <2>0, <3>1 DEF SystemFollows
  <2>4. CASE load_rules_to_driver
    <3>1. CASE phase' = "stop"
      BY <3>1 DEF SystemFollows
    <3>2. CASE phase' # "stop"
      <4>1. phase' = "groups" /\ rows' = rows /\ Todo(settings, rows, {}) /\ loaded' = EnabledIds
        BY <1>0, <2>4, <3>2 DEF load_rules_to_driver, Then, StartFails, table, SystemFollows, Heal
      <4>2. InDriver(rows', loaded')
        BY <4>1 DEF InDriver, EnabledIds, SystemIds
      <4> QED
        BY <2>0, <4>1, <4>2 DEF SystemFollows
    <3> QED
      BY <3>1, <3>2
  <2>5. CASE StartPolicy \/ StartGroups \/ StartKillSwitch \/ StartLimits
    <3>1. "system" \notin tainted /\ UNCHANGED <<rows, loaded>>
      BY <2>5 DEF StartPolicy, StartGroups, initialize_predefined, StartKillSwitch, StartLimits,
                  table, driver, Taint, Heal, Applied
    <3>2. /\ phase \in Late /\ phase' \in Late \cup {"running", "stop"} /\ phase' # "policy"
          /\ phase' \in {"groups", "kill", "limits", "running"} => phase \in {"groups", "kill", "limits"}
      BY <2>5 DEF StartPolicy, StartGroups, StartKillSwitch, StartLimits, Then, StartFails
    <3> QED
      BY <1>0, <2>0, <3>1, <3>2 DEF SystemFollows, NoReq
  <2>6. CASE load_driver \/ initialize_wfp \/ ReadSettings
    <3>1. phase' \in {"wfp", "settings", "list", "stop"}
      BY <2>6 DEF load_driver, initialize_wfp, ReadSettings, Then, StartFails
    <3> QED
      BY <3>1 DEF SystemFollows
  <2> QED
    BY <1>1, <2>1, <2>2, <2>3, <2>4, <2>5, <2>6 DEF Starts
<1>2. CASE Lives
  <2>1. phase' \notin Late \cup {"system", "running"}
    BY <1>2 DEF Lives, StartService, Restart, Launch, StopRequested, Stops, StopWfp, clear_kernel,
       unload_driver, Crash, uninstall_service, Starting, Then
  <2> QED
    BY <2>1 DEF SystemFollows
<1>3. CASE \E c \in Clients : Arrive(c)
  <2>1. PICK c \in Clients : Arrive(c)
    BY <1>3
  <2>2. /\ Asks(Saving)' <=> Asks(Saving)
        /\ req'[c].pc \in {"save", "setglobal", "predefined", "member"}
        /\ \A d \in Clients : d # c => req'[d] = req[d]
        /\ tainted \subseteq tainted'
    BY <2>1, ArriveFrame DEF Saving
  <2>3. UNCHANGED <<phase, rows, loaded, settings>> /\ phase = "running"
    BY <2>1, ArriveType DEF table, driver
  <2> QED
    BY <1>0, <2>2, <2>3 DEF SystemFollows
<1>4. CASE \E c \in Clients : Serve(c)
  <2>1. PICK c \in Clients : Serve(c)
    BY <1>4
  <2>2. "system" \notin tainted
    BY <2>1, ServeFrame
  <2>3. /\ phase' = "running" /\ phase = "running" /\ opened
        /\ \A d \in Clients : d # c => req'[d] = NoReq /\ req[d] = NoReq
        /\ req[c].pc \in Saving => req[c].want = settings
        /\ req[c].pc = "write" => req[c].want = [settings EXCEPT !.limit = req[c].want.limit]
    BY <2>1, <2>2, ServeAlone, ServeFrame, ServeType DEF Disturbed, Aspects
  <2>4. SUFFICES /\ InDriver(rows', loaded')
                 /\ req'[c].pc = "system" => Todo(settings', rows', req'[c].work)
                 /\ req'[c].pc \in Saving \/ Todo(settings', rows', {})
    BY <2>3 DEF SystemFollows, Asks, NoReq
  <2>5. /\ InDriver(rows, loaded)
        /\ req[c].pc = "system" => Todo(settings, rows, req[c].work)
        /\ req[c].pc \in Saving \/ Todo(settings, rows, {})
    BY <1>0, <2>2, <2>3 DEF SystemFollows, Asks, NoReq, Saving
  <2> USE DEF At, Goto, Done, table, driver
  <2>6. CASE update_settings(c)
    <3>1. UNCHANGED <<rows, loaded>>
      BY <2>6 DEF update_settings
    <3>2. req'[c].pc = "limit" \/ (req'[c].pc = "idle" /\ settings' = settings)
      BY <1>0, <2>6, ReqShape DEF update_settings, ProcessType, NoReq
    <3> QED
      BY <2>5, <2>6, <3>1, <3>2 DEF Saving, update_settings
  <2>7. CASE UpdateGlobal(c) \/ PushPolicy(c)
    <3>1. UNCHANGED <<rows, loaded>>
      BY <2>7 DEF UpdateGlobal, PushPolicy
    <3>2. req'[c].pc \in {"policy", "list"}
      BY <1>0, <2>7, ReqShape DEF UpdateGlobal, PushPolicy, ProcessType
    <3> QED
      BY <2>5, <3>1, <3>2 DEF Saving
  <2>8. CASE ListForUpdate(c)
    <3>1. UNCHANGED <<rows, loaded, settings>> /\ req[c].want = settings
      BY <2>3, <2>8 DEF ListForUpdate, Saving
    <3>2. req'[c].pc = "system" /\ req'[c].work = SystemWork(req[c].want, rows)
      BY <1>0, <2>8, ReqShape DEF ListForUpdate, ProcessType, Taint
    <3> QED
      BY <1>0, <2>5, <3>1, <3>2, ListedTodo DEF Saving
  <2>9. CASE UpdateSystemRule(c)
    <3>1. PICK item \in req[c].work :
            /\ req' = [req EXCEPT ![c].work = @ \ {item}]
            /\ SystemStep(item)
      BY <2>9 DEF UpdateSystemRule, Taint
    <3>2. /\ req[c].work \in SUBSET Items /\ Todo(settings, rows, req[c].work)
          /\ req'[c].work = req[c].work \ {item} /\ req'[c].pc = "system" /\ settings' = settings
      BY <1>0, <2>5, <2>9, <3>1, ReqShape DEF ProcessType, UpdateSystemRule
    <3>3. Todo(settings, rows', req'[c].work)
      BY <1>0, <3>1, <3>2, StepTodo
    <3>4. InDriver(rows', loaded')
      BY <1>0, <2>3, <2>5, <3>1, <3>2, StepInDriver
    <3> QED
      BY <3>2, <3>3, <3>4 DEF Saving
  <2>10. CASE UpdateKillSwitch(c)
    <3>1. /\ UNCHANGED <<rows, loaded, settings>> /\ req[c].pc = "system" /\ req[c].work = {}
          /\ req'[c].pc = "idle"
      BY <1>0, <2>10 DEF UpdateKillSwitch, ProcessType, NoReq
    <3> QED
      BY <2>5, <3>1
  <2>11. CASE WriteBack(c)
    <3>1. /\ UNCHANGED <<rows, loaded>> /\ req[c].pc = "write" /\ req'[c].pc = "idle"
          /\ settings'.allow = settings.allow /\ settings'.system = settings.system
      BY <1>0, <2>3, <2>11 DEF WriteBack, store_settings, ProcessType, SettingsType, NoReq
    <3> QED
      BY <2>5, <3>1 DEF Todo, Saving
  <2>12. CASE SetGlobal(c) \/ ReadBack(c) \/ InitializePredefinedGroups(c) \/ ChangeMember(c)
    <3>1. UNCHANGED <<rows, loaded, settings>> /\ req[c].pc \notin Saving
      BY <2>12 DEF SetGlobal, ReadBack, InitializePredefinedGroups, ChangeMember, Saving
    <3>2. req'[c].pc # "system"
      <4>1. CASE SetGlobal(c) \/ ChangeMember(c)
        BY <1>0, <4>1, ReqShape DEF SetGlobal, ChangeMember, ProcessType
      <4>2. CASE ReadBack(c) \/ InitializePredefinedGroups(c)
        BY <1>0, <4>2 DEF ReadBack, InitializePredefinedGroups, ProcessType, NoReq
      <4> QED
        BY <2>12, <4>1, <4>2
    <3> QED
      BY <2>5, <3>1, <3>2
  <2>13. CASE reload_rules_quietly(c)
    <3>1. /\ UNCHANGED <<rows, settings>> /\ req[c].pc = "reload" /\ req'[c].pc = "idle"
          /\ loaded' = EnabledIds
      BY <1>0, <2>3, <2>13 DEF reload_rules_quietly, ProcessType, NoReq, Taint
    <3>2. InDriver(rows', loaded')
      BY <3>1 DEF InDriver, EnabledIds, SystemIds
    <3> QED
      BY <2>5, <3>1, <3>2 DEF Saving
  <2> QED
    BY <2>1, <2>6, <2>7, <2>8, <2>9, <2>10, <2>11, <2>12, <2>13 DEF Serve
<1>5. CASE UNCHANGED allvars
  BY <1>0, <1>5 DEF SystemFollows, Asks, allvars, svars
<1> QED
  BY <1>1, <1>2, <1>3, <1>4, <1>5 DEF ServiceNext, Lives

-----------------------------------------------------------------------------
LEMMA ServiceInvInductive == ServiceSpec => []ServiceInv
<1>1. ServiceInit => ServiceInv
  BY InitService
<1>2. ServiceInv /\ [ServiceNext]_allvars => ServiceInv'
  BY TypeKeeps, LifeKeeps, OneAtATimeKeeps, SavedKeeps, KillKeeps, LayersKeep, LimitKeeps, PolicyKeeps,
     GroupsKeep, RowsKeep, OnceKeeps, SystemKeeps DEF ServiceInv
<1> QED
  BY <1>1, <1>2, PTL DEF ServiceSpec

LEMMA NoneAsks == ASSUME Idle, NEW pcs, "idle" \notin pcs PROVE ~Asks(pcs)
  BY IdleAsks

(* A change that a client saved stays saved: the limit request, which writes
   back every setting it read, can lose another's change only when the two
   overlap. *)
THEOREM SavedStaysSaved == ServiceSpec => []UpdatesKept
<1>1. ServiceInv => UpdatesKept
  BY DEF ServiceInv, Saved, UpdatesKept, Exempt
<1> QED
  BY <1>1, ServiceInvInductive, PTL

(* The kill switch follows the setting through starts, stops and crashes until
   the service is uninstalled. *)
THEOREM KillSwitchFollows == ServiceSpec => []KillSwitchInForce
<1>1. ServiceInv => KillSwitchInForce
  <2> SUFFICES ASSUME ServiceInv, Settled \/ phase = "down", "kill" \notin tainted
               PROVE  kill = (settings.protect /\ exit # "gone")
    BY DEF KillSwitchInForce, Exempt
  <2>1. Idle
    BY DEF Settled, ServiceInv, Life, Stopping
  <2>2. ~Asks(Saving)
    BY <2>1, NoneAsks DEF Saving
  <2> QED
    BY <2>2 DEF ServiceInv, KillFollows
<1> QED
  BY <1>1, ServiceInvInductive, PTL

(* With the kill switch installed a running service still decides itself, and
   a stopped one leaves no filter, no limit and no handle behind. *)
THEOREM StopLeavesNothing == ServiceSpec => []StopIsClean
<1>1. ServiceInv => StopIsClean
  <2> SUFFICES ASSUME ServiceInv PROVE StopIsClean
    OBVIOUS
  <2>1. Settled /\ ~Exempt("layers") => \A k \in Auth, f \in Families : ~KillSwitchActs(k, f)
    BY DEF Settled, Exempt, ServiceInv, LayersFollow, KillSwitchActs
  <2>2. phase = "down" =>
          /\ filters = {} \/ Exempt("layers")
          /\ ~limit \/ Exempt("limit")
          /\ ~opened
    BY DEF Exempt, ServiceInv, LayersFollow, LimitFollows, Life
  <2> QED
    BY <2>1, <2>2 DEF StopIsClean
<1> QED
  BY <1>1, ServiceInvInductive, PTL

(* Between requests a running service has its settings in force: the default
   policy, the global limit, the members of the groups and the system rules. *)
THEOREM SettingsAreInForce == ServiceSpec => []SettingsInForce
<1>1. ServiceInv => SettingsInForce
  <2> SUFFICES ASSUME ServiceInv, Settled PROVE
        /\ policy = settings.allow \/ Exempt("policy")
        /\ limit = settings.limit \/ Exempt("limit")
        /\ expanded = members \/ Exempt("groups")
        /\ \/ Exempt("system")
           \/ /\ ~settings.allow /\ settings.system =>
                   \A d \in Defs : /\ Named(rows, d) # {}
                                   /\ Cardinality(Named(rows, d)) = 1 \/ Exempt("twice")
                                   /\ \A i \in Named(rows, d) : rows[i].path = "full" /\ (rows[i].enabled => i \in loaded)
              /\ ~settings.system => SystemIds(rows) = {}
    BY DEF SettingsInForce
  <2>0. phase = "running" /\ Idle
    BY DEF Settled
  <2>1. policy = settings.allow \/ Exempt("policy")
    BY <2>0, NoneAsks DEF ServiceInv, PolicyFollows, Exempt
  <2>2. limit = settings.limit \/ Exempt("limit")
    BY <2>0, NoneAsks DEF ServiceInv, LimitFollows, Exempt
  <2>3. expanded = members \/ Exempt("groups")
    BY <2>0, NoneAsks DEF ServiceInv, GroupsFollow, Exempt
  <2>4. ASSUME "system" \notin tainted
        PROVE  Todo(settings, rows, {}) /\ InDriver(rows, loaded)
    BY <2>0, <2>4, NoneAsks DEF ServiceInv, SystemFollows, Saving
  <2>5. ASSUME NEW d \in Defs, Named(rows, d) # {}, "twice" \notin tainted
        PROVE  Cardinality(Named(rows, d)) = 1
    <3>1. \A i, j \in Named(rows, d) : i = j
      BY <2>5 DEF ServiceInv, Once, Single
    <3>2. PICK i \in Named(rows, d) : TRUE
      BY <2>5
    <3>3. Named(rows, d) = {i}
      BY <3>1, <3>2
    <3> QED
      BY <3>3, FS_Singleton
  <2>6. ASSUME "system" \notin tainted, ~settings.allow, settings.system, NEW d \in Defs
        PROVE  /\ Named(rows, d) # {}
               /\ Cardinality(Named(rows, d)) = 1 \/ "twice" \in tainted
               /\ \A i \in Named(rows, d) : rows[i].path = "full" /\ (rows[i].enabled => i \in loaded)
    <3>1. Named(rows, d) # {} /\ Named(rows, d) \subseteq SystemIds(rows)
      BY <2>4, <2>6 DEF Todo, Named, SystemIds
    <3> QED
      BY <2>4, <2>5, <2>6, <3>1 DEF Todo, InDriver
  <2>7. "system" \notin tainted /\ ~settings.system => SystemIds(rows) = {}
    BY <2>4 DEF Todo
  <2> QED
    BY <2>1, <2>2, <2>3, <2>6, <2>7 DEF Exempt
<1> QED
  BY <1>1, ServiceInvInductive, PTL

=============================================================================
