------------------------------- MODULE Service -------------------------------
(***************************************************************************)
(* The service process and what its settings put in force                  *)
(* (service/firewall_service.rs, service/service_handler.rs, main.rs,      *)
(* rule/system_rules.rs, app_group/manager.rs and the settings, limit and  *)
(* group requests of ipc/handler.rs).                                      *)
(*                                                                         *)
(* start() is a sequence of awaits; the service control manager may cancel *)
(* it at any of them, and stop() then runs.  Requests of IPC clients run   *)
(* concurrently once it is up, one await at a time.  The driver keeps its  *)
(* rules, policy and limits when the process dies.                         *)
(*                                                                         *)
(* tainted is history: the settings whose effect a failed call, a request  *)
(* that was cut off or two overlapping requests may have left behind.      *)
(***************************************************************************)
EXTENDS WfpFilters, Sequences

CONSTANTS
  Clients,      \* IPC connections
  Configs,      \* settings a client may save
  Defs,         \* names of the built-in system rules
  MaxRequests,  \* bound: requests
  MaxStarts,    \* bound: starts of the process
  MaxFaults     \* bound: calls that fail

User == "user"

(* The names of the system rules have a prefix of their own. *)
ASSUME ServiceAssumption ==
  /\ {MaxRequests, MaxStarts, MaxFaults} \subseteq Nat
  /\ User \notin Defs
  /\ Configs \subseteq [allow : BOOLEAN, system : BOOLEAN, protect : BOOLEAN, limit : BOOLEAN]

VARIABLES
  phase,      \* where the process is in start and stop
  exit,       \* how it ended: "none", "ok", "failed"
  begun,      \* what start has read: [want, ok, work]
  settings,   \* the settings table
  rows,       \* rules of the table: id -> [name, path, enabled]
  next_id,
  opened,     \* the driver handle
  policy, loaded, limit,   \* in the driver: default allow, rule ids, global limit
  members, expanded,       \* the predefined group: its member in the table, in the driver
  req,        \* req[c]: the request of a client
  wanted,     \* history: the settings as the clients last changed them
  tainted, requests, starts, faults

svars == <<phase, exit, begun, settings, rows, next_id, opened, policy, loaded, limit, members,
           expanded, req, wanted, tainted, requests, starts, faults>>
allvars == <<svars, wvars>>
driver == <<opened, policy, loaded, limit, expanded>>
table == <<settings, rows, next_id, members>>
bounds == <<requests, starts, faults>>

Aspects == {"policy", "limit", "system", "kill", "settings", "groups"}
Defaults == [allow |-> TRUE, system |-> TRUE, protect |-> FALSE, limit |-> FALSE]
Nothing == [want |-> Defaults, ok |-> FALSE, work |-> {}]
Fault == faults < MaxFaults /\ faults' = faults + 1
NoReq == [pc |-> "idle"]
Idle == \A c \in Clients : req[c] = NoReq
Taint(what) == tainted' = tainted \cup what
Heal(what) == tainted' = tainted \ what

(* The row of the settings table. *)
get_settings == settings
store_settings(new) == settings' = new

ServiceInit ==
  /\ WfpInit
  /\ phase = "down" /\ exit = "none" /\ begun = Nothing
  /\ settings \in Configs /\ wanted = settings
  /\ rows = <<[name |-> User, path |-> "full", enabled |-> TRUE],
              [name |-> CHOOSE d \in Defs : TRUE, path |-> "short", enabled |-> FALSE]>>
  /\ next_id = 3
  /\ opened = FALSE /\ policy = TRUE /\ loaded = {} /\ limit = FALSE
  /\ members = FALSE /\ expanded = FALSE
  /\ req = [c \in Clients |-> NoReq]
  /\ tainted = {"kill", "layers"} /\ requests = 0 /\ starts = 0 /\ faults = 0

-----------------------------------------------------------------------------
(* The system rules.  A listing is taken first; each definition is then
   created when no row of that name was listed, or moved to its full path. *)

Named(list, d) == {i \in DOMAIN list : list[i].name = d}
SystemIds(list) == {i \in DOMAIN list : list[i].name \in Defs}

Migrated(old) == [old EXCEPT !.path = "full"]

(* What is to be done for a listing: definitions to install, rows to move or
   to delete. *)
Missing(list) == {d \in Defs : Named(list, d) = {}}
Outdated(list) == {i \in SystemIds(list) : list[i].path # "full"
                                           /\ \A j \in Named(list, list[i].name) : i <= j}
(* A rule of an earlier version keeps its short path. *)
InstallMissingOnly(list) == {<<"add", d>> : d \in Missing(list)}
ensure_installed(list) == {<<"add", d>> : d \in Missing(list)} \cup {<<"move", i>> : i \in Outdated(list)}
remove_all(list) == {<<"delete", i>> : i \in SystemIds(list)}
SystemWork(want, list) ==
  IF ~want.allow /\ want.system THEN ensure_installed(list)
  ELSE IF want.system THEN {} ELSE remove_all(list)

With(f, id, row) == [i \in DOMAIN f \cup {id} |-> IF i = id THEN row ELSE f[i]]
EnabledIds == {i \in DOMAIN rows : rows[i].enabled}

(* One call of create_rule, update_rule_internal or delete_rule_internal, the
   table and the driver together (RuleManager has the detail).  A failed one
   is logged and changes nothing. *)
SystemStep(item) ==
  \/ /\ item[1] = "add"
     /\ rows' = With(rows, next_id, [name |-> item[2], path |-> "full", enabled |-> TRUE])
     /\ next_id' = next_id + 1
     /\ loaded' = IF opened THEN loaded \cup {next_id} ELSE loaded
  \/ /\ item[1] = "move"
     /\ rows' = IF item[2] \in DOMAIN rows THEN With(rows, item[2], Migrated(rows[item[2]])) ELSE rows
     /\ UNCHANGED <<next_id, loaded>>
  \/ /\ item[1] = "delete"
     /\ rows' = [i \in DOMAIN rows \ {item[2]} |-> rows[i]]
     /\ loaded' = IF opened THEN loaded \ {item[2]} ELSE loaded
     /\ UNCHANGED next_id

-----------------------------------------------------------------------------
(* Start.  Each await is a step; an error ends start, and stop follows. *)

StartFails == phase' = "stop" /\ exit' = "failed"
Then(p) == phase' = p /\ UNCHANGED exit

Launch(how) ==
  /\ phase = "down" /\ starts < MaxStarts
  /\ exit \in how
  /\ starts' = starts + 1 /\ phase' = "driver" /\ exit' = "none"
  /\ UNCHANGED <<begun, table, driver, req, wanted, tainted, requests, faults, wvars>>

load_driver ==
  /\ phase = "driver"
  /\ \/ opened' = TRUE /\ Then("wfp") /\ UNCHANGED faults
     \/ Fault /\ StartFails /\ UNCHANGED opened
  /\ UNCHANGED <<begun, table, policy, loaded, limit, expanded, req, wanted, tainted, requests, starts, wvars>>

initialize_wfp ==
  /\ phase = "wfp"
  /\ \/ InitializeOk(NoLayer, NoLayer) /\ Then("settings") /\ Heal({"layers"}) /\ UNCHANGED faults
     \/ \E bad \in Layers :
          /\ Fault
          /\ \/ /\ InitializeOk(bad, NoLayer) \/ InitializeOk(NoLayer, bad)
                /\ Then("settings") /\ Taint({"layers"})
             \/ /\ InitializeFails(bad, NoLayer) \/ InitializeFails(NoLayer, bad)
                /\ StartFails /\ UNCHANGED tainted
     \/ Fault /\ StartFails /\ UNCHANGED <<wvars, tainted>>
  /\ UNCHANGED <<begun, table, driver, req, wanted, requests, starts>>

(* Settings that cannot be read are replaced by the defaults. *)
ReadSettings ==
  /\ phase = "settings"
  /\ \/ begun' = [want |-> get_settings, ok |-> TRUE, work |-> {}] /\ UNCHANGED <<faults, tainted>>
     \/ Fault /\ begun' = Nothing /\ Taint({"policy", "system", "kill"})
  /\ Then("list")
  /\ UNCHANGED <<table, driver, req, wanted, requests, starts, wvars>>

(* An aspect is in force again when start has applied the settings it read. *)
Applied(what) == IF begun.ok THEN Heal({what}) ELSE UNCHANGED tainted

ListSystemRules ==
  /\ phase = "list"
  /\ \/ /\ begun' = [begun EXCEPT !.work = SystemWork(begun.want, rows)]
        /\ Applied("system") /\ UNCHANGED faults
     \/ Fault /\ Taint({"system"}) /\ UNCHANGED begun
  /\ Then("system")
  /\ UNCHANGED <<table, driver, req, wanted, requests, starts, wvars>>

StartSystemRule ==
  /\ phase = "system"
  /\ \E item \in begun.work :
       /\ begun' = [begun EXCEPT !.work = @ \ {item}]
       /\ \/ SystemStep(item) /\ UNCHANGED <<faults, tainted>>
          \/ Fault /\ Taint({"system"}) /\ UNCHANGED <<rows, next_id, loaded>>
  /\ UNCHANGED <<phase, exit, settings, members, opened, policy, limit, expanded, req, wanted, requests, starts, wvars>>

clear_rules ==
  /\ phase = "system" /\ begun.work = {}
  /\ \/ loaded' = {} /\ expanded' = FALSE /\ Then("policy") /\ UNCHANGED faults
     \/ Fault /\ StartFails /\ UNCHANGED <<loaded, expanded>>
  /\ UNCHANGED <<begun, table, opened, policy, limit, req, wanted, tainted, requests, starts, wvars>>

StartPolicy ==
  /\ phase = "policy"
  /\ \/ policy' = begun.want.allow /\ Applied("policy") /\ Then("load") /\ UNCHANGED faults
     \/ Fault /\ StartFails /\ UNCHANGED <<policy, tainted>>
  /\ UNCHANGED <<begun, table, opened, loaded, limit, expanded, req, wanted, requests, starts, wvars>>

load_rules_to_driver ==
  /\ phase = "load"
  /\ \/ loaded' = EnabledIds /\ expanded' = members /\ Heal({"groups"}) /\ Then("groups") /\ UNCHANGED faults
     \/ Fault /\ StartFails /\ UNCHANGED <<loaded, expanded, tainted>>
  /\ UNCHANGED <<begun, table, opened, policy, limit, req, wanted, requests, starts, wvars>>

(* Whether a program of the group is found on disk. *)
expand_member_paths == BOOLEAN

(* Members become the programs that are found; the driver is not told. *)
initialize_predefined ==
  /\ members' \in expand_member_paths
  /\ IF members' # members THEN Taint({"groups"}) ELSE UNCHANGED tainted

StartGroups ==
  /\ phase = "groups"
  /\ \/ initialize_predefined /\ UNCHANGED faults
     \/ Fault /\ UNCHANGED <<members, tainted>>
  /\ Then("kill")
  /\ UNCHANGED <<begun, settings, rows, next_id, driver, req, wanted, requests, starts, wvars>>

(* The setting only ever installs the kill switch. *)
SetKillSwitchOnly(want) ==
  /\ IF want THEN add_persistent_block_filters ELSE UNCHANGED kill
  /\ UNCHANGED <<objects, callouts, filters, recorded, session, engine>>

(* Installing runs in a transaction; removing cannot fail. *)
SetKillSwitch(want) ==
  /\ IF want THEN add_persistent_block_filters ELSE remove_persistent_block_filters
  /\ UNCHANGED <<objects, callouts, filters, recorded, session, engine>>

StartKillSwitch ==
  /\ phase = "kill"
  /\ \/ SetKillSwitch(begun.want.protect) /\ Applied("kill") /\ UNCHANGED faults
     \/ begun.want.protect /\ Fault /\ Taint({"kill"}) /\ UNCHANGED wvars
  /\ Then("limits")
  /\ UNCHANGED <<begun, table, driver, req, wanted, requests, starts>>

StartLimits ==
  /\ phase = "limits"
  /\ \/ limit' = get_settings.limit /\ Heal({"limit"}) /\ UNCHANGED faults
     \/ Fault /\ Taint({"limit"}) /\ UNCHANGED limit
  /\ Then("running")
  /\ UNCHANGED <<begun, table, opened, policy, loaded, expanded, req, wanted, requests, starts, wvars>>

(* A user starts it; the failure actions restart it. *)
StartService == Launch({"none", "ok"})
Restart == Launch({"failed"})

Starts == \/ load_driver \/ initialize_wfp \/ ReadSettings \/ ListSystemRules \/ StartSystemRule
         \/ clear_rules \/ StartPolicy \/ load_rules_to_driver \/ StartGroups \/ StartKillSwitch \/ StartLimits

-----------------------------------------------------------------------------
(* Stop.  Requests go on until the runtime is shut down at the end; what they
   have not applied by then stays undone. *)

CutOff == IF Idle THEN {} ELSE Aspects
Starting == phase \notin {"down", "stop", "kernel", "close"}

(* The service control manager cancels start at an await. *)
StopRequested ==
  /\ Starting
  /\ phase' = "stop" /\ exit' = "ok" /\ Taint(CutOff)
  /\ UNCHANGED <<begun, table, driver, req, wanted, bounds, wvars>>

StopWfp ==
  /\ phase = "stop"
  /\ \/ cleanup_wfp({}) /\ UNCHANGED <<faults, tainted>>
     \/ \E f \in Orphans : engine /\ cleanup_wfp({f}) /\ Fault /\ Taint({"layers"})
  /\ Then("kernel")
  /\ UNCHANGED <<begun, table, driver, req, wanted, requests, starts>>

(* Clearing the limits through a closed handle fails quietly. *)
clear_kernel ==
  /\ phase = "kernel"
  /\ \/ limit' = (limit /\ ~opened) /\ UNCHANGED <<faults, tainted>>
     \/ Fault /\ Taint({"limit"}) /\ UNCHANGED limit
  /\ Then("close")
  /\ UNCHANGED <<begun, table, opened, policy, loaded, expanded, req, wanted, requests, starts, wvars>>

unload_driver ==
  /\ phase = "close"
  /\ opened' = FALSE /\ Then("down")
  /\ req' = [c \in Clients |-> NoReq]
  /\ UNCHANGED <<begun, table, policy, loaded, limit, expanded, wanted, tainted, bounds, wvars>>

(* The process dies: its filters may stay behind or go with its session. *)
Crash ==
  /\ phase # "down" /\ Fault
  /\ phase' = "down" /\ opened' = FALSE
  /\ exit' = IF exit = "gone" THEN exit ELSE "failed"
  /\ req' = [c \in Clients |-> NoReq] /\ Taint(CutOff \cup {"layers", "limit"})
  /\ recorded' = {} /\ engine' = FALSE
  /\ \/ UNCHANGED filters
     \/ filters' = {f \in filters : f.session # session}
  /\ UNCHANGED <<begun, table, policy, loaded, limit, expanded, wanted, requests, starts, objects, callouts, session, kill>>

(* uninstall waits for the stop, but not for ever; the kill switch goes last. *)
uninstall_service ==
  /\ ~Starting /\ exit # "gone"
  /\ exit' = "gone"
  /\ \/ SetKillSwitch(FALSE) /\ Taint(CutOff) /\ UNCHANGED faults
     \/ Fault /\ Taint({"kill"}) /\ UNCHANGED wvars
  /\ UNCHANGED <<phase, begun, table, driver, req, wanted, requests, starts>>

Stops == StopWfp \/ clear_kernel \/ unload_driver

-----------------------------------------------------------------------------
(* Requests.  Two that overlap may apply their parts in different orders.  One
   that comes while the service stops is one sent just before. *)

Overlap(c) == IF \A o \in Clients \ {c} : req[o] = NoReq THEN {} ELSE Aspects \cup {"twice"}
Ask(c, r) ==
  /\ phase = "running" /\ req[c] = NoReq /\ requests < MaxRequests
  /\ requests' = requests + 1
  /\ req' = [req EXCEPT ![c] = r] /\ Taint(Overlap(c))
Goto(c, pc) == req' = [req EXCEPT ![c].pc = pc]
Done(c) == req' = [req EXCEPT ![c] = NoReq]
At(c, pc) == req[c].pc = pc

Arrive(c) ==
  /\ \/ \E want \in Configs : Ask(c, [pc |-> "save", want |-> want, work |-> {}])
     \/ \E on \in BOOLEAN : Ask(c, [pc |-> "setglobal", on |-> on])
     \/ Ask(c, [pc |-> "predefined"])
     \/ \E in \in BOOLEAN : Ask(c, [pc |-> "member", in |-> in])
  /\ UNCHANGED <<phase, exit, begun, table, driver, wanted, starts, faults, wvars>>

(* UpdateSettings: the table first; its failure ends the request. *)
update_settings(c) ==
  /\ At(c, "save")
  /\ \/ store_settings(req[c].want) /\ wanted' = req[c].want /\ Goto(c, "limit") /\ UNCHANGED faults
     \/ Fault /\ Done(c) /\ UNCHANGED <<settings, wanted>>
  /\ UNCHANGED <<phase, exit, begun, rows, next_id, members, driver, tainted, requests, starts, wvars>>

(* A call to the driver, which needs the handle. *)
Sent(what) == IF opened THEN UNCHANGED <<faults, tainted>> ELSE Taint({what}) /\ UNCHANGED faults

UpdateGlobal(c) ==
  /\ At(c, "limit") /\ Goto(c, "policy")
  /\ \/ limit' = (IF opened THEN req[c].want.limit ELSE limit) /\ Sent("limit")
     \/ Fault /\ Taint({"limit"}) /\ UNCHANGED limit
  /\ UNCHANGED <<phase, exit, begun, table, opened, policy, loaded, expanded, wanted, requests, starts, wvars>>

PushPolicy(c) ==
  /\ At(c, "policy") /\ Goto(c, "list")
  /\ \/ policy' = (IF opened THEN req[c].want.allow ELSE policy) /\ Sent("policy")
     \/ Fault /\ Taint({"policy"}) /\ UNCHANGED policy
  /\ UNCHANGED <<phase, exit, begun, table, opened, limit, loaded, expanded, wanted, requests, starts, wvars>>

ListForUpdate(c) ==
  /\ At(c, "list")
  /\ \/ req' = [req EXCEPT ![c].pc = "system", ![c].work = SystemWork(req[c].want, rows)] /\ UNCHANGED <<faults, tainted>>
     \/ Fault /\ Goto(c, "system") /\ Taint({"system"})
  /\ UNCHANGED <<phase, exit, begun, table, driver, wanted, requests, starts, wvars>>

UpdateSystemRule(c) ==
  /\ At(c, "system")
  /\ \E item \in req[c].work :
       /\ req' = [req EXCEPT ![c].work = @ \ {item}]
       /\ \/ SystemStep(item) /\ Sent("system")
          \/ Fault /\ Taint({"system"}) /\ UNCHANGED <<rows, next_id, loaded>>
  /\ UNCHANGED <<phase, exit, begun, settings, members, opened, policy, limit, expanded, wanted, requests, starts, wvars>>

(* The engine is taken from the slot, which is empty while the service stops. *)
UpdateKillSwitch(c) ==
  /\ At(c, "system") /\ req[c].work = {} /\ Done(c)
  /\ \/ engine /\ SetKillSwitch(req[c].want.protect) /\ UNCHANGED <<faults, tainted>>
     \/ ~engine /\ Taint({"kill"}) /\ UNCHANGED <<faults, wvars>>
     \/ engine /\ req[c].want.protect /\ Fault /\ Taint({"kill"}) /\ UNCHANGED wvars
  /\ UNCHANGED <<phase, exit, begun, table, driver, wanted, requests, starts>>

(* SetGlobalBandwidthLimit: the driver, then the settings read and written back. *)
SetGlobal(c) ==
  /\ At(c, "setglobal") /\ Goto(c, "read")
  /\ \/ limit' = (IF opened THEN req[c].on ELSE limit) /\ Sent("limit")
     \/ Fault /\ Taint({"limit"}) /\ UNCHANGED limit
  /\ UNCHANGED <<phase, exit, begun, table, opened, policy, loaded, expanded, wanted, requests, starts, wvars>>

ReadBack(c) ==
  /\ At(c, "read")
  /\ \/ req' = [req EXCEPT ![c] = [pc |-> "write", want |-> [get_settings EXCEPT !.limit = req[c].on]]] /\ UNCHANGED <<faults, tainted>>
     \/ Fault /\ Done(c) /\ Taint({"limit"})
  /\ UNCHANGED <<phase, exit, begun, table, driver, wanted, requests, starts, wvars>>

(* The settings are built from the defaults instead of being read. *)
WriteDefaults(c) ==
  /\ At(c, "write") /\ Done(c)
  /\ settings' = [Defaults EXCEPT !.limit = req[c].want.limit]
  /\ wanted' = [wanted EXCEPT !.limit = req[c].want.limit]
  /\ UNCHANGED <<phase, exit, begun, rows, next_id, members, driver, tainted, bounds, wvars>>

WriteBack(c) ==
  /\ At(c, "write") /\ Done(c)
  /\ \/ store_settings(req[c].want) /\ wanted' = [wanted EXCEPT !.limit = req[c].want.limit] /\ UNCHANGED <<faults, tainted>>
     \/ Fault /\ Taint({"limit"}) /\ UNCHANGED <<settings, wanted>>
  /\ UNCHANGED <<phase, exit, begun, rows, next_id, members, driver, requests, starts, wvars>>

InitializePredefinedGroups(c) ==
  /\ At(c, "predefined") /\ Done(c)
  /\ initialize_predefined
  /\ UNCHANGED <<phase, exit, begun, settings, rows, next_id, driver, wanted, bounds, wvars>>

(* A member is added or removed; the rules are then reloaded. *)
ChangeMember(c) ==
  /\ At(c, "member") /\ Goto(c, "reload")
  /\ members' = req[c].in
  /\ UNCHANGED <<phase, exit, begun, settings, rows, next_id, driver, wanted, tainted, bounds, wvars>>

reload_rules_quietly(c) ==
  /\ At(c, "reload") /\ Done(c)
  /\ \/ opened /\ loaded' = EnabledIds /\ expanded' = members /\ Heal({"groups"}) /\ UNCHANGED faults
     \/ ~opened /\ Taint({"groups"}) /\ UNCHANGED <<loaded, expanded, faults>>
     \/ Fault /\ loaded' = {} /\ expanded' = FALSE /\ Taint({"groups", "system"})
  /\ UNCHANGED <<phase, exit, begun, table, opened, policy, limit, wanted, requests, starts, wvars>>

Serve(c) ==
  \/ update_settings(c) \/ UpdateGlobal(c) \/ PushPolicy(c) \/ ListForUpdate(c) \/ UpdateSystemRule(c)
  \/ UpdateKillSwitch(c) \/ SetGlobal(c) \/ ReadBack(c) \/ WriteBack(c)
  \/ InitializePredefinedGroups(c) \/ ChangeMember(c) \/ reload_rules_quietly(c)

ServiceNext ==
  \/ StartService \/ Restart \/ Starts \/ StopRequested \/ Stops \/ Crash \/ uninstall_service
  \/ \E c \in Clients : Arrive(c) \/ Serve(c)

ServiceSpec == ServiceInit /\ [][ServiceNext]_allvars

-----------------------------------------------------------------------------
Settled == phase = "running" /\ Idle
Exempt(what) == what \in tainted

(* What the database says is in force while the service runs: the default
   policy, the global limit, the members of the groups, and with a default of
   block every system rule, once and in the driver unless the user disabled it,
   and none when they are switched off.  Only a failed call, requests that
   overlap, or the predefined groups brought up to date without a reload undo
   it, and only until the next start (start, UpdateSettings, ensure_installed). *)
SettingsInForce ==
  Settled =>
    /\ policy = settings.allow \/ Exempt("policy")
    /\ limit = settings.limit \/ Exempt("limit")
    /\ expanded = members \/ Exempt("groups")
    /\ \/ Exempt("system")
       \/ /\ ~settings.allow /\ settings.system =>
               \A d \in Defs : /\ Named(rows, d) # {}
                               /\ Cardinality(Named(rows, d)) = 1 \/ Exempt("twice")
                               /\ \A i \in Named(rows, d) : rows[i].path = "full" /\ (rows[i].enabled => i \in loaded)
          /\ ~settings.system => SystemIds(rows) = {}

(* The kill switch is what the settings say, while the service runs and while
   it is down, and gone when it is uninstalled. *)
KillSwitchInForce ==
  Settled \/ phase = "down" => Exempt("kill") \/ kill = (settings.protect /\ exit # "gone")

(* With the kill switch installed a running service still lets its callouts
   decide in both families, and a service that was stopped leaves no callout
   filter above the kill switch, whichever session added it, no limit and no
   handle; a crash or a failed call is excused. *)
StopIsClean ==
  /\ Settled /\ ~Exempt("layers") => \A k \in Auth, f \in Families : ~KillSwitchActs(k, f)
  /\ phase = "down" /\ exit = "ok" /\ starts > 0 =>
       /\ filters = {} \/ Exempt("layers")
       /\ ~limit \/ Exempt("limit")
       /\ ~opened

(* A change that was saved stays saved: the limit request, which writes back
   all settings it has read, loses another's only when the two overlap. *)
UpdatesKept == Idle => settings = wanted \/ Exempt("settings")
=============================================================================
