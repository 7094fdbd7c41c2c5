----------------------------- MODULE KernelSync -----------------------------
(***************************************************************************)
(* KernelThrottleSync (service/src/bandwidth/kernel_sync.rs): bandwidth    *)
(* limits are configured by process path, the driver enforces them by      *)
(* process id, and the service keeps the two together.  IPC clients change *)
(* the configuration, the event loop pushes an entry for every process it  *)
(* sees a connection of, the driver drops the entry of a process that      *)
(* exits, and the service may stop or crash and start again while the      *)
(* driver keeps its table.                                                 *)
(*                                                                         *)
(* A pair of rates is one number, 0 when both directions are unlimited.    *)
(* Every std Mutex section and every IOCTL (serialised by io_gate) is one  *)
(* step; between two of them any other task may run.  The driver's table   *)
(* is the abstract one of module Throttle: a rate per process.             *)
(***************************************************************************)
EXTENDS Naturals, FiniteSets

CONSTANTS
    Pids,            \* process ids, without 0
    Spellings,       \* spellings of executable paths
    normalize_path,  \* models.rs: the normal form of a spelling
    Rates,           \* limits a client may ask for
    Clients,         \* IPC connections, each served by its own task
    Kinds,           \* the requests the clients make
    MaxEntries,      \* size of the driver's table
    SweepThreshold,  \* PUSHED_SWEEP_THRESHOLD
    MaxRequests,     \* bound: requests of all clients together
    MaxExits,        \* bound: process exits
    MaxStops         \* bound: stops and crashes of the service

NoPath == "no path"
Dead == "dead"
Paths == {normalize_path[s] : s \in Spellings}

ASSUME SyncAssumption ==
    /\ 0 \notin Pids /\ IsFiniteSet(Pids)
    /\ Rates \subseteq Nat \ {0}
    /\ normalize_path \in [Spellings -> Spellings]
    /\ {NoPath, Dead} \cap Spellings = {}
    /\ \A s \in Spellings : normalize_path[normalize_path[s]] = normalize_path[s]
    /\ Kinds \subseteq {"limit", "disable", "remove", "global", "settings"}
    /\ {MaxEntries, SweepThreshold, MaxRequests, MaxExits, MaxStops} \subseteq Nat

VARIABLES
    path_limits,     \* path_limits: a rate per path, 0 when there is none
    global,          \* global: the switch and the rate
    pushed,          \* pushed: the path recorded for a pid, a partial map
    kernel,          \* the driver's throttle table, pid 0 is the global entry
    db_limits,       \* the enabled rows of process_bandwidth_limits
    db_global,       \* the global limit in the settings row
    proc,            \* what each process id runs
    loop,            \* the event loop inside sync_event
    client,          \* each client's request
    service,         \* "up", "stopping" or "down"
    requests, exits, stops

config == <<path_limits, global>>
db == <<db_limits, db_global>>
budget == <<requests, exits, stops>>
vars == <<path_limits, global, pushed, kernel, db_limits, db_global, proc,
          loop, client, service, requests, exits, stops>>

Settings == [enabled : BOOLEAN, rate : Rates \cup {0}]
Off == [enabled |-> FALSE, rate |-> 0]
Entries == Pids \cup {0}
Recorded == DOMAIN pushed
Normal(path) == IF path = NoPath THEN NoPath ELSE normalize_path[path]

Polling == [pc |-> "poll", pid |-> 0, path |-> NoPath, rate |-> 0]
IdleClient == [pc |-> "idle", kind |-> "none", path |-> NoPath, to |-> Off,
               dead |-> {}, pids |-> {}, rate |-> 0]

Requests ==
    {[kind |-> "limit", path |-> s, to |-> [enabled |-> TRUE, rate |-> r]] :
        s \in Spellings, r \in Rates}
    \cup {[kind |-> k, path |-> s, to |-> Off] : k \in {"disable", "remove"}, s \in Spellings}
    \cup {[kind |-> k, path |-> NoPath, to |-> g] : k \in {"global", "settings"}, g \in Settings}

Init ==
    /\ path_limits = [q \in Paths |-> 0] /\ db_limits = path_limits
    /\ global = Off /\ db_global = Off
    /\ pushed = << >>
    /\ kernel = [p \in Entries |-> 0]
    /\ proc = [p \in Pids |-> Dead]
    /\ loop = Polling
    /\ client = [c \in Clients |-> IdleClient]
    /\ service = "up"
    /\ requests = 0 /\ exits = 0 /\ stops = 0

-----------------------------------------------------------------------------
(* The driver: IOCTL_SET_THROTTLE, IOCTL_CLEAR_THROTTLE, process exit.     *)

Accepts(p, r) ==
    \/ r = 0
    \/ kernel[p] # 0
    \/ Cardinality({e \in Entries : kernel[e] # 0}) < MaxEntries

set_throttle(p, r) == kernel' = [kernel EXCEPT ![p] = r]

ProcessStart(p) ==
    /\ proc[p] = Dead
    /\ \E s \in Spellings : proc' = [proc EXCEPT ![p] = s]
    /\ UNCHANGED <<config, pushed, kernel, db, loop, client, service, budget>>

ProcessExit(p) ==
    /\ proc[p] # Dead /\ exits < MaxExits
    /\ proc' = [proc EXCEPT ![p] = Dead]
    /\ set_throttle(p, 0)
    /\ exits' = exits + 1
    /\ UNCHANGED <<config, pushed, db, loop, client, service, requests, stops>>

-----------------------------------------------------------------------------
(* sync_event, called by the event loop for every connection event.        *)

\* An event carries the path of its process or none at all.
GetEvent(p, path) ==
    /\ service = "up" /\ loop.pc = "poll"
    /\ proc[p] # Dead
    /\ loop' = [Polling EXCEPT !.pc = "lookup", !.pid = p, !.path = path]
    /\ UNCHANGED <<config, pushed, kernel, db, proc, client, service, budget>>

GlobalInForce == global.enabled /\ global.rate > 0

\* A mutant: the event's spelling is looked up as it is.
DesiredRaw(path) ==
    IF path \in Paths /\ path_limits[path] > 0
    THEN path_limits[path]
    ELSE IF GlobalInForce THEN global.rate ELSE 0

Desired(path) ==
    IF Normal(path) # NoPath /\ path_limits[Normal(path)] > 0
    THEN path_limits[Normal(path)]
    ELSE IF GlobalInForce THEN global.rate ELSE 0

SyncLookup ==
    /\ service # "down" /\ loop.pc = "lookup"
    /\ loop' = IF Desired(loop.path) = 0 THEN Polling
               ELSE [loop EXCEPT !.pc = "push", !.rate = Desired(loop.path)]
    /\ UNCHANGED <<config, pushed, kernel, db, proc, client, service, budget>>

SyncPush ==
    /\ service # "down" /\ loop.pc = "push"
    /\ \/ /\ Accepts(loop.pid, loop.rate)
          /\ set_throttle(loop.pid, loop.rate)
          /\ loop' = [loop EXCEPT !.pc = "record"]
       \/ /\ ~Accepts(loop.pid, loop.rate)
          /\ loop' = Polling /\ UNCHANGED kernel
    /\ UNCHANGED <<config, pushed, db, proc, client, service, budget>>

SyncRecord ==
    /\ service # "down" /\ loop.pc = "record"
    /\ pushed' = [p \in Recorded \cup {loop.pid} |->
                    IF p = loop.pid THEN Normal(loop.path) ELSE pushed[p]]
    /\ loop' = Polling
    /\ UNCHANGED <<config, kernel, db, proc, client, service, budget>>

-----------------------------------------------------------------------------
(* Requests of the IPC clients.                                            *)

normalize_global_limit(g) ==
    [g EXCEPT !.enabled = g.enabled /\ g.rate > 0]

PerPath(c) == client[c].kind \in {"limit", "disable", "remove"}
At(c, pc) == service # "down" /\ client[c].pc = pc
Moves(c, pc) == client' = [client EXCEPT ![c].pc = pc]

\* SetProcessBandwidthLimit and UpdateSettings write the database before they
\* reconfigure; a failure of the database stops only UpdateSettings.
PersistFirst(r) ==
    \/ /\ r.kind \in {"limit", "disable"}
       /\ \/ db_limits' = [db_limits EXCEPT ![Normal(r.path)] = r.to.rate]
          \/ UNCHANGED db_limits
       /\ UNCHANGED db_global
    \/ /\ r.kind = "settings"
       /\ db_global' = r.to /\ UNCHANGED db_limits
    \/ /\ r.kind \in {"remove", "global"}
       /\ UNCHANGED db

\* sweep_dead_pids, first half: the dead are collected under one lock.
Request(c) ==
    /\ service = "up" /\ client[c].pc = "idle" /\ requests < MaxRequests
    /\ \E r \in {q \in Requests : q.kind \in Kinds} :
        /\ PersistFirst(r)
        /\ client' = [client EXCEPT ![c] =
             [IdleClient EXCEPT !.pc = "configure", !.kind = r.kind, !.path = Normal(r.path),
                !.to = IF r.kind = "global" THEN normalize_global_limit(r.to) ELSE r.to,
                !.dead = IF Cardinality(Recorded) <= SweepThreshold THEN {}
                         ELSE {p \in Recorded : proc[p] = Dead}]]
    /\ requests' = requests + 1
    /\ UNCHANGED <<config, pushed, kernel, proc, loop, service, exits, stops>>

\* The dead are removed under a second lock, then the configuration changes.
\* Removing a limit that does not exist ends update_path_limit at once.
Configure(c) ==
    /\ At(c, "configure")
    /\ pushed' = [p \in Recorded \ client[c].dead |-> pushed[p]]
    /\ IF PerPath(c)
       THEN /\ path_limits' = [path_limits EXCEPT ![client[c].path] = client[c].to.rate]
            /\ Moves(c, IF client[c].to.rate = 0 /\ path_limits[client[c].path] = 0
                        THEN "finish" ELSE "collect")
            /\ UNCHANGED global
       ELSE /\ global' = client[c].to
            /\ Moves(c, "push")
            /\ UNCHANGED path_limits
    /\ UNCHANGED <<kernel, db, proc, loop, service, budget>>

\* The retractions follow a limit that no longer exists.
AfterPush(c) == IF client[c].to.enabled /\ client[c].to.rate > 0 THEN "finish" ELSE "collect"

\* A mutant: a limit that is switched off is not pushed either.
PushGlobalOnlyEnabled(c) ==
    /\ At(c, "push")
    /\ IF ~GlobalInForce
       THEN Moves(c, AfterPush(c))
       ELSE client' = [client EXCEPT ![c].pc = "pushing", ![c].rate = global.rate]
    /\ UNCHANGED <<config, pushed, kernel, db, proc, loop, service, budget>>

\* push_global reads the setting; a switch that is on with no rate leaves the
\* driver's table alone.
PushGlobal(c) ==
    /\ At(c, "push")
    /\ IF global.enabled /\ global.rate = 0
       THEN Moves(c, AfterPush(c))
       ELSE client' = [client EXCEPT ![c].pc = "pushing",
                         ![c].rate = IF global.enabled THEN global.rate ELSE 0]
    /\ UNCHANGED <<config, pushed, kernel, db, proc, loop, service, budget>>

PushGlobalEntry(c) ==
    /\ At(c, "pushing")
    /\ IF Accepts(0, client[c].rate) THEN set_throttle(0, client[c].rate) ELSE UNCHANGED kernel
    /\ Moves(c, AfterPush(c))
    /\ UNCHANGED <<config, pushed, db, proc, loop, service, budget>>

\* update_path_limit retracts the entries recorded for its path, update_global
\* the ones recorded with no path.
Collect(c) ==
    /\ At(c, "collect")
    /\ LET pids == {p \in Recorded : pushed[p] = client[c].path}
       IN  client' = [client EXCEPT ![c].pids = pids,
                        ![c].pc = IF pids = {} THEN "finish" ELSE "retract"]
    /\ UNCHANGED <<config, pushed, kernel, db, proc, loop, service, budget>>

Retract(c) ==
    /\ At(c, "retract")
    /\ \E p \in client[c].pids :
        /\ set_throttle(p, 0)
        /\ client' = [client EXCEPT ![c].pc = "forget", ![c].rate = p]
    /\ UNCHANGED <<config, pushed, db, proc, loop, service, budget>>

Forget(c) ==
    /\ At(c, "forget")
    /\ pushed' = [p \in Recorded \ {client[c].rate} |-> pushed[p]]
    /\ LET left == client[c].pids \ {client[c].rate}
       IN  client' = [client EXCEPT ![c].pids = left, ![c].rate = 0,
                        ![c].pc = IF left = {} THEN "finish" ELSE "retract"]
    /\ UNCHANGED <<config, kernel, db, proc, loop, service, budget>>

\* Removing a limit and SetGlobalBandwidthLimit write the database last.
Finish(c) ==
    /\ At(c, "finish")
    /\ client' = [client EXCEPT ![c] = IdleClient]
    /\ \/ /\ client[c].kind = "remove"
          /\ db_limits' = [db_limits EXCEPT ![client[c].path] = 0]
          /\ UNCHANGED db_global
       \/ /\ client[c].kind = "global"
          /\ db_global' = client[c].to
          /\ UNCHANGED db_limits
       \/ UNCHANGED db
    /\ UNCHANGED <<config, pushed, kernel, proc, loop, service, budget>>

-----------------------------------------------------------------------------
(* The service's life: stop clears the driver's table and closes the       *)
(* driver, a crash does neither, start restores the configuration.         *)

ClearKernel ==
    /\ service = "up" /\ stops < MaxStops
    /\ service' = "stopping"
    /\ kernel' = [p \in Entries |-> 0]
    /\ pushed' = << >>
    /\ stops' = stops + 1
    /\ UNCHANGED <<config, db, proc, loop, client, requests, exits>>

Down ==
    /\ service' = "down"
    /\ path_limits' = [q \in Paths |-> 0] /\ global' = Off
    /\ pushed' = << >>
    /\ loop' = Polling /\ client' = [c \in Clients |-> IdleClient]
    /\ UNCHANGED <<kernel, db, proc, requests, exits>>

Close == service = "stopping" /\ Down /\ UNCHANGED stops

Crash ==
    /\ service = "up" /\ stops < MaxStops
    /\ stops' = stops + 1
    /\ Down

\* start() restores the limits and pushes the global entry before any task runs.
Start ==
    /\ service = "down"
    /\ service' = "up"
    /\ path_limits' = db_limits
    /\ global' = normalize_global_limit(db_global)
    /\ LET r == IF global'.enabled THEN global'.rate ELSE 0
       IN  IF Accepts(0, r) THEN set_throttle(0, r) ELSE UNCHANGED kernel
    /\ UNCHANGED <<pushed, db, proc, loop, client, budget>>

-----------------------------------------------------------------------------
ClientStep(c) ==
    \/ Configure(c) \/ PushGlobal(c) \/ PushGlobalEntry(c)
    \/ Collect(c) \/ Retract(c) \/ Forget(c) \/ Finish(c)

LoopStep == SyncLookup \/ SyncPush \/ SyncRecord

Next ==
    \/ \E p \in Pids : ProcessStart(p) \/ ProcessExit(p)
    \/ \E p \in Pids : GetEvent(p, proc[p]) \/ GetEvent(p, NoPath)
    \/ LoopStep
    \/ \E c \in Clients : Request(c) \/ ClientStep(c)
    \/ ClearKernel \/ Close \/ Crash \/ Start

Spec == Init /\ [][Next]_vars

\* Tasks are scheduled fairly, a stopped service is started again, and a live
\* process goes on opening connections whose events carry its path.
Fairness ==
    /\ WF_vars(LoopStep)
    /\ \A c \in Clients : WF_vars(ClientStep(c))
    /\ WF_vars(Close) /\ WF_vars(Start)
    /\ \A p \in Pids : SF_vars(GetEvent(p, proc[p]))

FairSpec == Spec /\ Fairness

-----------------------------------------------------------------------------
Reconfiguring(c) == client[c].pc \in {"push", "pushing"} /\ ~PerPath(c)
Quiet == service = "up" /\ loop.pc = "poll" /\ \A c \in Clients : client[c].pc = "idle"

(* While no client is changing it, the driver's pid-0 entry is the global  *)
(* limit of the settings, after a crash too: start() pushes it even when   *)
(* it is off, and only that removes what a crashed service left behind.    *)
(* A full table can only refuse the entry.  A switch that is on with both  *)
(* rates 0 is left out: push_global then leaves the old entry in place.    *)
GlobalFollowsSetting ==
    (/\ service = "up"
     /\ \A c \in Clients : ~Reconfiguring(c)
     /\ global.enabled => global.rate > 0)
    => \/ kernel[0] = (IF global.enabled THEN global.rate ELSE 0)
       \/ kernel[0] = 0 /\ MaxEntries <= Cardinality(Pids)

(* A live process whose path keeps a limit ends up with that limit in the  *)
(* driver, whatever races with the request that set it and however the     *)
(* path is spelled on either side, while no global limit interferes.       *)
LimitReachesKernel ==
    \A p \in Pids, r \in Rates :
        <>[](/\ service = "up" /\ proc[p] # Dead
             /\ path_limits[Normal(proc[p])] = r
             /\ ~GlobalInForce)
        => <>[](kernel[p] = r)

=============================================================================
