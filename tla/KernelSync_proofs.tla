-------------------------- MODULE KernelSync_proofs --------------------------
(***************************************************************************)
(* What two tables that are kept in step show for every value of the       *)
(* constants.                                                              *)
(*                                                                         *)
(* KernelSync: the driver's global entry follows the setting through       *)
(* requests, exits, stops, crashes and restarts, for any processes, paths, *)
(* rates, clients and table size.  Only the updates of the global limit    *)
(* must not overlap: two of them may push in the opposite order to the one *)
(* in which they set the limit (update_global holds no lock from one to    *)
(* the other), and then the driver keeps the older limit.                  *)
(*                                                                         *)
(* TrafficHistory: the history's account of a connection, for any keys,    *)
(* ring, numbers of bytes, connections, rounds and faults.                 *)
(***************************************************************************)
EXTENDS KernelSync, TrafficHistory, FiniteSetTheorems, SequenceTheorems, WellFoundedInduction, TLAPS

InForce == IF global.enabled THEN global.rate ELSE 0
Sensible == global.enabled => global.rate > 0

\* The updates of the global limit do not overlap.
OneReconfigures ==
  \A c, d \in Clients : Reconfiguring(c) /\ Reconfiguring(d) => c = d

(* What the steps read of the service's own state. *)
ServiceType ==
  /\ global \in Settings /\ db_global \in Settings
  /\ Recorded \subseteq Pids
  /\ DOMAIN loop = {"pc", "pid", "path", "rate"}
  /\ loop.pc \in {"lookup", "push", "record"} => loop.pid \in Pids
  /\ DOMAIN kernel = Entries

ClientStates ==
  [pc : {"idle", "configure", "push", "pushing", "collect", "retract", "forget", "finish"},
   kind : {"none", "limit", "disable", "remove", "global", "settings"},
   path : Paths \cup {NoPath}, to : Settings,
   dead : SUBSET Pids, pids : SUBSET Pids, rate : Rates \cup {0} \cup Pids]

ClientType == client \in [Clients -> ClientStates]

(* An update that has read the limit will push the limit of now, and the
   requests end with the service. *)
Pushes ==
  \A c \in Clients :
    /\ service = "down" => client[c].pc = "idle"
    /\ client[c].pc \in {"push", "pushing"} => ~PerPath(c)
    /\ client[c].pc = "pushing" => Sensible /\ client[c].rate = InForce
    /\ client[c].pc = "forget" => client[c].rate \in Pids

SyncInv == ServiceType /\ ClientType /\ Pushes /\ GlobalFollowsSetting

-----------------------------------------------------------------------------
(* A full table refuses only an entry that is not in it. *)
LEMMA Refused ==
  ASSUME DOMAIN kernel = Entries, NEW r, ~Accepts(0, r)
  PROVE  kernel[0] = 0 /\ MaxEntries <= Cardinality(Pids)
<1> DEFINE used == {e \in Entries : kernel[e] # 0}
<1>1. kernel[0] = 0 /\ ~(Cardinality(used) < MaxEntries)
  BY DEF Accepts
<1>2. used \subseteq Pids
  BY <1>1 DEF Entries
<1>3. IsFiniteSet(Pids) /\ MaxEntries \in Nat
  BY SyncAssumption
<1>4. /\ Cardinality(used) <= Cardinality(Pids)
      /\ Cardinality(used) \in Nat /\ Cardinality(Pids) \in Nat
  <2>1. IsFiniteSet(used) /\ Cardinality(used) <= Cardinality(Pids)
    BY <1>2, <1>3, FS_Subset
  <2> QED
    BY <1>3, <2>1, FS_CardinalityType
<1> HIDE DEF used
<1> QED
  BY <1>1, <1>3, <1>4

(* What a step that touches neither the global entry nor the setting keeps. *)
LEMMA Unsettled ==
  ASSUME GlobalFollowsSetting, kernel'[0] = kernel[0], global' = global,
         service' = "up" => service = "up",
         \A c \in Clients : Reconfiguring(c) => Reconfiguring(c)'
  PROVE  GlobalFollowsSetting'
  BY DEF GlobalFollowsSetting

LEMMA OtherEntry ==
  ASSUME NEW p \in Pids, NEW r, DOMAIN kernel = Entries, set_throttle(p, r)
  PROVE  kernel'[0] = kernel[0] /\ DOMAIN kernel' = Entries
  BY SyncAssumption DEF set_throttle, Entries

LEMMA GlobalEntry ==
  ASSUME NEW r, DOMAIN kernel = Entries,
         IF Accepts(0, r) THEN set_throttle(0, r) ELSE UNCHANGED kernel
  PROVE  /\ DOMAIN kernel' = Entries
         /\ kernel'[0] = r \/ (kernel'[0] = 0 /\ MaxEntries <= Cardinality(Pids))
<1>1. CASE Accepts(0, r)
  BY <1>1 DEF set_throttle, Entries
<1>2. CASE ~Accepts(0, r)
  BY <1>2, Refused
<1> QED
  BY <1>1, <1>2

LEMMA InitSync == Init => SyncInv
<1> SUFFICES ASSUME Init PROVE SyncInv
  OBVIOUS
<1> USE DEF Init
<1>1. ServiceType
  BY DEF ServiceType, Recorded, Off, Settings, Polling
<1>2. ClientType /\ Pushes
  BY DEF ClientType, ClientStates, Pushes, IdleClient, Off, Settings
<1>3. GlobalFollowsSetting
  BY DEF GlobalFollowsSetting, Off, Entries
<1> QED
  BY <1>1, <1>2, <1>3 DEF SyncInv

(* Processes and the event loop touch the entries of processes alone. *)
LEMMA OthersKeep ==
  ASSUME SyncInv,
         \/ \E p \in Pids : ProcessStart(p) \/ ProcessExit(p)
         \/ \E p \in Pids : GetEvent(p, proc[p]) \/ GetEvent(p, NoPath)
         \/ LoopStep
  PROVE  SyncInv'
<1>1. UNCHANGED <<config, db, client, service>>
  BY DEF ProcessStart, ProcessExit, GetEvent, LoopStep, SyncLookup, SyncPush, SyncRecord
<1>2. ServiceType' /\ kernel'[0] = kernel[0]
  <2>1. CASE \E p \in Pids : ProcessStart(p) \/ ProcessExit(p)
    BY <1>1, <2>1, OtherEntry DEF SyncInv, ServiceType, Recorded, ProcessStart, ProcessExit, config, db
  <2>2. CASE \E p \in Pids : GetEvent(p, proc[p]) \/ GetEvent(p, NoPath)
    BY <1>1, <2>2 DEF SyncInv, ServiceType, Recorded, GetEvent, Polling, config, db
  <2>3. CASE SyncLookup
    BY <1>1, <2>3 DEF SyncInv, ServiceType, Recorded, SyncLookup, Polling, config, db
  <2>4. CASE SyncPush
    BY <1>1, <2>4, OtherEntry DEF SyncInv, ServiceType, Recorded, SyncPush, Polling, config, db
  <2>5. CASE SyncRecord
    BY <1>1, <2>5 DEF SyncInv, ServiceType, Recorded, SyncRecord, Polling, config, db
  <2> QED
    BY <2>1, <2>2, <2>3, <2>4, <2>5 DEF LoopStep
<1>3. ClientType' /\ Pushes'
  BY <1>1 DEF SyncInv, ClientType, Pushes, PerPath, Sensible, InForce, config
<1>4. GlobalFollowsSetting'
  BY <1>1, <1>2, Unsettled DEF SyncInv, Reconfiguring, PerPath, config
<1> QED
  BY <1>2, <1>3, <1>4 DEF SyncInv

(* A request changes what the database holds and who is under way. *)
LEMMA RequestKeeps ==
  ASSUME SyncInv, NEW c \in Clients, Request(c)
  PROVE  SyncInv'
<1>1. PICK r \in Requests :
        /\ PersistFirst(r)
        /\ client' = [client EXCEPT ![c] =
             [IdleClient EXCEPT !.pc = "configure", !.kind = r.kind, !.path = Normal(r.path),
                !.to = IF r.kind = "global" THEN normalize_global_limit(r.to) ELSE r.to,
                !.dead = IF Cardinality(Recorded) <= SweepThreshold THEN {}
                         ELSE {p \in Recorded : proc[p] = Dead}]]
  BY DEF Request
<1>2. /\ UNCHANGED <<config, pushed, kernel, proc, loop, service>>
      /\ client[c].pc = "idle" /\ service = "up"
  BY DEF Request
<1>3. /\ r.kind \in {"limit", "disable", "remove", "global", "settings"}
      /\ Normal(r.path) \in Paths \cup {NoPath} /\ r.to \in Settings
  <2>1. CASE \E p \in Spellings, q \in Rates :
               r = [kind |-> "limit", path |-> p, to |-> [enabled |-> TRUE, rate |-> q]]
    BY <2>1, SyncAssumption DEF Normal, Paths, Settings
  <2>2. CASE \E k \in {"disable", "remove"}, p \in Spellings :
               r = [kind |-> k, path |-> p, to |-> Off]
    BY <2>2, SyncAssumption DEF Normal, Paths, Settings, Off
  <2>3. CASE \E k \in {"global", "settings"}, g \in Settings :
               r = [kind |-> k, path |-> NoPath, to |-> g]
    BY <2>3, SyncAssumption DEF Normal, Settings
  <2> QED
    BY <2>1, <2>2, <2>3 DEF Requests
<1>4. normalize_global_limit(r.to) \in Settings
  BY <1>3 DEF normalize_global_limit, Settings
<1>5. db_global' \in Settings
  BY <1>1, <1>3 DEF PersistFirst, SyncInv, ServiceType, db
<1>6. ServiceType'
  BY <1>2, <1>5 DEF SyncInv, ServiceType, Recorded, config
<1>7. PICK n \in ClientStates : client' = [client EXCEPT ![c] = n] /\ n.pc = "configure"
  <2> DEFINE n == [IdleClient EXCEPT !.pc = "configure", !.kind = r.kind, !.path = Normal(r.path),
                     !.to = IF r.kind = "global" THEN normalize_global_limit(r.to) ELSE r.to,
                     !.dead = IF Cardinality(Recorded) <= SweepThreshold THEN {}
                              ELSE {p \in Recorded : proc[p] = Dead}]
  <2>1. n.dead \subseteq Pids
    BY DEF SyncInv, ServiceType, Recorded, IdleClient
  <2>2. n \in ClientStates /\ n.pc = "configure"
    BY <1>3, <1>4, <2>1 DEF ClientStates, IdleClient
  <2>3. client' = [client EXCEPT ![c] = n]
    BY <1>1
  <2> HIDE DEF n
  <2> QED
    BY <2>2, <2>3
<1>8. ClientType' /\ Pushes'
  BY <1>2, <1>7 DEF SyncInv, ClientType, Pushes, PerPath, Sensible, InForce, config
<1>9. GlobalFollowsSetting'
  <2>1. \A d \in Clients : Reconfiguring(d) => Reconfiguring(d)'
    BY <1>2, <1>7 DEF SyncInv, ClientType, Reconfiguring, PerPath
  <2> QED
    BY <1>2, <2>1, Unsettled DEF SyncInv, config
<1> QED
  BY <1>6, <1>8, <1>9 DEF SyncInv

(* The limit changes: from here to its push the update is under way, and no
   other one is. *)
LEMMA ConfigureKeeps ==
  ASSUME SyncInv, OneReconfigures', NEW c \in Clients, Configure(c)
  PROVE  SyncInv'
<1>1. /\ client[c].pc = "configure" /\ client[c] \in ClientStates
      /\ UNCHANGED <<kernel, db, proc, loop, service>>
      /\ pushed' = [p \in Recorded \ client[c].dead |-> pushed[p]]
  BY DEF Configure, At, SyncInv, ClientType
<1>2. CASE PerPath(c)
  <2>1. PICK pc \in {"finish", "collect"} : client' = [client EXCEPT ![c].pc = pc]
    BY <1>2 DEF Configure, Moves
  <2>2. global' = global
    BY <1>2 DEF Configure
  <2>3. ServiceType'
    BY <1>1, <2>2 DEF SyncInv, ServiceType, Recorded, db
  <2>4. ClientType' /\ Pushes'
    BY <1>1, <2>1, <2>2
       DEF SyncInv, ClientType, ClientStates, Pushes, PerPath, Sensible, InForce
  <2>5. \A d \in Clients : Reconfiguring(d) => Reconfiguring(d)'
    BY <1>1, <2>1 DEF SyncInv, ClientType, Reconfiguring, PerPath
  <2>6. GlobalFollowsSetting'
    BY <1>1, <2>2, <2>5, Unsettled DEF SyncInv
  <2> QED
    BY <2>3, <2>4, <2>6 DEF SyncInv
<1>3. CASE ~PerPath(c)
  <2>1. global' = client[c].to /\ client' = [client EXCEPT ![c].pc = "push"]
    BY <1>3 DEF Configure, Moves
  <2>2. ServiceType'
    BY <1>1, <2>1 DEF SyncInv, ServiceType, Recorded, ClientStates, db
  <2>3. ClientType'
    BY <1>1, <2>1 DEF SyncInv, ClientType, ClientStates
  <2>4. Reconfiguring(c)' /\ \A d \in Clients : d # c => client'[d] = client[d]
    BY <1>3, <2>1 DEF SyncInv, ClientType, Reconfiguring, PerPath
  <2>5. Pushes'
    <3>1. \A d \in Clients : d # c => ~(client[d].pc = "pushing")
      BY <2>4 DEF SyncInv, Pushes, OneReconfigures, Reconfiguring, PerPath
    <3> QED
      BY <1>1, <1>3, <2>1, <2>4, <3>1 DEF SyncInv, ClientType, ClientStates, Pushes, PerPath
  <2>6. GlobalFollowsSetting'
    BY <2>4 DEF GlobalFollowsSetting
  <2> QED
    BY <2>2, <2>3, <2>5, <2>6 DEF SyncInv
<1> QED
  BY <1>2, <1>3

(* The push reads the limit of now, and nothing changes it before the entry
   is written. *)
LEMMA PushKeeps ==
  ASSUME SyncInv, OneReconfigures, NEW c \in Clients,
         PushGlobal(c) \/ PushGlobalEntry(c)
  PROVE  SyncInv'
<1>1. /\ client[c].pc \in {"push", "pushing"} /\ ~PerPath(c) /\ client[c] \in ClientStates
      /\ UNCHANGED <<config, pushed, db, proc, loop, service>>
  BY DEF PushGlobal, PushGlobalEntry, At, SyncInv, Pushes, ClientType
<1>2. \A d \in Clients : d # c => ~Reconfiguring(d)
  BY <1>1 DEF OneReconfigures, Reconfiguring
<1>3. PICK pc \in {"finish", "collect"} : pc = AfterPush(c)
  BY DEF AfterPush
<1>4. InForce \in Rates \cup {0} /\ Rates \subseteq Nat \ {0}
  BY SyncAssumption DEF InForce, SyncInv, ServiceType, Recorded, Settings
<1>5. CASE PushGlobal(c) /\ ~Sensible
  <2>1. client' = [client EXCEPT ![c].pc = pc] /\ kernel' = kernel
    BY <1>3, <1>4, <1>5 DEF PushGlobal, Moves, Sensible, SyncInv, ServiceType, Recorded, Settings
  <2>2. ServiceType' /\ ClientType' /\ Pushes'
    BY <1>1, <2>1 DEF SyncInv, ServiceType, Recorded, ClientType, ClientStates, Pushes, PerPath,
                      Sensible, InForce, config, db
  <2>3. GlobalFollowsSetting'
    BY <1>1, <1>5 DEF GlobalFollowsSetting, Sensible, config
  <2> QED
    BY <2>2, <2>3 DEF SyncInv
<1>6. CASE PushGlobal(c) /\ Sensible
  <2>1. client' = [client EXCEPT ![c].pc = "pushing", ![c].rate = InForce] /\ kernel' = kernel
    BY <1>6 DEF PushGlobal, Sensible, InForce
  <2>2. ServiceType'
    BY <1>1, <2>1 DEF SyncInv, ServiceType, Recorded, config, db
  <2>3. ClientType' /\ Pushes'
    BY ZenonT(60), <1>1, <1>4, <1>6, <2>1 DEF SyncInv, ClientType, ClientStates, Pushes, PerPath,
                                  Sensible, InForce, config
  <2>4. Reconfiguring(c)'
    BY <1>1, <2>1 DEF Reconfiguring, PerPath, SyncInv, ClientType, ClientStates
  <2>5. GlobalFollowsSetting'
    BY <2>4 DEF GlobalFollowsSetting
  <2> QED
    BY <2>2, <2>3, <2>5 DEF SyncInv
<1>7. CASE PushGlobalEntry(c)
  <2>1. /\ client' = [client EXCEPT ![c].pc = pc] /\ Sensible /\ client[c].rate = InForce
        /\ IF Accepts(0, client[c].rate) THEN set_throttle(0, client[c].rate)
           ELSE UNCHANGED kernel
    BY <1>3, <1>7 DEF PushGlobalEntry, At, Moves, SyncInv, Pushes
  <2>2. /\ DOMAIN kernel' = Entries
        /\ kernel'[0] = InForce \/ (kernel'[0] = 0 /\ MaxEntries <= Cardinality(Pids))
    BY <2>1, GlobalEntry DEF SyncInv, ServiceType, Recorded
  <2>3. ServiceType'
    BY <1>1, <2>2 DEF SyncInv, ServiceType, Recorded, config, db
  <2>4. ClientType' /\ Pushes'
    BY <1>1, <2>1 DEF SyncInv, ClientType, ClientStates, Pushes, PerPath,
                      Sensible, InForce, config
  <2>5. GlobalFollowsSetting'
    BY <1>1, <2>2 DEF GlobalFollowsSetting, InForce, config
  <2> QED
    BY <2>3, <2>4, <2>5 DEF SyncInv
<1> QED
  BY <1>5, <1>6, <1>7

(* The rest of a request retracts entries of processes. *)
LEMMA RetractKeeps ==
  ASSUME SyncInv, NEW c \in Clients,
         Collect(c) \/ Retract(c) \/ Forget(c) \/ Finish(c)
  PROVE  SyncInv'
<1>1. /\ client[c].pc \in {"collect", "retract", "forget", "finish"} /\ client[c] \in ClientStates
      /\ UNCHANGED <<config, proc, loop, service>>
  BY DEF Collect, Retract, Forget, Finish, At, SyncInv, ClientType
<1>2. PICK n \in ClientStates :
        /\ client' = [client EXCEPT ![c] = n]
        /\ n.pc \in {"finish", "retract", "forget", "idle"}
        /\ n.pc = "forget" => n.rate \in Pids
  <2>1. CASE Collect(c)
    <3> DEFINE pids == {p \in Recorded : pushed[p] = client[c].path}
               n == [client[c] EXCEPT !.pids = pids,
                       !.pc = IF pids = {} THEN "finish" ELSE "retract"]
    <3>1. client' = [client EXCEPT ![c] = n]
      BY <2>1 DEF Collect, SyncInv, ClientType
    <3>2. pids \subseteq Pids
      BY DEF SyncInv, ServiceType, Recorded
    <3> HIDE DEF pids
    <3>3. n \in ClientStates /\ n.pc \in {"finish", "retract"}
      BY <1>1, <3>2 DEF ClientStates
    <3> HIDE DEF n
    <3> QED
      BY <3>1, <3>3
  <2>2. CASE Retract(c)
    <3>1. PICK p \in client[c].pids :
            client' = [client EXCEPT ![c].pc = "forget", ![c].rate = p]
      BY <2>2 DEF Retract
    <3> DEFINE n == [client[c] EXCEPT !.pc = "forget", !.rate = p]
    <3>2. client' = [client EXCEPT ![c] = n]
      BY <3>1 DEF SyncInv, ClientType
    <3>3. p \in Pids
      BY <1>1, <3>1 DEF ClientStates
    <3>4. n \in ClientStates /\ n.pc = "forget" /\ n.rate \in Pids
      BY <1>1, <3>3 DEF ClientStates
    <3> HIDE DEF n
    <3> QED
      BY <3>2, <3>4
  <2>3. CASE Forget(c)
    <3> DEFINE left == client[c].pids \ {client[c].rate}
               n == [client[c] EXCEPT !.pids = left, !.rate = 0,
                       !.pc = IF left = {} THEN "finish" ELSE "retract"]
    <3>1. client' = [client EXCEPT ![c] = n]
      BY <2>3 DEF Forget, SyncInv, ClientType
    <3>2. left \subseteq Pids
      BY <1>1 DEF ClientStates
    <3> HIDE DEF left
    <3>3. n \in ClientStates /\ n.pc \in {"finish", "retract"}
      BY <1>1, <3>2 DEF ClientStates
    <3> HIDE DEF n
    <3> QED
      BY <3>1, <3>3
  <2>4. CASE Finish(c)
    <3>1. IdleClient \in ClientStates /\ IdleClient.pc = "idle"
      BY DEF IdleClient, ClientStates, Settings, Off
    <3> QED
      BY <2>4, <3>1 DEF Finish
  <2> QED
    BY <2>1, <2>2, <2>3, <2>4
<1>3. ServiceType' /\ kernel'[0] = kernel[0]
  <2>1. CASE Collect(c)
    BY <1>1, <2>1 DEF SyncInv, ServiceType, Recorded, Collect, config, db
  <2>2. CASE Retract(c)
    <3>1. PICK p \in Pids : set_throttle(p, 0)
      BY <1>1, <2>2 DEF Retract, ClientStates
    <3>2. UNCHANGED <<pushed, db>>
      BY <2>2 DEF Retract
    <3> QED
      BY <1>1, <3>1, <3>2, OtherEntry DEF SyncInv, ServiceType, Recorded, config, db
  <2>3. CASE Forget(c)
    BY <1>1, <2>3 DEF SyncInv, ServiceType, Recorded, Forget, config, db
  <2>4. CASE Finish(c)
    <3>1. db_global' \in Settings
      BY <1>1, <2>4 DEF Finish, SyncInv, ServiceType, Recorded, ClientStates, db
    <3> QED
      BY <1>1, <2>4, <3>1 DEF SyncInv, ServiceType, Recorded, Finish, config
  <2> QED
    BY <2>1, <2>2, <2>3, <2>4
<1>4. ClientType' /\ Pushes'
  BY <1>1, <1>2 DEF SyncInv, ClientType, Pushes, PerPath, Sensible, InForce, config
<1>5. GlobalFollowsSetting'
  <2>1. \A d \in Clients : Reconfiguring(d) => Reconfiguring(d)'
    BY <1>1, <1>2 DEF SyncInv, ClientType, Reconfiguring, PerPath
  <2> QED
    BY <1>1, <1>3, <2>1, Unsettled DEF SyncInv, config
<1> QED
  BY <1>3, <1>4, <1>5 DEF SyncInv

(* A stop clears the table, a crash leaves it behind, and a start writes the
   global entry whether the limit is on or off. *)
LEMMA LifeKeeps ==
  ASSUME SyncInv, ClearKernel \/ Close \/ Crash \/ Start
  PROVE  SyncInv'
<1>1. CASE ClearKernel
  <2>1. ServiceType'
    BY <1>1 DEF ClearKernel, SyncInv, ServiceType, Recorded, config, db
  <2>2. ClientType' /\ Pushes'
    BY <1>1 DEF ClearKernel, SyncInv, ClientType, Pushes, PerPath, Sensible, InForce, config
  <2>3. GlobalFollowsSetting'
    BY <1>1 DEF ClearKernel, GlobalFollowsSetting
  <2> QED
    BY <2>1, <2>2, <2>3 DEF SyncInv
<1>2. CASE Down
  <2>1. ServiceType'
    BY <1>2 DEF Down, SyncInv, ServiceType, Recorded, Off, Settings, Polling, db
  <2>2. ClientType' /\ Pushes'
    BY <1>2 DEF Down, ClientType, ClientStates, Pushes, IdleClient, Off, Settings
  <2>3. GlobalFollowsSetting'
    BY <1>2 DEF Down, GlobalFollowsSetting
  <2> QED
    BY <2>1, <2>2, <2>3 DEF SyncInv
<1>3. CASE Start
  <2>1. /\ global' = normalize_global_limit(db_global) /\ db_global \in Settings
        /\ UNCHANGED <<pushed, db, proc, loop, client>>
    BY <1>3 DEF Start, SyncInv, ServiceType, Recorded
  <2>2. global' \in Settings /\ Sensible'
    BY <2>1 DEF normalize_global_limit, Settings, Sensible
  <2>3. /\ DOMAIN kernel' = Entries
        /\ kernel'[0] = InForce' \/ (kernel'[0] = 0 /\ MaxEntries <= Cardinality(Pids))
    <3>1. PICK r : /\ r = InForce'
                   /\ IF Accepts(0, r) THEN set_throttle(0, r) ELSE UNCHANGED kernel
      BY <1>3 DEF Start, InForce
    <3> QED
      BY <3>1, GlobalEntry DEF SyncInv, ServiceType, Recorded
  <2>4. ServiceType'
    BY <2>1, <2>2, <2>3 DEF SyncInv, ServiceType, Recorded, db
  <2>5. ClientType' /\ Pushes'
    BY <1>3, <2>1 DEF Start, SyncInv, ClientType, Pushes, PerPath
  <2>6. GlobalFollowsSetting'
    BY <2>3 DEF GlobalFollowsSetting, InForce
  <2> QED
    BY <2>4, <2>5, <2>6 DEF SyncInv
<1> QED
  BY <1>1, <1>2, <1>3 DEF Close, Crash

LEMMA StepSync == SyncInv /\ OneReconfigures /\ OneReconfigures' /\ [Next]_vars => SyncInv'
<1> SUFFICES ASSUME SyncInv, OneReconfigures, OneReconfigures', [Next]_vars
             PROVE  SyncInv'
  OBVIOUS
<1>1. CASE \/ \E p \in Pids : ProcessStart(p) \/ ProcessExit(p)
           \/ \E p \in Pids : GetEvent(p, proc[p]) \/ GetEvent(p, NoPath)
           \/ LoopStep
  BY <1>1, OthersKeep
<1>2. CASE \E c \in Clients : Request(c)
  BY <1>2, RequestKeeps
<1>3. CASE \E c \in Clients : ClientStep(c)
  BY <1>3, ConfigureKeeps, PushKeeps, RetractKeeps DEF ClientStep
<1>4. CASE ClearKernel \/ Close \/ Crash \/ Start
  BY <1>4, LifeKeeps
<1>5. CASE UNCHANGED vars
  <2>1. ServiceType'
    BY <1>5 DEF vars, SyncInv, ServiceType, Recorded
  <2>2. ClientType' /\ Pushes'
    BY <1>5 DEF vars, SyncInv, ClientType, Pushes, PerPath, Sensible, InForce
  <2>3. GlobalFollowsSetting'
    BY <1>5 DEF vars, SyncInv, GlobalFollowsSetting, Reconfiguring, PerPath
  <2> QED
    BY <2>1, <2>2, <2>3 DEF SyncInv
<1> QED
  BY <1>1, <1>2, <1>3, <1>4, <1>5 DEF Next

(* Whatever the clients, the loop, the processes and the life of the service
   do, the driver enforces the global limit of the settings, as long as two
   updates of that limit never overlap. *)
THEOREM GlobalLimitInForce == Spec /\ []OneReconfigures => []GlobalFollowsSetting
<1>1. Init => SyncInv
  BY InitSync
<1>2. SyncInv /\ OneReconfigures /\ OneReconfigures' /\ [Next]_vars => SyncInv'
  BY StepSync
<1>3. SyncInv => GlobalFollowsSetting
  BY DEF SyncInv
<1> QED
  BY <1>1, <1>2, <1>3, PTL DEF Spec

(* While requests come over a single connection, served one after the other,
   nothing else is needed. *)
THEOREM GlobalLimitOneClient ==
  ASSUME \A c, d \in Clients : c = d
  PROVE  Spec => []GlobalFollowsSetting
<1>1. OneReconfigures
  BY DEF OneReconfigures
<1> QED
  BY <1>1, GlobalLimitInForce, PTL

-----------------------------------------------------------------------------
(***************************************************************************)
(* The account of a key.  The connections of a key follow each other, and  *)
(* so do their Closes: those up to some n are accounted for, the others    *)
(* are due.  What is recorded stands between the bytes of the connections  *)
(* before n and those up to n; of which connection baseline, copy and      *)
(* table are then decides how much may still be added for it.  The         *)
(* function total gives the bytes sent up to the end of each connection,   *)
(* so that no sum over connections is needed.                              *)
(***************************************************************************)
Reasons == {"lost", "failed", "raced", "forgot", "stale", "restart"}
Sample == [bytes : Nat, open : Nat]
Collecting == {Asleep, [pc |-> "gc"]} \cup [pc : {"update"}, stats : [Keys -> Sample \cup {None}]]
Processing == {Idle} \cup [pc : {"track", "record"}, event : Event]

HistoryType ==
  /\ fifo \in [{"net"} -> Seq(Event)]
  /\ flow \in [Keys -> [state : {"closed", "established", "half closed"}, bytes : Nat, opens : 0 .. MaxOpens]]
  /\ connections \in [Keys -> [bytes : Nat, age : Nat, open : Nat] \cup {None}]
  /\ collector \in Collecting
  /\ snapshot # None => snapshot \in [Keys -> Nat \cup {None}]
  /\ last_snapshot \in [Keys -> Nat \cup {None}]
  /\ processor \in Processing
  /\ sent \in [Keys -> 0 .. MaxBytes] /\ recorded \in [Keys -> Nat]
  /\ cause \in [Keys -> SUBSET Reasons]

(* The event in hand, and the events that are not yet processed. *)
InHand(k) == {e \in Event : processor # Idle /\ e = processor.event /\ e.key = k}
InRing(k) == {e \in Event : e.key = k /\ \E i \in 1 .. Len(fifo["net"]) : fifo["net"][i] = e}
Pending(k) == InHand(k) \cup InRing(k)

Before(d, e) == d.open < e.open \/ (d.open = e.open /\ d.action = "Allow" /\ e.action = "Close")
Follow(q) == \A i, j \in 1 .. Len(q) : i < j /\ q[i].key = q[j].key => Before(q[i], q[j])
InOrder ==
  /\ Follow(fifo["net"])
  /\ \A k \in Keys : \A d \in InHand(k), e \in InRing(k) : Before(d, e)

(* The connections of k that have not been accounted for. *)
Ended(k) == {n \in 1 .. MaxOpens : \E e \in Pending(k) : e.action = "Close" /\ e.open = n}
Due(k) == {n \in 1 .. MaxOpens : n \in Ended(k) \/ (flow[k].state # "closed" /\ n = flow[k].opens)}

Stat(k) == IF collector.pc = "update" THEN collector.stats[k] ELSE None
T(k) == connections[k]
Copied(k) == snapshot # None /\ snapshot[k] # None

(* total[n]: bytes sent up to the end of the n-th connection. *)
Totals(k, total) ==
  /\ total[0] = 0
  /\ \A m, n \in Nat : m <= n => total[m] <= total[n]
  /\ \A n \in Nat : n >= flow[k].opens => total[n] = sent[k]
  /\ flow[k].opens > 0 => total[flow[k].opens - 1] + flow[k].bytes = total[flow[k].opens]
  /\ flow[k].opens = 0 => flow[k].state = "closed"

Events(k, total) ==
  /\ \A e \in Pending(k) :
       /\ e.open <= flow[k].opens
       /\ e.action = "Close" => /\ e.open < flow[k].opens \/ flow[k].state = "closed"
                                /\ total[e.open - 1] + e.bytes = total[e.open]
       /\ T(k) # None => e.open >= T(k).open /\ (e.action = "Allow" => e.open > T(k).open)
  /\ \A e \in InRing(k) : e.action = "Allow" => e.open \in Due(k)
  /\ processor # Idle /\ processor.pc = "record" /\ processor.event.key = k =>
       processor.event.action = "Close" /\ T(k) = None

Samples(k, total) ==
  /\ T(k) # None => T(k).open \in 1 .. flow[k].opens
  /\ Stat(k) # None => /\ Stat(k).open \in 1 .. flow[k].opens
                       /\ total[Stat(k).open - 1] + Stat(k).bytes <= total[Stat(k).open]

(* The n-th connection of k is the first that is due. *)
First(k, n) ==
  /\ n \in 1 .. flow[k].opens + 1
  /\ \A m \in Due(k) : n <= m
  /\ n <= flow[k].opens => n \in Due(k)
  /\ cause[k] \cap {"lost", "restart"} = {} => \A m \in n .. flow[k].opens : m \in Due(k)

AtLeast(k, total, n) ==
  cause[k] \cap {"failed", "lost", "restart"} = {} => recorded[k] >= total[n - 1] + Baseline(k)

(* What the baseline is about to be, and what the table says. *)
Copy(k) == IF snapshot = None THEN Baseline(k) ELSE IF snapshot[k] = None THEN 0 ELSE snapshot[k]
Tabled(k) == IF T(k) = None THEN 0 ELSE T(k).bytes

(* The processor has heard of the n-th connection. *)
Heard(k, n) == \A e \in Pending(k) : e.action = "Allow" => e.open > n

(* Bytes of an earlier connection may yet come into the table. *)
Late(k, n) ==
  /\ Stat(k) # None /\ Stat(k).bytes > 0 /\ Stat(k).open < n
  /\ \/ T(k) # None /\ T(k).open = Stat(k).open
     \/ \E e \in InHand(k) : e.action = "Allow" /\ e.open = Stat(k).open
Coming(k, n) == IF Late(k, n) THEN SatSub(Stat(k).bytes, Tabled(k)) ELSE 0

TableCurrent(k, total, n) ==
  /\ ~Late(k, n)
  /\ T(k) # None =>
       /\ T(k).open = n /\ T(k).bytes <= total[n] - total[n - 1]
       /\ Stat(k) # None /\ Stat(k).bytes > 0 /\ Stat(k).open = n => T(k).bytes <= Stat(k).bytes

(* Whether baseline, copy and table are of the n-th connection, or of earlier
   ones: all three are; the copy and the table; the table; none is. *)
AllCurrent(k, total, n) ==
  /\ recorded[k] <= total[n - 1] + Baseline(k) /\ Baseline(k) <= total[n] - total[n - 1]
  /\ Copied(k) => Baseline(k) <= snapshot[k] /\ snapshot[k] <= total[n] - total[n - 1]
  /\ TableCurrent(k, total, n)
  /\ T(k) # None => Copy(k) <= T(k).bytes
  /\ last_snapshot[k] # None \/ Copied(k) => Heard(k, n)
  /\ T(k) # None /\ snapshot # None /\ snapshot[k] = None => last_snapshot[k] = None
CopyCurrent(k, total, n) ==
  /\ recorded[k] <= total[n - 1]
  /\ Copied(k) /\ snapshot[k] <= total[n] - total[n - 1]
  /\ TableCurrent(k, total, n)
  /\ T(k) # None => Copy(k) <= T(k).bytes
  /\ Heard(k, n)
OnlyTableCurrent(k, total, n) ==
  /\ recorded[k] + SatSub(Copy(k), Baseline(k)) <= total[n - 1]
  /\ TableCurrent(k, total, n)
NoneCurrent(k, total, n) ==
  recorded[k] + SatSub(Copy(k), Baseline(k)) + SatSub(Tabled(k), Copy(k)) + Coming(k, n) <= total[n - 1]

Undisturbed(k) == cause[k] \cap {"raced", "forgot", "stale", "restart"} = {}
AtMost(k, total, n) ==
  Undisturbed(k) =>
    \/ AllCurrent(k, total, n) \/ CopyCurrent(k, total, n)
    \/ OnlyTableCurrent(k, total, n) \/ NoneCurrent(k, total, n)

KeyInv(k, total, n) ==
  /\ Totals(k, total) /\ Events(k, total) /\ Samples(k, total) /\ First(k, n)
  /\ AtLeast(k, total, n) /\ AtMost(k, total, n)

Accounts == \A k \in Keys : \E total \in [Nat -> Nat], n \in Nat : KeyInv(k, total, n)

HistInv == HistoryType /\ InOrder /\ Accounts

-----------------------------------------------------------------------------
(* The events of a key. *)
LEMMA RingShape ==
  ASSUME HistoryType
  PROVE  /\ fifo["net"] \in Seq(Event)
         /\ \A i \in 1 .. Len(fifo["net"]) : fifo["net"][i] \in Event
         /\ \A e \in Event : e.key \in Keys /\ e.open \in Nat /\ e.bytes \in Nat /\ e.action \in {"Allow", "Close"}
         /\ \A e \in Event : e.open >= 1
<1>1. fifo["net"] \in Seq(Event)
  BY DEF HistoryType
<1>2. MaxBytes \in Nat /\ MaxOpens \in Nat
  BY HistoryAssumption
<1>3. \A e \in Event : /\ e.key \in Keys /\ e.open \in 1 .. MaxOpens /\ e.bytes \in 0 .. MaxBytes
                       /\ e.action \in {"Allow", "Close"}
  BY DEF Event
<1> QED
  BY <1>1, <1>2, <1>3

LEMMA BeforeIsOrder ==
  ASSUME NEW d \in Event, NEW e \in Event
  PROVE  ~(Before(d, e) /\ Before(e, d)) /\ ~Before(d, d)
  BY HistoryAssumption DEF Before, Event

LEMMA Dropped ==
  ASSUME NEW q \in Seq(Event), Len(q) # 0, Follow(q)
  PROVE  /\ Tail(q) \in Seq(Event) /\ Len(Tail(q)) = Len(q) - 1
         /\ \A i \in 1 .. Len(Tail(q)) : Tail(q)[i] = q[i + 1]
         /\ Head(q) \in Event /\ Head(q) = q[1]
         /\ Follow(Tail(q))
         /\ \A i \in 1 .. Len(Tail(q)) : Tail(q)[i].key = Head(q).key => Before(Head(q), Tail(q)[i])
<1>1. /\ Len(q) \in Nat /\ q # << >> /\ \A i \in 1 .. Len(q) : q[i] \in Event
  OBVIOUS
<1>2. /\ Tail(q) \in Seq(Event) /\ Len(Tail(q)) = Len(q) - 1
      /\ \A i \in 1 .. Len(Tail(q)) : Tail(q)[i] = q[i + 1]
      /\ Head(q) \in Event /\ Head(q) = q[1]
  BY <1>1, HeadTailProperties
<1>3. \A i \in 1 .. Len(Tail(q)) : i \in Nat /\ i + 1 \in 1 .. Len(q) /\ 1 < i + 1
  BY <1>1, <1>2
<1>4. Follow(Tail(q))
  BY <1>1, <1>2, <1>3 DEF Follow
<1>5. ASSUME NEW i \in 1 .. Len(Tail(q)), Tail(q)[i].key = Head(q).key
      PROVE  Before(Head(q), Tail(q)[i])
  <2>1. 1 \in 1 .. Len(q) /\ i + 1 \in 1 .. Len(q) /\ 1 < i + 1 /\ q[i + 1] = Tail(q)[i] /\ q[1] = Head(q)
    BY <1>1, <1>2, <1>3
  <2> QED
    BY <1>5, <2>1 DEF Follow
<1> QED
  BY <1>2, <1>4, <1>5

LEMMA Appended ==
  ASSUME NEW q \in Seq(Event), NEW e \in Event, Follow(q),
         \A i \in 1 .. Len(q) : q[i].key = e.key => Before(q[i], e)
  PROVE  /\ Append(q, e) \in Seq(Event) /\ Len(Append(q, e)) = Len(q) + 1
         /\ \A i \in 1 .. Len(q) : Append(q, e)[i] = q[i]
         /\ Append(q, e)[Len(q) + 1] = e
         /\ Follow(Append(q, e))
<1> DEFINE r == Append(q, e)
<1>1. /\ r \in Seq(Event) /\ Len(r) = Len(q) + 1 /\ Len(q) \in Nat
      /\ \A i \in 1 .. Len(q) : r[i] = q[i]
      /\ r[Len(q) + 1] = e
  BY AppendProperties
<1> HIDE DEF r
<1>2. Follow(r)
  <2> SUFFICES ASSUME NEW i \in 1 .. Len(r), NEW j \in 1 .. Len(r), i < j, r[i].key = r[j].key
               PROVE  Before(r[i], r[j])
    BY DEF Follow
  <2>1. i \in 1 .. Len(q) /\ r[i] = q[i]
    BY <1>1
  <2>2. CASE j \in 1 .. Len(q)
    BY <1>1, <2>1, <2>2 DEF Follow
  <2>3. CASE j = Len(q) + 1
    BY <1>1, <2>1, <2>3
  <2> QED
    BY <1>1, <2>2, <2>3
<1> QED
  BY <1>1, <1>2 DEF r

Added(k, e) == {x \in {e} : x.key = k}

(* A full ring gives up the first of the events of some key. *)
GivesUp(h, e) ==
  /\ h \in Event /\ h \in InRing(h.key) /\ h.key \in Keys
  /\ \A d \in InRing(h.key) : d = h \/ Before(h, d)
  /\ \A k \in Keys : InRing(k)' = (InRing(k) \ {h}) \cup Added(k, e)
  /\ cause' = [k \in Keys |-> IF k = h.key THEN cause[k] \cup {"lost"} ELSE cause[k]]

LEMMA Reported ==
  ASSUME HistoryType, InOrder, NEW e \in Event, Report(e), processor' = processor,
         \A d \in Pending(e.key) : Before(d, e)
  PROVE  /\ fifo' \in [{"net"} -> Seq(Event)] /\ InOrder'
         /\ \A k \in Keys : InHand(k)' = InHand(k)
         /\ \/ UNCHANGED cause /\ \A k \in Keys : InRing(k)' = InRing(k) \cup Added(k, e)
            \/ \E h \in Event : GivesUp(h, e)
<1> DEFINE q == fifo["net"]
           r == IF Len(q) = Limit THEN Tail(q) ELSE q
<1>1. q \in Seq(Event) /\ \A i \in 1 .. Len(q) : q[i] \in Event /\ q[i].key \in Keys
  BY RingShape
<1>2. fifo' = [fifo EXCEPT !["net"] = Append(r, e)] /\ fifo \in [{"net"} -> Seq(Event)]
  BY DEF Report, Ring!Put, HistoryType
<1>3. fifo'["net"] = Append(r, e)
  BY <1>2
<1>4. \A i \in 1 .. Len(q) : q[i].key = e.key => Before(q[i], e)
  <2> SUFFICES ASSUME NEW i \in 1 .. Len(q), q[i].key = e.key PROVE Before(q[i], e)
    OBVIOUS
  <2>1. q[i] \in Event
    BY <1>1
  <2>2. q[i] \in InRing(e.key)
    BY <2>1 DEF InRing
  <2> QED
    BY <2>2 DEF Pending
<1>5. Follow(q) /\ Len(q) \in Nat /\ Limit \in Nat /\ Limit # 0
  BY <1>1, HistoryAssumption DEF InOrder
<1>6. \A k \in Keys : InHand(k)' = InHand(k)
  BY DEF InHand
<1>7. CASE Len(q) # Limit
  <2>1. fifo'["net"] = Append(q, e)
    BY <1>3, <1>7
  <2> HIDE DEF r
  <2>2. /\ fifo'["net"] \in Seq(Event) /\ Len(fifo'["net"]) = Len(q) + 1
        /\ \A i \in 1 .. Len(q) : fifo'["net"][i] = q[i]
        /\ fifo'["net"][Len(q) + 1] = e
        /\ Follow(fifo'["net"])
    <3> HIDE DEF q
    <3>1. q \in Seq(Event) /\ Follow(q)
      BY <1>1, <1>5
    <3> QED
      BY <1>4, <2>1, <3>1, Appended
  <2>3. ASSUME NEW k \in Keys
        PROVE  InRing(k)' = InRing(k) \cup Added(k, e)
    <3>1. ASSUME NEW x \in InRing(k)'
          PROVE  x \in InRing(k) \cup Added(k, e)
      <4>1. x \in Event /\ x.key = k /\ \E i \in 1 .. Len(q) + 1 : fifo'["net"][i] = x
        BY <3>1, <2>2 DEF InRing
      <4>2. PICK i \in 1 .. Len(q) + 1 : fifo'["net"][i] = x
        BY <4>1
      <4>3. CASE i = Len(q) + 1
        BY <4>1, <4>2, <4>3, <2>2 DEF Added
      <4>4. CASE i \in 1 .. Len(q)
        <5>1. q[i] = x
          BY <4>2, <4>4, <2>2
        <5> QED
          BY <4>1, <4>4, <5>1 DEF InRing
      <4> QED
        BY <1>5, <4>3, <4>4
    <3>2. ASSUME NEW x \in InRing(k)
          PROVE  x \in InRing(k)'
      <4>1. x \in Event /\ x.key = k /\ \E i \in 1 .. Len(q) : q[i] = x
        BY <3>2 DEF InRing
      <4>2. PICK i \in 1 .. Len(q) : q[i] = x
        BY <4>1
      <4>3. i \in 1 .. Len(fifo'["net"]) /\ fifo'["net"][i] = x
        BY <1>5, <2>2, <4>2
      <4> QED
        BY <4>1, <4>3 DEF InRing
    <3>3. ASSUME NEW x \in Added(k, e)
          PROVE  x \in InRing(k)'
      <4>1. x = e /\ x.key = k /\ Len(q) + 1 \in 1 .. Len(fifo'["net"]) /\ fifo'["net"][Len(q) + 1] = x
        BY <3>3, <1>5, <2>2 DEF Added
      <4> QED
        BY <4>1 DEF InRing
    <3> QED
      BY <3>1, <3>2, <3>3
  <2>4. UNCHANGED cause
    BY <1>7 DEF Report
  <2>5. InOrder'
    <3>1. ASSUME NEW k \in Keys, NEW d \in InHand(k)', NEW x \in InRing(k)'
          PROVE  Before(d, x)
      <4>1. d \in InHand(k) /\ (x \in InRing(k) \/ (x = e /\ e.key = k))
        BY <1>6, <2>3, <3>1 DEF Added
      <4> QED
        BY <4>1 DEF InOrder, Pending
    <3> QED
      BY <2>2, <3>1 DEF InOrder
  <2> QED
    BY <1>2, <1>6, <2>2, <2>3, <2>4, <2>5
<1>8. CASE Len(q) = Limit
  <2> DEFINE h == Head(q)
  <2>0. r = Tail(q) /\ Len(q) # 0
    BY <1>5, <1>8
  <2>1. /\ r \in Seq(Event) /\ Len(r) = Len(q) - 1
        /\ \A i \in 1 .. Len(r) : r[i] = q[i + 1]
        /\ h \in Event /\ h = q[1]
        /\ Follow(r)
        /\ \A i \in 1 .. Len(r) : r[i].key = h.key => Before(h, r[i])
    <3> HIDE DEF q
    <3>1. q \in Seq(Event) /\ Follow(q) /\ Len(q) # 0
      BY <1>1, <1>5, <2>0
    <3> QED
      BY <2>0, <3>1, Dropped DEF h
  <2> HIDE DEF r
  <2>2. \A i \in 1 .. Len(r) : r[i].key = e.key => Before(r[i], e)
    <3> SUFFICES ASSUME NEW i \in 1 .. Len(r), r[i].key = e.key PROVE Before(r[i], e)
      OBVIOUS
    <3>1. r[i] = q[i + 1] /\ i + 1 \in 1 .. Len(q)
      BY <1>5, <2>1
    <3> QED
      BY <1>4, <3>1
  <2>3. /\ fifo'["net"] \in Seq(Event) /\ Len(fifo'["net"]) = Len(r) + 1
        /\ \A i \in 1 .. Len(r) : fifo'["net"][i] = r[i]
        /\ fifo'["net"][Len(r) + 1] = e
        /\ Follow(fifo'["net"])
    BY <1>3, <2>1, <2>2, Appended
  <2>4. Len(r) \in Nat /\ h.key \in Keys
    BY <2>1, <1>5, RingShape
  <2>5. ASSUME NEW k \in Keys
        PROVE  InRing(k)' = (InRing(k) \ {h}) \cup Added(k, e)
    <3>1. ASSUME NEW x \in InRing(k)'
          PROVE  x \in (InRing(k) \ {h}) \cup Added(k, e)
      <4>1. x \in Event /\ x.key = k /\ \E i \in 1 .. Len(r) + 1 : fifo'["net"][i] = x
        BY <3>1, <2>3 DEF InRing
      <4>2. PICK i \in 1 .. Len(r) + 1 : fifo'["net"][i] = x
        BY <4>1
      <4>3. CASE i = Len(r) + 1
        BY <4>1, <4>2, <4>3, <2>3 DEF Added
      <4>4. CASE i \in 1 .. Len(r)
        <5>1. r[i] = x /\ q[i + 1] = x /\ i + 1 \in 1 .. Len(q)
          BY <4>2, <4>4, <2>1, <2>3, <1>5
        <5>2. x \in InRing(k)
          BY <4>1, <5>1 DEF InRing
        <5>3. x # h
          BY <4>1, <4>4, <5>1, <2>1, BeforeIsOrder
        <5> QED
          BY <5>2, <5>3
      <4> QED
        BY <2>4, <4>3, <4>4
    <3>2. ASSUME NEW x \in InRing(k), x # h
          PROVE  x \in InRing(k)'
      <4>1. x \in Event /\ x.key = k /\ \E i \in 1 .. Len(q) : q[i] = x
        BY <3>2 DEF InRing
      <4>2. PICK i \in 1 .. Len(q) : q[i] = x
        BY <4>1
      <4>3. i # 1
        BY <2>1, <3>2, <4>2
      <4>4. i - 1 \in 1 .. Len(r) /\ (i - 1) + 1 = i
        BY <1>5, <2>1, <4>2, <4>3
      <4>5. r[i - 1] = x
        BY <2>1, <4>2, <4>4
      <4>6. i - 1 \in 1 .. Len(fifo'["net"]) /\ fifo'["net"][i - 1] = x
        BY <2>3, <2>4, <4>4, <4>5
      <4> QED
        BY <4>1, <4>6 DEF InRing
    <3>3. ASSUME NEW x \in Added(k, e)
          PROVE  x \in InRing(k)'
      <4>1. x = e /\ x.key = k /\ Len(r) + 1 \in 1 .. Len(fifo'["net"]) /\ fifo'["net"][Len(r) + 1] = x
        BY <3>3, <2>3, <2>4 DEF Added
      <4> QED
        BY <4>1 DEF InRing
    <3> QED
      BY <3>1, <3>2, <3>3
  <2>6. h \in InRing(h.key)
    <3>1. 1 \in 1 .. Len(q) /\ q[1] = h /\ h \in Event
      BY <1>5, <2>0, <2>1
    <3> QED
      BY <3>1 DEF InRing
  <2>7. ASSUME NEW d \in InRing(h.key), d # h
        PROVE  Before(h, d)
    <3>1. d.key = h.key /\ \E i \in 1 .. Len(q) : q[i] = d
      BY <2>7 DEF InRing
    <3>2. PICK i \in 1 .. Len(q) : q[i] = d
      BY <3>1
    <3>3. i # 1
      BY <2>1, <2>7, <3>2
    <3>4. i - 1 \in 1 .. Len(r) /\ (i - 1) + 1 = i
      BY <1>5, <2>1, <3>2, <3>3
    <3>5. r[i - 1] = d
      BY <2>1, <3>2, <3>4
    <3> QED
      BY <2>1, <3>1, <3>4, <3>5
  <2>8. cause' = [k \in Keys |-> IF k = h.key THEN cause[k] \cup {"lost"} ELSE cause[k]]
    BY <1>8 DEF Report, Blame
  <2>9. GivesUp(h, e)
    BY <2>1, <2>4, <2>5, <2>6, <2>7, <2>8 DEF GivesUp
  <2>10. InOrder'
    <3>1. ASSUME NEW k \in Keys, NEW d \in InHand(k)', NEW x \in InRing(k)'
          PROVE  Before(d, x)
      <4>1. d \in InHand(k) /\ (x \in InRing(k) \/ (x = e /\ e.key = k))
        BY <1>6, <2>5, <3>1 DEF Added
      <4> QED
        BY <4>1 DEF InOrder, Pending
    <3> QED
      BY <2>3, <3>1 DEF InOrder
  <2> QED
    BY <1>2, <1>6, <2>1, <2>3, <2>9, <2>10
<1> QED
  BY <1>7, <1>8

(* The processor takes the first event. *)
LEMMA Taken ==
  ASSUME HistoryType, InOrder, get_event
  PROVE  /\ fifo' \in [{"net"} -> Seq(Event)] /\ processor' \in Processing /\ InOrder'
         /\ \A k \in Keys : InHand(k) = {} /\ Pending(k)' = Pending(k) /\ InRing(k)' \subseteq InRing(k)
                            /\ InHand(k)' \subseteq InRing(k)
<1> DEFINE q == fifo["net"]
           h == Head(q)
<1>1. q \in Seq(Event) /\ \A i \in 1 .. Len(q) : q[i] \in Event /\ q[i].key \in Keys
  BY RingShape
<1>2. /\ fifo' = [fifo EXCEPT !["net"] = Tail(q)] /\ fifo \in [{"net"} -> Seq(Event)] /\ q # << >>
      /\ processor = Idle /\ processor' = [pc |-> "track", event |-> h]
  BY DEF get_event, Ring!Take, HistoryType
<1>3. fifo'["net"] = Tail(q) /\ Len(q) # 0 /\ Len(q) \in Nat /\ Follow(q)
  BY <1>1, <1>2 DEF InOrder
<1> DEFINE r == fifo'["net"]
<1>4. /\ r \in Seq(Event) /\ Len(r) = Len(q) - 1
      /\ \A i \in 1 .. Len(r) : r[i] = q[i + 1]
      /\ h \in Event /\ h = q[1]
      /\ Follow(r)
      /\ \A i \in 1 .. Len(r) : r[i].key = h.key => Before(h, r[i])
  BY <1>1, <1>3, Dropped
<1>5. processor' \in Processing /\ processor' # Idle /\ processor'.event = h
  BY <1>2, <1>4 DEF Processing, Idle
<1>6. \A k \in Keys : InHand(k)' = Added(k, h) /\ InHand(k) = {}
  BY <1>2, <1>4, <1>5 DEF InHand, Added
<1> HIDE DEF h
<1>7. ASSUME NEW k \in Keys
      PROVE  /\ InRing(k)' \subseteq InRing(k) /\ Added(k, h) \subseteq InRing(k)
             /\ InRing(k) \subseteq InRing(k)' \cup Added(k, h)
  <2>1. ASSUME NEW x \in InRing(k)'
        PROVE  x \in InRing(k)
    <3>1. x \in Event /\ x.key = k /\ \E i \in 1 .. Len(r) : r[i] = x
      BY <2>1 DEF InRing
    <3>2. PICK i \in 1 .. Len(r) : r[i] = x
      BY <3>1
    <3>3. i + 1 \in 1 .. Len(q) /\ q[i + 1] = x
      BY <1>3, <1>4, <3>2
    <3> QED
      BY <3>1, <3>3 DEF InRing
  <2>2. ASSUME NEW x \in Added(k, h)
        PROVE  x \in InRing(k)
    <3>1. x \in Event /\ x.key = k /\ 1 \in 1 .. Len(q) /\ q[1] = x
      BY <2>2, <1>3, <1>4 DEF Added
    <3> QED
      BY <3>1 DEF InRing
  <2>3. ASSUME NEW x \in InRing(k)
        PROVE  x \in InRing(k)' \cup Added(k, h)
    <3>1. x \in Event /\ x.key = k /\ \E i \in 1 .. Len(q) : q[i] = x
      BY <2>3 DEF InRing
    <3>2. PICK i \in 1 .. Len(q) : q[i] = x
      BY <3>1
    <3>3. CASE i = 1
      BY <1>4, <3>1, <3>2, <3>3 DEF Added
    <3>4. CASE i # 1
      <4>1. i - 1 \in 1 .. Len(r) /\ (i - 1) + 1 = i
        BY <1>3, <1>4, <3>2, <3>4
      <4>2. r[i - 1] = x
        BY <1>4, <3>2, <4>1
      <4> QED
        BY <3>1, <4>1, <4>2 DEF InRing
    <3> QED
      BY <3>3, <3>4
  <2> QED
    BY <2>1, <2>2, <2>3
<1>8. InOrder'
  <2>1. ASSUME NEW k \in Keys, NEW d \in InHand(k)', NEW x \in InRing(k)'
        PROVE  Before(d, x)
    <3>1. d = h /\ h.key = k
      BY <1>6, <2>1 DEF Added
    <3>2. x \in Event /\ x.key = k /\ \E i \in 1 .. Len(r) : r[i] = x
      BY <2>1 DEF InRing
    <3> QED
      BY <1>4, <3>1, <3>2
  <2> QED
    BY <1>4, <2>1 DEF InOrder
<1>9. fifo' \in [{"net"} -> Seq(Event)]
  BY <1>2, <1>3, <1>4
<1> QED
  BY <1>5, <1>6, <1>7, <1>8, <1>9 DEF Pending

-----------------------------------------------------------------------------
(* The account of one key. *)
LEMMA Shapes ==
  ASSUME HistoryType, NEW k \in Keys
  PROVE  /\ flow[k].state \in {"closed", "established", "half closed"}
         /\ flow[k].bytes \in Nat /\ flow[k].opens \in Nat /\ flow[k].opens <= MaxOpens
         /\ T(k) # None => T(k).bytes \in Nat /\ T(k).open \in Nat /\ T(k).age \in Nat
         /\ Stat(k) # None => Stat(k).bytes \in Nat /\ Stat(k).open \in Nat
         /\ Copied(k) => snapshot[k] \in Nat
         /\ last_snapshot[k] # None => last_snapshot[k] \in Nat
         /\ Baseline(k) \in Nat /\ Copy(k) \in Nat /\ Tabled(k) \in Nat
         /\ sent[k] \in Nat /\ recorded[k] \in Nat /\ cause[k] \subseteq Reasons
<1>1. MaxOpens \in Nat /\ MaxBytes \in Nat /\ None \notin Nat
  BY HistoryAssumption
<1>2. /\ flow[k].state \in {"closed", "established", "half closed"}
      /\ flow[k].bytes \in Nat /\ flow[k].opens \in Nat /\ flow[k].opens <= MaxOpens
  <2>1. /\ flow[k].state \in {"closed", "established", "half closed"}
        /\ flow[k].bytes \in Nat /\ flow[k].opens \in 0 .. MaxOpens
    BY DEF HistoryType
  <2>2. flow[k].opens \in Nat /\ flow[k].opens <= MaxOpens
    <3> DEFINE o == flow[k].opens
    <3>1. o \in 0 .. MaxOpens
      BY <2>1
    <3> HIDE DEF o
    <3>2. o \in Nat /\ o <= MaxOpens
      BY <1>1, <3>1
    <3> QED
      BY <3>2 DEF o
  <2> QED
    BY <2>1, <2>2
<1>3. T(k) # None => T(k).bytes \in Nat /\ T(k).open \in Nat /\ T(k).age \in Nat
  BY DEF HistoryType, T
<1>4. Stat(k) # None => Stat(k).bytes \in Nat /\ Stat(k).open \in Nat
  <2>1. CASE collector.pc = "update"
    <3>1. collector \in [pc : {"update"}, stats : [Keys -> Sample \cup {None}]]
      <4>1. collector \in Collecting
        BY DEF HistoryType
      <4>2. Asleep.pc # "update" /\ [pc |-> "gc"].pc # "update"
        BY DEF Asleep
      <4> QED
        BY <2>1, <4>1, <4>2 DEF Collecting
    <3>2. Stat(k) = collector.stats[k] /\ collector.stats[k] \in Sample \cup {None}
      BY <2>1, <3>1 DEF Stat
    <3> QED
      BY <3>2 DEF Sample
  <2>2. CASE collector.pc # "update"
    BY <2>2 DEF Stat
  <2> QED
    BY <2>1, <2>2
<1>5. /\ Copied(k) => snapshot[k] \in Nat
      /\ last_snapshot[k] # None => last_snapshot[k] \in Nat
      /\ Baseline(k) \in Nat /\ Copy(k) \in Nat
  BY DEF HistoryType, Copied, Copy, Baseline
<1>6. Tabled(k) \in Nat
  BY <1>3 DEF Tabled
<1>7. sent[k] \in Nat /\ recorded[k] \in Nat /\ cause[k] \subseteq Reasons
  <2>1. sent[k] \in 0 .. MaxBytes /\ recorded[k] \in Nat /\ cause[k] \subseteq Reasons
    BY DEF HistoryType
  <2> QED
    BY <1>1, <2>1
<1> QED
  BY <1>2, <1>3, <1>4, <1>5, <1>6, <1>7

LEMMA TotalNats ==
  ASSUME NEW k, NEW total \in [Nat -> Nat], NEW n \in Nat, Totals(k, total), First(k, n), flow[k].opens \in Nat
  PROVE  /\ total[n - 1] \in Nat /\ total[n] \in Nat /\ total[n - 1] <= total[n] /\ n >= 1 /\ n - 1 \in Nat
         /\ n = flow[k].opens + 1 => total[n] = total[n - 1] /\ total[n] = sent[k]
<1>1. n >= 1 /\ n - 1 \in Nat /\ n - 1 <= n
  BY DEF First
<1>2. total[n - 1] \in Nat /\ total[n] \in Nat
  BY <1>1
<1>3. total[n - 1] <= total[n]
  BY <1>1 DEF Totals
<1>4. n = flow[k].opens + 1 => total[n] = total[n - 1] /\ total[n] = sent[k]
  BY <1>1 DEF Totals
<1> QED
  BY <1>1, <1>2, <1>3, <1>4

LEMMA ComingNat ==
  ASSUME HistoryType, NEW k \in Keys, NEW n
  PROVE  Coming(k, n) \in Nat
<1>1. Tabled(k) \in Nat /\ (Stat(k) # None => Stat(k).bytes \in Nat)
  BY Shapes
<1>2. Late(k, n) => Stat(k) # None
  BY DEF Late
<1> QED
  BY <1>1, <1>2 DEF Coming, SatSub

LEMMA Numbers ==
  ASSUME HistoryType, NEW k \in Keys, NEW total \in [Nat -> Nat], NEW n \in Nat, Totals(k, total), First(k, n)
  PROVE  /\ recorded[k] \in Nat /\ total[n] \in Nat /\ total[n - 1] \in Nat /\ total[n - 1] <= total[n]
         /\ Copy(k) \in Nat /\ Baseline(k) \in Nat /\ Tabled(k) \in Nat /\ Coming(k, n) \in Nat
         /\ SatSub(Copy(k), Baseline(k)) \in Nat /\ SatSub(Tabled(k), Copy(k)) \in Nat
<1>1. /\ flow[k].opens \in Nat /\ recorded[k] \in Nat
      /\ Copy(k) \in Nat /\ Baseline(k) \in Nat /\ Tabled(k) \in Nat
  BY Shapes
<1>2. total[n - 1] \in Nat /\ total[n] \in Nat /\ total[n - 1] <= total[n]
  BY <1>1, TotalNats
<1> QED
  BY <1>1, <1>2, ComingNat DEF SatSub

LEMMA AtMostStill ==
  ASSUME HistoryType, NEW k \in Keys, NEW total \in [Nat -> Nat], NEW n \in Nat,
         Totals(k, total), First(k, n), AtMost(k, total, n),
         recorded'[k] = recorded[k], cause[k] \subseteq cause'[k],
         T(k)' = T(k), Stat(k)' = Stat(k), Late(k, n)' => Late(k, n),
         last_snapshot'[k] = last_snapshot[k], snapshot' = snapshot,
         Heard(k, n)' \/ ~Heard(k, n) \/ ~Undisturbed(k) \/ NoneCurrent(k, total, n)
  PROVE  AtMost(k, total, n)'
<1> SUFFICES ASSUME Undisturbed(k)'
             PROVE  \/ AllCurrent(k, total, n)' \/ CopyCurrent(k, total, n)'
                    \/ OnlyTableCurrent(k, total, n)' \/ NoneCurrent(k, total, n)'
  BY DEF AtMost
<1>1. Undisturbed(k)
  BY DEF Undisturbed
<1>2. TableCurrent(k, total, n) => TableCurrent(k, total, n)'
  BY DEF TableCurrent
<1>3. Baseline(k)' = Baseline(k) /\ Copy(k)' = Copy(k) /\ Tabled(k)' = Tabled(k) /\ (Copied(k)' <=> Copied(k))
  BY DEF Baseline, Copy, Tabled, Copied
<1>4. CASE NoneCurrent(k, total, n)
  <2>1. Late(k, n)' /\ Late(k, n) => Coming(k, n)' = Coming(k, n)
    BY <1>3 DEF Coming
  <2>2. ~Late(k, n)' => Coming(k, n)' = 0
    BY DEF Coming
  <2>3. Coming(k, n) \in Nat /\ Coming(k, n)' \in Nat /\ Coming(k, n)' <= Coming(k, n)
    BY <2>1, <2>2, ComingNat DEF Coming
  <2>4. /\ SatSub(Copy(k), Baseline(k))' = SatSub(Copy(k), Baseline(k))
        /\ SatSub(Tabled(k), Copy(k))' = SatSub(Tabled(k), Copy(k))
    BY <1>3 DEF SatSub
  <2>5. /\ recorded[k] \in Nat /\ total[n - 1] \in Nat
        /\ SatSub(Copy(k), Baseline(k)) \in Nat /\ SatSub(Tabled(k), Copy(k)) \in Nat
    BY Numbers
  <2> QED
    BY <1>4, <2>3, <2>4, <2>5 DEF NoneCurrent
<1>5. CASE Heard(k, n)' \/ ~Heard(k, n)
  <2>3. CASE AllCurrent(k, total, n)
    BY <1>2, <1>3, <1>5, <2>3 DEF AllCurrent
  <2>4. CASE CopyCurrent(k, total, n)
    BY <1>2, <1>3, <1>5, <2>4 DEF CopyCurrent
  <2>5. CASE OnlyTableCurrent(k, total, n)
    BY <1>2, <1>3, <2>5 DEF OnlyTableCurrent
  <2> QED
    BY <1>1, <1>4, <2>3, <2>4, <2>5 DEF AtMost
<1> QED
  BY <1>1, <1>4, <1>5

(* When nothing is due, nothing current is left. *)
LEMMA NoneDue ==
  ASSUME HistoryType, NEW k \in Keys, NEW total \in [Nat -> Nat], NEW n \in Nat,
         KeyInv(k, total, n), Undisturbed(k), n = flow[k].opens + 1
  PROVE  NoneCurrent(k, total, n)
<1>1. Totals(k, total) /\ First(k, n) /\ AtMost(k, total, n) /\ Samples(k, total)
  BY DEF KeyInv
<1>2. flow[k].opens \in Nat /\ (Copied(k) => snapshot[k] \in Nat)
  BY Shapes
<1>3. total[n] = total[n - 1] /\ total[n - 1] \in Nat
  BY <1>1, <1>2, TotalNats
<1>4. /\ recorded[k] \in Nat /\ Copy(k) \in Nat /\ Baseline(k) \in Nat /\ Tabled(k) \in Nat
  BY <1>1, Numbers
<1>5. T(k) # None => T(k).open # n
  BY <1>1, <1>2 DEF Samples
<1>6. TableCurrent(k, total, n) => T(k) = None /\ Tabled(k) = 0 /\ Coming(k, n) = 0 /\ SatSub(Tabled(k), Copy(k)) = 0
  BY <1>4, <1>5 DEF TableCurrent, Tabled, Coming, SatSub
<1>7. CASE AllCurrent(k, total, n)
  <2>1. Baseline(k) = 0 /\ recorded[k] <= total[n - 1] /\ TableCurrent(k, total, n)
    BY <1>3, <1>4, <1>7 DEF AllCurrent
  <2>2. Copied(k) => snapshot[k] = 0
    BY <1>2, <1>3, <1>7, <2>1 DEF AllCurrent
  <2>3. Copy(k) = 0
    BY <2>1, <2>2 DEF Copy, Copied
  <2>4. SatSub(Copy(k), Baseline(k)) = 0
    BY <2>1, <2>3 DEF SatSub
  <2> QED
    BY <1>3, <1>4, <1>6, <2>1, <2>4 DEF NoneCurrent
<1>8. CASE CopyCurrent(k, total, n)
  <2>1. recorded[k] <= total[n - 1] /\ TableCurrent(k, total, n) /\ snapshot[k] = 0 /\ Copied(k)
    BY <1>2, <1>3, <1>8 DEF CopyCurrent
  <2>2. SatSub(Copy(k), Baseline(k)) = 0
    BY <1>4, <2>1 DEF SatSub, Copy, Copied
  <2> QED
    BY <1>3, <1>4, <1>6, <2>1, <2>2 DEF NoneCurrent
<1>9. CASE OnlyTableCurrent(k, total, n)
  <2>1. SatSub(Copy(k), Baseline(k)) \in Nat
    BY <1>4 DEF SatSub
  <2> QED
    BY <1>3, <1>4, <1>6, <1>9, <2>1 DEF NoneCurrent, OnlyTableCurrent
<1> QED
  BY <1>1, <1>7, <1>8, <1>9 DEF AtMost

(* The n-th connection is no longer due: what is current becomes old. *)
LEMMA Passed ==
  ASSUME HistoryType, NEW k \in Keys, NEW total \in [Nat -> Nat], NEW n \in Nat, NEW m \in Nat,
         KeyInv(k, total, n), n < m,
         T(k) # None => T(k).open <= n,
         \A e \in InHand(k) : e.action = "Allow" => e.open <= n,
         recorded'[k] = recorded[k], cause[k] \subseteq cause'[k],
         T(k)' = T(k), Stat(k)' = Stat(k), InHand(k)' = InHand(k),
         last_snapshot'[k] = last_snapshot[k], snapshot' = snapshot
  PROVE  AtMost(k, total, m)'
<1> SUFFICES ASSUME Undisturbed(k)' PROVE NoneCurrent(k, total, m)'
  BY DEF AtMost
<1>0. Totals(k, total) /\ First(k, n) /\ AtMost(k, total, n) /\ Samples(k, total) /\ Undisturbed(k)
  BY DEF KeyInv, Undisturbed
<1>1. Baseline(k)' = Baseline(k) /\ Copy(k)' = Copy(k) /\ Tabled(k)' = Tabled(k) /\ (Copied(k)' <=> Copied(k))
  BY DEF Baseline, Copy, Tabled, Copied
<1>2. /\ SatSub(Copy(k), Baseline(k))' = SatSub(Copy(k), Baseline(k))
      /\ SatSub(Tabled(k), Copy(k))' = SatSub(Tabled(k), Copy(k))
  BY <1>1 DEF SatSub
<1>3. /\ recorded[k] \in Nat /\ total[n] \in Nat /\ total[n - 1] \in Nat /\ total[n - 1] <= total[n]
      /\ Copy(k) \in Nat /\ Baseline(k) \in Nat /\ Tabled(k) \in Nat /\ Coming(k, n) \in Nat
      /\ SatSub(Copy(k), Baseline(k)) \in Nat /\ SatSub(Tabled(k), Copy(k)) \in Nat
  BY <1>0, Numbers
<1>4. m - 1 \in Nat /\ n <= m - 1 /\ total[m - 1] \in Nat /\ total[n] <= total[m - 1]
  BY <1>0 DEF Totals
<1>5. /\ Stat(k) # None => Stat(k).open \in Nat /\ Stat(k).bytes \in Nat
      /\ Stat(k) # None /\ Stat(k).open = n => Stat(k).bytes <= total[n] - total[n - 1]
      /\ Copied(k) => snapshot[k] \in Nat
      /\ T(k) # None => T(k).open \in Nat
  <2>1. /\ Stat(k) # None => Stat(k).open \in Nat /\ Stat(k).bytes \in Nat
        /\ Copied(k) => snapshot[k] \in Nat
        /\ T(k) # None => T(k).open \in Nat
    BY Shapes
  <2>2. Stat(k) # None => total[Stat(k).open - 1] + Stat(k).bytes <= total[Stat(k).open]
    BY <1>0 DEF Samples
  <2>3. Stat(k) # None /\ Stat(k).open = n => total[n - 1] + Stat(k).bytes <= total[n]
    BY <2>2
  <2> QED
    BY <1>3, <2>1, <2>3
\* What comes later is known to be coming, or is of the n-th connection.
<1>6. Late(k, m)' => Late(k, n) \/ (Stat(k) # None /\ Stat(k).open = n)
  <2> SUFFICES ASSUME Late(k, m)' PROVE Late(k, n) \/ (Stat(k) # None /\ Stat(k).open = n)
    OBVIOUS
  <2>1. /\ Stat(k) # None /\ Stat(k).bytes > 0
        /\ \/ T(k) # None /\ T(k).open = Stat(k).open
           \/ \E e \in InHand(k) : e.action = "Allow" /\ e.open = Stat(k).open
    BY DEF Late
  <2>2. Stat(k).open <= n
    BY <2>1
  <2> QED
    BY <1>5, <2>1, <2>2 DEF Late
<1>7. Coming(k, m)' = IF Late(k, m)' THEN SatSub(Stat(k).bytes, Tabled(k)) ELSE 0
  BY <1>1 DEF Coming, SatSub
<1> DEFINE w == total[n] - total[n - 1]
           p == SatSub(Copy(k), Baseline(k))
           t == SatSub(Tabled(k), Copy(k))
           z == Coming(k, m)'
<1>8. /\ z \in Nat
      /\ z <= Coming(k, n) \/ (z + Tabled(k) <= w /\ Stat(k) # None /\ Stat(k).open = n /\ Late(k, m)')
                           \/ (z = 0 /\ Tabled(k) > w)
  <2>1. CASE ~Late(k, m)'
    BY <1>3, <1>7, <2>1
  <2>2. CASE Late(k, n) /\ Late(k, m)'
    BY <1>3, <1>7, <2>2 DEF Coming
  <2>3. CASE Late(k, m)' /\ Stat(k) # None /\ Stat(k).open = n
    <3>1. z = SatSub(Stat(k).bytes, Tabled(k)) /\ Stat(k).bytes <= w /\ Stat(k).bytes \in Nat
      BY <1>5, <1>7, <2>3
    <3> QED
      BY <1>3, <2>3, <3>1 DEF SatSub
  <2> QED
    BY <1>6, <2>1, <2>2, <2>3
<1> HIDE DEF z
<1>9. TableCurrent(k, total, n) =>
        /\ Tabled(k) + z <= w
        /\ T(k) = None => Tabled(k) = 0 /\ (z > 0 => ~Heard(k, n))
  <2> SUFFICES ASSUME TableCurrent(k, total, n)
               PROVE  /\ Tabled(k) + z <= w
                      /\ T(k) = None => Tabled(k) = 0 /\ (z > 0 => ~Heard(k, n))
    OBVIOUS
  <2>1. Tabled(k) <= w /\ Coming(k, n) = 0 /\ ~Late(k, n)
    BY <1>3 DEF TableCurrent, Tabled, Coming
  <2>2. Tabled(k) + z <= w
    BY <1>3, <1>8, <2>1
  <2>3. ASSUME T(k) = None, z > 0
        PROVE  ~Heard(k, n)
    <3>1. Late(k, m)' /\ Stat(k).open = n
      BY <1>3, <1>8, <2>1, <2>3
    <3>2. \E e \in InHand(k) : e.action = "Allow" /\ e.open = n
      BY <2>3, <3>1 DEF Late
    <3> QED
      BY <3>2 DEF Heard, Pending
  <2> QED
    BY <2>2, <2>3 DEF Tabled
<1>16. z <= Coming(k, n) \/ z <= w
  BY <1>3, <1>8
<1>14. /\ w \in Nat /\ p \in Nat /\ t \in Nat /\ z \in Nat /\ total[n - 1] \in Nat /\ total[n - 1] + w = total[n]
       /\ recorded[k] \in Nat /\ Copy(k) \in Nat /\ Baseline(k) \in Nat /\ Tabled(k) \in Nat /\ Coming(k, n) \in Nat
  BY <1>3, <1>8
<1>15. /\ p = IF Copy(k) > Baseline(k) THEN Copy(k) - Baseline(k) ELSE 0
       /\ t = IF Tabled(k) > Copy(k) THEN Tabled(k) - Copy(k) ELSE 0
  BY DEF SatSub
<1>17. recorded[k] + p + t + z <= total[n] => NoneCurrent(k, total, m)'
  BY <1>2, <1>3, <1>4, <1>8 DEF NoneCurrent, z
<1> HIDE DEF w, p, t
<1>10. CASE AllCurrent(k, total, n)
  <2>1. /\ recorded[k] <= total[n - 1] + Baseline(k) /\ Baseline(k) <= w
        /\ Copied(k) => Baseline(k) <= snapshot[k] /\ snapshot[k] <= w
        /\ Tabled(k) + z <= w
        /\ T(k) # None => Copy(k) <= Tabled(k)
        /\ last_snapshot[k] # None \/ Copied(k) => Heard(k, n)
        /\ T(k) # None /\ snapshot # None /\ snapshot[k] = None => last_snapshot[k] = None
        /\ T(k) = None => Tabled(k) = 0 /\ (z > 0 => ~Heard(k, n))
    BY <1>9, <1>10 DEF AllCurrent, Tabled, w
  <2>2. last_snapshot[k] = None => Baseline(k) = 0
    BY DEF Baseline
  <2> SUFFICES recorded[k] + p + t + z <= total[n]
    BY <1>17
  <2>3. CASE ~Copied(k) /\ snapshot # None
    <3>1. Copy(k) = 0 /\ p = 0 /\ t <= Tabled(k)
      BY <1>14, <1>15, <2>3 DEF Copy, Copied
    <3>2. CASE T(k) # None
      BY <1>14, <2>1, <2>2, <2>3, <3>1, <3>2 DEF Copied
    <3>3. CASE T(k) = None
      BY <1>14, <2>1, <2>2, <3>1, <3>3
    <3> QED
      BY <3>2, <3>3
  <2>4. CASE Copied(k) \/ snapshot = None
    <3>1. Baseline(k) <= Copy(k) /\ Copy(k) <= w /\ (~Copied(k) => Copy(k) = Baseline(k))
      BY <1>14, <1>15, <2>1, <2>4 DEF Copy, Copied
    <3>2. p = Copy(k) - Baseline(k)
      BY <1>14, <1>15, <3>1
    <3>3. CASE T(k) # None
      <4>1. t = Tabled(k) - Copy(k)
        BY <1>14, <1>15, <2>1, <3>3
      <4> QED
        BY <1>14, <2>1, <3>1, <3>2, <4>1
    <3>4. CASE T(k) = None
      <4>1. t = 0
        BY <1>14, <1>15, <2>1, <3>4
      <4> QED
        BY <1>14, <2>1, <2>2, <3>1, <3>2, <3>4, <4>1
    <3> QED
      BY <3>3, <3>4
  <2> QED
    BY <2>3, <2>4
<1>11. CASE CopyCurrent(k, total, n)
  <2>1. /\ recorded[k] <= total[n - 1] /\ Copy(k) <= w
        /\ Tabled(k) + z <= w
        /\ T(k) # None => Copy(k) <= Tabled(k)
        /\ T(k) = None => Tabled(k) = 0 /\ z = 0
    BY <1>14, <1>9, <1>11 DEF CopyCurrent, Copy, Copied, Tabled, w
  <2>2. p <= Copy(k) /\ t = IF T(k) = None THEN 0 ELSE Tabled(k) - Copy(k)
    BY <1>14, <1>15, <2>1
  <2>3. recorded[k] + p + t + z <= total[n]
    BY <1>14, <2>1, <2>2
  <2> QED
    BY <1>17, <2>3
<1>12. CASE OnlyTableCurrent(k, total, n)
  <2>1. recorded[k] + p <= total[n - 1] /\ Tabled(k) + z <= w
    BY <1>9, <1>12 DEF OnlyTableCurrent, p
  <2>2. t <= Tabled(k)
    BY <1>14, <1>15
  <2>3. recorded[k] + p + t + z <= total[n]
    BY <1>14, <2>1, <2>2
  <2> QED
    BY <1>17, <2>3
<1>13. CASE NoneCurrent(k, total, n)
  <2>1. recorded[k] + p + t + Coming(k, n) <= total[n - 1]
    BY <1>13 DEF NoneCurrent, p, t
  <2>3. recorded[k] + p + t + z <= total[n]
    BY <1>14, <1>16, <2>1
  <2> QED
    BY <1>17, <2>3
<1> QED
  BY <1>0, <1>10, <1>11, <1>12, <1>13 DEF AtMost

(* What the account reads of the queue, the table, the statistics and the
   baseline has not changed. *)
LEMMA Still ==
  ASSUME HistoryType, NEW k \in Keys, NEW total \in [Nat -> Nat], NEW n \in Nat, KeyInv(k, total, n),
         flow'[k].bytes = flow[k].bytes, flow'[k].opens = flow[k].opens,
         flow'[k].state = "closed" <=> flow[k].state = "closed",
         sent'[k] = sent[k], recorded'[k] = recorded[k], cause[k] \subseteq cause'[k],
         Pending(k)' = Pending(k), InRing(k)' \subseteq InRing(k),
         T(k)' = T(k), Stat(k)' = Stat(k), Late(k, n)' => Late(k, n),
         last_snapshot'[k] = last_snapshot[k], snapshot' = snapshot,
         processor' # Idle /\ processor'.pc = "record" => processor' = processor
  PROVE  KeyInv(k, total, n)'
<1>0. Totals(k, total) /\ Events(k, total) /\ Samples(k, total) /\ First(k, n) /\ AtLeast(k, total, n) /\ AtMost(k, total, n)
  BY DEF KeyInv
<1>1. Due(k)' = Due(k)
  BY DEF Due, Ended
<1>2. Totals(k, total)' /\ Samples(k, total)'
  BY <1>0 DEF Totals, Samples
<1>3. Events(k, total)'
  BY <1>0, <1>1 DEF Events
<1>4. First(k, n)' /\ AtLeast(k, total, n)'
  BY <1>0, <1>1 DEF First, AtLeast, Baseline
<1>5. Heard(k, n)' <=> Heard(k, n)
  BY DEF Heard
<1>6. AtMost(k, total, n)'
  BY <1>0, <1>5, AtMostStill
<1> QED
  BY <1>2, <1>3, <1>4, <1>6 DEF KeyInv

-----------------------------------------------------------------------------
(* An event is reported. *)
Begins(k, e) ==
  /\ e.key = k /\ e.action = "Allow" /\ e.open = flow[k].opens + 1
  /\ flow[k].state = "closed" /\ flow'[k] = [state |-> "established", bytes |-> 0, opens |-> flow[k].opens + 1]
Ends(k, e) ==
  /\ e.key = k /\ e.action = "Close" /\ e.open = flow[k].opens /\ e.bytes = flow[k].bytes
  /\ flow[k].state # "closed" /\ flow'[k] = [flow[k] EXCEPT !.state = "closed"]
Elsewhere(k, e) == e.key # k /\ flow'[k] = flow[k]

Lost(k, e, n) == \E h \in Event : GivesUp(h, e) /\ h.key = k /\ h.action = "Close" /\ h.open = n

LEMMA Least ==
  ASSUME NEW S \in SUBSET Nat, S # {}
  PROVE  \E m \in S : \A x \in S : m <= x
<1>1. PICK m \in S : \A x \in S : ~(<<x, m>> \in OpToRel(<, Nat))
  BY NatLessThanWellFounded, WFMin, Zenon
<1>2. \A x \in S : ~(x < m)
  BY <1>1 DEF OpToRel
<1> QED
  BY <1>2

LEMMA EndsFlow ==
  ASSUME HistoryType, NEW k \in Keys, NEW e, Ends(k, e)
  PROVE  flow'[k].state = "closed" /\ flow'[k].opens = flow[k].opens /\ flow'[k].bytes = flow[k].bytes
<1>1. flow[k] \in [state : {"closed", "established", "half closed"}, bytes : Nat, opens : 0 .. MaxOpens]
  BY DEF HistoryType
<1> QED
  BY <1>1 DEF Ends

(* What is due afterwards: at most the connection that begins is new, and at
   most the one whose Close was given up is gone. *)
LEMMA ReportDue ==
  ASSUME HistoryType, InOrder, NEW k \in Keys, NEW total, Events(k, total), NEW e \in Event,
         InHand(k)' = InHand(k),
         \/ UNCHANGED cause /\ InRing(k)' = InRing(k) \cup Added(k, e)
         \/ \E h \in Event : GivesUp(h, e),
         Begins(k, e) \/ Ends(k, e) \/ Elsewhere(k, e)
  PROVE  /\ Pending(k)' \subseteq Pending(k) \cup Added(k, e)
         /\ InRing(k)' \subseteq InRing(k) \cup Added(k, e)
         /\ \A x \in Due(k)' : x \in Due(k) \/ (Begins(k, e) /\ x = flow[k].opens + 1)
         /\ \A x \in Due(k) : x \in Due(k)' \/ Lost(k, e, x)
         /\ \A x \in Nat : Lost(k, e, x) => x \notin Due(k)' /\ "lost" \in cause'[k]
         /\ Begins(k, e) => flow[k].opens + 1 \in Due(k)'
         /\ cause[k] \subseteq cause'[k]
<1>1. \A x \in Event : x.open \in 1 .. MaxOpens
  BY DEF Event
<1>2. flow[k].opens \in Nat
  BY Shapes
<1>3. \A h \in Event : GivesUp(h, e) => InRing(k)' = (InRing(k) \ {h}) \cup Added(k, e)
  BY DEF GivesUp
<1>4. InRing(k)' \subseteq InRing(k) \cup Added(k, e) /\ Pending(k)' \subseteq Pending(k) \cup Added(k, e)
  BY <1>3 DEF Pending
<1>5. ASSUME NEW x \in Pending(k)
      PROVE  x \in Pending(k)' \/ (x \in Event /\ GivesUp(x, e) /\ x.key = k)
  BY <1>3, <1>5 DEF Pending, InRing
<1>6. Added(k, e) \subseteq Pending(k)'
  BY <1>3 DEF Pending
<1>7. ASSUME NEW x \in Due(k)'
      PROVE  x \in Due(k) \/ (Begins(k, e) /\ x = flow[k].opens + 1)
  <2>1. x \in 1 .. MaxOpens /\ (x \in Ended(k)' \/ (flow'[k].state # "closed" /\ x = flow'[k].opens))
    BY <1>7 DEF Due
  <2>2. CASE x \in Ended(k)'
    <3>1. PICK d \in Pending(k)' : d.action = "Close" /\ d.open = x
      BY <2>2 DEF Ended
    <3>2. CASE d \in Pending(k)
      BY <2>1, <3>1, <3>2 DEF Due, Ended
    <3>3. CASE d \in Added(k, e)
      BY <2>1, <3>1, <3>3 DEF Added, Begins, Ends, Elsewhere, Due
    <3> QED
      BY <1>4, <3>2, <3>3
  <2>3. CASE flow'[k].state # "closed" /\ x = flow'[k].opens
    BY <2>1, <2>3, EndsFlow DEF Begins, Elsewhere, Due
  <2> QED
    BY <2>1, <2>2, <2>3
<1>8. ASSUME NEW x \in Due(k)
      PROVE  x \in Due(k)' \/ Lost(k, e, x)
  <2>1. x \in 1 .. MaxOpens /\ (x \in Ended(k) \/ (flow[k].state # "closed" /\ x = flow[k].opens))
    BY <1>8 DEF Due
  <2>2. CASE x \in Ended(k)
    <3>1. PICK d \in Pending(k) : d.action = "Close" /\ d.open = x
      BY <2>2 DEF Ended
    <3>2. CASE d \in Pending(k)'
      BY <2>1, <3>1, <3>2 DEF Due, Ended
    <3>3. CASE d \in Event /\ GivesUp(d, e) /\ d.key = k
      BY <3>1, <3>3 DEF Lost
    <3> QED
      BY <1>5, <3>2, <3>3
  <2>3. CASE flow[k].state # "closed" /\ x = flow[k].opens
    <3>1. CASE Ends(k, e)
      <4>1. e \in Pending(k)' /\ e.action = "Close" /\ e.open = x
        BY <1>6, <2>3, <3>1 DEF Added, Ends
      <4> QED
        BY <2>1, <4>1 DEF Due, Ended
    <3>2. CASE Elsewhere(k, e)
      BY <2>1, <2>3, <3>2 DEF Elsewhere, Due
    <3> QED
      BY <2>3, <3>1, <3>2 DEF Begins
  <2> QED
    BY <2>1, <2>2, <2>3
<1>9. ASSUME NEW x \in Nat, Lost(k, e, x)
      PROVE  x \notin Due(k)' /\ "lost" \in cause'[k]
  <2>1. PICK h \in Event : GivesUp(h, e) /\ h.key = k /\ h.action = "Close" /\ h.open = x
    BY <1>9 DEF Lost
  <2>2. "lost" \in cause'[k]
    BY <2>1 DEF GivesUp
  <2>3. h \in Pending(k) /\ h \in InRing(k) /\ \A d \in InRing(k) : d = h \/ Before(h, d)
    BY <2>1 DEF GivesUp, Pending
  <2>4. h.open <= flow[k].opens /\ (h.open < flow[k].opens \/ flow[k].state = "closed")
    BY <2>1, <2>3 DEF Events
  <2>5. x \in Nat /\ x <= flow[k].opens /\ (x < flow[k].opens \/ flow[k].state = "closed")
    BY <2>1, <2>4
  <2>6. ASSUME x \in Due(k)' PROVE FALSE
    <3>1. x \in Ended(k)' \/ (flow'[k].state # "closed" /\ x = flow'[k].opens)
      BY <2>6 DEF Due
    <3>2. ~(flow'[k].state # "closed" /\ x = flow'[k].opens)
      BY <1>2, <2>5, EndsFlow DEF Begins, Elsewhere
    <3>3. PICK d \in Pending(k)' : d.action = "Close" /\ d.open = x
      BY <3>1, <3>2 DEF Ended
    <3>4. d # e
      BY <1>2, <2>5, <3>3, <1>4 DEF Begins, Ends, Elsewhere, Pending, InHand, InRing
    <3>5. d \in InHand(k) \/ (d \in InRing(k) /\ d # h)
      BY <1>3, <2>1, <3>3, <3>4 DEF Pending, Added
    <3>6. d.open \in Nat /\ h.open \in Nat
      BY <1>1, <2>1, <3>5 DEF InHand, InRing
    <3>7. ~Before(d, h) /\ ~Before(h, d)
      BY <2>1, <3>3, <3>6 DEF Before
    <3> QED
      BY <2>3, <3>5, <3>7 DEF InOrder
  <2> QED
    BY <2>2, <2>6
<1>10. Begins(k, e) => flow[k].opens + 1 \in Due(k)'
  BY <1>1, <1>2 DEF Begins, Due
<1>11. cause[k] \subseteq cause'[k]
  BY DEF GivesUp
<1> QED
  BY <1>4, <1>7, <1>8, <1>9, <1>10, <1>11

LEMMA NextDue ==
  ASSUME NEW D \in SUBSET (1 .. MaxOpens), NEW o \in Nat
  PROVE  \E m \in Nat : m \in 1 .. o + 1 /\ (\A x \in D : m <= x) /\ (m <= o => m \in D)
<1>0. \A x \in D : x \in Nat /\ x >= 1
  <2>1. MaxOpens \in Nat
    BY HistoryAssumption
  <2> QED
    BY <2>1
<1>1. D \cup {o + 1} \in SUBSET Nat /\ D \cup {o + 1} # {} /\ \A x \in D : x >= 1
  BY <1>0
<1>2. PICK m \in D \cup {o + 1} : \A x \in D \cup {o + 1} : m <= x
  BY <1>1, Least
<1>3. m \in Nat /\ m >= 1 /\ m <= o + 1 /\ (m <= o => m \in D)
  BY <1>1, <1>2
<1> QED
  BY <1>2, <1>3

LEMMA ReportKeeps ==
  ASSUME HistoryType, InOrder, NEW k \in Keys, NEW total \in [Nat -> Nat], NEW n \in Nat, KeyInv(k, total, n),
         NEW e \in Event, InHand(k)' = InHand(k),
         \/ UNCHANGED cause /\ InRing(k)' = InRing(k) \cup Added(k, e)
         \/ \E h \in Event : GivesUp(h, e),
         Begins(k, e) \/ Ends(k, e) \/ Elsewhere(k, e),
         UNCHANGED <<connections, collector, snapshot, last_snapshot, processor, sent, recorded>>
  PROVE  \E m \in Nat : KeyInv(k, total, m)'
<1>0. Totals(k, total) /\ Events(k, total) /\ Samples(k, total) /\ First(k, n) /\ AtLeast(k, total, n) /\ AtMost(k, total, n)
  BY DEF KeyInv
<1>1. /\ Pending(k)' \subseteq Pending(k) \cup Added(k, e)
      /\ InRing(k)' \subseteq InRing(k) \cup Added(k, e)
      /\ \A x \in Due(k)' : x \in Due(k) \/ (Begins(k, e) /\ x = flow[k].opens + 1)
      /\ \A x \in Due(k) : x \in Due(k)' \/ Lost(k, e, x)
      /\ \A x \in Nat : Lost(k, e, x) => x \notin Due(k)' /\ "lost" \in cause'[k]
      /\ Begins(k, e) => flow[k].opens + 1 \in Due(k)'
      /\ cause[k] \subseteq cause'[k]
  BY <1>0, ReportDue
<1>2. T(k)' = T(k) /\ Stat(k)' = Stat(k) /\ flow[k].opens \in Nat /\ flow[k].bytes \in Nat /\ sent[k] \in Nat
  BY Shapes DEF T, Stat
<1>3. /\ Begins(k, e) => flow'[k].opens = flow[k].opens + 1 /\ flow'[k].bytes = 0 /\ flow'[k].state # "closed"
      /\ Ends(k, e) => flow'[k].opens = flow[k].opens /\ flow'[k].bytes = flow[k].bytes /\ flow'[k].state = "closed"
      /\ Elsewhere(k, e) => flow'[k] = flow[k]
  BY EndsFlow DEF Begins, Elsewhere
<1>4. flow'[k].opens \in Nat /\ flow[k].opens <= flow'[k].opens
  BY <1>2, <1>3
<1>5. Totals(k, total)'
  <2>1. CASE Begins(k, e)
    <3>1. PICK o \in Nat : o = flow[k].opens
      BY <1>2
    <3>2. flow'[k].opens = o + 1 /\ flow'[k].bytes = 0 /\ sent'[k] = sent[k]
      BY <1>3, <2>1, <3>1
    <3>3. \A x \in Nat : x >= o => total[x] = sent[k]
      BY <1>0, <3>1 DEF Totals
    <3>4. total[0] = 0 /\ \A x, y \in Nat : x <= y => total[x] <= total[y]
      BY <1>0 DEF Totals
    <3>5. \A x \in Nat : x >= o + 1 => total[x] = sent'[k]
      BY <3>2, <3>3
    <3>6. total[o] = sent[k] /\ total[o + 1] = sent[k] /\ (o + 1) - 1 = o
      BY <3>3
    <3>7. flow'[k].opens > 0 => total[flow'[k].opens - 1] + flow'[k].bytes = total[flow'[k].opens]
      BY <1>2, <3>2, <3>6
    <3>8. flow'[k].opens # 0
      BY <3>2
    <3> QED
      BY <3>2, <3>4, <3>5, <3>7, <3>8 DEF Totals
  <2>2. CASE Ends(k, e) \/ Elsewhere(k, e)
    BY <1>0, <1>3, <2>2 DEF Totals
  <2> QED
    BY <2>1, <2>2
<1>6. Samples(k, total)'
  BY <1>0, <1>2, <1>4 DEF Samples
<1>7. Events(k, total)'
  <2>1. ASSUME NEW x \in Pending(k)'
        PROVE  /\ x.open <= flow'[k].opens
               /\ x.action = "Close" => /\ x.open < flow'[k].opens \/ flow'[k].state = "closed"
                                        /\ total[x.open - 1] + x.bytes = total[x.open]
               /\ T(k) # None => x.open >= T(k).open /\ (x.action = "Allow" => x.open > T(k).open)
    <3>1. x \in Event /\ x.open \in Nat
      BY RingShape, <1>1, <2>1 DEF Pending, InHand, InRing, Added
    <3>2. CASE x \in Pending(k)
      <4>1. /\ x.open <= flow[k].opens
            /\ x.action = "Close" => /\ x.open < flow[k].opens \/ flow[k].state = "closed"
                                     /\ total[x.open - 1] + x.bytes = total[x.open]
            /\ T(k) # None => x.open >= T(k).open /\ (x.action = "Allow" => x.open > T(k).open)
        BY <1>0, <3>2 DEF Events
      <4>2. x.open <= flow'[k].opens /\ (x.action = "Close" => x.open < flow'[k].opens \/ flow'[k].state = "closed")
        BY <1>2, <1>3, <3>1, <4>1
      <4> QED
        BY <4>1, <4>2
    <3>3. CASE x \in Added(k, e)
      <4>1. x = e /\ ~Elsewhere(k, e)
        BY <3>3 DEF Added, Elsewhere
      <4>2. T(k) # None => T(k).open \in Nat /\ T(k).open <= flow[k].opens
        BY <1>0, <1>2 DEF Samples
      <4>3. CASE Begins(k, e)
        BY <1>2, <1>3, <4>1, <4>2, <4>3 DEF Begins
      <4>4. CASE Ends(k, e)
        <5>1. flow[k].opens > 0
          BY <1>0, <1>2, <4>4 DEF Ends, Totals
        <5>2. total[flow[k].opens - 1] + flow[k].bytes = total[flow[k].opens]
          BY <1>0, <5>1 DEF Totals
        <5> QED
          BY <1>2, <1>3, <4>1, <4>2, <4>4, <5>2 DEF Ends
      <4> QED
        BY <4>1, <4>3, <4>4
    <3> QED
      BY <1>1, <3>2, <3>3
  <2>2. ASSUME NEW x \in InRing(k)', x.action = "Allow"
        PROVE  x.open \in Due(k)'
    <3>1. CASE x \in InRing(k)
      <4>1. x \in Event /\ x.open \in Nat /\ x.open \in Due(k)
        BY <1>0, <2>2, <3>1, RingShape DEF Events, InRing
      <4>2. SUFFICES ASSUME Lost(k, e, x.open) PROVE FALSE
        BY <1>1, <4>1
      <4>3. PICK h \in Event : GivesUp(h, e) /\ h.key = k /\ h.action = "Close" /\ h.open = x.open
        BY <4>2 DEF Lost
      <4>4. x # h /\ ~Before(h, x)
        BY <2>2, <4>1, <4>3 DEF Before
      <4> QED
        BY <3>1, <4>3, <4>4 DEF GivesUp
    <3>2. CASE x \in Added(k, e)
      BY <1>1, <2>2, <3>2 DEF Added, Begins, Ends, Elsewhere
    <3> QED
      BY <1>1, <2>2, <3>1, <3>2
  <2>3. (processor # Idle /\ processor.pc = "record" /\ processor.event.key = k =>
           processor.event.action = "Close" /\ T(k) = None)'
    BY <1>0, <1>2 DEF Events
  <2> QED
    BY <1>2, <2>1, <2>2, <2>3 DEF Events
\* The first one due stays, unless its Close is given up.
<1>8. CASE ~Lost(k, e, n)
  <2>1. First(k, n)'
    <3>1. n \in 1 .. flow[k].opens + 1
      BY <1>0 DEF First
    <3>2. \A x \in Due(k)' : n <= x
      BY <1>0, <1>1, <1>2, <3>1 DEF First
    <3>3. n <= flow'[k].opens => n \in Due(k)'
      <4>1. CASE n <= flow[k].opens
        BY <1>0, <1>1, <1>8, <4>1 DEF First
      <4>2. CASE n = flow[k].opens + 1
        BY <1>1, <1>2, <1>3, <4>2
      <4> QED
        BY <1>2, <3>1, <4>1, <4>2
    <3>4. ASSUME cause'[k] \cap {"lost", "restart"} = {}, NEW x \in n .. flow'[k].opens
          PROVE  x \in Due(k)'
      <4>1. x \in Nat /\ (x \in n .. flow[k].opens \/ (Begins(k, e) /\ x = flow[k].opens + 1))
        BY <1>2, <1>3, <3>1, <3>4
      <4>2. cause[k] \cap {"lost", "restart"} = {}
        BY <1>1, <3>4
      <4>3. CASE x \in n .. flow[k].opens
        <5>1. x \in Due(k)
          BY <1>0, <4>2, <4>3 DEF First
        <5> QED
          BY <1>1, <3>4, <4>1, <5>1
      <4> QED
        BY <1>1, <4>1, <4>3
    <3>5. n \in 1 .. flow'[k].opens + 1
      BY <1>2, <1>4, <3>1
    <3> QED
      BY <3>2, <3>3, <3>4, <3>5 DEF First
  <2>2. AtLeast(k, total, n)'
    BY <1>0, <1>1 DEF AtLeast, Baseline
  <2>3. Heard(k, n)' \/ ~Heard(k, n) \/ ~Undisturbed(k) \/ NoneCurrent(k, total, n)
    <3>1. CASE n = flow[k].opens + 1
      BY <3>1, NoneDue
    <3>2. CASE n # flow[k].opens + 1
      <4>1. n <= flow[k].opens
        BY <1>0, <1>2, <3>2 DEF First
      <4>2. \A x \in Added(k, e) : x.action = "Allow" => x.open > n
        BY <1>2, <4>1 DEF Added, Begins, Ends, Elsewhere
      <4> QED
        BY <1>1, <4>2 DEF Heard
    <3> QED
      BY <3>1, <3>2
  <2>4. AtMost(k, total, n)'
    <3>1. Late(k, n)' => Late(k, n)
      BY <1>2 DEF Late
    <3> QED
      BY <1>0, <1>1, <1>2, <2>3, <3>1, AtMostStill
  <2>5. KeyInv(k, total, n)'
    BY <1>5, <1>6, <1>7, <2>1, <2>2, <2>4 DEF KeyInv
  <2> QED
    BY <2>5
<1>9. CASE Lost(k, e, n)
  <2>1. PICK h \in Event : GivesUp(h, e) /\ h.key = k /\ h.action = "Close" /\ h.open = n
    BY <1>9 DEF Lost
  <2>2. h \in InRing(k) /\ h \in Pending(k)
    BY <2>1 DEF GivesUp, Pending
  <2>3. n \notin Due(k)' /\ "lost" \in cause'[k] /\ n <= flow[k].opens /\ (T(k) # None => T(k).open <= n)
    <3>1. h.open <= flow[k].opens /\ (T(k) # None => h.open >= T(k).open /\ T(k).open \in Nat)
      BY <1>0, <2>2, Shapes DEF Events
    <3> QED
      BY <1>1, <1>9, <2>1, <3>1
  <2>4. \A d \in InHand(k) : d.action = "Allow" => d.open <= n
    <3>1. \A d \in InHand(k) : Before(d, h) /\ d.open \in Nat
      BY <2>2, RingShape DEF InOrder, InHand
    <3> QED
      BY <2>1, <3>1 DEF Before
  <2>5. PICK m \in Nat : m \in 1 .. flow'[k].opens + 1 /\ (\A x \in Due(k)' : m <= x) /\ (m <= flow'[k].opens => m \in Due(k)')
    <3>1. Due(k)' \in SUBSET (1 .. MaxOpens)
      BY DEF Due
    <3> QED
      BY <1>4, <3>1, NextDue
  <2>6. n < m
    <3>1. \A x \in Due(k)' : n <= x /\ x # n
      BY <1>0, <1>1, <1>2, <2>3 DEF First
    <3>2. \A x \in Due(k)' : x \in Nat
      BY HistoryAssumption DEF Due
    <3>3. CASE m \in Due(k)'
      BY <3>1, <3>2, <3>3
    <3>4. CASE m = flow'[k].opens + 1
      BY <1>2, <1>4, <2>3, <3>4
    <3> QED
      BY <1>4, <2>5, <3>3, <3>4
  <2>7. First(k, m)' /\ AtLeast(k, total, m)'
    BY <2>3, <2>5 DEF First, AtLeast
  <2>8. AtMost(k, total, m)'
    BY <1>1, <1>2, <2>3, <2>4, <2>6, Passed
  <2>9. KeyInv(k, total, m)'
    BY <1>5, <1>6, <1>7, <2>7, <2>8 DEF KeyInv
  <2> QED
    BY <2>9
<1> QED
  BY <1>8, <1>9

LEMMA ReportStep ==
  ASSUME HistInv, NEW j \in Keys, NEW e \in Event, e.key = j, Report(e), Begins(j, e) \/ Ends(j, e),
         \A k \in Keys \ {j} : flow'[k] = flow[k],
         UNCHANGED <<connections, collector, snapshot, last_snapshot, processor, sent, recorded>>
  PROVE  /\ fifo' \in [{"net"} -> Seq(Event)] /\ cause' \in [Keys -> SUBSET Reasons]
         /\ InOrder' /\ Accounts'
<1>1. HistoryType /\ InOrder /\ Accounts
  BY DEF HistInv
<1>2. \A d \in Pending(j) : Before(d, e)
  <2> SUFFICES ASSUME NEW d \in Pending(j) PROVE Before(d, e)
    OBVIOUS
  <2>1. PICK total \in [Nat -> Nat], n \in Nat : KeyInv(j, total, n)
    BY <1>1 DEF Accounts
  <2>2. /\ d.open <= flow[j].opens
        /\ d.action = "Close" => d.open < flow[j].opens \/ flow[j].state = "closed"
    BY <2>1 DEF KeyInv, Events
  <2>3. d \in Event /\ d.open \in Nat /\ d.action \in {"Allow", "Close"} /\ flow[j].opens \in Nat
    BY <1>1, RingShape, Shapes DEF Pending, InHand, InRing
  <2> QED
    BY <2>2, <2>3 DEF Before, Begins, Ends
<1>3. /\ fifo' \in [{"net"} -> Seq(Event)] /\ InOrder'
      /\ \A k \in Keys : InHand(k)' = InHand(k)
      /\ \/ UNCHANGED cause /\ \A k \in Keys : InRing(k)' = InRing(k) \cup Added(k, e)
         \/ \E h \in Event : GivesUp(h, e)
  BY <1>1, <1>2, Reported
<1>4. cause' \in [Keys -> SUBSET Reasons]
  <2>1. cause \in [Keys -> SUBSET Reasons]
    BY <1>1 DEF HistoryType
  <2>2. CASE UNCHANGED cause
    BY <2>1, <2>2
  <2>3. CASE \E h \in Event : GivesUp(h, e)
    <3>1. PICK h \in Event : cause' = [k \in Keys |-> IF k = h.key THEN cause[k] \cup {"lost"} ELSE cause[k]]
      BY <2>3 DEF GivesUp
    <3>2. "lost" \in Reasons
      BY DEF Reasons
    <3> QED
      BY <2>1, <3>1, <3>2
  <2> QED
    BY <1>3, <2>2, <2>3
<1>5. ASSUME NEW k \in Keys
      PROVE  \E total \in [Nat -> Nat], n \in Nat : KeyInv(k, total, n)'
  <2>1. PICK total \in [Nat -> Nat], n \in Nat : KeyInv(k, total, n)
    BY <1>1 DEF Accounts
  <2>2. Begins(k, e) \/ Ends(k, e) \/ Elsewhere(k, e)
    BY DEF Elsewhere
  <2>3. \/ UNCHANGED cause /\ InRing(k)' = InRing(k) \cup Added(k, e)
        \/ \E h \in Event : GivesUp(h, e)
    BY <1>3
  <2>4. \E m \in Nat : KeyInv(k, total, m)'
    BY <1>1, <1>3, <2>1, <2>2, <2>3, ReportKeeps
  <2> QED
    BY <2>4
<1>6. Accounts'
  BY <1>5 DEF Accounts
<1> QED
  BY <1>3, <1>4, <1>6

LEMMA StepConnect ==
  ASSUME HistInv, NEW j \in Keys, Connect(j)
  PROVE  HistInv'
<1> DEFINE e == [action |-> "Allow", key |-> j, bytes |-> 0, open |-> flow[j].opens + 1]
<1>1. HistoryType
  BY DEF HistInv
<1>2. /\ flow[j].state = "closed" /\ flow[j].opens < MaxOpens /\ Report(e)
      /\ flow' = [flow EXCEPT ![j] = [state |-> "established", bytes |-> 0, opens |-> flow[j].opens + 1]]
      /\ UNCHANGED <<connections, collector, snapshot, last_snapshot, processor, sent, recorded>>
  BY DEF Connect
<1>3. MaxOpens \in Nat /\ MaxBytes \in Nat /\ flow[j].opens \in Nat
  BY <1>1, HistoryAssumption, Shapes
<1>4. e \in Event
  BY <1>2, <1>3 DEF Event
<1>5. /\ flow \in [Keys -> [state : {"closed", "established", "half closed"}, bytes : Nat, opens : 0 .. MaxOpens]]
      /\ \A k \in Keys \ {j} : flow'[k] = flow[k]
      /\ flow'[j] = [state |-> "established", bytes |-> 0, opens |-> flow[j].opens + 1]
  BY <1>1, <1>2 DEF HistoryType
<1>6. flow' \in [Keys -> [state : {"closed", "established", "half closed"}, bytes : Nat, opens : 0 .. MaxOpens]]
  <2>1. flow[j].opens + 1 \in 0 .. MaxOpens
    BY <1>2, <1>3
  <2>2. [state |-> "established", bytes |-> 0, opens |-> flow[j].opens + 1]
          \in [state : {"closed", "established", "half closed"}, bytes : Nat, opens : 0 .. MaxOpens]
    BY <2>1
  <2> QED
    BY <1>2, <1>5, <2>2
<1>7. Begins(j, e)
  BY <1>2, <1>5 DEF Begins
<1> HIDE DEF e
<1>8. /\ fifo' \in [{"net"} -> Seq(Event)] /\ cause' \in [Keys -> SUBSET Reasons]
      /\ InOrder' /\ Accounts'
  BY <1>2, <1>4, <1>5, <1>7, ReportStep DEF Begins
<1>9. HistoryType'
  BY <1>1, <1>2, <1>6, <1>8 DEF HistoryType
<1> QED
  BY <1>8, <1>9 DEF HistInv

LEMMA StepDisconnect ==
  ASSUME HistInv, NEW j \in Keys, Disconnect(j)
  PROVE  HistInv'
<1> DEFINE e == [action |-> "Close", key |-> j, bytes |-> flow[j].bytes, open |-> flow[j].opens]
<1>1. HistoryType /\ Accounts
  BY DEF HistInv
<1>2. /\ flow[j].state # "closed" /\ Report(e)
      /\ flow' = [flow EXCEPT ![j].state = "closed"]
      /\ UNCHANGED <<connections, collector, snapshot, last_snapshot, processor, sent, recorded>>
  BY DEF Disconnect
<1>3. MaxOpens \in Nat /\ MaxBytes \in Nat /\ flow[j].opens \in Nat /\ flow[j].bytes \in Nat /\ flow[j].opens <= MaxOpens
  BY <1>1, HistoryAssumption, Shapes
<1>4. e \in Event
  <2>1. PICK total \in [Nat -> Nat], n \in Nat : KeyInv(j, total, n)
    BY <1>1 DEF Accounts
  <2>2. Totals(j, total)
    BY <2>1 DEF KeyInv
  <2>3. flow[j].opens # 0
    BY <1>2, <2>2 DEF Totals
  <2>4. flow[j].opens > 0 /\ flow[j].opens - 1 \in Nat
    BY <1>3, <2>3
  <2>5. total[flow[j].opens - 1] + flow[j].bytes = total[flow[j].opens] /\ total[flow[j].opens] = sent[j]
    BY <1>3, <2>2, <2>4 DEF Totals
  <2>6. total[flow[j].opens - 1] \in Nat /\ sent[j] \in 0 .. MaxBytes
    BY <1>1, <2>4 DEF HistoryType
  <2>7. flow[j].bytes \in 0 .. MaxBytes /\ flow[j].opens \in 1 .. MaxOpens
    BY <1>3, <2>4, <2>5, <2>6
  <2> QED
    BY <2>7 DEF Event
<1>5. /\ flow \in [Keys -> [state : {"closed", "established", "half closed"}, bytes : Nat, opens : 0 .. MaxOpens]]
      /\ \A k \in Keys \ {j} : flow'[k] = flow[k]
      /\ flow'[j] = [flow[j] EXCEPT !.state = "closed"]
  BY <1>1, <1>2 DEF HistoryType
<1>6. flow' \in [Keys -> [state : {"closed", "established", "half closed"}, bytes : Nat, opens : 0 .. MaxOpens]]
  BY <1>2, <1>5
<1>7. Ends(j, e)
  BY <1>2, <1>5 DEF Ends
<1> HIDE DEF e
<1>8. /\ fifo' \in [{"net"} -> Seq(Event)] /\ cause' \in [Keys -> SUBSET Reasons]
      /\ InOrder' /\ Accounts'
  BY <1>2, <1>4, <1>5, <1>7, ReportStep DEF Ends
<1>9. HistoryType'
  BY <1>1, <1>2, <1>6, <1>8 DEF HistoryType
<1> QED
  BY <1>8, <1>9 DEF HistInv

-----------------------------------------------------------------------------
(* The other steps of the network. *)
LEMMA SameQueue ==
  ASSUME InOrder, UNCHANGED <<fifo, processor>>
  PROVE  /\ InOrder'
         /\ \A k \in Keys : InHand(k)' = InHand(k) /\ InRing(k)' = InRing(k) /\ Pending(k)' = Pending(k)
<1>1. \A k \in Keys : InHand(k)' = InHand(k) /\ InRing(k)' = InRing(k)
  BY DEF InHand, InRing
<1> QED
  BY <1>1 DEF Pending, InOrder

LEMMA StepHalfClose ==
  ASSUME HistInv, NEW j \in Keys, HalfClose(j)
  PROVE  HistInv'
<1>1. HistoryType /\ InOrder /\ Accounts
  BY DEF HistInv
<1>2. /\ flow[j].state = "established" /\ flow' = [flow EXCEPT ![j].state = "half closed"]
      /\ UNCHANGED <<fifo, connections, collector, snapshot, last_snapshot, processor, sent, recorded, cause>>
  BY DEF HalfClose, ring
<1>3. flow \in [Keys -> [state : {"closed", "established", "half closed"}, bytes : Nat, opens : 0 .. MaxOpens]]
  BY <1>1 DEF HistoryType
<1>4. flow' \in [Keys -> [state : {"closed", "established", "half closed"}, bytes : Nat, opens : 0 .. MaxOpens]]
  BY <1>2, <1>3
<1>5. ASSUME NEW k \in Keys
      PROVE  \E total \in [Nat -> Nat], n \in Nat : KeyInv(k, total, n)'
  <2>1. PICK total \in [Nat -> Nat], n \in Nat : KeyInv(k, total, n)
    BY <1>1 DEF Accounts
  <2>2. /\ flow'[k].bytes = flow[k].bytes /\ flow'[k].opens = flow[k].opens
        /\ flow'[k].state = "closed" <=> flow[k].state = "closed"
    BY <1>2, <1>3
  <2>3. /\ InHand(k)' = InHand(k) /\ InRing(k)' = InRing(k) /\ Pending(k)' = Pending(k)
        /\ T(k)' = T(k) /\ Stat(k)' = Stat(k)
    BY <1>1, <1>2, SameQueue DEF T, Stat
  <2>4. Late(k, n)' => Late(k, n)
    BY <2>3 DEF Late
  <2>5. KeyInv(k, total, n)'
    BY <1>1, <1>2, <2>1, <2>2, <2>3, <2>4, Still
  <2> QED
    BY <2>5
<1>6. HistoryType' /\ InOrder'
  BY <1>1, <1>2, <1>4, SameQueue DEF HistoryType
<1> QED
  BY <1>5, <1>6 DEF HistInv, Accounts

(* The bytes of a connection that is not closed count in every later total. *)
LEMMA StepSend ==
  ASSUME HistInv, NEW j \in Keys, Send(j)
  PROVE  HistInv'
<1>1. HistoryType /\ InOrder /\ Accounts
  BY DEF HistInv
<1>2. /\ flow[j].state = "established" /\ sent[j] < MaxBytes
      /\ flow' = [flow EXCEPT ![j].bytes = @ + 1] /\ sent' = [sent EXCEPT ![j] = @ + 1]
      /\ UNCHANGED <<fifo, connections, collector, snapshot, last_snapshot, processor, recorded, cause>>
  BY DEF Send, ring
<1>3. /\ flow \in [Keys -> [state : {"closed", "established", "half closed"}, bytes : Nat, opens : 0 .. MaxOpens]]
      /\ sent \in [Keys -> 0 .. MaxBytes] /\ MaxBytes \in Nat
  BY <1>1, HistoryAssumption DEF HistoryType
<1>4. /\ flow' \in [Keys -> [state : {"closed", "established", "half closed"}, bytes : Nat, opens : 0 .. MaxOpens]]
      /\ sent' \in [Keys -> 0 .. MaxBytes]
  <2>1. flow[j].bytes + 1 \in Nat /\ sent[j] + 1 \in 0 .. MaxBytes
    <3>1. flow[j].bytes \in Nat /\ sent[j] \in 0 .. MaxBytes /\ sent[j] < MaxBytes
      BY <1>2, <1>3
    <3>2. MaxBytes \in Nat
      BY <1>3
    <3>3. sent[j] + 1 \in 0 .. MaxBytes
      BY <3>1, <3>2
    <3> QED
      BY <3>1, <3>3
  <2> QED
    BY <1>2, <1>3, <2>1
<1>5. ASSUME NEW k \in Keys
      PROVE  /\ InHand(k)' = InHand(k) /\ InRing(k)' = InRing(k) /\ Pending(k)' = Pending(k)
             /\ T(k)' = T(k) /\ Stat(k)' = Stat(k)
  BY <1>1, <1>2, SameQueue DEF T, Stat
<1>6. ASSUME NEW k \in Keys, k # j
      PROVE  \E total \in [Nat -> Nat], n \in Nat : KeyInv(k, total, n)'
  <2>1. PICK total \in [Nat -> Nat], n \in Nat : KeyInv(k, total, n)
    BY <1>1 DEF Accounts
  <2>2. /\ flow'[k].bytes = flow[k].bytes /\ flow'[k].opens = flow[k].opens
        /\ flow'[k].state = "closed" <=> flow[k].state = "closed"
        /\ sent'[k] = sent[k]
    BY <1>2, <1>3, <1>6
  <2>3. Late(k, n)' => Late(k, n)
    BY <1>5 DEF Late
  <2>4. KeyInv(k, total, n)'
    BY <1>1, <1>2, <1>5, <2>1, <2>2, <2>3, Still
  <2> QED
    BY <2>4
<1>7. \E total \in [Nat -> Nat], n \in Nat : KeyInv(j, total, n)'
  <2>1. PICK total \in [Nat -> Nat], n \in Nat : KeyInv(j, total, n)
    BY <1>1 DEF Accounts
  <2>2. /\ Totals(j, total) /\ Events(j, total) /\ Samples(j, total) /\ First(j, n)
        /\ AtLeast(j, total, n) /\ AtMost(j, total, n)
    BY <2>1 DEF KeyInv
  <2>0. PICK o \in Nat : o = flow[j].opens
    BY <1>1, Shapes
  <2>3. /\ flow'[j].opens = o /\ flow'[j].bytes = flow[j].bytes + 1 /\ flow'[j].state = "established"
        /\ sent'[j] = sent[j] + 1 /\ sent[j] \in Nat /\ o \in Nat /\ flow[j].bytes \in Nat /\ o <= MaxOpens
    BY <1>1, <1>2, <1>3, <2>0, Shapes
  <2>4. o >= 1 /\ o - 1 \in Nat /\ total[o - 1] + flow[j].bytes = total[o] /\ total[o] = sent[j]
    BY <1>2, <2>0, <2>2, <2>3 DEF Totals
  <2>5. n <= o /\ n >= 1 /\ n - 1 \in Nat
    <3>1. o \in Due(j)
      BY <1>2, <2>0, <2>3, <2>4, HistoryAssumption DEF Due
    <3> QED
      BY <2>2, <3>1, <2>0 DEF First
  <2>6. PICK after \in [Nat -> Nat] : \A x \in Nat : after[x] = IF x >= o THEN total[x] + 1 ELSE total[x]
    <3> DEFINE f == [x \in Nat |-> IF x >= o THEN total[x] + 1 ELSE total[x]]
    <3>1. f \in [Nat -> Nat] /\ \A x \in Nat : f[x] = IF x >= o THEN total[x] + 1 ELSE total[x]
      OBVIOUS
    <3> QED
      BY <3>1
  <2>8. Totals(j, after)'
    <3>1. after[0] = 0
      BY <2>2, <2>3, <2>4, <2>6, <2>0 DEF Totals
    <3>2. ASSUME NEW x \in Nat, NEW y \in Nat, x <= y
          PROVE  after[x] <= after[y]
      <4>1. total[x] <= total[y] /\ total[x] \in Nat /\ total[y] \in Nat
        BY <2>2, <3>2, <2>0 DEF Totals
      <4>2. x >= o => y >= o
        BY <2>3, <3>2
      <4> QED
        BY <2>6, <4>1, <4>2
    <3>3. \A x \in Nat : x >= o => after[x] = sent[j] + 1
      BY <2>2, <2>6, <2>0 DEF Totals
    <3>4. after[o - 1] + (flow[j].bytes + 1) = after[o]
      <4>1. after[o - 1] = total[o - 1] /\ after[o] = total[o] + 1
        BY <2>3, <2>4, <2>6
      <4> QED
        BY <2>3, <2>4, <4>1
    <3>5. /\ \A x \in Nat : x >= flow'[j].opens => after[x] = sent'[j]
          /\ after[flow'[j].opens - 1] + flow'[j].bytes = after[flow'[j].opens]
      BY <2>0, <2>3, <3>3, <3>4
    <3>6. flow'[j].opens # 0
      BY <2>0, <2>3, <2>4
    <3> QED
      BY <3>1, <3>2, <3>5, <3>6 DEF Totals
  <2>9. \A x \in Nat : x < o => after[x] = total[x]
    BY <2>3, <2>6
  <2>10. Events(j, after)'
    <3>1. Due(j)' = Due(j)
      BY <1>2, <1>5, <2>3, <2>0 DEF Due, Ended
    <3>2. ASSUME NEW e \in Pending(j), e.action = "Close"
          PROVE  after[e.open - 1] + e.bytes = after[e.open]
      <4>1. e.open < o /\ total[e.open - 1] + e.bytes = total[e.open]
        BY <1>2, <2>2, <3>2, <2>0 DEF Events
      <4>2. e.open \in Nat /\ e.open >= 1
        BY <1>1, RingShape DEF Pending, InHand, InRing
      <4>3. e.open - 1 \in Nat /\ e.open - 1 < o
        BY <2>3, <4>1, <4>2
      <4>4. after[e.open - 1] = total[e.open - 1] /\ after[e.open] = total[e.open]
        BY <2>9, <4>1, <4>2, <4>3
      <4> QED
        BY <4>1, <4>4
    <3>3. \A e \in Pending(j) :
            /\ e.open <= o
            /\ e.action = "Close" => e.open < o \/ flow[j].state = "closed"
            /\ T(j) # None => e.open >= T(j).open /\ (e.action = "Allow" => e.open > T(j).open)
      BY <2>2, <2>0 DEF Events
    <3>4. /\ \A e \in InRing(j) : e.action = "Allow" => e.open \in Due(j)
          /\ processor # Idle /\ processor.pc = "record" /\ processor.event.key = j =>
               processor.event.action = "Close" /\ T(j) = None
      BY <2>2, <2>0 DEF Events
    <3> QED
      BY <1>2, <1>5, <2>3, <3>1, <3>2, <3>3, <3>4, <2>0 DEF Events
  <2>11. Samples(j, after)'
    <3>1. T(j) # None => T(j).open \in 1 .. o
      BY <2>2, <2>0 DEF Samples
    <3>2. ASSUME Stat(j) # None
          PROVE  /\ Stat(j).open \in 1 .. o
                 /\ after[Stat(j).open - 1] + Stat(j).bytes <= after[Stat(j).open]
      <4>1. /\ Stat(j).open \in 1 .. o /\ Stat(j).bytes \in Nat
            /\ total[Stat(j).open - 1] + Stat(j).bytes <= total[Stat(j).open]
        BY <1>1, <2>2, <3>2, Shapes, <2>0 DEF Samples
      <4>2. Stat(j).open \in Nat /\ Stat(j).open - 1 \in Nat /\ Stat(j).open - 1 < o
        BY <2>3, <4>1
      <4>3. after[Stat(j).open - 1] = total[Stat(j).open - 1]
        BY <2>9, <4>2
      <4>4. after[Stat(j).open] >= total[Stat(j).open] /\ total[Stat(j).open] \in Nat /\ total[Stat(j).open - 1] \in Nat
            /\ after[Stat(j).open] \in Nat
        BY <2>6, <4>2
      <4> QED
        BY <4>1, <4>3, <4>4
    <3> QED
      BY <1>5, <2>3, <3>1, <3>2, <2>0 DEF Samples
  <2>12. First(j, n)'
    <3>1. Due(j)' = Due(j)
      BY <1>2, <1>5, <2>3, <2>0 DEF Due, Ended
    <3> QED
      BY <1>2, <2>2, <2>3, <3>1, <2>0 DEF First
  <2>13. /\ after[n - 1] = total[n - 1] /\ after[n] >= total[n]
         /\ after[n - 1] \in Nat /\ after[n] \in Nat /\ total[n] \in Nat
    BY <2>3, <2>5, <2>6, <2>9
  <2>14. AtLeast(j, after, n)'
    BY <1>2, <2>2, <2>13 DEF AtLeast, Baseline
  <2>15. AtMost(j, after, n)'
    <3> SUFFICES ASSUME Undisturbed(j)
                 PROVE  \/ AllCurrent(j, after, n)' \/ CopyCurrent(j, after, n)'
                        \/ OnlyTableCurrent(j, after, n)' \/ NoneCurrent(j, after, n)'
      BY <1>2 DEF AtMost, Undisturbed
    <3>1. /\ Baseline(j)' = Baseline(j) /\ Copy(j)' = Copy(j) /\ Tabled(j)' = Tabled(j) /\ (Copied(j)' <=> Copied(j))
          /\ Late(j, n)' <=> Late(j, n)
          /\ Heard(j, n)' <=> Heard(j, n)
      BY <1>2, <1>5 DEF Baseline, Copy, Tabled, Copied, Late, Heard
    <3>2. /\ Copied(j) => snapshot[j] \in Nat
          /\ T(j) # None => T(j).bytes \in Nat
          /\ Baseline(j) \in Nat /\ recorded[j] \in Nat
      BY <1>1, Shapes
    <3>3. \A x \in Nat : x <= total[n] - total[n - 1] => x <= after[n] - after[n - 1]
      BY <2>13
    <3>4. TableCurrent(j, total, n) => TableCurrent(j, after, n)'
      BY <1>5, <3>1, <3>2, <3>3 DEF TableCurrent
    <3>5. CASE AllCurrent(j, total, n)
      BY <1>2, <1>5, <2>13, <3>1, <3>2, <3>3, <3>4, <3>5 DEF AllCurrent
    <3>6. CASE CopyCurrent(j, total, n)
      BY <1>2, <1>5, <2>13, <3>1, <3>2, <3>3, <3>4, <3>6 DEF CopyCurrent
    <3>7. CASE OnlyTableCurrent(j, total, n)
      BY <1>2, <2>13, <3>1, <3>4, <3>7 DEF OnlyTableCurrent
    <3>8. CASE NoneCurrent(j, total, n)
      <4>1. Coming(j, n)' = Coming(j, n)
        BY <1>5, <3>1 DEF Coming, SatSub
      <4> QED
        BY <1>2, <2>13, <3>1, <3>8, <4>1 DEF NoneCurrent, SatSub
    <3> QED
      BY <2>2, <3>5, <3>6, <3>7, <3>8 DEF AtMost
  <2>16. KeyInv(j, after, n)'
    BY <2>8, <2>10, <2>11, <2>12, <2>14, <2>15 DEF KeyInv
  <2> QED
    BY <2>6, <2>16
<1>8. HistoryType' /\ InOrder'
  BY <1>1, <1>2, <1>4, SameQueue DEF HistoryType
<1> QED
  BY <1>6, <1>7, <1>8 DEF HistInv, Accounts

-----------------------------------------------------------------------------
(* The steps of the processor. *)
LEMMA StepGetEvent ==
  ASSUME HistInv, get_event
  PROVE  HistInv'
<1>1. HistoryType /\ InOrder /\ Accounts
  BY DEF HistInv
<1>2. UNCHANGED <<flow, connections, collector, snapshot, last_snapshot, sent, recorded, cause>>
  BY DEF get_event
<1>3. /\ fifo' \in [{"net"} -> Seq(Event)] /\ processor' \in Processing /\ InOrder'
      /\ \A k \in Keys : InHand(k) = {} /\ Pending(k)' = Pending(k) /\ InRing(k)' \subseteq InRing(k)
                         /\ InHand(k)' \subseteq InRing(k)
  BY <1>1, Taken
<1>4. ASSUME NEW k \in Keys
      PROVE  \E total \in [Nat -> Nat], n \in Nat : KeyInv(k, total, n)'
  <2>1. PICK total \in [Nat -> Nat], n \in Nat : KeyInv(k, total, n)
    BY <1>1 DEF Accounts
  <2>2. T(k)' = T(k) /\ Stat(k)' = Stat(k)
    BY <1>2 DEF T, Stat
  <2>3. Late(k, n)' => Late(k, n)
    <3> SUFFICES ASSUME Late(k, n)', ~Late(k, n) PROVE FALSE
      OBVIOUS
    <3>1. PICK e \in InHand(k)' : e.action = "Allow" /\ e.open = Stat(k).open /\ Stat(k).open < n /\ Stat(k) # None
      BY <2>2 DEF Late
    <3>2. e.open \in Due(k)
      BY <1>3, <2>1, <3>1 DEF KeyInv, Events
    <3>3. n <= e.open
      BY <2>1, <3>2 DEF KeyInv, First
    <3>4. Stat(k).open \in Nat
      BY <1>1, <3>1, Shapes
    <3> QED
      BY <3>1, <3>3, <3>4
  <2>4. processor' # Idle /\ processor'.pc = "record" => processor' = processor
    BY DEF get_event
  <2>5. KeyInv(k, total, n)'
    BY <1>1, <1>2, <1>3, <2>1, <2>2, <2>3, <2>4, Still
  <2> QED
    BY <2>5
<1>5. HistoryType'
  BY <1>1, <1>2, <1>3 DEF HistoryType
<1> QED
  BY <1>3, <1>4, <1>5 DEF HistInv, Accounts

(* The event in hand comes before those in the ring. *)
LEMMA Hand ==
  ASSUME HistoryType, InOrder, processor # Idle
  PROVE  /\ processor \in [pc : {"track", "record"}, event : Event]
         /\ processor.event \in Event /\ processor.event.key \in Keys
         /\ \A k \in Keys : InHand(k) = Added(k, processor.event)
         /\ \A d \in InRing(processor.event.key) : Before(processor.event, d)
<1>1. processor \in [pc : {"track", "record"}, event : Event]
  BY DEF HistoryType, Processing
<1>2. processor.event \in Event /\ processor.event.key \in Keys
  BY <1>1, RingShape
<1>3. \A k \in Keys : InHand(k) = Added(k, processor.event)
  BY <1>2 DEF InHand, Added
<1>4. processor.event \in InHand(processor.event.key)
  BY <1>3, <1>2 DEF Added
<1> QED
  BY <1>1, <1>2, <1>3, <1>4 DEF InOrder

LEMMA Finished ==
  ASSUME HistoryType, InOrder, processor' = Idle, UNCHANGED fifo
  PROVE  /\ InOrder'
         /\ \A k \in Keys : InHand(k)' = {} /\ InRing(k)' = InRing(k) /\ Pending(k)' = InRing(k)
<1>1. \A k \in Keys : InHand(k)' = {} /\ InRing(k)' = InRing(k)
  BY DEF InHand, InRing
<1> QED
  BY <1>1 DEF Pending, InOrder

(* The other keys see nothing of it. *)
LEMMA OtherKey ==
  ASSUME HistoryType, InOrder, Accounts, NEW k \in Keys, processor # Idle, processor.event.key # k,
         processor' = Idle \/ (processor' # Idle /\ processor'.event = processor.event),
         UNCHANGED <<fifo, flow, collector, snapshot, sent>>,
         connections'[k] = connections[k], last_snapshot'[k] = last_snapshot[k],
         recorded'[k] = recorded[k], cause[k] \subseteq cause'[k]
  PROVE  \E total \in [Nat -> Nat], n \in Nat : KeyInv(k, total, n)'
<1>1. PICK total \in [Nat -> Nat], n \in Nat : KeyInv(k, total, n)
  BY DEF Accounts
<1>2. InHand(k) = {} /\ InHand(k)' = {} /\ InRing(k)' = InRing(k)
  BY DEF InHand, InRing
<1>3. Pending(k)' = Pending(k) /\ T(k)' = T(k) /\ Stat(k)' = Stat(k)
  BY <1>2 DEF Pending, T, Stat
<1>4. Late(k, n)' => Late(k, n)
  BY <1>2, <1>3 DEF Late
<1>5. KeyInv(k, total, n)'
  <2>1. Totals(k, total) /\ Events(k, total) /\ Samples(k, total) /\ First(k, n) /\ AtLeast(k, total, n) /\ AtMost(k, total, n)
    BY <1>1 DEF KeyInv
  <2>2. Due(k)' = Due(k)
    BY <1>3 DEF Due, Ended
  <2>3. Totals(k, total)' /\ Samples(k, total)'
    BY <1>3, <2>1 DEF Totals, Samples
  <2>4. Events(k, total)'
    BY <1>2, <1>3, <2>1, <2>2 DEF Events
  <2>5. First(k, n)' /\ AtLeast(k, total, n)'
    BY <2>1, <2>2 DEF First, AtLeast, Baseline
  <2>6. Heard(k, n)' <=> Heard(k, n)
    BY <1>3 DEF Heard
  <2>7. AtMost(k, total, n)'
    BY <1>3, <1>4, <2>1, <2>6, AtMostStill
  <2> QED
    BY <2>3, <2>4, <2>5, <2>7 DEF KeyInv
<1> QED
  BY <1>5

LEMMA TrackAllow ==
  ASSUME HistInv, NEW total \in [Nat -> Nat], NEW n \in Nat, NEW k \in Keys, KeyInv(k, total, n),
         processor # Idle, NEW e \in Event, processor.event = e, e.key = k, e.action = "Allow", processor' = Idle,
         connections'[k] = Tracked(e),
         UNCHANGED <<fifo, flow, collector, snapshot, last_snapshot, sent, recorded, cause>>
  PROVE  KeyInv(k, total, n)'
<1>1. /\ HistoryType /\ InOrder
      /\ Totals(k, total) /\ Events(k, total) /\ Samples(k, total) /\ First(k, n) /\ AtLeast(k, total, n) /\ AtMost(k, total, n)
  BY DEF HistInv, KeyInv
<1> DEFINE o == flow[k].opens
<1>2. o \in Nat /\ e.open \in Nat /\ e.open >= 1 /\ e.open <= o /\ e \in InHand(k) /\ e \in Pending(k)
  <2>1. e \in InHand(k) /\ e \in Pending(k)
    BY DEF InHand, Pending
  <2> QED
    BY <1>1, <2>1, RingShape, Shapes DEF Events
<1>3. /\ InHand(k)' = {} /\ InRing(k)' = InRing(k) /\ Pending(k)' = InRing(k)
      /\ InHand(k) = {e} /\ \A d \in InRing(k) : Before(e, d) /\ d \in Event
  BY <1>1, Hand, Finished DEF Added, InRing
<1>4. T(k)' = [bytes |-> Tabled(k), age |-> 0, open |-> e.open] /\ Stat(k)' = Stat(k)
  BY DEF T, Stat, Tracked, Tabled
<1>5. T(k)'.open = e.open /\ T(k)'.bytes = Tabled(k)
  BY <1>4
<1>6. Due(k)' = Due(k)
  <2>1. \A d \in Pending(k) : d.action = "Close" => d \in Pending(k)'
    BY <1>3 DEF Pending
  <2>2. Pending(k)' \subseteq Pending(k)
    BY <1>3 DEF Pending
  <2>3. Ended(k)' = Ended(k)
    BY <2>1, <2>2 DEF Ended
  <2> QED
    BY <2>3 DEF Due
<1>7. e.open <= n
  <2>1. CASE n > o
    BY <1>2, <2>1
  <2>2. CASE n <= o
    <3>1. n \in Due(k)
      BY <1>1, <2>2 DEF First
    <3>2. CASE flow[k].state # "closed" /\ n = flow[k].opens
      BY <1>2, <3>2
    <3>3. CASE n \in Ended(k)
      <4>1. PICK d \in Pending(k) : d.action = "Close" /\ d.open = n
        BY <3>3 DEF Ended
      <4>2. d \in InRing(k)
        BY <1>3, <4>1 DEF Pending
      <4> QED
        BY <1>2, <1>3, <4>1, <4>2 DEF Before
    <3> QED
      BY <3>1, <3>2, <3>3 DEF Due
  <2> QED
    BY <1>2, <2>1, <2>2
<1>8. ~Heard(k, n)
  BY <1>2, <1>7 DEF Heard
<1>9. T(k) # None => T(k).open # n
  <2> SUFFICES ASSUME T(k) # None PROVE T(k).open # n
    OBVIOUS
  <2>1. e.open > T(k).open /\ T(k).open \in Nat
    BY <1>1, <1>2, Shapes DEF Events
  <2> QED
    BY <1>2, <1>7, <2>1
<1>10. Late(k, n)' => Late(k, n) /\ e.open # n
  <2> SUFFICES ASSUME Late(k, n)' PROVE Late(k, n) /\ e.open # n
    OBVIOUS
  <2>1. Stat(k) # None /\ Stat(k).bytes > 0 /\ Stat(k).open < n /\ Stat(k).open = e.open
    BY <1>3, <1>4, <1>5 DEF Late
  <2>2. e \in InHand(k) /\ e.action = "Allow" /\ e.open = Stat(k).open
    BY <1>2, <2>1
  <2> QED
    BY <1>2, <2>1, <2>2 DEF Late
<1>11. Totals(k, total)' /\ First(k, n)' /\ AtLeast(k, total, n)'
  BY <1>1, <1>6 DEF Totals, First, AtLeast, Baseline
<1>12. Samples(k, total)'
  BY <1>1, <1>2, <1>4, <1>5 DEF Samples
<1>13. Events(k, total)'
  <2>1. ASSUME NEW d \in InRing(k)
        PROVE  d.open >= e.open /\ (d.action = "Allow" => d.open > e.open)
    <3>1. Before(e, d) /\ d.open \in Nat
      BY <1>1, <1>3, RingShape
    <3> QED
      BY <1>2, <3>1 DEF Before
  <2>2. \A d \in InRing(k) :
          /\ d.open <= flow[k].opens
          /\ d.action = "Close" => /\ d.open < flow[k].opens \/ flow[k].state = "closed"
                                   /\ total[d.open - 1] + d.bytes = total[d.open]
          /\ d.action = "Allow" => d.open \in Due(k)
    BY <1>1 DEF Events, Pending
  <2> QED
    BY <1>3, <1>5, <1>6, <2>1, <2>2 DEF Events
<1>14. AtMost(k, total, n)'
  <2> SUFFICES ASSUME Undisturbed(k)
               PROVE  \/ AllCurrent(k, total, n)' \/ CopyCurrent(k, total, n)'
                      \/ OnlyTableCurrent(k, total, n)' \/ NoneCurrent(k, total, n)'
    BY DEF AtMost, Undisturbed
  <2>1. Baseline(k)' = Baseline(k) /\ Copy(k)' = Copy(k) /\ (Copied(k)' <=> Copied(k))
    BY DEF Baseline, Copy, Copied
  <2>2. Tabled(k)' = Tabled(k) \/ (T(k)' = None /\ Tabled(k)' = 0)
    BY <1>5 DEF Tabled
  <2>3. /\ recorded[k] \in Nat /\ total[n] \in Nat /\ total[n - 1] \in Nat /\ total[n - 1] <= total[n]
        /\ Copy(k) \in Nat /\ Baseline(k) \in Nat /\ Tabled(k) \in Nat /\ Coming(k, n) \in Nat
        /\ SatSub(Copy(k), Baseline(k)) \in Nat /\ SatSub(Tabled(k), Copy(k)) \in Nat
    BY <1>1, Numbers
  <2>4. TableCurrent(k, total, n) =>
          /\ T(k) = None /\ Tabled(k) = 0 /\ Tabled(k)' = 0 /\ SatSub(Tabled(k)', Copy(k)) = 0 /\ ~Late(k, n)'
          /\ Coming(k, n)' = 0
    BY <1>9, <1>10, <2>2, <2>3 DEF TableCurrent, Tabled, SatSub, Coming
  <2>6. CASE AllCurrent(k, total, n)
    <3>1. TableCurrent(k, total, n) /\ last_snapshot[k] = None /\ ~Copied(k) /\ recorded[k] <= total[n - 1] + Baseline(k)
      BY <1>8, <2>6 DEF AllCurrent
    <3>2. Baseline(k) = 0 /\ Copy(k) = 0 /\ SatSub(Copy(k), Baseline(k)) = 0
      BY <3>1 DEF Baseline, Copy, Copied, SatSub
    <3>3. NoneCurrent(k, total, n)'
      BY <2>1, <2>3, <2>4, <3>1, <3>2 DEF NoneCurrent
    <3> QED
      BY <3>3
  <2>7. CASE OnlyTableCurrent(k, total, n)
    <3>1. TableCurrent(k, total, n) /\ recorded[k] + SatSub(Copy(k), Baseline(k)) <= total[n - 1]
      BY <2>7 DEF OnlyTableCurrent
    <3>2. NoneCurrent(k, total, n)'
      BY <2>1, <2>3, <2>4, <3>1 DEF NoneCurrent
    <3> QED
      BY <3>2
  <2>8. CASE NoneCurrent(k, total, n)
    <3>1. CASE Tabled(k)' = Tabled(k)
      <4>1. Coming(k, n)' \in Nat /\ Coming(k, n)' <= Coming(k, n)
        BY <1>4, <1>10, <2>3, <3>1 DEF Coming
      <4> QED
        BY <2>1, <2>3, <2>8, <3>1, <4>1 DEF NoneCurrent
    <3>2. CASE T(k)' = None /\ Tabled(k)' = 0
      <4>1. Coming(k, n)' = 0 /\ SatSub(Tabled(k)', Copy(k)) = 0
        BY <1>3, <2>3, <3>2 DEF Coming, Late, SatSub
      <4> QED
        BY <2>1, <2>3, <2>8, <3>2, <4>1 DEF NoneCurrent
    <3> QED
      BY <2>2, <3>1, <3>2
  <2> QED
    BY <1>1, <1>8, <2>6, <2>7, <2>8 DEF AtMost, CopyCurrent
<1> QED
  BY <1>11, <1>12, <1>13, <1>14 DEF KeyInv

LEMMA TrackClose ==
  ASSUME HistInv, NEW total \in [Nat -> Nat], NEW n \in Nat, NEW k \in Keys, KeyInv(k, total, n),
         processor # Idle, NEW e \in Event, processor.event = e, e.key = k, e.action = "Close",
         processor' = [pc |-> "record", event |-> e], connections'[k] = None,
         UNCHANGED <<fifo, flow, collector, snapshot, last_snapshot, sent, recorded, cause>>
  PROVE  KeyInv(k, total, n)'
<1>1. /\ HistoryType /\ InOrder
      /\ Totals(k, total) /\ Events(k, total) /\ Samples(k, total) /\ First(k, n) /\ AtLeast(k, total, n) /\ AtMost(k, total, n)
  BY DEF HistInv, KeyInv
<1>2. InHand(k)' = InHand(k) /\ InRing(k)' = InRing(k) /\ Pending(k)' = Pending(k) /\ InHand(k) = {e}
  <2>1. processor' # Idle /\ processor'.event = e
    BY DEF Idle
  <2>2. InHand(k)' = {e} /\ InHand(k) = {e}
    BY <2>1 DEF InHand
  <2> QED
    BY <2>2 DEF InRing, Pending
<1>3. T(k)' = None /\ Stat(k)' = Stat(k) /\ ~Late(k, n)' /\ Coming(k, n)' = 0 /\ Tabled(k)' = 0
  BY <1>2 DEF T, Stat, Late, Coming, Tabled
<1>4. Due(k)' = Due(k) /\ (Heard(k, n)' <=> Heard(k, n))
  BY <1>2 DEF Due, Ended, Heard
<1>5. Totals(k, total)' /\ First(k, n)' /\ AtLeast(k, total, n)' /\ Samples(k, total)'
  BY <1>1, <1>3, <1>4 DEF Totals, First, AtLeast, Baseline, Samples
<1>6. Events(k, total)'
  BY <1>1, <1>2, <1>3, <1>4 DEF Events
<1>7. AtMost(k, total, n)'
  <2> SUFFICES ASSUME Undisturbed(k)
               PROVE  \/ AllCurrent(k, total, n)' \/ CopyCurrent(k, total, n)'
                      \/ OnlyTableCurrent(k, total, n)' \/ NoneCurrent(k, total, n)'
    BY DEF AtMost, Undisturbed
  <2>1. Baseline(k)' = Baseline(k) /\ Copy(k)' = Copy(k) /\ (Copied(k)' <=> Copied(k))
    BY DEF Baseline, Copy, Copied
  <2>2. /\ recorded[k] \in Nat /\ total[n - 1] \in Nat
        /\ Copy(k) \in Nat /\ Baseline(k) \in Nat /\ Tabled(k) \in Nat /\ Coming(k, n) \in Nat
        /\ SatSub(Copy(k), Baseline(k)) \in Nat /\ SatSub(Tabled(k), Copy(k)) \in Nat
    BY <1>1, Numbers
  <2>3. TableCurrent(k, total, n)' /\ SatSub(0, Copy(k)) = 0
    BY <1>3, <2>2 DEF TableCurrent, SatSub
  <2>4. CASE AllCurrent(k, total, n)
    BY <1>3, <1>4, <2>1, <2>3, <2>4 DEF AllCurrent
  <2>5. CASE CopyCurrent(k, total, n)
    BY <1>3, <1>4, <2>1, <2>3, <2>5 DEF CopyCurrent
  <2>6. CASE OnlyTableCurrent(k, total, n)
    BY <2>1, <2>3, <2>6 DEF OnlyTableCurrent
  <2>7. CASE NoneCurrent(k, total, n)
    BY <1>3, <2>1, <2>2, <2>3, <2>7 DEF NoneCurrent
  <2> QED
    BY <1>1, <2>4, <2>5, <2>6, <2>7 DEF AtMost
<1> QED
  BY <1>5, <1>6, <1>7 DEF KeyInv

LEMMA StepUpdateConnection ==
  ASSUME HistInv, update_connection
  PROVE  HistInv'
<1>1. HistoryType /\ InOrder /\ Accounts
  BY DEF HistInv
<1>2. processor # Idle /\ processor.pc = "track"
  BY DEF update_connection, Idle
<1>3. /\ processor \in [pc : {"track", "record"}, event : Event]
      /\ processor.event \in Event /\ processor.event.key \in Keys
  BY <1>1, <1>2, Hand
<1>4. PICK e \in Event : e = processor.event /\ e.key \in Keys /\ e.action \in {"Allow", "Close"} /\ e.open \in Nat
  BY <1>1, <1>3, RingShape
<1>5. /\ connections' = [connections EXCEPT ![e.key] = IF e.action = "Close" THEN None ELSE Tracked(e)]
      /\ processor' = IF e.action = "Close" THEN [processor EXCEPT !.pc = "record"] ELSE Idle
      /\ UNCHANGED <<fifo, flow, collector, snapshot, last_snapshot, sent, recorded, cause>>
  BY <1>4 DEF update_connection, ring
<1>6. connections \in [Keys -> [bytes : Nat, age : Nat, open : Nat] \cup {None}]
  BY <1>1 DEF HistoryType
<1>7. [processor EXCEPT !.pc = "record"] = [pc |-> "record", event |-> e]
  BY <1>3, <1>4
<1>8. connections' \in [Keys -> [bytes : Nat, age : Nat, open : Nat] \cup {None}]
  <2>1. Tracked(e) \in [bytes : Nat, age : Nat, open : Nat]
    BY <1>4, <1>6 DEF Tracked
  <2> QED
    BY <1>5, <1>6, <2>1
<1>9. processor' \in Processing
  BY <1>4, <1>5, <1>7 DEF Processing
<1>10. InOrder'
  <2>1. CASE e.action = "Close"
    <3>1. processor' # Idle /\ processor'.event = e
      BY <1>5, <1>7, <2>1 DEF Idle
    <3>2. \A k \in Keys : InHand(k)' = InHand(k) /\ InRing(k)' = InRing(k)
      BY <1>2, <1>4, <1>5, <3>1 DEF InHand, InRing
    <3> QED
      BY <1>1, <1>5, <3>2 DEF InOrder
  <2>2. CASE e.action # "Close"
    BY <1>1, <1>5, <2>2, Finished
  <2> QED
    BY <2>1, <2>2
<1>11. ASSUME NEW k \in Keys
       PROVE  \E total \in [Nat -> Nat], n \in Nat : KeyInv(k, total, n)'
  <2>1. PICK total \in [Nat -> Nat], n \in Nat : KeyInv(k, total, n)
    BY <1>1 DEF Accounts
  <2>2. CASE k # e.key
    <3>1. connections'[k] = connections[k]
      BY <1>5, <1>6, <2>2
    <3>2. processor' = Idle \/ (processor' # Idle /\ processor'.event = processor.event)
      BY <1>4, <1>5, <1>7
    <3> QED
      BY <1>1, <1>2, <1>4, <1>5, <2>2, <3>1, <3>2, OtherKey
  <2>3. CASE k = e.key /\ e.action = "Allow"
    <3>1. connections'[k] = Tracked(e) /\ processor' = Idle
      BY <1>5, <1>6, <2>3
    <3>2. KeyInv(k, total, n)'
      BY <1>2, <1>4, <1>5, <2>1, <2>3, <3>1, TrackAllow
    <3> QED
      BY <3>2
  <2>4. CASE k = e.key /\ e.action = "Close"
    <3>1. connections'[k] = None /\ processor' = [pc |-> "record", event |-> e]
      BY <1>5, <1>6, <1>7, <2>4
    <3>2. KeyInv(k, total, n)'
      BY <1>2, <1>4, <1>5, <2>1, <2>4, <3>1, TrackClose
    <3> QED
      BY <3>2
  <2> QED
    BY <1>4, <2>2, <2>3, <2>4
<1>12. HistoryType'
  BY <1>1, <1>5, <1>8, <1>9 DEF HistoryType
<1> QED
  BY <1>10, <1>11, <1>12 DEF HistInv, Accounts

-----------------------------------------------------------------------------
(* A write that fails is one of the causes. *)
LEMMA Written ==
  ASSUME HistoryType, NEW rows \in [Keys -> Nat], NEW ks, NEW why \in Reasons, Write(rows, ks, why)
  PROVE  /\ recorded' \in [Keys -> Nat] /\ cause' \in [Keys -> SUBSET Reasons]
         /\ \A k \in Keys : cause[k] \subseteq cause'[k] /\ (k \in ks => why \in cause'[k])
         /\ \A k \in Keys : \/ recorded'[k] = recorded[k] + rows[k]
                            \/ recorded'[k] = recorded[k] /\ (rows[k] > 0 => "failed" \in cause'[k])
<1>1. recorded \in [Keys -> Nat] /\ cause \in [Keys -> SUBSET Reasons] /\ "failed" \in Reasons
  BY DEF HistoryType, Reasons
<1>2. CASE recorded' = [k \in Keys |-> recorded[k] + rows[k]] /\ Blame(ks, why)
  BY <1>1, <1>2 DEF Blame
<1>3. CASE /\ cause' = [k \in Keys |-> cause[k] \cup (IF k \in ks THEN {why} ELSE {})
                                               \cup (IF rows[k] > 0 THEN {"failed"} ELSE {})]
           /\ UNCHANGED recorded
  <2>1. \A k \in Keys : cause'[k] = cause[k] \cup (IF k \in ks THEN {why} ELSE {})
                                            \cup (IF rows[k] > 0 THEN {"failed"} ELSE {})
    BY <1>3
  <2>2. cause' \in [Keys -> SUBSET Reasons]
    BY <1>1, <1>3
  <2> QED
    BY <1>1, <1>3, <2>1, <2>2
<1> QED
  BY <1>2, <1>3 DEF Write

LEMMA RecordKeeps ==
  ASSUME HistInv, NEW total \in [Nat -> Nat], NEW n \in Nat, NEW k \in Keys, KeyInv(k, total, n),
         processor # Idle, processor.pc = "record", NEW e \in Event, processor.event = e, e.key = k, processor' = Idle,
         recorded'[k] \in Nat, cause[k] \subseteq cause'[k], Raced(k) => "raced" \in cause'[k],
         \/ recorded'[k] = recorded[k] + SatSub(e.bytes, Baseline(k))
         \/ recorded'[k] = recorded[k] /\ (SatSub(e.bytes, Baseline(k)) > 0 => "failed" \in cause'[k]),
         last_snapshot'[k] = None,
         UNCHANGED <<fifo, flow, connections, collector, snapshot, sent>>
  PROVE  \E m \in Nat : KeyInv(k, total, m)'
<1>1. /\ HistoryType /\ InOrder
      /\ Totals(k, total) /\ Events(k, total) /\ Samples(k, total) /\ First(k, n) /\ AtLeast(k, total, n) /\ AtMost(k, total, n)
  BY DEF HistInv, KeyInv
<1>2. e.action = "Close" /\ T(k) = None /\ T(k)' = None /\ Stat(k)' = Stat(k)
  BY <1>1 DEF Events, T, Stat
<1>3. /\ InHand(k)' = {} /\ InRing(k)' = InRing(k) /\ Pending(k)' = InRing(k)
      /\ InHand(k) = {e} /\ \A d \in InRing(k) : Before(e, d) /\ d \in Event
  BY <1>1, Hand, Finished DEF Added, InRing
<1>4. e \in Pending(k) /\ Pending(k) = {e} \cup InRing(k)
  BY <1>3 DEF Pending
<1> DEFINE o == flow[k].opens
<1>5. /\ o \in Nat /\ e.open \in Nat /\ e.open >= 1 /\ e.open <= o /\ (e.open < o \/ flow[k].state = "closed")
      /\ total[e.open - 1] + e.bytes = total[e.open] /\ e.bytes \in Nat
  BY <1>1, <1>2, <1>4, RingShape, Shapes DEF Events
<1>6. \A d \in InRing(k) : d.action = "Close" => d.open > e.open /\ d.open \in Nat
  BY <1>1, <1>2, <1>3, <1>5, RingShape DEF Before
\* The event is of the first connection that is due.
<1>7. e.open = n /\ n \in Due(k)
  <2>1. e.open \in 1 .. MaxOpens
    BY DEF Event
  <2>2. e.open \in Due(k)
    BY <1>2, <1>4, <2>1 DEF Due, Ended
  <2>3. n <= e.open
    BY <1>1, <2>2 DEF First
  <2>4. n \in Due(k)
    BY <1>1, <1>5, <2>3 DEF First
  <2>5. CASE flow[k].state # "closed" /\ n = flow[k].opens
    BY <1>5, <2>3, <2>5
  <2>6. CASE n \in Ended(k)
    <3>1. PICK d \in Pending(k) : d.action = "Close" /\ d.open = n
      BY <2>6 DEF Ended
    <3> QED
      BY <1>4, <1>5, <1>6, <2>3, <2>4, <3>1
  <2> QED
    BY <2>4, <2>5, <2>6 DEF Due
<1>8. Due(k)' = Due(k) \ {n}
  <2>1. \A d \in Pending(k)' : d.action = "Close" => d \in Pending(k) /\ d.open # n
    BY <1>3, <1>4, <1>5, <1>6, <1>7
  <2>2. \A d \in Pending(k) : d.action = "Close" /\ d.open # n => d \in Pending(k)'
    BY <1>3, <1>4, <1>7
  <2>3. Ended(k)' = Ended(k) \ {n}
    BY <2>1, <2>2 DEF Ended
  <2>4. ~(flow[k].state # "closed" /\ n = flow[k].opens)
    BY <1>5, <1>7
  <2> QED
    BY <2>3, <2>4 DEF Due
<1>9. PICK m \in Nat : m \in 1 .. o + 1 /\ (\A x \in Due(k)' : m <= x) /\ (m <= o => m \in Due(k)')
  <2>1. Due(k)' \in SUBSET (1 .. MaxOpens)
    BY DEF Due
  <2> QED
    BY <1>5, <2>1, NextDue
<1>10. n < m
  <2>1. \A x \in Due(k)' : n <= x /\ x # n /\ x \in Nat
    BY <1>1, <1>8, HistoryAssumption DEF First, Due
  <2>2. CASE m <= o
    BY <1>9, <2>1, <2>2
  <2> QED
    BY <1>5, <1>7, <1>9, <2>2
<1>11. m - 1 \in Nat /\ n <= m - 1 /\ total[m - 1] \in Nat /\ total[n] <= total[m - 1] /\ total[n] \in Nat /\ total[n - 1] \in Nat
       /\ total[n - 1] + e.bytes = total[n]
  <2>1. m - 1 \in Nat /\ n <= m - 1 /\ n - 1 \in Nat
    BY <1>5, <1>7, <1>10
  <2> QED
    BY <1>1, <1>5, <1>7, <2>1 DEF Totals
<1>12. cause[k] \cap {"lost", "restart"} = {} => m = n + 1
  <2> SUFFICES ASSUME cause[k] \cap {"lost", "restart"} = {} PROVE m = n + 1
    OBVIOUS
  <2>1. CASE n + 1 <= o
    <3>1. n + 1 \in Due(k)
      BY <1>1, <1>5, <2>1 DEF First
    <3>2. m <= n + 1
      BY <1>8, <1>9, <3>1
    <3> QED
      BY <1>10, <3>2
  <2>2. CASE n = o
    BY <1>9, <1>10, <2>2
  <2> QED
    BY <1>5, <1>7, <2>1, <2>2
<1>13. First(k, m)'
  <2>1. ASSUME cause'[k] \cap {"lost", "restart"} = {}, NEW x \in m .. o
        PROVE  x \in Due(k)'
    <3>1. cause[k] \cap {"lost", "restart"} = {}
      BY <2>1
    <3>2. x \in n .. o /\ x # n
      BY <1>10, <2>1
    <3> QED
      BY <1>1, <1>8, <3>1, <3>2 DEF First
  <2> QED
    BY <1>9, <2>1 DEF First
<1>14. Baseline(k)' = 0 /\ Baseline(k) \in Nat /\ recorded[k] \in Nat /\ SatSub(e.bytes, Baseline(k)) \in Nat
  <2>1. Baseline(k) \in Nat /\ recorded[k] \in Nat
    BY <1>1, Shapes
  <2>2. Baseline(k)' = 0
    BY DEF Baseline
  <2> QED
    BY <1>5, <2>1, <2>2 DEF SatSub
<1>15. AtLeast(k, total, m)'
  <2> SUFFICES ASSUME cause'[k] \cap {"failed", "lost", "restart"} = {}
               PROVE  recorded'[k] >= total[m - 1] + Baseline(k)'
    BY DEF AtLeast
  <2>1. cause[k] \cap {"failed", "lost", "restart"} = {} /\ "failed" \notin cause'[k]
    OBVIOUS
  <2>2. recorded[k] >= total[n - 1] + Baseline(k) /\ m - 1 = n
    BY <1>1, <1>12, <2>1 DEF AtLeast
  <2>3. recorded'[k] = recorded[k] + SatSub(e.bytes, Baseline(k))
    BY <1>14, <2>1
  <2> QED
    BY <1>5, <1>11, <1>14, <2>2, <2>3 DEF SatSub
<1>16. AtMost(k, total, m)'
  <2> SUFFICES ASSUME Undisturbed(k)' PROVE NoneCurrent(k, total, m)'
    BY DEF AtMost
  <2>1. Undisturbed(k) /\ ~Copied(k) /\ ~Copied(k)'
    BY DEF Undisturbed, Raced, Copied
  <2>2. /\ recorded[k] \in Nat /\ Copy(k) \in Nat /\ Tabled(k) \in Nat /\ Coming(k, n) \in Nat
        /\ SatSub(Copy(k), Baseline(k)) \in Nat /\ SatSub(Tabled(k), Copy(k)) \in Nat
    BY <1>1, Numbers
  <2>3. recorded'[k] <= total[n]
    <3>1. CASE AllCurrent(k, total, n)
      <4>1. recorded[k] <= total[n - 1] + Baseline(k) /\ Baseline(k) <= e.bytes
        BY <1>5, <1>11, <1>14, <3>1 DEF AllCurrent
      <4> QED
        BY <1>5, <1>11, <1>14, <4>1 DEF SatSub
    <3>2. CASE OnlyTableCurrent(k, total, n) \/ NoneCurrent(k, total, n)
      <4>1. recorded[k] <= total[n - 1]
        BY <1>11, <2>2, <3>2 DEF OnlyTableCurrent, NoneCurrent
      <4>2. SatSub(e.bytes, Baseline(k)) <= e.bytes
        BY <1>5, <1>14 DEF SatSub
      <4> QED
        BY <1>5, <1>11, <1>14, <4>1, <4>2
    <3> QED
      BY <1>1, <2>1, <3>1, <3>2 DEF AtMost, CopyCurrent
  <2>4. Copy(k)' = 0 /\ Tabled(k)' = 0 /\ Coming(k, m)' = 0
    BY <1>2, <1>3, <1>14, <2>1 DEF Copy, Copied, Tabled, Coming, Late
  <2>5. SatSub(0, 0) = 0
    BY DEF SatSub
  <2> QED
    BY <1>11, <1>14, <2>3, <2>4, <2>5 DEF NoneCurrent
<1>17. Totals(k, total)' /\ Samples(k, total)'
  BY <1>1, <1>2 DEF Totals, Samples
<1>18. Events(k, total)'
  <2>1. \A d \in InRing(k) : d.action = "Allow" => d.open \in Due(k)'
    <3>1. \A d \in InRing(k) : d.action = "Allow" => d.open # n /\ d.open \in Due(k)
      <4> SUFFICES ASSUME NEW d \in InRing(k), d.action = "Allow" PROVE d.open # n /\ d.open \in Due(k)
        OBVIOUS
      <4>1. d.open \in Due(k)
        BY <1>1 DEF Events
      <4>2. Before(e, d) /\ d.open \in Nat
        BY <1>1, <1>3, RingShape
      <4> QED
        BY <1>2, <1>5, <1>7, <4>1, <4>2 DEF Before
    <3> QED
      BY <1>8, <3>1
  <2>2. \A d \in InRing(k) :
          /\ d.open <= flow[k].opens
          /\ d.action = "Close" => /\ d.open < flow[k].opens \/ flow[k].state = "closed"
                                   /\ total[d.open - 1] + d.bytes = total[d.open]
    BY <1>1 DEF Events, Pending
  <2> QED
    BY <1>2, <1>3, <2>1, <2>2 DEF Events
<1>19. KeyInv(k, total, m)'
  BY <1>13, <1>15, <1>16, <1>17, <1>18 DEF KeyInv
<1> QED
  BY <1>19

LEMMA StepRecordClosed ==
  ASSUME HistInv, record_closed_connection
  PROVE  HistInv'
<1>1. HistoryType /\ InOrder /\ Accounts
  BY DEF HistInv
<1>2. processor # Idle /\ processor.pc = "record" /\ processor' = Idle
      /\ UNCHANGED <<fifo, flow, connections, collector, snapshot, sent>>
  BY DEF record_closed_connection, Idle, ring
<1>3. PICK e \in Event : e = processor.event /\ e.key \in Keys /\ e.bytes \in Nat
  BY <1>1, <1>2, Hand, RingShape
<1> DEFINE rows == [k \in Keys |-> IF k = e.key THEN SatSub(e.bytes, Baseline(k)) ELSE 0]
           ks == {k \in {e.key} : Raced(k)}
<1>4. Write(rows, ks, "raced") /\ last_snapshot' = [last_snapshot EXCEPT ![e.key] = None]
  BY <1>3 DEF record_closed_connection
<1>5. rows \in [Keys -> Nat] /\ "raced" \in Reasons
  <2>1. \A k \in Keys : Baseline(k) \in Nat
    BY <1>1, Shapes
  <2> QED
    BY <1>3, <2>1 DEF SatSub, Reasons
<1>6. \A k \in Keys : rows[k] = IF k = e.key THEN SatSub(e.bytes, Baseline(k)) ELSE 0
  OBVIOUS
<1>7. \A k \in Keys : k \in ks <=> k = e.key /\ Raced(k)
  OBVIOUS
<1> HIDE DEF rows, ks
<1>8. /\ recorded' \in [Keys -> Nat] /\ cause' \in [Keys -> SUBSET Reasons]
      /\ \A k \in Keys : cause[k] \subseteq cause'[k] /\ (k \in ks => "raced" \in cause'[k])
      /\ \A k \in Keys : \/ recorded'[k] = recorded[k] + rows[k]
                         \/ recorded'[k] = recorded[k] /\ (rows[k] > 0 => "failed" \in cause'[k])
  BY <1>1, <1>4, <1>5, Written
<1>9. last_snapshot \in [Keys -> Nat \cup {None}]
  BY <1>1 DEF HistoryType
<1>10. ASSUME NEW k \in Keys
       PROVE  \E total \in [Nat -> Nat], n \in Nat : KeyInv(k, total, n)'
  <2>1. CASE k # e.key
    <3>1. recorded'[k] = recorded[k] /\ last_snapshot'[k] = last_snapshot[k] /\ cause[k] \subseteq cause'[k]
      <4>1. recorded[k] \in Nat /\ rows[k] = 0
        BY <1>1, <1>6, <2>1, Shapes
      <4> QED
        BY <1>4, <1>8, <1>9, <2>1, <4>1
    <3> QED
      BY <1>1, <1>2, <1>3, <2>1, <3>1, OtherKey
  <2>2. CASE k = e.key
    <3>1. PICK total \in [Nat -> Nat], n \in Nat : KeyInv(k, total, n)
      BY <1>1 DEF Accounts
    <3>2. /\ last_snapshot'[k] = None /\ recorded'[k] \in Nat
          /\ cause[k] \subseteq cause'[k] /\ (Raced(k) => "raced" \in cause'[k])
          /\ \/ recorded'[k] = recorded[k] + SatSub(e.bytes, Baseline(k))
             \/ recorded'[k] = recorded[k] /\ (SatSub(e.bytes, Baseline(k)) > 0 => "failed" \in cause'[k])
      BY <1>4, <1>6, <1>7, <1>8, <1>9, <2>2
    <3>3. \E m \in Nat : KeyInv(k, total, m)'
      BY <1>2, <1>3, <2>2, <3>1, <3>2, RecordKeeps
    <3> QED
      BY <3>3
  <2> QED
    BY <2>1, <2>2
<1>11. HistoryType'
  <2>1. last_snapshot' \in [Keys -> Nat \cup {None}] /\ processor' \in Processing
    BY <1>2, <1>4, <1>9 DEF Processing
  <2> QED
    BY <1>1, <1>2, <1>8, <2>1 DEF HistoryType
<1>12. InOrder'
  BY <1>1, <1>2, Finished
<1> QED
  BY <1>10, <1>11, <1>12 DEF HistInv, Accounts

-----------------------------------------------------------------------------
(* The steps of the statistics and of the snapshots: the queue and the
   connections are not touched. *)
LEMMA Beside ==
  ASSUME HistoryType, InOrder, NEW k \in Keys, NEW total \in [Nat -> Nat], NEW n \in Nat, KeyInv(k, total, n),
         UNCHANGED <<fifo, processor, flow, sent>>, cause[k] \subseteq cause'[k],
         T(k)' # None => T(k) # None /\ T(k)'.open = T(k).open
  PROVE  /\ Totals(k, total)' /\ Events(k, total)' /\ First(k, n)'
         /\ Heard(k, n)' <=> Heard(k, n)
         /\ InHand(k)' = InHand(k)
<1>1. InHand(k)' = InHand(k) /\ InRing(k)' = InRing(k) /\ Pending(k)' = Pending(k)
  BY SameQueue
<1>2. Due(k)' = Due(k) /\ (Heard(k, n)' <=> Heard(k, n))
  BY <1>1 DEF Due, Ended, Heard
<1>3. Totals(k, total) /\ Events(k, total) /\ First(k, n)
  BY DEF KeyInv
<1>4. Totals(k, total)' /\ First(k, n)'
  BY <1>2, <1>3 DEF Totals, First
<1>5. Events(k, total)'
  BY <1>1, <1>2, <1>3 DEF Events
<1> QED
  BY <1>1, <1>2, <1>4, <1>5

LEMMA StepCollect ==
  ASSUME HistInv, collect_all_stats
  PROVE  HistInv'
<1>1. HistoryType /\ InOrder /\ Accounts
  BY DEF HistInv
<1>2. /\ collector = Asleep
      /\ UNCHANGED <<fifo, flow, connections, snapshot, last_snapshot, processor, sent, recorded, cause>>
  BY DEF collect_all_stats, ring
<1>0. PICK seen \in TcpTables :
        \E bytes \in {f \in [seen -> 0 .. MaxBytes] : \A k \in seen : f[k] \in Counters(k)} :
          collector' = [pc |-> "update",
                        stats |-> [k \in Keys |-> IF k \in seen THEN [bytes |-> bytes[k], open |-> flow[k].opens]
                                                   ELSE None]]
  BY DEF collect_all_stats
<1>3. PICK bytes \in {f \in [seen -> 0 .. MaxBytes] : \A k \in seen : f[k] \in Counters(k)} :
        collector' = [pc |-> "update",
                      stats |-> [k \in Keys |-> IF k \in seen THEN [bytes |-> bytes[k], open |-> flow[k].opens]
                                                 ELSE None]]
  BY <1>0
<1>4. \A k \in seen : k \in Keys /\ flow[k].state = "established" /\ bytes[k] \in {0, flow[k].bytes}
  BY <1>3 DEF TcpTables, Counters
<1>5. ASSUME NEW k \in Keys
      PROVE  /\ Stat(k) = None
             /\ Stat(k)' = IF k \in seen THEN [bytes |-> bytes[k], open |-> flow[k].opens] ELSE None
  BY <1>2, <1>3 DEF Stat, Asleep
<1>6. collector' \in Collecting
  <2>1. \A k \in seen : [bytes |-> bytes[k], open |-> flow[k].opens] \in Sample
    <3> SUFFICES ASSUME NEW k \in seen PROVE [bytes |-> bytes[k], open |-> flow[k].opens] \in Sample
      OBVIOUS
    <3>1. k \in Keys /\ bytes[k] \in {0, flow[k].bytes}
      BY <1>4
    <3>2. flow[k].bytes \in Nat /\ flow[k].opens \in Nat
      BY <1>1, <3>1, Shapes
    <3>3. bytes[k] \in Nat
      BY <3>1, <3>2
    <3> QED
      BY <3>2, <3>3 DEF Sample
  <2>2. [k \in Keys |-> IF k \in seen THEN [bytes |-> bytes[k], open |-> flow[k].opens] ELSE None]
          \in [Keys -> Sample \cup {None}]
    BY <2>1
  <2> QED
    BY <1>3, <2>2 DEF Collecting
<1>7. ASSUME NEW k \in Keys
      PROVE  \E total \in [Nat -> Nat], n \in Nat : KeyInv(k, total, n)'
  <2>1. PICK total \in [Nat -> Nat], n \in Nat : KeyInv(k, total, n)
    BY <1>1 DEF Accounts
  <2>2. Totals(k, total) /\ Samples(k, total) /\ First(k, n) /\ AtLeast(k, total, n) /\ AtMost(k, total, n)
    BY <2>1 DEF KeyInv
  <2>3. T(k)' = T(k)
    BY <1>2 DEF T
  <2>4. /\ Totals(k, total)' /\ Events(k, total)' /\ First(k, n)'
        /\ Heard(k, n)' <=> Heard(k, n)
    BY <1>1, <1>2, <2>1, <2>3, Beside
  <2>5. ASSUME Stat(k)' # None
        PROVE  /\ Stat(k)'.open = flow[k].opens /\ flow[k].opens \in Nat /\ flow[k].opens >= 1 /\ n <= flow[k].opens
               /\ Stat(k)'.bytes \in Nat
               /\ total[flow[k].opens - 1] + Stat(k)'.bytes <= total[flow[k].opens]
               /\ Stat(k)'.bytes > 0 => total[flow[k].opens - 1] + Stat(k)'.bytes = total[flow[k].opens]
    <3>1. k \in seen /\ Stat(k)' = [bytes |-> bytes[k], open |-> flow[k].opens]
      BY <1>5, <2>5
    <3>2. /\ flow[k].opens \in Nat /\ flow[k].bytes \in Nat /\ flow[k].opens <= MaxOpens
      BY <1>1, Shapes
    <3>3. flow[k].opens # 0 /\ flow[k].state # "closed"
      BY <1>4, <2>2, <3>1 DEF Totals
    <3>4. total[flow[k].opens - 1] + flow[k].bytes = total[flow[k].opens] /\ flow[k].opens >= 1
          /\ total[flow[k].opens] \in Nat /\ total[flow[k].opens - 1] \in Nat
      BY <2>2, <3>2, <3>3 DEF Totals
    <3>5. flow[k].opens \in Due(k)
      BY <3>2, <3>3, <3>4, HistoryAssumption DEF Due
    <3>6. n <= flow[k].opens
      BY <2>2, <3>5 DEF First
    <3>7. Stat(k)'.bytes \in {0, flow[k].bytes} /\ Stat(k)'.open = flow[k].opens
      BY <1>4, <3>1
    <3> QED
      BY <3>2, <3>4, <3>6, <3>7
  <2>6. Samples(k, total)'
    BY <1>2, <2>2, <2>3, <2>5 DEF Samples
  <2>7. AtLeast(k, total, n)'
    BY <1>2, <2>2 DEF AtLeast, Baseline
  <2>8. ~Late(k, n)' /\ ~Late(k, n)
    <3>1. ~Late(k, n)
      BY <1>5 DEF Late
    <3>2. ASSUME Late(k, n)' PROVE FALSE
      <4>1. Stat(k)' # None /\ Stat(k)'.open < n
        BY <3>2 DEF Late
      <4> QED
        BY <2>5, <4>1
    <3> QED
      BY <3>1, <3>2
  <2>9. AtMost(k, total, n)'
    <3> SUFFICES ASSUME Undisturbed(k)
                 PROVE  \/ AllCurrent(k, total, n)' \/ CopyCurrent(k, total, n)'
                        \/ OnlyTableCurrent(k, total, n)' \/ NoneCurrent(k, total, n)'
      BY <1>2 DEF AtMost, Undisturbed
    <3>1. Baseline(k)' = Baseline(k) /\ Copy(k)' = Copy(k) /\ Tabled(k)' = Tabled(k) /\ (Copied(k)' <=> Copied(k))
      BY <1>2, <2>3 DEF Baseline, Copy, Tabled, Copied
    <3>2. TableCurrent(k, total, n) => TableCurrent(k, total, n)'
      <4> SUFFICES ASSUME TableCurrent(k, total, n), T(k) # None, Stat(k)' # None, Stat(k)'.bytes > 0, Stat(k)'.open = n
                   PROVE  T(k).bytes <= Stat(k)'.bytes
        BY <2>3, <2>8 DEF TableCurrent
      <4>1. T(k).bytes <= total[n] - total[n - 1] /\ T(k).bytes \in Nat
        BY <1>1, Shapes DEF TableCurrent
      <4>2. total[n - 1] + Stat(k)'.bytes = total[n] /\ Stat(k)'.bytes \in Nat
        BY <2>5
      <4>3. total[n] \in Nat /\ total[n - 1] \in Nat
        BY <1>1, <2>2, Numbers
      <4> QED
        BY <4>1, <4>2, <4>3
    <3>3. Coming(k, n)' = 0 /\ Coming(k, n) = 0
      BY <2>8 DEF Coming
    <3>4. CASE AllCurrent(k, total, n)
      BY <1>2, <2>3, <2>4, <3>1, <3>2, <3>4 DEF AllCurrent
    <3>5. CASE CopyCurrent(k, total, n)
      BY <1>2, <2>3, <2>4, <3>1, <3>2, <3>5 DEF CopyCurrent
    <3>6. CASE OnlyTableCurrent(k, total, n)
      BY <1>2, <3>1, <3>2, <3>6 DEF OnlyTableCurrent
    <3>7. CASE NoneCurrent(k, total, n)
      BY <1>2, <3>1, <3>3, <3>7 DEF NoneCurrent
    <3> QED
      BY <2>2, <3>4, <3>5, <3>6, <3>7 DEF AtMost
  <2>10. KeyInv(k, total, n)'
    BY <2>4, <2>6, <2>7, <2>9 DEF KeyInv
  <2> QED
    BY <2>10
<1>8. HistoryType' /\ InOrder'
  BY <1>1, <1>2, <1>6, SameQueue DEF HistoryType
<1> QED
  BY <1>7, <1>8 DEF HistInv, Accounts

(* The statistics task writes what it has, or drops the connection. *)
LEMMA TableKeeps ==
  ASSUME HistInv, NEW total \in [Nat -> Nat], NEW n \in Nat, NEW k \in Keys, KeyInv(k, total, n),
         UNCHANGED <<fifo, processor, flow, sent, snapshot, last_snapshot, recorded>>, cause[k] \subseteq cause'[k],
         Stat(k)' = None,
         \/ T(k)' = None
         \/ /\ T(k) # None /\ T(k)'.open = T(k).open
            /\ \/ T(k)'.bytes = T(k).bytes
               \/ /\ Stat(k) # None /\ Stat(k).bytes > 0 /\ T(k)'.bytes = Stat(k).bytes
                  /\ Stat(k).open = T(k).open \/ "stale" \in cause'[k]
  PROVE  KeyInv(k, total, n)'
<1>1. /\ HistoryType /\ InOrder
      /\ Totals(k, total) /\ Events(k, total) /\ Samples(k, total) /\ First(k, n) /\ AtLeast(k, total, n) /\ AtMost(k, total, n)
  BY DEF HistInv, KeyInv
<1>2. /\ Totals(k, total)' /\ Events(k, total)' /\ First(k, n)'
      /\ Heard(k, n)' <=> Heard(k, n)
      /\ InHand(k)' = InHand(k)
  BY <1>1, Beside
<1>3. AtLeast(k, total, n)' /\ Samples(k, total)'
  BY <1>1 DEF AtLeast, Baseline, Samples
<1>4. ~Late(k, n)' /\ Coming(k, n)' = 0
  BY DEF Late, Coming
<1>5. AtMost(k, total, n)'
  <2> SUFFICES ASSUME Undisturbed(k)'
               PROVE  \/ AllCurrent(k, total, n)' \/ CopyCurrent(k, total, n)'
                      \/ OnlyTableCurrent(k, total, n)' \/ NoneCurrent(k, total, n)'
    BY DEF AtMost
  <2>0. Undisturbed(k) /\ "stale" \notin cause'[k]
    BY DEF Undisturbed
  <2>1. Baseline(k)' = Baseline(k) /\ Copy(k)' = Copy(k) /\ (Copied(k)' <=> Copied(k))
    BY DEF Baseline, Copy, Copied
  <2>2. /\ recorded[k] \in Nat /\ total[n] \in Nat /\ total[n - 1] \in Nat /\ total[n - 1] <= total[n]
        /\ Copy(k) \in Nat /\ Baseline(k) \in Nat /\ Tabled(k) \in Nat /\ Coming(k, n) \in Nat
        /\ SatSub(Copy(k), Baseline(k)) \in Nat /\ SatSub(Tabled(k), Copy(k)) \in Nat
    BY <1>1, Numbers
  <2>3. CASE T(k)' = None
    <3>1. Tabled(k)' = 0 /\ TableCurrent(k, total, n)' /\ SatSub(0, Copy(k)) = 0
      BY <1>4, <2>2, <2>3 DEF Tabled, TableCurrent, SatSub
    <3>2. CASE AllCurrent(k, total, n)
      BY <1>2, <2>1, <2>3, <3>1, <3>2 DEF AllCurrent
    <3>3. CASE CopyCurrent(k, total, n)
      BY <1>2, <2>1, <2>3, <3>1, <3>3 DEF CopyCurrent
    <3>4. CASE OnlyTableCurrent(k, total, n)
      BY <2>1, <3>1, <3>4 DEF OnlyTableCurrent
    <3>5. CASE NoneCurrent(k, total, n)
      BY <1>4, <2>1, <2>2, <3>1, <3>5 DEF NoneCurrent
    <3> QED
      BY <1>1, <2>0, <3>2, <3>3, <3>4, <3>5 DEF AtMost
  <2>4. CASE T(k)' # None
    <3>0. T(k) # None /\ T(k)'.open = T(k).open /\ T(k).bytes \in Nat /\ T(k).open \in Nat
          /\ Tabled(k) = T(k).bytes /\ Tabled(k)' = T(k)'.bytes
      BY <1>1, <2>4, Shapes DEF Tabled
    <3>1. CASE T(k)'.bytes = T(k).bytes
      <4>1. TableCurrent(k, total, n) => TableCurrent(k, total, n)'
        BY <1>4, <3>0, <3>1 DEF TableCurrent
      <4>2. CASE AllCurrent(k, total, n)
        BY <1>2, <2>1, <3>0, <3>1, <4>1, <4>2 DEF AllCurrent
      <4>3. CASE CopyCurrent(k, total, n)
        BY <1>2, <2>1, <3>0, <3>1, <4>1, <4>3 DEF CopyCurrent
      <4>4. CASE OnlyTableCurrent(k, total, n)
        BY <2>1, <4>1, <4>4 DEF OnlyTableCurrent
      <4>5. CASE NoneCurrent(k, total, n)
        BY <1>4, <2>1, <2>2, <3>0, <3>1, <4>5 DEF NoneCurrent
      <4> QED
        BY <1>1, <2>0, <4>2, <4>3, <4>4, <4>5 DEF AtMost
    <3>2. CASE /\ Stat(k) # None /\ Stat(k).bytes > 0 /\ T(k)'.bytes = Stat(k).bytes
               /\ Stat(k).open = T(k).open
      <4>1. Stat(k).bytes \in Nat /\ Stat(k).open \in Nat
        BY <1>1, <3>2, Shapes
      <4>2. total[Stat(k).open - 1] + Stat(k).bytes <= total[Stat(k).open]
        BY <1>1, <3>2 DEF Samples
      <4>3. Stat(k).open = n => Stat(k).bytes <= total[n] - total[n - 1]
        BY <2>2, <4>1, <4>2
      <4>4. TableCurrent(k, total, n) => /\ T(k).open = n /\ T(k).bytes <= Stat(k).bytes
                                         /\ TableCurrent(k, total, n)'
        BY <1>4, <3>0, <3>2, <4>3 DEF TableCurrent
      <4>5. CASE AllCurrent(k, total, n)
        <5>1. Copy(k) <= Stat(k).bytes
          BY <2>2, <3>0, <4>1, <4>4, <4>5 DEF AllCurrent
        <5> QED
          BY <1>2, <2>1, <3>0, <3>2, <4>4, <4>5, <5>1 DEF AllCurrent
      <4>6. CASE CopyCurrent(k, total, n)
        <5>1. Copy(k) <= Stat(k).bytes
          BY <2>2, <3>0, <4>1, <4>4, <4>6 DEF CopyCurrent
        <5> QED
          BY <1>2, <2>1, <3>0, <3>2, <4>4, <4>6, <5>1 DEF CopyCurrent
      <4>7. CASE OnlyTableCurrent(k, total, n)
        BY <2>1, <4>4, <4>7 DEF OnlyTableCurrent
      <4>8. CASE NoneCurrent(k, total, n)
        <5>1. recorded[k] + SatSub(Copy(k), Baseline(k)) + SatSub(Tabled(k), Copy(k)) + Coming(k, n) <= total[n - 1]
          BY <4>8 DEF NoneCurrent
        <5>2. CASE Stat(k).open < n
          <6>1. Late(k, n)
            BY <3>0, <3>2, <5>2 DEF Late
          <6>2. Coming(k, n) = SatSub(Stat(k).bytes, Tabled(k))
            BY <6>1 DEF Coming
          <6>3. SatSub(Stat(k).bytes, Copy(k)) \in Nat
                /\ SatSub(Stat(k).bytes, Copy(k)) <= SatSub(Tabled(k), Copy(k)) + SatSub(Stat(k).bytes, Tabled(k))
            BY <2>2, <4>1 DEF SatSub
          <6>4. recorded[k] + SatSub(Copy(k), Baseline(k)) + SatSub(Stat(k).bytes, Copy(k)) <= total[n - 1]
            BY <2>2, <5>1, <6>2, <6>3
          <6>5. SatSub(Tabled(k)', Copy(k)) = SatSub(Stat(k).bytes, Copy(k))
            BY <3>0, <3>2
          <6> QED
            BY <1>4, <2>1, <2>2, <6>3, <6>4, <6>5 DEF NoneCurrent
        <5>3. CASE Stat(k).open = n
          <6>1. TableCurrent(k, total, n)'
            BY <1>4, <3>0, <3>2, <4>3, <5>3 DEF TableCurrent
          <6>2. recorded[k] + SatSub(Copy(k), Baseline(k)) <= total[n - 1]
            BY <2>2, <5>1
          <6> QED
            BY <2>1, <6>1, <6>2 DEF OnlyTableCurrent
        <5>4. CASE Stat(k).open > n
          <6>1. T(k).open \in 1 .. flow[k].opens /\ flow[k].opens \in Nat
            BY <1>1, <3>0, Shapes DEF Samples
          <6>2. n <= flow[k].opens /\ n # flow[k].opens /\ n \in Due(k)
            BY <1>1, <3>2, <4>1, <5>4, <6>1 DEF First
          <6>3. PICK d \in Pending(k) : d.action = "Close" /\ d.open = n
            BY <6>2 DEF Due, Ended
          <6>4. d.open >= T(k).open
            BY <1>1, <3>0, <6>3 DEF Events
          <6> QED
            BY <3>0, <3>2, <5>4, <6>3, <6>4
        <5> QED
          BY <4>1, <5>2, <5>3, <5>4
      <4> QED
        BY <1>1, <2>0, <4>5, <4>6, <4>7, <4>8 DEF AtMost
    <3> QED
      BY <2>0, <2>4, <3>1, <3>2
  <2> QED
    BY <2>3, <2>4
<1> QED
  BY <1>2, <1>3, <1>5 DEF KeyInv

LEMMA StepUpdateStats ==
  ASSUME HistInv, update_stats
  PROVE  HistInv'
<1>1. HistoryType /\ InOrder /\ Accounts
  BY DEF HistInv
<1> DEFINE hit == {k \in Keys : collector.stats[k] # None /\ connections[k] # None}
           entry == [bytes : Nat, age : Nat, open : Nat]
<1>2. /\ collector.pc = "update" /\ collector' = [pc |-> "gc"]
      /\ connections' = [k \in Keys |-> IF k \in hit THEN Sampled(k) ELSE connections[k]]
      /\ Blame({k \in hit : Stale(k)}, "stale")
      /\ UNCHANGED <<fifo, flow, snapshot, last_snapshot, processor, sent, recorded>>
  BY DEF update_stats, ring
<1>3. \A k \in Keys : /\ cause'[k] = IF k \in hit /\ Stale(k) THEN cause[k] \cup {"stale"} ELSE cause[k]
                      /\ connections'[k] = IF k \in hit THEN Sampled(k) ELSE connections[k]
                      /\ k \in hit <=> collector.stats[k] # None /\ connections[k] # None
  BY <1>2 DEF Blame
<1>0. \A k \in Keys : connections[k] \in entry \cup {None}
  BY <1>1 DEF HistoryType
<1> HIDE DEF hit
<1>4. ASSUME NEW k \in Keys, k \in hit
      PROVE  /\ T(k) # None /\ Stat(k) # None /\ Stat(k) = collector.stats[k] /\ Stat(k).bytes \in Nat
             /\ connections'[k] \in entry /\ connections'[k].open = T(k).open
             /\ connections'[k].bytes = IF Stat(k).bytes > 0 THEN Stat(k).bytes ELSE T(k).bytes
  <2>1. T(k) \in entry /\ T(k) # None
    BY <1>0, <1>3, <1>4 DEF T
  <2>2. Stat(k) # None /\ Stat(k) = collector.stats[k]
    BY <1>2, <1>3, <1>4 DEF Stat
  <2>3. Stat(k).bytes \in Nat
    BY <1>1, <2>2, Shapes
  <2>4. PICK b \in Nat : b = IF Stat(k).bytes > 0 THEN Stat(k).bytes ELSE T(k).bytes
    BY <2>1, <2>3
  <2>5. connections'[k] = [T(k) EXCEPT !.age = 0, !.bytes = b]
    <3>1. connections'[k] = [T(k) EXCEPT !.age = 0, !.bytes = IF Stat(k).bytes > 0 THEN Stat(k).bytes ELSE T(k).bytes]
      <4> HIDE DEF entry
      <4>1. connections'[k] = Sampled(k) /\ T(k) = connections[k]
        BY <1>3, <1>4 DEF T
      <4>2. Sampled(k) = [T(k) EXCEPT !.age = 0, !.bytes = IF Stat(k).bytes > 0 THEN Stat(k).bytes ELSE @]
        BY <2>2, Zenon DEF T, Sampled
      <4> QED
        BY <2>1, <4>1, <4>2 DEF entry
    <3> QED
      BY <2>4, <3>1
  <2>6. /\ [T(k) EXCEPT !.age = 0, !.bytes = b] \in entry
        /\ [T(k) EXCEPT !.age = 0, !.bytes = b].bytes = b
        /\ [T(k) EXCEPT !.age = 0, !.bytes = b].open = T(k).open
    BY <2>1
  <2> HIDE DEF entry
  <2> QED
    BY <2>1, <2>2, <2>3, <2>4, <2>5, <2>6
<1>5. connections' \in [Keys -> entry \cup {None}]
  <2>1. ASSUME NEW k \in Keys
        PROVE  connections'[k] \in entry \cup {None}
    <3> HIDE DEF entry
    <3>1. CASE k \in hit
      BY <1>4, <3>1
    <3>2. CASE k \notin hit
      BY <1>0, <1>3, <3>2
    <3> QED
      BY <3>1, <3>2
  <2> HIDE DEF entry
  <2> QED
    BY <1>2, <2>1
<1>6. cause' \in [Keys -> SUBSET Reasons]
  BY <1>1, <1>2 DEF HistoryType, Blame, Reasons
<1>7. ASSUME NEW k \in Keys
      PROVE  \E total \in [Nat -> Nat], n \in Nat : KeyInv(k, total, n)'
  <2>1. PICK total \in [Nat -> Nat], n \in Nat : KeyInv(k, total, n)
    BY <1>1 DEF Accounts
  <2>2. Stat(k)' = None /\ cause[k] \subseteq cause'[k]
    BY <1>2, <1>3 DEF Stat
  <2>3. \/ T(k)' = None
        \/ /\ T(k) # None /\ T(k)'.open = T(k).open
           /\ \/ T(k)'.bytes = T(k).bytes
              \/ /\ Stat(k) # None /\ Stat(k).bytes > 0 /\ T(k)'.bytes = Stat(k).bytes
                 /\ Stat(k).open = T(k).open \/ "stale" \in cause'[k]
    <3>1. CASE k \in hit
      <4>1. /\ T(k) # None /\ Stat(k) # None /\ Stat(k) = collector.stats[k] /\ Stat(k).bytes \in Nat
            /\ T(k)'.open = T(k).open
            /\ T(k)'.bytes = IF Stat(k).bytes > 0 THEN Stat(k).bytes ELSE T(k).bytes
        BY <1>4, <3>1 DEF T
      <4>2. CASE Stat(k).bytes > 0
        <5>1. Stat(k).open = T(k).open \/ Stale(k)
          BY <4>1, <4>2 DEF Stale, T
        <5>2. Stat(k).open = T(k).open \/ "stale" \in cause'[k]
          BY <1>3, <3>1, <5>1
        <5> QED
          BY <4>1, <4>2, <5>2
      <4>3. CASE ~(Stat(k).bytes > 0)
        BY <4>1, <4>3
      <4> QED
        BY <4>2, <4>3
    <3>2. CASE k \notin hit
      BY <1>3, <3>2 DEF T
    <3> QED
      BY <3>1, <3>2
  <2>4. KeyInv(k, total, n)'
    BY <1>2, <2>1, <2>2, <2>3, TableKeeps
  <2> QED
    BY <2>4
<1>8. HistoryType' /\ InOrder'
  <2>1. collector' \in Collecting
    BY <1>2 DEF Collecting
  <2> QED
    BY <1>1, <1>2, <1>5, <1>6, <2>1, SameQueue DEF HistoryType
<1> QED
  BY <1>7, <1>8 DEF HistInv, Accounts

LEMMA StepGc ==
  ASSUME HistInv, gc
  PROVE  HistInv'
<1>1. HistoryType /\ InOrder /\ Accounts
  BY DEF HistInv
<1> DEFINE entry == [bytes : Nat, age : Nat, open : Nat]
<1>2. /\ collector.pc = "gc" /\ collector' = Asleep
      /\ connections' = [k \in Keys |-> IF connections[k] = None \/ connections[k].age >= GcRounds
                                        THEN None ELSE [connections[k] EXCEPT !.age = @ + 1]]
      /\ UNCHANGED <<fifo, flow, snapshot, last_snapshot, processor, sent, recorded, cause>>
  BY DEF gc, ring
<1>3. ASSUME NEW k \in Keys
      PROVE  \/ connections'[k] = None
             \/ /\ connections[k] # None /\ connections'[k] \in entry
                /\ connections'[k].bytes = connections[k].bytes /\ connections'[k].open = connections[k].open
  <2>1. connections[k] \in entry \cup {None}
    BY <1>1 DEF HistoryType
  <2>2. CASE connections[k] = None \/ connections[k].age >= GcRounds
    BY <1>2, <2>2
  <2>3. CASE ~(connections[k] = None \/ connections[k].age >= GcRounds)
    <3>1. connections'[k] = [connections[k] EXCEPT !.age = @ + 1] /\ connections[k] \in entry /\ connections[k] # None
      BY <1>2, <2>1, <2>3
    <3>2. /\ [connections[k] EXCEPT !.age = @ + 1] \in entry
          /\ [connections[k] EXCEPT !.age = @ + 1].bytes = connections[k].bytes
          /\ [connections[k] EXCEPT !.age = @ + 1].open = connections[k].open
      BY <3>1
    <3> HIDE DEF entry
    <3> QED
      BY <3>1, <3>2
  <2> QED
    BY <2>2, <2>3
<1>4. connections' \in [Keys -> entry \cup {None}]
  <2> HIDE DEF entry
  <2>1. \A k \in Keys : connections'[k] \in entry \cup {None}
    BY <1>3
  <2> QED
    BY <1>2, <2>1
<1>5. ASSUME NEW k \in Keys
      PROVE  \E total \in [Nat -> Nat], n \in Nat : KeyInv(k, total, n)'
  <2>1. PICK total \in [Nat -> Nat], n \in Nat : KeyInv(k, total, n)
    BY <1>1 DEF Accounts
  <2>2. Stat(k)' = None
    BY <1>2 DEF Stat, Asleep
  <2>3. \/ T(k)' = None
        \/ T(k) # None /\ T(k)'.open = T(k).open /\ T(k)'.bytes = T(k).bytes
    BY <1>3 DEF T
  <2>4. KeyInv(k, total, n)'
    BY <1>2, <2>1, <2>2, <2>3, TableKeeps
  <2> QED
    BY <2>4
<1>6. HistoryType' /\ InOrder'
  <2>1. collector' \in Collecting
    BY <1>2 DEF Collecting
  <2> QED
    BY <1>1, <1>2, <1>4, <2>1, SameQueue DEF HistoryType
<1> QED
  BY <1>5, <1>6 DEF HistInv, Accounts

-----------------------------------------------------------------------------
(* The snapshot task.  The copy is what the table says; the copy becomes the
   baseline. *)
LEMMA CopyKeeps ==
  ASSUME HistInv, NEW total \in [Nat -> Nat], NEW n \in Nat, NEW k \in Keys, KeyInv(k, total, n),
         UNCHANGED <<fifo, processor, flow, sent, connections, collector, last_snapshot, recorded, cause>>,
         snapshot = None, snapshot' = None \/ snapshot'[k] = IF T(k) = None THEN None ELSE T(k).bytes
  PROVE  KeyInv(k, total, n)'
<1>1. /\ HistoryType /\ InOrder
      /\ Totals(k, total) /\ Events(k, total) /\ Samples(k, total) /\ First(k, n) /\ AtLeast(k, total, n) /\ AtMost(k, total, n)
  BY DEF HistInv, KeyInv
<1>2. T(k)' = T(k) /\ Stat(k)' = Stat(k) /\ Baseline(k)' = Baseline(k) /\ Tabled(k)' = Tabled(k)
  BY DEF T, Stat, Baseline, Tabled
<1>3. /\ Totals(k, total)' /\ Events(k, total)' /\ First(k, n)'
      /\ Heard(k, n)' <=> Heard(k, n)
      /\ InHand(k)' = InHand(k)
  BY <1>1, <1>2, Beside
<1>4. AtLeast(k, total, n)' /\ Samples(k, total)'
  BY <1>1, <1>2 DEF AtLeast, Samples
<1>5. (Late(k, n)' <=> Late(k, n)) /\ Coming(k, n)' = Coming(k, n)
  BY <1>2, <1>3 DEF Late, Coming
<1>6. AtMost(k, total, n)'
  <2> SUFFICES ASSUME Undisturbed(k)
               PROVE  \/ AllCurrent(k, total, n)' \/ CopyCurrent(k, total, n)'
                      \/ OnlyTableCurrent(k, total, n)' \/ NoneCurrent(k, total, n)'
    BY DEF AtMost, Undisturbed
  <2>1. TableCurrent(k, total, n) => TableCurrent(k, total, n)'
    BY <1>2, <1>5 DEF TableCurrent
  <2>2. /\ recorded[k] \in Nat /\ total[n] \in Nat /\ total[n - 1] \in Nat /\ total[n - 1] <= total[n]
        /\ Baseline(k) \in Nat /\ Tabled(k) \in Nat /\ Coming(k, n) \in Nat
        /\ SatSub(Copy(k), Baseline(k)) \in Nat /\ SatSub(Tabled(k), Copy(k)) \in Nat
    BY <1>1, Numbers
  <2>3. ~Copied(k) /\ Copy(k) = Baseline(k) /\ SatSub(Copy(k), Baseline(k)) = 0
    BY <2>2 DEF Copied, Copy, SatSub
  <2>4. AllCurrent(k, total, n) \/ OnlyTableCurrent(k, total, n) \/ NoneCurrent(k, total, n)
    BY <1>1, <2>3 DEF AtMost, CopyCurrent
  <2>5. CASE snapshot' = None
    <3>1. ~Copied(k)' /\ Copy(k)' = Copy(k)
      BY <1>2, <2>3, <2>5 DEF Copied, Copy
    <3>2. CASE AllCurrent(k, total, n)
      BY <1>2, <1>3, <2>1, <2>5, <3>1, <3>2 DEF AllCurrent
    <3>3. CASE OnlyTableCurrent(k, total, n)
      BY <1>2, <2>1, <3>1, <3>3 DEF OnlyTableCurrent
    <3>4. CASE NoneCurrent(k, total, n)
      BY <1>2, <1>5, <3>1, <3>4 DEF NoneCurrent
    <3> QED
      BY <2>4, <3>2, <3>3, <3>4
  <2>6. CASE snapshot' # None /\ T(k) = None
    <3>1. ~Copied(k)' /\ Copy(k)' = 0 /\ Tabled(k) = 0
      BY <2>6 DEF Copied, Copy, Tabled
    <3>2. SatSub(0, Baseline(k)) = 0 /\ SatSub(0, 0) = 0
      BY <2>2 DEF SatSub
    <3>3. CASE AllCurrent(k, total, n)
      BY <1>2, <1>3, <2>1, <2>6, <3>1, <3>3 DEF AllCurrent
    <3>4. CASE OnlyTableCurrent(k, total, n)
      BY <1>2, <2>1, <2>3, <3>1, <3>2, <3>4 DEF OnlyTableCurrent
    <3>5. CASE NoneCurrent(k, total, n)
      <4>1. recorded[k] + Coming(k, n) <= total[n - 1]
        BY <2>2, <3>5 DEF NoneCurrent
      <4>2. Tabled(k)' = 0 /\ Copy(k)' = 0 /\ SatSub(Copy(k), Baseline(k))' = 0 /\ SatSub(Tabled(k), Copy(k))' = 0
        BY <1>2, <3>1, <3>2
      <4> QED
        BY <1>5, <2>2, <4>1, <4>2 DEF NoneCurrent
    <3> QED
      BY <2>4, <3>3, <3>4, <3>5
  <2>7. CASE snapshot' # None /\ T(k) # None
    <3>0. T(k).bytes \in Nat /\ T(k).open \in Nat /\ None \notin Nat
      BY <1>1, <2>7, Shapes, HistoryAssumption
    <3>1. Copied(k)' /\ snapshot'[k] = T(k).bytes /\ Copy(k)' = T(k).bytes /\ Tabled(k) = T(k).bytes
      BY <2>7, <3>0 DEF Copied, Copy, Tabled
    <3>2. TableCurrent(k, total, n) => /\ T(k).open = n /\ T(k).bytes <= total[n] - total[n - 1]
                                       /\ Heard(k, n)
      BY <1>1, <2>7 DEF TableCurrent, Events, Heard
    <3>3. CASE AllCurrent(k, total, n)
      <4>1. Baseline(k) <= T(k).bytes
        BY <2>3, <2>7, <3>3 DEF AllCurrent
      <4>2. TableCurrent(k, total, n)' /\ Heard(k, n)' /\ T(k).bytes <= total[n] - total[n - 1]
        BY <1>3, <2>1, <3>2, <3>3 DEF AllCurrent
      <4>3. recorded[k] <= total[n - 1] + Baseline(k) /\ Baseline(k) <= total[n] - total[n - 1]
        BY <3>3 DEF AllCurrent
      <4>4. T(k).bytes <= T(k).bytes /\ snapshot'[k] # None
        BY <3>0, <3>1
      <4>5. AllCurrent(k, total, n)'
        BY <1>2, <3>1, <4>1, <4>2, <4>3, <4>4 DEF AllCurrent
      <4> QED
        BY <4>5
    <3>4. CASE OnlyTableCurrent(k, total, n)
      <4>1. recorded[k] <= total[n - 1]
        BY <2>2, <2>3, <3>4 DEF OnlyTableCurrent
      <4>2. TableCurrent(k, total, n)' /\ Heard(k, n)' /\ T(k).bytes <= total[n] - total[n - 1]
        BY <1>3, <2>1, <3>2, <3>4 DEF OnlyTableCurrent
      <4>3. T(k).bytes <= T(k).bytes
        BY <3>0
      <4>4. CopyCurrent(k, total, n)'
        BY <1>2, <3>1, <4>1, <4>2, <4>3 DEF CopyCurrent
      <4> QED
        BY <4>4
    <3>5. CASE NoneCurrent(k, total, n)
      <4>1. recorded[k] + SatSub(Tabled(k), Baseline(k)) + Coming(k, n) <= total[n - 1]
        BY <2>2, <2>3, <3>5 DEF NoneCurrent
      <4>2. SatSub(Copy(k), Baseline(k))' = SatSub(Tabled(k), Baseline(k)) /\ SatSub(Tabled(k), Copy(k))' = 0
        BY <1>2, <2>2, <3>1 DEF SatSub
      <4>3. SatSub(Tabled(k), Baseline(k)) \in Nat
        BY <2>2 DEF SatSub
      <4>4. NoneCurrent(k, total, n)'
        BY <1>5, <2>2, <4>1, <4>2, <4>3 DEF NoneCurrent
      <4> QED
        BY <4>4
    <3> QED
      BY <2>4, <3>3, <3>4, <3>5
  <2> QED
    BY <2>5, <2>6, <2>7
<1> QED
  BY <1>3, <1>4, <1>6 DEF KeyInv

LEMMA StepGetActive ==
  ASSUME HistInv, get_active_connections
  PROVE  HistInv'
<1>1. HistoryType /\ InOrder /\ Accounts
  BY DEF HistInv
<1>2. /\ snapshot = None
      /\ snapshot' = [k \in Keys |-> IF connections[k] = None THEN None ELSE connections[k].bytes]
      /\ UNCHANGED <<fifo, flow, connections, collector, last_snapshot, processor, sent, recorded, cause>>
  BY DEF get_active_connections, ring
<1>3. ASSUME NEW k \in Keys
      PROVE  \E total \in [Nat -> Nat], n \in Nat : KeyInv(k, total, n)'
  <2>1. PICK total \in [Nat -> Nat], n \in Nat : KeyInv(k, total, n)
    BY <1>1 DEF Accounts
  <2>2. snapshot'[k] = IF T(k) = None THEN None ELSE T(k).bytes
    BY <1>2 DEF T
  <2>3. KeyInv(k, total, n)'
    BY <1>2, <2>1, <2>2, CopyKeeps
  <2> QED
    BY <2>3
<1>4. snapshot' \in [Keys -> Nat \cup {None}]
  <2>1. \A k \in Keys : connections[k] # None => connections[k].bytes \in Nat
    BY <1>1, Shapes DEF T
  <2> QED
    BY <1>2, <2>1
<1>5. HistoryType' /\ InOrder'
  BY <1>1, <1>2, <1>4, SameQueue DEF HistoryType
<1> QED
  BY <1>3, <1>5 DEF HistInv, Accounts

(* No Close is on its way and the connection is closed: nothing is due. *)
LEMMA NotForgotten ==
  ASSUME HistoryType, NEW k \in Keys, flow[k].state = "closed", ~ClosePending(k)
  PROVE  Due(k) = {}
<1>1. ASSUME NEW e \in Pending(k), e.action = "Close" PROVE FALSE
  <2>1. CASE e \in InHand(k)
    BY <1>1, <2>1 DEF InHand, ClosePending
  <2>2. CASE e \in InRing(k)
    BY <1>1, <2>2 DEF InRing, ClosePending
  <2> QED
    BY <1>1, <2>1, <2>2 DEF Pending
<1> QED
  BY <1>1 DEF Due, Ended

LEMMA BaselineKeeps ==
  ASSUME HistInv, NEW total \in [Nat -> Nat], NEW n \in Nat, NEW k \in Keys, KeyInv(k, total, n),
         UNCHANGED <<fifo, processor, flow, sent, connections, collector>>, cause[k] \subseteq cause'[k],
         snapshot # None, snapshot' = None, last_snapshot' = snapshot,
         Forgotten(k) => "forgot" \in cause'[k],
         recorded'[k] \in Nat,
         \/ recorded'[k] = recorded[k] + SatSub(Copy(k), Baseline(k))
         \/ recorded'[k] = recorded[k] /\ (SatSub(Copy(k), Baseline(k)) > 0 => "failed" \in cause'[k])
  PROVE  KeyInv(k, total, n)'
<1>1. /\ HistoryType /\ InOrder
      /\ Totals(k, total) /\ Events(k, total) /\ Samples(k, total) /\ First(k, n) /\ AtLeast(k, total, n) /\ AtMost(k, total, n)
  BY DEF HistInv, KeyInv
<1>2. T(k)' = T(k) /\ Stat(k)' = Stat(k) /\ Tabled(k)' = Tabled(k)
  BY DEF T, Stat, Tabled
<1>3. /\ Totals(k, total)' /\ Events(k, total)' /\ First(k, n)'
      /\ Heard(k, n)' <=> Heard(k, n)
      /\ InHand(k)' = InHand(k)
  BY <1>1, <1>2, Beside
<1>4. Samples(k, total)'
  BY <1>1, <1>2 DEF Samples
<1>5. (Late(k, n)' <=> Late(k, n)) /\ Coming(k, n)' = Coming(k, n)
  BY <1>2, <1>3 DEF Late, Coming
<1>6. Baseline(k)' = Copy(k) /\ Copy(k)' = Copy(k) /\ ~Copied(k)'
  BY DEF Baseline, Copy, Copied
<1>7. /\ recorded[k] \in Nat /\ total[n] \in Nat /\ total[n - 1] \in Nat /\ total[n - 1] <= total[n]
      /\ Copy(k) \in Nat /\ Baseline(k) \in Nat /\ Tabled(k) \in Nat /\ Coming(k, n) \in Nat
      /\ SatSub(Copy(k), Baseline(k)) \in Nat /\ SatSub(Tabled(k), Copy(k)) \in Nat
  BY <1>1, Numbers
<1>8. recorded'[k] <= recorded[k] + SatSub(Copy(k), Baseline(k))
  BY <1>7
<1>9. Copy(k) <= Baseline(k) + SatSub(Copy(k), Baseline(k))
      /\ (Baseline(k) <= Copy(k) => Baseline(k) + SatSub(Copy(k), Baseline(k)) = Copy(k))
      /\ SatSub(Copy(k), Baseline(k)) <= Copy(k)
  BY <1>7 DEF SatSub
<1>10. AtLeast(k, total, n)'
  <2> SUFFICES ASSUME cause'[k] \cap {"failed", "lost", "restart"} = {}
               PROVE  recorded'[k] >= total[n - 1] + Copy(k)
    BY <1>6 DEF AtLeast
  <2>1. cause[k] \cap {"failed", "lost", "restart"} = {} /\ "failed" \notin cause'[k]
    OBVIOUS
  <2>2. recorded[k] >= total[n - 1] + Baseline(k)
    BY <1>1, <2>1 DEF AtLeast
  <2>3. recorded'[k] = recorded[k] + SatSub(Copy(k), Baseline(k))
    BY <1>7, <2>1
  <2> QED
    BY <1>7, <1>9, <2>2, <2>3
<1>11. AtMost(k, total, n)'
  <2> SUFFICES ASSUME Undisturbed(k)'
               PROVE  \/ AllCurrent(k, total, n)' \/ CopyCurrent(k, total, n)'
                      \/ OnlyTableCurrent(k, total, n)' \/ NoneCurrent(k, total, n)'
    BY DEF AtMost
  <2>0. Undisturbed(k) /\ ~Forgotten(k)
    BY DEF Undisturbed
  <2>1. TableCurrent(k, total, n) => TableCurrent(k, total, n)'
    BY <1>2, <1>5 DEF TableCurrent
  <2>2. CASE AllCurrent(k, total, n) /\ Copied(k)
    <3>1. /\ recorded[k] <= total[n - 1] + Baseline(k) /\ Baseline(k) <= Copy(k)
          /\ Copy(k) <= total[n] - total[n - 1]
      BY <2>2 DEF AllCurrent, Copied, Copy
    <3>2. recorded'[k] <= total[n - 1] + Copy(k)
      BY <1>7, <1>8, <1>9, <3>1
    <3>3. TableCurrent(k, total, n)' /\ Heard(k, n)' /\ (T(k) # None => Copy(k) <= T(k).bytes)
      BY <1>3, <2>1, <2>2 DEF AllCurrent
    <3>4. AllCurrent(k, total, n)'
      BY <1>2, <1>6, <3>1, <3>2, <3>3 DEF AllCurrent
    <3> QED
      BY <3>4
  <2>3. CASE AllCurrent(k, total, n) /\ ~Copied(k)
    <3>1. snapshot[k] = None /\ Copy(k) = 0 /\ SatSub(Copy(k), Baseline(k)) = 0 /\ recorded'[k] = recorded[k]
      <4>1. snapshot[k] = None /\ Copy(k) = 0
        BY <2>3 DEF Copied, Copy
      <4>2. SatSub(Copy(k), Baseline(k)) = 0
        BY <1>7, <4>1 DEF SatSub
      <4> QED
        BY <1>7, <4>1, <4>2
    <3>2. recorded[k] <= total[n - 1]
      <4>1. CASE last_snapshot[k] = None
        <5>1. Baseline(k) = 0
          BY <4>1 DEF Baseline
        <5> QED
          BY <1>7, <2>3, <5>1 DEF AllCurrent
      <4>2. CASE last_snapshot[k] # None
        <5>1. Due(k) = {}
          BY <1>1, <2>0, <3>1, <4>2, NotForgotten DEF Forgotten
        <5>2. flow[k].opens \in Nat
          BY <1>1, Shapes
        <5>3. n = flow[k].opens + 1
          BY <1>1, <5>1, <5>2 DEF First
        <5>4. NoneCurrent(k, total, n)
          BY <1>1, <2>0, <5>3, NoneDue
        <5> QED
          BY <1>7, <5>4 DEF NoneCurrent
      <4> QED
        BY <4>1, <4>2
    <3>3. T(k) # None => Copy(k) <= T(k).bytes
      BY <2>3 DEF AllCurrent
    <3>4. recorded'[k] <= total[n - 1] + Copy(k) /\ Copy(k) <= total[n] - total[n - 1]
      BY <1>7, <3>1, <3>2
    <3>5. TableCurrent(k, total, n)' /\ last_snapshot'[k] = None
      BY <2>1, <2>3, <3>1 DEF AllCurrent
    <3>6. AllCurrent(k, total, n)'
      BY <1>2, <1>6, <3>3, <3>4, <3>5 DEF AllCurrent
    <3> QED
      BY <3>6
  <2>4. CASE CopyCurrent(k, total, n)
    <3>1. recorded[k] <= total[n - 1] /\ Copy(k) <= total[n] - total[n - 1]
      BY <2>4 DEF CopyCurrent, Copied, Copy
    <3>2. recorded'[k] <= total[n - 1] + Copy(k)
      BY <1>7, <1>8, <1>9, <3>1
    <3>3. TableCurrent(k, total, n)' /\ Heard(k, n)' /\ (T(k) # None => Copy(k) <= T(k).bytes)
      BY <1>3, <2>1, <2>4 DEF CopyCurrent
    <3>4. AllCurrent(k, total, n)'
      BY <1>2, <1>6, <3>1, <3>2, <3>3 DEF AllCurrent
    <3> QED
      BY <3>4
  <2>5. CASE OnlyTableCurrent(k, total, n)
    <3>1. recorded'[k] <= total[n - 1] /\ SatSub(Copy(k), Copy(k)) = 0
      BY <1>7, <1>8, <2>5 DEF OnlyTableCurrent, SatSub
    <3>2. recorded'[k] + SatSub(Copy(k), Copy(k)) <= total[n - 1]
      BY <1>7, <3>1
    <3>3. TableCurrent(k, total, n)'
      BY <2>1, <2>5 DEF OnlyTableCurrent
    <3> QED
      BY <1>6, <3>2, <3>3 DEF OnlyTableCurrent
  <2>6. CASE NoneCurrent(k, total, n)
    <3>1. recorded[k] + SatSub(Copy(k), Baseline(k)) + SatSub(Tabled(k), Copy(k)) + Coming(k, n) <= total[n - 1]
      BY <2>6 DEF NoneCurrent
    <3>2. SatSub(Copy(k), Copy(k)) = 0
      BY <1>7 DEF SatSub
    <3>3. recorded'[k] + 0 + SatSub(Tabled(k), Copy(k)) + Coming(k, n) <= total[n - 1]
      BY <1>7, <1>8, <3>1
    <3> QED
      BY <1>2, <1>5, <1>6, <3>2, <3>3 DEF NoneCurrent
  <2> QED
    BY <1>1, <2>0, <2>2, <2>3, <2>4, <2>5, <2>6 DEF AtMost
<1> QED
  BY <1>3, <1>4, <1>10, <1>11 DEF KeyInv

LEMMA StepRecordSnapshot ==
  ASSUME HistInv, record_snapshot
  PROVE  HistInv'
<1>1. HistoryType /\ InOrder /\ Accounts
  BY DEF HistInv
<1> DEFINE ks == {k \in Keys : Forgotten(k)}
<1>2. /\ snapshot # None /\ snapshot' = None /\ last_snapshot' = snapshot
      /\ Write(SnapshotRows, ks, "forgot")
      /\ UNCHANGED <<fifo, flow, connections, collector, processor, sent>>
  BY DEF record_snapshot, ring
<1>3. \A k \in Keys : SnapshotRows[k] = SatSub(Copy(k), Baseline(k)) /\ SnapshotRows[k] \in Nat
  <2> SUFFICES ASSUME NEW k \in Keys
               PROVE  SnapshotRows[k] = SatSub(Copy(k), Baseline(k)) /\ SnapshotRows[k] \in Nat
    OBVIOUS
  <2>1. Baseline(k) \in Nat /\ Copy(k) \in Nat
    BY <1>1, Shapes
  <2>2. CASE snapshot[k] = None
    <3>1. SnapshotRows[k] = 0 /\ Copy(k) = 0
      BY <1>2, <2>2 DEF SnapshotRows, Copy
    <3> QED
      BY <2>1, <3>1 DEF SatSub
  <2>3. CASE snapshot[k] # None
    <3>1. SnapshotRows[k] = SatSub(snapshot[k], Baseline(k)) /\ Copy(k) = snapshot[k]
      BY <1>2, <2>3 DEF SnapshotRows, Copy
    <3> QED
      BY <2>1, <3>1 DEF SatSub
  <2> QED
    BY <2>2, <2>3
<1>4. SnapshotRows \in [Keys -> Nat] /\ "forgot" \in Reasons
  BY <1>3 DEF SnapshotRows, Reasons
<1>5. \A k \in Keys : k \in ks <=> Forgotten(k)
  OBVIOUS
<1> HIDE DEF ks
<1>6. /\ recorded' \in [Keys -> Nat] /\ cause' \in [Keys -> SUBSET Reasons]
      /\ \A k \in Keys : cause[k] \subseteq cause'[k] /\ (k \in ks => "forgot" \in cause'[k])
      /\ \A k \in Keys : \/ recorded'[k] = recorded[k] + SnapshotRows[k]
                         \/ recorded'[k] = recorded[k] /\ (SnapshotRows[k] > 0 => "failed" \in cause'[k])
  BY <1>1, <1>2, <1>4, Written
<1>7. ASSUME NEW k \in Keys
      PROVE  \E total \in [Nat -> Nat], n \in Nat : KeyInv(k, total, n)'
  <2>1. PICK total \in [Nat -> Nat], n \in Nat : KeyInv(k, total, n)
    BY <1>1 DEF Accounts
  <2>2. /\ cause[k] \subseteq cause'[k] /\ recorded'[k] \in Nat
        /\ Forgotten(k) => "forgot" \in cause'[k]
        /\ \/ recorded'[k] = recorded[k] + SatSub(Copy(k), Baseline(k))
           \/ recorded'[k] = recorded[k] /\ (SatSub(Copy(k), Baseline(k)) > 0 => "failed" \in cause'[k])
    BY <1>3, <1>5, <1>6
  <2>3. KeyInv(k, total, n)'
    BY <1>2, <2>1, <2>2, BaselineKeeps
  <2> QED
    BY <2>3
<1>8. HistoryType' /\ InOrder'
  <2>1. last_snapshot' \in [Keys -> Nat \cup {None}]
    BY <1>1, <1>2 DEF HistoryType
  <2> QED
    BY <1>1, <1>2, <1>6, <2>1, SameQueue DEF HistoryType
<1> QED
  BY <1>7, <1>8 DEF HistInv, Accounts

-----------------------------------------------------------------------------
(* A restart forgets table, copy and baseline, and the event in hand. *)
LEMMA StepRestart ==
  ASSUME HistInv, Restart
  PROVE  HistInv'
<1>1. HistoryType /\ InOrder /\ Accounts
  BY DEF HistInv
<1>2. /\ connections' = Absent /\ last_snapshot' = Absent /\ collector' = Asleep /\ snapshot' = None
      /\ processor' = Idle /\ Blame({k \in Keys : flow[k].opens > 0}, "restart")
      /\ UNCHANGED <<fifo, flow, sent, recorded>>
  BY DEF Restart, ring
<1>3. /\ InOrder'
      /\ \A k \in Keys : InHand(k)' = {} /\ InRing(k)' = InRing(k) /\ Pending(k)' = InRing(k)
  BY <1>1, <1>2, Finished
<1>4. \A k \in Keys : cause'[k] = IF flow[k].opens > 0 THEN cause[k] \cup {"restart"} ELSE cause[k]
  BY <1>2 DEF Blame
<1>5. cause' \in [Keys -> SUBSET Reasons]
  BY <1>1, <1>2 DEF HistoryType, Blame, Reasons
<1>6. ASSUME NEW k \in Keys
      PROVE  \E total \in [Nat -> Nat], n \in Nat : KeyInv(k, total, n)'
  <2>1. PICK total \in [Nat -> Nat], n \in Nat : KeyInv(k, total, n)
    BY <1>1 DEF Accounts
  <2>2. Totals(k, total) /\ Events(k, total) /\ First(k, n)
    BY <2>1 DEF KeyInv
  <2>3. /\ T(k)' = None /\ Stat(k)' = None /\ Baseline(k)' = 0 /\ Copy(k)' = 0 /\ Tabled(k)' = 0
        /\ flow[k].opens \in Nat /\ recorded[k] \in Nat
    BY <1>1, <1>2, Shapes DEF T, Stat, Baseline, Copy, Tabled, Absent, Asleep
  <2>4. Totals(k, total)' /\ Samples(k, total)'
    BY <1>2, <2>2, <2>3 DEF Totals, Samples
  <2>5. Due(k)' \subseteq Due(k)
    BY <1>2, <1>3 DEF Due, Ended, Pending
  <2>6. Events(k, total)'
    <3>1. ASSUME NEW d \in InRing(k), d.action = "Allow"
          PROVE  d.open \in Due(k)'
      <4>1. d.open \in Due(k) /\ d.open \in Nat
        BY <1>1, <2>2, <3>1, RingShape DEF Events, InRing
      <4>2. CASE flow[k].state # "closed" /\ d.open = flow[k].opens
        BY <1>2, <4>1, <4>2 DEF Due
      <4>3. CASE d.open \in Ended(k)
        <5>1. PICK e \in Pending(k) : e.action = "Close" /\ e.open = d.open
          BY <4>3 DEF Ended
        <5>2. e \notin InHand(k)
          <6>1. ASSUME e \in InHand(k) PROVE FALSE
            <7>1. Before(e, d)
              BY <1>1, <3>1, <6>1 DEF InOrder
            <7> QED
              BY <4>1, <5>1, <7>1 DEF Before
          <6> QED
            BY <6>1
        <5>3. e \in Pending(k)'
          BY <1>3, <5>1, <5>2 DEF Pending
        <5>4. d.open \in 1 .. MaxOpens
          BY <4>1 DEF Due
        <5> QED
          BY <5>1, <5>3, <5>4 DEF Due, Ended
      <4> QED
        BY <4>1, <4>2, <4>3 DEF Due
    <3>2. \A d \in InRing(k) :
            /\ d.open <= flow[k].opens
            /\ d.action = "Close" => /\ d.open < flow[k].opens \/ flow[k].state = "closed"
                                     /\ total[d.open - 1] + d.bytes = total[d.open]
      BY <2>2 DEF Events, Pending
    <3> QED
      BY <1>2, <1>3, <2>3, <3>1, <3>2 DEF Events
  <2>7. CASE flow[k].opens > 0
    <3>1. "restart" \in cause'[k]
      BY <1>4, <2>7
    <3>2. PICK m \in Nat : m \in 1 .. flow[k].opens + 1 /\ (\A x \in Due(k)' : m <= x)
                           /\ (m <= flow[k].opens => m \in Due(k)')
      <4>1. Due(k)' \in SUBSET (1 .. MaxOpens)
        BY DEF Due
      <4> QED
        BY <2>3, <4>1, NextDue
    <3>3. First(k, m)'
      BY <1>2, <3>1, <3>2 DEF First
    <3>4. AtLeast(k, total, m)' /\ AtMost(k, total, m)'
      BY <3>1 DEF AtLeast, AtMost, Undisturbed
    <3>5. KeyInv(k, total, m)'
      BY <2>4, <2>6, <3>3, <3>4 DEF KeyInv
    <3> QED
      BY <3>5
  <2>8. CASE flow[k].opens = 0
    <3>1. cause'[k] = cause[k]
      <4>1. ~(flow[k].opens > 0)
        BY <2>8
      <4> QED
        BY <1>4, <4>1
    <3>2. n = flow[k].opens + 1 /\ n - 1 = 0 /\ total[0] = 0
      BY <2>2, <2>8 DEF First, Totals
    <3>3. Due(k)' = {}
      <4>1. Due(k) = {}
        <5>1. ASSUME NEW x \in Ended(k) PROVE FALSE
          <6>1. PICK e \in Pending(k) : e.action = "Close" /\ e.open = x
            BY <5>1 DEF Ended
          <6>2. e.open <= 0 /\ e \in Event
            BY <2>2, <2>8, <6>1 DEF Events, Pending, InHand, InRing
          <6>3. e.open >= 1 /\ e.open \in Nat
            BY <1>1, <6>2, RingShape
          <6> QED
            BY <6>2, <6>3
        <5>2. flow[k].state = "closed"
          BY <2>2, <2>8 DEF Totals
        <5> QED
          BY <5>1, <5>2 DEF Due
      <4> QED
        BY <2>5, <4>1
    <3>4. First(k, n)'
      <4>1. n \in 1 .. flow'[k].opens + 1 /\ ~(n <= flow'[k].opens) /\ n .. flow'[k].opens = {}
        BY <1>2, <2>8, <3>2
      <4> QED
        BY <3>3, <4>1 DEF First
    <3>5. AtLeast(k, total, n)'
      <4>1. total[n - 1] = 0
        BY <3>2
      <4>2. recorded'[k] >= total[n - 1] + Baseline(k)'
        BY <1>2, <2>3, <4>1
      <4> QED
        BY <4>2 DEF AtLeast
    <3>6. AtMost(k, total, n)'
      <4> SUFFICES ASSUME Undisturbed(k)' PROVE NoneCurrent(k, total, n)'
        BY DEF AtMost
      <4>1. Undisturbed(k)
        BY <3>1 DEF Undisturbed
      <4>2. NoneCurrent(k, total, n)
        BY <1>1, <2>1, <3>2, <4>1, NoneDue
      <4>3. /\ SatSub(Copy(k), Baseline(k)) \in Nat /\ SatSub(Tabled(k), Copy(k)) \in Nat
            /\ Coming(k, n) \in Nat
        BY <1>1, <2>2, Numbers
      <4>4. recorded[k] <= total[n - 1]
        <5>1. total[n - 1] = 0
          BY <3>2
        <5>2. recorded[k] + SatSub(Copy(k), Baseline(k)) + SatSub(Tabled(k), Copy(k)) + Coming(k, n) <= 0
          BY <4>2, <5>1 DEF NoneCurrent
        <5> QED
          BY <2>3, <4>3, <5>1, <5>2
      <4>5. Coming(k, n)' = 0 /\ SatSub(0, 0) = 0
        BY <2>3 DEF Coming, Late, SatSub
      <4> QED
        BY <1>2, <2>3, <4>4, <4>5 DEF NoneCurrent
    <3>7. KeyInv(k, total, n)'
      BY <2>4, <2>6, <3>4, <3>5, <3>6 DEF KeyInv
    <3> QED
      BY <3>7
  <2> QED
    BY <2>3, <2>7, <2>8
<1>7. HistoryType'
  <2>1. /\ connections' \in [Keys -> [bytes : Nat, age : Nat, open : Nat] \cup {None}]
        /\ last_snapshot' \in [Keys -> Nat \cup {None}]
        /\ collector' \in Collecting /\ processor' \in Processing
    BY <1>2 DEF Absent, Collecting, Processing
  <2> QED
    BY <1>1, <1>2, <1>5, <2>1 DEF HistoryType
<1> QED
  BY <1>3, <1>6, <1>7 DEF HistInv, Accounts

-----------------------------------------------------------------------------
(* The account holds from the start, through every step. *)
LEMMA InitHist == HistoryInit => HistInv
<1> SUFFICES ASSUME HistoryInit PROVE HistInv
  OBVIOUS
<1>1. /\ fifo = [q \in {"net"} |-> << >>]
      /\ flow = [k \in Keys |-> [state |-> "closed", bytes |-> 0, opens |-> 0]]
      /\ connections = Absent /\ last_snapshot = Absent
      /\ collector = Asleep /\ snapshot = None /\ processor = Idle
      /\ sent = [k \in Keys |-> 0] /\ recorded = [k \in Keys |-> 0] /\ cause = [k \in Keys |-> {}]
  BY DEF HistoryInit, Ring!FInit
<1>2. fifo["net"] = << >> /\ Len(fifo["net"]) = 0
  BY <1>1
<1>3. MaxOpens \in Nat /\ MaxBytes \in Nat
  BY HistoryAssumption
<1>4. HistoryType
  <2>1. fifo \in [{"net"} -> Seq(Event)]
    BY <1>1
  <2>2. /\ flow \in [Keys -> [state : {"closed", "established", "half closed"}, bytes : Nat, opens : 0 .. MaxOpens]]
        /\ connections \in [Keys -> [bytes : Nat, age : Nat, open : Nat] \cup {None}]
        /\ last_snapshot \in [Keys -> Nat \cup {None}]
        /\ sent \in [Keys -> 0 .. MaxBytes] /\ recorded \in [Keys -> Nat]
        /\ cause \in [Keys -> SUBSET Reasons]
    BY <1>1, <1>3 DEF Absent
  <2>3. collector \in Collecting /\ processor \in Processing
    BY <1>1 DEF Collecting, Processing
  <2> QED
    BY <1>1, <2>1, <2>2, <2>3 DEF HistoryType
<1>5. \A k \in Keys : InHand(k) = {} /\ InRing(k) = {} /\ Pending(k) = {}
  <2>1. \A k \in Keys : InHand(k) = {} /\ InRing(k) = {}
    BY <1>1, <1>2 DEF InHand, InRing
  <2> QED
    BY <2>1 DEF Pending
<1>6. InOrder
  BY <1>2, <1>5 DEF InOrder, Follow
<1>7. ASSUME NEW k \in Keys
      PROVE  \E total \in [Nat -> Nat], n \in Nat : KeyInv(k, total, n)
  <2> DEFINE zero == [m \in Nat |-> 0]
  <2>1. zero \in [Nat -> Nat] /\ \A m \in Nat : zero[m] = 0
    OBVIOUS
  <2> HIDE DEF zero
  <2>2. /\ flow[k].state = "closed" /\ flow[k].bytes = 0 /\ flow[k].opens = 0
        /\ sent[k] = 0 /\ recorded[k] = 0 /\ cause[k] = {}
        /\ T(k) = None /\ Stat(k) = None /\ last_snapshot[k] = None
    BY <1>1 DEF T, Stat, Absent, Asleep
  <2>3. Due(k) = {}
    BY <1>5, <2>2 DEF Due, Ended
  <2>4. Baseline(k) = 0 /\ Copy(k) = 0 /\ Tabled(k) = 0 /\ Coming(k, 1) = 0 /\ SatSub(0, 0) = 0
    BY <1>1, <2>2 DEF Baseline, Copy, Tabled, Coming, Late, SatSub
  <2>5. Totals(k, zero)
    BY <2>1, <2>2 DEF Totals
  <2>6. Events(k, zero) /\ Samples(k, zero)
    BY <1>1, <1>5, <2>2 DEF Events, Samples
  <2>7. First(k, 1)
    <3>1. 1 \in 1 .. flow[k].opens + 1 /\ ~(1 <= flow[k].opens) /\ 1 .. flow[k].opens = {}
      BY <2>2
    <3> QED
      BY <2>3, <3>1 DEF First
  <2>8. zero[1 - 1] = 0
    BY <2>1
  <2>9. AtLeast(k, zero, 1) /\ NoneCurrent(k, zero, 1)
    BY <2>2, <2>4, <2>8 DEF AtLeast, NoneCurrent
  <2>10. KeyInv(k, zero, 1)
    BY <2>5, <2>6, <2>7, <2>9 DEF KeyInv, AtMost
  <2> QED
    BY <2>1, <2>10
<1> QED
  BY <1>4, <1>6, <1>7 DEF HistInv, Accounts

LEMMA StepNothing ==
  ASSUME HistInv, UNCHANGED hvars
  PROVE  HistInv'
<1>1. HistoryType /\ InOrder /\ Accounts
  BY DEF HistInv
<1>2. UNCHANGED <<fifo, flow, connections, collector, snapshot, last_snapshot, processor, sent, recorded, cause>>
  BY DEF hvars, ring
<1>3. ASSUME NEW k \in Keys
      PROVE  \E total \in [Nat -> Nat], n \in Nat : KeyInv(k, total, n)'
  <2>1. PICK total \in [Nat -> Nat], n \in Nat : KeyInv(k, total, n)
    BY <1>1 DEF Accounts
  <2>2. /\ InHand(k)' = InHand(k) /\ InRing(k)' = InRing(k) /\ Pending(k)' = Pending(k)
        /\ T(k)' = T(k) /\ Stat(k)' = Stat(k)
    BY <1>1, <1>2, SameQueue DEF T, Stat
  <2>3. Late(k, n)' => Late(k, n)
    BY <2>2 DEF Late
  <2>4. KeyInv(k, total, n)'
    BY <1>1, <1>2, <2>1, <2>2, <2>3, Still
  <2> QED
    BY <2>4
<1>4. HistoryType' /\ InOrder'
  BY <1>1, <1>2, SameQueue DEF HistoryType
<1> QED
  BY <1>3, <1>4 DEF HistInv, Accounts

LEMMA StepHist ==
  ASSUME HistInv, [HistoryNext]_hvars
  PROVE  HistInv'
<1>1. CASE UNCHANGED hvars
  BY <1>1, StepNothing
<1>2. CASE \E k \in Keys : Connect(k) \/ Send(k) \/ HalfClose(k) \/ Disconnect(k)
  BY <1>2, StepConnect, StepSend, StepHalfClose, StepDisconnect
<1>3. CASE get_event \/ update_connection \/ record_closed_connection
  BY <1>3, StepGetEvent, StepUpdateConnection, StepRecordClosed
<1>4. CASE collect_all_stats \/ update_stats \/ gc
  BY <1>4, StepCollect, StepUpdateStats, StepGc
<1>5. CASE get_active_connections \/ record_snapshot
  BY <1>5, StepGetActive, StepRecordSnapshot
<1>6. CASE Restart
  BY <1>6, StepRestart
<1> QED
  BY <1>1, <1>2, <1>3, <1>4, <1>5, <1>6 DEF HistoryNext

(* Every key has an account in which each of its connections has its place
   (record_snapshot, record_closed_connection, update_connection). *)
THEOREM HistoryInvariant == HistorySpec => []HistInv
<1>1. HistInv /\ [HistoryNext]_hvars => HistInv'
  BY StepHist
<1> QED
  BY InitHist, <1>1, PTL DEF HistorySpec

(* The history has no more bytes of a key than were sent with it, unless one of
   the named disturbances has met the key: snapshot and Close count against one
   baseline (start_periodic_snapshot, record_closed_connection). *)
THEOREM BytesCountedOnce == HistorySpec => []CountedOnce
<1>1. ASSUME HistInv PROVE CountedOnce
  <2> SUFFICES ASSUME NEW k \in Keys, Undisturbed(k) PROVE ~(recorded[k] > sent[k])
    BY DEF CountedOnce, Undisturbed
  <2>1. PICK total \in [Nat -> Nat], n \in Nat : KeyInv(k, total, n)
    BY <1>1 DEF HistInv, Accounts
  <2>2. HistoryType /\ Totals(k, total) /\ First(k, n) /\ AtMost(k, total, n)
    BY <1>1, <2>1 DEF HistInv, KeyInv
  <2>3. /\ recorded[k] \in Nat /\ total[n] \in Nat /\ total[n - 1] \in Nat /\ total[n - 1] <= total[n]
        /\ Copy(k) \in Nat /\ Baseline(k) \in Nat /\ Coming(k, n) \in Nat
        /\ SatSub(Copy(k), Baseline(k)) \in Nat /\ SatSub(Tabled(k), Copy(k)) \in Nat
    BY <2>2, Numbers
  <2>4. recorded[k] <= total[n]
    <3>1. CASE AllCurrent(k, total, n)
      <4>1. recorded[k] <= total[n - 1] + Baseline(k) /\ Baseline(k) <= total[n] - total[n - 1]
        BY <3>1 DEF AllCurrent
      <4> QED
        BY <2>3, <4>1
    <3>2. CASE CopyCurrent(k, total, n)
      BY <2>3, <3>2 DEF CopyCurrent
    <3>3. CASE OnlyTableCurrent(k, total, n)
      BY <2>3, <3>3 DEF OnlyTableCurrent
    <3>4. CASE NoneCurrent(k, total, n)
      BY <2>3, <3>4 DEF NoneCurrent
    <3> QED
      BY <2>2, <3>1, <3>2, <3>3, <3>4 DEF AtMost
  <2>5. flow[k].opens \in Nat /\ sent[k] \in Nat
    BY <2>2, Shapes
  <2>6. total[n] <= sent[k]
    <3>1. n <= flow[k].opens + 1 /\ flow[k].opens + 1 \in Nat
      BY <2>2, <2>5 DEF First
    <3>2. total[n] <= total[flow[k].opens + 1] /\ total[flow[k].opens + 1] = sent[k]
      BY <2>2, <2>5, <3>1 DEF Totals
    <3> QED
      BY <3>2
  <2> QED
    BY <2>3, <2>4, <2>5, <2>6
<1> QED
  BY HistoryInvariant, <1>1, PTL

(* Once the last Close of a key was processed, the history has all its bytes,
   unless a write failed, the ring was full or the service was started again;
   the disturbances that make it count twice never make it count too little
   (record_closed_connection). *)
THEOREM NoBytesMissed == HistorySpec => []NothingMissed
<1>1. ASSUME HistInv PROVE NothingMissed
  <2> SUFFICES ASSUME NEW k \in Keys, Settled(k), cause[k] \cap {"failed", "lost", "restart"} = {}
               PROVE  ~(recorded[k] < sent[k])
    BY DEF NothingMissed
  <2>1. PICK total \in [Nat -> Nat], n \in Nat : KeyInv(k, total, n)
    BY <1>1 DEF HistInv, Accounts
  <2>2. HistoryType /\ Totals(k, total) /\ First(k, n) /\ AtLeast(k, total, n)
    BY <1>1, <2>1 DEF HistInv, KeyInv
  <2>3. flow[k].opens \in Nat /\ sent[k] \in Nat /\ recorded[k] \in Nat /\ Baseline(k) \in Nat
    BY <2>2, Shapes
  <2>4. Due(k) = {}
    <3>1. Pending(k) = {}
      BY DEF Settled, Pending, InHand, InRing
    <3> QED
      BY <3>1 DEF Due, Ended, Settled
  <2>5. n = flow[k].opens + 1
    BY <2>2, <2>3, <2>4 DEF First
  <2>6. total[n - 1] = sent[k]
    BY <2>2, <2>3, <2>5 DEF Totals
  <2> QED
    BY <2>2, <2>3, <2>6 DEF AtLeast
<1> QED
  BY HistoryInvariant, <1>1, PTL
=============================================================================
