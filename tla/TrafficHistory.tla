--------------------------- MODULE TrafficHistory ---------------------------
(***************************************************************************)
(* How the bytes of a connection come into the history table               *)
(* (connection/tracker.rs, connection/stats_collector.rs,                  *)
(* network_history/manager.rs, the tracker and history steps of            *)
(* EventProcessor::process_event).                                         *)
(*                                                                         *)
(* Four tasks run beside each other.  The event processor takes Allow and  *)
(* Close events from the driver's ring; Close carries the total the driver *)
(* counted.  Every 5 s the statistics task asks the system for the bytes   *)
(* of its established connections, writes them into the connection table   *)
(* and drops connections it has not seen for 300 s.  Every 60 s the        *)
(* snapshot task copies the table and records, per connection, what is     *)
(* new against a baseline; a Close records what is new against the same    *)
(* baseline.  The baseline and the table are in memory; history rows are   *)
(* rows of the database.                                                   *)
(*                                                                         *)
(* A step is what happens under one lock.  The baseline's lock is held     *)
(* across the database write, so a snapshot's and a Close's recording are  *)
(* one step each.  One direction is modelled: the two are treated alike.   *)
(* Addresses, ports and protocol are the key of a connection; a key is     *)
(* used again by later connections.  Allow and Block events carry no bytes.*)
(***************************************************************************)
EXTENDS Naturals, Sequences, FiniteSets

CONSTANTS
  Keys,          \* addresses and ports of connections
  Limit,         \* events the driver's ring keeps
  GcRounds,      \* rounds of statistics after which an unseen connection is dropped (60)
  None,
  MaxBytes,      \* bound: bytes of one key
  MaxOpens,      \* bound: connections of one key
  MaxRounds,     \* bound: rounds of statistics, and of snapshots
  MaxFaults      \* bound: failed writes and restarts

ASSUME HistoryAssumption ==
  /\ Limit \in Nat \ {0} /\ GcRounds \in Nat \ {0} /\ None \notin Nat
  /\ {MaxBytes, MaxOpens, MaxRounds, MaxFaults} \subseteq Nat

VARIABLES
  fifo, returned,  \* the driver's ring
  flow,            \* the connections themselves: state, bytes, times opened
  connections,     \* ConnectionTracker.connections
  collector,       \* where the statistics task is, with the result of collect_all_stats
  snapshot,        \* table copied by the snapshot task, or None
  last_snapshot,   \* the baseline
  processor,       \* where process_event is
  sent,            \* history: bytes sent with each key
  recorded,        \* bytes in the rows of each key
  cause,           \* history: what has disturbed the account of each key
  rounds, faults   \* bound the model

ring == <<fifo, returned>>
hvars == <<ring, flow, connections, collector, snapshot, last_snapshot, processor, sent,
          recorded, cause, rounds, faults>>

(* An event names, for the properties only, which connection of its key it is of. *)
Event == [action : {"Allow", "Close"}, key : Keys, bytes : 0 .. MaxBytes, open : 1 .. MaxOpens]
Ring == INSTANCE DropOldestFifo WITH Queues <- {"net"}, Events <- Event

Absent == [k \in Keys |-> None]
Idle == [pc |-> "poll"]
Asleep == [pc |-> "asleep"]
Blame(ks, why) == cause' = [k \in Keys |-> IF k \in ks THEN cause[k] \cup {why} ELSE cause[k]]

HistoryInit ==
  /\ Ring!FInit
  /\ flow = [k \in Keys |-> [state |-> "closed", bytes |-> 0, opens |-> 0]]
  /\ connections = Absent /\ last_snapshot = Absent
  /\ collector = Asleep /\ snapshot = None
  /\ processor = Idle
  /\ sent = [k \in Keys |-> 0] /\ recorded = [k \in Keys |-> 0]
  /\ cause = [k \in Keys |-> {}]
  /\ rounds = [stats |-> 0, snapshots |-> 0] /\ faults = 0

-----------------------------------------------------------------------------
(* The driver and the network. *)

(* A full ring gives up its oldest event. *)
Report(e) ==
  /\ Ring!Put("net", e)
  /\ IF Len(fifo["net"]) = Limit THEN Blame({Head(fifo["net"]).key}, "lost") ELSE UNCHANGED cause

Connect(k) ==
  /\ flow[k].state = "closed" /\ flow[k].opens < MaxOpens
  /\ flow' = [flow EXCEPT ![k] = [state |-> "established", bytes |-> 0, opens |-> @.opens + 1]]
  /\ Report([action |-> "Allow", key |-> k, bytes |-> 0, open |-> flow[k].opens + 1])
  /\ UNCHANGED <<connections, collector, snapshot, last_snapshot, processor, sent, recorded, rounds, faults>>

Send(k) ==
  /\ flow[k].state = "established" /\ sent[k] < MaxBytes
  /\ flow' = [flow EXCEPT ![k].bytes = @ + 1]
  /\ sent' = [sent EXCEPT ![k] = @ + 1]
  /\ UNCHANGED <<ring, connections, collector, snapshot, last_snapshot, processor, recorded, cause, rounds, faults>>

(* One side has closed: the system's table does not call it established. *)
HalfClose(k) ==
  /\ flow[k].state = "established"
  /\ flow' = [flow EXCEPT ![k].state = "half closed"]
  /\ UNCHANGED <<ring, connections, collector, snapshot, last_snapshot, processor, sent, recorded, cause, rounds, faults>>

Disconnect(k) ==
  /\ flow[k].state # "closed"
  /\ flow' = [flow EXCEPT ![k].state = "closed"]
  /\ Report([action |-> "Close", key |-> k, bytes |-> flow[k].bytes, open |-> flow[k].opens])
  /\ UNCHANGED <<connections, collector, snapshot, last_snapshot, processor, sent, recorded, rounds, faults>>

-----------------------------------------------------------------------------
(* The event processor. *)

get_event ==
  /\ processor = Idle /\ Ring!Take("net")
  /\ processor' = [pc |-> "track", event |-> Head(fifo["net"])]
  /\ UNCHANGED <<flow, connections, collector, snapshot, last_snapshot, sent, recorded, cause, rounds, faults>>

(* A new connection starts at zero; one that is known is seen again. *)
Tracked(e) ==
  [bytes |-> IF connections[e.key] = None THEN 0 ELSE connections[e.key].bytes,
   age |-> 0, open |-> e.open]

update_connection ==
  /\ processor.pc = "track"
  /\ LET e == processor.event
     IN  /\ connections' = [connections EXCEPT ![e.key] =
                              IF e.action = "Close" THEN None ELSE Tracked(e)]
         /\ processor' = IF e.action = "Close" THEN [processor EXCEPT !.pc = "record"] ELSE Idle
  /\ UNCHANGED <<ring, flow, collector, snapshot, last_snapshot, sent, recorded, cause, rounds, faults>>

Baseline(k) == IF last_snapshot[k] = None THEN 0 ELSE last_snapshot[k]
SatSub(a, b) == IF a > b THEN a - b ELSE 0

(* A database write succeeds, or fails and its rows are lost.  The account of
   the keys ks is disturbed for the reason why. *)
Write(rows, ks, why) ==
  \/ /\ recorded' = [k \in Keys |-> recorded[k] + rows[k]]
     /\ Blame(ks, why)
     /\ UNCHANGED faults
  \/ /\ \E k \in Keys : rows[k] > 0
     /\ faults < MaxFaults /\ faults' = faults + 1
     /\ cause' = [k \in Keys |-> cause[k] \cup (IF k \in ks THEN {why} ELSE {})
                                          \cup (IF rows[k] > 0 THEN {"failed"} ELSE {})]
     /\ UNCHANGED recorded

(* The copy the snapshot task holds still has a connection that is now closed. *)
Raced(k) == snapshot # None /\ snapshot[k] # None

(* Nothing is recorded for a connection that no snapshot saw. *)
CloseSkipsUnseen ==
  /\ processor.pc = "record"
  /\ LET e == processor.event
     IN  /\ Write([k \in Keys |-> IF k = e.key /\ last_snapshot[k] # None
                                  THEN SatSub(e.bytes, Baseline(k)) ELSE 0],
                  {k \in {e.key} : Raced(k)}, "raced")
         /\ last_snapshot' = [last_snapshot EXCEPT ![e.key] = None]
  /\ processor' = Idle
  /\ UNCHANGED <<ring, flow, connections, collector, snapshot, sent, rounds>>

record_closed_connection ==
  /\ processor.pc = "record"
  /\ LET e == processor.event
     IN  /\ Write([k \in Keys |-> IF k = e.key THEN SatSub(e.bytes, Baseline(k)) ELSE 0],
                  {k \in {e.key} : Raced(k)}, "raced")
         /\ last_snapshot' = [last_snapshot EXCEPT ![e.key] = None]
  /\ processor' = Idle
  /\ UNCHANGED <<ring, flow, connections, collector, snapshot, sent, rounds>>

-----------------------------------------------------------------------------
(* The statistics task. *)

(* collect_tcp_stats lists the connections the system calls established, or
   fails; the byte counts of one may not be available and stay zero. *)
TcpTables == {{}, {k \in Keys : flow[k].state = "established"}}
Counters(k) == {0, flow[k].bytes}

collect_all_stats ==
  /\ collector = Asleep /\ rounds.stats < MaxRounds
  /\ \E seen \in TcpTables :
     \E bytes \in {f \in [seen -> 0 .. MaxBytes] : \A k \in seen : f[k] \in Counters(k)} :
       collector' = [pc |-> "update",
                     stats |-> [k \in Keys |-> IF k \in seen THEN [bytes |-> bytes[k], open |-> flow[k].opens]
                                                ELSE None]]
  /\ rounds' = [rounds EXCEPT !.stats = @ + 1]
  /\ UNCHANGED <<ring, flow, connections, snapshot, last_snapshot, processor, sent, recorded, cause, faults>>

(* Zero that is written over the bytes of an earlier round. *)
SampledOver(k) == [connections[k] EXCEPT !.bytes = collector.stats[k].bytes, !.age = 0]

Sampled(k) ==
  [connections[k] EXCEPT !.age = 0,
     !.bytes = IF collector.stats[k].bytes > 0 THEN collector.stats[k].bytes ELSE @]

(* A Close of k is on its way. *)
ClosePending(k) ==
  \/ \E i \in 1 .. Len(fifo["net"]) : fifo["net"][i].key = k /\ fifo["net"][i].action = "Close"
  \/ processor # Idle /\ processor.event.key = k /\ processor.event.action = "Close"

(* The sample was taken of another connection with the same key. *)
Stale(k) == collector.stats[k].open # connections[k].open /\ collector.stats[k].bytes > 0

(* The bytes go into the table; then, under the lock again, connections not
   seen for GcRounds rounds are dropped from it. *)
update_stats ==
  /\ collector.pc = "update"
  /\ LET hit == {k \in Keys : collector.stats[k] # None /\ connections[k] # None}
     IN  /\ connections' = [k \in Keys |-> IF k \in hit THEN Sampled(k) ELSE connections[k]]
         /\ Blame({k \in hit : Stale(k)}, "stale")
  /\ collector' = [pc |-> "gc"]
  /\ UNCHANGED <<ring, flow, snapshot, last_snapshot, processor, sent, recorded, rounds, faults>>

gc ==
  /\ collector.pc = "gc"
  /\ connections' = [k \in Keys |-> IF connections[k] = None \/ connections[k].age >= GcRounds
                                    THEN None ELSE [connections[k] EXCEPT !.age = @ + 1]]
  /\ collector' = Asleep
  /\ UNCHANGED <<ring, flow, snapshot, last_snapshot, processor, sent, recorded, cause, rounds, faults>>

-----------------------------------------------------------------------------
(* The snapshot task: the table is copied before the baseline is locked. *)

get_active_connections ==
  /\ snapshot = None /\ rounds.snapshots < MaxRounds
  /\ snapshot' = [k \in Keys |-> IF connections[k] = None THEN None ELSE connections[k].bytes]
  /\ rounds' = [rounds EXCEPT !.snapshots = @ + 1]
  /\ UNCHANGED <<ring, flow, connections, collector, last_snapshot, processor, sent, recorded, cause, faults>>

(* Rows for what is new; the copy becomes the baseline, whether or not the
   rows could be written. *)
SnapshotRows == [k \in Keys |-> IF snapshot[k] = None THEN 0 ELSE SatSub(snapshot[k], Baseline(k))]

(* The baseline of a connection goes before its Close is recorded. *)
Forgotten(k) ==
  /\ snapshot[k] = None /\ last_snapshot[k] # None
  /\ flow[k].state # "closed" \/ ClosePending(k)

record_snapshot ==
  /\ snapshot # None
  /\ Write(SnapshotRows, {k \in Keys : Forgotten(k)}, "forgot")
  /\ last_snapshot' = snapshot
  /\ snapshot' = None
  /\ UNCHANGED <<ring, flow, connections, collector, processor, sent, rounds>>

-----------------------------------------------------------------------------
(* The service stops or crashes and starts again; the driver stays. *)
Restart ==
  /\ faults < MaxFaults /\ faults' = faults + 1
  /\ connections' = Absent /\ last_snapshot' = Absent
  /\ collector' = Asleep /\ snapshot' = None
  /\ processor' = Idle
  /\ Blame({k \in Keys : flow[k].opens > 0}, "restart")
  /\ UNCHANGED <<ring, flow, sent, recorded, rounds>>

HistoryNext ==
  \/ \E k \in Keys : Connect(k) \/ Send(k) \/ HalfClose(k) \/ Disconnect(k)
  \/ get_event \/ update_connection \/ record_closed_connection
  \/ collect_all_stats \/ update_stats \/ gc
  \/ get_active_connections \/ record_snapshot
  \/ Restart

HistorySpec == HistoryInit /\ [][HistoryNext]_hvars

-----------------------------------------------------------------------------
(* No byte is recorded twice, by a snapshot and by the Close or by two
   snapshots, except in the ways named: a snapshot copied the table before a
   Close and recorded after it; a baseline was dropped, because the table had
   lost the connection, before its Close was recorded; statistics of one
   connection were written to another one with the same key; or the baseline
   was lost in a restart (start_periodic_snapshot, record_closed_connection). *)
CountedOnce ==
  \A k \in Keys : recorded[k] > sent[k] => cause[k] \cap {"raced", "forgot", "stale", "restart"} # {}

(* The processor has heard of everything about k. *)
Settled(k) ==
  /\ flow[k].state = "closed"
  /\ \A i \in 1 .. Len(fifo["net"]) : fifo["net"][i].key # k
  /\ processor = Idle \/ processor.event.key # k

(* Once the end of a connection was processed, all its bytes are in the
   history, those since the last snapshot and those of a connection no snapshot
   saw, unless a write failed, the driver's ring was full or the service was
   started again. *)
NothingMissed ==
  \A k \in Keys : (Settled(k) /\ recorded[k] < sent[k]) =>
                     cause[k] \cap {"failed", "lost", "restart"} # {}
=============================================================================
