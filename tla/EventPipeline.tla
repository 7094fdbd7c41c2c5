--------------------------- MODULE EventPipeline ---------------------------
(***************************************************************************)
(* From the driver's rings to the log table (event/processor.rs,           *)
(* event/buffer.rs, the reading half of driver/handle.rs,                  *)
(* Database::add_logs_batch and the part of FirewallService::stop that     *)
(* ends the tasks).                                                        *)
(*                                                                         *)
(* Three tasks share the log buffer: the processor, which adds an entry    *)
(* per event and flushes a full buffer; the flusher, every 10 s; and the   *)
(* stop path.  A flush drains the buffer under its lock and writes the     *)
(* batch without it.                                                       *)
(*                                                                         *)
(* What process_event does to the throttle table, the connection table,    *)
(* the history and the notifications is in KernelSync, TrafficHistory and  *)
(* Client; a DNS event goes to the cache of DomainRules.                   *)
(***************************************************************************)
EXTENDS EventQueue, FiniteSets

CONSTANTS
  Ids,              \* events the callouts report, in order: 1 .. n
  MAX_SIZE,         \* entries the log buffer keeps (1000)
  FLUSH_AT,         \* entries at which the processor flushes (100)
  DNS_PER_ROUND,    \* DNS events read per round (32)
  MaxFaults         \* bound: failed writes

ASSUME PipelineAssumption ==
  /\ Ids \subseteq Nat /\ {MAX_SIZE, FLUSH_AT, DNS_PER_ROUND, MaxFaults} \subseteq Nat
  /\ 0 < FLUSH_AT /\ FLUSH_AT <= MAX_SIZE

VARIABLES
  reported, taken,    \* history: events reported so far, and those the processor has taken
  file,               \* the driver handle: "open" or "closed"
  running,            \* the service's flag
  processor,          \* where EventProcessor::start is
  flusher,            \* where start_log_flusher is
  stopper,            \* where FirewallService::stop is
  batch,              \* batch[t]: what task t has drained and not yet written
  buffer,             \* LogBuffer.buffer
  logs,               \* rows of each event in the log table
  lost, dropped,      \* history: entries of each event given up, by a failed write and at the exit
  faults

rings == <<ring, head, tail, returned>>
log == <<batch, buffer, logs, lost, dropped, faults>>
pvars == <<rings, reported, taken, file, running, processor, flusher, stopper, log>>

Tasks == {"processor", "flusher", "stopper"}
NoRows == [i \in Ids |-> 0]
In(i, s) == Cardinality({k \in DOMAIN s : s[k] = i})
Plus(rows, s) == [i \in Ids |-> rows[i] + In(i, s)]

PipelineInit ==
  /\ Init
  /\ reported = 0 /\ taken = {}
  /\ file = "open" /\ running = TRUE
  /\ processor = [pc |-> "check"] /\ flusher = "check" /\ stopper = "idle"
  /\ batch = [t \in Tasks |-> <<>>]
  /\ buffer = <<>> /\ logs = NoRows /\ lost = NoRows /\ dropped = NoRows
  /\ faults = 0

-----------------------------------------------------------------------------
(* A callout reports the next event, or a DNS response. *)
Report ==
  /\ reported + 1 \in Ids
  /\ reported' = reported + 1
  /\ \E e \in Events : /\ e.id = reported'
                       /\ \/ e.action # "Dns" /\ QueueEvent(e)
                          \/ e.action = "Dns" /\ QueueDnsEvent(e)
  /\ UNCHANGED <<taken, file, running, processor, flusher, stopper, log>>

-----------------------------------------------------------------------------
(* LogBuffer::add gives up the oldest entry of a full buffer. *)
Add(e) == buffer' = Append(IF Len(buffer) >= MAX_SIZE THEN Tail(buffer) ELSE buffer, e.id)

(* A flush that copies the buffer and empties it only after the write. *)
DrainCopies(t) ==
  /\ batch' = [batch EXCEPT ![t] = buffer]
  /\ UNCHANGED <<buffer, logs, lost, dropped, faults>>

(* The first half of a flush: the buffer is emptied under its lock. *)
Drain(t) ==
  /\ batch' = [batch EXCEPT ![t] = buffer]
  /\ buffer' = <<>>
  /\ UNCHANGED <<logs, lost, dropped, faults>>

(* The second half: one transaction, which a failure rolls back as a whole.
   What was drained is not put back. *)
add_logs_batch(t) ==
  /\ batch' = [batch EXCEPT ![t] = <<>>]
  /\ \/ /\ logs' = Plus(logs, batch[t])
        /\ UNCHANGED <<lost, faults>>
     \/ /\ batch[t] # <<>> /\ faults < MaxFaults
        /\ faults' = faults + 1
        /\ lost' = Plus(lost, batch[t])
        /\ UNCHANGED logs
  /\ UNCHANGED <<buffer, dropped>>

-----------------------------------------------------------------------------
(* The processor's loop. *)

Goto(pc) == processor' = [pc |-> pc]

(* A loop that ends only when the handle is closed. *)
CheckNothing ==
  /\ processor.pc = "check"
  /\ Goto("get")
  /\ UNCHANGED <<rings, reported, taken, file, running, flusher, stopper, log>>

(* running is read before the event is asked for. *)
CheckRunning ==
  /\ processor.pc = "check"
  /\ Goto(IF running THEN "get" ELSE "exit")
  /\ UNCHANGED <<rings, reported, taken, file, running, flusher, stopper, log>>

(* DriverHandle::get_event: a closed handle ends the loop, an empty ring
   (and any other error) is retried in the next round. *)
get_event ==
  /\ processor.pc = "get"
  /\ \/ file = "closed" /\ Goto("exit") /\ UNCHANGED <<rings, taken>>
     \/ /\ file = "open" /\ GetEvent
        /\ LET e == returned'["net"]
           IN  \/ e = Zero /\ processor' = [pc |-> "dns", drained |-> 0] /\ UNCHANGED taken
               \/ e # Zero /\ processor' = [pc |-> "add", event |-> e] /\ taken' = taken \cup {e.id}
  /\ UNCHANGED <<reported, file, running, flusher, stopper, log>>

(* The log entry; at FLUSH_AT entries the lock is dropped and taken again to
   drain the buffer. *)
AddToBuffer ==
  /\ processor.pc = "add"
  /\ Add(processor.event)
  /\ processor' = [processor EXCEPT !.pc = IF Len(buffer') >= FLUSH_AT THEN "drain" ELSE "history"]
  /\ UNCHANGED <<rings, reported, taken, file, running, flusher, stopper, batch, logs, lost, dropped, faults>>

(* record_closed_connection or add_record, and the notification of a block. *)
Recorded ==
  /\ processor.pc = "history"
  /\ processor' = [pc |-> "dns", drained |-> 0]
  /\ UNCHANGED <<rings, reported, taken, file, running, flusher, stopper, log>>

(* Up to DNS_PER_ROUND DNS events, then the next round. *)
drain_dns ==
  /\ processor.pc = "dns"
  /\ \/ /\ file = "closed" \/ processor.drained = DNS_PER_ROUND
        /\ Goto("check") /\ UNCHANGED rings
     \/ /\ file = "open" /\ processor.drained < DNS_PER_ROUND
        /\ GetDnsEvent
        /\ processor' = IF returned'["dns"] = Zero THEN [pc |-> "check"]
                        ELSE [processor EXCEPT !.drained = @ + 1]
  /\ UNCHANGED <<reported, taken, file, running, flusher, stopper, log>>

(* No flush when the loop is left. *)
ExitUnflushed ==
  /\ \/ processor.pc = "drain" /\ Drain("processor") /\ processor' = [processor EXCEPT !.pc = "write"]
     \/ processor.pc = "exit" /\ Goto("done") /\ UNCHANGED log
     \/ processor.pc = "write" /\ add_logs_batch("processor") /\ processor' = [processor EXCEPT !.pc = "history"]
  /\ UNCHANGED <<rings, reported, taken, file, running, flusher, stopper>>

(* The flush of a full buffer, and the one on exit. *)
ProcessorFlush ==
  /\ \/ processor.pc \in {"drain", "exit"}
        /\ Drain("processor")
        /\ processor' = [processor EXCEPT !.pc = IF @ = "drain" THEN "write" ELSE "last write"]
     \/ processor.pc \in {"write", "last write"}
        /\ add_logs_batch("processor")
        /\ processor' = [processor EXCEPT !.pc = IF @ = "write" THEN "history" ELSE "done"]
  /\ UNCHANGED <<rings, reported, taken, file, running, flusher, stopper>>

-----------------------------------------------------------------------------
(* A flusher that leaves small buffers alone. *)
FlusherWaitsForFull ==
  /\ \/ flusher = "check" /\ flusher' = (IF running THEN "asleep" ELSE "done") /\ UNCHANGED log
     \/ flusher = "asleep" /\ flusher' = (IF Len(buffer) < FLUSH_AT THEN "check" ELSE "drain") /\ UNCHANGED log
     \/ flusher = "drain" /\ flusher' = "write" /\ Drain("flusher")
     \/ flusher = "write" /\ flusher' = "check" /\ add_logs_batch("flusher")
  /\ UNCHANGED <<rings, reported, taken, file, running, processor, stopper>>

(* The flusher sleeps between its look at the flag and its look at the buffer. *)
start_log_flusher ==
  /\ \/ flusher = "check" /\ flusher' = (IF running THEN "asleep" ELSE "done") /\ UNCHANGED log
     \/ flusher = "asleep" /\ flusher' = (IF buffer = <<>> THEN "check" ELSE "drain") /\ UNCHANGED log
     \/ flusher = "drain" /\ flusher' = "write" /\ Drain("flusher")
     \/ flusher = "write" /\ flusher' = "check" /\ add_logs_batch("flusher")
  /\ UNCHANGED <<rings, reported, taken, file, running, processor, stopper>>

(* The stop path: the flag, a flush after 100 ms, and the handle closed last. *)
stop ==
  /\ \/ stopper = "idle" /\ stopper' = "drain" /\ running' = FALSE /\ UNCHANGED <<file, log>>
     \/ stopper = "drain" /\ stopper' = "write" /\ Drain("stopper") /\ UNCHANGED <<file, running>>
     \/ stopper = "write" /\ stopper' = "close" /\ add_logs_batch("stopper") /\ UNCHANGED <<file, running>>
     \/ stopper = "close" /\ stopper' = "done" /\ file' = "closed" /\ UNCHANGED <<running, log>>
  /\ UNCHANGED <<rings, reported, taken, processor, flusher>>

(* The process ends: the tasks are dropped where they wait, with the buffer and
   the event in hand; a write that is under way still ends. *)
Exit ==
  /\ stopper = "done" /\ stopper' = "exited"
  /\ dropped' = Plus(dropped, buffer \o IF processor.pc = "add" THEN <<processor.event.id>> ELSE <<>>)
  /\ buffer' = <<>>
  /\ Goto("dropped") /\ flusher' = "dropped"
  /\ UNCHANGED <<rings, reported, taken, file, running, batch, logs, lost, faults>>

LateWrite ==
  /\ stopper = "exited"
  /\ \E t \in Tasks : batch[t] # <<>> /\ add_logs_batch(t)
  /\ UNCHANGED <<rings, reported, taken, file, running, processor, flusher, stopper>>

Processor == CheckRunning \/ get_event \/ AddToBuffer \/ Recorded \/ drain_dns \/ ProcessorFlush

PipelineNext ==
  Report \/ Processor \/ start_log_flusher \/ stop \/ Exit \/ LateWrite

(* The runtime schedules every task; nothing else is forced to happen. *)
PipelineSpec ==
  /\ PipelineInit /\ [][PipelineNext]_pvars
  /\ WF_pvars(Processor) /\ WF_pvars(start_log_flusher)
  /\ WF_pvars(stop /\ stopper # "idle") /\ WF_pvars(LateWrite)

-----------------------------------------------------------------------------
(* How often the entry of event i exists: in the table, in the buffer, drained
   by a task, in the processor's hands, or given up. *)
Copies(i) ==
  logs[i] + lost[i] + dropped[i] + In(i, buffer)
    + In(i, batch["processor"]) + In(i, batch["flusher"]) + In(i, batch["stopper"])
    + (IF processor.pc = "add" /\ processor.event.id = i THEN 1 ELSE 0)

(* Every event taken from the driver is logged exactly once, or on its way to
   the table, whatever flushes overlap.  It is given up only when its batch
   could not be written or when the process ends; the buffer's own limit never
   costs an entry, because the processor flushes long before (flush, LogBuffer). *)
LoggedOnce == \A i \in taken : Copies(i) = 1

(* The stop path loses at most one entry, the one of the round the processor was
   in when the flag fell: the flush of stop comes after the flag, and the
   processor looks at the flag before each event (stop, start). *)
ShutdownLosesOne == \A i, j \in Ids : dropped[i] > 0 /\ dropped[j] > 0 => i = j

(* An entry does not stay in the buffer: the flusher gets to it however few
   events follow (start_log_flusher), and the flush on exit afterwards. *)
BufferEmpties == \A i \in Ids : (In(i, buffer) > 0) ~> (In(i, buffer) = 0)

(* Once the service stops, every task ends by itself and no entry is left in
   memory, whether the processor sees the flag or the closed handle first. *)
StopEnds ==
  (stopper # "idle") ~>
    [](/\ processor.pc \in {"done", "dropped"} /\ flusher \in {"done", "dropped"}
       /\ stopper \in {"done", "exited"}
       /\ buffer = <<>> /\ \A t \in Tasks : batch[t] = <<>>)
=============================================================================
