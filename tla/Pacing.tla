------------------------------- MODULE Pacing -------------------------------
(***************************************************************************)
(* Download shaping (driver/src/pacing.c with the callers in throttle.c,   *)
(* wfp.c and driver.c).  An inbound segment that finds no tokens is cloned *)
(* and held in a queue of its process; a 1 ms timer DPC, and the handlers  *)
(* that remove a limit, take packets off the queues under the hold lock    *)
(* and inject them after they dropped it.                                  *)
(*                                                                         *)
(* Actors: the processors that classify inbound segments, the timer DPC,   *)
(* the IOCTL thread, the process-exit callback, the unload thread and the  *)
(* completion of injections.  A critical section is one step, except the   *)
(* DPC's, which takes the throttle lock once per packet inside it.         *)
(* A packet is its arrival number, so of two packets the smaller came      *)
(* first.  Segments that cannot be charged to a process are permitted      *)
(* untouched and are left out.                                             *)
(***************************************************************************)
EXTENDS Throttle, Sequences, SequencesExt

CONSTANTS
  PACING_MAX_CONTEXTS,       \* queues
  PACING_PID_HOLD_LIMIT,     \* bytes one process may have held
  PACING_GLOBAL_HOLD_LIMIT,  \* bytes all processes may have held
  PACING_DPC_BATCH,          \* packets taken in one critical section
  Cpus,                      \* processors that classify
  Families,                  \* address families, one injection handle each
  Limits,                    \* <<up, down>> pairs IOCTL_SET_THROTTLE may carry
  OutSizes,                  \* sizes of outbound segments
  MaxPackets,                \* bound: inbound segments that arrive
  MaxCommands                \* bound: IOCTLs and process exits

ASSUME PacingAssumption ==
  /\ PACING_MAX_CONTEXTS \in Nat \ {0} /\ PACING_DPC_BATCH \in Nat \ {0}
  /\ PACING_PID_HOLD_LIMIT \in Nat /\ PACING_GLOBAL_HOLD_LIMIT \in Nat
  /\ MaxPackets \in Nat /\ MaxCommands \in Nat
  /\ Limits \subseteq Rates \X Rates /\ OutSizes \subseteq Sizes

VARIABLES
  s_Contexts,           \* the queues
  s_GlobalQueuedBytes,  \* bytes held altogether
  s_InjHandle,          \* s_InjHandle[f]: the injection handle of f exists
  packets,              \* the segments that have arrived, in order
  cpu,                  \* what each processor's classify is doing
  dpc,                  \* what the timer DPC is doing
  thread,               \* what each thread that flushes queues is doing
  phase,                \* how far DriverUnload has got
  registered,           \* what the system still calls in the driver
  commands              \* commands so far (bounds the model)

pvars == <<s_Contexts, s_GlobalQueuedBytes, s_InjHandle, packets, cpu, dpc, thread,
           phase, registered, commands>>
vars == <<tvars, pvars>>

Contexts == 1 .. PACING_MAX_CONTEXTS
Procs == Pids \ {0}
Threads == {"ioctl", "notify", "unload"}
Callbacks == {"inbound", "notify"}
EveryPid == -1    \* the target of PacingFlushAll

FreeContext == [InUse |-> FALSE, ProcessId |-> 0, Queue |-> <<>>, PacketCount |-> 0,
                QueuedBytes |-> 0]
Idle == [pc |-> "idle"]

PacingEnabled(f) == s_InjHandle[f]
AnyEnabled == \E f \in Families : PacingEnabled(f)
HoldLockFree == dpc.pc # "scan"

Pid(k) == packets[k].pid
Bytes(k) == packets[k].bytes
Place(k) == packets[k].place
Move(ks, place) == [k \in DOMAIN packets |->
                      IF k \in ks THEN [packets[k] EXCEPT !.place = place] ELSE packets[k]]

(* PacingInit, with either injection handle possibly not created. *)
Init ==
  /\ ThrottleInit
  /\ s_Contexts = [i \in Contexts |-> FreeContext]
  /\ s_GlobalQueuedBytes = 0
  /\ s_InjHandle \in [Families -> BOOLEAN]
  /\ packets = <<>>
  /\ cpu = [c \in Cpus |-> Idle]
  /\ dpc = Idle
  /\ thread = [t \in Threads |-> Idle]
  /\ phase = "loaded"
  /\ registered = Callbacks
  /\ commands = 0
-----------------------------------------------------------------------------
(***************************************************************************)
(* Classify of an inbound segment (InboundIpPacketThrottleCommon).         *)
(***************************************************************************)
Arrive(c, pid, n, f) ==
  LET limited == PacingEnabled(f) /\ s_ActiveCount # 0
      arrival(place) == Append(packets, [pid |-> pid, bytes |-> n, family |-> f, cpu |-> c,
                                         place |-> place])
      k == Len(packets) + 1
  IN  /\ "inbound" \in registered
      /\ cpu[c] = Idle
      /\ k <= MaxPackets
      /\ \/ /\ ~limited
            /\ packets' = arrival("done")
            /\ UNCHANGED cpu
         \/ /\ limited
            /\ packets' = arrival("classify")
            /\ cpu' = [cpu EXCEPT ![c] = [pc |-> "has_held", pkt |-> k]]
      /\ UNCHANGED <<tvars, s_Contexts, s_GlobalQueuedBytes, s_InjHandle, dpc, thread,
                     phase, registered, commands>>

HasHeld(pid) ==
  \E i \in Contexts : s_Contexts[i].InUse /\ s_Contexts[i].ProcessId = pid
                      /\ s_Contexts[i].Queue # <<>>

(* A classify that asks for tokens without looking at the queue. *)
PacingPidHasHeldIgnored(c) ==
  /\ cpu[c].pc = "has_held"
  /\ cpu' = [cpu EXCEPT ![c].pc = "check"]
  /\ UNCHANGED <<tvars, s_Contexts, s_GlobalQueuedBytes, s_InjHandle, packets, dpc,
                 thread, phase, registered, commands>>

(* PacingHoldPacket tests the injection handle first; what it does after that, and
   the classify until it calls it, does not look at the handle. *)
HoldEntry(k) == IF PacingEnabled(packets[k].family) THEN "hold" ELSE "fail"

(* Packets already held: queue behind them and do not ask for tokens. *)
PacingPidHasHeld(c) ==
  /\ cpu[c].pc = "has_held"
  /\ HoldLockFree
  /\ cpu' = [cpu EXCEPT ![c].pc = IF HasHeld(Pid(cpu[c].pkt)) THEN HoldEntry(cpu[c].pkt) ELSE "check"]
  /\ UNCHANGED <<tvars, s_Contexts, s_GlobalQueuedBytes, s_InjHandle, packets, dpc,
                 thread, phase, registered, commands>>

FastPath(c) ==
  LET k == cpu[c].pkt IN
  /\ cpu[c].pc = "check"
  /\ \/ /\ ThrottleCheck(Pid(k), FALSE, Bytes(k), TRUE)
        /\ packets' = Move({k}, "done")
        /\ cpu' = [cpu EXCEPT ![c] = Idle]
     \/ /\ ThrottleCheck(Pid(k), FALSE, Bytes(k), FALSE)
        /\ cpu' = [cpu EXCEPT ![c].pc = HoldEntry(k)]
        /\ UNCHANGED packets
  /\ UNCHANGED <<s_Contexts, s_GlobalQueuedBytes, s_InjHandle, dpc, thread, phase, registered, commands>>

(***************************************************************************)
(* PacingHoldPacket.  The queue of the process is looked up, or a free one *)
(* taken, before the limits are tested.                                    *)
(***************************************************************************)
IsContextOf(i, pid) == s_Contexts[i].InUse /\ s_Contexts[i].ProcessId = pid

PacingGetContextLocked(i, pid) ==
  \/ IsContextOf(i, pid) /\ \A j \in Contexts : j < i => ~IsContextOf(j, pid)
  \/ /\ \A j \in Contexts : ~IsContextOf(j, pid)
     /\ ~s_Contexts[i].InUse /\ \A j \in Contexts : j < i => s_Contexts[j].InUse

Opened(i, pid) ==
  IF s_Contexts[i].InUse THEN s_Contexts[i]
  ELSE [InUse |-> TRUE, ProcessId |-> pid, Queue |-> <<>>, PacketCount |-> 0, QueuedBytes |-> 0]

(* The limit tested before the new packet is added to the total. *)
OverLimitBefore(ctx, n) ==
  \/ s_GlobalQueuedBytes >= PACING_GLOBAL_HOLD_LIMIT
  \/ ctx.QueuedBytes >= PACING_PID_HOLD_LIMIT

OverLimit(ctx, n) ==
  \/ s_GlobalQueuedBytes + n > PACING_GLOBAL_HOLD_LIMIT
  \/ ctx.QueuedBytes + n > PACING_PID_HOLD_LIMIT

Drop(c) ==
  /\ packets' = Move({cpu[c].pkt}, "dropped")
  /\ cpu' = [cpu EXCEPT ![c] = Idle]

HoldFails(c) ==      \* no handle, no memory, a chained or malformed buffer, no clone
  /\ cpu[c].pc \in {"hold", "fail"}
  /\ Drop(c)
  /\ UNCHANGED <<tvars, s_Contexts, s_GlobalQueuedBytes, s_InjHandle, dpc, thread, phase, registered,
                 commands>>

HoldRefused(c) ==    \* every context taken, or over a limit
  LET k == cpu[c].pkt IN
  /\ cpu[c].pc = "hold"
  /\ HoldLockFree
  /\ \/ /\ \A i \in Contexts : ~PacingGetContextLocked(i, Pid(k))
        /\ UNCHANGED s_Contexts
     \/ \E i \in Contexts :
          /\ PacingGetContextLocked(i, Pid(k))
          /\ OverLimit(Opened(i, Pid(k)), Bytes(k))
          /\ s_Contexts' = [s_Contexts EXCEPT ![i] = Opened(i, Pid(k))]
  /\ Drop(c)
  /\ UNCHANGED <<tvars, s_GlobalQueuedBytes, s_InjHandle, dpc, thread, phase, registered, commands>>

Hold(c) ==
  LET k == cpu[c].pkt IN
  /\ cpu[c].pc = "hold"
  /\ HoldLockFree
  /\ \E i \in Contexts :
       LET ctx == Opened(i, Pid(k)) IN
       /\ PacingGetContextLocked(i, Pid(k))
       /\ ~OverLimit(ctx, Bytes(k))
       /\ s_Contexts' = [s_Contexts EXCEPT ![i] =
            [ctx EXCEPT !.Queue = Append(@, k), !.PacketCount = @ + 1,
                        !.QueuedBytes = @ + Bytes(k)]]
  /\ s_GlobalQueuedBytes' = s_GlobalQueuedBytes + Bytes(k)
  /\ packets' = Move({k}, "held")
  /\ cpu' = [cpu EXCEPT ![c] = Idle]
  /\ UNCHANGED <<tvars, s_InjHandle, dpc, thread, phase, registered, commands>>
-----------------------------------------------------------------------------
(* Bytes of a sequence of packets. *)
TotalBytes(s) == FoldFunction(+, 0, [j \in DOMAIN s |-> Bytes(s[j])])

(* A dequeue that counts a packet off and leaves it in the list. *)
ShortenedInPlace(ctx, n) ==
  IF ctx.PacketCount = n /\ n > 0 THEN FreeContext
  ELSE [ctx EXCEPT !.PacketCount = @ - n,
                   !.QueuedBytes = @ - TotalBytes(SubSeq(ctx.Queue, 1, n))]

(* A context after its first n packets are taken; an emptied one is freed. *)
Shortened(ctx, n) ==
  LET left == SubSeq(ctx.Queue, n + 1, Len(ctx.Queue))
      shorter == [ctx EXCEPT !.Queue = left, !.PacketCount = @ - n,
                             !.QueuedBytes = @ - TotalBytes(SubSeq(ctx.Queue, 1, n))]
  IN  IF n > 0 /\ shorter.PacketCount = 0
      THEN [shorter EXCEPT !.InUse = FALSE, !.ProcessId = 0] ELSE shorter

(* PacingInjectNow: refused on the spot, as it is without a handle, or in the
   stack until it completes. *)
PacingInjectNow(k) ==
  \E place \in {"injected", "dropped"} :
    /\ place = "injected" => PacingEnabled(packets[k].family)
    /\ packets' = Move({k}, place)

(***************************************************************************)
(* PacingTimerDpc.  The scan holds the hold lock; it looks at the head of  *)
(* each queue, and passes on to the next queue when the tokens run out.    *)
(* A tick that finds every queue empty changes nothing and is left out.    *)
(***************************************************************************)
NextQueue(i) ==
  LET later == {j \in Contexts : j >= i /\ s_Contexts[j].InUse /\ s_Contexts[j].Queue # <<>>}
  IN  IF later = {} THEN 0 ELSE CHOOSE j \in later : \A l \in later : j <= l

DpcStart ==
  /\ phase \in {"loaded", "notify_off"}
  /\ AnyEnabled
  /\ dpc = Idle
  /\ NextQueue(1) # 0
  /\ dpc' = [pc |-> "scan", ctx |-> 1, batch |-> <<>>]
  /\ UNCHANGED <<tvars, s_Contexts, s_GlobalQueuedBytes, s_InjHandle, packets, cpu,
                 thread, phase, registered, commands>>

DpcHead ==
  LET i == NextQueue(dpc.ctx)
      k == Head(s_Contexts[i].Queue)
  IN  /\ dpc.pc = "scan"
      /\ Len(dpc.batch) < PACING_DPC_BATCH
      /\ i # 0
      /\ \/ /\ ThrottleCheck(Pid(k), FALSE, Bytes(k), TRUE)
            /\ s_Contexts' = [s_Contexts EXCEPT ![i] = Shortened(@, 1)]
            /\ s_GlobalQueuedBytes' = s_GlobalQueuedBytes - Bytes(k)
            /\ packets' = Move({k}, "batch")
            /\ dpc' = [dpc EXCEPT !.ctx = i, !.batch = Append(@, k)]
         \/ /\ ThrottleCheck(Pid(k), FALSE, Bytes(k), FALSE)
            /\ dpc' = [dpc EXCEPT !.ctx = i + 1]
            /\ UNCHANGED <<s_Contexts, s_GlobalQueuedBytes, packets>>
      /\ UNCHANGED <<s_InjHandle, cpu, thread, phase, registered, commands>>

DpcScanDone ==
  /\ dpc.pc = "scan"
  /\ Len(dpc.batch) = PACING_DPC_BATCH \/ NextQueue(dpc.ctx) = 0
  /\ dpc' = IF dpc.batch = <<>> THEN Idle ELSE [pc |-> "inject", batch |-> dpc.batch]
  /\ UNCHANGED <<tvars, s_Contexts, s_GlobalQueuedBytes, s_InjHandle, packets, cpu,
                 thread, phase, registered, commands>>

DpcInject ==
  /\ dpc.pc = "inject"
  /\ PacingInjectNow(Head(dpc.batch))
  /\ dpc' = IF Len(dpc.batch) = 1 THEN Idle ELSE [dpc EXCEPT !.batch = Tail(@)]
  /\ UNCHANGED <<tvars, s_Contexts, s_GlobalQueuedBytes, s_InjHandle, cpu, thread, phase, registered,
                 commands>>

PacingInjectComplete(k) ==
  /\ Place(k) = "injected"
  /\ \E place \in {"done", "dropped"} : packets' = Move({k}, place)
  /\ UNCHANGED <<tvars, s_Contexts, s_GlobalQueuedBytes, s_InjHandle, cpu, dpc, thread,
                 phase, registered, commands>>
-----------------------------------------------------------------------------
(***************************************************************************)
(* PacingFlushPid and PacingDrainAll: batches are taken until none is      *)
(* left, and injected outside the lock.                                    *)
(***************************************************************************)
FlushesContext(target, i) ==
  s_Contexts[i].InUse /\ (target = EveryPid \/ s_Contexts[i].ProcessId = target)

(* How many packets a batch takes from each queue, in the order of the queues. *)
Takes(target) ==
  LET avail(i) == IF FlushesContext(target, i) THEN Len(s_Contexts[i].Queue) ELSE 0
      upto[i \in 0 .. PACING_MAX_CONTEXTS] ==
        IF i = 0 THEN 0 ELSE AtMost(upto[i - 1] + avail(i), PACING_DPC_BATCH)
  IN  [i \in Contexts |-> upto[i] - upto[i - 1]]

FlushTake(t) ==
  LET n == Takes(thread[t].target)
      batch == FlattenSeq([i \in Contexts |-> SubSeq(s_Contexts[i].Queue, 1, n[i])])
  IN  /\ thread[t].pc = "flush"
      /\ HoldLockFree
      /\ batch # <<>>
      /\ s_Contexts' = [i \in Contexts |-> Shortened(s_Contexts[i], n[i])]
      /\ s_GlobalQueuedBytes' = s_GlobalQueuedBytes - TotalBytes(batch)
      /\ packets' = Move({batch[j] : j \in DOMAIN batch}, "batch")
      /\ thread' = [thread EXCEPT ![t] =
                      [pc |-> "inject", target |-> thread[t].target, batch |-> batch]]
      /\ UNCHANGED <<tvars, s_InjHandle, cpu, dpc, phase, registered, commands>>

FlushInject(t) ==
  LET batch == thread[t].batch IN
  /\ thread[t].pc = "inject"
  /\ PacingInjectNow(Head(batch))
  /\ thread' = [thread EXCEPT ![t] =
       IF Len(batch) = 1 THEN [pc |-> "flush", target |-> thread[t].target]
                         ELSE [thread[t] EXCEPT !.batch = Tail(@)]]
  /\ UNCHANGED <<tvars, s_Contexts, s_GlobalQueuedBytes, s_InjHandle, cpu, dpc, phase, registered,
                 commands>>

FlushDone(t) ==
  /\ thread[t].pc = "flush"
  /\ HoldLockFree
  /\ \A i \in Contexts : FlushesContext(thread[t].target, i) => s_Contexts[i].Queue = <<>>
  /\ thread' = [thread EXCEPT ![t] = Idle]
  /\ UNCHANGED <<tvars, s_Contexts, s_GlobalQueuedBytes, s_InjHandle, packets, cpu, dpc,
                 phase, registered, commands>>

(* A handler that forgets to release what is held. *)
NoFlush(t, target) == UNCHANGED thread

(* The call that starts a flush.  PacingFlushPid returns at once when there is
   no injection handle; then nothing was ever held. *)
Flush(t, target) ==
  thread' = [thread EXCEPT ![t] =
               IF AnyEnabled \/ target = EveryPid THEN [pc |-> "flush", target |-> target]
               ELSE Idle]
-----------------------------------------------------------------------------
(***************************************************************************)
(* The handlers that change the limits.                                    *)
(***************************************************************************)
Command == commands < MaxCommands /\ commands' = commands + 1

SetLimit(pid, up, down) ==
  /\ phase = "loaded"
  /\ thread["ioctl"] = Idle
  /\ Command
  /\ ThrottleSetEntry(pid, up, down)
  /\ IF up = 0 /\ down = 0 /\ SlotsOf(pid) # {} THEN Flush("ioctl", pid) ELSE UNCHANGED thread
  /\ UNCHANGED <<s_Contexts, s_GlobalQueuedBytes, s_InjHandle, packets, cpu, dpc, phase, registered>>

ClearLimits ==
  /\ phase = "loaded"
  /\ thread["ioctl"] = Idle
  /\ Command
  /\ ThrottleClearAll
  /\ Flush("ioctl", EveryPid)
  /\ UNCHANGED <<s_Contexts, s_GlobalQueuedBytes, s_InjHandle, packets, cpu, dpc, phase, registered>>

(* CfProcessNotifyCallback: the counter is read before the lock is taken. *)
ProcessExit(pid) ==
  /\ "notify" \in registered
  /\ thread["notify"] = Idle
  /\ Command
  /\ s_ActiveCount # 0
  /\ thread' = [thread EXCEPT !["notify"] = [pc |-> "remove", target |-> pid]]
  /\ UNCHANGED <<tvars, s_Contexts, s_GlobalQueuedBytes, s_InjHandle, packets, cpu, dpc, phase, registered>>

RemoveLimitsOfExited ==
  LET pid == thread["notify"].target IN
  /\ thread["notify"].pc = "remove"
  /\ ThrottleRemoveByPid(pid)
  /\ IF SlotsOf(pid) # {} THEN Flush("notify", pid)
     ELSE thread' = [thread EXCEPT !["notify"] = Idle]
  /\ UNCHANGED <<s_Contexts, s_GlobalQueuedBytes, s_InjHandle, packets, cpu, dpc, phase, registered,
                 commands>>

(* An outbound segment of a limited process takes tokens of the same entry.  Its
   callout may be given up too, so it may come until the table is cleared. *)
OutboundSegment(pid, n) ==
  /\ s_ActiveCount # 0
  /\ \E permitted \in BOOLEAN : ThrottleCheck(pid, TRUE, n, permitted)
  /\ UNCHANGED pvars
-----------------------------------------------------------------------------
(***************************************************************************)
(* DriverUnload.  It starts when no handle to the device is open, so no    *)
(* IOCTL is in progress.  A step that succeeds has waited for what it      *)
(* stops.  Two may fail: the exit callback is not removed, which is only   *)
(* logged, and a callout is not unregistered in 30 tries, because a flow   *)
(* keeps a context or a filter refers to it.  Unloading goes on all the    *)
(* same, and what is still registered is still called.                     *)
(***************************************************************************)
UnloadStep(from, to) == phase = from /\ phase' = to

UnregisterNotify ==
  /\ UnloadStep("loaded", "notify_off")
  /\ thread["ioctl"] = Idle
  /\ \/ thread["notify"] = Idle /\ registered' = registered \ {"notify"}
     \/ UNCHANGED registered
  /\ UNCHANGED <<tvars, s_Contexts, s_GlobalQueuedBytes, s_InjHandle, packets, cpu, dpc,
                 thread, commands>>

PacingStopTimer ==
  /\ UnloadStep("notify_off", "timer_off")
  /\ dpc = Idle
  /\ UNCHANGED <<tvars, s_Contexts, s_GlobalQueuedBytes, s_InjHandle, packets, cpu, dpc,
                 thread, registered, commands>>

(* Callouts unregistered without waiting for the classify calls in progress. *)
UnregisterCalloutsNoWait ==
  /\ UnloadStep("timer_off", "callouts_off")
  /\ registered' = registered \ {"inbound"}
  /\ UNCHANGED <<tvars, s_Contexts, s_GlobalQueuedBytes, s_InjHandle, packets, cpu, dpc,
                 thread, commands>>

(* A callout that is given up stays registered. *)
UnregisterCallouts ==
  /\ UnloadStep("timer_off", "callouts_off")
  /\ \/ (\A c \in Cpus : cpu[c] = Idle) /\ registered' = registered \ {"inbound"}
     \/ UNCHANGED registered
  /\ UNCHANGED <<tvars, s_Contexts, s_GlobalQueuedBytes, s_InjHandle, packets, cpu, dpc,
                 thread, commands>>

UnloadClearLimits ==
  /\ UnloadStep("callouts_off", "cleared")
  /\ ThrottleClearAll
  /\ Flush("unload", EveryPid)
  /\ UNCHANGED <<s_Contexts, s_GlobalQueuedBytes, s_InjHandle, packets, cpu, dpc,
                 registered, commands>>

(* PacingShutdown: drain again, then destroy the handles, which waits for the
   completion of every injection in progress. *)
PacingShutdown ==
  /\ UnloadStep("cleared", "draining")
  /\ thread["unload"] = Idle
  /\ Flush("unload", EveryPid)
  /\ UNCHANGED <<tvars, s_Contexts, s_GlobalQueuedBytes, s_InjHandle, packets, cpu, dpc,
                 registered, commands>>

DestroyHandles ==
  /\ UnloadStep("draining", "unloaded")
  /\ thread["unload"] = Idle
  /\ \A k \in DOMAIN packets : Place(k) # "injected"
  /\ s_InjHandle' = [f \in Families |-> FALSE]
  /\ UNCHANGED <<tvars, s_Contexts, s_GlobalQueuedBytes, packets, cpu, dpc, thread,
                 registered, commands>>

Unloaded == phase = "unloaded" /\ UNCHANGED vars

Tick == ClockTick /\ UNCHANGED pvars

Next ==
  \/ \E c \in Cpus :
       \/ \E pid \in Procs, n \in Sizes, f \in Families : Arrive(c, pid, n, f)
       \/ PacingPidHasHeld(c) \/ FastPath(c)
       \/ HoldFails(c) \/ HoldRefused(c) \/ Hold(c)
  \/ DpcStart \/ DpcHead \/ DpcScanDone \/ DpcInject
  \/ \E k \in DOMAIN packets : PacingInjectComplete(k)
  \/ \E t \in Threads : FlushTake(t) \/ FlushInject(t) \/ FlushDone(t)
  \/ \E pid \in Pids, l \in Limits : SetLimit(pid, l[1], l[2])
  \/ ClearLimits
  \/ \E pid \in Procs : ProcessExit(pid)
  \/ RemoveLimitsOfExited
  \/ \E pid \in Procs, n \in OutSizes : OutboundSegment(pid, n)
  \/ UnregisterNotify \/ PacingStopTimer \/ UnregisterCallouts
  \/ UnloadClearLimits \/ PacingShutdown \/ DestroyHandles \/ Unloaded
  \/ Tick

Spec == Init /\ [][Next]_vars

(***************************************************************************)
(* Fairness.  A processor finishes the classify, DPC, completion and       *)
(* handler it runs, the periodic timer keeps firing, the clock advances,   *)
(* and an unload that has begun goes on.  The steps that need the hold     *)
(* lock are strongly fair: the lock is held for microseconds of every      *)
(* millisecond and a waiting processor spins for it.                       *)
(***************************************************************************)
ClassifyStep(c) == PacingPidHasHeld(c) \/ FastPath(c) \/ HoldFails(c) \/ HoldRefused(c) \/ Hold(c)
DpcStep == DpcStart \/ DpcHead \/ DpcScanDone \/ DpcInject
FlushStep(t) == FlushTake(t) \/ FlushInject(t) \/ FlushDone(t)
UnloadProgress == PacingStopTimer \/ UnregisterCallouts \/ UnloadClearLimits
                  \/ PacingShutdown \/ DestroyHandles

Fairness ==
  /\ \A c \in Cpus : SF_vars(ClassifyStep(c))
  /\ WF_vars(DpcStep)
  /\ \A t \in Threads : SF_vars(FlushStep(t))
  /\ WF_vars(RemoveLimitsOfExited)
  /\ \A k \in 1 .. MaxPackets : WF_vars(k \in DOMAIN packets /\ PacingInjectComplete(k))
  /\ SF_vars(UnloadProgress)
  /\ WF_vars(Tick)

FairSpec == Spec /\ Fairness
-----------------------------------------------------------------------------
Packets == DOMAIN packets
BatchOf(actor) == IF actor.pc = "inject" \/ actor.pc = "scan" THEN actor.batch ELSE <<>>

(* The three paths that take packets off the queues (the timer DPC, the flush
   of one process and the drain of all) and the one that adds them keep the
   counters equal to what is queued, and the memory held within both limits.
   The counters are unsigned: one that ran low would wrap and refuse every
   packet for good. *)
HeldBytesExact ==
  /\ \A i \in Contexts :
       /\ s_Contexts[i].PacketCount = Len(s_Contexts[i].Queue)
       /\ s_Contexts[i].QueuedBytes = TotalBytes(s_Contexts[i].Queue)
       /\ s_Contexts[i].QueuedBytes <= PACING_PID_HOLD_LIMIT
  /\ s_GlobalQueuedBytes = FoldFunction(+, 0, [i \in Contexts |-> s_Contexts[i].QueuedBytes])
  /\ s_GlobalQueuedBytes <= PACING_GLOBAL_HOLD_LIMIT

(* Every packet in the driver has exactly one owner: the classify that handles
   it, the queue that holds it, or the DPC or thread whose batch it is in.  Two
   owners would inject and free it twice, none would leak its clone.  A process
   has one queue: with two, packets of one flow would be released side by side. *)
OneOwner ==
  /\ \A i, j \in Contexts : s_Contexts[i].InUse /\ s_Contexts[j].InUse
                            /\ s_Contexts[i].ProcessId = s_Contexts[j].ProcessId => i = j
  /\ \A k \in Packets :
    LET owners == {<<"cpu", c>> : c \in {c \in Cpus : cpu[c] # Idle /\ cpu[c].pkt = k}}
             \cup {<<"queue", p>> : p \in {p \in Contexts \X (1 .. MaxPackets) :
                     p[2] \in DOMAIN s_Contexts[p[1]].Queue /\ s_Contexts[p[1]].Queue[p[2]] = k}}
             \cup {<<"dpc", j>> : j \in {j \in DOMAIN BatchOf(dpc) : dpc.batch[j] = k}}
             \cup {<<"thread", p>> : p \in {p \in Threads \X (1 .. MaxPackets) :
                     p[2] \in DOMAIN BatchOf(thread[p[1]]) /\ thread[p[1]].batch[p[2]] = k}}
    IN  Cardinality(owners) = IF Place(k) \in {"classify", "held", "batch"} THEN 1 ELSE 0

(* A packet that is held, about to be injected or being injected has its
   injection handle: no DPC, flush or completion outlives DriverUnload's
   PacingShutdown, and nothing is held when the driver image goes away.  Only
   what could not be unregistered is beyond it: a classify of a callout that was
   given up may end up with its packet in a queue that is no longer drained, and
   an exit callback that was not removed with a batch it can no longer inject.
   Even then no packet is in the stack without its handle. *)
HandleOutlivesPackets ==
  \A k \in Packets : Place(k) \in {"classify", "held", "batch", "injected"} =>
    \/ s_InjHandle[packets[k].family]
    \/ /\ phase = "unloaded"
       /\ \/ Place(k) \in {"classify", "held"} /\ "inbound" \in registered
          \/ Place(k) = "batch" /\ "notify" \in registered

(* A packet never goes ahead of one of its process that its own processor
   classified earlier and that is still in the queue: the fast path looks at
   the queue before it asks for tokens, and queues are emptied from the head. *)
NoOvertakingHeld ==
  [][\A k \in Packets : Place(k) # Place(k)' /\ Place(k)' \in {"done", "batch"}
                        /\ Place(k) \in {"classify", "held"} =>
       \A j \in Packets : j < k /\ Pid(j) = Pid(k) /\ packets[j].cpu = packets[k].cpu
                          => Place(j)' # "held"]_vars

(* Every packet that enters the driver leaves it: released by the DPC when its
   tokens have accumulated, by the flush of a removed limit, or by unloading;
   or dropped.  None is held for ever, whatever happens to the limits while it
   is on its way into the queue, except behind the last drain of an unload that
   has given up the callout. *)
Stranded(k) == phase = "unloaded" /\ "inbound" \in registered /\ Place(k) = "held"

EveryPacketLeaves ==
  \A k \in 1 .. MaxPackets :
    (k \in Packets /\ Place(k) \in {"classify", "held", "batch", "injected"})
      ~> (k \in Packets /\ (Place(k) \in {"done", "dropped"} \/ Stranded(k)))
=============================================================================
