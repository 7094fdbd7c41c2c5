----------------------------- MODULE FlowTable -----------------------------
(***************************************************************************)
(* Byte counting per TCP flow and the attribution of flows to processes    *)
(* (driver/src/flow.c with its callers in wfp.c).                          *)
(*                                                                         *)
(* A context counts the bytes of one flow.  It is allocated when the flow  *)
(* is established, or by the first stream segment that finds none,         *)
(* associated with the flow in the filtering engine and then entered in    *)
(* the driver's registry.  The engine gives it back through FlowDeleteFn,  *)
(* which takes it off the registry, reports the bytes and frees it.        *)
(* Unloading walks the registry to give back every context and then        *)
(* unregisters the callouts.  A second table maps the addresses and ports  *)
(* of a connection to the process it was last recorded for.                *)
(*                                                                         *)
(* Actors: the processors that classify, the engine that ends flows and    *)
(* calls FlowDeleteFn, and the unload thread.  A critical section is one   *)
(* step.  The engine is external: it does not call FlowDeleteFn for a      *)
(* context while a classify it handed that context to is running (the      *)
(* driver counts no references, and says so where it reads the counters),  *)
(* refuses to unregister a callout that has contexts or a classify in      *)
(* progress, and a flow may end while a classify that was given no context *)
(* runs.  IPv4 and IPv6 have callouts of their own that do the same.       *)
(***************************************************************************)
EXTENDS Integers, FiniteSets, FiniteSetsExt

CONSTANTS
  MAX_FLOW_REGISTRY,  \* slots of the registry
  MAX_TUPLE_ENTRIES,  \* slots of the tuple table
  SweepPasses,        \* passes of FlowRemoveAllContexts (3)
  UnregisterTries,    \* tries of UnregisterCalloutByIdChecked (30)
  Flows,              \* flow handles
  Missed,             \* flows that were open before the filters were installed
  Tuples,             \* addresses and ports
  TupleOf,            \* the tuple of each flow
  Pids,               \* processes
  PidOf,              \* what the metadata, or the current process, says when a flow is established
  Authorised,         \* <<tuple, process>> of the connections that are authorised
  Addrs,              \* where a context may be allocated
  Cpus,               \* processors that classify
  None,               \* no flow, no context, no tuple
  MaxTraffic          \* bound: connections authorised, flows established and ended, segments

ASSUME FlowAssumption ==
  /\ MAX_FLOW_REGISTRY \in Nat \ {0} /\ MAX_TUPLE_ENTRIES \in Nat \ {0, 1}
  /\ SweepPasses \in Nat \ {0} /\ UnregisterTries \in Nat \ {0}
  /\ TupleOf \in [Flows -> Tuples] /\ PidOf \in [Flows -> Pids] /\ 0 \notin Pids
  /\ Authorised \subseteq Tuples \X Pids
  /\ Missed \subseteq Flows /\ \A f, g \in Missed : f # g => TupleOf[f] # TupleOf[g]
  /\ None \notin Flows \cup Addrs \cup Tuples /\ None \notin [flow : Flows, bytes : Nat]
  /\ IsFiniteSet(Cpus) /\ IsFiniteSet(Addrs) /\ MaxTraffic \in Nat

VARIABLES
  s_FlowRegistry,  \* the registry of contexts
  s_TupleTable,    \* the tuple table
  s_TupleNext,     \* its slot to be overwritten next
  ctx,             \* the context allocated at each address
  callout,         \* s_CalloutIdStream # 0 and what the engine has registered
  flow,            \* engine: the state of each flow
  attached,        \* engine: the context associated with each flow
  deleting,        \* contexts the engine is giving back
  cpu,             \* what each processor's classify is doing
  unload,          \* how far UnregisterCallouts has got
  unreported,      \* history: bytes counted and not yet reported, per flow
  refused,         \* history: contexts that found the registry full
  races,           \* history: contexts given back before they were registered
  recorded,        \* history: the process last recorded for each tuple
  latest,          \* history: the tuple recorded last
  traffic          \* connections, flows and segments so far (bounds the model)

registry == <<s_FlowRegistry, refused, races>>
tuples == <<s_TupleTable, s_TupleNext, recorded, latest>>
vars == <<registry, tuples, unreported, ctx, callout, flow, attached, deleting, cpu, unload, traffic>>

Slots == 1 .. MAX_FLOW_REGISTRY
TupleSlots == 0 .. MAX_TUPLE_ENTRIES - 1
EmptySlot == [flow |-> None, ctx |-> None]
EmptyTuple == [tuple |-> None, pid |-> 0]
Idle == [pc |-> "idle"]
Callouts == {"stream", "established"}

(* Two flows that are open at the same time differ in their addresses or ports. *)
DistinctTuples ==
  \A f, g \in Flows : (f # g /\ flow[f] = "open" /\ flow[g] = "open") => TupleOf[f] # TupleOf[g]

(* The flow-established callout has missed the flows that are open at the start. *)
FlowInit ==
  /\ s_FlowRegistry = [i \in Slots |-> EmptySlot]
  /\ s_TupleTable = [i \in TupleSlots |-> EmptyTuple]
  /\ s_TupleNext = 0
  /\ ctx = [a \in Addrs |-> None]
  /\ callout = [known |-> TRUE, registered |-> Callouts]
  /\ flow = [f \in Flows |-> IF f \in Missed THEN "open" ELSE "new"]
  /\ attached = [f \in Flows |-> None]
  /\ deleting = {}
  /\ cpu = [c \in Cpus |-> Idle]
  /\ unload = [pc |-> "loaded"]
  /\ unreported = [f \in Flows |-> 0]
  /\ refused = {} /\ races = 0
  /\ recorded = [t \in Tuples |-> 0] /\ latest = None
  /\ traffic = 0

Unloaded == unload.pc = "unloaded"

Traffic == traffic < MaxTraffic /\ traffic' = traffic + 1

-----------------------------------------------------------------------------
(* The tuple table. *)

Matches(t) == {i \in TupleSlots : s_TupleTable[i].pid # 0 /\ s_TupleTable[i].tuple = t}

(* A record that never looks for an entry of the same tuple. *)
TupleSlotAlwaysNext(t) == s_TupleNext

TupleSlot(t) == IF Matches(t) = {} THEN s_TupleNext ELSE Min(Matches(t))

Advance(t) ==
  IF TupleSlot(t) = s_TupleNext THEN (s_TupleNext + 1) % MAX_TUPLE_ENTRIES ELSE s_TupleNext

FlowTupleRecordPid(t, pid) ==
  /\ s_TupleTable' = [s_TupleTable EXCEPT ![TupleSlot(t)] = [tuple |-> t, pid |-> pid]]
  /\ s_TupleNext' = Advance(t)
  /\ recorded' = [recorded EXCEPT ![t] = pid] /\ latest' = t

FlowTupleLookupPid(anyThrottle, t) ==
  IF anyThrottle /\ Matches(t) # {} THEN s_TupleTable[Min(Matches(t))].pid ELSE 0

(* An allowed TCP connection of a known process is recorded before it is
   established; it may never be. *)
RecordAuthorised(t, pid) ==
  /\ Traffic
  /\ FlowTupleRecordPid(t, pid)
  /\ UNCHANGED <<registry, unreported, ctx, callout, flow, attached, deleting, cpu, unload>>

-----------------------------------------------------------------------------
(* The registry. *)

FreeSlots == {i \in Slots : s_FlowRegistry[i].ctx = None}
SlotsOf(a) == {i \in Slots : s_FlowRegistry[i].ctx = a}

(* A full registry that gives up the entry of its first slot. *)
AddOverwrites(f, a) ==
  LET i == IF FreeSlots = {} THEN 1 ELSE Min(FreeSlots)
  IN  /\ s_FlowRegistry' = [s_FlowRegistry EXCEPT ![i] = [flow |-> f, ctx |-> a]]
      /\ UNCHANGED refused

FlowRegistryAdd(f, a) ==
  IF FreeSlots = {}
  THEN refused' = refused \cup {a} /\ UNCHANGED s_FlowRegistry
  ELSE /\ s_FlowRegistry' = [s_FlowRegistry EXCEPT ![Min(FreeSlots)] = [flow |-> f, ctx |-> a]]
       /\ UNCHANGED refused

FlowRegistryRemove(a) ==
  s_FlowRegistry' = [i \in Slots |-> IF SlotsOf(a) # {} /\ i = Min(SlotsOf(a))
                                     THEN EmptySlot ELSE s_FlowRegistry[i]]

-----------------------------------------------------------------------------
(* Classify at the flow-established and the stream layer. *)

ClassifyAt(layer, f, id) == [pc |-> "associate", layer |-> layer, flow |-> f, id |-> id]

(* FlowEstablishedCommon up to the allocation: the process is recorded first,
   and a stream callout that is not registered ends it.  *)
FlowEstablished(c, f) ==
  /\ "established" \in callout.registered
  /\ cpu[c] = Idle /\ flow[f] = "new" /\ Traffic
  /\ flow' = [flow EXCEPT ![f] = "open"] /\ DistinctTuples'
  /\ FlowTupleRecordPid(TupleOf[f], PidOf[f])
  /\ cpu' = [cpu EXCEPT ![c] = IF callout.known THEN ClassifyAt("established", f, TRUE)
                                                ELSE Idle]
  /\ UNCHANGED <<registry, unreported, ctx, callout, attached, deleting, unload>>

(* StreamThrottleCommon: the engine hands over the context the flow has. *)
StreamSegment(c, f) ==
  /\ "stream" \in callout.registered
  /\ cpu[c] = Idle /\ flow[f] = "open" /\ Traffic
  /\ cpu' = [cpu EXCEPT ![c] =
               IF attached[f] = None THEN ClassifyAt("stream", f, callout.known)
               ELSE [pc |-> "count", layer |-> "stream", flow |-> f, ctx |-> attached[f]]]
  /\ UNCHANGED <<registry, tuples, unreported, ctx, callout, flow, attached, deleting, unload>>

FlowCountStreamBytes(c) ==
  /\ cpu[c].pc = "count"
  /\ LET a == cpu[c].ctx
         f == cpu[c].flow
     IN  /\ ctx' = [ctx EXCEPT ![a].bytes = @ + 1]
         /\ unreported' = [unreported EXCEPT ![f] = @ + 1]
  /\ cpu' = [cpu EXCEPT ![c] = Idle]
  /\ UNCHANGED <<registry, tuples, callout, flow, attached, deleting, unload, traffic>>

(* FwpsFlowAssociateContext0 may succeed. *)
EngineAccepts(f, id) ==
  id /\ "stream" \in callout.registered /\ flow[f] = "open" /\ attached[f] = None

Associate(c, a) ==
  /\ cpu[c].pc = "associate" /\ ctx[a] = None
  /\ EngineAccepts(cpu[c].flow, cpu[c].id)
  /\ ctx' = [ctx EXCEPT ![a] = [flow |-> cpu[c].flow, bytes |-> 0]]
  /\ attached' = [attached EXCEPT ![cpu[c].flow] = a]
  /\ cpu' = [cpu EXCEPT ![c] = [pc |-> "register", layer |-> cpu[c].layer,
                                flow |-> cpu[c].flow, ctx |-> a, late |-> FALSE]]
  /\ UNCHANGED <<registry, tuples, unreported, callout, flow, deleting, unload, traffic>>

(* A refused context that is not freed. *)
RefusedLeaks(c) ==
  /\ cpu[c].pc = "associate"
  /\ cpu' = [cpu EXCEPT ![c] = Idle]
  /\ \E a \in Addrs : /\ ctx[a] = None
                      /\ ctx' = [ctx EXCEPT ![a] = [flow |-> cpu[c].flow, bytes |-> 0]]
  /\ UNCHANGED <<registry, tuples, unreported, callout, flow, attached, deleting, unload, traffic>>

(* No flow handle, no memory, or the engine refuses: what was allocated is
   freed again and the flow goes on without a context. *)
NotAssociated(c) ==
  /\ cpu[c].pc = "associate"
  /\ cpu' = [cpu EXCEPT ![c] = Idle]
  /\ UNCHANGED <<registry, tuples, unreported, ctx, callout, flow, attached, deleting, unload, traffic>>

Register(c) ==
  /\ cpu[c].pc = "register"
  /\ FlowRegistryAdd(cpu[c].flow, cpu[c].ctx)
  /\ cpu' = [cpu EXCEPT ![c] = Idle]
  /\ UNCHANGED <<races, tuples, unreported, ctx, callout, flow, attached, deleting, unload, traffic>>

-----------------------------------------------------------------------------
(* Contexts that are given back. *)

(* The engine takes the contexts of the flows fs off them. *)
GiveBack(fs) ==
  /\ attached' = [f \in Flows |-> IF f \in fs THEN None ELSE attached[f]]
  /\ deleting' = deleting \cup {[ctx |-> attached[f], flow |-> f, pc |-> "owed"] :
                                f \in {g \in fs : attached[g] # None}}

FlowEnds(f) ==
  /\ flow[f] = "open" /\ Traffic
  /\ flow' = [flow EXCEPT ![f] = "ended"]
  /\ GiveBack({f})
  /\ UNCHANGED <<registry, tuples, unreported, ctx, callout, cpu, unload>>

InUse(a) == \E c \in Cpus : cpu[c].pc = "count" /\ cpu[c].ctx = a

(* The classify calls that have associated the context a and have yet to
   register it. *)
Registering(a) == {c \in Cpus : cpu[c].pc = "register" /\ cpu[c].ctx = a /\ ~cpu[c].late}

(* FlowDeleteFn up to the registry. *)
DeleteRemoves(d) ==
  /\ d.pc = "owed" /\ ~InUse(d.ctx)
  /\ FlowRegistryRemove(d.ctx)
  /\ deleting' = (deleting \ {d}) \cup {[d EXCEPT !.pc = "removed"]}
  /\ races' = races + Cardinality(Registering(d.ctx))
  /\ cpu' = [c \in Cpus |-> IF c \in Registering(d.ctx) THEN [cpu[c] EXCEPT !.late = TRUE]
                            ELSE cpu[c]]
  /\ UNCHANGED <<refused, tuples, unreported, ctx, callout, flow, attached, unload, traffic>>

(* A close event only for what the registry knew. *)
ReportsRegistered(d) ==
  /\ d.pc = "removed"
  /\ unreported' = IF d.ctx \in refused THEN unreported
                   ELSE [unreported EXCEPT ![d.flow] = @ - ctx[d.ctx].bytes]
  /\ ctx' = [ctx EXCEPT ![d.ctx] = None]
  /\ deleting' = deleting \ {d}
  /\ refused' = refused \ {d.ctx}
  /\ UNCHANGED <<s_FlowRegistry, races, tuples, callout, flow, attached, cpu, unload, traffic>>

(* The rest of FlowDeleteFn. *)
DeleteReports(d) ==
  /\ d.pc = "removed"
  /\ unreported' = [unreported EXCEPT ![d.flow] = @ - ctx[d.ctx].bytes]
  /\ ctx' = [ctx EXCEPT ![d.ctx] = None]
  /\ deleting' = deleting \ {d}
  /\ refused' = refused \ {d.ctx}
  /\ UNCHANGED <<s_FlowRegistry, races, tuples, callout, flow, attached, cpu, unload, traffic>>

-----------------------------------------------------------------------------
(* UnregisterCallouts. *)

Sweep(pass, i, found) == [pc |-> "sweep", pass |-> pass, slot |-> i, found |-> found]
Unregister(which, tries, gaveUp) ==
  [pc |-> "unregister", which |-> which, tries |-> tries, gaveUp |-> gaveUp]

(* After a slot: the next one, the next pass, or the callouts. *)
AfterSlot(pass, i, found) ==
  IF i < MAX_FLOW_REGISTRY THEN Sweep(pass, i + 1, found)
  ELSE IF found /\ pass < SweepPasses THEN Sweep(pass + 1, 1, FALSE)
  ELSE Unregister("stream", 0, FALSE)

StartUnload ==
  /\ unload.pc = "loaded"
  /\ unload' = Sweep(1, 1, FALSE)
  /\ UNCHANGED <<registry, tuples, unreported, ctx, callout, flow, attached, deleting, cpu, traffic>>

(* FlowRemoveAllContexts takes a slot under the lock. *)
TakeSlot ==
  /\ unload.pc = "sweep"
  /\ LET entry == s_FlowRegistry[unload.slot]
     IN  unload' = IF entry.ctx = None THEN AfterSlot(unload.pass, unload.slot, unload.found)
                   ELSE [pc |-> "remove", pass |-> unload.pass, slot |-> unload.slot,
                         flow |-> entry.flow]
  /\ s_FlowRegistry' = [s_FlowRegistry EXCEPT ![unload.slot] = EmptySlot]
  /\ UNCHANGED <<refused, races, tuples, unreported, ctx, callout, flow, attached, deleting, cpu, traffic>>

(* FwpsFlowRemoveContext0, which finds nothing if the flow has no context. *)
RemoveContext ==
  /\ unload.pc = "remove"
  /\ GiveBack({unload.flow})
  /\ unload' = AfterSlot(unload.pass, unload.slot, TRUE)
  /\ UNCHANGED <<registry, tuples, unreported, ctx, callout, flow, cpu, traffic>>

CalloutBusy(which) ==
  \/ \E c \in Cpus : cpu[c] # Idle /\ cpu[c].layer = which
  \/ which = "stream" /\ (deleting # {} \/ \E f \in Flows : attached[f] # None)

AfterCallout(which, gaveUp) ==
  IF which = "stream" THEN Unregister("established", 0, gaveUp)
  ELSE [pc |-> "unloaded", gaveUp |-> gaveUp]

UnregisterSucceeds ==
  /\ unload.pc = "unregister" /\ ~CalloutBusy(unload.which)
  /\ callout' = [known |-> callout.known /\ unload.which # "stream",
                 registered |-> callout.registered \ {unload.which}]
  /\ unload' = AfterCallout(unload.which, unload.gaveUp)
  /\ UNCHANGED <<registry, tuples, unreported, ctx, flow, attached, deleting, cpu, traffic>>

(* A failed try taken for a success. *)
IgnoresFailure ==
  /\ unload.pc = "unregister"
  /\ unload' = AfterCallout(unload.which, unload.gaveUp)
  /\ callout' = [callout EXCEPT !.known = @ /\ unload.which # "stream"]
  /\ UNCHANGED <<registry, tuples, unreported, ctx, flow, attached, deleting, cpu, traffic>>

(* A try that fails: the engine begins to give back contexts of the callout,
   not always all of them.  The last one leaves the callout registered and
   forgets its id. *)
UnregisterFails ==
  /\ unload.pc = "unregister"
  /\ IF unload.which = "stream"
     THEN \E fs \in SUBSET {f \in Flows : attached[f] # None} : GiveBack(fs)
     ELSE UNCHANGED <<attached, deleting>>
  /\ IF unload.tries + 1 < UnregisterTries
     THEN unload' = [unload EXCEPT !.tries = @ + 1] /\ UNCHANGED callout
     ELSE /\ unload' = AfterCallout(unload.which, TRUE)
          /\ callout' = [callout EXCEPT !.known = @ /\ unload.which # "stream"]
  /\ UNCHANGED <<registry, tuples, unreported, ctx, flow, cpu, traffic>>

-----------------------------------------------------------------------------
Steps ==
  \/ \E conn \in Authorised : RecordAuthorised(conn[1], conn[2])
  \/ \E f \in Flows : FlowEnds(f)
  \/ \E c \in Cpus, f \in Flows : FlowEstablished(c, f) \/ StreamSegment(c, f)
  \/ \E c \in Cpus : FlowCountStreamBytes(c) \/ NotAssociated(c) \/ Register(c)
  \/ \E c \in Cpus, a \in Addrs : Associate(c, a)
  \/ \E d \in deleting : DeleteRemoves(d) \/ DeleteReports(d)
  \/ StartUnload \/ TakeSlot \/ RemoveContext \/ UnregisterSucceeds \/ UnregisterFails

(* Once unloaded, the driver takes no more steps. *)
FlowNext == ~Unloaded /\ Steps

FlowSpec == FlowInit /\ [][FlowNext]_vars

-----------------------------------------------------------------------------
(* Properties. *)

Owners(a) ==
  {<<"flow", f>> : f \in {g \in Flows : attached[g] = a}}
    \cup {<<"deletion", d>> : d \in {e \in deleting : e.ctx = a}}

(* A context has one owner as long as it is allocated, its flow or the
   FlowDeleteFn that will free it, so it is freed once and never lost; and no
   stream classify counts into a context that was freed. *)
ContextHasOneOwner ==
  /\ \A a \in Addrs : Cardinality(Owners(a)) = IF ctx[a] = None THEN 0 ELSE 1
  /\ \A c \in Cpus : cpu[c].pc = "count" => ctx[cpu[c].ctx] # None

(* What the stream callout counted for a flow is in its close events or in a
   context that will be reported, each byte once, whichever way the contexts
   of the flow were given back (FlowDeleteFn's four callers). *)
EveryByteReported ==
  \A f \in Flows :
    unreported[f] = MapThenSumSet(LAMBDA a : ctx[a].bytes,
                                  {a \in Addrs : ctx[a] # None /\ ctx[a].flow = f})

Stale(entry) ==
  /\ entry.ctx # None
  /\ attached[entry.flow] # entry.ctx
  /\ ~\E d \in deleting : d.ctx = entry.ctx /\ d.flow = entry.flow /\ d.pc = "owed"

(* Until unloading begins, the context of a flow is in the registry under its
   handle, unless its classify has not come to FlowRegistryAdd yet or the
   registry was full: so FlowRemoveAllContexts reaches it, also when the
   context's address belonged to another flow before.  A slot is lost to a
   context that was freed only when the context was given back between
   FwpsFlowAssociateContext0 and FlowRegistryAdd, one for each time that
   happened. *)
RegistryComplete ==
  /\ unload.pc = "loaded" =>
       \A f \in Flows :
         \/ attached[f] = None
         \/ attached[f] \in refused
         \/ \E c \in Cpus : cpu[c].pc = "register" /\ cpu[c].flow = f /\ cpu[c].ctx = attached[f] /\ ~cpu[c].late
         \/ \E i \in Slots : s_FlowRegistry[i] = [flow |-> f, ctx |-> attached[f]]
  /\ Cardinality({i \in Slots : Stale(s_FlowRegistry[i])}) <= races

(* When every callout was unregistered, unloading leaves nothing behind: no
   context allocated, none the engine could still give back to a driver that
   is gone, and no processor in a classify. *)
UnloadClean ==
  (Unloaded /\ ~unload.gaveUp) =>
    /\ \A a \in Addrs : ctx[a] = None
    /\ \A f \in Flows : attached[f] = None
    /\ deleting = {}
    /\ \A c \in Cpus : cpu[c] = Idle

(* A segment of a connection is charged to the process recorded last for its
   addresses and ports, or to none: a port that is used again does not inherit
   the process it had before.  The connection recorded last is still found
   after the next one is recorded, even when it was recorded into the slot that
   was to be overwritten next (FlowTupleRecordPid, FlowTupleLookupPid). *)
LookupIsLatest ==
  [][\A t \in Tuples : /\ FlowTupleLookupPid(TRUE, t)' \in {0, recorded'[t]}
                       /\ latest = t => FlowTupleLookupPid(TRUE, t)' # 0]_vars
=============================================================================
