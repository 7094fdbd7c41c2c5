# Ceasefire in TLA+

Ceasefire is a host firewall for Windows: a kernel driver that classifies
connections and paces traffic (`src/driver`), a service that keeps rules, limits
and logs and tells the driver what to do (`src/service`), and a GUI that talks to
the service over a named pipe (`src/gui`).  This directory models the parts of it
that decide: what the driver does with a connection or a packet while its tables
change, whether what the service writes to its database arrives in the driver
and is in force while the service starts, stops and dies, and whether what the
driver reports arrives in the log, in the history and before the user.

Modules end in `.tla`; a module `MC*` with its `.cfg` files is an instance for
TLC; a module `*_proofs` holds theorems for TLAPS.  `PROJECT.json` maps every
definition to source lines and lists runs, mutants, theorems and hazards.

## 1. The system

| part | state | operations | talks to |
|---|---|---|---|
| kernel event rings (`events.c`) | two rings, head, tail, a lock each | queue, get | classify calls write, the service polls by IOCTL |
| throttle table (`throttle.c`) | 256 buckets, a counter read without the lock | set, remove, clear, check, refill | classify calls and the pacing DPC charge; IOCTLs and process exits change |
| pacing (`pacing.c`, `wfp.c`) | queues of held packets, byte counts, injection handles, a 1 ms timer | hold, release, flush, drain | throttle table; the network stack |
| rule list (`rules.c`) | a list sorted by priority, under a spin lock | add, update, remove, clear, match | IOCTLs change, classify calls match |
| authorisation (`wfp.c`) | the default policy, no lock | classify | rule list, event ring, tuple table |
| flow contexts (`flow.c`, `wfp.c`) | registry of contexts, tuple table | associate, delete, unregister | WFP |
| driver entry and unload (`driver.c`) | order of initialisation and of teardown | load, IOCTL dispatch, unload | all of the above |
| rule manager (`rule/manager.rs`) | none of its own: database and driver | create with merging, update, delete, enable, disable, reload | database, driver handle, domain engine, groups |
| rule coverage and conversion (`rule/manager.rs`, `driver/converter.rs`) | none | matchset_covers, from_rule | rule manager, driver |
| bandwidth synchronisation (`bandwidth/kernel_sync.rs`) | path limits, global limit, record of what was pushed to which PID | sync_event, update_path_limit, update_global, clear_kernel | event processor, IPC handlers, driver |
| groups (`app_group`) | members, enabled flags in the database | add, remove, switch, synchronise predefined groups | rule manager reloads |
| domain engine (`rule/domain_expander.rs`), DNS cache | ledger of shadow rules per rule and address, expiry | expand, expire, revoke, resync | DNS events, rule manager, driver |
| event processor, log buffer (`event`) | bounded buffer, three tasks that flush it | poll, add, flush | driver, database, and everything below |
| connection tracker, statistics, history (`connection`, `network_history`) | connection table, baseline of recorded bytes | event, statistics, snapshot, close, clean-up | event processor, the system's tables, database |
| notifications (`notification`) | window of recent connections, bounded queue | announce, drain | event processor, IPC server |
| WFP engine and filters (`wfp`) | callouts and filters per layer, ids of this session, kill switch | register, add, sweep, unregister | filtering engine |
| system rules (`rule/system_rules.rs`), settings (`ipc/handler.rs`) | rows of the database | install, migrate, remove; save and push | rule manager, driver, WFP |
| IPC server (`ipc`) | a listener, one task per client | accept, read, dispatch, write, stop | every manager |
| service life cycle (`service`) | running flag, tasks | start, stop, cancel, crash, restart, uninstall | everything |
| GUI client (`gui/src-tauri/src/ipc.rs`) | one connection under a lock, a worker thread per call | call, time out, cancel, poll | IPC server |
| import (`rule/import_export.rs`) | none | merge, replace | rule manager |
| GeoIP, windows and tray of the GUI, packaging | read-only data, presentation, scripts | | |

What makes it hard:

* **Concurrency in the driver.** Classify calls run on every processor at
  DISPATCH_LEVEL, beside a timer DPC, IOCTL threads, the process-exit callback,
  injection completions and the unload thread.  Critical sections are short, and
  decisions are made across several of them.
* **Concurrency in the service.** Every IPC client has its own task and the event
  processor its own loop.  A request is a sequence of awaits (database calls and
  IOCTLs) and nothing is locked across them; only a single IOCTL is atomic
  (`DriverHandle::io_gate`).
* **Failure.** Any database call or IOCTL may fail between two steps of a
  request; the service may die while the driver stays loaded with its tables.
* **Limits.** Rings, tables, queues and lists are of fixed size, and token
  arithmetic wraps in 64 bits.

## 2. Plan

Built in this order: event rings, throttle table and its rate, pacing, rule list,
authorisation, flow contexts and tuple table, bandwidth synchronisation, rule
coverage, rule manager; then the event pipeline, traffic history, domain rules,
WFP filters and the service that composes them, notifications and the GUI's
client, import, and the numbering of the driver's entries.

The proofs followed: rings, table, rate, rule list and verdicts; then the client,
coverage, pipeline, global limit, service, flow contexts, domain rules, the
queues of `Pacing`, the accounts of `TrafficHistory` and the requests, the reload and
the merges of `RuleManager`.  What would come next:

1. Stored decisions and DNS look-ups for display, if a decision ever comes to
   depend on them.
2. Liveness, where a prover for it is at hand; every other property has its theorem.

## 3. Modules

**`DropOldestFifo`, `EventQueue`** (`events.c`).  The rings with their indices;
a write to a full ring first moves the tail.  `EventQueue` implements the queue
of `DropOldestFifo`, which keeps the newest `EVENT_QUEUE_SIZE - 1` events, under
the mapping that reads the unread slots in order.  An event is a model value.

**`Throttle`** (`throttle.c`).  Slots with rates, tokens and the age of
`LastRefill`; every function is one critical section.  The product
`rate * elapsed` is taken `% U64`.  **`RateBound`** puts beside every bucket the
ideal token bucket of its limit, in bytes times ticks, so that no fraction is
lost, and lets it pay for whatever `ThrottleCheck` passes.

**`Pacing`** (`pacing.c`, `ThrottleClassify` in `wfp.c`, `driver.c`).  A classify
call is several steps (queue test, token test, hold); the DPC takes the throttle
lock per packet inside the hold lock, then injects outside it; the flush after a
removed limit, the exit callback and the drain at unload are threads of their
own; `phase` is how far `DriverUnload` has got, and `registered` which callbacks the
system still calls: the callout is given up after 30 tries and the process
notification may refuse to go, and the unload goes on.  A packet is its arrival
number, with a size and a place.

**`RuleTable`** (`rules.c`), **`DriverMatch`** (the conditions of `MatchRules`)
and **`AleAuth`** (`ProcessAleAuth`): the search under the lock and the read of
the default policy after it are two steps, and IOCTLs come between them.
`AleAuth` composes the other two.  Paths are short sequences of characters, cut
as the driver cuts them; an address is the set of its one-bits.

**`FlowTable`** (`flow.c`, with `FlowEstablishedCommon`, `StreamThrottleCommon`
and `UnregisterCallouts` of `wfp.c`).  A context is associated with its flow and
registered in two steps of a classify call; `FlowDeleteFn` is two steps, the
removal from the registry and the report with which it frees the context; the
unload thread sweeps the registry slot by slot and then tries to unregister the
callouts.  Addresses of freed contexts are used again.  The filtering engine is
external: it ends flows, hands contexts to stream classify calls, gives contexts
back (not while a classify call holds one: the driver counts no references, see
`flow.c:222`) and refuses to unregister a callout in use.  It may end a flow
while a classify call that was given no context is running, and
`FwpsFlowRemoveContext0` may return before `FlowDeleteFn` does.  The tuple table
is in the same module because the same classify calls write it.

**`KernelSync`** (`kernel_sync.rs`, `bandwidth/mod.rs`, parts of `handler.rs` and
`firewall_service.rs`).  `sync_event` is lookup, push and record; a request is
its sequence of locks and IOCTLs; processes start and exit; the service stops,
crashes and starts again.  Paths have several spellings with one normal form.

**`EventPipeline`** extends `EventQueue` by what reads the rings
(`event/processor.rs`, `event/buffer.rs`, `stop` in `firewall_service.rs`): the
processor, the flusher and the stop path each drain the log buffer under its lock
and write what they took without it.  The handle may be closed under the
processor, a write may fail, and a write that `run_blocking` has begun ends by
itself after its task is gone (`LateWrite`).

**`TrafficHistory`** (`connection/tracker.rs`, `stats_collector.rs`,
`network_history/manager.rs`).  Processor, statistics and snapshots as tasks; a
step is what one lock holds together.  `cause` is history: why the account of a
key may be wrong.  The driver's ring and the connections are external here; the
ring is the abstract `DropOldestFifo`, which `EventQueue` implements.

**`DomainRules`** (`rule/domain_expander.rs`, the domain branches of
`rule/manager.rs`, the broadcast of `dns_cache.rs`).  The expander and a request
work on the ledger, step by step between its locks; `raced` is history: which
race or failure has met a rule's shadows.

**`WfpFilters`** (`wfp/`) is the state in the filtering engine and what each
function of the service does to it; **`Service`** composes it with the life cycle
(`firewall_service.rs`, `service_handler.rs`), the settings and limit requests,
`system_rules.rs` and the predefined groups.  `start` is one step per await, may
be cancelled between them and fails where the code returns; `tainted` is history:
which settings a failed call or an overlap may have left behind, and a start that
succeeds takes it back.

**`Client`** (`notification/`, `ipc/server.rs`, the GUI's `ipc.rs`).  A call has a
worker in the blocking pool, whose threads are used again; `thread` is what the
call's `CancelSlot` names.  A pipe has two ends, either of which may close;
listener and handlers are tasks of the service, which stops or dies at any step.

**`RuleIds`** holds the arithmetic of the driver's 32-bit ids, which the other
modules replace by tuples; it is only proved about, in `AleAuth_proofs`.

**`RuleCover`** (`matchset_covers` and helpers, `from_rule`), **`RuleCoverage`**
(pairs of rules: what the service concludes against what the driver does with
the two inputs) and **`RuleManager`** (`rule/manager.rs` with the database calls,
IOCTLs and group requests it is made of).  A step of `RuleManager` is one
database call or one IOCTL; `Fails` is the error path of each call, `Undo` the
rollback, `Clear` to `Load` the reload, `Restart` a crash followed by `start()`; the requests
of the clients interleave between any two steps, and `Observe` keeps as history
which of them have met.
An import lists the rules, deletes them one by one if it replaces them, by the
same steps as any deletion and whatever their outcome, and inserts its batch in
one transaction; names are left out, so a merge may skip any rule whose path is
present: `NotSkipped` is the choice of the positions that stay.  `Rule` is the record
of the fields that decide something; an optional field is a set of at most one.

## 4. Runs

| run | instance | shows |
|---|---|---|
| `event_pipeline` | rings of 3, 3 events of two kinds, buffer of 3, flush at 2, one failed write, under fairness | the rings are the drop-oldest FIFO; every event taken is logged once, the stop loses at most one, the buffer empties and the tasks end |
| `rate_bound` | 2 slots, global limit and one process, a clock long enough for a wrap | the unlocked counter is exact, one bucket per PID, no bucket above its capacity (`TableConsistent`), at most one capacity above the ideal bucket |
| `pacing` | 2 processors, 3 packets, 2 commands | counters exact and within limits, one queue per PID and one owner per packet, no packet without its injection handle at unload unless a callback could not be unregistered, no overtaking of queued packets |
| `pacing_live` | 1 processor, 2 processes, 2 packets, under fairness | every packet leaves, unless the unload has given up the callout |
| `ale_auth` | 3 rules of 4 ids, every condition of a rule | list sorted, capped, without duplicates (`ListWellFormed`) and in order of arrival; a verdict was the policy's at some moment |
| `flow_table` | 3 flows (two of them missed), 3 contexts, 2 slots of each table, 2 processors, 4 connections, openings, ends and segments | one owner per context; every byte reported; the registry complete, and a slot lost only in the race of association and deletion; a successful unload leaves nothing; attribution follows the latest record, which the next record does not overwrite |
| `kernel_sync` | 1 process, 2 spellings, 2 requests, 1 exit, 1 stop or crash, under fairness | the driver's global entry follows the setting; a configured limit arrives |
| `rule_manager` | 2 clients, 3 requests of every kind, imports of one and two rules among them, one group of two paths, any one call fails, crashes and restarts; and every pair of 156 rules that differ from a base in up to two fields | without a fault the driver holds exactly what the database calls for, and with one no enabled rule is missing, unless a reload is owed, was cut short or met another request, or two requests met at one rule; merging loses nothing; a reload that runs alone repairs everything if no call in it fails, and leaves gaps only if one does; a rule that covers another hits every connection of the other |
| `domain_rules` | a wildcard and an exact rule, 2 answers, 2 requests, 1 failed call, under fairness | ledger and driver agree and no shadow of an old form stays, except in the races named; every shadow expires |
| `traffic_history` | 1 key used twice, 2 bytes, 3 rounds of each task, 1 failed write or restart | no byte is counted twice or missed, except in the ways named |
| `service` | 2 clients, 2 requests, 2 starts, 1 failed call, a filter left by an earlier version, a skipped layer | the settings are in force and saved changes stay saved, the kill switch is what the settings say, stopping is clean, except after the overlaps and failures named |
| `client` | 2 calls or polls on two clients, 2 notifications, queue of 1, 1 end of the process | answers are the call's own; a cancellation strays only to a worker on a thread used again; notifications are given out once and shown in order; the listener stops unless it misses the wake-up |

Bounds.  The rings and tables are of the smallest size at which full, part full
and wrapped differ.  In `pacing` two packets of one process can be in the queue
or in a batch while a third is being classified, and two commands let a limit be
set and removed while this goes on.  In `flow_table` four events are
enough to end a flow before it is registered and use its address again, to find
the registry full and count bytes into the context it refused, or to refresh the
tuple that was to be overwritten next and record another; the sweep
has two passes and unregistration two tries, so that each is repeated and given
up.  Its symmetry is that of processors, of addresses and of the two missed
flows, which no property names.  In `rule_manager` three requests are enough to
create a rule and have two others meet over it, to put one in a group and change
its members, or to crash in between; a third request does not begin beside the
second of two that have met (`TwoAtATime`).  In `event_pipeline` three events fill the ring, start a flush
and leave one behind; in `traffic_history` two bytes and two uses of a key let one
be counted before and one after a snapshot, by either connection; in
`domain_rules` a shadow lives one tick, so that expiry meets a second answer and
two requests; in `service` two requests overlap in every order, and two starts
let a crash be followed by a start that meets what it left; in `client` two calls
contend for one lock and one pool thread.  Symmetry is of clients in `service`, of
calls and polls in `client`, of clients in `rule_manager`, which no property tells
apart.  The service's
cap on rules in the driver is not reached in `rule_manager`: a
refused rule and a failed rollback are two failures, and the code, like
`NoMissingRule`, reckons with one.  `CHECK_DEADLOCK FALSE` stands where the bound
on requests ends a behaviour.

Fairness.  In `EventPipeline`: processor, flusher, a stop once begun and writes
already begun go on (weak: tokio tasks that are ready are polled; nothing obliges
a stop to begin).  In `DomainRules`: time passes, the expander and a request go on
(weak).  In `Pacing`: the timer DPC and the completion of injections (weak: a
periodic timer, and the stack completes what it takes), classify calls, flushes
and unloading (strong: they wait for spin locks, which a processor obtains if it
keeps trying), the process-exit callback and time (weak).  In `KernelSync`: every
task that can go on does (weak, the tokio scheduler), and a live process keeps
having connection events that carry its path (strong: it is the path's events
that synchronise its limit; if there are none, there is nothing to limit).

## 5. Proofs

TLAPS proves the following for every value of the constants that satisfies the
named `ASSUME`s.  Each invariant was first checked with TLC on the instance of
the component's run; the prover then needs it to be inductive, and what each adds
to the properties is the knowledge that the code relies on between its locks.

**`Pacing_proofs`** (throttle table, rate and held packets).  `ThrottleSafety`: the counter,
the uniqueness of PIDs and the capacity are inductive together, since an update
finds the slot by PID and a second slot with the PID would break the capacity of
the first.  `RateEnforced`: `OverdraftBounded` is not inductive; what a bucket may
still let through is its tokens and what its age is worth, up to one more
capacity.  `Covered` says that the ideal balance and one capacity cover that
worth; a refill never gains worth (it rounds down, and a wrapped product is only
smaller), a charge pays it, and a tick adds the rate to both.

For the held packets the same module has `PacingInv`.  A packet is where its owner
says: the packets at the classify, in the queues and in the batches are three sets,
each the union of what its owners have, and no two owners share one (`Owned`); a
process has one queue, with its packets in the order of each processor (`Queues`); the
counters are those sums (`Counted`); a processor works on its latest packet, and one
that is about to ask for tokens has nothing of that process queued (`Latest`: this is
what `PacingPidHasHeld` establishes, and it still holds when the tokens are asked for
because only that processor could queue such a packet); and what each step of
`DriverUnload` has stopped stays stopped, where it got the callback unregistered
(`Stopped`).  From it `HeldBytes`, `OwnedOnce`,
`HandlesOutlivePackets` (with the callbacks that could not be unregistered as the
exception it names) and the action property `HeldInOrder`.  A step is described by
the sets of packets it moves, so that the DPC and the three kinds of flush share one
lemma for taking a batch (`TakenKeeps`) and every departure another (`LeftKeeps`).
The sums are folds, which CHOOSE their recursive function; that they may be taken in
any order is shown on a smallest set that would be summed otherwise (`SumSplit`).
`PacingTableSafe`: every step is a step of the table or leaves it
(`PacingUsesTable`), so `TableConsistent` holds with pacing around the table.

**`AleAuth_proofs`** (rule list, verdicts, ids, and the events).  `RuleListSafety` by
`ListInv` (the list is sorted and its ids distinct, which the insertion of a rule
after its removal needs) and `RuleListStable` for the order of arrival.  `VerdictSound`:
`AleInv` adds what a search that found nothing knows later: the default of that
moment was in force, or the default has been touched, and likewise for the rules.
That the first hit is a most urgent one needs the sorted list.

`IdsApart`, in the same module: direct rules, group members and shadows never share a
driver id while fewer than 2^18 rule ids have been given out, a group has at most
4096 members and fewer than 2^31 shadows were made; `FirstClash`: the first of
these bounds is sharp.  Within the bounds nothing wraps, and the three ranges are
disjoint.

The same module has the rings and the log.  `RingSafety` by `IInv`, the types with
"the slots between tail and head hold events"; `RingImplementsFifo` from it: a
write is a put, a read a take, because the slots of the unread events move by one
modulo the size.  `PipelineImplementsFifo`: a step of the pipeline does to the
rings what `EventQueue` allows.  `EveryEventCountedOnce` and `StopLosesOne` by
`PipelineInv`: events are numbered as they are reported (`Fresh`), a task holds a
batch only where it writes (`Batches`), the buffer never reaches the size at
which `add` would evict (`Room`: a flush is due before it is full, and only the
processor adds), every event taken is in one place of five (`Counted`), and what
each task has still to do once stop has begun (`Stopping`).

**`RuleManager_proofs`** (requests, reload and the driver's entries).  Nothing is
locked between the steps of a request, so `RequestsInv` says what any request can rely
on, whatever others do: ids are given out once (`Numbered`), which requests are alone
(`Alone`), that a reload under way is owed (`Owed`), what a reload that is alone has put
together so far: nothing beyond the expansion, and all of it while no read has failed
and nothing was skipped (`ReloadRight`), and that a request which
has its rule to itself has read the row as it is (`OwnRow`), beside what a request
carries at each step (`ManagerType`).  `RequestsInvariant` holds for any number of
clients, requests and failures, and `ReloadsHeal` follows from it; that members which
could not be read only make the expansion smaller is `LostMembers`.

At rest the driver is the expansion of the table because each rule by itself is: while
nothing is owed and no call has failed (`Calm`), the driver has for every rule what the
table calls for, unless one request is at work on the rule, and then the step it is at
says what is missing (`DriverFollows`; `Stage`: an `add` has an enabled row and no
entry, a `remove` an entry and a row that is gone or disabled).  A step of a request
changes one rule (`StepFollows`).  With failed calls the two may differ, and
`RulesPresent` keeps the half that matters: an enabled rule is in the driver, or a
request is about to add it, or to take its row back, and what it will put back is
disabled wherever the driver might have no entry (`Fallback`).  From these
`DriverStaysExpansion` and `OneFailureMissesNoRule`.

Their hypotheses name what the code does not do.  `DomainsKept`: no update gives a rule
a domain or takes it away (`manager.rs:395`, section 6); where no rule asked for has a
domain it always holds, which `PlainDriverIsExpansion` and `PlainRulesMissNone` use.
`Room`, that the driver is below its cap, and one failure at most: the driver refuses a
rule when it is full, and the rollback of the row may fail too, so a second
failure, or a full driver and one failure, can leave a rule in the table that is not in
force.  None of them limits how requests interleave or where the service crashes, and
the rules may have addresses, which those of the run `rule_manager` have not.

`CoveredIsDecided`, in the same module, needs no invariant beyond "both rules are
of the set", but a lemma for each field: a field that covers another applies
wherever the other does.  `CoverAssumption` gives the types of rules and
connections.  `MergingLosesNothing` carries this over to a creation step by step: a row
that is merged into decides what was asked for, and what it decided before is decided
by the rule asked for or still by the row, in the same way (`Merged`, for each of the
three kinds of merge by `MergesLoseNothing`).  `CreateRight` says how far a creation that
has met no other has come (`Making`): what it found in the driver is still there, the
row it has listed is still as it was, and the entry it is about to replace is that row's,
which is where `DriverFollows` and `OwnRow` are needed.  `Comparable` is the hypothesis of
`CoverSound`, of the rules that may be asked for: without zeros that the driver takes for
"any", and with a remote address all of them or none (`manager.rs:57`, section 6); a row has
the fields of a rule that was asked for, its action and its switch apart (`Stored`).
`Room` is needed because a full driver refuses the new rule, and the request fails.

**`DomainRules_proofs`** (shadows of domain rules).  `LedgerIsDriver` and
`ShadowsCurrent` speak of the moments when neither the expander nor a request is
at work, so `DomainInv` follows each shadow through their steps: an id is given
once and is not in the ledger while it is being taken back (`Numbered`); a shadow
being sent is in the ledger and not yet in the driver (`Pending`); what a reload
still has to send is in the ledger, and what is in the driver it has sent
(`Resync`); a shadow of the driver is in the ledger or about to be taken back, an
entry of the ledger in the driver or about to be sent (`DriverKnown`,
`LedgerSent`); and what was made from a row of the table is of the row as it is,
unless the rule is about to be revoked (`Current`).  Each part excepts the rules a
race or failure has met, so the theorems say that no other way leads to a
difference.

**`FlowTable_proofs`** (contexts and tuples).  `FlowInv`: a context and its owner
agree on the flow (`Owned`); a classify uses a context only while its flow keeps
it, which is what makes a driver without reference counts safe (`Held`); a context
has a slot, was refused one or is about to be entered (`Listed`); a set of slots
may be lost, no more than the races so far, and the others hold one context each
(`Surplus`); what is gone once the layer is unregistered (`Emptied`); a connection
has one slot and the latest is not the next to be overwritten (`Recorded`); and
the bytes counted are in the contexts (`Reported`).  From it `ContextsHaveOneOwner`,
`BytesAreReported`, `RegistryIsComplete`, `UnloadLeavesNothing` and the action
property `LookupsAreCurrent`.  The bytes are a fold over a set; that they may be
summed in any order (`BytesSplit`) is shown on a smallest set that would be summed
otherwise, from the well-foundedness of inclusion.

**`KernelSync_proofs`** (the global limit and the history).  `SyncInv`: an update that has read the
limit will push the limit of now, and requests end with the service (`Pushes`).
`GlobalLimitInForce` needs that two updates of the global limit do not overlap,
`OneReconfigures`, which is a hypothesis about the behaviour and not an assumption
on constants: without it the property is false for two clients (section 6).
`GlobalLimitOneClient` has no such hypothesis; it is the instance `kernel_sync`
checks.

The same module proves the accounts of `TrafficHistory`: `BytesCountedOnce` and
`NoBytesMissed`, by `HistInv`.  The connections of a key follow each other, and so
do their events in the ring and in hand (`InOrder`).  For each key there is a
function `total`, the bytes sent up to the end of each connection (`Totals`, so no
sum is needed), and a number `n`, the first connection whose Close is still due
(`First`).  What is recorded is at least the bytes of the connections before `n`
and the baseline (`AtLeast`), and at most that (`AtMost`): baseline, copy and table
may each be of connection `n` or still of an earlier one, in this order, and each
of the four cases (`AllCurrent`, `CopyCurrent`, `OnlyTableCurrent`, `NoneCurrent`)
says how much is to be added yet, with the sample the statistics task has taken
and not yet written (`Late`, `Coming`).  A Close moves `n` on; that the new `n` is
the least one due is by the well-foundedness of the numbers.

**`Service_proofs`** (settings in force).  The properties speak of a service at
rest, and `start` and a request put settings in force one by one, so for each
setting there is an invariant of what is half done: `KillFollows`, `LayersFollow`,
`LimitFollows`, `PolicyFollows`, `GroupsFollow`, `SystemFollows`, together with what
the life cycle (`Life`), the lock on requests (`OneAtATime`), the saved settings
(`Saved`) and the rows of system rules (`Once`) allow.  From it `SavedStaysSaved`,
`KillSwitchFollows`, `StopLeavesNothing`, `SettingsAreInForce`.

**`Client_proofs`** (calls, pipes and the listener).  `ClientInv`: one call at a
time has the lock of its client (`Turns`), one pipe at most is the connection
(`Connected`, `Single`), what is on the wire belongs to the call that has the lock
(`Wire`), which worker is on which thread (`Threads`, `Strays`), how a wake-up can be
missed (`Waits`) and which polls may still take notifications (`Tokens`,
`Undrained`).  From it `CallReadsOwnAnswer`, `CancelHitsOwn`, `ListenerSeesStop` and,
with the order of the queue, `NoNotificationTwice`.

Assumptions.  Sizes are positive; rates, sizes and ids are natural numbers; rule
inputs have the fields of `RULE_INPUT`; sets of processors, addresses, processes
and clients are finite where they are counted.  `None` and the like are no value
of the sets they mark the absence in.  `PipelineAssumption`: a flush is due at a
number of entries below the capacity (100 of 1000, `processor.rs:241`, `buffer.rs:15`).
`FilterAssumption`: the skip mask has no bit for the authorisation layers
(`filter.rs:921`).  `ServiceAssumption`: a user's rule has no system rule's name
(they carry a prefix, `system_rules.rs:18`).  `ManagerAssumption`: the rules asked for
have the fields of `Rule`, and not both a domain and an address (`validator.rs:94`
refuses them).  `DomainAssumption`: the broadcast
channel has room for an answer (tokio has no channel of size 0).

Only model-checked is liveness (`EveryPacketLeaves`, `LimitReachesKernel`,
`BufferEmpties`, `StopEnds`, `ShadowsExpire`), which is beyond the prover.  What a fold
computes is proved where the proofs need it; nothing else is proved by induction over
data.

## 6. Where code and comments differ

These were met with TLC on the models of section 3; each is what the code does
and a comment denies or does not reckon with.  The passing properties are stated
so that they hold beside it: either they exclude the case, or they name it.

Driver and limits:

* `pacing.c:355`: the DPC injects after it has dropped the lock, so a packet
  classified meanwhile passes ahead of its batch ("strict FIFO", `pacing.c:394`,
  `wfp.c:1501`).  `NoOvertakingHeld` speaks of queued packets.
* `pacing.c:544`: a refused packet leaves its new context in use and empty, so
  contexts run out without held traffic (`pacing.c:42`).
* `pacing.c:340`: a segment larger than the bucket is never released (`pacing.c:15`:
  "not one packet is lost").  `pacing_live` has no such segment.
* `wfp.c:453`: the callout is given up after 30 tries, and `driver.c:143` goes on; a
  classify that was already past the test of `pacing.c:454` may then hold its packet
  behind the last drain, where nothing releases it, or find no handle to inject with
  (`driver.c:137`: the handles are destroyed after everything was drained).  The same
  holds for the flush of a process whose exit callback could not be removed
  (`driver.c:127`).  `HandleOutlivesPackets` names both.
* `throttle.c:226`: refills of a fast direction restart the shared `LastRefill`, and
  a slow direction may never earn a token (`throttle.c:218`).  `pacing_live` limits
  one direction.
* `throttle.c:220`: a bucket that was full for a while sends two capacities in a
  burst (`throttle.c:30` says one).  `OverdraftBounded` allows one above.
* `kernel_sync.rs:217`: a switch that is on with both rates zero leaves the old
  global entry (`kernel_sync.rs:296`).
* `kernel_sync.rs:184`: two updates of the global limit that overlap set it in one
  order and may push in the other, and the driver keeps the older limit
  (`kernel_sync.rs:172`: the entry is pushed "right away").  `kernel_sync` has one
  client, and `GlobalLimitInForce` excludes the overlap.
* `kernel_sync.rs:197`: fallback entries recorded under a path survive the end of
  the global limit (`kernel_sync.rs:190`).
* `kernel_sync.rs:262`: an event without a path replaces the limit of the path by
  the global one (`kernel_sync.rs:247`).
* `kernel_sync.rs:280`: an event looked up before a limit is removed pushes and
  records it after the retraction (`kernel_sync.rs:146` says a removed limit does
  not keep throttling).
* `rules.c:326`: `0.0.0.0/0` and `::/0` hit both families (`validator.rs:49`).
* `converter.rs:135`: the network zone never reaches the driver (`manager.rs:20`).

Rules:

* `manager.rs:57`: a rule for one address is taken to cover a rule for any
  address, so a create may replace or drop the wider one (`manager.rs:121`: every
  connection hit by the narrow rule is hit by the broad one).  `CoverSound` is
  about rules with an address on both sides or on neither.
* `manager.rs:395`: a rule that is given a domain keeps its entry in the driver,
  and one that loses it gets none (`manager.rs:393`).
* `manager.rs:13`: nothing enforces the 4096 members of `manager.rs:10`; a rule with
  more shares ids between members, and rule ids from 2^18 on run into the shadows
  (`FirstClash`).
* `import_export.rs:183`: a replace deletes before it inserts, so a batch that
  fails, or a crash, leaves the user without the old rules (`import_export.rs:63`:
  no partial import).  An entry that could not be removed stays in the driver when
  nothing that is imported is enabled (`import_export.rs:194`).
* `domain_expander.rs:300`: a rule changed while its shadow is being sent leaves the
  shadow in the driver (`domain_expander.rs:9`: an edit withdraws all shadows at
  once), and a reload meanwhile parts ledger and driver (`domain_expander.rs:345`).
* `manager.rs:416`: two clients, one enabling and one disabling a rule, can leave
  it enabled in the database and absent from the driver (`manager.rs:329`); a
  create beside a reload that loads its row first is refused as a duplicate, rolls
  its row back and leaves the entry in the driver.  The properties excuse two
  requests at one rule (`raced`) and one beside a reload (`broken`).
* `manager.rs:854`: members of a group that cannot be read count as none; the rules of
  the group are skipped (`manager.rs:617`) and the reload reports success, so nothing
  asks for another (`manager.rs:408`: a restart or the next change synchronises again,
  which is the case, but not before).  `ReloadHeals` says what such a reload leaves.
* `handler.rs:248`: `InitializePredefinedGroups` changes members and reloads
  nothing (`handler.rs:228`).
* `manager.rs:613`: the rules of a group that is switched off stay in the driver
  (`handler.rs:254`).
* `app_group/manager.rs:210`: a member from a template with a version directory is
  not removed once the directory is gone, because the expansion no longer names it.

Service, history and GUI:

* `handler.rs:455`: the limit request writes back all settings it has read, and
  another client's save in between is lost.  Two saves that overlap can leave the
  policy or the kill switch opposite to the settings.  `handler.rs:164` stores the
  limits of a save without the normalisation of `handler.rs:424`.
* `firewall_service.rs:134`: settings that cannot be read at start are replaced by
  defaults, which allow and take the kill switch away.
* `system_rules.rs:162`: the migration of a rule writes back an enabled flag that
  was read before a user's change.
* `firewall_service.rs:151`: predefined groups are brought up to date after the
  rules were loaded, so a new member is in force only after the next reload.
* `filter.rs:922`: bit 32 of the skip mask ("32=V6", all of IPv6) is never tested.
  `filter.rs:1133`: the DNS filter of IPv4 inspects, that of IPv6 decides.
* `network_history/manager.rs:72`: "each byte is recorded once" fails when a
  snapshot copied the table before a close that is recorded before it, when a
  baseline is dropped before the close, and when a port is used again
  (`CountedOnce` names them).
* `notifier.rs:104`: a plain notification within the last minute suppresses one that
  should ask (`notifier.rs:118`).
* `ipc/server.rs:76`: `notify_waiters` leaves no permit, so a stop between the
  check of the flag and the wait is missed (`ipc/server.rs:73`).
* `handler.rs:560`: notifications are taken before the response is written and are
  lost when the write fails.
* GUI `ipc.rs:125`: a cancellation after the worker has ended is not always
  harmless, since the pool may have given its thread to another call; a connect
  that fails returns without setting `worker_done`.  `ipc.rs:150`: the second
  cancellation is only sent when the first found a handle, so with three calls a
  worker that was still waiting for the lock may go on and block the next.

## 7. Left out

* `KernelSync`: IOCTLs that fail in the device and database reads that fail at
  start; `clear_kernel` is one step, since what it records dies with the service.
* `RuleManager`: priorities, names and descriptions, so "the first rule of the
  list" that a new rule merges into is any of those that qualify; all groups are
  read in one step of a reload; groups that are deleted (one that an import
  creates has no members, as the groups have at first).  Shadows are in
  `DomainRules`, `ensure_installed` in `Service`.  `enable_rule` and `disable_rule`
  are modelled although no IPC request reaches them.  In `rule_manager` rules have
  neither a remote address nor a domain, because of `manager.rs:57` and
  `manager.rs:395`.
* `AleAuth`: the event and the tuple a classify call leaves behind, which are
  `EventQueue`'s and `FlowTable`'s.
* `FlowTable`: one address family; the contents of a context other than its
  bytes.  `PidOf` is what the flow-established callout takes for the process: the
  metadata's, or the current process, which for an inbound flow may be another
  one (`wfp.c:842`; the other callouts do not fall back there, `wfp.c:721`).
* `TrafficHistory`: one direction, TCP only; UDP has no statistics in the system.
* `DomainRules`: one request at a time; the fields of a shadow other than its
  address; parsing of DNS packets, and the look-up of names for display.
* `Service`: only the aspects of a setting that something acts on; one system rule
  and one predefined group with one program; console mode (its `select!` on Ctrl+C,
  `main.rs:109`) and the registration with the service manager.  That the service
  manager restarts a failed service follows the failure actions it is installed
  with.
* `Client`: what a request does in the service, its framing, and whether an answer
  is an error of the service.
* `Pacing`: packet layout, segments without a process, the cloning of buffers.  After
  an unload that could not unregister a callback, the code that the system would then
  call is gone; the model does not go on to that crash and lets the callbacks do what
  their code says.  The two injection handles are destroyed, and their pointers
  cleared, in one step.
* Everything that `PROJECT.json` lists as `not_modelled`, with its reason there:
  driver diagnostics, the user-mode token bucket that nothing uses, GeoIP, scripts;
  and of the parts modelled in part, read-only queries whose meaning is in their
  SQL, the schema and its migrations, checks on single values, file formats and
  the windows of the GUI.
