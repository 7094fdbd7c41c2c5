------------------------------ MODULE Throttle ------------------------------
(***************************************************************************)
(* The kernel rate-limit table (driver/src/throttle.c): one token bucket   *)
(* per throttled process, and a global one under ProcessId 0, in a fixed   *)
(* array of slots.  Every function takes the table's spin lock once, so    *)
(* what it does to the table is one step.                                  *)
(*                                                                         *)
(* Time.  An entry holds Age = KeQueryInterruptTime() - LastRefill instead *)
(* of LastRefill itself; ClockTick lets one clock unit pass.  Ages stop at *)
(* MaxAge, after which every bucket of the instance would be full.         *)
(*                                                                         *)
(* Removing an entry also releases the packets held for the process        *)
(* (PacingFlushPid, PacingFlushAll), after the lock is dropped: module     *)
(* Pacing adds those steps to the actions of this one.                     *)
(***************************************************************************)
EXTENDS Integers, FiniteSets

CONSTANTS
  MAX_THROTTLE_ENTRIES,          \* slots of the table
  THROTTLE_MIN_BUCKET_CAPACITY,  \* the smallest bucket
  SECOND,                        \* clock units (100 ns) per second
  U64,                           \* 2^64: the product in RefillEntry wraps here
  Pids,                          \* process ids a limit can name, 0 for all
  Rates,                         \* rates a limit can set, in bytes per second
  Sizes,                         \* payload sizes charged to a bucket
  MaxAge                         \* bound: clock units an entry's age counts

ASSUME TableAssumption == MAX_THROTTLE_ENTRIES \in Nat \ {0}
ASSUME CapacityAssumption == THROTTLE_MIN_BUCKET_CAPACITY \in Nat
ASSUME ClockAssumption == SECOND \in Nat \ {0} /\ U64 \in Nat \ {0} /\ MaxAge \in Nat
ASSUME InputAssumption == Pids \subseteq Nat /\ 0 \in Pids
                          /\ Rates \subseteq Nat /\ Sizes \subseteq Nat

VARIABLES
  s_Entries,      \* the slots
  s_ActiveCount   \* entries in use; read without the lock by the data path

tvars == <<s_Entries, s_ActiveCount>>

Slots == 1 .. MAX_THROTTLE_ENTRIES

(* A slot after RtlSecureZeroMemory. *)
ZeroEntry == [InUse |-> FALSE, ProcessId |-> 0, RateUpBps |-> 0, RateDownBps |-> 0,
              TokensUp |-> 0, TokensDown |-> 0, Age |-> 0]

ThrottleBucketCapacity(rate) ==
  IF rate > THROTTLE_MIN_BUCKET_CAPACITY THEN rate ELSE THROTTLE_MIN_BUCKET_CAPACITY

AtMost(x, limit) == IF x > limit THEN limit ELSE x

InUse(i) == s_Entries[i].InUse
Holds(i, pid) == InUse(i) /\ s_Entries[i].ProcessId = pid
SlotsOf(pid) == {i \in Slots : Holds(i, pid)}
FirstFree(i) == ~InUse(i) /\ \A j \in Slots : j < i => InUse(j)

ThrottleInit ==
  /\ s_Entries = [i \in Slots |-> ZeroEntry]
  /\ s_ActiveCount = 0
-----------------------------------------------------------------------------
(***************************************************************************)
(* RefillEntry: the tokens one direction has earned since the last refill, *)
(* and the entry after both directions are credited.  The age restarts     *)
(* whenever either direction earned a whole token.                         *)
(***************************************************************************)
Earned(rate, tokens, age) ==
  IF rate > 0 /\ tokens < ThrottleBucketCapacity(rate)
  THEN AtMost(((rate * age) % U64) \div SECOND, ThrottleBucketCapacity(rate) - tokens)
  ELSE 0

(* A refill that credits the tokens and leaves LastRefill where it was. *)
RefillEntryKeepsAge(e) ==
  [e EXCEPT !.TokensUp = @ + Earned(e.RateUpBps, e.TokensUp, e.Age),
            !.TokensDown = @ + Earned(e.RateDownBps, e.TokensDown, e.Age)]

RefillEntry(e) ==
  LET addUp == Earned(e.RateUpBps, e.TokensUp, e.Age)
      addDown == Earned(e.RateDownBps, e.TokensDown, e.Age)
  IN  IF addUp = 0 /\ addDown = 0
      THEN e
      ELSE [e EXCEPT !.TokensUp = @ + addUp, !.TokensDown = @ + addDown, !.Age = 0]

(* An entry made from a free slot starts with one second of tokens. *)
NewEntry(pid, up, down) ==
  [InUse |-> TRUE, ProcessId |-> pid, RateUpBps |-> up, RateDownBps |-> down,
   TokensUp |-> up, TokensDown |-> down, Age |-> 0]

(* An update that takes the new rates and keeps the tokens as they are. *)
UpdatedEntryUnclamped(e, up, down) ==
  [RefillEntry(e) EXCEPT !.RateUpBps = up, !.RateDownBps = down, !.Age = 0]

(* An existing entry settles at the old rates, then keeps its tokens up to the
   new capacity. *)
UpdatedEntry(e, up, down) ==
  LET r == RefillEntry(e)
  IN  [r EXCEPT !.RateUpBps = up, !.RateDownBps = down, !.Age = 0,
                !.TokensUp = AtMost(@, ThrottleBucketCapacity(up)),
                !.TokensDown = AtMost(@, ThrottleBucketCapacity(down))]

(***************************************************************************)
(* ThrottleSetEntry, the IOCTL_SET_THROTTLE handler: remove when both      *)
(* rates are 0, update the process's entry, or take the first free slot.   *)
(* Removing an absent entry and adding to a full table change nothing.     *)
(***************************************************************************)

RemoveEntry(pid) ==
  \/ \E i \in SlotsOf(pid) :
       /\ \A j \in SlotsOf(pid) : i <= j
       /\ s_Entries' = [s_Entries EXCEPT ![i] = ZeroEntry]
       /\ s_ActiveCount' = s_ActiveCount - 1
  \/ SlotsOf(pid) = {} /\ UNCHANGED tvars

UpdateEntry(pid, up, down) ==
  \E i \in SlotsOf(pid) :
    /\ \A j \in SlotsOf(pid) : i <= j
    /\ s_Entries' = [s_Entries EXCEPT ![i] = UpdatedEntry(s_Entries[i], up, down)]
    /\ UNCHANGED s_ActiveCount

AddEntry(pid, up, down) ==
  /\ SlotsOf(pid) = {}
  /\ \/ \E i \in Slots :
          /\ FirstFree(i)
          /\ s_Entries' = [s_Entries EXCEPT ![i] = NewEntry(pid, up, down)]
          /\ s_ActiveCount' = s_ActiveCount + 1
     \/ (\A i \in Slots : InUse(i)) /\ UNCHANGED tvars

ThrottleSetEntry(pid, up, down) ==
  \/ up = 0 /\ down = 0 /\ RemoveEntry(pid)
  \/ (up # 0 \/ down # 0) /\ (UpdateEntry(pid, up, down) \/ AddEntry(pid, up, down))

(* IOCTL_CLEAR_THROTTLE and unload: the whole table, counter included. *)
ThrottleClearAll ==
  /\ s_Entries' = [i \in Slots |-> ZeroEntry]
  /\ s_ActiveCount' = 0

(* The process-exit callback, under the lock: every entry of the process.  It
   gets here only if the counter was not 0 when it looked, before the lock. *)
ThrottleRemoveByPid(pid) ==
  /\ s_Entries' = [i \in Slots |-> IF i \in SlotsOf(pid) THEN ZeroEntry ELSE s_Entries[i]]
  /\ s_ActiveCount' = s_ActiveCount - Cardinality(SlotsOf(pid))
-----------------------------------------------------------------------------
(***************************************************************************)
(* ThrottleCheck: the process's own entry overrides the global one; a      *)
(* direction without a rate, or no entry at all, permits.                  *)
(***************************************************************************)
Applies(i, pid) == Holds(i, pid) \/ (SlotsOf(pid) = {} /\ Holds(i, 0))

Rate(e, outbound) == IF outbound THEN e.RateUpBps ELSE e.RateDownBps
Tokens(e, outbound) == IF outbound THEN e.TokensUp ELSE e.TokensDown

Charge(e, outbound, n) ==
  IF outbound THEN [e EXCEPT !.TokensUp = @ - n] ELSE [e EXCEPT !.TokensDown = @ - n]

Passes(e, outbound, n) == Rate(e, outbound) = 0 \/ Tokens(e, outbound) >= n

ThrottleCheck(pid, outbound, n, permitted) ==
  \/ /\ \A i \in Slots : ~Applies(i, pid)
     /\ permitted
     /\ UNCHANGED tvars
  \/ \E i \in Slots :
       LET e == RefillEntry(s_Entries[i]) IN
       /\ Applies(i, pid)
       /\ permitted = Passes(e, outbound, n)
       /\ s_Entries' = [s_Entries EXCEPT ![i] =
                          IF permitted /\ Rate(e, outbound) > 0
                          THEN Charge(e, outbound, n) ELSE e]
       /\ UNCHANGED s_ActiveCount

(* The interrupt clock advances for every entry. *)
ClockTick ==
  /\ \E i \in Slots : InUse(i) /\ s_Entries[i].Age < MaxAge
  /\ s_Entries' = [i \in Slots |->
       IF InUse(i) THEN [s_Entries[i] EXCEPT !.Age = AtMost(@ + 1, MaxAge)]
                   ELSE s_Entries[i]]
  /\ UNCHANGED s_ActiveCount

ThrottleNext ==
  \/ \E pid \in Pids, up, down \in Rates : ThrottleSetEntry(pid, up, down)
  \/ \E pid \in Pids \ {0} : ThrottleRemoveByPid(pid)
  \/ ThrottleClearAll
  \/ \E pid \in Pids \ {0}, outbound, permitted \in BOOLEAN, n \in Sizes :
       ThrottleCheck(pid, outbound, n, permitted)
  \/ ClockTick

ThrottleSpec == ThrottleInit /\ [][ThrottleNext]_tvars
-----------------------------------------------------------------------------
Entry == [InUse : BOOLEAN, ProcessId : Pids, RateUpBps : Rates \cup {0},
          RateDownBps : Rates \cup {0}, TokensUp : Nat, TokensDown : Nat, Age : Nat]

(* The slots hold entries; no token count is ever negative. *)
ThrottleTypeOK ==
  /\ s_Entries \in [Slots -> Entry]
  /\ s_ActiveCount \in Int

(* The counter the data path reads without the lock is exact between any two
   critical sections.  If it were too low, FlowTupleLookupPid would skip the
   lookup and a limit would never be enforced. *)
ActiveCountExact == s_ActiveCount = Cardinality({i \in Slots : InUse(i)})

(* A process has at most one bucket: two would split or double its rate, and
   the removal in ThrottleSetEntry stops at the first. *)
OneEntryPerPid == \A i, j \in Slots : \A pid \in Pids : Holds(i, pid) /\ Holds(j, pid) => i = j

(* No bucket ever holds more than its capacity, whatever the order of refills,
   charges and rate changes: the burst a process can send is bounded. *)
BurstBounded ==
  \A i \in Slots : InUse(i) =>
    /\ s_Entries[i].TokensUp <= ThrottleBucketCapacity(s_Entries[i].RateUpBps)
    /\ s_Entries[i].TokensDown <= ThrottleBucketCapacity(s_Entries[i].RateDownBps)

(* What set, update, remove, clear, refill and charge keep between them: the
   counter read without the lock is exact, a process has one bucket, and no
   bucket exceeds its capacity. *)
TableConsistent == ThrottleTypeOK /\ ActiveCountExact /\ OneEntryPerPid /\ BurstBounded
=============================================================================
