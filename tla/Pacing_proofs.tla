--------------------------- MODULE Pacing_proofs ---------------------------
(***************************************************************************)
(* Rate limiting in the kernel, for every table size, capacity, clock and  *)
(* set of rates, and any number of processors, queues and packets.         *)
(*                                                                         *)
(* First the table (Throttle, RateBound): the unlocked counter is exact, a *)
(* process has one bucket, no bucket exceeds its capacity, and the         *)
(* overdraft of a limit never exceeds one capacity.  The last bound is not *)
(* inductive: it says nothing of the tokens the bucket still holds, nor of *)
(* the time a refill will still credit.  Its invariant sets the ideal      *)
(* balance against both (Worth).                                           *)
(*                                                                         *)
(* Then the packets held when the tokens run out (Pacing): their counters  *)
(* are exact and bounded, each has one owner and an injection handle, and  *)
(* none is released past an earlier one.                                   *)
(***************************************************************************)
EXTENDS RateBound, Pacing, SequenceTheorems, FiniteSetTheorems, WellFoundedInduction, TLAPS

(* The tokens of an entry fit its buckets. *)
Bounded(e) ==
  /\ e.TokensUp <= ThrottleBucketCapacity(e.RateUpBps)
  /\ e.TokensDown <= ThrottleBucketCapacity(e.RateDownBps)

IInv == ThrottleTypeOK /\ ActiveCountExact /\ OneEntryPerPid /\ BurstBounded

(* A bucket can hold a second of its rate, which is what a new entry starts with. *)
LEMMA CapacityAtLeastRate ==
  ASSUME NEW rate \in Nat
  PROVE  ThrottleBucketCapacity(rate) \in Nat /\ rate <= ThrottleBucketCapacity(rate)
  BY CapacityAssumption DEF ThrottleBucketCapacity

(* What a direction earns never lifts it over its capacity. *)
LEMMA EarnedFits ==
  ASSUME NEW rate \in Nat, NEW tokens \in Nat, NEW age \in Nat
  PROVE  /\ Earned(rate, tokens, age) \in Nat
         /\ tokens <= ThrottleBucketCapacity(rate)
              => tokens + Earned(rate, tokens, age) <= ThrottleBucketCapacity(rate)
  <1> DEFINE cap == ThrottleBucketCapacity(rate)
             prod == (rate * age) % U64
             add == prod \div SECOND
  <1>1. cap \in Nat
    BY CapacityAtLeastRate
  <1>2. rate * age \in Nat
    OBVIOUS
  <1>3. prod \in Nat
    BY <1>2, ClockAssumption
  <1> HIDE DEF prod
  <1>4. add \in Nat
    BY <1>3, ClockAssumption
  <1> HIDE DEF add, cap
  <1>5. Earned(rate, tokens, age) = IF rate > 0 /\ tokens < cap
                                    THEN (IF add > cap - tokens THEN cap - tokens ELSE add)
                                    ELSE 0
    BY DEF Earned, AtMost, cap, add, prod
  <1>6. /\ Earned(rate, tokens, age) \in Nat
        /\ tokens <= cap => tokens + Earned(rate, tokens, age) <= cap
    BY <1>1, <1>4, <1>5
  <1> QED BY <1>6 DEF cap

(* A refill changes only tokens and age, and keeps the entry within bounds. *)
LEMMA RefillKeepsBounds ==
  ASSUME NEW e \in Entry
  PROVE  /\ RefillEntry(e) \in Entry
         /\ RefillEntry(e).InUse = e.InUse /\ RefillEntry(e).ProcessId = e.ProcessId
         /\ RefillEntry(e).RateUpBps = e.RateUpBps
         /\ RefillEntry(e).RateDownBps = e.RateDownBps
         /\ Bounded(e) => Bounded(RefillEntry(e))
  <1> DEFINE up == Earned(e.RateUpBps, e.TokensUp, e.Age)
             down == Earned(e.RateDownBps, e.TokensDown, e.Age)
             r == [e EXCEPT !.TokensUp = @ + up, !.TokensDown = @ + down, !.Age = 0]
  <1>1. /\ e.RateUpBps \in Nat /\ e.RateDownBps \in Nat
        /\ e.TokensUp \in Nat /\ e.TokensDown \in Nat /\ e.Age \in Nat
    BY InputAssumption DEF Entry
  <1>2. up \in Nat /\ (e.TokensUp <= ThrottleBucketCapacity(e.RateUpBps)
                        => e.TokensUp + up <= ThrottleBucketCapacity(e.RateUpBps))
    BY <1>1, EarnedFits
  <1>3. down \in Nat /\ (e.TokensDown <= ThrottleBucketCapacity(e.RateDownBps)
                          => e.TokensDown + down <= ThrottleBucketCapacity(e.RateDownBps))
    BY <1>1, EarnedFits
  <1>4. RefillEntry(e) = e \/ RefillEntry(e) = r
    BY DEF RefillEntry
  <1> HIDE DEF up, down
  <1>5. r \in Entry
    <2>1. e.TokensUp + up \in Nat /\ e.TokensDown + down \in Nat
      BY <1>1, <1>2, <1>3
    <2> QED BY <2>1 DEF Entry
  <1>6. /\ r.InUse = e.InUse /\ r.ProcessId = e.ProcessId
        /\ r.RateUpBps = e.RateUpBps /\ r.RateDownBps = e.RateDownBps
        /\ r.TokensUp = e.TokensUp + up /\ r.TokensDown = e.TokensDown + down
    BY DEF Entry
  <1>7. Bounded(e) => Bounded(r)
    BY <1>2, <1>3, <1>6 DEF Bounded
  <1> QED BY <1>4, <1>5, <1>6, <1>7

(* An entry that is made or updated is a valid entry within its bounds. *)
LEMMA SetKeepsBounds ==
  ASSUME NEW e \in Entry, NEW pid \in Pids, NEW up \in Rates, NEW down \in Rates
  PROVE  /\ NewEntry(pid, up, down) \in Entry /\ Bounded(NewEntry(pid, up, down))
         /\ UpdatedEntry(e, up, down) \in Entry /\ Bounded(UpdatedEntry(e, up, down))
         /\ UpdatedEntry(e, up, down).InUse = e.InUse
         /\ UpdatedEntry(e, up, down).ProcessId = e.ProcessId
  <1> DEFINE r == RefillEntry(e)
             capUp == ThrottleBucketCapacity(up)
             capDown == ThrottleBucketCapacity(down)
             n == NewEntry(pid, up, down)
             u == UpdatedEntry(e, up, down)
  <1>1. up \in Nat /\ down \in Nat
    BY InputAssumption
  <1>2. capUp \in Nat /\ up <= capUp /\ capDown \in Nat /\ down <= capDown
    BY <1>1, CapacityAtLeastRate
  <1>3. n \in Entry /\ Bounded(n)
    BY <1>1, <1>2 DEF NewEntry, Entry, Bounded
  <1>4. r \in Entry /\ r.InUse = e.InUse /\ r.ProcessId = e.ProcessId
    BY RefillKeepsBounds
  <1> HIDE DEF r, capUp, capDown
  <1>5. AtMost(r.TokensUp, capUp) \in Nat /\ AtMost(r.TokensUp, capUp) <= capUp
    BY <1>2, <1>4 DEF AtMost, Entry
  <1>6. AtMost(r.TokensDown, capDown) \in Nat /\ AtMost(r.TokensDown, capDown) <= capDown
    BY <1>2, <1>4 DEF AtMost, Entry
  <1>7. u = [r EXCEPT !.RateUpBps = up, !.RateDownBps = down, !.Age = 0,
                      !.TokensUp = AtMost(r.TokensUp, capUp),
                      !.TokensDown = AtMost(r.TokensDown, capDown)]
    BY DEF UpdatedEntry, r, capUp, capDown
  <1> HIDE DEF u
  <1>8. u \in Entry
    BY <1>4, <1>5, <1>6, <1>7 DEF Entry
  <1>9. /\ u.RateUpBps = up /\ u.RateDownBps = down
        /\ u.TokensUp = AtMost(r.TokensUp, capUp)
        /\ u.TokensDown = AtMost(r.TokensDown, capDown)
        /\ u.InUse = r.InUse /\ u.ProcessId = r.ProcessId
    BY <1>4, <1>7 DEF Entry
  <1>10. Bounded(u)
    BY <1>5, <1>6, <1>9 DEF Bounded, capUp, capDown
  <1> QED BY <1>3, <1>4, <1>8, <1>9, <1>10 DEF u

(* A refilled entry charged for a packet it lets pass stays within bounds. *)
LEMMA ChargeKeepsBounds ==
  ASSUME NEW e \in Entry, NEW outbound \in BOOLEAN, NEW n \in Sizes,
         Rate(e, outbound) > 0, Passes(e, outbound, n)
  PROVE  /\ Charge(e, outbound, n) \in Entry
         /\ Charge(e, outbound, n).InUse = e.InUse
         /\ Charge(e, outbound, n).ProcessId = e.ProcessId
         /\ Bounded(e) => Bounded(Charge(e, outbound, n))
  <1>1. n \in Nat /\ e.TokensUp \in Nat /\ e.TokensDown \in Nat
        /\ e.RateUpBps \in Nat /\ e.RateDownBps \in Nat
    BY InputAssumption DEF Entry
  <1>2. /\ ThrottleBucketCapacity(e.RateUpBps) \in Nat
        /\ ThrottleBucketCapacity(e.RateDownBps) \in Nat
    BY <1>1, CapacityAtLeastRate
  <1>3. CASE outbound
    <2> DEFINE c == [e EXCEPT !.TokensUp = @ - n]
    <2>1. Charge(e, outbound, n) = c /\ e.TokensUp - n \in Nat
      BY <1>1, <1>3 DEF Charge, Passes, Rate, Tokens
    <2>2. c \in Entry
      BY <2>1 DEF Entry
    <2>3. /\ c.InUse = e.InUse /\ c.ProcessId = e.ProcessId
          /\ c.TokensUp = e.TokensUp - n /\ c.TokensDown = e.TokensDown
          /\ c.RateUpBps = e.RateUpBps /\ c.RateDownBps = e.RateDownBps
      BY DEF Entry
    <2>4. Bounded(e) => Bounded(c)
      BY <1>1, <1>2, <2>3 DEF Bounded
    <2> QED BY <2>1, <2>2, <2>3, <2>4
  <1>4. CASE ~outbound
    <2> DEFINE c == [e EXCEPT !.TokensDown = @ - n]
    <2>1. Charge(e, outbound, n) = c /\ e.TokensDown - n \in Nat
      BY <1>1, <1>4 DEF Charge, Passes, Rate, Tokens
    <2>2. c \in Entry
      BY <2>1 DEF Entry
    <2>3. /\ c.InUse = e.InUse /\ c.ProcessId = e.ProcessId
          /\ c.TokensUp = e.TokensUp /\ c.TokensDown = e.TokensDown - n
          /\ c.RateUpBps = e.RateUpBps /\ c.RateDownBps = e.RateDownBps
      BY DEF Entry
    <2>4. Bounded(e) => Bounded(c)
      BY <1>1, <1>2, <2>3 DEF Bounded
    <2> QED BY <2>1, <2>2, <2>3, <2>4
  <1> QED BY <1>3, <1>4
-----------------------------------------------------------------------------
UsedSlots == {i \in Slots : InUse(i)}

(* The slots in use are finitely many, before and after every step. *)
LEMMA UsedSlotsFinite == IsFiniteSet(UsedSlots) /\ IsFiniteSet(UsedSlots') /\ Cardinality(UsedSlots) \in Nat
  <1>1. IsFiniteSet(Slots) 
    BY TableAssumption, FS_Interval DEF Slots
  <1>2. UsedSlots \subseteq Slots /\ UsedSlots' \subseteq Slots
    BY DEF UsedSlots
  <1>3. IsFiniteSet(UsedSlots) /\ IsFiniteSet(UsedSlots')
    BY <1>1, <1>2, FS_Subset
  <1> QED BY <1>3, FS_CardinalityType

(* Replacing one entry by one of the same process keeps the invariant. *)
LEMMA SameProcess ==
  ASSUME IInv, NEW i \in Slots, NEW e \in Entry,
         e.InUse = s_Entries[i].InUse, e.ProcessId = s_Entries[i].ProcessId,
         e.InUse => Bounded(e),
         s_Entries' = [s_Entries EXCEPT ![i] = e], UNCHANGED s_ActiveCount
  PROVE  IInv'
  <1>1. ThrottleTypeOK'
    BY DEF IInv, ThrottleTypeOK
  <1>2. \A j \in Slots : /\ s_Entries'[j].InUse = s_Entries[j].InUse
                         /\ s_Entries'[j].ProcessId = s_Entries[j].ProcessId
    BY DEF IInv, ThrottleTypeOK
  <1>3. UsedSlots' = UsedSlots
    BY <1>2 DEF UsedSlots, InUse
  <1>4. ActiveCountExact'
    BY <1>3 DEF IInv, ActiveCountExact, UsedSlots
  <1>5. OneEntryPerPid'
    BY <1>2 DEF IInv, OneEntryPerPid, Holds, InUse
  <1>6. BurstBounded'
    BY DEF IInv, ThrottleTypeOK, BurstBounded, Bounded, InUse
  <1> QED BY <1>1, <1>4, <1>5, <1>6 DEF IInv

(* Zeroing a set of slots in use, and counting them off, keeps the invariant. *)
LEMMA ZeroSlots ==
  ASSUME IInv, NEW Z \in SUBSET UsedSlots,
         s_Entries' = [i \in Slots |-> IF i \in Z THEN ZeroEntry ELSE s_Entries[i]],
         s_ActiveCount' = s_ActiveCount - Cardinality(Z)
  PROVE  IInv'
  <1>1. ZeroEntry \in Entry /\ ~ZeroEntry.InUse
    BY InputAssumption DEF ZeroEntry, Entry
  <1>2. IsFiniteSet(Z) /\ Cardinality(Z) \in Nat
    BY UsedSlotsFinite, FS_Subset, FS_CardinalityType
  <1>3. ThrottleTypeOK'
    BY <1>1, <1>2 DEF IInv, ThrottleTypeOK
  <1>4. UsedSlots' = UsedSlots \ Z
    BY <1>1 DEF UsedSlots, InUse
  <1>5. Cardinality(UsedSlots \ Z) = Cardinality(UsedSlots) - Cardinality(Z)
    <2>1. UsedSlots \cap Z = Z
      OBVIOUS
    <2> QED BY <2>1, UsedSlotsFinite, FS_Difference
  <1>6. ActiveCountExact'
    BY <1>4, <1>5 DEF IInv, ActiveCountExact, UsedSlots
  <1>7. OneEntryPerPid'
    BY <1>1 DEF IInv, OneEntryPerPid, Holds, InUse
  <1>8. BurstBounded'
    BY <1>1 DEF IInv, BurstBounded, InUse
  <1> QED BY <1>3, <1>6, <1>7, <1>8 DEF IInv

(* Taking a free slot for a process that has none keeps the invariant. *)
LEMMA TakeSlot ==
  ASSUME IInv, NEW i \in Slots, ~InUse(i), NEW e \in Entry, e.InUse, Bounded(e),
         e.ProcessId \in Pids, SlotsOf(e.ProcessId) = {},
         s_Entries' = [s_Entries EXCEPT ![i] = e], s_ActiveCount' = s_ActiveCount + 1
  PROVE  IInv'
  <1>1. ThrottleTypeOK'
    BY DEF IInv, ThrottleTypeOK
  <1>2. UsedSlots' = UsedSlots \cup {i} /\ i \notin UsedSlots
    BY DEF IInv, ThrottleTypeOK, UsedSlots, InUse
  <1>3. Cardinality(UsedSlots \cup {i}) = Cardinality(UsedSlots) + 1
    BY <1>2, UsedSlotsFinite, FS_AddElement
  <1>4. ActiveCountExact'
    BY <1>2, <1>3 DEF IInv, ActiveCountExact, UsedSlots
  <1>5. OneEntryPerPid'
    BY DEF IInv, ThrottleTypeOK, OneEntryPerPid, Holds, InUse, SlotsOf
  <1>6. BurstBounded'
    BY DEF IInv, ThrottleTypeOK, BurstBounded, Bounded, InUse
  <1> QED BY <1>1, <1>4, <1>5, <1>6 DEF IInv
-----------------------------------------------------------------------------
(* The empty table satisfies the invariant. *)
LEMMA InitIInv == ThrottleInit => IInv
  <1> SUFFICES ASSUME ThrottleInit PROVE IInv
    OBVIOUS
  <1>1. ZeroEntry \in Entry /\ ~ZeroEntry.InUse
    BY InputAssumption DEF ZeroEntry, Entry
  <1>2. UsedSlots = {}
    BY <1>1 DEF ThrottleInit, UsedSlots, InUse
  <1>3. ActiveCountExact
    BY <1>2, FS_EmptySet DEF ThrottleInit, ActiveCountExact, UsedSlots
  <1>4. ThrottleTypeOK
    BY <1>1 DEF ThrottleInit, ThrottleTypeOK
  <1>5. OneEntryPerPid /\ BurstBounded
    BY <1>1 DEF ThrottleInit, OneEntryPerPid, BurstBounded, Holds, InUse
  <1> QED BY <1>3, <1>4, <1>5 DEF IInv

(* IOCTL_SET_THROTTLE: removal, update and addition. *)
LEMMA SetEntryIInv ==
  ASSUME IInv, NEW pid \in Pids, NEW up \in Rates, NEW down \in Rates,
         ThrottleSetEntry(pid, up, down)
  PROVE  IInv'
  <1>1. s_Entries \in [Slots -> Entry]
    BY DEF IInv, ThrottleTypeOK
  <1>2. CASE UNCHANGED tvars
    BY <1>2 DEF tvars, IInv, ThrottleTypeOK, ActiveCountExact, OneEntryPerPid,
                BurstBounded, Holds, InUse
  <1>3. CASE RemoveEntry(pid) /\ ~UNCHANGED tvars
    <2>1. PICK i \in SlotsOf(pid) : /\ s_Entries' = [s_Entries EXCEPT ![i] = ZeroEntry]
                                    /\ s_ActiveCount' = s_ActiveCount - 1
      BY <1>3 DEF RemoveEntry
    <2>2. i \in Slots /\ {i} \subseteq UsedSlots
      BY DEF SlotsOf, Holds, UsedSlots
    <2>3. s_Entries' = [j \in Slots |-> IF j \in {i} THEN ZeroEntry ELSE s_Entries[j]]
      BY <1>1, <2>1
    <2>4. Cardinality({i}) = 1
      BY FS_Singleton
    <2> QED BY <2>1, <2>2, <2>3, <2>4, ZeroSlots
  <1>4. CASE UpdateEntry(pid, up, down)
    <2>1. PICK i \in SlotsOf(pid) :
             /\ s_Entries' = [s_Entries EXCEPT ![i] = UpdatedEntry(s_Entries[i], up, down)]
             /\ UNCHANGED s_ActiveCount
      BY <1>4 DEF UpdateEntry
    <2>2. i \in Slots /\ s_Entries[i] \in Entry
      BY <1>1 DEF SlotsOf
    <2> QED BY ZenonT(60), <2>1, <2>2, SetKeepsBounds, SameProcess
  <1>5. CASE AddEntry(pid, up, down) /\ ~UNCHANGED tvars
    <2>1. PICK i \in Slots :
             /\ FirstFree(i) /\ SlotsOf(pid) = {}
             /\ s_Entries' = [s_Entries EXCEPT ![i] = NewEntry(pid, up, down)]
             /\ s_ActiveCount' = s_ActiveCount + 1
      BY <1>5 DEF AddEntry
    <2>2. /\ NewEntry(pid, up, down) \in Entry /\ Bounded(NewEntry(pid, up, down))
          /\ NewEntry(pid, up, down).InUse /\ NewEntry(pid, up, down).ProcessId = pid
      BY <1>1, SetKeepsBounds DEF NewEntry
    <2> QED BY <2>1, <2>2, TakeSlot DEF FirstFree
  <1> QED BY <1>2, <1>3, <1>4, <1>5 DEF ThrottleSetEntry

(* ThrottleCheck: a refill, and a charge when the packet may go. *)
LEMMA CheckIInv ==
  ASSUME IInv, NEW pid \in Pids, NEW outbound \in BOOLEAN, NEW n \in Sizes,
         NEW permitted \in BOOLEAN, ThrottleCheck(pid, outbound, n, permitted)
  PROVE  IInv'
  <1>1. CASE UNCHANGED tvars
    BY <1>1 DEF tvars, IInv, ThrottleTypeOK, ActiveCountExact, OneEntryPerPid,
                BurstBounded, Holds, InUse
  <1>2. CASE ~UNCHANGED tvars
    <2>1. PICK i \in Slots :
            /\ permitted = Passes(RefillEntry(s_Entries[i]), outbound, n)
            /\ s_Entries' = [s_Entries EXCEPT ![i] =
                 IF permitted /\ Rate(RefillEntry(s_Entries[i]), outbound) > 0
                 THEN Charge(RefillEntry(s_Entries[i]), outbound, n)
                 ELSE RefillEntry(s_Entries[i])]
            /\ UNCHANGED s_ActiveCount
      BY <1>2 DEF ThrottleCheck
    <2> DEFINE e == RefillEntry(s_Entries[i])
               c == IF permitted /\ Rate(e, outbound) > 0 THEN Charge(e, outbound, n) ELSE e
    <2>2. s_Entries[i] \in Entry /\ (s_Entries[i].InUse => Bounded(s_Entries[i]))
      BY DEF IInv, ThrottleTypeOK, BurstBounded, InUse, Bounded
    <2>3. /\ e \in Entry /\ e.InUse = s_Entries[i].InUse
          /\ e.ProcessId = s_Entries[i].ProcessId /\ (e.InUse => Bounded(e))
      BY <2>2, RefillKeepsBounds
    <2> HIDE DEF e
    <2>4. /\ c \in Entry /\ c.InUse = s_Entries[i].InUse
          /\ c.ProcessId = s_Entries[i].ProcessId /\ (c.InUse => Bounded(c))
      BY <2>1, <2>3, ChargeKeepsBounds DEF e
    <2> QED BY <2>1, <2>4, SameProcess DEF e
  <1> QED BY <1>1, <1>2

(* Time passes for every entry at once. *)
LEMMA ClockIInv ==
  ASSUME IInv, ClockTick
  PROVE  IInv'
  <1>1. \A i \in Slots :
          /\ s_Entries'[i] \in Entry
          /\ s_Entries'[i].InUse = s_Entries[i].InUse
          /\ s_Entries'[i].ProcessId = s_Entries[i].ProcessId
          /\ s_Entries'[i].TokensUp = s_Entries[i].TokensUp
          /\ s_Entries'[i].TokensDown = s_Entries[i].TokensDown
          /\ s_Entries'[i].RateUpBps = s_Entries[i].RateUpBps
          /\ s_Entries'[i].RateDownBps = s_Entries[i].RateDownBps
    <2> SUFFICES ASSUME NEW i \in Slots
                 PROVE  LET a == s_Entries'[i]
                            b == s_Entries[i]
                        IN  /\ a \in Entry /\ a.InUse = b.InUse
                            /\ a.ProcessId = b.ProcessId
                            /\ a.TokensUp = b.TokensUp /\ a.TokensDown = b.TokensDown
                            /\ a.RateUpBps = b.RateUpBps
                            /\ a.RateDownBps = b.RateDownBps
      OBVIOUS
    <2>1. s_Entries[i] \in Entry /\ s_Entries[i].Age \in Nat
      BY DEF IInv, ThrottleTypeOK, Entry
    <2>2. AtMost(s_Entries[i].Age + 1, MaxAge) \in Nat
      BY <2>1, ClockAssumption DEF AtMost
    <2>3. \/ s_Entries'[i] = s_Entries[i]
          \/ s_Entries'[i] = [s_Entries[i] EXCEPT !.Age = AtMost(s_Entries[i].Age + 1, MaxAge)]
      BY DEF ClockTick
    <2> QED BY <2>1, <2>2, <2>3 DEF Entry
  <1>2. UsedSlots' = UsedSlots /\ s_ActiveCount' = s_ActiveCount
    BY <1>1 DEF UsedSlots, InUse, ClockTick
  <1>3. ThrottleTypeOK'
    BY <1>1, <1>2 DEF IInv, ThrottleTypeOK, ClockTick
  <1>4. ActiveCountExact'
    BY <1>2 DEF IInv, ActiveCountExact, UsedSlots
  <1>5. OneEntryPerPid' /\ BurstBounded'
    BY <1>1 DEF IInv, OneEntryPerPid, BurstBounded, Holds, InUse
  <1> QED BY <1>3, <1>4, <1>5 DEF IInv

(* Every handler preserves the invariant. *)
LEMMA NextIInv ==
  ASSUME IInv, [ThrottleNext]_tvars
  PROVE  IInv'
  <1>1. ASSUME NEW pid \in Pids, ThrottleRemoveByPid(pid) PROVE IInv'
    <2>1. SlotsOf(pid) \subseteq UsedSlots
      BY DEF SlotsOf, Holds, UsedSlots
    <2> QED BY <1>1, <2>1, ZeroSlots DEF ThrottleRemoveByPid
  <1>2. CASE ThrottleClearAll
    <2>1. ZeroEntry \in Entry /\ ~ZeroEntry.InUse
      BY InputAssumption DEF ZeroEntry, Entry
    <2>2. UsedSlots' = {}
      BY <1>2, <2>1 DEF ThrottleClearAll, UsedSlots, InUse
    <2>3. ActiveCountExact'
      BY <1>2, <2>2, FS_EmptySet DEF ThrottleClearAll, ActiveCountExact, UsedSlots
    <2>4. ThrottleTypeOK' /\ OneEntryPerPid' /\ BurstBounded'
      BY <1>2, <2>1 DEF ThrottleClearAll, ThrottleTypeOK, OneEntryPerPid, BurstBounded,
                        Holds, InUse
    <2> QED BY <2>3, <2>4 DEF IInv
  <1>3. CASE UNCHANGED tvars
    BY <1>3 DEF tvars, IInv, ThrottleTypeOK, ActiveCountExact, OneEntryPerPid,
                BurstBounded, Holds, InUse
  <1> QED BY <1>1, <1>2, <1>3, SetEntryIInv, CheckIInv, ClockIInv DEF ThrottleNext

(* For every table size and every sequence of limits set, removed and
   enforced, the unlocked counter equals the number of entries in use, no
   process has two buckets, and no bucket exceeds its capacity. *)
THEOREM ThrottleSafety ==
  ThrottleSpec => []TableConsistent
  <1>1. ThrottleInit => IInv
    BY InitIInv
  <1>2. IInv /\ [ThrottleNext]_tvars => IInv'
    BY NextIInv
  <1> QED BY <1>1, <1>2, PTL DEF ThrottleSpec, IInv, TableConsistent

-----------------------------------------------------------------------------

Cap(rate) == ThrottleBucketCapacity(rate) * SECOND

(* What a direction can still send, less one capacity: its tokens and the
   time a refill would credit, of which at most one capacity counts. *)
Worth(tokens, rate, age) == tokens * SECOND + AtMost(rate * age, Cap(rate)) - Cap(rate)

Covered ==
  \A i \in Slots, outbound \in BOOLEAN :
    InUse(i) => ideal[i][outbound] >= Worth(Tokens(s_Entries[i], outbound),
                                            Rate(s_Entries[i], outbound), s_Entries[i].Age)

RInv == IInv /\ ideal \in [Slots -> [BOOLEAN -> Int]] /\ Covered

(* Products of naturals are naturals and grow with their factors. *)
LEMMA Products ==
  ASSUME NEW a \in Nat, NEW b \in Nat, NEW s \in Nat
  PROVE  /\ a * s \in Nat /\ (a + b) * s = a * s + b * s
         /\ a <= b => a * s <= b * s
  <1>1. a * s \in Nat /\ (a + b) * s = a * s + b * s
    OBVIOUS
  <1>2. ASSUME a <= b PROVE a * s <= b * s
    <2>1. b - a \in Nat /\ b = a + (b - a)
      BY <1>2
    <2> DEFINE d == b - a
    <2>2. b * s = a * s + d * s
      BY <2>1
    <2>3. d * s \in Nat
      BY <2>1
    <2> QED BY <1>1, <2>2, <2>3
  <1> QED BY <1>1, <1>2

(* The largest multiple of s in x is at most x. *)
LEMMA Quotient ==
  ASSUME NEW x \in Nat, NEW s \in Nat \ {0}
  PROVE  x \div s \in Nat /\ (x \div s) * s <= x
  OBVIOUS

(* The types of the quantities involved. *)
LEMMA WorthType ==
  ASSUME NEW t \in Nat, NEW r \in Nat, NEW a \in Nat
  PROVE  /\ Cap(r) \in Nat /\ t * SECOND \in Nat /\ r * a \in Nat
         /\ AtMost(r * a, Cap(r)) \in Nat /\ AtMost(r * a, Cap(r)) <= Cap(r)
         /\ Worth(t, r, a) \in Int
         /\ Worth(t, r, a) >= -Cap(r)
         /\ t <= ThrottleBucketCapacity(r) => Worth(t, r, a) <= Cap(r)
  <1>1. ThrottleBucketCapacity(r) \in Nat /\ SECOND \in Nat
    BY CapacityAtLeastRate, ClockAssumption
  <1>2. Cap(r) \in Nat /\ t * SECOND \in Nat
        /\ (t <= ThrottleBucketCapacity(r) => t * SECOND <= Cap(r))
    BY <1>1, Products DEF Cap
  <1>3. r * a \in Nat
    BY Products
  <1>4. AtMost(r * a, Cap(r)) \in Nat /\ AtMost(r * a, Cap(r)) <= Cap(r)
    BY <1>2, <1>3 DEF AtMost
  <1> DEFINE x == AtMost(r * a, Cap(r))
             y == t * SECOND
  <1>5. Worth(t, r, a) = y + x - Cap(r)
    BY DEF Worth
  <1> HIDE DEF x, y
  <1>6. /\ Worth(t, r, a) \in Int /\ Worth(t, r, a) >= -Cap(r)
        /\ t <= ThrottleBucketCapacity(r) => Worth(t, r, a) <= Cap(r)
    BY <1>2, <1>4, <1>5 DEF x, y
  <1> QED BY <1>2, <1>3, <1>4, <1>6

(* A refill moves time into tokens and never gains by it. *)
LEMMA WorthRefill ==
  ASSUME NEW t \in Nat, NEW r \in Nat, NEW a \in Nat, t <= ThrottleBucketCapacity(r)
  PROVE  Worth(t + Earned(r, t, a), r, 0) <= Worth(t, r, a)
  <1> DEFINE e == Earned(r, t, a)
             C == ThrottleBucketCapacity(r)
             q == ((r * a) % U64) \div SECOND
  <1>1. e \in Nat /\ t + e <= C /\ C \in Nat /\ SECOND \in Nat \ {0}
    BY EarnedFits, CapacityAtLeastRate, ClockAssumption
  <1>2. r * a \in Nat
    BY Products
  <1>3. (r * a) % U64 \in Nat /\ (r * a) % U64 <= r * a
    BY <1>2, ClockAssumption
  <1>4. q \in Nat /\ q * SECOND <= r * a
    BY <1>1, <1>2, <1>3, Quotient
  <1>5. e <= q
    <2> HIDE DEF q
    <2>1. e = IF r > 0 /\ t < C THEN (IF q > C - t THEN C - t ELSE q) ELSE 0
      BY DEF Earned, AtMost, q
    <2> QED BY <1>1, <1>4, <2>1
  <1> HIDE DEF e, q, C
  <1>6. e * SECOND \in Nat /\ e * SECOND <= r * a
    <2>1. e * SECOND <= q * SECOND
      BY <1>1, <1>4, <1>5, Products
    <2> QED BY <1>1, <1>2, <1>4, <2>1, Products
  <1>7. e * SECOND <= Cap(r)
    BY <1>1, Products DEF Cap, C
  <1>8. (t + e) * SECOND = t * SECOND + e * SECOND
    BY <1>1, Products
  <1>9. AtMost(r * 0, Cap(r)) = 0 /\ Cap(r) \in Nat
    <2>1. Cap(r) \in Nat
      BY WorthType
    <2> QED BY <2>1 DEF AtMost
  <1>10. e * SECOND <= AtMost(r * a, Cap(r))
    BY <1>6, <1>7 DEF AtMost
  <1> DEFINE x == AtMost(r * a, Cap(r))
             y == t * SECOND
             z == e * SECOND
  <1>11. Worth(t + e, r, 0) = (y + z) + 0 - Cap(r) /\ Worth(t, r, a) = y + x - Cap(r)
    BY <1>8, <1>9 DEF Worth
  <1>12. x \in Nat /\ y \in Nat /\ z \in Nat
    BY <1>6, WorthType
  <1> HIDE DEF x, y, z
  <1>13. Worth(t + e, r, 0) <= Worth(t, r, a)
    <2>1. z <= x
      BY <1>10 DEF x, z
    <2> QED BY <1>9, <1>11, <1>12, <2>1
  <1> QED BY <1>13 DEF e

(* A segment takes from the tokens what it takes from the ideal balance. *)
LEMMA WorthPaid ==
  ASSUME NEW t \in Nat, NEW r \in Nat, NEW a \in Nat, NEW n \in Nat, n <= t
  PROVE  n * SECOND \in Nat /\ Worth(t - n, r, a) = Worth(t, r, a) - n * SECOND
  <1>1. t - n \in Nat /\ SECOND \in Nat
    BY ClockAssumption
  <1>2. (t - n) * SECOND \in Nat /\ n * SECOND \in Nat
        /\ ((t - n) + n) * SECOND = (t - n) * SECOND + n * SECOND
    BY <1>1, Products
  <1>3. (t - n) + n = t
    OBVIOUS
  <1>4. Cap(r) \in Nat /\ AtMost(r * a, Cap(r)) \in Nat
    BY WorthType
  <1> DEFINE x == AtMost(r * a, Cap(r))
             y == (t - n) * SECOND
             z == n * SECOND
  <1>5. Worth(t - n, r, a) = y + x - Cap(r) /\ Worth(t, r, a) = (y + z) + x - Cap(r)
    BY <1>2, <1>3 DEF Worth
  <1> HIDE DEF x, y, z
  <1>6. Worth(t - n, r, a) = Worth(t, r, a) - z
    BY <1>2, <1>4, <1>5 DEF x, y, z
  <1> QED BY <1>2, <1>6 DEF z

(* One clock unit is worth at most the rate. *)
LEMMA WorthAged ==
  ASSUME NEW t \in Nat, NEW r \in Nat, NEW a \in Nat, NEW b \in Nat, b <= a + 1
  PROVE  Worth(t, r, b) <= Worth(t, r, a) + r
  <1>1. /\ Cap(r) \in Nat /\ t * SECOND \in Nat /\ r * a \in Nat /\ r * b \in Nat
        /\ AtMost(r * a, Cap(r)) \in Nat /\ AtMost(r * b, Cap(r)) \in Nat
    BY WorthType
  <1>2. r * b <= r * a + r
    <2>1. b * r <= (a + 1) * r
      BY Products
    <2>2. (a + 1) * r = a * r + 1 * r
      BY Products
    <2> QED BY <2>1, <2>2
  <1> DEFINE p == r * a
             q == r * b
  <1> HIDE DEF p, q
  <1>3. AtMost(q, Cap(r)) <= AtMost(p, Cap(r)) + r
    BY <1>1, <1>2 DEF AtMost, p, q
  <1> DEFINE x == AtMost(p, Cap(r))
             y == AtMost(q, Cap(r))
             z == t * SECOND
  <1>4. Worth(t, r, b) = z + y - Cap(r) /\ Worth(t, r, a) = z + x - Cap(r)
    BY DEF Worth, p, q
  <1>5. x \in Nat /\ y \in Nat /\ z \in Nat /\ y <= x + r
    BY <1>1, <1>3 DEF p, q
  <1> HIDE DEF x, y, z
  <1> QED BY <1>1, <1>4, <1>5
-----------------------------------------------------------------------------
(* The numbers of an entry. *)
LEMMA EntryNumbers ==
  ASSUME NEW e \in Entry, NEW outbound \in BOOLEAN
  PROVE  /\ Tokens(e, outbound) \in Nat /\ Rate(e, outbound) \in Nat /\ e.Age \in Nat
         /\ Full(e, outbound) = Cap(Rate(e, outbound))
         /\ Bounded(e) => Tokens(e, outbound) <= ThrottleBucketCapacity(Rate(e, outbound))
  BY InputAssumption DEF Entry, Tokens, Rate, Full, Cap, Bounded

(* A refilled entry is worth no more than before. *)
LEMMA RefillNeverGains ==
  ASSUME NEW e \in Entry, Bounded(e), NEW o \in BOOLEAN
  PROVE  Worth(Tokens(RefillEntry(e), o), Rate(RefillEntry(e), o), RefillEntry(e).Age)
           <= Worth(Tokens(e, o), Rate(e, o), e.Age)
  <1> DEFINE t == Tokens(e, o)
             r == Rate(e, o)
             f == RefillEntry(e)
  <1>1. t \in Nat /\ r \in Nat /\ e.Age \in Nat /\ t <= ThrottleBucketCapacity(r)
    BY EntryNumbers
  <1>2. Worth(t, r, e.Age) \in Int
    BY <1>1, WorthType
  <1>3. CASE f = e
    BY <1>2, <1>3
  <1>4. CASE f # e
    <2>1. f = [e EXCEPT !.TokensUp = @ + Earned(e.RateUpBps, e.TokensUp, e.Age),
                        !.TokensDown = @ + Earned(e.RateDownBps, e.TokensDown, e.Age),
                        !.Age = 0]
      BY <1>4 DEF RefillEntry
    <2>2. f.Age = 0 /\ Rate(f, o) = r /\ Tokens(f, o) = t + Earned(r, t, e.Age)
      BY <2>1 DEF Entry, Rate, Tokens
    <2> QED BY <1>1, <2>2, WorthRefill
  <1> QED BY <1>3, <1>4

(* A handler that sets a limit leaves every other entry alone or frees it. *)
LEMMA SetTouchesOnePid ==
  ASSUME IInv, NEW pid \in Pids, NEW up \in Rates, NEW down \in Rates,
         ThrottleSetEntry(pid, up, down), NEW i \in Slots
  PROVE  s_Entries'[i] = s_Entries[i] \/ ~InUse(i)' \/ Holds(i, pid)'
  <1>1. CASE RemoveEntry(pid)
    BY <1>1 DEF RemoveEntry, IInv, ThrottleTypeOK, InUse, ZeroEntry, tvars
  <1>2. CASE UpdateEntry(pid, up, down)
    <2>1. PICK j \in SlotsOf(pid) :
            s_Entries' = [s_Entries EXCEPT ![j] = UpdatedEntry(s_Entries[j], up, down)]
      BY <1>2 DEF UpdateEntry
    <2>2. j \in Slots /\ s_Entries[j] \in Entry /\ Holds(j, pid)
      BY DEF SlotsOf, IInv, ThrottleTypeOK
    <2>3. /\ UpdatedEntry(s_Entries[j], up, down).InUse = s_Entries[j].InUse
          /\ UpdatedEntry(s_Entries[j], up, down).ProcessId = s_Entries[j].ProcessId
      BY <2>2, SetKeepsBounds
    <2> QED BY <2>1, <2>2, <2>3 DEF IInv, ThrottleTypeOK, Holds, InUse
  <1>3. CASE AddEntry(pid, up, down)
    BY <1>3 DEF AddEntry, IInv, ThrottleTypeOK, Holds, InUse, NewEntry, tvars
  <1> QED BY <1>1, <1>2, <1>3 DEF ThrottleSetEntry

(* Every step of the table and the ideal buckets is a step of the table. *)
LEMMA RateStepIsThrottleStep == [RateNext]_rvars => [ThrottleNext]_tvars
  BY DEF RateNext, rvars, Set, Check, Time, ThrottleNext

(* Setting a limit starts a full ideal bucket. *)
LEMMA SetCovered ==
  ASSUME RInv, IInv', NEW pid \in Pids, NEW up \in Rates, NEW down \in Rates,
         Set(pid, up, down)
  PROVE  (ideal \in [Slots -> [BOOLEAN -> Int]])' /\ Covered'
  <1>1. ThrottleSetEntry(pid, up, down)
    BY DEF Set
  <1>2. \A i \in Slots : s_Entries'[i] \in Entry /\ (InUse(i)' => Bounded(s_Entries'[i]))
    BY DEF IInv, ThrottleTypeOK, BurstBounded, Bounded, InUse
  <1>3. ASSUME NEW i \in Slots, NEW o \in BOOLEAN
        PROVE  Full(s_Entries'[i], o) \in Int
    <2>1. Rate(s_Entries'[i], o) \in Nat
          /\ Full(s_Entries'[i], o) = Cap(Rate(s_Entries'[i], o))
      BY <1>2, EntryNumbers
    <2> QED BY <2>1, WorthType
  <1>4. (ideal \in [Slots -> [BOOLEAN -> Int]])'
    BY <1>3 DEF Set, RInv
  <1>5. Covered'
    <2> SUFFICES ASSUME NEW i \in Slots, NEW o \in BOOLEAN, InUse(i)'
                 PROVE  ideal'[i][o] >= Worth(Tokens(s_Entries'[i], o),
                                              Rate(s_Entries'[i], o), s_Entries'[i].Age)
      BY DEF Covered
    <2> DEFINE e == s_Entries'[i]
    <2>1. CASE Holds(i, pid)'
      <3>1. ideal'[i][o] = Full(e, o)
        BY <2>1 DEF Set
      <3>2. /\ Tokens(e, o) \in Nat /\ Rate(e, o) \in Nat /\ e.Age \in Nat
            /\ Full(e, o) = Cap(Rate(e, o))
            /\ Tokens(e, o) <= ThrottleBucketCapacity(Rate(e, o))
        BY <1>2, EntryNumbers
      <3> HIDE DEF e
      <3>3. /\ Cap(Rate(e, o)) \in Nat /\ Worth(Tokens(e, o), Rate(e, o), e.Age) \in Int
            /\ Worth(Tokens(e, o), Rate(e, o), e.Age) <= Cap(Rate(e, o))
        BY <3>2, WorthType
      <3> QED BY <3>1, <3>2, <3>3 DEF e
    <2>2. CASE ~Holds(i, pid)'
      <3>1. e = s_Entries[i] /\ ideal'[i] = ideal[i]
        BY <1>1, <2>2, SetTouchesOnePid DEF Set, RInv
      <3> QED BY <3>1 DEF RInv, Covered, InUse
    <2> QED BY <2>1, <2>2
  <1> QED BY <1>4, <1>5

(* A segment is paid for by the tokens and by the ideal bucket alike. *)
LEMMA CheckCovered ==
  ASSUME RInv, NEW pid \in Pids, NEW outbound \in BOOLEAN, NEW permitted \in BOOLEAN,
         NEW n \in Sizes, Check(pid, outbound, n, permitted)
  PROVE  (ideal \in [Slots -> [BOOLEAN -> Int]])' /\ Covered'
  <1>1. n * SECOND \in Int
    BY InputAssumption, ClockAssumption, Products
  <1>2. (ideal \in [Slots -> [BOOLEAN -> Int]])'
    <2>1. \A i \in Slots : ideal'[i] \in [BOOLEAN -> Int]
      BY <1>1 DEF Check, RInv
    <2> QED BY <2>1 DEF Check
  <1>3. \A i \in Slots : s_Entries[i] \in Entry /\ (InUse(i) => Bounded(s_Entries[i]))
    BY DEF RInv, IInv, ThrottleTypeOK, BurstBounded, Bounded, InUse
  <1>4. CASE \A i \in Slots : ~Applies(i, pid)
    <2>1. s_Entries' = s_Entries
      BY <1>4 DEF Check, ThrottleCheck, tvars
    <2>2. ideal' = ideal
      BY <1>4 DEF Check, RInv
    <2> QED BY <1>2, <2>1, <2>2 DEF RInv, Covered, InUse
  <1>5. CASE \E i \in Slots : Applies(i, pid)
    <2>1. PICK k \in Slots :
            /\ Applies(k, pid)
            /\ permitted = Passes(RefillEntry(s_Entries[k]), outbound, n)
            /\ s_Entries' = [s_Entries EXCEPT ![k] =
                 IF permitted /\ Rate(RefillEntry(s_Entries[k]), outbound) > 0
                 THEN Charge(RefillEntry(s_Entries[k]), outbound, n)
                 ELSE RefillEntry(s_Entries[k])]
      BY <1>5 DEF Check, ThrottleCheck
    <2>2. \A i \in Slots : Applies(i, pid) => i = k
      BY <2>1, InputAssumption DEF RInv, IInv, OneEntryPerPid, Applies, SlotsOf
    <2> DEFINE b == s_Entries[k]
               e == RefillEntry(b)
               pays == permitted /\ Rate(e, outbound) > 0
               c == IF pays THEN Charge(e, outbound, n) ELSE e
    <2>3. InUse(k) /\ b \in Entry /\ Bounded(b)
      BY <1>3, <2>1 DEF Applies, Holds
    <2>4. /\ e \in Entry /\ e.InUse = b.InUse
          /\ \A o \in BOOLEAN : Rate(e, o) = Rate(b, o)
      BY <2>3, RefillKeepsBounds DEF Rate
    <2>5. ASSUME NEW o \in BOOLEAN
          PROVE  /\ Tokens(e, o) \in Nat /\ Rate(e, o) \in Nat /\ e.Age \in Nat
                 /\ Worth(Tokens(e, o), Rate(e, o), e.Age) \in Int
                 /\ ideal[k][o] \in Int
                 /\ ideal[k][o] >= Worth(Tokens(e, o), Rate(e, o), e.Age)
      <3>1. /\ Tokens(e, o) \in Nat /\ Rate(e, o) \in Nat /\ e.Age \in Nat
            /\ Tokens(b, o) \in Nat /\ Rate(b, o) \in Nat /\ b.Age \in Nat
        BY <2>3, <2>4, EntryNumbers
      <3>2. Worth(Tokens(e, o), Rate(e, o), e.Age) <= Worth(Tokens(b, o), Rate(b, o), b.Age)
        BY <2>3, RefillNeverGains
      <3>3. ideal[k][o] \in Int /\ ideal[k][o] >= Worth(Tokens(b, o), Rate(b, o), b.Age)
        BY <2>3 DEF RInv, Covered
      <3> HIDE DEF b, e
      <3>4. /\ Worth(Tokens(e, o), Rate(e, o), e.Age) \in Int
            /\ Worth(Tokens(b, o), Rate(b, o), b.Age) \in Int
        BY <3>1, WorthType
      <3> QED BY <3>1, <3>2, <3>3, <3>4
    <2>6. s_Entries'[k] = c /\ \A i \in Slots : i # k => s_Entries'[i] = s_Entries[i]
      BY <2>1 DEF RInv, IInv, ThrottleTypeOK
    <2>7. ideal'[k] = IF pays THEN [ideal[k] EXCEPT ![outbound] = @ - n * SECOND]
                      ELSE ideal[k]
      BY <2>1, <2>4 DEF Check
    <2>8. \A i \in Slots : i # k => ideal'[i] = ideal[i]
      BY <2>2 DEF Check
    <2>9. permitted => Passes(e, outbound, n)
      BY <2>1
    <2> HIDE DEF e, b
    <2>10. ASSUME NEW o \in BOOLEAN
           PROVE  ideal'[k][o] >= Worth(Tokens(c, o), Rate(c, o), c.Age)
      <3>1. CASE pays /\ o = outbound
        <4>1. Tokens(e, o) >= n /\ n \in Nat
          BY <2>5, <2>9, <3>1, InputAssumption DEF Passes
        <4>2. Tokens(c, o) = Tokens(e, o) - n /\ Rate(c, o) = Rate(e, o) /\ c.Age = e.Age
          BY <2>4, <3>1 DEF Charge, Tokens, Rate, Entry
        <4>3. ideal'[k][o] = ideal[k][o] - n * SECOND
          BY <2>7, <3>1 DEF RInv
        <4>4. /\ n * SECOND \in Nat
              /\ Worth(Tokens(e, o) - n, Rate(e, o), e.Age)
                   = Worth(Tokens(e, o), Rate(e, o), e.Age) - n * SECOND
          <5>1. /\ Tokens(e, o) \in Nat /\ Rate(e, o) \in Nat /\ e.Age \in Nat
                /\ n \in Nat /\ n <= Tokens(e, o)
            BY <2>5, <4>1
          <5> QED BY <5>1, WorthPaid
        <4> QED BY <2>5, <4>2, <4>3, <4>4
      <3>2. CASE ~(pays /\ o = outbound)
        <4>1. Tokens(c, o) = Tokens(e, o) /\ Rate(c, o) = Rate(e, o) /\ c.Age = e.Age
          BY <2>4, <3>2 DEF Charge, Tokens, Rate, Entry
        <4>2. ideal'[k][o] = ideal[k][o]
          BY <2>7, <3>2 DEF RInv
        <4> QED BY <2>5, <4>1, <4>2
      <3> QED BY <3>1, <3>2
    <2> HIDE DEF c
    <2>11. Covered'
      BY <2>6, <2>8, <2>10 DEF RInv, Covered, InUse
    <2> QED BY <1>2, <2>11
  <1> QED BY <1>4, <1>5

(* A clock unit adds the rate to the ideal bucket, up to its capacity, and to
   the entry at most as much. *)
LEMMA TimeCovered ==
  ASSUME RInv, Time
  PROVE  (ideal \in [Slots -> [BOOLEAN -> Int]])' /\ Covered'
  <1>1. \A i \in Slots : s_Entries[i] \in Entry /\ (InUse(i) => Bounded(s_Entries[i]))
    BY DEF RInv, IInv, ThrottleTypeOK, BurstBounded, Bounded, InUse
  <1>2. ASSUME NEW i \in Slots, NEW o \in BOOLEAN
        PROVE  /\ Tokens(s_Entries[i], o) \in Nat /\ Rate(s_Entries[i], o) \in Nat
               /\ s_Entries[i].Age \in Nat
               /\ Full(s_Entries[i], o) = Cap(Rate(s_Entries[i], o))
               /\ Full(s_Entries[i], o) \in Nat /\ ideal[i][o] \in Int
    <2>1. /\ Tokens(s_Entries[i], o) \in Nat /\ Rate(s_Entries[i], o) \in Nat
          /\ s_Entries[i].Age \in Nat
          /\ Full(s_Entries[i], o) = Cap(Rate(s_Entries[i], o))
      BY <1>1, EntryNumbers
    <2>2. Cap(Rate(s_Entries[i], o)) \in Nat
      BY <2>1, WorthType
    <2> QED BY <2>1, <2>2 DEF RInv
  <1>3. (ideal \in [Slots -> [BOOLEAN -> Int]])'
    <2>1. \A i \in Slots, o \in BOOLEAN :
            AtMost(ideal[i][o] + Rate(s_Entries[i], o), Full(s_Entries[i], o)) \in Int
      BY <1>2 DEF AtMost
    <2> QED BY <1>2, <2>1 DEF Time
  <1>4. Covered'
    <2> SUFFICES ASSUME NEW i \in Slots, NEW o \in BOOLEAN, InUse(i)'
                 PROVE  ideal'[i][o] >= Worth(Tokens(s_Entries'[i], o),
                                              Rate(s_Entries'[i], o), s_Entries'[i].Age)
      BY DEF Covered
    <2> DEFINE b == s_Entries[i]
               age == AtMost(b.Age + 1, MaxAge)
    <2>1. InUse(i) /\ s_Entries'[i] = [b EXCEPT !.Age = age]
      BY DEF Time, ClockTick, InUse
    <2>2. /\ Tokens(s_Entries'[i], o) = Tokens(b, o) /\ Rate(s_Entries'[i], o) = Rate(b, o)
          /\ s_Entries'[i].Age = age
      BY <1>1, <2>1 DEF Entry, Tokens, Rate
    <2>3. age \in Nat /\ age <= b.Age + 1
      BY <1>2, ClockAssumption DEF AtMost
    <2>4. /\ Tokens(b, o) \in Nat /\ Rate(b, o) \in Nat /\ b.Age \in Nat
          /\ Tokens(b, o) <= ThrottleBucketCapacity(Rate(b, o))
      BY <1>1, <1>2, <2>1, EntryNumbers
    <2>5. ideal'[i][o] = AtMost(ideal[i][o] + Rate(b, o), Full(b, o))
      BY <2>1 DEF Time
    <2>6. ideal[i][o] >= Worth(Tokens(b, o), Rate(b, o), b.Age)
      BY <2>1 DEF RInv, Covered
    <2> HIDE DEF age
    <2>7. /\ Worth(Tokens(b, o), Rate(b, o), b.Age) \in Int
          /\ Worth(Tokens(b, o), Rate(b, o), age) \in Int
          /\ Worth(Tokens(b, o), Rate(b, o), age) <= Cap(Rate(b, o))
      BY <2>3, <2>4, WorthType
    <2>8. Worth(Tokens(b, o), Rate(b, o), age)
            <= Worth(Tokens(b, o), Rate(b, o), b.Age) + Rate(b, o)
      BY <2>3, <2>4, WorthAged
    <2> DEFINE w == Worth(Tokens(b, o), Rate(b, o), age)
               v == Worth(Tokens(b, o), Rate(b, o), b.Age)
    <2>9. /\ ideal[i][o] \in Int /\ Full(b, o) \in Nat /\ Full(b, o) = Cap(Rate(b, o))
      BY <1>2
    <2> HIDE DEF w, v, b
    <2>10. AtMost(ideal[i][o] + Rate(b, o), Full(b, o)) >= w
      BY <2>4, <2>6, <2>7, <2>8, <2>9 DEF AtMost, w, v
    <2> QED BY <2>2, <2>5, <2>10 DEF w, b
  <1> QED BY <1>3, <1>4

(* The invariant holds of the empty table. *)
LEMMA InitRInv == RateInit => RInv
  <1> SUFFICES ASSUME RateInit PROVE RInv
    OBVIOUS
  <1>1. IInv
    BY InitIInv DEF RateInit
  <1>2. ideal \in [Slots -> [BOOLEAN -> Int]]
    BY DEF RateInit
  <1>3. Covered
    BY DEF RateInit, ThrottleInit, ZeroEntry, Covered, InUse
  <1> QED BY <1>1, <1>2, <1>3 DEF RInv

(* Every step preserves it. *)
LEMMA NextRInv ==
  ASSUME RInv, [RateNext]_rvars
  PROVE  RInv'
  <1>1. IInv'
    BY RateStepIsThrottleStep, NextIInv DEF RInv
  <1>2. ASSUME NEW pid \in Pids, ThrottleRemoveByPid(pid), UNCHANGED ideal
        PROVE  (ideal \in [Slots -> [BOOLEAN -> Int]])' /\ Covered'
    <2>1. \A i \in Slots : InUse(i)' => InUse(i) /\ s_Entries'[i] = s_Entries[i]
      BY <1>2 DEF ThrottleRemoveByPid, InUse, ZeroEntry
    <2> QED BY <1>2, <2>1 DEF RInv, Covered
  <1>3. ASSUME ThrottleClearAll, UNCHANGED ideal
        PROVE  (ideal \in [Slots -> [BOOLEAN -> Int]])' /\ Covered'
    BY <1>3 DEF ThrottleClearAll, ZeroEntry, RInv, Covered, InUse
  <1>4. ASSUME UNCHANGED rvars
        PROVE  (ideal \in [Slots -> [BOOLEAN -> Int]])' /\ Covered'
    BY <1>4 DEF rvars, tvars, RInv, Covered, InUse
  <1> QED BY <1>1, <1>2, <1>3, <1>4, SetCovered, CheckCovered, TimeCovered
          DEF RateNext, RInv

(* The invariant is enough. *)
LEMMA RInvSuffices == RInv => OverdraftBounded
  <1> SUFFICES ASSUME RInv, NEW i \in Slots, NEW o \in BOOLEAN, InUse(i)
               PROVE  ideal[i][o] >= -Full(s_Entries[i], o)
    BY DEF OverdraftBounded
  <1> DEFINE e == s_Entries[i]
  <1>1. e \in Entry /\ ideal[i][o] \in Int
        /\ ideal[i][o] >= Worth(Tokens(e, o), Rate(e, o), e.Age)
    BY DEF RInv, IInv, ThrottleTypeOK, Covered
  <1> HIDE DEF e
  <1>2. /\ Tokens(e, o) \in Nat /\ Rate(e, o) \in Nat /\ e.Age \in Nat
        /\ Full(e, o) = Cap(Rate(e, o))
    BY <1>1, EntryNumbers
  <1>3. /\ Cap(Rate(e, o)) \in Nat /\ Worth(Tokens(e, o), Rate(e, o), e.Age) \in Int
        /\ Worth(Tokens(e, o), Rate(e, o), e.Age) >= -Cap(Rate(e, o))
    BY <1>2, WorthType
  <1> QED BY <1>1, <1>2, <1>3 DEF e

(* Whatever the rates, the sizes and the timing of the segments, a limited
   process never gets more than one bucket capacity ahead of its limit. *)
THEOREM RateEnforced == RateSpec => []OverdraftBounded
  <1>1. RateInit => RInv
    BY InitRInv
  <1>2. RInv /\ [RateNext]_rvars => RInv'
    BY NextRInv
  <1>3. RInv => OverdraftBounded
    BY RInvSuffices
  <1> QED BY <1>1, <1>2, <1>3, PTL DEF RateSpec
-----------------------------------------------------------------------------
(***************************************************************************)
(* Pacing.  The invariant speaks of the packets at each place as sets, and *)
(* a step is described by the sets it moves: packets enter at a classify,  *)
(* a hold puts one at the end of a queue, a batch takes them off the front *)
(* of the queues (Taken), and they leave from a classify or a batch        *)
(* (Left).                                                                 *)
(***************************************************************************)
Places == {"classify", "held", "batch", "injected", "done", "dropped"}
Packet == [pid : Procs, bytes : Sizes, family : Families, cpu : Cpus, place : Places]
Context == [InUse : BOOLEAN, ProcessId : Pids, Queue : Seq(Nat), PacketCount : Int, QueuedBytes : Int]
Classifying == {Idle} \cup [pc : {"has_held", "check", "hold", "fail"}, pkt : Nat]
NonEmpty == Seq(Nat) \ {<<>>}
Ticking == {Idle} \cup [pc : {"scan"}, ctx : Nat, batch : Seq(Nat)]
                  \cup [pc : {"inject"}, batch : NonEmpty]
Flushing == {Idle} \cup [pc : {"flush", "remove"}, target : Int]
                   \cup [pc : {"inject"}, target : Int, batch : NonEmpty]
Phases == {"loaded", "notify_off", "timer_off", "callouts_off", "cleared", "draining", "unloaded"}

PacingType ==
  /\ packets \in Seq(Packet) /\ Len(packets) <= MaxPackets
  /\ s_Contexts \in [Contexts -> Context]
  /\ s_GlobalQueuedBytes \in Int
  /\ s_InjHandle \in [Families -> BOOLEAN]
  /\ cpu \in [Cpus -> Classifying]
  /\ dpc \in Ticking
  /\ thread \in [Threads -> Flushing]
  /\ phase \in Phases

(* The three kinds of owner: the classify at work on a packet, the queues, and
   the batches of the DPC and the threads. *)
Actors == Threads \cup {"dpc"}
Busy(c) == cpu[c] # Idle
Work(c) == cpu[c].pkt
Q(i) == s_Contexts[i].Queue
B(a) == IF a = "dpc" THEN BatchOf(dpc) ELSE BatchOf(thread[a])

SumOver(w, S) == FoldFunctionOnSet(+, 0, w, S)
At(place) == {k \in Packets : Place(k) = place}
Weight == [k \in Packets |-> Bytes(k)]

(* A packet is where its owner says, and has one owner. *)
Owned ==
  /\ At("classify") = {Work(c) : c \in {c \in Cpus : Busy(c)}}
  /\ \A c \in Cpus : Busy(c) => packets[Work(c)].cpu = c
  /\ At("held") = UNION {Range(Q(i)) : i \in Contexts}
  /\ \A i \in Contexts : IsInjective(Q(i))
  /\ At("batch") = UNION {Range(B(a)) : a \in Actors}
  /\ \A a \in Actors : IsInjective(B(a))
  /\ \A a, b \in Actors : a # b => Range(B(a)) \cap Range(B(b)) = {}

(* A process has one queue, with its packets and in the order in which each
   processor classified them. *)
Queues ==
  /\ \A i \in Contexts : ~s_Contexts[i].InUse => Q(i) = <<>>
  /\ \A i, j \in Contexts : s_Contexts[i].InUse /\ s_Contexts[j].InUse
                            /\ s_Contexts[i].ProcessId = s_Contexts[j].ProcessId => i = j
  /\ \A i \in Contexts : \A p \in DOMAIN Q(i) : Pid(Q(i)[p]) = s_Contexts[i].ProcessId
  /\ \A i \in Contexts : \A p, q \in DOMAIN Q(i) :
       p < q /\ packets[Q(i)[p]].cpu = packets[Q(i)[q]].cpu => Q(i)[p] < Q(i)[q]

(* What HeldBytesExact says, with the packets of a queue as a set. *)
Counted ==
  /\ \A i \in Contexts : /\ s_Contexts[i].PacketCount = Len(Q(i))
                         /\ s_Contexts[i].QueuedBytes = SumOver(Weight, Range(Q(i)))
                         /\ s_Contexts[i].QueuedBytes <= PACING_PID_HOLD_LIMIT
  /\ s_GlobalQueuedBytes = SumOver(Weight, At("held"))
  /\ s_GlobalQueuedBytes <= PACING_GLOBAL_HOLD_LIMIT

(* A processor works on its latest packet; one that is about to ask for tokens
   has no earlier packet of the process in the queue. *)
Latest ==
  \A c \in Cpus : Busy(c) =>
    /\ \A k \in Packets : packets[k].cpu = c => k <= Work(c)
    /\ cpu[c].pc = "check" =>
         \A k \in At("held") : packets[k].pid = packets[Work(c)].pid => packets[k].cpu # c

(* What each step of DriverUnload has stopped.  A callback that is not registered
   any more is not running either; one that could not be unregistered may be. *)
Stopped ==
  /\ phase # "loaded" => thread["ioctl"] = Idle
  /\ "notify" \notin registered => thread["notify"] = Idle
  /\ phase \notin {"loaded", "notify_off"} => dpc = Idle
  /\ "inbound" \notin registered => \A c \in Cpus : ~Busy(c)
  /\ phase \in {"loaded", "notify_off", "timer_off", "callouts_off", "unloaded"} => thread["unload"] = Idle
  /\ thread["unload"] # Idle => thread["unload"].target = EveryPid /\ thread["unload"].pc # "remove"
  /\ phase \in {"cleared", "draining", "unloaded"} /\ thread["unload"] = Idle
     /\ "inbound" \notin registered => \A i \in Contexts : Q(i) = <<>>
  /\ registered \subseteq Callbacks

PacingInv == PacingType /\ Owned /\ Queues /\ Counted /\ Latest /\ Stopped /\ HandleOutlivesPackets
-----------------------------------------------------------------------------
(* Sums.  A fold is a recursive function that CHOOSE picks, so each claim about
   it is shown on a smallest set for which it would be false. *)

(* One iteration of the fold. *)
First(s) == CHOOSE x \in s : TRUE
IsIter(w, S, g) == g = [s \in SUBSET S |-> IF s = {} THEN 0 ELSE w[First(s)] + g[s \ {First(s)}]]
Iter(w, S) == CHOOSE g : IsIter(w, S, g)

(* The fold is its last iteration. *)
LEMMA SumDef ==
  ASSUME NEW w, NEW S
  PROVE  SumOver(w, S) = Iter(w, S)[S]
BY Zenon DEF SumOver, FoldFunctionOnSet, MapThenFoldSet, Iter, IsIter, First

(* A family of finite sets has one that contains no other. *)
LEMMA MinimalSet ==
  ASSUME NEW S, IsFiniteSet(S), NEW F, F \subseteq SUBSET S, F # {}
  PROVE  \E U \in F : \A V \in F : V \subseteq U => V = U
<1>1. F \subseteq FiniteSubsetsOf(S)
  BY FS_Subset DEF FiniteSubsetsOf
<1>2. PICK U \in F : \A V \in F : ~(<<V, U>> \in StrictSubsetOrdering(S))
  BY <1>1, WFMin, FS_StrictSubsetOrderingWellFounded, Zenon
<1> QED
  BY <1>2 DEF StrictSubsetOrdering

(* Two iterations agree where both are defined. *)
LEMMA IterAgree ==
  ASSUME NEW w, NEW S, IsFiniteSet(S), NEW T \in SUBSET S, NEW g, NEW h, IsIter(w, S, g), IsIter(w, T, h)
  PROVE  \A s \in SUBSET T : g[s] = h[s]
<1> DEFINE F == {s \in SUBSET T : g[s] # h[s]}
<1>1. SUFFICES ASSUME F # {} PROVE FALSE
  OBVIOUS
<1>2. IsFiniteSet(T)
  BY FS_Subset
<1>3. PICK s \in F : \A r \in F : r \subseteq s => r = s
  <2>1. F \subseteq SUBSET T
    OBVIOUS
  <2> HIDE DEF F
  <2> QED
    BY <1>1, <1>2, <2>1, MinimalSet
<1>4. /\ g[s] = IF s = {} THEN 0 ELSE w[First(s)] + g[s \ {First(s)}]
      /\ h[s] = IF s = {} THEN 0 ELSE w[First(s)] + h[s \ {First(s)}]
  BY DEF IsIter
<1>5. s # {} => First(s) \in s
  BY DEF First
<1>6. s # {} => s \ {First(s)} \in SUBSET T /\ s \ {First(s)} \subseteq s /\ s \ {First(s)} # s
  BY <1>5
<1>7. s # {} => g[s \ {First(s)}] = h[s \ {First(s)}]
  BY <1>3, <1>6
<1> QED
  BY <1>4, <1>7

(* The iteration over a finite set exists. *)
LEMMA IterExists ==
  ASSUME NEW w, NEW S, IsFiniteSet(S)
  PROVE  \A T \in SUBSET S : IsIter(w, T, Iter(w, T))
<1> DEFINE F == {T \in SUBSET S : ~IsIter(w, T, Iter(w, T))}
<1>1. SUFFICES ASSUME F # {} PROVE FALSE
  OBVIOUS
<1>2. PICK T \in F : \A r \in F : r \subseteq T => r = T
  <2>1. F \subseteq SUBSET S
    OBVIOUS
  <2> HIDE DEF F
  <2> QED
    BY <1>1, <2>1, MinimalSet
<1>3. \A r \in SUBSET T : r # T => IsIter(w, r, Iter(w, r))
  BY <1>2
<1> DEFINE h == [s \in SUBSET T |-> IF s = {} THEN 0
                  ELSE w[First(s)] + Iter(w, s \ {First(s)})[s \ {First(s)}]]
<1>4. ASSUME NEW s \in SUBSET T, s # {}
      PROVE  h[s \ {First(s)}] = Iter(w, s \ {First(s)})[s \ {First(s)}]
  <2> DEFINE r == s \ {First(s)}
  <2>1. First(s) \in s
    BY <1>4 DEF First
  <2>2. r \in SUBSET T /\ r # T /\ IsFiniteSet(T) /\ IsFiniteSet(r)
    BY <2>1, FS_Subset
  <2>3. IsIter(w, r, Iter(w, r))
    BY <1>3, <2>2
  <2> DEFINE q == r \ {First(r)}
  <2>4. CASE r = {}
    <3>1. Iter(w, r)[r] = 0
      BY <2>3, <2>4 DEF IsIter
    <3>2. h[r] = 0
      BY <2>2, <2>4
    <3> QED
      BY <3>1, <3>2
  <2>5. CASE r # {}
    <3>1. First(r) \in r
      BY <2>5 DEF First
    <3>2. q \in SUBSET r /\ q # T /\ q \in SUBSET T
      BY <2>2, <3>1
    <3>3. IsIter(w, q, Iter(w, q))
      BY <1>3, <3>2
    <3>4. Iter(w, r)[q] = Iter(w, q)[q]
      BY <2>2, <2>3, <3>2, <3>3, IterAgree
    <3>5. Iter(w, r)[r] = w[First(r)] + Iter(w, r)[q]
      BY <2>3, <2>5 DEF IsIter
    <3>6. h[r] = w[First(r)] + Iter(w, q)[q]
      BY <2>2, <2>5
    <3> QED
      BY <3>4, <3>5, <3>6
  <2> QED
    BY <2>4, <2>5
<1>5. h = [s \in SUBSET T |-> IF s = {} THEN 0 ELSE w[First(s)] + h[s \ {First(s)}]]
  BY <1>4
<1> HIDE DEF h
<1>6. IsIter(w, T, h)
  BY <1>5 DEF IsIter
<1>7. IsIter(w, T, Iter(w, T))
  BY <1>6 DEF Iter
<1> QED
  BY <1>2, <1>7

(* The sum, whichever element is taken first. *)
LEMMA SumSplit ==
  ASSUME NEW w, NEW S, IsFiniteSet(S), \A a \in S : w[a] \in Nat
  PROVE  /\ SumOver(w, {}) = 0
         /\ \A T \in SUBSET S : SumOver(w, T) \in Nat
         /\ \A T \in SUBSET S : \A a \in T : SumOver(w, T) = w[a] + SumOver(w, T \ {a})
<1>1. ASSUME NEW T \in SUBSET S PROVE IsFiniteSet(T) /\ IsIter(w, T, Iter(w, T))
  BY FS_Subset, IterExists
<1>2. SumOver(w, {}) = 0
  <2>1. Iter(w, {})[{}] = 0
    BY <1>1, Zenon DEF IsIter
  <2> QED
    BY <2>1, SumDef
<1>3. ASSUME NEW T \in SUBSET S, T # {}
      PROVE  First(T) \in T /\ SumOver(w, T) = w[First(T)] + SumOver(w, T \ {First(T)})
  <2> DEFINE r == T \ {First(T)}
  <2>1. First(T) \in T
    BY <1>3 DEF First
  <2>2. IsFiniteSet(T) /\ IsIter(w, T, Iter(w, T)) /\ IsIter(w, r, Iter(w, r)) /\ r \in SUBSET T
    BY <1>1
  <2> HIDE DEF r
  <2>3. Iter(w, T)[r] = Iter(w, r)[r]
    BY <2>2, IterAgree
  <2>4. Iter(w, T)[T] = w[First(T)] + Iter(w, T)[r]
    BY <1>3, <2>2 DEF IsIter, r
  <2> QED
    BY <2>1, <2>3, <2>4, SumDef DEF r
<1>4. \A T \in SUBSET S : SumOver(w, T) \in Nat
  <2> DEFINE F == {T \in SUBSET S : SumOver(w, T) \notin Nat}
  <2>1. SUFFICES ASSUME F # {} PROVE FALSE
    OBVIOUS
  <2>2. PICK T \in F : \A r \in F : r \subseteq T => r = T
    <3>1. F \subseteq SUBSET S
      OBVIOUS
    <3> HIDE DEF F
    <3> QED
      BY <2>1, <3>1, MinimalSet
  <2>3. T # {}
    BY <1>2
  <2>4. First(T) \in T /\ SumOver(w, T) = w[First(T)] + SumOver(w, T \ {First(T)})
    BY <1>3, <2>3
  <2>5. T \ {First(T)} \in SUBSET S /\ T \ {First(T)} \subseteq T /\ T \ {First(T)} # T
    BY <2>4
  <2>6. SumOver(w, T \ {First(T)}) \in Nat
    BY <2>2, <2>5
  <2>7. w[First(T)] \in Nat
    BY <2>4
  <2> QED
    BY <2>4, <2>6, <2>7
<1>5. \A T \in SUBSET S : \A a \in T : SumOver(w, T) = w[a] + SumOver(w, T \ {a})
  <2> DEFINE F == {T \in SUBSET S : \E a \in T : SumOver(w, T) # w[a] + SumOver(w, T \ {a})}
  <2>1. SUFFICES ASSUME F # {} PROVE FALSE
    OBVIOUS
  <2>2. PICK T \in F : \A r \in F : r \subseteq T => r = T
    <3>1. F \subseteq SUBSET S
      OBVIOUS
    <3> HIDE DEF F
    <3> QED
      BY <2>1, <3>1, MinimalSet
  <2>3. PICK a \in T : SumOver(w, T) # w[a] + SumOver(w, T \ {a})
    BY <2>2
  <2>4. PICK b : b = First(T)
    OBVIOUS
  <2>5. b \in T /\ SumOver(w, T) = w[b] + SumOver(w, T \ {b}) /\ a # b
    BY <1>3, <2>3, <2>4
  <2>6. SumOver(w, T \ {b}) = w[a] + SumOver(w, (T \ {b}) \ {a})
    <3>1. T \ {b} \in SUBSET S /\ T \ {b} \subseteq T /\ T \ {b} # T /\ a \in T \ {b}
      BY <2>5
    <3> QED
      BY <2>2, <3>1
  <2>7. SumOver(w, T \ {a}) = w[b] + SumOver(w, (T \ {a}) \ {b})
    <3>1. T \ {a} \in SUBSET S /\ T \ {a} \subseteq T /\ T \ {a} # T /\ b \in T \ {a}
      BY <2>5
    <3> QED
      BY <2>2, <3>1
  <2>8. PICK U \in SUBSET S : U = (T \ {b}) \ {a} /\ U = (T \ {a}) \ {b}
    OBVIOUS
  <2>9. SumOver(w, U) \in Nat /\ w[a] \in Nat /\ w[b] \in Nat
    BY <1>4, <2>5
  <2>10. SumOver(w, T) = w[b] + (w[a] + SumOver(w, U))
    BY <2>5, <2>6, <2>8
  <2>11. SumOver(w, T \ {a}) = w[b] + SumOver(w, U)
    BY <2>7, <2>8
  <2>12. SumOver(w, T) = w[a] + (w[b] + SumOver(w, U))
    BY <2>9, <2>10
  <2> QED
    BY <2>3, <2>11, <2>12
<1> QED
  BY <1>2, <1>4, <1>5

(* Two sums are equal when a bijection takes the terms of one to the terms of
   the other. *)
LEMMA SumRenamed ==
  ASSUME NEW w, NEW v, NEW f, NEW S, IsFiniteSet(S), \A a \in S : w[a] \in Nat /\ v[f[a]] = w[a],
         \A a, b \in S : f[a] = f[b] => a = b
  PROVE  SumOver(v, {f[a] : a \in S}) = SumOver(w, S)
<1> DEFINE Image(T) == {f[a] : a \in T}
           F == {T \in SUBSET S : SumOver(v, Image(T)) # SumOver(w, T)}
<1>1. SUFFICES ASSUME F # {} PROVE FALSE
  OBVIOUS
<1>2. PICK T \in F : \A r \in F : r \subseteq T => r = T
  <2>1. F \subseteq SUBSET S
    OBVIOUS
  <2> HIDE DEF F
  <2> QED
    BY <1>1, <2>1, MinimalSet
<1>3. IsFiniteSet(Image(S)) /\ \A b \in Image(S) : v[b] \in Nat
  <2> DEFINE g == [a \in S |-> f[a]]
  <2>1. g \in Surjection(S, Image(S))
    BY DEF Surjection
  <2>2. IsFiniteSet(Image(S))
    BY <2>1, FS_Surjection
  <2> QED
    BY <2>2
<1>4. SumOver(w, {}) = 0 /\ SumOver(v, {}) = 0
  BY <1>3, SumSplit
<1>5. PICK a \in T : TRUE
  <2>1. Image({}) = {}
    OBVIOUS
  <2> QED
    BY <1>2, <1>4, <2>1
<1>6. SumOver(w, T) = w[a] + SumOver(w, T \ {a})
  BY SumSplit
<1>7. SumOver(v, Image(T)) = v[f[a]] + SumOver(v, Image(T) \ {f[a]})
  <2>1. Image(T) \in SUBSET Image(S) /\ f[a] \in Image(T)
    OBVIOUS
  <2> HIDE DEF Image
  <2> QED
    BY <1>3, <2>1, SumSplit
<1>8. Image(T) \ {f[a]} = Image(T \ {a})
  OBVIOUS
<1>9. T \ {a} \in SUBSET S /\ T \ {a} \subseteq T /\ T \ {a} # T
  BY <1>5
<1>10. SumOver(v, Image(T \ {a})) = SumOver(w, T \ {a}) /\ v[f[a]] = w[a]
  BY <1>2, <1>9
<1> QED
  BY <1>6, <1>7, <1>8, <1>10

(* Only the terms of the set count. *)
LEMMA SumSame ==
  ASSUME NEW w, NEW v, NEW S, IsFiniteSet(S), \A a \in S : w[a] \in Nat /\ v[a] = w[a]
  PROVE  SumOver(v, S) = SumOver(w, S)
<1> DEFINE f == [a \in S |-> a]
<1>1. {f[a] : a \in S} = S /\ \A a, b \in S : f[a] = f[b] => a = b
  OBVIOUS
<1>2. \A a \in S : w[a] \in Nat /\ v[f[a]] = w[a]
  OBVIOUS
<1> HIDE DEF f
<1>3. SumOver(v, {f[a] : a \in S}) = SumOver(w, S)
  BY <1>1, <1>2, SumRenamed
<1> QED
  BY <1>1, <1>3

(* The sum over two sets that share nothing. *)
LEMMA SumUnion ==
  ASSUME NEW w, NEW S, IsFiniteSet(S), \A a \in S : w[a] \in Nat, NEW T \in SUBSET S, NEW U \in SUBSET S,
         T \cap U = {}
  PROVE  /\ SumOver(w, T \cup U) = SumOver(w, T) + SumOver(w, U)
         /\ SumOver(w, T) \in Nat /\ SumOver(w, U) \in Nat /\ SumOver(w, T \cup U) \in Nat
<1> DEFINE F == {V \in SUBSET T : SumOver(w, V \cup U) # SumOver(w, V) + SumOver(w, U)}
<1>0. SumOver(w, T) \in Nat /\ SumOver(w, U) \in Nat /\ SumOver(w, T \cup U) \in Nat
  BY SumSplit
<1>1. ASSUME F # {} PROVE FALSE
  <2>1. PICK V \in F : \A r \in F : r \subseteq V => r = V
    <3>1. F \subseteq SUBSET T /\ IsFiniteSet(T)
      BY FS_Subset
    <3> HIDE DEF F
    <3> QED
      BY <1>1, <3>1, MinimalSet
  <2>2. SumOver(w, {}) = 0 /\ SumOver(w, U) \in Nat /\ {} \cup U = U
    BY SumSplit
  <2>3. PICK a \in V : TRUE
    <3>1. SumOver(w, {} \cup U) = SumOver(w, {}) + SumOver(w, U)
      BY <2>2
    <3> QED
      BY <2>1, <3>1
  <2>4. SumOver(w, V) = w[a] + SumOver(w, V \ {a}) /\ SumOver(w, V \ {a}) \in Nat /\ w[a] \in Nat
    BY SumSplit
  <2>5. SumOver(w, V \cup U) = w[a] + SumOver(w, (V \cup U) \ {a})
    BY SumSplit
  <2>6. (V \cup U) \ {a} = (V \ {a}) \cup U /\ V \ {a} \subseteq V /\ V \ {a} # V /\ V \ {a} \in SUBSET T
    BY <2>3
  <2>7. SumOver(w, (V \ {a}) \cup U) = SumOver(w, V \ {a}) + SumOver(w, U)
    BY <2>1, <2>6
  <2> QED
    BY <2>1, <2>2, <2>4, <2>5, <2>6, <2>7
<1> QED
  BY <1>0, <1>1
-----------------------------------------------------------------------------
(* Sequences without repetition. *)
IsCut(s, n, front, back) ==
  \E m \in Nat :
    /\ n \in 0 .. m
    /\ DOMAIN s = 1 .. m /\ DOMAIN front = 1 .. n /\ DOMAIN back = 1 .. m - n
    /\ \A p \in 1 .. n : front[p] = s[p]
    /\ \A p \in 1 .. m - n : back[p] = s[p + n]

(* The two parts are injective and share the range between them. *)
LEMMA CutIndexed ==
  ASSUME NEW s, NEW n, NEW front, NEW back, IsInjective(s), IsCut(s, n, front, back)
  PROVE  /\ IsInjective(front) /\ IsInjective(back)
         /\ Range(front) \cup Range(back) = Range(s) /\ Range(front) \cap Range(back) = {}
<1>0. PICK m \in Nat : /\ n \in 0 .. m
                       /\ DOMAIN s = 1 .. m /\ DOMAIN front = 1 .. n /\ DOMAIN back = 1 .. m - n
                       /\ \A p \in 1 .. n : front[p] = s[p]
                       /\ \A p \in 1 .. m - n : back[p] = s[p + n]
  BY DEF IsCut
<1>1. \A p \in 1 .. n : p \in DOMAIN s
  BY <1>0
<1>2. \A p \in 1 .. m - n : p + n \in DOMAIN s /\ p + n > n
  BY <1>0
<1>3. \A p, q \in DOMAIN s : s[p] = s[q] => p = q
  BY DEF IsInjective
<1>4. IsInjective(front)
  BY <1>0, <1>1, <1>3 DEF IsInjective
<1>5. IsInjective(back)
  <2> SUFFICES ASSUME NEW p \in 1 .. m - n, NEW q \in 1 .. m - n, back[p] = back[q] PROVE p = q
    BY <1>0 DEF IsInjective
  <2>1. p + n = q + n
    BY <1>0, <1>2, <1>3
  <2> QED
    BY <1>0, <2>1
<1>6. ASSUME NEW p \in 1 .. n, NEW q \in 1 .. m - n PROVE front[p] # back[q]
  <2>1. p # q + n
    BY <1>0, <1>2
  <2> QED
    BY <1>0, <1>1, <1>2, <1>3, <2>1
<1>7. Range(front) \cap Range(back) = {}
  BY <1>0, <1>6 DEF Range
<1>8. Range(front) \subseteq Range(s) /\ Range(back) \subseteq Range(s)
  BY <1>0, <1>1, <1>2 DEF Range
<1>9. ASSUME NEW p \in 1 .. m PROVE s[p] \in Range(front) \cup Range(back)
  <2>1. CASE p \in 1 .. n
    BY <1>0, <2>1 DEF Range
  <2>2. CASE p \notin 1 .. n
    <3>1. PICK q \in 1 .. m - n : p = q + n
      <4>1. p - n \in 1 .. m - n /\ p = p - n + n
        BY <1>0, <2>2
      <4> QED
        BY <4>1
    <3>2. s[p] = back[q]
      BY <1>0, <3>1
    <3> QED
      BY <1>0, <3>2 DEF Range
  <2> QED
    BY <2>1, <2>2
<1>10. Range(s) \subseteq Range(front) \cup Range(back)
  BY <1>0, <1>9 DEF Range
<1> QED
  BY <1>4, <1>5, <1>7, <1>8, <1>10

(* A queue cut in two: what is taken and what is left share no packet. *)
LEMMA CutShape ==
  ASSUME NEW s \in Seq(Nat), IsInjective(s), NEW n \in 0 .. Len(s)
  PROVE  /\ SubSeq(s, 1, n) \in Seq(Nat) /\ Len(SubSeq(s, 1, n)) = n /\ IsInjective(SubSeq(s, 1, n))
         /\ \A p \in 1 .. n : SubSeq(s, 1, n)[p] = s[p]
         /\ SubSeq(s, n + 1, Len(s)) \in Seq(Nat) /\ Len(SubSeq(s, n + 1, Len(s))) = Len(s) - n
         /\ IsInjective(SubSeq(s, n + 1, Len(s)))
         /\ \A p \in 1 .. Len(s) - n : SubSeq(s, n + 1, Len(s))[p] = s[p + n]
         /\ Range(SubSeq(s, 1, n)) \cup Range(SubSeq(s, n + 1, Len(s))) = Range(s)
         /\ Range(SubSeq(s, 1, n)) \cap Range(SubSeq(s, n + 1, Len(s))) = {}
<1> DEFINE front == SubSeq(s, 1, n)
           back == SubSeq(s, n + 1, Len(s))
<1>0. /\ Len(s) \in Nat /\ n \in Int /\ n + 1 \in Int /\ DOMAIN s = 1 .. Len(s)
      /\ (\A p \in 1 .. n : s[p] \in Nat) /\ (\A p \in n + 1 .. Len(s) : s[p] \in Nat)
  BY LenProperties, ElementOfSeq
<1>1. /\ front \in Seq(Nat)
      /\ Len(front) = IF 1 <= n THEN n - 1 + 1 ELSE 0
      /\ \A p \in 1 .. n - 1 + 1 : front[p] = s[1 + p - 1]
  BY <1>0, SubSeqProperties
<1>2. /\ back \in Seq(Nat)
      /\ Len(back) = IF n + 1 <= Len(s) THEN Len(s) - (n + 1) + 1 ELSE 0
      /\ \A p \in 1 .. Len(s) - (n + 1) + 1 : back[p] = s[n + 1 + p - 1]
  BY <1>0, SubSeqProperties
<1> HIDE DEF front, back
<1>3. PICK m \in Nat : m = Len(s)
  BY <1>0
<1>4. Len(front) = n /\ \A p \in 1 .. n : front[p] = s[p]
  BY <1>0, <1>1, <1>3
<1>5. Len(back) = m - n /\ \A p \in 1 .. m - n : back[p] = s[p + n]
  <2>1. Len(back) = m - n /\ m - (n + 1) + 1 = m - n
    BY <1>2, <1>3
  <2>2. \A p \in 1 .. m - n : n + 1 + p - 1 = p + n
    BY <1>0, <1>3
  <2> QED
    BY <1>2, <1>3, <2>1, <2>2
<1>6. DOMAIN s = 1 .. m /\ n \in 0 .. m /\ DOMAIN front = 1 .. n /\ DOMAIN back = 1 .. m - n
  BY <1>0, <1>1, <1>2, <1>3, <1>4, <1>5, LenProperties
<1>7. /\ IsInjective(front) /\ IsInjective(back)
      /\ Range(front) \cup Range(back) = Range(s) /\ Range(front) \cap Range(back) = {}
  <2>1. IsCut(s, n, front, back)
    BY <1>4, <1>5, <1>6 DEF IsCut
  <2> QED
    BY <2>1, CutIndexed
<1> QED
  BY <1>1, <1>2, <1>3, <1>4, <1>5, <1>7 DEF front, back

(* A queue with one packet more at its end. *)
LEMMA AppendShape ==
  ASSUME NEW s \in Seq(Nat), IsInjective(s), NEW k \in Nat, k \notin Range(s)
  PROVE  /\ Append(s, k) \in Seq(Nat) /\ Len(Append(s, k)) = Len(s) + 1 /\ IsInjective(Append(s, k))
         /\ DOMAIN Append(s, k) = 1 .. Len(s) + 1
         /\ \A p \in 1 .. Len(s) : Append(s, k)[p] = s[p]
         /\ Append(s, k)[Len(s) + 1] = k
         /\ Range(Append(s, k)) = Range(s) \cup {k}
<1>1. /\ Append(s, k) \in Seq(Nat) /\ Len(Append(s, k)) = Len(s) + 1
      /\ \A p \in 1 .. Len(s) : Append(s, k)[p] = s[p]
      /\ Append(s, k)[Len(s) + 1] = k
      /\ DOMAIN Append(s, k) = 1 .. Len(s) + 1 /\ DOMAIN s = 1 .. Len(s) /\ Len(s) \in Nat
  BY AppendProperties, LenProperties
<1>2. \A p \in DOMAIN Append(s, k) : p = Len(s) + 1 \/ p \in 1 .. Len(s)
  BY <1>1
<1>3. IsInjective(Append(s, k))
  BY <1>1, <1>2 DEF IsInjective, Range
<1>4. Range(Append(s, k)) = Range(s) \cup {k}
  BY <1>1, <1>2 DEF Range
<1> QED
  BY <1>1, <1>3, <1>4

(* Two batches with no packet in common, one behind the other. *)
LEMMA ConcatShape ==
  ASSUME NEW s \in Seq(Nat), IsInjective(s), NEW t \in Seq(Nat), IsInjective(t), Range(s) \cap Range(t) = {}
  PROVE  s \o t \in Seq(Nat) /\ IsInjective(s \o t) /\ Range(s \o t) = Range(s) \cup Range(t)
<1> DEFINE u == s \o t
<1>1. /\ u \in Seq(Nat) /\ Len(u) = Len(s) + Len(t)
      /\ \A p \in 1 .. Len(s) + Len(t) : u[p] = IF p <= Len(s) THEN s[p] ELSE t[p - Len(s)]
  BY ConcatProperties
<1> HIDE DEF u
<1>2. PICK m \in Nat, n \in Nat : m = Len(s) /\ n = Len(t)
  BY LenProperties
<1>3. DOMAIN s = 1 .. m /\ DOMAIN t = 1 .. n /\ DOMAIN u = 1 .. m + n
  BY <1>1, <1>2, LenProperties
<1>4. /\ \A p \in 1 .. m : p \in DOMAIN u /\ u[p] = s[p]
      /\ \A q \in 1 .. n : q + m \in DOMAIN u /\ u[q + m] = t[q]
  <2>1. ASSUME NEW p \in 1 .. m PROVE p \in DOMAIN u /\ u[p] = s[p]
    BY <1>1, <1>2, <1>3
  <2>2. ASSUME NEW q \in 1 .. n PROVE q + m \in DOMAIN u /\ u[q + m] = t[q]
    <3>1. PICK p : p = q + m
      OBVIOUS
    <3>2. p \in 1 .. m + n /\ ~(p <= m) /\ p - m = q
      BY <3>1
    <3>3. u[p] = t[q]
      BY <1>1, <1>2, <3>2
    <3> QED
      BY <1>3, <3>1, <3>2, <3>3
  <2> QED
    BY <2>1, <2>2
<1>5. ASSUME NEW p \in DOMAIN u PROVE p \in 1 .. m \/ \E q \in 1 .. n : p = q + m
  <2>1. CASE p \notin 1 .. m
    <3>1. p - m \in 1 .. n /\ p = p - m + m
      BY <1>3, <2>1
    <3> QED
      BY <3>1
  <2> QED
    BY <2>1
<1>6. ASSUME NEW p \in 1 .. m, NEW q \in 1 .. n PROVE s[p] # t[q]
  BY <1>3 DEF Range
<1>7. IsInjective(u)
  <2> SUFFICES ASSUME NEW p \in DOMAIN u, NEW q \in DOMAIN u, u[p] = u[q] PROVE p = q
    BY DEF IsInjective
  <2>1. CASE p \in 1 .. m /\ q \in 1 .. m
    BY <1>3, <1>4, <2>1 DEF IsInjective
  <2>2. CASE \E x, y \in 1 .. n : p = x + m /\ q = y + m
    <3>1. PICK x \in 1 .. n, y \in 1 .. n : p = x + m /\ q = y + m
      BY <2>2
    <3>2. t[x] = t[y]
      BY <1>4, <3>1
    <3>3. x = y
      BY <1>3, <3>2 DEF IsInjective
    <3> QED
      BY <3>1, <3>3
  <2>3. ASSUME NEW x \in 1 .. m, NEW y \in 1 .. n PROVE u[x] # u[y + m]
    BY <1>4, <1>6
  <2>4. CASE p \in 1 .. m /\ q \notin 1 .. m
    <3>1. PICK y \in 1 .. n : q = y + m
      BY <1>5, <2>4
    <3>2. u[p] # u[q]
      BY <2>3, <2>4, <3>1
    <3> QED
      BY <3>2
  <2>5. CASE p \notin 1 .. m /\ q \in 1 .. m
    <3>1. PICK y \in 1 .. n : p = y + m
      BY <1>5, <2>5
    <3>2. u[q] # u[p]
      BY <2>3, <2>5, <3>1
    <3> QED
      BY <3>2
  <2>6. CASE p \notin 1 .. m /\ q \notin 1 .. m
    BY <1>4, <1>5, <2>2, <2>6
  <2> QED
    BY <2>1, <2>4, <2>5, <2>6
<1>8. Range(u) \subseteq Range(s) \cup Range(t)
  <2> SUFFICES ASSUME NEW p \in DOMAIN u PROVE u[p] \in Range(s) \cup Range(t)
    BY DEF Range
  <2> QED
    BY <1>3, <1>4, <1>5 DEF Range
<1>9. Range(s) \subseteq Range(u) /\ Range(t) \subseteq Range(u)
  <2>1. \A p \in 1 .. m : s[p] \in Range(u)
    BY <1>4, Zenon DEF Range
  <2>2. \A q \in 1 .. n : t[q] \in Range(u)
    BY <1>4, Zenon DEF Range
  <2> QED
    BY <1>3, <2>1, <2>2 DEF Range
<1> QED
  BY <1>1, <1>7, <1>8, <1>9 DEF u

(* A queue without its first packet. *)
LEMMA TailShape ==
  ASSUME NEW s \in Seq(Nat), IsInjective(s), s # <<>>
  PROVE  /\ Head(s) \in Nat /\ Head(s) \in Range(s) /\ Len(s) >= 1 /\ s[1] = Head(s)
         /\ Tail(s) \in Seq(Nat) /\ IsInjective(Tail(s))
         /\ Range(Tail(s)) = Range(s) \ {Head(s)}
         /\ Range(SubSeq(s, 1, 1)) = {Head(s)}
         /\ Len(s) = 1 => Range(s) = {Head(s)}
<1>1. Len(s) \in Nat /\ Len(s) >= 1 /\ DOMAIN s = 1 .. Len(s) /\ 1 \in DOMAIN s /\ Head(s) = s[1] /\ Head(s) \in Nat
  BY EmptySeq, LenProperties, HeadTailProperties
<1>0. PICK n : n = 1
  OBVIOUS
<1> DEFINE front == SubSeq(s, 1, n)
           back == SubSeq(s, n + 1, Len(s))
<1>2. /\ front \in Seq(Nat) /\ Len(front) = 1 /\ front[1] = s[1]
      /\ back \in Seq(Nat) /\ IsInjective(back)
      /\ Range(front) \cup Range(back) = Range(s) /\ Range(front) \cap Range(back) = {}
      /\ Len(back) = Len(s) - 1
  <2>1. n \in 0 .. Len(s) /\ n \in 1 .. n
    BY <1>0, <1>1
  <2>2. /\ front \in Seq(Nat) /\ Len(front) = n
        /\ \A p \in 1 .. n : front[p] = s[p]
        /\ back \in Seq(Nat) /\ IsInjective(back)
        /\ Range(front) \cup Range(back) = Range(s) /\ Range(front) \cap Range(back) = {}
        /\ Len(back) = Len(s) - n
    BY <2>1, CutShape
  <2> HIDE DEF front, back
  <2> QED
    BY <1>0, <2>1, <2>2
<1>3. Tail(s) = back
  <2>1. n + 1 = 2
    BY <1>0
  <2> QED
    BY <2>1, TailIsSubSeq
<1> HIDE DEF back
<1>4. Range(front) = {s[1]}
  <2> HIDE DEF front
  <2>1. DOMAIN front = {1}
    BY <1>2, LenProperties
  <2> QED
    BY <1>2, <2>1 DEF Range
<1>5. Len(s) = 1 => Range(back) = {}
  <2>1. Len(s) = 1 => DOMAIN back = {}
    BY <1>1, <1>2, LenProperties
  <2> QED
    BY <2>1 DEF Range
<1>6. Range(back) = Range(s) \ {s[1]}
  BY <1>2, <1>4
<1>7. Len(s) = 1 => Range(s) = {s[1]}
  BY <1>2, <1>4, <1>5
<1>8. s[1] \in Range(s)
  BY <1>1 DEF Range
<1> QED
  BY <1>0, <1>1, <1>2, <1>3, <1>4, <1>6, <1>7, <1>8

(* As many places as there are packets are enough for a queue. *)
LEMMA Pigeons ==
  ASSUME NEW s \in Seq(Nat), IsInjective(s), NEW m \in Nat, Range(s) \subseteq 1 .. m
  PROVE  Len(s) <= m
<1>1. PICK l \in Nat : l = Len(s)
  BY LenProperties
<1>2. DOMAIN s = 1 .. l /\ s \in [1 .. l -> 1 .. m]
  <2>1. \A p \in DOMAIN s : s[p] \in Range(s)
    BY DEF Range
  <2> QED
    BY <1>1, <2>1, LenProperties
<1>3. IsFiniteSet(1 .. l) /\ Cardinality(1 .. l) = l
  <2>1. 1 \in Int /\ l \in Int
    OBVIOUS
  <2>2. IsFiniteSet(1 .. l) /\ Cardinality(1 .. l) = IF 1 > l THEN 0 ELSE l - 1 + 1
    BY <2>1, FS_Interval
  <2> QED
    BY <2>2
<1>4. IsFiniteSet(1 .. m) /\ Cardinality(1 .. m) = m
  <2>1. 1 \in Int /\ m \in Int
    OBVIOUS
  <2>2. IsFiniteSet(1 .. m) /\ Cardinality(1 .. m) = IF 1 > m THEN 0 ELSE m - 1 + 1
    BY <2>1, FS_Interval
  <2> QED
    BY <2>2
<1>5. ASSUME m < l PROVE FALSE
  <2>1. \E x, y \in 1 .. l : x # y /\ s[x] = s[y]
    BY <1>2, <1>3, <1>4, <1>5, FS_PigeonHole
  <2> QED
    BY <1>2, <2>1 DEF IsInjective
<1> QED
  BY <1>1, <1>5

(* A set of numbers has a least one. *)
LEMMA LeastOf ==
  ASSUME NEW F, F \subseteq Nat, F # {}
  PROVE  \E n \in F : \A m \in F : n <= m
<1>1. PICK n \in F : \A m \in F : ~(<<m, n>> \in OpToRel(<, Nat))
  BY WFMin, NatLessThanWellFounded, Zenon
<1>2. \A m \in F : ~(m < n)
  BY <1>1, Zenon DEF OpToRel
<1> QED
  BY <1>2

(* A function may be defined from its value at the place before. *)
Unfolds(g, D, b, n, step) ==
  g \in [0 .. n -> D] /\ g[0] = b /\ \A i \in 1 .. n : g[i] = step[g[i - 1]][i]

(* There is such a function for every first value and every step. *)
LEMMA Recursion ==
  ASSUME NEW D, NEW b \in D, NEW n \in Nat, NEW step \in [D -> [1 .. n -> D]]
  PROVE  \E g : Unfolds(g, D, b, n, step)
<1> DEFINE Upto(m) == \E g \in [0 .. m -> D] : g[0] = b /\ \A i \in 1 .. m : g[i] = step[g[i - 1]][i]
           F == {m \in 0 .. n : ~Upto(m)}
<1>0. SUFFICES Upto(n)
  BY DEF Unfolds
<1> HIDE DEF Upto
<1>1. SUFFICES ASSUME F # {} PROVE FALSE
  <2>1. n \in 0 .. n
    OBVIOUS
  <2> QED
    BY <2>1
<1>2. PICK m \in F : \A k \in F : m <= k
  <2>1. F \subseteq Nat
    OBVIOUS
  <2> HIDE DEF F
  <2> QED
    BY <1>1, <2>1, LeastOf
<1>3. m # 0
  <2>1. Upto(0)
    <3> DEFINE g == [i \in 0 .. 0 |-> b]
    <3>1. g \in [0 .. 0 -> D] /\ g[0] = b /\ \A i \in 1 .. 0 : g[i] = step[g[i - 1]][i]
      OBVIOUS
    <3> QED
      BY <3>1 DEF Upto
  <2> QED
    BY <1>2, <2>1
<1>4. m - 1 \in 0 .. n /\ m \in 1 .. n /\ ~(m <= m - 1)
  BY <1>3
<1>5. Upto(m - 1)
  BY <1>2, <1>4
<1>6. PICK g \in [0 .. m - 1 -> D] : g[0] = b /\ \A i \in 1 .. m - 1 : g[i] = step[g[i - 1]][i]
  BY <1>5 DEF Upto
<1> DEFINE h == [i \in 0 .. m |-> IF i = m THEN step[g[m - 1]][m] ELSE g[i]]
<1>7. g[m - 1] \in D /\ step[g[m - 1]][m] \in D
  BY <1>4
<1>8. h \in [0 .. m -> D]
  BY <1>4, <1>7
<1>9. h[0] = b
  BY <1>4, <1>6
<1>10. ASSUME NEW i \in 1 .. m PROVE h[i] = step[h[i - 1]][i]
  <2>1. i - 1 \in 0 .. m - 1 /\ h[i - 1] = g[i - 1]
    BY <1>4
  <2>2. CASE i = m
    BY <2>1, <2>2
  <2>3. CASE i # m
    <3>1. i \in 1 .. m - 1
      BY <1>4, <2>3
    <3> QED
      BY <1>6, <2>1, <3>1
  <2> QED
    BY <2>2, <2>3
<1>11. Upto(m)
  BY <1>8, <1>9, <1>10 DEF Upto
<1> QED
  BY <1>2, <1>11

(* The batch of a flush: the pieces one after another. *)
LEMMA FlattenShape ==
  ASSUME NEW n \in Nat \ {0}, NEW pieces \in [1 .. n -> Seq(Nat)],
         \A i \in 1 .. n : IsInjective(pieces[i]),
         \A i, j \in 1 .. n : i # j => Range(pieces[i]) \cap Range(pieces[j]) = {}
  PROVE  /\ FlattenSeq(pieces) \in Seq(Nat) /\ IsInjective(FlattenSeq(pieces))
         /\ Range(FlattenSeq(pieces)) = UNION {Range(pieces[i]) : i \in 1 .. n}
<1> DEFINE IsFlat(g) == g = [i \in 1 .. n |-> IF i = 1 THEN pieces[i] ELSE g[i - 1] \o pieces[i]]
           flat == CHOOSE g : IsFlat(g)
<1>1. Len(pieces) = n
  <2>1. pieces \in Seq(Seq(Nat))
    BY IsASeq
  <2> QED
    BY <2>1, LenProperties
<1>2. FlattenSeq(pieces) = flat[n]
  BY <1>1, Zenon DEF FlattenSeq
<1>3. IsFlat(flat)
  <2> DEFINE step == [s \in Seq(Nat) |-> [i \in 1 .. n |-> s \o pieces[i]]]
  <2>1. step \in [Seq(Nat) -> [1 .. n -> Seq(Nat)]]
    BY ConcatProperties
  <2>2. \A s \in Seq(Nat), i \in 1 .. n : step[s][i] = s \o pieces[i]
    OBVIOUS
  <2> HIDE DEF step
  <2>3. <<>> \in Seq(Nat)
    BY EmptySeq
  <2>4. PICK g \in [0 .. n -> Seq(Nat)] : g[0] = <<>> /\ \A i \in 1 .. n : g[i] = step[g[i - 1]][i]
    <3>1. PICK D, b : D = Seq(Nat) /\ b = <<>>
      OBVIOUS
    <3>2. b \in D
      BY <2>3, <3>1
    <3>3. n \in Nat
      OBVIOUS
    <3>4. step \in [D -> [1 .. n -> D]]
      BY <2>1, <3>1
    <3>5. \E g : Unfolds(g, D, b, n, step)
      BY <3>2, <3>3, <3>4, Recursion
    <3> QED
      BY <3>1, <3>5 DEF Unfolds
  <2>5. ASSUME NEW i \in 1 .. n PROVE g[i] = g[i - 1] \o pieces[i] /\ i - 1 \in 0 .. n
    <3>1. i - 1 \in 0 .. n
      OBVIOUS
    <3>2. g[i - 1] \in Seq(Nat) /\ g[i] = step[g[i - 1]][i]
      BY <2>4, <3>1
    <3> QED
      BY <2>2, <3>1, <3>2
  <2>6. g[1] = pieces[1]
    <3>1. g[1] = g[0] \o pieces[1] /\ pieces[1] \in Seq(Nat)
      <4>1. 1 \in 1 .. n /\ 1 - 1 = 0
        OBVIOUS
      <4> QED
        BY <2>5, <4>1
    <3> QED
      BY <2>4, <3>1, ConcatEmptySeq
  <2> DEFINE h == [i \in 1 .. n |-> g[i]]
  <2>7. ASSUME NEW i \in 1 .. n PROVE h[i] = IF i = 1 THEN pieces[i] ELSE h[i - 1] \o pieces[i]
    <3>1. i # 1 => i - 1 \in 1 .. n
      OBVIOUS
    <3> QED
      BY <2>5, <2>6, <3>1
  <2>8. h = [i \in 1 .. n |-> IF i = 1 THEN pieces[i] ELSE h[i - 1] \o pieces[i]]
    BY <2>7
  <2> HIDE DEF h
  <2>9. IsFlat(h)
    BY <2>8
  <2> HIDE DEF IsFlat
  <2> QED
    BY <2>9
<1> HIDE DEF flat
<1>4. ASSUME NEW i \in 1 .. n PROVE flat[i] = IF i = 1 THEN pieces[i] ELSE flat[i - 1] \o pieces[i]
  BY <1>3
<1> HIDE DEF IsFlat
<1> DEFINE Good(i) == /\ flat[i] \in Seq(Nat) /\ IsInjective(flat[i])
                      /\ Range(flat[i]) = UNION {Range(pieces[j]) : j \in 1 .. i}
           F == {i \in 1 .. n : ~Good(i)}
<1>5. ASSUME F # {} PROVE FALSE
  <2>1. PICK i \in F : \A k \in F : i <= k
    <3>1. F \subseteq Nat
      OBVIOUS
    <3> HIDE DEF F
    <3> QED
      BY <1>5, <3>1, LeastOf
  <2>2. CASE i = 1
    <3>1. flat[i] = pieces[i] /\ 1 .. i = {i}
      BY <1>4, <2>2
    <3>2. Range(flat[i]) = UNION {Range(pieces[j]) : j \in 1 .. i}
      BY <3>1
    <3> QED
      BY <2>1, <3>1, <3>2
  <2>3. CASE i # 1
    <3>0. i \in 1 .. n
      BY <2>1
    <3>1. i - 1 \in 1 .. n /\ ~(i <= i - 1) /\ flat[i] = flat[i - 1] \o pieces[i] /\ 1 .. i = (1 .. i - 1) \cup {i}
      <4>1. i - 1 \in 1 .. n /\ ~(i <= i - 1)
        BY <2>3, <3>0
      <4>2. 1 .. i = (1 .. i - 1) \cup {i}
        BY <3>0
      <4> QED
        BY <1>4, <2>3, <3>0, <4>1, <4>2
    <3>2. PICK s : s = flat[i - 1]
      OBVIOUS
    <3>3. s \in Seq(Nat) /\ IsInjective(s) /\ Range(s) = UNION {Range(pieces[j]) : j \in 1 .. i - 1}
      BY <2>1, <3>1, <3>2
    <3>4. ASSUME NEW j \in 1 .. i - 1 PROVE Range(pieces[j]) \cap Range(pieces[i]) = {}
      <4>1. j \in 1 .. n /\ j # i
        BY <3>0, <3>1
      <4> QED
        BY <3>0, <4>1
    <3>5. Range(s) \cap Range(pieces[i]) = {}
      BY <3>3, <3>4
    <3>6. flat[i] = s \o pieces[i] /\ pieces[i] \in Seq(Nat) /\ IsInjective(pieces[i])
      BY <3>0, <3>1, <3>2
    <3>7. flat[i] \in Seq(Nat) /\ IsInjective(flat[i]) /\ Range(flat[i]) = Range(s) \cup Range(pieces[i])
      BY <3>3, <3>5, <3>6, ConcatShape
    <3>8. Range(flat[i]) = UNION {Range(pieces[j]) : j \in 1 .. i}
      BY <3>1, <3>3, <3>7
    <3> QED
      BY <2>1, <3>7, <3>8
  <2> QED
    BY <2>2, <2>3
<1>6. Good(n)
  <2>1. n \in 1 .. n
    OBVIOUS
  <2> HIDE DEF Good
  <2> QED
    BY <1>5, <2>1
<1> QED
  BY <1>2, <1>6
-----------------------------------------------------------------------------
(* The packets. *)
LEMMA PacketShape ==
  ASSUME PacingType
  PROVE  /\ Len(packets) \in Nat /\ Packets = 1 .. Len(packets) /\ Packets \subseteq 1 .. MaxPackets
         /\ IsFiniteSet(Packets) /\ Packets \subseteq Nat /\ MaxPackets \in Nat
         /\ \A k \in Packets : packets[k] \in Packet
         /\ \A k \in Packets : Weight[k] \in Nat /\ Weight[k] = packets[k].bytes
<1>1. Len(packets) \in Nat /\ Packets = 1 .. Len(packets) /\ Len(packets) <= MaxPackets /\ MaxPackets \in Nat
  BY PacingAssumption, LenProperties DEF PacingType, Packets
<1>2. IsFiniteSet(Packets)
  BY <1>1, FS_Interval
<1>3. \A k \in Packets : packets[k] \in Packet
  BY <1>1, ElementOfSeq DEF PacingType
<1>4. \A k \in Packets : Weight[k] \in Nat /\ Weight[k] = packets[k].bytes
  BY <1>3, InputAssumption DEF Weight, Bytes, Packet
<1> QED
  BY <1>1, <1>2, <1>3, <1>4

(* What is left of a context, by sets. *)
LEMMA TotalOf ==
  ASSUME PacingType, NEW s \in Seq(Nat), IsInjective(s), Range(s) \subseteq Packets
  PROVE  TotalBytes(s) = SumOver(Weight, Range(s)) /\ TotalBytes(s) \in Nat
<1> DEFINE w == [j \in DOMAIN s |-> Bytes(s[j])]
<1>1. TotalBytes(s) = SumOver(w, DOMAIN s)
  <2>1. DOMAIN w = DOMAIN s
    OBVIOUS
  <2>2. TotalBytes(s) = FoldFunctionOnSet(+, 0, w, DOMAIN w)
    BY Zenon DEF TotalBytes, FoldFunction
  <2> HIDE DEF w
  <2>3. SumOver(w, DOMAIN s) = FoldFunctionOnSet(+, 0, w, DOMAIN s)
    BY Zenon DEF SumOver
  <2> QED
    BY <2>1, <2>2, <2>3, Zenon
<1>2. IsFiniteSet(DOMAIN s)
  BY LenProperties, FS_Interval
<1>3. \A j \in DOMAIN s : s[j] \in Packets
  BY DEF Range
<1>4. \A j \in DOMAIN s : w[j] \in Nat /\ Weight[s[j]] = w[j]
  BY <1>3, PacketShape DEF Bytes
<1>5. \A a, b \in DOMAIN s : s[a] = s[b] => a = b
  BY DEF IsInjective
<1>6. Range(s) = {s[j] : j \in DOMAIN s}
  BY DEF Range
<1> HIDE DEF w
<1>7. SumOver(Weight, {s[j] : j \in DOMAIN s}) = SumOver(w, DOMAIN s)
  BY <1>2, <1>4, <1>5, SumRenamed
<1>8. SumOver(w, DOMAIN s) \in Nat
  BY <1>2, <1>4, SumSplit
<1> QED
  BY <1>1, <1>6, <1>7, <1>8

(* The bytes of two disjoint sets of packets add up. *)
LEMMA WeightsOf ==
  ASSUME PacingType, NEW T \in SUBSET Packets, NEW U \in SUBSET Packets, T \cap U = {}
  PROVE  /\ SumOver(Weight, T \cup U) = SumOver(Weight, T) + SumOver(Weight, U)
         /\ SumOver(Weight, T) \in Nat /\ SumOver(Weight, U) \in Nat
BY PacketShape, SumUnion, SMTT(30)

(* The bytes of one packet. *)
LEMMA WeightOfOne ==
  ASSUME PacingType, NEW k \in Packets
  PROVE  SumOver(Weight, {k}) = packets[k].bytes
<1>1. \A a \in {k} : Weight[a] \in Nat
  BY PacketShape
<1>2. IsFiniteSet({k})
  BY FS_Singleton
<1>3. SumOver(Weight, {}) = 0 /\ SumOver(Weight, {k}) = Weight[k] + SumOver(Weight, {k} \ {k})
  BY <1>1, <1>2, SumSplit
<1>4. {k} \ {k} = {} /\ Weight[k] = packets[k].bytes /\ Weight[k] \in Nat
  BY PacketShape
<1> QED
  BY <1>3, <1>4

(* Packets that change their place keep everything else. *)
LEMMA MoveShape ==
  ASSUME PacingType, NEW ks, NEW place \in Places, packets' = Move(ks, place)
  PROVE  /\ packets' \in Seq(Packet) /\ Len(packets') = Len(packets) /\ Packets' = Packets
         /\ \A k \in Packets : /\ packets'[k].pid = packets[k].pid /\ packets'[k].bytes = packets[k].bytes
                               /\ packets'[k].family = packets[k].family /\ packets'[k].cpu = packets[k].cpu
                               /\ packets'[k].place = IF k \in ks THEN place ELSE packets[k].place
         /\ \A p \in Places : At(p)' = IF p = place THEN At(p) \cup (ks \cap Packets) ELSE At(p) \ ks
         /\ Weight' = Weight
<1>1. DOMAIN packets = 1 .. Len(packets) /\ Len(packets) \in Nat /\ \A k \in DOMAIN packets : packets[k] \in Packet
  BY PacketShape DEF Packets
<1>2. DOMAIN packets' = DOMAIN packets
  BY DEF Move
<1>3. ASSUME NEW k \in DOMAIN packets
      PROVE  /\ packets'[k].pid = packets[k].pid /\ packets'[k].bytes = packets[k].bytes
             /\ packets'[k].family = packets[k].family /\ packets'[k].cpu = packets[k].cpu
             /\ packets'[k].place = IF k \in ks THEN place ELSE packets[k].place
             /\ packets'[k] \in Packet
  <2>1. packets'[k] = IF k \in ks THEN [packets[k] EXCEPT !.place = place] ELSE packets[k]
    BY DEF Move
  <2>2. packets[k] \in Packet
    BY <1>1
  <2> QED
    BY <2>1, <2>2 DEF Packet
<1>4. packets' \in Seq(Packet) /\ Len(packets') = Len(packets)
  <2>1. packets' \in [1 .. Len(packets) -> Packet]
    BY <1>1, <1>2, <1>3 DEF Move
  <2>2. packets' \in Seq(Packet)
    BY <1>1, <2>1, IsASeq
  <2> QED
    BY <1>1, <1>2, <2>2, LenProperties
<1>5. Packets' = Packets
  BY <1>2 DEF Packets
<1>6. \A p \in Places : At(p)' = IF p = place THEN At(p) \cup (ks \cap Packets) ELSE At(p) \ ks
  BY <1>2, <1>3 DEF At, Place, Packets
<1>7. Weight' = Weight
  BY <1>2, <1>3 DEF Weight, Bytes, Packets
<1> QED
  BY <1>3, <1>4, <1>5, <1>6, <1>7 DEF Packets

(* A context after packets are taken from its head. *)
LEMMA ShortenedShape ==
  ASSUME PacingType, NEW ctx \in Context, IsInjective(ctx.Queue), Range(ctx.Queue) \subseteq Packets,
         ctx.PacketCount = Len(ctx.Queue), ctx.QueuedBytes = SumOver(Weight, Range(ctx.Queue)),
         NEW n \in 0 .. Len(ctx.Queue)
  PROVE  /\ Shortened(ctx, n) \in Context
         /\ Shortened(ctx, n).Queue = SubSeq(ctx.Queue, n + 1, Len(ctx.Queue))
         /\ Shortened(ctx, n).PacketCount = Len(ctx.Queue) - n
         /\ Shortened(ctx, n).QueuedBytes = SumOver(Weight, Range(Shortened(ctx, n).Queue))
         /\ Shortened(ctx, n).QueuedBytes <= ctx.QueuedBytes
         /\ Shortened(ctx, n).InUse => ctx.InUse /\ Shortened(ctx, n).ProcessId = ctx.ProcessId
         /\ Shortened(ctx, n).InUse \/ ~ctx.InUse \/ n = Len(ctx.Queue)
<1> DEFINE queue == ctx.Queue
           front == SubSeq(queue, 1, n)
           left == SubSeq(queue, n + 1, Len(queue))
           shorter == [ctx EXCEPT !.Queue = left, !.PacketCount = @ - n, !.QueuedBytes = @ - TotalBytes(front)]
<1>1. queue \in Seq(Nat) /\ ctx.PacketCount \in Int /\ ctx.QueuedBytes \in Int /\ n \in Nat /\ Len(queue) \in Nat
      /\ ctx.ProcessId \in Pids /\ ctx.InUse \in BOOLEAN
  BY LenProperties DEF Context
<1>2. Shortened(ctx, n) = IF n > 0 /\ shorter.PacketCount = 0
                          THEN [shorter EXCEPT !.InUse = FALSE, !.ProcessId = 0] ELSE shorter
  BY DEF Shortened
<1>3. /\ front \in Seq(Nat) /\ IsInjective(front) /\ left \in Seq(Nat) /\ Len(left) = Len(queue) - n
      /\ Range(front) \cup Range(left) = Range(queue) /\ Range(front) \cap Range(left) = {}
  BY <1>1, CutShape
<1> HIDE DEF front, left
<1>4. TotalBytes(front) = SumOver(Weight, Range(front)) /\ TotalBytes(front) \in Nat
  BY <1>3, TotalOf
<1>5. /\ SumOver(Weight, Range(queue)) = SumOver(Weight, Range(front)) + SumOver(Weight, Range(left))
      /\ SumOver(Weight, Range(left)) \in Nat
  BY <1>3, WeightsOf
<1>6. /\ shorter \in Context /\ shorter.Queue = left /\ shorter.PacketCount = Len(queue) - n
      /\ shorter.QueuedBytes = ctx.QueuedBytes - TotalBytes(front)
      /\ shorter.InUse = ctx.InUse /\ shorter.ProcessId = ctx.ProcessId
  <2>1. ctx.PacketCount - n \in Int /\ ctx.QueuedBytes - TotalBytes(front) \in Int
    BY <1>1, <1>4
  <2> HIDE DEF queue
  <2>2. ctx.PacketCount = Len(queue)
    BY DEF queue
  <2> QED
    BY <1>1, <1>3, <2>1, <2>2 DEF Context
<1>7. /\ shorter.QueuedBytes = SumOver(Weight, Range(left)) /\ shorter.QueuedBytes <= ctx.QueuedBytes
  BY <1>1, <1>4, <1>5, <1>6
<1> HIDE DEF shorter
<1>8. CASE n > 0 /\ shorter.PacketCount = 0
  <2> DEFINE freed == [shorter EXCEPT !.InUse = FALSE, !.ProcessId = 0]
  <2>1. /\ freed \in Context /\ freed.Queue = left /\ freed.PacketCount = Len(queue) - n
        /\ freed.QueuedBytes = shorter.QueuedBytes /\ freed.InUse = FALSE /\ freed.ProcessId = 0
    BY <1>6, InputAssumption DEF Context
  <2>2. Shortened(ctx, n) = freed
    BY <1>2, <1>8
  <2>3. n = Len(queue)
    BY <1>1, <1>6, <1>8
  <2> HIDE DEF freed
  <2> QED
    BY <1>7, <2>1, <2>2, <2>3 DEF left, queue
<1>9. CASE ~(n > 0 /\ shorter.PacketCount = 0)
  <2>1. Shortened(ctx, n) = shorter
    BY <1>2, <1>9
  <2> QED
    BY <1>6, <1>7, <2>1 DEF left, queue
<1> QED
  BY <1>8, <1>9
-----------------------------------------------------------------------------
(* What the invariant says of the contexts. *)
LEMMA ContextShape ==
  ASSUME PacingInv
  PROVE  /\ \A i \in Contexts :
              /\ s_Contexts[i] \in Context /\ Q(i) \in Seq(Nat) /\ IsInjective(Q(i))
              /\ Range(Q(i)) \subseteq At("held") /\ Range(Q(i)) \subseteq Packets
              /\ Len(Q(i)) \in Nat /\ DOMAIN Q(i) = 1 .. Len(Q(i))
              /\ \A p \in DOMAIN Q(i) : Q(i)[p] \in Range(Q(i))
              /\ \A k \in Range(Q(i)) : packets[k].pid = s_Contexts[i].ProcessId /\ s_Contexts[i].InUse
         /\ \A i, j \in Contexts : i # j => Range(Q(i)) \cap Range(Q(j)) = {}
         /\ \A k \in At("held") : \E i \in Contexts : k \in Range(Q(i))
<1>1. ASSUME NEW i \in Contexts
      PROVE  /\ s_Contexts[i] \in Context /\ Q(i) \in Seq(Nat) /\ IsInjective(Q(i))
             /\ Range(Q(i)) \subseteq At("held") /\ Range(Q(i)) \subseteq Packets
             /\ Len(Q(i)) \in Nat /\ DOMAIN Q(i) = 1 .. Len(Q(i))
             /\ \A p \in DOMAIN Q(i) : Q(i)[p] \in Range(Q(i))
             /\ \A k \in Range(Q(i)) : packets[k].pid = s_Contexts[i].ProcessId /\ s_Contexts[i].InUse
  <2>1. s_Contexts[i] \in Context
    BY DEF PacingInv, PacingType
  <2>2. Q(i) \in Seq(Nat)
    BY <2>1 DEF Context, Q
  <2>3. IsInjective(Q(i)) /\ Range(Q(i)) \subseteq At("held")
    BY DEF PacingInv, Owned
  <2>4. At("held") \subseteq Packets
    BY DEF At
  <2>5. Len(Q(i)) \in Nat /\ DOMAIN Q(i) = 1 .. Len(Q(i)) /\ \A p \in DOMAIN Q(i) : Q(i)[p] \in Range(Q(i))
    BY <2>2, LenProperties DEF Range
  <2>6. ASSUME NEW k \in Range(Q(i)) PROVE packets[k].pid = s_Contexts[i].ProcessId /\ s_Contexts[i].InUse
    <3>1. PICK p \in DOMAIN Q(i) : Q(i)[p] = k
      BY DEF Range
    <3>2. Q(i) # <<>>
      BY <2>5, <3>1
    <3> QED
      BY <3>1, <3>2 DEF PacingInv, Queues, Pid
  <2> QED
    BY <2>1, <2>2, <2>3, <2>4, <2>5, <2>6
<1>2. ASSUME NEW i \in Contexts, NEW j \in Contexts, i # j PROVE Range(Q(i)) \cap Range(Q(j)) = {}
  BY <1>1, <1>2 DEF PacingInv, Queues
<1>3. \A k \in At("held") : \E i \in Contexts : k \in Range(Q(i))
  BY DEF PacingInv, Owned
<1> QED
  BY <1>1, <1>2, <1>3

(* Packets go from the heads of the queues into the batch of a. *)
Taken(a, n, taken) ==
  /\ n \in [Contexts -> Nat] /\ \A i \in Contexts : n[i] \in 0 .. Len(Q(i))
  /\ taken = UNION {Range(SubSeq(Q(i), 1, n[i])) : i \in Contexts}
  /\ packets' = Move(taken, "batch")
  /\ s_Contexts' \in [Contexts -> Context]
  /\ \A i \in Contexts : s_Contexts'[i] = Shortened(s_Contexts[i], n[i])
  /\ s_GlobalQueuedBytes' = s_GlobalQueuedBytes - SumOver(Weight, taken)
  /\ IsInjective(B(a)') /\ Range(B(a)') = Range(B(a)) \cup taken
  /\ \A b \in Actors : b # a => B(b)' = B(b)
  /\ UNCHANGED <<cpu, s_InjHandle>>

(* What taking packets off the queues does to the places and the queues. *)
LEMMA TakenShape ==
  ASSUME PacingInv, NEW a \in Actors, NEW n, NEW taken, Taken(a, n, taken)
  PROVE  /\ taken \subseteq At("held")
         /\ At("classify")' = At("classify") /\ At("injected")' = At("injected")
         /\ At("held")' = At("held") \ taken /\ At("batch")' = At("batch") \cup taken
         /\ \A i \in Contexts :
              /\ Q(i)' \in Seq(Nat) /\ IsInjective(Q(i)') /\ Len(Q(i)') = Len(Q(i)) - n[i]
              /\ DOMAIN Q(i)' = 1 .. Len(Q(i)) - n[i]
              /\ \A p \in DOMAIN Q(i)' : Q(i)'[p] = Q(i)[p + n[i]] /\ p + n[i] \in DOMAIN Q(i)
              /\ Range(Q(i)') = Range(Q(i)) \ taken
              /\ s_Contexts'[i].PacketCount = Len(Q(i)')
              /\ s_Contexts'[i].QueuedBytes = SumOver(Weight, Range(Q(i)'))
              /\ s_Contexts'[i].QueuedBytes <= s_Contexts[i].QueuedBytes
              /\ s_Contexts'[i].InUse => s_Contexts[i].InUse /\ s_Contexts'[i].ProcessId = s_Contexts[i].ProcessId
              /\ ~s_Contexts'[i].InUse => Q(i)' = <<>>
<1> DEFINE front(i) == SubSeq(Q(i), 1, n[i])
<1>1. ASSUME NEW i \in Contexts
      PROVE  /\ n[i] \in 0 .. Len(Q(i))
             /\ Range(front(i)) \subseteq Range(Q(i)) /\ Q(i)' = SubSeq(Q(i), n[i] + 1, Len(Q(i)))
             /\ Q(i)' \in Seq(Nat) /\ IsInjective(Q(i)') /\ Len(Q(i)') = Len(Q(i)) - n[i]
             /\ \A p \in 1 .. Len(Q(i)) - n[i] : Q(i)'[p] = Q(i)[p + n[i]]
             /\ Range(Q(i)') = Range(Q(i)) \ Range(front(i))
             /\ s_Contexts'[i].PacketCount = Len(Q(i)')
             /\ s_Contexts'[i].QueuedBytes = SumOver(Weight, Range(Q(i)'))
             /\ s_Contexts'[i].QueuedBytes <= s_Contexts[i].QueuedBytes
             /\ s_Contexts'[i].InUse => s_Contexts[i].InUse /\ s_Contexts'[i].ProcessId = s_Contexts[i].ProcessId
             /\ s_Contexts'[i].InUse \/ ~s_Contexts[i].InUse \/ n[i] = Len(Q(i))
  <2>1. n[i] \in 0 .. Len(Q(i)) /\ s_Contexts'[i] = Shortened(s_Contexts[i], n[i])
    BY DEF Taken
  <2>2. /\ s_Contexts[i] \in Context /\ Q(i) \in Seq(Nat) /\ IsInjective(Q(i)) /\ Range(Q(i)) \subseteq Packets
        /\ s_Contexts[i].PacketCount = Len(Q(i)) /\ s_Contexts[i].QueuedBytes = SumOver(Weight, Range(Q(i)))
        /\ PacingType
    BY ContextShape DEF PacingInv, Counted
  <2>3. PICK ctx \in Context, m \in Nat : ctx = s_Contexts[i] /\ m = n[i] /\ ctx.Queue = Q(i)
    BY <2>1, <2>2, ContextShape DEF Q
  <2>4. /\ Shortened(ctx, m).Queue = SubSeq(ctx.Queue, m + 1, Len(ctx.Queue))
        /\ Shortened(ctx, m).PacketCount = Len(ctx.Queue) - m
        /\ Shortened(ctx, m).QueuedBytes = SumOver(Weight, Range(Shortened(ctx, m).Queue))
        /\ Shortened(ctx, m).QueuedBytes <= ctx.QueuedBytes
        /\ Shortened(ctx, m).InUse => ctx.InUse /\ Shortened(ctx, m).ProcessId = ctx.ProcessId
        /\ Shortened(ctx, m).InUse \/ ~ctx.InUse \/ m = Len(ctx.Queue)
    <3>1. /\ IsInjective(ctx.Queue) /\ Range(ctx.Queue) \subseteq Packets /\ ctx.PacketCount = Len(ctx.Queue)
          /\ ctx.QueuedBytes = SumOver(Weight, Range(ctx.Queue)) /\ m \in 0 .. Len(ctx.Queue)
      BY <2>1, <2>2, <2>3
    <3> QED
      BY <2>2, <3>1, ShortenedShape
  <2>5. /\ IsInjective(SubSeq(Q(i), m + 1, Len(Q(i)))) /\ SubSeq(Q(i), m + 1, Len(Q(i))) \in Seq(Nat)
        /\ Len(SubSeq(Q(i), m + 1, Len(Q(i)))) = Len(Q(i)) - m
        /\ \A p \in 1 .. Len(Q(i)) - m : SubSeq(Q(i), m + 1, Len(Q(i)))[p] = Q(i)[p + m]
        /\ Range(SubSeq(Q(i), 1, m)) \cup Range(SubSeq(Q(i), m + 1, Len(Q(i)))) = Range(Q(i))
        /\ Range(SubSeq(Q(i), 1, m)) \cap Range(SubSeq(Q(i), m + 1, Len(Q(i)))) = {}
    <3>1. m \in 0 .. Len(Q(i))
      BY <2>1, <2>3
    <3> QED
      BY <2>2, <3>1, CutShape
  <2>6. Q(i)' = Shortened(ctx, m).Queue
    BY <2>1, <2>3 DEF Q
  <2>7. Q(i)' = SubSeq(Q(i), m + 1, Len(Q(i)))
    BY <2>3, <2>4, <2>6
  <2> QED
    BY <2>1, <2>3, <2>4, <2>5, <2>6, <2>7, SMTT(30)
<1>2. taken = UNION {Range(front(i)) : i \in Contexts}
  BY DEF Taken
<1> HIDE DEF front
<1>3. taken \subseteq At("held")
  BY <1>1, <1>2, ContextShape
<1>4. /\ At("classify")' = At("classify") /\ At("injected")' = At("injected")
      /\ At("held")' = At("held") \ taken /\ At("batch")' = At("batch") \cup taken
  <2>1. \A p \in Places : At(p)' = IF p = "batch" THEN At(p) \cup (taken \cap Packets) ELSE At(p) \ taken
    <3>1. packets' = Move(taken, "batch") /\ PacingType /\ "batch" \in Places
      BY DEF Taken, PacingInv, Places
    <3> QED
      BY <3>1, MoveShape
  <2>2. taken \subseteq Packets /\ At("classify") \cap taken = {} /\ At("injected") \cap taken = {}
    BY <1>3 DEF At
  <2> QED
    BY <2>1, <2>2 DEF Places
<1>5. ASSUME NEW i \in Contexts
      PROVE  /\ DOMAIN Q(i)' = 1 .. Len(Q(i)) - n[i]
             /\ \A p \in DOMAIN Q(i)' : Q(i)'[p] = Q(i)[p + n[i]] /\ p + n[i] \in DOMAIN Q(i)
             /\ Range(Q(i)') = Range(Q(i)) \ taken
             /\ ~s_Contexts'[i].InUse => Q(i)' = <<>>
  <2>1. /\ n[i] \in 0 .. Len(Q(i)) /\ Q(i)' \in Seq(Nat) /\ Len(Q(i)') = Len(Q(i)) - n[i]
        /\ \A p \in 1 .. Len(Q(i)) - n[i] : Q(i)'[p] = Q(i)[p + n[i]]
        /\ s_Contexts'[i].InUse \/ ~s_Contexts[i].InUse \/ n[i] = Len(Q(i))
    BY <1>1
  <2>2. DOMAIN Q(i)' = 1 .. Len(Q(i)) - n[i]
    BY <2>1, LenProperties
  <2>3. DOMAIN Q(i) = 1 .. Len(Q(i)) /\ Len(Q(i)) \in Nat
    BY ContextShape
  <2>4. ASSUME NEW p \in DOMAIN Q(i)' PROVE Q(i)'[p] = Q(i)[p + n[i]] /\ p + n[i] \in DOMAIN Q(i)
    <3>0. n[i] \in Nat /\ n[i] <= Len(Q(i))
      BY <2>1, <2>3
    <3>1. PICK m \in Nat, l \in Nat : m = n[i] /\ l = Len(Q(i)) /\ m <= l
      BY <2>3, <3>0
    <3>2. p \in 1 .. l - m /\ p + m \in 1 .. l
      BY <2>2, <3>1
    <3> QED
      BY <2>1, <2>3, <3>1, <3>2
  <2>5. Range(Q(i)) \cap taken = Range(front(i))
    <3>1. \A j \in Contexts : j # i => Range(front(j)) \cap Range(Q(i)) = {}
      BY <1>1, ContextShape
    <3>2. Range(front(i)) \subseteq Range(Q(i))
      BY <1>1
    <3> QED
      BY <1>2, <3>1, <3>2
  <2>6. Range(Q(i)') = Range(Q(i)) \ taken
    BY <1>1, <2>5
  <2>7. ~s_Contexts'[i].InUse => Q(i)' = <<>>
    <3>1. ~s_Contexts[i].InUse => Len(Q(i)) = 0
      <4>1. ~s_Contexts[i].InUse => Q(i) = <<>>
        BY DEF PacingInv, Queues
      <4> QED
        BY <4>1, EmptySeq
    <3>2. ~s_Contexts'[i].InUse => Len(Q(i)') = 0
      BY <2>1, <2>3, <3>1
    <3> QED
      BY <2>1, <3>2, EmptySeq
  <2> QED
    BY <2>2, <2>4, <2>6, <2>7
<1> QED
  BY <1>1, <1>3, <1>4, <1>5

(* Taking packets off the queues into a batch keeps the invariant. *)
LEMMA TakenKeeps ==
  ASSUME PacingInv, NEW a \in Actors, NEW n, NEW taken, Taken(a, n, taken),
         phase' = phase, registered' = registered, phase = "unloaded" => "notify" \in registered
  PROVE  Owned' /\ Queues' /\ Counted' /\ HandleOutlivesPackets'
<1>1. /\ taken \subseteq At("held")
      /\ At("classify")' = At("classify") /\ At("injected")' = At("injected")
      /\ At("held")' = At("held") \ taken /\ At("batch")' = At("batch") \cup taken
  BY TakenShape
<1>2. \A i \in Contexts :
        /\ Q(i)' \in Seq(Nat) /\ IsInjective(Q(i)')
        /\ \A p \in DOMAIN Q(i)' : Q(i)'[p] = Q(i)[p + n[i]] /\ p + n[i] \in DOMAIN Q(i)
        /\ Range(Q(i)') = Range(Q(i)) \ taken
        /\ s_Contexts'[i].PacketCount = Len(Q(i)')
        /\ s_Contexts'[i].QueuedBytes = SumOver(Weight, Range(Q(i)'))
        /\ s_Contexts'[i].QueuedBytes <= s_Contexts[i].QueuedBytes
        /\ s_Contexts'[i].InUse => s_Contexts[i].InUse /\ s_Contexts'[i].ProcessId = s_Contexts[i].ProcessId
        /\ ~s_Contexts'[i].InUse => Q(i)' = <<>>
  BY TakenShape
<1>3. /\ Packets' = Packets /\ Weight' = Weight
      /\ \A k \in Packets : /\ packets'[k].pid = packets[k].pid /\ packets'[k].family = packets[k].family
                            /\ packets'[k].cpu = packets[k].cpu
  <2>1. packets' = Move(taken, "batch") /\ PacingType /\ "batch" \in Places
    BY DEF Taken, PacingInv, Places
  <2> QED
    BY <2>1, MoveShape
<1>4. cpu' = cpu /\ s_InjHandle' = s_InjHandle
  BY DEF Taken
<1>5. taken \subseteq Packets /\ \A k \in At("held") : k \in Packets
  BY <1>1 DEF At
<1>6. Owned'
  <2>1. At("classify")' = {Work(c)' : c \in {c \in Cpus : Busy(c)'}}
    BY <1>1, <1>4 DEF PacingInv, Owned, Work, Busy
  <2>2. \A c \in Cpus : Busy(c)' => packets'[Work(c)'].cpu = c
    <3> SUFFICES ASSUME NEW c \in Cpus, Busy(c)' PROVE packets'[Work(c)'].cpu = c
      OBVIOUS
    <3>1. Busy(c) /\ Work(c)' = Work(c)
      BY <1>4 DEF Busy, Work
    <3>2. Work(c) \in At("classify") /\ packets[Work(c)].cpu = c
      BY <3>1 DEF PacingInv, Owned
    <3> QED
      BY <1>3, <3>1, <3>2 DEF At
  <2>3. At("held")' = UNION {Range(Q(i)') : i \in Contexts}
    <3>1. At("held") = UNION {Range(Q(i)) : i \in Contexts}
      BY DEF PacingInv, Owned
    <3> QED
      BY <1>1, <1>2, <3>1
  <2>4. \A i \in Contexts : IsInjective(Q(i)')
    BY <1>2
  <2>5. /\ At("batch")' = UNION {Range(B(b)') : b \in Actors}
        /\ \A b \in Actors : IsInjective(B(b)')
        /\ \A b, d \in Actors : b # d => Range(B(b)') \cap Range(B(d)') = {}
    <3>1. /\ At("batch") = UNION {Range(B(b)) : b \in Actors}
          /\ \A b \in Actors : IsInjective(B(b))
          /\ \A b, d \in Actors : b # d => Range(B(b)) \cap Range(B(d)) = {}
      BY DEF PacingInv, Owned
    <3>2. \A b \in Actors : b # a => B(b)' = B(b)
      BY DEF Taken
    <3>3. IsInjective(B(a)') /\ Range(B(a)') = Range(B(a)) \cup taken
      BY DEF Taken
    <3>4. At("batch") \cap taken = {}
      BY <1>1 DEF At
    <3>5. \A b \in Actors : Range(B(b)) \cap taken = {}
      BY <3>1, <3>4
    <3>6. \A b \in Actors : IsInjective(B(b)')
      BY <3>1, <3>2, <3>3
    <3>7. \A b \in Actors : Range(B(b)') = IF b = a THEN Range(B(b)) \cup taken ELSE Range(B(b))
      BY <3>2, <3>3
    <3>8. At("batch")' = UNION {Range(B(b)') : b \in Actors}
      BY <1>1, <3>1, <3>7
    <3>9. ASSUME NEW b \in Actors, NEW d \in Actors, b # d PROVE Range(B(b)') \cap Range(B(d)') = {}
      BY <3>1, <3>5, <3>7, <3>9
    <3> QED
      BY <3>6, <3>8, <3>9
  <2> QED
    BY <2>1, <2>2, <2>3, <2>4, <2>5 DEF Owned
<1>7. Queues'
  <2>1. \A i \in Contexts : ~s_Contexts'[i].InUse => Q(i)' = <<>>
    BY <1>2
  <2>2. \A i, j \in Contexts : s_Contexts'[i].InUse /\ s_Contexts'[j].InUse
                               /\ s_Contexts'[i].ProcessId = s_Contexts'[j].ProcessId => i = j
    BY <1>2 DEF PacingInv, Queues
  <2>3. ASSUME NEW i \in Contexts, NEW p \in DOMAIN Q(i)' PROVE Pid(Q(i)[p])' = s_Contexts'[i].ProcessId
    <3>1. PICK q \in DOMAIN Q(i) : Q(i)'[p] = Q(i)[q]
      BY <1>2
    <3>2. Q(i)[q] \in Packets /\ packets[Q(i)[q]].pid = s_Contexts[i].ProcessId
      BY ContextShape
    <3>3. s_Contexts'[i].InUse
      <4>1. Q(i)' # <<>>
        BY <1>2, EmptySeq, LenProperties
      <4> QED
        BY <1>2, <4>1
    <3>4. s_Contexts'[i].ProcessId = s_Contexts[i].ProcessId
      BY <1>2, <3>3
    <3> QED
      BY <1>3, <3>1, <3>2, <3>4 DEF Pid
  <2>4. ASSUME NEW i \in Contexts, NEW p \in DOMAIN Q(i)', NEW q \in DOMAIN Q(i)', p < q,
               packets'[Q(i)'[p]].cpu = packets'[Q(i)'[q]].cpu
        PROVE  Q(i)'[p] < Q(i)'[q]
    <3>1. PICK m \in Nat : m = n[i]
      BY DEF Taken
    <3>2. /\ Q(i)'[p] = Q(i)[p + m] /\ p + m \in DOMAIN Q(i)
          /\ Q(i)'[q] = Q(i)[q + m] /\ q + m \in DOMAIN Q(i)
      BY <1>2, <3>1
    <3>3. p + m < q + m
      <4>1. p \in Int /\ q \in Int
        BY <1>2, LenProperties
      <4> QED
        BY <2>4, <4>1
    <3>4. Q(i)[p + m] \in Packets /\ Q(i)[q + m] \in Packets
      BY <3>2, ContextShape
    <3>5. packets[Q(i)[p + m]].cpu = packets[Q(i)[q + m]].cpu
      BY <1>3, <2>4, <3>2, <3>4
    <3> QED
      BY <3>2, <3>3, <3>5 DEF PacingInv, Queues
  <2> QED
    BY <2>1, <2>2, <2>3, <2>4 DEF Queues
<1>8. Counted'
  <2>1. ASSUME NEW i \in Contexts
        PROVE  /\ s_Contexts'[i].PacketCount = Len(Q(i)')
               /\ s_Contexts'[i].QueuedBytes = SumOver(Weight', Range(Q(i)'))
               /\ s_Contexts'[i].QueuedBytes <= PACING_PID_HOLD_LIMIT
    <3>1. s_Contexts[i].QueuedBytes <= PACING_PID_HOLD_LIMIT
      BY DEF PacingInv, Counted
    <3>2. s_Contexts[i].QueuedBytes \in Int /\ s_Contexts'[i].QueuedBytes \in Int
      BY ContextShape DEF Taken, Context
    <3> QED
      BY <1>2, <1>3, <3>1, <3>2, PacingAssumption
  <2>2. s_GlobalQueuedBytes' = SumOver(Weight', At("held")') /\ s_GlobalQueuedBytes' <= PACING_GLOBAL_HOLD_LIMIT
    <3>1. s_GlobalQueuedBytes = SumOver(Weight, At("held")) /\ s_GlobalQueuedBytes <= PACING_GLOBAL_HOLD_LIMIT
      BY DEF PacingInv, Counted
    <3>2. s_GlobalQueuedBytes' = s_GlobalQueuedBytes - SumOver(Weight, taken)
      BY DEF Taken
    <3>3. PICK rest \in SUBSET Packets : rest = At("held") \ taken
      BY <1>5
    <3>4. /\ SumOver(Weight, taken \cup rest) = SumOver(Weight, taken) + SumOver(Weight, rest)
          /\ SumOver(Weight, taken) \in Nat /\ SumOver(Weight, rest) \in Nat
      <4>1. taken \in SUBSET Packets /\ taken \cap rest = {}
        BY <1>5, <3>3
      <4> QED
        BY <4>1, WeightsOf DEF PacingInv
    <3>5. taken \cup rest = At("held")
      BY <1>1, <3>3
    <3>6. PICK t \in Nat, r \in Nat : t = SumOver(Weight, taken) /\ r = SumOver(Weight, rest)
      BY <3>4
    <3>7. SumOver(Weight, At("held")) = t + r
      BY <3>4, <3>5, <3>6
    <3>8. s_GlobalQueuedBytes = t + r /\ s_GlobalQueuedBytes' = s_GlobalQueuedBytes - t
      BY <3>1, <3>2, <3>6, <3>7
    <3>9. s_GlobalQueuedBytes' = r /\ s_GlobalQueuedBytes' <= s_GlobalQueuedBytes
      BY <3>8
    <3>10. s_GlobalQueuedBytes' <= PACING_GLOBAL_HOLD_LIMIT
      BY <3>1, <3>8, <3>9, PacingAssumption
    <3>11. At("held")' = rest /\ Weight' = Weight
      BY <1>1, <1>3, <3>3
    <3> QED
      BY <3>6, <3>9, <3>10, <3>11
  <2> QED
    BY <2>1, <2>2 DEF Counted
<1>9. HandleOutlivesPackets'
  <2> SUFFICES ASSUME NEW k \in Packets, Place(k)' \in {"classify", "held", "batch", "injected"},
                      ~s_InjHandle[packets[k].family]
               PROVE  /\ phase = "unloaded"
                      /\ \/ Place(k)' \in {"classify", "held"} /\ "inbound" \in registered
                         \/ Place(k)' = "batch" /\ "notify" \in registered
    BY <1>3, <1>4 DEF HandleOutlivesPackets
  <2>1. \A p \in Places : k \in At(p)' <=> Place(k)' = p
    BY <1>3 DEF At
  <2>2. /\ Place(k)' = "classify" => Place(k) = "classify"
        /\ Place(k)' = "held" => Place(k) = "held"
        /\ Place(k)' = "batch" => Place(k) \in {"held", "batch"}
        /\ Place(k)' = "injected" => Place(k) = "injected"
    BY <1>1, <2>1 DEF Places, At
  <2>3. Place(k) \in {"classify", "held", "batch", "injected"}
    BY <2>2
  <2>4. /\ phase = "unloaded"
        /\ \/ Place(k) \in {"classify", "held"} /\ "inbound" \in registered
           \/ Place(k) = "batch" /\ "notify" \in registered
    BY <2>3 DEF PacingInv, HandleOutlivesPackets
  <2> QED
    BY <2>2, <2>4
<1> QED
  BY <1>6, <1>7, <1>8, <1>9

(* What is taken from a queue comes before what stays there. *)
LEMMA TakenInOrder ==
  ASSUME PacingInv, NEW a \in Actors, NEW n, NEW taken, Taken(a, n, taken),
         NEW k \in taken, NEW j \in At("held") \ taken, packets[j].pid = packets[k].pid,
         packets[j].cpu = packets[k].cpu
  PROVE  k < j
<1>1. PICK i \in Contexts : k \in Range(SubSeq(Q(i), 1, n[i]))
  BY DEF Taken
<1>2. PICK l \in Contexts : j \in Range(Q(l))
  BY ContextShape
<1>3. PICK m \in Nat : m = n[i] /\ m \in 0 .. Len(Q(i))
  BY DEF Taken
<1>4. Q(i) \in Seq(Nat) /\ IsInjective(Q(i)) /\ DOMAIN Q(i) = 1 .. Len(Q(i)) /\ Len(Q(i)) \in Nat
  BY ContextShape
<1>5. /\ SubSeq(Q(i), 1, m) \in Seq(Nat) /\ Len(SubSeq(Q(i), 1, m)) = m
      /\ \A p \in 1 .. m : SubSeq(Q(i), 1, m)[p] = Q(i)[p]
      /\ Range(SubSeq(Q(i), 1, m)) \cup Range(SubSeq(Q(i), m + 1, Len(Q(i)))) = Range(Q(i))
  BY <1>3, <1>4, CutShape
<1>6. k \in Range(Q(i))
  BY <1>1, <1>3, <1>5
<1>7. i = l
  BY <1>2, <1>6, ContextShape DEF PacingInv, Queues
<1>8. PICK p \in 1 .. m : k = Q(i)[p] /\ p \in DOMAIN Q(i)
  <2>1. DOMAIN SubSeq(Q(i), 1, m) = 1 .. m
    BY <1>5, LenProperties
  <2>2. PICK p \in 1 .. m : k = SubSeq(Q(i), 1, m)[p]
    BY <1>1, <1>3, <2>1 DEF Range
  <2>3. p \in DOMAIN Q(i)
    BY <1>3, <1>4
  <2> QED
    BY <1>5, <2>2, <2>3
<1>9. PICK q \in DOMAIN Q(i) : j = Q(i)[q]
  BY <1>2, <1>7 DEF Range
<1>10. q \notin 1 .. m
  <2>1. ASSUME q \in 1 .. m PROVE j \in taken
    <3>1. j = SubSeq(Q(i), 1, m)[q] /\ q \in DOMAIN SubSeq(Q(i), 1, m)
      BY <1>5, <1>9, <2>1, LenProperties
    <3>2. j \in Range(SubSeq(Q(i), 1, n[i]))
      BY <1>3, <3>1 DEF Range
    <3> QED
      BY <3>2 DEF Taken
  <2> QED
    BY <2>1
<1>11. p < q
  BY <1>3, <1>4, <1>9, <1>10
<1> QED
  BY <1>8, <1>9, <1>11 DEF PacingInv, Queues

(* Packets leave their owners and are not held; or nothing moves. *)
Moved(ks, place) ==
  /\ ks \subseteq Packets /\ ks \cap At("held") = {}
  /\ place \in {"done", "dropped", "injected"}
  /\ place = "injected" => ks \subseteq At("batch") /\ \A k \in ks : s_InjHandle[packets[k].family]
  /\ packets' = Move(ks, place)

SameQueue(i) ==
  /\ Q(i)' = Q(i)
  /\ s_Contexts'[i].PacketCount = s_Contexts[i].PacketCount
  /\ s_Contexts'[i].QueuedBytes = s_Contexts[i].QueuedBytes
  /\ Q(i) # <<>> => s_Contexts'[i].ProcessId = s_Contexts[i].ProcessId
  /\ ~s_Contexts'[i].InUse => Q(i) = <<>>

(* The injection handles, and what is still called after DriverUnload, stay. *)
HandlesStay ==
  /\ UNCHANGED s_InjHandle
  /\ phase = "unloaded" => phase' = phase /\ registered' = registered

Left(ks, place) ==
  /\ Moved(ks, place)
  /\ \A c \in Cpus : Busy(c)' => Busy(c) /\ Work(c)' = Work(c) /\ Work(c) \notin ks
  /\ \A c \in Cpus : Busy(c) /\ ~Busy(c)' => Work(c) \in ks
  /\ \A a \in Actors : IsInjective(B(a)') /\ Range(B(a)') = Range(B(a)) \ ks
  /\ \A i \in Contexts : SameQueue(i)
  /\ \A i, j \in Contexts : s_Contexts'[i].InUse /\ s_Contexts'[j].InUse
                            /\ s_Contexts'[i].ProcessId = s_Contexts'[j].ProcessId => i = j
  /\ UNCHANGED s_GlobalQueuedBytes

(* What a packet that leaves the driver, or a classify, does to the places. *)
LEMMA LeftShape ==
  ASSUME PacingInv, NEW ks, NEW place, Left(ks, place)
  PROVE  /\ Packets' = Packets /\ Weight' = Weight
         /\ \A k \in Packets : /\ packets'[k].pid = packets[k].pid /\ packets'[k].family = packets[k].family
                               /\ packets'[k].cpu = packets[k].cpu
         /\ At("held")' = At("held") /\ At("classify")' = At("classify") \ ks
         /\ At("batch")' = At("batch") \ ks
         /\ At("injected")' \subseteq At("injected") \cup {k \in Packets : s_InjHandle[packets[k].family]}
<1>1. packets' = Move(ks, place) /\ PacingType /\ place \in Places
  <2>1. Moved(ks, place)
    BY DEF Left
  <2> QED
    BY <2>1 DEF Moved, PacingInv, Places
<1>2. /\ Packets' = Packets /\ Weight' = Weight
      /\ \A k \in Packets : /\ packets'[k].pid = packets[k].pid /\ packets'[k].family = packets[k].family
                            /\ packets'[k].cpu = packets[k].cpu
      /\ \A p \in Places : At(p)' = IF p = place THEN At(p) \cup (ks \cap Packets) ELSE At(p) \ ks
  BY <1>1, MoveShape
<1>3. /\ place \notin {"held", "classify", "batch"} /\ ks \cap At("held") = {}
      /\ place = "injected" => \A k \in ks : s_InjHandle[packets[k].family]
  <2>1. Moved(ks, place)
    BY DEF Left
  <2> QED
    BY <2>1 DEF Moved
<1> QED
  BY <1>2, <1>3 DEF Places

(* A packet that leaves its owner for good keeps the invariant. *)
LEMMA LeftKeeps ==
  ASSUME PacingInv, NEW ks, NEW place, Left(ks, place)
  PROVE  Owned' /\ Queues' /\ Counted' /\ (HandlesStay => HandleOutlivesPackets')
<1>1. /\ Packets' = Packets /\ Weight' = Weight
      /\ \A k \in Packets : /\ packets'[k].pid = packets[k].pid /\ packets'[k].family = packets[k].family
                            /\ packets'[k].cpu = packets[k].cpu
      /\ At("held")' = At("held") /\ At("classify")' = At("classify") \ ks
      /\ At("batch")' = At("batch") \ ks
      /\ At("injected")' \subseteq At("injected") \cup {k \in Packets : s_InjHandle[packets[k].family]}
  BY LeftShape
<1>2. \A i \in Contexts : /\ Q(i)' = Q(i)
                          /\ s_Contexts'[i].PacketCount = s_Contexts[i].PacketCount
                          /\ s_Contexts'[i].QueuedBytes = s_Contexts[i].QueuedBytes
                          /\ Q(i) # <<>> => s_Contexts'[i].ProcessId = s_Contexts[i].ProcessId
                          /\ ~s_Contexts'[i].InUse => Q(i) = <<>>
  BY DEF Left, SameQueue
<1>3. /\ \A c \in Cpus : Busy(c)' => Busy(c) /\ Work(c)' = Work(c) /\ Work(c) \notin ks
      /\ \A c \in Cpus : Busy(c) /\ ~Busy(c)' => Work(c) \in ks
  BY DEF Left
<1>4. Owned'
  <2>1. /\ At("classify") = {Work(c) : c \in {c \in Cpus : Busy(c)}}
        /\ \A c \in Cpus : Busy(c) => packets[Work(c)].cpu = c /\ Work(c) \in Packets
    BY DEF PacingInv, Owned, At
  <2>2. At("classify")' = {Work(c)' : c \in {c \in Cpus : Busy(c)'}}
    <3>1. ASSUME NEW k \in At("classify") \ ks PROVE \E c \in Cpus : Busy(c)' /\ Work(c)' = k
      BY <1>3, <2>1
    <3>2. ASSUME NEW c \in Cpus, Busy(c)' PROVE Work(c)' \in At("classify") \ ks
      BY <1>3, <2>1, <3>2
    <3> QED
      BY <1>1, <3>1, <3>2
  <2>3. \A c \in Cpus : Busy(c)' => packets'[Work(c)'].cpu = c
    BY <1>1, <1>3, <2>1
  <2>4. At("held")' = UNION {Range(Q(i)') : i \in Contexts} /\ \A i \in Contexts : IsInjective(Q(i)')
    BY <1>1, <1>2 DEF PacingInv, Owned
  <2>5. /\ At("batch")' = UNION {Range(B(b)') : b \in Actors}
        /\ \A b \in Actors : IsInjective(B(b)')
        /\ \A b, d \in Actors : b # d => Range(B(b)') \cap Range(B(d)') = {}
    <3>1. /\ At("batch") = UNION {Range(B(b)) : b \in Actors}
          /\ \A b, d \in Actors : b # d => Range(B(b)) \cap Range(B(d)) = {}
      BY DEF PacingInv, Owned
    <3>2. \A b \in Actors : IsInjective(B(b)') /\ Range(B(b)') = Range(B(b)) \ ks
      BY DEF Left
    <3> QED
      BY <1>1, <3>1, <3>2
  <2> QED
    BY <2>2, <2>3, <2>4, <2>5 DEF Owned
<1>5. Queues'
  <2>1. \A i \in Contexts : ~s_Contexts'[i].InUse => Q(i)' = <<>>
    BY <1>2
  <2>2. \A i, j \in Contexts : s_Contexts'[i].InUse /\ s_Contexts'[j].InUse
                               /\ s_Contexts'[i].ProcessId = s_Contexts'[j].ProcessId => i = j
    BY DEF Left
  <2>3. ASSUME NEW i \in Contexts, NEW p \in DOMAIN Q(i)' PROVE Pid(Q(i)[p])' = s_Contexts'[i].ProcessId
    <3>1. Q(i)' = Q(i) /\ p \in DOMAIN Q(i)
      BY <1>2
    <3>2. Q(i)[p] \in Packets /\ packets[Q(i)[p]].pid = s_Contexts[i].ProcessId
      BY <3>1, ContextShape
    <3>3. Q(i) # <<>>
      BY <3>1, ContextShape
    <3>4. s_Contexts'[i].ProcessId = s_Contexts[i].ProcessId
      BY <1>2, <3>3
    <3> QED
      BY <1>1, <3>1, <3>2, <3>4 DEF Pid
  <2>4. ASSUME NEW i \in Contexts, NEW p \in DOMAIN Q(i)', NEW q \in DOMAIN Q(i)', p < q,
               packets'[Q(i)'[p]].cpu = packets'[Q(i)'[q]].cpu
        PROVE  Q(i)'[p] < Q(i)'[q]
    <3>1. Q(i)' = Q(i) /\ p \in DOMAIN Q(i) /\ q \in DOMAIN Q(i)
      BY <1>2
    <3>2. Q(i)[p] \in Packets /\ Q(i)[q] \in Packets
      BY <3>1, ContextShape
    <3> QED
      BY <1>1, <2>4, <3>1, <3>2 DEF PacingInv, Queues
  <2> QED
    BY <2>1, <2>2, <2>3, <2>4 DEF Queues
<1>6. Counted'
  <2>1. s_GlobalQueuedBytes' = s_GlobalQueuedBytes
    BY DEF Left
  <2> QED
    BY <1>1, <1>2, <2>1 DEF PacingInv, Counted
<1>7. ASSUME HandlesStay PROVE HandleOutlivesPackets'
  <2> SUFFICES ASSUME NEW k \in Packets, Place(k)' \in {"classify", "held", "batch", "injected"},
                      ~s_InjHandle[packets[k].family]
               PROVE  /\ phase' = "unloaded"
                      /\ \/ Place(k)' \in {"classify", "held"} /\ "inbound" \in registered'
                         \/ Place(k)' = "batch" /\ "notify" \in registered'
    BY <1>1, <1>7 DEF HandleOutlivesPackets, HandlesStay
  <2>1. \A p \in Places : k \in At(p)' <=> Place(k)' = p
    BY <1>1 DEF At
  <2>2. Place(k)' = Place(k)
    <3>1. Place(k)' = "injected" => Place(k) = "injected"
      BY <1>1, <2>1 DEF Places, At
    <3> QED
      BY <1>1, <2>1, <3>1 DEF Places, At
  <2>3. /\ phase = "unloaded"
        /\ \/ Place(k) \in {"classify", "held"} /\ "inbound" \in registered
           \/ Place(k) = "batch" /\ "notify" \in registered
    BY <2>2 DEF PacingInv, HandleOutlivesPackets
  <2>4. phase' = phase /\ registered' = registered
    BY <1>7, <2>3 DEF HandlesStay
  <2> QED
    BY <2>2, <2>3, <2>4
<1> QED
  BY <1>4, <1>5, <1>6, <1>7
-----------------------------------------------------------------------------
(* What the processors, the DPC and the threads hold, by where they are. *)
LEMMA CpuShape ==
  ASSUME PacingInv, NEW c \in Cpus
  PROVE  /\ Busy(c) => /\ cpu[c] \in [pc : {"has_held", "check", "hold", "fail"}, pkt : Nat]
                       /\ Work(c) \in At("classify") /\ Work(c) \in Packets /\ packets[Work(c)].cpu = c
                       /\ Work(c) \in Nat
         /\ cpu[c].pc \in {"has_held", "check", "hold", "fail"} => Busy(c)
         /\ ~Busy(c) => cpu[c] = Idle
<1>1. cpu[c] \in Classifying
  BY DEF PacingInv, PacingType
<1>2. Busy(c) => cpu[c] \in [pc : {"has_held", "check", "hold", "fail"}, pkt : Nat]
  BY <1>1 DEF Busy, Classifying
<1>3. Busy(c) => Work(c) \in At("classify") /\ packets[Work(c)].cpu = c
  BY DEF PacingInv, Owned
<1>4. cpu[c].pc \in {"has_held", "check", "hold", "fail"} => Busy(c)
  BY DEF Busy, Idle
<1> QED
  BY <1>2, <1>3, <1>4 DEF At, Work, Busy

(* The states of the timer DPC. *)
LEMMA DpcShape ==
  ASSUME PacingType
  PROVE  /\ dpc.pc = "scan" => dpc \in [pc : {"scan"}, ctx : Nat, batch : Seq(Nat)] /\ dpc # Idle
         /\ dpc.pc = "inject" => dpc \in [pc : {"inject"}, batch : NonEmpty] /\ dpc # Idle
         /\ dpc.pc \notin {"scan", "inject"} => dpc = Idle
         /\ B("dpc") \in Seq(Nat)
         /\ dpc.pc \in {"scan", "inject"} => B("dpc") = dpc.batch
<1>1. dpc \in Ticking
  BY DEF PacingType
<1>2. <<>> \in Seq(Nat)
  BY EmptySeq
<1> QED
  BY <1>1, <1>2 DEF Ticking, NonEmpty, Idle, B, BatchOf

(* The states of a thread that flushes. *)
LEMMA ThreadShape ==
  ASSUME PacingType, NEW t \in Threads
  PROVE  /\ thread[t].pc \in {"flush", "remove"} =>
              thread[t] \in [pc : {"flush", "remove"}, target : Int] /\ thread[t] # Idle
         /\ thread[t].pc = "inject" =>
              thread[t] \in [pc : {"inject"}, target : Int, batch : NonEmpty] /\ thread[t] # Idle
         /\ thread[t].pc \notin {"flush", "remove", "inject"} => thread[t] = Idle
         /\ B(t) \in Seq(Nat)
         /\ thread[t].pc = "inject" => B(t) = thread[t].batch
         /\ thread[t].pc # "inject" => B(t) = <<>>
<1>1. thread[t] \in Flushing
  BY DEF PacingType
<1>2. <<>> \in Seq(Nat)
  BY EmptySeq
<1>3. t # "dpc"
  BY DEF Threads
<1> QED
  BY <1>1, <1>2, <1>3 DEF Flushing, NonEmpty, Idle, B, BatchOf

(* A segment arrives. *)
LEMMA ArriveKeeps ==
  ASSUME PacingInv, NEW c \in Cpus, NEW pid \in Procs, NEW n \in Sizes, NEW f \in Families,
         Arrive(c, pid, n, f)
  PROVE  PacingInv'
<1>1. PICK place \in {"done", "classify"} :
        /\ packets' = Append(packets, [pid |-> pid, bytes |-> n, family |-> f, cpu |-> c, place |-> place])
        /\ place = "done" => cpu' = cpu
        /\ place = "classify" => /\ cpu' = [cpu EXCEPT ![c] = [pc |-> "has_held", pkt |-> Len(packets) + 1]]
                                 /\ s_InjHandle[f]
  BY DEF Arrive, PacingEnabled
<1>2. /\ "inbound" \in registered /\ cpu[c] = Idle /\ Len(packets) + 1 <= MaxPackets
      /\ UNCHANGED <<s_Contexts, s_GlobalQueuedBytes, s_InjHandle, dpc, thread, phase, registered>>
  BY DEF Arrive
<1>3. PICK l \in Nat : l = Len(packets)
  BY PacketShape DEF PacingInv
<1> DEFINE r == [pid |-> pid, bytes |-> n, family |-> f, cpu |-> c, place |-> place]
<1>4. r \in Packet
  BY DEF Packet, Places
<1> HIDE DEF r
<1>5. /\ packets' \in Seq(Packet) /\ Len(packets') = l + 1 /\ packets'[l + 1] = r
      /\ \A k \in 1 .. l : packets'[k] = packets[k]
  <2>1. packets' = Append(packets, r) /\ packets \in Seq(Packet)
    BY <1>1 DEF r, PacingInv, PacingType
  <2> QED
    BY <1>3, <1>4, <2>1, AppendProperties
<1>6. Packets = 1 .. l /\ Packets' = Packets \cup {l + 1} /\ l + 1 \notin Packets
  <2>1. Packets = 1 .. l
    BY <1>3, PacketShape DEF PacingInv
  <2>2. Packets' = 1 .. l + 1
    BY <1>5, LenProperties DEF Packets
  <2> QED
    BY <1>3, <2>1, <2>2
<1>7. packets'[l + 1].place = place /\ packets'[l + 1].cpu = c /\ packets'[l + 1].family = f
  BY <1>5 DEF r
<1>8. \A p \in Places : At(p)' = IF p = place THEN At(p) \cup {l + 1} ELSE At(p)
  BY <1>5, <1>6, <1>7 DEF At, Place
<1>9. At("held")' = At("held") /\ At("batch")' = At("batch") /\ At("injected")' = At("injected")
  BY <1>8 DEF Places
<1>10. \A k \in Packets : packets'[k] = packets[k]
  BY <1>5, <1>6
<1>11. \A d \in Cpus : d # c => cpu'[d] = cpu[d]
  BY <1>1 DEF PacingInv, PacingType
<1>12. place = "classify" => Busy(c)' /\ Work(c)' = l + 1 /\ cpu'[c].pc = "has_held" /\ cpu'[c] \in Classifying
  BY <1>1, <1>3 DEF PacingInv, PacingType, Busy, Work, Idle, Classifying
<1>13. ~Busy(c)
  BY <1>2 DEF Busy
<1>14. PacingType'
  <2>1. cpu' \in [Cpus -> Classifying]
    BY <1>1, <1>12 DEF PacingInv, PacingType
  <2>2. Len(packets') <= MaxPackets
    BY <1>2, <1>3, <1>5
  <2> QED
    BY <1>2, <1>5, <2>1, <2>2 DEF PacingInv, PacingType
<1>15. Owned'
  <2>1. \A d \in Cpus : d # c => (Busy(d)' <=> Busy(d)) /\ Work(d)' = Work(d)
    BY <1>11 DEF Busy, Work
  <2>2. \A d \in Cpus : Busy(d) => Work(d) \in Packets /\ Work(d) \in At("classify") /\ packets[Work(d)].cpu = d
    BY CpuShape
  <2>3. At("classify") = {Work(d) : d \in {d \in Cpus : Busy(d)}}
    BY DEF PacingInv, Owned
  <2>4. At("classify")' = {Work(d)' : d \in {d \in Cpus : Busy(d)'}}
    <3>1. CASE place = "classify"
      BY <1>8, <1>12, <1>13, <2>1, <2>3, <3>1 DEF Places
    <3>2. CASE place = "done"
      <4>1. cpu' = cpu /\ At("classify")' = At("classify")
        BY <1>1, <1>8, <3>2 DEF Places
      <4> QED
        BY <2>3, <4>1 DEF Busy, Work
    <3> QED
      BY <3>1, <3>2
  <2>5. \A d \in Cpus : Busy(d)' => packets'[Work(d)'].cpu = d
    <3>1. CASE place = "classify"
      BY <1>7, <1>10, <1>12, <2>1, <2>2, <3>1
    <3>2. CASE place = "done"
      <4>1. cpu' = cpu
        BY <1>1, <3>2
      <4> QED
        BY <1>10, <2>2, <4>1 DEF Busy, Work
    <3> QED
      BY <3>1, <3>2
  <2>6. /\ \A i \in Contexts : Q(i)' = Q(i)
        /\ \A a \in Actors : B(a)' = B(a)
    BY <1>2 DEF Q, B, BatchOf
  <2> QED
    BY <1>9, <2>4, <2>5, <2>6 DEF PacingInv, Owned
<1>16. Queues'
  <2>1. \A i \in Contexts : Q(i)' = Q(i)
    BY <1>2 DEF Q
  <2>2. \A i \in Contexts : \A p \in DOMAIN Q(i) : Q(i)[p] \in Packets
    BY ContextShape
  <2> QED
    BY <1>2, <1>10, <2>1, <2>2 DEF PacingInv, Queues, Pid
<1>17. Counted'
  <2>1. ASSUME NEW T \in SUBSET Packets PROVE SumOver(Weight', T) = SumOver(Weight, T)
    <3>1. \A k \in T : Weight[k] \in Nat
      BY PacketShape DEF PacingInv
    <3>2. \A k \in T : Weight'[k] = Weight[k]
      BY <1>6, <1>10 DEF Weight, Bytes
    <3>3. IsFiniteSet(T)
      BY PacketShape, FS_Subset DEF PacingInv
    <3>4. PICK w, v : w = Weight /\ v = Weight'
      OBVIOUS
    <3>5. \A k \in T : w[k] \in Nat /\ v[k] = w[k]
      BY <3>1, <3>2, <3>4
    <3>6. SumOver(v, T) = SumOver(w, T)
      BY <3>3, <3>5, SumSame
    <3> QED
      BY <3>4, <3>6
  <2>2. ASSUME NEW i \in Contexts
        PROVE  Q(i)' = Q(i) /\ SumOver(Weight', Range(Q(i))) = SumOver(Weight, Range(Q(i)))
    <3>1. Range(Q(i)) \in SUBSET Packets /\ Q(i)' = Q(i)
      BY <1>2, ContextShape DEF Q
    <3> QED
      BY <2>1, <3>1
  <2>3. SumOver(Weight', At("held")') = SumOver(Weight, At("held"))
    <3>1. At("held") \in SUBSET Packets
      BY DEF At
    <3> QED
      BY <1>9, <2>1, <3>1
  <2>4. ASSUME NEW i \in Contexts
        PROVE  /\ s_Contexts'[i].PacketCount = Len(Q(i)')
               /\ s_Contexts'[i].QueuedBytes = SumOver(Weight', Range(Q(i)'))
               /\ s_Contexts'[i].QueuedBytes <= PACING_PID_HOLD_LIMIT
    BY <1>2, <2>2 DEF PacingInv, Counted
  <2>5. s_GlobalQueuedBytes' = SumOver(Weight', At("held")') /\ s_GlobalQueuedBytes' <= PACING_GLOBAL_HOLD_LIMIT
    BY <1>2, <2>3 DEF PacingInv, Counted
  <2> QED
    BY <2>4, <2>5 DEF Counted
<1>18. Latest'
  <2> SUFFICES ASSUME NEW d \in Cpus, Busy(d)'
               PROVE  /\ \A k \in Packets' : packets'[k].cpu = d => k <= Work(d)'
                      /\ cpu'[d].pc = "check" => \A k \in At("held") :
                           packets'[k].pid = packets'[Work(d)'].pid => packets'[k].cpu # d
    BY <1>9 DEF Latest
  <2>1. CASE d = c
    <3>1. place = "classify"
      BY <1>1, <1>13, <2>1 DEF Busy
    <3>2. \A k \in Packets' : k <= l + 1
      BY <1>6
    <3> QED
      BY <1>12, <2>1, <3>1, <3>2
  <2>2. CASE d # c
    <3>1. cpu'[d] = cpu[d] /\ Busy(d) /\ Work(d)' = Work(d)
      BY <1>11, <2>2 DEF Busy, Work
    <3>2. Work(d) \in Packets /\ \A k \in At("held") : k \in Packets
      BY <3>1, CpuShape DEF At
    <3>3. /\ \A k \in Packets : packets[k].cpu = d => k <= Work(d)
          /\ cpu[d].pc = "check" =>
               \A k \in At("held") : packets[k].pid = packets[Work(d)].pid => packets[k].cpu # d
      BY <3>1 DEF PacingInv, Latest
    <3> QED
      BY <1>6, <1>7, <1>10, <2>2, <3>1, <3>2, <3>3
  <2> QED
    BY <2>1, <2>2
<1>19. Stopped'
  BY <1>2 DEF PacingInv, Stopped
<1>20. HandleOutlivesPackets'
  <2>1. ASSUME NEW k \in Packets', packets'[k].place \in {"classify", "held", "batch", "injected"}
        PROVE  \/ s_InjHandle'[packets'[k].family]
               \/ /\ phase' = "unloaded"
                  /\ \/ packets'[k].place \in {"classify", "held"} /\ "inbound" \in registered'
                     \/ packets'[k].place = "batch" /\ "notify" \in registered'
    <3>1. CASE k \in Packets
      BY <1>2, <1>10, <2>1, <3>1 DEF PacingInv, HandleOutlivesPackets, Place
    <3>2. CASE k = l + 1
      <4>1. place = "classify"
        BY <1>7, <2>1, <3>2
      <4> QED
        BY <1>1, <1>2, <1>7, <3>2, <4>1
    <3> QED
      BY <1>6, <3>1, <3>2
  <2> QED
    BY <2>1 DEF HandleOutlivesPackets, Place
<1> QED
  BY <1>14, <1>15, <1>16, <1>17, <1>18, <1>19, <1>20 DEF PacingInv
-----------------------------------------------------------------------------
(* A step in which nothing moves. *)
LEMMA MoveNone ==
  ASSUME PacingType, NEW place
  PROVE  Move({}, place) = packets
<1>1. DOMAIN packets = 1 .. Len(packets) /\ packets \in [1 .. Len(packets) -> Packet]
  BY PacketShape, ElementOfSeq DEF Packets, PacingType
<1>2. Move({}, place) = [k \in DOMAIN packets |-> packets[k]]
  BY DEF Move
<1> QED
  BY <1>1, <1>2

(* The processors go on with what they work on, or finish it. *)
SameWork ==
  /\ Packets' = Packets
  /\ \A k \in Packets : packets'[k].pid = packets[k].pid /\ packets'[k].cpu = packets[k].cpu
  /\ \A d \in Cpus : Busy(d)' => /\ Busy(d) /\ Work(d)' = Work(d)
                                 /\ \A k \in At("held")' \ At("held") : packets[k].cpu # d
  /\ \A d \in Cpus : Busy(d)' /\ cpu'[d].pc = "check" =>
       \/ cpu[d].pc = "check"
       \/ \A k \in At("held") : packets[k].pid = packets[Work(d)].pid => packets[k].cpu # d

(* A processor that goes on with the packet it has stays on its latest. *)
LEMMA LatestKeeps ==
  ASSUME PacingInv, SameWork
  PROVE  Latest'
<1> SUFFICES ASSUME NEW d \in Cpus, Busy(d)'
             PROVE  /\ \A k \in Packets' : packets'[k].cpu = d => k <= Work(d)'
                    /\ cpu'[d].pc = "check" => \A k \in At("held")' :
                         packets'[k].pid = packets'[Work(d)'].pid => packets'[k].cpu # d
  BY DEF Latest
<1>1. Packets' = Packets /\ \A k \in Packets : packets'[k].pid = packets[k].pid /\ packets'[k].cpu = packets[k].cpu
  BY DEF SameWork
<1>2. /\ Busy(d) /\ Work(d)' = Work(d)
      /\ \A k \in At("held")' \ At("held") : packets[k].cpu # d
      /\ cpu'[d].pc = "check" =>
           \/ cpu[d].pc = "check"
           \/ \A k \in At("held") : packets[k].pid = packets[Work(d)].pid => packets[k].cpu # d
  BY DEF SameWork
<1>3. /\ \A k \in Packets : packets[k].cpu = d => k <= Work(d)
      /\ cpu[d].pc = "check" =>
           \A k \in At("held") : packets[k].pid = packets[Work(d)].pid => packets[k].cpu # d
  BY <1>2 DEF PacingInv, Latest
<1>4. Work(d) \in Packets /\ \A k \in At("held")' : k \in Packets
  BY <1>1, <1>2, CpuShape DEF At
<1> QED
  BY <1>1, <1>2, <1>3, <1>4

(* What PacingGetContextLocked returns: the queue of the process, or an empty
   one that no process has. *)
LEMMA OpenedShape ==
  ASSUME PacingInv, NEW pid \in Procs, NEW i \in Contexts, PacingGetContextLocked(i, pid)
  PROVE  /\ Opened(i, pid) \in Context /\ Opened(i, pid).InUse /\ Opened(i, pid).ProcessId = pid
         /\ Opened(i, pid).Queue = Q(i)
         /\ Opened(i, pid).PacketCount = s_Contexts[i].PacketCount
         /\ Opened(i, pid).QueuedBytes = s_Contexts[i].QueuedBytes
         /\ Q(i) # <<>> => s_Contexts[i].ProcessId = pid
         /\ \A j \in Contexts : j # i => ~IsContextOf(j, pid)
<1>1. s_Contexts[i] \in Context /\ Q(i) = s_Contexts[i].Queue
  BY ContextShape DEF Q
<1>2. CASE s_Contexts[i].InUse
  <2>1. Opened(i, pid) = s_Contexts[i] /\ s_Contexts[i].ProcessId = pid
    BY <1>2 DEF Opened, PacingGetContextLocked, IsContextOf
  <2>2. ASSUME NEW j \in Contexts, j # i PROVE ~IsContextOf(j, pid)
    BY <1>2, <2>1, <2>2 DEF PacingInv, Queues, IsContextOf
  <2> QED
    BY <1>1, <1>2, <2>1, <2>2
<1>3. CASE ~s_Contexts[i].InUse
  <2>1. Q(i) = <<>>
    BY <1>3 DEF PacingInv, Queues
  <2>2. s_Contexts[i].PacketCount = 0 /\ s_Contexts[i].QueuedBytes = 0
    <3>1. Range(Q(i)) = {}
      BY <2>1, EmptySeq DEF Range
    <3>2. SumOver(Weight, {}) = 0
      BY PacketShape, SumSplit DEF PacingInv
    <3>3. Len(Q(i)) = 0
      BY <2>1, EmptySeq
    <3> QED
      BY <3>1, <3>2, <3>3 DEF PacingInv, Counted
  <2>3. Opened(i, pid) = [InUse |-> TRUE, ProcessId |-> pid, Queue |-> <<>>, PacketCount |-> 0, QueuedBytes |-> 0]
    BY <1>3 DEF Opened
  <2>4. <<>> \in Seq(Nat) /\ pid \in Pids
    BY EmptySeq DEF Procs
  <2>5. \A j \in Contexts : ~IsContextOf(j, pid)
    BY <1>3 DEF PacingGetContextLocked, IsContextOf
  <2> QED
    BY <2>1, <2>2, <2>3, <2>4, <2>5 DEF Context
<1> QED
  BY <1>2, <1>3

(* A packet joins the queue of its process. *)
LEMMA HoldShape ==
  ASSUME PacingInv, NEW c \in Cpus, Hold(c)
  PROVE  \E i \in Contexts, k \in At("classify") :
           /\ Busy(c) /\ k = Work(c) /\ ~Busy(c)' /\ packets[k].cpu = c
           /\ \A d \in Cpus : d # c => cpu'[d] = cpu[d]
           /\ Q(i)' = Append(Q(i), k)
           /\ s_Contexts' \in [Contexts -> Context]
           /\ \A j \in Contexts : j # i => s_Contexts'[j] = s_Contexts[j] /\ ~IsContextOf(j, packets[k].pid)
           /\ s_Contexts'[i].InUse /\ s_Contexts'[i].ProcessId = packets[k].pid
           /\ Q(i) # <<>> => s_Contexts[i].ProcessId = packets[k].pid
           /\ s_Contexts'[i].PacketCount = s_Contexts[i].PacketCount + 1
           /\ s_Contexts'[i].QueuedBytes = s_Contexts[i].QueuedBytes + packets[k].bytes
           /\ s_Contexts'[i].QueuedBytes <= PACING_PID_HOLD_LIMIT
           /\ s_GlobalQueuedBytes' = s_GlobalQueuedBytes + packets[k].bytes
           /\ s_GlobalQueuedBytes' <= PACING_GLOBAL_HOLD_LIMIT
           /\ packets' = Move({k}, "held")
<1>1. PICK k : k = Work(c)
  OBVIOUS
<1>2. Busy(c) /\ k \in At("classify") /\ k \in Packets /\ packets[k].cpu = c
  BY <1>1, CpuShape DEF Hold
<1>3. packets[k] \in Packet /\ k \in Nat /\ packets[k].pid \in Procs /\ packets[k].bytes \in Nat
  BY <1>2, PacketShape DEF PacingInv, Packet
<1> DEFINE pid == packets[k].pid
<1>4. PICK i \in Contexts :
        /\ PacingGetContextLocked(i, pid)
        /\ ~OverLimit(Opened(i, pid), packets[k].bytes)
        /\ s_Contexts' = [s_Contexts EXCEPT ![i] =
             [Opened(i, pid) EXCEPT !.Queue = Append(@, k), !.PacketCount = @ + 1,
                                    !.QueuedBytes = @ + packets[k].bytes]]
  BY <1>1, Zenon DEF Hold, Work, Pid, Bytes
<1>5. /\ s_GlobalQueuedBytes' = s_GlobalQueuedBytes + packets[k].bytes
      /\ packets' = Move({k}, "held")
      /\ cpu' = [cpu EXCEPT ![c] = Idle]
  BY <1>1 DEF Hold, Work, Bytes
<1>6. PICK ctx \in Context :
        /\ ctx = Opened(i, pid) /\ ctx.InUse /\ ctx.ProcessId = pid /\ ctx.Queue = Q(i)
        /\ ctx.PacketCount = s_Contexts[i].PacketCount
        /\ ctx.QueuedBytes = s_Contexts[i].QueuedBytes
        /\ Q(i) # <<>> => s_Contexts[i].ProcessId = pid
        /\ \A j \in Contexts : j # i => ~IsContextOf(j, pid)
  BY <1>3, <1>4, OpenedShape
<1>7. PICK new : new = [ctx EXCEPT !.Queue = Append(@, k), !.PacketCount = @ + 1,
                                   !.QueuedBytes = @ + packets[k].bytes]
  OBVIOUS
<1>8. /\ new \in Context /\ new.InUse /\ new.ProcessId = pid /\ new.Queue = Append(Q(i), k)
      /\ new.PacketCount = s_Contexts[i].PacketCount + 1
      /\ new.QueuedBytes = s_Contexts[i].QueuedBytes + packets[k].bytes
  <2>1. Append(Q(i), k) \in Seq(Nat)
    BY <1>3, <1>6, AppendProperties DEF Context
  <2>2. ctx.PacketCount + 1 \in Int /\ ctx.QueuedBytes + packets[k].bytes \in Int
    BY <1>3 DEF Context
  <2> QED
    BY <1>6, <1>7, <2>1, <2>2 DEF Context
<1>9. s_Contexts \in [Contexts -> Context] /\ s_Contexts' = [s_Contexts EXCEPT ![i] = new]
  BY <1>4, <1>6, <1>7 DEF PacingInv, PacingType
<1>10. /\ s_GlobalQueuedBytes + packets[k].bytes <= PACING_GLOBAL_HOLD_LIMIT
       /\ s_Contexts[i].QueuedBytes + packets[k].bytes <= PACING_PID_HOLD_LIMIT
  <2>1. s_GlobalQueuedBytes \in Int /\ ctx.QueuedBytes \in Int
    BY DEF PacingInv, PacingType, Context
  <2>2. ~(s_GlobalQueuedBytes + packets[k].bytes > PACING_GLOBAL_HOLD_LIMIT)
        /\ ~(ctx.QueuedBytes + packets[k].bytes > PACING_PID_HOLD_LIMIT)
    BY <1>4, <1>6 DEF OverLimit
  <2> QED
    BY <1>3, <1>6, <2>1, <2>2, PacingAssumption
<1>11. s_Contexts'[i] = new /\ \A j \in Contexts : j # i => s_Contexts'[j] = s_Contexts[j]
  BY <1>9
<1>12. ~Busy(c)' /\ \A d \in Cpus : d # c => cpu'[d] = cpu[d]
  BY <1>5 DEF PacingInv, PacingType, Busy
<1>13. s_Contexts' \in [Contexts -> Context] /\ Q(i)' = Append(Q(i), k)
  BY <1>8, <1>9, <1>11 DEF Q
<1> QED
  BY <1>1, <1>2, <1>5, <1>6, <1>8, <1>10, <1>11, <1>12, <1>13

(* PacingHoldPacket, with the packet queued. *)
LEMMA HoldKeeps ==
  ASSUME PacingInv, NEW c \in Cpus, Hold(c)
  PROVE  PacingInv'
<1>1. PICK i \in Contexts, k \in At("classify") :
        /\ Busy(c) /\ k = Work(c) /\ ~Busy(c)' /\ packets[k].cpu = c
        /\ \A d \in Cpus : d # c => cpu'[d] = cpu[d]
        /\ Q(i)' = Append(Q(i), k)
        /\ s_Contexts' \in [Contexts -> Context]
        /\ \A j \in Contexts : j # i => s_Contexts'[j] = s_Contexts[j] /\ ~IsContextOf(j, packets[k].pid)
        /\ s_Contexts'[i].InUse /\ s_Contexts'[i].ProcessId = packets[k].pid
        /\ Q(i) # <<>> => s_Contexts[i].ProcessId = packets[k].pid
        /\ s_Contexts'[i].PacketCount = s_Contexts[i].PacketCount + 1
        /\ s_Contexts'[i].QueuedBytes = s_Contexts[i].QueuedBytes + packets[k].bytes
        /\ s_Contexts'[i].QueuedBytes <= PACING_PID_HOLD_LIMIT
        /\ s_GlobalQueuedBytes' = s_GlobalQueuedBytes + packets[k].bytes
        /\ s_GlobalQueuedBytes' <= PACING_GLOBAL_HOLD_LIMIT
        /\ packets' = Move({k}, "held")
  BY HoldShape
<1>2. UNCHANGED <<s_InjHandle, dpc, thread, phase, registered>> /\ cpu' = [cpu EXCEPT ![c] = Idle]
  BY DEF Hold
<1>3. /\ packets' \in Seq(Packet) /\ Len(packets') = Len(packets) /\ Packets' = Packets
      /\ \A j \in Packets : /\ packets'[j].pid = packets[j].pid /\ packets'[j].bytes = packets[j].bytes
                            /\ packets'[j].family = packets[j].family /\ packets'[j].cpu = packets[j].cpu
                            /\ packets'[j].place = IF j \in {k} THEN "held" ELSE packets[j].place
      /\ \A p \in Places : At(p)' = IF p = "held" THEN At(p) \cup ({k} \cap Packets) ELSE At(p) \ {k}
      /\ Weight' = Weight
  <2>1. "held" \in Places
    BY DEF Places
  <2> QED
    BY <1>1, <2>1, MoveShape DEF PacingInv
<1>4. k \in Packets /\ k \in Nat /\ k \notin At("held") /\ k \notin At("batch") /\ k \notin At("injected")
      /\ packets[k].bytes \in Nat
  BY PacketShape DEF At, PacingInv, Packet
<1>5. /\ At("held")' = At("held") \cup {k} /\ At("classify")' = At("classify") \ {k}
      /\ At("batch")' = At("batch") /\ At("injected")' = At("injected")
  <2>1. {"held", "classify", "batch", "injected"} \subseteq Places
    BY DEF Places
  <2>2. \A p \in Places : At(p)' = IF p = "held" THEN At(p) \cup ({k} \cap Packets) ELSE At(p) \ {k}
    BY <1>3
  <2>3. /\ At("held")' = At("held") \cup ({k} \cap Packets)
        /\ At("classify")' = At("classify") \ {k}
        /\ At("batch")' = At("batch") \ {k} /\ At("injected")' = At("injected") \ {k}
    BY <2>1, <2>2
  <2> QED
    BY <1>4, <2>3
<1>17. Packets' = Packets /\ \A j \in Packets : packets'[j].pid = packets[j].pid /\ packets'[j].cpu = packets[j].cpu
  BY <1>3
<1>18. Busy(c) /\ k = Work(c) /\ ~Busy(c)' /\ packets[k].cpu = c /\ \A d \in Cpus : d # c => cpu'[d] = cpu[d]
  BY <1>1
<1>6. \A j \in Contexts : j # i => Q(j)' = Q(j)
  BY <1>1 DEF Q
<1>7. k \notin Range(Q(i))
  BY <1>4, ContextShape
<1>8. /\ Q(i) \in Seq(Nat) /\ IsInjective(Q(i)) /\ Len(Q(i)) \in Nat /\ DOMAIN Q(i) = 1 .. Len(Q(i))
      /\ Range(Q(i)) \subseteq Packets
      /\ \A p \in DOMAIN Q(i) : Q(i)[p] \in Range(Q(i))
  BY ContextShape
<1>9. /\ Q(i)' \in Seq(Nat) /\ Len(Q(i)') = Len(Q(i)) + 1 /\ IsInjective(Q(i)')
      /\ DOMAIN Q(i)' = 1 .. Len(Q(i)) + 1
      /\ \A p \in 1 .. Len(Q(i)) : Q(i)'[p] = Q(i)[p]
      /\ Q(i)'[Len(Q(i)) + 1] = k
      /\ Range(Q(i)') = Range(Q(i)) \cup {k}
  BY <1>1, <1>4, <1>7, <1>8, AppendShape
<1>10. PacingType'
  <2>1. cpu' \in [Cpus -> Classifying]
    BY <1>2 DEF PacingInv, PacingType, Classifying
  <2>2. s_GlobalQueuedBytes' \in Int
    BY <1>1, <1>4 DEF PacingInv, PacingType
  <2> QED
    BY <1>1, <1>2, <1>3, <2>1, <2>2 DEF PacingInv, PacingType
<1>11. Owned'
  <2>1. At("classify")' = {Work(d)' : d \in {d \in Cpus : Busy(d)'}}
        /\ \A d \in Cpus : Busy(d)' => packets'[Work(d)'].cpu = d
    <3>1. At("classify") = {Work(d) : d \in {d \in Cpus : Busy(d)}}
      BY DEF PacingInv, Owned
    <3>2. \A d \in Cpus : Busy(d) => Work(d) \in Packets /\ packets[Work(d)].cpu = d
      BY CpuShape
    <3>3. \A d \in Cpus : d # c => (Busy(d)' <=> Busy(d)) /\ Work(d)' = Work(d)
      BY <1>1 DEF Busy, Work
    <3>4. \A d \in Cpus : Busy(d) /\ Work(d) = k => d = c
      BY <1>1, <3>2
    <3> QED
      BY <1>5, <1>17, <1>18, <3>1, <3>2, <3>3, <3>4
  <2>2. At("held")' = UNION {Range(Q(j)') : j \in Contexts}
    <3>1. At("held") = UNION {Range(Q(j)) : j \in Contexts}
      BY DEF PacingInv, Owned
    <3> QED
      BY <1>5, <1>6, <1>9, <3>1
  <2>3. \A j \in Contexts : IsInjective(Q(j)')
    BY <1>6, <1>9 DEF PacingInv, Owned
  <2>4. \A a \in Actors : B(a)' = B(a)
    BY <1>2 DEF B, BatchOf
  <2> QED
    BY <1>5, <2>1, <2>2, <2>3, <2>4 DEF PacingInv, Owned
<1>12. Queues'
  <2>1. ASSUME NEW j \in Contexts, ~s_Contexts'[j].InUse PROVE Q(j)' = <<>>
    <3>1. j # i
      BY <1>1, <2>1
    <3> QED
      BY <1>1, <1>6, <2>1, <3>1 DEF PacingInv, Queues
  <2>2. ASSUME NEW j \in Contexts, NEW l \in Contexts, s_Contexts'[j].InUse, s_Contexts'[l].InUse,
               s_Contexts'[j].ProcessId = s_Contexts'[l].ProcessId
        PROVE  j = l
    BY <1>1, <2>2 DEF PacingInv, Queues, IsContextOf
  <2>3. ASSUME NEW j \in Contexts, NEW p \in DOMAIN Q(j)' PROVE Pid(Q(j)[p])' = s_Contexts'[j].ProcessId
    <3>1. CASE j # i
      <4>1. Q(j)' = Q(j) /\ s_Contexts'[j] = s_Contexts[j] /\ p \in DOMAIN Q(j)
        BY <1>1, <1>6, <3>1
      <4>2. Q(j)[p] \in Packets /\ packets[Q(j)[p]].pid = s_Contexts[j].ProcessId
        BY <4>1, ContextShape
      <4> QED
        BY <1>3, <4>1, <4>2 DEF Pid
    <3>2. CASE j = i /\ p \in 1 .. Len(Q(i))
      <4>1. Q(i)'[p] = Q(i)[p] /\ Q(i)[p] \in Packets /\ packets[Q(i)[p]].pid = s_Contexts[i].ProcessId
        BY <1>8, <1>9, <3>2, ContextShape
      <4>2. Q(i) # <<>>
        BY <1>8, <3>2
      <4> QED
        BY <1>1, <1>17, <3>2, <4>1, <4>2, ZenonT(60) DEF Pid
    <3>3. CASE j = i /\ p = Len(Q(i)) + 1
      <4>1. Q(j)'[p] = k
        BY <1>9, <3>3
      <4>2. s_Contexts'[j].ProcessId = packets[k].pid /\ packets'[k].pid = packets[k].pid
        BY <1>1, <1>4, <1>17, <3>3
      <4> QED
        BY <4>1, <4>2 DEF Pid
    <3> QED
      BY <1>8, <1>9, <3>1, <3>2, <3>3
  <2>4. ASSUME NEW j \in Contexts, NEW p \in DOMAIN Q(j)', NEW q \in DOMAIN Q(j)', p < q,
               packets'[Q(j)'[p]].cpu = packets'[Q(j)'[q]].cpu
        PROVE  Q(j)'[p] < Q(j)'[q]
    <3>1. CASE j # i
      <4>1. Q(j)' = Q(j) /\ p \in DOMAIN Q(j) /\ q \in DOMAIN Q(j)
        BY <1>6, <3>1
      <4>2. Q(j)[p] \in Packets /\ Q(j)[q] \in Packets
        BY <4>1, ContextShape
      <4> QED
        BY <1>3, <2>4, <4>1, <4>2 DEF PacingInv, Queues
    <3>2. CASE j = i /\ q \in 1 .. Len(Q(i))
      <4>1. p \in 1 .. Len(Q(i))
        BY <1>8, <1>9, <2>4, <3>2
      <4>2. Q(i)[p] \in Packets /\ Q(i)[q] \in Packets /\ Q(i)'[p] = Q(i)[p] /\ Q(i)'[q] = Q(i)[q]
        BY <1>8, <1>9, <3>2, <4>1, ContextShape
      <4> QED
        BY <1>3, <1>8, <2>4, <3>2, <4>1, <4>2, SMTT(30) DEF PacingInv, Queues
    <3>3. CASE j = i /\ q = Len(Q(i)) + 1
      <4>1. p \in 1 .. Len(Q(i))
        BY <1>8, <1>9, <2>4, <3>3
      <4>2. Q(i)[p] \in Packets /\ Q(i)'[p] = Q(i)[p] /\ Q(i)'[q] = k
        BY <1>8, <1>9, <3>3, <4>1, ContextShape
      <4>3. packets[Q(i)[p]].cpu = c
        BY <1>4, <1>17, <1>18, <2>4, <3>3, <4>2
      <4>4. Q(i)[p] <= k
        BY <1>1, <4>2, <4>3 DEF PacingInv, Latest
      <4>5. Q(i)[p] # k
        BY <1>7, <1>8, <4>1
      <4> QED
        BY <1>4, <1>8, <3>3, <4>1, <4>2, <4>4, <4>5, PacketShape DEF PacingInv
    <3> QED
      BY <1>8, <1>9, <3>1, <3>2, <3>3
  <2> QED
    BY <2>1, <2>2, <2>3, <2>4 DEF Queues
<1>13. Counted'
  <2>1. SumOver(Weight, {k}) = packets[k].bytes
    BY <1>4, WeightOfOne DEF PacingInv
  <2>2. SumOver(Weight, Range(Q(i)) \cup {k}) = SumOver(Weight, Range(Q(i))) + packets[k].bytes
    <3>1. Range(Q(i)) \in SUBSET Packets /\ {k} \in SUBSET Packets /\ Range(Q(i)) \cap {k} = {}
      BY <1>4, <1>7, <1>8
    <3> QED
      BY <2>1, <3>1, WeightsOf DEF PacingInv
  <2>3. SumOver(Weight, At("held") \cup {k}) = SumOver(Weight, At("held")) + packets[k].bytes
    <3>1. At("held") \in SUBSET Packets /\ {k} \in SUBSET Packets /\ At("held") \cap {k} = {}
      BY <1>4 DEF At
    <3> QED
      BY <2>1, <3>1, WeightsOf DEF PacingInv
  <2>4. /\ \A j \in Contexts : /\ s_Contexts[j].PacketCount = Len(Q(j))
                               /\ s_Contexts[j].QueuedBytes = SumOver(Weight, Range(Q(j)))
                               /\ s_Contexts[j].QueuedBytes <= PACING_PID_HOLD_LIMIT
        /\ s_GlobalQueuedBytes = SumOver(Weight, At("held"))
    BY DEF PacingInv, Counted
  <2>5. ASSUME NEW j \in Contexts
        PROVE  /\ s_Contexts'[j].PacketCount = Len(Q(j)')
               /\ s_Contexts'[j].QueuedBytes = SumOver(Weight', Range(Q(j)'))
               /\ s_Contexts'[j].QueuedBytes <= PACING_PID_HOLD_LIMIT
    <3>1. CASE j # i
      BY <1>1, <1>3, <1>6, <2>4, <3>1
    <3>2. CASE j = i
      BY <1>1, <1>3, <1>9, <2>2, <2>4, <3>2, ZenonT(60)
    <3> QED
      BY <3>1, <3>2
  <2>6. s_GlobalQueuedBytes' = SumOver(Weight', At("held")') /\ s_GlobalQueuedBytes' <= PACING_GLOBAL_HOLD_LIMIT
    BY <1>1, <1>3, <1>5, <2>3, <2>4
  <2> QED
    BY <2>5, <2>6 DEF Counted
<1>14. Latest'
  <2>1. \A d \in Cpus : Busy(d)' => d # c /\ Busy(d) /\ Work(d)' = Work(d) /\ cpu'[d] = cpu[d]
    BY <1>1 DEF Busy, Work
  <2>2. At("held")' \ At("held") \subseteq {k}
    BY <1>5
  <2>3. SameWork
    BY <1>17, <1>18, <2>1, <2>2 DEF SameWork
  <2> QED
    BY <2>3, LatestKeeps
<1>15. Stopped'
  <2>1. "inbound" \in registered
    BY <1>1 DEF PacingInv, Stopped
  <2> QED
    BY <1>2, <2>1 DEF PacingInv, Stopped
<1>16. HandleOutlivesPackets'
  <2> SUFFICES ASSUME NEW j \in Packets, Place(j)' \in {"classify", "held", "batch", "injected"},
                      ~s_InjHandle[packets[j].family]
               PROVE  /\ phase = "unloaded"
                      /\ \/ Place(j)' \in {"classify", "held"} /\ "inbound" \in registered
                         \/ Place(j)' = "batch" /\ "notify" \in registered
    BY <1>2, <1>3 DEF HandleOutlivesPackets
  <2>1. Place(j)' = IF j = k THEN "held" ELSE Place(j)
    BY <1>3 DEF Place
  <2>2. Place(k) = "classify"
    BY DEF At
  <2>3. Place(j) \in {"classify", "held", "batch", "injected"}
    BY <2>1, <2>2
  <2>4. /\ phase = "unloaded"
        /\ \/ Place(j) \in {"classify", "held"} /\ "inbound" \in registered
           \/ Place(j) = "batch" /\ "notify" \in registered
    BY <2>3 DEF PacingInv, HandleOutlivesPackets
  <2> QED
    BY <2>1, <2>2, <2>4
<1> QED
  BY <1>10, <1>11, <1>12, <1>13, <1>14, <1>15, <1>16 DEF PacingInv
-----------------------------------------------------------------------------
(* A flush takes no more from a queue than it holds. *)
LEMMA TakesShape ==
  ASSUME PacingInv, NEW target
  PROVE  /\ Takes(target) \in [Contexts -> Nat]
         /\ \A i \in Contexts : Takes(target)[i] \in 0 .. Len(Q(i))
<1> DEFINE avail(i) == IF FlushesContext(target, i) THEN Len(s_Contexts[i].Queue) ELSE 0
           D == 0 .. PACING_DPC_BATCH
           IsUpto(g) == g = [i \in 0 .. PACING_MAX_CONTEXTS |->
                               IF i = 0 THEN 0 ELSE AtMost(g[i - 1] + avail(i), PACING_DPC_BATCH)]
           upto == CHOOSE g : IsUpto(g)
<1>1. PACING_MAX_CONTEXTS \in Nat /\ PACING_DPC_BATCH \in Nat /\ 0 \in D
  BY PacingAssumption
<1>2. ASSUME NEW i \in Contexts PROVE avail(i) \in Nat /\ avail(i) <= Len(Q(i)) /\ Len(Q(i)) \in Nat
  BY ContextShape DEF Q
<1>3. Takes(target) = [i \in Contexts |-> upto[i] - upto[i - 1]]
  BY Zenon DEF Takes
<1> HIDE DEF avail
<1>4. ASSUME NEW d \in D, NEW i \in Contexts
      PROVE  /\ AtMost(d + avail(i), PACING_DPC_BATCH) \in D
             /\ AtMost(d + avail(i), PACING_DPC_BATCH) - d \in 0 .. Len(Q(i))
  BY <1>1, <1>2 DEF AtMost
<1>5. \E g : IsUpto(g) /\ g \in [0 .. PACING_MAX_CONTEXTS -> D]
  <2> DEFINE step == [d \in D |-> [i \in 1 .. PACING_MAX_CONTEXTS |-> AtMost(d + avail(i), PACING_DPC_BATCH)]]
  <2>1. step \in [D -> [1 .. PACING_MAX_CONTEXTS -> D]]
    BY <1>4 DEF Contexts
  <2>2. \A d \in D, i \in 1 .. PACING_MAX_CONTEXTS : step[d][i] = AtMost(d + avail(i), PACING_DPC_BATCH)
    OBVIOUS
  <2> HIDE DEF step, D
  <2>3. PICK g : Unfolds(g, D, 0, PACING_MAX_CONTEXTS, step)
    BY <1>1, <2>1, Recursion
  <2>4. /\ g \in [0 .. PACING_MAX_CONTEXTS -> D] /\ g[0] = 0
        /\ \A i \in 1 .. PACING_MAX_CONTEXTS : g[i] = step[g[i - 1]][i]
    BY <2>3 DEF Unfolds
  <2>5. ASSUME NEW i \in 0 .. PACING_MAX_CONTEXTS
        PROVE  g[i] = IF i = 0 THEN 0 ELSE AtMost(g[i - 1] + avail(i), PACING_DPC_BATCH)
    <3>1. CASE i = 0
      BY <2>4, <3>1
    <3>2. CASE i # 0
      <4>1. i \in 1 .. PACING_MAX_CONTEXTS /\ i - 1 \in 0 .. PACING_MAX_CONTEXTS
        BY <1>1, <3>2
      <4> QED
        BY <2>2, <2>4, <3>2, <4>1
    <3> QED
      BY <3>1, <3>2
  <2>6. IsUpto(g)
    BY <2>4, <2>5
  <2> QED
    BY <2>4, <2>6
<1>6. IsUpto(upto)
  <2> HIDE DEF IsUpto
  <2> QED
    BY <1>5
<1>7. \A i \in 0 .. PACING_MAX_CONTEXTS :
        upto[i] = IF i = 0 THEN 0 ELSE AtMost(upto[i - 1] + avail(i), PACING_DPC_BATCH)
  BY <1>6
<1> HIDE DEF upto, IsUpto, D
<1>8. \A i \in 0 .. PACING_MAX_CONTEXTS : upto[i] \in D
  <2> DEFINE F == {i \in 0 .. PACING_MAX_CONTEXTS : upto[i] \notin D}
  <2>1. SUFFICES ASSUME F # {} PROVE FALSE
    OBVIOUS
  <2>2. PICK m \in F : \A k \in F : m <= k
    <3>1. F \subseteq Nat
      BY <1>1
    <3> HIDE DEF F
    <3> QED
      BY <2>1, <3>1, LeastOf
  <2>3. m # 0
    BY <1>1, <1>7
  <2>4. m \in Contexts /\ m - 1 \in 0 .. PACING_MAX_CONTEXTS /\ ~(m <= m - 1)
    BY <1>1, <2>3 DEF Contexts
  <2>5. upto[m - 1] \in D
    BY <2>2, <2>4
  <2>6. upto[m] = AtMost(upto[m - 1] + avail(m), PACING_DPC_BATCH)
    BY <1>7, <2>3
  <2> QED
    BY <1>4, <2>4, <2>5, <2>6
<1>9. ASSUME NEW i \in Contexts PROVE upto[i] - upto[i - 1] \in 0 .. Len(Q(i))
  <2>1. i \in 0 .. PACING_MAX_CONTEXTS /\ i - 1 \in 0 .. PACING_MAX_CONTEXTS /\ i # 0
    BY <1>1 DEF Contexts
  <2>2. upto[i - 1] \in D /\ upto[i] = AtMost(upto[i - 1] + avail(i), PACING_DPC_BATCH)
    BY <1>7, <1>8, <2>1
  <2> QED
    BY <1>4, <2>2
<1>10. \A i \in Contexts : Len(Q(i)) \in Nat
  BY <1>2
<1> QED
  BY <1>3, <1>9, <1>10

(* A step that takes packets off the queues keeps the invariant. *)
LEMMA TakenDone ==
  ASSUME PacingInv, NEW a \in Actors, NEW n, NEW taken, Taken(a, n, taken), dpc' \in Ticking,
         thread' \in [Threads -> Flushing], phase' = phase, registered' = registered,
         phase = "unloaded" => "notify" \in registered, Stopped'
  PROVE  PacingInv'
<1>1. Owned' /\ Queues' /\ Counted' /\ HandleOutlivesPackets'
  BY TakenKeeps
<1>2. /\ packets' = Move(taken, "batch") /\ s_Contexts' \in [Contexts -> Context]
      /\ s_GlobalQueuedBytes' = s_GlobalQueuedBytes - SumOver(Weight, taken)
      /\ cpu' = cpu /\ s_InjHandle' = s_InjHandle
  BY DEF Taken
<1>3. taken \subseteq At("held") /\ At("held")' = At("held") \ taken
  BY TakenShape
<1>4. /\ packets' \in Seq(Packet) /\ Len(packets') = Len(packets) /\ Packets' = Packets
      /\ \A k \in Packets : packets'[k].pid = packets[k].pid /\ packets'[k].cpu = packets[k].cpu
  BY <1>2, MoveShape DEF PacingInv, Places
<1>5. PacingType'
  <2>1. SumOver(Weight, taken) \in Nat
    <3>1. taken \in SUBSET Packets /\ {} \in SUBSET Packets /\ taken \cap {} = {}
      BY <1>3 DEF At
    <3> QED
      BY <3>1, WeightsOf DEF PacingInv
  <2>2. s_GlobalQueuedBytes' \in Int
    BY <1>2, <2>1 DEF PacingInv, PacingType
  <2> QED
    BY <1>2, <1>4, <2>2 DEF PacingInv, PacingType
<1>6. Latest'
  <2>1. \A d \in Cpus : (Busy(d)' <=> Busy(d)) /\ Work(d)' = Work(d) /\ cpu'[d] = cpu[d]
    BY <1>2 DEF Busy, Work
  <2>2. At("held")' \ At("held") = {}
    BY <1>3
  <2>3. SameWork
    BY <1>4, <2>1, <2>2 DEF SameWork
  <2> QED
    BY <2>3, LatestKeeps
<1> QED
  BY <1>1, <1>5, <1>6 DEF PacingInv

(* PacingFlushPid and PacingDrainAll take a batch. *)
LEMMA FlushTakes ==
  ASSUME PacingInv, NEW t \in Threads, FlushTake(t)
  PROVE  \E n, taken, batch : /\ Taken(t, n, taken) /\ batch \in NonEmpty
                              /\ thread' = [thread EXCEPT ![t] =
                                   [pc |-> "inject", target |-> thread[t].target, batch |-> batch]]
<1> DEFINE n == Takes(thread[t].target)
           pieces == [i \in Contexts |-> SubSeq(s_Contexts[i].Queue, 1, n[i])]
           batch == FlattenSeq(pieces)
           taken == UNION {Range(SubSeq(Q(i), 1, n[i])) : i \in Contexts}
<1>1. n \in [Contexts -> Nat] /\ \A i \in Contexts : n[i] \in 0 .. Len(Q(i))
  BY TakesShape
<1>2. /\ s_Contexts' = [i \in Contexts |-> Shortened(s_Contexts[i], n[i])]
      /\ s_GlobalQueuedBytes' = s_GlobalQueuedBytes - TotalBytes(batch)
      /\ packets' = Move({batch[j] : j \in DOMAIN batch}, "batch")
      /\ thread' = [thread EXCEPT ![t] = [pc |-> "inject", target |-> thread[t].target, batch |-> batch]]
      /\ UNCHANGED <<cpu, dpc, s_InjHandle>> /\ thread[t].pc = "flush" /\ batch # <<>>
  BY Zenon DEF FlushTake
<1> HIDE DEF n
<1>3. ASSUME NEW i \in Contexts
      PROVE  /\ pieces[i] = SubSeq(Q(i), 1, n[i]) /\ pieces[i] \in Seq(Nat) /\ IsInjective(pieces[i])
             /\ Range(pieces[i]) \subseteq Range(Q(i))
  <2>1. Q(i) \in Seq(Nat) /\ IsInjective(Q(i)) /\ n[i] \in 0 .. Len(Q(i))
    BY <1>1, ContextShape
  <2>2. PICK m \in 0 .. Len(Q(i)) : m = n[i]
    BY <2>1
  <2>3. /\ SubSeq(Q(i), 1, m) \in Seq(Nat) /\ IsInjective(SubSeq(Q(i), 1, m))
        /\ Range(SubSeq(Q(i), 1, m)) \cup Range(SubSeq(Q(i), m + 1, Len(Q(i)))) = Range(Q(i))
    BY <2>1, <2>2, CutShape
  <2> QED
    BY <2>2, <2>3 DEF Q
<1>4. pieces \in [1 .. PACING_MAX_CONTEXTS -> Seq(Nat)] /\ PACING_MAX_CONTEXTS \in Nat \ {0}
  <2>1. \A i \in Contexts : pieces[i] \in Seq(Nat)
    BY <1>3
  <2> QED
    BY <2>1, PacingAssumption DEF Contexts
<1>5. \A i, j \in 1 .. PACING_MAX_CONTEXTS : i # j => Range(pieces[i]) \cap Range(pieces[j]) = {}
  <2>1. \A i, j \in Contexts : i # j => Range(Q(i)) \cap Range(Q(j)) = {}
    BY ContextShape
  <2>2. \A i \in Contexts : Range(pieces[i]) \subseteq Range(Q(i))
    BY <1>3
  <2> HIDE DEF pieces
  <2> QED
    BY <2>1, <2>2 DEF Contexts
<1>6. \A i \in 1 .. PACING_MAX_CONTEXTS : IsInjective(pieces[i])
  BY <1>3 DEF Contexts
<1> HIDE DEF pieces
<1>7. /\ batch \in Seq(Nat) /\ IsInjective(batch)
      /\ Range(batch) = UNION {Range(pieces[i]) : i \in 1 .. PACING_MAX_CONTEXTS}
  BY <1>4, <1>5, <1>6, FlattenShape
<1>8. Range(batch) = taken
  <2>1. \A i \in Contexts : pieces[i] = SubSeq(Q(i), 1, n[i])
    BY <1>3
  <2> QED
    BY <1>7, <2>1 DEF Contexts
<1> HIDE DEF batch
<1>9. taken \subseteq Packets
  <2>1. \A i \in Contexts : Range(SubSeq(Q(i), 1, n[i])) \subseteq Packets
    BY <1>3, ContextShape
  <2> QED
    BY <2>1
<1>10. s_GlobalQueuedBytes' = s_GlobalQueuedBytes - SumOver(Weight, taken)
  <2>1. TotalBytes(batch) = SumOver(Weight, Range(batch))
    BY <1>7, <1>8, <1>9, TotalOf DEF PacingInv
  <2> QED
    BY <1>2, <1>8, <2>1
<1>11. packets' = Move(taken, "batch")
  <2>1. {batch[j] : j \in DOMAIN batch} = taken
    BY <1>8 DEF Range
  <2> QED
    BY <1>2, <2>1
<1>12. s_Contexts' \in [Contexts -> Context]
  <2>1. ASSUME NEW i \in Contexts PROVE Shortened(s_Contexts[i], n[i]) \in Context
    <3>1. /\ s_Contexts[i] \in Context /\ IsInjective(Q(i)) /\ Range(Q(i)) \subseteq Packets
          /\ s_Contexts[i].PacketCount = Len(Q(i)) /\ s_Contexts[i].QueuedBytes = SumOver(Weight, Range(Q(i)))
          /\ n[i] \in 0 .. Len(Q(i)) /\ PacingType
      BY <1>1, ContextShape DEF PacingInv, Counted
    <3>2. PICK ctx \in Context : ctx = s_Contexts[i] /\ ctx.Queue = Q(i)
      BY <3>1 DEF Q
    <3>5. PICK m : m = n[i]
      OBVIOUS
    <3>3. /\ IsInjective(ctx.Queue) /\ Range(ctx.Queue) \subseteq Packets /\ ctx.PacketCount = Len(ctx.Queue)
          /\ ctx.QueuedBytes = SumOver(Weight, Range(ctx.Queue)) /\ m \in 0 .. Len(ctx.Queue)
      BY <3>1, <3>2, <3>5
    <3>4. Shortened(ctx, m) \in Context
      BY <3>1, <3>3, ShortenedShape
    <3> QED
      BY <3>2, <3>4, <3>5
  <2> QED
    BY <1>2, <2>1
<1>13. IsInjective(B(t)') /\ Range(B(t)') = Range(B(t)) \cup taken
  <2>1. B(t)' = batch
    <3>1. thread'[t] = [pc |-> "inject", target |-> thread[t].target, batch |-> batch] /\ t # "dpc"
      BY <1>2 DEF PacingInv, PacingType, Threads
    <3> QED
      BY <3>1 DEF B, BatchOf
  <2>2. B(t) = <<>>
    BY <1>2, ThreadShape DEF PacingInv
  <2>3. Range(<<>>) = {}
    BY EmptySeq DEF Range
  <2> QED
    BY <1>7, <1>8, <2>1, <2>2, <2>3
<1>14. \A b \in Actors : b # t => B(b)' = B(b)
  <2>1. \A b \in Threads : b # t => thread'[b] = thread[b]
    BY <1>2 DEF PacingInv, PacingType
  <2> QED
    BY <1>2, <2>1 DEF B, BatchOf, Actors
<1>15. \A i \in Contexts : s_Contexts'[i] = Shortened(s_Contexts[i], n[i])
  BY <1>2
<1>16. Taken(t, n, taken)
  <2> HIDE DEF taken
  <2>1. taken = UNION {Range(SubSeq(Q(i), 1, n[i])) : i \in Contexts}
    BY DEF taken
  <2>2. cpu' = cpu /\ s_InjHandle' = s_InjHandle
    BY <1>2
  <2> QED
    BY <1>1, <1>10, <1>11, <1>12, <1>13, <1>14, <1>15, <2>1, <2>2 DEF Taken
<1> QED
  BY <1>2, <1>7, <1>16 DEF NonEmpty

(* A step of a thread that goes on with its flush, or ends it. *)
LEMMA StoppedThread ==
  ASSUME PacingInv, NEW t \in Threads, NEW x, thread[t] # Idle, thread' = [thread EXCEPT ![t] = x],
         phase' = phase, registered' = registered, dpc' = dpc, \A c \in Cpus : Busy(c)' => Busy(c),
         \A i \in Contexts : Q(i) = <<>> => Q(i)' = <<>>,
         \/ x # Idle /\ x.target = thread[t].target /\ x.pc # "remove"
         \/ x = Idle /\ (t = "unload" => \A i \in Contexts : Q(i) = <<>>)
  PROVE  Stopped'
<1>1. thread'[t] = x /\ \A u \in Threads : u # t => thread'[u] = thread[u]
  BY DEF PacingInv, PacingType
<1>2. "ioctl" \in Threads /\ "notify" \in Threads /\ "unload" \in Threads
  BY DEF Threads
<1>3. /\ phase # "loaded" => thread'["ioctl"] = Idle
      /\ "notify" \notin registered => thread'["notify"] = Idle
  BY <1>1, <1>2 DEF PacingInv, Stopped
<1>4. phase \in {"loaded", "notify_off", "timer_off", "callouts_off", "unloaded"} => thread'["unload"] = Idle
  BY <1>1, <1>2 DEF PacingInv, Stopped
<1>5. thread'["unload"] # Idle => thread'["unload"].target = EveryPid /\ thread'["unload"].pc # "remove"
  BY <1>1, <1>2 DEF PacingInv, Stopped
<1>6. ASSUME phase \in {"cleared", "draining", "unloaded"}, thread'["unload"] = Idle,
             "inbound" \notin registered
      PROVE  \A i \in Contexts : Q(i)' = <<>>
  <2>1. \A i \in Contexts : Q(i) = <<>>
    BY <1>1, <1>2, <1>6 DEF PacingInv, Stopped
  <2> QED
    BY <2>1
<1>7. /\ phase \notin {"loaded", "notify_off"} => dpc = Idle
      /\ "inbound" \notin registered => \A c \in Cpus : ~Busy(c)
      /\ registered \subseteq Callbacks
  BY DEF PacingInv, Stopped
<1> QED
  BY <1>3, <1>4, <1>5, <1>6, <1>7 DEF Stopped

(* PacingFlushPid and PacingDrainAll take a batch under the hold lock. *)
LEMMA FlushTakeKeeps ==
  ASSUME PacingInv, NEW t \in Threads, FlushTake(t)
  PROVE  PacingInv'
<1>1. PICK n, taken, batch :
        /\ Taken(t, n, taken) /\ batch \in NonEmpty
        /\ thread' = [thread EXCEPT ![t] = [pc |-> "inject", target |-> thread[t].target, batch |-> batch]]
  BY FlushTakes
<1>2. thread[t].pc = "flush" /\ UNCHANGED <<cpu, dpc, phase, registered>>
  BY DEF FlushTake
<1>3. thread[t] \in [pc : {"flush", "remove"}, target : Int] /\ thread[t] # Idle
  BY <1>2, ThreadShape DEF PacingInv
<1>4. /\ thread'[t] = [pc |-> "inject", target |-> thread[t].target, batch |-> batch]
      /\ \A u \in Threads : u # t => thread'[u] = thread[u]
  BY <1>1 DEF PacingInv, PacingType
<1>5. thread' \in [Threads -> Flushing]
  <2>1. thread'[t] \in Flushing
    BY <1>1, <1>3, <1>4 DEF Flushing
  <2> QED
    BY <1>1, <2>1, <1>4 DEF PacingInv, PacingType
<1>6. Stopped'
  <2>1. ASSUME NEW i \in Contexts, Q(i) = <<>> PROVE Q(i)' = <<>>
    <3>1. Len(Q(i)) = 0 /\ n[i] \in 0 .. Len(Q(i))
      BY <1>1, <2>1 DEF Taken
    <3>2. Q(i)' \in Seq(Nat) /\ Len(Q(i)') = Len(Q(i)) - n[i]
      BY <1>1, TakenShape DEF Actors
    <3> QED
      BY <3>1, <3>2, EmptySeq
  <2>2. \A c \in Cpus : Busy(c)' => Busy(c)
    BY <1>2 DEF Busy
  <2>3. PICK x : x = [pc |-> "inject", target |-> thread[t].target, batch |-> batch]
    OBVIOUS
  <2>4. x # Idle /\ x.target = thread[t].target /\ x.pc # "remove" /\ thread' = [thread EXCEPT ![t] = x]
    BY <1>1, <2>3 DEF Idle
  <2> QED
    BY <1>2, <1>3, <2>1, <2>2, <2>4, StoppedThread
<1>7. dpc' \in Ticking
  BY <1>2 DEF PacingInv, PacingType
<1>8. phase = "unloaded" => "notify" \in registered
  BY <1>3 DEF PacingInv, Stopped, Threads
<1> QED
  BY <1>1, <1>2, <1>5, <1>6, <1>7, <1>8, TakenDone DEF Actors

(* The parts of the invariant that a step which leaves the queues alone keeps. *)
LEMMA LeftDone ==
  ASSUME PacingInv, NEW ks, NEW place, Left(ks, place),
         \A d \in Cpus : Busy(d)' /\ cpu'[d].pc = "check" =>
           \/ cpu[d].pc = "check"
           \/ \A k \in At("held") : packets[k].pid = packets[Work(d)].pid => packets[k].cpu # d,
         s_Contexts' \in [Contexts -> Context], cpu' \in [Cpus -> Classifying], dpc' \in Ticking,
         thread' \in [Threads -> Flushing], phase' \in Phases, s_InjHandle' \in [Families -> BOOLEAN],
         HandlesStay \/ HandleOutlivesPackets', Stopped'
  PROVE  PacingInv'
<1>1. Owned' /\ Queues' /\ Counted' /\ (HandlesStay => HandleOutlivesPackets')
  BY LeftKeeps
<1>2. /\ Packets' = Packets /\ At("held")' = At("held")
      /\ \A k \in Packets : packets'[k].pid = packets[k].pid /\ packets'[k].cpu = packets[k].cpu
  BY LeftShape
<1>3. /\ \A c \in Cpus : Busy(c)' => Busy(c) /\ Work(c)' = Work(c)
      /\ s_GlobalQueuedBytes' = s_GlobalQueuedBytes
  BY DEF Left
<1>4. packets' \in Seq(Packet) /\ Len(packets') <= MaxPackets
  <2>1. packets' = Move(ks, place) /\ place \in Places
    <3>1. Moved(ks, place)
      BY DEF Left
    <3> QED
      BY <3>1 DEF Moved, Places
  <2>2. packets' \in Seq(Packet) /\ Len(packets') = Len(packets)
    BY <2>1, MoveShape DEF PacingInv
  <2> QED
    BY <2>2 DEF PacingInv, PacingType
<1>5. PacingType'
  BY <1>3, <1>4 DEF PacingInv, PacingType
<1>6. Latest'
  <2>1. At("held")' \ At("held") = {}
    BY <1>2
  <2>2. SameWork
    BY <1>2, <1>3, <2>1 DEF SameWork
  <2> QED
    BY <2>2, LatestKeeps
<1> QED
  BY <1>1, <1>5, <1>6 DEF PacingInv

(* A step that moves no packet. *)
LEMMA NothingLeft ==
  ASSUME PacingInv, packets' = packets, s_Contexts' = s_Contexts, s_GlobalQueuedBytes' = s_GlobalQueuedBytes,
         \A d \in Cpus : (Busy(d)' <=> Busy(d)) /\ (Busy(d) => Work(d)' = Work(d)),
         \A a \in Actors : B(a)' = B(a)
  PROVE  Left({}, "done")
<1>0. PICK ks : ks = {}
  OBVIOUS
<1>1. Moved(ks, "done")
  BY <1>0, MoveNone DEF Moved, PacingInv
<1>2. \A a \in Actors : IsInjective(B(a)') /\ Range(B(a)') = Range(B(a)) \ ks
  BY <1>0 DEF PacingInv, Owned
<1>3. \A i \in Contexts : SameQueue(i)
  BY DEF PacingInv, Queues, Q, SameQueue
<1>4. \A i, j \in Contexts : s_Contexts'[i].InUse /\ s_Contexts'[j].InUse
                              /\ s_Contexts'[i].ProcessId = s_Contexts'[j].ProcessId => i = j
  BY DEF PacingInv, Queues
<1>5. /\ \A c \in Cpus : Busy(c)' => Busy(c) /\ Work(c)' = Work(c) /\ Work(c) \notin ks
      /\ \A c \in Cpus : Busy(c) /\ ~Busy(c)' => Work(c) \in ks
  BY <1>0
<1>6. s_GlobalQueuedBytes' = s_GlobalQueuedBytes
  OBVIOUS
<1>7. /\ \A c \in Cpus : Busy(c)' => Busy(c) /\ Work(c)' = Work(c) /\ Work(c) \notin ks
      /\ \A c \in Cpus : Busy(c) /\ ~Busy(c)' => Work(c) \in ks
      /\ UNCHANGED s_GlobalQueuedBytes
  BY <1>5, <1>6
<1>8. Left(ks, "done")
  BY <1>1, <1>2, <1>3, <1>4, <1>7 DEF Left
<1> QED
  BY <1>0, <1>8
-----------------------------------------------------------------------------
(* A queue from which nothing is taken. *)
LEMMA Untouched ==
  ASSUME PacingType, NEW ctx \in Context
  PROVE  Shortened(ctx, 0) = ctx /\ Range(SubSeq(ctx.Queue, 1, 0)) = {}
<1>0. PICK n : n = 0
  OBVIOUS
<1>1. ctx.Queue \in Seq(Nat) /\ Len(ctx.Queue) \in Nat /\ ctx.PacketCount \in Int /\ ctx.QueuedBytes \in Int
  BY LenProperties DEF Context
<1>2. SubSeq(ctx.Queue, 1, n) = <<>>
  <2>1. 1 \in Int /\ n \in Int /\ \A p \in 1 .. n : ctx.Queue[p] \in Nat
    BY <1>0
  <2>2. SubSeq(ctx.Queue, 1, n) \in Seq(Nat) /\ Len(SubSeq(ctx.Queue, 1, n)) = IF 1 <= n THEN n - 1 + 1 ELSE 0
    BY <1>1, <2>1, SubSeqProperties
  <2> QED
    BY <1>0, <2>2, EmptySeq
<1>3. SubSeq(ctx.Queue, n + 1, Len(ctx.Queue)) = ctx.Queue
  <2>1. n + 1 = 1
    BY <1>0
  <2> QED
    BY <1>1, <2>1, SubSeqFull
<1>4. Range(<<>>) = {}
  BY EmptySeq DEF Range
<1>5. TotalBytes(<<>>) = 0
  <2>1. <<>> \in Seq(Nat) /\ IsInjective(<<>>) /\ Range(<<>>) \subseteq Packets
    BY <1>4, EmptySeq DEF IsInjective
  <2>2. TotalBytes(<<>>) = SumOver(Weight, {})
    BY <1>4, <2>1, TotalOf
  <2> QED
    BY <2>2, PacketShape, SumSplit
<1>6. Shortened(ctx, n) = [ctx EXCEPT !.Queue = ctx.Queue, !.PacketCount = @ - n, !.QueuedBytes = @ - 0]
  <2> DEFINE shorter == [ctx EXCEPT !.Queue = SubSeq(ctx.Queue, n + 1, Len(ctx.Queue)), !.PacketCount = @ - n,
                                    !.QueuedBytes = @ - TotalBytes(SubSeq(ctx.Queue, 1, n))]
  <2>1. Shortened(ctx, n) = IF n > 0 /\ shorter.PacketCount = 0
                            THEN [shorter EXCEPT !.InUse = FALSE, !.ProcessId = 0] ELSE shorter
    BY DEF Shortened
  <2>2. shorter = [ctx EXCEPT !.Queue = ctx.Queue, !.PacketCount = @ - n, !.QueuedBytes = @ - 0]
    BY <1>2, <1>3, <1>5
  <2>3. ~(n > 0)
    BY <1>0
  <2> HIDE DEF shorter
  <2> QED
    BY <2>1, <2>2, <2>3
<1>7. Shortened(ctx, n) = ctx
  <2>1. ctx.PacketCount - n = ctx.PacketCount /\ ctx.QueuedBytes - 0 = ctx.QueuedBytes
    BY <1>0, <1>1
  <2> QED
    BY <1>6, <2>1 DEF Context
<1> QED
  BY <1>0, <1>2, <1>4, <1>7

(* The queue at which the scan looks next. *)
LEMMA NextQueueShape ==
  ASSUME PacingInv, NEW j
  PROVE  /\ NextQueue(j) \in Nat
         /\ NextQueue(j) # 0 => NextQueue(j) \in Contexts /\ Q(NextQueue(j)) # <<>>
<1> DEFINE later == {i \in Contexts : i >= j /\ s_Contexts[i].InUse /\ s_Contexts[i].Queue # <<>>}
<1>1. NextQueue(j) = IF later = {} THEN 0 ELSE CHOOSE i \in later : \A l \in later : i <= l
  BY Zenon DEF NextQueue
<1>2. later \subseteq Contexts /\ Contexts \subseteq Nat
  BY DEF Contexts
<1>3. CASE later = {}
  BY <1>1, <1>3
<1>4. CASE later # {}
  <2>1. later \subseteq Nat
    BY <1>2
  <2> HIDE DEF later
  <2>2. \E i \in later : \A l \in later : i <= l
    BY <1>4, <2>1, LeastOf
  <2>3. NextQueue(j) \in later
    BY <1>1, <1>4, <2>2
  <2> QED
    BY <1>2, <2>3 DEF later, Q
<1> QED
  BY <1>3, <1>4

(* The DPC takes the packet at the head of a queue. *)
LEMMA DpcTakes ==
  ASSUME PacingInv, DpcHead, packets' # packets
  PROVE  \E n, taken : Taken("dpc", n, taken)
<1> DEFINE i == NextQueue(dpc.ctx)
           k == Head(Q(i))
           n == [l \in Contexts |-> IF l = i THEN 1 ELSE 0]
<1>1. dpc.pc = "scan" /\ i # 0 /\ UNCHANGED <<s_InjHandle, cpu, thread, phase, registered, commands>>
  BY Zenon DEF DpcHead
<1>2. /\ s_Contexts' = [s_Contexts EXCEPT ![i] = Shortened(@, 1)]
      /\ s_GlobalQueuedBytes' = s_GlobalQueuedBytes - Bytes(k)
      /\ packets' = Move({k}, "batch")
      /\ dpc' = [dpc EXCEPT !.ctx = i, !.batch = Append(@, k)]
  BY Zenon DEF DpcHead, Q
<1>3. i \in Contexts /\ Q(i) # <<>>
  BY <1>1, NextQueueShape
<1> HIDE DEF i
<1>4. Q(i) \in Seq(Nat) /\ IsInjective(Q(i)) /\ Range(Q(i)) \subseteq At("held") /\ Range(Q(i)) \subseteq Packets
  BY <1>3, ContextShape
<1>5. k \in Nat /\ k \in Range(Q(i)) /\ Len(Q(i)) >= 1 /\ Range(SubSeq(Q(i), 1, 1)) = {k} /\ Len(Q(i)) \in Nat
  BY <1>3, <1>4, TailShape, LenProperties
<1> HIDE DEF k
<1>6. dpc \in [pc : {"scan"}, ctx : Nat, batch : Seq(Nat)] /\ B("dpc") = dpc.batch /\ dpc.batch \in Seq(Nat)
  BY <1>1, DpcShape DEF PacingInv
<1>7. dpc'.pc = "scan" /\ dpc'.batch = Append(dpc.batch, k)
  BY <1>2, <1>6
<1>8. k \notin Range(B("dpc"))
  <2>1. k \in At("held") /\ Range(B("dpc")) \subseteq At("batch")
    BY <1>4, <1>5 DEF PacingInv, Owned, Actors
  <2> QED
    BY <2>1 DEF At
<1>9. IsInjective(B("dpc")') /\ Range(B("dpc")') = Range(B("dpc")) \cup {k}
  <2>1. B("dpc")' = Append(B("dpc"), k)
    BY <1>6, <1>7 DEF B, BatchOf
  <2>2. IsInjective(B("dpc")) /\ B("dpc") \in Seq(Nat)
    BY <1>6 DEF PacingInv, Owned, Actors
  <2> QED
    BY <1>5, <1>8, <2>1, <2>2, AppendShape, ZenonT(60)
<1>10. \A l \in Contexts : /\ s_Contexts[l] \in Context /\ s_Contexts[l].Queue = Q(l)
                           /\ Shortened(s_Contexts[l], 0) = s_Contexts[l] /\ Range(SubSeq(Q(l), 1, 0)) = {}
  BY ContextShape, Untouched DEF Q, PacingInv
<1>11. {k} = UNION {Range(SubSeq(Q(l), 1, n[l])) : l \in Contexts}
  <2>1. \A l \in Contexts : Range(SubSeq(Q(l), 1, n[l])) = IF l = i THEN {k} ELSE {}
    <3>1. ASSUME NEW l \in Contexts, l = i PROVE Range(SubSeq(Q(l), 1, n[l])) = {k}
      <4>1. n[l] = 1
        BY <3>1
      <4> QED
        BY <1>5, <3>1, <4>1
    <3>2. ASSUME NEW l \in Contexts, l # i PROVE Range(SubSeq(Q(l), 1, n[l])) = {}
      <4>1. n[l] = 0
        BY <3>2
      <4> QED
        BY <1>10, <4>1
    <3> QED
      BY <3>1, <3>2
  <2> QED
    BY <1>3, <2>1
<1>12. ASSUME NEW l \in Contexts
       PROVE  s_Contexts'[l] = Shortened(s_Contexts[l], n[l]) /\ s_Contexts'[l] \in Context
  <2>1. CASE l = i
    <3>1. s_Contexts'[l] = Shortened(s_Contexts[l], 1)
      BY <1>2, <2>1 DEF PacingInv, PacingType
    <3>2. PICK ctx \in Context : ctx = s_Contexts[l] /\ ctx.Queue = Q(l)
      BY <1>10
    <3>5. PICK m : m = 1
      OBVIOUS
    <3>3. /\ IsInjective(ctx.Queue) /\ Range(ctx.Queue) \subseteq Packets /\ ctx.PacketCount = Len(ctx.Queue)
          /\ ctx.QueuedBytes = SumOver(Weight, Range(ctx.Queue)) /\ m \in 0 .. Len(ctx.Queue) /\ PacingType
      BY <1>4, <1>5, <2>1, <3>2, <3>5 DEF PacingInv, Counted
    <3>4. Shortened(ctx, m) \in Context
      BY <3>3, ShortenedShape
    <3> QED
      BY <2>1, <3>1, <3>2, <3>4, <3>5
  <2>2. CASE l # i
    <3>1. s_Contexts'[l] = s_Contexts[l] /\ n[l] = 0
      BY <1>2, <2>2 DEF PacingInv, PacingType
    <3> QED
      BY <1>10, <3>1
  <2> QED
    BY <2>1, <2>2
<1>13. s_Contexts' \in [Contexts -> Context] /\ \A l \in Contexts : s_Contexts'[l] = Shortened(s_Contexts[l], n[l])
  BY <1>2, <1>12 DEF PacingInv, PacingType
<1>14. s_GlobalQueuedBytes' = s_GlobalQueuedBytes - SumOver(Weight, {k})
  <2>1. SumOver(Weight, {k}) = packets[k].bytes
    BY <1>4, <1>5, WeightOfOne DEF PacingInv
  <2> QED
    BY <1>2, <2>1 DEF Bytes
<1>15. \A b \in Actors : b # "dpc" => B(b)' = B(b)
  BY <1>1 DEF B, BatchOf, Actors
<1>16. n \in [Contexts -> Nat] /\ \A l \in Contexts : n[l] \in 0 .. Len(Q(l))
  <2>1. \A l \in Contexts : Len(Q(l)) \in Nat
    BY ContextShape
  <2> QED
    BY <1>5, <2>1
<1> HIDE DEF n
<1>17. cpu' = cpu /\ s_InjHandle' = s_InjHandle /\ packets' = Move({k}, "batch")
  BY <1>1, <1>2
<1>18. Taken("dpc", n, {k})
  BY <1>9, <1>11, <1>13, <1>14, <1>15, <1>16, <1>17 DEF Taken
<1> QED
  BY <1>18

(* A step of an actor that DriverUnload has not stopped. *)
LEMMA StoppedKeeps ==
  ASSUME PacingInv, phase' = phase, registered' = registered, thread' = thread,
         phase \in {"loaded", "notify_off"} \/ dpc' = dpc,
         \A c \in Cpus : Busy(c)' => Busy(c),
         \A i \in Contexts : Q(i) = <<>> => Q(i)' = <<>>
  PROVE  Stopped'
BY DEF PacingInv, Stopped

(* The DPC looks at the head of a queue and takes it, or passes on. *)
LEMMA DpcHeadKeeps ==
  ASSUME PacingInv, DpcHead
  PROVE  PacingInv'
<1> DEFINE i == NextQueue(dpc.ctx)
           k == Head(Q(i))
<1>1. dpc.pc = "scan" /\ i # 0 /\ UNCHANGED <<s_InjHandle, cpu, thread, phase, registered, commands>>
  BY Zenon DEF DpcHead
<1>2. \/ /\ packets' = Move({k}, "batch")
         /\ dpc' = [dpc EXCEPT !.ctx = i, !.batch = Append(@, k)]
      \/ /\ dpc' = [dpc EXCEPT !.ctx = i + 1]
         /\ UNCHANGED <<s_Contexts, s_GlobalQueuedBytes, packets>>
  BY Zenon DEF DpcHead, Q
<1>3. i \in Nat /\ i \in Contexts /\ Q(i) # <<>>
  BY <1>1, NextQueueShape
<1> HIDE DEF i
<1>4. dpc \in [pc : {"scan"}, ctx : Nat, batch : Seq(Nat)] /\ dpc # Idle /\ B("dpc") = dpc.batch
  BY <1>1, DpcShape DEF PacingInv
<1>5. k \in Nat /\ k \in At("held") /\ k \in Packets
  <2>1. Q(i) \in Seq(Nat) /\ IsInjective(Q(i)) /\ Range(Q(i)) \subseteq At("held") /\ Range(Q(i)) \subseteq Packets
    BY <1>3, ContextShape
  <2> QED
    BY <1>3, <2>1, TailShape
<1> HIDE DEF k
<1>6. phase \in {"loaded", "notify_off"}
  BY <1>4 DEF PacingInv, Stopped
<1>7. thread' \in [Threads -> Flushing] /\ phase' = phase /\ phase' \in Phases /\ cpu' \in [Cpus -> Classifying]
      /\ s_InjHandle' \in [Families -> BOOLEAN] /\ HandlesStay /\ registered' = registered
  BY <1>1 DEF PacingInv, PacingType, HandlesStay
<1>8. CASE packets' # packets
  <2>1. PICK n, taken : Taken("dpc", n, taken)
    BY <1>8, DpcTakes
  <2>2. dpc' \in Ticking
    <3>1. dpc' = [dpc EXCEPT !.ctx = i, !.batch = Append(@, k)]
      BY <1>2, <1>8
    <3>2. Append(dpc.batch, k) \in Seq(Nat)
      BY <1>4, <1>5, AppendProperties
    <3> QED
      BY <1>3, <1>4, <3>1, <3>2 DEF Ticking
  <2>3. "dpc" \in Actors
    BY DEF Actors
  <2>4. Stopped'
    <3>1. ASSUME NEW l \in Contexts, Q(l) = <<>> PROVE Q(l)' = <<>>
      <4>1. Q(l)' \in Seq(Nat) /\ Len(Q(l)') = Len(Q(l)) - n[l]
        BY <2>1, <2>3, TakenShape
      <4>2. Len(Q(l)) = 0 /\ n[l] \in 0 .. Len(Q(l))
        BY <2>1, <3>1 DEF Taken
      <4> QED
        BY <4>1, <4>2, EmptySeq
    <3>2. \A c \in Cpus : Busy(c)' => Busy(c)
      BY <1>1 DEF Busy
    <3> QED
      BY <1>1, <1>6, <3>1, <3>2, StoppedKeeps
  <2> QED
    BY <1>6, <1>7, <2>1, <2>2, <2>3, <2>4, TakenDone
<1>9. CASE packets' = packets
  <2>1. packets' # Move({k}, "batch")
    <3>1. ASSUME packets' = Move({k}, "batch") PROVE FALSE
      <4>1. packets'[k].place = "batch"
        BY <1>5, <3>1, MoveShape, ZenonT(60) DEF PacingInv, Places
      <4>2. packets[k].place = "held"
        BY <1>5 DEF At, Place
      <4> QED
        BY <1>9, <4>1, <4>2
    <3> QED
      BY <3>1
  <2>2. /\ dpc' = [dpc EXCEPT !.ctx = i + 1]
        /\ s_Contexts' = s_Contexts /\ s_GlobalQueuedBytes' = s_GlobalQueuedBytes
    BY <1>2, <2>1
  <2>3. dpc' \in Ticking /\ dpc'.pc = "scan" /\ dpc'.batch = dpc.batch
    BY <1>3, <1>4, <2>2 DEF Ticking
  <2>4. \A a \in Actors : B(a)' = B(a)
    BY <1>1, <1>4, <2>3 DEF B, BatchOf
  <2>5. \A d \in Cpus : (Busy(d)' <=> Busy(d)) /\ (Busy(d) => Work(d)' = Work(d)) /\ cpu'[d] = cpu[d]
    BY <1>1 DEF Busy, Work
  <2>6. Left({}, "done")
    BY <1>9, <2>2, <2>4, <2>5, NothingLeft
  <2>7. Stopped'
    <3>1. \A l \in Contexts : Q(l)' = Q(l)
      BY <2>2 DEF Q
    <3> QED
      BY <1>1, <1>6, <2>5, <3>1, StoppedKeeps
  <2>8. s_Contexts' \in [Contexts -> Context]
    BY <2>2 DEF PacingInv, PacingType
  <2> QED
    BY <1>7, <2>3, <2>5, <2>6, <2>7, <2>8, LeftDone
<1> QED
  BY <1>8, <1>9

(* A step that moves no packet and changes no queue. *)
LEMMA QuietKeeps ==
  ASSUME PacingInv, UNCHANGED <<packets, s_Contexts, s_GlobalQueuedBytes, cpu>>, HandlesStay,
         \A a \in Actors : B(a)' = B(a), dpc' \in Ticking, thread' \in [Threads -> Flushing], phase' \in Phases,
         Stopped'
  PROVE  PacingInv'
<1>1. \A d \in Cpus : (Busy(d)' <=> Busy(d)) /\ (Busy(d) => Work(d)' = Work(d)) /\ cpu'[d] = cpu[d]
  BY DEF Busy, Work
<1>2. Left({}, "done")
  BY <1>1, NothingLeft
<1>3. /\ s_Contexts' \in [Contexts -> Context] /\ cpu' \in [Cpus -> Classifying]
      /\ s_InjHandle' \in [Families -> BOOLEAN]
  BY DEF PacingInv, PacingType, HandlesStay
<1> QED
  BY <1>1, <1>2, <1>3, LeftDone

(* The timer fires. *)
LEMMA DpcStartKeeps ==
  ASSUME PacingInv, DpcStart
  PROVE  PacingInv'
<1>1. /\ phase \in {"loaded", "notify_off"} /\ dpc = Idle /\ dpc' = [pc |-> "scan", ctx |-> 1, batch |-> <<>>]
      /\ UNCHANGED <<s_Contexts, s_GlobalQueuedBytes, s_InjHandle, packets, cpu, thread, phase, registered>>
  BY DEF DpcStart
<1>2. dpc' \in Ticking /\ thread' \in [Threads -> Flushing] /\ phase' \in Phases /\ HandlesStay
  <2>1. <<>> \in Seq(Nat)
    BY EmptySeq
  <2> QED
    BY <1>1, <2>1 DEF Ticking, PacingInv, PacingType, HandlesStay
<1>3. \A a \in Actors : B(a)' = B(a)
  BY <1>1 DEF B, BatchOf, Idle
<1>4. Stopped'
  BY <1>1, StoppedKeeps DEF Busy, Q
<1> QED
  BY <1>1, <1>2, <1>3, <1>4, QuietKeeps

(* The DPC drops the hold lock with the batch it took. *)
LEMMA DpcScanDoneKeeps ==
  ASSUME PacingInv, DpcScanDone
  PROVE  PacingInv'
<1>1. /\ dpc.pc = "scan"
      /\ dpc' = IF dpc.batch = <<>> THEN Idle ELSE [pc |-> "inject", batch |-> dpc.batch]
      /\ UNCHANGED <<s_Contexts, s_GlobalQueuedBytes, s_InjHandle, packets, cpu, thread, phase, registered>>
  BY DEF DpcScanDone
<1>2. dpc \in [pc : {"scan"}, ctx : Nat, batch : Seq(Nat)] /\ dpc # Idle /\ B("dpc") = dpc.batch
  BY <1>1, DpcShape DEF PacingInv
<1>3. dpc' \in Ticking /\ thread' \in [Threads -> Flushing] /\ phase' \in Phases /\ HandlesStay
  BY <1>1, <1>2 DEF Ticking, NonEmpty, PacingInv, PacingType, HandlesStay
<1>4. \A a \in Actors : B(a)' = B(a)
  BY <1>1, <1>2 DEF B, BatchOf, Idle
<1>5. Stopped'
  <2>1. phase \in {"loaded", "notify_off"}
    BY <1>2 DEF PacingInv, Stopped
  <2> QED
    BY <1>1, <2>1, StoppedKeeps DEF Busy, Q
<1> QED
  BY <1>1, <1>3, <1>4, <1>5, QuietKeeps

(* The first packet of a batch leaves it. *)
LEMMA InjectLeaves ==
  ASSUME PacingInv, NEW a \in Actors, B(a) # <<>>, B(a) \in Seq(Nat), PacingInjectNow(Head(B(a))),
         B(a)' = Tail(B(a)), \A b \in Actors : b # a => B(b)' = B(b),
         UNCHANGED <<s_Contexts, s_GlobalQueuedBytes, cpu>>
  PROVE  \E place : Left({Head(B(a))}, place)
<1> DEFINE k == Head(B(a))
<1>1. PICK place \in {"injected", "dropped"} :
        packets' = Move({k}, place) /\ (place = "injected" => s_InjHandle[packets[k].family])
  BY DEF PacingInjectNow, PacingEnabled
<1>2. /\ k \in Range(B(a)) /\ IsInjective(Tail(B(a))) /\ Range(Tail(B(a))) = Range(B(a)) \ {k}
      /\ IsInjective(B(a))
  <2>1. IsInjective(B(a))
    BY DEF PacingInv, Owned
  <2> QED
    BY <2>1, TailShape
<1>3. /\ Range(B(a)) \subseteq At("batch")
      /\ \A b \in Actors : IsInjective(B(b)) /\ (b # a => Range(B(b)) \cap Range(B(a)) = {})
  BY DEF PacingInv, Owned
<1> HIDE DEF k
<1>4. k \in At("batch") /\ k \in Packets /\ k \notin At("held") /\ k \notin At("classify")
  BY <1>2, <1>3 DEF At
<1>5. PICK ks : ks = {k}
  OBVIOUS
<1>6. Moved(ks, place)
  BY <1>1, <1>4, <1>5 DEF Moved
<1>7. \A b \in Actors : IsInjective(B(b)') /\ Range(B(b)') = Range(B(b)) \ ks
  <2>1. ASSUME NEW b \in Actors, b # a PROVE Range(B(b)) \ ks = Range(B(b))
    BY <1>2, <1>3, <1>5, <2>1
  <2> QED
    BY <1>2, <1>3, <1>5, <2>1
<1>8. \A i \in Contexts : SameQueue(i)
  BY DEF PacingInv, Queues, Q, SameQueue
<1>9. \A i, j \in Contexts : s_Contexts'[i].InUse /\ s_Contexts'[j].InUse
                             /\ s_Contexts'[i].ProcessId = s_Contexts'[j].ProcessId => i = j
  BY DEF PacingInv, Queues
<1>10. /\ \A c \in Cpus : Busy(c)' => Busy(c) /\ Work(c)' = Work(c) /\ Work(c) \notin ks
       /\ \A c \in Cpus : Busy(c) /\ ~Busy(c)' => Work(c) \in ks
       /\ UNCHANGED s_GlobalQueuedBytes
  <2>1. \A c \in Cpus : Busy(c) => Work(c) # k
    BY <1>4, CpuShape
  <2>2. \A c \in Cpus : (Busy(c)' <=> Busy(c)) /\ Work(c)' = Work(c)
    BY DEF Busy, Work
  <2> QED
    BY <1>5, <2>1, <2>2
<1>11. Left(ks, place)
  BY <1>6, <1>7, <1>8, <1>9, <1>10 DEF Left
<1> QED
  BY <1>5, <1>11 DEF k

(* What is left of a batch. *)
LEMMA Rest ==
  ASSUME NEW s \in Seq(Nat), s # <<>>
  PROVE  IF Len(s) = 1 THEN Tail(s) = <<>> ELSE Tail(s) \in NonEmpty
<1>1. Tail(s) \in Seq(Nat) /\ Len(Tail(s)) = Len(s) - 1 /\ Len(s) \in Nat
  BY HeadTailProperties, LenProperties
<1>2. Tail(s) = <<>> <=> Len(Tail(s)) = 0
  BY <1>1, EmptySeq
<1> QED
  BY <1>1, <1>2 DEF NonEmpty

(* The DPC injects the first packet of its batch. *)
LEMMA DpcInjectKeeps ==
  ASSUME PacingInv, DpcInject
  PROVE  PacingInv'
<1>1. /\ dpc.pc = "inject" /\ PacingInjectNow(Head(dpc.batch))
      /\ dpc' = IF Len(dpc.batch) = 1 THEN Idle ELSE [dpc EXCEPT !.batch = Tail(@)]
      /\ UNCHANGED <<s_Contexts, s_GlobalQueuedBytes, s_InjHandle, cpu, thread, phase, registered>>
  BY DEF DpcInject
<1>2. /\ dpc \in [pc : {"inject"}, batch : NonEmpty] /\ dpc # Idle /\ B("dpc") = dpc.batch /\ "dpc" \in Actors
      /\ B("dpc") \in Seq(Nat) /\ B("dpc") # <<>>
  BY <1>1, DpcShape DEF PacingInv, Actors, NonEmpty
<1>3. B("dpc")' = Tail(B("dpc")) /\ dpc' \in Ticking
  <2>1. CASE Len(dpc.batch) = 1
    <3>1. Tail(dpc.batch) = <<>>
      BY <1>2, <2>1, Rest
    <3> QED
      BY <1>1, <1>2, <2>1, <3>1 DEF B, BatchOf, Idle, Ticking
  <2>2. CASE Len(dpc.batch) # 1
    <3>1. Tail(dpc.batch) \in NonEmpty
      BY <1>2, <2>2, Rest
    <3> QED
      BY <1>1, <1>2, <2>2, <3>1 DEF B, BatchOf, Ticking
  <2> QED
    BY <2>1, <2>2
<1>4. \A b \in Actors : b # "dpc" => B(b)' = B(b)
  BY <1>1 DEF B
<1>5. PICK place : Left({Head(B("dpc"))}, place)
  BY <1>1, <1>2, <1>3, <1>4, InjectLeaves
<1>6. /\ s_Contexts' \in [Contexts -> Context] /\ cpu' \in [Cpus -> Classifying]
      /\ s_InjHandle' \in [Families -> BOOLEAN] /\ HandlesStay
      /\ thread' \in [Threads -> Flushing] /\ phase' \in Phases /\ \A d \in Cpus : cpu'[d] = cpu[d]
  BY <1>1 DEF PacingInv, PacingType, HandlesStay
<1>7. Stopped'
  <2>1. phase \in {"loaded", "notify_off"}
    BY <1>2 DEF PacingInv, Stopped
  <2> QED
    BY <1>1, <2>1, StoppedKeeps DEF Busy, Q
<1> QED
  BY <1>3, <1>5, <1>6, <1>7, LeftDone

(* An injection completes. *)
LEMMA PacingInjectCompleteKeeps ==
  ASSUME PacingInv, NEW k \in Packets, PacingInjectComplete(k)
  PROVE  PacingInv'
<1>1. /\ Place(k) = "injected"
      /\ UNCHANGED <<s_Contexts, s_GlobalQueuedBytes, s_InjHandle, cpu, dpc, thread, phase, registered>>
  BY DEF PacingInjectComplete
<1>2. PICK place \in {"done", "dropped"} : packets' = Move({k}, place)
  BY DEF PacingInjectComplete
<1>3. PICK ks : ks = {k}
  OBVIOUS
<1>4. k \notin At("held") /\ k \notin At("classify") /\ k \notin At("batch")
  BY <1>1 DEF At
<1>5. Moved(ks, place)
  BY <1>2, <1>3, <1>4 DEF Moved
<1>6. \A a \in Actors : IsInjective(B(a)') /\ Range(B(a)') = Range(B(a)) \ ks
  <2>1. \A a \in Actors : B(a)' = B(a)
    BY <1>1 DEF B, BatchOf
  <2>2. \A a \in Actors : IsInjective(B(a)) /\ k \notin Range(B(a))
    BY <1>4 DEF PacingInv, Owned
  <2> QED
    BY <1>3, <2>1, <2>2
<1>7. \A i \in Contexts : SameQueue(i)
  BY <1>1 DEF PacingInv, Queues, Q, SameQueue
<1>8. \A i, j \in Contexts : s_Contexts'[i].InUse /\ s_Contexts'[j].InUse
                             /\ s_Contexts'[i].ProcessId = s_Contexts'[j].ProcessId => i = j
  BY <1>1 DEF PacingInv, Queues
<1>9. /\ \A c \in Cpus : Busy(c)' => Busy(c) /\ Work(c)' = Work(c) /\ Work(c) \notin ks
      /\ \A c \in Cpus : Busy(c) /\ ~Busy(c)' => Work(c) \in ks
      /\ UNCHANGED s_GlobalQueuedBytes
  <2>1. \A c \in Cpus : Busy(c) => Work(c) # k
    BY <1>4, CpuShape
  <2>2. \A c \in Cpus : (Busy(c)' <=> Busy(c)) /\ Work(c)' = Work(c)
    BY <1>1 DEF Busy, Work
  <2> QED
    BY <1>1, <1>3, <2>1, <2>2
<1>10. Left(ks, place)
  BY <1>5, <1>6, <1>7, <1>8, <1>9 DEF Left
<1>11. /\ s_Contexts' \in [Contexts -> Context] /\ cpu' \in [Cpus -> Classifying] /\ dpc' \in Ticking
       /\ s_InjHandle' \in [Families -> BOOLEAN] /\ HandlesStay
       /\ thread' \in [Threads -> Flushing] /\ phase' \in Phases /\ \A d \in Cpus : cpu'[d] = cpu[d]
  BY <1>1 DEF PacingInv, PacingType, HandlesStay
<1>12. Stopped'
  BY <1>1, StoppedKeeps DEF Busy, Q
<1> QED
  BY <1>10, <1>11, <1>12, LeftDone

(* A thread injects the first packet of its batch. *)
LEMMA FlushInjectKeeps ==
  ASSUME PacingInv, NEW t \in Threads, FlushInject(t)
  PROVE  PacingInv'
<1>1. PICK x : x = IF Len(thread[t].batch) = 1 THEN [pc |-> "flush", target |-> thread[t].target]
                   ELSE [thread[t] EXCEPT !.batch = Tail(@)]
  OBVIOUS
<1>2. /\ thread[t].pc = "inject" /\ PacingInjectNow(Head(thread[t].batch))
      /\ thread' = [thread EXCEPT ![t] = x]
      /\ UNCHANGED <<s_Contexts, s_GlobalQueuedBytes, s_InjHandle, cpu, dpc, phase, registered>>
  BY <1>1, Zenon DEF FlushInject
<1>3. /\ thread[t] \in [pc : {"inject"}, target : Int, batch : NonEmpty] /\ thread[t] # Idle
      /\ B(t) = thread[t].batch /\ t \in Actors /\ t # "dpc" /\ B(t) \in Seq(Nat) /\ B(t) # <<>>
  BY <1>2, ThreadShape DEF PacingInv, Actors, NonEmpty, Threads
<1>4. thread'[t] = x /\ \A u \in Threads : u # t => thread'[u] = thread[u]
  BY <1>2 DEF PacingInv, PacingType
<1>5. /\ B(t)' = Tail(B(t)) /\ x \in Flushing
      /\ x # Idle /\ x.target = thread[t].target /\ x.pc # "remove"
  <2>1. CASE Len(thread[t].batch) = 1
    <3>1. Tail(thread[t].batch) = <<>>
      BY <1>3, <2>1, Rest
    <3>2. x = [pc |-> "flush", target |-> thread[t].target]
      BY <1>1, <2>1
    <3> QED
      BY <1>3, <1>4, <3>1, <3>2 DEF B, BatchOf, Idle, Flushing
  <2>2. CASE Len(thread[t].batch) # 1
    <3>1. Tail(thread[t].batch) \in NonEmpty
      BY <1>3, <2>2, Rest
    <3>2. x = [thread[t] EXCEPT !.batch = Tail(@)]
      BY <1>1, <2>2
    <3> QED
      BY <1>3, <1>4, <3>1, <3>2 DEF B, BatchOf, Idle, Flushing
  <2> QED
    BY <2>1, <2>2
<1>6. \A b \in Actors : b # t => B(b)' = B(b)
  BY <1>2, <1>4 DEF B, BatchOf, Actors
<1>7. PICK place : Left({Head(B(t))}, place)
  BY <1>2, <1>3, <1>5, <1>6, InjectLeaves
<1>8. /\ s_Contexts' \in [Contexts -> Context] /\ cpu' \in [Cpus -> Classifying]
      /\ s_InjHandle' \in [Families -> BOOLEAN] /\ HandlesStay
      /\ dpc' \in Ticking /\ phase' \in Phases /\ \A d \in Cpus : cpu'[d] = cpu[d]
  BY <1>2 DEF PacingInv, PacingType, HandlesStay
<1>9. thread' \in [Threads -> Flushing]
  BY <1>2, <1>5 DEF PacingInv, PacingType
<1>10. Stopped'
  <2>1. (\A c \in Cpus : Busy(c)' => Busy(c)) /\ \A i \in Contexts : Q(i) = <<>> => Q(i)' = <<>>
    BY <1>2 DEF Busy, Q
  <2> QED
    BY <1>2, <1>3, <1>5, <2>1, StoppedThread
<1> QED
  BY <1>7, <1>8, <1>9, <1>10, LeftDone

(* A thread finds nothing left to flush. *)
LEMMA FlushDoneKeeps ==
  ASSUME PacingInv, NEW t \in Threads, FlushDone(t)
  PROVE  PacingInv'
<1>1. /\ thread[t].pc = "flush" /\ thread' = [thread EXCEPT ![t] = Idle]
      /\ \A i \in Contexts : FlushesContext(thread[t].target, i) => s_Contexts[i].Queue = <<>>
      /\ UNCHANGED <<s_Contexts, s_GlobalQueuedBytes, s_InjHandle, packets, cpu, dpc, phase, registered>>
  BY DEF FlushDone
<1>2. thread[t] \in [pc : {"flush", "remove"}, target : Int] /\ thread[t] # Idle /\ B(t) = <<>> /\ t # "dpc"
  BY <1>1, ThreadShape DEF PacingInv, Threads
<1>3. thread'[t] = Idle /\ \A u \in Threads : u # t => thread'[u] = thread[u]
  BY <1>1 DEF PacingInv, PacingType
<1>4. \A a \in Actors : B(a)' = B(a)
  BY <1>1, <1>2, <1>3 DEF B, BatchOf, Actors, Idle
<1>5. Stopped'
  <2>1. t = "unload" => \A i \in Contexts : Q(i) = <<>>
    <3>1. t = "unload" => thread[t].target = EveryPid
      BY <1>2 DEF PacingInv, Stopped
    <3> QED
      BY <1>1, <3>1 DEF FlushesContext, PacingInv, Queues, Q
  <2>2. (\A c \in Cpus : Busy(c)' => Busy(c)) /\ \A i \in Contexts : Q(i) = <<>> => Q(i)' = <<>>
    BY <1>1 DEF Busy, Q
  <2> QED
    BY <1>1, <1>2, <2>1, <2>2, StoppedThread
<1>6. dpc' \in Ticking /\ thread' \in [Threads -> Flushing] /\ phase' \in Phases /\ HandlesStay
  BY <1>1 DEF PacingInv, PacingType, Flushing, HandlesStay
<1> QED
  BY <1>1, <1>4, <1>5, <1>6, QuietKeeps
-----------------------------------------------------------------------------
(* The steps of a processor that classifies. *)
LEMMA PacingPidHasHeldKeeps ==
  ASSUME PacingInv, NEW c \in Cpus, PacingPidHasHeld(c)
  PROVE  PacingInv'
<1>1. PICK pc \in {"hold", "fail", "check"} :
        /\ cpu' = [cpu EXCEPT ![c].pc = pc] /\ cpu[c].pc = "has_held"
        /\ pc = "check" => ~HasHeld(packets[Work(c)].pid)
        /\ UNCHANGED <<s_Contexts, s_GlobalQueuedBytes, s_InjHandle, packets, dpc, thread, phase, registered>>
  <2>1. PICK pc : pc = IF HasHeld(Pid(cpu[c].pkt)) THEN HoldEntry(cpu[c].pkt) ELSE "check"
    OBVIOUS
  <2>2. HoldEntry(cpu[c].pkt) = "hold" \/ HoldEntry(cpu[c].pkt) = "fail"
    BY DEF HoldEntry
  <2> QED
    BY <2>1, <2>2, Zenon DEF PacingPidHasHeld, Work, Pid
<1>2. Busy(c) /\ cpu[c] \in [pc : {"has_held", "check", "hold", "fail"}, pkt : Nat] /\ Work(c) = cpu[c].pkt
  BY <1>1, CpuShape DEF Work
<1>3. /\ cpu'[c] \in [pc : {"has_held", "check", "hold", "fail"}, pkt : Nat] /\ cpu'[c].pkt = cpu[c].pkt
      /\ cpu'[c].pc = pc /\ \A d \in Cpus : d # c => cpu'[d] = cpu[d]
  BY <1>1, <1>2 DEF PacingInv, PacingType
<1>4. cpu' \in [Cpus -> Classifying]
  BY <1>1, <1>3 DEF PacingInv, PacingType, Classifying
<1>5. \A d \in Cpus : (Busy(d)' <=> Busy(d)) /\ (Busy(d) => Work(d)' = Work(d))
  BY <1>2, <1>3 DEF Busy, Work, Idle
<1>6. \A a \in Actors : B(a)' = B(a)
  BY <1>1 DEF B, BatchOf
<1>7. Left({}, "done")
  BY <1>1, <1>5, <1>6, NothingLeft
<1>8. ASSUME NEW d \in Cpus, Busy(d)', cpu'[d].pc = "check"
      PROVE  \/ cpu[d].pc = "check"
             \/ \A k \in At("held") : packets[k].pid = packets[Work(d)].pid => packets[k].cpu # d
  <2>1. CASE d # c
    BY <1>3, <1>8, <2>1
  <2>2. CASE d = c
    <3>1. ~HasHeld(packets[Work(c)].pid)
      BY <1>1, <1>3, <1>8, <2>2
    <3>2. ASSUME NEW k \in At("held") PROVE packets[k].pid # packets[Work(c)].pid
      <4>1. PICK i \in Contexts : k \in Range(Q(i))
        BY ContextShape
      <4>2. packets[k].pid = s_Contexts[i].ProcessId /\ s_Contexts[i].InUse
        BY <4>1, ContextShape
      <4>3. Q(i) # <<>>
        <5>1. Range(<<>>) = {}
          BY EmptySeq DEF Range
        <5> QED
          BY <4>1, <5>1
      <4> QED
        BY <3>1, <4>2, <4>3 DEF HasHeld, Q
    <3> QED
      BY <2>2, <3>2
  <2> QED
    BY <2>1, <2>2
<1>9. /\ s_Contexts' \in [Contexts -> Context] /\ dpc' \in Ticking /\ thread' \in [Threads -> Flushing]
      /\ phase' \in Phases /\ s_InjHandle' \in [Families -> BOOLEAN] /\ HandlesStay
  BY <1>1 DEF PacingInv, PacingType, HandlesStay
<1>10. Stopped'
  BY <1>1, <1>5, StoppedKeeps DEF Q
<1> QED
  BY <1>4, <1>7, <1>8, <1>9, <1>10, LeftDone

(* A processor is done with its packet. *)
LEMMA WorkLeaves ==
  ASSUME PacingInv, NEW c \in Cpus, Busy(c), NEW place \in {"done", "dropped"},
         packets' = Move({Work(c)}, place), cpu' = [cpu EXCEPT ![c] = Idle],
         \A i \in Contexts : SameQueue(i), s_Contexts' \in [Contexts -> Context],
         \A i, j \in Contexts : s_Contexts'[i].InUse /\ s_Contexts'[j].InUse
                                /\ s_Contexts'[i].ProcessId = s_Contexts'[j].ProcessId => i = j,
         UNCHANGED <<s_GlobalQueuedBytes, s_InjHandle, dpc, thread, phase, registered>>
  PROVE  PacingInv'
<1>1. PICK ks : ks = {Work(c)}
  OBVIOUS
<1>2. /\ Work(c) \in At("classify") /\ Work(c) \in Packets /\ Work(c) \notin At("held")
      /\ Work(c) \notin At("batch") /\ packets[Work(c)].cpu = c
  BY CpuShape DEF At
<1>3. Moved(ks, place)
  BY <1>1, <1>2 DEF Moved
<1>4. \A a \in Actors : IsInjective(B(a)') /\ Range(B(a)') = Range(B(a)) \ ks
  <2>1. \A a \in Actors : B(a)' = B(a)
    BY DEF B, BatchOf
  <2>2. \A a \in Actors : IsInjective(B(a)) /\ Work(c) \notin Range(B(a))
    BY <1>2 DEF PacingInv, Owned
  <2> QED
    BY <1>1, <2>1, <2>2
<1>5. cpu'[c] = Idle /\ \A d \in Cpus : d # c => cpu'[d] = cpu[d]
  BY DEF PacingInv, PacingType
<1>6. /\ \A d \in Cpus : Busy(d)' => Busy(d) /\ Work(d)' = Work(d) /\ Work(d) \notin ks /\ cpu'[d] = cpu[d]
      /\ \A d \in Cpus : Busy(d) /\ ~Busy(d)' => Work(d) \in ks
  <2>1. ~Busy(c)' /\ \A d \in Cpus : d # c => (Busy(d)' <=> Busy(d)) /\ Work(d)' = Work(d)
    BY <1>5 DEF Busy, Work
  <2>2. \A d \in Cpus : Busy(d) => packets[Work(d)].cpu = d
    BY CpuShape
  <2> QED
    BY <1>1, <1>2, <1>5, <2>1, <2>2
<1>7. /\ \A d \in Cpus : Busy(d)' => Busy(d) /\ Work(d)' = Work(d) /\ Work(d) \notin ks
      /\ \A d \in Cpus : Busy(d) /\ ~Busy(d)' => Work(d) \in ks
      /\ UNCHANGED s_GlobalQueuedBytes
  BY <1>6
<1>8. Left(ks, place)
  BY <1>3, <1>4, <1>7 DEF Left
<1>9. /\ cpu' \in [Cpus -> Classifying] /\ dpc' \in Ticking /\ thread' \in [Threads -> Flushing]
      /\ phase' \in Phases /\ s_InjHandle' \in [Families -> BOOLEAN] /\ HandlesStay
  BY DEF PacingInv, PacingType, Classifying, HandlesStay
<1>10. Stopped'
  <2>1. \A i \in Contexts : Q(i)' = Q(i)
    BY DEF SameQueue
  <2> QED
    BY <1>6, <2>1, StoppedKeeps
<1> QED
  BY <1>6, <1>8, <1>9, <1>10, LeftDone

(* PacingHoldPacket without a clone: the packet is dropped. *)
LEMMA HoldFailsKeeps ==
  ASSUME PacingInv, NEW c \in Cpus, HoldFails(c)
  PROVE  PacingInv'
<1>1. /\ Busy(c) /\ packets' = Move({Work(c)}, "dropped") /\ cpu' = [cpu EXCEPT ![c] = Idle]
      /\ UNCHANGED <<s_Contexts, s_GlobalQueuedBytes, s_InjHandle, dpc, thread, phase, registered>>
  BY CpuShape DEF HoldFails, Drop, Work
<1>2. /\ \A i \in Contexts : SameQueue(i)
      /\ \A i, j \in Contexts : s_Contexts'[i].InUse /\ s_Contexts'[j].InUse
                                /\ s_Contexts'[i].ProcessId = s_Contexts'[j].ProcessId => i = j
      /\ s_Contexts' \in [Contexts -> Context]
  BY <1>1 DEF PacingInv, PacingType, Queues, Q, SameQueue
<1> QED
  BY <1>1, <1>2, WorkLeaves

(* PacingHoldPacket over a limit: the packet is dropped, the queue stays. *)
LEMMA HoldRefusedKeeps ==
  ASSUME PacingInv, NEW c \in Cpus, HoldRefused(c)
  PROVE  PacingInv'
<1>1. /\ Busy(c) /\ packets' = Move({Work(c)}, "dropped") /\ cpu' = [cpu EXCEPT ![c] = Idle]
      /\ UNCHANGED <<s_GlobalQueuedBytes, s_InjHandle, dpc, thread, phase, registered>>
  BY CpuShape DEF HoldRefused, Drop, Work
<1>2. PICK pid \in Procs : pid = packets[Work(c)].pid
  BY <1>1, CpuShape, PacketShape DEF PacingInv, Packet
<1>3. \/ s_Contexts' = s_Contexts
      \/ \E i \in Contexts : /\ PacingGetContextLocked(i, pid)
                             /\ s_Contexts' = [s_Contexts EXCEPT ![i] = Opened(i, pid)]
  BY <1>2 DEF HoldRefused, Work, Pid
<1>4. CASE s_Contexts' = s_Contexts
  <2>1. /\ \A i \in Contexts : SameQueue(i)
        /\ \A i, j \in Contexts : s_Contexts'[i].InUse /\ s_Contexts'[j].InUse
                                  /\ s_Contexts'[i].ProcessId = s_Contexts'[j].ProcessId => i = j
        /\ s_Contexts' \in [Contexts -> Context]
    BY <1>4 DEF PacingInv, PacingType, Queues, Q, SameQueue
  <2> QED
    BY <1>1, <2>1, WorkLeaves
<1>5. CASE \E i \in Contexts : /\ PacingGetContextLocked(i, pid)
                               /\ s_Contexts' = [s_Contexts EXCEPT ![i] = Opened(i, pid)]
  <2>1. PICK i \in Contexts : /\ PacingGetContextLocked(i, pid)
                              /\ s_Contexts' = [s_Contexts EXCEPT ![i] = Opened(i, pid)]
    BY <1>5
  <2>2. PICK ctx \in Context :
          /\ ctx = Opened(i, pid) /\ ctx.InUse /\ ctx.ProcessId = pid /\ ctx.Queue = Q(i)
          /\ ctx.PacketCount = s_Contexts[i].PacketCount
          /\ ctx.QueuedBytes = s_Contexts[i].QueuedBytes
          /\ Q(i) # <<>> => s_Contexts[i].ProcessId = pid
          /\ \A j \in Contexts : j # i => ~IsContextOf(j, pid)
    BY <2>1, OpenedShape
  <2>3. s_Contexts' \in [Contexts -> Context] /\ s_Contexts'[i] = ctx
        /\ \A j \in Contexts : j # i => s_Contexts'[j] = s_Contexts[j]
    BY <2>1, <2>2 DEF PacingInv, PacingType
  <2>4. ASSUME NEW j \in Contexts PROVE SameQueue(j)
    <3>1. CASE j = i
      BY <2>2, <2>3, <3>1 DEF SameQueue, Q
    <3>2. CASE j # i
      BY <2>3, <3>2 DEF SameQueue, Q, PacingInv, Queues
    <3> QED
      BY <3>1, <3>2
  <2>5. ASSUME NEW j \in Contexts, NEW l \in Contexts, s_Contexts'[j].InUse, s_Contexts'[l].InUse,
               s_Contexts'[j].ProcessId = s_Contexts'[l].ProcessId
        PROVE  j = l
    BY <2>2, <2>3, <2>5 DEF PacingInv, Queues, IsContextOf
  <2> QED
    BY <1>1, <2>3, <2>4, <2>5, WorkLeaves
<1> QED
  BY <1>3, <1>4, <1>5

(* A classify asks for tokens and permits the segment, or goes on to hold it. *)
LEMMA FastPathKeeps ==
  ASSUME PacingInv, NEW c \in Cpus, FastPath(c)
  PROVE  PacingInv'
<1>1. /\ cpu[c].pc = "check"
      /\ UNCHANGED <<s_Contexts, s_GlobalQueuedBytes, s_InjHandle, dpc, thread, phase, registered>>
      /\ \/ packets' = Move({Work(c)}, "done") /\ cpu' = [cpu EXCEPT ![c] = Idle]
         \/ packets' = packets /\ cpu' = [cpu EXCEPT ![c].pc = HoldEntry(Work(c))]
  BY Zenon DEF FastPath, Work
<1>2. Busy(c) /\ cpu[c] \in [pc : {"has_held", "check", "hold", "fail"}, pkt : Nat] /\ Work(c) = cpu[c].pkt
  BY <1>1, CpuShape DEF Work
<1>3. /\ \A i \in Contexts : SameQueue(i)
      /\ \A i, j \in Contexts : s_Contexts'[i].InUse /\ s_Contexts'[j].InUse
                                /\ s_Contexts'[i].ProcessId = s_Contexts'[j].ProcessId => i = j
      /\ s_Contexts' \in [Contexts -> Context]
  BY <1>1 DEF PacingInv, PacingType, Queues, Q, SameQueue
<1>4. CASE packets' = Move({Work(c)}, "done") /\ cpu' = [cpu EXCEPT ![c] = Idle]
  BY <1>1, <1>2, <1>3, <1>4, WorkLeaves
<1>5. CASE packets' = packets /\ cpu' = [cpu EXCEPT ![c].pc = HoldEntry(Work(c))]
  <2>0. PICK pc \in {"hold", "fail"} : pc = HoldEntry(Work(c))
    BY DEF HoldEntry
  <2>1. /\ cpu'[c] \in [pc : {"has_held", "check", "hold", "fail"}, pkt : Nat] /\ cpu'[c].pkt = cpu[c].pkt
        /\ cpu'[c].pc = pc /\ \A d \in Cpus : d # c => cpu'[d] = cpu[d]
    BY <1>2, <1>5, <2>0 DEF PacingInv, PacingType
  <2>2. cpu' \in [Cpus -> Classifying]
    BY <1>5, <2>1 DEF PacingInv, PacingType, Classifying
  <2>3. \A d \in Cpus : (Busy(d)' <=> Busy(d)) /\ (Busy(d) => Work(d)' = Work(d))
    BY <1>2, <2>1 DEF Busy, Work, Idle
  <2>4. \A a \in Actors : B(a)' = B(a)
    BY <1>1 DEF B, BatchOf
  <2>5. Left({}, "done")
    BY <1>1, <1>5, <2>3, <2>4, NothingLeft
  <2>6. \A d \in Cpus : cpu'[d].pc = "check" => cpu[d].pc = "check"
    BY <1>1, <2>1
  <2>7. /\ dpc' \in Ticking /\ thread' \in [Threads -> Flushing]
        /\ phase' \in Phases /\ s_InjHandle' \in [Families -> BOOLEAN] /\ HandlesStay
    BY <1>1 DEF PacingInv, PacingType, HandlesStay
  <2>8. Stopped'
    BY <1>1, <2>3, StoppedKeeps DEF Q
  <2> QED
    BY <1>3, <2>2, <2>5, <2>6, <2>7, <2>8, LeftDone
<1> QED
  BY <1>1, <1>4, <1>5
-----------------------------------------------------------------------------
(* The handlers that change the limits, and DriverUnload. *)
LEMMA QuietThread ==
  ASSUME PacingInv, NEW t \in Threads, thread[t].pc # "inject", NEW x \in Flushing, x.pc # "inject",
         thread' = [thread EXCEPT ![t] = x], dpc' = dpc
  PROVE  /\ thread' \in [Threads -> Flushing] /\ thread'[t] = x
         /\ \A u \in Threads : u # t => thread'[u] = thread[u]
         /\ \A a \in Actors : B(a)' = B(a)
<1>1. thread' \in [Threads -> Flushing] /\ thread'[t] = x /\ \A u \in Threads : u # t => thread'[u] = thread[u]
  BY DEF PacingInv, PacingType
<1>2. B(t) = <<>> /\ t # "dpc"
  BY ThreadShape DEF PacingInv, Threads
<1>3. x.pc # "scan"
  BY DEF Flushing, Idle
<1>4. B(t)' = <<>>
  BY <1>1, <1>2, <1>3 DEF B, BatchOf
<1> QED
  BY <1>1, <1>2, <1>4 DEF B, BatchOf, Actors

(* A thread starts a flush. *)
LEMMA FlushStarts ==
  ASSUME PacingInv, NEW t \in Threads, thread[t].pc # "inject", NEW target \in Int, Flush(t, target), dpc' = dpc
  PROVE  /\ thread' \in [Threads -> Flushing] /\ \A u \in Threads : u # t => thread'[u] = thread[u]
         /\ \A a \in Actors : B(a)' = B(a)
         /\ target = EveryPid => thread'[t] = [pc |-> "flush", target |-> EveryPid]
<1>1. PICK x : x = IF AnyEnabled \/ target = EveryPid THEN [pc |-> "flush", target |-> target] ELSE Idle
  OBVIOUS
<1>2. thread' = [thread EXCEPT ![t] = x]
  BY <1>1 DEF Flush
<1>3. x \in Flushing /\ x.pc # "inject"
  BY <1>1 DEF Flushing, Idle
<1>4. /\ thread' \in [Threads -> Flushing] /\ thread'[t] = x
      /\ \A u \in Threads : u # t => thread'[u] = thread[u]
      /\ \A a \in Actors : B(a)' = B(a)
  BY <1>2, <1>3, QuietThread
<1> QED
  BY <1>1, <1>4

(* A handler's thread may do as it likes while its handler is called. *)
LEMMA HandlerKeeps ==
  ASSUME PacingInv, NEW t \in {"ioctl", "notify"}, t = "ioctl" => phase = "loaded",
         t = "notify" => "notify" \in registered,
         thread' \in [Threads -> Flushing], \A u \in Threads : u # t => thread'[u] = thread[u],
         \A a \in Actors : B(a)' = B(a),
         UNCHANGED <<packets, s_Contexts, s_GlobalQueuedBytes, s_InjHandle, cpu, dpc, phase, registered>>
  PROVE  PacingInv'
<1>1. thread'["unload"] = thread["unload"] /\ (t = "ioctl" => thread'["notify"] = thread["notify"])
      /\ (t = "notify" => thread'["ioctl"] = thread["ioctl"])
  BY DEF Threads
<1>2. Stopped'
  BY <1>1 DEF PacingInv, Stopped, Busy, Q
<1>3. dpc' \in Ticking /\ phase' \in Phases /\ HandlesStay
  BY DEF PacingInv, PacingType, HandlesStay
<1> QED
  BY <1>2, <1>3, QuietKeeps

(* IOCTL_SET_THROTTLE, with the flush that a removal starts. *)
LEMMA SetLimitKeeps ==
  ASSUME PacingInv, NEW pid \in Pids, NEW up, NEW down, SetLimit(pid, up, down)
  PROVE  PacingInv'
<1>1. /\ phase = "loaded" /\ thread["ioctl"] = Idle /\ (Flush("ioctl", pid) \/ thread' = thread)
      /\ UNCHANGED <<packets, s_Contexts, s_GlobalQueuedBytes, s_InjHandle, cpu, dpc, phase, registered>>
  BY DEF SetLimit
<1>2. /\ thread' \in [Threads -> Flushing] /\ \A u \in Threads : u # "ioctl" => thread'[u] = thread[u]
      /\ \A a \in Actors : B(a)' = B(a)
  <2>1. CASE thread' = thread
    BY <1>1, <2>1 DEF PacingInv, PacingType, B, BatchOf
  <2>2. CASE Flush("ioctl", pid)
    <3>1. "ioctl" \in Threads /\ "unload" \in Threads /\ pid \in Int /\ thread["ioctl"].pc # "inject" /\ dpc' = dpc
      BY <1>1, InputAssumption DEF Threads, Idle
    <3> QED
      BY <2>2, <3>1, FlushStarts
  <2> QED
    BY <1>1, <2>1, <2>2
<1> QED
  BY <1>1, <1>2, HandlerKeeps

(* IOCTL_CLEAR_THROTTLE. *)
LEMMA ClearLimitsKeeps ==
  ASSUME PacingInv, ClearLimits
  PROVE  PacingInv'
<1>1. /\ phase = "loaded" /\ thread["ioctl"] = Idle /\ Flush("ioctl", EveryPid)
      /\ UNCHANGED <<packets, s_Contexts, s_GlobalQueuedBytes, s_InjHandle, cpu, dpc, phase, registered>>
  BY DEF ClearLimits
<1>2. "ioctl" \in Threads /\ "unload" \in Threads /\ EveryPid \in Int /\ thread["ioctl"].pc # "inject"
  BY <1>1 DEF Threads, Idle, EveryPid
<1>3. /\ thread' \in [Threads -> Flushing] /\ \A u \in Threads : u # "ioctl" => thread'[u] = thread[u]
      /\ \A a \in Actors : B(a)' = B(a)
  BY <1>1, <1>2, FlushStarts
<1> QED
  BY <1>1, <1>3, HandlerKeeps

(* A process exits. *)
LEMMA ProcessExitKeeps ==
  ASSUME PacingInv, NEW pid \in Procs, ProcessExit(pid)
  PROVE  PacingInv'
<1>1. /\ "notify" \in registered /\ thread["notify"] = Idle
      /\ thread' = [thread EXCEPT !["notify"] = [pc |-> "remove", target |-> pid]]
      /\ UNCHANGED <<packets, s_Contexts, s_GlobalQueuedBytes, s_InjHandle, cpu, dpc, phase, registered>>
  BY DEF ProcessExit
<1>2. PICK x : x = [pc |-> "remove", target |-> pid]
  OBVIOUS
<1>3. x \in Flushing /\ x.pc # "inject"
  BY <1>2, InputAssumption DEF Flushing, Procs
<1>4. "notify" \in Threads /\ "unload" \in Threads /\ thread["notify"].pc # "inject"
  BY <1>1 DEF Threads, Idle
<1>5. thread' = [thread EXCEPT !["notify"] = x]
  BY <1>1, <1>2
<1>6. /\ thread' \in [Threads -> Flushing] /\ \A u \in Threads : u # "notify" => thread'[u] = thread[u]
      /\ \A a \in Actors : B(a)' = B(a)
  BY <1>1, <1>3, <1>4, <1>5, QuietThread
<1> QED
  BY <1>1, <1>6, HandlerKeeps

(* The exit callback removes the limits of the process. *)
LEMMA RemoveLimitsKeeps ==
  ASSUME PacingInv, RemoveLimitsOfExited
  PROVE  PacingInv'
<1>1. PICK pid : pid = thread["notify"].target
  OBVIOUS
<1>2. /\ thread["notify"].pc = "remove"
      /\ Flush("notify", pid) \/ thread' = [thread EXCEPT !["notify"] = Idle]
      /\ UNCHANGED <<packets, s_Contexts, s_GlobalQueuedBytes, s_InjHandle, cpu, dpc, phase, registered>>
  BY <1>1, Zenon DEF RemoveLimitsOfExited
<1>3. "notify" \in Threads /\ "unload" \in Threads
  BY DEF Threads
<1>4. thread["notify"] \in [pc : {"flush", "remove"}, target : Int] /\ thread["notify"] # Idle
      /\ thread["notify"].pc # "inject"
  BY <1>2, <1>3, ThreadShape DEF PacingInv
<1>5. "notify" \in registered
  BY <1>4 DEF PacingInv, Stopped
<1>6. /\ thread' \in [Threads -> Flushing] /\ \A u \in Threads : u # "notify" => thread'[u] = thread[u]
      /\ \A a \in Actors : B(a)' = B(a)
  <2>1. CASE Flush("notify", pid)
    <3>1. pid \in Int
      BY <1>1, <1>4
    <3> QED
      BY <1>2, <1>3, <1>4, <2>1, <3>1, FlushStarts
  <2>2. CASE thread' = [thread EXCEPT !["notify"] = Idle]
    <3>1. Idle \in Flushing /\ Idle.pc # "inject"
      BY DEF Flushing, Idle
    <3> QED
      BY <1>2, <1>3, <1>4, <2>2, <3>1, QuietThread
  <2> QED
    BY <1>2, <2>1, <2>2
<1> QED
  BY <1>2, <1>5, <1>6, HandlerKeeps

(* A step of DriverUnload keeps the invariant when the next phase may begin. *)
LEMMA UnloadKeeps ==
  ASSUME PacingInv, phase' \in Phases, thread' \in [Threads -> Flushing], \A a \in Actors : B(a)' = B(a),
         UNCHANGED <<packets, s_Contexts, s_GlobalQueuedBytes, cpu, dpc>>, HandlesStay, Stopped'
  PROVE  PacingInv'
<1>1. dpc' \in Ticking
  BY DEF PacingInv, PacingType
<1> QED
  BY <1>1, QuietKeeps

(* The steps of DriverUnload that stop an actor, or give up. *)
LEMMA UnloadStepsKeep ==
  ASSUME PacingInv, UnregisterNotify \/ PacingStopTimer \/ UnregisterCallouts
  PROVE  PacingInv'
<1>1. /\ phase \in {"loaded", "notify_off", "timer_off"} /\ phase' \in Phases /\ HandlesStay
      /\ UNCHANGED <<packets, s_Contexts, s_GlobalQueuedBytes, cpu, dpc, thread>>
  BY DEF UnregisterNotify, PacingStopTimer, UnregisterCallouts, UnloadStep, Phases, HandlesStay
<1>2. thread' \in [Threads -> Flushing] /\ \A a \in Actors : B(a)' = B(a)
  BY <1>1 DEF PacingInv, PacingType, B, BatchOf
<1>3. /\ thread["unload"] = Idle /\ registered \subseteq Callbacks
      /\ "notify" \notin registered => thread["notify"] = Idle
      /\ "inbound" \notin registered => \A c \in Cpus : ~Busy(c)
  BY <1>1 DEF PacingInv, Stopped
<1>4. \A c \in Cpus : Busy(c)' <=> Busy(c)
  BY <1>1 DEF Busy
<1>5. Stopped'
  <2>1. CASE UnregisterNotify
    <3>1. /\ phase' = "notify_off" /\ thread["ioctl"] = Idle /\ registered' \subseteq Callbacks
          /\ "notify" \notin registered' => thread["notify"] = Idle
          /\ "inbound" \notin registered' => "inbound" \notin registered
      BY <1>3, <2>1 DEF UnregisterNotify, UnloadStep
    <3> QED
      BY <1>1, <1>3, <1>4, <3>1 DEF Stopped
  <2>2. CASE PacingStopTimer
    <3>1. phase' = "timer_off" /\ thread["ioctl"] = Idle /\ dpc = Idle /\ registered' = registered
      BY <2>2 DEF PacingStopTimer, UnloadStep, PacingInv, Stopped
    <3> QED
      BY <1>1, <1>3, <1>4, <3>1 DEF Stopped
  <2>3. CASE UnregisterCallouts
    <3>1. /\ phase' = "callouts_off" /\ thread["ioctl"] = Idle /\ dpc = Idle
          /\ registered' \subseteq Callbacks
          /\ "notify" \notin registered' => "notify" \notin registered
          /\ "inbound" \notin registered' => \A c \in Cpus : ~Busy(c)
      BY <1>3, <2>3 DEF UnregisterCallouts, UnloadStep, PacingInv, Stopped, Busy
    <3> QED
      BY <1>1, <1>3, <1>4, <3>1 DEF Stopped
  <2> QED
    BY <2>1, <2>2, <2>3
<1> QED
  BY <1>1, <1>2, <1>5, UnloadKeeps

(* The steps of DriverUnload that start a flush. *)
LEMMA UnloadFlushKeeps ==
  ASSUME PacingInv, UnloadClearLimits \/ PacingShutdown
  PROVE  PacingInv'
<1>1. /\ phase \in {"callouts_off", "cleared"} /\ phase' \in {"cleared", "draining"} /\ Flush("unload", EveryPid)
      /\ UNCHANGED <<packets, s_Contexts, s_GlobalQueuedBytes, cpu, dpc, registered>> /\ HandlesStay
      /\ thread["unload"] = Idle
  BY DEF UnloadClearLimits, PacingShutdown, UnloadStep, PacingInv, Stopped, HandlesStay
<1>2. "unload" \in Threads /\ EveryPid \in Int /\ thread["unload"].pc # "inject"
      /\ "ioctl" \in Threads /\ "notify" \in Threads
  BY <1>1 DEF Threads, EveryPid, Idle
<1>3. /\ thread' \in [Threads -> Flushing]
      /\ thread'["ioctl"] = thread["ioctl"] /\ thread'["notify"] = thread["notify"]
      /\ \A a \in Actors : B(a)' = B(a)
      /\ thread'["unload"] = [pc |-> "flush", target |-> EveryPid]
  BY <1>1, <1>2, FlushStarts
<1>4. /\ thread["ioctl"] = Idle /\ dpc = Idle /\ registered \subseteq Callbacks
      /\ "notify" \notin registered => thread["notify"] = Idle
      /\ "inbound" \notin registered => \A c \in Cpus : ~Busy(c)
  BY <1>1 DEF PacingInv, Stopped
<1>5. \A c \in Cpus : Busy(c)' <=> Busy(c)
  BY <1>1 DEF Busy
<1>6. thread'["unload"] # Idle /\ thread'["unload"].target = EveryPid /\ thread'["unload"].pc # "remove"
  BY <1>3 DEF Idle
<1>7. Stopped'
  BY <1>1, <1>3, <1>4, <1>5, <1>6 DEF Stopped
<1>8. phase' \in Phases
  BY <1>1 DEF Phases
<1> QED
  BY <1>1, <1>3, <1>7, <1>8, UnloadKeeps

(* DriverUnload destroys the injection handles. *)
LEMMA DestroyHandlesKeeps ==
  ASSUME PacingInv, DestroyHandles
  PROVE  PacingInv'
<1>1. /\ phase = "draining" /\ phase' = "unloaded" /\ thread["unload"] = Idle
      /\ \A k \in Packets : Place(k) # "injected"
      /\ s_InjHandle' = [f \in Families |-> FALSE]
      /\ UNCHANGED <<packets, s_Contexts, s_GlobalQueuedBytes, cpu, dpc, thread, registered>>
  BY DEF DestroyHandles, UnloadStep, Packets
<1>2. /\ thread["ioctl"] = Idle /\ dpc = Idle /\ registered \subseteq Callbacks
      /\ "notify" \notin registered => thread["notify"] = Idle
      /\ "inbound" \notin registered => \A c \in Cpus : ~Busy(c)
      /\ "inbound" \notin registered => \A i \in Contexts : Q(i) = <<>>
  BY <1>1 DEF PacingInv, Stopped
<1>3. /\ "inbound" \notin registered => At("classify") = {} /\ At("held") = {}
      /\ "notify" \notin registered => At("batch") = {}
  <2>1. Range(<<>>) = {}
    BY EmptySeq DEF Range
  <2>2. ASSUME "notify" \notin registered, NEW a \in Actors PROVE B(a) = <<>>
    BY <1>1, <1>2, <2>2 DEF B, BatchOf, Actors, Threads, Idle
  <2> QED
    BY <1>2, <2>1, <2>2 DEF PacingInv, Owned
<1>4. HandleOutlivesPackets'
  <2>1. ASSUME NEW k \in Packets, Place(k) \in {"classify", "held", "batch", "injected"}
        PROVE  \/ Place(k) \in {"classify", "held"} /\ "inbound" \in registered
               \/ Place(k) = "batch" /\ "notify" \in registered
    BY <1>1, <1>3, <2>1 DEF At
  <2>2. Packets' = Packets /\ \A k \in Packets : Place(k)' = Place(k)
    BY <1>1 DEF Packets, Place
  <2> QED
    BY <1>1, <2>1, <2>2 DEF HandleOutlivesPackets
<1>5. \A d \in Cpus : (Busy(d)' <=> Busy(d)) /\ (Busy(d) => Work(d)' = Work(d)) /\ cpu'[d] = cpu[d]
  BY <1>1 DEF Busy, Work
<1>6. \A a \in Actors : B(a)' = B(a)
  BY <1>1 DEF B, BatchOf
<1>7. Left({}, "done")
  BY <1>1, <1>5, <1>6, NothingLeft
<1>8. Stopped'
  <2>1. \A i \in Contexts : Q(i)' = Q(i)
    BY <1>1 DEF Q
  <2> QED
    BY <1>1, <1>2, <1>5, <2>1 DEF Stopped
<1>9. /\ s_Contexts' \in [Contexts -> Context] /\ cpu' \in [Cpus -> Classifying] /\ dpc' \in Ticking
      /\ thread' \in [Threads -> Flushing] /\ phase' \in Phases /\ s_InjHandle' \in [Families -> BOOLEAN]
  BY <1>1 DEF PacingInv, PacingType, Phases
<1> QED
  BY <1>4, <1>5, <1>7, <1>8, <1>9, LeftDone

(* A step that changes none of the variables. *)
LEMMA StutterKeeps ==
  ASSUME PacingInv, UNCHANGED pvars
  PROVE  PacingInv'
<1>1. UNCHANGED <<packets, s_Contexts, s_GlobalQueuedBytes, s_InjHandle, cpu, dpc, thread, phase, registered>>
  BY DEF pvars
<1>2. \A a \in Actors : B(a)' = B(a)
  BY <1>1 DEF B, BatchOf
<1>3. Stopped'
  BY <1>1 DEF PacingInv, Stopped, Busy, Q
<1>4. thread' \in [Threads -> Flushing] /\ phase' \in Phases /\ HandlesStay
  BY <1>1 DEF PacingInv, PacingType, HandlesStay
<1> QED
  BY <1>1, <1>2, <1>3, <1>4, UnloadKeeps
-----------------------------------------------------------------------------
(* PacingInit establishes the invariant. *)
LEMMA InitInv ==
  Init => PacingInv
<1> SUFFICES ASSUME Init PROVE PacingInv
  OBVIOUS
<1>1. /\ s_Contexts = [i \in Contexts |-> FreeContext] /\ s_GlobalQueuedBytes = 0
      /\ s_InjHandle \in [Families -> BOOLEAN] /\ packets = <<>> /\ cpu = [c \in Cpus |-> Idle]
      /\ dpc = Idle /\ thread = [t \in Threads |-> Idle] /\ phase = "loaded"
      /\ registered = Callbacks
  BY DEF Init
<1>2. Packets = {} /\ \A p : At(p) = {}
  BY <1>1 DEF Packets, At
<1>3. Range(<<>>) = {} /\ IsInjective(<<>>) /\ Len(<<>>) = 0 /\ DOMAIN <<>> = {}
  BY EmptySeq DEF Range, IsInjective
<1>4. \A i \in Contexts : Q(i) = <<>> /\ s_Contexts[i] = FreeContext
  BY <1>1 DEF Q, FreeContext
<1>5. \A a \in Actors : B(a) = <<>>
  BY <1>1 DEF B, BatchOf, Actors, Idle, Threads
<1>6. \A c \in Cpus : ~Busy(c)
  BY <1>1 DEF Busy
<1>7. SumOver(Weight, {}) = 0
  <2>1. IsFiniteSet({}) /\ \A a \in {} : Weight[a] \in Nat
    BY FS_EmptySet
  <2> QED
    BY <2>1, SumSplit
<1>8. PacingType
  <2>1. FreeContext \in Context
    BY EmptySeq, InputAssumption DEF FreeContext, Context
  <2>2. packets \in Seq(Packet) /\ Len(packets) <= MaxPackets
    BY <1>1, <1>3, EmptySeq, PacingAssumption
  <2> QED
    BY <1>1, <2>1, <2>2 DEF PacingType, Classifying, Ticking, Flushing, Phases
<1>9. Owned
  BY <1>2, <1>3, <1>4, <1>5, <1>6 DEF Owned
<1>10. Queues
  BY <1>3, <1>4 DEF Queues, FreeContext
<1>11. Counted
  <2>1. \A i \in Contexts : /\ s_Contexts[i].PacketCount = Len(Q(i))
                             /\ s_Contexts[i].QueuedBytes = SumOver(Weight, Range(Q(i)))
                             /\ s_Contexts[i].QueuedBytes <= PACING_PID_HOLD_LIMIT
    <3>1. FreeContext.PacketCount = 0 /\ FreeContext.QueuedBytes = 0 /\ 0 <= PACING_PID_HOLD_LIMIT
      BY PacingAssumption DEF FreeContext
    <3> QED
      BY <1>3, <1>4, <1>7, <3>1
  <2>2. s_GlobalQueuedBytes = SumOver(Weight, At("held")) /\ s_GlobalQueuedBytes <= PACING_GLOBAL_HOLD_LIMIT
    <3>1. At("held") = {} /\ 0 <= PACING_GLOBAL_HOLD_LIMIT
      BY <1>2, PacingAssumption
    <3> QED
      BY <1>1, <1>7, <3>1
  <2> QED
    BY <2>1, <2>2 DEF Counted
<1>12. Latest /\ HandleOutlivesPackets
  BY <1>2, <1>6 DEF Latest, HandleOutlivesPackets
<1>13. Stopped
  BY <1>1 DEF Stopped, Threads, Callbacks
<1> QED
  BY <1>8, <1>9, <1>10, <1>11, <1>12, <1>13 DEF PacingInv

(* Every step keeps it. *)
LEMMA NextInv ==
  PacingInv /\ [Next]_vars => PacingInv'
<1> SUFFICES ASSUME PacingInv, [Next]_vars PROVE PacingInv'
  OBVIOUS
<1>1. ASSUME NEW c \in Cpus, NEW pid \in Procs, NEW n \in Sizes, NEW f \in Families, Arrive(c, pid, n, f)
      PROVE  PacingInv'
  BY <1>1, ArriveKeeps
<1>2. ASSUME NEW c \in Cpus,
             \/ PacingPidHasHeld(c) \/ FastPath(c) \/ HoldFails(c) \/ HoldRefused(c) \/ Hold(c)
      PROVE  PacingInv'
  BY <1>2, PacingPidHasHeldKeeps, FastPathKeeps, HoldFailsKeeps, HoldRefusedKeeps, HoldKeeps
<1>3. ASSUME DpcStart \/ DpcHead \/ DpcScanDone \/ DpcInject PROVE PacingInv'
  BY <1>3, DpcStartKeeps, DpcHeadKeeps, DpcScanDoneKeeps, DpcInjectKeeps
<1>4. ASSUME NEW k \in DOMAIN packets, PacingInjectComplete(k) PROVE PacingInv'
  BY <1>4, PacingInjectCompleteKeeps DEF Packets
<1>5. ASSUME NEW t \in Threads, FlushTake(t) \/ FlushInject(t) \/ FlushDone(t) PROVE PacingInv'
  BY <1>5, FlushTakeKeeps, FlushInjectKeeps, FlushDoneKeeps
<1>6. ASSUME NEW pid \in Pids, NEW l \in Limits, SetLimit(pid, l[1], l[2]) PROVE PacingInv'
  BY <1>6, SetLimitKeeps
<1>7. ASSUME \/ ClearLimits \/ RemoveLimitsOfExited \/ UnregisterNotify \/ PacingStopTimer \/ UnregisterCallouts
             \/ UnloadClearLimits \/ PacingShutdown \/ DestroyHandles
      PROVE  PacingInv'
  BY <1>7, ClearLimitsKeeps, RemoveLimitsKeeps, UnloadStepsKeep, UnloadFlushKeeps, DestroyHandlesKeeps
<1>8. ASSUME NEW pid \in Procs, ProcessExit(pid) PROVE PacingInv'
  BY <1>8, ProcessExitKeeps
<1>9. ASSUME \/ \E pid \in Procs, n \in OutSizes : OutboundSegment(pid, n)
             \/ Unloaded \/ Tick \/ UNCHANGED vars
      PROVE  PacingInv'
  <2>1. UNCHANGED pvars
    BY <1>9 DEF OutboundSegment, Unloaded, Tick, vars
  <2> QED
    BY <2>1, StutterKeeps
<1> QED
  BY <1>1, <1>2, <1>3, <1>4, <1>5, <1>6, <1>7, <1>8, <1>9 DEF Next

(* Whatever the processors, the timer DPC, the IOCTL thread, the exit callback and
   DriverUnload do between them, the pacing invariant holds: a held packet has one
   owner, its queue's counters are exact, and an actor that DriverUnload has waited
   for stays stopped (pacing.c, driver.c). *)
THEOREM PacingInvariant == Spec => []PacingInv
BY InitInv, NextInv, PTL DEF Spec

(* No DPC, flush or completion uses an injection handle after PacingShutdown
   destroyed it, and nothing is held when the driver is gone, but for a callback
   that could not be unregistered: a classify of a callout given up after 30 tries
   may still hold its packet (wfp.c:453, driver.c:143), and an exit callback that
   stayed may have a batch it can only drop (driver.c:128). *)
THEOREM HandlesOutlivePackets == Spec => []HandleOutlivesPackets
<1>1. PacingInv => HandleOutlivesPackets
  BY DEF PacingInv
<1> QED
  BY <1>1, PacingInvariant, PTL

(* The bytes of several queues are the sum of the bytes of each. *)
LEMMA BytesByQueue ==
  ASSUME PacingInv
  PROVE  SumOver(Weight, At("held")) = SumOver([i \in Contexts |-> s_Contexts[i].QueuedBytes], Contexts)
<1> DEFINE w == [i \in Contexts |-> s_Contexts[i].QueuedBytes]
           InQueues(I) == UNION {Range(Q(i)) : i \in I}
           F == {I \in SUBSET Contexts : SumOver(Weight, InQueues(I)) # SumOver(w, I)}
<1>1. IsFiniteSet(Contexts)
  BY PacingAssumption, FS_Interval DEF Contexts
<1>2. \A i \in Contexts : w[i] = SumOver(Weight, Range(Q(i))) /\ w[i] \in Nat
  <2>1. ASSUME NEW i \in Contexts PROVE w[i] = SumOver(Weight, Range(Q(i))) /\ w[i] \in Nat
    <3>1. Range(Q(i)) \in SUBSET Packets /\ {} \in SUBSET Packets /\ Range(Q(i)) \cap {} = {}
      BY ContextShape
    <3>2. SumOver(Weight, Range(Q(i))) \in Nat
      BY <3>1, WeightsOf DEF PacingInv
    <3> QED
      BY <3>2 DEF PacingInv, Counted
  <2> QED
    BY <2>1
<1> HIDE DEF w
<1>3. SumOver(w, {}) = 0 /\ SumOver(Weight, {}) = 0
  BY <1>1, <1>2, PacketShape, SumSplit DEF PacingInv
<1>4. ASSUME F # {} PROVE FALSE
  <2>1. PICK I \in F : \A J \in F : J \subseteq I => J = I
    <3>1. F \subseteq SUBSET Contexts
      OBVIOUS
    <3> HIDE DEF F
    <3> QED
      BY <1>1, <1>4, <3>1, MinimalSet
  <2>2. PICK a \in I : TRUE
    <3>1. InQueues({}) = {}
      OBVIOUS
    <3> QED
      BY <1>3, <2>1, <3>1
  <2>3. SumOver(w, I) = w[a] + SumOver(w, I \ {a})
    BY <1>1, <1>2, SumSplit
  <2>4. I \ {a} \in SUBSET Contexts /\ I \ {a} \subseteq I /\ I \ {a} # I
    BY <2>2
  <2>5. SumOver(Weight, InQueues(I \ {a})) = SumOver(w, I \ {a})
    BY <2>1, <2>4
  <2>6. /\ InQueues(I) = Range(Q(a)) \cup InQueues(I \ {a})
        /\ Range(Q(a)) \cap InQueues(I \ {a}) = {}
        /\ Range(Q(a)) \in SUBSET Packets /\ InQueues(I \ {a}) \in SUBSET Packets
    BY <2>2, <2>4, ContextShape
  <2>7. SumOver(Weight, InQueues(I)) = SumOver(Weight, Range(Q(a))) + SumOver(Weight, InQueues(I \ {a}))
    <3> HIDE DEF InQueues
    <3> QED
      BY <2>6, WeightsOf DEF PacingInv
  <2> QED
    BY <1>2, <2>1, <2>3, <2>5, <2>7
<1>5. SumOver(Weight, InQueues(Contexts)) = SumOver(w, Contexts)
  BY <1>4
<1>6. At("held") = InQueues(Contexts)
  BY DEF PacingInv, Owned
<1> QED
  BY <1>5, <1>6 DEF w

(* The counters of the invariant are the ones HeldBytesExact speaks of. *)
LEMMA InvExact ==
  PacingInv => HeldBytesExact
<1> SUFFICES ASSUME PacingInv PROVE HeldBytesExact
  OBVIOUS
<1>1. ASSUME NEW i \in Contexts
      PROVE  /\ s_Contexts[i].PacketCount = Len(s_Contexts[i].Queue)
             /\ s_Contexts[i].QueuedBytes = TotalBytes(s_Contexts[i].Queue)
             /\ s_Contexts[i].QueuedBytes <= PACING_PID_HOLD_LIMIT
  <2>1. Q(i) \in Seq(Nat) /\ IsInjective(Q(i)) /\ Range(Q(i)) \subseteq Packets
    BY ContextShape
  <2>2. TotalBytes(Q(i)) = SumOver(Weight, Range(Q(i)))
    BY <2>1, TotalOf DEF PacingInv
  <2>3. Q(i) = s_Contexts[i].Queue
    BY DEF Q
  <2> QED
    BY <2>2, <2>3 DEF PacingInv, Counted
<1>2. s_GlobalQueuedBytes = FoldFunction(+, 0, [i \in Contexts |-> s_Contexts[i].QueuedBytes])
  <2> DEFINE w == [i \in Contexts |-> s_Contexts[i].QueuedBytes]
  <2>1. s_GlobalQueuedBytes = SumOver(w, Contexts)
    BY BytesByQueue DEF PacingInv, Counted
  <2>2. DOMAIN w = Contexts
    OBVIOUS
  <2>3. FoldFunction(+, 0, w) = FoldFunctionOnSet(+, 0, w, DOMAIN w)
    BY Zenon DEF FoldFunction
  <2> HIDE DEF w
  <2>4. SumOver(w, Contexts) = FoldFunctionOnSet(+, 0, w, Contexts)
    BY Zenon DEF SumOver
  <2>5. s_GlobalQueuedBytes = FoldFunction(+, 0, w)
    BY <2>1, <2>2, <2>3, <2>4, Zenon
  <2> QED
    BY <2>5, Zenon DEF w
<1>3. s_GlobalQueuedBytes <= PACING_GLOBAL_HOLD_LIMIT
  BY DEF PacingInv, Counted
<1> QED
  BY <1>1, <1>2, <1>3, Zenon DEF HeldBytesExact

(* The byte and packet counters of pacing.c are exact in every state, and neither
   hold limit is ever exceeded. *)
THEOREM HeldBytes == Spec => []HeldBytesExact
BY InvExact, PacingInvariant, PTL
-----------------------------------------------------------------------------
(* What a step may not do (NoOvertakingHeld). *)
InOrder ==
  \A k \in Packets : Place(k) # Place(k)' /\ Place(k)' \in {"done", "batch"}
                     /\ Place(k) \in {"classify", "held"} =>
    \A j \in Packets : j < k /\ Pid(j) = Pid(k) /\ packets[j].cpu = packets[k].cpu
                       => Place(j)' # "held"

(* Packets that are dropped, or go on after they left the queues. *)
LEMMA MoveInOrder ==
  ASSUME PacingInv, NEW ks, NEW place \in Places, packets' = Move(ks, place),
         place \notin {"done", "batch"} \/ \A k \in ks : Place(k) \notin {"classify", "held"}
  PROVE  InOrder
<1>1. \A k \in Packets : packets'[k].place = IF k \in ks THEN place ELSE packets[k].place
  BY MoveShape DEF PacingInv
<1> QED
  BY <1>1 DEF InOrder, Place

(* A batch takes the oldest packets of a queue. *)
LEMMA TakeInOrder ==
  ASSUME PacingInv, NEW a \in Actors, NEW n, NEW taken, Taken(a, n, taken)
  PROVE  InOrder
<1>1. packets' = Move(taken, "batch")
  BY DEF Taken
<1>2. \A k \in Packets : packets'[k].place = IF k \in taken THEN "batch" ELSE packets[k].place
  BY <1>1, MoveShape DEF PacingInv, Places
<1> SUFFICES ASSUME NEW k \in Packets, Place(k) # Place(k)',
                    NEW j \in Packets, j < k, Pid(j) = Pid(k), packets[j].cpu = packets[k].cpu,
                    Place(j)' = "held"
             PROVE  FALSE
  BY DEF InOrder
<1>3. k \in taken
  BY <1>2 DEF Place
<1>4. j \in At("held") \ taken
  BY <1>2 DEF Place, At
<1>5. k < j
  BY <1>3, <1>4, TakenInOrder DEF Pid
<1>6. k \in Nat /\ j \in Nat
  BY PacketShape DEF PacingInv
<1> QED
  BY <1>5, <1>6

(* A segment that passes on its tokens has nothing of its processor queued. *)
LEMMA FastPathInOrder ==
  ASSUME PacingInv, NEW c \in Cpus, FastPath(c)
  PROVE  InOrder
<1>1. cpu[c].pc = "check" /\ (packets' = Move({Work(c)}, "done") \/ packets' = packets)
  BY Zenon DEF FastPath, Work
<1>2. Busy(c) /\ Work(c) \in Packets /\ packets[Work(c)].cpu = c
  BY <1>1, CpuShape
<1>3. CASE packets' = packets
  BY <1>3 DEF InOrder, Place
<1>4. CASE packets' = Move({Work(c)}, "done")
  <2>1. \A k \in Packets : packets'[k].place = IF k \in {Work(c)} THEN "done" ELSE packets[k].place
    BY <1>4, MoveShape DEF PacingInv, Places
  <2> SUFFICES ASSUME NEW k \in Packets, Place(k) # Place(k)',
                      NEW j \in Packets, j < k, Pid(j) = Pid(k), packets[j].cpu = packets[k].cpu,
                      Place(j)' = "held"
               PROVE  FALSE
    BY DEF InOrder
  <2>2. k = Work(c)
    BY <2>1 DEF Place
  <2>3. j \in At("held")
    BY <2>1 DEF Place, At
  <2> QED
    BY <1>1, <1>2, <2>2, <2>3 DEF PacingInv, Latest, Pid
<1> QED
  BY <1>1, <1>3, <1>4

(* An arriving segment overtakes nothing. *)
LEMMA ArriveInOrder ==
  ASSUME PacingInv, NEW c \in Cpus, NEW pid, NEW n, NEW f, Arrive(c, pid, n, f)
  PROVE  InOrder
<1>1. PICK r : packets' = Append(packets, r)
  BY DEF Arrive
<1>2. packets \in Seq(Packet) /\ Packets = 1 .. Len(packets)
  BY PacketShape DEF PacingInv, PacingType
<1>3. \A k \in Packets : packets'[k] = packets[k]
  BY <1>1, <1>2 DEF Packets
<1> QED
  BY <1>3 DEF InOrder, Place

(* No step lets a packet past an earlier one of its processor and process. *)
LEMMA StepInOrder ==
  PacingInv /\ [Next]_vars => [InOrder]_vars
<1> SUFFICES ASSUME PacingInv, [Next]_vars PROVE InOrder \/ UNCHANGED vars
  OBVIOUS
<1>0. ASSUME packets' = packets PROVE InOrder
  BY <1>0 DEF InOrder, Place
<1>1. ASSUME NEW c \in Cpus, NEW pid \in Procs, NEW n \in Sizes, NEW f \in Families, Arrive(c, pid, n, f)
      PROVE  InOrder
  BY <1>1, ArriveInOrder
<1>2. ASSUME NEW c \in Cpus,
             \/ PacingPidHasHeld(c) \/ FastPath(c) \/ HoldFails(c) \/ HoldRefused(c) \/ Hold(c)
      PROVE  InOrder
  <2>1. CASE PacingPidHasHeld(c)
    BY <1>0, <2>1 DEF PacingPidHasHeld
  <2>2. CASE FastPath(c)
    BY <2>2, FastPathInOrder
  <2>3. CASE HoldFails(c) \/ HoldRefused(c) \/ Hold(c)
    <3>1. PICK place \in {"held", "dropped"} : packets' = Move({Work(c)}, place)
      BY <2>3 DEF HoldFails, HoldRefused, Hold, Drop, Work
    <3> QED
      BY <3>1, MoveInOrder DEF Places
  <2> QED
    BY <1>2, <2>1, <2>2, <2>3
<1>3. ASSUME DpcStart \/ DpcHead \/ DpcScanDone \/ DpcInject PROVE InOrder
  <2>1. CASE DpcStart \/ DpcScanDone
    BY <1>0, <2>1 DEF DpcStart, DpcScanDone
  <2>2. CASE DpcHead
    BY <1>0, <2>2, DpcTakes, TakeInOrder DEF Actors
  <2>3. CASE DpcInject
    <3>1. PICK place \in {"injected", "dropped"} : \E k : packets' = Move({k}, place)
      BY <2>3 DEF DpcInject, PacingInjectNow
    <3>2. PICK k : packets' = Move({k}, place)
      BY <3>1
    <3> QED
      BY <3>1, <3>2, MoveInOrder DEF Places
  <2> QED
    BY <1>3, <2>1, <2>2, <2>3
<1>4. ASSUME NEW k \in DOMAIN packets, PacingInjectComplete(k) PROVE InOrder
  <2>1. PICK place \in {"done", "dropped"} : packets' = Move({k}, place)
    BY <1>4 DEF PacingInjectComplete
  <2>2. Place(k) = "injected"
    BY <1>4 DEF PacingInjectComplete
  <2> QED
    BY <2>1, <2>2, MoveInOrder DEF Places
<1>5. ASSUME NEW t \in Threads, FlushTake(t) \/ FlushInject(t) \/ FlushDone(t) PROVE InOrder
  <2>1. CASE FlushTake(t)
    BY <2>1, FlushTakes, TakeInOrder DEF Actors
  <2>2. CASE FlushInject(t)
    <3>1. PICK place \in {"injected", "dropped"} : \E k : packets' = Move({k}, place)
      BY <2>2 DEF FlushInject, PacingInjectNow
    <3>2. PICK k : packets' = Move({k}, place)
      BY <3>1
    <3> QED
      BY <3>1, <3>2, MoveInOrder DEF Places
  <2>3. CASE FlushDone(t)
    BY <1>0, <2>3 DEF FlushDone
  <2> QED
    BY <1>5, <2>1, <2>2, <2>3
<1>6. ASSUME \/ \E pid \in Pids, l \in Limits : SetLimit(pid, l[1], l[2])
             \/ ClearLimits \/ RemoveLimitsOfExited \/ UnregisterNotify \/ PacingStopTimer \/ UnregisterCallouts
             \/ UnloadClearLimits \/ PacingShutdown \/ DestroyHandles
             \/ \E pid \in Procs : ProcessExit(pid)
             \/ \E pid \in Procs, n \in OutSizes : OutboundSegment(pid, n)
             \/ Unloaded \/ Tick
      PROVE  InOrder
  <2>1. packets' = packets
    BY <1>6 DEF SetLimit, ClearLimits, RemoveLimitsOfExited, UnregisterNotify, PacingStopTimer,
                UnregisterCallouts, UnloadClearLimits, PacingShutdown, DestroyHandles, ProcessExit,
                OutboundSegment, Unloaded, Tick, vars, pvars
  <2> QED
    BY <1>0, <2>1
<1> QED
  BY <1>1, <1>2, <1>3, <1>4, <1>5, <1>6 DEF Next

(* A segment never goes on while an earlier one, of the same process and classified
   on the same processor, is still held: what is released stays in order. *)
THEOREM HeldInOrder == Spec => NoOvertakingHeld
<1>1. [][InOrder]_vars <=> NoOvertakingHeld
  BY DEF NoOvertakingHeld, InOrder
<1> QED
  BY <1>1, StepInOrder, PacingInvariant, PTL DEF Spec
-----------------------------------------------------------------------------
(* The owners of a packet (OneOwner), by kind. *)
OnCpu(k) == {<<"cpu", c>> : c \in {c \in Cpus : cpu[c] # Idle /\ cpu[c].pkt = k}}
InQueue(k) == {<<"queue", p>> : p \in {p \in Contexts \X (1 .. MaxPackets) :
                 p[2] \in DOMAIN s_Contexts[p[1]].Queue /\ s_Contexts[p[1]].Queue[p[2]] = k}}
InDpc(k) == {<<"dpc", j>> : j \in {j \in DOMAIN BatchOf(dpc) : dpc.batch[j] = k}}
InThread(k) == {<<"thread", p>> : p \in {p \in Threads \X (1 .. MaxPackets) :
                  p[2] \in DOMAIN BatchOf(thread[p[1]]) /\ thread[p[1]].batch[p[2]] = k}}

(* A batch holds only packets that are placed in a batch, each of them once. *)
LEMMA BatchShape ==
  ASSUME PacingInv, NEW a \in Actors
  PROVE  /\ B(a) \in Seq(Nat) /\ IsInjective(B(a)) /\ Range(B(a)) \subseteq At("batch")
         /\ DOMAIN B(a) = 1 .. Len(B(a)) /\ DOMAIN B(a) \subseteq 1 .. MaxPackets
<1>1. PacingType /\ Owned
  BY DEF PacingInv
<1>2. B(a) \in Seq(Nat)
  BY <1>1, DpcShape, ThreadShape DEF Actors
<1>3. IsInjective(B(a)) /\ Range(B(a)) \subseteq At("batch")
  BY <1>1 DEF Owned
<1>4. Range(B(a)) \subseteq 1 .. MaxPackets /\ MaxPackets \in Nat
  BY <1>1, <1>3, PacketShape DEF At
<1>5. Len(B(a)) <= MaxPackets
  BY <1>2, <1>3, <1>4, Pigeons
<1> QED
  BY <1>2, <1>3, <1>4, <1>5, LenProperties

(* A packet at the classify of a processor is there once. *)
LEMMA CpuOwner ==
  ASSUME PacingInv, NEW k \in Packets
  PROVE  /\ Place(k) = "classify" => \E x : OnCpu(k) = {x}
         /\ Place(k) # "classify" => OnCpu(k) = {}
<1> DEFINE cs == {c \in Cpus : cpu[c] # Idle /\ cpu[c].pkt = k}
<1>1. /\ At("classify") = {Work(c) : c \in {c \in Cpus : Busy(c)}}
      /\ \A c \in Cpus : Busy(c) => packets[Work(c)].cpu = c
  BY DEF PacingInv, Owned
<1>2. \A c \in cs : c \in Cpus /\ Busy(c) /\ Work(c) = k /\ packets[k].cpu = c
  BY <1>1 DEF Busy, Work
<1>3. CASE Place(k) = "classify"
  <2>1. PICK c \in Cpus : Busy(c) /\ Work(c) = k
    BY <1>1, <1>3 DEF At
  <2>2. cs = {c}
    BY <1>2, <2>1 DEF Busy, Work
  <2> HIDE DEF cs
  <2>3. {<<"cpu", d>> : d \in cs} = {<<"cpu", c>>}
    BY <2>2
  <2> QED
    BY <1>3, <2>3 DEF OnCpu, cs
<1>4. CASE Place(k) # "classify"
  <2>1. k \notin At("classify")
    BY <1>4 DEF At
  <2>2. cs = {}
    BY <1>1, <1>2, <2>1
  <2> HIDE DEF cs
  <2>3. {<<"cpu", d>> : d \in cs} = {}
    BY <2>2
  <2> QED
    BY <1>4, <2>3 DEF OnCpu, cs
<1> QED
  BY <1>3, <1>4

(* A held packet is in one place of one queue. *)
LEMMA QueueOwner ==
  ASSUME PacingInv, NEW k \in Packets
  PROVE  /\ Place(k) = "held" => \E x : InQueue(k) = {x}
         /\ Place(k) # "held" => InQueue(k) = {}
<1> DEFINE ps == {p \in Contexts \X (1 .. MaxPackets) :
                   p[2] \in DOMAIN s_Contexts[p[1]].Queue /\ s_Contexts[p[1]].Queue[p[2]] = k}
<1>1. \A i \in Contexts : Q(i) = s_Contexts[i].Queue
  BY DEF Q
<1>2. ps = {p \in Contexts \X (1 .. MaxPackets) : p[2] \in DOMAIN Q(p[1]) /\ Q(p[1])[p[2]] = k}
  BY <1>1
<1>3. InQueue(k) = {<<"queue", p>> : p \in ps}
  BY DEF InQueue
<1> HIDE DEF ps
<1>4. ASSUME NEW i \in Contexts
      PROVE  /\ IsInjective(Q(i)) /\ Range(Q(i)) \subseteq At("held")
             /\ DOMAIN Q(i) \subseteq 1 .. MaxPackets /\ \A p \in DOMAIN Q(i) : Q(i)[p] \in Range(Q(i))
  <2>1. /\ Q(i) \in Seq(Nat) /\ IsInjective(Q(i)) /\ Range(Q(i)) \subseteq At("held")
        /\ Range(Q(i)) \subseteq Packets /\ Len(Q(i)) \in Nat /\ DOMAIN Q(i) = 1 .. Len(Q(i))
        /\ \A p \in DOMAIN Q(i) : Q(i)[p] \in Range(Q(i))
    BY ContextShape
  <2>2. Packets \subseteq 1 .. MaxPackets /\ MaxPackets \in Nat
    BY PacketShape DEF PacingInv
  <2>3. Len(Q(i)) <= MaxPackets
    BY <2>1, <2>2, Pigeons
  <2> QED
    BY <2>1, <2>2, <2>3
<1>5. CASE Place(k) = "held"
  <2>1. PICK i \in Contexts : k \in Range(Q(i))
    <3>1. k \in At("held")
      BY <1>5 DEF At
    <3> QED
      BY <3>1, ContextShape
  <2>2. PICK p \in DOMAIN Q(i) : Q(i)[p] = k
    BY <2>1 DEF Range
  <2>3. <<i, p>> \in ps
    BY <1>2, <1>4, <2>2
  <2>4. ASSUME NEW r \in ps PROVE r = <<i, p>>
    <3>1. /\ r \in Contexts \X (1 .. MaxPackets) /\ r[1] \in Contexts
          /\ r[2] \in DOMAIN Q(r[1]) /\ Q(r[1])[r[2]] = k
      BY <1>2
    <3>2. k \in Range(Q(r[1]))
      BY <1>4, <3>1
    <3>3. r[1] = i
      BY <2>1, <3>1, <3>2, ContextShape
    <3>4. r[2] = p
      BY <1>4, <2>2, <3>1, <3>3 DEF IsInjective
    <3> QED
      BY <3>1, <3>3, <3>4
  <2>5. ps = {<<i, p>>}
    BY <2>3, <2>4
  <2>6. InQueue(k) = {<<"queue", <<i, p>>>>}
    BY <1>3, <2>5
  <2> QED
    BY <1>5, <2>6
<1>6. CASE Place(k) # "held"
  <2>1. k \notin At("held")
    BY <1>6 DEF At
  <2>2. ASSUME NEW r \in ps PROVE FALSE
    <3>1. r[1] \in Contexts /\ r[2] \in DOMAIN Q(r[1]) /\ Q(r[1])[r[2]] = k
      BY <1>2
    <3> QED
      BY <1>4, <2>1, <3>1
  <2> QED
    BY <1>3, <1>6, <2>2
<1> QED
  BY <1>5, <1>6

(* The positions of a packet in the batches of an actor. *)
LEMMA BatchOwner ==
  ASSUME PacingInv, NEW k \in Packets
  PROVE  /\ Place(k) = "batch" => \/ InThread(k) = {} /\ \E x : InDpc(k) = {x}
                                  \/ InDpc(k) = {} /\ \E x : InThread(k) = {x}
         /\ Place(k) # "batch" => InDpc(k) = {} /\ InThread(k) = {}
<1> DEFINE js == {j \in DOMAIN BatchOf(dpc) : dpc.batch[j] = k}
           ps == {p \in Threads \X (1 .. MaxPackets) :
                   p[2] \in DOMAIN BatchOf(thread[p[1]]) /\ thread[p[1]].batch[p[2]] = k}
<1>0. "dpc" \in Actors /\ "dpc" \notin Threads /\ Threads \subseteq Actors
  BY DEF Actors, Threads
<1>1. js = {j \in DOMAIN B("dpc") : B("dpc")[j] = k}
  <2>1. B("dpc") = BatchOf(dpc)
    BY DEF B
  <2>2. BatchOf(dpc) = dpc.batch \/ BatchOf(dpc) = <<>>
    BY DEF BatchOf
  <2>3. BatchOf(dpc) = <<>> => DOMAIN BatchOf(dpc) = {}
    OBVIOUS
  <2> QED
    BY <2>1, <2>2, <2>3
<1>2. ps = {p \in Threads \X (1 .. MaxPackets) : p[2] \in DOMAIN B(p[1]) /\ B(p[1])[p[2]] = k}
  <2>1. \A t \in Threads : B(t) = BatchOf(thread[t])
    BY <1>0 DEF B
  <2>2. \A t \in Threads : BatchOf(thread[t]) = thread[t].batch \/ BatchOf(thread[t]) = <<>>
    BY DEF BatchOf
  <2>3. \A t \in Threads : BatchOf(thread[t]) = <<>> => DOMAIN BatchOf(thread[t]) = {}
    OBVIOUS
  <2>4. \A p \in Threads \X (1 .. MaxPackets) :
          (p[2] \in DOMAIN BatchOf(thread[p[1]]) /\ thread[p[1]].batch[p[2]] = k)
            <=> (p[2] \in DOMAIN B(p[1]) /\ B(p[1])[p[2]] = k)
    BY <2>1, <2>2, <2>3
  <2> QED
    BY <2>4
<1>3. InDpc(k) = {<<"dpc", j>> : j \in js} /\ InThread(k) = {<<"thread", p>> : p \in ps}
  BY DEF InDpc, InThread
<1> HIDE DEF js, ps
<1>4. \A a \in Actors : /\ IsInjective(B(a)) /\ Range(B(a)) \subseteq At("batch")
                        /\ DOMAIN B(a) \subseteq 1 .. MaxPackets
  BY BatchShape
<1>5. \A a \in Actors : \A p \in DOMAIN B(a) : B(a)[p] \in Range(B(a))
  BY DEF Range
<1>6. CASE Place(k) = "batch"
  <2>0. At("batch") = UNION {Range(B(a)) : a \in Actors}
    BY DEF PacingInv, Owned
  <2>1. PICK a \in Actors : k \in Range(B(a))
    BY <1>6, <2>0 DEF At
  <2>2. PICK p \in DOMAIN B(a) : B(a)[p] = k
    BY <2>1 DEF Range
  <2>3. \A b \in Actors : b # a => k \notin Range(B(b))
    BY <2>1 DEF PacingInv, Owned
  <2>4. \A q \in DOMAIN B(a) : B(a)[q] = k => q = p
    BY <1>4, <2>2 DEF IsInjective
  <2>5. ASSUME NEW r \in ps
        PROVE  r[1] \in Threads /\ r[1] = a /\ r[2] \in DOMAIN B(a) /\ B(a)[r[2]] = k /\ r = <<r[1], r[2]>>
    <3>1. r \in Threads \X (1 .. MaxPackets) /\ r[1] \in Threads
          /\ r[2] \in DOMAIN B(r[1]) /\ B(r[1])[r[2]] = k
      BY <1>2
    <3>2. r[1] = a
      BY <1>0, <1>5, <2>3, <3>1
    <3> QED
      BY <3>1, <3>2
  <2>6. CASE a = "dpc"
    <3>1. js = {p}
      BY <1>1, <2>2, <2>4, <2>6
    <3>2. ps = {}
      BY <1>0, <2>5, <2>6
    <3>3. InDpc(k) = {<<"dpc", p>>} /\ InThread(k) = {}
      BY <1>3, <3>1, <3>2
    <3> QED
      BY <1>6, <3>3
  <2>7. CASE a # "dpc"
    <3>1. js = {}
      BY <1>0, <1>1, <1>5, <2>3, <2>7
    <3>2. a \in Threads
      BY <2>7 DEF Actors
    <3>3. <<a, p>> \in ps
      BY <1>2, <1>4, <2>2, <3>2
    <3>4. ps = {<<a, p>>}
      BY <2>4, <2>5, <3>3
    <3>5. InDpc(k) = {} /\ InThread(k) = {<<"thread", <<a, p>>>>}
      BY <1>3, <3>1, <3>4
    <3> QED
      BY <1>6, <3>5
  <2> QED
    BY <2>6, <2>7
<1>7. CASE Place(k) # "batch"
  <2>1. k \notin At("batch")
    BY <1>7 DEF At
  <2>2. js = {}
    BY <1>0, <1>1, <1>4, <1>5, <2>1
  <2>3. ASSUME NEW r \in ps PROVE FALSE
    <3>1. r[1] \in Threads /\ r[2] \in DOMAIN B(r[1]) /\ B(r[1])[r[2]] = k
      BY <1>2
    <3> QED
      BY <1>0, <1>4, <1>5, <2>1, <3>1
  <2> QED
    BY <1>3, <1>7, <2>2, <2>3
<1> QED
  BY <1>6, <1>7

(* The invariant says what OneOwner counts. *)
LEMMA InvOneOwner ==
  ASSUME PacingInv
  PROVE  OneOwner
<1>1. \A i, j \in Contexts : s_Contexts[i].InUse /\ s_Contexts[j].InUse
                             /\ s_Contexts[i].ProcessId = s_Contexts[j].ProcessId => i = j
  BY DEF PacingInv, Queues
<1>2. ASSUME NEW k \in Packets
      PROVE  Cardinality(OnCpu(k) \cup InQueue(k) \cup InDpc(k) \cup InThread(k))
               = IF Place(k) \in {"classify", "held", "batch"} THEN 1 ELSE 0
  <2> DEFINE owners == OnCpu(k) \cup InQueue(k) \cup InDpc(k) \cup InThread(k)
  <2>1. Place(k) \in {"classify", "held", "batch"} => \E x : owners = {x}
    BY CpuOwner, QueueOwner, BatchOwner
  <2>2. Place(k) \notin {"classify", "held", "batch"} => owners = {}
    BY CpuOwner, QueueOwner, BatchOwner
  <2> HIDE DEF owners
  <2>3. Cardinality(owners) = IF Place(k) \in {"classify", "held", "batch"} THEN 1 ELSE 0
    BY <2>1, <2>2, FS_Singleton, FS_EmptySet
  <2> QED
    BY <2>3 DEF owners
<1> QED
  BY <1>1, <1>2, Zenon DEF OneOwner, OnCpu, InQueue, InDpc, InThread

(* A process has one queue, and a packet has one owner from its arrival until it
   leaves the driver: none is injected twice and none is forgotten, although
   classify, DPC and flushes hand packets over without a common lock. *)
THEOREM OwnedOnce == Spec => []OneOwner
BY InvOneOwner, PacingInvariant, PTL
-----------------------------------------------------------------------------
(* The exit callback removes the limits of a process, not the global one. *)
ExitTarget == thread["notify"].pc = "remove" => thread["notify"].target \in Procs

(* Every step keeps it. *)
LEMMA ExitTargetKeeps ==
  ASSUME PacingInv, ExitTarget, [Next]_vars
  PROVE  ExitTarget'
<1> DEFINE n == thread["notify"]
<1>0. thread \in [Threads -> Flushing] /\ "notify" \in Threads
  BY DEF PacingInv, PacingType, Threads
<1>1. ASSUME NEW t \in Threads, NEW x, thread' = [thread EXCEPT ![t] = x],
             x.pc = "remove" => x.target \in Procs
      PROVE  ExitTarget'
  BY <1>0, <1>1 DEF ExitTarget
<1>2. ASSUME UNCHANGED thread PROVE ExitTarget'
  BY <1>2 DEF ExitTarget
<1>3. Idle.pc = "idle"
  BY DEF Idle
<1>4. ASSUME NEW t \in Threads, NEW target, Flush(t, target) PROVE ExitTarget'
  <2> DEFINE x == IF AnyEnabled \/ target = EveryPid THEN [pc |-> "flush", target |-> target] ELSE Idle
  <2>1. thread' = [thread EXCEPT ![t] = x]
    BY <1>4 DEF Flush
  <2>2. x.pc # "remove"
    BY <1>3
  <2> HIDE DEF x
  <2> QED
    BY <1>1, <2>1, <2>2
<1>5. ASSUME NEW t \in Threads, FlushTake(t) \/ FlushInject(t) \/ FlushDone(t) PROVE ExitTarget'
  <2>1. CASE FlushTake(t)
    <3>1. \E b : thread' = [thread EXCEPT ![t] =
                  [pc |-> "inject", target |-> thread[t].target, batch |-> b]]
      BY <2>1, Zenon DEF FlushTake
    <3>2. PICK b : thread' = [thread EXCEPT ![t] =
                     [pc |-> "inject", target |-> thread[t].target, batch |-> b]]
      BY <3>1
    <3> QED
      BY <1>1, <3>2
  <2>2. CASE FlushInject(t)
    <3>1. /\ thread[t].pc = "inject"
          /\ thread' = [thread EXCEPT ![t] =
               IF Len(thread[t].batch) = 1 THEN [pc |-> "flush", target |-> thread[t].target]
               ELSE [thread[t] EXCEPT !.batch = Tail(@)]]
      BY <2>2 DEF FlushInject
    <3> DEFINE x == IF Len(thread[t].batch) = 1 THEN [pc |-> "flush", target |-> thread[t].target]
                    ELSE [thread[t] EXCEPT !.batch = Tail(@)]
    <3>2. x.pc # "remove"
      <4>1. thread[t] \in [pc : {"inject"}, target : Int, batch : NonEmpty]
        BY <3>1, ThreadShape DEF PacingInv
      <4> QED
        BY <4>1
    <3> HIDE DEF x
    <3> QED
      BY <1>1, <3>1, <3>2 DEF x
  <2>3. CASE FlushDone(t)
    BY <1>1, <1>3, <2>3 DEF FlushDone
  <2> QED
    BY <1>5, <2>1, <2>2, <2>3
<1>6. ASSUME NEW c \in Cpus,
             \/ \E pid \in Procs, b \in Sizes, f \in Families : Arrive(c, pid, b, f)
             \/ PacingPidHasHeld(c) \/ FastPath(c) \/ HoldFails(c) \/ HoldRefused(c) \/ Hold(c)
      PROVE  ExitTarget'
  BY <1>2, <1>6 DEF Arrive, PacingPidHasHeld, FastPath, HoldFails, HoldRefused, Hold
<1>7. ASSUME DpcStart \/ DpcHead \/ DpcScanDone \/ DpcInject PROVE ExitTarget'
  BY <1>2, <1>7 DEF DpcStart, DpcHead, DpcScanDone, DpcInject
<1>8. ASSUME NEW pid \in Pids, NEW up, NEW down, SetLimit(pid, up, down) PROVE ExitTarget'
  <2>1. Flush("ioctl", pid) \/ UNCHANGED thread
    BY <1>8 DEF SetLimit
  <2> QED
    BY <1>2, <1>4, <2>1 DEF Threads
<1>9. ASSUME ClearLimits \/ UnloadClearLimits \/ PacingShutdown PROVE ExitTarget'
  <2>1. Flush("ioctl", EveryPid) \/ Flush("unload", EveryPid)
    BY <1>9 DEF ClearLimits, UnloadClearLimits, PacingShutdown
  <2> QED
    BY <1>4, <2>1 DEF Threads
<1>10. ASSUME NEW pid \in Procs, ProcessExit(pid) PROVE ExitTarget'
  BY <1>1, <1>10 DEF ProcessExit, Threads
<1>11. ASSUME RemoveLimitsOfExited PROVE ExitTarget'
  <2>1. Flush("notify", thread["notify"].target) \/ thread' = [thread EXCEPT !["notify"] = Idle]
    BY <1>11 DEF RemoveLimitsOfExited
  <2> QED
    BY <1>0, <1>1, <1>3, <1>4, <2>1
<1>12. ASSUME \/ \E k \in DOMAIN packets : PacingInjectComplete(k)
              \/ \E pid \in Procs, b \in OutSizes : OutboundSegment(pid, b)
              \/ UnregisterNotify \/ PacingStopTimer \/ UnregisterCallouts
              \/ DestroyHandles \/ Unloaded \/ Tick \/ UNCHANGED vars
       PROVE  ExitTarget'
  BY <1>2, <1>12 DEF PacingInjectComplete, OutboundSegment, UnregisterNotify, PacingStopTimer,
                     UnregisterCallouts, DestroyHandles, Unloaded, Tick, vars, pvars
<1> QED
  BY <1>5, <1>6, <1>7, <1>8, <1>9, <1>10, <1>11, <1>12 DEF Next

(* Every step uses the table through one of the functions of throttle.c. *)
LEMMA TableStep ==
  ASSUME PacingInv, ExitTarget, [Next]_vars
  PROVE  [ThrottleNext]_tvars
<1>0. /\ OutSizes \subseteq Sizes
      /\ \A l \in Limits : l[1] \in Rates /\ l[2] \in Rates
      /\ Procs = Pids \ {0}
  BY PacingAssumption DEF Procs
<1>1. ASSUME NEW k \in Packets, NEW permitted \in BOOLEAN, ThrottleCheck(Pid(k), FALSE, Bytes(k), permitted)
      PROVE  ThrottleNext
  <2>1. packets[k] \in Packet
    BY PacketShape DEF PacingInv
  <2>2. Pid(k) \in Pids \ {0} /\ Bytes(k) \in Sizes
    BY <1>0, <2>1 DEF Packet, Pid, Bytes
  <2> QED
    BY <1>1, <2>2 DEF ThrottleNext
<1>2. ASSUME NEW c \in Cpus, FastPath(c) PROVE ThrottleNext
  <2>1. cpu[c].pc = "check" /\ \E permitted \in BOOLEAN :
          ThrottleCheck(Pid(Work(c)), FALSE, Bytes(Work(c)), permitted)
    BY <1>2 DEF FastPath, Work
  <2>2. Work(c) \in Packets
    BY <2>1, CpuShape
  <2> QED
    BY <1>1, <2>1, <2>2
<1>3. ASSUME DpcHead PROVE ThrottleNext
  <2> DEFINE i == NextQueue(dpc.ctx)
             k == Head(s_Contexts[i].Queue)
  <2>1. i # 0 /\ \E permitted \in BOOLEAN : ThrottleCheck(Pid(k), FALSE, Bytes(k), permitted)
    BY <1>3 DEF DpcHead
  <2>2. i \in Contexts /\ Q(i) # <<>>
    BY <2>1, NextQueueShape
  <2>3. k \in Packets
    <3>1. Q(i) \in Seq(Nat) /\ IsInjective(Q(i)) /\ Range(Q(i)) \subseteq Packets
      BY <2>2, ContextShape
    <3> HIDE DEF i
    <3>2. Head(Q(i)) \in Range(Q(i))
      BY <2>2, <3>1, TailShape
    <3> QED
      BY <3>1, <3>2 DEF Q
  <2> HIDE DEF k, i
  <2> QED
    BY <1>1, <2>1, <2>3
<1>4. ASSUME NEW pid \in Pids, NEW l \in Limits, SetLimit(pid, l[1], l[2]) PROVE ThrottleNext
  BY <1>0, <1>4 DEF SetLimit, ThrottleNext
<1>5. ASSUME RemoveLimitsOfExited PROVE ThrottleNext
  BY <1>0, <1>5 DEF RemoveLimitsOfExited, ExitTarget, ThrottleNext
<1>6. ASSUME NEW pid \in Procs, NEW b \in OutSizes, OutboundSegment(pid, b) PROVE ThrottleNext
  BY <1>0, <1>6 DEF OutboundSegment, ThrottleNext
<1>7. ASSUME ClearLimits \/ UnloadClearLimits \/ Tick PROVE ThrottleNext
  BY <1>7 DEF ClearLimits, UnloadClearLimits, Tick, ThrottleNext
<1>8. ASSUME NEW c \in Cpus,
             \/ \E pid \in Procs, b \in Sizes, f \in Families : Arrive(c, pid, b, f)
             \/ PacingPidHasHeld(c) \/ HoldFails(c) \/ HoldRefused(c) \/ Hold(c)
      PROVE  UNCHANGED tvars
  BY <1>8 DEF Arrive, PacingPidHasHeld, HoldFails, HoldRefused, Hold
<1>9. ASSUME NEW t \in Threads, FlushTake(t) \/ FlushInject(t) \/ FlushDone(t) PROVE UNCHANGED tvars
  BY <1>9 DEF FlushTake, FlushInject, FlushDone
<1>10. ASSUME \/ DpcStart \/ DpcScanDone \/ DpcInject
              \/ \E k \in DOMAIN packets : PacingInjectComplete(k)
              \/ \E pid \in Procs : ProcessExit(pid)
              \/ UnregisterNotify \/ PacingStopTimer \/ UnregisterCallouts
              \/ PacingShutdown \/ DestroyHandles \/ Unloaded \/ UNCHANGED vars
       PROVE  UNCHANGED tvars
  BY <1>10 DEF DpcStart, DpcScanDone, DpcInject, PacingInjectComplete, ProcessExit,
               UnregisterNotify, PacingStopTimer, UnregisterCallouts, PacingShutdown,
               DestroyHandles, Unloaded, vars
<1> QED
  BY <1>2, <1>3, <1>4, <1>5, <1>6, <1>7, <1>8, <1>9, <1>10 DEF Next

(* Pacing changes the throttle table only through the functions of throttle.c, so
   all that is proved of the table alone holds with pacing around it. *)
THEOREM PacingUsesTable == Spec => ThrottleSpec
<1>1. Init => ExitTarget
  BY DEF Init, ExitTarget, Idle, Threads
<1>2. Init => ThrottleInit
  BY DEF Init
<1> QED
  BY <1>1, <1>2, ExitTargetKeeps, TableStep, PacingInvariant, PTL DEF Spec, ThrottleSpec

(* The table stays consistent while packets are held, released and flushed: the
   counter that the data path reads without the lock is exact, a process has one
   bucket, and no bucket holds more than its capacity. *)
THEOREM PacingTableSafe == Spec => []TableConsistent
BY PacingUsesTable, ThrottleSafety
=============================================================================
