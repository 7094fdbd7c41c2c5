----------------------------- MODULE RateBound ------------------------------
(***************************************************************************)
(* How much a limited process can send, whatever the timing of its         *)
(* segments.  Beside every bucket of the throttle table runs the ideal     *)
(* bucket of its limit: it starts full when the limit is set, earns the    *)
(* rate continuously up to the capacity, and pays for every segment        *)
(* ThrottleCheck lets through.  A balance below zero is traffic beyond the *)
(* limit.  Balances count bytes * SECOND, so that no fraction is lost.     *)
(***************************************************************************)
EXTENDS Throttle

VARIABLE ideal   \* ideal[i][outbound]: balance of a direction of slot i

rvars == <<tvars, ideal>>

Full(e, outbound) == ThrottleBucketCapacity(Rate(e, outbound)) * SECOND

RateInit ==
  /\ ThrottleInit
  /\ ideal = [i \in Slots |-> [outbound \in BOOLEAN |-> 0]]

(* A limit that is set or changed is measured from that moment on. *)
Set(pid, up, down) ==
  /\ ThrottleSetEntry(pid, up, down)
  /\ ideal' = [i \in Slots |->
       IF Holds(i, pid)' THEN [outbound \in BOOLEAN |-> Full(s_Entries'[i], outbound)]
                         ELSE ideal[i]]

Check(pid, outbound, n, permitted) ==
  /\ ThrottleCheck(pid, outbound, n, permitted)
  /\ ideal' = [i \in Slots |->
       IF permitted /\ Applies(i, pid) /\ Rate(s_Entries[i], outbound) > 0
       THEN [ideal[i] EXCEPT ![outbound] = @ - n * SECOND] ELSE ideal[i]]

Time ==
  /\ ClockTick
  /\ ideal' = [i \in Slots |-> [outbound \in BOOLEAN |->
       IF InUse(i) THEN AtMost(ideal[i][outbound] + Rate(s_Entries[i], outbound),
                               Full(s_Entries[i], outbound))
                   ELSE ideal[i][outbound]]]

RateNext ==
  \/ \E pid \in Pids, up, down \in Rates : Set(pid, up, down)
  \/ \E pid \in Pids \ {0} : ThrottleRemoveByPid(pid) /\ UNCHANGED ideal
  \/ ThrottleClearAll /\ UNCHANGED ideal
  \/ \E pid \in Pids \ {0}, outbound, permitted \in BOOLEAN, n \in Sizes :
       Check(pid, outbound, n, permitted)
  \/ Time

RateSpec == RateInit /\ [][RateNext]_rvars
-----------------------------------------------------------------------------
(* ThrottleCheck lets a process exceed the ideal token bucket by at most one
   capacity.  RefillEntry keeps LastRefill while the bucket is full, so the
   time spent idle is credited again after the first charge: a burst is at most
   twice the capacity, never more, and the rate holds in the long run. *)
OverdraftBounded ==
  \A i \in Slots, outbound \in BOOLEAN :
    InUse(i) => ideal[i][outbound] >= -Full(s_Entries[i], outbound)
=============================================================================
