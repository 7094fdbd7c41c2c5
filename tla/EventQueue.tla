----------------------------- MODULE EventQueue -----------------------------
(***************************************************************************)
(* The driver's two ring buffers (driver/src/events.c): connection events  *)
(* written by the classify callouts and read with IOCTL_GET_EVENT, and DNS *)
(* events read with IOCTL_GET_DNS_EVENT.  Each operation runs under the    *)
(* spin lock of its queue, so it is one step.                              *)
(***************************************************************************)
EXTENDS Naturals, Sequences

CONSTANTS
  EVENT_QUEUE_SIZE,  \* slots of each ring
  Events,            \* the events a callout can report
  Zero               \* a zeroed slot; also STATUS_NO_MORE_ENTRIES

ASSUME SizeAssumption == EVENT_QUEUE_SIZE \in Nat /\ EVENT_QUEUE_SIZE >= 2
ASSUME ZeroAssumption == Zero \notin Events

VARIABLES
  ring,      \* ring[q][i]: g_EventQueue / g_DnsEventQueue
  head,      \* head[q]: next slot to write
  tail,      \* tail[q]: next slot to read
  returned   \* returned[q]: what the last GetEvent / GetDnsEvent gave its caller

vars == <<ring, head, tail, returned>>

Queues == {"net", "dns"}
Slots == 0 .. EVENT_QUEUE_SIZE - 1

NextSlot(i) == (i + 1) % EVENT_QUEUE_SIZE

Init ==
  /\ ring = [q \in Queues |-> [i \in Slots |-> Zero]]
  /\ head = [q \in Queues |-> 0]
  /\ tail = [q \in Queues |-> 0]
  /\ returned = [q \in Queues |-> Zero]

(* A writer that forgets to give up the oldest event when the ring is full. *)
WriteKeepsTail(q, e) ==
  /\ ring' = [ring EXCEPT ![q][head[q]] = e]
  /\ head' = [head EXCEPT ![q] = NextSlot(@)]
  /\ UNCHANGED <<tail, returned>>

(***************************************************************************)
(* The body the two writers share: a full ring gives up its oldest event   *)
(* before the slot at the head is overwritten.                             *)
(***************************************************************************)
Write(q, e) ==
  /\ tail' = [tail EXCEPT ![q] = IF NextSlot(head[q]) = @ THEN NextSlot(@) ELSE @]
  /\ ring' = [ring EXCEPT ![q][head[q]] = e]
  /\ head' = [head EXCEPT ![q] = NextSlot(@)]
  /\ UNCHANGED returned

QueueEvent(e) == Write("net", e)

(* The full test made against the head itself instead of the slot after it. *)
QueueDnsEventKeepsTail(e) == WriteKeepsTail("dns", e)

QueueDnsEvent(e) == Write("dns", e)

Read(q) ==
  \/ /\ head[q] = tail[q]
     /\ returned' = [returned EXCEPT ![q] = Zero]
     /\ UNCHANGED <<ring, head, tail>>
  \/ /\ head[q] # tail[q]
     /\ returned' = [returned EXCEPT ![q] = ring[q][tail[q]]]
     /\ tail' = [tail EXCEPT ![q] = NextSlot(@)]
     /\ UNCHANGED <<ring, head>>

GetEvent == Read("net")
GetDnsEvent == Read("dns")

Next ==
  \/ \E e \in Events : QueueEvent(e) \/ QueueDnsEvent(e)
  \/ GetEvent
  \/ GetDnsEvent

Spec == Init /\ [][Next]_vars
-----------------------------------------------------------------------------
(* The ring indices stay inside the ring and the slots hold events or zeroes. *)
TypeOK ==
  /\ ring \in [Queues -> [Slots -> Events \cup {Zero}]]
  /\ head \in [Queues -> Slots]
  /\ tail \in [Queues -> Slots]
  /\ returned \in [Queues -> Events \cup {Zero}]

(* How many events are queued, and the slot of the k-th oldest of them. *)
Count(q) == IF head[q] >= tail[q] THEN head[q] - tail[q]
                                  ELSE head[q] - tail[q] + EVENT_QUEUE_SIZE
SlotOf(t, k) == IF t + k - 1 < EVENT_QUEUE_SIZE THEN t + k - 1
                                                ELSE t + k - 1 - EVENT_QUEUE_SIZE

(* Every slot between tail and head holds an event that was really queued:
   GetEvent never hands the service a zeroed slot as an event. *)
UnreadAreEvents ==
  \A q \in Queues : \A k \in 1 .. Count(q) : ring[q][SlotOf(tail[q], k)] \in Events

(* The refinement mapping: the unread slots, oldest first. *)
Unread == [q \in Queues |-> [k \in 1 .. Count(q) |-> ring[q][SlotOf(tail[q], k)]]]

Fifo == INSTANCE DropOldestFifo WITH
          fifo <- Unread, None <- Zero, Limit <- EVENT_QUEUE_SIZE - 1

(* Both rings behave as a FIFO that gives up only its oldest event, and only
   when EVENT_QUEUE_SIZE - 1 events are unread: no event is lost otherwise,
   none is read twice, and the order of queueing is the order of reading. *)
RefinesFifo == Fifo!FSpec
=============================================================================
