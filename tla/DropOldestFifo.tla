--------------------------- MODULE DropOldestFifo ---------------------------
(***************************************************************************)
(* What the two kernel event queues promise to the service that polls      *)
(* them: a FIFO of at most Limit events.  Queueing always succeeds; when   *)
(* the FIFO is full the oldest event, and only that one, is given up.      *)
(* The poller receives the remaining events in the order they were queued, *)
(* each at most once, or is told that there are none.                      *)
(***************************************************************************)
EXTENDS Naturals, Sequences

CONSTANTS
  Queues,   \* the independent queues
  Events,   \* what can be queued
  Limit,    \* how many events one queue keeps
  None      \* "no more entries"

VARIABLES
  fifo,     \* fifo[q]: the events queued and not yet read or given up
  returned  \* returned[q]: the answer of the last read

fvars == <<fifo, returned>>

FInit ==
  /\ fifo = [q \in Queues |-> <<>>]
  /\ returned = [q \in Queues |-> None]

Put(q, e) ==
  /\ fifo' = [fifo EXCEPT ![q] =
                Append(IF Len(fifo[q]) = Limit THEN Tail(fifo[q]) ELSE fifo[q], e)]
  /\ UNCHANGED returned

Take(q) ==
  /\ fifo[q] # <<>>
  /\ fifo' = [fifo EXCEPT ![q] = Tail(fifo[q])]
  /\ returned' = [returned EXCEPT ![q] = Head(fifo[q])]

TakeNothing(q) ==
  /\ fifo[q] = <<>>
  /\ returned' = [returned EXCEPT ![q] = None]
  /\ UNCHANGED fifo

FNext ==
  \E q \in Queues :
    \/ \E e \in Events : Put(q, e)
    \/ Take(q)
    \/ TakeNothing(q)

FSpec == FInit /\ [][FNext]_fvars
=============================================================================
