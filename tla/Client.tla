------------------------------- MODULE Client -------------------------------
(***************************************************************************)
(* Notifications on their way to the user (notification/, ipc/server.rs,   *)
(* gui/src-tauri/src/ipc.rs and lib.rs): the notifier's queue, the named   *)
(* pipe's listener and its handlers, and the GUI's IpcClients.             *)
(*                                                                         *)
(* A call of the GUI runs its I/O in a worker thread that takes the lock   *)
(* of its IpcClient and uses the client's one connection.  After ten       *)
(* seconds the caller gives up and cancels the worker's I/O, twice.  The   *)
(* service may be slow, stop or die at any step.                           *)
(*                                                                         *)
(* A message in a pipe is the call it belongs to.  What a poll was given   *)
(* is drained[r]; what a call executes in the service is left to Service.  *)
(***************************************************************************)
EXTENDS Naturals, Sequences, FiniteSets, SequencesExt

CONSTANTS
  Calls, Polls, \* calls of the application, calls of the notification poller
  Blocked,      \* connections whose blocking is announced
  None,
  QUEUE_CAP,    \* notifications that wait
  PollSize,     \* notifications one poll takes
  MaxItems,     \* bound: notifications
  MaxCalls,     \* bound: calls that are made
  MaxPipes,     \* bound: pipe instances
  MaxExits      \* bound: ends of the service process

ASSUME ClientAssumption ==
  /\ {QUEUE_CAP, PollSize, MaxItems, MaxCalls, MaxPipes, MaxExits} \subseteq Nat
  /\ QUEUE_CAP > 0 /\ PollSize > 0 /\ Calls \cap Polls = {} /\ None \notin Calls \cup Polls

VARIABLES
  enabled,     \* the notifier's switch
  recent,      \* connections announced less than a minute ago
  queue,       \* ids of the notifications that wait
  made,        \* notifications made so far; ids go on in a new process
  pushed,      \* history: ids pushed out of a full queue, or lost with the process
  call,        \* call[r]: "new", "waiting", "cancelling", "ok", "error", "timeout"
  worker,      \* worker[r]: "none", "queued", "waiting", "connect", "write", "read",
               \* "done", or "left" when it ended without setting worker_done
  thread,      \* thread[r]: the pool's thread in the call's CancelSlot
  answer,      \* answer[r]: the message the worker has read
  lock, client,   \* per IpcClient: the worker inside, the pipe it is connected to
  pipe,        \* pipe instances: [near, far, task, serving, request, response]
  listener, running, woken, missed,
  drained,     \* history: what each poll took from the queue
  shown,       \* ids of the notifications the user has seen
  stray,       \* history: <<r, w>>, r's cancellation reached the I/O of w
  exits

notifier == <<enabled, recent, queue, made, pushed>>
gui == <<call, worker, thread, answer, lock, client, shown, stray>>
server == <<listener, running, woken, missed, exits>>
vars == <<notifier, gui, server, pipe, drained>>

All == Calls \cup Polls
Owner(r) == IF r \in Polls THEN "poller" ELSE "app"
Pipes == 1 .. Len(pipe)
Ended == {"ok", "error", "timeout"}

ClientInit ==
  /\ enabled = TRUE /\ recent = {} /\ queue = <<>> /\ made = 0 /\ pushed = {}
  /\ call = [r \in All |-> "new"] /\ worker = [r \in All |-> "none"]
  /\ thread = [r \in All |-> None]
  /\ answer = [r \in All |-> None] /\ shown = <<>> /\ stray = {}
  /\ lock = [o \in {"app", "poller"} |-> None] /\ client = [o \in {"app", "poller"} |-> 0]
  /\ pipe = <<>> /\ drained = [r \in All |-> <<>>]
  /\ listener = "check" /\ running = TRUE /\ woken = FALSE /\ missed = FALSE /\ exits = 0

-----------------------------------------------------------------------------
(* The notifier. *)

should_notify(b) == b \notin recent

enqueue(item) == Append(IF Len(queue) >= QUEUE_CAP THEN Tail(queue) ELSE queue, item)

(* The key of the deduplicator also holds the hour, so that b is a connection
   within an hour.  The kind of the notification is left out. *)
notify_blocked_connection(b) ==
  /\ running /\ enabled /\ made < MaxItems
  /\ should_notify(b)
  /\ made' = made + 1 /\ queue' = enqueue(made + 1)
  /\ pushed' = pushed \cup IF Len(queue) >= QUEUE_CAP THEN {Head(queue)} ELSE {}
  /\ recent' = recent \cup {b}
  /\ UNCHANGED <<enabled, gui, server, pipe, drained>>

(* A minute has passed.  Once no more can be announced, this and the switch
   make no difference. *)
cleanup_expired(b) ==
  /\ made < MaxItems /\ b \in recent /\ recent' = recent \ {b}
  /\ UNCHANGED <<enabled, queue, made, pushed, gui, server, pipe, drained>>

set_enabled ==
  /\ made < MaxItems /\ enabled' = ~enabled
  /\ UNCHANGED <<recent, queue, made, pushed, gui, server, pipe, drained>>

Taken(r) == IF r \in Polls THEN SubSeq(queue, 1, IF PollSize < Len(queue) THEN PollSize ELSE Len(queue)) ELSE <<>>
(* The notifications stay in the queue until the next poll. *)
DrainCopies(r) == queue' = queue
drain(r) == queue' = SubSeq(queue, Len(Taken(r)) + 1, Len(queue))

-----------------------------------------------------------------------------
(* The listener.  notify_waiters wakes it only where it already waits. *)

ListenerStep == UNCHANGED <<notifier, gui, running, missed, exits, drained>>

(* A failure to create the pipe is retried after a second. *)
create_named_pipe ==
  /\ listener = "check" /\ running /\ Len(pipe) < MaxPipes
  /\ pipe' = Append(pipe, [near |-> "free", far |-> TRUE, task |-> "none", serving |-> None,
                           request |-> <<>>, response |-> <<>>])
  /\ listener' = "created"
  /\ UNCHANGED woken /\ ListenerStep

LoopEnds ==
  /\ listener = "check" /\ ~running
  /\ listener' = "ended"
  /\ UNCHANGED <<woken, pipe>> /\ ListenerStep

AwaitClient ==
  /\ listener = "created"
  /\ listener' = "select"
  /\ UNCHANGED <<woken, pipe>> /\ ListenerStep

(* A client that came and went again may make the connect fail. *)
Accept ==
  /\ listener = "select" /\ pipe[Len(pipe)].near # "free"
  /\ \/ pipe' = [pipe EXCEPT ![Len(pipe)].task = "reading"]
     \/ pipe[Len(pipe)].near = "closed" /\ pipe' = [pipe EXCEPT ![Len(pipe)].far = FALSE, ![Len(pipe)].request = <<>>]
  /\ listener' = "check" /\ woken' = FALSE
  /\ ListenerStep

(* The pending connect is dropped, and with it the instance. *)
Shutdown ==
  /\ listener = "select" /\ woken
  /\ pipe' = [pipe EXCEPT ![Len(pipe)].far = FALSE, ![Len(pipe)].request = <<>>]
  /\ listener' = "ended" /\ woken' = FALSE
  /\ ListenerStep

(* The flag is only looked at when a client has come. *)
StopUnnoticed ==
  /\ running /\ listener # "ended"
  /\ running' = FALSE
  /\ UNCHANGED <<notifier, gui, listener, woken, missed, exits, pipe, drained>>

stop ==
  /\ running /\ listener # "ended"
  /\ running' = FALSE
  /\ woken' = (listener = "select") /\ missed' = (listener = "created")
  /\ UNCHANGED <<notifier, gui, listener, exits, pipe, drained>>

(* The process ends with its pipes and its queue, and is started again. *)
Exit ==
  /\ exits < MaxExits /\ exits' = exits + 1
  /\ pipe' = [k \in Pipes |-> [pipe[k] EXCEPT !.far = FALSE, !.task = "none", !.serving = None, !.request = <<>>]]
  /\ pushed' = pushed \cup Range(queue)
  /\ queue' = <<>> /\ recent' = {} /\ enabled' = TRUE
  /\ listener' = "check" /\ running' = TRUE /\ woken' = FALSE /\ missed' = FALSE
  /\ UNCHANGED <<made, gui, drained>>

-----------------------------------------------------------------------------
(* The handler of a connection. *)

HandlerStep == UNCHANGED <<gui, server>>

(* What is in the pipe can be read after the client has closed it. *)
ReadRequest(k) ==
  /\ pipe[k].task = "reading" /\ pipe[k].request # <<>>
  /\ pipe' = [pipe EXCEPT ![k].task = "handling", ![k].serving = Head(pipe[k].request), ![k].request = Tail(@)]
  /\ UNCHANGED <<notifier, drained>> /\ HandlerStep

handle_request(k) ==
  /\ pipe[k].task = "handling"
  /\ drain(pipe[k].serving)
  /\ drained' = [drained EXCEPT ![pipe[k].serving] = Taken(pipe[k].serving)]
  /\ pipe' = [pipe EXCEPT ![k].task = "writing"]
  /\ UNCHANGED <<enabled, recent, made, pushed>> /\ HandlerStep

WriteResponse(k) ==
  /\ pipe[k].task = "writing"
  /\ pipe' = IF pipe[k].near = "open"
             THEN [pipe EXCEPT ![k].response = Append(@, pipe[k].serving), ![k].serving = None, ![k].task = "reading"]
             ELSE [pipe EXCEPT ![k].task = "none", ![k].serving = None, ![k].far = FALSE, ![k].request = <<>>]
  /\ UNCHANGED <<notifier, drained>> /\ HandlerStep

(* The client has gone, or sent what cannot be decoded. *)
CloseConnection(k) ==
  /\ pipe[k].task = "reading"
  /\ pipe[k].request # <<>> \/ pipe[k].near = "closed"
  /\ pipe' = [pipe EXCEPT ![k].task = "none", ![k].far = FALSE, ![k].request = <<>>]
  /\ UNCHANGED <<notifier, drained>> /\ HandlerStep

-----------------------------------------------------------------------------
(* A call.  Polls are made one after the other. *)

GuiStep == UNCHANGED <<notifier, server, drained>>
To(r, where) == worker' = [worker EXCEPT ![r] = where]

send_request(r) ==
  /\ call[r] = "new" /\ Cardinality({q \in All : call[q] # "new"}) < MaxCalls
  /\ r \in Polls => \A p \in Polls : call[p] \in {"new"} \cup Ended
  /\ call' = [call EXCEPT ![r] = "waiting"] /\ To(r, "queued")
  /\ UNCHANGED <<thread, answer, lock, client, shown, stray, pipe>> /\ GuiStep

Gone == {"done", "left"}
Active(w) == worker[w] \notin Gone \cup {"none", "queued"}
Idle == {t \in All : \E q \in All : thread[q] = t} \ {thread[w] : w \in {w \in All : Active(w)}}

(* A new thread of the pool, called r, or one whose last worker has ended runs
   the worker, and puts its handle into the call's slot.  That the system may
   refuse to duplicate the handle is left out. *)
RegisterThread(r) ==
  /\ worker[r] = "queued" /\ To(r, "waiting")
  /\ \E t \in Idle \cup {r} : thread' = [thread EXCEPT ![r] = t]
  /\ UNCHANGED <<call, answer, lock, client, shown, stray, pipe>> /\ GuiStep

EnterClient(r) ==
  /\ worker[r] = "waiting" /\ lock[Owner(r)] = None
  /\ lock' = [lock EXCEPT ![Owner(r)] = r]
  /\ To(r, IF client[Owner(r)] = 0 THEN "connect" ELSE "write")
  /\ UNCHANGED <<call, thread, answer, client, shown, stray, pipe>> /\ GuiStep

Leave(r, how) == lock' = [lock EXCEPT ![Owner(r)] = None] /\ To(r, how)

(* The connection is kept for the next call. *)
FailKeepsConnection(r, how) == Leave(r, how) /\ UNCHANGED <<client, pipe>>

(* Any failure drops the connection; the next call connects again. *)
Fail(r, how) ==
  /\ Leave(r, how)
  /\ client' = [client EXCEPT ![Owner(r)] = 0]
  /\ pipe' = [k \in Pipes |-> IF k = client[Owner(r)] THEN [pipe[k] EXCEPT !.near = "closed", !.response = <<>>] ELSE pipe[k]]

Listening(k) == pipe[k].far /\ pipe[k].near = "free"

(* A busy pipe is tried three times before the call fails. *)
connect(r) ==
  /\ worker[r] = "connect"
  /\ \/ \E k \in Pipes :
          /\ Listening(k)
          /\ pipe' = [pipe EXCEPT ![k].near = "open"]
          /\ client' = [client EXCEPT ![Owner(r)] = k]
          /\ To(r, "write") /\ UNCHANGED lock
     \/ ~(\E k \in Pipes : Listening(k)) /\ Fail(r, "left")
  /\ UNCHANGED <<call, thread, answer, shown, stray>> /\ GuiStep

WriteRequest(r) ==
  /\ worker[r] = "write"
  /\ LET k == client[Owner(r)]
     IN  \/ /\ pipe[k].far
            /\ pipe' = [pipe EXCEPT ![k].request = Append(@, r)]
            /\ To(r, "read") /\ UNCHANGED <<lock, client>>
         \/ ~pipe[k].far /\ Fail(r, "done")
  /\ UNCHANGED <<call, thread, answer, shown, stray>> /\ GuiStep

ReadResponse(r) ==
  /\ worker[r] = "read"
  /\ LET k == client[Owner(r)]
     IN  \/ /\ pipe[k].response # <<>>
            /\ answer' = [answer EXCEPT ![r] = Head(pipe[k].response)]
            /\ pipe' = [pipe EXCEPT ![k].response = Tail(@)]
            /\ Leave(r, "done") /\ UNCHANGED client
         \/ pipe[k].response = <<>> /\ ~pipe[k].far /\ Fail(r, "done") /\ UNCHANGED answer
  /\ UNCHANGED <<call, thread, shown, stray>> /\ GuiStep

(* The poller shows what a poll has brought, and nothing when it has failed. *)
ShowNotifications(r) ==
  shown' = IF answer[r] = None THEN shown ELSE shown \o drained[answer[r]]

(* Whether the answer is an error of the service is left out. *)
Return(r) ==
  /\ call[r] = "waiting" /\ worker[r] \in Gone
  /\ call' = [call EXCEPT ![r] = IF answer[r] = None THEN "error" ELSE "ok"]
  /\ ShowNotifications(r)
  /\ UNCHANGED <<worker, thread, answer, lock, client, stray, pipe>> /\ GuiStep

NoCancel == UNCHANGED <<lock, client, worker, stray, pipe>>
InIO == {"connect", "write", "read"}

(* CancelSynchronousIo reaches a thread that is in an I/O call, which need not
   be r's any more: the pool uses its threads again. *)
CancelThread(r, t) ==
  \/ \E w \in All :
       /\ thread[w] = t /\ worker[w] \in InIO
       /\ Fail(w, IF worker[w] = "connect" THEN "left" ELSE "done")
       /\ stray' = stray \cup ({<<r, w>>} \ {<<r, r>>})
  \/ (\A w \in All : thread[w] = t => worker[w] \notin {"write", "read"}) /\ NoCancel

(* One slot for the client: the handle of the call that came last. *)
CancelLatest(r) ==
  \E w \in All : Owner(w) = Owner(r) /\ Active(w) /\ CancelThread(r, thread[w])

cancel_worker(r) == CancelThread(r, thread[r])

(* A second attempt follows only when the first found a handle. *)
Timeout(r) ==
  /\ call[r] = "waiting"
  /\ IF thread[r] # None
     THEN cancel_worker(r) /\ call' = [call EXCEPT ![r] = "cancelling"]
     ELSE NoCancel /\ call' = [call EXCEPT ![r] = "timeout"]
  /\ UNCHANGED <<thread, answer, shown>> /\ GuiStep

CancelAgain(r) ==
  /\ call[r] = "cancelling"
  /\ IF worker[r] = "done" THEN NoCancel ELSE cancel_worker(r)
  /\ call' = [call EXCEPT ![r] = "timeout"]
  /\ UNCHANGED <<thread, answer, shown>> /\ GuiStep

ClientNext ==
  \/ \E b \in Blocked : notify_blocked_connection(b) \/ cleanup_expired(b)
  \/ set_enabled \/ LoopEnds \/ create_named_pipe \/ AwaitClient \/ Accept \/ Shutdown \/ stop \/ Exit
  \/ \E k \in Pipes : ReadRequest(k) \/ handle_request(k) \/ WriteResponse(k) \/ CloseConnection(k)
  \/ \E r \in All : \/ send_request(r) \/ RegisterThread(r) \/ EnterClient(r) \/ connect(r)
                    \/ WriteRequest(r) \/ ReadResponse(r) \/ Return(r) \/ Timeout(r) \/ CancelAgain(r)

ClientSpec == ClientInit /\ [][ClientNext]_vars
-----------------------------------------------------------------------------
(* A call that succeeds has read the response to its own request: one that was
   given up leaves nothing behind that a later call on the same client would
   take for its own (send_request). *)
OwnAnswer == \A r \in All : answer[r] \in {None, r}

(* A call that gives up never cancels the I/O of another, however many calls
   wait for the client (CancelSlot), unless its own worker has ended and the
   pool has given the thread to the other. *)
CancelIsOwn == \A c \in stray : worker[c[1]] \in Gone /\ thread[c[1]] = thread[c[2]]

(* Every notification waits, was pushed out, or was given to one poll; what a
   successful poll was given is shown, once and in order: one is lost only with
   the process, a full queue or a poll that failed after the service had taken
   it from the queue (enqueue, drain, spawn_notification_poller). *)
NotificationsKept ==
  /\ \A id \in 1 .. made :
       LET polls == {r \in Polls : Contains(drained[r], id)}
       IN  (IF Contains(queue, id) THEN 1 ELSE 0) + (IF id \in pushed THEN 1 ELSE 0) + Cardinality(polls) = 1
  /\ \A i, j \in DOMAIN shown : i < j => shown[i] < shown[j]
  /\ \A r \in Polls : call[r] = "ok" => Range(drained[r]) \subseteq Range(shown)

(* After stop the listener does not wait on for a client, unless it was between
   its check of the flag and its wait when stop came (IpcServer::stop). *)
ListenerStops ==
  (~running /\ listener = "select") => woken \/ missed \/ pipe[Len(pipe)].near # "free"
=============================================================================
