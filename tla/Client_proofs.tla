---------------------------- MODULE Client_proofs ----------------------------
(***************************************************************************)
(* The GUI's calls, the pipes and the listener, for any calls, polls and   *)
(* bounds: a call reads its own answer and cancels its own I/O, the        *)
(* listener does not wait on after stop, and no notification is given or   *)
(* shown twice.                                                            *)
(***************************************************************************)
EXTENDS Client, SequenceTheorems, FiniteSetTheorems, TLAPS

Owners == {"app", "poller"}
PipeState ==
  [near : {"free", "open", "closed"}, far : BOOLEAN, task : {"none", "reading", "handling", "writing"},
   serving : All \cup {None}, request : Seq(All), response : Seq(All)]

CallType ==
  /\ call \in [All -> {"new", "waiting", "cancelling"} \cup Ended]
  /\ worker \in [All -> {"none", "queued", "waiting", "connect", "write", "read"} \cup Gone]
  /\ thread \in [All -> All \cup {None}]
  /\ answer \in [All -> All \cup {None}]
  /\ lock \in [Owners -> All \cup {None}]
  /\ client \in [Owners -> Nat]
  /\ stray \subseteq All \X All
  /\ pipe \in Seq(PipeState)

ServerType ==
  /\ listener \in {"check", "created", "select", "ended"}
  /\ running \in BOOLEAN /\ woken \in BOOLEAN /\ missed \in BOOLEAN

(* The worker in the I/O of a client is the one that holds its lock, and the
   client is connected from its connect on. *)
Turns ==
  /\ \A r \in All : call[r] = "new" => worker[r] = "none"
  /\ \A r \in All : worker[r] \in InIO <=> lock[Owner(r)] = r
  /\ \A o \in Owners : lock[o] # None => Owner(lock[o]) = o
  /\ \A r \in All : worker[r] = "connect" => client[Owner(r)] = 0
  /\ \A r \in All : worker[r] \in {"write", "read"} => client[Owner(r)] # 0

(* A client is connected to an open pipe of its own. *)
Connected ==
  /\ \A o \in Owners : client[o] # 0 => client[o] \in Pipes /\ pipe[client[o]].near = "open"
  /\ client["app"] = client["poller"] => client["app"] = 0

(* The messages in a pipe p: one at most, and none before a client has come. *)
Carries(p, r) == r \in Range(p.request) \/ r \in Range(p.response) \/ p.serving = r
Empty(p) == p.request = <<>> /\ p.response = <<>> /\ p.serving = None

Sound(p) ==
  /\ Len(p.request) <= 1 /\ Len(p.response) <= 1
  /\ p.request # <<>> => p.response = <<>> /\ p.serving = None
  /\ p.response # <<>> => p.serving = None
  /\ p.task \in {"handling", "writing"} => p.serving # None
  /\ p.near = "free" => Empty(p)
Single == \A k \in Pipes : Sound(pipe[k])

(* What the pipe of a client carries is of the worker that reads from it. *)
Wire ==
  \A o \in Owners : client[o] # 0 =>
    \A r \in All : Carries(pipe[client[o]], r) => lock[o] = r /\ worker[r] = "read"

(* A request that is still to be handled. *)
Pending(p, r) == r \in Range(p.request) \/ (p.task = "handling" /\ p.serving = r)

(* The message of a call is written once, is in one pipe at most, and in none
   when the call has its answer. *)
Written == {"read"} \cup Gone
Tokens ==
  /\ \A k \in Pipes, r \in All : Carries(pipe[k], r) => worker[r] \in Written
  /\ \A j, k \in Pipes, r \in All : Carries(pipe[j], r) /\ Carries(pipe[k], r) => j = k
  /\ \A r \in All : answer[r] # None => worker[r] \in Gone /\ \A k \in Pipes : ~Carries(pipe[k], r)

(* A call takes from the queue once, when its request is handled. *)
Undrained ==
  /\ drained = [r \in All |-> drained[r]]
  /\ \A r \in All : worker[r] \notin Written => drained[r] = <<>>
  /\ \A k \in Pipes, r \in All : Pending(pipe[k], r) => drained[r] = <<>>

(* No two active workers run in one thread. *)
Threads ==
  /\ \A r \in All : thread[r] = None <=> worker[r] \in {"none", "queued"}
  /\ \A r \in All : thread[r] # None => thread[thread[r]] = thread[r]
  /\ \A v, w \in All : Active(v) /\ Active(w) /\ thread[v] = thread[w] => v = w

Strays == CancelIsOwn /\ \A c \in stray : thread[c[1]] # None

Waits ==
  /\ listener \in {"created", "select"} => pipe # <<>>
  /\ listener = "created" /\ ~running => missed
  /\ ListenerStops

ClientInv ==
  /\ CallType /\ ServerType
  /\ Turns /\ Connected /\ Single /\ Wire /\ OwnAnswer /\ Threads /\ Strays /\ Waits
  /\ Tokens /\ Undrained

(* Every notification waits, was pushed out or was drained, and only one of
   these; the queue is in order, and behind what was drained. *)
Increasing(s) == \A i, j \in DOMAIN s : i < j => s[i] < s[j]
Ids ==
  /\ made \in Nat /\ queue \in Seq(Nat) /\ Increasing(queue)
  /\ \A r \in All : drained[r] \in Seq(Nat) /\ Increasing(drained[r])
  /\ \A r \in Calls : drained[r] = <<>>
  /\ 1 .. made = Range(queue) \cup pushed \cup UNION {Range(drained[r]) : r \in Polls}
  /\ Range(queue) \cap pushed = {}
  /\ \A r \in Polls : Range(drained[r]) \cap pushed = {}
  /\ \A r \in Polls : \A d \in Range(drained[r]), q \in Range(queue) : d < q
  /\ \A p, r \in Polls : p # r => Range(drained[p]) \cap Range(drained[r]) = {}

(* Polls follow each other: what was shown is behind what the present poll
   brings and what waits. *)
Shown ==
  /\ shown \in Seq(Nat) /\ Increasing(shown) /\ Range(shown) \subseteq 1 .. made
  /\ \A s \in Range(shown), q \in Range(queue) : s < q
  /\ \A r \in Polls : call[r] = "waiting" => \A s \in Range(shown), d \in Range(drained[r]) : s < d
  /\ \A p, r \in Polls : call[p] \notin {"new"} \cup Ended /\ call[r] \notin {"new"} \cup Ended => p = r
  /\ \A r \in All : call[r] = "ok" => answer[r] # None
  /\ \A r \in Polls : call[r] = "ok" => Range(drained[r]) \subseteq Range(shown)
-----------------------------------------------------------------------------
(* What sequences of messages contain. *)
LEMMA EmptyRange == Range(<<>>) = {}
  BY DEF Range

LEMMA NoMessages == <<>> \in Seq(All)
  OBVIOUS

LEMMA RangeFacts ==
  ASSUME NEW S, NEW s \in Seq(S)
  PROVE  /\ Range(<<>>) = {}
         /\ \A e \in S : Range(Append(s, e)) = Range(s) \cup {e}
         /\ s # <<>> => /\ Range(Tail(s)) \subseteq Range(s)
                        /\ Head(s) \in Range(s)
<1>1. Range(<<>>) = {}
  BY DEF Range
<1>2. Len(s) \in Nat /\ DOMAIN s = 1 .. Len(s)
  OBVIOUS
<1>3. ASSUME NEW e \in S
      PROVE  Range(Append(s, e)) = Range(s) \cup {e}
  <2>1. DOMAIN Append(s, e) = 1 .. Len(s) + 1
    BY <1>2
  <2>2. Append(s, e)[Len(s) + 1] = e /\ \A i \in 1 .. Len(s) : Append(s, e)[i] = s[i]
    BY <1>2
  <2>3. \A i \in 1 .. Len(s) + 1 : i \in 1 .. Len(s) \/ i = Len(s) + 1
    BY <1>2
  <2> QED
    BY <1>2, <2>1, <2>2, <2>3 DEF Range
<1>4. ASSUME s # <<>>
      PROVE  Range(Tail(s)) \subseteq Range(s) /\ Head(s) \in Range(s)
  <2>1. /\ Tail(s) \in Seq(S) /\ Len(Tail(s)) = Len(s) - 1
        /\ \A i \in 1 .. Len(Tail(s)) : Tail(s)[i] = s[i + 1]
    BY <1>4, HeadTailProperties
  <2>2. \A i \in DOMAIN Tail(s) : i + 1 \in DOMAIN s /\ Tail(s)[i] = s[i + 1]
    BY <1>2, <2>1
  <2>3. 1 \in DOMAIN s /\ Head(s) = s[1]
    BY <1>2, <1>4
  <2> QED
    BY <2>2, <2>3 DEF Range
<1> QED
  BY <1>1, <1>3, <1>4

(* The step gives pipe k the state v and leaves the others alone. *)
Becomes(k, v) == k \in Pipes /\ v \in PipeState /\ pipe' = [pipe EXCEPT ![k] = v]

LEMMA BecomesFacts ==
  ASSUME pipe \in Seq(PipeState), NEW k, NEW v, Becomes(k, v)
  PROVE  /\ pipe' \in Seq(PipeState) /\ Len(pipe') = Len(pipe) /\ Pipes' = Pipes
         /\ pipe'[k] = v /\ \A j \in Pipes \ {k} : pipe'[j] = pipe[j]
<1>1. k \in 1 .. Len(pipe) /\ v \in PipeState /\ pipe' = [pipe EXCEPT ![k] = v]
  BY DEF Becomes, Pipes
<1>2. pipe' \in Seq(PipeState) /\ Len(pipe') = Len(pipe)
  BY <1>1, ExceptSeq
<1> QED
  BY <1>1, <1>2 DEF Pipes

(* A handler or the listener may empty a pipe, close its far end and move a
   message on, not add one. *)
Shrinks(p, v) ==
  /\ Sound(v) /\ v.near = p.near
  /\ \A r \in All : Carries(v, r) => Carries(p, r)
  /\ \A r \in All : Pending(v, r) => Pending(p, r)

(* A pipe whose requests and, perhaps, served message are given up. *)
LEMMA Emptied ==
  ASSUME NEW p \in PipeState, NEW v \in PipeState, Sound(p),
         v.near = p.near, v.request = <<>>, v.response = p.response,
         v.serving \in {None, p.serving}, v.task \in {"none", "reading", p.task},
         v.task \in {"none", "reading"} \/ v.serving = p.serving
  PROVE  Shrinks(p, v)
<1>1. \A r \in All : Carries(v, r) => Carries(p, r)
  BY EmptyRange, ClientAssumption DEF Carries, All
<1>2. Len(<<>>) = 0
  OBVIOUS
<1>3. Sound(v)
  BY <1>2 DEF Sound, Empty
<1>4. \A r \in All : Pending(v, r) => Pending(p, r)
  BY EmptyRange DEF Pending
<1> QED
  BY <1>1, <1>3, <1>4 DEF Shrinks

(* Steps that put no message into a pipe, and drain nothing. *)
LEMMA TokensKeep ==
  ASSUME ClientInv, UNCHANGED answer,
         \A k \in Pipes', r \in All : Carries(pipe'[k], r) => k \in Pipes /\ Carries(pipe[k], r),
         \A r \in All : worker[r] \in Written => worker'[r] \in Written,
         \A r \in All : worker[r] \in Gone => worker'[r] \in Gone
  PROVE  Tokens'
BY DEF ClientInv, Tokens

LEMMA UndrainedKeep ==
  ASSUME ClientInv, UNCHANGED drained,
         \A k \in Pipes', r \in All : Pending(pipe'[k], r) => k \in Pipes /\ Pending(pipe[k], r),
         \A r \in All : worker[r] \in Written => worker'[r] \in Written
  PROVE  Undrained'
BY DEF ClientInv, Undrained

(* Such a step of the service leaves the clients' invariants alone. *)
LEMMA ServiceKeeps ==
  ASSUME ClientInv, UNCHANGED gui, pipe' \in Seq(PipeState), Pipes \subseteq Pipes',
         \A k \in Pipes : Shrinks(pipe[k], pipe'[k]),
         \A k \in Pipes' \ Pipes : Sound(pipe'[k]) /\ Empty(pipe'[k])
  PROVE  /\ CallType' /\ Turns' /\ Connected' /\ Single' /\ Wire' /\ OwnAnswer' /\ Threads' /\ Strays' /\ Tokens'
         /\ UNCHANGED drained => Undrained'
<1>1. CallType'
  BY DEF ClientInv, CallType, gui
<1>2. Turns' /\ OwnAnswer' /\ Threads' /\ Strays'
  BY DEF ClientInv, gui, Turns, OwnAnswer, Threads, Active, Strays, CancelIsOwn
<1>3. Connected'
  BY DEF ClientInv, gui, Connected, Shrinks
<1>4. Single'
  <2> SUFFICES ASSUME NEW k \in Pipes'
               PROVE  Sound(pipe'[k])
    BY DEF Single
  <2>1. CASE k \in Pipes
    BY <2>1 DEF Shrinks
  <2> QED
    BY <2>1
<1>5. Wire'
  <2> SUFFICES ASSUME NEW o \in Owners, client[o] # 0, NEW r \in All, Carries(pipe'[client[o]], r)
               PROVE  lock[o] = r /\ worker[r] = "read"
    BY DEF Wire, gui
  <2>1. client[o] \in Pipes
    BY DEF ClientInv, Connected
  <2> QED
    BY <2>1 DEF ClientInv, Wire, Shrinks
<1>6. \A k \in Pipes', r \in All : /\ Carries(pipe'[k], r) => k \in Pipes /\ Carries(pipe[k], r)
                                   /\ Pending(pipe'[k], r) => k \in Pipes /\ Pending(pipe[k], r)
  <2> SUFFICES ASSUME NEW k \in Pipes', NEW r \in All
               PROVE  /\ Carries(pipe'[k], r) => k \in Pipes /\ Carries(pipe[k], r)
                      /\ Pending(pipe'[k], r) => k \in Pipes /\ Pending(pipe[k], r)
    OBVIOUS
  <2>1. CASE k \in Pipes
    BY <2>1 DEF Shrinks
  <2>2. CASE k \notin Pipes
    BY <2>2, EmptyRange, ClientAssumption DEF Empty, Carries, Pending, All
  <2> QED
    BY <2>1, <2>2
<1>7. worker' = worker /\ answer' = answer
  BY DEF gui
<1>8. Tokens'
  BY <1>6, <1>7, TokensKeep
<1>9. UNCHANGED drained => Undrained'
  BY <1>6, <1>7, UndrainedKeep
<1> QED
  BY <1>1, <1>2, <1>3, <1>4, <1>5, <1>8, <1>9

LEMMA OnePipeShrinks ==
  ASSUME ClientInv, UNCHANGED gui, NEW k, NEW v, Becomes(k, v), Shrinks(pipe[k], v)
  PROVE  /\ CallType' /\ Turns' /\ Connected' /\ Single' /\ Wire' /\ OwnAnswer' /\ Threads' /\ Strays' /\ Tokens'
         /\ UNCHANGED drained => Undrained'
<1>1. pipe \in Seq(PipeState)
  BY DEF ClientInv, CallType
<1>2. /\ pipe' \in Seq(PipeState) /\ Pipes' = Pipes
      /\ pipe'[k] = v /\ \A j \in Pipes \ {k} : pipe'[j] = pipe[j]
  BY <1>1, BecomesFacts
<1>3. \A j \in Pipes : Shrinks(pipe[j], pipe[j])
  BY DEF Shrinks, ClientInv, Single
<1>4. \A j \in Pipes : Shrinks(pipe[j], pipe'[j])
  BY <1>2, <1>3
<1> QED
  BY <1>2, <1>4, ServiceKeeps

Clients == CallType /\ Turns /\ Connected /\ Single /\ Wire /\ OwnAnswer /\ Threads /\ Strays
           /\ Tokens /\ Undrained

(* The listener's steps. *)
LEMMA ListenerKeeps ==
  ASSUME ClientInv, LoopEnds \/ create_named_pipe \/ AwaitClient \/ Accept \/ Shutdown \/ stop \/ Exit
  PROVE  ClientInv'
<1> DEFINE n == Len(pipe)
<1>1. /\ pipe \in Seq(PipeState) /\ n \in Nat /\ DOMAIN pipe = 1 .. n /\ Pipes = 1 .. n
      /\ \A k \in Pipes : pipe[k] \in PipeState /\ Sound(pipe[k])
  <2>1. pipe \in Seq(PipeState)
    BY DEF ClientInv, CallType
  <2>2. \A k \in Pipes : pipe[k] \in PipeState
    BY <2>1 DEF Pipes
  <2> QED
    BY <2>1, <2>2 DEF Pipes, ClientInv, Single
<1>2. UNCHANGED <<gui, drained>>
  BY DEF LoopEnds, create_named_pipe, AwaitClient, Accept, Shutdown, stop, Exit, ListenerStep
<1>3. CASE LoopEnds \/ AwaitClient \/ stop
  <2>1. UNCHANGED <<gui, pipe, drained>> /\ ServerType'
    BY <1>3 DEF LoopEnds, AwaitClient, stop, ListenerStep, ClientInv, ServerType
  <2>2. \A k \in Pipes : Shrinks(pipe[k], pipe'[k])
    BY <1>1, <2>1 DEF Shrinks, Sound
  <2>3. Clients'
    BY <1>1, <2>1, <2>2, ServiceKeeps DEF Pipes, Clients
  <2>4. Waits'
    BY <1>3 DEF LoopEnds, AwaitClient, stop, ListenerStep, ClientInv, Waits, ListenerStops, ServerType
  <2> QED
    BY <2>1, <2>3, <2>4 DEF ClientInv, Clients
<1>4. CASE create_named_pipe
  <2> DEFINE v == [near |-> "free", far |-> TRUE, task |-> "none", serving |-> None,
                   request |-> <<>>, response |-> <<>>]
  <2>1. pipe' = Append(pipe, v) /\ v \in PipeState /\ Sound(v) /\ Empty(v)
    <3>1. v \in PipeState
      BY DEF PipeState
    <3>2. Len(<<>>) = 0
      OBVIOUS
    <3> QED
      BY <1>4, <3>1, <3>2 DEF create_named_pipe, Sound, Empty
  <2>2. /\ pipe' \in Seq(PipeState) /\ Len(pipe') = n + 1 /\ Pipes' = 1 .. n + 1
        /\ pipe'[n + 1] = v /\ \A k \in Pipes : pipe'[k] = pipe[k]
    BY <1>1, <2>1 DEF Pipes
  <2> HIDE DEF v
  <2>3. Pipes \subseteq Pipes' /\ \A k \in Pipes' \ Pipes : Sound(pipe'[k]) /\ Empty(pipe'[k])
    BY <1>1, <2>1, <2>2
  <2>4. \A k \in Pipes : Shrinks(pipe[k], pipe'[k])
    BY <1>1, <2>2 DEF Shrinks, Sound
  <2>5. Clients'
    BY <1>2, <2>2, <2>3, <2>4, ServiceKeeps DEF Clients
  <2>6. ServerType' /\ Waits'
    BY <1>1, <1>4, <2>2 DEF create_named_pipe, ListenerStep, ClientInv, ServerType, Waits, ListenerStops
  <2> QED
    BY <2>5, <2>6 DEF ClientInv, Clients
<1>5. CASE Accept \/ Shutdown
  <2>1. n \in Pipes
    BY <1>1, <1>5 DEF Accept, Shutdown, ClientInv, Waits
  <2>2. PICK v : Becomes(n, v) /\ Shrinks(pipe[n], v)
    <3>1. pipe[n] \in PipeState /\ Sound(pipe[n])
      BY <1>1, <2>1
    <3>2. CASE pipe' = [pipe EXCEPT ![n].task = "reading"]
      <4> DEFINE v == [pipe[n] EXCEPT !.task = "reading"]
      <4>1. v \in PipeState /\ Becomes(n, v)
        BY <2>1, <3>1, <3>2 DEF Becomes, PipeState
      <4>2. Shrinks(pipe[n], v)
        BY <3>1 DEF Shrinks, Sound, Empty, Carries, Pending, PipeState
      <4> QED
        BY <4>1, <4>2
    <3>3. CASE pipe' = [pipe EXCEPT ![n].far = FALSE, ![n].request = <<>>]
      <4> DEFINE p == pipe[n]
                 v == [p EXCEPT !.far = FALSE, !.request = <<>>]
      <4>1. /\ v \in PipeState
            /\ v.near = p.near /\ v.request = <<>> /\ v.response = p.response
            /\ v.serving = p.serving /\ v.task = p.task
        BY <3>1, NoMessages DEF PipeState
      <4>2. Shrinks(p, v)
        <5> HIDE DEF v
        <5> QED
          BY <3>1, <4>1, Emptied
      <4>3. pipe' = [pipe EXCEPT ![n] = v]
        BY <1>1, <2>1, <3>3
      <4> QED
        BY <2>1, <4>1, <4>2, <4>3 DEF Becomes
    <3> QED
      BY <1>5, <3>2, <3>3 DEF Accept, Shutdown
  <2>3. Clients'
    BY <1>2, <2>2, OnePipeShrinks DEF Clients
  <2>4. listener' \in {"check", "ended"} /\ running' = running /\ missed' = missed /\ woken' = FALSE
    BY <1>5 DEF Accept, Shutdown, ListenerStep
  <2>5. ServerType' /\ Waits'
    BY <2>4 DEF ClientInv, ServerType, Waits, ListenerStops
  <2> QED
    BY <2>3, <2>5 DEF ClientInv, Clients
<1>6. CASE Exit
  <2> DEFINE v(k) == [pipe[k] EXCEPT !.far = FALSE, !.task = "none", !.serving = None, !.request = <<>>]
  <2>1. pipe' = [k \in 1 .. n |-> v(k)]
    BY <1>1, <1>6 DEF Exit
  <2>2. ASSUME NEW k \in Pipes
        PROVE  v(k) \in PipeState /\ Shrinks(pipe[k], v(k))
    <3>1. pipe[k] \in PipeState /\ Sound(pipe[k])
      BY <1>1
    <3>2. /\ v(k) \in PipeState
          /\ v(k).near = pipe[k].near /\ v(k).request = <<>> /\ v(k).response = pipe[k].response
          /\ v(k).serving = None /\ v(k).task = "none"
      BY <3>1, NoMessages DEF PipeState
    <3> HIDE DEF v
    <3> QED
      BY <3>1, <3>2, Emptied
  <2> HIDE DEF v
  <2>3. /\ pipe' \in Seq(PipeState) /\ Pipes' = Pipes
        /\ \A k \in Pipes : pipe'[k] = v(k)
    BY <1>1, <2>1, <2>2 DEF Pipes
  <2>4. Clients'
    BY <1>2, <2>2, <2>3, ServiceKeeps DEF Clients
  <2>5. ServerType' /\ Waits'
    BY <1>6 DEF Exit, ClientInv, ServerType, Waits, ListenerStops
  <2> QED
    BY <2>4, <2>5 DEF ClientInv, Clients
<1> QED
  BY <1>3, <1>4, <1>5, <1>6

(* A pipe that is given back by Head and Tail: a message moved on. *)
LEMMA OneMessage ==
  ASSUME NEW s \in Seq(All), s # <<>>, Len(s) <= 1
  PROVE  Head(s) \in All /\ Tail(s) = <<>> /\ Range(s) = {Head(s)}
<1>1. Len(s) = 1 /\ DOMAIN s = {1} /\ Head(s) = s[1] /\ s[1] \in All
  <2>1. Len(s) \in Nat \ {0} /\ DOMAIN s = 1 .. Len(s)
    BY EmptySeq
  <2>2. Len(s) = 1
    BY <2>1
  <2> QED
    BY <2>1, <2>2
<1>2. Tail(s) \in Seq(All) /\ Len(Tail(s)) = 0
  BY <1>1, HeadTailProperties
<1>3. Tail(s) = <<>>
  BY <1>2
<1> QED
  BY <1>1, <1>3 DEF Range

(* A handler's steps. *)
LEMMA HandlerKeeps ==
  ASSUME ClientInv, NEW k \in Pipes,
         ReadRequest(k) \/ handle_request(k) \/ WriteResponse(k) \/ CloseConnection(k)
  PROVE  ClientInv'
<1> DEFINE p == pipe[k]
<1>1. /\ pipe \in Seq(PipeState) /\ Len(pipe) \in Nat /\ DOMAIN pipe = 1 .. Len(pipe) /\ Pipes = 1 .. Len(pipe)
      /\ p \in PipeState /\ Sound(p)
  BY DEF ClientInv, CallType, Pipes, Single
<1>2. UNCHANGED <<gui, server>>
  BY DEF ReadRequest, handle_request, WriteResponse, CloseConnection, HandlerStep
<1>3. PICK v : Becomes(k, v) /\ Shrinks(p, v)
  <2>1. CASE ReadRequest(k)
    <3> DEFINE v == [p EXCEPT !.task = "handling", !.serving = Head(p.request), !.request = Tail(p.request)]
    <3>1. pipe' = [pipe EXCEPT ![k] = v]
      BY <1>1, <2>1 DEF ReadRequest
    <3>2. p.request \in Seq(All) /\ p.request # <<>> /\ Len(p.request) <= 1
      BY <1>1, <2>1 DEF ReadRequest, Sound, PipeState
    <3>3. Head(p.request) \in All /\ Tail(p.request) = <<>> /\ Range(p.request) = {Head(p.request)}
      BY <3>2, OneMessage
    <3>4. /\ v \in PipeState /\ v.near = p.near /\ v.task = "handling"
          /\ v.serving = Head(p.request) /\ v.request = <<>> /\ v.response = p.response
      BY <1>1, <3>3, NoMessages DEF PipeState
    <3> HIDE DEF v
    <3>5. Sound(v)
      <4>1. v.response = <<>> /\ v.serving # None /\ p.near # "free" /\ Len(<<>>) = 0
        BY <1>1, <3>2, <3>3, <3>4, ClientAssumption DEF Sound, Empty, All
      <4> QED
        BY <3>4, <4>1 DEF Sound
    <3>6. \A r \in All : (Carries(v, r) => Carries(p, r)) /\ (Pending(v, r) => Pending(p, r))
      BY <3>3, <3>4, EmptyRange DEF Carries, Pending
    <3> QED
      BY <1>1, <3>1, <3>4, <3>5, <3>6 DEF Becomes, Shrinks
  <2>2. CASE handle_request(k)
    <3> DEFINE v == [p EXCEPT !.task = "writing"]
    <3>1. pipe' = [pipe EXCEPT ![k] = v] /\ p.task = "handling"
      BY <1>1, <2>2 DEF handle_request
    <3>2. /\ v \in PipeState /\ v.near = p.near /\ v.task = "writing"
          /\ v.serving = p.serving /\ v.request = p.request /\ v.response = p.response
      BY <1>1 DEF PipeState
    <3> HIDE DEF v
    <3>3. Shrinks(p, v)
      BY <1>1, <3>1, <3>2 DEF Sound, Empty, Carries, Pending, Shrinks
    <3> QED
      BY <1>1, <3>1, <3>2, <3>3 DEF Becomes
  <2>3. CASE WriteResponse(k) /\ p.near = "open"
    <3> DEFINE v == [p EXCEPT !.response = Append(p.response, p.serving), !.serving = None, !.task = "reading"]
    <3>1. pipe' = [pipe EXCEPT ![k] = v] /\ p.task = "writing"
      BY <1>1, <2>3 DEF WriteResponse
    <3>2. p.serving \in All /\ p.request = <<>> /\ p.response = <<>>
      BY <1>1, <3>1 DEF Sound, PipeState
    <3>3. /\ Append(p.response, p.serving) \in Seq(All) /\ Len(Append(p.response, p.serving)) = 1
          /\ Range(Append(p.response, p.serving)) = {p.serving}
      <4>1. p.response \in Seq(All) /\ Len(p.response) = 0 /\ Range(p.response) = {}
        BY <3>2, NoMessages, EmptyRange
      <4>2. Range(Append(p.response, p.serving)) = Range(p.response) \cup {p.serving}
        BY <3>2, <4>1, RangeFacts
      <4> QED
        BY <3>2, <4>1, <4>2
    <3>4. /\ v \in PipeState /\ v.near = "open" /\ v.task = "reading"
          /\ v.serving = None /\ v.request = <<>> /\ v.response = Append(p.response, p.serving)
      BY <1>1, <2>3, <3>2, <3>3 DEF PipeState
    <3> HIDE DEF v
    <3>5. Sound(v)
      <4>1. Len(<<>>) = 0
        OBVIOUS
      <4> QED
        BY <3>3, <3>4, <4>1 DEF Sound
    <3>6. \A r \in All : (Carries(v, r) => Carries(p, r)) /\ (Pending(v, r) => Pending(p, r))
      BY <3>3, <3>4, EmptyRange, ClientAssumption DEF Carries, Pending, All
    <3> QED
      BY <1>1, <2>3, <3>1, <3>4, <3>5, <3>6 DEF Becomes, Shrinks
  <2>4. CASE WriteResponse(k) /\ p.near # "open"
    <3> DEFINE v == [p EXCEPT !.task = "none", !.serving = None, !.far = FALSE, !.request = <<>>]
    <3>1. pipe' = [pipe EXCEPT ![k] = v]
      BY <1>1, <2>4 DEF WriteResponse
    <3>2. /\ v \in PipeState /\ v.near = p.near /\ v.task = "none"
          /\ v.serving = None /\ v.request = <<>> /\ v.response = p.response
      BY <1>1, NoMessages DEF PipeState
    <3> HIDE DEF v
    <3>3. Shrinks(p, v)
      BY <1>1, <3>2, Emptied
    <3> QED
      BY <1>1, <3>1, <3>2, <3>3 DEF Becomes
  <2>5. CASE CloseConnection(k)
    <3> DEFINE v == [p EXCEPT !.task = "none", !.far = FALSE, !.request = <<>>]
    <3>1. pipe' = [pipe EXCEPT ![k] = v]
      BY <1>1, <2>5 DEF CloseConnection
    <3>2. /\ v \in PipeState /\ v.near = p.near /\ v.task = "none"
          /\ v.serving = p.serving /\ v.request = <<>> /\ v.response = p.response
      BY <1>1, NoMessages DEF PipeState
    <3> HIDE DEF v
    <3>3. Shrinks(p, v)
      BY <1>1, <3>2, Emptied
    <3> QED
      BY <1>1, <3>1, <3>2, <3>3 DEF Becomes
  <2> QED
    BY <2>1, <2>2, <2>3, <2>4, <2>5
<1>4. Undrained'
  <2>1. CASE UNCHANGED drained
    BY <1>2, <1>3, <2>1, OnePipeShrinks
  <2>2. CASE handle_request(k)
    <3> DEFINE r == p.serving
    <3>1. p.task = "handling" /\ r \in All /\ p.request = <<>> /\ Carries(p, r)
      BY <1>1, <2>2 DEF handle_request, Sound, PipeState, Carries
    <3>2. /\ drained' = [drained EXCEPT ![r] = Taken(r)] /\ pipe' = [pipe EXCEPT ![k].task = "writing"]
          /\ worker' = worker
      BY <1>2, <2>2 DEF handle_request, gui
    <3>4. Pipes' = Pipes /\ \A j \in Pipes, x \in All : Pending(pipe'[j], x) => Pending(pipe[j], x) /\ x # r
      <4>1. Pipes' = Pipes /\ \A j \in Pipes \ {k} : pipe'[j] = pipe[j]
        BY <1>1, <1>3, BecomesFacts
      <4>2. pipe'[k].task = "writing" /\ pipe'[k].request = <<>>
        BY <1>1, <3>1, <3>2 DEF PipeState
      <4>3. \A x \in All : ~Pending(pipe'[k], x)
        BY <4>2, EmptyRange DEF Pending
      <4>4. \A j \in Pipes \ {k} : ~Carries(pipe[j], r)
        BY <3>1 DEF ClientInv, Tokens
      <4>5. \A j \in Pipes : ~(j # k /\ Pending(pipe[j], r))
        BY <4>4 DEF Pending, Carries
      <4> QED
        BY <4>1, <4>3, <4>5
    <3>5. drained' = [x \in All |-> drained'[x]] /\ \A x \in All : x # r => drained'[x] = drained[x]
      BY <3>1, <3>2 DEF ClientInv, Undrained
    <3>6. worker[r] \in Written
      BY <3>1 DEF ClientInv, Tokens
    <3> QED
      BY <3>2, <3>4, <3>5, <3>6 DEF ClientInv, Undrained
  <2> QED
    BY <2>1, <2>2 DEF ReadRequest, WriteResponse, CloseConnection
<1>5. Clients'
  BY <1>2, <1>3, <1>4, OnePipeShrinks DEF Clients
<1>6. /\ Pipes' = Pipes /\ Len(pipe') = Len(pipe)
      /\ pipe'[k].near = pipe[k].near /\ \A j \in Pipes \ {k} : pipe'[j] = pipe[j]
  BY <1>1, <1>3, BecomesFacts DEF Shrinks
<1>7. ServerType' /\ Waits'
  <2>1. pipe # <<>> => Len(pipe) \in Pipes /\ pipe' # <<>>
    BY <1>1, <1>6
  <2>2. pipe # <<>> => pipe'[Len(pipe')].near = pipe[Len(pipe)].near
    BY <1>6, <2>1
  <2> QED
    BY <1>2, <2>1, <2>2 DEF ClientInv, ServerType, Waits, ListenerStops, server
<1> QED
  BY <1>5, <1>7 DEF ClientInv, Clients
-----------------------------------------------------------------------------
(* The steps of the GUI. *)
LEMMA OwnerType ==
  ASSUME NEW r
  PROVE  Owner(r) \in Owners
BY DEF Owner, Owners

(* The pipes after a step of the GUI: the listener waits on as before. *)
LEMMA WaitsOn ==
  ASSUME ClientInv, UNCHANGED server, pipe' \in Seq(PipeState), Len(pipe') = Len(pipe),
         \A k \in Pipes : pipe'[k].near = "free" => pipe[k].near = "free"
  PROVE  ServerType' /\ Waits'
<1>1. Len(pipe) \in Nat /\ pipe \in Seq(PipeState) /\ Pipes = 1 .. Len(pipe)
  BY DEF ClientInv, CallType, Pipes
<1>2. pipe # <<>> => Len(pipe) \in Pipes /\ pipe' # <<>>
  BY <1>1
<1> QED
  BY <1>2 DEF ClientInv, ServerType, Waits, ListenerStops, server

(* A worker in the I/O of its client gives up, by itself or cancelled. *)
LEMMA FailKeeps ==
  ASSUME ClientInv, NEW w \in All, worker[w] \in InIO, NEW how \in Gone, Fail(w, how),
         UNCHANGED <<thread, answer, server, drained>>,
         call' \in [All -> {"new", "waiting", "cancelling"} \cup Ended],
         \A r \in All : call'[r] = "new" => call[r] = "new",
         stray' \subseteq All \X All,
         \A c \in stray' \ stray : worker'[c[1]] \in Gone /\ thread[c[1]] = thread[c[2]] /\ thread[c[1]] # None
  PROVE  ClientInv'
<1> DEFINE o == Owner(w)
           k == client[o]
<1>1. /\ pipe \in Seq(PipeState) /\ Len(pipe) \in Nat /\ Pipes = 1 .. Len(pipe)
      /\ \A j \in Pipes : pipe[j] \in PipeState /\ Sound(pipe[j])
  BY DEF ClientInv, CallType, Pipes, Single
<1>2. o \in Owners /\ lock[o] = w
  BY OwnerType DEF ClientInv, Turns
<1>3. /\ lock' = [lock EXCEPT ![o] = None] /\ worker' = [worker EXCEPT ![w] = how]
      /\ client' = [client EXCEPT ![o] = 0]
  BY DEF Fail, Leave, To
<1> DEFINE v(j) == IF j = k THEN [pipe[j] EXCEPT !.near = "closed", !.response = <<>>] ELSE pipe[j]
<1>4. pipe' = [j \in 1 .. Len(pipe) |-> v(j)]
  BY <1>1 DEF Fail
<1>5. ASSUME NEW j \in Pipes
      PROVE  /\ v(j) \in PipeState
             /\ Sound(v(j))
             /\ j # k => v(j) = pipe[j]
             /\ v(j).near = "free" => pipe[j].near = "free"
             /\ \A r \in All : Carries(v(j), r) => Carries(pipe[j], r)
             /\ \A r \in All : Pending(v(j), r) => Pending(pipe[j], r)
  <2>1. pipe[j] \in PipeState /\ Sound(pipe[j])
    BY <1>1
  <2>2. CASE j # k
    BY <2>1, <2>2
  <2>3. CASE j = k
    <3>1. /\ v(j) \in PipeState /\ v(j).near = "closed" /\ v(j).response = <<>> /\ v(j).request = pipe[j].request
          /\ v(j).serving = pipe[j].serving /\ v(j).task = pipe[j].task
      BY <2>1, <2>3, NoMessages DEF PipeState
    <3>2. Len(<<>>) = 0
      OBVIOUS
    <3> HIDE DEF v
    <3>3. Sound(v(j))
      BY <2>1, <3>1, <3>2 DEF Sound
    <3>4. \A r \in All : (Carries(v(j), r) => Carries(pipe[j], r)) /\ (Pending(v(j), r) => Pending(pipe[j], r))
      BY <3>1, EmptyRange DEF Carries, Pending
    <3> QED
      BY <2>3, <3>1, <3>3, <3>4
  <2> QED
    BY <2>2, <2>3
<1> HIDE DEF v
<1>6. /\ pipe' \in Seq(PipeState) /\ Len(pipe') = Len(pipe) /\ Pipes' = Pipes
      /\ \A j \in Pipes : pipe'[j] = v(j)
  <2>1. \A j \in 1 .. Len(pipe) : v(j) \in PipeState
    BY <1>1, <1>5
  <2>2. pipe' \in Seq(PipeState) /\ Len(pipe') = Len(pipe)
    BY <1>1, <1>4, <2>1
  <2> QED
    BY <1>1, <1>4, <2>2 DEF Pipes
<1>7. CallType'
  BY <1>2, <1>3, <1>6 DEF ClientInv, CallType
<1>8. Turns'
  <2>1. /\ \A r \in All : worker'[r] = IF r = w THEN how ELSE worker[r]
        /\ \A q \in Owners : lock'[q] = IF q = o THEN None ELSE lock[q]
        /\ \A q \in Owners : client'[q] = IF q = o THEN 0 ELSE client[q]
    BY <1>2, <1>3 DEF ClientInv, CallType
  <2>2. how \notin InIO /\ how # "none" /\ how \notin {"write", "read", "connect"} /\ w # None
    BY ClientAssumption DEF InIO, Gone, All
  <2>3. call[w] # "new"
    BY DEF ClientInv, Turns, InIO
  <2>4. \A r \in All : call'[r] = "new" => worker'[r] = "none"
    BY <2>1, <2>3 DEF ClientInv, Turns
  <2>5. ASSUME NEW r \in All
        PROVE  /\ worker'[r] \in InIO <=> lock'[Owner(r)] = r
               /\ worker'[r] = "connect" => client'[Owner(r)] = 0
               /\ worker'[r] \in {"write", "read"} => client'[Owner(r)] # 0
    <3>1. Owner(r) \in Owners /\ r # None /\ (worker[r] \in InIO <=> lock[Owner(r)] = r)
      BY OwnerType, ClientAssumption DEF ClientInv, Turns, All
    <3>2. CASE r = w
      BY <1>2, <2>1, <2>2, <3>2
    <3>3. CASE r # w /\ Owner(r) = o
      <4>1. worker[r] \notin InIO
        BY <1>2, <3>1, <3>3
      <4> QED
        BY <2>1, <3>1, <3>3, <4>1 DEF InIO
    <3>4. CASE r # w /\ Owner(r) # o
      BY <2>1, <3>1, <3>4 DEF ClientInv, Turns
    <3> QED
      BY <3>2, <3>3, <3>4
  <2>6. \A q \in Owners : lock'[q] # None => Owner(lock'[q]) = q
    BY <2>1 DEF ClientInv, Turns
  <2> QED
    BY <2>4, <2>5, <2>6 DEF Turns
<1>9. \A q \in Owners : client'[q] # 0 => q # o /\ client'[q] = client[q] /\ client[q] \in Pipes /\ client[q] # k
  BY <1>2, <1>3 DEF ClientInv, CallType, Connected, Owners
<1>10. Connected'
  <2>1. \A q \in Owners : client'[q] # 0 => client'[q] \in Pipes' /\ pipe'[client'[q]].near = "open"
    BY <1>5, <1>6, <1>9 DEF ClientInv, Connected
  <2>2. client'["app"] = client'["poller"] => client'["app"] = 0
    BY <1>9 DEF ClientInv, Connected, Owners
  <2> QED
    BY <2>1, <2>2 DEF Connected
<1>11. Single'
  BY <1>5, <1>6 DEF Single
<1>12. Wire'
  <2> SUFFICES ASSUME NEW q \in Owners, client'[q] # 0, NEW r \in All, Carries(pipe'[client'[q]], r)
               PROVE  lock'[q] = r /\ worker'[r] = "read"
    BY DEF Wire
  <2>1. q # o /\ client'[q] = client[q] /\ client[q] # 0 /\ pipe'[client[q]] = pipe[client[q]]
    BY <1>5, <1>6, <1>9
  <2>2. lock[q] = r /\ worker[r] = "read"
    BY <2>1 DEF ClientInv, Wire
  <2>3. r # w
    BY <1>2, <2>1, <2>2, ClientAssumption DEF ClientInv, Turns, All
  <2> QED
    BY <1>2, <1>3, <2>1, <2>2, <2>3 DEF ClientInv, CallType
<1>13. OwnAnswer'
  BY DEF ClientInv, OwnAnswer
<1>14. \A r \in All : worker'[r] = (IF r = w THEN how ELSE worker[r])
  BY <1>3 DEF ClientInv, CallType
<1>15. Threads'
  <2>1. how \in Gone /\ worker[w] \notin {"none", "queued"}
    BY DEF InIO
  <2>2. \A r \in All : worker'[r] \in {"none", "queued"} <=> worker[r] \in {"none", "queued"}
    BY <1>14, <2>1 DEF Gone
  <2>3. \A r \in All : Active(r)' => Active(r)
    BY <1>14, <2>1 DEF Active
  <2> QED
    BY <2>2, <2>3 DEF ClientInv, Threads
<1>16. Strays'
  <2> SUFFICES ASSUME NEW c \in stray'
               PROVE  worker'[c[1]] \in Gone /\ thread'[c[1]] = thread'[c[2]] /\ thread'[c[1]] # None
    BY DEF Strays, CancelIsOwn
  <2>1. CASE c \in stray
    BY <1>14, <2>1 DEF ClientInv, CallType, Strays, CancelIsOwn
  <2> QED
    BY <2>1
<1>17. ServerType' /\ Waits'
  BY <1>5, <1>6, WaitsOn
<1>18. Tokens' /\ Undrained'
  <2>1. \A r \in All : /\ worker[r] \in Written => worker'[r] \in Written
                       /\ worker[r] \in Gone => worker'[r] \in Gone
    BY <1>14 DEF Written
  <2> QED
    BY <1>5, <1>6, <2>1, TokensKeep, UndrainedKeep
<1> QED
  BY <1>7, <1>8, <1>10, <1>11, <1>12, <1>13, <1>15, <1>16, <1>17, <1>18 DEF ClientInv

(* A step that changes only where calls stand. *)
LEMMA CallOnly ==
  ASSUME ClientInv, UNCHANGED <<lock, client, worker, stray, pipe, thread, answer, server, drained>>,
         call' \in [All -> {"new", "waiting", "cancelling"} \cup Ended],
         \A q \in All : call'[q] = "new" => call[q] = "new"
  PROVE  ClientInv'
<1>1. CallType' /\ Turns'
  BY DEF ClientInv, CallType, Turns
<1>2. Connected' /\ Single' /\ Wire' /\ OwnAnswer'
  BY DEF ClientInv, Connected, Single, Wire, OwnAnswer, Pipes
<1>3. Threads' /\ Strays'
  BY DEF ClientInv, Threads, Active, Strays, CancelIsOwn
<1>4. ServerType' /\ Waits'
  BY DEF ClientInv, ServerType, Waits, ListenerStops, server
<1>5. Tokens' /\ Undrained'
  BY DEF ClientInv, Tokens, Undrained, Pipes
<1> QED
  BY <1>1, <1>2, <1>3, <1>4, <1>5 DEF ClientInv

(* A cancellation reaches the caller's own worker, or one that the pool has
   since given the thread of the caller's worker, which has ended. *)
LEMMA CancelKeeps ==
  ASSUME ClientInv, NEW r \in All, CancelThread(r, thread[r]),
         UNCHANGED <<thread, answer, shown, server, drained>>,
         call' \in [All -> {"new", "waiting", "cancelling"} \cup Ended],
         \A q \in All : call'[q] = "new" => call[q] = "new"
  PROVE  ClientInv'
<1>1. CASE NoCancel
  BY <1>1, CallOnly DEF NoCancel
<1>2. ASSUME NEW w \in All, thread[w] = thread[r], worker[w] \in InIO,
             Fail(w, IF worker[w] = "connect" THEN "left" ELSE "done"),
             stray' = stray \cup ({<<r, w>>} \ {<<r, r>>})
      PROVE  ClientInv'
  <2> DEFINE how == IF worker[w] = "connect" THEN "left" ELSE "done"
  <2>1. how \in Gone /\ Fail(w, how)
    BY <1>2 DEF Gone
  <2>2. stray' \subseteq All \X All
    BY <1>2 DEF ClientInv, CallType
  <2>3. thread[w] # None /\ thread[r] # None
    BY <1>2 DEF ClientInv, Threads, InIO
  <2>4. ASSUME w # r
        PROVE  worker'[r] \in Gone
    <3>1. Active(w)
      BY <1>2 DEF Active, InIO, Gone
    <3>2. ~Active(r)
      BY <1>2, <2>4, <3>1 DEF ClientInv, Threads
    <3>3. worker[r] \in Gone
      BY <2>3, <3>2 DEF ClientInv, Threads, Active
    <3>4. worker' = [worker EXCEPT ![w] = how]
      BY <2>1 DEF Fail, Leave, To
    <3> QED
      BY <2>4, <3>3, <3>4 DEF ClientInv, CallType
  <2>5. \A c \in stray' \ stray : worker'[c[1]] \in Gone /\ thread[c[1]] = thread[c[2]] /\ thread[c[1]] # None
    BY <1>2, <2>3, <2>4
  <2> HIDE DEF how
  <2> QED
    BY <1>2, <2>1, <2>2, <2>5, FailKeeps
<1> QED
  BY <1>1, <1>2 DEF CancelThread

(* The steps of a call before its I/O, and its return. *)
LEMMA CallKeeps ==
  ASSUME ClientInv, NEW r \in All,
         send_request(r) \/ RegisterThread(r) \/ EnterClient(r) \/ Return(r) \/ Timeout(r) \/ CancelAgain(r)
  PROVE  ClientInv'
<1> USE DEF GuiStep, server
<1>1. CASE send_request(r)
  <2>1. /\ UNCHANGED <<thread, answer, lock, client, stray, pipe, server, drained>>
        /\ call[r] = "new" /\ worker[r] = "none"
        /\ call' = [call EXCEPT ![r] = "waiting"] /\ worker' = [worker EXCEPT ![r] = "queued"]
    BY <1>1 DEF send_request, To, ClientInv, Turns
  <2>2. CallType' /\ Turns'
    BY <2>1 DEF ClientInv, CallType, Turns, InIO
  <2>3. Connected' /\ Single' /\ OwnAnswer'
    BY <2>1 DEF ClientInv, Connected, Single, OwnAnswer, Pipes
  <2>4. Wire'
    BY <2>1 DEF ClientInv, CallType, Wire
  <2>5. Threads' /\ Strays'
    BY <2>1 DEF ClientInv, CallType, Threads, Active, Gone, Strays, CancelIsOwn
  <2>6. ServerType' /\ Waits'
    BY <2>1 DEF ClientInv, ServerType, Waits, ListenerStops
  <2>7. \A q \in All : /\ worker[q] \in Written => worker'[q] \in Written
                       /\ worker[q] \in Gone => worker'[q] \in Gone
    BY <2>1 DEF Written, Gone, ClientInv, CallType
  <2>8. Tokens' /\ Undrained'
    BY <2>1, <2>7, TokensKeep, UndrainedKeep DEF Pipes
  <2> QED
    BY <2>2, <2>3, <2>4, <2>5, <2>6, <2>8 DEF ClientInv
<1>2. CASE RegisterThread(r)
  <2>1. PICK t \in Idle \cup {r} : thread' = [thread EXCEPT ![r] = t]
    BY <1>2 DEF RegisterThread
  <2>2. /\ UNCHANGED <<call, answer, lock, client, stray, pipe, server, drained>>
        /\ worker[r] = "queued" /\ worker' = [worker EXCEPT ![r] = "waiting"]
    BY <1>2 DEF RegisterThread, To
  <2>3. t \in All /\ t # None /\ thread[r] = None
    BY <2>2, ClientAssumption DEF Idle, All, ClientInv, Threads
  <2>4. CallType' /\ Turns'
    BY <2>1, <2>2, <2>3 DEF ClientInv, CallType, Turns, InIO
  <2>5. Connected' /\ Single' /\ OwnAnswer'
    BY <2>2 DEF ClientInv, Connected, Single, OwnAnswer, Pipes
  <2>6. Wire'
    BY <2>2 DEF ClientInv, CallType, Wire
  <2>7. /\ \A q \in All : thread'[q] = IF q = r THEN t ELSE thread[q]
        /\ \A q \in All : worker'[q] = IF q = r THEN "waiting" ELSE worker[q]
    BY <2>1, <2>2 DEF ClientInv, CallType
  <2>8. Threads'
    <3>1. \A q \in All : thread'[q] = None <=> worker'[q] \in {"none", "queued"}
      BY <2>3, <2>7 DEF ClientInv, Threads
    <3>2. thread'[t] = t
      <4>1. CASE t = r
        BY <2>7, <4>1
      <4>2. CASE t # r
        <5>1. PICK q \in All : thread[q] = t
          BY <2>1, <4>2 DEF Idle
        <5>2. thread[t] = t
          BY <2>3, <5>1 DEF ClientInv, Threads
        <5> QED
          BY <2>3, <2>7, <4>2, <5>2
      <4> QED
        BY <4>1, <4>2
    <3>3. ASSUME NEW q \in All, thread'[q] # None
          PROVE  thread'[thread'[q]] = thread'[q]
      <4>1. CASE q = r
        BY <2>7, <3>2, <4>1
      <4>2. CASE q # r
        <5>1. thread'[q] = thread[q] /\ thread[thread[q]] = thread[q] /\ thread[q] \in All
          BY <2>7, <3>3, <4>2 DEF ClientInv, CallType, Threads
        <5>2. thread[q] # r
          BY <2>3, <3>3, <5>1
        <5> QED
          BY <2>7, <5>1, <5>2
      <4> QED
        BY <4>1, <4>2
    <3>4. \A q \in All : q # r => (Active(q)' <=> Active(q))
      BY <2>7 DEF Active
    <3>5. ASSUME NEW q \in All, Active(q), q # r
          PROVE  thread[q] # t
      <4>1. CASE t = r
        <5>1. thread[r] # r
          BY <2>3, <4>1
        <5>2. thread[q] # None
          BY <3>5 DEF ClientInv, Threads, Active
        <5> QED
          BY <4>1, <5>1, <5>2 DEF ClientInv, Threads
      <4>2. CASE t # r
        BY <2>1, <3>5, <4>2 DEF Idle
      <4> QED
        BY <4>1, <4>2
    <3>6. ASSUME NEW v \in All, NEW w \in All, Active(v)', Active(w)', thread'[v] = thread'[w]
          PROVE  v = w
      <4>1. CASE v # r /\ w # r
        BY <2>7, <3>4, <3>6, <4>1 DEF ClientInv, Threads
      <4>2. CASE v = r /\ w # r
        BY <2>7, <3>4, <3>5, <3>6, <4>2
      <4>3. CASE v # r /\ w = r
        BY <2>7, <3>4, <3>5, <3>6, <4>3
      <4> QED
        BY <4>1, <4>2, <4>3
    <3> QED
      BY <3>1, <3>3, <3>6 DEF Threads
  <2>9. Strays'
    <3> SUFFICES ASSUME NEW c \in stray
                 PROVE  worker'[c[1]] \in Gone /\ thread'[c[1]] = thread'[c[2]] /\ thread'[c[1]] # None
      BY <2>2 DEF Strays, CancelIsOwn
    <3>1. /\ c[1] \in All /\ c[2] \in All
          /\ worker[c[1]] \in Gone /\ thread[c[1]] = thread[c[2]] /\ thread[c[1]] # None
      BY DEF ClientInv, CallType, Strays, CancelIsOwn
    <3>2. c[1] # r /\ c[2] # r
      BY <2>3, <3>1
    <3> QED
      BY <2>7, <3>1, <3>2
  <2>10. ServerType' /\ Waits'
    BY <2>2 DEF ClientInv, ServerType, Waits, ListenerStops
  <2>11. \A q \in All : /\ worker[q] \in Written => worker'[q] \in Written
                        /\ worker[q] \in Gone => worker'[q] \in Gone
    BY <2>2, <2>7 DEF Written, Gone
  <2>12. Tokens' /\ Undrained'
    BY <2>2, <2>11, TokensKeep, UndrainedKeep DEF Pipes
  <2> QED
    BY <2>4, <2>5, <2>6, <2>8, <2>9, <2>10, <2>12 DEF ClientInv
<1>3. CASE EnterClient(r)
  <2> DEFINE o == Owner(r)
  <2>1. /\ UNCHANGED <<call, thread, answer, client, stray, pipe, server, drained>>
        /\ worker[r] = "waiting" /\ lock[o] = None /\ o \in Owners
        /\ lock' = [lock EXCEPT ![o] = r]
    BY <1>3, OwnerType DEF EnterClient
  <2>2. PICK how \in {"connect", "write"} : /\ worker' = [worker EXCEPT ![r] = how]
                                            /\ how = "connect" <=> client[o] = 0
    BY <1>3 DEF EnterClient, To
  <2>3. /\ \A q \in All : worker'[q] = IF q = r THEN how ELSE worker[q]
        /\ \A q \in Owners : lock'[q] = IF q = o THEN r ELSE lock[q]
    BY <2>1, <2>2 DEF ClientInv, CallType
  <2>4. CallType'
    BY <2>1, <2>2 DEF ClientInv, CallType
  <2>5. Turns'
    <3>1. \A q \in All : call'[q] = "new" => worker'[q] = "none"
      BY <2>1, <2>3 DEF ClientInv, Turns
    <3>2. ASSUME NEW q \in All
          PROVE  /\ worker'[q] \in InIO <=> lock'[Owner(q)] = q
                 /\ worker'[q] = "connect" => client'[Owner(q)] = 0
                 /\ worker'[q] \in {"write", "read"} => client'[Owner(q)] # 0
      <4>1. Owner(q) \in Owners /\ q # None /\ (worker[q] \in InIO <=> lock[Owner(q)] = q)
        BY OwnerType, ClientAssumption DEF ClientInv, Turns, All
      <4>2. CASE q = r
        BY <2>1, <2>2, <2>3, <4>2 DEF InIO
      <4>3. CASE q # r
        <5>1. worker'[q] = worker[q] /\ client' = client /\ lock'[Owner(q)] \in {r, lock[Owner(q)]}
          BY <2>1, <2>3, <4>1, <4>3
        <5>2. lock'[Owner(q)] = q <=> lock[Owner(q)] = q
          BY <2>1, <2>3, <4>1, <4>3
        <5> QED
          BY <4>1, <5>1, <5>2 DEF ClientInv, Turns
      <4> QED
        BY <4>2, <4>3
    <3>3. \A q \in Owners : lock'[q] # None => Owner(lock'[q]) = q
      BY <2>3 DEF ClientInv, Turns
    <3> QED
      BY <3>1, <3>2, <3>3 DEF Turns
  <2>6. Connected' /\ Single' /\ OwnAnswer'
    BY <2>1 DEF ClientInv, Connected, Single, OwnAnswer, Pipes
  <2>7. Wire'
    <3> SUFFICES ASSUME NEW q \in Owners, client[q] # 0, NEW x \in All, Carries(pipe[client[q]], x)
                 PROVE  lock'[q] = x /\ worker'[x] = "read"
      BY <2>1 DEF Wire
    <3>1. lock[q] = x /\ worker[x] = "read"
      BY DEF ClientInv, Wire
    <3>2. x # None
      BY ClientAssumption DEF All
    <3> QED
      BY <2>1, <2>3, <3>1, <3>2
  <2>8. Threads' /\ Strays'
    <3>1. how \notin Gone \cup {"none", "queued"} /\ Active(r)
      BY <2>1, <2>2 DEF Gone, Active
    <3>2. \A q \in All : Active(q)' <=> Active(q)
      BY <2>3, <3>1 DEF Active
    <3>3. \A q \in All : worker'[q] \in {"none", "queued"} <=> worker[q] \in {"none", "queued"}
      BY <2>1, <2>3, <3>1
    <3>4. Threads'
      BY <2>1, <3>2, <3>3 DEF ClientInv, Threads
    <3>5. \A q \in All : worker[q] \in Gone => worker'[q] = worker[q]
      BY <2>1, <2>3 DEF Gone
    <3> QED
      BY <2>1, <3>4, <3>5 DEF ClientInv, CallType, Strays, CancelIsOwn
  <2>9. ServerType' /\ Waits'
    BY <2>1 DEF ClientInv, ServerType, Waits, ListenerStops
  <2>10. \A q \in All : /\ worker[q] \in Written => worker'[q] \in Written
                        /\ worker[q] \in Gone => worker'[q] \in Gone
    BY <2>1, <2>3 DEF Written, Gone
  <2>11. Tokens' /\ Undrained'
    BY <2>1, <2>10, TokensKeep, UndrainedKeep DEF Pipes
  <2> QED
    BY <2>4, <2>5, <2>6, <2>7, <2>8, <2>9, <2>11 DEF ClientInv
<1>4. CASE Return(r)
  <2>1. /\ UNCHANGED <<worker, thread, answer, lock, client, stray, pipe, server, drained>>
        /\ call' = [call EXCEPT ![r] = IF answer[r] = None THEN "error" ELSE "ok"]
    BY <1>4 DEF Return
  <2>2. call' \in [All -> {"new", "waiting", "cancelling"} \cup Ended]
    BY <2>1 DEF ClientInv, CallType, Ended
  <2>3. \A q \in All : call'[q] = "new" => call[q] = "new"
    BY <2>1 DEF ClientInv, CallType
  <2> QED
    BY <2>1, <2>2, <2>3, CallOnly
<1>5. CASE Timeout(r) \/ CancelAgain(r)
  <2>1. PICK to \in {"cancelling", "timeout"} : call' = [call EXCEPT ![r] = to]
    BY <1>5 DEF Timeout, CancelAgain
  <2>2. call' \in [All -> {"new", "waiting", "cancelling"} \cup Ended]
    BY <2>1 DEF ClientInv, CallType, Ended
  <2>3. \A q \in All : call'[q] = "new" => call[q] = "new"
    BY <2>1 DEF ClientInv, CallType
  <2>4. UNCHANGED <<thread, answer, shown, server, drained>>
    BY <1>5 DEF Timeout, CancelAgain
  <2>5. CASE CancelThread(r, thread[r])
    BY <2>2, <2>3, <2>4, <2>5, CancelKeeps
  <2>6. CASE NoCancel
    BY <2>2, <2>3, <2>4, <2>6, CallOnly DEF NoCancel
  <2> QED
    BY <1>5, <2>5, <2>6 DEF Timeout, CancelAgain, cancel_worker
<1> QED
  BY <1>1, <1>2, <1>3, <1>4, <1>5

(* The I/O of a worker that succeeds: the next step, or the way out. *)
LEMMA WorkerMoves ==
  ASSUME ClientInv, NEW r \in All, worker[r] \in InIO,
         NEW how \in InIO \cup Gone, worker' = [worker EXCEPT ![r] = how],
         lock' = IF how \in InIO THEN lock ELSE [lock EXCEPT ![Owner(r)] = None],
         client' \in [Owners -> Nat],
         \A o \in Owners \ {Owner(r)} : client'[o] = client[o],
         how \in InIO => how \in {"write", "read"} /\ client'[Owner(r)] # 0,
         UNCHANGED <<call, thread, stray>>
  PROVE  /\ Turns' /\ Threads' /\ Strays'
         /\ worker' \in [All -> {"none", "queued", "waiting", "connect", "write", "read"} \cup Gone]
         /\ lock' \in [Owners -> All \cup {None}]
<1> DEFINE o == Owner(r)
<1>1. o \in Owners /\ lock[o] = r /\ r # None
  BY OwnerType, ClientAssumption DEF ClientInv, Turns, All
<1>2. InIO \cap Gone = {}
  BY DEF InIO, Gone
<1>3. /\ worker' \in [All -> {"none", "queued", "waiting", "connect", "write", "read"} \cup Gone]
      /\ lock' \in [Owners -> All \cup {None}]
  BY <1>1 DEF ClientInv, CallType, InIO
<1>4. /\ \A q \in All : worker'[q] = IF q = r THEN how ELSE worker[q]
      /\ \A q \in Owners : lock'[q] = IF q = o /\ how \notin InIO THEN None ELSE lock[q]
  BY <1>1 DEF ClientInv, CallType
<1>5. Turns'
  <2>1. \A q \in All : call'[q] = "new" => worker'[q] = "none"
    BY <1>4 DEF ClientInv, Turns, InIO
  <2>2. ASSUME NEW q \in All
        PROVE  /\ worker'[q] \in InIO <=> lock'[Owner(q)] = q
               /\ worker'[q] = "connect" => client'[Owner(q)] = 0
               /\ worker'[q] \in {"write", "read"} => client'[Owner(q)] # 0
    <3>1. Owner(q) \in Owners /\ q # None /\ (worker[q] \in InIO <=> lock[Owner(q)] = q)
      BY OwnerType, ClientAssumption DEF ClientInv, Turns, All
    <3>2. CASE q = r
      BY <1>1, <1>2, <1>4, <3>2 DEF InIO
    <3>3. CASE q # r /\ Owner(q) = o
      <4>1. worker[q] \notin InIO /\ worker'[q] = worker[q]
        BY <1>1, <1>4, <3>1, <3>3
      <4>2. lock'[Owner(q)] # q
        BY <1>1, <1>4, <3>1, <3>3
      <4> QED
        BY <4>1, <4>2 DEF InIO
    <3>4. CASE q # r /\ Owner(q) # o
      BY <1>4, <3>1, <3>4 DEF ClientInv, Turns
    <3> QED
      BY <3>2, <3>3, <3>4
  <2>3. \A q \in Owners : lock'[q] # None => Owner(lock'[q]) = q
    BY <1>4 DEF ClientInv, Turns
  <2> QED
    BY <2>1, <2>2, <2>3 DEF Turns
<1>6. Threads'
  <2>1. how \notin {"none", "queued"} /\ worker[r] \notin {"none", "queued"} /\ Active(r)
    BY DEF InIO, Gone, Active
  <2>2. \A q \in All : worker'[q] \in {"none", "queued"} <=> worker[q] \in {"none", "queued"}
    BY <1>4, <2>1
  <2>3. \A q \in All : Active(q)' => Active(q)
    BY <1>4, <2>1 DEF Active
  <2> QED
    BY <2>2, <2>3 DEF ClientInv, Threads
<1>7. Strays'
  <2>1. \A q \in All : worker[q] \in Gone => worker'[q] = worker[q]
    BY <1>2, <1>4
  <2> QED
    BY <2>1 DEF ClientInv, CallType, Strays, CancelIsOwn
<1> QED
  BY <1>3, <1>5, <1>6, <1>7

(* A pipe that is connected, written to or read from; the others stay. *)
LEMMA IOKeeps ==
  ASSUME ClientInv, NEW r \in All, connect(r) \/ WriteRequest(r) \/ ReadResponse(r)
  PROVE  ClientInv'
<1> USE DEF GuiStep, server
<1> DEFINE o == Owner(r)
<1>1. /\ pipe \in Seq(PipeState) /\ Len(pipe) \in Nat /\ DOMAIN pipe = 1 .. Len(pipe) /\ Pipes = 1 .. Len(pipe)
      /\ \A j \in Pipes : pipe[j] \in PipeState /\ Sound(pipe[j])
  BY DEF ClientInv, CallType, Pipes, Single
<1>2. worker[r] \in InIO /\ o \in Owners /\ lock[o] = r /\ r # None
  BY OwnerType, ClientAssumption DEF connect, WriteRequest, ReadResponse, InIO, ClientInv, Turns, All
<1>3. UNCHANGED <<call, thread, stray, server, drained>>
  BY DEF connect, WriteRequest, ReadResponse
<1>4. CASE \E how \in Gone : Fail(r, how) /\ UNCHANGED answer
  <2>1. PICK how \in Gone : Fail(r, how) /\ UNCHANGED answer
    BY <1>4
  <2> QED
    BY <1>2, <1>3, <2>1, FailKeeps DEF ClientInv, CallType
<1>5. ASSUME connect(r), NEW k \in Pipes, Listening(k), pipe' = [pipe EXCEPT ![k].near = "open"],
             client' = [client EXCEPT ![o] = k], To(r, "write"), UNCHANGED lock
      PROVE  ClientInv'
  <2> DEFINE v == [pipe[k] EXCEPT !.near = "open"]
  <2>1. pipe[k] \in PipeState /\ Sound(pipe[k]) /\ Empty(pipe[k]) /\ pipe[k].near = "free" /\ k # 0 /\ k \in Nat
    BY <1>1, <1>5 DEF Listening, Sound
  <2>2. /\ v \in PipeState /\ v.near = "open" /\ v.request = <<>> /\ v.response = <<>>
        /\ v.serving = None /\ v.task = pipe[k].task
    BY <2>1 DEF PipeState, Empty
  <2>3. Becomes(k, v)
    BY <1>1, <1>5, <2>2 DEF Becomes
  <2> HIDE DEF v
  <2>4. Sound(v)
    <3>1. Len(<<>>) = 0
      OBVIOUS
    <3> QED
      BY <2>1, <2>2, <3>1 DEF Sound, Empty
  <2>5. /\ pipe' \in Seq(PipeState) /\ Len(pipe') = Len(pipe) /\ Pipes' = Pipes
        /\ pipe'[k] = v /\ \A j \in Pipes \ {k} : pipe'[j] = pipe[j]
    BY <1>1, <2>3, BecomesFacts
  <2>6. client' \in [Owners -> Nat] /\ \A q \in Owners : client'[q] = IF q = o THEN k ELSE client[q]
    BY <1>2, <1>5, <2>1 DEF ClientInv, CallType
  <2>7. answer' = answer /\ worker' = [worker EXCEPT ![r] = "write"] /\ worker[r] = "connect"
    BY <1>5 DEF connect, To
  <2>8. /\ Turns' /\ Threads' /\ Strays'
        /\ worker' \in [All -> {"none", "queued", "waiting", "connect", "write", "read"} \cup Gone]
        /\ lock' \in [Owners -> All \cup {None}]
    <3>1. "write" \in InIO /\ lock' = lock
      BY <1>5 DEF InIO
    <3> QED
      BY <1>2, <1>3, <2>1, <2>6, <2>7, <3>1, WorkerMoves
  <2>9. CallType' /\ OwnAnswer'
    BY <1>3, <2>5, <2>6, <2>7, <2>8 DEF ClientInv, CallType, OwnAnswer
  <2>10. \A q \in Owners : q # o /\ client'[q] # 0 =>
           client'[q] = client[q] /\ client[q] \in Pipes /\ client[q] # k /\ pipe'[client[q]] = pipe[client[q]]
    BY <2>1, <2>5, <2>6 DEF ClientInv, Connected
  <2>11. Connected'
    <3>1. \A q \in Owners : client'[q] # 0 => client'[q] \in Pipes' /\ pipe'[client'[q]].near = "open"
      BY <2>2, <2>5, <2>6, <2>10 DEF ClientInv, Connected
    <3>2. client'["app"] = client'["poller"] => client'["app"] = 0
      BY <1>2, <2>1, <2>6, <2>10 DEF ClientInv, Connected, Owners
    <3> QED
      BY <3>1, <3>2 DEF Connected
  <2>12. Single'
    BY <1>1, <2>4, <2>5 DEF Single
  <2>13. Wire'
    <3> SUFFICES ASSUME NEW q \in Owners, client'[q] # 0, NEW x \in All, Carries(pipe'[client'[q]], x)
                 PROVE  lock'[q] = x /\ worker'[x] = "read"
      BY DEF Wire
    <3>1. x # None
      BY ClientAssumption DEF All
    <3>2. q # o
      BY <2>2, <2>5, <2>6, <3>1, EmptyRange DEF Carries
    <3>3. lock[q] = x /\ worker[x] = "read"
      BY <2>10, <3>2 DEF ClientInv, Wire
    <3> QED
      BY <1>5, <2>7, <3>3 DEF ClientInv, CallType
  <2>14. ServerType' /\ Waits'
    BY <1>3, <2>2, <2>5, WaitsOn
  <2>15. Tokens' /\ Undrained'
    <3>1. \A q \in All : /\ worker[q] \in Written => worker'[q] \in Written
                         /\ worker[q] \in Gone => worker'[q] \in Gone
      BY <2>7 DEF Written, Gone, ClientInv, CallType
    <3>2. \A x \in All : ~Carries(v, x) /\ ~Pending(v, x)
      BY <2>2, EmptyRange, ClientAssumption DEF Carries, Pending, All
    <3> QED
      BY <1>3, <2>5, <2>7, <3>1, <3>2, TokensKeep, UndrainedKeep
  <2> QED
    BY <2>15, <2>8, <2>9, <2>11, <2>12, <2>13, <2>14 DEF ClientInv
<1> DEFINE k == client[o]
<1>6. worker[r] \in {"write", "read"} => k \in Pipes /\ pipe[k].near = "open" /\ k # 0
  BY <1>2 DEF ClientInv, Turns, Connected
(* The two steps that use the pipe of the client. *)
<1>7. ASSUME worker[r] \in {"write", "read"}, NEW v, Becomes(k, v), Sound(v), v.near = "open",
             \A x \in All : Carries(v, x) => x = r /\ worker'[r] = "read",
             UNCHANGED client,
             NEW how \in {"read", "done"}, worker' = [worker EXCEPT ![r] = how],
             lock' = IF how \in InIO THEN lock ELSE [lock EXCEPT ![o] = None],
             answer' \in [All -> All \cup {None}], OwnAnswer', Tokens', Undrained'
      PROVE  ClientInv'
  <2>1. /\ pipe' \in Seq(PipeState) /\ Len(pipe') = Len(pipe) /\ Pipes' = Pipes
        /\ pipe'[k] = v /\ \A j \in Pipes \ {k} : pipe'[j] = pipe[j]
    BY <1>1, <1>7, BecomesFacts
  <2>2. how \in InIO \cup Gone /\ (how \in InIO => how \in {"write", "read"} /\ client'[o] # 0) /\ client' \in [Owners -> Nat]
    BY <1>6, <1>7 DEF InIO, Gone, ClientInv, CallType
  <2>3. /\ Turns' /\ Threads' /\ Strays'
        /\ worker' \in [All -> {"none", "queued", "waiting", "connect", "write", "read"} \cup Gone]
        /\ lock' \in [Owners -> All \cup {None}]
    BY <1>2, <1>3, <1>7, <2>2, WorkerMoves
  <2>4. CallType'
    BY <1>3, <1>7, <2>1, <2>2, <2>3 DEF ClientInv, CallType
  <2>5. Connected'
    BY <1>6, <1>7, <2>1 DEF ClientInv, Connected
  <2>6. Single'
    BY <1>1, <1>7, <2>1 DEF Single
  <2>7. Wire'
    <3> SUFFICES ASSUME NEW q \in Owners, client[q] # 0, NEW x \in All, Carries(pipe'[client[q]], x)
                 PROVE  lock'[q] = x /\ worker'[x] = "read"
      BY <1>7 DEF Wire
    <3>1. CASE q = o
      <4>1. x = r /\ worker'[r] = "read"
        BY <1>7, <2>1, <3>1
      <4>2. how = "read"
        BY <1>7, <4>1 DEF ClientInv, CallType
      <4> QED
        BY <1>2, <1>7, <3>1, <4>1, <4>2 DEF InIO
    <3>2. CASE q # o
      <4>1. client[q] # k /\ client[q] \in Pipes
        BY <1>2, <1>6, <1>7, <3>2 DEF ClientInv, Connected, Owners
      <4>2. lock[q] = x /\ worker[x] = "read"
        BY <2>1, <4>1 DEF ClientInv, Wire
      <4>3. x # r
        BY <3>2, <4>2, <1>2 DEF ClientInv, Turns
      <4> QED
        BY <1>2, <1>7, <3>2, <4>2, <4>3 DEF ClientInv, CallType
    <3> QED
      BY <3>1, <3>2
  <2>8. ServerType' /\ Waits'
    <3>1. \A j \in Pipes : pipe'[j].near = "free" => pipe[j].near = "free"
      BY <1>7, <2>1
    <3> QED
      BY <1>3, <2>1, <3>1, WaitsOn
  <2> QED
    BY <1>7, <2>3, <2>4, <2>5, <2>6, <2>7, <2>8 DEF ClientInv
<1>8. ASSUME WriteRequest(r), pipe[k].far, pipe' = [pipe EXCEPT ![k].request = Append(@, r)], To(r, "read"),
             UNCHANGED <<lock, client>>
      PROVE  ClientInv'
  <2>1. worker[r] = "write" /\ answer' = answer
    BY <1>8 DEF WriteRequest
  <2>2. k \in Pipes /\ pipe[k] \in PipeState /\ Sound(pipe[k]) /\ pipe[k].near = "open" /\ k # 0
    BY <1>1, <1>6, <2>1
  <2>3. \A x \in All : ~Carries(pipe[k], x)
    BY <1>2, <2>1, <2>2 DEF ClientInv, Wire
  <2>4. Empty(pipe[k])
    <3>1. pipe[k].request \in Seq(All) /\ pipe[k].response \in Seq(All) /\ pipe[k].serving \in All \cup {None}
      BY <2>2 DEF PipeState
    <3>2. pipe[k].serving = None
      BY <2>3, <3>1 DEF Carries
    <3>3. pipe[k].request = <<>>
      BY <2>3, <3>1, RangeFacts, HeadTailProperties DEF Carries
    <3>4. pipe[k].response = <<>>
      BY <2>3, <3>1, RangeFacts, HeadTailProperties DEF Carries
    <3> QED
      BY <3>2, <3>3, <3>4 DEF Empty
  <2> DEFINE v == [pipe[k] EXCEPT !.request = Append(pipe[k].request, r)]
  <2>5. /\ Append(pipe[k].request, r) \in Seq(All) /\ Len(Append(pipe[k].request, r)) = 1
        /\ Range(Append(pipe[k].request, r)) = {r}
    <3>1. pipe[k].request \in Seq(All) /\ Len(pipe[k].request) = 0 /\ Range(pipe[k].request) = {}
      BY <2>4, NoMessages, EmptyRange DEF Empty
    <3>2. Range(Append(pipe[k].request, r)) = Range(pipe[k].request) \cup {r}
      BY <3>1, RangeFacts
    <3> QED
      BY <3>1, <3>2
  <2>6. /\ v \in PipeState /\ v.near = "open" /\ v.request = Append(pipe[k].request, r) /\ v.response = <<>>
        /\ v.serving = None /\ v.task = pipe[k].task
    BY <2>2, <2>4, <2>5 DEF PipeState, Empty
  <2>7. Becomes(k, v)
    BY <1>1, <1>8, <2>2, <2>6 DEF Becomes
  <2> HIDE DEF v
  <2>8. Sound(v)
    <3>1. Len(<<>>) = 0
      OBVIOUS
    <3>2. v.task \notin {"handling", "writing"}
      BY <2>2, <2>4, <2>6 DEF Sound, Empty
    <3>3. Len(v.request) <= 1 /\ Len(v.response) <= 1
      BY <2>5, <2>6, <3>1
    <3> QED
      BY <2>6, <3>2, <3>3 DEF Sound
  <2>9. worker' = [worker EXCEPT ![r] = "read"] /\ worker'[r] = "read"
    BY <1>8 DEF To, ClientInv, CallType
  <2>10. \A x \in All : Carries(v, x) => x = r
    BY <2>5, <2>6, EmptyRange, ClientAssumption DEF Carries, All
  <2>11. answer' \in [All -> All \cup {None}] /\ OwnAnswer'
    BY <2>1 DEF ClientInv, CallType, OwnAnswer
  <2>12. /\ \A q \in All : worker[q] \in Written => worker'[q] \in Written
         /\ \A q \in All : worker[q] \in Gone => worker'[q] \in Gone
         /\ worker[r] \notin Written /\ worker'[r] \in Written
    BY <2>1, <2>9 DEF Written, Gone, ClientInv, CallType
  <2>13. /\ Pipes' = Pipes /\ pipe'[k] = v /\ \A j \in Pipes \ {k} : pipe'[j] = pipe[j]
    BY <1>1, <2>7, BecomesFacts
  <2>14. answer[r] = None /\ drained[r] = <<>> /\ \A j \in Pipes : ~Carries(pipe[j], r)
    BY <2>1, <2>12 DEF ClientInv, Tokens, Undrained, Written
  <2>15. \A j \in Pipes, x \in All : Carries(pipe'[j], x) => (x = r /\ j = k) \/ (x # r /\ j # k /\ Carries(pipe[j], x))
    BY <2>10, <2>13, <2>14
  <2>16. Tokens'
    BY <2>1, <2>12, <2>13, <2>14, <2>15 DEF ClientInv, Tokens
  <2>17. \A j \in Pipes, x \in All : Pending(pipe'[j], x) => x = r \/ Pending(pipe[j], x)
    BY <2>10, <2>13 DEF Pending, Carries
  <2>18. Undrained'
    BY <1>3, <2>12, <2>13, <2>14, <2>17 DEF ClientInv, Undrained
  <2> QED
    BY <1>7, <1>8, <2>1, <2>6, <2>7, <2>8, <2>9, <2>10, <2>11, <2>16, <2>18 DEF InIO
<1>9. ASSUME ReadResponse(r), pipe[k].response # <<>>,
             answer' = [answer EXCEPT ![r] = Head(pipe[k].response)],
             pipe' = [pipe EXCEPT ![k].response = Tail(@)], Leave(r, "done"), UNCHANGED client
      PROVE  ClientInv'
  <2>1. worker[r] = "read"
    BY <1>9 DEF ReadResponse
  <2>2. k \in Pipes /\ pipe[k] \in PipeState /\ Sound(pipe[k]) /\ pipe[k].near = "open" /\ k # 0
    BY <1>1, <1>6, <2>1
  <2>3. /\ pipe[k].response \in Seq(All) /\ Len(pipe[k].response) <= 1 /\ pipe[k].request = <<>> /\ pipe[k].serving = None
        /\ pipe[k].task \notin {"handling", "writing"}
    BY <1>9, <2>2 DEF PipeState, Sound
  <2>4. /\ Head(pipe[k].response) \in All /\ Tail(pipe[k].response) = <<>>
        /\ Range(pipe[k].response) = {Head(pipe[k].response)}
    BY <1>9, <2>3, OneMessage
  <2>5. Head(pipe[k].response) = r
    <3>1. Carries(pipe[k], Head(pipe[k].response))
      BY <2>4 DEF Carries
    <3> QED
      BY <1>2, <2>2, <2>4, <3>1 DEF ClientInv, Wire
  <2> DEFINE v == [pipe[k] EXCEPT !.response = Tail(pipe[k].response)]
  <2>6. /\ v \in PipeState /\ v.near = "open" /\ v.request = <<>> /\ v.response = <<>>
        /\ v.serving = None /\ v.task = pipe[k].task
    BY <2>2, <2>3, <2>4, NoMessages DEF PipeState
  <2>7. Becomes(k, v)
    BY <1>1, <1>9, <2>2, <2>6 DEF Becomes
  <2> HIDE DEF v
  <2>8. Sound(v)
    <3>1. Len(<<>>) = 0
      OBVIOUS
    <3> QED
      BY <2>3, <2>6, <3>1 DEF Sound, Empty
  <2>9. \A x \in All : ~Carries(v, x)
    BY <2>6, EmptyRange, ClientAssumption DEF Carries, All
  <2>10. worker' = [worker EXCEPT ![r] = "done"] /\ lock' = [lock EXCEPT ![o] = None]
    BY <1>9 DEF Leave, To
  <2>11. answer' \in [All -> All \cup {None}] /\ OwnAnswer'
    BY <1>9, <2>5 DEF ClientInv, CallType, OwnAnswer
  <2>12. /\ \A q \in All : worker[q] \in Written => worker'[q] \in Written
         /\ \A q \in All : worker[q] \in Gone => worker'[q] \in Gone
         /\ worker'[r] \in Gone
    BY <2>10 DEF Written, Gone, ClientInv, CallType
  <2>13. /\ Pipes' = Pipes /\ pipe'[k] = v /\ \A j \in Pipes \ {k} : pipe'[j] = pipe[j]
    BY <1>1, <2>7, BecomesFacts
  <2>14. \A j \in Pipes \ {k} : ~Carries(pipe[j], r)
    <3>1. Carries(pipe[k], r)
      BY <2>4, <2>5 DEF Carries
    <3> QED
      BY <2>2, <3>1 DEF ClientInv, Tokens
  <2>15. \A j \in Pipes, x \in All : Carries(pipe'[j], x) => x # r /\ Carries(pipe[j], x)
    BY <2>9, <2>13, <2>14
  <2>16. \A x \in All : x # r => answer'[x] = answer[x]
    BY <1>9 DEF ClientInv, CallType
  <2>17. Tokens'
    BY <2>12, <2>13, <2>15, <2>16 DEF ClientInv, Tokens
  <2>18. \A j \in Pipes, x \in All : Pending(pipe'[j], x) => Pending(pipe[j], x)
    BY <2>9, <2>13 DEF Pending, Carries
  <2>19. Undrained'
    BY <1>3, <2>12, <2>13, <2>18, UndrainedKeep
  <2> QED
    BY <1>7, <1>9, <2>1, <2>6, <2>7, <2>8, <2>9, <2>10, <2>11, <2>17, <2>19 DEF InIO
<1>10. CASE connect(r)
  <2>1. ASSUME Fail(r, "left")
        PROVE  ClientInv'
    BY <1>4, <1>10, <2>1 DEF connect, Gone
  <2> QED
    BY <1>5, <1>10, <2>1 DEF connect
<1>11. CASE WriteRequest(r)
  <2>1. ASSUME Fail(r, "done")
        PROVE  ClientInv'
    BY <1>4, <1>11, <2>1 DEF WriteRequest, Gone
  <2> QED
    BY <1>8, <1>11, <2>1 DEF WriteRequest
<1>12. CASE ReadResponse(r)
  <2>1. ASSUME Fail(r, "done"), UNCHANGED answer
        PROVE  ClientInv'
    BY <1>4, <2>1 DEF Gone
  <2> QED
    BY <1>9, <1>12, <2>1 DEF ReadResponse
<1> QED
  BY <1>10, <1>11, <1>12
-----------------------------------------------------------------------------
LEMMA ClientInitInv == ClientInit => ClientInv
<1> SUFFICES ASSUME ClientInit
             PROVE  ClientInv
  OBVIOUS
<1>1. Pipes = {}
  BY DEF ClientInit, Pipes
<1>2. CallType /\ ServerType
  <2>1. pipe \in Seq(PipeState)
    BY DEF ClientInit
  <2>2. lock \in [Owners -> All \cup {None}] /\ client \in [Owners -> Nat]
    BY DEF ClientInit, Owners
  <2> QED
    BY <2>1, <2>2 DEF ClientInit, CallType, ServerType
<1>3. Turns
  <2>1. \A r \in All : lock[Owner(r)] # r
    <3>1. \A o \in Owners : lock[o] = None
      BY DEF ClientInit, Owners
    <3> QED
      BY <3>1, OwnerType, ClientAssumption DEF All
  <2>2. \A r \in All : call[r] = "new" /\ worker[r] = "none"
    BY DEF ClientInit
  <2>3. \A o \in Owners : lock[o] = None
    BY DEF ClientInit, Owners
  <2> QED
    BY <2>1, <2>2, <2>3 DEF Turns, InIO
<1>4. Connected /\ Single /\ Wire
  BY <1>1 DEF ClientInit, Connected, Single, Wire, Owners
<1>5. OwnAnswer /\ Threads /\ Strays
  BY DEF ClientInit, OwnAnswer, Threads, Active, Strays, CancelIsOwn
<1>6. Waits
  BY DEF ClientInit, Waits, ListenerStops
<1>7. Tokens /\ Undrained
  BY <1>1 DEF ClientInit, Tokens, Undrained
<1> QED
  BY <1>2, <1>3, <1>4, <1>5, <1>6, <1>7 DEF ClientInv

LEMMA ClientInvStep == ClientInv /\ [ClientNext]_vars => ClientInv'
<1> SUFFICES ASSUME ClientInv, [ClientNext]_vars
             PROVE  ClientInv'
  OBVIOUS
<1>1. ASSUME UNCHANGED <<gui, server, pipe, drained>>
      PROVE  ClientInv'
  BY <1>1, CallOnly DEF gui, ClientInv, CallType
<1>2. ASSUME NEW b \in Blocked, notify_blocked_connection(b) \/ cleanup_expired(b)
      PROVE  ClientInv'
  BY <1>1, <1>2 DEF notify_blocked_connection, cleanup_expired
<1>3. CASE set_enabled
  BY <1>1, <1>3 DEF set_enabled
<1>4. CASE LoopEnds \/ create_named_pipe \/ AwaitClient \/ Accept \/ Shutdown \/ stop \/ Exit
  BY <1>4, ListenerKeeps
<1>5. ASSUME NEW k \in Pipes, ReadRequest(k) \/ handle_request(k) \/ WriteResponse(k) \/ CloseConnection(k)
      PROVE  ClientInv'
  BY <1>5, HandlerKeeps
<1>6. ASSUME NEW r \in All, send_request(r) \/ RegisterThread(r) \/ EnterClient(r)
                              \/ Return(r) \/ Timeout(r) \/ CancelAgain(r)
      PROVE  ClientInv'
  BY <1>6, CallKeeps
<1>7. ASSUME NEW r \in All, connect(r) \/ WriteRequest(r) \/ ReadResponse(r)
      PROVE  ClientInv'
  BY <1>7, IOKeeps
<1>8. CASE UNCHANGED vars
  BY <1>1, <1>8 DEF vars
<1> QED
  BY <1>2, <1>3, <1>4, <1>5, <1>6, <1>7, <1>8 DEF ClientNext

LEMMA ClientInvariant == ClientSpec => []ClientInv
BY ClientInitInv, ClientInvStep, PTL DEF ClientSpec

(* A call that succeeds has read the response to its own request: whatever
   earlier calls on the client were given up, and wherever the service was when
   they were, nothing of theirs is left in the connection (send_request). *)
THEOREM CallReadsOwnAnswer == ClientSpec => []OwnAnswer
<1>1. ClientInv => OwnAnswer
  BY DEF ClientInv
<1> QED
  BY <1>1, ClientInvariant, PTL

(* A call that gives up cancels its own I/O, unless its worker has ended and the
   pool has given the thread to the worker it hits (CancelSlot). *)
THEOREM CancelHitsOwn == ClientSpec => []CancelIsOwn
<1>1. ClientInv => CancelIsOwn
  BY DEF ClientInv, Strays
<1> QED
  BY <1>1, ClientInvariant, PTL

(* After stop the listener waits on only where the wake-up could not reach it
   (IpcServer::stop). *)
THEOREM ListenerSeesStop == ClientSpec => []ListenerStops
<1>1. ClientInv => ListenerStops
  BY DEF ClientInv, Waits
<1> QED
  BY <1>1, ClientInvariant, PTL
-----------------------------------------------------------------------------
(* Sequences in increasing order. *)
LEMMA IncreasingConcat ==
  ASSUME NEW s \in Seq(Nat), NEW t \in Seq(Nat), Increasing(s), Increasing(t),
         \A x \in Range(s), y \in Range(t) : x < y
  PROVE  /\ s \o t \in Seq(Nat) /\ Increasing(s \o t)
         /\ Range(s \o t) = Range(s) \cup Range(t)
<1> DEFINE u == s \o t
<1>1. /\ u \in Seq(Nat) /\ Len(u) = Len(s) + Len(t) /\ Len(s) \in Nat /\ Len(t) \in Nat
      /\ DOMAIN s = 1 .. Len(s) /\ DOMAIN t = 1 .. Len(t) /\ DOMAIN u = 1 .. Len(u)
      /\ \A i \in 1 .. Len(s) + Len(t) : u[i] = IF i <= Len(s) THEN s[i] ELSE t[i - Len(s)]
  BY ConcatProperties
<1> HIDE DEF u
<1>2. \A i \in DOMAIN s : s[i] \in Range(s) /\ s[i] \in Nat
  BY <1>1 DEF Range
<1>3. \A i \in DOMAIN t : t[i] \in Range(t) /\ t[i] \in Nat
  BY <1>1 DEF Range
<1>4. ASSUME NEW i \in DOMAIN u, NEW j \in DOMAIN u, i < j
      PROVE  u[i] < u[j]
  <2>1. CASE j <= Len(s)
    <3>1. i \in DOMAIN s /\ j \in DOMAIN s /\ u[i] = s[i] /\ u[j] = s[j]
      BY <1>1, <1>4, <2>1
    <3> QED
      BY <1>4, <3>1 DEF Increasing
  <2>2. CASE i > Len(s)
    <3>1. i \in Int /\ j \in Int /\ i > Len(s) /\ j > Len(s) /\ i <= Len(s) + Len(t) /\ j <= Len(s) + Len(t)
      BY <1>1, <1>4, <2>2
    <3>2. i - Len(s) \in DOMAIN t /\ j - Len(s) \in DOMAIN t /\ i - Len(s) < j - Len(s)
      BY SMTT(30), <1>1, <1>4, <3>1
    <3>3. \A k \in 1 .. Len(s) + Len(t) : ~(k <= Len(s)) => u[k] = t[k - Len(s)]
      BY <1>1
    <3>4. /\ i \in 1 .. Len(s) + Len(t) /\ ~(i <= Len(s))
          /\ j \in 1 .. Len(s) + Len(t) /\ ~(j <= Len(s))
      BY <1>1, <1>4, <3>1
    <3>5. u[i] = t[i - Len(s)] /\ u[j] = t[j - Len(s)]
      BY ONLY <3>3, <3>4
    <3> QED
      BY <3>2, <3>5 DEF Increasing
  <2>3. CASE i <= Len(s) /\ j > Len(s)
    <3>1. i \in DOMAIN s /\ j - Len(s) \in DOMAIN t /\ u[i] = s[i] /\ u[j] = t[j - Len(s)]
      BY SMTT(30), <1>1, <1>4, <2>3
    <3>2. s[i] \in Range(s) /\ t[j - Len(s)] \in Range(t)
      BY <1>2, <1>3, <3>1
    <3> QED
      BY <3>1, <3>2
  <2> QED
    BY <1>1, <2>1, <2>2, <2>3
<1>5. Range(u) = Range(s) \cup Range(t)
  BY RangeConcatenation DEF u
<1> QED
  BY <1>1, <1>4, <1>5 DEF Increasing, u

LEMMA IncreasingAppend ==
  ASSUME NEW s \in Seq(Nat), NEW e \in Nat, Increasing(s), \A x \in Range(s) : x < e
  PROVE  Append(s, e) \in Seq(Nat) /\ Increasing(Append(s, e))
<1>1. /\ DOMAIN Append(s, e) = 1 .. Len(s) + 1 /\ Len(s) \in Nat /\ DOMAIN s = 1 .. Len(s)
      /\ Append(s, e)[Len(s) + 1] = e /\ \A i \in 1 .. Len(s) : Append(s, e)[i] = s[i] /\ s[i] \in Range(s)
  BY DEF Range
<1> QED
  BY <1>1 DEF Increasing

(* An increasing sequence cut in two. *)
LEMMA IncreasingSplit ==
  ASSUME NEW s \in Seq(Nat), Increasing(s), NEW n \in 0 .. Len(s)
  PROVE  LET a == SubSeq(s, 1, n)
             b == SubSeq(s, n + 1, Len(s))
         IN  /\ a \in Seq(Nat) /\ Increasing(a) /\ b \in Seq(Nat) /\ Increasing(b)
             /\ Range(s) = Range(a) \cup Range(b)
             /\ \A x \in Range(a), y \in Range(b) : x < y
<1> DEFINE a == SubSeq(s, 1, n)
           b == SubSeq(s, n + 1, Len(s))
<1>1. Len(s) \in Nat /\ DOMAIN s = 1 .. Len(s) /\ \A i \in 1 .. Len(s) : s[i] \in Nat
  OBVIOUS
<1>2. /\ a \in Seq(Nat) /\ Len(a) = n /\ DOMAIN a = 1 .. n /\ \A i \in 1 .. n : a[i] = s[i]
  <2>1. \A i \in 1 .. n : s[i] \in Nat
    BY <1>1
  <2> QED
    BY <1>1, <2>1, SubSeqProperties
<1>3. /\ b \in Seq(Nat) /\ Len(b) = Len(s) - n /\ DOMAIN b = 1 .. Len(s) - n
      /\ \A i \in 1 .. Len(s) - n : b[i] = s[n + i]
  <2>1. \A i \in n + 1 .. Len(s) : s[i] \in Nat
    BY <1>1
  <2>2. /\ b \in Seq(Nat) /\ Len(b) = IF n + 1 <= Len(s) THEN Len(s) - (n + 1) + 1 ELSE 0
        /\ \A i \in 1 .. Len(s) - (n + 1) + 1 : b[i] = s[(n + 1) + i - 1]
    BY <1>1, <2>1, SubSeqProperties
  <2> HIDE DEF b
  <2>3. Len(b) = Len(s) - n /\ DOMAIN b = 1 .. Len(s) - n
    <3>1. CASE n + 1 <= Len(s)
      BY <1>1, <2>2, <3>1
    <3>2. CASE n = Len(s)
      <4>1. ~(n + 1 <= Len(s)) /\ Len(s) - n = 0
        BY <1>1, <3>2
      <4>2. Len(b) = 0
        BY <2>2, <4>1
      <4>3. DOMAIN b = 1 .. Len(b)
        BY <2>2
      <4> QED
        BY <4>1, <4>2, <4>3
    <3>3. n + 1 <= Len(s) \/ n = Len(s)
      <4>1. n \in Int /\ n <= Len(s) /\ Len(s) \in Int
        BY <1>1
      <4> QED
        BY <4>1
    <3> QED
      BY <3>1, <3>2, <3>3
  <2>4. ASSUME NEW i \in 1 .. Len(s) - n
        PROVE  b[i] = s[n + i]
    <3>1. Len(s) - (n + 1) + 1 = Len(s) - n /\ (n + 1) + i - 1 = n + i
      BY <1>1
    <3> QED
      BY <2>2, <3>1
  <2> QED
    BY <2>2, <2>3, <2>4
<1> HIDE DEF a, b
<1>4. Increasing(a) /\ Increasing(b)
  <2>1. Increasing(a)
    BY <1>1, <1>2 DEF Increasing
  <2>2. ASSUME NEW i \in DOMAIN b, NEW j \in DOMAIN b, i < j
        PROVE  b[i] < b[j]
    <3>1. i \in 1 .. Len(s) - n /\ j \in 1 .. Len(s) - n
      BY <1>3
    <3>2. n + i \in 1 .. Len(s) /\ n + j \in 1 .. Len(s) /\ n + i < n + j
      BY SMTT(30), <1>1, <2>2, <3>1
    <3> QED
      BY <1>1, <1>3, <3>1, <3>2 DEF Increasing
  <2> QED
    BY <2>1, <2>2 DEF Increasing
<1>5. ASSUME NEW x \in Range(a), NEW y \in Range(b)
      PROVE  x < y
  <2>1. PICK i \in 1 .. n : x = s[i]
    BY <1>2 DEF Range
  <2>2. PICK j \in 1 .. Len(s) - n : y = s[n + j]
    BY <1>3 DEF Range
  <2> QED
    BY SMTT(30), <1>1, <2>1, <2>2 DEF Increasing
<1>6. ASSUME NEW x
      PROVE  x \in Range(s) <=> x \in Range(a) \/ x \in Range(b)
  <2>1. ASSUME x \in Range(s)
        PROVE  x \in Range(a) \/ x \in Range(b)
    <3>1. PICK i \in 1 .. Len(s) : x = s[i]
      BY <1>1, <2>1 DEF Range
    <3>2. CASE i <= n
      <4>1. i \in 1 .. n
        BY <3>1, <3>2
      <4> QED
        BY <1>2, <3>1, <4>1 DEF Range
    <3>3. CASE i > n
      <4>1. i - n \in 1 .. Len(s) - n /\ b[i - n] = s[i]
        BY <1>1, <1>3, <3>1, <3>3
      <4> QED
        BY <1>3, <3>1, <4>1 DEF Range
    <3> QED
      BY <1>1, <3>2, <3>3
  <2>2. ASSUME x \in Range(a)
        PROVE  x \in Range(s)
    BY <1>1, <1>2, <2>2 DEF Range
  <2>3. ASSUME x \in Range(b)
        PROVE  x \in Range(s)
    <3>1. PICK j \in 1 .. Len(s) - n : x = s[n + j]
      BY <1>3, <2>3 DEF Range
    <3>2. n + j \in DOMAIN s
      BY <1>1
    <3> QED
      BY <3>1, <3>2 DEF Range
  <2> QED
    BY <2>1, <2>2, <2>3
<1> QED
  BY <1>2, <1>3, <1>4, <1>5, <1>6 DEF a, b
-----------------------------------------------------------------------------
Notes == Ids /\ Shown

(* A step that leaves the notifications alone, and lets no second poll begin. *)
LEMMA NotesFrame ==
  ASSUME Notes, UNCHANGED <<queue, made, pushed, drained, shown>>,
         \A r \in Polls : call'[r] = "waiting" => call[r] = "waiting" \/ drained[r] = <<>>,
         \A r \in All : call'[r] = "ok" => call[r] = "ok",
         \A r \in All : answer[r] # None => answer'[r] # None,
         \A p, r \in Polls : /\ call'[p] \notin {"new"} \cup Ended
                            /\ call'[r] \notin {"new"} \cup Ended => p = r
  PROVE  Notes'
<1>1. Ids'
  BY DEF Notes, Ids
<1>2. Shown'
  BY EmptyRange DEF Notes, Shown, All
<1> QED
  BY <1>1, <1>2 DEF Notes

LEMMA NotifyKeepsNotes ==
  ASSUME Notes, NEW b, notify_blocked_connection(b)
  PROVE  Notes'
<1> DEFINE full == Len(queue) >= QUEUE_CAP
           rest == IF full THEN Tail(queue) ELSE queue
           out == IF full THEN {Head(queue)} ELSE {}
<1>1. /\ made \in Nat /\ queue \in Seq(Nat) /\ Increasing(queue)
      /\ 1 .. made = Range(queue) \cup pushed \cup UNION {Range(drained[r]) : r \in Polls}
  BY DEF Notes, Ids
<1>2. /\ made' = made + 1 /\ queue' = Append(rest, made + 1) /\ pushed' = pushed \cup out
      /\ UNCHANGED <<drained, shown, call, answer>>
  BY DEF notify_blocked_connection, enqueue, gui
<1>3. /\ rest \in Seq(Nat) /\ Increasing(rest) /\ Range(queue) = Range(rest) \cup out
      /\ Range(rest) \cap out = {}
  <2>1. CASE ~full
    BY <1>1, <2>1
  <2>2. CASE full
    <3>1. queue # <<>> /\ Len(queue) \in Nat /\ Len(queue) >= 1 /\ DOMAIN queue = 1 .. Len(queue)
      <4>1. QUEUE_CAP \in Nat /\ QUEUE_CAP > 0
        BY ClientAssumption
      <4> QED
        BY <1>1, <2>2, <4>1
    <3> DEFINE h == SubSeq(queue, 1, 1)
               t == SubSeq(queue, 1 + 1, Len(queue))
    <3>2. /\ h \in Seq(Nat) /\ t \in Seq(Nat) /\ Increasing(t) /\ Range(queue) = Range(h) \cup Range(t)
          /\ \A x \in Range(h), y \in Range(t) : x < y
      <4>1. 1 \in 0 .. Len(queue)
        BY <3>1
      <4> QED
        BY <1>1, <4>1, IncreasingSplit
    <3>3. t = Tail(queue)
      BY <1>1, <3>1, TailIsSubSeq
    <3>4. Range(h) = {Head(queue)} /\ Head(queue) \in Nat
      <4>1. queue[1] \in Nat /\ Head(queue) = queue[1]
        BY <1>1, <3>1
      <4>2. Len(h) = 1 /\ h[1] = queue[1] /\ DOMAIN h = 1 .. Len(h)
        BY <1>1, <3>1, <3>2, <4>1, SubSeqProperties
      <4>3. DOMAIN h = {1}
        BY <4>2
      <4> HIDE DEF h
      <4> QED
        BY <4>1, <4>2, <4>3 DEF Range
    <3> HIDE DEF h, t
    <3>5. \A y \in Range(t) : Head(queue) # y
      <4>1. Range(t) \subseteq Nat
        BY <3>2 DEF Range
      <4> QED
        BY <3>2, <3>4, <4>1
    <3> QED
      BY <2>2, <3>2, <3>3, <3>4, <3>5
  <2> QED
    BY <2>1, <2>2
<1> HIDE DEF rest, out, full
<1>4. \A x \in 1 .. made : x \in Nat /\ x < made + 1
  BY <1>1
<1>5. Range(rest) \subseteq 1 .. made
  BY <1>1, <1>3
<1>6. queue' \in Seq(Nat) /\ Increasing(queue') /\ Range(queue') = Range(rest) \cup {made + 1}
  <2>1. made + 1 \in Nat /\ \A x \in Range(rest) : x < made + 1
    BY <1>1, <1>4, <1>5
  <2>2. Append(rest, made + 1) \in Seq(Nat) /\ Increasing(Append(rest, made + 1))
    BY <1>3, <2>1, IncreasingAppend
  <2>3. Range(Append(rest, made + 1)) = Range(rest) \cup {made + 1}
    BY <1>3, <2>1, RangeFacts
  <2> QED
    BY <1>2, <2>2, <2>3
<1>7. 1 .. made' = (1 .. made) \cup {made + 1} /\ made' \in Nat /\ made + 1 \notin 1 .. made
  BY <1>1, <1>2
<1>8. \A r \in Polls : Range(drained[r]) \subseteq 1 .. made
  BY <1>1
<1>9. pushed \subseteq 1 .. made /\ out \subseteq 1 .. made
  BY <1>1, <1>3
<1>10. Ids'
  <2>1. 1 .. made' = Range(queue') \cup pushed' \cup UNION {Range(drained'[r]) : r \in Polls}
    BY <1>1, <1>2, <1>3, <1>6, <1>7
  <2>2. Range(queue') \cap pushed' = {}
    BY <1>2, <1>3, <1>5, <1>6, <1>7, <1>9 DEF Notes, Ids
  <2>3. \A r \in Polls : Range(drained'[r]) \cap pushed' = {}
    <3>1. \A r \in Polls : \A d \in Range(drained[r]) : d \notin out
      <4>1. \A r \in Polls : \A d \in Range(drained[r]), q \in Range(queue) : d \in Nat /\ q \in Nat /\ d < q
        <5>1. Range(queue) \subseteq Nat /\ \A r \in Polls : Range(drained[r]) \subseteq Nat
          BY <1>1, <1>4, <1>8
        <5> QED
          BY <5>1 DEF Notes, Ids
      <4>2. \A r \in Polls : \A d \in Range(drained[r]), q \in Range(queue) : d # q
        BY <4>1
      <4> QED
        BY <1>3, <4>2
    <3> QED
      BY <1>2, <3>1 DEF Notes, Ids
  <2>4. \A r \in Polls : \A d \in Range(drained'[r]), q \in Range(queue') : d < q
    BY SMTT(30), <1>2, <1>3, <1>4, <1>6, <1>8 DEF Notes, Ids
  <2> QED
    BY <1>2, <1>6, <1>7, <2>1, <2>2, <2>3, <2>4 DEF Notes, Ids
<1>11. Shown'
  <2>1. Range(shown') \subseteq 1 .. made'
    BY <1>2, <1>7 DEF Notes, Shown
  <2>2. \A s \in Range(shown'), q \in Range(queue') : s < q
    BY <1>2, <1>3, <1>4, <1>6 DEF Notes, Shown
  <2> QED
    BY <1>2, <2>1, <2>2 DEF Notes, Shown
<1> QED
  BY <1>10, <1>11 DEF Notes

(* A poll takes the oldest notifications, for good; any other call none. *)
LEMMA DrainKeepsNotes ==
  ASSUME ClientInv, Notes, NEW k \in Pipes, handle_request(k)
  PROVE  Notes'
<1> DEFINE r == pipe[k].serving
           n == IF PollSize < Len(queue) THEN PollSize ELSE Len(queue)
<1>1. /\ pipe[k].task = "handling" /\ pipe[k] \in PipeState /\ r \in All /\ r # None
  <2>1. pipe[k] \in PipeState /\ pipe[k].task = "handling"
    BY DEF handle_request, ClientInv, CallType, Pipes
  <2>2. r # None
    BY <2>1 DEF ClientInv, Single, Sound
  <2> QED
    BY <2>1, <2>2 DEF PipeState
<1>2. drained[r] = <<>> /\ worker[r] \in Written /\ answer[r] = None
  <2>1. Pending(pipe[k], r) /\ Carries(pipe[k], r)
    BY <1>1 DEF Pending, Carries
  <2> QED
    BY <1>1, <2>1 DEF ClientInv, Tokens, Undrained
<1>3. /\ queue \in Seq(Nat) /\ Increasing(queue) /\ Len(queue) \in Nat /\ n \in 0 .. Len(queue)
      /\ PollSize \in Nat /\ r \in Polls => Taken(r) = SubSeq(queue, 1, n)
  BY ClientAssumption DEF Notes, Ids, Taken
<1>4. /\ UNCHANGED <<made, pushed, shown, call, answer>>
      /\ queue' = SubSeq(queue, Len(Taken(r)) + 1, Len(queue))
      /\ drained' = [drained EXCEPT ![r] = Taken(r)]
  BY DEF handle_request, drain, HandlerStep, gui
<1>5. \A x \in All : drained'[x] = IF x = r THEN Taken(r) ELSE drained[x]
  BY <1>1, <1>4 DEF ClientInv, Undrained
<1>6. CASE r \notin Polls
  <2>1. Taken(r) = <<>> /\ Len(<<>>) = 0
    BY <1>6 DEF Taken
  <2>2. queue' = SubSeq(queue, 1, Len(queue))
    BY <1>4, <2>1
  <2>3. queue' = queue
    BY <1>3, <2>2, SubSeqFull
  <2>4. \A x \in All : drained'[x] = drained[x]
    BY <1>2, <1>5, <2>1
  <2>5. drained' = drained
    BY <1>4, <2>4 DEF ClientInv, Undrained
  <2> QED
    BY <1>4, <2>3, <2>5, NotesFrame DEF Notes, Shown
<1>7. CASE r \in Polls
  <2> DEFINE a == SubSeq(queue, 1, n)
             b == SubSeq(queue, n + 1, Len(queue))
  <2>1. /\ a \in Seq(Nat) /\ Increasing(a) /\ b \in Seq(Nat) /\ Increasing(b)
        /\ Range(queue) = Range(a) \cup Range(b)
        /\ \A x \in Range(a), y \in Range(b) : x < y
    BY <1>3, IncreasingSplit
  <2>2. Len(a) = n
    <3>1. \A i \in 1 .. n : queue[i] \in Nat
      BY <1>3
    <3>2. n \in Nat
      BY <1>3
    <3>3. Len(a) = IF 1 <= n THEN n - 1 + 1 ELSE 0
      BY <3>1, <3>2, SubSeqProperties
    <3> HIDE DEF n, a
    <3> QED
      BY <3>2, <3>3
  <2>3. queue' = b /\ Taken(r) = a
    <3>1. Taken(r) = a
      BY <1>7 DEF Taken
    <3>2. Len(Taken(r)) = n
      BY <2>2, <3>1
    <3>3. queue' = SubSeq(queue, Len(Taken(r)) + 1, Len(queue))
      BY <1>4
    <3> QED
      BY <3>1, <3>2, <3>3
  <2> HIDE DEF a, b, n
  <2>4. Range(a) \subseteq Nat /\ Range(b) \subseteq Nat /\ \A x \in Range(a) : x \notin Range(b)
    <3>1. Range(a) \subseteq Nat /\ Range(b) \subseteq Nat
      BY <2>1 DEF Range
    <3>2. \A x \in Nat : ~(x < x)
      OBVIOUS
    <3> QED
      BY <2>1, <3>1, <3>2
  <2>5. Range(drained[r]) = {}
    BY <1>2, EmptyRange
  <2>6. \A p \in Polls : Range(drained'[p]) = IF p = r THEN Range(a) ELSE Range(drained[p])
    BY <1>5, <2>3 DEF All
  <2>7. Ids'
    <3>1. made' \in Nat /\ queue' \in Seq(Nat) /\ Increasing(queue')
      BY <1>4, <2>1, <2>3 DEF Notes, Ids
    <3>2. /\ \A x \in All : drained'[x] \in Seq(Nat) /\ Increasing(drained'[x])
          /\ \A x \in Calls : drained'[x] = <<>>
      BY <1>5, <1>7, <2>1, <2>3, ClientAssumption DEF Notes, Ids, All
    <3>3. 1 .. made' = Range(queue') \cup pushed' \cup UNION {Range(drained'[p]) : p \in Polls}
      <4>1. 1 .. made = Range(queue) \cup pushed \cup UNION {Range(drained[p]) : p \in Polls}
        BY DEF Notes, Ids
      <4>2. UNION {Range(drained'[p]) : p \in Polls} = Range(a) \cup UNION {Range(drained[p]) : p \in Polls}
        BY <1>7, <2>5, <2>6
      <4> QED
        BY <1>4, <2>1, <2>3, <4>1, <4>2
    <3>4. Range(queue') \cap pushed' = {} /\ \A p \in Polls : Range(drained'[p]) \cap pushed' = {}
      BY <1>4, <2>1, <2>3, <2>6 DEF Notes, Ids
    <3>5. \A p \in Polls : \A d \in Range(drained'[p]), q \in Range(queue') : d < q
      BY <2>1, <2>3, <2>6 DEF Notes, Ids
    <3>6. \A p \in Polls : p # r => Range(drained[p]) \cap Range(a) = {}
      <4>1. \A p \in Polls : \A d \in Range(drained[p]), x \in Range(a) : d < x
        BY <2>1 DEF Notes, Ids
      <4>2. \A x \in Range(a) : ~(x < x)
        BY <2>4
      <4> QED
        BY <4>1, <4>2
    <3>7. \A p, q \in Polls : p # q => Range(drained'[p]) \cap Range(drained'[q]) = {}
      BY <2>6, <3>6 DEF Notes, Ids
    <3> QED
      BY <3>1, <3>2, <3>3, <3>4, <3>5, <3>7 DEF Ids
  <2>8. Shown'
    <3>1. \A s \in Range(shown'), q \in Range(queue') : s < q
      BY <1>4, <2>1, <2>3 DEF Notes, Shown
    <3>2. \A p \in Polls : call'[p] = "waiting" => \A s \in Range(shown'), d \in Range(drained'[p]) : s < d
      BY <1>4, <2>1, <2>6 DEF Notes, Shown
    <3>3. call[r] # "ok"
      BY <1>1, <1>2 DEF Notes, Shown
    <3>4. \A p \in Polls : call'[p] = "ok" => Range(drained'[p]) \subseteq Range(shown')
      BY <1>4, <2>6, <3>3 DEF Notes, Shown
    <3> QED
      BY <1>4, <3>1, <3>2, <3>4 DEF Notes, Shown
  <2> QED
    BY <2>7, <2>8 DEF Notes
<1> QED
  BY <1>6, <1>7

(* The process ends: what waits is lost with it. *)
LEMMA ExitKeepsNotes ==
  ASSUME Notes, Exit
  PROVE  Notes'
<1>1. /\ pushed' = pushed \cup Range(queue) /\ queue' = <<>>
      /\ UNCHANGED <<made, drained, shown, call, answer>>
  BY DEF Exit, gui
<1>2. queue' \in Seq(Nat) /\ Increasing(queue') /\ Range(queue') = {}
  BY <1>1, EmptyRange DEF Increasing
<1>3. Ids'
  <2>1. 1 .. made' = Range(queue') \cup pushed' \cup UNION {Range(drained'[p]) : p \in Polls}
    BY <1>1, <1>2 DEF Notes, Ids
  <2>2. \A p \in Polls : Range(drained[p]) \cap Range(queue) = {}
    <3>1. Range(queue) \subseteq Nat
      BY DEF Notes, Ids, Range
    <3>2. \A x \in Range(queue) : ~(x < x)
      BY <3>1
    <3> QED
      BY <3>2 DEF Notes, Ids
  <2> QED
    BY <1>1, <1>2, <2>1, <2>2 DEF Notes, Ids
<1>4. Shown'
  BY <1>1, <1>2 DEF Notes, Shown
<1> QED
  BY <1>3, <1>4 DEF Notes

(* A poll that succeeds shows what it was given, behind what was shown. *)
LEMMA ReturnKeepsNotes ==
  ASSUME ClientInv, Notes, NEW r \in All, Return(r)
  PROVE  Notes'
<1>1. /\ UNCHANGED <<queue, made, pushed, drained, answer>>
      /\ call[r] = "waiting" /\ call' = [call EXCEPT ![r] = IF answer[r] = None THEN "error" ELSE "ok"]
      /\ shown' = IF answer[r] = None THEN shown ELSE shown \o drained[answer[r]]
  BY DEF Return, ShowNotifications, GuiStep, notifier
<1>2. \A x \in All : call'[x] = IF x = r THEN (IF answer[r] = None THEN "error" ELSE "ok") ELSE call[x]
  BY <1>1 DEF ClientInv, CallType
<1>3. /\ \A x \in All : call'[x] = "waiting" => call[x] = "waiting" /\ x # r
      /\ \A p, x \in Polls : /\ call'[p] \notin {"new"} \cup Ended
                            /\ call'[x] \notin {"new"} \cup Ended => p = x
  BY <1>2 DEF Notes, Shown, All, Ended
<1>4. \A x \in All : call'[x] = "ok" => answer'[x] # None
  BY <1>1, <1>2 DEF Notes, Shown
<1>5. CASE answer[r] = None
  <2>1. \A x \in All : call'[x] = "ok" => call[x] = "ok"
    BY <1>2, <1>5
  <2>2. shown' = shown
    BY <1>1, <1>5
  <2> QED
    BY <1>1, <1>3, <2>1, <2>2, NotesFrame DEF All
<1>6. CASE answer[r] # None
  <2>1. shown' = shown \o drained[r]
    BY <1>1, <1>6 DEF ClientInv, OwnAnswer
  <2>2. /\ shown \in Seq(Nat) /\ Increasing(shown) /\ drained[r] \in Seq(Nat) /\ Increasing(drained[r])
    BY DEF Notes, Shown, Ids
  <2>3. \A s \in Range(shown), d \in Range(drained[r]) : s < d
    <3>1. CASE r \in Polls
      BY <1>1, <3>1 DEF Notes, Shown
    <3>2. CASE r \in Calls
      BY <3>2, EmptyRange DEF Notes, Ids
    <3> QED
      BY <3>1, <3>2 DEF All
  <2>4. shown' \in Seq(Nat) /\ Increasing(shown') /\ Range(shown') = Range(shown) \cup Range(drained[r])
    BY <2>1, <2>2, <2>3, IncreasingConcat
  <2>5. Range(drained[r]) \subseteq 1 .. made /\ \A d \in Range(drained[r]), q \in Range(queue) : d < q
    <3>1. CASE r \in Polls
      BY <3>1 DEF Notes, Ids
    <3>2. CASE r \in Calls
      BY <3>2, EmptyRange DEF Notes, Ids
    <3> QED
      BY <3>1, <3>2 DEF All
  <2>6. \A p \in Polls : call'[p] # "waiting" \/ Range(shown') = Range(shown)
    <3>1. CASE r \in Polls
      BY <1>1, <1>3, <3>1 DEF Notes, Shown, Ended, All
    <3>2. CASE r \in Calls
      BY <2>4, <3>2, EmptyRange DEF Notes, Ids
    <3> QED
      BY <3>1, <3>2 DEF All
  <2>7. Ids'
    BY <1>1 DEF Notes, Ids
  <2>8. \A p \in Polls : call'[p] = "waiting" => \A s \in Range(shown'), d \in Range(drained'[p]) : s < d
    BY <1>1, <1>3, <2>6 DEF Notes, Shown, All
  <2>9. \A p \in Polls : call'[p] = "ok" => Range(drained'[p]) \subseteq Range(shown')
    BY <1>1, <1>2, <2>4 DEF Notes, Shown, All
  <2>10. Shown'
    BY <1>1, <1>3, <1>4, <2>4, <2>5, <2>8, <2>9 DEF Notes, Shown
  <2> QED
    BY <2>7, <2>10 DEF Notes
<1> QED
  BY <1>5, <1>6

LEMMA NotesInit == ClientInit => Notes
<1> SUFFICES ASSUME ClientInit
             PROVE  Notes
  OBVIOUS
<1>1. Range(<<>>) = {} /\ <<>> \in Seq(Nat) /\ Increasing(<<>>)
  BY EmptyRange DEF Increasing
<1>2. Ids
  BY <1>1 DEF ClientInit, Ids, All
<1>3. Shown
  BY <1>1 DEF ClientInit, Shown, All
<1> QED
  BY <1>2, <1>3 DEF Notes

LEMMA NotesStep == ClientInv /\ Notes /\ [ClientNext]_vars => Notes'
<1> SUFFICES ASSUME ClientInv, Notes, [ClientNext]_vars
             PROVE  Notes'
  OBVIOUS
<1>1. ASSUME UNCHANGED <<queue, made, pushed, drained, shown, call, answer>>
      PROVE  Notes'
  BY <1>1 DEF Notes, Ids, Shown
<1>2. ASSUME NEW b \in Blocked, notify_blocked_connection(b)
      PROVE  Notes'
  BY <1>2, NotifyKeepsNotes
<1>3. ASSUME NEW b \in Blocked, cleanup_expired(b)
      PROVE  Notes'
  BY <1>1, <1>3 DEF cleanup_expired, gui
<1>4. CASE set_enabled
  BY <1>1, <1>4 DEF set_enabled, gui
<1>5. CASE LoopEnds \/ create_named_pipe \/ AwaitClient \/ Accept \/ Shutdown
  BY <1>1, <1>5 DEF LoopEnds, create_named_pipe, AwaitClient, Accept, Shutdown, ListenerStep, notifier, gui
<1>6. CASE stop
  BY <1>1, <1>6 DEF stop, notifier, gui
<1>7. CASE Exit
  BY <1>7, ExitKeepsNotes
<1>8. ASSUME NEW k \in Pipes, handle_request(k)
      PROVE  Notes'
  BY <1>8, DrainKeepsNotes
<1>9. ASSUME NEW k \in Pipes, ReadRequest(k) \/ WriteResponse(k) \/ CloseConnection(k)
      PROVE  Notes'
  BY <1>1, <1>9 DEF ReadRequest, WriteResponse, CloseConnection, HandlerStep, notifier, gui
<1>10. ASSUME NEW r \in All, send_request(r)
       PROVE  Notes'
  <2>1. UNCHANGED <<queue, made, pushed, drained, shown, answer>>
    BY <1>10 DEF send_request, GuiStep, notifier
  <2>2. call[r] = "new" /\ \A x \in All : call'[x] = IF x = r THEN "waiting" ELSE call[x]
    BY <1>10 DEF send_request, ClientInv, CallType
  <2>3. drained[r] = <<>>
    BY <2>2 DEF ClientInv, Turns, Undrained, Written, Gone
  <2>4. \A p, x \in Polls : /\ call'[p] \notin {"new"} \cup Ended
                           /\ call'[x] \notin {"new"} \cup Ended => p = x
    <3>1. CASE r \in Polls
      <4>1. \A p \in Polls : call[p] \in {"new"} \cup Ended
        BY <1>10, <3>1 DEF send_request
      <4> QED
        BY <2>2, <4>1 DEF All
    <3>2. CASE r \notin Polls
      BY <2>2, <3>2 DEF Notes, Shown, All
    <3> QED
      BY <3>1, <3>2
  <2> QED
    BY <2>1, <2>2, <2>3, <2>4, NotesFrame DEF All
<1>11. ASSUME NEW r \in All, RegisterThread(r) \/ EnterClient(r) \/ connect(r) \/ WriteRequest(r)
       PROVE  Notes'
  BY <1>1, <1>11 DEF RegisterThread, EnterClient, connect, WriteRequest, GuiStep, notifier
<1>12. ASSUME NEW r \in All, ReadResponse(r)
       PROVE  Notes'
  <2>1. UNCHANGED <<queue, made, pushed, drained, shown, call>>
    BY <1>12 DEF ReadResponse, GuiStep, notifier
  <2>2. \A x \in All : answer[x] # None => answer'[x] # None
    <3>1. CASE UNCHANGED answer
      BY <3>1
    <3>2. CASE ~UNCHANGED answer
      <4> DEFINE k == client[Owner(r)]
      <4>1. answer' = [answer EXCEPT ![r] = Head(pipe[k].response)] /\ pipe[k].response # <<>>
        BY <1>12, <3>2 DEF ReadResponse
      <4>2. k \in Pipes
        BY <1>12, OwnerType DEF ReadResponse, ClientInv, Turns, Connected
      <4>3. pipe[k] \in PipeState
        BY <4>2 DEF ClientInv, CallType, Pipes
      <4>4. Head(pipe[k].response) \in All
        BY <4>1, <4>3, RangeFacts DEF PipeState
      <4>5. None \notin All
        BY ClientAssumption DEF All
      <4>6. answer \in [All -> All \cup {None}]
        BY DEF ClientInv, CallType
      <4> QED
        BY <4>1, <4>4, <4>5, <4>6
    <3> QED
      BY <3>1, <3>2
  <2> QED
    BY <2>1, <2>2, NotesFrame DEF Notes, Shown
<1>13. ASSUME NEW r \in All, Return(r)
       PROVE  Notes'
  BY <1>13, ReturnKeepsNotes
<1>14. ASSUME NEW r \in All, Timeout(r) \/ CancelAgain(r)
       PROVE  Notes'
  <2>1. UNCHANGED <<queue, made, pushed, drained, shown, answer>>
    BY <1>14 DEF Timeout, CancelAgain, GuiStep, notifier
  <2>2. /\ call[r] \in {"waiting", "cancelling"}
        /\ \E to \in {"cancelling", "timeout"} : \A x \in All : call'[x] = IF x = r THEN to ELSE call[x]
    BY <1>14 DEF Timeout, CancelAgain, ClientInv, CallType
  <2>3. \A p, x \in Polls : /\ call'[p] \notin {"new"} \cup Ended
                           /\ call'[x] \notin {"new"} \cup Ended => p = x
    <3>1. \A x \in All : call'[x] \notin {"new"} \cup Ended => call[x] \notin {"new"} \cup Ended
      BY <2>2 DEF Ended
    <3> QED
      BY <3>1 DEF Notes, Shown, All
  <2> QED
    BY <2>1, <2>2, <2>3, NotesFrame DEF All
<1>15. CASE UNCHANGED vars
  BY <1>1, <1>15 DEF vars, notifier, gui
<1> QED
  BY <1>2, <1>3, <1>4, <1>5, <1>6, <1>7, <1>8, <1>9, <1>10, <1>11, <1>12, <1>13, <1>14, <1>15 DEF ClientNext

LEMMA NotesKept == ClientInv /\ Notes => NotificationsKept
<1> SUFFICES ASSUME ClientInv, Notes
             PROVE  NotificationsKept
  OBVIOUS
<1>1. ASSUME NEW s \in Seq(Nat), NEW x
      PROVE  Contains(s, x) <=> x \in Range(s)
  BY DEF Contains, Range
<1>2. ASSUME NEW id \in 1 .. made, NEW polls, polls = {r \in Polls : Contains(drained[r], id)}
      PROVE  (IF Contains(queue, id) THEN 1 ELSE 0) + (IF id \in pushed THEN 1 ELSE 0) + Cardinality(polls) = 1
  <2>1. queue \in Seq(Nat) /\ \A r \in Polls : drained[r] \in Seq(Nat)
    BY DEF Notes, Ids, All
  <2>2. polls = {r \in Polls : id \in Range(drained[r])} /\ (Contains(queue, id) <=> id \in Range(queue))
    BY <1>1, <1>2, <2>1
  <2>3. Cardinality({}) = 0 /\ \A x : Cardinality({x}) = 1
    BY FS_EmptySet, FS_Singleton
  <2>4. CASE id \in Range(queue)
    <3>1. Range(queue) \subseteq Nat
      BY <2>1 DEF Range
    <3>2. ~(id < id)
      BY <2>4, <3>1
    <3>3. id \notin pushed /\ polls = {}
      BY <2>2, <2>4, <3>2 DEF Notes, Ids
    <3> QED
      BY <2>2, <2>3, <2>4, <3>3
  <2>5. CASE id \in pushed
    <3>1. id \notin Range(queue) /\ polls = {}
      BY <2>2, <2>5 DEF Notes, Ids
    <3> QED
      BY <2>2, <2>3, <2>5, <3>1
  <2>6. CASE id \notin Range(queue) /\ id \notin pushed
    <3>1. PICK r \in Polls : id \in Range(drained[r])
      BY <2>6 DEF Notes, Ids
    <3>2. polls = {r}
      BY <2>2, <3>1 DEF Notes, Ids
    <3>3. Cardinality(polls) = 1
      BY <3>2, FS_Singleton
    <3> QED
      BY <2>2, <2>6, <3>3
  <2> QED
    BY <2>4, <2>5, <2>6
<1>3. \A i, j \in DOMAIN shown : i < j => shown[i] < shown[j]
  BY DEF Notes, Shown, Increasing
<1>4. \A r \in Polls : call[r] = "ok" => Range(drained[r]) \subseteq Range(shown)
  BY DEF Notes, Shown
<1> QED
  BY <1>2, <1>3, <1>4 DEF NotificationsKept

(* Every notification waits, was pushed out or lost with the process, or was
   given to one poll, and what a successful poll was given is shown, once and in
   order, however calls and polls time out, are cancelled or are handled late
   (enqueue, drain, spawn_notification_poller). *)
THEOREM NoNotificationTwice == ClientSpec => []NotificationsKept
<1>1. ClientSpec => []Notes
  BY ClientInvariant, NotesInit, NotesStep, PTL DEF ClientSpec
<1> QED
  BY <1>1, ClientInvariant, NotesKept, PTL
=============================================================================
