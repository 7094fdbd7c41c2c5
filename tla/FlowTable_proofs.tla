-------------------------- MODULE FlowTable_proofs --------------------------
(***************************************************************************)
(* FlowTable for any number of flows, processors and slots: who owns a     *)
(* context, what is reported of its bytes, what the registry knows, what   *)
(* unloading leaves and which process a connection is charged to.          *)
(*                                                                         *)
(* FlowInv says more than the properties: that a context and its owner     *)
(* agree on the flow (Owned), that a classify holds a context only while   *)
(* its owner keeps it (Held), what the registry has to know (Listed),      *)
(* which of its slots may be lost (Surplus), how far unloading has got     *)
(* (Emptied), that a connection has one slot and the last one is not the   *)
(* next to be overwritten (Recorded), and that what was counted is in the  *)
(* contexts (Reported).                                                    *)
(*                                                                         *)
(* The bytes of a set of contexts are a fold. That they can be summed in   *)
(* any order (BytesSplit) is proved over a smallest set that would be      *)
(* summed otherwise: inclusion between subsets of a finite set is well     *)
(* founded.                                                                *)
(***************************************************************************)
EXTENDS FlowTable, FiniteSetTheorems, WellFoundedInduction, TLAPS

Context == [flow : Flows, bytes : Nat]
SlotType == {EmptySlot} \cup [flow : Flows, ctx : Addrs]
TupleType == [tuple : Tuples \cup {None}, pid : Pids \cup {0}]
Deletion == [ctx : Addrs, flow : Flows, pc : {"owed", "removed"}]
Classify ==
  {Idle} \cup [pc : {"associate"}, layer : Callouts, flow : Flows, id : BOOLEAN]
         \cup [pc : {"count"}, layer : {"stream"}, flow : Flows, ctx : Addrs]
         \cup [pc : {"register"}, layer : Callouts, flow : Flows, ctx : Addrs, late : BOOLEAN]
Unloading ==
  [pc : {"loaded"}]
    \cup [pc : {"sweep"}, pass : Nat, slot : Slots, found : BOOLEAN]
    \cup [pc : {"remove"}, pass : Nat, slot : Slots, flow : Flows]
    \cup [pc : {"unregister"}, which : Callouts, tries : Nat, gaveUp : BOOLEAN]
    \cup [pc : {"unloaded"}, gaveUp : BOOLEAN]

FlowType ==
  /\ s_FlowRegistry \in [Slots -> SlotType]
  /\ ctx \in [Addrs -> Context \cup {None}]
  /\ callout \in [known : BOOLEAN, registered : SUBSET Callouts]
  /\ attached \in [Flows -> Addrs \cup {None}]
  /\ deleting \subseteq Deletion
  /\ cpu \in [Cpus -> Classify]
  /\ unload \in Unloading
  /\ races \in Nat

(* A context is its flow's, or is being given back, once; and nothing else is. *)
Owned ==
  /\ \A f \in Flows : attached[f] # None => ctx[attached[f]] # None /\ ctx[attached[f]].flow = f
  /\ \A d \in deleting : /\ ctx[d.ctx] # None /\ ctx[d.ctx].flow = d.flow
                         /\ attached[d.flow] # d.ctx
  /\ \A d, e \in deleting : d.ctx = e.ctx => d = e
  /\ \A a \in Addrs : ctx[a] # None => \/ attached[ctx[a].flow] = a
                                       \/ \E d \in deleting : d.ctx = a

(* The flow f has the context a or is about to give it back. *)
Keeps(f, a) == attached[f] = a \/ \E d \in deleting : d.ctx = a /\ d.flow = f /\ d.pc = "owed"

Enters(c) == cpu[c].pc = "register" /\ cpu[c].late = FALSE
Holds(c) == cpu[c].pc = "count" \/ Enters(c)

(* A classify uses a context as long as the flow keeps it, and one call enters
   it in the registry. *)
Held ==
  /\ \A c \in Cpus : Holds(c) => Keeps(cpu[c].flow, cpu[c].ctx)
  /\ \A c, e \in Cpus : (Enters(c) /\ Enters(e) /\ cpu[c].ctx = cpu[e].ctx) => c = e

(* Until unloading starts, a context has a slot, or was refused one, or a
   classify is about to enter it. *)
Listed ==
  unload.pc = "loaded" =>
    \A f \in Flows :
      \/ attached[f] = None
      \/ attached[f] \in refused
      \/ \E c \in Cpus : Enters(c) /\ cpu[c].flow = f /\ cpu[c].ctx = attached[f]
      \/ \E i \in Slots : s_FlowRegistry[i] = [flow |-> f, ctx |-> attached[f]]

(* A registration that lost the race with the deletion of its context. *)
Late == {c \in Cpus : cpu[c].pc = "register" /\ cpu[c].late}

(* The slots M are lost: the others hold a context each that its flow keeps
   and that no classify has yet to enter. *)
Others(M) == {i \in Slots \ M : s_FlowRegistry[i].ctx # None}
Lost(M) ==
  /\ \A i \in Others(M) :
       /\ Keeps(s_FlowRegistry[i].flow, s_FlowRegistry[i].ctx)
       /\ Registering(s_FlowRegistry[i].ctx) = {}
       /\ \A j \in Others(M) : s_FlowRegistry[i].ctx = s_FlowRegistry[j].ctx => i = j
Surplus == \E M \in SUBSET Slots : Lost(M) /\ Cardinality(M) + Cardinality(Late) <= races

(* The layer the contexts belong to has been unregistered. *)
Unregistered == \/ unload.pc = "unregister" /\ unload.which = "established" /\ ~unload.gaveUp
                \/ unload.pc = "unloaded" /\ ~unload.gaveUp
Emptied ==
  /\ Unregistered =>
       /\ "stream" \notin callout.registered
       /\ \A f \in Flows : attached[f] = None
       /\ deleting = {}
       /\ \A c \in Cpus : cpu[c] # Idle => cpu[c].layer # "stream"
  /\ Unloaded /\ ~unload.gaveUp => \A c \in Cpus : cpu[c] = Idle

TuplesType ==
  /\ s_TupleTable \in [TupleSlots -> TupleType]
  /\ s_TupleNext \in TupleSlots
  /\ recorded \in [Tuples -> Pids \cup {0}]
  /\ latest \in Tuples \cup {None}

(* A slot holds the process recorded last for its tuple, a tuple has one slot,
   and the one recorded last is not in the slot to be overwritten next. *)
Recorded ==
  /\ \A i \in TupleSlots : s_TupleTable[i].pid # 0 =>
       /\ s_TupleTable[i].tuple \in Tuples
       /\ s_TupleTable[i].pid = recorded[s_TupleTable[i].tuple]
  /\ \A t \in Tuples : \A i, j \in Matches(t) : i = j
  /\ latest # None => Matches(latest) # {} /\ s_TupleNext \notin Matches(latest)

ContextInv == FlowType /\ Owned /\ Held /\ Listed /\ Surplus /\ Emptied

(* The contexts of a flow hold what was counted for it and not yet reported. *)
ContextsOf(f) == {a \in Addrs : ctx[a] # None /\ ctx[a].flow = f}
Bytes(c, S) == MapThenSumSet(LAMBDA a : c[a].bytes, S)
Reported ==
  /\ unreported \in [Flows -> Int]
  /\ \A f \in Flows : unreported[f] = Bytes(ctx, ContextsOf(f))

FlowInv == ContextInv /\ TuplesType /\ Recorded /\ Reported

-----------------------------------------------------------------------------
(* A set of slots has a first one. *)
LEMMA MinIn ==
  ASSUME NEW S \in SUBSET Nat, S # {}
  PROVE  Min(S) \in S
<1>1. PICK x \in S : \A y \in S : ~(<<y, x>> \in OpToRel(<, Nat))
  BY WFMin, NatLessThanWellFounded, Zenon
<1>2. \A y \in S : ~(y < x)
  BY <1>1, Zenon DEF OpToRel
<1>3. \A y \in S : x <= y
  BY <1>2
<1> QED
  BY <1>3, Zenon DEF Min

-----------------------------------------------------------------------------
(* The tuple table. *)

(* The slot that is written: the tuple's own, or the next. *)
LEMMA SlotWritten ==
  ASSUME TuplesType, Recorded, NEW t \in Tuples
  PROVE  /\ TupleSlot(t) \in TupleSlots
         /\ \/ Matches(t) = {} /\ TupleSlot(t) = s_TupleNext
            \/ Matches(t) = {TupleSlot(t)}
<1>1. CASE Matches(t) = {}
  BY <1>1 DEF TupleSlot, TuplesType
<1>2. CASE Matches(t) # {}
  <2>1. Matches(t) \in SUBSET Nat /\ Matches(t) \subseteq TupleSlots
    BY FlowAssumption DEF Matches, TupleSlots
  <2>2. Min(Matches(t)) \in Matches(t)
    BY <1>2, <2>1, MinIn
  <2> QED
    BY <1>2, <2>1, <2>2 DEF TupleSlot, Recorded
<1> QED
  BY <1>1, <1>2

LEMMA RecordKeeps ==
  ASSUME TuplesType, Recorded, NEW t \in Tuples, NEW pid \in Pids, FlowTupleRecordPid(t, pid)
  PROVE  /\ TuplesType' /\ Recorded'
         /\ \A u \in Tuples : latest = u => Matches(u)' # {}
<1> DEFINE p == TupleSlot(t)
<1>0. /\ s_TupleTable \in [TupleSlots -> TupleType] /\ s_TupleNext \in TupleSlots
      /\ recorded \in [Tuples -> Pids \cup {0}] /\ pid # 0
      /\ MAX_TUPLE_ENTRIES \in Nat /\ MAX_TUPLE_ENTRIES >= 2 /\ None \notin Tuples
  BY FlowAssumption DEF TuplesType
<1>1. p \in TupleSlots /\ ((Matches(t) = {} /\ p = s_TupleNext) \/ Matches(t) = {p})
  BY SlotWritten
<1>2. s_TupleNext' = IF p = s_TupleNext THEN (s_TupleNext + 1) % MAX_TUPLE_ENTRIES ELSE s_TupleNext
  BY DEF FlowTupleRecordPid, Advance
<1>3. /\ s_TupleTable' = [s_TupleTable EXCEPT ![p] = [tuple |-> t, pid |-> pid]]
      /\ recorded' = [recorded EXCEPT ![t] = pid] /\ latest' = t
  BY DEF FlowTupleRecordPid
<1> HIDE DEF p
<1>4. s_TupleNext' \in TupleSlots /\ s_TupleNext' # p
  BY <1>0, <1>1, <1>2 DEF TupleSlots
<1>5. TuplesType'
  BY <1>0, <1>1, <1>3, <1>4 DEF TuplesType, TupleType
<1>6. \A i \in TupleSlots : i # p => s_TupleTable'[i] = s_TupleTable[i]
  BY <1>0, <1>3
<1>7. s_TupleTable'[p].tuple = t /\ s_TupleTable'[p].pid = pid
  BY <1>0, <1>1, <1>3
<1>8. Matches(t)' = {p}
  BY <1>0, <1>1, <1>6, <1>7 DEF Matches
<1>9. ASSUME NEW u \in Tuples, u # t
      PROVE  Matches(u)' = Matches(u) \ {p}
  BY <1>6, <1>7, <1>9 DEF Matches
<1>10. \A i \in TupleSlots : s_TupleTable'[i].pid # 0 =>
         /\ s_TupleTable'[i].tuple \in Tuples
         /\ s_TupleTable'[i].pid = recorded'[s_TupleTable'[i].tuple]
  <2> SUFFICES ASSUME NEW i \in TupleSlots, s_TupleTable'[i].pid # 0
               PROVE  /\ s_TupleTable'[i].tuple \in Tuples
                      /\ s_TupleTable'[i].pid = recorded'[s_TupleTable'[i].tuple]
    OBVIOUS
  <2>1. CASE i = p
    BY <1>0, <1>3, <1>7, <2>1
  <2>2. CASE i # p
    <3>1. s_TupleTable'[i] = s_TupleTable[i] /\ s_TupleTable[i].tuple # t
      BY <1>1, <1>6, <2>2 DEF Matches
    <3> QED
      BY <1>0, <1>3, <3>1 DEF Recorded
  <2> QED
    BY <2>1, <2>2
<1>11. \A u \in Tuples : \A i, j \in Matches(u)' : i = j
  BY <1>8, <1>9 DEF Recorded
<1>12. (latest # None => Matches(latest) # {} /\ s_TupleNext \notin Matches(latest))'
  BY <1>3, <1>4, <1>8 DEF Matches
<1>13. Recorded'
  BY <1>10, <1>11, <1>12 DEF Recorded
<1>14. ASSUME NEW u \in Tuples, latest = u
       PROVE  Matches(u)' # {}
  <2>1. CASE u = t
    BY <1>8, <2>1
  <2>2. CASE u # t
    <3>1. Matches(u) # {} /\ s_TupleNext \notin Matches(u)
      BY <1>0, <1>14 DEF Recorded
    <3>2. p \notin Matches(u)
      BY <1>1, <2>2, <3>1 DEF Matches
    <3> QED
      BY <1>9, <2>2, <3>1, <3>2
  <2> QED
    BY <2>1, <2>2
<1> QED
  BY <1>5, <1>13, <1>14

(* What a lookup finds. *)
LEMMA LookupFinds ==
  ASSUME TuplesType, Recorded, NEW t \in Tuples
  PROVE  /\ FlowTupleLookupPid(TRUE, t) \in {0, recorded[t]}
         /\ Matches(t) # {} => FlowTupleLookupPid(TRUE, t) # 0
<1>1. CASE Matches(t) = {}
  BY <1>1 DEF FlowTupleLookupPid
<1>2. CASE Matches(t) # {}
  <2>1. Matches(t) \in SUBSET Nat
    BY FlowAssumption DEF Matches, TupleSlots
  <2>2. Min(Matches(t)) \in Matches(t)
    BY <1>2, <2>1, MinIn
  <2>3. FlowTupleLookupPid(TRUE, t) = s_TupleTable[Min(Matches(t))].pid
    BY <1>2 DEF FlowTupleLookupPid
  <2>4. \A i \in Matches(t) : s_TupleTable[i].pid = recorded[t] /\ s_TupleTable[i].pid # 0
    BY DEF Recorded, Matches
  <2> QED
    BY <2>2, <2>3, <2>4
<1> QED
  BY <1>1, <1>2

-----------------------------------------------------------------------------
(* Sums over a set of contexts: the sum does not depend on the order in which
   they are taken.  The library's induction theorems are about an operator; here
   induction is the choice of a minimal set for which the claim is false. *)

(* One iteration of MapThenSumSet. *)
First(s) == CHOOSE x \in s : TRUE
IsIter(c, S, g) == g = [s \in SUBSET S |-> IF s = {} THEN 0 ELSE c[First(s)].bytes + g[s \ {First(s)}]]
Iter(c, S) == CHOOSE g : IsIter(c, S, g)

(* The fold is its last iteration. *)
LEMMA BytesDef ==
  ASSUME NEW c, NEW S
  PROVE  Bytes(c, S) = Iter(c, S)[S]
BY Zenon DEF Bytes, MapThenSumSet, MapThenFoldSet, Iter, IsIter, First

(* A family of finite sets has one that contains no other. *)
LEMMA MinimalSet ==
  ASSUME NEW S, IsFiniteSet(S), NEW F, F \subseteq SUBSET S, F # {}
  PROVE  \E U \in F : \A V \in F : V \subseteq U => V = U
<1>1. F \subseteq FiniteSubsetsOf(S)
  BY FS_Subset DEF FiniteSubsetsOf
<1>2. PICK U \in F : \A V \in F : ~(<<V, U>> \in StrictSubsetOrdering(S))
  BY <1>1, WFMin, FS_StrictSubsetOrderingWellFounded, Zenon
<1> QED
  BY <1>2 DEF StrictSubsetOrdering

(* Two iterations agree where both are defined. *)
LEMMA IterAgree ==
  ASSUME NEW c, NEW S, IsFiniteSet(S), NEW T \in SUBSET S, NEW g, NEW h, IsIter(c, S, g), IsIter(c, T, h)
  PROVE  \A s \in SUBSET T : g[s] = h[s]
<1> DEFINE F == {s \in SUBSET T : g[s] # h[s]}
<1>1. SUFFICES ASSUME F # {} PROVE FALSE
  OBVIOUS
<1>2. IsFiniteSet(T)
  BY FS_Subset
<1>3. PICK s \in F : \A r \in F : r \subseteq s => r = s
  <2>1. F \subseteq SUBSET T
    OBVIOUS
  <2> HIDE DEF F
  <2> QED
    BY <1>1, <1>2, <2>1, MinimalSet
<1>4. /\ g[s] = IF s = {} THEN 0 ELSE c[First(s)].bytes + g[s \ {First(s)}]
      /\ h[s] = IF s = {} THEN 0 ELSE c[First(s)].bytes + h[s \ {First(s)}]
  BY DEF IsIter
<1>5. s # {} => First(s) \in s
  BY DEF First
<1>6. s # {} => s \ {First(s)} \in SUBSET T /\ s \ {First(s)} \subseteq s /\ s \ {First(s)} # s
  BY <1>5
<1>7. s # {} => g[s \ {First(s)}] = h[s \ {First(s)}]
  BY <1>3, <1>6
<1> QED
  BY <1>4, <1>7

(* The iteration over a finite set exists. *)
LEMMA IterExists ==
  ASSUME NEW c, NEW S, IsFiniteSet(S)
  PROVE  \A T \in SUBSET S : IsIter(c, T, Iter(c, T))
<1> DEFINE F == {T \in SUBSET S : ~IsIter(c, T, Iter(c, T))}
<1>1. SUFFICES ASSUME F # {} PROVE FALSE
  OBVIOUS
<1>2. PICK T \in F : \A r \in F : r \subseteq T => r = T
  <2>1. F \subseteq SUBSET S
    OBVIOUS
  <2> HIDE DEF F
  <2> QED
    BY <1>1, <2>1, MinimalSet
<1>3. \A r \in SUBSET T : r # T => IsIter(c, r, Iter(c, r))
  BY <1>2
<1> DEFINE h == [s \in SUBSET T |-> IF s = {} THEN 0
                  ELSE c[First(s)].bytes + Iter(c, s \ {First(s)})[s \ {First(s)}]]
<1>4. ASSUME NEW s \in SUBSET T, s # {}
      PROVE  h[s \ {First(s)}] = Iter(c, s \ {First(s)})[s \ {First(s)}]
  <2> DEFINE r == s \ {First(s)}
  <2>1. First(s) \in s
    BY <1>4 DEF First
  <2>2. r \in SUBSET T /\ r # T /\ IsFiniteSet(T) /\ IsFiniteSet(r)
    BY <2>1, FS_Subset
  <2>3. IsIter(c, r, Iter(c, r))
    BY <1>3, <2>2
  <2> DEFINE q == r \ {First(r)}
  <2>4. CASE r = {}
    <3>1. Iter(c, r)[r] = 0
      BY <2>3, <2>4 DEF IsIter
    <3>2. h[r] = 0
      BY <2>2, <2>4
    <3> QED
      BY <3>1, <3>2
  <2>5. CASE r # {}
    <3>1. First(r) \in r
      BY <2>5 DEF First
    <3>2. q \in SUBSET r /\ q # T /\ q \in SUBSET T
      BY <2>2, <3>1
    <3>3. IsIter(c, q, Iter(c, q))
      BY <1>3, <3>2
    <3>4. Iter(c, r)[q] = Iter(c, q)[q]
      BY <2>2, <2>3, <3>2, <3>3, IterAgree
    <3>5. Iter(c, r)[r] = c[First(r)].bytes + Iter(c, r)[q]
      BY <2>3, <2>5 DEF IsIter
    <3>6. h[r] = c[First(r)].bytes + Iter(c, q)[q]
      BY <2>2, <2>5
    <3> QED
      BY <3>4, <3>5, <3>6
  <2> QED
    BY <2>4, <2>5
<1>5. h = [s \in SUBSET T |-> IF s = {} THEN 0 ELSE c[First(s)].bytes + h[s \ {First(s)}]]
  BY <1>4
<1> HIDE DEF h
<1>6. IsIter(c, T, h)
  BY <1>5 DEF IsIter
<1>7. IsIter(c, T, Iter(c, T))
  BY <1>6 DEF Iter
<1> QED
  BY <1>2, <1>7

(* The sum, whichever element is taken first. *)
LEMMA BytesSplit ==
  ASSUME NEW c, NEW S, IsFiniteSet(S), \A a \in S : c[a].bytes \in Int
  PROVE  /\ Bytes(c, {}) = 0
         /\ \A T \in SUBSET S : Bytes(c, T) \in Int
         /\ \A T \in SUBSET S : \A a \in T : Bytes(c, T) = c[a].bytes + Bytes(c, T \ {a})
<1>1. \A T \in SUBSET S : IsFiniteSet(T)
  BY FS_Subset
<1>2. Bytes(c, {}) = 0
  <2>1. IsIter(c, {}, Iter(c, {}))
    BY IterExists
  <2>2. Iter(c, {})[{}] = 0
    BY <2>1 DEF IsIter
  <2> QED
    BY <2>2, BytesDef
<1>3. ASSUME NEW T \in SUBSET S, T # {}
      PROVE  First(T) \in T /\ Bytes(c, T) = c[First(T)].bytes + Bytes(c, T \ {First(T)})
  <2> DEFINE r == T \ {First(T)}
  <2>1. First(T) \in T
    BY <1>3 DEF First
  <2>2. IsIter(c, T, Iter(c, T)) /\ IsIter(c, r, Iter(c, r)) /\ r \in SUBSET T
    BY IterExists
  <2>3. Iter(c, T)[r] = Iter(c, r)[r]
    BY SMTT(30), <1>1, <2>2, IterAgree
  <2>4. Iter(c, T)[T] = c[First(T)].bytes + Iter(c, T)[r]
    BY <1>3, <2>2 DEF IsIter
  <2> QED
    BY <2>1, <2>3, <2>4, BytesDef
<1>4. \A T \in SUBSET S : Bytes(c, T) \in Int
  <2> DEFINE F == {T \in SUBSET S : Bytes(c, T) \notin Int}
  <2>1. SUFFICES ASSUME F # {} PROVE FALSE
    OBVIOUS
  <2>2. PICK T \in F : \A r \in F : r \subseteq T => r = T
    <3>1. F \subseteq SUBSET S
      OBVIOUS
    <3> HIDE DEF F
    <3> QED
      BY <2>1, <3>1, MinimalSet
  <2>3. T # {}
    BY <1>2
  <2>4. First(T) \in T /\ Bytes(c, T) = c[First(T)].bytes + Bytes(c, T \ {First(T)})
    BY <1>3, <2>3
  <2>5. T \ {First(T)} \in SUBSET S /\ T \ {First(T)} \subseteq T /\ T \ {First(T)} # T
    BY <2>4
  <2>6. Bytes(c, T \ {First(T)}) \in Int
    BY <2>2, <2>5
  <2>7. c[First(T)].bytes \in Int
    BY <2>4
  <2> QED
    BY <2>4, <2>6, <2>7
<1>5. \A T \in SUBSET S : \A a \in T : Bytes(c, T) = c[a].bytes + Bytes(c, T \ {a})
  <2> DEFINE F == {T \in SUBSET S : \E a \in T : Bytes(c, T) # c[a].bytes + Bytes(c, T \ {a})}
  <2>1. SUFFICES ASSUME F # {} PROVE FALSE
    OBVIOUS
  <2>2. PICK T \in F : \A r \in F : r \subseteq T => r = T
    <3>1. F \subseteq SUBSET S
      OBVIOUS
    <3> HIDE DEF F
    <3> QED
      BY <2>1, <3>1, MinimalSet
  <2>3. PICK a \in T : Bytes(c, T) # c[a].bytes + Bytes(c, T \ {a})
    BY <2>2
  <2>4. PICK b : b = First(T)
    OBVIOUS
  <2>5. b \in T /\ Bytes(c, T) = c[b].bytes + Bytes(c, T \ {b}) /\ a # b
    BY <1>3, <2>3, <2>4
  <2>6. Bytes(c, T \ {b}) = c[a].bytes + Bytes(c, (T \ {b}) \ {a})
    <3>1. T \ {b} \in SUBSET S /\ T \ {b} \subseteq T /\ T \ {b} # T /\ a \in T \ {b}
      BY <2>5
    <3> QED
      BY <2>2, <3>1
  <2>7. Bytes(c, T \ {a}) = c[b].bytes + Bytes(c, (T \ {a}) \ {b})
    <3>1. T \ {a} \in SUBSET S /\ T \ {a} \subseteq T /\ T \ {a} # T /\ b \in T \ {a}
      BY <2>5
    <3> QED
      BY <2>2, <3>1
  <2>8. PICK U \in SUBSET S : U = (T \ {b}) \ {a} /\ U = (T \ {a}) \ {b}
    OBVIOUS
  <2>9. Bytes(c, U) \in Int /\ c[a].bytes \in Int /\ c[b].bytes \in Int
    BY <1>4, <2>5
  <2>10. Bytes(c, T) = c[b].bytes + (c[a].bytes + Bytes(c, U))
    BY <2>5, <2>6, <2>8
  <2>11. Bytes(c, T \ {a}) = c[b].bytes + Bytes(c, U)
    BY <2>7, <2>8
  <2>12. Bytes(c, T) = c[a].bytes + (c[b].bytes + Bytes(c, U))
    BY <2>9, <2>10
  <2> QED
    BY <2>3, <2>11, <2>12
<1> QED
  BY <1>2, <1>4, <1>5

(* The whole sum, one element taken out. *)
LEMMA BytesOne ==
  ASSUME NEW c, NEW S, IsFiniteSet(S), \A b \in S : c[b].bytes \in Int, NEW a \in S
  PROVE  /\ Bytes(c, S) = c[a].bytes + Bytes(c, S \ {a})
         /\ Bytes(c, S) \in Int /\ Bytes(c, S \ {a}) \in Int
<1>1. /\ \A T \in SUBSET S : Bytes(c, T) \in Int
      /\ \A T \in SUBSET S : \A b \in T : Bytes(c, T) = c[b].bytes + Bytes(c, T \ {b})
  BY BytesSplit
<1>2. S \in SUBSET S /\ S \ {a} \in SUBSET S
  OBVIOUS
<1> QED
  BY <1>1, <1>2

(* Only the elements of the set count. *)
LEMMA BytesSame ==
  ASSUME NEW c, NEW d, NEW S, IsFiniteSet(S), \A a \in S : c[a].bytes \in Int /\ d[a].bytes = c[a].bytes
  PROVE  Bytes(c, S) = Bytes(d, S)
<1> DEFINE F == {T \in SUBSET S : Bytes(c, T) # Bytes(d, T)}
<1>1. SUFFICES ASSUME F # {} PROVE FALSE
  OBVIOUS
<1>2. PICK T \in F : \A r \in F : r \subseteq T => r = T
  <2>1. F \subseteq SUBSET S
    OBVIOUS
  <2> HIDE DEF F
  <2> QED
    BY <1>1, <2>1, MinimalSet
<1>3. Bytes(c, {}) = 0 /\ Bytes(d, {}) = 0
  BY BytesSplit
<1>4. PICK a \in T : TRUE
  BY <1>3
<1>5. Bytes(c, T) = c[a].bytes + Bytes(c, T \ {a}) /\ Bytes(d, T) = d[a].bytes + Bytes(d, T \ {a})
  BY BytesSplit
<1>6. T \ {a} \in SUBSET S /\ T \ {a} \subseteq T /\ T \ {a} # T
  BY <1>4
<1>7. Bytes(c, T \ {a}) = Bytes(d, T \ {a}) /\ c[a].bytes = d[a].bytes
  BY <1>2, <1>6
<1> QED
  BY <1>5, <1>7

-----------------------------------------------------------------------------
(* What the records hold. *)
LEMMA SlotShape ==
  ASSUME NEW s \in SlotType
  PROVE  \/ s = EmptySlot /\ s.ctx = None
         \/ s.ctx \in Addrs /\ s.ctx # None /\ s.flow \in Flows /\ s = [flow |-> s.flow, ctx |-> s.ctx]
BY FlowAssumption DEF SlotType, EmptySlot

LEMMA ClassifyShape ==
  ASSUME NEW x \in Classify
  PROVE  /\ x = Idle <=> x.pc = "idle"
         /\ x # Idle => x.pc \in {"associate", "count", "register"} /\ x.layer \in Callouts /\ x.flow \in Flows
         /\ x.pc = "count" => x.layer = "stream"
         /\ x.pc \in {"count", "register"} => x.ctx \in Addrs
         /\ x.pc = "register" => x.late \in BOOLEAN
BY DEF Classify, Idle, Callouts

LEMMA UnloadShape ==
  ASSUME NEW u \in Unloading
  PROVE  /\ u.pc \in {"loaded", "sweep", "remove", "unregister", "unloaded"}
         /\ u.pc = "sweep" => u.pass \in Nat /\ u.slot \in Slots /\ u.found \in BOOLEAN
         /\ u.pc = "remove" => u.pass \in Nat /\ u.slot \in Slots /\ u.flow \in Flows
         /\ u.pc = "unregister" => /\ u.which \in Callouts /\ u.tries \in Nat /\ u.gaveUp \in BOOLEAN
                                   /\ [u EXCEPT !.tries = @ + 1] \in Unloading
                                   /\ [u EXCEPT !.tries = @ + 1].pc = "unregister"
                                   /\ [u EXCEPT !.tries = @ + 1].which = u.which
                                   /\ [u EXCEPT !.tries = @ + 1].gaveUp = u.gaveUp
<1>1. CASE u.pc = "unregister"
  <2>1. u \in [pc : {"unregister"}, which : Callouts, tries : Nat, gaveUp : BOOLEAN]
    BY <1>1 DEF Unloading
  <2>2. [u EXCEPT !.tries = @ + 1] \in [pc : {"unregister"}, which : Callouts, tries : Nat, gaveUp : BOOLEAN]
    BY <2>1
  <2>3. [u EXCEPT !.tries = @ + 1] \in Unloading
    BY <2>2 DEF Unloading
  <2> QED
    BY <1>1, <2>1, <2>3
<1>2. CASE u.pc # "unregister"
  BY <1>2 DEF Unloading
<1> QED
  BY <1>1, <1>2

(* Where the walk over the registry goes on. *)
LEMMA AfterSlotType ==
  ASSUME NEW pass \in Nat, NEW i \in Slots, NEW found \in BOOLEAN
  PROVE  /\ AfterSlot(pass, i, found) \in Unloading
         /\ AfterSlot(pass, i, found).pc \in {"sweep", "unregister"}
         /\ AfterSlot(pass, i, found).pc = "unregister" => AfterSlot(pass, i, found).which = "stream"
<1>1. CASE i < MAX_FLOW_REGISTRY
  BY <1>1, FlowAssumption DEF AfterSlot, Sweep, Slots, Unloading
<1>2. CASE ~(i < MAX_FLOW_REGISTRY) /\ found /\ pass < SweepPasses
  BY <1>2, FlowAssumption DEF AfterSlot, Sweep, Slots, Unloading
<1>3. CASE ~(i < MAX_FLOW_REGISTRY) /\ ~(found /\ pass < SweepPasses)
  <2>1. AfterSlot(pass, i, found) = Unregister("stream", 0, FALSE)
    BY <1>3 DEF AfterSlot
  <2> QED
    BY <2>1 DEF Unregister, Unloading, Callouts
<1> QED
  BY <1>1, <1>2, <1>3

(* A context that is kept is allocated. *)
LEMMA KeptIsAllocated ==
  ASSUME Owned, NEW f \in Flows, NEW a \in Addrs, Keeps(f, a)
  PROVE  ctx[a] # None /\ ctx[a].flow = f
BY FlowAssumption DEF Owned, Keeps

(* Giving contexts back changes their owner and loses none. *)
LEMMA GiveBackKeeps ==
  ASSUME FlowType, Owned, NEW fs \in SUBSET Flows, GiveBack(fs), ctx' = ctx
  PROVE  /\ attached' \in [Flows -> Addrs \cup {None}] /\ deleting' \subseteq Deletion
         /\ Owned'
         /\ \A f \in Flows, a \in Addrs : Keeps(f, a) => Keeps(f, a)'
         /\ \A f \in Flows : attached'[f] \in {None, attached[f]}
         /\ (\A f \in Flows : attached[f] = None) => deleting' = deleting
<1> DEFINE new(f) == [ctx |-> attached[f], flow |-> f, pc |-> "owed"]
<1>1. /\ attached \in [Flows -> Addrs \cup {None}] /\ deleting \subseteq Deletion
      /\ \A f \in Flows : attached'[f] = IF f \in fs THEN None ELSE attached[f]
      /\ attached' = [f \in Flows |-> IF f \in fs THEN None ELSE attached[f]]
      /\ deleting' = deleting \cup {new(f) : f \in {g \in fs : attached[g] # None}}
  BY DEF FlowType, GiveBack
<1>2. attached' \in [Flows -> Addrs \cup {None}] /\ deleting' \subseteq Deletion
  BY <1>1 DEF Deletion
<1>3. \A f \in Flows : attached'[f] \in {None, attached[f]}
  BY <1>1
<1>4. ASSUME NEW f \in Flows, NEW a \in Addrs, Keeps(f, a)
      PROVE  Keeps(f, a)'
  <2>1. CASE attached[f] = a /\ f \in fs
    <3>1. new(f) \in deleting' /\ new(f).ctx = a /\ new(f).flow = f /\ new(f).pc = "owed"
      BY <1>1, <2>1, FlowAssumption
    <3> QED
      BY <3>1 DEF Keeps
  <2>2. CASE attached[f] = a /\ f \notin fs
    BY <1>1, <2>2 DEF Keeps
  <2>3. CASE attached[f] # a
    BY <1>1, <1>4, <2>3 DEF Keeps
  <2> QED
    BY <2>1, <2>2, <2>3
<1>5. Owned'
  <2>1. \A f \in Flows : attached'[f] # None => ctx'[attached'[f]] # None /\ ctx'[attached'[f]].flow = f
    BY <1>1 DEF Owned
  <2>2. \A d \in deleting' : d \in deleting \/ \E f \in fs : attached[f] # None /\ d = new(f)
    BY <1>1
  <2>3. ASSUME NEW f \in fs, attached[f] # None
        PROVE  /\ ctx[attached[f]] # None /\ ctx[attached[f]].flow = f
               /\ attached'[f] = None /\ attached[f] \in Addrs
    BY <1>1, <2>3 DEF Owned
  <2>4. ASSUME NEW d \in deleting'
        PROVE  ctx'[d.ctx] # None /\ ctx'[d.ctx].flow = d.flow /\ attached'[d.flow] # d.ctx
    <3>1. CASE d \in deleting
      <4>1. d.flow \in Flows /\ d.ctx \in Addrs
        BY <1>1, <3>1 DEF Deletion
      <4> QED
        BY <1>1, <3>1, <4>1, FlowAssumption DEF Owned
    <3>2. CASE \E f \in fs : attached[f] # None /\ d = new(f)
      BY <2>3, <3>2, FlowAssumption
    <3> QED
      BY <2>2, <3>1, <3>2
  <2>5. ASSUME NEW d \in deleting', NEW e \in deleting', d.ctx = e.ctx
        PROVE  d = e
    <3>1. ASSUME NEW x \in deleting, NEW f \in fs, attached[f] # None
          PROVE  x.ctx # attached[f]
      BY <2>3, <3>1 DEF Owned
    <3>2. ASSUME NEW f \in fs, NEW g \in fs, attached[f] # None, attached[f] = attached[g]
          PROVE  f = g
      BY <2>3, <3>2
    <3>3. CASE d \in deleting /\ e \in deleting
      BY <2>5, <3>3 DEF Owned
    <3>4. CASE d \in deleting /\ e \notin deleting
      BY <2>2, <2>5, <3>1, <3>4
    <3>5. CASE d \notin deleting /\ e \in deleting
      BY <2>2, <2>5, <3>1, <3>5
    <3>6. CASE d \notin deleting /\ e \notin deleting
      BY <2>2, <2>5, <3>2, <3>6
    <3> QED
      BY <3>3, <3>4, <3>5, <3>6
  <2>6. ASSUME NEW a \in Addrs, ctx'[a] # None
        PROVE  attached'[ctx'[a].flow] = a \/ \E d \in deleting' : d.ctx = a
    <3>1. attached[ctx[a].flow] = a \/ \E d \in deleting : d.ctx = a
      BY <2>6 DEF Owned
    <3>2. ctx[a].flow \in Flows
      BY <2>6 DEF FlowType, Context
    <3>3. CASE attached[ctx[a].flow] = a
      <4>1. Keeps(ctx[a].flow, a)'
        BY <1>4, <3>2, <3>3 DEF Keeps
      <4> QED
        BY <4>1 DEF Keeps
    <3>4. CASE \E d \in deleting : d.ctx = a
      BY <1>1, <3>4
    <3> QED
      BY <3>1, <3>3, <3>4
  <2> QED
    BY <2>1, <2>4, <2>5, <2>6 DEF Owned
<1>6. (\A f \in Flows : attached[f] = None) => deleting' = deleting
  BY <1>1
<1> QED
  BY <1>2, <1>3, <1>4, <1>5, <1>6

LEMMA LateFinite ==
  ASSUME FlowAssumption
  PROVE  IsFiniteSet(Late) /\ Cardinality(Late) \in Nat
<1>1. IsFiniteSet(Cpus) /\ Late \in SUBSET Cpus
  BY FlowAssumption DEF Late
<1> QED
  BY <1>1, FS_Subset, FS_CardinalityType

LEMMA SlotsFinite ==
  ASSUME NEW M \in SUBSET Slots
  PROVE  IsFiniteSet(M) /\ Cardinality(M) \in Nat
<1>1. IsFiniteSet(Slots)
  BY FS_Interval, FlowAssumption DEF Slots
<1> QED
  BY <1>1, FS_Subset, FS_CardinalityType

(* A step that enters nothing in the registry, takes no context from its flow
   but to give it back, and starts no call that has one to enter. *)
Quiet ==
  /\ \A i \in Slots : s_FlowRegistry'[i] \in {EmptySlot, s_FlowRegistry[i]}
  /\ races' = races
  /\ \A f \in Flows, a \in Addrs : Keeps(f, a) => Keeps(f, a)'
  /\ \A f \in Flows : attached'[f] \in {None, attached[f]}
  /\ \A c \in Cpus : \/ cpu'[c] = cpu[c]
                     \/ /\ ~Enters(c)
                        /\ \/ cpu'[c].pc \notin {"count", "register"}
                           \/ cpu'[c].pc = "count" /\ Keeps(cpu[c].flow, cpu[c].ctx)'
  /\ unload'.pc = "loaded" =>
       /\ unload.pc = "loaded" /\ s_FlowRegistry' = s_FlowRegistry
       /\ \A f \in Flows : attached'[f] \in refused => attached'[f] \in refused'

LEMMA QuietKeeps ==
  ASSUME ContextInv, FlowType', Quiet
  PROVE  Held' /\ Listed' /\ Surplus'
<1>0. /\ \A c \in Cpus : cpu[c] \in Classify /\ cpu'[c] \in Classify
      /\ s_FlowRegistry \in [Slots -> SlotType] /\ s_FlowRegistry' \in [Slots -> SlotType]
  BY DEF ContextInv, FlowType
<1>1. Held'
  <2>1. ASSUME NEW c \in Cpus, Holds(c)'
        PROVE  Keeps(cpu[c].flow, cpu[c].ctx)'
    <3>1. CASE cpu'[c] = cpu[c]
      <4>1. Holds(c) /\ cpu[c].flow \in Flows /\ cpu[c].ctx \in Addrs
        BY <1>0, <2>1, <3>1, ClassifyShape DEF Holds, Enters, Idle
      <4>2. Keeps(cpu[c].flow, cpu[c].ctx)
        BY <4>1 DEF ContextInv, Held
      <4>3. \A f \in Flows, a \in Addrs : Keeps(f, a) => Keeps(f, a)'
        BY DEF Quiet
      <4> QED
        BY <3>1, <4>1, <4>2, <4>3 DEF Keeps
    <3>2. CASE cpu'[c] # cpu[c]
      BY <2>1, <3>2 DEF Quiet, Holds, Enters
    <3> QED
      BY <3>1, <3>2
  <2>2. \A c \in Cpus : Enters(c)' => Enters(c) /\ cpu'[c] = cpu[c]
    BY DEF Quiet, Enters
  <2>3. \A c, e \in Cpus : (Enters(c)' /\ Enters(e)' /\ cpu'[c].ctx = cpu'[e].ctx) => c = e
    BY <2>2 DEF ContextInv, Held
  <2> QED
    BY <2>1, <2>3 DEF Held
<1>2. Listed'
  <2> SUFFICES ASSUME unload'.pc = "loaded", NEW f \in Flows, attached'[f] # None
               PROVE  \/ attached'[f] \in refused'
                      \/ \E c \in Cpus : Enters(c)' /\ cpu'[c].flow = f /\ cpu'[c].ctx = attached'[f]
                      \/ \E i \in Slots : s_FlowRegistry'[i] = [flow |-> f, ctx |-> attached'[f]]
    BY DEF Listed
  <2>1. /\ unload.pc = "loaded" /\ s_FlowRegistry' = s_FlowRegistry /\ attached'[f] = attached[f]
        /\ attached'[f] \in refused => attached'[f] \in refused'
    BY DEF Quiet
  <2>2. \A c \in Cpus : Enters(c) => Enters(c)' /\ cpu'[c] = cpu[c]
    BY DEF Quiet, Enters
  <2>3. \/ attached[f] \in refused
        \/ \E c \in Cpus : Enters(c) /\ cpu[c].flow = f /\ cpu[c].ctx = attached[f]
        \/ \E i \in Slots : s_FlowRegistry[i] = [flow |-> f, ctx |-> attached[f]]
    BY <2>1 DEF ContextInv, Listed
  <2> QED
    BY <2>1, <2>2, <2>3
<1>3. Surplus'
  <2>1. PICK M \in SUBSET Slots : Lost(M) /\ Cardinality(M) + Cardinality(Late) <= races
    BY DEF ContextInv, Surplus
  <2>2. \A c \in Cpus : cpu'[c].pc = "register" => cpu'[c] = cpu[c]
    BY DEF Quiet
  <2>3. Late' \subseteq Late
    BY <2>2 DEF Late
  <2>4. \A a : Registering(a) = {} => Registering(a)' = {}
    BY <2>2 DEF Registering
  <2>5. Cardinality(Late') <= Cardinality(Late) /\ Cardinality(Late') \in Nat
    BY <2>3, LateFinite, FS_Subset, FS_CardinalityType, FlowAssumption
  <2>6. \A i \in Others(M)' : i \in Others(M) /\ s_FlowRegistry'[i] = s_FlowRegistry[i]
    <3>1. \A i \in Slots : s_FlowRegistry'[i] \in {EmptySlot, s_FlowRegistry[i]}
      BY DEF Quiet
    <3> QED
      BY <3>1 DEF Others, EmptySlot
  <2>7. Lost(M)'
    <3>1. ASSUME NEW i \in Others(M)'
          PROVE  /\ Keeps(s_FlowRegistry[i].flow, s_FlowRegistry[i].ctx)'
                 /\ Registering(s_FlowRegistry[i].ctx)' = {}
                 /\ \A j \in Others(M)' : s_FlowRegistry'[i].ctx = s_FlowRegistry'[j].ctx => i = j
      <4>1. i \in Others(M) /\ s_FlowRegistry'[i] = s_FlowRegistry[i] /\ i \in Slots
        BY <2>6 DEF Others
      <4>2. s_FlowRegistry[i].flow \in Flows /\ s_FlowRegistry[i].ctx \in Addrs
        BY <1>0, <4>1, SlotShape DEF Others
      <4>3. /\ Keeps(s_FlowRegistry[i].flow, s_FlowRegistry[i].ctx)
            /\ Registering(s_FlowRegistry[i].ctx) = {}
            /\ \A j \in Others(M) : s_FlowRegistry[i].ctx = s_FlowRegistry[j].ctx => i = j
        BY <2>1, <4>1 DEF Lost
      <4>4. \A f \in Flows, a \in Addrs : Keeps(f, a) => Keeps(f, a)'
        BY DEF Quiet
      <4>5. Keeps(s_FlowRegistry[i].flow, s_FlowRegistry[i].ctx)'
        BY <4>1, <4>2, <4>3, <4>4 DEF Keeps
      <4>6. Registering(s_FlowRegistry[i].ctx)' = {}
        BY <2>4, <4>1, <4>3 DEF Registering
      <4> QED
        BY <2>6, <4>1, <4>3, <4>5, <4>6
    <3> QED
      BY <3>1 DEF Lost
  <2>8. Cardinality(M) \in Nat /\ Cardinality(Late) \in Nat /\ races \in Nat /\ races' = races
    BY SlotsFinite, LateFinite, FlowAssumption DEF ContextInv, FlowType, Quiet
  <2>9. Cardinality(M) + Cardinality(Late)' <= races'
    BY <2>1, <2>5, <2>8
  <2> QED
    BY <2>7, <2>9 DEF Surplus
<1> QED
  BY <1>1, <1>2, <1>3

-----------------------------------------------------------------------------
(* The actions. *)

LEMMA StepStreamSegment ==
  ASSUME ContextInv, ~Unloaded, NEW c \in Cpus, NEW f \in Flows, StreamSegment(c, f)
  PROVE  ContextInv'
<1>0. /\ cpu[c] = Idle /\ "stream" \in callout.registered
      /\ UNCHANGED <<s_FlowRegistry, refused, races, ctx, callout, attached, deleting, unload>>
      /\ cpu' = [cpu EXCEPT ![c] =
                   IF attached[f] = None THEN ClassifyAt("stream", f, callout.known)
                   ELSE [pc |-> "count", layer |-> "stream", flow |-> f, ctx |-> attached[f]]]
  BY DEF StreamSegment, registry
<1>1. /\ cpu \in [Cpus -> Classify] /\ attached[f] \in Addrs \cup {None} /\ callout.known \in BOOLEAN
  BY DEF ContextInv, FlowType
<1>2. /\ cpu'[c] \in Classify /\ cpu'[c].pc \in {"associate", "count"}
      /\ cpu'[c].pc = "count" => cpu'[c].flow = f /\ cpu'[c].ctx = attached[f]
      /\ \A e \in Cpus : e # c => cpu'[e] = cpu[e]
  BY <1>0, <1>1 DEF ClassifyAt, Classify, Callouts
<1>3. FlowType'
  BY <1>0, <1>1, <1>2 DEF ContextInv, FlowType
<1>4. Owned'
  BY <1>0 DEF ContextInv, Owned
<1>5. Emptied'
  BY <1>0 DEF ContextInv, Emptied, Unregistered, Unloaded
<1>6. \A g \in Flows, a \in Addrs : Keeps(g, a) => Keeps(g, a)'
  BY <1>0 DEF Keeps
<1>7. ~Enters(c)
  BY <1>0 DEF Enters, Idle
<1>8. cpu'[c].pc = "count" => Keeps(cpu[c].flow, cpu[c].ctx)'
  BY <1>0, <1>2 DEF Keeps
<1>9. Quiet
  BY <1>0, <1>2, <1>6, <1>7, <1>8 DEF Quiet
<1> QED
  BY <1>3, <1>4, <1>5, <1>9, QuietKeeps DEF ContextInv

LEMMA StepFlowEstablished ==
  ASSUME ContextInv, ~Unloaded, NEW c \in Cpus, NEW f \in Flows, FlowEstablished(c, f)
  PROVE  ContextInv'
<1>0. /\ cpu[c] = Idle
      /\ UNCHANGED <<s_FlowRegistry, refused, races, ctx, callout, attached, deleting, unload>>
      /\ cpu' = [cpu EXCEPT ![c] = IF callout.known THEN ClassifyAt("established", f, TRUE) ELSE Idle]
  BY DEF FlowEstablished, registry
<1>1. cpu \in [Cpus -> Classify]
  BY DEF ContextInv, FlowType
<1>2. /\ cpu'[c] \in Classify /\ cpu'[c].pc \in {"associate", "idle"}
      /\ cpu'[c] # Idle => cpu'[c].layer = "established"
      /\ \A e \in Cpus : e # c => cpu'[e] = cpu[e]
  BY <1>0, <1>1 DEF ClassifyAt, Classify, Callouts, Idle
<1>3. FlowType'
  BY <1>0, <1>1, <1>2 DEF ContextInv, FlowType
<1>4. Owned'
  BY <1>0 DEF ContextInv, Owned
<1>5. Emptied'
  BY <1>0, <1>2 DEF ContextInv, Emptied, Unregistered, Unloaded
<1>6. \A g \in Flows, a \in Addrs : Keeps(g, a) => Keeps(g, a)'
  BY <1>0 DEF Keeps
<1>7. ~Enters(c)
  BY <1>0 DEF Enters, Idle
<1>8. Quiet
  BY <1>0, <1>2, <1>6, <1>7 DEF Quiet
<1> QED
  BY <1>3, <1>4, <1>5, <1>8, QuietKeeps DEF ContextInv

LEMMA StepNotAssociated ==
  ASSUME ContextInv, ~Unloaded, NEW c \in Cpus, NotAssociated(c)
  PROVE  ContextInv'
<1>0. /\ cpu[c].pc = "associate" /\ cpu' = [cpu EXCEPT ![c] = Idle]
      /\ UNCHANGED <<s_FlowRegistry, refused, races, ctx, callout, attached, deleting, unload>>
  BY DEF NotAssociated, registry
<1>1. cpu \in [Cpus -> Classify]
  BY DEF ContextInv, FlowType
<1>2. cpu'[c] = Idle /\ \A e \in Cpus : e # c => cpu'[e] = cpu[e]
  BY <1>0, <1>1
<1>3. FlowType'
  BY <1>0, <1>1 DEF ContextInv, FlowType, Classify
<1>4. Owned'
  BY <1>0 DEF ContextInv, Owned
<1>5. Emptied'
  BY <1>0, <1>2 DEF ContextInv, Emptied, Unregistered, Unloaded
<1>6. \A g \in Flows, a \in Addrs : Keeps(g, a) => Keeps(g, a)'
  BY <1>0 DEF Keeps
<1>7. ~Enters(c)
  BY <1>0 DEF Enters
<1>8. Quiet
  BY <1>0, <1>2, <1>6, <1>7 DEF Quiet, Idle
<1> QED
  BY <1>3, <1>4, <1>5, <1>8, QuietKeeps DEF ContextInv

(* A segment is counted into a context that its flow still keeps. *)
LEMMA StepCount ==
  ASSUME ContextInv, ~Unloaded, NEW c \in Cpus, FlowCountStreamBytes(c)
  PROVE  ContextInv'
<1> DEFINE a == cpu[c].ctx
<1>0. /\ cpu[c].pc = "count" /\ cpu' = [cpu EXCEPT ![c] = Idle]
      /\ ctx' = [ctx EXCEPT ![a].bytes = @ + 1]
      /\ UNCHANGED <<s_FlowRegistry, refused, races, callout, attached, deleting, unload>>
  BY DEF FlowCountStreamBytes, registry
<1>1. cpu \in [Cpus -> Classify] /\ ctx \in [Addrs -> Context \cup {None}]
  BY DEF ContextInv, FlowType
<1>2. cpu'[c] = Idle /\ \A e \in Cpus : e # c => cpu'[e] = cpu[e]
  BY <1>0, <1>1
<1>3. a \in Addrs /\ cpu[c].flow \in Flows
  BY <1>0, <1>1, ClassifyShape DEF Idle
<1>4. ctx[a] \in Context
  <2>1. Keeps(cpu[c].flow, a)
    BY <1>0 DEF ContextInv, Held, Holds
  <2> QED
    BY <1>1, <1>3, <2>1, KeptIsAllocated DEF ContextInv
<1>5. /\ ctx'[a] \in Context /\ ctx'[a].flow = ctx[a].flow
      /\ \A b \in Addrs : b # a => ctx'[b] = ctx[b]
  BY <1>0, <1>1, <1>3, <1>4 DEF Context
<1>6. \A b \in Addrs : (ctx'[b] # None <=> ctx[b] # None) /\ (ctx[b] # None => ctx'[b].flow = ctx[b].flow)
  BY <1>4, <1>5, FlowAssumption DEF Context
<1>7. FlowType'
  <2>1. ctx' \in [Addrs -> Context \cup {None}] /\ cpu' \in [Cpus -> Classify]
    BY <1>0, <1>1, <1>5 DEF Classify
  <2> QED
    BY <1>0, <2>1 DEF ContextInv, FlowType
<1>8. Owned'
  <2>1. /\ \A f \in Flows : attached[f] \in Addrs \cup {None}
        /\ \A d \in deleting : d.ctx \in Addrs
    BY DEF ContextInv, FlowType, Deletion
  <2> QED
    BY ZenonT(60), <1>0, <1>6, <2>1 DEF ContextInv, Owned
<1>9. Emptied'
  BY <1>0, <1>2 DEF ContextInv, Emptied, Unregistered, Unloaded
<1>10. \A g \in Flows, b \in Addrs : Keeps(g, b) => Keeps(g, b)'
  BY <1>0 DEF Keeps
<1>11. ~Enters(c)
  BY <1>0 DEF Enters
<1>12. Quiet
  BY <1>0, <1>2, <1>10, <1>11 DEF Quiet, Idle
<1> QED
  BY <1>7, <1>8, <1>9, <1>12, QuietKeeps DEF ContextInv

LEMMA StepFlowEnds ==
  ASSUME ContextInv, ~Unloaded, NEW f \in Flows, FlowEnds(f)
  PROVE  ContextInv'
<1>0. /\ GiveBack({f}) /\ {f} \in SUBSET Flows
      /\ UNCHANGED <<s_FlowRegistry, refused, races, ctx, callout, cpu, unload>>
  BY DEF FlowEnds, registry
<1>1. /\ attached' \in [Flows -> Addrs \cup {None}] /\ deleting' \subseteq Deletion
      /\ Owned'
      /\ \A g \in Flows, a \in Addrs : Keeps(g, a) => Keeps(g, a)'
      /\ \A g \in Flows : attached'[g] \in {None, attached[g]}
      /\ (\A g \in Flows : attached[g] = None) => deleting' = deleting
  BY <1>0, GiveBackKeeps DEF ContextInv
<1>2. FlowType'
  BY <1>0, <1>1 DEF ContextInv, FlowType
<1>3. Emptied'
  BY <1>0, <1>1 DEF ContextInv, Emptied, Unregistered, Unloaded
<1>4. Quiet
  BY <1>0, <1>1 DEF Quiet
<1> QED
  BY <1>1, <1>2, <1>3, <1>4, QuietKeeps DEF ContextInv

LEMMA StepStartUnload ==
  ASSUME ContextInv, ~Unloaded, StartUnload
  PROVE  ContextInv'
<1>0. /\ unload' = Sweep(1, 1, FALSE)
      /\ UNCHANGED <<s_FlowRegistry, refused, races, ctx, callout, attached, deleting, cpu>>
  BY DEF StartUnload, registry
<1>1. unload' \in Unloading /\ unload'.pc = "sweep"
  BY <1>0, FlowAssumption DEF Sweep, Unloading, Slots
<1>2. FlowType' /\ Owned'
  BY <1>0, <1>1 DEF ContextInv, FlowType, Owned
<1>3. Emptied'
  BY <1>1 DEF Emptied, Unregistered, Unloaded
<1>4. Quiet
  BY <1>0, <1>1 DEF Quiet, Keeps
<1> QED
  BY <1>2, <1>3, <1>4, QuietKeeps DEF ContextInv

LEMMA StepTakeSlot ==
  ASSUME ContextInv, ~Unloaded, TakeSlot
  PROVE  ContextInv'
<1> DEFINE entry == s_FlowRegistry[unload.slot]
<1>0. /\ unload.pc = "sweep"
      /\ unload' = IF entry.ctx = None THEN AfterSlot(unload.pass, unload.slot, unload.found)
                   ELSE [pc |-> "remove", pass |-> unload.pass, slot |-> unload.slot, flow |-> entry.flow]
      /\ s_FlowRegistry' = [s_FlowRegistry EXCEPT ![unload.slot] = EmptySlot]
      /\ UNCHANGED <<refused, races, ctx, callout, attached, deleting, cpu>>
  BY DEF TakeSlot
<1>1. /\ s_FlowRegistry \in [Slots -> SlotType] /\ unload.slot \in Slots
      /\ unload.pass \in Nat /\ unload.found \in BOOLEAN
  <2>1. s_FlowRegistry \in [Slots -> SlotType] /\ unload \in Unloading
    BY DEF ContextInv, FlowType
  <2> QED
    BY <1>0, <2>1, UnloadShape
<1>2. /\ unload' \in Unloading /\ unload'.pc \in {"sweep", "remove", "unregister"}
      /\ unload'.pc = "unregister" => unload'.which = "stream"
  <2>1. CASE entry.ctx = None
    BY <1>0, <1>1, <2>1, AfterSlotType
  <2>2. CASE entry.ctx # None
    <3>1. entry.flow \in Flows
      BY <1>1, <2>2, SlotShape
    <3> QED
      BY <1>0, <1>1, <2>2, <3>1 DEF Unloading
  <2> QED
    BY <2>1, <2>2
<1>3. s_FlowRegistry' \in [Slots -> SlotType]
  BY <1>0, <1>1 DEF SlotType
<1>4. FlowType' /\ Owned'
  BY <1>0, <1>2, <1>3 DEF ContextInv, FlowType, Owned
<1>5. Emptied'
  BY <1>2 DEF Emptied, Unregistered, Unloaded
<1>6. \A i \in Slots : s_FlowRegistry'[i] \in {EmptySlot, s_FlowRegistry[i]}
  BY <1>0, <1>1
<1>7. Quiet
  BY <1>0, <1>2, <1>6 DEF Quiet, Keeps
<1> QED
  BY <1>4, <1>5, <1>7, QuietKeeps DEF ContextInv

LEMMA StepRemoveContext ==
  ASSUME ContextInv, ~Unloaded, RemoveContext
  PROVE  ContextInv'
<1>0. /\ unload.pc = "remove" /\ GiveBack({unload.flow})
      /\ unload' = AfterSlot(unload.pass, unload.slot, TRUE)
      /\ UNCHANGED <<s_FlowRegistry, refused, races, ctx, callout, cpu>>
  BY DEF RemoveContext, registry
<1>1. {unload.flow} \in SUBSET Flows /\ unload.slot \in Slots /\ unload.pass \in Nat
  <2>1. unload \in Unloading
    BY DEF ContextInv, FlowType
  <2>2. unload.flow \in Flows /\ unload.slot \in Slots /\ unload.pass \in Nat
    BY <1>0, <2>1, UnloadShape
  <2> QED
    BY <2>2
<1>2. /\ unload' \in Unloading /\ unload'.pc \in {"sweep", "unregister"}
      /\ unload'.pc = "unregister" => unload'.which = "stream"
  BY <1>0, <1>1, AfterSlotType
<1>3. /\ attached' \in [Flows -> Addrs \cup {None}] /\ deleting' \subseteq Deletion
      /\ Owned'
      /\ \A g \in Flows, a \in Addrs : Keeps(g, a) => Keeps(g, a)'
      /\ \A g \in Flows : attached'[g] \in {None, attached[g]}
  BY <1>0, <1>1, GiveBackKeeps DEF ContextInv
<1>4. FlowType'
  BY <1>0, <1>2, <1>3 DEF ContextInv, FlowType
<1>5. Emptied'
  BY <1>2 DEF Emptied, Unregistered, Unloaded
<1>6. Quiet
  BY <1>0, <1>2, <1>3 DEF Quiet
<1> QED
  BY <1>3, <1>4, <1>5, <1>6, QuietKeeps DEF ContextInv

(* The engine unregisters a callout only when it is quiet. *)
LEMMA StepUnregisterSucceeds ==
  ASSUME ContextInv, ~Unloaded, UnregisterSucceeds
  PROVE  ContextInv'
<1>0. /\ unload.pc = "unregister" /\ ~CalloutBusy(unload.which)
      /\ callout' = [known |-> callout.known /\ unload.which # "stream",
                     registered |-> callout.registered \ {unload.which}]
      /\ unload' = AfterCallout(unload.which, unload.gaveUp)
      /\ UNCHANGED <<s_FlowRegistry, refused, races, ctx, attached, deleting, cpu>>
  BY DEF UnregisterSucceeds, registry
<1>1. unload.which \in Callouts /\ unload.gaveUp \in BOOLEAN
  BY <1>0, UnloadShape DEF ContextInv, FlowType
<1>2. /\ unload' \in Unloading /\ unload'.pc \in {"unregister", "unloaded"}
      /\ unload'.gaveUp = unload.gaveUp
      /\ unload'.pc = "unregister" <=> unload.which = "stream"
  BY <1>0, <1>1 DEF AfterCallout, Unregister, Unloading, Callouts
<1>3. callout' \in [known : BOOLEAN, registered : SUBSET Callouts]
  BY <1>0 DEF ContextInv, FlowType
<1>4. FlowType' /\ Owned'
  BY <1>0, <1>2, <1>3 DEF ContextInv, FlowType, Owned
<1>5. Emptied'
  <2>0. \A c \in Cpus : cpu[c] # Idle => cpu[c].layer # unload.which /\ cpu[c].layer \in Callouts
    BY <1>0, ClassifyShape DEF CalloutBusy, ContextInv, FlowType
  <2>1. CASE unload.which = "stream"
    <3>1. deleting = {} /\ \A f \in Flows : attached[f] = None
      BY <1>0, <2>1 DEF CalloutBusy
    <3> QED
      BY <1>0, <1>2, <2>0, <2>1, <3>1 DEF Emptied, Unregistered, Unloaded
  <2>2. CASE unload.which = "established"
    <3>1. unload'.gaveUp = FALSE => Unregistered
      BY <1>0, <1>2, <2>2 DEF Unregistered
    <3>2. SUFFICES ASSUME ~unload'.gaveUp PROVE Emptied'
      BY <1>1, <1>2 DEF Emptied, Unregistered, Unloaded
    <3>3. /\ "stream" \notin callout.registered
          /\ \A f \in Flows : attached[f] = None
          /\ deleting = {}
          /\ \A c \in Cpus : cpu[c] # Idle => cpu[c].layer # "stream"
      BY <1>1, <1>2, <3>1, <3>2 DEF ContextInv, Emptied
    <3>4. \A c \in Cpus : cpu[c] = Idle
      BY <2>0, <2>2, <3>3 DEF Callouts
    <3> QED
      BY <1>0, <3>3, <3>4 DEF Emptied
  <2> QED
    BY <1>1, <2>1, <2>2 DEF Callouts
<1>6. Quiet
  BY <1>0, <1>2 DEF Quiet, Keeps
<1> QED
  BY <1>4, <1>5, <1>6, QuietKeeps DEF ContextInv

LEMMA StepUnregisterFails ==
  ASSUME ContextInv, ~Unloaded, UnregisterFails
  PROVE  ContextInv'
<1>0. /\ unload.pc = "unregister"
      /\ IF unload.which = "stream"
         THEN \E fs \in SUBSET {f \in Flows : attached[f] # None} : GiveBack(fs)
         ELSE UNCHANGED <<attached, deleting>>
      /\ IF unload.tries + 1 < UnregisterTries
         THEN unload' = [unload EXCEPT !.tries = @ + 1] /\ UNCHANGED callout
         ELSE /\ unload' = AfterCallout(unload.which, TRUE)
              /\ callout' = [callout EXCEPT !.known = @ /\ unload.which # "stream"]
      /\ UNCHANGED <<s_FlowRegistry, refused, races, ctx, cpu>>
  BY DEF UnregisterFails, registry
<1>1. unload \in Unloading /\ unload.which \in Callouts /\ unload.tries \in Nat /\ unload.gaveUp \in BOOLEAN
  BY <1>0, UnloadShape DEF ContextInv, FlowType
<1>2. /\ attached' \in [Flows -> Addrs \cup {None}] /\ deleting' \subseteq Deletion
      /\ Owned'
      /\ \A g \in Flows, a \in Addrs : Keeps(g, a) => Keeps(g, a)'
      /\ \A g \in Flows : attached'[g] \in {None, attached[g]}
  <2>1. CASE unload.which = "stream"
    <3>1. PICK fs \in SUBSET Flows : GiveBack(fs)
      BY <1>0, <2>1
    <3> QED
      BY <1>0, <3>1, GiveBackKeeps DEF ContextInv
  <2>2. CASE unload.which # "stream"
    BY <1>0, <2>2 DEF ContextInv, FlowType, Owned, Keeps
  <2> QED
    BY <2>1, <2>2
<1>3. /\ unload' \in Unloading /\ unload'.pc \in {"unregister", "unloaded"}
      /\ Unregistered' => Unregistered /\ unload'.pc = "unregister" /\ UNCHANGED callout /\ unload.which # "stream"
  <2>1. CASE unload.tries + 1 < UnregisterTries
    <3>1. /\ unload' \in Unloading /\ unload'.pc = "unregister" /\ UNCHANGED callout
          /\ unload'.which = unload.which /\ unload'.gaveUp = unload.gaveUp
      <4>1. unload' = [unload EXCEPT !.tries = @ + 1] /\ UNCHANGED callout
        BY <1>0, <2>1
      <4> QED
        BY <1>0, <1>1, <4>1, UnloadShape
    <3> QED
      BY <1>0, <3>1 DEF Unregistered
  <2>2. CASE ~(unload.tries + 1 < UnregisterTries)
    <3>1. unload' = AfterCallout(unload.which, TRUE)
      BY <1>0, <2>2
    <3>2. /\ unload' \in Unloading /\ unload'.pc \in {"unregister", "unloaded"} /\ unload'.gaveUp = TRUE
      BY <1>1, <3>1 DEF AfterCallout, Unregister, Unloading, Callouts
    <3> QED
      BY <3>2 DEF Unregistered
  <2> QED
    BY <2>1, <2>2
<1>4. callout' \in [known : BOOLEAN, registered : SUBSET Callouts]
  BY <1>0 DEF ContextInv, FlowType
<1>5. FlowType'
  BY <1>0, <1>2, <1>3, <1>4 DEF ContextInv, FlowType
<1>6. Emptied'
  <2>1. CASE Unregistered'
    BY <1>0, <1>3, <2>1 DEF ContextInv, Emptied, Unregistered, Unloaded
  <2>2. CASE ~Unregistered'
    BY <2>2 DEF Emptied, Unregistered, Unloaded
  <2> QED
    BY <2>1, <2>2
<1>7. Quiet
  BY <1>0, <1>2, <1>3 DEF Quiet
<1> QED
  BY <1>2, <1>5, <1>6, <1>7, QuietKeeps DEF ContextInv

(* A new context, which no slot, deletion or other call knows. *)
LEMMA StepAssociate ==
  ASSUME ContextInv, ~Unloaded, NEW c \in Cpus, NEW a \in Addrs, Associate(c, a)
  PROVE  ContextInv'
<1> DEFINE f == cpu[c].flow
<1>0. /\ cpu[c].pc = "associate" /\ ctx[a] = None
      /\ "stream" \in callout.registered /\ attached[f] = None
      /\ ctx' = [ctx EXCEPT ![a] = [flow |-> f, bytes |-> 0]]
      /\ attached' = [attached EXCEPT ![f] = a]
      /\ cpu' = [cpu EXCEPT ![c] = [pc |-> "register", layer |-> cpu[c].layer, flow |-> f,
                                    ctx |-> a, late |-> FALSE]]
      /\ UNCHANGED <<s_FlowRegistry, refused, races, callout, deleting, unload>>
  BY DEF Associate, EngineAccepts, registry
<1>1. /\ cpu \in [Cpus -> Classify] /\ ctx \in [Addrs -> Context \cup {None}]
      /\ attached \in [Flows -> Addrs \cup {None}] /\ deleting \subseteq Deletion
      /\ s_FlowRegistry \in [Slots -> SlotType]
  BY DEF ContextInv, FlowType
<1>2. f \in Flows /\ cpu[c].layer \in Callouts
  BY <1>0, <1>1, ClassifyShape DEF Idle
<1>3. /\ cpu'[c] \in Classify /\ cpu'[c].pc = "register" /\ cpu'[c].late = FALSE
      /\ cpu'[c].ctx = a /\ cpu'[c].flow = f
      /\ \A e \in Cpus : e # c => cpu'[e] = cpu[e]
  BY <1>0, <1>1, <1>2 DEF Classify
<1>4. /\ ctx'[a] = [flow |-> f, bytes |-> 0] /\ ctx'[a] \in Context /\ ctx'[a] # None
      /\ \A b \in Addrs : b # a => ctx'[b] = ctx[b]
      /\ attached'[f] = a /\ \A g \in Flows : g # f => attached'[g] = attached[g]
      /\ a # None
  BY <1>0, <1>1, <1>2, FlowAssumption DEF Context
<1> HIDE DEF f
<1>5. FlowType'
  <2>1. ctx' \in [Addrs -> Context \cup {None}] /\ cpu' \in [Cpus -> Classify] /\ attached' \in [Flows -> Addrs \cup {None}]
    BY <1>0, <1>1, <1>2, <1>3, <1>4
  <2> QED
    BY <1>0, <2>1 DEF ContextInv, FlowType
<1>6. (\A g \in Flows : attached[g] # a) /\ (\A d \in deleting : d.ctx # a)
  BY <1>0, <1>4 DEF ContextInv, Owned
<1>7. Owned'
  <2>1. \A g \in Flows : attached'[g] # None => ctx'[attached'[g]] # None /\ ctx'[attached'[g]].flow = g
    BY <1>1, <1>4, <1>6 DEF ContextInv, Owned
  <2>2. ASSUME NEW d \in deleting
        PROVE  ctx'[d.ctx] # None /\ ctx'[d.ctx].flow = d.flow /\ attached'[d.flow] # d.ctx
    <3>1. d.ctx \in Addrs /\ d.flow \in Flows
      BY <1>1 DEF Deletion
    <3> QED
      BY <1>4, <1>6, <3>1 DEF ContextInv, Owned
  <2>3. ASSUME NEW b \in Addrs, ctx'[b] # None
        PROVE  attached'[ctx'[b].flow] = b \/ \E d \in deleting : d.ctx = b
    <3>1. CASE b = a
      BY <1>4, <3>1
    <3>2. CASE b # a
      <4>1. ctx[b] # None /\ ctx'[b] = ctx[b] /\ ctx[b].flow \in Flows
        BY <1>1, <1>4, <2>3, <3>2 DEF Context
      <4>2. attached[ctx[b].flow] = b \/ \E d \in deleting : d.ctx = b
        BY <4>1 DEF ContextInv, Owned
      <4>3. attached[ctx[b].flow] = b => ctx[b].flow # f
        BY <1>0, FlowAssumption
      <4> QED
        BY <1>4, <4>1, <4>2, <4>3
    <3> QED
      BY <3>1, <3>2
  <2> QED
    BY <1>0, <2>1, <2>2, <2>3 DEF ContextInv, Owned
<1>8. ASSUME NEW g \in Flows, NEW b \in Addrs, Keeps(g, b)
      PROVE  Keeps(g, b)' /\ b # a
  BY <1>0, <1>4, <1>6, <1>8, FlowAssumption DEF Keeps
<1>9. ASSUME NEW e \in Cpus, Holds(e)
      PROVE  Keeps(cpu[e].flow, cpu[e].ctx) /\ cpu[e].flow \in Flows /\ cpu[e].ctx \in Addrs /\ cpu[e].ctx # a
  <2>1. Keeps(cpu[e].flow, cpu[e].ctx)
    BY <1>9 DEF ContextInv, Held
  <2>2. cpu[e].flow \in Flows /\ cpu[e].ctx \in Addrs
    BY <1>1, <1>9, ClassifyShape DEF Holds, Enters, Idle
  <2> QED
    BY <1>8, <2>1, <2>2
<1>10. Held'
  <2>1. ASSUME NEW e \in Cpus, Holds(e)'
        PROVE  Keeps(cpu[e].flow, cpu[e].ctx)'
    <3>1. CASE e = c
      BY <1>3, <1>4, <3>1 DEF Keeps
    <3>2. CASE e # c
      <4>1. Holds(e) /\ cpu'[e] = cpu[e]
        BY <1>3, <2>1, <3>2 DEF Holds, Enters
      <4> QED
        BY <1>8, <1>9, <4>1 DEF Keeps
    <3> QED
      BY <3>1, <3>2
  <2>2. \A e \in Cpus : e # c /\ Enters(e)' => Enters(e) /\ Holds(e) /\ cpu'[e] = cpu[e]
    BY <1>3 DEF Enters, Holds
  <2>3. \A e, h \in Cpus : (Enters(e)' /\ Enters(h)' /\ cpu'[e].ctx = cpu'[h].ctx) => e = h
    BY <1>3, <1>9, <2>2 DEF ContextInv, Held
  <2> QED
    BY <2>1, <2>3 DEF Held
<1>11. Listed'
  <2> SUFFICES ASSUME unload.pc = "loaded", NEW g \in Flows, attached'[g] # None
               PROVE  \/ attached'[g] \in refused
                      \/ \E e \in Cpus : Enters(e)' /\ cpu'[e].flow = g /\ cpu'[e].ctx = attached'[g]
                      \/ \E i \in Slots : s_FlowRegistry[i] = [flow |-> g, ctx |-> attached'[g]]
    BY <1>0 DEF Listed
  <2>1. CASE g = f
    BY <1>3, <1>4, <2>1 DEF Enters
  <2>2. CASE g # f
    <3>1. \A e \in Cpus : Enters(e) => Enters(e)' /\ cpu'[e] = cpu[e]
      BY <1>0, <1>3 DEF Enters
    <3>2. \/ attached[g] \in refused
          \/ \E e \in Cpus : Enters(e) /\ cpu[e].flow = g /\ cpu[e].ctx = attached[g]
          \/ \E i \in Slots : s_FlowRegistry[i] = [flow |-> g, ctx |-> attached[g]]
      BY <1>4, <2>2 DEF ContextInv, Listed
    <3> QED
      BY <1>4, <2>2, <3>1, <3>2
  <2> QED
    BY <2>1, <2>2
<1>12. Surplus'
  <2>1. PICK M \in SUBSET Slots : Lost(M) /\ Cardinality(M) + Cardinality(Late) <= races
    BY DEF ContextInv, Surplus
  <2>2. Late' = Late
    BY <1>0, <1>3 DEF Late
  <2>3. \A b \in Addrs : b # a /\ Registering(b) = {} => Registering(b)' = {}
    BY <1>3 DEF Registering
  <2>4. Others(M)' = Others(M)
    BY <1>0 DEF Others
  <2>5. \A i \in Others(M) : s_FlowRegistry[i].flow \in Flows /\ s_FlowRegistry[i].ctx \in Addrs
    BY <1>1, SlotShape DEF Others
  <2>6. Lost(M)'
    <3>1. ASSUME NEW i \in Others(M)
          PROVE  Keeps(s_FlowRegistry[i].flow, s_FlowRegistry[i].ctx)' /\ Registering(s_FlowRegistry[i].ctx)' = {}
      <4> DEFINE g == s_FlowRegistry[i].flow
                 b == s_FlowRegistry[i].ctx
      <4>1. Keeps(g, b) /\ Registering(b) = {} /\ g \in Flows /\ b \in Addrs
        BY <2>1, <2>5 DEF Lost
      <4>2. Keeps(g, b)' /\ b # a /\ s_FlowRegistry' = s_FlowRegistry
        BY <1>0, <1>8, <4>1 DEF Keeps
      <4> QED
        BY <2>3, <4>1, <4>2 DEF Registering
    <3> QED
      BY <1>0, <2>1, <2>4, <3>1 DEF Lost
  <2> QED
    BY <1>0, <2>1, <2>2, <2>6 DEF Surplus
<1>13. Emptied'
  BY <1>0 DEF ContextInv, Emptied, Unregistered, Unloaded
<1> QED
  BY <1>5, <1>7, <1>10, <1>11, <1>12, <1>13 DEF ContextInv

(* The entry of a context whose flow keeps it takes a free slot; one that comes
   too late uses the slot up. *)
LEMMA StepRegister ==
  ASSUME ContextInv, ~Unloaded, NEW c \in Cpus, Register(c)
  PROVE  ContextInv'
<1> PICK f, a, slot : f = cpu[c].flow /\ a = cpu[c].ctx /\ slot = Min(FreeSlots)
  OBVIOUS
<1> DEFINE full == FreeSlots = {}
<1>0. /\ cpu[c].pc = "register" /\ cpu' = [cpu EXCEPT ![c] = Idle]
      /\ UNCHANGED <<races, ctx, callout, attached, deleting, unload>>
      /\ IF full THEN refused' = refused \cup {a} /\ UNCHANGED s_FlowRegistry
         ELSE s_FlowRegistry' = [s_FlowRegistry EXCEPT ![slot] = [flow |-> f, ctx |-> a]] /\ UNCHANGED refused
  BY DEF Register, FlowRegistryAdd
<1>1. cpu \in [Cpus -> Classify] /\ s_FlowRegistry \in [Slots -> SlotType] /\ races \in Nat
  BY DEF ContextInv, FlowType
<1>2. f \in Flows /\ a \in Addrs /\ cpu[c].late \in BOOLEAN /\ a # None
  BY <1>0, <1>1, ClassifyShape, FlowAssumption DEF Idle
<1>3. cpu'[c] = Idle /\ \A e \in Cpus : e # c => cpu'[e] = cpu[e]
  BY <1>0, <1>1
<1>4. ~full => slot \in Slots /\ s_FlowRegistry[slot].ctx = None
  <2>1. FreeSlots \in SUBSET Nat /\ \A i \in FreeSlots : i \in Slots /\ s_FlowRegistry[i].ctx = None
    BY FlowAssumption DEF FreeSlots, Slots
  <2> QED
    BY <2>1, MinIn
<1> HIDE DEF full
<1>5. /\ full => refused' = refused \cup {a} /\ s_FlowRegistry' = s_FlowRegistry
      /\ ~full => /\ refused' = refused /\ s_FlowRegistry'[slot] = [flow |-> f, ctx |-> a]
                  /\ \A i \in Slots : i # slot => s_FlowRegistry'[i] = s_FlowRegistry[i]
  BY <1>0, <1>1, <1>4
<1>6. s_FlowRegistry' \in [Slots -> SlotType]
  <2>1. [flow |-> f, ctx |-> a] \in SlotType
    BY <1>2 DEF SlotType
  <2> QED
    BY <1>0, <1>1, <1>4, <2>1
<1>7. FlowType'
  <2>1. cpu' \in [Cpus -> Classify]
    BY <1>0, <1>1 DEF Classify
  <2> QED
    BY <1>0, <1>6, <2>1 DEF ContextInv, FlowType
<1>8. Owned'
  BY <1>0 DEF ContextInv, Owned
<1>9. \A e \in Cpus : (Holds(e)' => Holds(e) /\ cpu'[e] = cpu[e]) /\ (Enters(e)' => Enters(e))
  BY <1>3 DEF Holds, Enters, Idle
<1>10. Held'
  <2>1. \A g, b : Keeps(g, b) => Keeps(g, b)'
    BY <1>0 DEF Keeps
  <2>2. \A e \in Cpus : Holds(e)' => Keeps(cpu[e].flow, cpu[e].ctx)'
    BY <1>0, <1>9, <2>1 DEF ContextInv, Held, Keeps
  <2>3. \A e, h \in Cpus : (Enters(e)' /\ Enters(h)' /\ cpu'[e].ctx = cpu'[h].ctx) => e = h
    BY <1>9 DEF ContextInv, Held, Holds
  <2> QED
    BY <2>2, <2>3 DEF Held
<1>11. Listed'
  <2> SUFFICES ASSUME unload.pc = "loaded", NEW g \in Flows, attached[g] # None
               PROVE  \/ attached[g] \in refused'
                      \/ \E e \in Cpus : Enters(e)' /\ cpu'[e].flow = g /\ cpu'[e].ctx = attached[g]
                      \/ \E i \in Slots : s_FlowRegistry'[i] = [flow |-> g, ctx |-> attached[g]]
    BY <1>0 DEF Listed
  <2>1. \/ attached[g] \in refused
        \/ \E e \in Cpus : Enters(e) /\ cpu[e].flow = g /\ cpu[e].ctx = attached[g]
        \/ \E i \in Slots : s_FlowRegistry[i] = [flow |-> g, ctx |-> attached[g]]
    BY DEF ContextInv, Listed
  <2>2. CASE attached[g] \in refused
    BY <1>5, <2>2
  <2>3. CASE \E e \in Cpus : Enters(e) /\ cpu[e].flow = g /\ cpu[e].ctx = attached[g]
    <3>1. PICK e \in Cpus : Enters(e) /\ cpu[e].flow = g /\ cpu[e].ctx = attached[g]
      BY <2>3
    <3>2. CASE e = c
      BY <1>4, <1>5, <3>1, <3>2
    <3>3. CASE e # c
      BY <1>3, <3>1, <3>3 DEF Enters
    <3> QED
      BY <3>2, <3>3
  <2>4. CASE \E i \in Slots : s_FlowRegistry[i] = [flow |-> g, ctx |-> attached[g]]
    BY <1>4, <1>5, <2>4
  <2> QED
    BY <2>1, <2>2, <2>3, <2>4
<1>12. Surplus'
  <2>1. PICK M \in SUBSET Slots : Lost(M) /\ Cardinality(M) + Cardinality(Late) <= races
    BY DEF ContextInv, Surplus
  <2>2. \A b : Registering(b)' \subseteq Registering(b) /\ c \notin Registering(b)'
    BY <1>3 DEF Registering, Idle
  <2>3. \A g, b : Keeps(g, b) => Keeps(g, b)'
    BY <1>0 DEF Keeps
  <2>4. Late' = Late \ {c}
    BY <1>3 DEF Late, Idle
  <2>5. Cardinality(Late') = IF c \in Late THEN Cardinality(Late) - 1 ELSE Cardinality(Late)
    BY <2>4, LateFinite, FS_RemoveElement, FlowAssumption
  <2>6. Cardinality(M) \in Nat /\ IsFiniteSet(M) /\ Cardinality(Late) \in Nat
    BY SlotsFinite, LateFinite, FlowAssumption
  <2>7. ASSUME NEW N \in SUBSET Slots, NEW i \in Others(N)', i \in Others(M), s_FlowRegistry'[i] = s_FlowRegistry[i]
        PROVE  Keeps(s_FlowRegistry[i].flow, s_FlowRegistry[i].ctx)' /\ Registering(s_FlowRegistry[i].ctx)' = {}
    <3>1. Keeps(s_FlowRegistry[i].flow, s_FlowRegistry[i].ctx) /\ Registering(s_FlowRegistry[i].ctx) = {}
      BY <2>1, <2>7 DEF Lost
    <3> QED
      BY <1>0, <2>2, <2>7, <3>1 DEF Keeps, Registering
  <2>8. CASE full \/ (slot \in M /\ Enters(c)) \/ (~full /\ ~Enters(c))
    <3>0. PICK N \in SUBSET Slots : N = IF full \/ slot \in M THEN M ELSE M \cup {slot}
      BY <1>4
    <3>1. \A i \in Others(N)' : i \in Others(M) /\ s_FlowRegistry'[i] = s_FlowRegistry[i]
      <4>1. CASE full
        BY <1>5, <3>0, <4>1 DEF Others
      <4>2. CASE ~full
        <5>1. slot \in N /\ M \subseteq N
          BY <3>0, <4>2
        <5> QED
          BY <1>5, <4>2, <5>1 DEF Others
      <4> QED
        BY <4>1, <4>2
    <3>2. Lost(N)'
      <4>1. \A i, j \in Others(N)' : s_FlowRegistry'[i].ctx = s_FlowRegistry'[j].ctx => i = j
        BY <2>1, <3>1 DEF Lost
      <4> QED
        BY <2>7, <3>1, <4>1 DEF Lost
    <3>3. Cardinality(N) + Cardinality(Late') <= races
      <4>1. CASE full \/ slot \in M
        BY <1>1, <2>1, <2>5, <2>6, <3>0, <4>1
      <4>2. CASE ~(full \/ slot \in M)
        <5>1. c \in Late
          BY <1>0, <1>2, <2>8, <4>2 DEF Enters, Late
        <5>2. Cardinality(M \cup {slot}) = Cardinality(M) + 1
          BY <2>6, <4>2, FS_AddElement
        <5> QED
          BY <1>1, <2>1, <2>5, <2>6, <3>0, <4>2, <5>1, <5>2
      <4> QED
        BY <4>1, <4>2
    <3> QED
      BY <1>0, <3>1, <3>2, <3>3 DEF Surplus
  <2>9. CASE ~full /\ slot \notin M /\ Enters(c)
    <3>1. Keeps(f, a) /\ \A e \in Cpus : Enters(e) /\ cpu[e].ctx = a => e = c
      BY <2>9 DEF ContextInv, Held, Holds
    <3>2. Registering(a)' = {} /\ c \in Registering(a)
      <4>1. \A e \in Registering(a) : e \in Cpus /\ Enters(e) /\ cpu[e].ctx = a
        BY <1>1, ClassifyShape DEF Registering, Enters
      <4>2. c \in Registering(a)
        BY <2>9 DEF Registering, Enters
      <4>3. Registering(a)' \subseteq Registering(a) \ {c}
        BY <1>3 DEF Registering, Idle
      <4> QED
        BY <3>1, <4>1, <4>2, <4>3
    <3>3. \A i \in Others(M)' : i = slot \/ (i \in Others(M) /\ s_FlowRegistry'[i] = s_FlowRegistry[i])
      BY <1>5, <2>9 DEF Others
    <3>4. \A i \in Others(M) : s_FlowRegistry[i].ctx # a
      BY <2>1, <3>2 DEF Lost
    <3>5. ASSUME NEW i \in Others(M)'
          PROVE  /\ Keeps(s_FlowRegistry[i].flow, s_FlowRegistry[i].ctx)'
                 /\ Registering(s_FlowRegistry[i].ctx)' = {}
                 /\ \A j \in Others(M)' : s_FlowRegistry'[i].ctx = s_FlowRegistry'[j].ctx => i = j
      <4>1. CASE i = slot
        <5>1. s_FlowRegistry'[i].flow = f /\ s_FlowRegistry'[i].ctx = a
          BY <1>5, <2>9, <4>1
        <5>2. Keeps(s_FlowRegistry[i].flow, s_FlowRegistry[i].ctx)' /\ Registering(s_FlowRegistry[i].ctx)' = {}
          BY <1>0, <3>1, <3>2, <5>1 DEF Keeps, Registering
        <5> QED
          BY <3>3, <3>4, <4>1, <5>1, <5>2
      <4>2. CASE i # slot
        <5>1. i \in Others(M) /\ s_FlowRegistry'[i] = s_FlowRegistry[i]
          BY <3>3, <4>2
        <5>2. Keeps(s_FlowRegistry[i].flow, s_FlowRegistry[i].ctx)' /\ Registering(s_FlowRegistry[i].ctx)' = {}
          BY <2>7, <5>1
        <5>3. s_FlowRegistry'[slot].ctx = a /\ s_FlowRegistry[i].ctx # a
          BY <1>5, <2>9, <3>4, <5>1
        <5>4. \A j \in Others(M) : s_FlowRegistry[i].ctx = s_FlowRegistry[j].ctx => i = j
          BY <2>1, <5>1 DEF Lost
        <5> QED
          BY <3>3, <5>1, <5>2, <5>3, <5>4
      <4> QED
        BY <4>1, <4>2
    <3>6. Lost(M)'
      BY <3>5 DEF Lost
    <3>7. Cardinality(M) + Cardinality(Late') <= races
      BY <1>1, <2>1, <2>5, <2>6
    <3> QED
      BY <1>0, <3>6, <3>7 DEF Surplus
  <2> QED
    BY <2>8, <2>9
<1>13. Emptied'
  BY <1>0, <1>3 DEF ContextInv, Emptied, Unregistered, Unloaded
<1> QED
  BY <1>7, <1>8, <1>10, <1>11, <1>12, <1>13 DEF ContextInv

(* FlowDeleteFn takes the context off the registry.  If its entry was made over
   an older one that is lost, the older is removed and the entry is lost in its
   place; a call that has yet to enter it will lose a slot. *)
LEMMA StepDeleteRemoves ==
  ASSUME ContextInv, ~Unloaded, NEW d \in deleting, DeleteRemoves(d)
  PROVE  ContextInv'
<1> PICK a, R, i0, d2 : /\ a = d.ctx /\ R = Registering(a) /\ i0 = Min(SlotsOf(a))
                        /\ d2 = [d EXCEPT !.pc = "removed"]
  OBVIOUS
<1>0. /\ d.pc = "owed" /\ ~InUse(a)
      /\ FlowRegistryRemove(a)
      /\ deleting' = (deleting \ {d}) \cup {d2}
      /\ races' = races + Cardinality(R)
      /\ cpu' = [c \in Cpus |-> IF c \in R THEN [cpu[c] EXCEPT !.late = TRUE] ELSE cpu[c]]
      /\ UNCHANGED <<refused, ctx, callout, attached, unload>>
  BY DEF DeleteRemoves
<1>1. /\ cpu \in [Cpus -> Classify] /\ s_FlowRegistry \in [Slots -> SlotType] /\ races \in Nat
      /\ deleting \subseteq Deletion /\ attached \in [Flows -> Addrs \cup {None}]
  BY DEF ContextInv, FlowType
<1>2. a \in Addrs /\ a # None /\ d.flow \in Flows
  BY <1>1, FlowAssumption DEF Deletion
<1>3. d2 \in Deletion /\ d2.ctx = a /\ d2.flow = d.flow /\ d2.pc = "removed"
  BY <1>1 DEF Deletion
<1>4. \A g \in Flows : attached[g] # a
  <2>1. ctx[a] # None /\ ctx[a].flow = d.flow /\ attached[d.flow] # a
    BY DEF ContextInv, Owned
  <2> QED
    BY <1>2, <2>1 DEF ContextInv, Owned
<1>5. ASSUME NEW c \in Cpus
      PROVE  /\ c \in R <=> Enters(c) /\ cpu[c].ctx = a
             /\ c \in R => /\ cpu'[c] \in Classify /\ cpu'[c].pc = "register" /\ cpu'[c].late = TRUE
                           /\ cpu'[c].layer = cpu[c].layer /\ cpu'[c].ctx = a /\ cpu'[c] # Idle /\ cpu[c] # Idle
             /\ c \notin R => cpu'[c] = cpu[c]
  <2>1. c \in R <=> Enters(c) /\ cpu[c].ctx = a
    BY <1>1, ClassifyShape DEF Registering, Enters
  <2>2. CASE c \in R
    <3>1. cpu[c] \in [pc : {"register"}, layer : Callouts, flow : Flows, ctx : Addrs, late : BOOLEAN]
      BY <1>1, <2>1, <2>2 DEF Enters, Classify, Idle
    <3>2. cpu'[c] = [cpu[c] EXCEPT !.late = TRUE]
      BY <1>0, <2>2
    <3>3. /\ cpu'[c] \in [pc : {"register"}, layer : Callouts, flow : Flows, ctx : Addrs, late : BOOLEAN]
          /\ cpu'[c].layer = cpu[c].layer /\ cpu'[c].ctx = cpu[c].ctx /\ cpu'[c].late = TRUE
      BY <3>1, <3>2
    <3>4. cpu'[c] \in Classify /\ cpu'[c].pc = "register" /\ cpu[c].pc = "register"
      BY <3>1, <3>3 DEF Classify
    <3> QED
      BY <2>1, <2>2, <3>3, <3>4 DEF Idle
  <2>3. CASE c \notin R
    BY <1>0, <2>1, <2>3
  <2> QED
    BY <2>1, <2>2, <2>3
<1>6. /\ SlotsOf(a) # {} => i0 \in SlotsOf(a) /\ s_FlowRegistry'[i0] = EmptySlot
      /\ \A i \in Slots : i # i0 \/ SlotsOf(a) = {} => s_FlowRegistry'[i] = s_FlowRegistry[i]
      /\ s_FlowRegistry' \in [Slots -> SlotType]
  <2>1. SlotsOf(a) \in SUBSET Nat /\ SlotsOf(a) \subseteq Slots
    BY FlowAssumption DEF SlotsOf, Slots
  <2>2. SlotsOf(a) # {} => i0 \in SlotsOf(a)
    BY <2>1, MinIn
  <2>3. s_FlowRegistry' = [i \in Slots |-> IF SlotsOf(a) # {} /\ i = i0 THEN EmptySlot ELSE s_FlowRegistry[i]]
    BY <1>0 DEF FlowRegistryRemove
  <2> QED
    BY <1>1, <2>1, <2>2, <2>3 DEF SlotType
<1>7. FlowType'
  <2>1. cpu' \in [Cpus -> Classify]
    BY <1>0, <1>1, <1>5
  <2>2. Cardinality(R) \in Nat
    BY FS_Subset, FS_CardinalityType, FlowAssumption DEF Registering
  <2>3. races' \in Nat /\ deleting' \subseteq Deletion
    BY <1>0, <1>1, <1>3, <2>2
  <2> QED
    BY <1>0, <1>6, <2>1, <2>3 DEF ContextInv, FlowType
<1>8. Owned'
  <2>1. \A e \in deleting' : \E x \in deleting : x.ctx = e.ctx /\ x.flow = e.flow /\ (x = e \/ x = d)
    <3>1. ASSUME NEW e \in deleting', e # d2
          PROVE  e \in deleting
      BY <1>0, <3>1
    <3> QED
      BY <1>3, <3>1
  <2>2. \A x \in deleting : \E e \in deleting' : x.ctx = e.ctx
    BY <1>0, <1>3
  <2>3. \A e \in deleting' : ctx[e.ctx] # None /\ ctx[e.ctx].flow = e.flow /\ attached[e.flow] # e.ctx
    BY <2>1 DEF ContextInv, Owned
  <2>4. ASSUME NEW e \in deleting', NEW x \in deleting', e.ctx = x.ctx
        PROVE  e = x
    <3>1. \A y, z \in deleting : y.ctx = z.ctx => y = z
      BY DEF ContextInv, Owned
    <3>2. \A y \in deleting' : y = d2 \/ (y \in deleting /\ y # d)
      BY <1>0
    <3>3. \A y \in deleting' : y # d2 => y.ctx # d2.ctx
      BY <1>3, <3>1, <3>2
    <3> QED
      BY <2>4, <3>1, <3>2, <3>3
  <2>5. \A b \in Addrs : ctx[b] # None => attached[ctx[b].flow] = b \/ \E e \in deleting' : e.ctx = b
    BY <2>2 DEF ContextInv, Owned
  <2> QED
    BY <1>0, <2>3, <2>4, <2>5 DEF ContextInv, Owned
<1>9. ASSUME NEW g, NEW b, Keeps(g, b), b # a
      PROVE  Keeps(g, b)'
  BY <1>0, <1>9 DEF Keeps
<1>10. \A e \in Cpus : Enters(e)' => Enters(e) /\ e \notin R
  BY <1>5 DEF Enters
<1>11. Held'
  <2>1. ASSUME NEW e \in Cpus, Holds(e)'
        PROVE  Keeps(cpu[e].flow, cpu[e].ctx)'
    <3>1. e \notin R /\ cpu'[e] = cpu[e] /\ Holds(e)
      BY <1>5, <1>10, <2>1 DEF Holds, Enters
    <3>2. Keeps(cpu[e].flow, cpu[e].ctx) /\ cpu[e].ctx # a
      BY <1>0, <1>5, <3>1 DEF ContextInv, Held, Holds, InUse
    <3> QED
      BY <1>0, <1>9, <3>1, <3>2 DEF Keeps
  <2>2. \A e, h \in Cpus : (Enters(e)' /\ Enters(h)' /\ cpu'[e].ctx = cpu'[h].ctx) => e = h
    BY ZenonT(60), <1>5, <1>10 DEF ContextInv, Held
  <2> QED
    BY <2>1, <2>2 DEF Held
<1>12. Listed'
  <2> SUFFICES ASSUME unload.pc = "loaded", NEW g \in Flows, attached[g] # None
               PROVE  \/ attached[g] \in refused
                      \/ \E e \in Cpus : Enters(e)' /\ cpu'[e].flow = g /\ cpu'[e].ctx = attached[g]
                      \/ \E i \in Slots : s_FlowRegistry'[i] = [flow |-> g, ctx |-> attached[g]]
    BY <1>0 DEF Listed
  <2>1. \/ attached[g] \in refused
        \/ \E e \in Cpus : Enters(e) /\ cpu[e].flow = g /\ cpu[e].ctx = attached[g]
        \/ \E i \in Slots : s_FlowRegistry[i] = [flow |-> g, ctx |-> attached[g]]
    BY DEF ContextInv, Listed
  <2>2. CASE \E e \in Cpus : Enters(e) /\ cpu[e].flow = g /\ cpu[e].ctx = attached[g]
    BY ZenonT(60), <1>4, <1>5, <2>2 DEF Enters
  <2>3. CASE \E i \in Slots : s_FlowRegistry[i] = [flow |-> g, ctx |-> attached[g]]
    BY <1>4, <1>6, <2>3 DEF SlotsOf
  <2> QED
    BY <2>1, <2>2, <2>3
<1>13. Surplus'
  <2>1. PICK M \in SUBSET Slots : Lost(M) /\ Cardinality(M) + Cardinality(Late) <= races
    BY DEF ContextInv, Surplus
  <2>2. Cardinality(M) \in Nat /\ IsFiniteSet(M) /\ IsFiniteSet(Late) /\ Cardinality(Late) \in Nat
    BY SlotsFinite, LateFinite, FlowAssumption
  <2>3. Cardinality(Late') = Cardinality(Late) + Cardinality(R)
    <3>1. Late' = Late \cup R /\ Late \cap R = {} /\ R \subseteq Cpus
      <4>1. R \subseteq Cpus
        BY DEF Registering
      <4>2. \A c \in Cpus : c \in Late' <=> c \in Late \/ c \in R
        BY <1>5 DEF Late
      <4>3. \A c \in R : c \notin Late
        BY <1>5, <4>1 DEF Late, Enters
      <4>4. Late \subseteq Cpus /\ Late' \subseteq Cpus
        BY DEF Late
      <4> QED
        BY <4>1, <4>2, <4>3, <4>4
    <3>2. IsFiniteSet(R) /\ Cardinality(R) \in Nat
      BY <3>1, FS_Subset, FS_CardinalityType, FlowAssumption
    <3>3. Cardinality(Late \cup R) = Cardinality(Late) + Cardinality(R) - Cardinality(Late \cap R)
      BY <2>2, <3>2, FS_Union
    <3>4. Cardinality(Late \cap R) = 0
      BY <3>1, FS_EmptySet
    <3> QED
      BY <2>2, <3>1, <3>2, <3>3, <3>4
  <2>4. PICK N \in SUBSET Slots :
          /\ Cardinality(N) = Cardinality(M)
          /\ \A i \in Others(N)' : i \in Others(M) /\ s_FlowRegistry[i].ctx # a /\ s_FlowRegistry'[i] = s_FlowRegistry[i]
    <3>0. \A i, j \in Others(M) : s_FlowRegistry[i].ctx = s_FlowRegistry[j].ctx => i = j
      BY <2>1 DEF Lost
    <3>1. CASE \A j \in Others(M) : s_FlowRegistry[j].ctx = a => j = i0
      <4>1. ASSUME NEW i \in Others(M)'
            PROVE  i \in Others(M) /\ s_FlowRegistry[i].ctx # a /\ s_FlowRegistry'[i] = s_FlowRegistry[i]
        <5>1. i \in Slots /\ i \notin M /\ s_FlowRegistry'[i].ctx # None
          BY DEF Others
        <5>2. s_FlowRegistry'[i] = s_FlowRegistry[i] /\ (i = i0 => SlotsOf(a) = {})
          BY <1>6, <5>1 DEF EmptySlot
        <5>3. i \in Others(M)
          BY <5>1, <5>2 DEF Others
        <5>4. s_FlowRegistry[i].ctx # a
          BY <3>1, <5>1, <5>2, <5>3 DEF SlotsOf
        <5> QED
          BY <5>2, <5>3, <5>4
      <4> QED
        BY <4>1
    <3>2. CASE \E j \in Others(M) : s_FlowRegistry[j].ctx = a /\ j # i0
      <4>1. PICK j \in Others(M) : s_FlowRegistry[j].ctx = a /\ j # i0
        BY <3>2
      <4>2. j \in Slots /\ j \notin M /\ j \in SlotsOf(a)
        BY <4>1 DEF Others, SlotsOf
      <4>3. i0 \in SlotsOf(a) /\ i0 \in Slots /\ s_FlowRegistry[i0].ctx = a /\ s_FlowRegistry'[i0].ctx = None
        BY <1>6, <4>2 DEF SlotsOf, EmptySlot
      <4>4. i0 \in M
        BY <1>2, <3>0, <4>1, <4>3 DEF Others
      <4> DEFINE N == (M \ {i0}) \cup {j}
      <4>5. Cardinality(N) = Cardinality(M)
        <5>1. IsFiniteSet(M \ {i0}) /\ Cardinality(M \ {i0}) = Cardinality(M) - 1
          BY <2>2, <4>4, FS_RemoveElement
        <5>2. Cardinality(N) = Cardinality(M \ {i0}) + 1
          BY <4>2, <5>1, FS_AddElement
        <5> QED
          BY <2>2, <5>1, <5>2
      <4>6. ASSUME NEW i \in Others(N)'
            PROVE  i \in Others(M) /\ s_FlowRegistry[i].ctx # a /\ s_FlowRegistry'[i] = s_FlowRegistry[i]
        <5>1. i \in Slots /\ i \notin N /\ s_FlowRegistry'[i].ctx # None
          BY DEF Others
        <5>2. i # i0 /\ i # j /\ i \notin M
          BY <4>3, <5>1
        <5>3. s_FlowRegistry'[i] = s_FlowRegistry[i]
          BY <1>6, <5>1, <5>2
        <5>4. i \in Others(M)
          BY <5>1, <5>2, <5>3 DEF Others
        <5> QED
          BY <3>0, <4>1, <5>2, <5>3, <5>4
      <4>7. N \in SUBSET Slots
        BY <4>2
      <4> QED
        BY <4>5, <4>6, <4>7
    <3> QED
      BY <3>1, <3>2
  <2>5. Lost(N)'
    <3>1. ASSUME NEW i \in Others(N)'
          PROVE  /\ Keeps(s_FlowRegistry[i].flow, s_FlowRegistry[i].ctx)'
                 /\ Registering(s_FlowRegistry[i].ctx)' = {}
                 /\ \A j \in Others(N)' : s_FlowRegistry'[i].ctx = s_FlowRegistry'[j].ctx => i = j
      <4>1. i \in Others(M) /\ s_FlowRegistry[i].ctx # a /\ s_FlowRegistry'[i] = s_FlowRegistry[i]
        BY <2>4
      <4>2. Keeps(s_FlowRegistry[i].flow, s_FlowRegistry[i].ctx) /\ Registering(s_FlowRegistry[i].ctx) = {}
        BY <2>1, <4>1 DEF Lost
      <4>3. Keeps(s_FlowRegistry[i].flow, s_FlowRegistry[i].ctx)'
        BY <1>0, <1>9, <4>1, <4>2 DEF Keeps
      <4>4. Registering(s_FlowRegistry[i].ctx)' = {}
        <5>1. \A e \in Cpus : cpu'[e] = cpu[e] \/ cpu'[e].late = TRUE
          BY <1>5
        <5>2. \A b : Registering(b) = {} => Registering(b)' = {}
          BY <5>1 DEF Registering
        <5> QED
          BY <4>1, <4>2, <5>2 DEF Registering
      <4>5. \A j \in Others(N)' : s_FlowRegistry'[i].ctx = s_FlowRegistry'[j].ctx => i = j
        BY <2>1, <2>4, <4>1 DEF Lost
      <4> QED
        BY <4>3, <4>4, <4>5
    <3> QED
      BY <3>1 DEF Lost
  <2>6. Cardinality(N) + Cardinality(Late') <= races'
    <3>1. Cardinality(R) \in Nat
      BY FS_Subset, FS_CardinalityType, FlowAssumption DEF Registering
    <3> QED
      BY <1>0, <1>1, <2>1, <2>2, <2>3, <2>4, <3>1
  <2> QED
    BY <2>5, <2>6 DEF Surplus
<1>14. Emptied'
  <2>1. ~Unregistered
    BY DEF ContextInv, Emptied
  <2> QED
    BY <1>0, <2>1 DEF Emptied, Unregistered, Unloaded
<1> QED
  BY <1>7, <1>8, <1>11, <1>12, <1>13, <1>14 DEF ContextInv

(* The rest of FlowDeleteFn frees the context, which no one holds any more. *)
LEMMA StepDeleteReports ==
  ASSUME ContextInv, ~Unloaded, NEW d \in deleting, DeleteReports(d)
  PROVE  ContextInv'
<1> PICK a : a = d.ctx
  OBVIOUS
<1>0. /\ d.pc = "removed" /\ ctx' = [ctx EXCEPT ![a] = None]
      /\ deleting' = deleting \ {d} /\ refused' = refused \ {a}
      /\ UNCHANGED <<s_FlowRegistry, races, callout, attached, cpu, unload>>
  BY DEF DeleteReports
<1>1. /\ ctx \in [Addrs -> Context \cup {None}] /\ deleting \subseteq Deletion
      /\ attached \in [Flows -> Addrs \cup {None}]
  BY DEF ContextInv, FlowType
<1>2. a \in Addrs /\ d.flow \in Flows /\ a # None
  BY <1>1, FlowAssumption DEF Deletion
<1>3. \A g \in Flows : attached[g] # a
  <2>1. ctx[a] # None /\ ctx[a].flow = d.flow /\ attached[d.flow] # a
    BY DEF ContextInv, Owned
  <2> QED
    BY <1>2, <2>1 DEF ContextInv, Owned
<1>4. ctx'[a] = None /\ \A b \in Addrs : b # a => ctx'[b] = ctx[b]
  BY <1>0, <1>1, <1>2
<1>5. FlowType'
  <2>1. ctx' \in [Addrs -> Context \cup {None}] /\ deleting' \subseteq Deletion
    BY <1>0, <1>1
  <2> QED
    BY <1>0, <2>1 DEF ContextInv, FlowType
<1>6. Owned'
  <2>1. \A e \in deleting' : e \in deleting /\ e.ctx # a /\ e.ctx \in Addrs
    BY <1>0, <1>1 DEF ContextInv, Owned, Deletion
  <2>2. \A f \in Flows : attached[f] # None => ctx'[attached[f]] # None /\ ctx'[attached[f]].flow = f
    BY <1>1, <1>3, <1>4 DEF ContextInv, Owned
  <2>3. \A e \in deleting' : ctx'[e.ctx] # None /\ ctx'[e.ctx].flow = e.flow /\ attached[e.flow] # e.ctx
    BY <1>4, <2>1 DEF ContextInv, Owned
  <2>4. ASSUME NEW b \in Addrs, ctx'[b] # None
        PROVE  attached[ctx'[b].flow] = b \/ \E e \in deleting' : e.ctx = b
    <3>1. b # a /\ ctx'[b] = ctx[b]
      BY <1>4, <2>4
    <3> QED
      BY <1>0, <2>4, <3>1 DEF ContextInv, Owned
  <2> QED
    BY <1>0, <2>1, <2>2, <2>3, <2>4 DEF ContextInv, Owned
<1>7. Emptied'
  <2>1. ~Unregistered
    BY DEF ContextInv, Emptied
  <2> QED
    BY <1>0, <2>1 DEF Emptied, Unregistered, Unloaded
<1>8. \A g \in Flows, b \in Addrs : Keeps(g, b) => Keeps(g, b)'
  BY <1>0 DEF Keeps
<1>9. Quiet
  BY <1>0, <1>3, <1>8 DEF Quiet
<1> QED
  BY <1>5, <1>6, <1>7, <1>9, QuietKeeps DEF ContextInv

-----------------------------------------------------------------------------
LEMMA FlowInitInv == FlowInit => FlowInv
<1> SUFFICES ASSUME FlowInit PROVE FlowInv
  OBVIOUS
<1> USE DEF FlowInit
<1>1. FlowType
  BY DEF FlowType, SlotType, Unloading, Classify
<1>2. Owned
  BY DEF Owned
<1>3. Held
  BY DEF Held, Holds, Enters, Idle
<1>4. Listed
  BY DEF Listed
<1>5. Surplus
  <2>1. Late = {} /\ Others({}) = {}
    BY DEF Late, Others, Idle, EmptySlot
  <2>2. Lost({}) /\ Cardinality({}) + Cardinality(Late) <= races
    BY <2>1, FS_EmptySet DEF Lost
  <2> QED
    BY <2>2 DEF Surplus
<1>6. Emptied
  BY DEF Emptied, Unregistered, Unloaded
<1>7. TuplesType
  BY FlowAssumption DEF TuplesType, TupleSlots, TupleType, EmptyTuple
<1>8. Recorded
  BY DEF Recorded, Matches, EmptyTuple
<1>9. Reported
  <2>1. \A f \in Flows : ContextsOf(f) = {} /\ unreported[f] = 0
    BY DEF ContextsOf
  <2>2. Bytes(ctx, {}) = 0
    <3>1. IsFiniteSet({}) /\ \A a \in {} : ctx[a].bytes \in Int
      BY FS_EmptySet
    <3> QED
      BY <3>1, BytesSplit
  <2>3. unreported \in [Flows -> Int]
    OBVIOUS
  <2> QED
    BY <2>1, <2>2, <2>3 DEF Reported
<1> QED
  BY <1>1, <1>2, <1>3, <1>4, <1>5, <1>6, <1>7, <1>8, <1>9 DEF FlowInv, ContextInv

LEMMA ContextsStutter ==
  ASSUME ContextInv,
         UNCHANGED <<registry, ctx, callout, attached, deleting, cpu, unload>>
  PROVE  ContextInv'
<1>1. UNCHANGED <<s_FlowRegistry, refused, races, ctx, callout, attached, deleting, cpu, unload>>
  BY DEF registry
<1>2. FlowType' /\ Owned' /\ Emptied'
  BY <1>1 DEF ContextInv, FlowType, Owned, Emptied, Unregistered, Unloaded
<1>3. Quiet
  BY <1>1 DEF Quiet, Keeps
<1> QED
  BY <1>2, <1>3, QuietKeeps DEF ContextInv

(* A step of a classify, a deletion or the unload. *)
LEMMA ContextsStep ==
  ASSUME ContextInv, FlowNext
  PROVE  ContextInv'
<1>0. ~Unloaded /\ Steps
  BY DEF FlowNext
<1>1. ASSUME NEW conn \in Authorised, RecordAuthorised(conn[1], conn[2]) PROVE ContextInv'
  BY <1>1, ContextsStutter DEF RecordAuthorised
<1>2. ASSUME NEW f \in Flows, FlowEnds(f) PROVE ContextInv'
  BY <1>0, <1>2, StepFlowEnds
<1>3. ASSUME NEW c \in Cpus, NEW f \in Flows, FlowEstablished(c, f) \/ StreamSegment(c, f) PROVE ContextInv'
  BY <1>0, <1>3, StepFlowEstablished, StepStreamSegment
<1>4. ASSUME NEW c \in Cpus, FlowCountStreamBytes(c) \/ NotAssociated(c) \/ Register(c) PROVE ContextInv'
  BY <1>0, <1>4, StepCount, StepNotAssociated, StepRegister
<1>5. ASSUME NEW c \in Cpus, NEW a \in Addrs, Associate(c, a) PROVE ContextInv'
  BY <1>0, <1>5, StepAssociate
<1>6. ASSUME NEW d \in deleting, DeleteRemoves(d) \/ DeleteReports(d) PROVE ContextInv'
  BY <1>0, <1>6, StepDeleteRemoves, StepDeleteReports
<1>7. ASSUME StartUnload \/ TakeSlot \/ RemoveContext \/ UnregisterSucceeds \/ UnregisterFails PROVE ContextInv'
  BY <1>0, <1>7, StepStartUnload, StepTakeSlot, StepRemoveContext, StepUnregisterSucceeds, StepUnregisterFails
<1> QED
  BY <1>0, <1>1, <1>2, <1>3, <1>4, <1>5, <1>6, <1>7 DEF Steps

(* Two actions record a tuple; the others leave the table alone. *)
LEMMA TuplesStep ==
  ASSUME TuplesType, Recorded, [FlowNext]_vars
  PROVE  /\ TuplesType' /\ Recorded'
         /\ \A u \in Tuples : latest = u => Matches(u)' # {}
<1>1. CASE UNCHANGED tuples
  <2>1. UNCHANGED <<s_TupleTable, s_TupleNext, recorded, latest>>
    BY <1>1 DEF tuples
  <2>2. \A u : Matches(u)' = Matches(u)
    BY <2>1 DEF Matches
  <2>3. TuplesType' /\ Recorded'
    BY <2>1, <2>2 DEF TuplesType, Recorded, Matches
  <2> QED
    BY <2>2, <2>3, FlowAssumption DEF Recorded
<1>2. ASSUME NEW conn \in Authorised, RecordAuthorised(conn[1], conn[2])
      PROVE  FlowTupleRecordPid(conn[1], conn[2]) /\ conn[1] \in Tuples /\ conn[2] \in Pids
  BY <1>2, FlowAssumption DEF RecordAuthorised
<1>3. ASSUME NEW c \in Cpus, NEW f \in Flows, FlowEstablished(c, f)
      PROVE  FlowTupleRecordPid(TupleOf[f], PidOf[f]) /\ TupleOf[f] \in Tuples /\ PidOf[f] \in Pids
  BY <1>3, FlowAssumption DEF FlowEstablished
<1>4. CASE UNCHANGED vars
  BY <1>1, <1>4 DEF vars
<1>5. CASE FlowNext
  <2>0. Steps
    BY <1>5 DEF FlowNext
  <2>1. ASSUME NEW f \in Flows, FlowEnds(f) PROVE UNCHANGED tuples
    BY <2>1 DEF FlowEnds
  <2>2. ASSUME NEW c \in Cpus, NEW f \in Flows, StreamSegment(c, f) PROVE UNCHANGED tuples
    BY <2>2 DEF StreamSegment
  <2>3. ASSUME NEW c \in Cpus, FlowCountStreamBytes(c) \/ NotAssociated(c) \/ Register(c) PROVE UNCHANGED tuples
    BY <2>3 DEF FlowCountStreamBytes, NotAssociated, Register
  <2>4. ASSUME NEW c \in Cpus, NEW a \in Addrs, Associate(c, a) PROVE UNCHANGED tuples
    BY <2>4 DEF Associate
  <2>5. ASSUME NEW d \in deleting, DeleteRemoves(d) \/ DeleteReports(d) PROVE UNCHANGED tuples
    BY <2>5 DEF DeleteRemoves, DeleteReports
  <2>6. ASSUME StartUnload \/ TakeSlot \/ RemoveContext \/ UnregisterSucceeds \/ UnregisterFails PROVE UNCHANGED tuples
    BY <2>6 DEF StartUnload, TakeSlot, RemoveContext, UnregisterSucceeds, UnregisterFails
  <2>7. \/ UNCHANGED tuples
        \/ \E t \in Tuples, pid \in Pids : FlowTupleRecordPid(t, pid)
    BY <1>2, <1>3, <2>0, <2>1, <2>2, <2>3, <2>4, <2>5, <2>6 DEF Steps
  <2> QED
    BY <1>1, <2>7, RecordKeeps
<1> QED
  BY <1>4, <1>5

LEMMA ReportedStep ==
  ASSUME ContextInv, Reported, [FlowNext]_vars
  PROVE  Reported'
<1>0. /\ ctx \in [Addrs -> Context \cup {None}] /\ unreported \in [Flows -> Int]
      /\ cpu \in [Cpus -> Classify] /\ deleting \subseteq Deletion
  BY DEF ContextInv, FlowType, Reported
<1>1. \A f \in Flows : IsFiniteSet(ContextsOf(f)) /\ \A a \in ContextsOf(f) : a \in Addrs /\ ctx[a] \in Context /\ ctx[a].bytes \in Int
  <2>1. ASSUME NEW f \in Flows
        PROVE  ContextsOf(f) \in SUBSET Addrs /\ \A a \in ContextsOf(f) : ctx[a] \in Context /\ ctx[a].bytes \in Int
    BY <1>0 DEF ContextsOf, Context
  <2> QED
    BY <2>1, FS_Subset, FlowAssumption
<1>2. \A f \in Flows : unreported[f] = Bytes(ctx, ContextsOf(f))
  BY DEF Reported
<1>3. CASE UNCHANGED <<ctx, unreported>>
  <2>1. \A f \in Flows : ContextsOf(f)' = ContextsOf(f)
    BY <1>3 DEF ContextsOf
  <2> QED
    BY <1>0, <1>2, <1>3, <2>1 DEF Reported
<1>4. ASSUME NEW f \in Flows, ContextsOf(f)' = ContextsOf(f), \A a \in ContextsOf(f) : ctx'[a] = ctx[a]
      PROVE  Bytes(ctx', ContextsOf(f)') = Bytes(ctx, ContextsOf(f))
  BY <1>1, <1>4, BytesSame
<1>5. ASSUME NEW c \in Cpus, FlowCountStreamBytes(c) PROVE Reported'
  <2> PICK a, f : a = cpu[c].ctx /\ f = cpu[c].flow
    OBVIOUS
  <2>1. /\ cpu[c].pc = "count" /\ ctx' = [ctx EXCEPT ![a].bytes = @ + 1]
        /\ unreported' = [unreported EXCEPT ![f] = @ + 1]
    BY <1>5 DEF FlowCountStreamBytes
  <2>2. a \in Addrs /\ f \in Flows
    BY <1>0, <2>1, ClassifyShape DEF Idle
  <2>3. ctx[a] # None /\ ctx[a].flow = f /\ ctx[a] \in Context
    <3>1. Keeps(f, a)
      BY <2>1 DEF ContextInv, Held, Holds
    <3> QED
      BY <1>0, <2>2, <3>1, KeptIsAllocated DEF ContextInv
  <2>4. /\ ctx'[a] \in Context /\ ctx'[a].flow = f /\ ctx'[a].bytes = ctx[a].bytes + 1 /\ ctx'[a] # None
        /\ \A b \in Addrs : b # a => ctx'[b] = ctx[b]
    BY <1>0, <2>1, <2>2, <2>3, FlowAssumption DEF Context
  <2>5. \A g \in Flows : ContextsOf(g)' = ContextsOf(g)
    BY <2>3, <2>4 DEF ContextsOf
  <2>6. a \in ContextsOf(f) /\ \A g \in Flows : g # f => a \notin ContextsOf(g)
    BY <2>2, <2>3 DEF ContextsOf
  <2>7. Bytes(ctx', ContextsOf(f)') = Bytes(ctx, ContextsOf(f)) + 1
    <3> PICK S : S = ContextsOf(f)
      OBVIOUS
    <3>1. /\ IsFiniteSet(S) /\ a \in S /\ IsFiniteSet(S \ {a}) /\ S \ {a} \in SUBSET S
          /\ \A b \in S : ctx[b].bytes \in Int
          /\ \A b \in S : ctx'[b].bytes \in Int
          /\ \A b \in S \ {a} : ctx[b].bytes = ctx'[b].bytes
      BY <1>1, <2>2, <2>4, <2>6, FS_RemoveElement DEF Context
    <3>2. Bytes(ctx, S) = ctx[a].bytes + Bytes(ctx, S \ {a})
      BY <3>1, BytesOne
    <3>3. Bytes(ctx', S) = ctx'[a].bytes + Bytes(ctx', S \ {a})
      BY <3>1, BytesOne
    <3>4. Bytes(ctx, S \ {a}) = Bytes(ctx', S \ {a})
      BY <3>1, BytesSame
    <3>5. Bytes(ctx, S \ {a}) \in Int
      BY <3>1, BytesOne
    <3> QED
      BY <2>2, <2>4, <2>5, <3>1, <3>2, <3>3, <3>4, <3>5
  <2>8. ASSUME NEW g \in Flows
        PROVE  unreported'[g] = Bytes(ctx', ContextsOf(g)')
    <3>1. CASE g = f
      BY <1>0, <1>2, <2>1, <2>2, <2>7, <3>1
    <3>2. CASE g # f
      <4>1. \A b \in ContextsOf(g) : ctx'[b] = ctx[b]
        BY <1>1, <2>4, <2>6, <3>2
      <4> QED
        BY <1>0, <1>2, <1>4, <2>1, <2>5, <3>2, <4>1
    <3> QED
      BY <3>1, <3>2
  <2>9. unreported' \in [Flows -> Int]
    <3>1. unreported[f] + 1 \in Int
      BY <1>0, <2>2
    <3> QED
      BY <1>0, <2>1, <2>2, <3>1
  <2> QED
    BY <2>8, <2>9 DEF Reported
<1>6. ASSUME NEW c \in Cpus, NEW a \in Addrs, Associate(c, a) PROVE Reported'
  <2> PICK f : f = cpu[c].flow
    OBVIOUS
  <2>1. /\ cpu[c].pc = "associate" /\ ctx[a] = None /\ unreported' = unreported
        /\ ctx' = [ctx EXCEPT ![a] = [flow |-> f, bytes |-> 0]]
    BY <1>6 DEF Associate
  <2>2. f \in Flows
    BY <1>0, <2>1, ClassifyShape DEF Idle
  <2>3. /\ ctx'[a] = [flow |-> f, bytes |-> 0] /\ ctx'[a] # None
        /\ \A b \in Addrs : b # a => ctx'[b] = ctx[b]
    <3>1. [flow |-> f, bytes |-> 0] \in Context
      BY <2>2 DEF Context
    <3> QED
      BY <1>0, <2>1, <3>1, FlowAssumption DEF Context
  <2>4. /\ ContextsOf(f)' = ContextsOf(f) \cup {a}
        /\ \A g \in Flows : a \notin ContextsOf(g)
        /\ \A g \in Flows : g # f => ContextsOf(g)' = ContextsOf(g)
    BY <2>1, <2>3 DEF ContextsOf
  <2>5. Bytes(ctx', ContextsOf(f)') = Bytes(ctx, ContextsOf(f))
    <3> PICK S, T : S = ContextsOf(f) /\ T = S \cup {a}
      OBVIOUS
    <3>1. /\ IsFiniteSet(S) /\ IsFiniteSet(T) /\ a \in T /\ T \ {a} = S
          /\ \A b \in S : ctx[b].bytes \in Int /\ ctx'[b].bytes = ctx[b].bytes
          /\ \A b \in T : ctx'[b].bytes \in Int
      BY <1>1, <2>2, <2>3, <2>4, FS_AddElement
    <3>2. Bytes(ctx', T) = ctx'[a].bytes + Bytes(ctx', S)
      BY <3>1, BytesOne
    <3>3. Bytes(ctx, S) = Bytes(ctx', S)
      BY <3>1, BytesSame
    <3>4. Bytes(ctx, S) \in Int
      <4>1. /\ \A b \in S : ctx[b].bytes \in Int
            /\ S \in SUBSET S
        BY <3>1
      <4>2. \A U \in SUBSET S : Bytes(ctx, U) \in Int
        BY <3>1, <4>1, BytesSplit
      <4> QED
        BY <4>1, <4>2
    <3> QED
      BY <2>3, <2>4, <3>2, <3>3, <3>4
  <2>6. ASSUME NEW g \in Flows
        PROVE  unreported'[g] = Bytes(ctx', ContextsOf(g)')
    <3>1. CASE g = f
      BY <1>2, <2>1, <2>5, <3>1
    <3>2. CASE g # f
      <4>1. \A b \in ContextsOf(g) : ctx'[b] = ctx[b]
        BY <1>1, <2>3, <2>4
      <4> QED
        BY <1>2, <1>4, <2>1, <2>4, <3>2, <4>1
    <3> QED
      BY <3>1, <3>2
  <2> QED
    BY <1>0, <2>1, <2>6 DEF Reported
<1>7. ASSUME NEW d \in deleting, DeleteReports(d) PROVE Reported'
  <2> PICK a, f : a = d.ctx /\ f = d.flow
    OBVIOUS
  <2>1. ctx' = [ctx EXCEPT ![a] = None] /\ unreported' = [unreported EXCEPT ![f] = @ - ctx[a].bytes]
    BY <1>7 DEF DeleteReports
  <2>2. a \in Addrs /\ f \in Flows
    BY <1>0 DEF Deletion
  <2>3. ctx[a] # None /\ ctx[a].flow = f
    BY DEF ContextInv, Owned
  <2>4. ctx'[a] = None /\ \A b \in Addrs : b # a => ctx'[b] = ctx[b]
    BY <1>0, <2>1, <2>2
  <2>5. /\ a \in ContextsOf(f) /\ ContextsOf(f)' = ContextsOf(f) \ {a}
        /\ \A g \in Flows : g # f => ContextsOf(g)' = ContextsOf(g) /\ a \notin ContextsOf(g)
    BY <2>2, <2>3, <2>4 DEF ContextsOf
  <2>6. Bytes(ctx', ContextsOf(f)') = Bytes(ctx, ContextsOf(f)) - ctx[a].bytes
    <3> PICK S, T : S = ContextsOf(f) /\ T = S \ {a}
      OBVIOUS
    <3>1. /\ IsFiniteSet(S) /\ IsFiniteSet(T) /\ a \in S
          /\ \A b \in S : ctx[b].bytes \in Int
          /\ \A b \in T : ctx[b].bytes \in Int /\ ctx'[b].bytes = ctx[b].bytes
      BY <1>1, <2>2, <2>4, <2>5, FS_RemoveElement
    <3>2. Bytes(ctx, S) = ctx[a].bytes + Bytes(ctx, T) /\ Bytes(ctx, T) \in Int
      BY <3>1, BytesOne
    <3>3. Bytes(ctx, T) = Bytes(ctx', T)
      BY <3>1, BytesSame
    <3> QED
      BY <2>5, <3>1, <3>2, <3>3
  <2>7. ASSUME NEW g \in Flows
        PROVE  unreported'[g] = Bytes(ctx', ContextsOf(g)')
    <3>1. CASE g = f
      BY <1>0, <1>2, <2>1, <2>2, <2>6, <3>1
    <3>2. CASE g # f
      <4>1. \A b \in ContextsOf(g) : ctx'[b] = ctx[b]
        BY <1>1, <2>4, <2>5, <3>2
      <4> QED
        BY <1>0, <1>2, <1>4, <2>1, <2>5, <3>2, <4>1
    <3> QED
      BY <3>1, <3>2
  <2>8. unreported' \in [Flows -> Int]
    <3>1. ctx[a].bytes \in Int
      BY <1>1, <2>2, <2>5
    <3> QED
      BY <1>0, <2>1, <2>2, <3>1
  <2> QED
    BY <2>7, <2>8 DEF Reported
<1>8. CASE UNCHANGED vars
  BY <1>3, <1>8 DEF vars
<1>9. CASE FlowNext
  <2>0. Steps
    BY <1>9 DEF FlowNext
  <2>1. ASSUME NEW conn \in Authorised, RecordAuthorised(conn[1], conn[2]) PROVE Reported'
    BY <1>3, <2>1 DEF RecordAuthorised
  <2>2. ASSUME NEW f \in Flows, FlowEnds(f) PROVE Reported'
    BY <1>3, <2>2 DEF FlowEnds
  <2>3. ASSUME NEW c \in Cpus, NEW f \in Flows, FlowEstablished(c, f) \/ StreamSegment(c, f) PROVE Reported'
    BY <1>3, <2>3 DEF FlowEstablished, StreamSegment
  <2>4. ASSUME NEW c \in Cpus, NotAssociated(c) \/ Register(c) PROVE Reported'
    BY <1>3, <2>4 DEF NotAssociated, Register
  <2>5. ASSUME NEW d \in deleting, DeleteRemoves(d) PROVE Reported'
    BY <1>3, <2>5 DEF DeleteRemoves
  <2>6. ASSUME StartUnload \/ TakeSlot \/ RemoveContext \/ UnregisterSucceeds \/ UnregisterFails PROVE Reported'
    BY <1>3, <2>6 DEF StartUnload, TakeSlot, RemoveContext, UnregisterSucceeds, UnregisterFails
  <2> QED
    BY <1>5, <1>6, <1>7, <2>0, <2>1, <2>2, <2>3, <2>4, <2>5, <2>6 DEF Steps
<1> QED
  BY <1>8, <1>9

LEMMA FlowInvInductive == FlowSpec => []FlowInv
<1>1. FlowInv /\ [FlowNext]_vars => FlowInv'
  <2> SUFFICES ASSUME FlowInv, [FlowNext]_vars PROVE FlowInv'
    OBVIOUS
  <2>1. TuplesType' /\ Recorded'
    BY TuplesStep DEF FlowInv
  <2>2. ContextInv'
    <3>1. CASE FlowNext
      BY <3>1, ContextsStep DEF FlowInv
    <3>2. CASE UNCHANGED vars
      BY <3>2, ContextsStutter DEF FlowInv, vars
    <3> QED
      BY <3>1, <3>2
  <2>3. Reported'
    BY ReportedStep DEF FlowInv
  <2> QED
    BY <2>1, <2>2, <2>3 DEF FlowInv
<1> QED
  BY <1>1, FlowInitInv, PTL DEF FlowSpec

-----------------------------------------------------------------------------
(* A context is freed once and never lost, and no segment is counted into one
   that was freed, whichever of FlowDeleteFn's callers gives it back. *)
THEOREM ContextsHaveOneOwner == FlowSpec => []ContextHasOneOwner
<1>1. FlowInv => ContextHasOneOwner
  <2> SUFFICES ASSUME FlowInv PROVE ContextHasOneOwner
    OBVIOUS
  <2>0. /\ cpu \in [Cpus -> Classify] /\ ctx \in [Addrs -> Context \cup {None}]
        /\ deleting \subseteq Deletion
    BY DEF FlowInv, ContextInv, FlowType
  <2>1. ASSUME NEW a \in Addrs
        PROVE  Cardinality(Owners(a)) = IF ctx[a] = None THEN 0 ELSE 1
    <3>0. a # None
      BY FlowAssumption
    <3>1. CASE ctx[a] = None
      <4>1. Owners(a) = {}
        BY <3>0, <3>1 DEF FlowInv, ContextInv, Owned, Owners
      <4> QED
        BY <3>1, <4>1, FS_EmptySet
    <3>2. CASE ctx[a] # None
      <4> DEFINE f == ctx[a].flow
      <4>0. f \in Flows
        BY <2>0, <3>2 DEF Context
      <4>1. \A g \in Flows : attached[g] = a => g = f
        BY <3>0 DEF FlowInv, ContextInv, Owned
      <4>2. \A d \in deleting : d.ctx = a => attached[f] # a
        BY DEF FlowInv, ContextInv, Owned
      <4>3. \A d, e \in deleting : d.ctx = a /\ e.ctx = a => d = e
        BY DEF FlowInv, ContextInv, Owned
      <4>4. attached[f] = a \/ \E d \in deleting : d.ctx = a
        BY <3>2 DEF FlowInv, ContextInv, Owned
      <4>5. \E x : Owners(a) = {x}
        <5>1. CASE attached[f] = a
          <6>1. Owners(a) = {<<"flow", f>>}
            BY <4>0, <4>1, <4>2, <5>1 DEF Owners
          <6> QED
            BY <6>1
        <5>2. CASE attached[f] # a
          <6>1. PICK d \in deleting : d.ctx = a
            BY <4>4, <5>2
          <6>2. Owners(a) = {<<"deletion", d>>}
            <7>1. {g \in Flows : attached[g] = a} = {}
              BY <4>1, <5>2
            <7>2. {e \in deleting : e.ctx = a} = {d}
              BY <4>3, <6>1
            <7> QED
              BY <7>1, <7>2 DEF Owners
          <6> QED
            BY <6>2
        <5> QED
          BY <5>1, <5>2
      <4> QED
        BY <3>2, <4>5, FS_Singleton
    <3> QED
      BY <3>1, <3>2
  <2>2. ASSUME NEW c \in Cpus, cpu[c].pc = "count"
        PROVE  ctx[cpu[c].ctx] # None
    <3>1. Keeps(cpu[c].flow, cpu[c].ctx)
      BY <2>2 DEF FlowInv, ContextInv, Held, Holds
    <3>2. cpu[c].flow \in Flows /\ cpu[c].ctx \in Addrs
      BY <2>0, <2>2, ClassifyShape DEF Idle
    <3> QED
      BY <3>1, <3>2, KeptIsAllocated DEF FlowInv, ContextInv
  <2> QED
    BY <2>1, <2>2 DEF ContextHasOneOwner
<1> QED
  BY <1>1, FlowInvInductive, PTL

(* Every byte the stream callout counted is in a close event or in a context
   that will be reported, once. *)
THEOREM BytesAreReported == FlowSpec => []EveryByteReported
<1>1. FlowInv => EveryByteReported
  BY DEF FlowInv, Reported, EveryByteReported, ContextsOf, Bytes
<1> QED
  BY <1>1, FlowInvInductive, PTL

(* FlowRemoveAllContexts reaches every context that was registered, and a slot
   is lost only to a deletion that overtook FlowRegistryAdd, one each. *)
THEOREM RegistryIsComplete == FlowSpec => []RegistryComplete
<1>1. FlowInv => RegistryComplete
  <2> SUFFICES ASSUME FlowInv PROVE RegistryComplete
    OBVIOUS
  <2>0. cpu \in [Cpus -> Classify] /\ s_FlowRegistry \in [Slots -> SlotType] /\ races \in Nat
    BY DEF FlowInv, ContextInv, FlowType
  <2>1. ASSUME unload.pc = "loaded", NEW f \in Flows
        PROVE  \/ attached[f] = None
               \/ attached[f] \in refused
               \/ \E c \in Cpus : cpu[c].pc = "register" /\ cpu[c].flow = f /\ cpu[c].ctx = attached[f] /\ ~cpu[c].late
               \/ \E i \in Slots : s_FlowRegistry[i] = [flow |-> f, ctx |-> attached[f]]
    BY <2>1 DEF FlowInv, ContextInv, Listed, Enters
  <2>2. Cardinality({i \in Slots : Stale(s_FlowRegistry[i])}) <= races
    <3>1. PICK M \in SUBSET Slots : Lost(M) /\ Cardinality(M) + Cardinality(Late) <= races
      BY DEF FlowInv, ContextInv, Surplus
    <3> DEFINE S == {i \in Slots : Stale(s_FlowRegistry[i])}
    <3>2. S \subseteq M
      <4> SUFFICES ASSUME NEW i \in Slots, Stale(s_FlowRegistry[i]), i \notin M PROVE FALSE
        OBVIOUS
      <4>1. i \in Others(M)
        BY DEF Others, Stale
      <4> QED
        BY <3>1, <4>1 DEF Lost, Keeps, Stale
    <3>3. IsFiniteSet(M) /\ Cardinality(M) \in Nat /\ Cardinality(Late) \in Nat
      BY SlotsFinite, LateFinite, FlowAssumption
    <3>4. Cardinality(S) <= Cardinality(M) /\ Cardinality(S) \in Nat
      BY <3>2, <3>3, FS_Subset, FS_CardinalityType
    <3> QED
      BY <2>0, <3>1, <3>3, <3>4
  <2> QED
    BY <2>1, <2>2 DEF RegistryComplete
<1> QED
  BY <1>1, FlowInvInductive, PTL

(* An unload that did not give up leaves no context, nothing for the engine to
   give back to a driver that is gone, and no classify. *)
THEOREM UnloadLeavesNothing == FlowSpec => []UnloadClean
<1>1. FlowInv => UnloadClean
  <2> SUFFICES ASSUME FlowInv, Unloaded, ~unload.gaveUp
               PROVE  /\ \A a \in Addrs : ctx[a] = None
                      /\ \A f \in Flows : attached[f] = None
                      /\ deleting = {}
                      /\ \A c \in Cpus : cpu[c] = Idle
    BY DEF UnloadClean
  <2>1. /\ \A f \in Flows : attached[f] = None
        /\ deleting = {}
        /\ \A c \in Cpus : cpu[c] = Idle
    BY DEF FlowInv, ContextInv, Emptied, Unregistered, Unloaded
  <2>2. ASSUME NEW a \in Addrs, ctx[a] # None
        PROVE  FALSE
    <3>1. ctx[a].flow \in Flows /\ a # None
      BY <2>2, FlowAssumption DEF FlowInv, ContextInv, FlowType, Context
    <3> QED
      BY <2>1, <2>2, <3>1 DEF FlowInv, ContextInv, Owned
  <2> QED
    BY <2>1, <2>2
<1> QED
  BY <1>1, FlowInvInductive, PTL

(* A lookup never finds a process that had the ports earlier, and always finds
   the connection recorded last. *)
THEOREM LookupsAreCurrent == FlowSpec => LookupIsLatest
<1>1. FlowInv /\ [FlowNext]_vars =>
        [\A t \in Tuples : /\ FlowTupleLookupPid(TRUE, t)' \in {0, recorded'[t]}
                           /\ latest = t => FlowTupleLookupPid(TRUE, t)' # 0]_vars
  <2> SUFFICES ASSUME FlowInv, [FlowNext]_vars, NEW t \in Tuples
               PROVE  /\ FlowTupleLookupPid(TRUE, t)' \in {0, recorded'[t]}
                      /\ latest = t => FlowTupleLookupPid(TRUE, t)' # 0
    OBVIOUS
  <2>1. /\ TuplesType' /\ Recorded'
        /\ \A u \in Tuples : latest = u => Matches(u)' # {}
    BY TuplesStep DEF FlowInv
  <2>2. TuplesType /\ Recorded => /\ FlowTupleLookupPid(TRUE, t) \in {0, recorded[t]}
                                  /\ Matches(t) # {} => FlowTupleLookupPid(TRUE, t) # 0
    BY LookupFinds
  <2>3. (TuplesType /\ Recorded => /\ FlowTupleLookupPid(TRUE, t) \in {0, recorded[t]}
                                   /\ Matches(t) # {} => FlowTupleLookupPid(TRUE, t) # 0)'
    BY LookupFinds, PTL
  <2> QED
    BY <2>1, <2>3
<1> QED
  BY <1>1, FlowInvInductive, PTL DEF FlowSpec, LookupIsLatest

=============================================================================
