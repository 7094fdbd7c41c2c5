--------------------------- MODULE AleAuth_proofs ---------------------------
(***************************************************************************)
(* What the driver decides, and the events that tell of it.                *)
(*                                                                         *)
(* The kernel rule list keeps its order, for every cap and input, and a    *)
(* verdict that races with policy changes was in force during its          *)
(* classification, for any rules, connections and processors; and the      *)
(* numbers by which the driver knows the rules tell them apart.            *)
(*                                                                         *)
(* The rings of events, for every ring size, every size of the log buffer  *)
(* and every set of events: their indices are always valid, an unread slot *)
(* always holds a queued event, and they implement the FIFO that gives up  *)
(* only its oldest event, also inside the pipeline.  Every event that was  *)
(* taken from the rings is logged once or on its way, and the end of the   *)
(* service costs one entry at most.                                        *)
(***************************************************************************)
EXTENDS AleAuth, RuleIds, EventPipeline, SequenceTheorems, FiniteSetTheorems, TLAPS

(* What InsertAt puts at each position. *)
LEMMA InsertAtShape ==
  ASSUME NEW S, NEW s \in Seq(S), NEW e \in S, NEW i \in 1 .. Len(s) + 1
  PROVE  /\ InsertAt(s, i, e) \in Seq(S)
         /\ Len(InsertAt(s, i, e)) = Len(s) + 1
         /\ \A j \in 1 .. Len(s) + 1 :
              InsertAt(s, i, e)[j] = IF j < i THEN s[j] ELSE IF j = i THEN e ELSE s[j - 1]
<1> DEFINE front == SubSeq(s, 1, i - 1)
           back == SubSeq(s, i, Len(s))
<1>0. Len(s) \in Nat /\ i \in Int /\ i - 1 \in Int /\ \A k \in 1 .. Len(s) : s[k] \in S
  BY LenProperties, ElementOfSeq
<1>1. /\ front \in Seq(S)
      /\ Len(front) = i - 1
      /\ \A k \in 1 .. i - 1 : front[k] = s[k]
  <2>1. \A k \in 1 .. i - 1 : s[k] \in S
    BY <1>0
  <2>2. /\ front \in Seq(S)
        /\ Len(front) = IF 1 <= i - 1 THEN i - 1 - 1 + 1 ELSE 0
        /\ \A k \in 1 .. i - 1 - 1 + 1 : front[k] = s[1 + k - 1]
    BY <1>0, <2>1, SubSeqProperties
  <2> QED
    BY <1>0, <2>2
<1>2. /\ back \in Seq(S)
      /\ Len(back) = Len(s) - i + 1
      /\ \A k \in 1 .. Len(s) - i + 1 : back[k] = s[i + k - 1]
  <2>1. \A k \in i .. Len(s) : s[k] \in S
    BY <1>0
  <2>2. /\ back \in Seq(S)
        /\ Len(back) = IF i <= Len(s) THEN Len(s) - i + 1 ELSE 0
        /\ \A k \in 1 .. Len(s) - i + 1 : back[k] = s[i + k - 1]
    BY <1>0, <2>1, SubSeqProperties
  <2> QED
    BY <1>0, <2>2
<1> HIDE DEF front, back
<1>3. <<e>> \in Seq(S) /\ Len(<<e>>) = 1 /\ <<e>>[1] = e
  OBVIOUS
<1> DEFINE upto == front \o <<e>>
           all == upto \o back
<1>4. /\ upto \in Seq(S)
      /\ Len(upto) = i
      /\ \A k \in 1 .. i : upto[k] = IF k < i THEN s[k] ELSE e
  BY <1>0, <1>1, <1>3, ConcatProperties
<1> HIDE DEF upto
<1>5. /\ all \in Seq(S)
      /\ Len(all) = Len(upto) + Len(back)
      /\ \A k \in 1 .. Len(upto) + Len(back) :
           all[k] = IF k <= Len(upto) THEN upto[k] ELSE back[k - Len(upto)]
  BY <1>2, <1>4, ConcatProperties
<1>6. InsertAt(s, i, e) = all
  BY DEF InsertAt, all, upto, front, back
<1> HIDE DEF all
<1>7. ASSUME NEW j \in 1 .. Len(s) + 1
      PROVE  all[j] = IF j < i THEN s[j] ELSE IF j = i THEN e ELSE s[j - 1]
  <2>1. CASE j <= i
    BY <1>0, <1>2, <1>4, <1>5, <2>1
  <2>2. CASE i < j
    <3>1. j - i \in 1 .. Len(s) - i + 1 /\ i + (j - i) - 1 = j - 1
      BY <1>0, <2>2
    <3> QED
      BY <1>0, <1>2, <1>4, <1>5, <2>2, <3>1
  <2> QED
    BY <1>0, <2>1, <2>2
<1> QED
  BY <1>0, <1>2, <1>4, <1>5, <1>6, <1>7

(* What RemoveAt leaves at each position. *)
LEMMA RemoveAtShape ==
  ASSUME NEW S, NEW s \in Seq(S), NEW i \in 1 .. Len(s)
  PROVE  /\ RemoveAt(s, i) \in Seq(S)
         /\ Len(RemoveAt(s, i)) = Len(s) - 1
         /\ \A j \in 1 .. Len(s) - 1 :
              RemoveAt(s, i)[j] = IF j < i THEN s[j] ELSE s[j + 1]
<1> DEFINE front == SubSeq(s, 1, i - 1)
           back == SubSeq(s, i + 1, Len(s))
<1>0. Len(s) \in Nat /\ i \in Int /\ i - 1 \in Int /\ i + 1 \in Int
      /\ \A k \in 1 .. Len(s) : s[k] \in S
  BY LenProperties, ElementOfSeq
<1>1. /\ front \in Seq(S)
      /\ Len(front) = i - 1
      /\ \A k \in 1 .. i - 1 : front[k] = s[k]
  <2>1. \A k \in 1 .. i - 1 : s[k] \in S
    BY <1>0
  <2>2. /\ front \in Seq(S)
        /\ Len(front) = IF 1 <= i - 1 THEN i - 1 - 1 + 1 ELSE 0
        /\ \A k \in 1 .. i - 1 - 1 + 1 : front[k] = s[1 + k - 1]
    BY <1>0, <2>1, SubSeqProperties
  <2> QED
    BY <1>0, <2>2
<1>2. /\ back \in Seq(S)
      /\ Len(back) = Len(s) - i
      /\ \A k \in 1 .. Len(s) - i : back[k] = s[i + k]
  <2>1. \A k \in i + 1 .. Len(s) : s[k] \in S
    BY <1>0
  <2>2. /\ back \in Seq(S)
        /\ Len(back) = IF i + 1 <= Len(s) THEN Len(s) - (i + 1) + 1 ELSE 0
        /\ \A k \in 1 .. Len(s) - (i + 1) + 1 : back[k] = s[(i + 1) + k - 1]
    BY <1>0, <2>1, SubSeqProperties
  <2> QED
    BY <1>0, <2>2
<1> HIDE DEF front, back
<1> DEFINE all == front \o back
<1>3. /\ all \in Seq(S)
      /\ Len(all) = Len(front) + Len(back)
      /\ \A k \in 1 .. Len(front) + Len(back) :
           all[k] = IF k <= Len(front) THEN front[k] ELSE back[k - Len(front)]
  BY <1>1, <1>2, ConcatProperties
<1>4. RemoveAt(s, i) = all
  BY DEF RemoveAt, all, front, back
<1> HIDE DEF all
<1>5. ASSUME NEW j \in 1 .. Len(s) - 1
      PROVE  all[j] = IF j < i THEN s[j] ELSE s[j + 1]
  <2>0. j \in 1 .. Len(front) + Len(back) /\ j \in Int
    BY <1>0, <1>1, <1>2
  <2>1. CASE j < i
    <3>1. j <= Len(front) /\ j \in 1 .. i - 1
      BY <1>0, <1>1, <2>1
    <3> QED
      BY <1>1, <1>3, <2>0, <2>1, <3>1
  <2>2. CASE i <= j
    <3>1. j - (i - 1) \in 1 .. Len(s) - i /\ i + (j - (i - 1)) = j + 1
      BY <1>0, <2>2
    <3>2. ~(j <= Len(front)) /\ ~(j < i)
      BY <1>0, <1>1, <2>2
    <3>3. all[j] = back[j - (i - 1)]
      BY <1>1, <1>3, <2>0, <3>2
    <3>4. back[j - (i - 1)] = s[j + 1]
      BY <1>2, <3>1
    <3> QED
      BY <3>2, <3>3, <3>4
  <2> QED
    BY <1>0, <2>1, <2>2
<1> QED
  BY SMTT(30), <1>0, <1>1, <1>2, <1>3, <1>4, <1>5
-----------------------------------------------------------------------------
(* Kept changes nothing of an input but its path, which it cuts short enough. *)
LEMMA KeptFields ==
  ASSUME NEW input \in RuleInputs
  PROVE  /\ Kept(input) \in Rules
         /\ Kept(input).RuleId = input.RuleId
         /\ Kept(input).Priority = input.Priority
         /\ input.RuleId \in Nat /\ input.Priority \in Nat
         /\ Len(Kept(input).ProcessPath) < MAX_PATH_LENGTH
<1>1. Kept(input) \in Rules
  BY DEF Rules
<1>2. /\ Kept(input).RuleId = input.RuleId
      /\ Kept(input).Priority = input.Priority
      /\ Kept(input).ProcessPath = IF Len(input.ProcessPath) < MAX_PATH_LENGTH
                                   THEN input.ProcessPath
                                   ELSE SubSeq(input.ProcessPath, 1, MAX_PATH_LENGTH - 1)
  BY RuleAssumption DEF Kept
<1>3. input.RuleId \in Nat /\ input.Priority \in Nat /\ input.ProcessPath \in Seq(Characters)
  BY RuleAssumption
<1>4. Len(input.ProcessPath) \in Nat /\ \A k \in 1 .. Len(input.ProcessPath) :
                                          input.ProcessPath[k] \in Characters
  BY <1>3, LenProperties, ElementOfSeq
<1>5. ASSUME ~(Len(input.ProcessPath) < MAX_PATH_LENGTH)
      PROVE  Len(SubSeq(input.ProcessPath, 1, MAX_PATH_LENGTH - 1)) = MAX_PATH_LENGTH - 1
  <2>1. \A k \in 1 .. MAX_PATH_LENGTH - 1 : input.ProcessPath[k] \in Characters
    BY <1>4, <1>5, CapAssumption
  <2>2. 1 \in Int /\ MAX_PATH_LENGTH - 1 \in Nat
    BY CapAssumption
  <2>3. Len(SubSeq(input.ProcessPath, 1, MAX_PATH_LENGTH - 1))
          = IF 1 <= MAX_PATH_LENGTH - 1 THEN MAX_PATH_LENGTH - 1 - 1 + 1 ELSE 0
    BY <2>1, <2>2, SubSeqProperties
  <2> QED
    BY <2>2, <2>3
<1> QED
  BY <1>1, <1>2, <1>3, <1>4, <1>5, CapAssumption

(* Every rule of the list has a number for an id and for a priority. *)
LEMMA RuleFields ==
  ASSUME NEW r \in Rules
  PROVE  r.RuleId \in Nat /\ r.Priority \in Nat
BY KeptFields DEF Rules

(* Inserting a new id where it belongs keeps the ids apart and the list sorted. *)
LEMMA InsertKeepsOrder ==
  ASSUME NEW list \in Seq(Rules), NEW r \in Rules, NEW i \in 1 .. Len(list) + 1,
         Distinct(list), Sorted(list), BelongsAt(list, r, i),
         \A j \in DOMAIN list : list[j].RuleId # r.RuleId
  PROVE  /\ InsertAt(list, i, r) \in Seq(Rules)
         /\ Len(InsertAt(list, i, r)) = Len(list) + 1
         /\ Distinct(InsertAt(list, i, r))
         /\ Sorted(InsertAt(list, i, r))
<1> DEFINE new == InsertAt(list, i, r)
<1>1. /\ new \in Seq(Rules) /\ Len(new) = Len(list) + 1
      /\ \A j \in 1 .. Len(list) + 1 :
           new[j] = IF j < i THEN list[j] ELSE IF j = i THEN r ELSE list[j - 1]
  BY InsertAtShape, SMTT(30)
<1>2. Len(list) \in Nat /\ DOMAIN list = 1 .. Len(list) /\ DOMAIN new = 1 .. Len(list) + 1
  BY <1>1, LenProperties
<1>3. \A k \in 1 .. Len(list) : list[k] \in Rules /\ list[k].Priority \in Nat
  BY ElementOfSeq, RuleFields
<1>4. r.Priority \in Nat
  BY RuleFields
<1> HIDE DEF new
<1>5. Distinct(new)
  <2> SUFFICES ASSUME NEW a \in 1 .. Len(list) + 1, NEW b \in 1 .. Len(list) + 1,
                      new[a].RuleId = new[b].RuleId
               PROVE  a = b
    BY <1>2 DEF Distinct
  <2>0. ASSUME NEW x \in 1 .. Len(list) + 1, x # i
        PROVE  new[x].RuleId # r.RuleId
    <3> DEFINE from == IF x < i THEN x ELSE x - 1
    <3>1. from \in DOMAIN list
      BY <1>2, <2>0
    <3>2. new[x] = list[from]
      BY <1>1, <2>0
    <3> QED
      BY <3>1, <3>2
  <2>1. CASE a = i \/ b = i
    <3>1. new[i] = r
      BY <1>1
    <3> QED
      BY <2>0, <2>1, <3>1
  <2>2. CASE a # i /\ b # i
    <3> DEFINE from(x) == IF x < i THEN x ELSE x - 1
    <3>1. from(a) \in DOMAIN list /\ from(b) \in DOMAIN list
      BY <1>2, <2>2
    <3>2. new[a] = list[from(a)] /\ new[b] = list[from(b)]
      BY <1>1, <2>2
    <3>3. from(a) = from(b)
      BY <3>1, <3>2 DEF Distinct
    <3> QED
      BY <1>2, <2>2, <3>3
  <2> QED
    BY <2>1, <2>2
<1>6. Sorted(new)
  <2> SUFFICES ASSUME NEW a \in 1 .. Len(list) + 1, NEW b \in 1 .. Len(list) + 1, a < b
               PROVE  new[a].Priority <= new[b].Priority
    BY <1>2 DEF Sorted
  <2>1. CASE a = i
    <3>1. new[a] = r /\ new[b] = list[b - 1] /\ i <= Len(list) /\ b - 1 \in 1 .. Len(list)
      BY <1>1, <1>2, <2>1
    <3>2. r.Priority < list[i].Priority /\ i \in 1 .. Len(list)
      BY <1>2, <3>1 DEF BelongsAt
    <3>3. list[i].Priority <= list[b - 1].Priority
      <4>1. CASE i = b - 1
        BY <1>3, <3>2, <4>1
      <4>2. CASE i < b - 1
        BY <1>2, <3>1, <3>2, <4>2 DEF Sorted
      <4> QED
        BY <1>2, <2>1, <4>1, <4>2
    <3> QED
      BY <1>3, <1>4, <3>1, <3>2, <3>3
  <2>2. CASE b = i
    <3>1. new[a] = list[a] /\ new[b] = r /\ a \in 1 .. i - 1
      BY <1>1, <1>2, <2>2
    <3> QED
      BY <3>1 DEF BelongsAt
  <2>3. CASE a # i /\ b # i
    <3> DEFINE from(x) == IF x < i THEN x ELSE x - 1
    <3>1. from(a) \in DOMAIN list /\ from(b) \in DOMAIN list /\ from(a) < from(b)
      BY <1>2, <2>3
    <3>2. new[a] = list[from(a)] /\ new[b] = list[from(b)]
      BY <1>1, <2>3
    <3> QED
      BY <3>1, <3>2 DEF Sorted
  <2> QED
    BY <2>1, <2>2, <2>3
<1> QED
  BY <1>1, <1>5, <1>6 DEF new

(* Removing a rule keeps the rest in order, and takes its id away. *)
LEMMA RemoveKeepsOrder ==
  ASSUME NEW list \in Seq(Rules), NEW i \in 1 .. Len(list), Distinct(list), Sorted(list)
  PROVE  /\ RemoveAt(list, i) \in Seq(Rules)
         /\ Len(RemoveAt(list, i)) = Len(list) - 1
         /\ Distinct(RemoveAt(list, i))
         /\ Sorted(RemoveAt(list, i))
         /\ \A j \in DOMAIN RemoveAt(list, i) : RemoveAt(list, i)[j].RuleId # list[i].RuleId
<1> DEFINE new == RemoveAt(list, i)
           from(x) == IF x < i THEN x ELSE x + 1
<1>1. /\ new \in Seq(Rules) /\ Len(new) = Len(list) - 1
      /\ \A j \in 1 .. Len(list) - 1 : new[j] = IF j < i THEN list[j] ELSE list[j + 1]
  BY RemoveAtShape
<1>2. Len(list) \in Nat /\ DOMAIN list = 1 .. Len(list) /\ DOMAIN new = 1 .. Len(list) - 1
  BY <1>1, LenProperties
<1> HIDE DEF new
<1>3. \A j \in DOMAIN new : /\ from(j) \in DOMAIN list /\ from(j) # i
                            /\ new[j] = list[from(j)]
  BY <1>1, <1>2
<1>4. \A j, k \in DOMAIN new : (from(j) = from(k) => j = k) /\ (j < k => from(j) < from(k))
  BY <1>2
<1> HIDE DEF from
<1>5. Distinct(new) /\ Sorted(new)
  BY <1>3, <1>4 DEF Distinct, Sorted
<1>6. \A j \in DOMAIN new : new[j].RuleId # list[i].RuleId
  BY <1>2, <1>3 DEF Distinct
<1> QED
  BY <1>1, <1>5, <1>6 DEF new

(* Writing new fields over a rule of the same id and priority keeps the order. *)
LEMMA OverwriteKeepsOrder ==
  ASSUME NEW list \in Seq(Rules), NEW r \in Rules, NEW i \in 1 .. Len(list),
         Distinct(list), Sorted(list),
         list[i].RuleId = r.RuleId, list[i].Priority = r.Priority
  PROVE  /\ [list EXCEPT ![i] = r] \in Seq(Rules)
         /\ Len([list EXCEPT ![i] = r]) = Len(list)
         /\ Distinct([list EXCEPT ![i] = r])
         /\ Sorted([list EXCEPT ![i] = r])
<1> DEFINE new == [list EXCEPT ![i] = r]
<1>1. new \in Seq(Rules) /\ Len(new) = Len(list)
      /\ \A j \in 1 .. Len(list) : new[j] = IF j = i THEN r ELSE list[j]
  BY ExceptSeq
<1>2. DOMAIN new = 1 .. Len(list) /\ DOMAIN list = 1 .. Len(list)
  BY <1>1, LenProperties
<1>3. \A j \in DOMAIN list : /\ new[j].RuleId = list[j].RuleId
                             /\ new[j].Priority = list[j].Priority
  BY <1>1, <1>2
<1> HIDE DEF new
<1>4. Distinct(new) /\ Sorted(new)
  BY <1>2, <1>3 DEF Distinct, Sorted
<1> QED
  BY <1>1, <1>4 DEF new
-----------------------------------------------------------------------------
(* Every path in the list leaves room for its NUL because every rule is made by
   Kept. *)
LEMMA PathsFit ==
  ASSUME g_RuleList \in Seq(Rules)
  PROVE  RuleTypeOK
<1>1. \A r \in Rules : Len(r.ProcessPath) < MAX_PATH_LENGTH
  BY KeptFields DEF Rules
<1>2. \A i \in DOMAIN g_RuleList : g_RuleList[i] \in Rules
  BY LenProperties, ElementOfSeq
<1> QED
  BY <1>1, <1>2 DEF RuleTypeOK

ListInv == g_RuleList \in Seq(Rules) /\ IdsUniqueAndCapped /\ SortedByPriority

(* Every operation on the list preserves its order and its distinct ids. *)
LEMMA RuleStep ==
  ASSUME ListInv, RuleNext
  PROVE  ListInv'
<1> USE DEF ListInv, IdsUniqueAndCapped, SortedByPriority
<1>0. Len(g_RuleList) \in Nat /\ DOMAIN g_RuleList = 1 .. Len(g_RuleList)
  BY LenProperties
<1>1. CASE UNCHANGED g_RuleList
  BY <1>1
<1>2. ASSUME NEW input \in RuleInputs, AddRule(input)
      PROVE  ListInv'
  <2> SUFFICES ASSUME Holding(input.RuleId) = {}, Len(g_RuleList) + 1 <= MAX_RULES,
                      InsertByPriority(g_RuleList, Kept(input))
               PROVE  ListInv'
    BY <1>1, <1>2 DEF AddRule
  <2>1. PICK i \in 1 .. Len(g_RuleList) + 1 :
          /\ BelongsAt(g_RuleList, Kept(input), i)
          /\ g_RuleList' = InsertAt(g_RuleList, i, Kept(input))
    BY DEF InsertByPriority
  <2>2. \A j \in DOMAIN g_RuleList : g_RuleList[j].RuleId # Kept(input).RuleId
    BY KeptFields DEF Holding
  <2>3. Kept(input) \in Rules
    BY KeptFields
  <2> QED
    BY <2>1, <2>2, <2>3, InsertKeepsOrder
<1>3. ASSUME NEW input \in RuleInputs, UpdateRule(input)
      PROVE  ListInv'
  <2> SUFFICES ASSUME NEW k \in Holding(input.RuleId),
                      \/ /\ g_RuleList[k].Priority = input.Priority
                         /\ g_RuleList' = [g_RuleList EXCEPT ![k] = Kept(input)]
                      \/ InsertByPriority(RemoveAt(g_RuleList, k), Kept(input))
               PROVE  ListInv'
    BY <1>1, <1>3 DEF UpdateRule
  <2>1. k \in 1 .. Len(g_RuleList) /\ g_RuleList[k].RuleId = input.RuleId
    BY <1>0 DEF Holding
  <2>2. /\ Kept(input) \in Rules /\ Kept(input).RuleId = input.RuleId
        /\ Kept(input).Priority = input.Priority
    BY KeptFields
  <2>3. CASE /\ g_RuleList[k].Priority = input.Priority
             /\ g_RuleList' = [g_RuleList EXCEPT ![k] = Kept(input)]
    BY <2>1, <2>2, <2>3, OverwriteKeepsOrder
  <2>4. CASE InsertByPriority(RemoveAt(g_RuleList, k), Kept(input))
    <3> DEFINE rest == RemoveAt(g_RuleList, k)
    <3>1. /\ rest \in Seq(Rules) /\ Len(rest) = Len(g_RuleList) - 1
          /\ Distinct(rest) /\ Sorted(rest)
          /\ \A j \in DOMAIN rest : rest[j].RuleId # Kept(input).RuleId
      BY <2>1, <2>2, RemoveKeepsOrder
    <3>2. PICK i \in 1 .. Len(rest) + 1 : /\ BelongsAt(rest, Kept(input), i)
                                          /\ g_RuleList' = InsertAt(rest, i, Kept(input))
      BY <2>4 DEF InsertByPriority
    <3> HIDE DEF rest
    <3>3. /\ InsertAt(rest, i, Kept(input)) \in Seq(Rules)
          /\ Len(InsertAt(rest, i, Kept(input))) = Len(rest) + 1
          /\ Distinct(InsertAt(rest, i, Kept(input)))
          /\ Sorted(InsertAt(rest, i, Kept(input)))
      BY <2>2, <3>1, <3>2, InsertKeepsOrder
    <3> QED
      BY <1>0, <3>1, <3>2, <3>3
  <2> QED
    BY <2>3, <2>4
<1>4. ASSUME NEW id, RemoveRule(id)
      PROVE  ListInv'
  <2> SUFFICES ASSUME NEW k \in Holding(id), g_RuleList' = RemoveAt(g_RuleList, k)
               PROVE  ListInv'
    BY <1>1, <1>4 DEF RemoveRule
  <2>1. k \in 1 .. Len(g_RuleList)
    BY <1>0 DEF Holding
  <2>2. /\ RemoveAt(g_RuleList, k) \in Seq(Rules)
        /\ Len(RemoveAt(g_RuleList, k)) = Len(g_RuleList) - 1
        /\ Distinct(RemoveAt(g_RuleList, k)) /\ Sorted(RemoveAt(g_RuleList, k))
    BY <2>1, RemoveKeepsOrder
  <2> QED
    BY <1>0, <2>2, CapAssumption
<1>5. CASE ClearRules
  BY <1>5, CapAssumption, EmptySeq DEF ClearRules, Distinct, Sorted
<1> QED
  BY <1>2, <1>3, <1>4, <1>5 DEF RuleNext

(* The kernel's rule list (rules.c) keeps its rules in Priority order under one
   id each and within MAX_RULES, with every path terminated, whatever rules the
   service adds, updates and removes in whatever order. *)
THEOREM RuleListSafety ==
  RuleSpec => []ListWellFormed
<1>1. RuleInit => ListInv
  BY CapAssumption, EmptySeq
     DEF RuleInit, ListInv, IdsUniqueAndCapped, SortedByPriority, Distinct, Sorted
<1>2. ListInv /\ [RuleNext]_g_RuleList => ListInv'
  BY RuleStep DEF ListInv, IdsUniqueAndCapped, SortedByPriority
<1>3. ListInv => ListWellFormed
  BY PathsFit DEF ListInv, ListWellFormed
<1> QED
  BY <1>1, <1>2, <1>3, PTL DEF RuleSpec
-----------------------------------------------------------------------------
(* The rules of list are all in old, in the same order. *)
PartOf(list, old) ==
  \A a \in DOMAIN list : /\ Settled(old, list[a])
                         /\ \A b \in DOMAIN list : a < b => Precedes(old, list[a], list[b])

(* A list is part of itself. *)
LEMMA WholeIsPart ==
  ASSUME NEW list
  PROVE  PartOf(list, list)
BY DEF PartOf, Settled, Precedes

(* What RemoveAt leaves was there before, in the same order. *)
LEMMA RestIsPart ==
  ASSUME NEW old \in Seq(Rules), NEW k \in 1 .. Len(old)
  PROVE  PartOf(RemoveAt(old, k), old)
<1> DEFINE rest == RemoveAt(old, k)
           from(x) == IF x < k THEN x ELSE x + 1
<1>1. /\ rest \in Seq(Rules) /\ Len(rest) = Len(old) - 1
      /\ \A j \in 1 .. Len(old) - 1 : rest[j] = IF j < k THEN old[j] ELSE old[j + 1]
  BY RemoveAtShape
<1>2. Len(old) \in Nat /\ DOMAIN old = 1 .. Len(old) /\ DOMAIN rest = 1 .. Len(old) - 1
  BY <1>1, LenProperties
<1> HIDE DEF rest
<1>3. \A j \in DOMAIN rest : from(j) \in DOMAIN old /\ rest[j] = old[from(j)]
  BY <1>1, <1>2
<1>4. \A a, b \in DOMAIN rest : a < b => from(a) < from(b)
  BY <1>2
<1> HIDE DEF from
<1>5. PartOf(rest, old)
  BY <1>3, <1>4 DEF PartOf, Settled, Precedes
<1> QED
  BY <1>5 DEF rest

(* A rule that was not there, put where it belongs among rules that were,
   comes after its equals. *)
LEMMA InsertArrives ==
  ASSUME NEW old \in Seq(Rules), NEW list \in Seq(Rules), NEW r \in Rules,
         NEW i \in 1 .. Len(list) + 1,
         Sorted(list), PartOf(list, old), BelongsAt(list, r, i), ~Settled(old, r)
  PROVE  InArrivalOrder(old, InsertAt(list, i, r))
<1> DEFINE new == InsertAt(list, i, r)
<1>1. /\ new \in Seq(Rules) /\ Len(new) = Len(list) + 1
      /\ \A j \in 1 .. Len(list) + 1 :
           new[j] = IF j < i THEN list[j] ELSE IF j = i THEN r ELSE list[j - 1]
  BY ONLY InsertAtShape, list \in Seq(Rules), r \in Rules, i \in 1 .. Len(list) + 1
<1>2. Len(list) \in Nat /\ DOMAIN list = 1 .. Len(list) /\ DOMAIN new = 1 .. Len(list) + 1
  BY <1>1, LenProperties
<1>3. \A k \in DOMAIN list : list[k].Priority \in Nat
  BY <1>2, ElementOfSeq, RuleFields
<1>4. r.Priority \in Nat
  BY RuleFields
<1> HIDE DEF new
<1> DEFINE from(x) == IF x < i THEN x ELSE x - 1
<1>5. \A j \in DOMAIN new : j # i => from(j) \in DOMAIN list /\ new[j] = list[from(j)]
  BY <1>1, <1>2
<1>6. \A a, b \in DOMAIN new : a < b /\ a # i /\ b # i => from(a) < from(b)
  BY <1>2
<1>7. \A b \in DOMAIN new : i < b => i \in DOMAIN list /\ from(b) \in DOMAIN list
                                     /\ (i = from(b) \/ i < from(b))
  BY <1>2
<1>8. new[i] = r /\ i \in DOMAIN new
  BY <1>1, <1>2
<1> HIDE DEF from
<1> SUFFICES ASSUME NEW a \in DOMAIN new, NEW b \in DOMAIN new, a < b
             PROVE  /\ Settled(old, new[a]) /\ Settled(old, new[b])
                         => Precedes(old, new[a], new[b])
                    /\ new[a].Priority = new[b].Priority => Settled(old, new[a])
  BY DEF InArrivalOrder, new
<1>9. CASE a = i
  <2>1. i \in DOMAIN list /\ from(b) \in DOMAIN list /\ (i = from(b) \/ i < from(b))
    BY <1>7, <1>9
  <2>2. r.Priority < list[i].Priority
    BY <1>2, <2>1 DEF BelongsAt
  <2>3. list[i].Priority <= list[from(b)].Priority
    BY <1>3, <2>1 DEF Sorted
  <2>4. b # i
    BY <1>2, <1>9
  <2>5. new[b] = list[from(b)]
    BY <1>5, <2>4
  <2>6. r.Priority # list[from(b)].Priority
    BY <1>3, <1>4, <2>1, <2>2, <2>3
  <2> QED
    BY <1>8, <1>9, <2>5, <2>6
<1>10. CASE b = i
  <2>1. a # i
    BY <1>2, <1>10
  <2> QED
    BY <1>5, <1>8, <1>10, <2>1 DEF PartOf
<1>11. CASE a # i /\ b # i
  <2>1. /\ from(a) \in DOMAIN list /\ new[a] = list[from(a)]
        /\ from(b) \in DOMAIN list /\ new[b] = list[from(b)]
    BY <1>5, <1>11
  <2>2. from(a) < from(b)
    BY <1>6, <1>11
  <2> QED
    BY <2>1, <2>2 DEF PartOf
<1> QED
  BY <1>9, <1>10, <1>11

(* Among rules of equal Priority the driver tries the older first (rules.c):
   a rule that arrives, or changes its Priority, goes behind its equals, and no
   two other rules ever change places. *)
THEOREM RuleListStable == RuleSpec => ArrivalOrder
<1>1. ListInv /\ [RuleNext]_g_RuleList => [InArrivalOrder(g_RuleList, g_RuleList')]_g_RuleList
  <2> SUFFICES ASSUME ListInv, RuleNext, g_RuleList' # g_RuleList
               PROVE  InArrivalOrder(g_RuleList, g_RuleList')
    OBVIOUS
  <2> USE DEF ListInv, IdsUniqueAndCapped, SortedByPriority
  <2>0. Len(g_RuleList) \in Nat /\ DOMAIN g_RuleList = 1 .. Len(g_RuleList)
    BY LenProperties
  <2>1. ASSUME NEW input \in RuleInputs, AddRule(input)
        PROVE  InArrivalOrder(g_RuleList, g_RuleList')
    <3>1. Holding(input.RuleId) = {} /\ InsertByPriority(g_RuleList, Kept(input))
      BY <2>1 DEF AddRule
    <3>2. PICK i \in 1 .. Len(g_RuleList) + 1 :
            /\ BelongsAt(g_RuleList, Kept(input), i)
            /\ g_RuleList' = InsertAt(g_RuleList, i, Kept(input))
      BY <3>1 DEF InsertByPriority
    <3>3. Kept(input) \in Rules /\ ~Settled(g_RuleList, Kept(input))
      BY <3>1, KeptFields DEF Holding, Settled
    <3> QED
      BY <3>2, <3>3, WholeIsPart, InsertArrives
  <2>2. ASSUME NEW input \in RuleInputs, UpdateRule(input)
        PROVE  InArrivalOrder(g_RuleList, g_RuleList')
    <3>1. PICK k \in Holding(input.RuleId) :
            \/ /\ g_RuleList[k].Priority = input.Priority
               /\ g_RuleList' = [g_RuleList EXCEPT ![k] = Kept(input)]
            \/ /\ g_RuleList[k].Priority # input.Priority
               /\ InsertByPriority(RemoveAt(g_RuleList, k), Kept(input))
      BY <2>2 DEF UpdateRule
    <3>2. k \in 1 .. Len(g_RuleList) /\ g_RuleList[k].RuleId = input.RuleId
      BY <2>0 DEF Holding
    <3>3. /\ Kept(input) \in Rules /\ Kept(input).RuleId = input.RuleId
          /\ Kept(input).Priority = input.Priority
      BY KeptFields
    <3>4. CASE /\ g_RuleList[k].Priority = input.Priority
               /\ g_RuleList' = [g_RuleList EXCEPT ![k] = Kept(input)]
      <4>1. /\ DOMAIN g_RuleList' = DOMAIN g_RuleList
            /\ \A j \in DOMAIN g_RuleList : /\ g_RuleList'[j].RuleId = g_RuleList[j].RuleId
                                             /\ g_RuleList'[j].Priority = g_RuleList[j].Priority
        BY <2>0, <3>2, <3>3, <3>4
      <4> QED
        BY <4>1 DEF InArrivalOrder, Settled, Precedes
    <3>5. CASE /\ g_RuleList[k].Priority # input.Priority
               /\ InsertByPriority(RemoveAt(g_RuleList, k), Kept(input))
      <4> DEFINE rest == RemoveAt(g_RuleList, k)
      <4>1. rest \in Seq(Rules) /\ Sorted(rest)
        BY <3>2, RemoveKeepsOrder
      <4>2. PICK i \in 1 .. Len(rest) + 1 : /\ BelongsAt(rest, Kept(input), i)
                                            /\ g_RuleList' = InsertAt(rest, i, Kept(input))
        BY <3>5 DEF InsertByPriority
      <4>3. ~Settled(g_RuleList, Kept(input))
        BY <2>0, <3>2, <3>3, <3>5 DEF Settled, Distinct
      <4>4. PartOf(rest, g_RuleList)
        BY <3>2, RestIsPart
      <4> HIDE DEF rest
      <4> QED
        BY <3>3, <4>1, <4>2, <4>3, <4>4, InsertArrives
    <3> QED
      BY <3>1, <3>4, <3>5
  <2>3. ASSUME NEW id, RemoveRule(id)
        PROVE  InArrivalOrder(g_RuleList, g_RuleList')
    <3>1. PICK k \in Holding(id) : g_RuleList' = RemoveAt(g_RuleList, k)
      BY <2>3 DEF RemoveRule
    <3>2. k \in 1 .. Len(g_RuleList)
      BY <2>0 DEF Holding
    <3>3. PartOf(g_RuleList', g_RuleList)
      BY <3>1, <3>2, RestIsPart
    <3> QED
      BY <3>3 DEF InArrivalOrder, PartOf
  <2>4. CASE ClearRules
    BY <2>4 DEF ClearRules, InArrivalOrder
  <2> QED
    BY <2>1, <2>2, <2>3, <2>4 DEF RuleNext
<1>2. RuleInit => ListInv
  BY CapAssumption, EmptySeq
     DEF RuleInit, ListInv, IdsUniqueAndCapped, SortedByPriority, Distinct, Sorted
<1>3. ListInv /\ [RuleNext]_g_RuleList => ListInv'
  BY RuleStep DEF ListInv, IdsUniqueAndCapped, SortedByPriority
<1> QED
  BY <1>1, <1>2, <1>3, PTL DEF RuleSpec, ArrivalOrder

-----------------------------------------------------------------------------

(* As long as only one part of the policy has changed since a fruitless search,
   the default policy of now is a verdict that was in force since. *)
Pending(c) ==
  /\ "rules" \notin touched[c] => Hits(classify[c].conn) = {}
  /\ touched[c] # {"rules", "default"} => g_DefaultAllow \in inForce[c]

AleInv ==
  /\ ListInv
  /\ DOMAIN classify = Cpus /\ DOMAIN inForce = Cpus /\ DOMAIN touched = Cpus
  /\ \A c \in Cpus : touched[c] \subseteq {"rules", "default"}
  /\ \A c \in Cpus : Searching(c) => Pending(c)
  /\ VerdictWasInForce

(* The first rule that applies is a most urgent one, because the list is
   sorted: what it says is what the policy says. *)
LEMMA FirstIsMostUrgent ==
  ASSUME ListInv, NEW conn, NEW i \in Hits(conn), \A j \in Hits(conn) : i <= j
  PROVE  g_RuleList[i].IsAllow \in Policy(conn)
<1>1. DOMAIN g_RuleList = 1 .. Len(g_RuleList) /\ Len(g_RuleList) \in Nat
  BY LenProperties DEF ListInv
<1>2. Hits(conn) \subseteq DOMAIN g_RuleList
  BY DEF Hits
<1>3. ASSUME NEW j \in Hits(conn)
      PROVE  g_RuleList[i].Priority <= g_RuleList[j].Priority
  <2>1. i \in DOMAIN g_RuleList /\ j \in DOMAIN g_RuleList /\ i <= j
    BY <1>2
  <2>2. g_RuleList[i].Priority \in Nat
    BY <1>1, <2>1, ElementOfSeq, RuleFields DEF ListInv
  <2>3. CASE i = j
    BY <2>2, <2>3
  <2>4. CASE i < j
    BY <2>1, <2>4 DEF ListInv, SortedByPriority, Sorted
  <2> QED
    BY <1>1, <2>1, <2>3, <2>4
<1> QED
  BY <1>3 DEF Policy

(* A change of the rule list is a step of the list's own specification. *)
LEMMA ChangeKeepsList ==
  ASSUME ListInv, ChangeRules
  PROVE  ListInv'
BY RuleStep DEF ChangeRules, RuleNext

(* Every step of the service and of the processors preserves AleInv. *)
LEMMA AleStep ==
  ASSUME AleInv, AleNext
  PROVE  AleInv'
<1>1. CASE ChangeRules
  <2>1. ListInv'
    BY <1>1, ChangeKeepsList DEF AleInv
  <2>2. /\ UNCHANGED <<g_DefaultAllow, classify>>
        /\ DOMAIN inForce' = Cpus /\ DOMAIN touched' = Cpus
        /\ \A c \in Cpus : Searching(c) => /\ inForce[c] \subseteq inForce'[c]
                                           /\ touched'[c] = touched[c] \cup {"rules"}
        /\ \A c \in Cpus : ~Searching(c) => /\ inForce'[c] = inForce[c]
                                            /\ touched'[c] = touched[c]
    BY <1>1 DEF ChangeRules, Observe
  <2>3. \A c \in Cpus : Searching(c)' <=> Searching(c)
    BY <2>2 DEF Searching
  <2>4. \A c \in Cpus : touched'[c] \subseteq {"rules", "default"}
    BY <2>2 DEF AleInv
  <2>5. ASSUME NEW c \in Cpus, Searching(c)
        PROVE  Pending(c)'
    <3>1. "rules" \in touched'[c]
      BY <2>2, <2>5
    <3>2. ASSUME touched'[c] # {"rules", "default"}
          PROVE  g_DefaultAllow' \in inForce'[c]
      <4>1. touched[c] # {"rules", "default"}
        BY <2>2, <2>5, <3>2
      <4> QED
        BY <2>2, <2>5, <4>1 DEF AleInv, Pending
    <3> QED
      BY <3>1, <3>2 DEF Pending
  <2>6. VerdictWasInForce'
    <3> SUFFICES ASSUME NEW c \in Cpus, classify'[c].at = "decided"
                 PROVE  classify'[c].allow \in inForce'[c] \/ touched'[c] = {"rules", "default"}
      BY DEF VerdictWasInForce
    <3>1. ~Searching(c) /\ classify[c].at = "decided"
      BY <2>2 DEF Searching
    <3> QED
      BY <2>2, <3>1 DEF AleInv, VerdictWasInForce
  <2> QED
    BY <2>1, <2>2, <2>3, <2>4, <2>5, <2>6 DEF AleInv
<1>2. ASSUME NEW allow \in BOOLEAN, SetDefaultPolicy(allow)
      PROVE  AleInv'
  <2>1. /\ UNCHANGED <<g_RuleList, classify>>
        /\ DOMAIN inForce' = Cpus /\ DOMAIN touched' = Cpus
        /\ \A c \in Cpus : Searching(c) =>
             /\ inForce'[c] = inForce[c] \cup Policy(classify[c].conn)'
             /\ touched'[c] = touched[c] \cup {"default"}
        /\ \A c \in Cpus : ~Searching(c) => /\ inForce'[c] = inForce[c]
                                            /\ touched'[c] = touched[c]
    BY <1>2 DEF SetDefaultPolicy, Observe
  <2>2. ListInv'
    BY <2>1 DEF AleInv, ListInv, IdsUniqueAndCapped, SortedByPriority
  <2>3. \A c \in Cpus : Searching(c)' <=> Searching(c)
    BY <2>1 DEF Searching
  <2>4. \A c \in Cpus : touched'[c] \subseteq {"rules", "default"}
    BY <2>1 DEF AleInv
  <2>5. ASSUME NEW c \in Cpus, Searching(c)
        PROVE  Pending(c)'
    <3>1. Hits(classify[c].conn)' = Hits(classify[c].conn)
      BY <2>1 DEF Hits
    <3>2. "rules" \notin touched[c] => Hits(classify[c].conn) = {}
      BY <2>5 DEF AleInv, Pending
    <3>3. ASSUME touched'[c] # {"rules", "default"}
          PROVE  g_DefaultAllow' \in inForce'[c]
      <4>1. "rules" \notin touched[c]
        BY <2>1, <2>5, <3>3 DEF AleInv
      <4>2. Policy(classify[c].conn)' = {g_DefaultAllow'}
        BY <3>1, <3>2, <4>1 DEF Policy
      <4> QED
        BY <2>1, <2>5, <4>2
    <3>4. "rules" \notin touched'[c] => Hits(classify[c].conn)' = {}
      BY <2>1, <2>5, <3>1, <3>2
    <3> QED
      BY <3>3, <3>4 DEF Pending
  <2>6. VerdictWasInForce'
    <3> SUFFICES ASSUME NEW c \in Cpus, classify'[c].at = "decided"
                 PROVE  classify'[c].allow \in inForce'[c] \/ touched'[c] = {"rules", "default"}
      BY DEF VerdictWasInForce
    <3>1. ~Searching(c) /\ classify[c].at = "decided"
      BY <2>1 DEF Searching
    <3> QED
      BY <2>1, <3>1 DEF AleInv, VerdictWasInForce
  <2> QED
    BY <2>1, <2>2, <2>3, <2>4, <2>5, <2>6 DEF AleInv
<1>3. ASSUME NEW c \in Cpus, ProcessAleAuth(c)
      PROVE  AleInv'
  <2>1. PICK conn : MatchRules(c, conn)
    BY <1>3 DEF ProcessAleAuth
  <2>2. /\ UNCHANGED <<g_RuleList, g_DefaultAllow>>
        /\ touched' = [touched EXCEPT ![c] = {}]
        /\ inForce' = [inForce EXCEPT ![c] = Policy(conn)]
    BY <1>3, <2>1 DEF ProcessAleAuth, MatchRules
  <2>3. DOMAIN classify' = Cpus /\ \A d \in Cpus \ {c} : classify'[d] = classify[d]
    BY <2>1 DEF MatchRules, AleInv
  <2>4. /\ touched'[c] = {} /\ inForce'[c] = Policy(conn)
        /\ \A d \in Cpus \ {c} : touched'[d] = touched[d] /\ inForce'[d] = inForce[d]
        /\ DOMAIN touched' = Cpus /\ DOMAIN inForce' = Cpus
    BY <2>2 DEF AleInv
  <2>5. \/ /\ Hits(conn) = {}
           /\ classify'[c].at = "unmatched" /\ classify'[c].conn = conn
        \/ /\ classify'[c].at = "decided"
           /\ classify'[c].allow \in Policy(conn)
    <3>1. CASE /\ Hits(conn) = {}
               /\ classify' = [classify EXCEPT ![c] = [at |-> "unmatched", conn |-> conn]]
      BY <3>1 DEF AleInv
    <3>2. ASSUME NEW i \in Hits(conn), \A j \in Hits(conn) : i <= j,
                 classify' = [classify EXCEPT ![c] =
                   [at |-> "decided", conn |-> conn, allow |-> g_RuleList[i].IsAllow]]
          PROVE  classify'[c].at = "decided" /\ classify'[c].allow \in Policy(conn)
      <4>1. g_RuleList[i].IsAllow \in Policy(conn)
        BY <3>2, FirstIsMostUrgent DEF AleInv
      <4> QED
        BY <3>2, <4>1 DEF AleInv
    <3> QED
      BY <2>1, <3>1, <3>2 DEF MatchRules
  <2>6. \A d \in Cpus \ {c} : /\ Searching(d)' <=> Searching(d)
                              /\ Pending(d)' <=> Pending(d)
    BY <2>2, <2>3, <2>4 DEF Searching, Pending, Hits
  <2>7. Searching(c)' => Pending(c)'
    <3> SUFFICES ASSUME Searching(c)'
                 PROVE  Pending(c)'
      OBVIOUS
    <3>1. Hits(conn) = {} /\ classify'[c].conn = conn
      BY <2>5 DEF Searching
    <3>2. Policy(conn) = {g_DefaultAllow}
      BY <3>1 DEF Policy
    <3>3. Hits(classify[c].conn)' = {}
      BY <2>2, <3>1 DEF Hits
    <3> QED
      BY <2>2, <2>4, <3>2, <3>3 DEF Pending
  <2>8. VerdictWasInForce'
    <3> SUFFICES ASSUME NEW d \in Cpus, classify'[d].at = "decided"
                 PROVE  classify'[d].allow \in inForce'[d] \/ touched'[d] = {"rules", "default"}
      BY DEF VerdictWasInForce
    <3>1. CASE d = c
      BY <2>4, <2>5, <3>1
    <3>2. CASE d # c
      BY <2>3, <2>4, <3>2 DEF AleInv, VerdictWasInForce
    <3> QED
      BY <3>1, <3>2
  <2>9. ListInv'
    BY <2>2 DEF AleInv, ListInv, IdsUniqueAndCapped, SortedByPriority
  <2>10. \A d \in Cpus : touched'[d] \subseteq {"rules", "default"}
    BY <2>4 DEF AleInv
  <2>11. \A d \in Cpus : Searching(d)' => Pending(d)'
    BY <2>6, <2>7 DEF AleInv
  <2> QED
    BY <2>3, <2>4, <2>8, <2>9, <2>10, <2>11 DEF AleInv
<1>4. ASSUME NEW c \in Cpus, UseDefault(c) \/ Return(c)
      PROVE  AleInv'
  <2>1. /\ UNCHANGED <<g_RuleList, g_DefaultAllow>>
        /\ DOMAIN classify' = Cpus /\ DOMAIN inForce' = Cpus /\ DOMAIN touched' = Cpus
        /\ \A d \in Cpus \ {c} : /\ classify'[d] = classify[d]
                                 /\ inForce'[d] = inForce[d] /\ touched'[d] = touched[d]
        /\ touched'[c] \in {touched[c], {}}
        /\ classify'[c].at # "unmatched"
    BY <1>4 DEF UseDefault, Return, Idle, AleInv
  <2>2. classify'[c].at = "decided" =>
          classify'[c].allow \in inForce'[c] \/ touched'[c] = {"rules", "default"}
    <3>1. CASE UseDefault(c)
      <4>1. /\ classify'[c].allow = g_DefaultAllow
            /\ inForce' = inForce /\ touched' = touched /\ Searching(c)
        BY <3>1 DEF UseDefault, AleInv
      <4>2. Pending(c)
        BY <4>1 DEF AleInv
      <4> QED
        BY <4>1, <4>2 DEF Pending
    <3>2. CASE Return(c)
      BY <3>2 DEF Return, Idle, AleInv
    <3> QED
      BY <1>4, <3>1, <3>2
  <2>3. \A d \in Cpus : Searching(d)' => Pending(d)'
    BY <2>1 DEF Searching, Pending, Hits, AleInv
  <2>4. VerdictWasInForce'
    BY <2>1, <2>2 DEF VerdictWasInForce, AleInv
  <2>5. ListInv'
    BY <2>1 DEF AleInv, ListInv, IdsUniqueAndCapped, SortedByPriority
  <2>6. \A d \in Cpus : touched'[d] \subseteq {"rules", "default"}
    BY <2>1 DEF AleInv
  <2> QED
    BY <2>1, <2>3, <2>4, <2>5, <2>6 DEF AleInv
<1> QED
  BY <1>1, <1>2, <1>3, <1>4 DEF AleNext

(* A connection gets a verdict the policy gave at some moment between the search
   of the rules and the decision (ProcessAleAuth, wfp.c), unless both the rules
   and the default policy changed in between. *)
THEOREM VerdictSound == AleSpec => []VerdictWasInForce
<1>1. AleInit => AleInv
  <2> SUFFICES ASSUME AleInit
               PROVE  AleInv
    OBVIOUS
  <2>1. ListInv
    BY CapAssumption, EmptySeq
       DEF AleInit, RuleInit, ListInv, IdsUniqueAndCapped, SortedByPriority, Distinct, Sorted
  <2>2. \A c \in Cpus : classify[c].at = "idle" /\ touched[c] = {}
    BY DEF AleInit, Idle
  <2> QED
    BY <2>1, <2>2 DEF AleInit, AleInv, Searching, VerdictWasInForce
<1>2. AleInv /\ [AleNext]_avars => AleInv'
  <2>1. CASE UNCHANGED avars
    BY <2>1 DEF avars, AleInv, ListInv, IdsUniqueAndCapped, SortedByPriority,
                Searching, Pending, Hits, VerdictWasInForce
  <2> QED
    BY <2>1, AleStep
<1>3. AleInv => VerdictWasInForce
  BY DEF AleInv
<1> QED
  BY <1>1, <1>2, <1>3, PTL DEF AleSpec

-----------------------------------------------------------------------------
(* Within these ranges nothing wraps. *)
LEMMA ExpandedValue ==
  ASSUME NEW r \in RuleIdRange, NEW i \in MemberRange
  PROVE  expanded_rule_id(r, i) = GROUP_RULE_ID_BASE + r * 4096 + i
<1>1. (r * 4096) % U32 = r * 4096
  BY DEF RuleIdRange, U32
<1>2. wrapping_add(GROUP_RULE_ID_BASE, r * 4096) = GROUP_RULE_ID_BASE + r * 4096
  BY DEF RuleIdRange, U32, wrapping_add, GROUP_RULE_ID_BASE
<1>3. i % 4096 = i
  BY DEF MemberRange
<1>4. wrapping_add(GROUP_RULE_ID_BASE + r * 4096, i) = GROUP_RULE_ID_BASE + r * 4096 + i
  BY DEF RuleIdRange, MemberRange, U32, wrapping_add, GROUP_RULE_ID_BASE
<1> QED
  BY <1>1, <1>2, <1>3, <1>4 DEF expanded_rule_id

(* A shadow's id does not wrap either. *)
LEMMA ShadowValue ==
  ASSUME NEW n \in ShadowRange
  PROVE  shadow_id(n) = SHADOW_RULE_ID_BASE + n
BY DEF ShadowRange, shadow_id, wrapping_add, SHADOW_RULE_ID_BASE, U32

(* The driver's ids tell all rules apart, as the comment on GROUP_RULE_ID_BASE
   (manager.rs:9-10) claims: with fewer than 2^18 rule ids ever given out, at
   most 4096 members in a group and fewer than 2^31 shadows, no two members
   share an id, and direct rules, members and shadows lie in disjoint ranges.
   The code enforces none of the three bounds. *)
THEOREM IdsApart ==
  ASSUME NEW r \in RuleIdRange, NEW s \in RuleIdRange,
         NEW i \in MemberRange, NEW j \in MemberRange, NEW n \in ShadowRange
  PROVE  /\ expanded_rule_id(r, i) = expanded_rule_id(s, j) => r = s /\ i = j
         /\ expanded_rule_id(r, i) # s
         /\ expanded_rule_id(r, i) # shadow_id(n)
         /\ shadow_id(n) # s
<1>1. expanded_rule_id(r, i) = GROUP_RULE_ID_BASE + r * 4096 + i
  BY ExpandedValue
<1>2. expanded_rule_id(s, j) = GROUP_RULE_ID_BASE + s * 4096 + j
  BY ExpandedValue
<1>3. shadow_id(n) = SHADOW_RULE_ID_BASE + n
  BY ShadowValue
<1>4. ASSUME expanded_rule_id(r, i) = expanded_rule_id(s, j)
      PROVE  r = s /\ i = j
  BY <1>1, <1>2, <1>4 DEF RuleIdRange, MemberRange, GROUP_RULE_ID_BASE
<1>5. expanded_rule_id(r, i) # s
  BY <1>1 DEF RuleIdRange, MemberRange, GROUP_RULE_ID_BASE
<1>6. expanded_rule_id(r, i) # shadow_id(n)
  BY <1>1, <1>3 DEF RuleIdRange, MemberRange, ShadowRange, GROUP_RULE_ID_BASE, SHADOW_RULE_ID_BASE
<1>7. shadow_id(n) # s
  BY <1>3 DEF RuleIdRange, ShadowRange, SHADOW_RULE_ID_BASE
<1> QED
  BY <1>4, <1>5, <1>6, <1>7

(* The bound is sharp: the first rule id past it expands into the range of the
   shadows, where the driver refuses one of the two as a duplicate. *)
THEOREM FirstClash ==
  ASSUME NEW i \in MemberRange
  PROVE  expanded_rule_id(262144, i) = shadow_id(i)
BY DEF MemberRange, expanded_rule_id, shadow_id, wrapping_add, U32,
       GROUP_RULE_ID_BASE, SHADOW_RULE_ID_BASE
-----------------------------------------------------------------------------
(* The successor of a ring index wraps to 0 at the end of the ring. *)
LEMMA NextSlotWraps ==
  ASSUME NEW i \in Slots
  PROVE  /\ NextSlot(i) \in Slots
         /\ NextSlot(i) = IF i = EVENT_QUEUE_SIZE - 1 THEN 0 ELSE i + 1
  BY SizeAssumption DEF NextSlot, Slots

(* The number of unread events fits the ring, and their slots are in it. *)
LEMMA CountBounds ==
  ASSUME TypeOK, NEW q \in Queues
  PROVE  /\ Count(q) \in 0 .. EVENT_QUEUE_SIZE - 1
         /\ \A k \in 1 .. Count(q) : SlotOf(tail[q], k) \in Slots
         /\ Count(q) = 0 <=> head[q] = tail[q]
  <1>1. head[q] \in Slots /\ tail[q] \in Slots
    BY DEF TypeOK
  <1> QED BY <1>1, SizeAssumption DEF Count, SlotOf, Slots

(* What a write does to one ring, read as a queue: the new event is the
   youngest, and a full ring has lost exactly its oldest one. *)
LEMMA WriteEffect ==
  ASSUME TypeOK, NEW q \in Queues, NEW e \in Events, Write(q, e),
         NEW drop, drop = (IF Count(q) = EVENT_QUEUE_SIZE - 1 THEN 1 ELSE 0)
  PROVE  /\ Count(q)' = Count(q) + 1 - drop
         /\ ring'[q][SlotOf(tail'[q], Count(q)')] = e
         /\ \A k \in 1 .. Count(q)' - 1 :
               ring'[q][SlotOf(tail'[q], k)] = ring[q][SlotOf(tail[q], k + drop)]
  <1> DEFINE h == head[q]
             t == tail[q]
             hh == head'[q]
             tt == tail'[q]
             N == EVENT_QUEUE_SIZE
  <1>1. h \in 0 .. N-1 /\ t \in 0 .. N-1 /\ N \in Nat /\ N >= 2
    BY SizeAssumption DEF TypeOK, Slots
  <1>2. hh = IF h = N - 1 THEN 0 ELSE h + 1
    BY NextSlotWraps DEF TypeOK, Write, Slots
  <1>3. tt = IF hh = t THEN (IF t = N - 1 THEN 0 ELSE t + 1) ELSE t
    BY NextSlotWraps DEF TypeOK, Write, Slots
  <1>4. ring'[q] = [ring[q] EXCEPT ![h] = e]
    BY DEF TypeOK, Write
  <1>5. ring[q] \in [0 .. N-1 -> Events \cup {Zero}]
    BY DEF TypeOK, Slots
  <1>6. Count(q) = (IF h >= t THEN h - t ELSE h - t + N)
    BY DEF Count
  <1>7. Count(q)' = (IF hh >= tt THEN hh - tt ELSE hh - tt + N)
    BY DEF Count
  <1>8. Count(q)' = Count(q) + 1 - drop
    BY <1>1, <1>2, <1>3, <1>6, <1>7
  <1>9. SlotOf(tt, Count(q)') = h
    BY <1>1, <1>2, <1>3, <1>7 DEF SlotOf
  <1>10. ASSUME NEW k \in 1 .. Count(q)' - 1
         PROVE  ring'[q][SlotOf(tt, k)] = ring[q][SlotOf(t, k + drop)]
    <2>1. SlotOf(tt, k) = SlotOf(t, k + drop)
      BY <1>1, <1>2, <1>3, <1>6, <1>7 DEF SlotOf
    <2>2. SlotOf(tt, k) \in 0 .. N-1 /\ SlotOf(tt, k) # h
      BY <1>1, <1>2, <1>3, <1>7 DEF SlotOf
    <2> QED BY <2>1, <2>2, <1>4, <1>5
  <1>11. ring'[q][h] = e
    BY <1>1, <1>4, <1>5
  <1> QED BY <1>8, <1>9, <1>10, <1>11

(* What a read of a non-empty ring does to it, read as a queue: the oldest
   event is gone and the others keep their order. *)
LEMMA ReadEffect ==
  ASSUME TypeOK, NEW q \in Queues, Read(q), head[q] # tail[q]
  PROVE  /\ Count(q)' = Count(q) - 1
         /\ returned'[q] = ring[q][SlotOf(tail[q], 1)]
         /\ \A k \in 1 .. Count(q)' :
               ring'[q][SlotOf(tail'[q], k)] = ring[q][SlotOf(tail[q], k + 1)]
  <1> DEFINE h == head[q]
             t == tail[q]
             tt == tail'[q]
             N == EVENT_QUEUE_SIZE
  <1>1. h \in 0 .. N-1 /\ t \in 0 .. N-1 /\ N \in Nat /\ N >= 2
    BY SizeAssumption DEF TypeOK, Slots
  <1>2. tt = IF t = N - 1 THEN 0 ELSE t + 1
    BY NextSlotWraps DEF TypeOK, Read, Slots
  <1>3. head'[q] = h /\ ring' = ring /\ returned'[q] = ring[q][t]
    BY DEF TypeOK, Read
  <1>4. Count(q) = (IF h >= t THEN h - t ELSE h - t + N)
    BY DEF Count
  <1>5. Count(q)' = (IF h >= tt THEN h - tt ELSE h - tt + N)
    BY <1>3 DEF Count
  <1>6. Count(q)' = Count(q) - 1
    BY <1>1, <1>2, <1>4, <1>5
  <1>7. SlotOf(t, 1) = t
    BY <1>1 DEF SlotOf
  <1>8. \A k \in 1 .. Count(q)' : SlotOf(tt, k) = SlotOf(t, k + 1)
    BY <1>1, <1>2, <1>5 DEF SlotOf
  <1> QED BY <1>3, <1>6, <1>7, <1>8
-----------------------------------------------------------------------------
(* The inductive invariant: valid indices, and events in the unread slots. *)
IInv == TypeOK /\ UnreadAreEvents

(* Every operation works on one queue and leaves the other as it is. *)
LEMMA OneQueue ==
  ASSUME TypeOK, [Next]_vars
  PROVE  \/ \E q \in Queues, e \in Events : Write(q, e)
         \/ \E q \in Queues : Read(q)
         \/ UNCHANGED vars
  BY DEF Next, QueueEvent, QueueDnsEvent, GetEvent, GetDnsEvent, Queues

(* A write or a read of q does not touch the events of another queue. *)
LEMMA OtherQueue ==
  ASSUME TypeOK, NEW q \in Queues, NEW p \in Queues, p # q,
         Read(q) \/ \E e \in Events : Write(q, e)
  PROVE  /\ Count(p)' = Count(p)
         /\ ring'[p] = ring[p] /\ tail'[p] = tail[p] /\ returned'[p] = returned[p]
  BY DEF TypeOK, Read, Write, Count

(* Both conjuncts hold of the empty rings. *)
LEMMA InitIInv == Init => IInv
  BY SizeAssumption DEF Init, IInv, TypeOK, UnreadAreEvents, Slots, Queues, Count

(* Every step preserves the invariant. *)
LEMMA NextIInv ==
  ASSUME IInv, [Next]_vars
  PROVE  IInv'
  <1> USE DEF IInv
  <1>1. ASSUME NEW q \in Queues, NEW e \in Events, Write(q, e) PROVE IInv'
    <2>1. TypeOK'
      BY <1>1, NextSlotWraps DEF TypeOK, Write
    <2>2. ASSUME NEW k \in 1 .. Count(q)' PROVE ring'[q][SlotOf(tail'[q], k)] \in Events
      <3> DEFINE drop == IF Count(q) = EVENT_QUEUE_SIZE - 1 THEN 1 ELSE 0
      <3>1. k = Count(q)' \/ k \in 1 .. Count(q)' - 1
        BY <1>1, WriteEffect, CountBounds, SizeAssumption
      <3>2. k \in 1 .. Count(q)' - 1 => k + drop \in 1 .. Count(q)
        BY <1>1, WriteEffect, CountBounds
      <3> QED BY <1>1, <3>1, <3>2, WriteEffect DEF UnreadAreEvents
    <2>3. ASSUME NEW p \in Queues, p # q, NEW k \in 1 .. Count(p)'
          PROVE  ring'[p][SlotOf(tail'[p], k)] \in Events
      BY <1>1, <2>3, OtherQueue DEF UnreadAreEvents
    <2> QED BY <2>1, <2>2, <2>3 DEF UnreadAreEvents
  <1>2. ASSUME NEW q \in Queues, Read(q) PROVE IInv'
    <2>1. TypeOK'
      BY <1>2, NextSlotWraps DEF TypeOK, Read
    <2>2. ASSUME NEW k \in 1 .. Count(q)' PROVE ring'[q][SlotOf(tail'[q], k)] \in Events
      <3>1. CASE head[q] = tail[q]
        BY <1>2, <3>1 DEF Read, UnreadAreEvents, Count
      <3>2. CASE head[q] # tail[q]
        <4>1. k + 1 \in 1 .. Count(q)
          BY <1>2, <3>2, ReadEffect, CountBounds
        <4> QED BY <1>2, <3>2, <4>1, ReadEffect DEF UnreadAreEvents
      <3> QED BY <3>1, <3>2
    <2>3. ASSUME NEW p \in Queues, p # q, NEW k \in 1 .. Count(p)'
          PROVE  ring'[p][SlotOf(tail'[p], k)] \in Events
      BY <1>2, <2>3, OtherQueue DEF UnreadAreEvents
    <2> QED BY <2>1, <2>2, <2>3 DEF UnreadAreEvents
  <1>3. CASE UNCHANGED vars
    BY <1>3 DEF vars, TypeOK, UnreadAreEvents, Count
  <1> QED BY <1>1, <1>2, <1>3, OneQueue
-----------------------------------------------------------------------------
(* The unread slots form a sequence as long as the ring's count. *)
LEMMA UnreadSeq ==
  ASSUME IInv, NEW q \in Queues
  PROVE  /\ Unread[q] \in Seq(Events)
         /\ Len(Unread[q]) = Count(q)
         /\ \A k \in 1 .. Count(q) : Unread[q][k] = ring[q][SlotOf(tail[q], k)]
  <1>1. Count(q) \in Nat
    BY CountBounds, SizeAssumption DEF IInv
  <1>2. Unread[q] = [k \in 1 .. Count(q) |-> ring[q][SlotOf(tail[q], k)]]
    BY DEF Unread
  <1>3. \A k \in 1 .. Count(q) : ring[q][SlotOf(tail[q], k)] \in Events
    BY DEF IInv, UnreadAreEvents
  <1> QED BY <1>1, <1>2, <1>3

(* A write is the abstract Put. *)
LEMMA WriteIsPut ==
  ASSUME IInv, IInv', NEW q \in Queues, NEW e \in Events, Write(q, e)
  PROVE  Fifo!Put(q, e)
  <1> DEFINE drop == IF Count(q) = EVENT_QUEUE_SIZE - 1 THEN 1 ELSE 0
             old == IF Len(Unread[q]) = EVENT_QUEUE_SIZE - 1 THEN Tail(Unread[q])
                                                             ELSE Unread[q]
  <1>1. TypeOK
    BY DEF IInv
  <1>2. Count(q) \in 0 .. EVENT_QUEUE_SIZE - 1 /\ EVENT_QUEUE_SIZE - 1 \in Nat \ {0}
    BY <1>1, CountBounds, SizeAssumption
  <1>3. /\ old \in Seq(Events)
        /\ Len(old) = Count(q) - drop
        /\ \A k \in 1 .. Len(old) : old[k] = ring[q][SlotOf(tail[q], k + drop)]
    <2>1. CASE Count(q) = EVENT_QUEUE_SIZE - 1
      <3>1. Unread[q] \in Seq(Events) /\ Unread[q] # <<>> /\ Len(Unread[q]) = Count(q)
        BY <1>2, <2>1, UnreadSeq
      <3>2. old = Tail(Unread[q]) /\ drop = 1
        BY <2>1, <3>1
      <3> HIDE DEF old, drop
      <3>3. old \in Seq(Events) /\ Len(old) = Count(q) - 1
        BY <3>1, <3>2, HeadTailProperties
      <3>4. ASSUME NEW k \in 1 .. Len(old)
            PROVE  old[k] = ring[q][SlotOf(tail[q], k + drop)]
        <4>1. old[k] = Unread[q][k + 1]
          BY <3>1, <3>2, HeadTailProperties
        <4>2. k + 1 \in 1 .. Count(q)
          BY <1>2, <3>3
        <4> QED BY <3>2, <4>1, <4>2, UnreadSeq
      <3> QED BY <3>2, <3>3, <3>4
    <2>2. CASE Count(q) # EVENT_QUEUE_SIZE - 1
      <3>1. old = Unread[q] /\ drop = 0
        BY <2>2, UnreadSeq
      <3> HIDE DEF old, drop
      <3> QED BY <1>2, <3>1, UnreadSeq
    <2> QED BY <2>1, <2>2
  <1>4. Unread'[q] = Append(old, e)
    <2>1. Unread'[q] = [k \in 1 .. Count(q)' |-> ring'[q][SlotOf(tail'[q], k)]]
      BY DEF Unread
    <2>2. Count(q)' = Len(old) + 1
      BY <1>1, <1>2, <1>3, WriteEffect
    <2> HIDE DEF old
    <2>3. Len(old) \in Nat
      BY <1>3
    <2>4. ASSUME NEW k \in 1 .. Len(old) PROVE Unread'[q][k] = old[k]
      <3>1. k \in 1 .. Count(q)' /\ k \in 1 .. Count(q)' - 1
        BY <2>2, <2>3
      <3>2. ring'[q][SlotOf(tail'[q], k)] = ring[q][SlotOf(tail[q], k + drop)]
        BY <1>1, <3>1, WriteEffect
      <3> QED BY <1>3, <2>1, <3>1, <3>2
    <2>5. Unread'[q][Len(old) + 1] = e
      BY <1>1, <2>1, <2>2, <2>3, WriteEffect
    <2>6. Unread'[q] \in Seq(Events) /\ Len(Unread'[q]) = Len(old) + 1
      <3>1. \A k \in 1 .. Len(old) + 1 : Unread'[q][k] \in Events
        BY SMTT(30), <1>3, <2>3, <2>4, <2>5, ElementOfSeq
      <3> QED BY <2>1, <2>2, <2>3, <3>1
    <2>7. /\ Append(old, e) \in Seq(Events)
          /\ Len(Append(old, e)) = Len(old) + 1
          /\ \A k \in 1 .. Len(old) : Append(old, e)[k] = old[k]
          /\ Append(old, e)[Len(old) + 1] = e
      BY <1>3, AppendProperties
    <2>8. \A k \in 1 .. Len(old) + 1 : Unread'[q][k] = Append(old, e)[k]
      BY <2>3, <2>4, <2>5, <2>7
    <2> QED BY <2>6, <2>7, <2>8, SeqEqual
  <1>5. \A p \in Queues : p # q => Unread'[p] = Unread[p]
    BY <1>1, OtherQueue DEF Unread
  <1>6. Unread' = [Unread EXCEPT ![q] = Append(old, e)]
    BY <1>4, <1>5 DEF Unread
  <1> QED BY <1>6 DEF Fifo!Put, Write

(* A read is the abstract Take or TakeNothing. *)
LEMMA ReadIsTake ==
  ASSUME IInv, IInv', NEW q \in Queues, Read(q)
  PROVE  Fifo!Take(q) \/ Fifo!TakeNothing(q)
  <1>1. TypeOK
    BY DEF IInv
  <1>2. CASE head[q] = tail[q]
    <2>1. Unread[q] = <<>>
      BY <1>1, <1>2, CountBounds, UnreadSeq
    <2>2. Unread' = Unread
      BY <1>2 DEF Read, Unread, Count
    <2> QED BY <1>2, <2>1, <2>2 DEF Read, Fifo!TakeNothing
  <1>3. CASE head[q] # tail[q]
    <2>1. Count(q) \in Nat \ {0}
      BY <1>1, <1>3, CountBounds, SizeAssumption
    <2>2. Unread[q] # <<>> /\ Head(Unread[q]) = ring[q][SlotOf(tail[q], 1)]
      BY <2>1, UnreadSeq
    <2>3. Unread'[q] = Tail(Unread[q])
      <3>1. Unread'[q] = [k \in 1 .. Count(q)' |-> ring'[q][SlotOf(tail'[q], k)]]
        BY DEF Unread
      <3>2. Count(q)' = Len(Unread[q]) - 1
        BY <1>1, <1>3, ReadEffect, UnreadSeq
      <3>3. \A k \in 1 .. Count(q)' : Unread'[q][k] = Unread[q][k + 1]
        BY <1>1, <1>3, <2>1, <3>1, <3>2, ReadEffect, UnreadSeq
      <3>4. Len(Unread[q]) \in Nat \ {0} /\ Unread[q] \in Seq(Events)
        BY <2>1, UnreadSeq
      <3>5. Unread'[q] \in Seq(Events) /\ Len(Unread'[q]) = Len(Unread[q]) - 1
        <4>1. \A k \in 1 .. Count(q)' : Unread'[q][k] \in Events
          BY <3>2, <3>3, <3>4, ElementOfSeq
        <4>2. Count(q)' \in Nat
          BY <3>2, <3>4
        <4> QED BY SMTT(30), <3>1, <3>2, <4>1, <4>2
      <3>6. /\ Tail(Unread[q]) \in Seq(Events)
            /\ Len(Tail(Unread[q])) = Len(Unread[q]) - 1
            /\ \A k \in 1 .. Len(Unread[q]) - 1 : Tail(Unread[q])[k] = Unread[q][k + 1]
        BY <2>2, <3>4, HeadTailProperties
      <3>7. \A k \in 1 .. Len(Unread'[q]) : Unread'[q][k] = Tail(Unread[q])[k]
        BY <3>2, <3>3, <3>5, <3>6
      <3> QED BY <3>5, <3>6, <3>7, SeqEqual
    <2>4. Unread' = [Unread EXCEPT ![q] = Tail(Unread[q])]
      BY <1>1, <2>3, OtherQueue DEF Unread
    <2>5. returned' = [returned EXCEPT ![q] = Head(Unread[q])]
      BY <1>1, <1>3, <2>2, ReadEffect DEF Read, TypeOK
    <2> QED BY <2>2, <2>4, <2>5 DEF Fifo!Take
  <1> QED BY <1>2, <1>3
-----------------------------------------------------------------------------
(* For every ring size the indices of both rings stay valid and every unread
   slot holds an event some callout queued (QueueEvent, GetEvent and their
   DNS twins). *)
THEOREM RingSafety == Spec => [](TypeOK /\ UnreadAreEvents)
  <1>1. Init => IInv
    BY InitIInv
  <1>2. IInv /\ [Next]_vars => IInv'
    BY NextIInv
  <1> QED BY <1>1, <1>2, PTL DEF Spec, IInv

(* For every ring size the two rings implement the FIFO that gives up only
   its oldest event, and only when it is full. *)
THEOREM RingImplementsFifo == Spec => RefinesFifo
  <1>1. Init => Fifo!FInit
    <2> SUFFICES ASSUME Init PROVE Fifo!FInit
      OBVIOUS
    <2>1. \A q \in Queues : Unread[q] = <<>>
      BY InitIInv, UnreadSeq DEF Init, Count, Queues
    <2> QED BY <2>1 DEF Init, Fifo!FInit, Unread
  <1>2. IInv /\ IInv' /\ [Next]_vars => [Fifo!FNext]_(Fifo!fvars)
    <2> SUFFICES ASSUME IInv, IInv', [Next]_vars PROVE [Fifo!FNext]_(Fifo!fvars)
      OBVIOUS
    <2>1. CASE UNCHANGED vars
      BY <2>1 DEF vars, Fifo!fvars, Unread, Count
    <2>2. CASE \E q \in Queues, e \in Events : Write(q, e)
      BY <2>2, WriteIsPut DEF Fifo!FNext
    <2>3. CASE \E q \in Queues : Read(q)
      BY <2>3, ReadIsTake DEF Fifo!FNext
    <2> QED BY <2>1, <2>2, <2>3, OneQueue DEF IInv
  <1>3. Spec => []IInv
    BY RingSafety, PTL DEF IInv
  <1> QED BY <1>1, <1>2, <1>3, PTL DEF Spec, RefinesFifo, Fifo!FSpec
-----------------------------------------------------------------------------
(* In the pipeline the rings take only steps of their own module. *)
LEMMA PipelineRings == [PipelineNext]_pvars => [Next]_vars
<1> SUFFICES ASSUME [PipelineNext]_pvars
             PROVE  [Next]_vars
  OBVIOUS
<1>1. CASE Report
  BY <1>1 DEF Report, Next
<1>2. CASE get_event
  BY <1>2 DEF get_event, rings, vars, Next
<1>3. CASE drain_dns
  BY <1>3 DEF drain_dns, rings, vars, Next
<1>4. CASE UNCHANGED vars
  BY <1>4
<1>5. CASE CheckRunning \/ AddToBuffer \/ Recorded \/ ProcessorFlush \/ start_log_flusher \/ stop \/ Exit \/ LateWrite
  BY <1>5 DEF CheckRunning, AddToBuffer, Recorded, ProcessorFlush, start_log_flusher, stop, Exit, LateWrite, rings, vars
<1>6. CASE UNCHANGED pvars
  BY <1>6 DEF pvars, rings, vars
<1> QED
  BY <1>1, <1>2, <1>3, <1>4, <1>5, <1>6 DEF PipelineNext, Processor

LEMMA PipelineIsRings == PipelineSpec => Spec
  BY PipelineRings, PTL DEF PipelineSpec, PipelineInit, Spec

(* The rings stay the FIFO while the service polls them and stops. *)
THEOREM PipelineImplementsFifo == PipelineSpec => RefinesFifo
  BY PipelineIsRings, RingImplementsFifo, PTL
-----------------------------------------------------------------------------
(* How often an entry occurs in a sequence. *)
LEMMA InType ==
  ASSUME NEW S, NEW s \in Seq(S), NEW i
  PROVE  /\ In(i, s) \in Nat /\ IsFiniteSet({k \in DOMAIN s : s[k] = i})
         /\ In(i, s) = 0 <=> \A k \in DOMAIN s : s[k] # i
<1> DEFINE T == {k \in DOMAIN s : s[k] = i}
<1>1. DOMAIN s = 1 .. Len(s) /\ Len(s) \in Nat
  OBVIOUS
<1>2. IsFiniteSet(1 .. Len(s))
  BY <1>1, FS_Interval
<1>3. IsFiniteSet(T)
  BY <1>1, <1>2, FS_Subset
<1>4. Cardinality(T) \in Nat /\ (Cardinality(T) = 0 <=> T = {})
  BY <1>3, FS_CardinalityType, FS_EmptySet
<1> QED
  BY <1>3, <1>4 DEF In

LEMMA InEmpty == \A i : In(i, <<>>) = 0
<1> SUFFICES ASSUME NEW i
             PROVE  In(i, <<>>) = 0
  OBVIOUS
<1>1. {k \in DOMAIN <<>> : <<>>[k] = i} = {}
  OBVIOUS
<1> QED
  BY <1>1, FS_EmptySet DEF In

LEMMA InAppend ==
  ASSUME NEW S, NEW s \in Seq(S), NEW e \in S, NEW i
  PROVE  /\ i # e => In(i, Append(s, e)) = In(i, s)
         /\ In(e, Append(s, e)) = In(e, s) + 1
<1> DEFINE T(x) == {k \in DOMAIN s : s[k] = x}
           A(x) == {k \in DOMAIN Append(s, e) : Append(s, e)[k] = x}
           n == Len(s) + 1
<1>1. /\ DOMAIN s = 1 .. Len(s) /\ Len(s) \in Nat /\ DOMAIN Append(s, e) = 1 .. n
      /\ Append(s, e)[n] = e /\ \A k \in 1 .. Len(s) : Append(s, e)[k] = s[k]
  OBVIOUS
<1>2. 1 .. n = 1 .. Len(s) \cup {n} /\ n \notin 1 .. Len(s)
  BY <1>1
<1>3. ASSUME i # e
      PROVE  In(i, Append(s, e)) = In(i, s)
  <2>1. A(i) = T(i)
    BY <1>1, <1>2, <1>3
  <2> QED
    BY ONLY <2>1 DEF In
<1>4. A(e) = T(e) \cup {n} /\ n \notin T(e)
  BY <1>1, <1>2
<1>5. Cardinality(A(e)) = Cardinality(T(e)) + 1
  <2>1. IsFiniteSet(T(e))
    BY InType
  <2> HIDE DEF T, A, n
  <2> QED
    BY <1>4, <2>1, FS_AddElement
<1>6. In(e, Append(s, e)) = In(e, s) + 1
  BY <1>5 DEF In
<1> QED
  BY <1>3, <1>6

(* What is kept of event i apart from the one the processor has in its hands. *)
Total(i) ==
  logs[i] + lost[i] + dropped[i] + In(i, buffer)
    + In(i, batch["processor"]) + In(i, batch["flusher"]) + In(i, batch["stopper"])

RowsType ==
  /\ buffer \in Seq(Ids) /\ batch \in [Tasks -> Seq(Ids)]
  /\ logs \in [Ids -> Nat] /\ lost \in [Ids -> Nat] /\ dropped \in [Ids -> Nat]

LEMMA TotalTerms ==
  ASSUME RowsType, NEW i \in Ids
  PROVE  /\ logs[i] \in Nat /\ lost[i] \in Nat /\ dropped[i] \in Nat /\ In(i, buffer) \in Nat
         /\ In(i, batch["processor"]) \in Nat
         /\ In(i, batch["flusher"]) \in Nat /\ In(i, batch["stopper"]) \in Nat
<1>1. \A s \in Seq(Ids) : In(i, s) \in Nat
  BY InType
<1> QED
  BY <1>1 DEF RowsType, Tasks

LEMMA PlusType ==
  ASSUME NEW rows \in [Ids -> Nat], NEW s \in Seq(Ids)
  PROVE  /\ Plus(rows, s) \in [Ids -> Nat]
         /\ \A i \in Ids : Plus(rows, s)[i] = rows[i] + In(i, s)
<1>1. \A i \in Ids : In(i, s) \in Nat
  BY InType
<1> QED
  BY <1>1 DEF Plus

LEMMA NoIds == <<>> \in Seq(Ids)
  OBVIOUS

(* The two halves of a flush move entries, and neither adds nor drops one. *)
LEMMA DrainMoves ==
  ASSUME RowsType, NEW t \in Tasks, batch[t] = <<>>, Drain(t)
  PROVE  /\ RowsType' /\ \A i \in Ids : Total(i)' = Total(i)
         /\ \A u \in Tasks : batch'[u] = IF u = t THEN buffer ELSE batch[u]
<1>1. RowsType'
  BY NoIds DEF RowsType, Drain
<1>2. \A u \in Tasks : batch'[u] = IF u = t THEN buffer ELSE batch[u]
  BY DEF RowsType, Drain
<1>3. ASSUME NEW i \in Ids
      PROVE  Total(i)' = Total(i)
  <2>1. /\ In(i, buffer') = 0 /\ In(i, batch[t]) = 0 /\ In(i, batch'[t]) = In(i, buffer)
        /\ \A u \in Tasks : u # t => In(i, batch'[u]) = In(i, batch[u])
    BY <1>2, InEmpty DEF Drain
  <2>2. logs'[i] = logs[i] /\ lost'[i] = lost[i] /\ dropped'[i] = dropped[i]
    BY DEF Drain
  <2>3. t = "processor" \/ t = "flusher" \/ t = "stopper"
    BY DEF Tasks
  <2> QED
    BY SMTT(30), <2>1, <2>2, <2>3, TotalTerms DEF Total, Tasks
<1> QED
  BY <1>1, <1>2, <1>3

LEMMA WriteMoves ==
  ASSUME RowsType, NEW t \in Tasks, add_logs_batch(t)
  PROVE  /\ RowsType' /\ \A i \in Ids : Total(i)' = Total(i)
         /\ \A u \in Tasks : batch'[u] = IF u = t THEN <<>> ELSE batch[u]
         /\ buffer' = buffer /\ dropped' = dropped
<1>1. batch[t] \in Seq(Ids) /\ logs \in [Ids -> Nat] /\ lost \in [Ids -> Nat]
  BY DEF RowsType
<1>2. /\ batch' = [batch EXCEPT ![t] = <<>>] /\ buffer' = buffer /\ dropped' = dropped
      /\ \/ logs' = Plus(logs, batch[t]) /\ lost' = lost
         \/ lost' = Plus(lost, batch[t]) /\ logs' = logs
  BY DEF add_logs_batch
<1>3. RowsType'
  BY ZenonT(60), <1>1, <1>2, PlusType, NoIds DEF RowsType
<1>4. \A u \in Tasks : batch'[u] = IF u = t THEN <<>> ELSE batch[u]
  BY <1>2 DEF RowsType
<1>5. ASSUME NEW i \in Ids
      PROVE  Total(i)' = Total(i)
  <2>1. /\ In(i, batch'[t]) = 0 /\ In(i, buffer') = In(i, buffer) /\ dropped'[i] = dropped[i]
        /\ \A u \in Tasks : u # t => In(i, batch'[u]) = In(i, batch[u])
    BY <1>2, <1>4, InEmpty
  <2>2. \/ logs'[i] = logs[i] + In(i, batch[t]) /\ lost'[i] = lost[i]
        \/ lost'[i] = lost[i] + In(i, batch[t]) /\ logs'[i] = logs[i]
    BY SMTT(30), <1>1, <1>2, PlusType
  <2>3. /\ logs[i] \in Nat /\ lost[i] \in Nat /\ dropped[i] \in Nat /\ In(i, buffer) \in Nat
        /\ In(i, batch["processor"]) \in Nat
        /\ In(i, batch["flusher"]) \in Nat /\ In(i, batch["stopper"]) \in Nat
    BY TotalTerms
  <2>4. CASE t = "processor"
    BY <2>1, <2>2, <2>3, <2>4 DEF Total, Tasks
  <2>5. CASE t = "flusher"
    BY <2>1, <2>2, <2>3, <2>5 DEF Total, Tasks
  <2>6. CASE t = "stopper"
    BY <2>1, <2>2, <2>3, <2>6 DEF Total, Tasks
  <2> QED
    BY <2>4, <2>5, <2>6 DEF Tasks
<1> QED
  BY <1>2, <1>3, <1>4, <1>5

(* A buffer with room takes the entry and keeps what it has. *)
LEMMA AddKeepsAll ==
  ASSUME RowsType, NEW id \in Ids, buffer' = Append(buffer, id), UNCHANGED <<batch, logs, lost, dropped>>
  PROVE  /\ RowsType' /\ Len(buffer') = Len(buffer) + 1
         /\ Total(id)' = Total(id) + 1
         /\ \A i \in Ids : i # id => Total(i)' = Total(i)
<1>1. RowsType' /\ Len(buffer') = Len(buffer) + 1
  BY DEF RowsType
<1>2. /\ In(id, buffer') = In(id, buffer) + 1
      /\ \A i \in Ids : i # id => In(i, buffer') = In(i, buffer)
  BY InAppend DEF RowsType
<1>3. Total(id)' = Total(id) + 1
  <2>1. /\ logs[id] \in Nat /\ lost[id] \in Nat /\ dropped[id] \in Nat
        /\ In(id, buffer) \in Nat /\ In(id, batch["processor"]) \in Nat
        /\ In(id, batch["flusher"]) \in Nat /\ In(id, batch["stopper"]) \in Nat
    BY TotalTerms
  <2>2. /\ logs'[id] = logs[id] /\ lost'[id] = lost[id] /\ dropped'[id] = dropped[id]
        /\ In(id, buffer') = In(id, buffer) + 1 /\ batch' = batch
    BY <1>2
  <2> QED
    BY ONLY <2>1, <2>2 DEF Total
<1>4. \A i \in Ids : i # id => Total(i)' = Total(i)
  BY <1>2 DEF Total
<1> QED
  BY <1>1, <1>3, <1>4
-----------------------------------------------------------------------------
(* The events the service has not read are new to it, and no two are the same. *)
Fresh ==
  LET unread == Unread["net"]
  IN  /\ IInv
      /\ reported \in Nat /\ taken \subseteq Ids
      /\ \A i \in taken : i <= reported
      /\ \A k \in DOMAIN unread : /\ unread[k].id \in Ids \ taken
                                  /\ unread[k].id <= reported
      /\ \A j, k \in DOMAIN unread : j # k => unread[j].id # unread[k].id

(* A task drains into an empty batch. *)
Batches ==
  /\ processor.pc \notin {"write", "last write", "dropped"} => batch["processor"] = <<>>
  /\ flusher \notin {"write", "dropped"} => batch["flusher"] = <<>>
  /\ stopper # "write" => batch["stopper"] = <<>>

(* The processor flushes before the buffer is full. *)
Room ==
  /\ Len(buffer) <= FLUSH_AT
  /\ processor.pc # "drain" => Len(buffer) < FLUSH_AT

InHand(i) == processor.pc = "add" /\ processor.event.id = i
Counted ==
  /\ "pc" \in DOMAIN processor
  /\ processor.pc = "add" => processor.event.id \in taken
  /\ \A i \in Ids : Total(i) = IF i \in taken /\ ~InHand(i) THEN 1 ELSE 0

(* After the flush of stop the processor ends its round, and begins no other. *)
Stopping ==
  /\ stopper # "idle" => ~running
  /\ stopper \in {"write", "close", "done"} =>
       /\ Len(buffer) <= 1
       /\ processor.pc \in {"get", "add"} => buffer = <<>>
  /\ stopper # "exited" => dropped = NoRows
  /\ ShutdownLosesOne

PipelineInv == Fresh /\ RowsType /\ Batches /\ Room /\ Counted /\ Stopping

LEMMA PipelineInvInit == PipelineInit => PipelineInv
<1> SUFFICES ASSUME PipelineInit
             PROVE  PipelineInv
  OBVIOUS
<1>1. Init /\ IInv
  BY InitIInv DEF PipelineInit
<1>2. Unread["net"] = <<>>
  BY <1>1, UnreadSeq DEF Init, Count, Queues
<1>3. Fresh
  BY <1>1, <1>2 DEF Fresh, PipelineInit
<1>4. RowsType
  BY NoIds DEF RowsType, PipelineInit, NoRows
<1>5. Batches /\ Room
  BY PipelineAssumption DEF Batches, Room, PipelineInit, Tasks
<1>6. \A i \in Ids : Total(i) = 0
  BY InEmpty DEF Total, PipelineInit, NoRows, Tasks
<1>7. Counted
  BY <1>6 DEF Counted, PipelineInit
<1>8. Stopping
  BY DEF Stopping, ShutdownLosesOne, PipelineInit, NoRows
<1> QED
  BY <1>3, <1>4, <1>5, <1>7, <1>8 DEF PipelineInv

(* Whatever keeps the totals and what the processor has in hand. *)
LEMMA CountedFrame ==
  ASSUME Counted, UNCHANGED taken, \A i \in Ids : Total(i)' = Total(i),
         processor.pc # "add", "pc" \in DOMAIN processor', processor'.pc # "add"
  PROVE  Counted'
BY DEF Counted, InHand

LEMMA ReportKeeps ==
  ASSUME PipelineInv, Report
  PROVE  PipelineInv'
<1> DEFINE s == Unread["net"]
           old == IF Len(s) = EVENT_QUEUE_SIZE - 1 THEN Tail(s) ELSE s
<1>1. /\ reported' = reported + 1 /\ reported' \in Ids /\ reported \in Nat /\ Ids \subseteq Nat
      /\ UNCHANGED <<taken, file, running, processor, flusher, stopper, log>>
  BY PipelineAssumption DEF Report, PipelineInv, Fresh
<1>2. PICK e \in Events, q \in Queues : e.id = reported' /\ Write(q, e)
  BY DEF Report, QueueEvent, QueueDnsEvent, Queues
<1>3. IInv /\ IInv'
  <2>1. [Next]_vars
    BY <1>2 DEF Next, QueueEvent, QueueDnsEvent, Queues
  <2> QED
    BY <2>1, NextIInv DEF PipelineInv, Fresh
<1>4. /\ s \in Seq(Events) /\ DOMAIN s = 1 .. Len(s) /\ Len(s) \in Nat
      /\ EVENT_QUEUE_SIZE - 1 \in Nat \ {0}
  BY <1>3, UnreadSeq, SizeAssumption DEF Queues
<1>5. Unread' = [Unread EXCEPT ![q] = Append(IF Len(Unread[q]) = EVENT_QUEUE_SIZE - 1
                                               THEN Tail(Unread[q]) ELSE Unread[q], e)]
  BY <1>2, <1>3, WriteIsPut DEF Fifo!Put
<1>6. Fresh'
  <2>1. /\ taken \subseteq Ids /\ \A i \in taken : i <= reported /\ i # reported'
        /\ \A k \in 1 .. Len(s) : s[k].id \in Ids \ taken /\ s[k].id <= reported
        /\ \A j, k \in 1 .. Len(s) : j # k => s[j].id # s[k].id
    BY SMTT(30), <1>1, <1>4 DEF PipelineInv, Fresh
  <2>2. CASE q = "dns"
    <3>1. Unread'["net"] = s
      BY <1>5, <2>2 DEF Unread, Queues
    <3> HIDE DEF s
    <3>2. \A k \in 1 .. Len(s) : s[k].id <= reported + 1
      <4>1. \A n \in Nat : n <= reported => n <= reported + 1
        BY <1>1
      <4> QED
        BY <1>1, <2>1, <4>1
    <3> QED
      BY <1>1, <1>3, <1>4, <2>1, <3>1, <3>2 DEF Fresh
  <2>3. CASE q = "net"
    <3>1. Unread'["net"] = Append(old, e)
      BY <1>5, <2>3 DEF Unread, Queues
    <3> HIDE DEF s
    <3>2. /\ old \in Seq(Events) /\ Len(old) \in Nat
          /\ \E d \in {0, 1} : /\ Len(old) = Len(s) - d
                               /\ \A k \in 1 .. Len(old) : k + d \in 1 .. Len(s) /\ old[k] = s[k + d]
      <4>1. CASE Len(s) = EVENT_QUEUE_SIZE - 1
        <5>1. s # <<>> /\ Len(s) - 1 \in Nat /\ \A k \in 1 .. Len(s) - 1 : k + 1 \in 1 .. Len(s)
          <6>1. Len(s) \in Nat \ {0}
            BY <1>4, <4>1
          <6>2. s # <<>>
            BY <1>4, <6>1, EmptySeq
          <6> QED
            BY <6>1, <6>2
        <5>2. /\ Tail(s) \in Seq(Events) /\ Len(Tail(s)) = Len(s) - 1
              /\ \A k \in 1 .. Len(s) - 1 : Tail(s)[k] = s[k + 1]
          BY <1>4, <5>1, HeadTailProperties
        <5>3. old = Tail(s)
          BY <4>1 DEF old
        <5> HIDE DEF old
        <5> QED
          BY <5>1, <5>2, <5>3
      <4>2. CASE Len(s) # EVENT_QUEUE_SIZE - 1
        <5>1. old = s
          BY <4>2 DEF old
        <5>2. Len(s) = Len(s) - 0 /\ \A k \in 1 .. Len(s) : k + 0 \in 1 .. Len(s) /\ k + 0 = k
          BY <1>4
        <5> HIDE DEF old
        <5> QED
          BY <1>4, <5>1, <5>2
      <4> QED
        BY <4>1, <4>2
    <3> HIDE DEF old
    <3>3. /\ \A k \in 1 .. Len(old) : old[k].id \in Ids \ taken /\ old[k].id <= reported
          /\ \A j, k \in 1 .. Len(old) : j # k => old[j].id # old[k].id
      <4>1. PICK d \in {0, 1} : /\ Len(old) = Len(s) - d
                                /\ \A k \in 1 .. Len(old) : k + d \in 1 .. Len(s) /\ old[k] = s[k + d]
        BY <3>2
      <4>2. \A j, k \in 1 .. Len(old) : j # k => j + d # k + d
        BY <3>2
      <4> QED
        BY ZenonT(60), <2>1, <4>1, <4>2
    <3> DEFINE new == Append(old, e)
    <3>4. /\ DOMAIN new = 1 .. Len(old) + 1 /\ new[Len(old) + 1] = e
          /\ \A k \in 1 .. Len(old) : new[k] = old[k]
          /\ \A k \in 1 .. Len(old) + 1 : k \in 1 .. Len(old) \/ k = Len(old) + 1
      BY <3>2, AppendProperties
    <3> HIDE DEF new
    <3>5. \A k \in DOMAIN new : new[k].id \in Ids \ taken /\ new[k].id <= reported'
      <4>1. \A n \in Nat : n <= reported => n <= reported'
        BY <1>1
      <4>2. \A k \in 1 .. Len(old) : new[k].id \in Ids \ taken /\ new[k].id <= reported'
        BY <1>1, <3>3, <3>4, <4>1
      <4>3. e.id \in Ids \ taken /\ e.id <= reported'
        BY <1>1, <1>2, <2>1
      <4> QED
        BY <3>4, <4>2, <4>3
    <3>6. \A j, k \in DOMAIN new : j # k => new[j].id # new[k].id
      <4>1. \A k \in 1 .. Len(old) : old[k].id # reported'
        BY <1>1, <3>3
      <4> QED
        BY <1>2, <3>3, <3>4, <4>1
    <3>7. \A i \in taken : i <= reported'
      BY <1>1, <2>1
    <3> QED
      BY <1>1, <1>3, <2>1, <3>1, <3>5, <3>6, <3>7 DEF Fresh, new
  <2> QED
    BY <2>2, <2>3 DEF Queues
<1>7. RowsType' /\ Batches' /\ Room' /\ Stopping'
  BY <1>1 DEF PipelineInv, RowsType, Batches, Room, Stopping, ShutdownLosesOne, log
<1>8. Counted'
  BY <1>1 DEF PipelineInv, Counted, Total, InHand, log
<1> QED
  BY <1>6, <1>7, <1>8 DEF PipelineInv

(* A step beside the net ring. *)
LEMMA FreshFrame ==
  ASSUME Fresh, IInv', Unread'["net"] = Unread["net"], UNCHANGED <<reported, taken>>
  PROVE  Fresh'
BY DEF Fresh

LEMMA RingsFrame ==
  ASSUME Fresh, UNCHANGED <<rings, reported, taken>>
  PROVE  Fresh'
<1>1. IInv' /\ Unread' = Unread
  BY ZenonT(60) DEF Fresh, rings, IInv, TypeOK, UnreadAreEvents, Unread, Count, SlotOf
<1> QED
  BY <1>1, FreshFrame

LEMMA GetEventKeeps ==
  ASSUME PipelineInv, get_event
  PROVE  PipelineInv'
<1> DEFINE s == Unread["net"]
<1>1. processor.pc = "get" /\ UNCHANGED <<reported, file, running, flusher, stopper, log>>
  BY DEF get_event
<1>2. CASE file = "closed"
  <2>1. processor' = [pc |-> "exit"] /\ UNCHANGED <<rings, taken>>
    BY <1>2 DEF get_event, Goto
  <2>2. Fresh'
    BY <1>1, <2>1, RingsFrame DEF PipelineInv
  <2>3. RowsType' /\ Batches' /\ Room' /\ Stopping'
    BY <1>1, <2>1 DEF PipelineInv, RowsType, Batches, Room, Stopping, ShutdownLosesOne, log
  <2>4. Counted'
    BY <1>1, <2>1 DEF PipelineInv, Counted, Total, InHand, log
  <2> QED
    BY <2>2, <2>3, <2>4 DEF PipelineInv
<1>3. CASE file = "open"
  <2>1. /\ Read("net")
        /\ LET e == returned'["net"]
           IN  \/ e = Zero /\ processor' = [pc |-> "dns", drained |-> 0] /\ UNCHANGED taken
               \/ e # Zero /\ processor' = [pc |-> "add", event |-> e] /\ taken' = taken \cup {e.id}
    BY <1>3 DEF get_event, GetEvent
  <2>2. IInv /\ IInv'
    <3>1. [Next]_vars
      BY <2>1 DEF Next, GetEvent
    <3> QED
      BY <3>1, NextIInv DEF PipelineInv, Fresh
  <2>3. s \in Seq(Events) /\ DOMAIN s = 1 .. Len(s) /\ Len(s) \in Nat
    BY <2>2, UnreadSeq DEF Queues
  <2>4. DOMAIN returned = Queues /\ DOMAIN Unread = Queues
    BY <2>2 DEF IInv, TypeOK, Unread
  <2>5. Fifo!Take("net") \/ Fifo!TakeNothing("net")
    BY <2>1, <2>2, ReadIsTake DEF Queues
  <2>6. RowsType' /\ Batches' /\ Room' /\ Stopping'
    BY <1>1, <2>1 DEF PipelineInv, RowsType, Batches, Room, Stopping, ShutdownLosesOne, log
  <2>7. \A i \in Ids : Total(i)' = Total(i)
    BY <1>1 DEF Total, log
  <2>8. CASE Fifo!TakeNothing("net")
    <3>1. returned'["net"] = Zero /\ Unread'["net"] = s
      BY <2>4, <2>8 DEF Fifo!TakeNothing, Queues
    <3>2. Fresh'
      BY <1>1, <2>1, <2>2, <3>1, FreshFrame DEF PipelineInv
    <3>3. Counted'
      BY <1>1, <2>1, <2>7, <3>1, CountedFrame DEF PipelineInv
    <3> QED
      BY <2>6, <3>2, <3>3 DEF PipelineInv
  <2>9. CASE Fifo!Take("net")
    <3> DEFINE e == Head(s)
    <3>1. s # <<>> /\ returned'["net"] = e /\ Unread'["net"] = Tail(s)
      BY <2>4, <2>9 DEF Fifo!Take, Queues
    <3>2. /\ e = s[1] /\ e \in Events /\ 1 \in 1 .. Len(s)
          /\ DOMAIN Tail(s) = 1 .. Len(s) - 1
          /\ \A k \in 1 .. Len(s) - 1 : Tail(s)[k] = s[k + 1] /\ k + 1 \in 1 .. Len(s) /\ k + 1 # 1
      BY <2>3, <3>1, HeadTailProperties
    <3>3. /\ e.id \in Ids \ taken /\ e.id <= reported /\ taken \subseteq Ids
          /\ \A i \in taken : i <= reported
          /\ \A k \in 1 .. Len(s) : s[k].id \in Ids \ taken /\ s[k].id <= reported
          /\ \A j, k \in 1 .. Len(s) : j # k => s[j].id # s[k].id
      BY <2>3, <3>2 DEF PipelineInv, Fresh
    <3>4. e # Zero
      BY <3>2, ZeroAssumption
    <3>5. processor' = [pc |-> "add", event |-> e] /\ taken' = taken \cup {e.id}
      BY <2>1, <3>1, <3>4
    <3> HIDE DEF s, e
    <3>6. Fresh'
      <4>1. \A k \in DOMAIN Tail(s) : Tail(s)[k].id \in Ids \ taken' /\ Tail(s)[k].id <= reported
        BY <3>2, <3>3, <3>5
      <4>2. \A j, k \in DOMAIN Tail(s) : j # k => Tail(s)[j].id # Tail(s)[k].id
        <5>1. \A j, k \in 1 .. Len(s) - 1 : j # k => j + 1 # k + 1
          BY <2>3
        <5> QED
          BY <3>2, <3>3, <5>1
      <4>3. reported \in Nat /\ taken' \subseteq Ids /\ \A i \in taken' : i <= reported
        BY <3>3, <3>5 DEF PipelineInv, Fresh
      <4> QED
        BY <1>1, <2>2, <3>1, <4>1, <4>2, <4>3 DEF Fresh, s
    <3>7. Counted'
      BY <1>1, <2>7, <3>3, <3>5 DEF PipelineInv, Counted, InHand
    <3> QED
      BY <2>6, <3>6, <3>7 DEF PipelineInv
  <2> QED
    BY <2>5, <2>8, <2>9
<1> QED
  BY <1>2, <1>3 DEF get_event

LEMMA AddToBufferKeeps ==
  ASSUME PipelineInv, AddToBuffer
  PROVE  PipelineInv'
<1>1. /\ processor.pc = "add" /\ Add(processor.event) /\ "pc" \in DOMAIN processor
      /\ processor' = [processor EXCEPT !.pc = IF Len(buffer') >= FLUSH_AT THEN "drain" ELSE "history"]
      /\ UNCHANGED <<rings, reported, taken, running, flusher, stopper, batch, logs, lost, dropped>>
  BY DEF AddToBuffer, PipelineInv, Counted
<1>2. PICK id \in Ids : id = processor.event.id /\ id \in taken
  BY <1>1 DEF PipelineInv, Counted, Fresh
<1>3. Len(buffer) \in Nat /\ Len(buffer) < FLUSH_AT
  BY <1>1 DEF PipelineInv, Room, RowsType
<1>4. buffer' = Append(buffer, id)
  BY <1>1, <1>2, <1>3, PipelineAssumption DEF Add
<1>5. /\ RowsType' /\ Len(buffer') = Len(buffer) + 1 /\ Total(id)' = Total(id) + 1
      /\ \A i \in Ids : i # id => Total(i)' = Total(i)
  BY <1>1, <1>4, AddKeepsAll DEF PipelineInv
<1>6. processor'.pc = (IF Len(buffer') >= FLUSH_AT THEN "drain" ELSE "history") /\ "pc" \in DOMAIN processor'
  BY <1>1
<1>7. Fresh'
  BY <1>1, RingsFrame DEF PipelineInv
<1>8. Batches'
  BY <1>1, <1>6 DEF PipelineInv, Batches
<1>9. Room'
  <2>1. FLUSH_AT \in Nat
    BY PipelineAssumption
  <2> QED
    BY <1>3, <1>5, <1>6, <2>1 DEF Room
<1>10. Counted'
  <2>1. Total(id) = 0 /\ \A i \in Ids : i # id => Total(i) = IF i \in taken THEN 1 ELSE 0
    BY <1>1, <1>2 DEF PipelineInv, Counted, InHand
  <2>2. \A i \in Ids : Total(i)' = IF i \in taken THEN 1 ELSE 0
    <3>1. Total(id)' = 1
      BY <1>5, <2>1
    <3>2. \A i \in Ids : i # id => Total(i)' = IF i \in taken THEN 1 ELSE 0
      BY <1>5, <2>1
    <3> QED
      BY <1>2, <3>1, <3>2
  <2>3. processor'.pc # "add"
    BY <1>6
  <2> QED
    BY <1>1, <1>6, <2>2, <2>3 DEF Counted, InHand
<1>11. Stopping'
  <2>1. stopper \in {"write", "close", "done"} => Len(buffer') <= 1
    <3>1. stopper \in {"write", "close", "done"} => Len(buffer) = 0
      BY <1>1 DEF PipelineInv, Stopping
    <3> QED
      BY <1>5, <3>1
  <2> QED
    BY <1>1, <1>6, <2>1 DEF PipelineInv, Stopping, ShutdownLosesOne
<1> QED
  BY <1>5, <1>7, <1>8, <1>9, <1>10, <1>11 DEF PipelineInv

(* The processor looks at the flag, ends its round, or reads DNS events. *)
LEMMA LoopKeeps ==
  ASSUME PipelineInv, CheckRunning \/ Recorded \/ drain_dns
  PROVE  PipelineInv'
<1>1. /\ UNCHANGED <<reported, taken, running, flusher, stopper, log>>
      /\ processor.pc \in {"check", "history", "dns"} /\ "pc" \in DOMAIN processor
  BY DEF CheckRunning, Recorded, drain_dns, PipelineInv, Counted
<1>2. /\ "pc" \in DOMAIN processor' /\ processor'.pc \in {"get", "exit", "dns", "check"}
      /\ processor'.pc = "get" => running
  <2>1. CASE CheckRunning
    BY <2>1 DEF CheckRunning, Goto
  <2>2. CASE Recorded
    BY <2>2 DEF Recorded
  <2>3. CASE drain_dns
    <3>1. \/ processor' = [pc |-> "check"]
          \/ processor' = [processor EXCEPT !.drained = @ + 1] /\ processor.pc = "dns"
      BY <2>3 DEF drain_dns, Goto
    <3>2. CASE processor' = [processor EXCEPT !.drained = @ + 1] /\ processor.pc = "dns"
      <4>1. DOMAIN processor' = DOMAIN processor /\ processor'.pc = processor.pc
        BY <1>1, <3>2
      <4> QED
        BY <1>1, <3>2, <4>1
    <3> QED
      BY <3>1, <3>2
  <2> QED
    BY <2>1, <2>2, <2>3
<1>3. Fresh'
  <2>1. CASE UNCHANGED rings
    BY <1>1, <2>1, RingsFrame DEF PipelineInv
  <2>2. CASE Read("dns")
    <3>1. IInv /\ IInv'
      <4>1. [Next]_vars
        BY <2>2 DEF Next, GetDnsEvent
      <4> QED
        BY <4>1, NextIInv DEF PipelineInv, Fresh
    <3>2. Unread'["net"] = Unread["net"]
      BY <2>2, <3>1, OtherQueue DEF IInv, Queues, Unread
    <3> QED
      BY <1>1, <3>1, <3>2, FreshFrame DEF PipelineInv
  <2> QED
    BY <2>1, <2>2 DEF CheckRunning, Recorded, drain_dns, GetDnsEvent
<1>4. RowsType' /\ Batches' /\ Room'
  BY <1>1, <1>2 DEF PipelineInv, RowsType, Batches, Room, log
<1>5. Counted'
  <2>1. \A i \in Ids : Total(i)' = Total(i)
    BY <1>1 DEF Total, log
  <2> QED
    BY <1>1, <1>2, <2>1, CountedFrame DEF PipelineInv
<1>6. Stopping'
  BY <1>1, <1>2 DEF PipelineInv, Stopping, ShutdownLosesOne, log
<1> QED
  BY <1>3, <1>4, <1>5, <1>6 DEF PipelineInv

(* A task's flush: the entries move, and the buffer only gets shorter. *)
LEMMA FlushKeeps ==
  ASSUME PipelineInv, NEW t \in Tasks,
         (Drain(t) /\ batch[t] = <<>>) \/ add_logs_batch(t),
         UNCHANGED <<rings, reported, taken>>,
         "pc" \in DOMAIN processor',
         processor' = processor \/ (processor.pc # "add" /\ processor'.pc \notin {"add", "get"}),
         processor'.pc # "drain" => processor.pc # "drain" \/ Drain(t)
  PROVE  /\ Fresh' /\ RowsType' /\ Room' /\ Counted'
         /\ \A u \in Tasks : u # t => batch'[u] = batch[u]
         /\ add_logs_batch(t) => batch'[t] = <<>>
         /\ dropped' = dropped /\ (buffer' = buffer \/ buffer' = <<>>) /\ (Drain(t) => buffer' = <<>>)
<1>1. /\ RowsType' /\ \A i \in Ids : Total(i)' = Total(i)
      /\ \A u \in Tasks : u # t => batch'[u] = batch[u]
      /\ add_logs_batch(t) => batch'[t] = <<>>
      /\ dropped' = dropped /\ (buffer' = buffer \/ buffer' = <<>>) /\ (Drain(t) => buffer' = <<>>)
  <2>1. CASE Drain(t) /\ batch[t] = <<>>
    <3>1. ~add_logs_batch(t) \/ batch'[t] = <<>>
      BY DEF PipelineInv, RowsType, add_logs_batch
    <3>2. dropped' = dropped /\ buffer' = <<>>
      BY <2>1 DEF Drain
    <3> QED
      BY <2>1, <3>1, <3>2, DrainMoves DEF PipelineInv
  <2>2. CASE add_logs_batch(t)
    <3>1. Drain(t) => buffer' = <<>>
      BY DEF Drain
    <3> QED
      BY <2>2, <3>1, WriteMoves DEF PipelineInv
  <2> QED
    BY <2>1, <2>2
<1>2. Fresh'
  BY RingsFrame DEF PipelineInv
<1>3. Room'
  BY <1>1, PipelineAssumption DEF PipelineInv, Room
<1>4. Counted'
  BY <1>1 DEF PipelineInv, Counted, InHand
<1> QED
  BY <1>1, <1>2, <1>3, <1>4

LEMMA ProcessorFlushKeeps ==
  ASSUME PipelineInv, ProcessorFlush
  PROVE  PipelineInv'
<1>1. /\ UNCHANGED <<rings, reported, taken, running, flusher, stopper>>
      /\ "pc" \in DOMAIN processor /\ "processor" \in Tasks
  BY DEF ProcessorFlush, PipelineInv, Counted, Tasks
<1>2. \/ /\ processor.pc \in {"drain", "exit"} /\ Drain("processor") /\ batch["processor"] = <<>>
         /\ "pc" \in DOMAIN processor' /\ processor'.pc \in {"write", "last write"}
      \/ /\ processor.pc \in {"write", "last write"} /\ add_logs_batch("processor")
         /\ "pc" \in DOMAIN processor' /\ processor'.pc \in {"history", "done"}
  <2>1. CASE processor.pc \in {"drain", "exit"}
    <3>1. processor' = [processor EXCEPT !.pc = IF @ = "drain" THEN "write" ELSE "last write"] /\ Drain("processor")
      BY <2>1 DEF ProcessorFlush
    <3>2. batch["processor"] = <<>>
      BY <2>1 DEF PipelineInv, Batches
    <3> QED
      BY <1>1, <2>1, <3>1, <3>2
  <2>2. CASE processor.pc \in {"write", "last write"}
    <3>1. /\ processor' = [processor EXCEPT !.pc = IF @ = "write" THEN "history" ELSE "done"]
          /\ add_logs_batch("processor")
      BY <2>2 DEF ProcessorFlush
    <3> QED
      BY <1>1, <2>2, <3>1
  <2> QED
    BY <2>1, <2>2 DEF ProcessorFlush
<1>3. /\ Fresh' /\ RowsType' /\ Room' /\ Counted'
      /\ \A u \in Tasks : u # "processor" => batch'[u] = batch[u]
      /\ add_logs_batch("processor") => batch'["processor"] = <<>>
      /\ dropped' = dropped /\ (buffer' = buffer \/ buffer' = <<>>)
  BY <1>1, <1>2, FlushKeeps
<1>4. Batches'
  BY <1>1, <1>2, <1>3 DEF PipelineInv, Batches, Tasks
<1>5. Stopping'
  <2>1. processor'.pc \notin {"get", "add"} /\ (Len(buffer) <= 1 => Len(buffer') <= 1)
    <3>1. buffer' = <<>> => Len(buffer') = 0
      OBVIOUS
    <3>2. Len(buffer) <= 1 => Len(buffer') <= 1
      BY <1>3, <3>1
    <3> QED
      BY <1>2, <3>2
  <2> QED
    BY <1>1, <1>3, <2>1 DEF PipelineInv, Stopping, ShutdownLosesOne
<1> QED
  BY <1>3, <1>4, <1>5 DEF PipelineInv

LEMMA FlusherKeeps ==
  ASSUME PipelineInv, start_log_flusher
  PROVE  PipelineInv'
<1>1. /\ UNCHANGED <<rings, reported, taken, running, processor, stopper>>
      /\ "pc" \in DOMAIN processor /\ "flusher" \in Tasks
  BY DEF start_log_flusher, PipelineInv, Counted, Tasks
<1>2. CASE UNCHANGED log /\ flusher \in {"check", "asleep"} /\ flusher' \notin {"write", "dropped"}
  <2>1. Fresh'
    BY <1>1, RingsFrame DEF PipelineInv
  <2>2. RowsType' /\ Batches' /\ Room' /\ Stopping'
    BY <1>1, <1>2 DEF PipelineInv, RowsType, Batches, Room, Stopping, ShutdownLosesOne, log
  <2>3. Counted'
    BY <1>1, <1>2 DEF PipelineInv, Counted, InHand, Total, log
  <2> QED
    BY <2>1, <2>2, <2>3 DEF PipelineInv
<1>3. CASE \/ flusher = "drain" /\ flusher' = "write" /\ Drain("flusher")
           \/ flusher = "write" /\ flusher' = "check" /\ add_logs_batch("flusher")
  <2>1. Drain("flusher") /\ flusher = "drain" => batch["flusher"] = <<>>
    BY DEF PipelineInv, Batches
  <2>2. /\ Fresh' /\ RowsType' /\ Room' /\ Counted'
        /\ \A u \in Tasks : u # "flusher" => batch'[u] = batch[u]
        /\ add_logs_batch("flusher") => batch'["flusher"] = <<>>
        /\ dropped' = dropped /\ (buffer' = buffer \/ buffer' = <<>>)
    BY <1>1, <1>3, <2>1, FlushKeeps
  <2>3. Batches'
    BY <1>1, <1>3, <2>2 DEF PipelineInv, Batches, Tasks
  <2>4. Stopping'
    <3>1. buffer' = <<>> => Len(buffer') = 0
      OBVIOUS
    <3>2. Len(buffer) <= 1 => Len(buffer') <= 1
      BY <2>2, <3>1
    <3> QED
      BY <1>1, <2>2, <3>2 DEF PipelineInv, Stopping, ShutdownLosesOne
  <2> QED
    BY <2>2, <2>3, <2>4 DEF PipelineInv
<1> QED
  BY <1>2, <1>3 DEF start_log_flusher

LEMMA StopKeeps ==
  ASSUME PipelineInv, stop
  PROVE  PipelineInv'
<1>1. /\ UNCHANGED <<rings, reported, taken, processor, flusher>>
      /\ "pc" \in DOMAIN processor /\ "stopper" \in Tasks
  BY DEF stop, PipelineInv, Counted, Tasks
<1>2. CASE \/ stopper = "idle" /\ stopper' = "drain" /\ running' = FALSE /\ UNCHANGED log
           \/ stopper = "close" /\ stopper' = "done" /\ UNCHANGED <<running, log>>
  <2>1. Fresh'
    BY <1>1, RingsFrame DEF PipelineInv
  <2>2. RowsType' /\ Batches' /\ Room'
    BY <1>1, <1>2 DEF PipelineInv, RowsType, Batches, Room, log
  <2>3. Stopping'
    <3>1. buffer' = buffer /\ dropped' = dropped
      BY <1>2 DEF log
    <3> QED
      BY <1>1, <1>2, <3>1 DEF PipelineInv, Stopping, ShutdownLosesOne
  <2>4. Counted'
    BY <1>1, <1>2 DEF PipelineInv, Counted, InHand, Total, log
  <2> QED
    BY <2>1, <2>2, <2>3, <2>4 DEF PipelineInv
<1>3. CASE /\ running' = running
           /\ \/ stopper = "drain" /\ stopper' = "write" /\ Drain("stopper")
              \/ stopper = "write" /\ stopper' = "close" /\ add_logs_batch("stopper")
  <2>1. Drain("stopper") /\ stopper = "drain" => batch["stopper"] = <<>>
    BY DEF PipelineInv, Batches
  <2>2. /\ Fresh' /\ RowsType' /\ Room' /\ Counted'
        /\ \A u \in Tasks : u # "stopper" => batch'[u] = batch[u]
        /\ add_logs_batch("stopper") => batch'["stopper"] = <<>>
        /\ dropped' = dropped /\ (buffer' = buffer \/ buffer' = <<>>) /\ (Drain("stopper") => buffer' = <<>>)
    BY <1>1, <1>3, <2>1, FlushKeeps
  <2>3. Batches'
    BY <1>1, <1>3, <2>2 DEF PipelineInv, Batches, Tasks
  <2>4. Stopping'
    <3>1. buffer' = <<>> => Len(buffer') = 0
      OBVIOUS
    <3>2. /\ Len(buffer) <= 1 => Len(buffer') <= 1
          /\ stopper' = "write" => Len(buffer') <= 1 /\ buffer' = <<>>
      BY <1>3, <2>2, <3>1
    <3> QED
      BY <1>1, <1>3, <2>2, <3>2 DEF PipelineInv, Stopping, ShutdownLosesOne
  <2> QED
    BY <2>2, <2>3, <2>4 DEF PipelineInv
<1> QED
  BY <1>2, <1>3 DEF stop

(* A write that outlives its task. *)
LEMMA LateWriteKeeps ==
  ASSUME PipelineInv, LateWrite
  PROVE  PipelineInv'
<1>1. /\ UNCHANGED <<rings, reported, taken, running, processor, flusher, stopper>>
      /\ "pc" \in DOMAIN processor
  BY DEF LateWrite, PipelineInv, Counted
<1>2. PICK t \in Tasks : add_logs_batch(t)
  BY DEF LateWrite
<1>3. /\ Fresh' /\ RowsType' /\ Room' /\ Counted' /\ dropped' = dropped
      /\ \A u \in Tasks : u # t => batch'[u] = batch[u]
      /\ batch'[t] = <<>> /\ buffer' = buffer
  <2>1. buffer' = buffer
    BY <1>2 DEF add_logs_batch
  <2> QED
    BY <1>1, <1>2, <2>1, FlushKeeps
<1>4. Batches'
  BY <1>1, <1>3 DEF PipelineInv, Batches, Tasks
<1>5. Stopping'
  BY <1>1, <1>3 DEF PipelineInv, Stopping, ShutdownLosesOne
<1> QED
  BY <1>3, <1>4, <1>5 DEF PipelineInv

(* What the end of the process takes along is one entry at most: what the
   buffer holds, or what the processor has in hand. *)
LEMMA ExitKeeps ==
  ASSUME PipelineInv, Exit
  PROVE  PipelineInv'
<1>1. /\ stopper = "done" /\ stopper' = "exited" /\ buffer' = <<>>
      /\ processor' = [pc |-> "dropped"] /\ flusher' = "dropped"
      /\ UNCHANGED <<rings, reported, taken, running, batch, logs, lost>>
  BY DEF Exit, Goto
<1>2. PICK s \in Seq(Ids) :
        /\ dropped' = Plus(dropped, s) /\ Len(s) <= 1
        /\ \A i \in Ids : In(i, s) = IF InHand(i) THEN In(i, buffer) + 1 ELSE In(i, buffer)
  <2>1. buffer \in Seq(Ids) /\ Len(buffer) <= 1 /\ (processor.pc = "add" => buffer = <<>>)
    BY <1>1 DEF PipelineInv, Stopping, RowsType
  <2>2. CASE processor.pc = "add"
    <3>1. PICK id \in Ids : id = processor.event.id
      BY <2>2 DEF PipelineInv, Counted, Fresh
    <3>2. dropped' = Plus(dropped, <<>> \o <<id>>)
      BY <2>1, <2>2, <3>1 DEF Exit
    <3> DEFINE v == Append(<<>>, id)
    <3>3. <<>> \o <<id>> = v /\ v \in Seq(Ids) /\ Len(v) <= 1
      OBVIOUS
    <3>4. In(id, v) = In(id, <<>>) + 1 /\ \A i \in Ids : i # id => In(i, v) = In(i, <<>>)
      BY NoIds, InAppend
    <3> HIDE DEF v
    <3>5. dropped' = Plus(dropped, v)
      BY <3>2, <3>3
    <3>6. \A i \in Ids : In(i, v) = IF InHand(i) THEN In(i, buffer) + 1 ELSE In(i, buffer)
      BY <2>1, <2>2, <3>1, <3>4 DEF InHand
    <3> QED
      BY <3>3, <3>5, <3>6
  <2>3. CASE processor.pc # "add"
    <3>1. dropped' = Plus(dropped, buffer \o <<>>)
      BY <2>3 DEF Exit
    <3>2. buffer \o <<>> = buffer
      BY <2>1
    <3> QED
      BY <2>1, <2>3, <3>1, <3>2 DEF InHand
  <2> QED
    BY <2>2, <2>3
<1>3. /\ dropped = NoRows /\ RowsType /\ dropped' \in [Ids -> Nat]
      /\ \A i \in Ids : dropped'[i] = dropped[i] + In(i, s) /\ dropped[i] = 0
  <2>1. RowsType /\ dropped \in [Ids -> Nat] /\ dropped = NoRows
    BY <1>1 DEF PipelineInv, RowsType, Stopping
  <2> QED
    BY <1>2, <2>1, PlusType DEF NoRows
<1>4. Fresh'
  BY <1>1, RingsFrame DEF PipelineInv
<1>5. RowsType'
  BY <1>1, <1>3, NoIds DEF RowsType
<1>6. Batches' /\ Room'
  <2>1. buffer' = <<>> => Len(buffer') = 0
    OBVIOUS
  <2>2. Len(buffer') = 0 /\ FLUSH_AT \in Nat /\ 0 < FLUSH_AT
    BY <1>1, <2>1, PipelineAssumption
  <2>3. Room'
    BY <2>2 DEF Room
  <2> QED
    BY <1>1, <2>3 DEF PipelineInv, Batches
<1>7. Counted'
  <2>1. ASSUME NEW i \in Ids
        PROVE  Total(i)' = IF i \in taken THEN 1 ELSE 0
    <3>1. /\ logs[i] \in Nat /\ lost[i] \in Nat /\ dropped[i] \in Nat /\ In(i, buffer) \in Nat
          /\ In(i, batch["processor"]) \in Nat
          /\ In(i, batch["flusher"]) \in Nat /\ In(i, batch["stopper"]) \in Nat
      BY <1>3, TotalTerms
    <3>2. /\ logs'[i] = logs[i] /\ lost'[i] = lost[i] /\ batch' = batch /\ In(i, buffer') = 0
          /\ dropped'[i] = dropped[i] + In(i, s)
      BY <1>1, <1>3, InEmpty
    <3>3. InHand(i) => i \in taken
      BY DEF PipelineInv, Counted, InHand
    <3>4. Total(i) = IF i \in taken /\ ~InHand(i) THEN 1 ELSE 0
      BY DEF PipelineInv, Counted
    <3>5. CASE InHand(i)
      <4>1. In(i, s) = In(i, buffer) + 1
        BY <1>2, <3>5
      <4> DEFINE written == logs[i] + lost[i]
                 drained == In(i, batch["processor"]) + In(i, batch["flusher"]) + In(i, batch["stopper"])
      <4>2. Total(i) = written + dropped[i] + In(i, buffer) + drained
        BY ONLY SMTT(30), <3>1 DEF Total
      <4>3. Total(i)' = written + (dropped[i] + (In(i, buffer) + 1)) + 0 + drained
        BY ONLY SMTT(30), <3>1, <3>2, <4>1 DEF Total
      <4>4. written \in Nat /\ drained \in Nat
        BY SMTT(30), <3>1
      <4> HIDE DEF written, drained
      <4>5. PICK d \in Nat : d = dropped[i]
        BY <3>1
      <4>6. PICK b \in Nat : b = In(i, buffer)
        BY <3>1
      <4>7. Total(i) = written + d + b + drained
        BY ONLY <4>2, <4>5, <4>6
      <4>8. Total(i)' = written + (d + (b + 1)) + 0 + drained
        BY ONLY <4>3, <4>5, <4>6
      <4>9. Total(i)' = Total(i) + 1
        BY ONLY <4>4, <4>7, <4>8
      <4> QED
        BY <3>3, <3>4, <3>5, <4>9
    <3>6. CASE ~InHand(i)
      <4>1. In(i, s) = In(i, buffer)
        BY <1>2, <3>6
      <4>2. Total(i)' = Total(i)
        BY ONLY <3>1, <3>2, <4>1 DEF Total
      <4> QED
        BY <3>4, <3>6, <4>2
    <3> QED
      BY <3>5, <3>6
  <2> QED
    BY <1>1, <2>1 DEF Counted, InHand
<1>8. Stopping'
  <2>1. ASSUME NEW i \in Ids, dropped'[i] > 0
        PROVE  Len(s) = 1 /\ s[1] = i
    <3>1. In(i, s) # 0
      BY <1>3, <2>1
    <3>2. PICK k \in DOMAIN s : s[k] = i
      BY <3>1, InType
    <3>3. k \in 1 .. Len(s) /\ Len(s) \in Nat
      BY <3>2
    <3>4. k = 1 /\ Len(s) = 1
      BY SMTT(30), <1>2, <3>3
    <3> QED
      BY <3>2, <3>4
  <2>2. ShutdownLosesOne'
    BY <2>1 DEF ShutdownLosesOne
  <2> QED
    BY <1>1, <2>2 DEF PipelineInv, Stopping
<1> QED
  BY <1>4, <1>5, <1>6, <1>7, <1>8 DEF PipelineInv

LEMMA PipelineInvStep == PipelineInv /\ [PipelineNext]_pvars => PipelineInv'
<1> SUFFICES ASSUME PipelineInv, [PipelineNext]_pvars
             PROVE  PipelineInv'
  OBVIOUS
<1>1. CASE Report
  BY <1>1, ReportKeeps
<1>2. CASE CheckRunning \/ Recorded \/ drain_dns
  BY <1>2, LoopKeeps
<1>3. CASE get_event
  BY <1>3, GetEventKeeps
<1>4. CASE AddToBuffer
  BY <1>4, AddToBufferKeeps
<1>5. CASE ProcessorFlush
  BY <1>5, ProcessorFlushKeeps
<1>6. CASE start_log_flusher
  BY <1>6, FlusherKeeps
<1>7. CASE stop
  BY <1>7, StopKeeps
<1>8. CASE Exit
  BY <1>8, ExitKeeps
<1>9. CASE LateWrite
  BY <1>9, LateWriteKeeps
<1>10. CASE UNCHANGED pvars
  <2>1. Fresh'
    BY <1>10, RingsFrame DEF PipelineInv, pvars
  <2>2. RowsType' /\ Batches' /\ Room' /\ Stopping'
    BY <1>10 DEF PipelineInv, RowsType, Batches, Room, Stopping, ShutdownLosesOne, pvars, log
  <2>3. Counted'
    BY <1>10 DEF PipelineInv, Counted, InHand, Total, pvars, log
  <2> QED
    BY <2>1, <2>2, <2>3 DEF PipelineInv
<1> QED
  BY <1>1, <1>2, <1>3, <1>4, <1>5, <1>6, <1>7, <1>8, <1>9, <1>10 DEF PipelineNext, Processor

LEMMA PipelineInvariant == PipelineSpec => []PipelineInv
  BY PipelineInvInit, PipelineInvStep, PTL DEF PipelineSpec

(* Every event taken from the driver is in the table once, or on its way, or
   was given up with a failed write or the process, whatever flushes overlap
   and for every size of the buffer: it never overruns (flush, LogBuffer::add). *)
THEOREM EveryEventCountedOnce == PipelineSpec => []LoggedOnce
<1>1. PipelineInv => LoggedOnce
  <2> SUFFICES ASSUME PipelineInv, NEW i \in taken
               PROVE  Copies(i) = 1
    BY DEF LoggedOnce
  <2>1. i \in Ids /\ RowsType
    BY DEF PipelineInv, Fresh
  <2>2. Total(i) = IF InHand(i) THEN 0 ELSE 1
    BY <2>1 DEF PipelineInv, Counted
  <2>3. Copies(i) = Total(i) + IF InHand(i) THEN 1 ELSE 0
    BY DEF Copies, Total, InHand
  <2> QED
    BY <2>2, <2>3
<1> QED
  BY <1>1, PipelineInvariant, PTL

(* At most one entry is still in memory when the process ends: the flush of
   stop comes after the flag, and the processor looks at the flag before each
   event (FirewallService::stop, EventProcessor::start). *)
THEOREM StopLosesOne == PipelineSpec => []ShutdownLosesOne
<1>1. PipelineInv => ShutdownLosesOne
  BY DEF PipelineInv, Stopping
<1> QED
  BY <1>1, PipelineInvariant, PTL
=============================================================================
