------------------------------ MODULE AleAuth ------------------------------
(***************************************************************************)
(* Authorization of a connection (ProcessAleAuth in driver/src/wfp.c,      *)
(* MatchRules in driver/src/rules.c) while the service changes the rules   *)
(* and the default policy.  MatchRules looks for the first rule that       *)
(* applies under the rule lock; only after the lock is released, and only  *)
(* if there was none, is g_DefaultAllow read, without any lock.  So a      *)
(* classification is two steps, and an IOCTL can come between them.        *)
(*                                                                         *)
(* Module DriverMatch says when a rule applies.  The event that a          *)
(* classification queues is module EventQueue's subject.                   *)
(***************************************************************************)
EXTENDS RuleTable, DriverMatch

CONSTANTS
  Cpus,         \* processors that classify
  Connections,  \* what the ALE layers present
  CurrentPids   \* what PsGetCurrentProcessId can return in an outbound classify

VARIABLES
  g_DefaultAllow,
  classify,   \* what each processor is at
  inForce,    \* history: verdicts the policy gave for it since it searched
  touched     \* history: the parts of the policy that changed meanwhile

avars == <<g_RuleList, g_DefaultAllow, classify, inForce, touched>>

Idle == [at |-> "idle"]
Searching(c) == classify[c].at = "unmatched"

AleInit ==
  /\ RuleInit
  /\ g_DefaultAllow = TRUE
  /\ classify = [c \in Cpus |-> Idle]
  /\ inForce = [c \in Cpus |-> {}]
  /\ touched = [c \in Cpus |-> {}]
-----------------------------------------------------------------------------
Hits(conn) == {i \in DOMAIN g_RuleList : Applies(g_RuleList[i], conn)}

(* Without a process id in the metadata an outbound classify takes the current
   process; an inbound one may run in any thread and keeps 0. *)
Attributed(conn, current) ==
  IF conn.ProcessId = 0 /\ conn.Direction # RULE_DIRECTION_IN
  THEN [conn EXCEPT !.ProcessId = current] ELSE conn
-----------------------------------------------------------------------------
(***************************************************************************)
(* What the policy says of a connection, whatever the order of the list:   *)
(* the action of a most urgent rule that applies, or the default.          *)
(***************************************************************************)
Policy(conn) ==
  IF Hits(conn) = {} THEN {g_DefaultAllow}
  ELSE {g_RuleList[i].IsAllow : i \in {i \in Hits(conn) :
          \A j \in Hits(conn) : g_RuleList[i].Priority <= g_RuleList[j].Priority}}

(* History: every classification still under way sees the new state. *)
Observe(part) ==
  /\ inForce' = [c \in Cpus |-> IF Searching(c)
                                THEN inForce[c] \cup Policy(classify[c].conn)' ELSE inForce[c]]
  /\ touched' = [c \in Cpus |-> IF Searching(c) THEN touched[c] \cup {part} ELSE touched[c]]

ChangeRules ==
  /\ \/ \E input \in RuleInputs : AddRule(input) \/ UpdateRule(input) \/ RemoveRule(input.RuleId)
     \/ ClearRules
  /\ UNCHANGED <<g_DefaultAllow, classify>>
  /\ Observe("rules")

(* IOCTL_SET_DEFAULT_POLICY. *)
SetDefaultPolicy(allow) ==
  /\ g_DefaultAllow' = allow
  /\ UNCHANGED <<g_RuleList, classify>>
  /\ Observe("default")

(* A search that goes on past the first rule that applies. *)
MatchRulesLast(c, conn) ==
  /\ \/ /\ Hits(conn) = {}
        /\ classify' = [classify EXCEPT ![c] = [at |-> "unmatched", conn |-> conn]]
     \/ \E i \in Hits(conn) :
          /\ \A j \in Hits(conn) : j <= i
          /\ classify' = [classify EXCEPT ![c] =
               [at |-> "decided", conn |-> conn, allow |-> g_RuleList[i].IsAllow]]
  /\ inForce' = [inForce EXCEPT ![c] = Policy(conn)]

(* MatchRules: the first rule that applies decides. *)
MatchRules(c, conn) ==
  /\ \/ /\ Hits(conn) = {}
        /\ classify' = [classify EXCEPT ![c] = [at |-> "unmatched", conn |-> conn]]
     \/ \E i \in Hits(conn) :
          /\ \A j \in Hits(conn) : i <= j
          /\ classify' = [classify EXCEPT ![c] =
               [at |-> "decided", conn |-> conn, allow |-> g_RuleList[i].IsAllow]]
  /\ inForce' = [inForce EXCEPT ![c] = Policy(conn)]

(* ProcessAleAuth up to the end of MatchRules.  If another callout has taken the
   right to decide it returns at once: a step that changes nothing. *)
ProcessAleAuth(c) ==
  /\ classify[c] = Idle
  /\ \E conn \in Connections, current \in CurrentPids : MatchRules(c, Attributed(conn, current))
  /\ touched' = [touched EXCEPT ![c] = {}]
  /\ UNCHANGED <<g_RuleList, g_DefaultAllow>>

(* The rest of it when no rule applied: g_DefaultAllow decides. *)
UseDefault(c) ==
  /\ Searching(c)
  /\ classify' = [classify EXCEPT ![c] =
       [at |-> "decided", conn |-> classify[c].conn, allow |-> g_DefaultAllow]]
  /\ UNCHANGED <<g_RuleList, g_DefaultAllow, inForce, touched>>

(* The verdict is in classifyOut: WFP takes it, and the processor is free. *)
Return(c) ==
  /\ classify[c].at = "decided"
  /\ classify' = [classify EXCEPT ![c] = Idle]
  /\ inForce' = [inForce EXCEPT ![c] = {}]
  /\ touched' = [touched EXCEPT ![c] = {}]
  /\ UNCHANGED <<g_RuleList, g_DefaultAllow>>

AleNext ==
  \/ ChangeRules
  \/ \E allow \in BOOLEAN : SetDefaultPolicy(allow)
  \/ \E c \in Cpus : ProcessAleAuth(c) \/ UseDefault(c) \/ Return(c)

AleSpec == AleInit /\ [][AleNext]_avars
-----------------------------------------------------------------------------
(* A verdict is one that the policy gave at some moment between the search and
   the decision, unless the rules and the default policy both changed between
   the two: the list was read before, the default after. *)
VerdictWasInForce ==
  \A c \in Cpus : classify[c].at = "decided" =>
    classify[c].allow \in inForce[c] \/ touched[c] = {"rules", "default"}
=============================================================================
