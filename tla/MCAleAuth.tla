----------------------------- MODULE MCAleAuth -----------------------------
(* Two connections without a process id, and rules that tell them apart by each
   condition of MatchRules in turn; one rule's path fills its array.  A second
   rule takes every priority, and there is one rule more than the list holds. *)
EXTENDS AleAuth

AnyRule == [RuleId |-> 1, Priority |-> 2, Enabled |-> TRUE, IsAllow |-> TRUE, Direction |-> 0,
        ProcessId |-> 0, ProcessPath |-> <<>>, Protocol |-> 0, RemoteAddr |-> {},
        RemoteAddrMask |-> {}, AddressFamily |-> 0, RemotePort |-> 0, RemotePortEnd |-> 0,
        LocalPort |-> 0, LocalPortEnd |-> 0]

Conditions ==
  {AnyRule,
   [AnyRule EXCEPT !.Enabled = FALSE],
   [AnyRule EXCEPT !.Direction = 2, !.ProcessId = 7],
   [AnyRule EXCEPT !.ProcessPath = <<"y">>, !.Protocol = 6],
   [AnyRule EXCEPT !.ProcessPath = <<"x", "y", "y">>],
   [AnyRule EXCEPT !.RemoteAddr = {1, 3}, !.RemoteAddrMask = {1, 3}, !.AddressFamily = 4],
   [AnyRule EXCEPT !.RemoteAddr = {1, 3}, !.RemoteAddrMask = {1, 3}, !.AddressFamily = 6],
   [AnyRule EXCEPT !.RemotePort = 1, !.RemotePortEnd = 2],
   [AnyRule EXCEPT !.LocalPort = 1, !.LocalPortEnd = 2]}

Inputs ==
  Conditions
    \cup {[AnyRule EXCEPT !.RuleId = 2, !.Priority = p, !.IsAllow = allow] :
            p \in 1 .. 3, allow \in BOOLEAN}
    \cup {[AnyRule EXCEPT !.RuleId = id, !.IsAllow = FALSE] : id \in {3, 4}}

Seen ==
  {[Direction |-> 2, ProcessId |-> 0, ProcessPath |-> <<"x", "y">>, Protocol |-> 6,
    AddressFamily |-> 4, RemoteAddr |-> {1, 2}, RemotePort |-> 2, LocalPort |-> 3],
   [Direction |-> 1, ProcessId |-> 0, ProcessPath |-> <<>>, Protocol |-> 17,
    AddressFamily |-> 6, RemoteAddr |-> {1, 3}, RemotePort |-> 3, LocalPort |-> 1]}
=============================================================================
