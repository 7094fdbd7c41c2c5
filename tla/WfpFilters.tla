----------------------------- MODULE WfpFilters -----------------------------
(***************************************************************************)
(* The service's objects in the Windows Filtering Platform (wfp/engine.rs, *)
(* wfp/filter.rs, wfp/mod.rs): the callouts and filters that send traffic  *)
(* to the driver, and the kill switch, a persistent block at low weight    *)
(* that takes effect where no callout filter is left.                      *)
(*                                                                         *)
(* Each function runs without yielding, so each is one step.  A layer is   *)
(* <<kind, family>>; the layer of an earlier version has the kind          *)
(* "legacy".  A filter has a layer, the traffic it matches, whether it     *)
(* decides (terminating) or only looks (inspection), and the engine        *)
(* session that added it.                                                  *)
(***************************************************************************)
EXTENDS Naturals, FiniteSets

CONSTANTS
  Kinds,       \* layer kinds besides connect and accept: dns, stream, flow, out, in
  SkipFilters, \* kinds named by CEASEFIRE_SKIP_FILTERS
  Leftover     \* families with a filter of an earlier version

Families == {4, 6}
Auth == {"connect", "accept"}
Layers == (Auth \cup Kinds) \X Families
Required == Auth \X {4}
NoLayer == <<"none", 0>>

(* The mask has a bit for each of the other kinds. *)
ASSUME FilterAssumption == SkipFilters \subseteq Kinds /\ Kinds \cap Auth = {}

VARIABLES
  objects,   \* provider and sublayer registered
  callouts,  \* layers whose callout is registered
  filters,   \* callout filters in the filtering engine
  recorded,  \* layers whose filter_id is Some
  session,   \* engine sessions opened so far
  engine,    \* the engine is in the shared slot
  kill       \* the kill-switch filters are installed

wvars == <<objects, callouts, filters, recorded, session, engine, kill>>

Filter(layer, match, action, s) == [layer |-> layer, match |-> match, action |-> action, session |-> s]

(* The filters of IPv4 and IPv6, one per layer: <<kind, match, action>>. *)
add_filter_v4 == <<"connect", "any", "terminating">>
add_filter_recv_accept == <<"accept", "any", "terminating">>
add_filter_dns == <<"dns", "udp 53", "inspection">>
add_filter_stream == <<"stream", "not loopback", "terminating">>
add_filter_flow_established == <<"flow", "tcp", "terminating">>
add_filter_out_transport == <<"out", "tcp", "terminating">>
add_filter_in_transport == <<"in", "not loopback", "terminating">>
FiltersV4 == {add_filter_v4, add_filter_recv_accept, add_filter_dns, add_filter_stream,
              add_filter_flow_established, add_filter_out_transport, add_filter_in_transport}

(* The same for IPv6, but add_filter_generic always adds a terminating one. *)
add_filter_v6 == {<<t[1], t[2], "terminating">> : t \in FiltersV4}

(* The filters of a set of layers, added by a session. *)
FiltersAt(layers, s) ==
  {Filter(<<t[1], 4>>, t[2], t[3], s) : t \in {t \in FiltersV4 : <<t[1], 4>> \in layers}}
  \cup {Filter(<<t[1], 6>>, t[2], t[3], s) : t \in {t \in add_filter_v6 : <<t[1], 6>> \in layers}}

(* The first two are required and come first, in this order; the failure of
   another is only logged. *)
UpTo(bad) == IF bad = <<"connect", 4>> THEN {}
             ELSE IF bad = <<"accept", 4>> THEN {<<"connect", 4>>}
             ELSE Layers \ {bad}

register_callouts(bad) == callouts' = callouts \cup UpTo(bad)

(* The mask skips IPv4 layers only. *)
Skipped == {l \in Layers : l[2] = 4 /\ l[1] \in SkipFilters}

(* A filter needs its callout. *)
add_filters(bad) == (UpTo(bad) \cap callouts') \ Skipped

(* By id, then by callout at every layer, so that a filter of a lost session
   goes too; only the sweep of such a filter can fail for good. *)
Orphans == {f \in filters : f.session # session \/ f.layer \notin recorded}
(* Only what this process added is removed. *)
RemoveById(left) == filters' = left \cup Orphans /\ recorded' = {}
remove_filters(left) == filters' = left /\ recorded' = {}

(* What refers to it keeps a callout, the sublayer and the provider. *)
unregister_callouts == callouts' = {l \in callouts : \E f \in filters' : f.layer = l}
cleanup == objects' = (filters' # {} \/ kill)

add_persistent_block_filters == kill' = TRUE
remove_persistent_block_filters == kill' = FALSE

WfpInit ==
  /\ objects = FALSE /\ callouts = {} /\ recorded = {} /\ session = 0
  /\ engine = FALSE /\ kill = FALSE
  /\ filters = {Filter(<<"legacy", f>>, "any", "terminating", 0) : f \in Leftover}

(* A new session, provider, sublayer, callouts, filters.  An error drops the
   filter manager, whose drop removes the filters. *)
InitializeOk(badCallout, badFilter) ==
  /\ badCallout \notin Required /\ badFilter \notin Required
  /\ session' = session + 1 /\ objects' = TRUE /\ engine' = TRUE
  /\ register_callouts(badCallout)
  /\ recorded' = add_filters(badFilter)
  /\ filters' = filters \cup FiltersAt(add_filters(badFilter), session')
  /\ UNCHANGED kill

InitializeFails(badCallout, badFilter) ==
  /\ badCallout \in Required \/ badFilter \in Required
  /\ session' = session + 1 /\ objects' = TRUE
  /\ register_callouts(badCallout)
  /\ remove_filters({})
  /\ UNCHANGED <<engine, kill>>

cleanup_wfp(left) ==
  IF engine
  THEN /\ remove_filters(left) /\ unregister_callouts /\ cleanup
       /\ engine' = FALSE
       /\ UNCHANGED <<session, kill>>
  ELSE UNCHANGED wvars

(* Traffic of a family at an authorisation layer meets the kill switch, unless
   a filter of higher weight decides about all of it. *)
KillSwitchActs(kind, family) ==
  /\ kill
  /\ ~\E f \in filters : f.layer = <<kind, family>> /\ f.match = "any" /\ f.action = "terminating"
=============================================================================
