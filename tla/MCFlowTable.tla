---------------------------- MODULE MCFlowTable ----------------------------
(* Three flows, two of them open before the driver was loaded, and fewer slots
   of either table than flows. *)
EXTENDS FlowTable, TLC

CONSTANTS f1, f2, f3, t1, t2, t3

(* f2 and f3 are the flows that were missed.  Connections are authorised with
   the ports of each flow, those of f1 by another process than f1's. *)
MCTupleOf == (f1 :> t1) @@ (f2 :> t2) @@ (f3 :> t3)
MCPidOf == (f1 :> 1) @@ (f2 :> 1) @@ (f3 :> 1)
MCAuthorised == {<<t1, 2>>, <<t2, 1>>, <<t3, 1>>}

(* Nothing tells the two missed flows apart. *)
SwapMissed == (f2 :> f3) @@ (f3 :> f2) @@ (t2 :> t3) @@ (t3 :> t2)
Symmetry == Permutations(Addrs) \cup Permutations(Cpus) \cup {SwapMissed}
=============================================================================
