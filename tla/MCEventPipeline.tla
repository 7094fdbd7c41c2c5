--------------------------- MODULE MCEventPipeline ---------------------------
(* Connection and DNS events, in any order, in rings that overrun; a log     *)
(* buffer that fills.                                                        *)
EXTENDS EventPipeline

MCEvents == [id : Ids, action : {"Allow", "Dns"}]
=============================================================================
