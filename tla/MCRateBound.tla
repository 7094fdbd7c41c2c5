----------------------------- MODULE MCRateBound -----------------------------
(* Two slots for a global limit and one process; a clock long enough for the
   64-bit product of a refill to wrap. *)
EXTENDS RateBound
=============================================================================
