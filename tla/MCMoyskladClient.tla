------------------------- MODULE MCMoyskladClient -------------------------
(* MoyskladClient with a short minute. *)
EXTENDS MoyskladClient
=============================================================================
