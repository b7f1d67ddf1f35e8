------------------------- MODULE MCWbOrdersSync -------------------------
(* WbOrdersSync on small instances. *)
EXTENDS WbOrdersSync
=============================================================================
