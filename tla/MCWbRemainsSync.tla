------------------------- MODULE MCWbRemainsSync -------------------------
(* WbRemainsSync on small instances. *)
EXTENDS WbRemainsSync
=============================================================================
