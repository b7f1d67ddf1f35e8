----------------------------- MODULE MCCardSync -----------------------------
(* CardSync on small instances. *)
EXTENDS CardSync
=============================================================================
