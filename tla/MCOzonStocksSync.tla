------------------------- MODULE MCOzonStocksSync -------------------------
(* OzonStocksSync on small instances. *)
EXTENDS OzonStocksSync
=============================================================================
