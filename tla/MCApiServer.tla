---------------------------- MODULE MCApiServer ----------------------------
(* The server and the Ozon orders sync on small instances. *)
EXTENDS ApiServer

\* The second and the third posting are created at the same time, or have none.
Tied == {<<1, 2, 2>>}
=============================================================================
