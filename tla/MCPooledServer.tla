--------------------------- MODULE MCPooledServer ---------------------------
(* Two clients of one server, of each of the four kinds. *)
EXTENDS PooledServer
=============================================================================
