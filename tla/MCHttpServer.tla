---------------------------- MODULE MCHttpServer ----------------------------
(* Two clients of one server, of each of the three kinds. *)
EXTENDS HttpServer
=============================================================================
