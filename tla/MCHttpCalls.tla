---------------------------- MODULE MCHttpCalls ----------------------------
(* The constants of HttpCalls for TLC: sizes below, at and above each buffer. *)
EXTENDS HttpCalls
=============================================================================
