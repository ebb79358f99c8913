----------------------------- MODULE MCJsonConn -----------------------------
(* The constants of JsonConn for TLC.                                        *)
EXTENDS JsonConn
=============================================================================
