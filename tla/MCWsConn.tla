------------------------------ MODULE MCWsConn ------------------------------
(* The constants of WsConn for TLC: payloads, frames and sockets shrunk.     *)
EXTENDS WsConn
=============================================================================
