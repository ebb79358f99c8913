----------------------------- MODULE MCTcpConn ------------------------------
(* The constants of TcpConn for TLC: payloads and buffers shrunk together.   *)
EXTENDS TcpConn
=============================================================================
