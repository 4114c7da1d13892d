----------------------------- MODULE MCTcpServer -----------------------------
(* Enough for a device to connect twice and for a server to start twice. *)
EXTENDS TcpServer
=============================================================================
