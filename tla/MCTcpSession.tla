---------------------------- MODULE MCTcpSession ----------------------------
(* Two connections, one source port and two destinations.                  *)
EXTENDS TcpSession
===============================================================================
