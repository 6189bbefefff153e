---------------------------- MODULE MCTcpClient ----------------------------
(* A small instance of TcpClient: the constants of tcp_client.cpp scaled   *)
(* down in the same order.                                                 *)
EXTENDS TcpClient

CONSTANTS b1, b2

MCBevs == {b1, b2}
MCBackoffs == {<<2, 1>>, <<3, 2>>}
=============================================================================
