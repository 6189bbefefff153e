-------------------------- MODULE MCTcpConnection --------------------------
(* Lengths on both sides of the two-byte prefix, and one that is too small. *)
EXTENDS TcpServer

MCLengths == {5, 6, 8, 17}
=============================================================================
