------------------------------ MODULE MCWorker ------------------------------
(* Two sockets, the current one and the one before it; a log that is large *)
(* at three lines, copied in chunks of two.                                 *)
EXTENDS TurnServerMain
=============================================================================
