------------------------ MODULE MCUniLbsConnection ------------------------
(* A small instance of UniLbsConnection; the setters of TcpClient are not  *)
(* called by UniLbsConnection, so the settings keep their initial values.  *)
EXTENDS UniLbsConnection

CONSTANTS b1, c1

MCBevs == {b1}
MCChannels == {c1}
=============================================================================
