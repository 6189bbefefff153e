-------------------------- MODULE MCElbsConnection --------------------------
(* Two ELBS servers, two edge servers.                                      *)
EXTENDS ElbsConnection
=============================================================================
