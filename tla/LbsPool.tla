------------------------------- MODULE LbsPool -------------------------------
(***************************************************************************)
(* What UniLbsClient promises of its connections (lbs/uni_lbs_client.cpp): *)
(* there is one for each address of the latest list; an address that stays *)
(* on the list keeps the connection it has, and with it the session on it; *)
(* no two addresses share one.                                             *)
(***************************************************************************)
EXTENDS Functions

CONSTANTS
    Ips,    \* addresses of LBS servers
    Conns   \* UniLbsConnection objects

VARIABLE pool    \* from the addresses on the list to their connections

Init == pool = [ip \in {} |-> {}]

Relist(ips) ==
    /\ pool' \in [ips -> Conns]
    /\ \A ip \in ips \cap DOMAIN pool : pool'[ip] = pool[ip]
    /\ IsInjective(pool')

Next == \E ips \in SUBSET Ips : Relist(ips)

Spec == Init /\ [][Next]_pool
=============================================================================
