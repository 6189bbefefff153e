----------------------------- MODULE TcpServer -----------------------------
(***************************************************************************)
(* The server that accepts a TcpConnection: network/tcp_server.cpp.  The    *)
(* server, its listener, and the connection of one peer, which begins with *)
(* AcceptConnection and then is the module TcpConnection.  What the peer    *)
(* sends before that waits in the kernel.                                  *)
(*                                                                         *)
(* Without a callback an accepted descriptor is dropped: nobody closes it  *)
(* and nobody reads it.                                                    *)
(***************************************************************************)
EXTENDS TcpConnection

CONSTANT MaxCalls      \* bound: calls of the server's owner

VARIABLES
    server,            \* "made", "listening" (conn_ is not null), "gone"
    has_callback,      \* callback_ is not null
    peer,              \* "waiting", "accepted", "dropped"
    calls

server_vars == <<server, has_callback, peer, calls>>
all_vars == <<vars, server_vars>>

\* No connection yet.
ServerInit ==
    /\ sent = <<>> /\ total = 0 /\ arrived = 0
    /\ taken = 0 /\ delivered = <<>>
    /\ exists = FALSE /\ open = FALSE /\ attached = FALSE /\ reading = FALSE
    /\ is_in_processing_ = FALSE /\ failed = FALSE
    /\ pc = "idle"
    /\ owner_has = FALSE
    /\ server = "made"
    /\ has_callback \in BOOLEAN
    /\ peer = "waiting"
    /\ calls = 0

Call == pc = "idle" /\ server # "gone" /\ calls < MaxCalls /\ calls' = calls + 1

\* BindAndListen fails at an option or at bind and may be tried again; a
\* second listener is refused.
ListenOn ==
    /\ Call
    /\ server' \in IF server = "made" THEN {"made", "listening"} ELSE {server}
    /\ UNCHANGED <<vars, has_callback, peer>>

RegisterCallback(registered) ==
    /\ Call
    /\ has_callback' = registered
    /\ UNCHANGED <<vars, server, peer>>

\* ~TcpServer: the listener goes, the connections it accepted stay.
DestroyServer ==
    /\ Call
    /\ server' = "gone"
    /\ UNCHANGED <<vars, has_callback, peer>>

\* TcpConnection::Create, and OnConnectionAccepted makes the callback's owner
\* the owner of the connection.
AcceptConnection ==
    /\ pc = "idle" /\ server = "listening" /\ peer = "waiting" /\ has_callback
    /\ peer' = "accepted"
    /\ exists' = TRUE /\ open' = TRUE /\ attached' = TRUE /\ reading' = TRUE
    /\ owner_has' = TRUE
    /\ UNCHANGED <<sent, total, arrived, taken, delivered, failed, pc,
                   is_in_processing_, server, has_callback, calls>>

AcceptNobody ==
    /\ pc = "idle" /\ server = "listening" /\ peer = "waiting" /\ ~has_callback
    /\ peer' = "dropped"
    /\ UNCHANGED <<vars, server, has_callback, calls>>

ServerNext ==
    \/ ListenOn
    \/ \E registered \in BOOLEAN : RegisterCallback(registered)
    \/ DestroyServer
    \/ AcceptConnection \/ AcceptNobody
    \/ Next /\ UNCHANGED server_vars

ServerSpec == ServerInit /\ [][ServerNext]_all_vars

\* What is fair in a connection is fair in the connections of a server.
FairServerSpec == ServerSpec /\ Fairness
=============================================================================
