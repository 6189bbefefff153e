--------------------------- MODULE ElbsConnection ---------------------------
(***************************************************************************)
(* Finding an edge server and keeping a connection to it: the class        *)
(* ElbsConnection of turnserver_main.cc.                                   *)
(*                                                                         *)
(* Every minute joinElbs connects to all ELBS servers; each is asked for   *)
(* an edge server, and an answer may start a connection to one.  All of it *)
(* runs on one rtc::Thread; a step is one event or timer.  Sockets behave  *)
(* as in module Worker: a WorkerTCPSocket is never deleted, and the name   *)
(* of a closed one that no field points to is used again.  The ping every  *)
(* three seconds and the reports sent on a new connection change no state, *)
(* and elbs_socket_ is written but never read: clearing it closes nothing. *)
(*                                                                         *)
(* External: the ELBS servers, which direct the client to one edge server  *)
(* at a time (target), and the resolver, which may find none of them.  An  *)
(* edge server sends no rejoin response, although the sockets to it are    *)
(* wired to OnResponsePacket as well.                                      *)
(***************************************************************************)
EXTENDS Integers

CONSTANTS
    ElbsSocks,  \* bound: sockets to ELBS servers open at a time
    EdgeSocks,  \* bound: sockets to edge servers open or pointed to
    NoSock,     \* nullptr
    Addrs,      \* addresses of edge servers
    NoAddr,     \* connect_Addr_ before the first answer
    JoinDelay,  \* delay of MSG_ELBS_ONTIMER
    Quiet       \* the 3000 ms after last_connect_ts_

ASSUME ElbsAssumption ==
    /\ JoinDelay \in Nat \ {0}
    /\ Quiet \in Nat
    /\ ElbsSocks \cap EdgeSocks = {}
    /\ NoSock \notin ElbsSocks \cup EdgeSocks
    /\ NoAddr \notin Addrs

VARIABLES
    state,               \* GetState() of each
    asked,               \* the ELBS server has a request on this socket
    peer,                \* the address an edge socket connects to
    socket_,
    socket_connecting_,
    connect_Addr_,
    connect_age,         \* time since last_connect_ts_, up to Quiet
    join_in,             \* delay left of MSG_ELBS_ONTIMER
    target,              \* external: the edge server ELBS directs to
    settled              \* external: network and ELBS work for good

Socks == ElbsSocks \cup EdgeSocks
socks == <<state, asked, peer>>
links == <<socket_, socket_connecting_, connect_Addr_>>
world == <<target, settled>>
vars == <<socks, links, connect_age, join_in, world>>

\* Edge sockets that can be created.
Free == {s \in EdgeSocks : /\ state[s] = "CLOSED"
                           /\ s \notin {socket_, socket_connecting_}}

Closed(s) == [state EXCEPT ![s] = "CLOSED"]

-----------------------------------------------------------------------------

\* joinElbs: new sockets to the servers that could be resolved and dialled; the
\* sockets of the last round stay as they are.
joinElbs ==
    \E new \in SUBSET {s \in ElbsSocks : state[s] = "CLOSED"} :
        /\ settled => new # {}
        /\ state' = [s \in Socks |-> IF s \in new THEN "CONNECTING" ELSE state[s]]

\* The constructor; start() posts the timer and calls joinElbs.
Init ==
    /\ \E new \in SUBSET ElbsSocks :
          state = [s \in Socks |-> IF s \in new THEN "CONNECTING" ELSE "CLOSED"]
    /\ asked = [s \in ElbsSocks |-> FALSE]
    /\ peer = [s \in EdgeSocks |-> NoAddr]
    /\ socket_ = NoSock
    /\ socket_connecting_ = NoSock
    /\ connect_Addr_ = NoAddr
    /\ connect_age = Quiet
    /\ join_in = JoinDelay
    /\ target \in Addrs
    /\ settled = FALSE

\* Time passes; the thread is not late by more than a step for its timer.
Tick ==
    /\ join_in > 0
    /\ join_in' = join_in - 1
    /\ connect_age' = IF connect_age < Quiet THEN connect_age + 1 ELSE Quiet
    /\ UNCHANGED <<socks, links, world>>

\* Mutant: the timer does not connect to ELBS again.
OnElbsTimerIdle ==
    /\ join_in = 0
    /\ join_in' = JoinDelay
    /\ UNCHANGED <<socks, links, connect_age, world>>

\* MSG_ELBS_ONTIMER.
OnElbsTimer ==
    /\ join_in = 0
    /\ joinElbs
    /\ join_in' = JoinDelay
    /\ UNCHANGED <<asked, peer, links, connect_age, world>>

\* Asks for an edge server, naming the one in connect_Addr_.
OnElbsSocketConnect(s) ==
    /\ state[s] = "CONNECTING"
    /\ state' = [state EXCEPT ![s] = "CONNECTED"]
    /\ asked' = [asked EXCEPT ![s] = TRUE]
    /\ UNCHANGED <<peer, links, connect_age, join_in, world>>

\* The server closes, resets or refuses the connection.  Once settled, only
\* ELBS does so, when there is nothing more to say.
OnElbsSocketClose(s) ==
    /\ state[s] # "CLOSED"
    /\ settled => state[s] = "CONNECTED" /\ ~asked[s]
    /\ state' = Closed(s)
    /\ asked' = [asked EXCEPT ![s] = FALSE]
    /\ UNCHANGED <<peer, links, connect_age, join_in, world>>

OnArgusSocketClose(s) ==
    /\ state[s] # "CLOSED"
    /\ ~settled
    /\ state' = Closed(s)
    /\ UNCHANGED <<asked, peer, links, connect_age, join_in, world>>

\* Mutant: the connection in use is closed before the new one is made.
connectEdgeServerBreaking(s, address) ==
    \E e \in Free :
        /\ peer' = [peer EXCEPT ![e] = address]
        /\ socket_connecting_' = e
        /\ state' = [t \in Socks |-> CASE t = e -> "CONNECTING"
                                       [] t \in {s, socket_} -> "CLOSED"
                                       [] OTHER -> state[t]]

\* connectEdgeServer; then the socket s that brought the address is closed.
connectEdgeServer(s, address) ==
    \E e \in Free :
        /\ peer' = [peer EXCEPT ![e] = address]
        /\ socket_connecting_' = e
        /\ state' = [Closed(s) EXCEPT ![e] = "CONNECTING"]

CannotConnect(s) ==
    /\ ~settled
    /\ state' = Closed(s)
    /\ UNCHANGED <<peer, socket_connecting_>>

\* OnResponsePacket, by the branch it takes: too soon after the last switch,
Answered(s) == state[s] = "CONNECTED" /\ asked[s]

AnswerTooSoon(s) ==
    /\ Answered(s)
    /\ connect_age < Quiet
    /\ state' = Closed(s)
    /\ asked' = [asked EXCEPT ![s] = FALSE]
    /\ UNCHANGED <<peer, links, connect_age, join_in, world>>

\* the address in use, when it returns without closing the socket,
AnswerKnown(s) ==
    /\ Answered(s)
    /\ connect_age >= Quiet
    /\ target = connect_Addr_
    /\ asked' = [asked EXCEPT ![s] = FALSE]
    /\ UNCHANGED <<state, peer, links, connect_age, join_in, world>>

\* or another address, which is noted whether or not a socket can be created.
AnswerSwitches(s) ==
    /\ Answered(s)
    /\ connect_age >= Quiet
    /\ target # connect_Addr_
    /\ connect_Addr_' = target
    /\ \/ connectEdgeServer(s, target) /\ connect_age' = 0
       \/ CannotConnect(s) /\ UNCHANGED connect_age
    /\ asked' = [asked EXCEPT ![s] = FALSE]
    /\ UNCHANGED <<socket_, join_in, world>>

OnResponsePacket(s) == AnswerTooSoon(s) \/ AnswerKnown(s) \/ AnswerSwitches(s)

\* Mutant: the connection in use is not closed.
OnArgusSocketConnectKeeping(s) ==
    /\ state[s] = "CONNECTING"
    /\ IF s = socket_connecting_
       THEN /\ socket_' = s
            /\ state' = [state EXCEPT ![s] = "CONNECTED"]
       ELSE /\ state' = Closed(s)
            /\ UNCHANGED socket_
    /\ UNCHANGED <<asked, peer, socket_connecting_, connect_Addr_, connect_age,
                   join_in, world>>

\* The connection dialled last takes the place of socket_; an earlier one that
\* is answered late is closed.  Sockets are told apart by their local address.
OnArgusSocketConnect(s) ==
    /\ state[s] = "CONNECTING"
    /\ IF s = socket_connecting_
       THEN /\ socket_' = s
            /\ state' = [t \in Socks |-> CASE t = s -> "CONNECTED"
                                           [] t = socket_ /\ t # s -> "CLOSED"
                                           [] OTHER -> state[t]]
       ELSE /\ state' = Closed(s)
            /\ UNCHANGED socket_
    /\ UNCHANGED <<asked, peer, socket_connecting_, connect_Addr_, connect_age,
                   join_in, world>>

-----------------------------------------------------------------------------
(* External: ELBS.                                                         *)

Redirect(address) ==
    /\ ~settled
    /\ target' = address
    /\ UNCHANGED <<socks, links, connect_age, join_in, settled>>

Settle ==
    /\ ~settled
    /\ settled' = TRUE
    /\ UNCHANGED <<socks, links, connect_age, join_in, target>>

ElbsEvents(s) == OnElbsSocketConnect(s) \/ OnResponsePacket(s)

Next ==
    \/ Tick
    \/ OnElbsTimer
    \/ \E s \in ElbsSocks : ElbsEvents(s) \/ OnElbsSocketClose(s)
    \/ \E s \in EdgeSocks : OnArgusSocketConnect(s) \/ OnArgusSocketClose(s)
    \/ \E address \in Addrs : Redirect(address)
    \/ Settle

Spec == Init /\ [][Next]_vars

\* Time passes, timers fire, connects and requests are answered, and ELBS
\* closes the connections that the client leaves open.
Fairness ==
    /\ WF_vars(Tick)
    /\ WF_vars(OnElbsTimer)
    /\ \A s \in ElbsSocks : WF_vars(ElbsEvents(s)) /\ WF_vars(OnElbsSocketClose(s))
    /\ \A s \in EdgeSocks : WF_vars(OnArgusSocketConnect(s))

FairSpec == Spec /\ Fairness

-----------------------------------------------------------------------------
(* Properties.                                                             *)

\* The types of the fields.
TypeOK ==
    /\ state \in [Socks -> {"CLOSED", "CONNECTING", "CONNECTED"}]
    /\ asked \in [ElbsSocks -> BOOLEAN]
    /\ peer \in [EdgeSocks -> Addrs \cup {NoAddr}]
    /\ socket_ \in EdgeSocks \cup {NoSock}
    /\ socket_connecting_ \in EdgeSocks \cup {NoSock}
    /\ connect_Addr_ \in Addrs \cup {NoAddr}
    /\ connect_age \in 0..Quiet /\ join_in \in 0..JoinDelay
    /\ target \in Addrs /\ settled \in BOOLEAN

\* However answers and late connects interleave, there is at most one edge
\* connection, and it is the one that reports are sent on.
OneEdgeConnection ==
    \A s \in EdgeSocks : state[s] = "CONNECTED" => s = socket_

\* Steps that end the connection in use, and that put the one dialled last in
\* its place.
GivenUp(s) == s = socket_ /\ state[s] = "CONNECTED" /\ state'[s] # "CONNECTED"
Replaced(s) == /\ socket_' = socket_connecting_ /\ socket_' # s
               /\ state'[socket_'] = "CONNECTED"

\* A redirection never costs the connection that reports are sent on before
\* there is another: unless the edge server closes it, it is given up only in
\* the step in which the connection dialled last is up and takes its place.  An
\* address for which no socket can be had, a connect that is refused and one
\* that is answered too late leave it alone.
EdgeIsKept ==
    [][\A s \in EdgeSocks : GivenUp(s) => OnArgusSocketClose(s) \/ Replaced(s)]_vars

\* When network and ELBS work for good and ELBS names an edge server other
\* than the one noted, the client is connected to it in the end and stays so,
\* and no other edge socket is left open: a connect that was overtaken is
\* closed when it is answered.
FollowsElbs ==
    (settled /\ connect_Addr_ # target)
        ~> [](/\ socket_ # NoSock
              /\ state[socket_] = "CONNECTED"
              /\ peer[socket_] = target
              /\ \A s \in EdgeSocks \ {socket_} : state[s] = "CLOSED")
=============================================================================
