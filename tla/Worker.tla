------------------------------- MODULE Worker -------------------------------
(***************************************************************************)
(* The link to the worker manager: the classes WorkerTCPSocket and Worker  *)
(* of turnserver_main.cc.                                                  *)
(*                                                                         *)
(* All of it runs on one rtc::Thread, which dispatches socket events and   *)
(* the delayed messages that Worker posts to itself, those in the order of *)
(* their due times.  Time is counted in units of 500 ms.                   *)
(*                                                                         *)
(* External (WebRTC): a socket is CLOSED, CONNECTING or CONNECTED; a       *)
(* connect event changes its state and signals in one step; a second       *)
(* Connect on a socket that is connecting fails; a closed socket signals   *)
(* nothing.  A WorkerTCPSocket is never deleted: a closed one that Worker  *)
(* no longer points to is out of the game, and its name is used again.     *)
(***************************************************************************)
EXTENDS Integers, Sequences

CONSTANTS
    Socks,          \* names of WorkerTCPSocket objects
    NoSock,         \* nullptr
    WorkerDelay,    \* delay of MSG_WORKER_ONTIMER, 6 units
    BandwidthDelay, \* delay of MSG_BANDWIDTH_GET, 1 unit
    MaxLate         \* bound: how late the thread may be for a message

ASSUME DelayAssumption ==
    /\ BandwidthDelay \in Nat \ {0}
    /\ WorkerDelay \in Nat
    /\ BandwidthDelay < WorkerDelay
    /\ MaxLate \in Nat

ASSUME SockAssumption == NoSock \notin Socks

VARIABLES
    socket_,
    state,      \* GetState() of each socket
    outbuf,     \* the out buffer of each: the rest of a message, whole ones
    first,      \* history: the kind of the first message on the connection
    due,        \* the delay left of each message the thread holds
    counted,    \* userCount, ingress and egress have been assigned
    blind,      \* history: a ping was sent before that
    torn,       \* history: a message was cut short and another followed
    broken,     \* external: the peer of the socket has gone
    up          \* external: the manager is up for good

sockets == <<socket_, state, outbuf, first, torn>>
vars == <<sockets, due, counted, blind, broken, up>>

Messages == {"MSG_WORKER_ONTIMER", "MSG_BANDWIDTH_GET"}

-----------------------------------------------------------------------------
(* WorkerTCPSocket.                                                        *)

\* Create: a socket that is connecting, or none.
Create ==
    \/ ~up /\ UNCHANGED <<sockets, broken>>
    \/ \E s \in Socks \ {socket_} :
          /\ state[s] = "CLOSED"
          /\ socket_' = s
          /\ state' = [state EXCEPT ![s] = "CONNECTING"]
          /\ outbuf' = [outbuf EXCEPT ![s] = <<>>]
          /\ first' = [first EXCEPT ![s] = "none"]
          /\ broken' = [broken EXCEPT ![s] = FALSE]
          /\ UNCHANGED torn

\* What may be left of a buffer when a part of it was sent.
Unsent(buf) == {<<"rest">> \o SubSeq(buf, k + 1, Len(buf)) : k \in 1..Len(buf)}

\* The kernel takes nothing: only of a socket that has sent before, or that
\* is broken.  An assumption: the send buffer of a new connection is empty and
\* takes the first bytes.  Were it not so (ENOBUFS), Send would drop the connect
\* message, which nobody repeats: the next ping would be the first message.
Stalls(s) == first[s] # "none" \/ broken[s]

\* AppendToOutBuffer and FlushOutBuffer, and ClearOutBuffer if the kernel took
\* nothing.
AppendAndFlush(s, message) ==
    LET buf == Append(outbuf[s], "whole")
        begun == [first EXCEPT ![s] = IF @ = "none" THEN message ELSE @]
    IN \/ /\ Stalls(s)
          /\ outbuf' = [outbuf EXCEPT ![s] = <<>>]
          /\ torn' = (torn \/ \E i \in 1..Len(buf) : buf[i] = "rest")
          /\ UNCHANGED first
       \/ /\ ~broken[s]
          /\ first' = begun
          /\ \E left \in Unsent(buf) \cup {<<>>} :
                 outbuf' = [outbuf EXCEPT ![s] = left]
          /\ UNCHANGED torn

\* Mutant: a message is appended to one that is under way.
SendAppending(s, message) == AppendAndFlush(s, message)

\* Send: silently dropped while the rest of an earlier message is waiting.
Send(s, message) ==
    IF outbuf[s] # <<>> THEN UNCHANGED <<outbuf, first, torn>>
    ELSE AppendAndFlush(s, message)

\* External: the socket is writable again, the rest goes out.
OnWriteEvent(s) ==
    /\ state[s] = "CONNECTED" /\ outbuf[s] # <<>> /\ ~broken[s]
    /\ outbuf' = [outbuf EXCEPT ![s] = <<>>]
    /\ UNCHANGED <<socket_, state, first, torn, due, counted, blind, broken, up>>

-----------------------------------------------------------------------------
(* Worker.                                                                 *)

\* Whether socket_ is one that is connected.
Connected == socket_ # NoSock /\ state[socket_] = "CONNECTED"

sendMessage(message) ==
    IF Connected THEN Send(socket_, message)
    ELSE UNCHANGED <<outbuf, first, torn>>

sendConnectMsg == sendMessage("connect")

sendPingMsg == sendMessage("ping") /\ blind' = (blind \/ ~counted)

\* Mutant: the first ping at once.
InitEager ==
    /\ socket_ \in Socks \cup {NoSock}
    /\ state = [s \in Socks |-> IF s = socket_ THEN "CONNECTING" ELSE "CLOSED"]
    /\ outbuf = [s \in Socks |-> <<>>]
    /\ first = [s \in Socks |-> "none"]
    /\ due = [m \in Messages |-> BandwidthDelay]
    /\ counted = FALSE /\ blind = FALSE /\ torn = FALSE
    /\ broken = [s \in Socks |-> FALSE]
    /\ up = FALSE

\* AddWorkerManagerSocket, before the thread starts.
Init ==
    /\ socket_ \in Socks \cup {NoSock}
    /\ state = [s \in Socks |-> IF s = socket_ THEN "CONNECTING" ELSE "CLOSED"]
    /\ outbuf = [s \in Socks |-> <<>>]
    /\ first = [s \in Socks |-> "none"]
    /\ due = [m \in Messages |-> IF m = "MSG_WORKER_ONTIMER" THEN WorkerDelay
                                 ELSE BandwidthDelay]
    /\ counted = FALSE /\ blind = FALSE /\ torn = FALSE
    /\ broken = [s \in Socks |-> FALSE]
    /\ up = FALSE

Tick ==
    /\ \A m \in Messages : due[m] > -MaxLate
    /\ due' = [m \in Messages |-> due[m] - 1]
    /\ UNCHANGED <<sockets, counted, blind, broken, up>>

\* The thread dispatches the message that has been due the longest; the
\* handler clears it and posts it again.
Dispatch(message, delay) ==
    /\ due[message] <= 0
    /\ \A m \in Messages : due[message] <= due[m]
    /\ due' = [due EXCEPT ![message] = delay]

\* Mutant: a socket that is still connecting is replaced.
NeedsSocketUnlessConnected == ~Connected

\* Mutant: a closed socket is not replaced.
NeedsSocketIfNull == socket_ = NoSock

NeedsSocket == socket_ = NoSock \/ (socket_ # NoSock /\ state[socket_] = "CLOSED")

\* ReConnect, in which a second Connect fails unless the socket is closed.
ReConnect == state[socket_] = "CLOSED"

\* MSG_WORKER_ONTIMER.
OnWorkerTimer ==
    /\ Dispatch("MSG_WORKER_ONTIMER", WorkerDelay)
    /\ \/ NeedsSocket /\ Create /\ UNCHANGED blind
       \/ /\ Connected
          /\ sendPingMsg
          /\ UNCHANGED <<socket_, state, broken>>
       \/ /\ ~NeedsSocket /\ ~Connected
          /\ IF ReConnect THEN sendPingMsg
             ELSE UNCHANGED <<outbuf, first, torn, blind>>
          /\ UNCHANGED <<socket_, state, broken>>
    /\ UNCHANGED <<counted, up>>

\* MSG_BANDWIDTH_GET.
OnBandwidthTimer ==
    /\ Dispatch("MSG_BANDWIDTH_GET", BandwidthDelay)
    /\ counted' = TRUE
    /\ UNCHANGED <<sockets, blind, broken, up>>

\* Mutant: no connect message.
OnSocketConnectSilent(s) ==
    /\ state[s] = "CONNECTING"
    /\ state' = [state EXCEPT ![s] = "CONNECTED"]
    /\ UNCHANGED <<socket_, outbuf, first, torn, due, counted, blind, broken, up>>

\* The socket is connected.  The message goes to socket_, whichever it is.
OnSocketConnect(s) ==
    /\ state[s] = "CONNECTING"
    /\ state' = [state EXCEPT ![s] = "CONNECTED"]
    /\ IF s = socket_ THEN Send(s, "connect") ELSE sendConnectMsg
    /\ UNCHANGED <<socket_, due, counted, blind, broken, up>>

\* The peer closed, reset or refused the connection.
OnSocketClose(s) ==
    /\ state[s] # "CLOSED"
    /\ ~up \/ broken[s]
    /\ state' = [state EXCEPT ![s] = "CLOSED"]
    /\ UNCHANGED <<socket_, outbuf, first, torn, due, counted, blind, broken, up>>

\* A request is answered; any other packet is ignored.
OnWorkerManagerPacket == sendMessage("response")

\* ProcessInput hands over what was read as one packet and keeps nothing: what
\* follows a request in the same read is lost, and of a part of a request only
\* the memory behind it decides whether it is taken for one.
ProcessInput(s) ==
    /\ state[s] = "CONNECTED" /\ ~broken[s]
    /\ OnWorkerManagerPacket
    /\ UNCHANGED <<socket_, state, due, counted, blind, broken, up>>

-----------------------------------------------------------------------------
(* External: the manager.                                                  *)

PeerBreaks(s) ==
    /\ state[s] = "CONNECTED" /\ ~broken[s] /\ ~up
    /\ broken' = [broken EXCEPT ![s] = TRUE]
    /\ UNCHANGED <<sockets, due, counted, blind, up>>

ManagerRecovers ==
    /\ ~up
    /\ up' = TRUE
    /\ UNCHANGED <<sockets, due, counted, blind, broken>>

SocketEvents(s) == OnSocketConnect(s) \/ (broken[s] /\ OnSocketClose(s))

Next ==
    \/ Tick
    \/ OnWorkerTimer \/ OnBandwidthTimer
    \/ \E s \in Socks :
          \/ OnSocketConnect(s) \/ OnSocketClose(s)
          \/ ProcessInput(s) \/ OnWriteEvent(s) \/ PeerBreaks(s)
    \/ ManagerRecovers

Spec == Init /\ [][Next]_vars

-----------------------------------------------------------------------------
(* Properties.                                                             *)

\* The types; what waits in an out buffer begins in the middle of a message,
\* a message of which nothing was sent having been cleared.
TypeOK ==
    /\ socket_ \in Socks \cup {NoSock}
    /\ state \in [Socks -> {"CLOSED", "CONNECTING", "CONNECTED"}]
    /\ \A s \in Socks : outbuf[s] = <<>> \/ outbuf[s][1] = "rest"
    /\ first \in [Socks -> {"none", "connect", "ping", "response"}]
    /\ due \in [Messages -> (-MaxLate)..WorkerDelay]
    /\ counted \in BOOLEAN /\ blind \in BOOLEAN /\ torn \in BOOLEAN
    /\ broken \in [Socks -> BOOLEAN] /\ up \in BOOLEAN

\* RTC_DCHECK(socket == socket_) of OnSocketClose, whenever a socket can close:
\* socket_ is the only one that is open, so that a message sent for one
\* connection never goes out on another.
OnlySocketOpen == \A s \in Socks : state[s] # "CLOSED" => s = socket_

\* The first message on every connection is "connect": no ping or response
\* gets ahead of it, whatever the timer does and whatever part of a message
\* the kernel takes (Stalls says what it is trusted to take).
ConnectComesFirst == \A s \in Socks : first[s] \in {"none", "connect"}

\* No message follows one of which only a part was sent: dropping messages
\* "if we are blocking on send" keeps the stream a sequence of whole messages.
NothingTorn == ~torn

\* No ping reports counters that were never assigned: they have no initial
\* value, and only the order of the two timers keeps the first ping behind
\* the first MSG_BANDWIDTH_GET, however late the thread starts.
CountersBeforePing == ~blind

\* Once the manager is up for good, the worker is connected to it and has
\* announced itself, and stays so.
Registered ==
    up ~> [](Connected /\ first[socket_] = "connect")
=============================================================================
