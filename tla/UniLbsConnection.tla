-------------------------- MODULE UniLbsConnection --------------------------
(***************************************************************************)
(* A session with one LBS server: lbs/uni_lbs_connection.cpp on top of     *)
(* TcpClient.  The handlers of UniLbsConnection run inside the handlers of *)
(* TcpClient that call them, so an action here is an action of TcpClient   *)
(* conjoined with the handler it calls back.                               *)
(*                                                                         *)
(* External: the TCP byte stream in each direction (up, down), which keeps *)
(* the order of packets and dies with its connection; the LBS server,      *)
(* known by the replies the client handles; and the visitor, which         *)
(* creates and destroys channels and lists them when the client joins.     *)
(***************************************************************************)
EXTENDS TcpClient, Sequences

CONSTANTS
    Channels,   \* names of channels
    MaxUp,      \* bound: deltas are sent while fewer packets are in flight
    MaxDown     \* bound: packets in flight to the client

ASSUME QueueBounds == MaxUp \in Nat \ {0} /\ MaxDown \in Nat \ {0}

VARIABLES
    joined_,
    channels,       \* external: the visitor's channels
    up, down,       \* external: packets in flight
    srv_joined,     \* external: the server accepted the join on this connection
    srv_listed,     \* external: the server got the full channel list
    srv_channels,   \* external: the channels the server knows of
    healthy,        \* external: network and server have recovered for good
    accepted,       \* history: this connection's own join was accepted
    expired         \* history: a connection expired while joined_ and nobody
                    \* was told

server == <<srv_joined, srv_listed, srv_channels>>
session == <<joined_, channels, up, down, server, healthy, accepted, expired>>
lbs_vars == <<vars, session>>

JoinReq == [type |-> "JoinReq2"]
Ping == [type |-> "Ping"]
FullChannelList(cs) == [type |-> "FullList", channels |-> cs]
DeltaChannelList(a, r) == [type |-> "Delta", added |-> a, removed |-> r]

UpPackets ==
    {JoinReq, Ping} \cup {FullChannelList(cs) : cs \in SUBSET Channels}
                    \cup {DeltaChannelList({c}, {}) : c \in Channels}
                    \cup {DeltaChannelList({}, {c}) : c \in Channels}

\* JoinRes and JoinRes2 are handled alike; Other is any packet that the
\* connection ignores or hands to the visitor.
DownPackets == {"JoinOk", "JoinRefused", "Pong", "Other"}

LbsInit ==
    /\ Init
    /\ joined_ = FALSE
    /\ channels = {}
    /\ up = <<>> /\ down = <<>>
    /\ srv_joined = FALSE /\ srv_listed = FALSE /\ srv_channels = {}
    /\ healthy = FALSE
    /\ accepted = FALSE
    /\ expired = FALSE

-----------------------------------------------------------------------------
(* The network and the server of a new, a dropped or a silent connection.  *)

\* TcpConnection::SendPacket writes it; a vanished peer never reads it.
Written(m) == IF silent THEN up ELSE Append(up, m)

\* SendPacket of TcpClient: dropped unless connected.
ClientSends(m) == IF IsConnected THEN Written(m) ELSE up

\* SendPacket asks the same question first.
SendPacket(m) == up' = ClientSends(m)

\* The bounded stream: deltas wait below MaxUp, so that room is left for the
\* full list, and for a ping even after that.
DeltaRoom == silent \/ Len(up) < MaxUp
PingRoom == silent \/ Len(up) < MaxUp + 2

StreamStarts(first) ==
    /\ up' = first
    /\ down' = <<>>
    /\ srv_joined' = FALSE /\ srv_listed' = FALSE /\ srv_channels' = {}
    /\ accepted' = FALSE

StreamDies == StreamStarts(<<>>)

-----------------------------------------------------------------------------
(* Handlers of UniLbsConnection.                                           *)

\* OnConnect(true): asks to join; joined_ is left as it was.
HandleConnected ==
    /\ StreamStarts(<<JoinReq>>)
    /\ UNCHANGED <<joined_, channels, healthy, expired>>

\* Mutant: joined_ is not reset.
HandleDisconnectedStale ==
    /\ StreamDies
    /\ expired' = FALSE
    /\ UNCHANGED <<joined_, channels, healthy>>

\* OnConnect(false) and OnSocketError.
HandleDisconnected ==
    /\ joined_' = FALSE
    /\ expired' = FALSE
    /\ StreamDies
    /\ UNCHANGED <<channels, healthy>>

\* The one way a connection is closed without a callback: OnTimer of TcpClient
\* finds it expired.
NotNotified ==
    /\ StreamDies
    /\ expired' = (expired \/ joined_)
    /\ UNCHANGED <<joined_, channels, healthy>>

\* OnJoinReplied, OnJoin2Replied with code kOk.
HandleJoinOk ==
    /\ joined_' = TRUE
    /\ accepted' = TRUE
    /\ SendPacket(FullChannelList(channels))
    /\ UNCHANGED expired

HandlePacket(m) ==
    /\ IF m = "JoinOk"
       THEN HandleJoinOk
       ELSE UNCHANGED <<joined_, accepted, up, expired>>
    /\ UNCHANGED <<channels, server, healthy>>

\* Mutant: no ping is sent.
TimeToPingSilent ==
    UNCHANGED session

TimeToPing ==
    /\ IF joined_ THEN PingRoom /\ SendPacket(Ping) ELSE UNCHANGED up
    /\ UNCHANGED <<joined_, channels, down, server, healthy, accepted, expired>>

\* DoChannelCreate and DoChannelDestroy, after the visitor's own update.
SendDelta(delta) ==
    IF joined_ THEN DeltaRoom /\ SendPacket(delta) ELSE UNCHANGED up

DoChannelCreate(c) ==
    /\ c \notin channels
    /\ channels' = channels \cup {c}
    /\ SendDelta(DeltaChannelList({c}, {}))
    /\ UNCHANGED <<vars, joined_, down, server, healthy, accepted, expired>>

\* Mutant: the destroyed channel is announced as a new one.
DoChannelDestroySwapped(c) ==
    /\ c \in channels
    /\ channels' = channels \ {c}
    /\ SendDelta(DeltaChannelList({c}, {}))
    /\ UNCHANGED <<vars, joined_, down, server, healthy, accepted, expired>>

DoChannelDestroy(c) ==
    /\ c \in channels
    /\ channels' = channels \ {c}
    /\ SendDelta(DeltaChannelList({}, {c}))
    /\ UNCHANGED <<vars, joined_, down, server, healthy, accepted, expired>>

-----------------------------------------------------------------------------
(* TcpClient's actions with the callbacks they make.  Once healthy, nothing *)
(* fails any more, and packets and timers are handled within the second.   *)

Prompt ==
    /\ timer_in > 0
    /\ dialing = {}
    /\ \/ silent
       \/ /\ down = <<>>
          /\ \A i \in 1..Len(up) : up[i].type \notin {"JoinReq2", "Ping"}

LbsStartConnect ==
    \/ ~healthy /\ ConnectFailsLocally /\ UNCHANGED session
    \/ ~healthy /\ ConnectFailsAtOnce /\ HandleDisconnected
    \/ ConnectPends /\ UNCHANGED session

\* UniLbsClient calls Connect right after the constructor, before time passes
\* or the timer fires.
Created == calls > 0

LbsConnect ==
    calls = 0 /\ Call /\ LbsStartConnect /\ UNCHANGED <<settings, clocks>>

LbsTick == Created /\ (healthy => Prompt) /\ Tick /\ UNCHANGED session

LbsDialled ==
    \E b \in Bevs : \/ OnConnected(b) /\ HandleConnected
                    \/ ~healthy /\ OnConnectFailed(b) /\ HandleDisconnected

LbsError == \E b \in Bevs : ~healthy /\ OnError(b) /\ HandleDisconnected

LbsDeliver ==
    /\ down # <<>>
    /\ down' = Tail(down)
    /\ \E b \in Bevs : OnPacketReceived(b)
    /\ HandlePacket(Head(down))

LbsTimer ==
    /\ Created
    /\ \/ TimerExpires /\ NotNotified
       \/ TimerPings /\ TimeToPing
       \/ TimerDials /\ LbsStartConnect
       \/ TimerIdles /\ UNCHANGED session

LbsPeerVanishes == ~healthy /\ PeerVanishes /\ UNCHANGED session

-----------------------------------------------------------------------------
(* External: the LBS server.                                               *)

Reply(m) == Len(down) < MaxDown /\ down' = Append(down, m)

ServerReads(type) ==
    /\ up # <<>>
    /\ ~silent
    /\ Head(up).type = type
    /\ up' = Tail(up)
    /\ UNCHANGED <<vars, joined_, channels, healthy, accepted, expired>>

ServerJoin ==
    /\ ServerReads("JoinReq2")
    /\ \/ srv_joined' = TRUE /\ Reply("JoinOk")
       \/ ~healthy /\ srv_joined' = FALSE /\ Reply("JoinRefused")
       \/ ~healthy /\ srv_joined' = FALSE /\ UNCHANGED down
    /\ UNCHANGED <<srv_listed, srv_channels>>

\* The ping of a service that has not joined is not answered.
ServerPing ==
    /\ ServerReads("Ping")
    /\ IF srv_joined THEN Reply("Pong") ELSE UNCHANGED down
    /\ UNCHANGED server

ServerFullList ==
    /\ ServerReads("FullList")
    /\ srv_channels' = Head(up).channels
    /\ srv_listed' = TRUE
    /\ UNCHANGED <<down, srv_joined>>

ServerDelta ==
    /\ ServerReads("Delta")
    /\ srv_channels' = (srv_channels \cup Head(up).added) \ Head(up).removed
    /\ UNCHANGED <<down, srv_joined, srv_listed>>

ServerSends ==
    /\ srv_joined /\ ~silent /\ ~healthy
    /\ Reply("Other")
    /\ UNCHANGED <<vars, joined_, channels, up, server, healthy, accepted,
                   expired>>

Server == ServerJoin \/ ServerPing \/ ServerFullList \/ ServerDelta

\* Network and server recover, for good.
Recover ==
    /\ ~healthy
    /\ healthy' = TRUE
    /\ UNCHANGED <<vars, joined_, channels, up, down, server, accepted, expired>>

LbsNext ==
    \/ LbsTick
    \/ LbsConnect
    \/ LbsDialled
    \/ LbsError
    \/ LbsDeliver
    \/ LbsTimer
    \/ LbsPeerVanishes
    \/ \E c \in Channels : DoChannelCreate(c) \/ DoChannelDestroy(c)
    \/ Server
    \/ ServerSends
    \/ Recover

LbsSpec == LbsInit /\ [][LbsNext]_lbs_vars

\* As for TcpClient; besides, packets arrive and the server reads its input.
LbsFairSpec ==
    /\ LbsSpec
    /\ WF_lbs_vars(LbsConnect)
    /\ WF_lbs_vars(LbsTick)
    /\ WF_lbs_vars(LbsTimer)
    /\ WF_lbs_vars(LbsDialled)
    /\ WF_lbs_vars(LbsDeliver)
    /\ WF_lbs_vars(Server)

-----------------------------------------------------------------------------
(* Properties.                                                             *)

\* joined_ can be true on a connection whose own join was not accepted (pings
\* and deltas are then sent ahead of the answer) only if an earlier connection
\* ended in the one way that leaves joined_ as it is: OnTimer found it expired
\* and closed it without telling anybody.
StaleJoinNeedsExpiry == (joined_ /\ IsConnected /\ ~accepted) => expired

\* Once the server has processed the full list that answers a join, and reads
\* everything sent since, it knows exactly the visitor's channels: no channel
\* created or destroyed while the join was under way is lost, and deltas that
\* a stale joined_ let through earlier do no harm.
ChannelsInSync ==
    (IsConnected /\ ~silent /\ srv_listed /\ up = <<>>)
        => srv_channels = channels

\* A connection whose join is refused or never answered is not kept: it ends
\* (no ping keeps it alive), so that a new one can ask again.
UnjoinedIsDropped ==
    (IsConnected /\ ~accepted) ~> (accepted \/ ~IsConnected)

\* After any history of failures, refusals, vanished peers and expiries, once
\* network and server work for good the client ends up joined and stays so:
\* its pings keep the connection from expiring.
JoinedForGood == healthy ~> [](joined_ /\ accepted /\ IsConnected)
=============================================================================
