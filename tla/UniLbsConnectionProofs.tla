----------------------- MODULE UniLbsConnectionProofs -----------------------
(***************************************************************************)
(* Theorems about a session with an LBS server, for every value of the     *)
(* constants.                                                              *)
(*                                                                         *)
(* ChannelsInSync speaks of the moment when nothing is in flight.  The     *)
(* invariant that carries it, Current, speaks of every moment: the last    *)
(* packet in flight that mentions a channel says whether the channel       *)
(* exists now, and where none mentions it the server that has a full list  *)
(* knows the truth.                                                        *)
(***************************************************************************)
EXTENDS UniLbsConnection, TcpClientProofs

\* The types of the session's state.
SessionTypeOK ==
    /\ joined_ \in BOOLEAN /\ accepted \in BOOLEAN /\ expired \in BOOLEAN
    /\ srv_joined \in BOOLEAN /\ srv_listed \in BOOLEAN /\ healthy \in BOOLEAN
    /\ channels \subseteq Channels /\ srv_channels \subseteq Channels
    /\ up \in Seq(UpPackets)

Mentions(m, c) ==
    \/ m.type = "FullList"
    \/ m.type = "Delta" /\ c \in m.added \cup m.removed

Announces(m, c) ==
    \/ m.type = "FullList" /\ c \in m.channels
    \/ m.type = "Delta" /\ c \in m.added

\* i is the last of the packets in q that mentions c.
LastMention(q, i, c) ==
    /\ i \in 1..Len(q)
    /\ Mentions(q[i], c)
    /\ \A j \in 1..Len(q) : j > i => ~Mentions(q[j], c)

Unmentioned(q, c) == \A i \in 1..Len(q) : ~Mentions(q[i], c)

NoChannels(q) == \A i \in 1..Len(q) : q[i].type \in {"JoinReq2", "Ping"}

\* What the server will believe of channel c after reading the packets q.
CurrentIn(q, listed, known, cs, c) ==
    /\ \A i \in 1..Len(q) : LastMention(q, i, c) => (Announces(q[i], c) <=> c \in cs)
    /\ (listed /\ Unmentioned(q, c)) => (c \in known <=> c \in cs)

Current ==
    ~silent => \A c \in Channels :
                  CurrentIn(up, srv_listed, srv_channels, channels, c)

\* Nothing of a stream outlives its connection, and before the first Connect
\* there is none.
StreamOfConnection ==
    /\ ~IsConnected => up = <<>> /\ ~srv_listed /\ ~accepted
    /\ silent => conn_ # NoBev
    /\ calls = 0 => conn_ = NoBev /\ pending_ = NoBev

\* Before a join is answered no channel is sent.
QuietUnlessJoined ==
    ~joined_ => ~srv_listed /\ NoChannels(up)

\* StaleJoinNeedsExpiry without its premise that a connection is up.
StaleNeedsExpiry == joined_ /\ ~accepted => expired

SessionInv ==
    /\ SessionTypeOK
    /\ StreamOfConnection
    /\ QuietUnlessJoined
    /\ StaleNeedsExpiry
    /\ Current

-----------------------------------------------------------------------------
(* The packets of a stream, read and written.                              *)

\* What each packet of the client says about channels.
LEMMA PacketFacts ==
    /\ JoinReq \in UpPackets /\ Ping \in UpPackets
    /\ \A c : ~Mentions(JoinReq, c) /\ ~Mentions(Ping, c)
    /\ \A cs \in SUBSET Channels :
          /\ FullChannelList(cs) \in UpPackets
          /\ \A c : /\ Mentions(FullChannelList(cs), c)
                    /\ Announces(FullChannelList(cs), c) <=> c \in cs
    /\ \A c \in Channels :
          /\ DeltaChannelList({c}, {}) \in UpPackets
          /\ DeltaChannelList({}, {c}) \in UpPackets
          /\ \A d : /\ Mentions(DeltaChannelList({c}, {}), d) <=> d = c
                    /\ Mentions(DeltaChannelList({}, {c}), d) <=> d = c
          /\ Announces(DeltaChannelList({c}, {}), c)
          /\ ~Announces(DeltaChannelList({}, {c}), c)
BY DEF UpPackets, JoinReq, Ping, FullChannelList, DeltaChannelList, Mentions,
   Announces

\* A stream that has just begun says nothing of any channel.
LEMMA FreshStream ==
    ASSUME NEW q \in {<<>>, <<JoinReq>>}, NEW c, NEW known, NEW cs
    PROVE  /\ q \in Seq(UpPackets)
           /\ NoChannels(q)
           /\ CurrentIn(q, FALSE, known, cs, c)
<1>1. \A i \in 1..Len(q) : q[i] = JoinReq
  OBVIOUS
<1>2. q \in Seq(UpPackets)
  <2>1. JoinReq \in UpPackets
    BY PacketFacts
  <2>2. <<>> \in Seq(UpPackets) /\ <<JoinReq>> \in Seq(UpPackets)
    BY <2>1
  <2>3. QED
    BY <2>2
<1>3. Unmentioned(q, c)
  BY <1>1, PacketFacts DEF Unmentioned
<1>4. NoChannels(q)
  BY <1>1 DEF NoChannels, JoinReq
<1>5. QED
  BY <1>2, <1>3, <1>4 DEF Unmentioned, CurrentIn, LastMention

\* Sending a packet that tells the truth about c, or does not mention it while
\* nothing about it changes, keeps c current.
LEMMA SendKeepsCurrent ==
    ASSUME NEW q \in Seq(UpPackets), NEW m \in UpPackets, NEW c,
           NEW listed, NEW known, NEW cs, NEW cs0,
           CurrentIn(q, listed, known, cs0, c),
           IF Mentions(m, c) THEN Announces(m, c) <=> c \in cs
                             ELSE c \in cs0 <=> c \in cs
    PROVE  CurrentIn(Append(q, m), listed, known, cs, c)
<1> DEFINE r == Append(q, m)
<1>1. /\ r \in Seq(UpPackets) /\ Len(r) = Len(q) + 1 /\ Len(q) \in Nat
      /\ r[Len(q) + 1] = m
      /\ \A i \in 1..Len(q) : r[i] = q[i]
  OBVIOUS
<1> HIDE DEF r
<1>2. CASE Mentions(m, c)
  <2>1. ~Unmentioned(r, c)
    BY <1>1, <1>2 DEF Unmentioned
  <2>2. ASSUME NEW i \in 1..Len(r), LastMention(r, i, c)
        PROVE  r[i] = m
    BY <1>1, <1>2, <2>2 DEF LastMention
  <2>3. QED
    BY <1>2, <2>1, <2>2 DEF CurrentIn, r
<1>3. CASE ~Mentions(m, c)
  <2>1. Unmentioned(r, c) => Unmentioned(q, c)
    BY <1>1 DEF Unmentioned
  <2>2. ASSUME NEW i \in 1..Len(r), LastMention(r, i, c)
        PROVE  i \in 1..Len(q) /\ LastMention(q, i, c) /\ r[i] = q[i]
    BY <1>1, <1>3, <2>2 DEF LastMention
  <2>3. QED
    BY <1>3, <2>1, <2>2 DEF CurrentIn, r
<1>4. QED
  BY <1>2, <1>3

\* Reading the head of the stream keeps c current, if the server takes the
\* packet's word for c and leaves what the packet does not mention.
LEMMA ReadKeepsCurrent ==
    ASSUME NEW q \in Seq(UpPackets), q # <<>>, NEW c,
           NEW listed, NEW known, NEW cs, NEW listed2, NEW known2,
           CurrentIn(q, listed, known, cs, c),
           IF Mentions(Head(q), c)
           THEN c \in known2 <=> Announces(Head(q), c)
           ELSE (listed2 => listed) /\ (c \in known2 <=> c \in known)
    PROVE  CurrentIn(Tail(q), listed2, known2, cs, c)
<1> DEFINE r == Tail(q)
<1>1. /\ r \in Seq(UpPackets) /\ Len(q) = Len(r) + 1 /\ Len(r) \in Nat
      /\ q[1] = Head(q)
      /\ \A i \in 1..Len(r) : r[i] = q[i + 1]
  OBVIOUS
<1> HIDE DEF r
<1>2. ASSUME NEW i \in 1..Len(r), LastMention(r, i, c)
      PROVE  /\ i + 1 \in 1..Len(q) /\ r[i] = q[i + 1]
             /\ LastMention(q, i + 1, c)
  <2>1. i + 1 \in 1..Len(q) /\ r[i] = q[i + 1] /\ Mentions(q[i + 1], c)
    BY <1>1, <1>2 DEF LastMention
  <2>2. ASSUME NEW j \in 1..Len(q), j > i + 1
        PROVE  ~Mentions(q[j], c)
    <3>1. j - 1 \in 1..Len(r) /\ j - 1 > i /\ q[j] = r[j - 1]
      BY <1>1, <2>2
    <3>2. QED
      BY <3>1, <1>2 DEF LastMention
  <2>3. QED
    BY <2>1, <2>2 DEF LastMention
<1>3. ASSUME Unmentioned(r, c), NEW j \in 1..Len(q), j > 1
      PROVE  ~Mentions(q[j], c)
  <2>1. j - 1 \in 1..Len(r) /\ q[j] = r[j - 1]
    BY <1>1, <1>3
  <2>2. QED
    BY <2>1, <1>3 DEF Unmentioned
<1>4. CASE Mentions(Head(q), c)
  <2>1. Unmentioned(r, c) => LastMention(q, 1, c)
    BY <1>1, <1>3, <1>4 DEF LastMention
  <2>2. Unmentioned(r, c) => (Announces(Head(q), c) <=> c \in cs)
    BY <1>1, <2>1 DEF CurrentIn
  <2>3. QED
    BY <1>2, <1>4, <2>2 DEF CurrentIn, r
<1>5. CASE ~Mentions(Head(q), c)
  <2>1. Unmentioned(r, c) => Unmentioned(q, c)
    <3>1. SUFFICES ASSUME Unmentioned(r, c), NEW j \in 1..Len(q)
                   PROVE  ~Mentions(q[j], c)
      BY DEF Unmentioned
    <3>2. j = 1 \/ j > 1
      BY <1>1
    <3>3. QED
      BY <3>1, <3>2, <1>1, <1>3, <1>5
  <2>2. QED
    BY <1>2, <1>5, <2>1 DEF CurrentIn, r
<1>6. QED
  BY <1>4, <1>5

-----------------------------------------------------------------------------
(* The client inside the session.                                          *)

\* An established connection is one that IsConnected (Close and Connect keep
\* connecting_ and conn_ apart).
LEMMA OpenIsConnected ==
    ASSUME Inv
    PROVE  /\ open # {} => IsConnected
           /\ dialing # {} => ~IsConnected
           /\ conn_ # NoBev <=> IsConnected
BY NoBevIsNull DEF Inv, AssertionsHold, NoLeakNoDangling, IsConnected

\* Every step of the session is a step of the client, or leaves it alone.
LEMMA SessionStepOfClient ==
    ASSUME LbsNext
    PROVE  [Next]_vars
<1> USE DEF vars
<1>1. CASE LbsTick
  BY <1>1 DEF LbsTick, Next
<1>2. CASE LbsConnect
  <2>1. StartConnect
    BY <1>2 DEF LbsConnect, LbsStartConnect, StartConnect
  <2>2. QED
    BY <1>2, <2>1 DEF LbsConnect, OwnerConnects, Next
<1>3. CASE LbsDialled
  BY <1>3 DEF LbsDialled, Dialled, Next
<1>4. CASE LbsError
  BY <1>4 DEF LbsError, Next
<1>5. CASE LbsDeliver
  BY <1>5 DEF LbsDeliver, Next
<1>6. CASE LbsTimer
  BY <1>6 DEF LbsTimer, LbsStartConnect, TimerRetries, StartConnect, OnTimer, Next
<1>7. CASE LbsPeerVanishes
  BY <1>7 DEF LbsPeerVanishes, Next
<1>8. CASE Server \/ ServerSends \/ Recover
  BY <1>8 DEF Server, ServerJoin, ServerPing, ServerFullList, ServerDelta,
     ServerReads, ServerSends, Recover
<1>9. ASSUME NEW c \in Channels, DoChannelCreate(c) \/ DoChannelDestroy(c)
      PROVE  UNCHANGED vars
  BY <1>9 DEF DoChannelCreate, DoChannelDestroy
<1>10. QED
  BY <1>1, <1>2, <1>3, <1>4, <1>5, <1>6, <1>7, <1>8, <1>9 DEF LbsNext

\* The client's invariant survives in the session.
LEMMA ClientInv == Inv /\ [LbsNext]_lbs_vars => Inv'
<1> SUFFICES ASSUME Inv, [LbsNext]_lbs_vars PROVE Inv'
  OBVIOUS
<1>1. [Next]_vars
  BY SessionStepOfClient DEF lbs_vars
<1>2. QED
  BY <1>1, StepInv

-----------------------------------------------------------------------------
(* The session's invariant, by what a step does to the stream.             *)

\* The stream of a new or a dropped connection (StreamStarts).
LEMMA StartKeeps ==
    ASSUME SessionInv, NEW q \in {<<>>, <<JoinReq>>}, StreamStarts(q),
           ~IsConnected' => q = <<>>,
           silent' => conn_' # NoBev,
           calls' = 0 => conn_' = NoBev /\ pending_' = NoBev,
           joined_' \in BOOLEAN, expired' \in BOOLEAN,
           joined_' => expired',
           UNCHANGED <<channels, healthy>>
    PROVE  SessionInv'
<1>1. /\ up' = q /\ srv_joined' = FALSE /\ srv_listed' = FALSE
      /\ srv_channels' = {} /\ accepted' = FALSE
  BY DEF StreamStarts
<1>2. /\ q \in Seq(UpPackets)
      /\ NoChannels(q)
      /\ \A c : CurrentIn(q, FALSE, {}, channels, c)
  BY FreshStream
<1>3. SessionTypeOK'
  BY <1>1, <1>2 DEF SessionInv, SessionTypeOK
<1>4. StreamOfConnection'
  BY <1>1 DEF StreamOfConnection
<1>5. QuietUnlessJoined'
  BY <1>1, <1>2 DEF QuietUnlessJoined
<1>6. StaleNeedsExpiry'
  BY DEF StaleNeedsExpiry
<1>7. Current'
  BY <1>1, <1>2 DEF Current
<1>8. QED
  BY <1>3, <1>4, <1>5, <1>6, <1>7 DEF SessionInv

\* A packet the client sends over its connection (SendPacket): if it says of
\* every channel it mentions whether the channel now exists, and nothing
\* changed about the others, the invariant is kept.
LEMMA PacketKeeps ==
    ASSUME SessionInv, NEW m \in UpPackets, SendPacket(m),
           UNCHANGED <<links, silent, calls, server, healthy, expired>>,
           joined_' = TRUE,
           channels' \subseteq Channels,
           accepted' \in BOOLEAN,
           ~IsConnected => accepted' = accepted,
           ~accepted' => ~accepted /\ joined_,
           \A c \in Channels :
              IF Mentions(m, c) THEN Announces(m, c) <=> c \in channels'
                                ELSE c \in channels <=> c \in channels'
    PROVE  SessionInv'
<1>1. up' = IF IsConnected /\ ~silent THEN Append(up, m) ELSE up
  BY DEF SendPacket, ClientSends, Written
<1>2. up \in Seq(UpPackets) /\ Append(up, m) \in Seq(UpPackets)
  BY DEF SessionInv, SessionTypeOK
<1>3. UNCHANGED IsConnected /\ UNCHANGED <<srv_joined, srv_listed, srv_channels>>
  BY DEF IsConnected, links, server
<1>4. SessionTypeOK'
  BY <1>1, <1>2, <1>3 DEF SessionInv, SessionTypeOK
<1>5. StreamOfConnection'
  BY <1>1, <1>3 DEF SessionInv, StreamOfConnection, links
<1>6. QuietUnlessJoined'
  BY DEF QuietUnlessJoined
<1>7. StaleNeedsExpiry'
  BY DEF SessionInv, StaleNeedsExpiry
<1>8. Current'
  <2>1. CASE ~silent /\ IsConnected
    <3>1. SUFFICES ASSUME NEW c \in Channels
                   PROVE  CurrentIn(Append(up, m), srv_listed, srv_channels,
                                    channels', c)
      BY <1>1, <1>3, <2>1 DEF Current
    <3>2. CurrentIn(up, srv_listed, srv_channels, channels, c)
      BY <2>1 DEF SessionInv, Current
    <3>3. QED
      BY <1>2, <3>2, SendKeepsCurrent
  <2>2. CASE ~IsConnected
    <3>1. up' = <<>> /\ srv_listed' = FALSE
      BY <1>1, <1>3, <2>2 DEF SessionInv, StreamOfConnection, SessionTypeOK
    <3>2. QED
      BY <3>1, FreshStream DEF Current
  <2>3. CASE silent
    BY <2>3 DEF Current
  <2>4. QED
    BY <2>1, <2>2, <2>3
<1>9. QED
  BY <1>4, <1>5, <1>6, <1>7, <1>8 DEF SessionInv

\* Steps that touch neither the session nor the connection.
LEMMA IdleKeeps ==
    ASSUME SessionInv, UNCHANGED <<links, silent, calls>>,
           UNCHANGED <<joined_, channels, up, server, accepted, expired>>,
           healthy' \in BOOLEAN
    PROVE  SessionInv'
<1>1. UNCHANGED IsConnected /\ UNCHANGED <<srv_joined, srv_listed, srv_channels>>
  BY DEF IsConnected, links, server
<1>2. SessionTypeOK' /\ QuietUnlessJoined' /\ StaleNeedsExpiry'
  BY <1>1 DEF SessionInv, SessionTypeOK, QuietUnlessJoined, StaleNeedsExpiry
<1>3. StreamOfConnection'
  BY <1>1 DEF SessionInv, StreamOfConnection, links
<1>4. Current'
  BY <1>1 DEF SessionInv, Current
<1>5. QED
  BY <1>2, <1>3, <1>4 DEF SessionInv

\* Dialling while no connection is up.
LEMMA DialKeeps ==
    ASSUME Inv, SessionInv, ~IsConnected, LbsStartConnect, calls' # 0
    PROVE  SessionInv'
<1>1. conn_' = NoBev /\ silent' = FALSE /\ ~IsConnected'
  BY DEF LbsStartConnect, ConnectFailsLocally, ConnectFailsAtOnce, ConnectPends,
     BeginConnect, IsConnected
<1>2. CASE HandleDisconnected
  BY <1>1, <1>2, StartKeeps DEF HandleDisconnected, StreamDies
<1>3. CASE UNCHANGED session
  <2>1. /\ up' = <<>> /\ srv_listed' = FALSE /\ accepted' = FALSE
        /\ UNCHANGED <<joined_, channels, up, accepted, expired, healthy,
                       srv_joined, srv_listed, srv_channels>>
    BY <1>3 DEF session, server, SessionInv, StreamOfConnection, SessionTypeOK
  <2>2. SessionTypeOK' /\ QuietUnlessJoined' /\ StaleNeedsExpiry'
    BY <2>1 DEF SessionInv, SessionTypeOK, QuietUnlessJoined, StaleNeedsExpiry
  <2>3. StreamOfConnection'
    BY <1>1, <2>1 DEF StreamOfConnection
  <2>4. Current'
    BY <2>1, FreshStream DEF Current
  <2>5. QED
    BY <2>2, <2>3, <2>4 DEF SessionInv
<1>4. QED
  BY <1>2, <1>3 DEF LbsStartConnect

\* The server reads the head of the stream.
LEMMA ReadKeeps ==
    ASSUME SessionInv, up # <<>>, ~silent, up' = Tail(up),
           UNCHANGED <<links, silent, calls>>,
           UNCHANGED <<joined_, channels, healthy, accepted, expired>>,
           srv_joined' \in BOOLEAN, srv_listed' \in BOOLEAN,
           srv_channels' \subseteq Channels,
           srv_listed' => srv_listed \/ ~NoChannels(up),
           \A c \in Channels :
              IF Mentions(Head(up), c)
              THEN c \in srv_channels' <=> Announces(Head(up), c)
              ELSE /\ srv_listed' => srv_listed
                   /\ c \in srv_channels' <=> c \in srv_channels
    PROVE  SessionInv'
<1>1. up \in Seq(UpPackets) /\ Tail(up) \in Seq(UpPackets)
  BY DEF SessionInv, SessionTypeOK
<1>2. UNCHANGED IsConnected /\ IsConnected
  BY DEF IsConnected, links, SessionInv, StreamOfConnection
<1>3. ASSUME NEW c \in Channels
      PROVE  CurrentIn(Tail(up), srv_listed', srv_channels', channels, c)
  <2>1. CurrentIn(up, srv_listed, srv_channels, channels, c)
    BY DEF SessionInv, Current
  <2>2. QED
    BY <1>1, <2>1, ReadKeepsCurrent
<1>4. SessionTypeOK'
  BY <1>1 DEF SessionInv, SessionTypeOK
<1>5. StreamOfConnection'
  BY <1>2 DEF SessionInv, StreamOfConnection, links
<1>6. QuietUnlessJoined' /\ StaleNeedsExpiry'
  <2>1. NoChannels(up) => NoChannels(Tail(up))
    BY <1>1 DEF NoChannels
  <2>2. QED
    BY <2>1 DEF SessionInv, QuietUnlessJoined, StaleNeedsExpiry
<1>7. Current'
  BY <1>3 DEF Current
<1>8. QED
  BY <1>4, <1>5, <1>6, <1>7 DEF SessionInv

\* LbsInit establishes both invariants.
LEMMA SessionInit == LbsInit => Inv /\ SessionInv
<1> SUFFICES ASSUME LbsInit PROVE Inv /\ SessionInv
  OBVIOUS
<1>1. Inv
  BY InitInv DEF LbsInit
<1>2. /\ conn_ = NoBev /\ pending_ = NoBev /\ silent = FALSE
      /\ joined_ = FALSE /\ channels = {} /\ up = <<>> /\ srv_joined = FALSE
      /\ srv_listed = FALSE /\ srv_channels = {} /\ healthy = FALSE
      /\ accepted = FALSE /\ expired = FALSE
  BY DEF LbsInit, Init
<1>3. SessionTypeOK /\ StreamOfConnection /\ StaleNeedsExpiry
  BY <1>2, FreshStream DEF SessionTypeOK, StreamOfConnection, StaleNeedsExpiry
<1>4. QuietUnlessJoined /\ Current
  BY <1>2, FreshStream DEF QuietUnlessJoined, Current
<1>5. QED
  BY <1>1, <1>3, <1>4 DEF SessionInv

\* Every step of the session keeps its invariant.
LEMMA SessionStep == Inv /\ SessionInv /\ [LbsNext]_lbs_vars => SessionInv'
<1> SUFFICES ASSUME Inv, SessionInv, [LbsNext]_lbs_vars PROVE SessionInv'
  OBVIOUS
<1>0. /\ joined_ \in BOOLEAN /\ expired \in BOOLEAN /\ healthy \in BOOLEAN
      /\ calls \in Nat
  BY ConstantsAreSeconds DEF Inv, TypeOK, SessionInv, SessionTypeOK
<1>1. CASE LbsTick \/ UNCHANGED lbs_vars
  BY <1>0, <1>1, IdleKeeps DEF LbsTick, Tick, lbs_vars, vars, session
<1>2. CASE LbsConnect
  <2>1. calls' # 0 /\ ~IsConnected /\ LbsStartConnect
    BY <1>0, <1>2 DEF LbsConnect, Call, SessionInv, StreamOfConnection,
       IsConnected
  <2>2. QED
    BY <2>1, DialKeeps
<1>3. ASSUME NEW b \in Bevs, OnConnected(b), HandleConnected
      PROVE  SessionInv'
  <2>1. /\ pending_ # NoBev /\ ~IsConnected /\ dialing = {pending_}
    BY <1>3, OpenIsConnected DEF OnConnected, Inv, NoLeakNoDangling
  <2>2. calls # 0 /\ ~accepted
    BY <2>1 DEF SessionInv, StreamOfConnection
  <2>3. IsConnected' /\ conn_' # NoBev /\ calls' = calls
    BY <1>3, <2>1 DEF OnConnected, IsConnected
  <2>4. joined_ => expired
    BY <2>2 DEF SessionInv, StaleNeedsExpiry
  <2>5. QED
    BY <1>0, <1>3, <2>2, <2>3, <2>4, StartKeeps DEF HandleConnected
<1>4. ASSUME HandleDisconnected \/ NotNotified, conn_' = NoBev,
             silent' = FALSE, calls' = calls, pending_' = NoBev
      PROVE  SessionInv'
  <2>1. ~IsConnected'
    BY <1>4 DEF IsConnected
  <2>2. /\ StreamStarts(<<>>) /\ joined_' \in BOOLEAN /\ expired' \in BOOLEAN
        /\ joined_' => expired'
        /\ UNCHANGED <<channels, healthy>>
    <3>1. CASE HandleDisconnected
      BY <3>1 DEF HandleDisconnected, StreamDies
    <3>2. CASE NotNotified
      <4>1. /\ StreamStarts(<<>>) /\ joined_' = joined_
            /\ UNCHANGED <<channels, healthy>>
        BY <3>2 DEF NotNotified, StreamDies
      <4>2. expired' = (expired \/ joined_)
        BY <3>2 DEF NotNotified
      <4>3. expired' \in BOOLEAN /\ (joined_ => expired')
        BY <1>0, <4>2, Zenon
      <4>4. QED
        BY <1>0, <4>1, <4>3
    <3>3. QED
      BY <1>4, <3>1, <3>2
  <2>3. QED
    BY <1>4, <2>1, <2>2, StartKeeps
<1>5. ASSUME NEW b \in Bevs, OnConnectFailed(b), HandleDisconnected
      PROVE  SessionInv'
  <2>1. /\ conn_' = NoBev /\ pending_' = NoBev /\ calls' = calls
        /\ silent' = FALSE
    BY <1>5, OpenIsConnected DEF OnConnectFailed, Inv, TypeOK, AssertionsHold,
       SessionInv, StreamOfConnection
  <2>2. QED
    BY <1>4, <1>5, <2>1
<1>6. ASSUME NEW b \in Bevs, OnError(b), HandleDisconnected
      PROVE  SessionInv'
  BY <1>4, <1>6, CloseKeeps DEF OnError
<1>7. CASE LbsDeliver
  <2>1. /\ IsConnected /\ ~silent /\ UNCHANGED <<links, silent, calls>>
        /\ HandlePacket(Head(down))
    BY <1>7, OpenIsConnected DEF LbsDeliver, OnPacketReceived
  <2>2. CASE Head(down) = "JoinOk"
    <3>1. /\ joined_' = TRUE /\ accepted' = TRUE
          /\ SendPacket(FullChannelList(channels))
          /\ UNCHANGED <<expired, channels, server, healthy>>
      BY <2>1, <2>2 DEF HandlePacket, HandleJoinOk
    <3>2. channels \in SUBSET Channels
      BY DEF SessionInv, SessionTypeOK
    <3>3. QED
      BY <2>1, <3>1, <3>2, PacketKeeps, PacketFacts
  <2>3. CASE Head(down) # "JoinOk"
    BY <1>0, <2>1, <2>3, IdleKeeps DEF HandlePacket
  <2>4. QED
    BY <2>2, <2>3
<1>8. CASE LbsTimer
  <2>1. CASE TimerExpires /\ NotNotified
    BY <1>4, <2>1, CloseKeeps DEF TimerExpires
  <2>2. CASE TimerPings /\ TimeToPing
    <3>1. UNCHANGED <<links, silent, calls>>
      BY <2>2 DEF TimerPings
    <3>2. CASE joined_
      <4>1. /\ SendPacket(Ping) /\ joined_' = TRUE
            /\ UNCHANGED <<channels, server, healthy, accepted, expired>>
        BY <1>0, <2>2, <3>2 DEF TimeToPing
      <4>2. channels' \subseteq Channels /\ accepted' \in BOOLEAN
        BY <4>1 DEF SessionInv, SessionTypeOK
      <4>3. QED
        BY <3>1, <3>2, <4>1, <4>2, PacketKeeps, PacketFacts
    <3>3. CASE ~joined_
      BY <1>0, <2>2, <3>1, <3>3, IdleKeeps DEF TimeToPing
    <3>4. QED
      BY <3>2, <3>3
  <2>3. CASE TimerDials /\ LbsStartConnect
    <3>1. ~IsConnected /\ calls' # 0
      BY <1>0, <1>8, <2>3 DEF LbsTimer, Created, TimerDials, MayRetry
    <3>2. QED
      BY <2>3, <3>1, DialKeeps
  <2>4. CASE TimerIdles /\ UNCHANGED session
    BY <1>0, <2>4, IdleKeeps DEF TimerIdles, session
  <2>5. QED
    BY <1>8, <2>1, <2>2, <2>3, <2>4 DEF LbsTimer
<1>9. CASE LbsPeerVanishes
  <2>1. /\ silent' = TRUE /\ conn_' # NoBev /\ UNCHANGED <<links, calls>>
        /\ UNCHANGED session
    BY <1>9 DEF LbsPeerVanishes, PeerVanishes, links
  <2>2. /\ UNCHANGED IsConnected
        /\ UNCHANGED <<joined_, channels, up, srv_joined, srv_listed,
                       srv_channels, healthy, accepted, expired>>
    BY <2>1 DEF IsConnected, links, session, server
  <2>3. SessionTypeOK' /\ QuietUnlessJoined' /\ StaleNeedsExpiry'
    BY <2>2 DEF SessionInv, SessionTypeOK, QuietUnlessJoined, StaleNeedsExpiry
  <2>4. StreamOfConnection'
    BY <2>1, <2>2 DEF SessionInv, StreamOfConnection, links
  <2>5. Current'
    BY <2>1 DEF Current
  <2>6. QED
    BY <2>3, <2>4, <2>5 DEF SessionInv
<1>10. ASSUME NEW c \in Channels, NEW m \in UpPackets, SendDelta(m),
              channels' \subseteq Channels,
              UNCHANGED <<vars, joined_, server, healthy, accepted, expired>>,
              \A d : Mentions(m, d) <=> d = c,
              Announces(m, c) <=> c \in channels',
              \A d \in Channels : d # c => (d \in channels <=> d \in channels')
       PROVE  SessionInv'
  <2>1. UNCHANGED <<links, silent, calls>>
    BY <1>10 DEF vars
  <2>2. CASE joined_
    <3>1. SendPacket(m) /\ joined_' = TRUE /\ accepted' = accepted
      BY <1>0, <1>10, <2>2 DEF SendDelta
    <3>2. accepted' \in BOOLEAN
      BY <3>1 DEF SessionInv, SessionTypeOK
    <3>3. QED
      BY <1>10, <2>1, <2>2, <3>1, <3>2, PacketKeeps
  <2>3. CASE ~joined_
    <3>1. /\ UNCHANGED <<up, srv_listed, srv_joined, srv_channels>>
          /\ UNCHANGED IsConnected /\ joined_' = FALSE
      BY <1>0, <1>10, <2>1, <2>3 DEF SendDelta, server, IsConnected, links
    <3>2. ~srv_listed /\ NoChannels(up)
      BY <2>3 DEF SessionInv, QuietUnlessJoined
    <3>3. SessionTypeOK' /\ StaleNeedsExpiry' /\ QuietUnlessJoined'
      BY <1>10, <3>1, <3>2 DEF SessionInv, SessionTypeOK, StaleNeedsExpiry,
         QuietUnlessJoined
    <3>4. StreamOfConnection'
      BY <1>10, <2>1, <3>1 DEF SessionInv, StreamOfConnection, links
    <3>5. Current'
      BY <3>1, <3>2 DEF Current, CurrentIn, NoChannels, LastMention, Mentions
    <3>6. QED
      BY <3>3, <3>4, <3>5 DEF SessionInv
  <2>4. QED
    BY <1>0, <2>2, <2>3
<1>11. ASSUME NEW c \in Channels, DoChannelCreate(c) PROVE SessionInv'
  <2>1. channels' = channels \cup {c} /\ channels' \subseteq Channels
    BY <1>11 DEF DoChannelCreate, SessionInv, SessionTypeOK
  <2>2. QED
    BY <1>10, <1>11, <2>1, PacketFacts DEF DoChannelCreate
<1>12. ASSUME NEW c \in Channels, DoChannelDestroy(c) PROVE SessionInv'
  <2>1. channels' = channels \ {c} /\ channels' \subseteq Channels
    BY <1>12 DEF DoChannelDestroy, SessionInv, SessionTypeOK
  <2>2. QED
    BY <1>10, <1>12, <2>1, PacketFacts DEF DoChannelDestroy
<1>13. CASE Server
  <2>1. /\ up # <<>> /\ ~silent /\ up' = Tail(up)
        /\ UNCHANGED <<links, silent, calls>>
        /\ UNCHANGED <<joined_, channels, healthy, accepted, expired>>
    BY <1>13 DEF Server, ServerJoin, ServerPing, ServerFullList, ServerDelta,
       ServerReads, vars
  <2>2. /\ srv_joined \in BOOLEAN /\ srv_listed \in BOOLEAN
        /\ srv_channels \subseteq Channels
        /\ Head(up) \in UpPackets
        /\ up \in Seq(UpPackets) /\ 1 \in 1..Len(up) /\ up[1] = Head(up)
    BY <2>1 DEF SessionInv, SessionTypeOK
  <2>3. CASE ServerJoin \/ ServerPing
    <3>1. /\ srv_joined' \in BOOLEAN /\ UNCHANGED <<srv_listed, srv_channels>>
          /\ Head(up).type \in {"JoinReq2", "Ping"}
      BY <2>2, <2>3 DEF ServerJoin, ServerPing, ServerReads, server
    <3>2. \A c : ~Mentions(Head(up), c)
      BY <3>1 DEF Mentions
    <3>3. QED
      BY <2>1, <2>2, <3>1, <3>2, ReadKeeps
  <2>4. CASE ServerFullList
    <3>1. /\ Head(up).type = "FullList" /\ srv_listed' = TRUE
          /\ srv_channels' = Head(up).channels /\ UNCHANGED srv_joined
      BY <2>4 DEF ServerFullList, ServerReads
    <3>2. PICK cs \in SUBSET Channels : Head(up) = FullChannelList(cs)
      BY <2>2, <3>1 DEF UpPackets, JoinReq, Ping, FullChannelList,
         DeltaChannelList
    <3>3. srv_channels' = cs
      BY <3>1, <3>2 DEF FullChannelList
    <3>4. \A c \in Channels : /\ Mentions(Head(up), c)
                              /\ c \in srv_channels' <=> Announces(Head(up), c)
      BY <3>2, <3>3, PacketFacts
    <3>5. ~NoChannels(up)
      BY <2>2, <3>1 DEF NoChannels
    <3>6. QED
      BY <2>1, <2>2, <3>1, <3>3, <3>4, <3>5, ReadKeeps
  <2>5. CASE ServerDelta
    <3>1. /\ Head(up).type = "Delta" /\ UNCHANGED <<srv_joined, srv_listed>>
          /\ srv_channels' = (srv_channels \cup Head(up).added)
                               \ Head(up).removed
      BY <2>5 DEF ServerDelta, ServerReads
    <3>2. PICK d \in Channels : \/ Head(up) = DeltaChannelList({d}, {})
                                \/ Head(up) = DeltaChannelList({}, {d})
      BY <2>2, <3>1 DEF UpPackets, JoinReq, Ping, FullChannelList,
         DeltaChannelList
    <3>3. \/ /\ Head(up) = DeltaChannelList({d}, {})
             /\ srv_channels' = srv_channels \cup {d}
          \/ /\ Head(up) = DeltaChannelList({}, {d})
             /\ srv_channels' = srv_channels \ {d}
      BY <3>1, <3>2 DEF DeltaChannelList
    <3>4. /\ srv_channels' \subseteq Channels
          /\ \A c \in Channels :
                IF Mentions(Head(up), c)
                THEN c \in srv_channels' <=> Announces(Head(up), c)
                ELSE c \in srv_channels' <=> c \in srv_channels
      <4>1. CASE /\ Head(up) = DeltaChannelList({d}, {})
                 /\ srv_channels' = srv_channels \cup {d}
        <5>1. /\ \A c : Mentions(Head(up), c) <=> c = d
              /\ Announces(Head(up), d)
          BY <4>1 DEF Mentions, Announces, DeltaChannelList
        <5>2. QED
          BY <2>2, <4>1, <5>1
      <4>2. CASE /\ Head(up) = DeltaChannelList({}, {d})
                 /\ srv_channels' = srv_channels \ {d}
        <5>1. /\ \A c : Mentions(Head(up), c) <=> c = d
              /\ ~Announces(Head(up), d)
          BY <4>2 DEF Mentions, Announces, DeltaChannelList
        <5>2. QED
          BY <2>2, <4>2, <5>1
      <4>3. QED
        BY <3>3, <4>1, <4>2
    <3>5. srv_joined' \in BOOLEAN /\ srv_listed' \in BOOLEAN
      BY <2>2, <3>1
    <3>6. QED
      BY <2>1, <3>1, <3>4, <3>5, ReadKeeps
  <2>6. QED
    BY <1>13, <2>3, <2>4, <2>5 DEF Server
<1>14. CASE ServerSends \/ Recover
  BY <1>0, <1>14, IdleKeeps DEF ServerSends, Recover, vars
<1>15. QED
  BY <1>1, <1>2, <1>3, <1>5, <1>6, <1>7, <1>8, <1>9, <1>11, <1>12,
     <1>13, <1>14 DEF LbsNext, LbsDialled, LbsError

-----------------------------------------------------------------------------

\* The client keeps its own invariant inside the session, where the owner also
\* closes a connection from within OnPacketReceived.
THEOREM SessionInvariance == LbsSpec => [](Inv /\ SessionInv)
  BY SessionInit, ClientInv, SessionStep, PTL DEF LbsSpec

\* Whatever is in flight when connections fail, expire and are dialled again,
\* a joined_ that the current connection has not earned goes back to an
\* earlier one that expired, the only end that OnTimer tells nobody of.
THEOREM StaleJoinsExplained == LbsSpec => []StaleJoinNeedsExpiry
<1>1. SessionInv => StaleJoinNeedsExpiry
  BY DEF SessionInv, StaleNeedsExpiry, StaleJoinNeedsExpiry
<1>2. QED
  BY <1>1, SessionInvariance, PTL

\* The server's list is the visitor's once everything sent has been read, for
\* any number of channels, any interleaving of channel events with the join
\* and any history of connections.
THEOREM ChannelsAgree == LbsSpec => []ChannelsInSync
<1>1. Inv /\ SessionInv => ChannelsInSync
  <2>1. SUFFICES ASSUME SessionInv, ~silent, srv_listed, up = <<>>
                 PROVE  srv_channels = channels
    BY DEF ChannelsInSync
  <2>2. \A c \in Channels : Unmentioned(up, c)
    BY <2>1 DEF Unmentioned
  <2>3. \A c \in Channels : c \in srv_channels <=> c \in channels
    BY <2>1, <2>2 DEF SessionInv, Current, CurrentIn
  <2>4. QED
    BY <2>1, <2>3 DEF SessionInv, SessionTypeOK
<1>2. QED
  BY <1>1, SessionInvariance, PTL
=============================================================================
