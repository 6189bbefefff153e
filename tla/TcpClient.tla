----------------------------- MODULE TcpClient -----------------------------
(***************************************************************************)
(* The keep-alive TCP client of network/tcp_client.cpp: one remote        *)
(* address, at most one bufferevent dialling it (pending_) or one          *)
(* established TcpConnection (conn_), and a repeated timer that drops a    *)
(* silent connection, asks the owner to ping, or dials again.              *)
(*                                                                         *)
(* Time.  The code stores instants (last_try_ts_, last_active_ts_,         *)
(* next_try_ts_) and only ever compares them with TickInSeconds().  The    *)
(* model keeps the differences: try_age and active_age are the seconds     *)
(* since the first two, next_try_in the seconds left until the third.      *)
(* An age stops growing once no comparison can tell it from a larger one,  *)
(* so time is unbounded and the state space finite.                        *)
(*                                                                         *)
(* libevent (external).  dialing and open are the bufferevents libevent    *)
(* holds, by the callback registered on them: ConnectCallback, or the      *)
(* callbacks of a TcpConnection.  Freeing a bufferevent removes it, after  *)
(* which no callback fires for it and its address can be used again.       *)
(***************************************************************************)
EXTENDS Integers, FiniteSets

CONSTANTS
    KeepAliveInterval,        \* kKeepAliveIntervalMs, in seconds
    ReconnectTimeout,         \* kReconnectTimeout
    ShortConnectionInterval,  \* kShortConnectionInterval
    MaxTimeout,               \* kMaxTimeout
    MinTimeout,               \* the 5u that SetTimeout raises its argument to
    ActiveCap,                \* an age no reconnect_timeout_ reaches
    Timeouts,                 \* arguments of SetTimeout
    PingIntervals,            \* arguments of SetPingInterval
    Backoffs,                 \* arguments of SetBackoff, as <<num, den>>
    MaxCalls,                 \* bound: calls made by the owner of the client
    Bevs,                     \* addresses of bufferevents
    NoBev                     \* nullptr

Larger(a, b) == IF a >= b THEN a ELSE b
Smaller(a, b) == IF a <= b THEN a ELSE b

TryCap == ShortConnectionInterval + 1

\* The values reconnect_timeout_ can take.
EffectiveTimeouts ==
    {ReconnectTimeout} \cup {Larger(MinTimeout, t) : t \in Timeouts}

\* The floating point backoff_ is a fraction, 1.0 unless SetBackoff is called.
BackoffValues == Backoffs \cup {<<1, 1>>}

ASSUME ConstantsAreSeconds ==
    /\ KeepAliveInterval \in Nat \ {0}
    /\ PingIntervals \subseteq Nat \ {0}
    /\ ReconnectTimeout \in Nat
    /\ ShortConnectionInterval \in Nat
    /\ MaxTimeout \in Nat
    /\ MinTimeout \in Nat
    /\ ActiveCap \in Nat
    /\ Timeouts \subseteq Nat
    /\ MaxCalls \in Nat

\* The file's own ordering of its constants: 5 <= 10 <= 60 and 10 <= 300.
\* SetTimeout enforces no upper bound; a timeout above kMaxTimeout is a
\* caller's mistake the code does not catch.
ASSUME ConstantsAreOrdered ==
    /\ MinTimeout <= ReconnectTimeout
    /\ MinTimeout <= ShortConnectionInterval
    /\ \A t \in EffectiveTimeouts : t <= MaxTimeout /\ t < ActiveCap

\* A backoff below one would shrink the interval; the code does not check.
ASSUME BackoffsGrow ==
    \A b \in Backoffs : /\ b = <<b[1], b[2]>>
                        /\ b[1] \in Nat
                        /\ b[2] \in Nat \ {0}
                        /\ b[1] >= b[2]

ASSUME NoBevIsNull == NoBev \notin Bevs

VARIABLES
    pending_,            \* the bufferevent being connected, or NoBev
    conn_,               \* the bufferevent of the TcpConnection, or NoBev
    connecting_,
    reconnect_timeout_,
    backoff_,
    next_try_interval_,
    try_age,             \* TickInSeconds() - last_try_ts_
    active_age,          \* TickInSeconds() - last_active_ts_
    next_try_in,         \* next_try_ts_ - TickInSeconds(), 0 once it is past
    timer_period,        \* interval of timer_
    timer_in,            \* seconds until timer_ is due
    dialing,             \* external: bufferevents with ConnectCallback
    open,                \* external: bufferevents of TcpConnections
    silent,              \* external: the peer of conn_ will never be heard of
    calls,               \* calls of the owner so far
    ended                \* history: how the last attempt ended

links == <<pending_, conn_, connecting_, dialing, open>>
settings == <<reconnect_timeout_, backoff_>>
retry == <<next_try_interval_, next_try_in>>
ages == <<try_age, active_age>>
clocks == <<timer_period, timer_in>>
vars == <<links, settings, retry, ages, clocks, silent, calls, ended>>

Init ==
    /\ pending_ = NoBev
    /\ conn_ = NoBev
    /\ connecting_ = FALSE
    /\ reconnect_timeout_ = ReconnectTimeout
    /\ backoff_ = <<1, 1>>
    /\ next_try_interval_ = ReconnectTimeout
    /\ try_age \in 0..TryCap        \* last_try_ts_ = 0: the host's uptime
    /\ active_age = 0
    /\ next_try_in = 0
    /\ timer_period = KeepAliveInterval
    /\ timer_in = KeepAliveInterval
    /\ dialing = {}
    /\ open = {}
    /\ silent = FALSE
    /\ calls = 0
    /\ ended = "none"

IsConnected == ~connecting_ /\ conn_ # NoBev

\* One second passes.  The event loop may be late for its timer.
Tick ==
    /\ try_age' = Smaller(try_age + 1, TryCap)
    /\ active_age' = Smaller(active_age + 1, ActiveCap)
    /\ next_try_in' = Larger(next_try_in - 1, 0)
    /\ timer_in' = Larger(timer_in - 1, 0)
    /\ UNCHANGED <<links, settings, next_try_interval_, timer_period, silent,
                   calls, ended>>

-----------------------------------------------------------------------------
(* Dialling.  since is the time since last_try_ts_ at the call.            *)

\* Mutant: the comparison the wrong way round.
ScheduleReversed(since) ==
    IF since > ShortConnectionInterval
    THEN /\ next_try_in' = next_try_interval_
         /\ UNCHANGED next_try_interval_
    ELSE next_try_in' = 0 /\ next_try_interval_' = reconnect_timeout_

ScheduleNextTry(since) ==
    IF since <= ShortConnectionInterval
    THEN /\ next_try_in' = next_try_interval_
         /\ next_try_interval_' =
              Smaller(MaxTimeout,
                      (backoff_[1] * next_try_interval_) \div backoff_[2])
    ELSE /\ next_try_in' = 0
         /\ next_try_interval_' = reconnect_timeout_

\* What Connect does before it asks for a socket: it stamps the attempt and
\* drops an established connection.
BeginConnect ==
    /\ ~connecting_
    /\ try_age' = 0
    /\ active_age' = 0
    /\ conn_' = NoBev
    /\ open' = open \ {conn_}
    /\ silent' = FALSE

\* socket(), the non-blocking mode or bind() fails: false is returned, no
\* callback is made and no later time is set for the next try.
ConnectFailsLocally ==
    /\ BeginConnect
    /\ ended' = "local"
    /\ UNCHANGED <<pending_, connecting_, dialing, retry>>

\* bufferevent_socket_connect fails at once: libevent has run OnConnect with
\* an error by the time it returns.
ConnectFailsAtOnce ==
    /\ BeginConnect
    /\ ScheduleNextTry(0)
    /\ ended' = "remote"
    /\ UNCHANGED <<pending_, connecting_, dialing>>

ConnectPends ==
    /\ BeginConnect
    /\ \E b \in Bevs \ (dialing \cup (open \ {conn_})) :
          /\ pending_' = b
          /\ dialing' = dialing \cup {b}
    /\ connecting_' = TRUE
    /\ ended' = "none"
    /\ UNCHANGED retry

StartConnect == ConnectFailsLocally \/ ConnectFailsAtOnce \/ ConnectPends

-----------------------------------------------------------------------------
(* Callbacks of libevent.  b is the bufferevent the callback is for.       *)

\* OnConnect(BEV_EVENT_CONNECTED).
OnConnected(b) ==
    /\ b \in dialing
    /\ connecting_' = FALSE
    /\ conn_' = pending_
    /\ dialing' = dialing \ {pending_}
    /\ open' = open \cup {pending_}
    /\ pending_' = NoBev
    /\ UNCHANGED <<settings, retry, ages, clocks, silent, calls, ended>>

\* Mutant: connecting_ is not reset.
OnConnectFailedStuck(b) ==
    /\ b \in dialing
    /\ ScheduleNextTry(try_age)
    /\ dialing' = dialing \ {pending_}
    /\ pending_' = NoBev
    /\ ended' = "remote"
    /\ UNCHANGED <<connecting_, conn_, open, settings, ages, clocks, silent,
                   calls>>

\* OnConnect(BEV_EVENT_ERROR).
OnConnectFailed(b) ==
    /\ b \in dialing
    /\ connecting_' = FALSE
    /\ ScheduleNextTry(try_age)
    /\ dialing' = dialing \ {pending_}
    /\ pending_' = NoBev
    /\ ended' = "remote"
    /\ UNCHANGED <<conn_, open, settings, ages, clocks, silent, calls>>

\* Mutant: the connection is destroyed and conn_ still points to it.
CloseDangling ==
    /\ connecting_' = (IF pending_ # NoBev THEN FALSE ELSE connecting_)
    /\ dialing' = dialing \ {pending_}
    /\ pending_' = NoBev
    /\ open' = open \ {conn_}
    /\ silent' = FALSE
    /\ UNCHANGED conn_

\* Close: frees what is pending, else destroys the connection.
Close ==
    /\ connecting_' = (IF pending_ # NoBev THEN FALSE ELSE connecting_)
    /\ dialing' = dialing \ {pending_}
    /\ pending_' = NoBev
    /\ IF pending_ # NoBev
       THEN UNCHANGED <<conn_, open>>
       ELSE conn_' = NoBev /\ open' = open \ {conn_}
    /\ silent' = FALSE

\* The peer closes or resets the connection, or a frame is malformed.
OnError(b) ==
    /\ b \in open
    /\ ~silent
    /\ ScheduleNextTry(try_age)
    /\ Close
    /\ ended' = "remote"
    /\ UNCHANGED <<settings, ages, clocks, calls>>

OnPacketReceived(b) ==
    /\ b \in open
    /\ ~silent
    /\ active_age' = 0
    /\ UNCHANGED <<links, settings, retry, try_age, clocks, silent, calls,
                   ended>>

-----------------------------------------------------------------------------
(* OnTimer, by the branch it takes.                                        *)

TimerFires == timer_in = 0 /\ timer_in' = timer_period

Expired == IsConnected /\ active_age > reconnect_timeout_

TimerExpires ==
    /\ TimerFires
    /\ Expired
    /\ ScheduleNextTry(try_age)
    /\ Close
    /\ ended' = "remote"
    /\ UNCHANGED <<settings, ages, timer_period, calls>>

\* Mutant: a ping sent counts as activity.
TimerPingsRefreshing ==
    /\ TimerFires
    /\ IsConnected
    /\ ~Expired
    /\ active_age' = 0
    /\ UNCHANGED <<links, settings, retry, try_age, timer_period, silent, calls,
                   ended>>

TimerPings ==
    /\ TimerFires
    /\ IsConnected
    /\ ~Expired
    /\ UNCHANGED <<links, settings, retry, ages, timer_period, silent, calls,
                   ended>>

\* Mutant: dials again only after a failure that it was told of.
MayRetryAfterFailure ==
    ~IsConnected /\ ~connecting_ /\ next_try_in = 0 /\ ended = "remote"

MayRetry == ~IsConnected /\ ~connecting_ /\ next_try_in = 0

TimerDials == TimerFires /\ MayRetry /\ UNCHANGED <<settings, timer_period, calls>>

TimerRetries == TimerDials /\ StartConnect

TimerIdles ==
    /\ TimerFires
    /\ ~IsConnected
    /\ ~MayRetry
    /\ UNCHANGED <<links, settings, retry, ages, timer_period, silent, calls,
                   ended>>

OnTimer == TimerExpires \/ TimerPings \/ TimerRetries \/ TimerIdles

-----------------------------------------------------------------------------
(* Calls of the owner.                                                     *)

Call == calls < MaxCalls /\ calls' = calls + 1

OwnerConnects ==
    /\ Call
    /\ \/ StartConnect
       \/ connecting_ /\ UNCHANGED <<links, retry, ages, silent, ended>>
    /\ UNCHANGED <<settings, clocks>>

OwnerCloses ==
    /\ Call
    /\ Close
    /\ ended' = "owner"
    /\ UNCHANGED <<settings, retry, ages, clocks>>

SetTimeout(seconds) ==
    /\ Call
    /\ reconnect_timeout_' = Larger(MinTimeout, seconds)
    /\ UNCHANGED <<links, backoff_, retry, ages, clocks, silent, ended>>

SetBackoff(backoff) ==
    /\ Call
    /\ backoff_' = backoff
    /\ UNCHANGED <<links, reconnect_timeout_, retry, ages, clocks, silent,
                   ended>>

\* A new timer replaces the old one.
SetPingInterval(seconds) ==
    /\ Call
    /\ timer_period' = seconds
    /\ timer_in' = seconds
    /\ UNCHANGED <<links, settings, retry, ages, silent, ended>>

\* External: the host at the other end vanishes without a reset.
PeerVanishes ==
    /\ conn_ # NoBev
    /\ ~silent
    /\ silent' = TRUE
    /\ UNCHANGED <<links, settings, retry, ages, clocks, calls, ended>>

Dialled == \E b \in Bevs : OnConnected(b) \/ OnConnectFailed(b)

Next ==
    \/ Tick
    \/ Dialled
    \/ \E b \in Bevs : OnError(b) \/ OnPacketReceived(b)
    \/ OnTimer
    \/ OwnerConnects
    \/ OwnerCloses
    \/ \E s \in Timeouts : SetTimeout(s)
    \/ \E f \in Backoffs : SetBackoff(f)
    \/ \E s \in PingIntervals : SetPingInterval(s)
    \/ PeerVanishes

Spec == Init /\ [][Next]_vars

\* Time passes, the event loop runs its timer, and the kernel answers a
\* connect in the end (by its own SYN timeout if nobody else does).
FairSpec == Spec /\ WF_vars(Tick) /\ WF_vars(OnTimer) /\ WF_vars(Dialled)

-----------------------------------------------------------------------------
(* Properties.                                                             *)

\* The types of the client's fields (tcp_client.h).
TypeOK ==
    /\ pending_ \in Bevs \cup {NoBev}
    /\ conn_ \in Bevs \cup {NoBev}
    /\ connecting_ \in BOOLEAN
    /\ reconnect_timeout_ \in EffectiveTimeouts
    /\ backoff_ \in BackoffValues
    /\ next_try_interval_ \in Nat
    /\ try_age \in 0..TryCap
    /\ active_age \in 0..ActiveCap
    /\ next_try_in \in Nat
    /\ timer_period \in Nat \ {0}
    /\ timer_in \in Nat
    /\ dialing \subseteq Bevs
    /\ open \subseteq Bevs
    /\ silent \in BOOLEAN
    /\ calls \in 0..MaxCalls
    /\ ended \in {"none", "local", "remote", "owner"}

\* The assertions of ConnectCallback, OnConnect, OnError, OnPacketReceived
\* and Close hold whenever libevent or the owner can run them: a connect
\* event is for pending_ while connecting_ and without a conn_, an event of
\* an established bufferevent is for conn_, and Close never finds connecting_
\* without pending_ or pending_ beside conn_.
AssertionsHold ==
    /\ \A b \in dialing : b = pending_ /\ conn_ = NoBev /\ connecting_
    /\ \A b \in open : b = conn_
    /\ pending_ # NoBev => conn_ = NoBev
    /\ pending_ = NoBev => ~connecting_

\* Every bufferevent the client points to is one libevent holds, and every one
\* libevent holds is one the client points to: no dangling pointer and no
\* leaked socket, over any sequence of failures, retries and owner's calls.
NoLeakNoDangling ==
    /\ dialing = {pending_} \ {NoBev}
    /\ open = {conn_} \ {NoBev}

\* ScheduleNextTry never puts the next try further away than kMaxTimeout.
WaitBounded == next_try_in <= MaxTimeout /\ next_try_interval_ <= MaxTimeout

\* After an attempt that the remote end failed or dropped, the timer dials
\* again no earlier than MinTimeout seconds after that attempt began, however
\* the drop came about (refused, reset, or expired by the timer itself).
NoEarlyRetry ==
    (ended = "remote" /\ MayRetry) => try_age >= MinTimeout

\* The client never gives up: while it is neither connected nor connecting,
\* a new attempt is made in the end, even after the owner's Close.
RetriesForever ==
    (~connecting_ /\ conn_ = NoBev) ~> (try_age = 0)

\* A connection whose peer has vanished is dropped in the end by OnTimer.
VanishedPeerIsDropped == silent ~> ~silent
=============================================================================
