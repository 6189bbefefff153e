---------------------------- MODULE UniLbsClient ----------------------------
(***************************************************************************)
(* The set of LBS sessions of one service: lbs/uni_lbs_client.cpp.         *)
(*                                                                         *)
(* The addresses come from DNS, looked up at SetServiceInformation and     *)
(* then by a repeated timer, or from the owner, by UpdateLbsAddresses,     *)
(* which stops the timer; the UniLbsWorker of turnserver_main.cc does one  *)
(* after the other.  ReloadLbsAddresses, which all of them end in, is      *)
(* modelled address by address, because it moves the connections one by    *)
(* one from a map to another; the event loop has one thread, and nothing   *)
(* else happens to the client meanwhile.                                   *)
(*                                                                         *)
(* A UniLbsConnection is known here by the object and by the channel       *)
(* events it was given; its session is the module UniLbsConnection.        *)
(* Callbacks of a connection are handed on to the visitor and change       *)
(* nothing here.                                                           *)
(***************************************************************************)
EXTENDS Integers, Sequences, Functions

CONSTANTS
    Ips,         \* addresses
    Loopback,    \* INADDR_LOOPBACK, one of Ips
    Conns,       \* bound: UniLbsConnection objects
    Null,        \* a unique_ptr that was moved from
    Services,    \* service ids, zero among them: a clock that wraps
    LbsAddr,     \* kLbsAddr of UniLbsWorker, one of Ips
    Channels,    \* names of channels
    Intervals,   \* arguments of SetReloadingInterval, seconds
    Lists,       \* arguments of UpdateLbsAddresses: sequences of addresses
    Answers,     \* what the resolver may answer, <<>> when it fails
    MaxCalls     \* bound: calls of the owner

ASSUME ServiceAssumption == Services \subseteq Nat /\ Intervals \subseteq Nat
ASSUME ConnAssumption == Null \notin Conns
ASSUME AddressAssumption ==
    /\ Loopback \in Ips /\ LbsAddr \in Ips
    /\ Lists \subseteq Seq(Ips) /\ Answers \subseteq Seq(Ips)

VARIABLES
    service_id_,
    timer_,          \* the period of the timer in seconds, Stopped without one
    reloading_interval_,
    connections_,    \* a function on a set of addresses
    live,            \* UniLbsConnections constructed and not destroyed
    channels,        \* external: the channels the owner has
    view,            \* history: the channels that were there when a connection
                     \* was constructed, with the events it was given since
    caller,          \* who called the ReloadLbsAddresses that runs, or "none"
    new_addresses,   \* its argument
    at,              \* the place in it where its loop is
    new_connections, \* its map
    dns,             \* external: what the resolver answers
    settled,         \* external: the resolver's answer no longer changes
    source,          \* history: where the latest list came from
    wanted,          \* history: the addresses on it
    calls

setup == <<service_id_, timer_, reloading_interval_>>
pool == <<connections_, live, view>>
loop == <<caller, new_addresses, at, new_connections>>
latest == <<source, wanted>>
resolver == <<dns, settled>>
vars == <<setup, pool, loop, latest, resolver, channels, calls>>

\* A RepeatedTimer without an event.
Stopped == 0

\* RepeatedTimer::CreateTimer: the event fires again every period.
CreateTimer(seconds) == seconds

\* operator= swaps the events, and the destructor of the temporary clears
\* the one that was there.
Assigned(timer) == timer_' = timer

NoConnections == [ip \in {} |-> Null]

Init ==
    /\ service_id_ = 0
    /\ timer_ = Stopped
    /\ reloading_interval_ = 600
    /\ connections_ = NoConnections /\ live = {} /\ view = [c \in Conns |-> {}]
    /\ caller = "none" /\ new_addresses = <<>> /\ at = 1
    /\ new_connections = NoConnections
    /\ dns \in Answers /\ settled = FALSE
    /\ channels = {}
    /\ source = "none" /\ wanted = {}
    /\ calls = 0

-----------------------------------------------------------------------------
(* ReloadLbsAddresses.                                                     *)

ReloadLbsAddresses(who, addresses) ==
    /\ caller' = who
    /\ new_addresses' = addresses
    /\ at' = 1
    /\ new_connections' = NoConnections

\* Nothing of it is left when it is over.
Returned ==
    /\ caller' = "none"
    /\ new_addresses' = <<>>
    /\ at' = 1
    /\ new_connections' = NoConnections

\* The map with an entry stored in it.
Stored(map, ip, conn) ==
    [i \in DOMAIN map \cup {ip} |-> IF i = ip THEN conn ELSE map[i]]

Stale(ip) == {new_connections[i] : i \in DOMAIN new_connections \cap {ip}}

\* make_unique<UniLbsConnection>, stored over what is in new_connections.
Insert(ip) ==
    /\ \E conn \in Conns \ live :
           /\ new_connections' = Stored(new_connections, ip, conn)
           /\ live' = (live \cup {conn}) \ Stale(ip)
           /\ view' = [view EXCEPT ![conn] = channels]
    /\ UNCHANGED connections_

\* Mutant: the pointer is copied.
KeepCopied(ip) ==
    /\ new_connections' = Stored(new_connections, ip, connections_[ip])
    /\ UNCHANGED pool

\* The pointer moves over; the entry of connections_ stays, null.
Keep(ip) ==
    /\ new_connections' = Stored(new_connections, ip, connections_[ip])
    /\ connections_' = Stored(connections_, ip, Null)
    /\ UNCHANGED <<live, view>>

\* Mutant: an address listed twice is moved twice.
PlaceTwice(ip) ==
    IF ip \in DOMAIN connections_ THEN Keep(ip) ELSE Insert(ip)

Place(ip) ==
    \/ ip \notin DOMAIN connections_ /\ Insert(ip)
    \/ /\ ip \in DOMAIN connections_ /\ ip \notin DOMAIN new_connections
       /\ Keep(ip)
    \/ /\ ip \in DOMAIN connections_ /\ ip \in DOMAIN new_connections
       /\ UNCHANGED <<pool, new_connections>>

LoadAddress ==
    /\ caller # "none" /\ at <= Len(new_addresses)
    /\ Place(new_addresses[at])
    /\ at' = at + 1
    /\ UNCHANGED <<caller, new_addresses, setup, latest, resolver, channels,
                   calls>>

\* connections_.swap(new_connections), and the end of what is left over.
Swap ==
    /\ caller # "none" /\ at > Len(new_addresses)
    /\ connections_' = new_connections
    /\ live' = live \ Range(connections_)
    /\ view' = [c \in Conns |-> IF c \in live' THEN view[c] ELSE {}]
    /\ source' = IF caller = "list" THEN "list" ELSE "dns"
    /\ wanted' = Range(new_addresses)
    /\ UNCHANGED <<service_id_, reloading_interval_, resolver, channels,
                   calls>>

\* The addresses of getaddrinfo in its order and with its repetitions, none
\* when it fails.
ResolveHost == dns

\* The loopback address when the host cannot be resolved.
ReloadLbsHosts(who) ==
    ReloadLbsAddresses(who, IF ResolveHost = <<>> THEN <<Loopback>>
                            ELSE ResolveHost)

-----------------------------------------------------------------------------
(* The owner and the timer.                                                *)

Call == caller = "none" /\ calls < MaxCalls /\ calls' = calls + 1

SetReloadingInterval(seconds) ==
    /\ Call
    /\ reloading_interval_' = IF seconds < 100 THEN 100 ELSE seconds
    /\ UNCHANGED <<service_id_, timer_, pool, loop, latest, resolver,
                   channels>>

SetServiceInformation(service_id) ==
    /\ Call
    /\ service_id_' = service_id
    /\ ReloadLbsHosts("set")
    /\ UNCHANGED <<timer_, reloading_interval_, pool, latest, resolver,
                   channels>>

\* After the lookup the timer.
ServiceIsSet ==
    /\ caller = "set" /\ Swap /\ Returned
    /\ Assigned(CreateTimer(reloading_interval_))

\* Mutant: the timer goes on.
TakeListTimed(addresses) ==
    /\ UNCHANGED timer_
    /\ IF service_id_ = 0 THEN Returned
       ELSE ReloadLbsAddresses("list", addresses)

\* UpdateLbsAddresses: without a service the list is forgotten.
TakeList(addresses) ==
    /\ Assigned(Stopped)
    /\ IF service_id_ = 0 THEN Returned
       ELSE ReloadLbsAddresses("list", addresses)

UpdateLbsAddresses(addresses) ==
    /\ Call
    /\ TakeList(addresses)
    /\ UNCHANGED <<service_id_, reloading_interval_, pool, latest, resolver,
                   channels>>

\* UniLbsWorker::AddToUniLbs, once, on the client it has just constructed: the
\* service id is the clock in milliseconds.
AddToUniLbs(tick) ==
    /\ calls = 0 /\ Call
    /\ service_id_' = tick
    /\ ReloadLbsHosts("add")
    /\ UNCHANGED <<timer_, reloading_interval_, pool, latest, resolver,
                   channels>>

\* SetServiceInformation is over, and UpdateLbsAddresses stops its timer.
AddressesFollow ==
    /\ caller = "add" /\ Swap
    /\ TakeList(<<LbsAddr>>)

\* UniLbsWorker::OnChannelCreated, OnChannelDestroyed: every connection of
\* connections_ is given the event.
DoChannelCreate(c) ==
    /\ caller = "none" /\ c \notin channels
    /\ channels' = channels \cup {c}
    /\ view' = [p \in Conns |-> IF p \in Range(connections_)
                                THEN view[p] \cup {c} ELSE view[p]]
    /\ UNCHANGED <<setup, connections_, live, loop, latest, resolver, calls>>

DoChannelDestroy(c) ==
    /\ caller = "none" /\ c \in channels
    /\ channels' = channels \ {c}
    /\ view' = [p \in Conns |-> IF p \in Range(connections_)
                                THEN view[p] \ {c} ELSE view[p]]
    /\ UNCHANGED <<setup, connections_, live, loop, latest, resolver, calls>>

\* Mutant: a timer that fires once.
ReloadTimerOnce ==
    /\ caller = "none" /\ timer_ # Stopped
    /\ ReloadLbsHosts("timer")
    /\ timer_' = Stopped
    /\ UNCHANGED <<service_id_, reloading_interval_, pool, latest, resolver,
                   channels, calls>>

ReloadTimer ==
    /\ caller = "none" /\ timer_ # Stopped
    /\ ReloadLbsHosts("timer")
    /\ UNCHANGED <<setup, pool, latest, resolver, channels, calls>>

\* ReloadLbsAddresses returns to the event loop or to the owner.
Reloaded ==
    /\ caller \in {"timer", "list"} /\ Swap /\ Returned
    /\ UNCHANGED timer_

\* External: the resolver fails, recovers and moves the service about.
ResolverChanges(answer) ==
    /\ ~settled
    /\ dns' = answer
    /\ UNCHANGED <<setup, pool, loop, latest, settled, channels, calls>>

ResolverSettles ==
    /\ ~settled
    /\ settled' = TRUE
    /\ UNCHANGED <<setup, pool, loop, latest, dns, channels, calls>>

Reload == LoadAddress \/ ServiceIsSet \/ AddressesFollow \/ Reloaded

Next ==
    \/ \E seconds \in Intervals : SetReloadingInterval(seconds)
    \/ \E s \in Services : SetServiceInformation(s) \/ AddToUniLbs(s)
    \/ \E addresses \in Lists : UpdateLbsAddresses(addresses)
    \/ \E c \in Channels : DoChannelCreate(c) \/ DoChannelDestroy(c)
    \/ ReloadTimer
    \/ Reload
    \/ \E answer \in Answers : ResolverChanges(answer)
    \/ ResolverSettles

Spec == Init /\ [][Next]_vars

\* The event loop runs the timer, and what it runs comes to its end.
FairSpec == Spec /\ WF_vars(ReloadTimer) /\ WF_vars(Reload)

-----------------------------------------------------------------------------
(* Properties.                                                             *)

\* Whatever the lists repeat or drop, every pointer of connections_ is to a
\* live UniLbsConnection of its own, as DoChannelCreate and DoChannelDestroy
\* take for granted, no live one is forgotten, and every one was given the
\* channel events since it was constructed, none of them to the wrong object.
ConnectionsOwned ==
    caller = "none" =>
        /\ live = Range(connections_)
        /\ live \subseteq Conns
        /\ IsInjective(connections_)
        /\ \A c \in live : view[c] = channels

\* The addresses UpdateLbsAddresses gave are the ones in use until the owner
\* changes them: no lookup of the timer replaces them.
ListStaysInForce ==
    source = "list" => DOMAIN connections_ = wanted /\ timer_ = Stopped

\* Unless the owner gives a list, the connections are those of the resolver's
\* answer in the end; the loopback address of a failed lookup is given up.
\* A service id of zero is the exception: with it UpdateLbsAddresses stops
\* the timer and takes no list.
TracksResolver ==
    (settled /\ source = "dns" /\ service_id_ # 0)
        ~> (\/ source = "list" \/ service_id_ = 0
            \/ DOMAIN connections_ = IF dns = <<>> THEN {Loopback}
                                     ELSE Range(dns))

\* The connection of each address: in the loop, one that was moved already is
\* still the connection of its address.
Current ==
    [ip \in DOMAIN connections_ |->
        IF connections_[ip] = Null THEN new_connections[ip]
        ELSE connections_[ip]]

\* ReloadLbsAddresses, move by move, does what LbsPool says, and the swap is
\* the moment at which the list changes.
Pool == INSTANCE LbsPool WITH pool <- Current
ImplementsPool == Pool!Spec
=============================================================================
