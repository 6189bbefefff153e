------------------------- MODULE UniLbsClientProofs -------------------------
(***************************************************************************)
(* The connections of a UniLbsClient (lbs/uni_lbs_client.cpp), for any     *)
(* lists, any answers of the resolver, and any objects the allocator       *)
(* returns: every one is owned by one address, and the loop that moves     *)
(* them one by one implements the abstract pool LbsPool.                   *)
(***************************************************************************)
EXTENDS UniLbsClient, TLAPS

Types ==
    /\ DOMAIN connections_ \subseteq Ips
    /\ connections_ \in [DOMAIN connections_ -> Conns \cup {Null}]
    /\ new_connections \in [DOMAIN new_connections -> Conns]
    /\ new_addresses \in Seq(Ips)
    /\ at \in Nat \ {0}
    /\ live \subseteq Conns
    /\ view \in [Conns -> SUBSET Channels]
    /\ channels \subseteq Channels
    /\ dns \in Answers
    /\ caller \in {"none", "set", "add", "list", "timer"}

\* What the loop of ReloadLbsAddresses has done: the addresses before the
\* place where it is are those of its map, and what it moved is null.
Progress ==
    /\ at <= Len(new_addresses) + 1
    /\ DOMAIN new_connections = {new_addresses[i] : i \in 1..(at - 1)}
    /\ \A ip \in DOMAIN connections_ :
           connections_[ip] = Null <=> ip \in DOMAIN new_connections
    /\ caller = "none" => DOMAIN new_connections = {}

\* Every object is in one place of one of the maps.
Owned ==
    /\ live = (Range(connections_) \cup Range(new_connections)) \ {Null}
    /\ \A a, b \in DOMAIN connections_ :
           connections_[a] # Null /\ connections_[a] = connections_[b] => a = b
    /\ \A a, b \in DOMAIN new_connections :
           new_connections[a] = new_connections[b] => a = b
    /\ \A a \in DOMAIN connections_, b \in DOMAIN new_connections :
           connections_[a] # new_connections[b]

\* Every object was given the channel events.
Informed == \A c \in live : view[c] = channels

\* A list from the owner stops the timer before it is loaded.
ListRules == caller = "list" => timer_ = Stopped

Inv == Types /\ Progress /\ Owned /\ Informed /\ ListRules /\ ListStaysInForce

-----------------------------------------------------------------------------
(* The maps.                                                               *)

\* An empty map owns nothing.
LEMMA EmptyMap ==
    /\ DOMAIN NoConnections = {}
    /\ Range(NoConnections) = {}
    /\ NoConnections \in [DOMAIN NoConnections -> Conns]
  BY DEF NoConnections, Range

\* The constructor.
LEMMA InitInv == Init => Inv
<1> SUFFICES ASSUME Init PROVE Inv
  OBVIOUS
<1>1. connections_ = NoConnections /\ new_connections = NoConnections
      /\ DOMAIN connections_ = {} /\ DOMAIN new_connections = {}
      /\ Range(connections_) = {} /\ Range(new_connections) = {}
  BY EmptyMap DEF Init
<1>2. Types
  <2>1. connections_ \in [DOMAIN connections_ -> Conns \cup {Null}]
        /\ new_connections \in [DOMAIN new_connections -> Conns]
    BY <1>1 DEF NoConnections
  <2>2. new_addresses \in Seq(Ips) /\ at \in Nat \ {0} /\ live \subseteq Conns
        /\ view \in [Conns -> SUBSET Channels] /\ channels \subseteq Channels
        /\ dns \in Answers /\ caller = "none"
    BY DEF Init
  <2>3. QED
    BY <1>1, <2>1, <2>2 DEF Types
<1>3. Progress
  <2>1. at = 1 /\ Len(new_addresses) = 0
    BY DEF Init
  <2>2. QED
    BY <1>1, <2>1 DEF Progress
<1>4. Owned
  BY <1>1 DEF Init, Owned
<1>5. Informed /\ ListRules /\ ListStaysInForce
  BY DEF Init, Informed, ListRules, ListStaysInForce
<1>6. QED
  BY <1>2, <1>3, <1>4, <1>5 DEF Inv

-----------------------------------------------------------------------------
(* The loop of ReloadLbsAddresses.                                         *)

\* After a round the address that was at its place is one of the new map.
LEMMA RoundProgress ==
    ASSUME Types, Progress, at <= Len(new_addresses), at' = at + 1,
           new_addresses' = new_addresses
    PROVE  /\ new_addresses[at] \in Ips
           /\ at' \in Nat \ {0} /\ at' <= Len(new_addresses') + 1
           /\ {new_addresses'[i] : i \in 1..(at' - 1)}
                = DOMAIN new_connections \cup {new_addresses[at]}
<1>1. at \in Nat /\ at > 0 /\ Len(new_addresses) \in Nat
      /\ new_addresses \in Seq(Ips)
  BY DEF Types
<1>2. 1..(at' - 1) = (1..(at - 1)) \cup {at} /\ at \in 1..Len(new_addresses)
  BY <1>1
<1>3. QED
  BY <1>1, <1>2 DEF Progress

\* A new connection, in the place of one that the same list has made already.
LEMMA InsertKeeps ==
    ASSUME Inv, NEW ip, ip \notin DOMAIN connections_, Insert(ip),
           channels' = channels
    PROVE  /\ DOMAIN new_connections' = DOMAIN new_connections \cup {ip}
           /\ new_connections' \in [DOMAIN new_connections' -> Conns]
           /\ connections_' = connections_
           /\ live' \subseteq Conns /\ view' \in [Conns -> SUBSET Channels]
           /\ Owned' /\ Informed'
<1>1. PICK conn \in Conns \ live :
           /\ new_connections' = Stored(new_connections, ip, conn)
           /\ live' = (live \cup {conn}) \ Stale(ip)
           /\ view' = [view EXCEPT ![conn] = channels]
  BY DEF Insert
<1>2. connections_' = connections_
  BY DEF Insert
<1> DEFINE N == new_connections
           C == connections_
           M == new_connections'
<1>3. /\ DOMAIN M = DOMAIN N \cup {ip}
      /\ M[ip] = conn
      /\ \A i \in DOMAIN N : i # ip => M[i] = N[i]
      /\ M = [i \in DOMAIN M |-> M[i]]
  BY <1>1 DEF Stored
<1>4. /\ \A i \in DOMAIN N : N[i] \in Conns
      /\ live \subseteq Conns /\ channels \subseteq Channels
      /\ view \in [Conns -> SUBSET Channels]
  BY DEF Inv, Types
<1>5. /\ live = (Range(C) \cup Range(N)) \ {Null}
      /\ \A a, b \in DOMAIN C : C[a] # Null /\ C[a] = C[b] => a = b
      /\ \A a, b \in DOMAIN N : N[a] = N[b] => a = b
      /\ \A a \in DOMAIN C, b \in DOMAIN N : C[a] # N[b]
  BY DEF Inv, Owned
<1> HIDE DEF N, C, M
<1>6. \A i \in DOMAIN M : M[i] \in Conns
  BY <1>3, <1>4
<1>7. M \in [DOMAIN M -> Conns]
  BY <1>3, <1>6
<1>8. conn # Null /\ conn \in Conns /\ conn \notin live
  BY ConnAssumption
<1>9. (\A i \in DOMAIN N : N[i] # conn) /\ (\A i \in DOMAIN C : C[i] # conn)
  BY <1>5, <1>8 DEF Range
<1>10. live' = (Range(C) \cup Range(M)) \ {Null}
  <2>1. Stale(ip) = {N[i] : i \in DOMAIN N \cap {ip}}
    BY DEF Stale, N
  <2>2. \A c \in Stale(ip) : c \notin Range(C) /\ c # conn
    BY <1>5, <1>9, <2>1 DEF Range
  <2>3. Range(M) = (Range(N) \cup {conn}) \ Stale(ip)
    <3>1. ASSUME NEW c \in Range(M) PROVE c \in (Range(N) \cup {conn}) \ Stale(ip)
      BY <1>3, <1>5, <1>9, <2>1, <2>2 DEF Range
    <3>2. ASSUME NEW c \in (Range(N) \cup {conn}) \ Stale(ip) PROVE c \in Range(M)
      BY <1>3, <2>1 DEF Range
    <3>3. QED
      BY <3>1, <3>2
  <2>4. QED
    BY <1>1, <1>5, <1>8, <2>2, <2>3
<1>11. \A a, b \in DOMAIN M : M[a] = M[b] => a = b
  BY <1>3, <1>5, <1>9
<1>12. \A a \in DOMAIN C, b \in DOMAIN M : C[a] # M[b]
  BY <1>3, <1>5, <1>9
<1>13. Owned'
  BY <1>2, <1>5, <1>10, <1>11, <1>12 DEF Owned, C, M
<1>14. Informed'
  BY <1>1, <1>4 DEF Inv, Informed
<1>15. live' \subseteq Conns /\ view' \in [Conns -> SUBSET Channels]
  BY <1>1, <1>4
<1>16. QED
  BY <1>2, <1>3, <1>7, <1>13, <1>14, <1>15 DEF M, N

\* A pointer that moves from one map to the other.
LEMMA KeepKeeps ==
    ASSUME Inv, NEW ip, ip \in DOMAIN connections_,
           ip \notin DOMAIN new_connections, Keep(ip), channels' = channels
    PROVE  /\ DOMAIN new_connections' = DOMAIN new_connections \cup {ip}
           /\ new_connections' \in [DOMAIN new_connections' -> Conns]
           /\ DOMAIN connections_' = DOMAIN connections_
           /\ connections_' \in [DOMAIN connections_' -> Conns \cup {Null}]
           /\ connections_'[ip] = Null
           /\ \A i \in DOMAIN connections_ :
                  i # ip => connections_'[i] = connections_[i]
           /\ Owned' /\ Informed'
<1> DEFINE N == new_connections
           C == connections_
           M == new_connections'
           D == connections_'
<1>1. /\ DOMAIN M = DOMAIN N \cup {ip}
      /\ M[ip] = C[ip]
      /\ \A i \in DOMAIN N : M[i] = N[i]
      /\ M = [i \in DOMAIN M |-> M[i]]
  BY DEF Keep, Stored
<1>2. /\ DOMAIN D = DOMAIN C
      /\ D[ip] = Null
      /\ \A i \in DOMAIN C : i # ip => D[i] = C[i]
      /\ D = [i \in DOMAIN D |-> D[i]]
  BY DEF Keep, Stored
<1>3. /\ \A i \in DOMAIN N : N[i] \in Conns
      /\ \A i \in DOMAIN C : C[i] \in Conns \cup {Null}
  BY DEF Inv, Types
<1>4. C[ip] # Null
  BY DEF Inv, Progress
<1>5. /\ live = (Range(C) \cup Range(N)) \ {Null}
      /\ \A a, b \in DOMAIN C : C[a] # Null /\ C[a] = C[b] => a = b
      /\ \A a, b \in DOMAIN N : N[a] = N[b] => a = b
      /\ \A a \in DOMAIN C, b \in DOMAIN N : C[a] # N[b]
  BY DEF Inv, Owned
<1>6. live' = live /\ view' = view /\ ip \in DOMAIN C
  BY DEF Keep
<1> HIDE DEF N, C, M, D
<1>7. M \in [DOMAIN M -> Conns]
  <2>1. \A i \in DOMAIN M : M[i] \in Conns
    BY <1>1, <1>3, <1>4, <1>6
  <2>2. QED
    BY <1>1, <2>1
<1>8. D \in [DOMAIN D -> Conns \cup {Null}]
  <2>1. \A i \in DOMAIN D : D[i] \in Conns \cup {Null}
    BY <1>2, <1>3
  <2>2. QED
    BY <1>2, <2>1
<1>9. live' = (Range(D) \cup Range(M)) \ {Null}
  <2>1. ASSUME NEW c \in (Range(C) \cup Range(N)) \ {Null}
        PROVE  c \in (Range(D) \cup Range(M)) \ {Null}
    BY <1>1, <1>2 DEF Range
  <2>2. ASSUME NEW c \in (Range(D) \cup Range(M)) \ {Null}
        PROVE  c \in (Range(C) \cup Range(N)) \ {Null}
    BY <1>1, <1>2, <1>6 DEF Range
  <2>3. QED
    BY <1>5, <1>6, <2>1, <2>2
<1>10. \A a, b \in DOMAIN D : D[a] # Null /\ D[a] = D[b] => a = b
  BY <1>2, <1>5
<1>11. \A a, b \in DOMAIN M : M[a] = M[b] => a = b
  BY <1>1, <1>5, <1>6
<1>12. \A a \in DOMAIN D, b \in DOMAIN M : D[a] # M[b]
  BY <1>1, <1>2, <1>3, <1>4, <1>5, <1>6, ConnAssumption
<1>13. Owned'
  BY <1>9, <1>10, <1>11, <1>12 DEF Owned, D, M
<1>14. Informed'
  BY <1>6 DEF Inv, Informed
<1>15. QED
  BY <1>1, <1>2, <1>7, <1>8, <1>13, <1>14 DEF M, N, C, D

\* A round of the loop.
LEMMA LoadAddressKeeps == Inv /\ LoadAddress => Inv'
<1> SUFFICES ASSUME Inv, LoadAddress PROVE Inv'
  OBVIOUS
<1> DEFINE ip == new_addresses[at]
<1>1. /\ caller # "none" /\ at <= Len(new_addresses)
      /\ Place(ip) /\ at' = at + 1
      /\ UNCHANGED <<caller, new_addresses, timer_, source, wanted, dns, channels>>
  BY DEF LoadAddress, setup, latest, resolver
<1>2. /\ ip \in Ips
      /\ at' \in Nat \ {0} /\ at' <= Len(new_addresses') + 1
      /\ {new_addresses'[i] : i \in 1..(at' - 1)} = DOMAIN new_connections \cup {ip}
  BY <1>1, RoundProgress DEF Inv
<1> HIDE DEF ip
<1>3. /\ DOMAIN new_connections' = DOMAIN new_connections \cup {ip}
      /\ new_connections' \in [DOMAIN new_connections' -> Conns]
      /\ DOMAIN connections_' = DOMAIN connections_
      /\ connections_' \in [DOMAIN connections_' -> Conns \cup {Null}]
      /\ \A i \in DOMAIN connections_ :
             connections_'[i] = Null <=> i \in DOMAIN new_connections'
      /\ live' \subseteq Conns /\ view' \in [Conns -> SUBSET Channels]
      /\ Owned' /\ Informed'
  <2>1. /\ \A i \in DOMAIN connections_ :
               connections_[i] = Null <=> i \in DOMAIN new_connections
        /\ connections_ \in [DOMAIN connections_ -> Conns \cup {Null}]
        /\ live \subseteq Conns /\ view \in [Conns -> SUBSET Channels]
        /\ new_connections \in [DOMAIN new_connections -> Conns]
    BY DEF Inv, Types, Progress
  <2>2. CASE ip \notin DOMAIN connections_ /\ Insert(ip)
    <3>1. /\ DOMAIN new_connections' = DOMAIN new_connections \cup {ip}
          /\ new_connections' \in [DOMAIN new_connections' -> Conns]
          /\ connections_' = connections_
          /\ live' \subseteq Conns /\ view' \in [Conns -> SUBSET Channels]
          /\ Owned' /\ Informed'
      BY <1>1, <2>2, InsertKeeps
    <3>2. QED
      BY <2>1, <2>2, <3>1
  <2>3. CASE /\ ip \in DOMAIN connections_ /\ ip \notin DOMAIN new_connections
             /\ Keep(ip)
    <3>1. /\ DOMAIN new_connections' = DOMAIN new_connections \cup {ip}
          /\ new_connections' \in [DOMAIN new_connections' -> Conns]
          /\ DOMAIN connections_' = DOMAIN connections_
          /\ connections_' \in [DOMAIN connections_' -> Conns \cup {Null}]
          /\ connections_'[ip] = Null
          /\ \A i \in DOMAIN connections_ :
                 i # ip => connections_'[i] = connections_[i]
          /\ Owned' /\ Informed'
      BY <1>1, <2>3, KeepKeeps
    <3>2. live' = live /\ view' = view
      BY <2>3 DEF Keep
    <3>3. QED
      BY <2>1, <2>3, <3>1, <3>2
  <2>4. CASE /\ ip \in DOMAIN connections_ /\ ip \in DOMAIN new_connections
             /\ UNCHANGED <<pool, new_connections>>
    <3>1. UNCHANGED <<connections_, live, view, new_connections>>
      BY <2>4 DEF pool
    <3>2. Owned' /\ Informed'
      BY <1>1, <3>1 DEF Inv, Owned, Informed
    <3>3. DOMAIN new_connections' = DOMAIN new_connections \cup {ip}
      BY <2>4, <3>1
    <3>4. QED
      BY <2>1, <3>1, <3>2, <3>3
  <2>5. QED
    BY <1>1, <2>2, <2>3, <2>4 DEF Place
<1>4. Types'
  BY <1>1, <1>2, <1>3 DEF Inv, Types
<1>5. Progress'
  BY <1>1, <1>2, <1>3 DEF Progress
<1>6. ListRules' /\ ListStaysInForce'
  BY <1>1, <1>3 DEF Inv, ListRules, ListStaysInForce
<1>7. QED
  BY <1>3, <1>4, <1>5, <1>6 DEF Inv

\* The swap: the new map has the addresses of the list, and what is left in
\* the old one dies with it.
LEMMA SwapKeeps ==
    ASSUME Inv, Swap, new_connections' = NoConnections, at' = 1,
           new_addresses' \in Seq(Ips),
           caller' \in {"none", "set", "add", "list", "timer"}
    PROVE  /\ Types' /\ Progress' /\ Owned' /\ Informed'
           /\ DOMAIN connections_' = wanted'
           /\ wanted' = DOMAIN new_connections /\ wanted' \subseteq Ips
<1>1. /\ caller # "none" /\ at > Len(new_addresses)
      /\ connections_' = new_connections
      /\ live' = live \ Range(connections_)
      /\ view' = [c \in Conns |-> IF c \in live' THEN view[c] ELSE {}]
      /\ wanted' = Range(new_addresses)
      /\ dns' = dns /\ channels' = channels
  BY DEF Swap, resolver
<1>2. DOMAIN new_connections = Range(new_addresses) /\ Range(new_addresses) \subseteq Ips
  <2>1. at \in Nat /\ Len(new_addresses) \in Nat /\ at <= Len(new_addresses) + 1
        /\ new_addresses \in Seq(Ips)
        /\ DOMAIN new_connections = {new_addresses[i] : i \in 1..(at - 1)}
    BY DEF Inv, Types, Progress
  <2>2. at - 1 = Len(new_addresses) /\ DOMAIN new_addresses = 1..Len(new_addresses)
    BY <1>1, <2>1
  <2>3. QED
    BY <2>1, <2>2 DEF Range
<1>3. /\ new_connections \in [DOMAIN new_connections -> Conns]
      /\ live \subseteq Conns /\ channels \subseteq Channels
      /\ view \in [Conns -> SUBSET Channels]
      /\ dns \in Answers
  BY DEF Inv, Types
<1>4. DOMAIN new_connections' = {} /\ Range(new_connections') = {}
      /\ new_connections' \in [DOMAIN new_connections' -> Conns]
  BY EmptyMap
<1>5. Types'
  <2>1. connections_' \in [DOMAIN connections_' -> Conns \cup {Null}]
        /\ DOMAIN connections_' \subseteq Ips
    BY <1>1, <1>2, <1>3
  <2>2. live' \subseteq Conns /\ view' \in [Conns -> SUBSET Channels]
    BY <1>1, <1>3
  <2>3. QED
    BY <1>1, <1>3, <1>4, <2>1, <2>2 DEF Types
<1>6. Progress'
  <2>1. at' <= Len(new_addresses') + 1
    OBVIOUS
  <2>2. DOMAIN new_connections' = {new_addresses'[i] : i \in 1..(at' - 1)}
    BY <1>4
  <2>3. \A ip \in DOMAIN connections_' : connections_'[ip] # Null
    BY <1>1, <1>3, ConnAssumption
  <2>4. QED
    BY <1>4, <2>1, <2>2, <2>3 DEF Progress
<1>7. Owned'
  <2>1. live' = Range(new_connections)
    <3>1. live = (Range(connections_) \cup Range(new_connections)) \ {Null}
          /\ \A a \in DOMAIN connections_, b \in DOMAIN new_connections :
                 connections_[a] # new_connections[b]
      BY DEF Inv, Owned
    <3>2. \A c \in Range(new_connections) : c # Null /\ c \notin Range(connections_)
      BY <1>3, <3>1, ConnAssumption DEF Range
    <3>3. QED
      BY <1>1, <3>1, <3>2
  <2>2. Null \notin Range(new_connections)
    BY <1>3, ConnAssumption DEF Range
  <2>3. \A a, b \in DOMAIN new_connections :
            new_connections[a] = new_connections[b] => a = b
    BY DEF Inv, Owned
  <2>4. QED
    BY <1>1, <1>4, <2>1, <2>2, <2>3 DEF Owned
<1>8. Informed'
  BY <1>1, <1>3 DEF Inv, Informed
<1>9. QED
  BY <1>1, <1>2, <1>5, <1>6, <1>7, <1>8

\* ReloadLbsAddresses is called between reloads.
LEMMA BeginKeeps ==
    ASSUME Inv, caller = "none",
           UNCHANGED <<connections_, live, view, channels, dns>>,
           new_connections' = NoConnections, at' = 1,
           new_addresses' \in Seq(Ips),
           caller' \in {"none", "set", "add", "list", "timer"}
    PROVE  Types' /\ Progress' /\ Owned' /\ Informed'
<1>1. DOMAIN new_connections' = {} /\ Range(new_connections') = {}
      /\ new_connections' \in [DOMAIN new_connections' -> Conns]
  BY EmptyMap
<1>2. DOMAIN new_connections = {} /\ Range(new_connections) = {}
  BY DEF Inv, Progress, Range
<1>3. Types'
  BY <1>1 DEF Inv, Types
<1>4. Progress'
  <2>1. at' <= Len(new_addresses') + 1
    OBVIOUS
  <2>2. DOMAIN new_connections' = {new_addresses'[i] : i \in 1..(at' - 1)}
    BY <1>1
  <2>3. QED
    BY <1>1, <1>2, <2>1, <2>2 DEF Inv, Progress
<1>5. Owned'
  BY <1>1, <1>2 DEF Inv, Owned
<1>6. Informed'
  BY DEF Inv, Informed
<1>7. QED
  BY <1>3, <1>4, <1>5, <1>6

\* The addresses of a lookup.
LEMMA HostsAreAddresses ==
    ASSUME dns \in Answers
    PROVE  (IF ResolveHost = <<>> THEN <<Loopback>> ELSE ResolveHost) \in Seq(Ips)
  BY AddressAssumption DEF ResolveHost

\* What UpdateLbsAddresses does with a list.
LEMMA TakeListBegins ==
    ASSUME NEW addresses \in Seq(Ips), TakeList(addresses)
    PROVE  /\ new_connections' = NoConnections /\ at' = 1
           /\ new_addresses' \in Seq(Ips)
           /\ caller' \in {"none", "list"}
           /\ timer_' = Stopped
<1>1. timer_' = Stopped
  BY DEF TakeList, Assigned
<1>2. CASE service_id_ = 0
  <2>1. <<>> \in Seq(Ips)
    OBVIOUS
  <2>2. QED
    BY <1>1, <1>2, <2>1 DEF TakeList, Returned
<1>3. CASE service_id_ # 0
  BY <1>1, <1>3 DEF TakeList, ReloadLbsAddresses
<1>4. QED
  BY <1>2, <1>3

\* What follows the loop.
LEMMA ReloadEnds ==
    ASSUME ServiceIsSet \/ AddressesFollow \/ Reloaded
    PROVE  /\ Swap
           /\ new_connections' = NoConnections /\ at' = 1
           /\ new_addresses' \in Seq(Ips)
           /\ caller' \in {"none", "list"}
           /\ caller' = "list" => timer_' = Stopped
           /\ caller = "list" => timer_' = timer_
<1>1. <<LbsAddr>> \in Seq(Ips) /\ <<>> \in Seq(Ips)
  BY AddressAssumption
<1>2. CASE ServiceIsSet
  BY <1>1, <1>2 DEF ServiceIsSet, Returned
<1>3. CASE AddressesFollow
  <2>1. Swap /\ caller = "add" /\ TakeList(<<LbsAddr>>)
    BY <1>3 DEF AddressesFollow
  <2>2. QED
    BY <1>1, <2>1, TakeListBegins
<1>4. CASE Reloaded
  BY <1>1, <1>4 DEF Reloaded, Returned
<1>5. QED
  BY <1>2, <1>3, <1>4

-----------------------------------------------------------------------------
(* The invariant.                                                          *)

\* A step that the client does not see.
LEMMA UnseenKeeps ==
    ASSUME Inv, dns' \in Answers,
           UNCHANGED <<timer_, connections_, live, view, caller, new_addresses,
                       at, new_connections, source, wanted, channels>>
    PROVE  Inv'
<1>1. Types'
  BY DEF Inv, Types
<1>2. Progress'
  BY DEF Inv, Progress
<1>3. Owned' /\ Informed'
  BY DEF Inv, Owned, Informed
<1>4. ListRules' /\ ListStaysInForce'
  BY DEF Inv, ListRules, ListStaysInForce
<1>5. QED
  BY <1>1, <1>2, <1>3, <1>4 DEF Inv

\* Channel events reach every object, because between reloads connections_
\* has them all.
LEMMA ChannelEventKeeps ==
    ASSUME Inv, NEW c \in Channels, DoChannelCreate(c) \/ DoChannelDestroy(c)
    PROVE  Inv'
<1>1. /\ caller = "none"
      /\ UNCHANGED <<connections_, live, caller, new_addresses, at,
                     new_connections, timer_, source, wanted, dns>>
  BY DEF DoChannelCreate, DoChannelDestroy, setup, loop, latest, resolver
<1>2. live = Range(connections_) /\ live \subseteq Conns
  <2>1. Range(new_connections) = {} /\ Null \notin Range(connections_)
    BY <1>1 DEF Inv, Progress, Range
  <2>2. QED
    BY <2>1 DEF Inv, Owned, Types
<1>3. view' \in [Conns -> SUBSET Channels] /\ channels' \subseteq Channels
      /\ Informed'
  <2>1. view \in [Conns -> SUBSET Channels] /\ channels \subseteq Channels
        /\ \A p \in live : view[p] = channels
    BY DEF Inv, Types, Informed
  <2>2. CASE DoChannelCreate(c)
    BY <1>2, <2>1, <2>2 DEF DoChannelCreate, Informed
  <2>3. CASE DoChannelDestroy(c)
    BY <1>2, <2>1, <2>3 DEF DoChannelDestroy, Informed
  <2>4. QED
    BY <2>2, <2>3
<1>4. Types'
  BY <1>1, <1>3 DEF Inv, Types
<1>5. Progress' /\ Owned'
  BY <1>1 DEF Inv, Progress, Owned
<1>6. ListRules' /\ ListStaysInForce'
  BY <1>1 DEF Inv, ListRules, ListStaysInForce
<1>7. QED
  BY <1>3, <1>4, <1>5, <1>6 DEF Inv

\* Every step keeps the invariant.
LEMMA StepInv == Inv /\ [Next]_vars => Inv'
<1> SUFFICES ASSUME Inv, [Next]_vars PROVE Inv'
  OBVIOUS
<1>0. dns \in Answers
  BY DEF Inv, Types
<1>1. ASSUME NEW seconds \in Intervals, SetReloadingInterval(seconds) PROVE Inv'
  BY <1>0, <1>1, UnseenKeeps DEF SetReloadingInterval, pool, loop, latest,
     resolver
<1>2. ASSUME NEW s \in Services, SetServiceInformation(s) \/ AddToUniLbs(s)
      PROVE  Inv'
  <2>1. /\ caller = "none" /\ caller' \in {"set", "add"}
        /\ UNCHANGED <<connections_, live, view, channels, dns, timer_, source,
                       wanted>>
        /\ new_connections' = NoConnections /\ at' = 1
        /\ new_addresses' \in Seq(Ips)
    BY <1>0, <1>2, HostsAreAddresses DEF SetServiceInformation, AddToUniLbs,
       Call, ReloadLbsHosts, ReloadLbsAddresses, pool, latest, resolver
  <2>2. Types' /\ Progress' /\ Owned' /\ Informed'
    BY <2>1, BeginKeeps
  <2>3. ListRules' /\ ListStaysInForce'
    BY <2>1 DEF Inv, ListRules, ListStaysInForce
  <2>4. QED
    BY <2>2, <2>3 DEF Inv
<1>3. ASSUME NEW addresses \in Lists, UpdateLbsAddresses(addresses) PROVE Inv'
  <2>1. /\ caller = "none" /\ caller' \in {"none", "list"}
        /\ UNCHANGED <<connections_, live, view, channels, dns, source, wanted>>
        /\ timer_' = Stopped
        /\ new_connections' = NoConnections /\ at' = 1
        /\ new_addresses' \in Seq(Ips)
    <3>1. addresses \in Seq(Ips)
      BY AddressAssumption
    <3>2. QED
      BY <1>3, <3>1, TakeListBegins DEF UpdateLbsAddresses, Call, pool, latest,
         resolver
  <2>2. Types' /\ Progress' /\ Owned' /\ Informed'
    BY <2>1, BeginKeeps
  <2>3. ListRules' /\ ListStaysInForce'
    BY <2>1 DEF Inv, ListRules, ListStaysInForce
  <2>4. QED
    BY <2>2, <2>3 DEF Inv
<1>4. ASSUME NEW c \in Channels, DoChannelCreate(c) \/ DoChannelDestroy(c)
      PROVE  Inv'
  BY <1>4, ChannelEventKeeps
<1>5. CASE ReloadTimer
  <2>1. /\ caller = "none" /\ caller' = "timer"
        /\ UNCHANGED <<connections_, live, view, channels, dns, timer_, source,
                       wanted>>
        /\ new_connections' = NoConnections /\ at' = 1
        /\ new_addresses' \in Seq(Ips)
    BY <1>0, <1>5, HostsAreAddresses DEF ReloadTimer, ReloadLbsHosts,
       ReloadLbsAddresses, setup, pool, latest, resolver
  <2>2. Types' /\ Progress' /\ Owned' /\ Informed'
    BY <2>1, BeginKeeps
  <2>3. ListRules' /\ ListStaysInForce'
    BY <2>1 DEF Inv, ListRules, ListStaysInForce
  <2>4. QED
    BY <2>2, <2>3 DEF Inv
<1>6. CASE LoadAddress
  BY <1>6, LoadAddressKeeps
<1>7. CASE ServiceIsSet \/ AddressesFollow \/ Reloaded
  <2>1. /\ Swap
        /\ new_connections' = NoConnections /\ at' = 1
        /\ new_addresses' \in Seq(Ips)
        /\ caller' \in {"none", "list"}
        /\ caller' = "list" => timer_' = Stopped
        /\ caller = "list" => timer_' = timer_
    BY <1>7, ReloadEnds
  <2>2. /\ Types' /\ Progress' /\ Owned' /\ Informed'
        /\ DOMAIN connections_' = wanted'
    BY <2>1, SwapKeeps
  <2>3. source' = "list" => caller = "list"
    BY <2>1 DEF Swap
  <2>4. ListRules' /\ ListStaysInForce'
    BY <2>1, <2>2, <2>3 DEF Inv, ListRules, ListStaysInForce
  <2>5. QED
    BY <2>2, <2>4 DEF Inv
<1>8. ASSUME NEW answer \in Answers, ResolverChanges(answer) PROVE Inv'
  BY <1>8, UnseenKeeps DEF ResolverChanges, setup, pool, loop, latest
<1>9. CASE ResolverSettles
  BY <1>0, <1>9, UnseenKeeps DEF ResolverSettles, setup, pool, loop, latest
<1>10. CASE UNCHANGED vars
  BY <1>0, <1>10, UnseenKeeps DEF vars, setup, pool, loop, latest, resolver
<1>11. QED
  BY <1>1, <1>2, <1>3, <1>4, <1>5, <1>6, <1>7, <1>8, <1>9, <1>10
  DEF Next, Reload

\* The invariant holds in every reachable state.
THEOREM Invariance == Spec => []Inv
  BY InitInv, StepInv, PTL DEF Spec

\* Between reloads every pointer of connections_ is to a live UniLbsConnection
\* of its own that was given every channel event, and none is forgotten,
\* whatever the lists of ReloadLbsAddresses repeat or drop.
THEOREM ConnectionsAreOwned == Spec => []ConnectionsOwned
<1>1. Inv => ConnectionsOwned
  <2> SUFFICES ASSUME Inv, caller = "none" PROVE ConnectionsOwned
    BY DEF ConnectionsOwned
  <2>1. Range(new_connections) = {} /\ Null \notin Range(connections_)
    BY DEF Inv, Progress, Range
  <2>2. live = Range(connections_) /\ live \subseteq Conns
    BY <2>1 DEF Inv, Owned, Types
  <2>3. IsInjective(connections_)
    BY <2>1 DEF Inv, Owned, IsInjective, Range
  <2>4. QED
    BY <2>2, <2>3 DEF ConnectionsOwned, Inv, Informed
<1>2. QED
  BY <1>1, Invariance, PTL

\* A list of UpdateLbsAddresses is in force, without a timer that could
\* replace it, until the owner changes it.
THEOREM ListIsInForce == Spec => []ListStaysInForce
<1>1. Inv => ListStaysInForce
  BY DEF Inv
<1>2. QED
  BY <1>1, Invariance, PTL

-----------------------------------------------------------------------------
(* The abstract pool.                                                      *)

\* A round of the loop moves connections and changes none: the connection of
\* every address stays what it was.
LEMMA LoadAddressStutters == Inv /\ LoadAddress => Current' = Current
<1> SUFFICES ASSUME Inv, LoadAddress PROVE Current' = Current
  OBVIOUS
<1> DEFINE ip == new_addresses[at]
<1>1. Place(ip) /\ channels' = channels
  BY DEF LoadAddress
<1> HIDE DEF ip
<1>2. \A i \in DOMAIN connections_ :
          connections_[i] = Null <=> i \in DOMAIN new_connections
  BY DEF Inv, Progress
<1>3. CASE ip \notin DOMAIN connections_ /\ Insert(ip)
  <2>1. PICK conn \in Conns : new_connections' = Stored(new_connections, ip, conn)
    BY <1>3 DEF Insert
  <2>2. connections_' = connections_
    BY <1>3 DEF Insert
  <2>3. \A i \in DOMAIN new_connections :
            i # ip => new_connections'[i] = new_connections[i]
    BY <2>1 DEF Stored
  <2>4. QED
    BY <1>2, <1>3, <2>2, <2>3 DEF Current
<1>4. CASE /\ ip \in DOMAIN connections_ /\ ip \notin DOMAIN new_connections
           /\ Keep(ip)
  <2>1. /\ new_connections'[ip] = connections_[ip]
        /\ \A i \in DOMAIN new_connections :
               i # ip => new_connections'[i] = new_connections[i]
        /\ DOMAIN connections_' = DOMAIN connections_
        /\ connections_'[ip] = Null
        /\ \A i \in DOMAIN connections_ :
               i # ip => connections_'[i] = connections_[i]
    BY <1>4 DEF Keep, Stored
  <2>2. QED
    BY <1>2, <1>4, <2>1 DEF Current
<1>5. CASE UNCHANGED <<pool, new_connections>>
  BY <1>5 DEF pool, Current
<1>6. QED
  BY <1>1, <1>3, <1>4, <1>5 DEF Place

\* The swap is a step of the pool to the addresses of the list, on which an
\* address that stays keeps its connection.
LEMMA SwapRelists ==
    ASSUME Inv, Inv', Swap, new_connections' = NoConnections, at' = 1,
           new_addresses' \in Seq(Ips),
           caller' \in {"none", "set", "add", "list", "timer"}
    PROVE  Pool!Next
<1> DEFINE ips == DOMAIN new_connections
<1>1. ips \subseteq Ips
  BY SwapKeeps
<1>2. connections_' = new_connections
  BY DEF Swap
<1>3. new_connections \in [ips -> Conns]
  BY DEF Inv, Types
<1>4. Current' = new_connections
  <2>1. \A ip \in ips : new_connections[ip] # Null
    BY <1>3, ConnAssumption
  <2>2. Current' = [ip \in ips |-> new_connections[ip]]
    BY <1>2, <2>1 DEF Current
  <2>3. QED
    BY <1>3, <2>2
<1>5. \A ip \in ips \cap DOMAIN Current : new_connections[ip] = Current[ip]
  BY DEF Inv, Progress, Current
<1>6. IsInjective(new_connections)
  BY DEF Inv, Owned, IsInjective
<1>7. Pool!Relist(ips)
  BY <1>3, <1>4, <1>5, <1>6 DEF Pool!Relist, IsInjective, Pool!IsInjective
<1>8. QED
  BY <1>1, <1>7 DEF Pool!Next

\* ReloadLbsAddresses, which moves the connections one at a time through maps
\* with null pointers, implements LbsPool: an address that stays on the list
\* keeps its connection, and no two addresses share one.
THEOREM PoolIsImplemented == Spec => ImplementsPool
<1>1. Init => Pool!Init
  <2> SUFFICES ASSUME Init PROVE Current = [ip \in {} |-> {}]
    BY DEF Pool!Init
  <2>1. DOMAIN connections_ = {}
    BY EmptyMap DEF Init
  <2>2. QED
    BY <2>1 DEF Current
<1>2. Inv /\ Inv' /\ [Next]_vars => [Pool!Next]_Current
  <2> SUFFICES ASSUME Inv, Inv', [Next]_vars PROVE Pool!Next \/ Current' = Current
    OBVIOUS
  <2>1. ASSUME connections_' = connections_, new_connections' = new_connections
        PROVE  Current' = Current
    BY <2>1 DEF Current
  <2>2. ASSUME caller = "none", connections_' = connections_
        PROVE  Current' = Current
    <3>1. \A ip \in DOMAIN connections_ : connections_[ip] # Null
      BY <2>2 DEF Inv, Progress
    <3>2. QED
      BY <2>2, <3>1 DEF Current
  <2>3. ASSUME NEW seconds \in Intervals, SetReloadingInterval(seconds)
        PROVE  Current' = Current
    BY <2>2, <2>3 DEF SetReloadingInterval, Call, pool
  <2>4. ASSUME NEW s \in Services, SetServiceInformation(s) \/ AddToUniLbs(s)
        PROVE  Current' = Current
    BY <2>2, <2>4 DEF SetServiceInformation, AddToUniLbs, Call, pool
  <2>5. ASSUME NEW addresses \in Lists, UpdateLbsAddresses(addresses)
        PROVE  Current' = Current
    BY <2>2, <2>5 DEF UpdateLbsAddresses, Call, pool
  <2>6. ASSUME NEW c \in Channels, DoChannelCreate(c) \/ DoChannelDestroy(c)
        PROVE  Current' = Current
    BY <2>2, <2>6 DEF DoChannelCreate, DoChannelDestroy
  <2>7. CASE ReloadTimer
    BY <2>2, <2>7 DEF ReloadTimer, pool
  <2>8. CASE LoadAddress
    BY <2>8, LoadAddressStutters
  <2>9. CASE ServiceIsSet \/ AddressesFollow \/ Reloaded
    <3>1. /\ Swap
          /\ new_connections' = NoConnections /\ at' = 1
          /\ new_addresses' \in Seq(Ips)
          /\ caller' \in {"none", "list"}
      BY <2>9, ReloadEnds
    <3>2. QED
      BY <3>1, SwapRelists
  <2>10. ASSUME NEW answer \in Answers, ResolverChanges(answer)
         PROVE  Current' = Current
    BY <2>1, <2>10 DEF ResolverChanges, pool, loop
  <2>11. CASE ResolverSettles
    BY <2>1, <2>11 DEF ResolverSettles, pool, loop
  <2>12. CASE UNCHANGED vars
    BY <2>1, <2>12 DEF vars, pool, loop
  <2>13. QED
    BY <2>3, <2>4, <2>5, <2>6, <2>7, <2>8, <2>9, <2>10, <2>11, <2>12
    DEF Next, Reload
<1>3. QED
  BY <1>1, <1>2, Invariance, PTL DEF Spec, ImplementsPool, Pool!Spec
=============================================================================
