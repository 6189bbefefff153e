----------------------------- MODULE Addresses -----------------------------
(***************************************************************************)
(* Socket addresses and their conversions: network/address_types.h, .inl    *)
(* and .cpp.                                                                *)
(*                                                                         *)
(* SocketAddress4 keeps ip and port in network order, NewSockAddress4 in    *)
(* host order, SocketAddress6 its port in network order.  A                 *)
(* GeneralSocketAddress is [version, a], a union of NewSockAddress4,        *)
(* SocketAddress6 and SocketAddressUnix.  The addresses are keys of         *)
(* std::map and std::set, and so are the structs of declare_struct.h.       *)
(***************************************************************************)
EXTENDS PackerBytes

CONSTANTS
    Endpoints,    \* what addresses stand for: [version, ip, port, scope, path]
    PathRoom,     \* sizeof(sun_path) - 1, what snprintf may write
    StructKeys,   \* structs that are used as keys, as tuples of members
    MaxConversions,  \* bound on the conversions of one address
    MaxKeys          \* bound on the insertions into one container

VARIABLES
    endpoint,     \* history: the endpoint the address was made for
    address,      \* GeneralSocketAddress
    conversions,
    keys,         \* a std::set: its elements in the order of iteration
    inserted      \* history: what was inserted into it

addressVars == <<endpoint, address, conversions, keys, inserted>>

\* An unsigned integer of so many bytes.
Fits(n, size) == n \in Nat /\ n \div Weight[size] < Byte

\* Endpoints have numbers of the width of their fields; a path has no zero in
\* it and fits sun_path, and its length fits the prefix of a string.
ASSUME EndpointAssumption ==
    /\ 2 * Half <= Byte * Byte /\ Upper <= Byte
    /\ PathRoom \in Nat /\ PathRoom <= Half * Upper
    /\ \A e \in Endpoints :
         /\ e # Nothing
         /\ \/ e.version = "kIp4" /\ Fits(e.ip, 4) /\ Fits(e.port, 2)
            \/ /\ e.version = "kIp6" /\ Fits(e.port, 2) /\ Fits(e.scope, 4)
               /\ e.ip \in [1..4 -> Nat] /\ \A i \in 1..4 : Fits(e.ip[i], 4)
            \/ /\ e.version = "kUnix" /\ e.port = 0
               /\ e.path \in Seq(1..Byte - 1) /\ Len(e.path) < PathRoom

\* Structs of one to nine numbers.
ASSUME KeyAssumption ==
    /\ \A k \in StructKeys : k \in Seq(Int) /\ Len(k) \in 1..9
    /\ MaxKeys \in Nat /\ MaxConversions \in Nat

-----------------------------------------------------------------------------
(* The classes and their byte order.                                       *)

\* htonl, ntohl (size 4), htons, ntohs (size 2) on a little-endian host.
Swap(n, size) == PopUint(Reverse(Bytes(n, size)), 1, size).v

\* Network order, like sockaddr_in; Ip and Port answer in host order.
SocketAddress4(ip, port) == [ip |-> ip, port |-> port]
Ip(a) == Swap(a.ip, 4)
Port(a) == Swap(a.port, 2)

\* Host order.
NewSockAddress4(ip, port) == [ip |-> ip, port |-> port]

\* The port in network order, the ip as its four words.
SocketAddress6(ip, port, scope) == [ip |-> ip, scope |-> scope, port |-> port]

SocketAddressUnix(path) == [path |-> path]

\* NewSockAddress4 to SocketAddress4 or sockaddr_in, and back.
ToNetwork(a) == SocketAddress4(Swap(a.ip, 4), Swap(a.port, 2))
ToHost(a) == NewSockAddress4(Ip(a), Port(a))

ToOldAddresses(list) == [i \in DOMAIN list |-> ToNetwork(list[i])]

General(version, a) == [version |-> version, a |-> a]

\* The copy constructor and operator=: what was there is destroyed, and the
\* member of the union that the version names is constructed.
Copied(addr) == General(addr.version, addr.a)

\* GetPort: in host order.
GetPort(addr) ==
    CASE addr.version = "kIp4" -> addr.a.port
      [] addr.version = "kIp6" -> Swap(addr.a.port, 2)
      [] addr.version = "kUnix" -> 0

-----------------------------------------------------------------------------
(* sockaddr_storage.                                                       *)

\* operator sockaddr_un: snprintf takes what fits in front of its zero.
SunPath(path) == SubSeq(path, 1, IF Len(path) < PathRoom THEN Len(path) ELSE PathRoom - 1)

\* operator sockaddr_in, operator sockaddr_in6 and operator sockaddr_un.
ToStorage(addr) ==
    CASE addr.version = "kIp4" -> [family |-> "AF_INET", a |-> ToNetwork(addr.a)]
      [] addr.version = "kIp6" -> [family |-> "AF_INET6", a |-> addr.a]
      [] addr.version = "kUnix" ->
           [family |-> "AF_UNIX", a |-> SocketAddressUnix(SunPath(addr.a.path))]

\* GeneralSocketAddress(const sockaddr_storage&).
FromStorage(s) ==
    CASE s.family = "AF_INET" -> General("kIp4", ToHost(s.a))
      [] s.family = "AF_INET6" -> General("kIp6", s.a)
      [] s.family = "AF_UNIX" -> General("kUnix", s.a)

-----------------------------------------------------------------------------
(* Serialization.                                                          *)

Versions == <<"kIp4", "kIp6", "kUnix">>
Index(version) == CHOOSE i \in DOMAIN Versions : Versions[i] = version

\* A SocketAddress6 in memory, and what operator<< makes of it: in6_addr word
\* by word, scope_id and port.
SixBytes(a) ==
    Bytes(a.ip[1], 4) \o Bytes(a.ip[2], 4) \o Bytes(a.ip[3], 4) \o Bytes(a.ip[4], 4)
       \o Bytes(a.scope, 4) \o Bytes(a.port, 2)

\* SerializeTo: the version, then the address; IPv4 in network order.
SerializeTo(addr) ==
    Bytes(Index(addr.version) - 1, 2) \o
    CASE addr.version = "kIp4" ->
           LET n == ToNetwork(addr.a) IN Bytes(n.ip, 4) \o Bytes(n.port, 2)
      [] addr.version = "kIp6" -> SixBytes(addr.a)
      [] addr.version = "kUnix" -> PushLength(Len(addr.a.path)).bytes \o addr.a.path

\* The 32-bit words behind the version.
WordOf(bytes, i) == PopUint(bytes, 4 * i - 1, 4).v

\* operator>> of SocketAddress6.
ReadSix(bytes) ==
    SocketAddress6(<<WordOf(bytes, 1), WordOf(bytes, 2), WordOf(bytes, 3), WordOf(bytes, 4)>>,
                   PopUint(bytes, 23, 2).v, WordOf(bytes, 5))

\* Mutant: the address is left in network order.
SerializeFromAsIs(bytes) ==
    LET version == Versions[PopUint(bytes, 1, 2).v + 1]
    IN  CASE version = "kIp4" ->
               General(version, NewSockAddress4(WordOf(bytes, 1), PopUint(bytes, 7, 2).v))
          [] version = "kIp6" -> General(version, ReadSix(bytes))
          [] version = "kUnix" -> General(version, SocketAddressUnix(PopString(bytes, 3).v))

\* SerializeFrom: whatever the object was, it is destroyed and becomes what
\* the bytes say.
SerializeFrom(bytes) ==
    LET version == Versions[PopUint(bytes, 1, 2).v + 1]
    IN  CASE version = "kIp4" ->
               General(version, ToHost(SocketAddress4(WordOf(bytes, 1), PopUint(bytes, 7, 2).v)))
          [] version = "kIp6" -> General(version, ReadSix(bytes))
          [] version = "kUnix" -> General(version, SocketAddressUnix(PopString(bytes, 3).v))

-----------------------------------------------------------------------------
(* Comparison.                                                             *)

\* Mutant: a clause does not ask for the members before it to be equal.
StructLessAny(l, r) == \E clause \in ToSet(Structs[Len(l)].less) : l[clause[Len(clause)]] < r[clause[Len(clause)]]

\* operator< of declare_struct.h.
StructLess(l, r) ==
    \E clause \in ToSet(Structs[Len(l)].less) :
       LET last == clause[Len(clause)]
       IN  l[last] < r[last] /\ \A i \in ToSet(Front(clause)) : l[i] = r[i]

StructEqual(l, r) == \A i \in ToSet(Structs[Len(l)].equal) : l[i] = r[i]

\* The members of an address in the order in which its operator< compares
\* them: In6AddrLessThan compares two 64-bit words, high half first.
CompareKey(addr) ==
    CASE addr.version = "kIp4" -> <<addr.a.ip, addr.a.port>>
      [] addr.version = "kIp6" ->
           <<addr.a.ip[2], addr.a.ip[1], addr.a.ip[4], addr.a.ip[3], addr.a.port, addr.a.scope>>
      [] addr.version = "kUnix" -> addr.a.path

\* Lexicographic order, also of std::string.
Lexicographic(l, r) ==
    \/ Len(l) < Len(r) /\ l = SubSeq(r, 1, Len(l))
    \/ \E i \in DOMAIN l \cap DOMAIN r : l[i] < r[i] /\ \A j \in 1..i - 1 : l[j] = r[j]

\* GeneralSocketAddress::LessThan.
LessThan(l, r) ==
    \/ Index(l.version) < Index(r.version)
    \/ l.version = r.version /\ Lexicographic(CompareKey(l), CompareKey(r))

\* operator== of SocketAddress6.
Equal6(l, r) == l.ip = r.ip /\ l.port = r.port /\ l.scope = r.scope

\* operator== of GeneralSocketAddress and of the classes in it.
AddressEqual(l, r) ==
    l.version = r.version /\
    CASE l.version = "kIp4" -> l.a.ip = r.a.ip /\ l.a.port = r.a.port
      [] l.version = "kIp6" -> Equal6(l.a, r.a)
      [] l.version = "kUnix" -> l.a.path = r.a.path

\* GetHash: what the hash is taken of; of an IPv6 address the 22 bytes that
\* are not padding.
HashedBytes(addr) ==
    CASE addr.version = "kIp4" -> Bytes(addr.a.port, 2) \o Bytes(addr.a.ip, 4)
      [] addr.version = "kIp6" -> SixBytes(addr.a)
      [] addr.version = "kUnix" -> addr.a.path

\* SocketAddress4Hasher: the 64 bits of ip, port and a zero that fills up.
OldHashedBytes(old) == Bytes(old.ip, 4) \o Bytes(old.port, 2) \o Bytes(0, 2)

\* NewSockAddress4Hasher: the port takes 32 bits.
NewHashedBytes(a) == Bytes(a.ip, 4) \o Bytes(a.port, 4)

Less(l, r) == IF l.kind = "struct" THEN StructLess(l.key, r.key) ELSE LessThan(l.key, r.key)

-----------------------------------------------------------------------------
\* The representation of an endpoint, host order where the class says so.
Host(e) ==
    CASE e.version = "kIp4" -> NewSockAddress4(e.ip, e.port)
      [] e.version = "kIp6" -> SocketAddress6(e.ip, Swap(e.port, 2), e.scope)
      [] e.version = "kUnix" -> SocketAddressUnix(e.path)

NoAddress ==
    /\ endpoint = Nothing
    /\ address = General("kIp4", NewSockAddress4(0, 0))
    /\ conversions = 0
    /\ keys = <<>>
    /\ inserted = {}

\* The constructors.
Construct(e) ==
    /\ endpoint = Nothing /\ inserted = {}
    /\ endpoint' = e
    /\ \/ address' = General(e.version, Host(e))
       \/ /\ e.version = "kIp4"
          /\ address' = General("kIp4", ToHost(ToNetwork(Host(e))))
       \/ address' = FromStorage(ToStorage(General(e.version, Host(e))))
    /\ UNCHANGED <<conversions, keys, inserted>>

\* The object is assigned, converted to another class and back, or sent to
\* another object in a packet.
Convert ==
    /\ endpoint # Nothing /\ conversions < MaxConversions
    /\ conversions' = conversions + 1
    /\ \/ address' = Copied(address)
       \/ /\ address.version = "kIp4"
          /\ address' = General("kIp4", ToHost(ToOldAddresses(<<address.a>>)[1]))
       \/ address' = FromStorage(ToStorage(address))
       \/ address' = SerializeFrom(SerializeTo(address))
    /\ UNCHANGED <<endpoint, keys, inserted>>

\* std::set::insert: before the first element that is not less, unless that
\* is equivalent.
InsertKey(key) ==
    LET at   == SelectInSeq(keys, LAMBDA k : ~Less(k, key))
        copy == IF key.kind = "struct" THEN [key EXCEPT !.key = Stored(@)]
                ELSE [key EXCEPT !.key = Copied(@)]
    IN  /\ endpoint = Nothing /\ Cardinality(inserted) < MaxKeys
        /\ \A k \in inserted : k.kind = key.kind /\ (key.kind = "struct" => Len(k.key) = Len(key.key))
        /\ inserted' = inserted \cup {key}
        /\ keys' = IF at = 0 THEN Append(keys, copy)
                   ELSE IF Less(key, keys[at]) THEN InsertAt(keys, at, copy)
                   ELSE keys
        /\ UNCHANGED <<endpoint, address, conversions>>

\* The destructors.
Discard ==
    /\ endpoint # Nothing \/ inserted # {}
    /\ endpoint' = Nothing
    /\ address' = General("kIp4", NewSockAddress4(0, 0))
    /\ conversions' = 0
    /\ keys' = <<>>
    /\ inserted' = {}

AddressNext ==
    \/ \E e \in Endpoints : Construct(e)
    \/ Convert
    \/ Discard
    \/ \E k \in StructKeys : InsertKey([kind |-> "struct", key |-> k])
    \/ \E e \in Endpoints : InsertKey([kind |-> "address", key |-> General(e.version, Host(e))])

-----------------------------------------------------------------------------
AddressSpec == NoAddress /\ [][AddressNext]_addressVars

\* However often an address changes its class and byte order, between host
\* and network, sockaddr and packet, it stands for the same endpoint.
EndpointKept ==
    endpoint # Nothing =>
        /\ AddressEqual(address, General(endpoint.version, Host(endpoint)))
        /\ GetPort(address) = endpoint.port

\* operator< of addresses and of the structs of every size is fit for
\* std::set and std::map: what was inserted is there, once, in order, and
\* two keys are equivalent only if operator== says that they are equal.  An
\* address is also fit for the unordered containers: equal addresses, and
\* only they, give the same bytes to the hash, in each of its classes.
SetsStaySorted ==
    /\ {keys[i] : i \in DOMAIN keys} = inserted
    /\ Len(keys) = Cardinality(inserted)
    /\ \A i, j \in DOMAIN keys :
         /\ i < j <=> Less(keys[i], keys[j])
         /\ keys[i].kind = "struct" => (i = j <=> StructEqual(keys[i].key, keys[j].key))
         /\ keys[i].kind = "address" /\ keys[i].key.version = keys[j].key.version =>
              /\ i = j <=> AddressEqual(keys[i].key, keys[j].key)
              /\ i = j <=> HashedBytes(keys[i].key) = HashedBytes(keys[j].key)
              /\ keys[i].key.version = "kIp4" =>
                   LET a == keys[i].key.a
                       b == keys[j].key.a
                   IN  /\ i = j <=> NewHashedBytes(a) = NewHashedBytes(b)
                       /\ i = j <=> OldHashedBytes(ToNetwork(a)) = OldHashedBytes(ToNetwork(b))
=============================================================================
