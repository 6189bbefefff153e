------------------------------ MODULE Packets ------------------------------
(***************************************************************************)
(* Packets on the wire: base/packet.h, the operators << and >> of           *)
(* base/packer.h and base/unpacker.h, and the Unpacker.                     *)
(*                                                                         *)
(* The Packer is that of PacketCodec; here its body has contents.  Numbers  *)
(* are written as they lie in memory, the lowest byte first.                *)
(***************************************************************************)
EXTENDS PacketCodec, PackerBytes

CONSTANTS
    Classes,      \* classes of packets
    ServerTypes,  \* server types a packet is constructed with
    Samples       \* values for the members: [uint |-> [size -> values], string |-> values]

VARIABLES
    message,   \* the packet that was marshalled: [class, server, values, bytes]
    got        \* what the receiver unmarshalled: [server, uri, values, left]

packetVars == <<position_, length_, capacity, prefix, field, packed, body, pushes, message, got>>

-----------------------------------------------------------------------------
(* Writing: a sequence of pushes.                                           *)

\* operator<< of every type: scalars, strings and buffers, pairs and structs
\* member by member, containers behind their count.
RECURSIVE Write(_, _), WriteContainer(_, _)
Write(type, v) ==
    LET All(types, values, order) ==
            FlattenSeq([i \in DOMAIN order |-> Write(types[order[i]], values[order[i]])])
    IN  CASE type.kind = "uint" -> <<PushUint(v, type.size)>>
          [] type.kind = "string" -> <<PushLength(Len(v)), Pushed(v)>>
          [] type.kind = "pair" -> All(type.of, v, <<1, 2>>)
          [] type.kind = "struct" -> All(type.of, Stored(v), Packables[Len(type.of)].write)
          [] type.kind \in {"list", "map"} -> WriteContainer(type.of[1], v)

\* Of vector, list, set, map and the unordered ones.  (An array has no count;
\* no packet has one.)
WriteContainer(type, v) ==
    <<PushLength(Len(v))>> \o FlattenSeq([i \in DOMAIN v |-> Write(type, v[i])])

\* Packet::Marshall and the Marshall of the class.
MarshallAll(class, server, values) ==
    LET order  == PacketMacro(Len(class.of)).write
        member == Members(values, PacketMacro(Len(class.of)).init)
    IN  Write(U(2), server) \o Write(U(2), class.uri)
           \o FlattenSeq([i \in DOMAIN order |-> Write(class.of[order[i]], member[order[i]])])

-----------------------------------------------------------------------------
(* Reading.                                                                 *)

\* std::map::insert keeps the pair it has.
Insert(map, pair) ==
    IF \E i \in DOMAIN map : map[i][1] = pair[1] THEN map ELSE Append(map, pair)

\* operator>> of every type, into a value that was constructed for it.
RECURSIVE Read(_, _, _)
ReadAll(types, bytes, pos, order) ==
    FoldLeft(LAMBDA acc, i :
                LET r == Read(types[i], bytes, acc.pos)
                IN  [pos |-> r.pos, v |-> [acc.v EXCEPT ![i] = r.v]],
             [pos |-> pos, v |-> [i \in DOMAIN types |-> Nothing]], order)

Read(type, bytes, pos) ==
    LET count == PopLength(bytes, pos)
        Elements(Add(_, _)) ==
            FoldLeft(LAMBDA acc, i :
                        LET r == Read(type.of[1], bytes, acc.pos)
                        IN  [pos |-> r.pos, v |-> Add(acc.v, r.v)],
                     [pos |-> count.pos, v |-> <<>>], [i \in 1..count.v |-> i])
    IN  CASE type.kind = "uint" -> PopUint(bytes, pos, type.size)
          [] type.kind = "string" -> PopString(bytes, pos)
          [] type.kind = "pair" -> ReadAll(type.of, bytes, pos, <<1, 2>>)
          [] type.kind = "struct" -> ReadAll(type.of, bytes, pos, Packables[Len(type.of)].read)
          [] type.kind = "list" -> Elements(Append)
          [] type.kind = "map" -> Elements(Insert)

\* Packet::Unmarshall and that of the class.
UnmarshallAll(class, bytes) ==
    LET server == PopUint(bytes, Rewind(bytes), 2)
        uri    == PopUint(bytes, server.pos, 2)
        all    == ReadAll(class.of, bytes, uri.pos, PacketMacro(Len(class.of)).read)
    IN  [server |-> server.v, uri |-> uri.v, values |-> all.v, left |-> Len(bytes) + 1 - all.pos]

-----------------------------------------------------------------------------
PacketsInit == Init /\ message = Nothing /\ got = Nothing

\* A value for a member; structs and containers are made of their parts.
RECURSIVE Sample(_, _)
Sample(type, pick) ==
    LET Of(s) == s[(pick % Len(s)) + 1]
    IN  CASE type.kind = "uint" -> Of(Samples.uint[type.size])
          [] type.kind = "string" -> Of(Samples.string)
          [] type.kind \in {"pair", "struct"} -> [i \in DOMAIN type.of |-> Sample(type.of[i], pick + i)]
          [] type.kind = "list" -> [i \in 1..(pick % 3) |-> Sample(type.of[1], pick + i)]
          [] type.kind = "map" ->
               [i \in 1..(pick % 3) |-> <<i, Sample(type.of[1].of[2], pick + i)>>]

\* *p << packet on a new Packer: the pushes one after the other.
Marshall(class, server, pick) ==
    LET values == [i \in DOMAIN class.of |-> Sample(class.of[i], pick + i)]
        pieces == MarshallAll(class, server, values)
        bytes  == FlattenSeq([i \in DOMAIN pieces |-> pieces[i].bytes])
        After  == FoldLeft(LAMBDA acc, piece :
                              [pos |-> acc.pos + Len(piece.bytes),
                               cap |-> Grown(acc.cap, acc.pos + piece.room)],
                           [pos |-> position_, cap |-> capacity], pieces)
    IN  /\ Init /\ message = Nothing
        /\ position_' = After.pos
        /\ capacity' = After.cap
        /\ body' = Len(bytes)
        /\ pushes' = pushes + 1
        /\ message' = [class |-> class, server |-> server, values |-> values, bytes |-> bytes]
        /\ UNCHANGED <<length_, prefix, field, packed, got>>

\* The receiver unmarshalls the packet into a new object of its class.
Unmarshall ==
    /\ packed /\ message # Nothing
    /\ got' = UnmarshallAll(message.class, WordBytes(prefix) \o message.bytes)
    /\ UNCHANGED <<vars, message>>

PacketsNext ==
    \/ \E class \in Classes, server \in ServerTypes, pick \in 0..2 : Marshall(class, server, pick)
    \/ message = Nothing /\ Next /\ UNCHANGED <<message, got>>
    \/ message # Nothing /\ Pack /\ UNCHANGED <<message, got>>
    \/ Unmarshall
    \/ message # Nothing /\ Reset /\ message' = Nothing /\ got' = Nothing

PacketsSpec == PacketsInit /\ [][PacketsNext]_packetVars

-----------------------------------------------------------------------------
\* Every packet of every class, framed by the Packer and read back by the
\* Unpacker, has the server type, the uri and the members it was sent with,
\* and nothing of it is left unread or read twice.
PacketRoundTrips ==
    got # Nothing =>
       /\ got = [server |-> message.server, uri |-> message.class.uri,
                 values |-> message.values, left |-> 0]
       /\ Len(message.bytes) = body
=============================================================================
