---------------------------- MODULE PacketTypes ----------------------------
(***************************************************************************)
(* The packets and structs of the wire protocols, as the macros of          *)
(* base/packet_helper.h and base/declare_struct.h spell them out for each   *)
(* number of members, and the packets that protocol/uni_lbs_protocol.h and  *)
(* new_elbs/new_elbs_protocol.h declare with them.  A member is its number. *)
(***************************************************************************)
EXTENDS Integers, Sequences

-----------------------------------------------------------------------------
(* NEW_DECLARE_PACKET_n: the members, those the constructors initialise,     *)
(* and the order in which Marshall writes and Unmarshall reads them.          *)
Packet_0 ==
    [init |-> 1..0, write |-> <<>>, read |-> <<>>]
Packet_1 ==
    [init |-> 1..1, write |-> <<1>>,
     read |-> <<1>>]
Packet_2 ==
    [init |-> 1..2, write |-> <<1, 2>>,
     read |-> <<1, 2>>]
Packet_3 ==
    [init |-> 1..3, write |-> <<1, 2, 3>>,
     read |-> <<1, 2, 3>>]
Packet_4 ==
    [init |-> 1..4, write |-> <<1, 2, 3, 4>>,
     read |-> <<1, 2, 3, 4>>]
Packet_5 ==
    [init |-> 1..5, write |-> <<1, 2, 3, 4, 5>>,
     read |-> <<1, 2, 3, 4, 5>>]
Packet_6 ==
    [init |-> 1..6, write |-> <<1, 2, 3, 4, 5, 6>>,
     read |-> <<1, 2, 3, 4, 5, 6>>]
Packet_7 ==
    [init |-> 1..7, write |-> <<1, 2, 3, 4, 5, 6, 7>>,
     read |-> <<1, 2, 3, 4, 5, 6, 7>>]
Packet_8 ==
    [init |-> 1..8, write |-> <<1, 2, 3, 4, 5, 6, 7, 8>>,
     read |-> <<1, 2, 3, 4, 5, 6, 7, 8>>]
Packet_9 ==
    [init |-> 1..9, write |-> <<1, 2, 3, 4, 5, 6, 7, 8, 9>>,
     read |-> <<1, 2, 3, 4, 5, 6, 7, 8, 9>>]
Packet_10 ==
    [init |-> 1..10, write |-> <<1, 2, 3, 4, 5, 6, 7, 8, 9, 10>>,
     read |-> <<1, 2, 3, 4, 5, 6, 7, 8, 9, 10>>]
Packet_11 ==
    [init |-> 1..11, write |-> <<1, 2, 3, 4, 5, 6, 7, 8, 9, 10, 11>>,
     read |-> <<1, 2, 3, 4, 5, 6, 7, 8, 9, 10, 11>>]
Packet_12 ==
    [init |-> 1..12, write |-> <<1, 2, 3, 4, 5, 6, 7, 8, 9, 10, 11, 12>>,
     read |-> <<1, 2, 3, 4, 5, 6, 7, 8, 9, 10, 11, 12>>]
Packet_13 ==
    [init |-> 1..13, write |-> <<1, 2, 3, 4, 5, 6, 7, 8, 9, 10, 11, 12, 13>>,
     read |-> <<1, 2, 3, 4, 5, 6, 7, 8, 9, 10, 11, 12, 13>>]
Packet_14 ==
    [init |-> 1..14, write |-> <<1, 2, 3, 4, 5, 6, 7, 8, 9, 10, 11, 12, 13, 14>>,
     read |-> <<1, 2, 3, 4, 5, 6, 7, 8, 9, 10, 11, 12, 13, 14>>]

PacketMacros ==
    <<Packet_1, Packet_2, Packet_3, Packet_4, Packet_5, Packet_6, Packet_7,
      Packet_8, Packet_9, Packet_10, Packet_11, Packet_12, Packet_13, Packet_14>>

PacketMacro(n) == IF n = 0 THEN Packet_0 ELSE PacketMacros[n]
-----------------------------------------------------------------------------
(* NEW_DECLARE_SIMPLE_STRUCT_n: the members that the constructors, the copy   *)
(* constructor and the assignment take care of.                              *)

SimpleStruct_1 == [init |-> 1..1, copy |-> {1}, assign |-> {1}]
SimpleStruct_2 == [init |-> 1..2, copy |-> 1..2, assign |-> 1..2]
SimpleStruct_3 == [init |-> 1..3, copy |-> {1, 2, 3}, assign |-> {1, 2, 3}]
SimpleStruct_4 == [init |-> 1..4, copy |-> {1, 2, 3, 4}, assign |-> {1, 2, 3, 4}]
SimpleStruct_5 == [init |-> 1..5, copy |-> {1, 2, 3, 4, 5}, assign |-> {1, 2, 3, 4, 5}]
SimpleStruct_6 == [init |-> 1..6, copy |-> {1, 2, 3, 4, 5, 6}, assign |-> {1, 2, 3, 4, 5, 6}]
SimpleStruct_7 == [init |-> 1..7, copy |-> {1, 2, 3, 4, 5, 6, 7}, assign |-> {1, 2, 3, 4, 5, 6, 7}]
SimpleStruct_8 == [init |-> 1..8, copy |-> {1, 2, 3, 4, 5, 6, 7, 8}, assign |-> {1, 2, 3, 4, 5, 6, 7, 8}]
SimpleStruct_9 == [init |-> 1..9, copy |-> {1, 2, 3, 4, 5, 6, 7, 8, 9}, assign |-> {1, 2, 3, 4, 5, 6, 7, 8, 9}]

SimpleStructs ==
    <<SimpleStruct_1, SimpleStruct_2, SimpleStruct_3, SimpleStruct_4, SimpleStruct_5,
      SimpleStruct_6, SimpleStruct_7, SimpleStruct_8, SimpleStruct_9>>

-----------------------------------------------------------------------------
(* NEW_DECLARE_STRUCT_n: operator< is a disjunction of clauses; a clause says  *)
(* that its last member is less and the others are equal.  operator==         *)
(* compares the members listed.                                              *)

Struct_1 ==
    [less |-> <<<<1>>>>,
     equal |-> <<1>>]
Struct_2 ==
    [less |-> <<<<1>>, <<1, 2>>>>,
     equal |-> <<1, 2>>]
Struct_3 ==
    [less |-> <<<<1>>, <<1, 2>>, <<1, 2, 3>>>>,
     equal |-> <<1, 2, 3>>]
Struct_4 ==
    [less |-> <<<<1>>, <<1, 2>>, <<1, 2, 3>>, <<1, 2, 3, 4>>>>,
     equal |-> <<1, 2, 3, 4>>]
Struct_5 ==
    [less |-> <<<<1>>, <<1, 2>>, <<1, 2, 3>>, <<1, 2, 3, 4>>, <<1, 2, 3, 4, 5>>>>,
     equal |-> <<1, 2, 3, 4, 5>>]
Struct_6 ==
    [less |-> <<<<1>>, <<1, 2>>, <<1, 2, 3>>, <<1, 2, 3, 4>>, <<1, 2, 3, 4, 5>>,
               <<1, 2, 3, 4, 5, 6>>>>,
     equal |-> <<1, 2, 3, 4, 5, 6>>]
Struct_7 ==
    [less |-> <<<<1>>, <<1, 2>>, <<1, 2, 3>>, <<1, 2, 3, 4>>, <<1, 2, 3, 4, 5>>,
               <<1, 2, 3, 4, 5, 6>>, <<1, 2, 3, 4, 5, 6, 7>>>>,
     equal |-> <<1, 2, 3, 4, 5, 6, 7>>]
Struct_8 ==
    [less |-> <<<<1>>, <<1, 2>>, <<1, 2, 3>>, <<1, 2, 3, 4>>, <<1, 2, 3, 4, 5>>,
               <<1, 2, 3, 4, 5, 6>>, <<1, 2, 3, 4, 5, 6, 7>>,
               <<1, 2, 3, 4, 5, 6, 7, 8>>>>,
     equal |-> <<1, 2, 3, 4, 5, 6, 7, 8>>]
Struct_9 ==
    [less |-> <<<<1>>, <<1, 2>>, <<1, 2, 3>>, <<1, 2, 3, 4>>, <<1, 2, 3, 4, 5>>,
               <<1, 2, 3, 4, 5, 6>>, <<1, 2, 3, 4, 5, 6, 7>>,
               <<1, 2, 3, 4, 5, 6, 7, 8>>, <<1, 2, 3, 4, 5, 6, 7, 8, 9>>>>,
     equal |-> <<1, 2, 3, 4, 5, 6, 7, 8, 9>>]

Structs == <<Struct_1, Struct_2, Struct_3, Struct_4, Struct_5, Struct_6, Struct_7, Struct_8, Struct_9>>

-----------------------------------------------------------------------------
(* NEW_DECLARE_PACKABLE_n, a simple struct with operators: the order of         *)
(* operator<< and of operator>>.                                             *)

Packable_1 ==
    [write |-> <<1>>, read |-> <<1>>]
Packable_2 ==
    [write |-> <<1, 2>>, read |-> <<1, 2>>]
Packable_3 ==
    [write |-> <<1, 2, 3>>, read |-> <<1, 2, 3>>]
Packable_4 ==
    [write |-> <<1, 2, 3, 4>>, read |-> <<1, 2, 3, 4>>]
Packable_5 ==
    [write |-> <<1, 2, 3, 4, 5>>, read |-> <<1, 2, 3, 4, 5>>]
Packable_6 ==
    [write |-> <<1, 2, 3, 4, 5, 6>>, read |-> <<1, 2, 3, 4, 5, 6>>]
Packable_7 ==
    [write |-> <<1, 2, 3, 4, 5, 6, 7>>, read |-> <<1, 2, 3, 4, 5, 6, 7>>]
Packable_8 ==
    [write |-> <<1, 2, 3, 4, 5, 6, 7, 8>>, read |-> <<1, 2, 3, 4, 5, 6, 7, 8>>]
Packable_9 ==
    [write |-> <<1, 2, 3, 4, 5, 6, 7, 8, 9>>, read |-> <<1, 2, 3, 4, 5, 6, 7, 8, 9>>]

Packables ==
    <<Packable_1, Packable_2, Packable_3, Packable_4, Packable_5,
      Packable_6, Packable_7, Packable_8, Packable_9>>

-----------------------------------------------------------------------------
(* Types of members: unsigned integers of a number of bytes, strings and      *)
(* buffers, containers with a count, and structs and pairs.                    *)

U(size) == [kind |-> "uint", size |-> size, of |-> <<>>]
Str == [kind |-> "string", size |-> 0, of |-> <<>>]
List(type) == [kind |-> "list", size |-> 0, of |-> <<type>>]
Struct(types) == [kind |-> "struct", size |-> 0, of |-> types]
Pair(first, second) == [kind |-> "pair", size |-> 0, of |-> <<first, second>>]
Map(key, value) == [kind |-> "map", size |-> 0, of |-> <<Pair(key, value)>>]

DetailInfoMap == Map(U(4), U(4))
DetailInfo2Map == Map(U(4), Str)
AllChannelVector == List(Pair(U(4), Str))

Class(uri, types) == [uri |-> uri, of |-> types]

-----------------------------------------------------------------------------
(* uni_lbs_protocol.h.                                                        *)

AccessTicket == Struct(<<Str, Str>>)
TicketDetail5 == Class(5, <<U(4), U(4), List(U(4)), U(4), U(4), Str>>)
DetailedSignature5 ==
    Struct(<<U(4), U(4), U(4), List(U(4)), U(4), U(4), Str>>)
TicketDetail7 == Class(7, <<U(4), U(4), U(4), U(4), Str>>)
TicketDetail8 ==
    Class(8, <<U(4), U(4), U(4), List(U(4)), U(4), U(4), Str, U(4)>>)
LbsTestJoinReq == Class(1000, <<U(4), Str, Str, U(2)>>)
LbsJoinReq == Class(1001, <<U(4), Str, U(2)>>)
LbsJoinRes == Class(1002, <<U(4), U(4)>>)
LbsJoinReq2 == Class(1007, <<U(4), Str, U(2), DetailInfo2Map>>)
LbsJoinRes2 == Class(1008, <<U(4), U(4), DetailInfo2Map>>)
LbsPing == Class(1003, <<U(4), DetailInfoMap>>)
LbsPong == Class(1004, <<U(4), DetailInfoMap>>)
LbsFullChannelList == Class(1005, <<U(4), AllChannelVector>>)
LbsDeltaChannelList ==
    Class(1006, <<U(4), AllChannelVector, AllChannelVector>>)

-----------------------------------------------------------------------------
(* new_elbs_protocol.h.                                                       *)

WorkerManagerComm == Class(1000, <<Str>>)
RejoinRequestProtocol == Class(6, <<U(4), U(2)>>)
RejoinResponseProtocol == Class(7, <<U(4), U(4), U(2)>>)
RejoinRequest2Protocol == Class(8, <<U(4), U(2)>>)
RejoinResponse2Protocol == Class(9, <<U(4), U(4), U(2)>>)

Protocol ==
    {TicketDetail5, TicketDetail7, TicketDetail8, LbsTestJoinReq,
     LbsJoinReq, LbsJoinRes, LbsJoinReq2, LbsJoinRes2,
     LbsPing, LbsPong, LbsFullChannelList, LbsDeltaChannelList,
     WorkerManagerComm, RejoinRequestProtocol, RejoinResponseProtocol, RejoinRequest2Protocol,
     RejoinResponse2Protocol}
=============================================================================
