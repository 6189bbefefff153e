----------------------------- MODULE MCPackets -----------------------------
(* Packets at the real widths: pushes that land on, just below and just above *)
(* the 15-bit boundary and the packet limit, the packets of the protocols and *)
(* one for every number of members.  Endpoints of all kinds, keys that differ *)
(* in one member each.                                                        *)
EXTENDS Wire

MCPushSizes == {1, 4, 32761, 8323000}
MCValues == {0, 32767, 32768, 8388607}

Each(n) == Class(n, [i \in 1..n |-> U(IF i % 3 = 0 THEN 1 ELSE IF i % 3 = 1 THEN 2 ELSE 4)])
Tickets == Class(99, <<AccessTicket, DetailedSignature5>>)
MCClasses == Protocol \cup {Each(n) : n \in 0..14} \cup {Tickets}
                \cup {Class(100 + n, <<Struct([i \in 1..n |-> U(2)])>>) : n \in 1..9}

\* More samples than members of one size, so that members have different
\* values.
MCSamples ==
    [uint |-> (1 :> <<7, 255, 0, 128, 1>>
               @@ 2 :> <<513, 65535, 1024, 0, 255, 256, 77, 32768, 3, 4660, 1>>
               @@ 4 :> <<16909060, 3, 2147483647, 40000, 65536, 0, 305419896, 255, 32768, 1, 77>>),
     string |-> <<<<>>, <<65>>, <<0, 34, 255>>>>]

End(version, ip, port, scope, path) ==
    [version |-> version, ip |-> ip, port |-> port, scope |-> scope, path |-> path]
MCEndpoints ==
    {End("kIp4", ip, port, 0, <<>>) : ip \in {16909060, 67305985}, port \in {1, 258}}
      \cup {End("kIp6", ip, port, scope, <<>>) :
               ip \in {<<0, 0, 0, 1>>, <<0, 0, 1, 0>>, <<1, 2, 0, 0>>}, port \in {258}, scope \in {0, 2}}
      \cup {End("kUnix", 0, 0, 0, path) : path \in {<<>>, <<47>>, <<47, 97, 98>>}}

Unit(n, m) == [i \in 1..n |-> IF i = m THEN 1 ELSE 0]
MCStructKeys == UNION {{Unit(n, m) : m \in 0..n} \cup {[i \in 1..n |-> 1]} : n \in 1..9}
=============================================================================
