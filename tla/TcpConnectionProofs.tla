------------------------ MODULE TcpConnectionProofs ------------------------
(***************************************************************************)
(* The life of a TcpConnection (network/tcp_connection.cpp), for any peer, *)
(* any lengths and any chunking: nobody uses it after it was deleted, and  *)
(* it is deleted once its owner let it go.  Then its stream: the packets   *)
(* that OnDataReady hands over are the packets of the peer.  Then both for *)
(* a connection that a TcpServer (network/tcp_server.cpp) accepts,         *)
(* whatever becomes of the server.                                         *)
(***************************************************************************)
EXTENDS TcpServer, TLAPS

\* Where OnDataReady is on the stack.
Processing == {"loop", "packet_callback", "error_callback", "done"}

Types ==
    /\ exists \in BOOLEAN
    /\ open \in BOOLEAN
    /\ is_in_processing_ \in BOOLEAN
    /\ owner_has \in BOOLEAN
    /\ pc \in Processing \cup {"idle", "event_callback"}

\* The object lives while it has its bufferevent, and after that exactly as
\* long as OnDataReady is running; it is the owner who closes it, and closing
\* it is how the owner lets it go.
Life ==
    /\ is_in_processing_ <=> pc \in Processing
    /\ exists <=> open \/ is_in_processing_
    /\ owner_has <=> open

Inv == Types /\ Life

-----------------------------------------------------------------------------

\* A new connection is open and owned.
LEMMA InitInv == Init => Inv
  BY DEF Init, Inv, Types, Life, Processing

\* Every step keeps the invariant: the loop changes where the thread is, and
\* only CloseAndDestroy and the end of the loop change what exists.
LEMMA StepInv == Inv /\ [Next]_vars => Inv'
<1> SUFFICES ASSUME Inv, [Next]_vars PROVE Inv'
  OBVIOUS
<1> USE DEF Inv, Types, Life, Processing
<1>1. ASSUME NEW length \in Lengths, PeerSends(length) PROVE Inv'
  BY <1>1 DEF PeerSends, conn
<1>2. ASSUME NEW n, ReadCallback(n) PROVE Inv'
  BY <1>2 DEF ReadCallback
<1>3. CASE EventCallback
  BY <1>3 DEF EventCallback
<1>4. CASE LoopEnds
  BY <1>4 DEF LoopEnds, conn
<1>5. CASE LoopRejects
  BY <1>5 DEF LoopRejects, conn
<1>6. CASE LoopDelivers
  BY <1>6 DEF LoopDelivers, conn
<1>7. CASE LoopDone
  BY <1>7 DEF LoopDone
<1>8. CASE CallbackReturns
  <2>1. CASE pc = "packet_callback"
    BY <1>8, <2>1 DEF CallbackReturns, conn
  <2>2. CASE pc = "error_callback"
    BY <1>8, <2>2 DEF CallbackReturns, conn
  <2>3. CASE pc = "event_callback"
    BY <1>8, <2>3 DEF CallbackReturns, conn
  <2>4. QED
    BY <1>8, <2>1, <2>2, <2>3 DEF CallbackReturns, InCallback
<1>9. CASE CloseAndDestroy
  BY <1>9 DEF CloseAndDestroy
<1>10. CASE Detach
  BY <1>10 DEF Detach
<1>11. CASE UNCHANGED vars
  BY <1>11 DEF vars, conn
<1>12. QED
  BY <1>1, <1>2, <1>3, <1>4, <1>5, <1>6, <1>7, <1>8, <1>9, <1>10, <1>11
     DEF Next, OnDataReady

\* The invariant holds in every reachable state.
THEOREM Invariance == Spec => []Inv
  BY InitInv, StepInv, PTL DEF Spec

\* Neither OnDataReady after a callback, nor libevent, nor the owner touches a
\* connection that CloseAndDestroy or the end of OnDataReady has deleted.
THEOREM NobodyUsesAfterFree == Spec => []NoUseAfterFree
<1>1. Inv => NoUseAfterFree
  BY DEF Inv, Types, Life, Processing, NoUseAfterFree
<1>2. QED
  BY <1>1, Invariance, PTL

\* A connection its owner closed, inside a callback or outside, is deleted by
\* the time the thread is back in the event loop.
THEOREM NothingLeaks == Spec => []NoLeak
<1>1. Inv => NoLeak
  BY DEF Inv, Types, Life, Processing, NoLeak
<1>2. QED
  BY <1>1, Invariance, PTL

-----------------------------------------------------------------------------
(* The stream.                                                             *)

StreamTypes ==
    /\ total \in Nat /\ arrived \in Nat /\ taken \in Nat
    /\ arrived <= total
    /\ sent \in Seq([start : Nat, length : Lengths])
    /\ delivered \in Seq([start : Nat, length : Nat])

\* Where the packet after packet k begins, or will begin.
StartAfter(k) == IF k < Len(sent) THEN sent[k + 1].start ELSE total

\* The packets lie one behind the other in the stream, no two at one place.
Laid ==
    /\ \A k \in 1..Len(sent) :
           /\ sent[k].start + sent[k].length = StartAfter(k)
           /\ sent[k].start < total
    /\ \A j, k \in 1..Len(sent) : j < k => sent[j].start < sent[k].start

\* The input buffer begins where the packet begins that is next.
InStep == taken = StartAfter(Len(delivered))

StreamInv == StreamTypes /\ Laid /\ InStep /\ PacketsAsSent

\* A new connection has sent and delivered nothing.
LEMMA StreamInitInv ==
    ASSUME sent = <<>>, total = 0, arrived = 0, taken = 0, delivered = <<>>
    PROVE  StreamInv
<1>1. Len(sent) = 0 /\ Len(delivered) = 0
  OBVIOUS
<1>2. StreamTypes
  BY DEF StreamTypes
<1>3. Laid /\ InStep /\ PacketsAsSent
  BY <1>1 DEF Laid, InStep, StartAfter, PacketsAsSent
<1>4. QED
  BY <1>2, <1>3 DEF StreamInv

\* What the peer sent is made of packets with a length of the peer.
LEMMA SentIsPackets ==
    ASSUME StreamTypes, NEW k \in 1..Len(sent)
    PROVE  /\ sent[k] = Packet(sent[k].start, sent[k].length)
           /\ sent[k].start \in Nat
           /\ sent[k].length \in Lengths
           /\ sent[k].length \in 0..(Half * Upper - 1)
           /\ sent[k].length > 0
<1>1. sent[k] \in [start : Nat, length : Lengths]
  <2> DEFINE Sendable == [start : Nat, length : Lengths]
  <2>1. sent \in Seq(Sendable)
    BY DEF StreamTypes
  <2> HIDE DEF Sendable
  <2>2. sent[k] \in Sendable
    BY <2>1
  <2>3. QED
    BY <2>2 DEF Sendable
<1>2. sent[k].start \in Nat /\ sent[k].length \in Lengths
      /\ sent[k] = Packet(sent[k].start, sent[k].length)
  BY <1>1 DEF Packet
<1>3. sent[k].length \in 1..(Half * Upper - 1)
  BY <1>2, LengthsAssumption
<1>4. Half * Upper \in Nat
  BY WordAssumption
<1>5. QED
  BY <1>2, <1>3, <1>4

\* A number put together from a quotient and a remainder comes apart again.
LEMMA DivMod ==
    ASSUME NEW d \in Nat \ {0}, NEW q \in Nat, NEW r \in 0..(d - 1)
    PROVE  (r + q * d) % d = r /\ (r + q * d) \div d = q
<1> DEFINE v == r + q * d
<1>1. v \in Nat
  OBVIOUS
<1> HIDE DEF v
<1>2. /\ v % d \in 0..(d - 1) /\ v \div d \in Nat
      /\ v = (v \div d) * d + (v % d)
  BY <1>1, SMTT(30)
<1>3. v = q * d + r
  BY DEF v
<1> DEFINE p == v \div d
           s == v % d
<1>4. p \in Nat /\ s \in 0..(d - 1) /\ p * d + s = q * d + r
  BY <1>2, <1>3
<1> HIDE DEF p, s
<1>5. ~(p < q)
  <2>1. SUFFICES ASSUME p < q PROVE FALSE
    OBVIOUS
  <2>2. (p + 1) * d <= q * d
    BY <1>4, <2>1, SMTT(30)
  <2>3. QED
    BY <1>4, <2>2, SMTT(30)
<1>6. ~(q < p)
  <2>1. SUFFICES ASSUME q < p PROVE FALSE
    OBVIOUS
  <2>2. (q + 1) * d <= p * d
    BY <1>4, <2>1, SMTT(30)
  <2>3. QED
    BY <1>4, <2>2, SMTT(30)
<1>7. p = q /\ s = r
  BY <1>4, <1>5, <1>6
<1>8. QED
  BY <1>7 DEF p, s, v

\* OnDataReady reads back the length that the peer's Packer wrote, whatever
\* byte follows the prefix.
LEMMA LengthRoundTrip ==
    ASSUME NEW v \in 0..(Half * Upper - 1), NEW behind \in 0..(Upper - 1)
    PROVE  PacketLength(EncodeLength(v), behind) = v
<1>0. Half * Upper \in Nat /\ v \in Nat /\ v < Half * Upper
  BY WordAssumption
<1>1. CASE v < Half
  BY <1>0, <1>1, WordAssumption DEF EncodeLength, PacketLength
<1>2. CASE v >= Half
  <2> DEFINE r == v % Half
             q == v \div Half
             W == 2 * Half
             M == 2 * Half * Upper
             low == (r + Half) + q * W
  <2>1. r \in 0..(Half - 1) /\ q \in Nat /\ v = q * Half + r
    BY <1>0, WordAssumption, SMTT(30)
  <2>2. q < Upper
    <3>1. SUFFICES ASSUME q >= Upper PROVE FALSE
      BY <2>1, WordAssumption
    <3>2. q * Half >= Upper * Half
      BY <2>1, <3>1, WordAssumption, SMTT(30)
    <3>3. QED
      BY <1>0, <2>1, <3>2, WordAssumption, SMTT(30)
  <2>3. q % Upper = q
    BY <2>1, <2>2, WordAssumption
  <2>4. (r + Half) % Half = r /\ ~(r + Half < Half) /\ r + Half >= Half
    BY <2>1, WordAssumption
  <2>5. EncodeLength(v) = [lower |-> r + Half, upper |-> q, size |-> 3]
    BY <1>0, <1>2, <2>3, WordAssumption DEF EncodeLength
  <2> HIDE DEF r, q
  <2>6. W \in Nat \ {0} /\ r + Half \in 0..(W - 1) /\ M = W * Upper
        /\ M \in Nat \ {0}
    BY <2>1, WordAssumption, SMTT(30)
  <2>7. low \in 0..(M - 1)
    <3>1. (q + 1) * W <= Upper * W
      BY <2>1, <2>2, <2>6, WordAssumption, SMTT(30)
    <3>2. QED
      BY <2>1, <2>6, <3>1, WordAssumption, SMTT(30)
  <2> HIDE DEF W, M
  <2>8. low \div W = q
    BY <2>1, <2>6, DivMod
  <2>9. behind \in Nat
    BY WordAssumption
  <2> HIDE DEF low
  <2>10. (low + behind * M) % M = low
    BY <2>6, <2>7, <2>9, DivMod
  <2>11. PacketLength(EncodeLength(v), behind) = r + (low \div W) * Half
    BY <2>4, <2>5, <2>10 DEF PacketLength, low, W, M
  <2>12. QED
    BY <2>1, <2>8, <2>11, WordAssumption
<1>3. QED
  BY <1>0, <1>1, <1>2, WordAssumption

\* With a header in the buffer, what stands at its head is the next packet of
\* the peer, and no other length can be read there.
LEMMA HeadIsNextPacket ==
    ASSUME StreamInv, Buffered >= kMinPacketLen
    PROVE  LET next == Len(delivered) + 1
           IN  /\ next \in 1..Len(sent)
               /\ taken = sent[next].start
               /\ HeadLengths = {sent[next].length}
<1> DEFINE next == Len(delivered) + 1
<1>1. Len(sent) \in Nat /\ Len(delivered) \in Nat
      /\ Len(delivered) <= Len(sent)
  BY DEF StreamInv, StreamTypes, PacketsAsSent
<1>2. taken < total
  BY DEF StreamInv, StreamTypes, Buffered, kMinPacketLen
<1>3. next \in 1..Len(sent) /\ taken = sent[next].start
  BY <1>1, <1>2 DEF StreamInv, InStep, StartAfter, StreamTypes
<1>4. \A k \in 1..Len(sent) : sent[k].start \in Nat
  BY SentIsPackets DEF StreamInv
<1> HIDE DEF next
<1>5. PacketsAt(taken) = {next}
  <2>1. ASSUME NEW k \in 1..Len(sent), sent[k].start = sent[next].start
        PROVE  k = next
    BY <1>1, <1>3, <1>4, <2>1 DEF StreamInv, Laid
  <2>2. QED
    BY <1>3, <2>1 DEF PacketsAt
<1>6. HeadLengths = {PacketLength(EncodeLength(sent[next].length), behind) :
                         behind \in 0..(Upper - 1)}
  BY <1>5 DEF HeadLengths
<1>7. sent[next].length \in 0..(Half * Upper - 1) /\ 0 \in 0..(Upper - 1)
  BY <1>3, SentIsPackets, WordAssumption DEF StreamInv
<1>8. HeadLengths = {sent[next].length}
  BY <1>6, <1>7, LengthRoundTrip
<1>9. QED
  BY <1>3, <1>8 DEF next

\* A packet the peer sends lies behind the others.
LEMMA PeerSendsKeepsStream ==
    ASSUME StreamInv, NEW length \in Lengths, PeerSends(length)
    PROVE  StreamInv'
<1>1. length \in Nat /\ length > 0 /\ total \in Nat /\ Len(sent) \in Nat
      /\ Len(delivered) \in Nat /\ Len(delivered) <= Len(sent)
  BY LengthsAssumption, WordAssumption
     DEF StreamInv, StreamTypes, PacketsAsSent
<1>2. sent' = Append(sent, Packet(total, length)) /\ total' = total + length
      /\ arrived' = arrived /\ taken' = taken /\ delivered' = delivered
  BY DEF PeerSends
<1>3. Packet(total, length) \in [start : Nat, length : Lengths]
      /\ Packet(total, length).start = total
      /\ Packet(total, length).length = length
  BY <1>1 DEF Packet
<1>4. /\ Len(sent') = Len(sent) + 1
      /\ \A k \in 1..Len(sent) : sent'[k] = sent[k]
      /\ sent'[Len(sent) + 1] = Packet(total, length)
      /\ sent' \in Seq([start : Nat, length : Lengths])
  BY <1>2, <1>3 DEF StreamInv, StreamTypes
<1>5. StreamTypes'
  BY <1>1, <1>2, <1>4 DEF StreamInv, StreamTypes
<1>6. \A k \in 1..Len(sent) : sent[k].start \in Nat /\ sent[k].start < total
  BY SentIsPackets DEF StreamInv, Laid
<1>7. \A k \in 0..Len(sent) : StartAfter(k)' = StartAfter(k)
  BY <1>1, <1>2, <1>3, <1>4 DEF StartAfter
<1>8. Laid'
  <2>1. ASSUME NEW k \in 1..Len(sent')
        PROVE  /\ sent'[k].start + sent'[k].length = StartAfter(k)'
               /\ sent'[k].start < total'
    <3>1. CASE k \in 1..Len(sent)
      <4>1. sent[k].start + sent[k].length = StartAfter(k)
        BY <3>1 DEF StreamInv, Laid
      <4>2. sent'[k] = sent[k] /\ StartAfter(k)' = StartAfter(k)
        BY <1>1, <1>4, <1>7, <3>1
      <4>3. sent[k].start < total + length
        BY <1>1, <1>6, <3>1
      <4>4. QED
        BY <1>2, <4>1, <4>2, <4>3
    <3>2. CASE k = Len(sent) + 1
      BY <1>1, <1>2, <1>3, <1>4, <3>2 DEF StartAfter
    <3>3. QED
      BY <1>1, <1>4, <3>1, <3>2
  <2>2. ASSUME NEW j \in 1..Len(sent'), NEW k \in 1..Len(sent'), j < k
        PROVE  sent'[j].start < sent'[k].start
    <3>1. CASE k \in 1..Len(sent)
      <4>1. j \in 1..Len(sent)
        BY <1>1, <1>4, <2>2, <3>1
      <4>2. sent[j].start < sent[k].start
        BY <2>2, <3>1, <4>1 DEF StreamInv, Laid
      <4>3. QED
        BY <1>4, <3>1, <4>1, <4>2
    <3>2. CASE k = Len(sent) + 1
      BY <1>1, <1>3, <1>4, <1>6, <2>2, <3>2
    <3>3. QED
      BY <1>1, <1>4, <3>1, <3>2
  <2>3. QED
    BY <2>1, <2>2 DEF Laid
<1>9. InStep'
  BY <1>1, <1>2, <1>7 DEF StreamInv, InStep
<1>10. PacketsAsSent'
  BY <1>1, <1>2, <1>4 DEF StreamInv, PacketsAsSent
<1>11. QED
  BY <1>5, <1>8, <1>9, <1>10 DEF StreamInv

\* OnDataReady hands over the next packet and is left at the one behind it.
LEMMA LoopDeliversKeepsStream ==
    ASSUME StreamInv, LoopDelivers
    PROVE  StreamInv'
<1> DEFINE next == Len(delivered) + 1
<1>1. Buffered >= kMinPacketLen
  BY DEF LoopDelivers
<1>2. /\ next \in 1..Len(sent)
      /\ taken = sent[next].start
      /\ HeadLengths = {sent[next].length}
  BY <1>1, HeadIsNextPacket
<1>3. /\ delivered' = Append(delivered, Packet(taken, sent[next].length))
      /\ taken' = taken + sent[next].length
      /\ sent' = sent /\ total' = total /\ arrived' = arrived
  BY <1>2 DEF LoopDelivers
<1>4. Len(sent) \in Nat /\ Len(delivered) \in Nat /\ taken \in Nat
  BY DEF StreamInv, StreamTypes
<1>5. sent[next].length \in Nat
      /\ Packet(taken, sent[next].length) = sent[next]
  <2>1. StreamTypes
    BY DEF StreamInv
  <2> HIDE DEF next
  <2>2. sent[next].length \in 0..(Half * Upper - 1)
        /\ Packet(sent[next].start, sent[next].length) = sent[next]
    BY <1>2, <2>1, SentIsPackets
  <2>3. QED
    BY <1>2, <2>2, WordAssumption
<1>6. sent[next] \in [start : Nat, length : Nat]
  BY <1>4, <1>5 DEF Packet
<1>7. /\ Len(delivered') = next
      /\ \A k \in 1..Len(delivered) : delivered'[k] = delivered[k]
      /\ delivered'[next] = sent[next]
      /\ delivered' \in Seq([start : Nat, length : Nat])
  BY <1>3, <1>5, <1>6 DEF StreamInv, StreamTypes
<1>8. StreamTypes'
  BY <1>3, <1>4, <1>5, <1>7 DEF StreamInv, StreamTypes
<1>9. Laid'
  BY <1>3 DEF StreamInv, Laid, StartAfter
<1>10. InStep'
  <2>1. taken' = StartAfter(next)
    BY <1>2, <1>3 DEF StreamInv, Laid
  <2>2. QED
    BY <1>3, <1>7, <2>1 DEF InStep, StartAfter
<1>11. PacketsAsSent'
  BY <1>2, <1>3, <1>4, <1>7 DEF StreamInv, PacketsAsSent
<1>12. QED
  BY <1>8, <1>9, <1>10, <1>11 DEF StreamInv

\* The other steps leave the stream alone, or read more of it.
LEMMA StreamStepInv == StreamInv /\ [Next]_vars => StreamInv'
<1> SUFFICES ASSUME StreamInv, [Next]_vars PROVE StreamInv'
  OBVIOUS
<1> DEFINE Kept == UNCHANGED <<sent, total, arrived, taken, delivered>>
<1>1. ASSUME Kept PROVE StreamInv'
  BY <1>1 DEF StreamInv, StreamTypes, Laid, InStep, StartAfter, PacketsAsSent
<1>2. ASSUME NEW length \in Lengths, PeerSends(length) PROVE StreamInv'
  BY <1>2, PeerSendsKeepsStream
<1>3. ASSUME NEW n \in 1..total, ReadCallback(n) PROVE StreamInv'
  <2>1. /\ arrived' = arrived + n /\ arrived + n <= total
        /\ sent' = sent /\ total' = total /\ taken' = taken
        /\ delivered' = delivered
    BY <1>3 DEF ReadCallback
  <2>2. StreamTypes'
    BY <2>1 DEF StreamInv, StreamTypes
  <2>3. QED
    BY <2>1, <2>2 DEF StreamInv, Laid, InStep, StartAfter, PacketsAsSent
<1>4. CASE LoopDelivers
  BY <1>4, LoopDeliversKeepsStream
<1>5. CASE EventCallback \/ LoopEnds \/ LoopRejects \/ LoopDone
  BY <1>1, <1>5 DEF EventCallback, LoopEnds, LoopRejects, LoopDone
<1>6. CASE CallbackReturns \/ CloseAndDestroy \/ Detach
  BY <1>1, <1>6 DEF CallbackReturns, CloseAndDestroy, Detach
<1>7. CASE UNCHANGED vars
  BY <1>1, <1>7 DEF vars
<1>8. QED
  BY <1>2, <1>3, <1>4, <1>5, <1>6, <1>7 DEF Next, OnDataReady

\* The stream invariant holds in every reachable state.
THEOREM StreamInvariance == Spec => []StreamInv
<1>1. Init => StreamInv
  BY StreamInitInv DEF Init
<1>2. QED
  BY <1>1, StreamStepInv, PTL DEF Spec

\* However libevent cuts the stream into chunks, and wherever the owner closes
\* the connection, OnDataReady hands over the peer's packets whole, in order,
\* none twice and none left out in between.
THEOREM PacketsArriveAsSent == Spec => []PacketsAsSent
<1>1. StreamInv => PacketsAsSent
  BY DEF StreamInv
<1>2. QED
  BY <1>1, StreamInvariance, PTL

-----------------------------------------------------------------------------
(* The server.                                                             *)

\* Before it is accepted a connection does not exist, which the invariant
\* allows.
LEMMA ServerInitInv == ServerInit => Inv
  BY DEF ServerInit, Inv, Types, Life, Processing

\* The steps of the server keep it too: AcceptConnection makes the connection
\* in the event loop, where OnDataReady of no earlier one is running.
LEMMA ServerStepInv == Inv /\ [ServerNext]_all_vars => Inv'
<1> SUFFICES ASSUME Inv, [ServerNext]_all_vars PROVE Inv'
  OBVIOUS
<1>1. ASSUME UNCHANGED vars PROVE Inv'
  BY <1>1, StepInv
<1>2. CASE ListenOn
  BY <1>1, <1>2 DEF ListenOn
<1>3. ASSUME NEW registered \in BOOLEAN, RegisterCallback(registered) PROVE Inv'
  BY <1>1, <1>3 DEF RegisterCallback
<1>4. CASE DestroyServer
  BY <1>1, <1>4 DEF DestroyServer
<1>5. CASE AcceptConnection
  BY <1>5 DEF AcceptConnection, Inv, Types, Life, Processing
<1>6. CASE AcceptNobody
  BY <1>1, <1>6 DEF AcceptNobody
<1>7. CASE Next
  BY <1>7, StepInv
<1>8. CASE UNCHANGED all_vars
  BY <1>1, <1>8 DEF all_vars
<1>9. QED
  BY <1>2, <1>3, <1>4, <1>5, <1>6, <1>7, <1>8 DEF ServerNext

\* A connection that AcceptConnection handed over is not used after it was
\* deleted, and is deleted once its owner let it go, also when callbacks come
\* and go and when the server is destroyed before the connection.
THEOREM AcceptedConnectionsAreSafe == ServerSpec => [](NoUseAfterFree /\ NoLeak)
<1>1. Inv => NoUseAfterFree /\ NoLeak
  BY DEF Inv, Types, Life, Processing, NoUseAfterFree, NoLeak
<1>2. QED
  BY <1>1, ServerInitInv, ServerStepInv, PTL DEF ServerSpec

\* The packets of an accepted connection are handed over as the peer sent
\* them, those included that it sent before AcceptConnection.
THEOREM AcceptedStreamsAreKept == ServerSpec => []PacketsAsSent
<1>1. ServerInit => StreamInv
  BY StreamInitInv DEF ServerInit
<1>2. StreamInv /\ [ServerNext]_all_vars => StreamInv'
  <2> SUFFICES ASSUME StreamInv, [ServerNext]_all_vars PROVE StreamInv'
    OBVIOUS
  <2>1. ASSUME UNCHANGED <<sent, total, arrived, taken, delivered>>
        PROVE  StreamInv'
    BY <2>1 DEF StreamInv, StreamTypes, Laid, InStep, StartAfter,
       PacketsAsSent
  <2>2. CASE ListenOn \/ DestroyServer \/ AcceptConnection \/ AcceptNobody
    BY <2>1, <2>2 DEF ListenOn, DestroyServer, AcceptConnection, AcceptNobody,
       vars
  <2>3. ASSUME NEW registered \in BOOLEAN, RegisterCallback(registered)
        PROVE  StreamInv'
    BY <2>1, <2>3 DEF RegisterCallback, vars
  <2>4. CASE Next
    BY <2>4, StreamStepInv
  <2>5. CASE UNCHANGED all_vars
    BY <2>1, <2>5 DEF all_vars, vars
  <2>6. QED
    BY <2>2, <2>3, <2>4, <2>5 DEF ServerNext
<1>3. StreamInv => PacketsAsSent
  BY DEF StreamInv
<1>4. QED
  BY <1>1, <1>2, <1>3, PTL DEF ServerSpec
=============================================================================
