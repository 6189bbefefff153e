---------------------------- MODULE TcpConnection ---------------------------
(***************************************************************************)
(* One framed TCP connection: network/tcp_connection.cpp.                  *)
(*                                                                         *)
(* The peer's packets are a stream of bytes; byte number n of the stream   *)
(* is only its position, and what stands in the length prefix of packet k  *)
(* is EncodeLength of the length the peer gave it.  libevent reads the     *)
(* stream into the input buffer in chunks of any size and calls            *)
(* OnDataReady, whose loop is modelled step by step because it calls the   *)
(* owner back, and the owner may close the connection from there.  The     *)
(* event loop has one thread: nothing arrives while a callback runs.       *)
(* Init is the connection that Create returned; TcpServer has the time     *)
(* before it.                                                              *)
(***************************************************************************)
EXTENDS LengthPrefix, Sequences

CONSTANTS
    Lengths,      \* packet lengths the peer writes, some below kMinPacketLen
    MaxPackets    \* bound: packets the peer sends

kMinPacketLen == 6

ASSUME LengthsAssumption == Lengths \subseteq 1..(Half * Upper - 1)

VARIABLES
    sent,               \* external: the packets the peer sent, each with the
                        \* position of its first byte in the stream
    total,              \* external: bytes the peer sent
    arrived,            \* bytes of the stream read into the input buffer
    taken,              \* bytes of the stream taken out of it
    delivered,          \* history: the packets OnPacketReceived was called
                        \* with, as pieces of the stream
    exists,             \* the TcpConnection was not deleted
    open,               \* bev_ is not NULL
    attached,           \* bev_ has a descriptor: Detach was not called
    reading,            \* libevent reads: it reported no error and no EOF
    is_in_processing_,
    failed,             \* history: OnDataReady called OnError on a length
    pc,                 \* where the thread is
    owner_has           \* the owner keeps its pointer

conn == <<exists, open, attached, reading, is_in_processing_, owner_has>>
vars == <<sent, total, arrived, taken, delivered, failed, pc, conn>>

-----------------------------------------------------------------------------

Packet(start, length) == [start |-> start, length |-> length]

\* The packets whose prefix stands at a position of the stream.
PacketsAt(position) == {k \in 1..Len(sent) : sent[k].start = position}

\* Mutant: the fourth byte is not masked.
PacketLengthUnmasked(word, behind) ==
    LET copied == word.lower + word.upper * (2 * Half)
                  + behind * (2 * Half * Upper)
    IN  IF word.lower >= Half
        THEN (word.lower % Half) + (copied \div (2 * Half)) * Half
        ELSE word.lower

\* How OnDataReady reads a prefix: the 16-bit word, and, when its top bit is
\* set, four bytes of which it masks the last, the one behind the prefix.
PacketLength(word, behind) ==
    LET copied == word.lower + word.upper * (2 * Half)
                  + behind * (2 * Half * Upper)
        value  == copied % (2 * Half * Upper)
    IN  IF word.lower >= Half
        THEN (word.lower % Half) + (value \div (2 * Half)) * Half
        ELSE word.lower

\* What the prefix at the head of the input buffer may decode to.  Anywhere
\* but at the start of a packet the bytes are payload and say anything.
HeadLengths ==
    IF PacketsAt(taken) = {} THEN 0..(Half * Upper - 1)
    ELSE {PacketLength(EncodeLength(sent[k].length), behind) :
             k \in PacketsAt(taken), behind \in 0..(Upper - 1)}

Init ==
    /\ sent = <<>> /\ total = 0 /\ arrived = 0
    /\ taken = 0 /\ delivered = <<>>
    /\ exists = TRUE /\ open = TRUE /\ attached = TRUE /\ reading = TRUE
    /\ is_in_processing_ = FALSE /\ failed = FALSE
    /\ pc = "idle"
    /\ owner_has = TRUE

-----------------------------------------------------------------------------
(* The peer and libevent.                                                  *)

PeerSends(length) ==
    /\ Len(sent) < MaxPackets
    /\ sent' = Append(sent, Packet(total, length))
    /\ total' = total + length
    /\ UNCHANGED <<arrived, taken, delivered, failed, pc, conn>>

\* Mutant: a low watermark just above the smallest packet.
ReadCallbackHigh(n) ==
    /\ pc = "idle" /\ open /\ attached /\ reading
    /\ arrived + n <= total
    /\ arrived + n - taken > kMinPacketLen
    /\ arrived' = arrived + n
    /\ is_in_processing_' = TRUE
    /\ pc' = "loop"
    /\ UNCHANGED <<sent, total, taken, delivered, failed, exists, open,
                   attached, reading, owner_has>>

\* libevent reads n bytes and calls ReadCallback: OnDataReady starts.
ReadCallback(n) ==
    /\ pc = "idle" /\ open /\ attached /\ reading
    /\ arrived + n <= total
    /\ arrived' = arrived + n
    /\ is_in_processing_' = TRUE
    /\ pc' = "loop"
    /\ UNCHANGED <<sent, total, taken, delivered, failed, exists, open,
                   attached, reading, owner_has>>

\* EventCallback with BEV_EVENT_ERROR or BEV_EVENT_EOF, after which libevent
\* no longer reads: OnEvent calls OnError.
EventCallback ==
    /\ pc = "idle" /\ open /\ attached
    /\ pc' = "event_callback"
    /\ reading' = FALSE
    /\ UNCHANGED <<sent, total, arrived, taken, delivered, failed, exists,
                   open, attached, is_in_processing_, owner_has>>

-----------------------------------------------------------------------------
(* OnDataReady.                                                            *)

Buffered == arrived - taken

\* The loop ends: closed, less than a header, or less than the packet.
LoopEnds ==
    /\ pc = "loop"
    /\ \/ ~open
       \/ open /\ Buffered < kMinPacketLen
       \/ open /\ Buffered >= kMinPacketLen
          /\ \E n \in HeadLengths : n >= kMinPacketLen /\ Buffered < n
    /\ pc' = "done"
    /\ UNCHANGED <<sent, total, arrived, taken, delivered, failed, conn>>

\* A length that no packet has: OnError(this, ...) and out of the loop.
LoopRejects ==
    /\ pc = "loop" /\ open
    /\ Buffered >= kMinPacketLen
    /\ \E n \in HeadLengths : n < kMinPacketLen
    /\ pc' = "error_callback"
    /\ failed' = TRUE
    /\ UNCHANGED <<sent, total, arrived, taken, delivered, conn>>

\* A whole packet is taken out and handed to OnPacketReceived.
LoopDelivers ==
    /\ pc = "loop" /\ open
    /\ Buffered >= kMinPacketLen
    /\ \E n \in HeadLengths :
           /\ n >= kMinPacketLen /\ n <= Buffered
           /\ delivered' = Append(delivered, Packet(taken, n))
           /\ taken' = taken + n
    /\ pc' = "packet_callback"
    /\ UNCHANGED <<sent, total, arrived, failed, conn>>

\* Mutant: the delayed destruction is forgotten.
LoopDoneLeaking ==
    /\ pc = "done"
    /\ is_in_processing_' = FALSE
    /\ pc' = "idle"
    /\ UNCHANGED <<sent, total, arrived, taken, delivered, failed, exists,
                   open, attached, reading, owner_has>>

\* After the loop: the destruction that CloseAndDestroy left for later.
LoopDone ==
    /\ pc = "done"
    /\ is_in_processing_' = FALSE
    /\ exists' = (exists /\ open)
    /\ pc' = "idle"
    /\ UNCHANGED <<sent, total, arrived, taken, delivered, failed, open,
                   attached, reading, owner_has>>

-----------------------------------------------------------------------------
(* The owner, in a callback or from its own timers.                        *)

InCallback == pc \in {"packet_callback", "error_callback", "event_callback"}
OwnersTurn == owner_has /\ (InCallback \/ pc = "idle")

\* Mutant: destroys at once.
CloseAndDestroyNow ==
    /\ OwnersTurn
    /\ open' = FALSE
    /\ exists' = FALSE
    /\ owner_has' = FALSE
    /\ UNCHANGED <<sent, total, arrived, taken, delivered, failed, attached,
                   reading, is_in_processing_, pc>>

\* Close, and Destroy unless OnDataReady is on the stack.
CloseAndDestroy ==
    /\ OwnersTurn
    /\ open' = FALSE
    /\ exists' = is_in_processing_
    /\ owner_has' = FALSE
    /\ UNCHANGED <<sent, total, arrived, taken, delivered, failed, attached,
                   reading, is_in_processing_, pc>>

\* Detach takes the descriptor away and leaves the bufferevent.
Detach ==
    /\ OwnersTurn /\ attached
    /\ attached' = FALSE
    /\ UNCHANGED <<sent, total, arrived, taken, delivered, failed, exists,
                   open, reading, is_in_processing_, owner_has, pc>>

\* A callback returns to the loop, past it, or to libevent.
CallbackReturns ==
    /\ InCallback
    /\ pc' = CASE pc = "packet_callback" -> "loop"
               [] pc = "error_callback" -> "done"
               [] pc = "event_callback" -> "idle"
    /\ UNCHANGED <<sent, total, arrived, taken, delivered, failed, conn>>

OnDataReady == LoopEnds \/ LoopRejects \/ LoopDelivers \/ LoopDone

Next ==
    \/ \E length \in Lengths : PeerSends(length)
    \/ \E n \in 1..total : ReadCallback(n)
    \/ EventCallback
    \/ OnDataReady
    \/ CallbackReturns
    \/ CloseAndDestroy \/ Detach

Spec == Init /\ [][Next]_vars

\* The thread goes on, callbacks return, and what the peer sent is read.
Fairness ==
    /\ WF_vars(OnDataReady \/ CallbackReturns)
    /\ WF_vars(\E n \in 1..total : ReadCallback(n))

-----------------------------------------------------------------------------
(* Properties.                                                             *)

\* Nobody touches a deleted connection, wherever the owner closed it: not
\* OnDataReady after a callback ("delay this destruction"), not libevent
\* through the callbacks of a live bufferevent, not the owner.
NoUseAfterFree ==
    /\ pc \in {"loop", "done"} => exists
    /\ open => exists
    /\ owner_has => exists

\* "close the socket and destroy this connection object": once the thread is
\* back in the event loop, a connection its owner let go is deleted.
NoLeak == pc = "idle" /\ ~owner_has => ~exists

\* However the stream is cut into chunks, the owner is given the peer's
\* packets, whole, in order and none twice.
PacketsAsSent ==
    /\ Len(delivered) <= Len(sent)
    /\ \A k \in 1..Len(delivered) : delivered[k] = sent[k]

\* A packet the peer sent is delivered at last, unless the owner closed or
\* detached the connection, it broke, the owner was told of an error, or the
\* peer wrote a length that no packet has (which is not noticed before as many
\* bytes as a header takes have arrived).
Reaches(n) ==
    \/ Len(delivered) >= n
    \/ ~open \/ ~attached \/ ~reading \/ failed
    \/ \E k \in 1..Len(sent) : sent[k].length < kMinPacketLen
SentIsDelivered ==
    \A n \in 1..MaxPackets : Len(sent) >= n ~> Reaches(n)
=============================================================================
