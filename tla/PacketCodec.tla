---------------------------- MODULE PacketCodec ----------------------------
(***************************************************************************)
(* Packing a packet: base/packer.h.                                        *)
(*                                                                         *)
(* A packet is built from offset 4 of a buffer; Pack then writes the       *)
(* length of the whole packet right in front of it.  The contents of the   *)
(* body do not matter here, only how many bytes there are.                 *)
(***************************************************************************)
EXTENDS LengthPrefix

CONSTANTS
    MaxPacketSize,  \* PacketLimit::kMaxPacketSize
    DefaultSize,    \* kDefaultSize, the first capacity of the buffer
    PushSizes,      \* how many bytes a fixed-size PushXxx or PushBinary appends
    Values,         \* arguments of PushVariableUint32
    MaxPushes       \* bound: calls of PushXxx between two Resets

\* kMaxPacketSize is 1024 below 0x8000 * 256 and far above 0x8000.
ASSUME LimitAssumption ==
    /\ MaxPacketSize \in Nat
    /\ MaxPacketSize <= Half * Upper
    /\ Half >= 4

ASSUME PushAssumption ==
    /\ DefaultSize \in Nat \ {0}
    /\ PushSizes \subseteq Nat
    /\ Values \subseteq Nat
    /\ MaxPushes \in Nat

-----------------------------------------------------------------------------

\* Mutant: position compared with the limit of length.
PackStartEarly(position) == IF position >= Half THEN 1 ELSE 2

\* Pack: where the prefix starts and what it says, from position_.
PackStart(position) == IF position >= Half + 2 THEN 1 ELSE 2
PackLength(position) == position - PackStart(position)

\* Mutant: the buffer is doubled, once, whatever is asked for.
GrownTwofold(cap, new_size) == IF cap >= new_size THEN cap ELSE 2 * cap

\* CheckSize: grows the buffer to at least the size asked for.
Grown(cap, new_size) ==
    IF cap >= new_size THEN cap
    ELSE IF new_size >= 2 * cap THEN new_size ELSE 2 * cap

-----------------------------------------------------------------------------
(* The Packer.                                                             *)

VARIABLES
    position_,   \* next byte to write, or the start of the packed packet
    length_,     \* set by Pack
    capacity,    \* capacity of mem_
    prefix,      \* the length prefix that Pack wrote
    field,       \* history: the last PushVariableUint32 and what it wrote
    packed,      \* Pack was called since the last Reset
    body,        \* history: bytes pushed since the last Reset
    pushes       \* calls since the last Reset

vars == <<position_, length_, capacity, prefix, field, packed, body, pushes>>

Init ==
    /\ position_ = 4
    /\ length_ = 0
    /\ capacity = (IF DefaultSize >= 64 THEN DefaultSize ELSE 64)
    /\ prefix = EncodeLength(0)
    /\ field = [value |-> 0, word |-> EncodeLength(0)]
    /\ packed = FALSE
    /\ body = 0
    /\ pushes = 0

\* n bytes are appended after CheckSize made room for the room bytes asked
\* for.  "All |Pushxxx| functions should not be called until |Reset| is
\* called" once packed; at the limit CheckSize only warns, and callers stay
\* below it.
AppendBytes(n, room) ==
    /\ ~packed
    /\ pushes < MaxPushes
    /\ position_ + room < MaxPacketSize
    /\ capacity' = Grown(capacity, position_ + room)
    /\ position_' = position_ + n
    /\ body' = body + n
    /\ pushes' = pushes + 1
    /\ UNCHANGED <<length_, prefix, packed>>

Push(n) == AppendBytes(n, n) /\ UNCHANGED field

\* PushVariableUint32 asks for three bytes and may use two.
PushVariableUint32(value) ==
    /\ AppendBytes(EncodeLength(value).size, 3)
    /\ field' = [value |-> value, word |-> EncodeLength(value)]

\* Pack.  The prefix is written by PushVariableUint32 at its start.
Pack ==
    /\ ~packed
    /\ length_' = PackLength(position_)
    /\ prefix' = EncodeLength(PackLength(position_))
    /\ capacity' = Grown(capacity, PackStart(position_) + 3)
    /\ position_' = PackStart(position_)
    /\ packed' = TRUE
    /\ UNCHANGED <<field, body, pushes>>

Reset ==
    /\ length_' = 0
    /\ position_' = 4
    /\ packed' = FALSE
    /\ body' = 0
    /\ pushes' = 0
    /\ UNCHANGED <<capacity, prefix, field>>

Next ==
    \/ \E n \in PushSizes : Push(n)
    \/ \E value \in Values : PushVariableUint32(value)
    \/ Pack
    \/ Reset

Spec == Init /\ [][Next]_vars

\* Body, Body2, BodySize: how many bytes from offset 4 they return.
BodySize == IF length_ >= Half THEN length_ - 3 ELSE length_ - 2

-----------------------------------------------------------------------------
(* Properties.                                                             *)

\* The types of the Packer's fields.
TypeOK ==
    /\ position_ \in Nat
    /\ length_ \in Nat
    /\ capacity \in Nat
    /\ prefix \in Words
    /\ field \in [value : Nat, word : Words]
    /\ packed \in BOOLEAN
    /\ body \in Nat
    /\ pushes \in 0..MaxPushes

\* The prefix decodes to length_, it ends exactly where the body starts, and
\* prefix and body together are length_ bytes long.
PrefixFramesBody ==
    packed => /\ DecodeLength(prefix) = length_
              /\ position_ + prefix.size = 4
              /\ prefix.size + body = length_

\* Body2 and BodySize give back exactly what was pushed.
BodyIsWhatWasPushed == packed => BodySize = body

\* What Pack writes is what a receiver reads, at the boundary of 15 bits and
\* everywhere else; and Body2 and BodySize, which infer the size of the prefix
\* from length_ where Pack chose it from position_, agree with it.
PacketIsFramed == PrefixFramesBody /\ BodyIsWhatWasPushed

\* No byte is written beyond the buffer, however the calls grow it.
WritesStayInBuffer ==
    /\ 4 + body <= capacity
    /\ packed => position_ + length_ <= capacity

\* A value below 0x8000 * 256 survives PushVariableUint32 and
\* PopVariableUint32.
FieldRoundTrips ==
    field.value < Half * Upper => DecodeLength(field.word) = field.value

=============================================================================
