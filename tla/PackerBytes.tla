---------------------------- MODULE PackerBytes ----------------------------
(***************************************************************************)
(* The bytes that the functions of base/packer.h write and those of         *)
(* base/unpacker.h read.  Numbers are written as they lie in memory, the    *)
(* lowest byte first; no member of a packet has more than four bytes.       *)
(***************************************************************************)
EXTENDS LengthPrefix, PacketTypes, SequencesExt

Nothing == <<>>

-----------------------------------------------------------------------------
(* Writing: a push is [bytes, room], where room is what CheckSize was asked  *)
(* for.                                                                     *)

Byte == 256
\* What the bytes of a number count.
Weight == <<1, 256, 65536, 16777216>>
Bytes(value, size) == [i \in 1..size |-> (value \div Weight[i]) % Byte]

Pushed(bytes) == [bytes |-> bytes, room |-> Len(bytes)]

\* PushUint8 .. PushUint32, PushBoolean; PushUint64 and PushDouble do the same
\* with eight bytes, which no packet has.
PushUint(value, size) == Pushed(Bytes(value, size))

\* PushVariableUint32.
WordBytes(word) ==
    Bytes(word.lower, 2) \o IF word.size = 3 THEN <<word.upper>> ELSE <<>>
\* Mutant: the count is pushed as a fixed-size number.
PushLengthFixed(value) == PushUint(value, 4)

PushLength(value) == [bytes |-> WordBytes(EncodeLength(value)), room |-> 3]

\* A struct as its constructor, its copy constructor and its operator= leave
\* it, and a packet as its constructor does: members they forget are lost.
Members(values, kept) == [i \in DOMAIN values |-> IF i \in kept THEN values[i] ELSE Nothing]

Stored(values) ==
    LET macro == SimpleStructs[Len(values)]
    IN  Members(values, macro.init \cap macro.copy \cap macro.assign)

-----------------------------------------------------------------------------
(* Reading: [pos, v], pos the next byte.  CheckSize only warns, so that a    *)
(* byte behind the end is read like any other.                              *)

ByteAt(bytes, pos) == IF pos <= Len(bytes) THEN bytes[pos] ELSE 0

\* PopUint8 .. PopUint32, PopBoolean; with eight bytes PopUint64 and PopDouble.
PopUint(bytes, pos, size) ==
    LET Digit(i) == IF i <= size THEN ByteAt(bytes, pos + i - 1) * Weight[i] ELSE 0
    IN  [pos |-> pos + size, v |-> Digit(1) + Digit(2) + Digit(3) + Digit(4)]

\* PopVariableUint32.
PopLength(bytes, pos) ==
    LET lower == PopUint(bytes, pos, 2).v
        word  == [lower |-> lower, upper |-> ByteAt(bytes, pos + 2), size |-> 3]
    IN  [pos |-> pos + (IF lower < Half THEN 2 ELSE 3), v |-> DecodeLength(word)]

\* The Unpacker begins behind the length of the packet.
Rewind(bytes) == PopLength(bytes, 1).pos

\* PopString, PopBuffer.
PopString(bytes, pos) ==
    LET count == PopLength(bytes, pos)
    IN  [pos |-> count.pos + count.v,
         v   |-> [i \in 1..count.v |-> ByteAt(bytes, count.pos + i - 1)]]
=============================================================================
