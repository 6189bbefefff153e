---------------------------- MODULE LengthPrefix ----------------------------
(***************************************************************************)
(* The variable-length unsigned integer in front of every packet, and of   *)
(* some fields: a 16-bit word, and a third byte when the value does not    *)
(* fit 15 bits.  It is written by Packer::PushVariableUint32 (base/        *)
(* packer.h) and read by Unpacker::PopVariableUint32 (base/unpacker.h);    *)
(* TcpConnection::OnDataReady has a reader of its own (TcpConnection).     *)
(***************************************************************************)
EXTENDS Integers

CONSTANTS
    Half,           \* 0x8000: values from here on take three bytes
    Upper           \* 256: values of the third byte

ASSUME WordAssumption ==
    /\ Half \in Nat \ {0}
    /\ Upper \in Nat \ {0}

Words == [lower : Nat, upper : Nat, size : {2, 3}]

\* PushVariableUint32: the word is value, or its low 15 bits with the top bit
\* set, followed by a byte that holds the bits above; size is what it returns.
EncodeLength(value) ==
    IF value < Half
    THEN [lower |-> value, upper |-> 0, size |-> 2]
    ELSE [lower |-> (value % Half) + Half,
          upper |-> (value \div Half) % Upper,
          size  |-> 3]

\* PopVariableUint32.
DecodeLength(word) ==
    IF word.lower < Half
    THEN word.lower
    ELSE (word.lower % Half) + word.upper * Half
=============================================================================
