-------------------------- MODULE CompactProtocol --------------------------
(***************************************************************************)
(* Thrift's compact protocol, as the repository carries it: thrift/         *)
(* protocol/TCompactProtocol.tcc and .h, with skip and the error flag of    *)
(* TProtocol.h.  Exceptions are switched off: a failed read sets error_,    *)
(* and every later read returns at once.                                    *)
(*                                                                         *)
(* A reader is [b, last, stack, bool, err, stray, undef]: the TMemoryBuffer *)
(* it reads from, lastFieldId_ and lastField_, boolValue_ ("none" without a *)
(* value) and error_; stray is what a size variable of the caller holds     *)
(* before anything is assigned to it, and undef says that the caller went   *)
(* on with it.  Integers stay below 2^29, so that the wrap of the zigzag    *)
(* shifts at 32 and 64 bits is not reached.                                 *)
(***************************************************************************)
EXTENDS MemoryBuffer

\* detail::compact::Types, TTypeToCType and getCompactType.
CompactTypes ==
    [T_STOP |-> 0, T_BOOL |-> 1, T_BYTE |-> 3, T_I16 |-> 4, T_I32 |-> 5, T_I64 |-> 6,
     T_DOUBLE |-> 7, T_STRING |-> 8, T_LIST |-> 9, T_SET |-> 10, T_MAP |-> 11, T_STRUCT |-> 12]

\* getTType, which also takes CT_BOOLEAN_FALSE for T_BOOL.
getTType(ctype) ==
    IF ctype \in {1, 2} THEN "T_BOOL"
    ELSE IF \E t \in DOMAIN CompactTypes : CompactTypes[t] = ctype
         THEN CHOOSE t \in DOMAIN CompactTypes : CompactTypes[t] = ctype
         ELSE "unknown"

\* i32ToZigzag, i64ToZigzag: the sign goes to the lowest bit.
ToZigzag(n) == IF n >= 0 THEN 2 * n ELSE -2 * n - 1

\* zigzagToI32, zigzagToI64.
FromZigzag(n) == IF n % 2 = 0 THEN n \div 2 ELSE -((n + 1) \div 2)

-----------------------------------------------------------------------------
(* Writing.  An operator returns the bytes it appends.  lastFieldId_ is the *)
(* id of the field written before in the same struct.                      *)

\* writeStructBegin puts lastFieldId_ away and starts at 0, until writeStructEnd
\* restores it: `i` is the place of a field in its struct.
lastFieldId(fields, i) == IF i = 1 THEN 0 ELSE fields[i - 1].id

writeByte(byte) == <<byte % 256>>

\* writeVarint32, writeVarint64: seven bits a byte, the lowest first.
RECURSIVE writeVarint(_)
writeVarint(n) ==
    IF n < 128 THEN <<n>> ELSE <<(n % 128) + 128>> \o writeVarint(n \div 128)

\* writeI16, writeI32, writeI64.
writeInt(i) == writeVarint(ToZigzag(i))

\* Mutant: any small step counts as a delta, one backwards too.
DeltaBackwards(last, ctype, id) ==
    IF id - last <= 15
    THEN <<((id - last) % 16) * 16 + ctype>>
    ELSE <<ctype>> \o writeInt(id)

\* The id as a delta to the one before when it fits four bits, in full when
\* it does not or when the ids do not ascend.
writeFieldBeginInternal(last, ctype, id) ==
    IF id > last /\ id - last <= 15
    THEN writeByte((id - last) * 16 + ctype)
    ELSE writeByte(ctype) \o writeInt(id)

\* writeBool: the header of a boolean field waits in booleanField_ for it, and
\* the value becomes its type; elsewhere the value is a byte.
BoolType(value) == IF value THEN 1 ELSE 2

writeBoolField(last, id, value) == writeFieldBeginInternal(last, BoolType(value), id)

\* The header of any other field.
writeFieldBegin(last, ttype, id) == writeFieldBeginInternal(last, CompactTypes[ttype], id)

writeFieldStop == writeByte(CompactTypes.T_STOP)

\* Up to 14 elements fit the type byte.
writeCollectionBegin(ttype, size) ==
    IF size <= 14
    THEN writeByte(size * 16 + CompactTypes[ttype])
    ELSE writeByte(240 + CompactTypes[ttype]) \o writeVarint(size)

writeListBegin(ttype, size) == writeCollectionBegin(ttype, size)
writeSetBegin(ttype, size) == writeCollectionBegin(ttype, size)

\* An empty map has no types.
writeMapBegin(keyType, valType, size) ==
    IF size = 0 THEN writeByte(0)
    ELSE writeVarint(size) \o writeByte(CompactTypes[keyType] * 16 + CompactTypes[valType])

\* writeString, writeBinary.
writeBinary(str) == writeVarint(Len(str)) \o str

\* A double is its 64 bits, as eight bytes from the highest; on the wire the
\* lowest comes first.
Swapped(bits) == [i \in 1..8 |-> bits[9 - i]]
writeDouble(bits) == Swapped(bits)

-----------------------------------------------------------------------------
(* Reading.  An operator that returns a value returns [r, val].            *)

NewReader(b, stray) ==
    [b |-> b, last |-> 0, stack |-> <<>>, bool |-> "none", err |-> FALSE,
     stray |-> stray, undef |-> FALSE]

Fail(r) == [r EXCEPT !.err = TRUE]

\* readAll: all len bytes, or none and the error.
readAll(r, len) ==
    LET Given(t) == [r |-> [r EXCEPT !.b = t.b, !.err = (t.val = <<>>)], val |-> t.val]
    IN  IF r.err THEN [r |-> r, val |-> <<>>] ELSE Given(TransportReadAll(r.b, len))

\* Mutant: at the end of the bytes a zero is read, and no error.
ReadByteLeniently(r) ==
    LET Got(a) == IF a.r.err THEN [r |-> r, val |-> 0] ELSE [r |-> a.r, val |-> a.val[1]]
    IN  Got(readAll(r, 1))

readByte(r) ==
    LET Got(a) == [r |-> a.r, val |-> IF a.r.err THEN 0 ELSE a.val[1]]
    IN  Got(readAll(r, 1))

\* The slow path of readVarint64, a byte at a time; at most ten.
RECURSIVE VarintFrom(_, _)
VarintFrom(r, n) ==
    LET Above(b, rest) == [r |-> rest.r, val |-> b.val - 128 + 128 * rest.val]
        Got(b) == IF b.r.err \/ b.val < 128 THEN b
                  ELSE IF n = 10 THEN [b EXCEPT !.r = Fail(@)]
                  ELSE Above(b, VarintFrom(b.r, n + 1))
    IN  Got(readByte(r))

\* The fast path, on borrowed bytes: [len, val], and len 0 after ten bytes.
RECURSIVE VarintAt(_, _)
VarintAt(bytes, n) ==
    LET Above(rest) == [rest EXCEPT !.val = bytes[n] - 128 + 128 * @]
    IN  IF bytes[n] < 128 THEN [len |-> n, val |-> bytes[n]]
        ELSE IF n = 10 THEN [len |-> 0, val |-> 0]
        ELSE Above(VarintAt(bytes, n + 1))

\* readVarint64, readVarint32.
readVarint(r) ==
    LET Fast(r2, v) == IF v.len = 0 THEN [r |-> Fail(r2), val |-> 0]
                       ELSE [r |-> [r2 EXCEPT !.b = consume(@, v.len)], val |-> v.val]
        From(r2, ahead) == IF ahead = <<>> THEN VarintFrom(r2, 1) ELSE Fast(r2, VarintAt(ahead, 1))
        Borrowed(t) == From([r EXCEPT !.b = t.b], t.val)
    IN  IF r.err THEN [r |-> r, val |-> 0] ELSE Borrowed(borrow(r.b, 10))

\* readI16, readI32, readI64.
readInt(r, old) ==
    LET Got(v) == [v EXCEPT !.val = IF v.r.err THEN old ELSE FromZigzag(@)]
    IN  Got(readVarint(r))

readBool(r, old) ==
    LET Got(b) == [r |-> b.r, val |-> IF b.r.err THEN old ELSE b.val = 1]
    IN  IF r.bool = "none" THEN Got(readByte(r))
        ELSE [r |-> [r EXCEPT !.bool = "none"], val |-> (r.bool = "true")]

readDouble(r, old) ==
    LET Got(a) == [a EXCEPT !.val = IF a.r.err THEN old ELSE Swapped(@)]
    IN  Got(readAll(r, 8))

\* readString, readBinary.  Memory is assumed to suffice.
readBinary(r, old) ==
    LET Got(str) == [str EXCEPT !.val = IF str.r.err THEN old ELSE @]
        Sized(size) == IF size.r.err THEN [size EXCEPT !.val = old]
                       ELSE IF size.val = 0 THEN [size EXCEPT !.val = <<>>]
                       ELSE Got(readAll(size.r, size.val))
    IN  Sized(readVarint(r))

readStructBegin(r) == [r EXCEPT !.stack = Append(@, r.last), !.last = 0]

readStructEnd(r) ==
    [r EXCEPT !.last = r.stack[Len(r.stack)], !.stack = SubSeq(@, 1, Len(@) - 1)]

\* readFieldBegin: a failed read ends the struct like its stop byte does.
readFieldBegin(r) ==
    LET Stop(q) == [r |-> q, type |-> "T_STOP", id |-> 0]
        Field(q, type, id) ==
            IF q.err THEN Stop(q)
            ELSE IF getTType(type) = "unknown" THEN Stop(Fail(q))
            ELSE [r    |-> [q EXCEPT !.last = id,
                                     !.bool = IF type = 1 THEN "true"
                                              ELSE IF type = 2 THEN "false" ELSE @],
                  type |-> getTType(type), id |-> id]
        Full(type, id) == Field(id.r, type, id.val)
        Got(b) == IF b.r.err \/ b.val % 16 = 0 THEN Stop(b.r)
                  ELSE IF b.val \div 16 = 0 THEN Full(b.val % 16, readInt(b.r, 0))
                  ELSE Field(b.r, b.val % 16, b.r.last + b.val \div 16)
    IN  Got(readByte(r))

\* readListBegin.  Without containers' limit; val is the size, which a failed
\* read leaves uninitialised, and type the type of the elements.
readListBegin(r) ==
    LET Sized(size, type) ==
            IF size.r.err \/ type = "unknown"
            THEN [r |-> Fail(size.r), val |-> 0, type |-> "unknown"]
            ELSE [r |-> size.r, val |-> size.val, type |-> type]
        Got(b) == Sized(IF b.val \div 16 = 15 THEN readVarint(b.r)
                        ELSE [b EXCEPT !.val = @ \div 16],
                        getTType(b.val % 16))
    IN  Got(readByte(r))

readSetBegin(r) == readListBegin(r)

\* readMapBegin: val is the size; the types of an empty map are T_STOP.
readMapBegin(r) ==
    LET Typed(q, n, key, val) ==
            IF q.err \/ "unknown" \in {key, val} THEN [r |-> Fail(q), val |-> 0]
            ELSE [r |-> q, val |-> n, key |-> key, type |-> val]
        Types(n, kv) == Typed(kv.r, n, getTType(kv.val \div 16), getTType(kv.val % 16))
        Sized(size) == IF size.r.err THEN [r |-> size.r, val |-> 0]
                       ELSE Types(size.val, IF size.val = 0 THEN size ELSE readByte(size.r))
    IN  Sized(readVarint(r))

\* skip: reads a value of a type and throws it away.
RECURSIVE skip(_, _), skipStruct(_), skipElements(_, _, _), skipEntries(_, _)
skip(r, ttype) ==
    LET Elements(head) == skipElements(head.r, head.type, head.val)
        Entries(head) == skipEntries(head.r, head)
    IN  CASE ttype = "T_STOP" -> r
          [] ttype = "T_BOOL" -> readBool(r, FALSE).r
          [] ttype = "T_BYTE" -> readByte(r).r
          [] ttype = "T_DOUBLE" -> readDouble(r, <<>>).r
          [] ttype \in {"T_I16", "T_I32", "T_I64"} -> readInt(r, 0).r
          [] ttype = "T_STRING" -> readBinary(r, <<>>).r
          [] ttype = "T_STRUCT" -> skipStruct(readStructBegin(r))
          [] ttype \in {"T_LIST", "T_SET"} ->
               Elements(IF ttype = "T_LIST" THEN readListBegin(r) ELSE readSetBegin(r))
          [] ttype = "T_MAP" -> Entries(readMapBegin(r))

\* On an error skip returns before readStructEnd.
skipStruct(r) ==
    LET Skipped(q) == IF q.err THEN q ELSE skipStruct(q)
        Got(f) == IF f.r.err THEN f.r
                  ELSE IF f.type = "T_STOP" THEN readStructEnd(f.r)
                  ELSE Skipped(skip(f.r, f.type))
    IN  Got(readFieldBegin(r))

skipElements(r, ttype, n) ==
    IF r.err \/ n = 0 THEN r ELSE skipElements(skip(r, ttype), ttype, n - 1)

\* The keys and the values in turn; `head` is what readMapBegin gave.
skipEntries(r, head) ==
    LET Value(key) == IF key.err THEN key ELSE skip(key, head.type)
    IN  IF r.err \/ head.val = 0 THEN r
        ELSE skipEntries(Value(skip(r, head.key)), [head EXCEPT !.val = @ - 1])
=============================================================================
