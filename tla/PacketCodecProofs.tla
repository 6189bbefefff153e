------------------------- MODULE PacketCodecProofs -------------------------
(***************************************************************************)
(* Theorems about what goes onto the wire.  PacketCodec: for every width of *)
(* the word and the byte, every packet limit and every sequence of calls.   *)
(* Addresses: for all endpoints and structs, every number of conversions    *)
(* and of keys.                                                             *)
(***************************************************************************)
EXTENDS PacketCodec, Addresses, SequenceTheorems, FiniteSetTheorems, TLAPS


\* While a packet is built, position_ is where its body ends, and it stays
\* below the limit once something was pushed.
Building ==
    ~packed => /\ position_ = 4 + body
               /\ position_ < MaxPacketSize \/ body = 0

\* Every byte of the body is inside the buffer, which is never tiny.
BodyInBuffer == 4 + body <= capacity /\ capacity >= 64

\* The prefix is the encoding of length_, so that its size follows from it.
PrefixIsLength == packed => prefix = EncodeLength(length_)

\* The inductive invariant of the Packer.
Inv ==
    /\ TypeOK
    /\ Building
    /\ BodyInBuffer
    /\ PrefixIsLength
    /\ PrefixFramesBody
    /\ FieldRoundTrips

-----------------------------------------------------------------------------

\* PushVariableUint32 writes a word of two bytes or three.
LEMMA WordType ==
    ASSUME NEW v \in Nat
    PROVE  EncodeLength(v) \in Words
<1>1. v % Half \in Nat /\ (v \div Half) \in Nat
  BY WordAssumption
<1>2. (v \div Half) % Upper \in Nat
  BY <1>1, WordAssumption
<1>3. QED
  BY <1>1, <1>2, WordAssumption DEF EncodeLength, Words

\* PopVariableUint32 and OnDataReady undo PushVariableUint32 on every value
\* below 0x8000 * 256.
THEOREM RoundTrip ==
    \A v \in 0..(Half * Upper - 1) : DecodeLength(EncodeLength(v)) = v
<1> SUFFICES ASSUME NEW v \in 0..(Half * Upper - 1)
             PROVE  DecodeLength(EncodeLength(v)) = v
  OBVIOUS
<1>0. Half * Upper \in Nat /\ v \in Nat /\ v < Half * Upper
  BY WordAssumption
<1>1. CASE v < Half
  BY <1>0, <1>1, WordAssumption DEF EncodeLength, DecodeLength
<1>2. CASE v >= Half
  <2> DEFINE r == v % Half
             q == v \div Half
  <2>1. r \in 0..(Half - 1) /\ q \in Nat /\ v = q * Half + r
    BY <1>0, WordAssumption, SMTT(30)
  <2>2. q < Upper
    <3>1. SUFFICES ASSUME q >= Upper PROVE FALSE
      BY <2>1, WordAssumption
    <3>2. q * Half >= Upper * Half
      BY <2>1, <3>1, WordAssumption, SMTT(30)
    <3>3. QED
      BY <1>0, <2>1, <3>2, WordAssumption, SMTT(30)
  <2>3. q % Upper = q
    BY <2>1, <2>2, WordAssumption
  <2>4. (r + Half) % Half = r /\ ~(r + Half < Half)
    BY <2>1, WordAssumption
  <2>5. EncodeLength(v) = [lower |-> r + Half, upper |-> q, size |-> 3]
    BY <1>0, <1>2, <2>3, WordAssumption DEF EncodeLength
  <2> HIDE DEF r, q
  <2>6. DecodeLength(EncodeLength(v)) = r + q * Half
    BY <2>4, <2>5 DEF DecodeLength
  <2>7. QED
    BY <2>1, <2>6, WordAssumption
<1>3. QED
  BY <1>0, <1>1, <1>2, WordAssumption

\* CheckSize leaves room for what it was asked for and never shrinks.
LEMMA GrownIsEnough ==
    ASSUME NEW cap \in Nat, NEW n \in Nat
    PROVE  Grown(cap, n) \in Nat /\ Grown(cap, n) >= n /\ Grown(cap, n) >= cap
  BY DEF Grown

-----------------------------------------------------------------------------

\* The constructor establishes the invariant.
LEMMA InitInv == Init => Inv
<1> SUFFICES ASSUME Init PROVE Inv
  OBVIOUS
<1>a. EncodeLength(0) = [lower |-> 0, upper |-> 0, size |-> 2] /\ 0 < Half
  BY WordAssumption DEF EncodeLength
<1>1. EncodeLength(0) \in Words /\ DecodeLength(EncodeLength(0)) = 0
  BY <1>a DEF DecodeLength, Words
<1>2. packed = FALSE /\ packed \in BOOLEAN
  BY DEF Init
<1>3. capacity \in Nat /\ capacity >= 64
  BY PushAssumption DEF Init
<1>4. /\ prefix = EncodeLength(0)
      /\ field = [value |-> 0, word |-> EncodeLength(0)]
      /\ position_ = 4 /\ length_ = 0 /\ body = 0 /\ pushes = 0
  BY DEF Init
<1>5. field.value = 0 /\ field.word = EncodeLength(0)
      /\ field \in [value : Nat, word : Words]
  BY <1>1, <1>4
<1>6. FieldRoundTrips
  BY <1>1, <1>5 DEF FieldRoundTrips
<1>7. TypeOK
  BY <1>1, <1>2, <1>3, <1>4, <1>5, PushAssumption DEF TypeOK
<1>8. Building /\ BodyInBuffer /\ PrefixIsLength /\ PrefixFramesBody
  BY <1>2, <1>3, <1>4 DEF Building, BodyInBuffer, PrefixIsLength,
     PrefixFramesBody
<1>9. QED
  BY <1>6, <1>7, <1>8 DEF Inv

\* Appending keeps every part but the last field.
LEMMA AppendKeeps ==
    ASSUME Inv, NEW n \in Nat, NEW room \in Nat, n <= room, AppendBytes(n, room)
    PROVE  /\ position_' \in Nat /\ length_' \in Nat /\ capacity' \in Nat
           /\ prefix' \in Words /\ packed' = FALSE /\ body' \in Nat
           /\ pushes' \in 0..MaxPushes
           /\ Building' /\ BodyInBuffer' /\ PrefixIsLength'
           /\ PrefixFramesBody'
<1>1. position_ \in Nat /\ capacity \in Nat /\ body \in Nat /\ ~packed
      /\ position_ = 4 + body /\ packed = FALSE
  BY DEF Inv, TypeOK, Building, AppendBytes
<1>2. capacity' \in Nat /\ capacity' >= position_ + room /\ capacity' >= capacity
  BY <1>1, GrownIsEnough DEF AppendBytes
<1>3. position_' = position_ + n /\ body' = body + n /\ packed' = FALSE
      /\ position_ + room < MaxPacketSize
  BY <1>1 DEF AppendBytes
<1>4. BodyInBuffer' /\ PrefixIsLength' /\ PrefixFramesBody'
  BY <1>1, <1>2, <1>3 DEF Inv, BodyInBuffer, PrefixIsLength, PrefixFramesBody
<1>5. Building'
  BY <1>1, <1>3, LimitAssumption DEF Building
<1>6. pushes' \in 0..MaxPushes
  BY PushAssumption DEF Inv, TypeOK, AppendBytes
<1>7. QED
  BY <1>1, <1>2, <1>3, <1>4, <1>5, <1>6 DEF Inv, TypeOK, AppendBytes

\* Pack writes a prefix that frames the body.
LEMMA PackFrames ==
    ASSUME Inv, Pack
    PROVE  PrefixIsLength' /\ PrefixFramesBody' /\ length_' \in Nat
           /\ prefix' \in Words /\ position_' \in Nat
<1>1. body \in Nat /\ position_ = 4 + body
      /\ (position_ < MaxPacketSize \/ body = 0)
  BY DEF Inv, TypeOK, Building, Pack
<1> DEFINE start == PackStart(position_)
           len == PackLength(position_)
<1>2. start \in {1, 2} /\ len = position_ - start /\ len \in Nat
  BY <1>1 DEF PackStart, PackLength
<1>3. Half * Upper \in Nat /\ Half * Upper >= Half
  BY WordAssumption, SMTT(30)
<1>4. len \in 0..(Half * Upper - 1)
  BY <1>1, <1>2, <1>3, WordAssumption, LimitAssumption
<1>5. DecodeLength(EncodeLength(len)) = len
  BY <1>4, RoundTrip
<1>6. start + EncodeLength(len).size = 4
  BY <1>1, <1>2, WordAssumption DEF PackStart, PackLength, EncodeLength
<1>7. EncodeLength(len) \in Words
  BY <1>2, WordType
<1>8. length_' = len /\ prefix' = EncodeLength(len) /\ position_' = start
      /\ body' = body
  BY DEF Pack
<1> HIDE DEF start, len
<1>9. prefix'.size \in {2, 3}
  BY <1>7, <1>8 DEF Words
<1>10. prefix'.size + body' = length_'
  BY <1>1, <1>2, <1>6, <1>8, <1>9
<1>11. PrefixIsLength' /\ PrefixFramesBody'
  BY <1>5, <1>6, <1>8, <1>10 DEF PrefixIsLength, PrefixFramesBody
<1>12. QED
  BY <1>2, <1>7, <1>8, <1>11

\* Every call of the Packer keeps the invariant.
LEMMA StepInv == Inv /\ [Next]_vars => Inv'
<1> SUFFICES ASSUME Inv, [Next]_vars PROVE Inv'
  OBVIOUS
<1>1. ASSUME NEW n \in PushSizes, Push(n) PROVE Inv'
  <2>1. n \in Nat /\ n <= n /\ AppendBytes(n, n) /\ field' = field
    BY <1>1, PushAssumption DEF Push
  <2>2. FieldRoundTrips' /\ field' \in [value : Nat, word : Words]
    BY <2>1 DEF Inv, FieldRoundTrips, TypeOK
  <2>a. packed' = FALSE
    BY <2>1, AppendKeeps
  <2>3. packed' \in BOOLEAN
    BY <2>a
  <2>4. TypeOK'
    BY <2>1, <2>2, <2>3, AppendKeeps DEF TypeOK
  <2>5. QED
    BY <2>1, <2>2, <2>4, AppendKeeps DEF Inv
<1>2. ASSUME NEW v \in Values, PushVariableUint32(v) PROVE Inv'
  <2>1. v \in Nat /\ EncodeLength(v) \in Words
    BY PushAssumption, WordType
  <2>2. EncodeLength(v).size \in {2, 3}
    BY <2>1 DEF Words
  <2>3. AppendBytes(EncodeLength(v).size, 3)
        /\ field' = [value |-> v, word |-> EncodeLength(v)]
    BY <1>2 DEF PushVariableUint32
  <2>4. Half * Upper \in Nat
    BY WordAssumption
  <2>5. v < Half * Upper => DecodeLength(EncodeLength(v)) = v
    BY <2>1, <2>4, RoundTrip
  <2>a. field' \in [value : Nat, word : Words]
        /\ field'.value = v /\ field'.word = EncodeLength(v)
    BY <2>1, <2>3
  <2>6. FieldRoundTrips' /\ field' \in [value : Nat, word : Words]
    BY <2>5, <2>a DEF FieldRoundTrips
  <2>7. /\ EncodeLength(v).size \in Nat /\ 3 \in Nat
        /\ EncodeLength(v).size <= 3
    BY <2>2
  <2>b. packed' = FALSE
    BY <2>3, <2>7, AppendKeeps
  <2>8. packed' \in BOOLEAN
    BY <2>b
  <2>9. TypeOK'
    BY <2>3, <2>6, <2>7, <2>8, AppendKeeps DEF TypeOK
  <2>10. QED
    BY <2>3, <2>6, <2>7, <2>9, AppendKeeps DEF Inv
<1>3. CASE Pack
  <2>0. capacity \in Nat /\ PackStart(position_) + 3 \in Nat
        /\ capacity' = Grown(capacity, PackStart(position_) + 3)
    BY <1>3 DEF Inv, TypeOK, Pack, PackStart
  <2>1. capacity' \in Nat /\ capacity' >= capacity
    BY <2>0, GrownIsEnough
  <2>2. TypeOK'
    <3>1. packed' \in BOOLEAN
      BY <1>3 DEF Pack
    <3>2. QED
      BY <1>3, <2>1, <3>1, PackFrames DEF Inv, TypeOK, Pack
  <2>3. Building' /\ BodyInBuffer' /\ FieldRoundTrips'
    BY <1>3, <2>1 DEF Inv, TypeOK, Pack, Building, BodyInBuffer,
       FieldRoundTrips
  <2>4. QED
    BY <1>3, <2>2, <2>3, PackFrames DEF Inv
<1>4. CASE Reset
  <2>1. packed' = FALSE /\ packed' \in BOOLEAN
    BY <1>4 DEF Reset
  <2>2. TypeOK'
    BY <1>4, <2>1, PushAssumption DEF Inv, TypeOK, Reset
  <2>3. FieldRoundTrips' /\ BodyInBuffer'
    BY <1>4 DEF Inv, TypeOK, Reset, FieldRoundTrips, BodyInBuffer
  <2>4. QED
    BY <1>4, <2>1, <2>2, <2>3 DEF Inv, Reset, Building, PrefixIsLength,
       PrefixFramesBody
<1>5. CASE UNCHANGED vars
  BY <1>5 DEF vars, Inv, TypeOK, Building, BodyInBuffer, PrefixIsLength,
     PrefixFramesBody, FieldRoundTrips
<1>6. QED
  BY <1>1, <1>2, <1>3, <1>4, <1>5 DEF Next

\* The whole invariant, from which the theorems below follow.
THEOREM Invariance == Spec => []Inv
  BY InitInv, StepInv, PTL DEF Spec

\* Every packed prefix frames its body for the receiver, and Body2 and BodySize
\* return what was pushed.
THEOREM PacketsAreFramed == Spec => []PacketIsFramed
<1>1. Inv => PrefixFramesBody
  BY DEF Inv
<1>2. Inv => BodyIsWhatWasPushed
  <2> SUFFICES ASSUME Inv, packed PROVE BodySize = body
    BY DEF BodyIsWhatWasPushed
  <2>1. /\ body \in Nat /\ length_ \in Nat
        /\ prefix = EncodeLength(length_)
        /\ prefix.size + body = length_
    BY DEF Inv, TypeOK, PrefixIsLength, PrefixFramesBody
  <2>2. prefix.size = IF length_ < Half THEN 2 ELSE 3
    BY <2>1 DEF EncodeLength
  <2>3. QED
    BY <2>1, <2>2, WordAssumption DEF BodySize
<1>3. QED
  BY <1>1, <1>2, Invariance, PTL DEF PacketIsFramed

\* No write of the Packer leaves its buffer.
THEOREM BufferIsLargeEnough == Spec => []WritesStayInBuffer
<1>1. Inv => WritesStayInBuffer
  <2> SUFFICES ASSUME Inv PROVE WritesStayInBuffer
    OBVIOUS
  <2>1. 4 + body <= capacity
    BY DEF Inv, BodyInBuffer
  <2>2. ASSUME packed PROVE position_ + length_ <= capacity
    <3>1. prefix.size \in {2, 3} /\ position_ \in Nat /\ body \in Nat
          /\ capacity \in Nat /\ length_ \in Nat
      BY DEF Inv, TypeOK, Words
    <3>2. position_ + prefix.size = 4 /\ prefix.size + body = length_
      BY <2>2 DEF Inv, PrefixFramesBody
    <3>3. QED
      BY <2>1, <3>1, <3>2
  <2>3. QED
    BY <2>1, <2>2 DEF WritesStayInBuffer
<1>2. QED
  BY <1>1, Invariance, PTL

-----------------------------------------------------------------------------
(* Conversions of addresses.                                               *)

\* The four bytes of a number and what they add up to.
LEMMA FourBytes ==
    ASSUME NEW n, Fits(n, 4)
    PROVE  /\ Bytes(n, 4) \in [1..4 -> 0..255] /\ Len(Bytes(n, 4)) = 4
           /\ n = Bytes(n, 4)[1] + Bytes(n, 4)[2] * 256
                    + Bytes(n, 4)[3] * 65536 + Bytes(n, 4)[4] * 16777216
<1>1. Weight[1] = 1 /\ Weight[2] = 256 /\ Weight[3] = 65536 /\ Weight[4] = 16777216
  BY DEF Weight
<1>2. n \in Nat /\ n \div 16777216 < 256
  BY <1>1 DEF Fits, Byte
<1> DEFINE b == Bytes(n, 4)
<1>3. /\ b[1] = n % 256 /\ b[2] = (n \div 256) % 256
      /\ b[3] = (n \div 65536) % 256 /\ b[4] = (n \div 16777216) % 256
  <2>1. \A i \in 1..4 : b[i] = (n \div Weight[i]) % 256
    BY DEF Bytes, Byte
  <2>2. n \div 1 = n
    BY <1>2
  <2>3. QED
    BY <1>1, <2>1, <2>2
<1>4. b = [i \in 1..4 |-> b[i]] /\ Len(b) = 4
  BY DEF Bytes
<1>5. b[1] \in 0..255 /\ b[2] \in 0..255 /\ b[3] \in 0..255 /\ b[4] \in 0..255
  <2> HIDE DEF b
  <2>1. QED
    BY <1>2, <1>3
<1>6. n = b[1] + b[2] * 256 + b[3] * 65536 + b[4] * 16777216
  <2> HIDE DEF b
  <2>1. QED
    BY <1>2, <1>3
<1>7. b \in [1..4 -> 0..255]
  <2> HIDE DEF b
  <2>1. \A i \in 1..4 : b[i] \in 0..255
    BY <1>5
  <2>2. QED
    BY <1>4, <2>1
<1>8. QED
  BY <1>4, <1>6, <1>7

\* The two bytes of a number and what they add up to.
LEMMA TwoBytes ==
    ASSUME NEW n, Fits(n, 2)
    PROVE  /\ Bytes(n, 2) \in [1..2 -> 0..255] /\ Len(Bytes(n, 2)) = 2
           /\ n = Bytes(n, 2)[1] + Bytes(n, 2)[2] * 256
<1>1. Weight[1] = 1 /\ Weight[2] = 256
  BY DEF Weight
<1>2. n \in Nat /\ n \div 256 < 256
  BY <1>1 DEF Fits, Byte
<1> DEFINE b == Bytes(n, 2)
<1>3. b[1] = n % 256 /\ b[2] = (n \div 256) % 256
  <2>1. \A i \in 1..2 : b[i] = (n \div Weight[i]) % 256
    BY DEF Bytes, Byte
  <2>2. n \div 1 = n
    BY <1>2
  <2>3. QED
    BY <1>1, <2>1, <2>2
<1>4. b = [i \in 1..2 |-> b[i]] /\ Len(b) = 2
  BY DEF Bytes
<1>5. b[1] \in 0..255 /\ b[2] \in 0..255 /\ n = b[1] + b[2] * 256
  <2> HIDE DEF b
  <2>1. QED
    BY <1>2, <1>3
<1>6. b \in [1..2 -> 0..255]
  <2> HIDE DEF b
  <2>1. \A i \in 1..2 : b[i] \in 0..255
    BY <1>5
  <2>2. QED
    BY <1>4, <2>1
<1>7. QED
  BY <1>4, <1>5, <1>6

\* What PopUint32 makes of four bytes, and that they are the bytes of it.
LEMMA FourPopped ==
    ASSUME NEW s, NEW p \in Nat \ {0}, Len(s) \in Nat, p + 3 <= Len(s),
           \A i \in 0..3 : s[p + i] \in 0..255
    PROVE  /\ PopUint(s, p, 4).v = s[p] + s[p + 1] * 256 + s[p + 2] * 65536 + s[p + 3] * 16777216
           /\ Fits(PopUint(s, p, 4).v, 4)
           /\ Bytes(PopUint(s, p, 4).v, 4) = <<s[p], s[p + 1], s[p + 2], s[p + 3]>>
<1>1. Weight[1] = 1 /\ Weight[2] = 256 /\ Weight[3] = 65536 /\ Weight[4] = 16777216
  BY DEF Weight
<1> DEFINE a == s[p]
           b == s[p + 1]
           c == s[p + 2]
           d == s[p + 3]
           n == PopUint(s, p, 4).v
<1>2. a \in 0..255 /\ b \in 0..255 /\ c \in 0..255 /\ d \in 0..255
  <2>1. p + 0 = p /\ 0 \in 0..3 /\ 1 \in 0..3 /\ 2 \in 0..3 /\ 3 \in 0..3
    OBVIOUS
  <2>2. QED
    BY <2>1
<1>3. /\ ByteAt(s, p + 1 - 1) = a /\ ByteAt(s, p + 2 - 1) = b
      /\ ByteAt(s, p + 3 - 1) = c /\ ByteAt(s, p + 4 - 1) = d
  <2>1. p + 1 - 1 = p /\ p + 2 - 1 = p + 1 /\ p + 3 - 1 = p + 2 /\ p + 4 - 1 = p + 3
    OBVIOUS
  <2>2. p <= Len(s) /\ p + 1 <= Len(s) /\ p + 2 <= Len(s)
    OBVIOUS
  <2>3. QED
    BY <2>1, <2>2 DEF ByteAt
<1>4. n = ByteAt(s, p + 1 - 1) * Weight[1] + ByteAt(s, p + 2 - 1) * Weight[2]
            + ByteAt(s, p + 3 - 1) * Weight[3] + ByteAt(s, p + 4 - 1) * Weight[4]
  BY DEF PopUint
<1> HIDE DEF a, b, c, d, n
<1>5. n = a + b * 256 + c * 65536 + d * 16777216
  BY <1>1, <1>2, <1>3, <1>4
<1>6. n \in Nat
  BY <1>2, <1>5
<1>7. n \div 16777216 = d
  BY <1>2, <1>5
<1>8. n \div 65536 = c + d * 256
  BY <1>2, <1>5
<1>9. n \div 256 = b + c * 256 + d * 65536
  BY <1>2, <1>5
<1>10. n \div 1 = n
  BY <1>6
<1>11. /\ (n \div Weight[1]) % Byte = a /\ (n \div Weight[2]) % Byte = b
       /\ (n \div Weight[3]) % Byte = c /\ (n \div Weight[4]) % Byte = d
  <2>1. n % 256 = a /\ (b + c * 256 + d * 65536) % 256 = b
        /\ (c + d * 256) % 256 = c /\ d % 256 = d
    BY <1>2, <1>5
  <2>2. QED
    BY <1>1, <1>7, <1>8, <1>9, <1>10, <2>1 DEF Byte
<1>12. Bytes(n, 4) = <<a, b, c, d>>
  <2>1. \A i \in 1..4 : (n \div Weight[i]) % Byte = <<a, b, c, d>>[i]
    BY <1>11
  <2>2. <<a, b, c, d>> = [i \in 1..4 |-> <<a, b, c, d>>[i]]
    OBVIOUS
  <2>3. Bytes(n, 4) = [i \in 1..4 |-> (n \div Weight[i]) % Byte]
    BY DEF Bytes
  <2>4. QED
    BY <2>1, <2>2, <2>3
<1>13. Fits(n, 4)
  <2>1. n \div Weight[4] = d
    BY <1>1, <1>7
  <2>2. d < Byte
    BY <1>2 DEF Byte
  <2>3. QED
    BY <1>6, <2>1, <2>2 DEF Fits
<1>14. QED
  BY <1>5, <1>12, <1>13 DEF a, b, c, d, n

\* The same for PopUint16.
LEMMA TwoPopped ==
    ASSUME NEW s, NEW p \in Nat \ {0}, Len(s) \in Nat, p + 1 <= Len(s),
           s[p] \in 0..255, s[p + 1] \in 0..255
    PROVE  /\ PopUint(s, p, 2).v = s[p] + s[p + 1] * 256
           /\ Fits(PopUint(s, p, 2).v, 2)
           /\ Bytes(PopUint(s, p, 2).v, 2) = <<s[p], s[p + 1]>>
<1>1. Weight[1] = 1 /\ Weight[2] = 256
  BY DEF Weight
<1> DEFINE a == s[p]
           b == s[p + 1]
           n == PopUint(s, p, 2).v
<1>2. a \in 0..255 /\ b \in 0..255
  OBVIOUS
<1>3. ByteAt(s, p + 1 - 1) = a /\ ByteAt(s, p + 2 - 1) = b
  <2>1. p + 1 - 1 = p /\ p + 2 - 1 = p + 1 /\ p <= Len(s)
    OBVIOUS
  <2>2. QED
    BY <2>1 DEF ByteAt
<1>4. n = ByteAt(s, p + 1 - 1) * Weight[1] + ByteAt(s, p + 2 - 1) * Weight[2] + 0 + 0
  BY DEF PopUint
<1> HIDE DEF a, b, n
<1>5. n = a + b * 256
  BY <1>1, <1>2, <1>3, <1>4
<1>6. n \in Nat /\ n \div 256 = b /\ n \div 1 = n /\ n % 256 = a /\ b % 256 = b
  BY <1>2, <1>5
<1>7. (n \div Weight[1]) % Byte = a /\ (n \div Weight[2]) % Byte = b
  BY <1>1, <1>6 DEF Byte
<1>8. Bytes(n, 2) = <<a, b>>
  <2>1. \A i \in 1..2 : (n \div Weight[i]) % Byte = <<a, b>>[i]
    BY <1>7
  <2>2. <<a, b>> = [i \in 1..2 |-> <<a, b>>[i]]
    OBVIOUS
  <2>3. Bytes(n, 2) = [i \in 1..2 |-> (n \div Weight[i]) % Byte]
    BY DEF Bytes
  <2>4. QED
    BY <2>1, <2>2, <2>3
<1>9. Fits(n, 2)
  BY <1>1, <1>2, <1>6 DEF Fits, Byte
<1>10. QED
  BY <1>5, <1>8, <1>9 DEF a, b, n

\* A number is what its bytes are.
LEMMA BytesTell ==
    ASSUME NEW n, NEW m
    PROVE  /\ Fits(n, 4) /\ Fits(m, 4) /\ Bytes(n, 4) = Bytes(m, 4) => n = m
           /\ Fits(n, 2) /\ Fits(m, 2) /\ Bytes(n, 2) = Bytes(m, 2) => n = m
<1>1. ASSUME Fits(n, 4), Fits(m, 4), Bytes(n, 4) = Bytes(m, 4) PROVE n = m
  BY <1>1, FourBytes
<1>2. ASSUME Fits(n, 2), Fits(m, 2), Bytes(n, 2) = Bytes(m, 2) PROVE n = m
  BY <1>2, TwoBytes
<1>3. QED
  BY <1>1, <1>2

\* What was written at a position is read there.
LEMMA FourRead ==
    ASSUME NEW n, Fits(n, 4), NEW s, Len(s) \in Nat, NEW p \in Nat \ {0}, p + 3 <= Len(s),
           \A i \in 0..3 : s[p + i] = Bytes(n, 4)[i + 1]
    PROVE  PopUint(s, p, 4).v = n
<1>0. Bytes(n, 4) \in [1..4 -> 0..255]
  BY FourBytes
<1>1. \A i \in 1..4 : Bytes(n, 4)[i] \in 0..255
  BY <1>0, Zenon
<1>2. /\ s[p] = Bytes(n, 4)[1] /\ s[p + 1] = Bytes(n, 4)[2]
      /\ s[p + 2] = Bytes(n, 4)[3] /\ s[p + 3] = Bytes(n, 4)[4]
  <2>1. p + 0 = p /\ 0 \in 0..3 /\ 1 \in 0..3 /\ 2 \in 0..3 /\ 3 \in 0..3
    OBVIOUS
  <2>2. 0 + 1 = 1 /\ 1 + 1 = 2 /\ 2 + 1 = 3 /\ 3 + 1 = 4
    OBVIOUS
  <2>3. QED
    BY <2>1, <2>2
<1>3. \A i \in 0..3 : s[p + i] \in 0..255
  <2>1. \A i \in 0..3 : i + 1 \in 1..4
    OBVIOUS
  <2>2. QED
    BY <1>1, <2>1, Zenon
<1>4. PopUint(s, p, 4).v = s[p] + s[p + 1] * 256 + s[p + 2] * 65536 + s[p + 3] * 16777216
  BY <1>3, FourPopped
<1>5. n = Bytes(n, 4)[1] + Bytes(n, 4)[2] * 256
             + Bytes(n, 4)[3] * 65536 + Bytes(n, 4)[4] * 16777216
  BY FourBytes
<1>6. QED
  BY <1>2, <1>4, <1>5

\* A 16-bit number is read back from wherever its bytes lie.
LEMMA TwoRead ==
    ASSUME NEW n, Fits(n, 2), NEW s, Len(s) \in Nat, NEW p \in Nat \ {0}, p + 1 <= Len(s),
           s[p] = Bytes(n, 2)[1], s[p + 1] = Bytes(n, 2)[2]
    PROVE  PopUint(s, p, 2).v = n
<1>1. Bytes(n, 2)[1] \in 0..255 /\ Bytes(n, 2)[2] \in 0..255
      /\ n = Bytes(n, 2)[1] + Bytes(n, 2)[2] * 256
  BY TwoBytes
<1>2. PopUint(s, p, 2).v = s[p] + s[p + 1] * 256
  BY <1>1, TwoPopped
<1>3. QED
  BY <1>1, <1>2

\* htonl and ntohl undo each other, and so do htons and ntohs.
LEMMA SwapFour ==
    ASSUME NEW n, Fits(n, 4)
    PROVE  Fits(Swap(n, 4), 4) /\ Swap(Swap(n, 4), 4) = n
<1> DEFINE b == Bytes(n, 4)
           r == Reverse(b)
           m == Swap(n, 4)
<1>1. b \in [1..4 -> 0..255] /\ Len(b) = 4
  BY FourBytes
<1>2. m = PopUint(r, 1, 4).v
  BY DEF Swap
<1>3. r = <<b[4], b[3], b[2], b[1]>> /\ Len(r) = 4
  <2>1. r = [i \in 1..4 |-> b[(4 - i) + 1]]
    BY <1>1 DEF Reverse
  <2> HIDE DEF r, b
  <2>2. QED
    BY <2>1
<1>4. \A i \in 0..3 : r[1 + i] \in 0..255
  <2> HIDE DEF r, b
  <2>1. QED
    BY <1>1, <1>3
<1>5. Fits(m, 4) /\ Bytes(m, 4) = <<r[1], r[2], r[3], r[4]>>
  <2> HIDE DEF r, b, m
  <2>1. 1 + 1 = 2 /\ 1 + 2 = 3 /\ 1 + 3 = 4 /\ 1 \in Nat \ {0} /\ Len(r) \in Nat /\ 1 + 3 <= Len(r)
    BY <1>3
  <2>2. QED
    BY <1>2, <1>4, <2>1, FourPopped
<1>6. Reverse(Bytes(m, 4)) = b
  <2> HIDE DEF r, b, m
  <2>1. Bytes(m, 4) = <<b[4], b[3], b[2], b[1]>>
    BY <1>3, <1>5
  <2>2. Reverse(Bytes(m, 4)) = [i \in 1..4 |-> <<b[4], b[3], b[2], b[1]>>[(4 - i) + 1]]
    BY <2>1 DEF Reverse
  <2>3. QED
    BY <1>1, <2>2
<1>7. PopUint(b, 1, 4).v = n
  <2>1. \A i \in 0..3 : b[1 + i] = Bytes(n, 4)[i + 1]
    OBVIOUS
  <2> HIDE DEF b
  <2>2. QED
    BY <1>1, <2>1, FourRead
<1>8. QED
  BY <1>5, <1>6, <1>7 DEF Swap

\* htons is undone by ntohs.
LEMMA SwapTwo ==
    ASSUME NEW n, Fits(n, 2)
    PROVE  Fits(Swap(n, 2), 2) /\ Swap(Swap(n, 2), 2) = n
<1> DEFINE b == Bytes(n, 2)
           r == Reverse(b)
           m == Swap(n, 2)
<1>1. b \in [1..2 -> 0..255] /\ Len(b) = 2
  BY TwoBytes
<1>2. m = PopUint(r, 1, 2).v
  BY DEF Swap
<1>3. r = <<b[2], b[1]>> /\ Len(r) = 2
  <2>1. r = [i \in 1..2 |-> b[(2 - i) + 1]]
    BY <1>1 DEF Reverse
  <2> HIDE DEF r, b
  <2>2. QED
    BY <2>1
<1>5. Fits(m, 2) /\ Bytes(m, 2) = <<r[1], r[2]>>
  <2> HIDE DEF r, b, m
  <2>1. 1 + 1 = 2 /\ 1 \in Nat \ {0} /\ Len(r) \in Nat /\ 1 + 1 <= Len(r)
    BY <1>3
  <2>2. r[1] \in 0..255 /\ r[2] \in 0..255
    BY <1>1, <1>3
  <2>3. QED
    BY <1>2, <2>1, <2>2, TwoPopped
<1>6. Reverse(Bytes(m, 2)) = b
  <2> HIDE DEF r, b, m
  <2>1. Bytes(m, 2) = <<b[2], b[1]>>
    BY <1>3, <1>5
  <2>2. Reverse(Bytes(m, 2)) = [i \in 1..2 |-> <<b[2], b[1]>>[(2 - i) + 1]]
    BY <2>1 DEF Reverse
  <2>3. QED
    BY <1>1, <2>2
<1>7. PopUint(b, 1, 2).v = n
  <2>1. b[1] = Bytes(n, 2)[1] /\ b[1 + 1] = Bytes(n, 2)[2]
    OBVIOUS
  <2> HIDE DEF b
  <2>2. QED
    BY <1>1, <2>1, TwoRead
<1>8. QED
  BY <1>5, <1>6, <1>7 DEF Swap

\* Addresses of both byte orders stand for each other.
LEMMA HostAndNetwork ==
    ASSUME NEW ip, NEW port, Fits(ip, 4), Fits(port, 2)
    PROVE  ToHost(ToNetwork(NewSockAddress4(ip, port))) = NewSockAddress4(ip, port)
  BY SwapFour, SwapTwo DEF ToHost, ToNetwork, NewSockAddress4, SocketAddress4, Ip, Port

\* The numbers and names of IpVersion.
LEMMA IndexIs == /\ Index("kIp4") = 1 /\ Index("kIp6") = 2 /\ Index("kUnix") = 3
                 /\ Versions[1] = "kIp4" /\ Versions[2] = "kIp6" /\ Versions[3] = "kUnix"
<1>1. DOMAIN Versions = 1..3
  BY DEF Versions
<1>2. Versions[1] = "kIp4" /\ Versions[2] = "kIp6" /\ Versions[3] = "kUnix"
  BY DEF Versions
<1>3. \A i \in 1..3 : i = 1 \/ i = 2 \/ i = 3
  OBVIOUS
<1>4. "kIp4" # "kIp6" /\ "kIp4" # "kUnix" /\ "kIp6" # "kUnix"
  OBVIOUS
<1>5. Index("kIp4") = 1
  BY <1>1, <1>2, <1>3, <1>4 DEF Index
<1>6. Index("kIp6") = 2
  BY <1>1, <1>2, <1>3, <1>4 DEF Index
<1>7. Index("kUnix") = 3
  BY <1>1, <1>2, <1>3, <1>4 DEF Index
<1>8. QED
  BY <1>2, <1>5, <1>6, <1>7

\* What an address may be: numbers of their widths, a path that sun_path
\* and a string of a packet can hold.
Valid(addr) ==
    \/ \E ip, port : /\ addr = General("kIp4", NewSockAddress4(ip, port))
                     /\ Fits(ip, 4) /\ Fits(port, 2)
    \/ \E ip, port, scope :
         /\ addr = General("kIp6", SocketAddress6(ip, port, scope))
         /\ ip \in [1..4 -> Nat] /\ \A i \in 1..4 : Fits(ip[i], 4)
         /\ Fits(port, 2) /\ Fits(scope, 4)
    \/ \E path : /\ addr = General("kUnix", SocketAddressUnix(path))
                 /\ path \in Seq(1..255) /\ Len(path) < PathRoom

\* A sockaddr_storage gives back the address that was put into it.
LEMMA StorageKeeps ==
    ASSUME NEW addr, Valid(addr)
    PROVE  FromStorage(ToStorage(addr)) = addr
<1>1. ASSUME NEW ip, NEW port, addr = General("kIp4", NewSockAddress4(ip, port)),
             Fits(ip, 4), Fits(port, 2)
      PROVE  FromStorage(ToStorage(addr)) = addr
  <2>1. addr.version = "kIp4" /\ addr.a = NewSockAddress4(ip, port)
    BY <1>1 DEF General
  <2>2. ToStorage(addr) = [family |-> "AF_INET", a |-> ToNetwork(addr.a)]
    BY <2>1 DEF ToStorage
  <2>3. FromStorage(ToStorage(addr)) = General("kIp4", ToHost(ToNetwork(addr.a)))
    BY <2>2 DEF FromStorage
  <2>4. QED
    BY <1>1, <2>1, <2>3, HostAndNetwork
<1>2. ASSUME NEW ip, NEW port, NEW scope, addr = General("kIp6", SocketAddress6(ip, port, scope))
      PROVE  FromStorage(ToStorage(addr)) = addr
  <2>1. addr.version = "kIp6" /\ addr.a = SocketAddress6(ip, port, scope)
    BY <1>2 DEF General
  <2>2. ToStorage(addr) = [family |-> "AF_INET6", a |-> addr.a]
    BY <2>1 DEF ToStorage
  <2>3. QED
    BY <1>2, <2>1, <2>2 DEF FromStorage
<1>3. ASSUME NEW path, addr = General("kUnix", SocketAddressUnix(path)),
             path \in Seq(1..255), Len(path) < PathRoom
      PROVE  FromStorage(ToStorage(addr)) = addr
  <2>1. addr.version = "kUnix" /\ addr.a = SocketAddressUnix(path) /\ addr.a.path = path
    BY <1>3 DEF General, SocketAddressUnix
  <2>2. SunPath(path) = path
    BY <1>3 DEF SunPath
  <2>3. ToStorage(addr) = [family |-> "AF_UNIX", a |-> addr.a]
    BY <2>1, <2>2 DEF ToStorage
  <2>4. QED
    BY <1>3, <2>1, <2>3 DEF FromStorage
<1>4. QED
  BY <1>1, <1>2, <1>3 DEF Valid

\* Bytes are sequences of bytes.
LEMMA BytesAreSeq ==
    ASSUME NEW n
    PROVE  /\ Fits(n, 4) => Bytes(n, 4) \in Seq(0..255) /\ Len(Bytes(n, 4)) = 4
           /\ Fits(n, 2) => Bytes(n, 2) \in Seq(0..255) /\ Len(Bytes(n, 2)) = 2
<1>1. ASSUME Fits(n, 4) PROVE Bytes(n, 4) \in Seq(0..255) /\ Len(Bytes(n, 4)) = 4
  <2> DEFINE b == Bytes(n, 4)
  <2>1. b \in [1..4 -> 0..255] /\ Len(b) = 4
    BY <1>1, FourBytes
  <2> HIDE DEF b
  <2>2. b[1] \in 0..255 /\ b[2] \in 0..255 /\ b[3] \in 0..255 /\ b[4] \in 0..255
    BY <2>1
  <2>3. b = <<b[1], b[2], b[3], b[4]>>
    BY <2>1
  <2>4. <<b[1], b[2], b[3], b[4]>> \in Seq(0..255)
    BY <2>2
  <2>5. QED
    BY <2>1, <2>3, <2>4 DEF b
<1>2. ASSUME Fits(n, 2) PROVE Bytes(n, 2) \in Seq(0..255) /\ Len(Bytes(n, 2)) = 2
  <2> DEFINE b == Bytes(n, 2)
  <2>1. b \in [1..2 -> 0..255] /\ Len(b) = 2
    BY <1>2, TwoBytes
  <2> HIDE DEF b
  <2>2. b[1] \in 0..255 /\ b[2] \in 0..255
    BY <2>1
  <2>3. b = <<b[1], b[2]>>
    BY <2>1
  <2>4. <<b[1], b[2]>> \in Seq(0..255)
    BY <2>2
  <2>5. QED
    BY <2>1, <2>3, <2>4 DEF b
<1>3. QED
  BY <1>1, <1>2

\* One sequence of bytes behind another.
Joined(u, s, t) ==
    /\ u \in Seq(0..255) /\ Len(u) = Len(s) + Len(t)
    /\ \A i \in 1..Len(s) : u[i] = s[i]
    /\ \A i \in 1..Len(t) : u[Len(s) + i] = t[i]

\* operator<< after operator<<: the second value lies behind the first.
LEMMA Behind ==
    ASSUME NEW s \in Seq(0..255), NEW t \in Seq(0..255)
    PROVE  Joined(s \o t, s, t)
<1>1. Len(s) \in Nat /\ Len(t) \in Nat
  OBVIOUS
<1>2. /\ s \o t \in Seq(0..255)
      /\ Len(s \o t) = Len(s) + Len(t)
      /\ \A i \in 1..Len(s) + Len(t) :
           (s \o t)[i] = IF i <= Len(s) THEN s[i] ELSE t[i - Len(s)]
  BY ConcatProperties
<1>3. \A i \in 1..Len(s) : (s \o t)[i] = s[i]
  <2> TAKE i \in 1..Len(s)
  <2>1. i \in 1..Len(s) + Len(t) /\ i <= Len(s)
    BY <1>1
  <2>2. QED
    BY <1>2, <2>1, Zenon
<1>4. \A i \in 1..Len(t) : (s \o t)[Len(s) + i] = t[i]
  <2> TAKE i \in 1..Len(t)
  <2>1. Len(s) + i \in 1..Len(s) + Len(t) /\ ~(Len(s) + i <= Len(s)) /\ (Len(s) + i) - Len(s) = i
    BY <1>1
  <2>2. (s \o t)[Len(s) + i] = IF Len(s) + i <= Len(s) THEN s[Len(s) + i] ELSE t[(Len(s) + i) - Len(s)]
    BY <1>2, <2>1, Zenon
  <2>3. QED
    BY <2>1, <2>2
<1>5. QED
  BY <1>2, <1>3, <1>4, Zenon DEF Joined

\* The version in front of an address is read back.
LEMMA VersionRead ==
    ASSUME NEW k \in 1..3, NEW t \in Seq(0..255)
    PROVE  /\ Bytes(k - 1, 2) \in Seq(0..255) /\ Len(Bytes(k - 1, 2)) = 2
           /\ PopUint(Bytes(k - 1, 2) \o t, 1, 2).v + 1 = k
<1>1. Fits(k - 1, 2)
  <2>1. Weight[2] = 256 /\ k - 1 \in Nat /\ (k - 1) \div 256 < 256
    BY DEF Weight
  <2>2. QED
    BY <2>1 DEF Fits, Byte
<1> DEFINE v == Bytes(k - 1, 2)
<1>2. v \in Seq(0..255) /\ Len(v) = 2
  BY <1>1, BytesAreSeq
<1> HIDE DEF v
<1> DEFINE u == v \o t
<1>a. Joined(u, v, t)
  BY <1>2, Behind, Zenon
<1> HIDE DEF u
<1>3. Len(u) \in Nat /\ 1 \in Nat \ {0} /\ 1 + 1 <= Len(u) /\ u[1] = v[1] /\ u[1 + 1] = v[2]
  <2>1. Len(v) = 2 /\ Len(t) \in Nat /\ 1 \in 1..2 /\ 2 \in 1..2 /\ 1 + 1 = 2
    BY <1>2
  <2>2. Len(u) = 2 + Len(t) /\ u[1] = v[1] /\ u[2] = v[2]
    BY <1>a, <2>1 DEF Joined
  <2>3. QED
    BY <2>1, <2>2
<1>4. PopUint(u, 1, 2).v = k - 1
  BY <1>1, <1>3, TwoRead DEF v
<1>5. QED
  BY <1>2, <1>4 DEF u, v

\* An IPv4 address survives the packet.
LEMMA FourSerialized ==
    ASSUME NEW ip, NEW port, Fits(ip, 4), Fits(port, 2)
    PROVE  LET addr == General("kIp4", NewSockAddress4(ip, port))
           IN  SerializeFrom(SerializeTo(addr)) = addr
<1> DEFINE a == NewSockAddress4(ip, port)
           addr == General("kIp4", a)
           n == ToNetwork(a)
           v == Bytes(0, 2)
           x == Bytes(n.ip, 4)
           y == Bytes(n.port, 2)
           s == v \o (x \o y)
<1>1. Fits(n.ip, 4) /\ Fits(n.port, 2)
  BY SwapFour, SwapTwo DEF ToNetwork, SocketAddress4, NewSockAddress4
<1>2. x \in Seq(0..255) /\ Len(x) = 4 /\ y \in Seq(0..255) /\ Len(y) = 2
  BY <1>1, BytesAreSeq
<1>3. addr.version = "kIp4" /\ addr.a = a
  BY DEF General
<1>4. SerializeTo(addr) = s
  <2>1. Index(addr.version) - 1 = 0
    BY <1>3, IndexIs
  <2>2. QED
    BY <1>3, <2>1 DEF SerializeTo
<1>5. v \in Seq(0..255) /\ Len(v) = 2 /\ PopUint(s, 1, 2).v + 1 = 1
  <2>1. 1 - 1 = 0 /\ 1 \in 1..3 /\ x \o y \in Seq(0..255)
    BY <1>2
  <2>2. QED
    BY <2>1, VersionRead
<1>6. n = SocketAddress4(n.ip, n.port)
  BY DEF ToNetwork, SocketAddress4
<1>7. ToHost(n) = a
  BY HostAndNetwork
<1> HIDE DEF v, x, y, s
<1>8. /\ s \in Seq(0..255) /\ Len(s) = 8
      /\ \A i \in 1..4 : s[2 + i] = x[i]
      /\ s[7] = y[1] /\ s[8] = y[2]
  <2> DEFINE t == x \o y
  <2>1. Joined(t, x, y)
    BY <1>2, Behind, Zenon
  <2>2. t \in Seq(0..255)
    BY <2>1, Zenon DEF Joined
  <2>3. Joined(s, v, t)
    BY <1>5, <2>2, Behind, Zenon DEF s
  <2> HIDE DEF t
  <2>4. Len(t) = 6 /\ (\A i \in 1..4 : t[i] = x[i]) /\ t[5] = y[1] /\ t[6] = y[2]
    BY <1>2, <2>1 DEF Joined
  <2>5. s \in Seq(0..255) /\ Len(s) = 2 + 6 /\ (\A i \in 1..6 : s[2 + i] = t[i])
    BY <1>5, <2>3, <2>4 DEF Joined
  <2>6. (\A i \in 1..4 : i \in 1..6) /\ 5 \in 1..6 /\ 6 \in 1..6 /\ 2 + 5 = 7 /\ 2 + 6 = 8
    OBVIOUS
  <2>7. QED
    BY <2>4, <2>5, <2>6
<1>9. WordOf(s, 1) = n.ip
  <2>1. \A i \in 0..3 : s[3 + i] = x[i + 1]
    <3>1. \A i \in 0..3 : i + 1 \in 1..4 /\ 3 + i = 2 + (i + 1)
      OBVIOUS
    <3>2. QED
      BY <1>8, <3>1
  <2>2. PopUint(s, 3, 4).v = n.ip
    BY <1>1, <1>8, <2>1, FourRead DEF x
  <2>3. QED
    BY <2>2 DEF WordOf
<1>10. PopUint(s, 7, 2).v = n.port
  <2>1. 7 \in Nat \ {0} /\ Len(s) \in Nat /\ 7 + 1 <= Len(s) /\ s[7] = y[1] /\ s[7 + 1] = y[2]
    BY <1>8
  <2>2. QED
    BY <1>1, <2>1, TwoRead, Zenon DEF y
<1>11. SerializeFrom(s) = General("kIp4", ToHost(SocketAddress4(n.ip, n.port)))
  BY <1>5, <1>9, <1>10, IndexIs DEF SerializeFrom
<1>12. QED
  BY <1>4, <1>6, <1>7, <1>11

\* The members of a SocketAddress6.
ValidSix(a) ==
    /\ a = SocketAddress6(a.ip, a.port, a.scope)
    /\ a.ip \in [1..4 -> Nat]
    /\ Fits(a.ip[1], 4) /\ Fits(a.ip[2], 4) /\ Fits(a.ip[3], 4) /\ Fits(a.ip[4], 4)
    /\ Fits(a.port, 2) /\ Fits(a.scope, 4)

\* Where they lie in memory and in a packet.
Layout(s, a) ==
    /\ s \in Seq(0..255) /\ Len(s) = 22
    /\ \A i \in 1..4 : /\ s[i] = Bytes(a.ip[1], 4)[i]
                       /\ s[4 + i] = Bytes(a.ip[2], 4)[i]
                       /\ s[8 + i] = Bytes(a.ip[3], 4)[i]
                       /\ s[12 + i] = Bytes(a.ip[4], 4)[i]
                       /\ s[16 + i] = Bytes(a.scope, 4)[i]
    /\ \A i \in 1..2 : s[20 + i] = Bytes(a.port, 2)[i]

\* Both hash and packet of a SocketAddress6 have that layout.
LEMMA SixLayout ==
    ASSUME NEW a, ValidSix(a)
    PROVE  Layout(SixBytes(a), a)
<1> DEFINE x1 == Bytes(a.ip[1], 4)
           x2 == Bytes(a.ip[2], 4)
           x3 == Bytes(a.ip[3], 4)
           x4 == Bytes(a.ip[4], 4)
           x5 == Bytes(a.scope, 4)
           y == Bytes(a.port, 2)
           t2 == x1 \o x2
           t3 == t2 \o x3
           t4 == t3 \o x4
           t5 == t4 \o x5
           t6 == t5 \o y
<1>1. x1 \in Seq(0..255) /\ x2 \in Seq(0..255) /\ x3 \in Seq(0..255) /\ x4 \in Seq(0..255)
      /\ x5 \in Seq(0..255) /\ y \in Seq(0..255)
  BY BytesAreSeq, Zenon DEF ValidSix
<1>2. Len(x1) = 4 /\ Len(x2) = 4 /\ Len(x3) = 4 /\ Len(x4) = 4 /\ Len(x5) = 4 /\ Len(y) = 2
  BY BytesAreSeq, Zenon DEF ValidSix
<1>3. SixBytes(a) = t6
  BY DEF SixBytes
<1> HIDE DEF x1, x2, x3, x4, x5, y
<1>4. Joined(t2, x1, x2)
  BY <1>1, Behind, Zenon
<1>5. Joined(t3, t2, x3)
  BY <1>1, <1>4, Behind, Zenon DEF Joined
<1>6. Joined(t4, t3, x4)
  BY <1>1, <1>5, Behind, Zenon DEF Joined
<1>7. Joined(t5, t4, x5)
  BY <1>1, <1>6, Behind, Zenon DEF Joined
<1>8. Joined(t6, t5, y)
  BY <1>1, <1>7, Behind, Zenon DEF Joined
<1> HIDE DEF t2, t3, t4, t5, t6
<1>9. Len(t2) = 8 /\ Len(t3) = 12 /\ Len(t4) = 16 /\ Len(t5) = 20 /\ Len(t6) = 22
  BY <1>2, <1>4, <1>5, <1>6, <1>7, <1>8 DEF Joined
<1>10. \A i \in 1..4 : t2[i] = x1[i] /\ t2[4 + i] = x2[i]
  BY <1>2, <1>4 DEF Joined
<1>11. (\A i \in 1..8 : t3[i] = t2[i]) /\ (\A i \in 1..4 : t3[8 + i] = x3[i])
  BY <1>2, <1>5, <1>9 DEF Joined
<1>12. (\A i \in 1..12 : t4[i] = t3[i]) /\ (\A i \in 1..4 : t4[12 + i] = x4[i])
  BY <1>2, <1>6, <1>9 DEF Joined
<1>13. (\A i \in 1..16 : t5[i] = t4[i]) /\ (\A i \in 1..4 : t5[16 + i] = x5[i])
  BY <1>2, <1>7, <1>9 DEF Joined
<1>14. (\A i \in 1..20 : t6[i] = t5[i]) /\ (\A i \in 1..2 : t6[20 + i] = y[i])
  BY <1>2, <1>8, <1>9 DEF Joined
<1>15. ASSUME NEW i \in 1..4
       PROVE  /\ t6[i] = x1[i] /\ t6[4 + i] = x2[i] /\ t6[8 + i] = x3[i]
              /\ t6[12 + i] = x4[i] /\ t6[16 + i] = x5[i]
  <2>1. /\ i \in 1..8 /\ 4 + i \in 1..8
        /\ i \in 1..12 /\ 4 + i \in 1..12 /\ 8 + i \in 1..12
        /\ i \in 1..16 /\ 4 + i \in 1..16 /\ 8 + i \in 1..16 /\ 12 + i \in 1..16
        /\ i \in 1..20 /\ 4 + i \in 1..20 /\ 8 + i \in 1..20 /\ 12 + i \in 1..20 /\ 16 + i \in 1..20
    OBVIOUS
  <2>2. t2[i] = x1[i] /\ t2[4 + i] = x2[i]
    BY <1>10, Zenon
  <2>3. t3[i] = x1[i] /\ t3[4 + i] = x2[i] /\ t3[8 + i] = x3[i]
    BY <1>11, <2>1, <2>2, Zenon
  <2>4. t4[i] = x1[i] /\ t4[4 + i] = x2[i] /\ t4[8 + i] = x3[i] /\ t4[12 + i] = x4[i]
    BY <1>12, <2>1, <2>3, Zenon
  <2>5. /\ t5[i] = x1[i] /\ t5[4 + i] = x2[i] /\ t5[8 + i] = x3[i]
        /\ t5[12 + i] = x4[i] /\ t5[16 + i] = x5[i]
    BY <1>13, <2>1, <2>4, Zenon
  <2>6. QED
    BY <1>14, <2>1, <2>5, Zenon
<1>16. t6 \in Seq(0..255)
  BY <1>8, Zenon DEF Joined
<1>17. QED
  BY <1>3, <1>9, <1>14, <1>15, <1>16 DEF Layout, x1, x2, x3, x4, x5, y

\* An IPv6 address survives the packet.
LEMMA SixSerialized ==
    ASSUME NEW a, ValidSix(a)
    PROVE  SerializeFrom(SerializeTo(General("kIp6", a))) = General("kIp6", a)
<1> DEFINE addr == General("kIp6", a)
           v == Bytes(1, 2)
           t == SixBytes(a)
           s == v \o t
<1>1. addr.version = "kIp6" /\ addr.a = a
  BY DEF General
<1>2. SerializeTo(addr) = s
  <2>1. Index(addr.version) - 1 = 1
    BY <1>1, IndexIs
  <2>2. QED
    BY <1>1, <2>1 DEF SerializeTo
<1>3. t \in Seq(0..255) /\ Len(t) = 22
  BY SixLayout DEF Layout
<1>4. v \in Seq(0..255) /\ Len(v) = 2 /\ PopUint(s, 1, 2).v + 1 = 2
  <2>1. 2 - 1 = 1 /\ 2 \in 1..3
    OBVIOUS
  <2>2. QED
    BY <1>3, <2>1, VersionRead
<1>5. Joined(s, v, t)
  BY <1>3, <1>4, Behind, Zenon
<1> HIDE DEF s, t, v
<1>6. Len(s) = 24 /\ \A i \in 1..22 : s[2 + i] = t[i]
  BY <1>3, <1>4, <1>5 DEF Joined
<1>7. ASSUME NEW w, Fits(w, 4), NEW k \in 0..4,
             \A i \in 1..4 : t[4 * k + i] = Bytes(w, 4)[i]
      PROVE  WordOf(s, k + 1) = w
  <2>1. \A i \in 0..3 : /\ i + 1 \in 1..4 /\ 4 * k + (i + 1) \in 1..22
                         /\ (4 * k + 3) + i = 2 + (4 * k + (i + 1))
    OBVIOUS
  <2>2. \A i \in 0..3 : s[(4 * k + 3) + i] = Bytes(w, 4)[i + 1]
    BY <1>6, <1>7, <2>1, Zenon
  <2>3. 4 * k + 3 \in Nat \ {0} /\ (4 * k + 3) + 3 <= Len(s) /\ Len(s) \in Nat
    BY <1>6
  <2>4. PopUint(s, 4 * k + 3, 4).v = w
    BY <1>7, <2>2, <2>3, FourRead, Zenon
  <2>5. 4 * (k + 1) - 1 = 4 * k + 3
    OBVIOUS
  <2>6. QED
    BY <2>4, <2>5 DEF WordOf
<1>8. \A i \in 1..4 : /\ t[i] = Bytes(a.ip[1], 4)[i]
                      /\ t[4 + i] = Bytes(a.ip[2], 4)[i]
                      /\ t[8 + i] = Bytes(a.ip[3], 4)[i]
                      /\ t[12 + i] = Bytes(a.ip[4], 4)[i]
                      /\ t[16 + i] = Bytes(a.scope, 4)[i]
  BY SixLayout DEF Layout, t
<1>9. WordOf(s, 1) = a.ip[1]
  <2>1. \A i \in 1..4 : t[4 * 0 + i] = Bytes(a.ip[1], 4)[i]
    BY <1>8
  <2>2. WordOf(s, 0 + 1) = a.ip[1]
    BY <1>7, <2>1 DEF ValidSix
  <2>3. QED
    BY <2>2
<1>10. WordOf(s, 2) = a.ip[2]
  <2>1. \A i \in 1..4 : t[4 * 1 + i] = Bytes(a.ip[2], 4)[i]
    BY <1>8
  <2>2. WordOf(s, 1 + 1) = a.ip[2]
    BY <1>7, <2>1 DEF ValidSix
  <2>3. QED
    BY <2>2
<1>11. WordOf(s, 3) = a.ip[3]
  <2>1. \A i \in 1..4 : t[4 * 2 + i] = Bytes(a.ip[3], 4)[i]
    BY <1>8
  <2>2. WordOf(s, 2 + 1) = a.ip[3]
    BY <1>7, <2>1 DEF ValidSix
  <2>3. QED
    BY <2>2
<1>12. WordOf(s, 4) = a.ip[4]
  <2>1. \A i \in 1..4 : t[4 * 3 + i] = Bytes(a.ip[4], 4)[i]
    BY <1>8
  <2>2. WordOf(s, 3 + 1) = a.ip[4]
    BY <1>7, <2>1 DEF ValidSix
  <2>3. QED
    BY <2>2
<1>13. WordOf(s, 5) = a.scope
  <2>1. \A i \in 1..4 : t[4 * 4 + i] = Bytes(a.scope, 4)[i]
    BY <1>8
  <2>2. WordOf(s, 4 + 1) = a.scope
    BY <1>7, <2>1 DEF ValidSix
  <2>3. QED
    BY <2>2
<1>14. PopUint(s, 23, 2).v = a.port
  <2>1. t[20 + 1] = Bytes(a.port, 2)[1] /\ t[20 + 2] = Bytes(a.port, 2)[2]
    BY SixLayout DEF Layout, t
  <2>2. s[2 + 21] = t[21] /\ s[2 + 22] = t[22]
    BY <1>6
  <2>3. /\ 23 \in Nat \ {0} /\ Len(s) \in Nat /\ 23 + 1 <= Len(s)
        /\ s[23] = Bytes(a.port, 2)[1] /\ s[23 + 1] = Bytes(a.port, 2)[2]
    BY <1>6, <2>1, <2>2
  <2>4. QED
    BY <2>3, TwoRead, Zenon DEF ValidSix
<1>15. <<WordOf(s, 1), WordOf(s, 2), WordOf(s, 3), WordOf(s, 4)>> = a.ip
  <2>1. a.ip \in [1..4 -> Nat]
    BY DEF ValidSix
  <2>2. <<a.ip[1], a.ip[2], a.ip[3], a.ip[4]>> = a.ip
    BY <2>1
  <2>3. QED
    BY <1>9, <1>10, <1>11, <1>12, <2>2
<1>16. ReadSix(s) = a
  BY <1>13, <1>14, <1>15 DEF ReadSix, ValidSix
<1>17. SerializeFrom(s) = General("kIp6", ReadSix(s))
  BY <1>4, IndexIs DEF SerializeFrom
<1>18. QED
  BY <1>2, <1>16, <1>17

\* The length of a string as the Packer writes it, behind anything and in
\* front of anything, is what PopVariableUint32 reads there.
LEMMA LengthRead ==
    ASSUME NEW n \in Nat, n < Half * Upper,
           NEW v \in Seq(0..255), NEW t \in Seq(0..255)
    PROVE  LET w == PushLength(n).bytes
               s == v \o (w \o t)
           IN  /\ w \in Seq(0..255)
               /\ PopLength(s, Len(v) + 1).pos = Len(v) + Len(w) + 1
               /\ PopLength(s, Len(v) + 1).v = n
<1> DEFINE e == EncodeLength(n)
           low == e.lower
           lb == Bytes(low, 2)
           w == PushLength(n).bytes
           s == v \o (w \o t)
           p == Len(v) + 1
<1>0. /\ Half \in Nat \ {0} /\ Upper \in Nat \ {0}
      /\ 2 * Half <= 65536 /\ Upper <= 256
  BY WordAssumption, EndpointAssumption DEF Byte
<1>1. DecodeLength(e) = n
  <2>1. Half * Upper \in Nat
    BY <1>0
  <2>2. QED
    BY <2>1, RoundTrip
<1>2. \/ n < Half /\ e = [lower |-> n, upper |-> 0, size |-> 2]
      \/ ~(n < Half) /\ e = [lower |-> (n % Half) + Half, upper |-> (n \div Half) % Upper, size |-> 3]
  BY DEF EncodeLength
<1>3. n % Half \in 0..Half - 1 /\ (n \div Half) \in Nat
  BY <1>0
<1>4. (n \div Half) % Upper \in 0..Upper - 1
  BY <1>0, <1>3
<1> DEFINE r == n % Half
           q == (n \div Half) % Upper
<1> HIDE DEF e, r, q
<1>a. \/ n < Half /\ e.lower = n /\ e.upper = 0 /\ e.size = 2
      \/ ~(n < Half) /\ e.lower = r + Half /\ e.upper = q /\ e.size = 3
  BY <1>2 DEF r, q
<1>b. r \in 0..Half - 1 /\ q \in 0..Upper - 1
  BY <1>3, <1>4 DEF r, q
<1>5. low \in Nat /\ low < 65536 /\ (low < Half <=> n < Half)
  BY <1>0, <1>a, <1>b
<1>c. q \in 0..255 /\ 0 \in 0..255
  BY <1>0, <1>b
<1>6. e.upper \in 0..255 /\ e.size = (IF n < Half THEN 2 ELSE 3)
  BY <1>a, <1>c, Zenon
<1>7. Fits(low, 2)
  <2>1. Weight[2] = 256 /\ low \div 256 < 256
    BY <1>5 DEF Weight
  <2>2. QED
    BY <1>5, <2>1 DEF Fits, Byte
<1>8. w = lb \o IF e.size = 3 THEN <<e.upper>> ELSE <<>>
  BY DEF PushLength, WordBytes, e
<1> HIDE DEF low, w, s
<1>9. lb \in Seq(0..255) /\ Len(lb) = 2
  BY <1>7, BytesAreSeq
<1>10. /\ w \in Seq(0..255) /\ Len(w) = (IF n < Half THEN 2 ELSE 3)
       /\ w[1] = lb[1] /\ w[2] = lb[2] /\ (~(n < Half) => w[3] = e.upper)
  <2> DEFINE z == IF e.size = 3 THEN <<e.upper>> ELSE <<>>
  <2>1. /\ z \in Seq(0..255) /\ Len(z) = (IF n < Half THEN 0 ELSE 1)
        /\ (~(n < Half) => z[1] = e.upper)
    <3>1. CASE n < Half
      <4>1. z = <<>>
        BY <1>6, <3>1
      <4>2. QED
        BY <3>1, <4>1
    <3>2. CASE ~(n < Half)
      <4>1. z = <<e.upper>>
        BY <1>6, <3>2
      <4>2. QED
        BY <1>6, <3>2, <4>1
    <3>3. QED
      BY <3>1, <3>2
  <2>2. w = lb \o z
    BY <1>8
  <2> HIDE DEF z
  <2> HIDE DEF lb
  <2>3. Joined(w, lb, z)
    BY <1>9, <2>1, <2>2, Behind, Zenon
  <2>4. QED
    BY <1>9, <2>1, <2>3 DEF Joined
<1> HIDE DEF lb
<1> DEFINE u == w \o t
<1>11. Joined(u, w, t)
  BY <1>10, Behind, Zenon
<1>12. u \in Seq(0..255)
  BY <1>11, Zenon DEF Joined
<1>13. Joined(s, v, u)
  BY <1>12, Behind, Zenon DEF s
<1> HIDE DEF u
<1>14. Len(v) \in Nat /\ Len(t) \in Nat /\ Len(w) \in Nat /\ p \in Nat \ {0}
  BY <1>10
<1>15. /\ Len(u) = Len(w) + Len(t) /\ u[1] = lb[1] /\ u[2] = lb[2]
       /\ ~(n < Half) => u[3] = e.upper
  BY <1>10, <1>11, <1>14 DEF Joined
<1>16. Len(s) = Len(v) + Len(u) /\ \A i \in 1..Len(u) : s[Len(v) + i] = u[i]
  BY <1>13, Zenon DEF Joined
<1>17. 1 \in 1..Len(u) /\ 2 \in 1..Len(u) /\ (~(n < Half) => 3 \in 1..Len(u))
  BY <1>10, <1>14, <1>15
<1>18. /\ s[Len(v) + 1] = lb[1] /\ s[Len(v) + 2] = lb[2]
       /\ ~(n < Half) => s[Len(v) + 3] = e.upper
  BY <1>15, <1>16, <1>17, Zenon
<1>19. /\ Len(s) \in Nat /\ p + 1 <= Len(s) /\ p + 1 = Len(v) + 2
       /\ p + 2 = Len(v) + 3 /\ (~(n < Half) => p + 2 <= Len(s))
  BY <1>10, <1>14, <1>15, <1>16
<1>20. PopUint(s, p, 2).v = low
  BY <1>7, <1>14, <1>18, <1>19, TwoRead DEF lb
<1>21. PopLength(s, p).pos = p + Len(w)
  <2>1. PopLength(s, p).pos = p + (IF low < Half THEN 2 ELSE 3)
    BY <1>20 DEF PopLength
  <2>2. QED
    BY <1>5, <1>10, <2>1
<1>22. PopLength(s, p).v = DecodeLength([lower |-> low, upper |-> ByteAt(s, p + 2), size |-> 3])
  BY <1>20 DEF PopLength
<1>23. PopLength(s, p).v = n
  <2>1. DecodeLength(e) = IF low < Half THEN low ELSE (low % Half) + e.upper * Half
    BY DEF DecodeLength, low
  <2>2. PopLength(s, p).v = IF low < Half THEN low ELSE (low % Half) + ByteAt(s, p + 2) * Half
    BY <1>22 DEF DecodeLength
  <2>3. ~(low < Half) => ByteAt(s, p + 2) = e.upper
    BY <1>5, <1>18, <1>19 DEF ByteAt
  <2>4. QED
    BY <1>1, <2>1, <2>2, <2>3
<1>24. p + Len(w) = Len(v) + Len(w) + 1
  BY <1>14
<1>25. QED
  BY <1>10, <1>21, <1>23, <1>24 DEF w, s

\* A path survives the packet.
LEMMA UnixSerialized ==
    ASSUME NEW path \in Seq(1..255), Len(path) < PathRoom
    PROVE  LET addr == General("kUnix", SocketAddressUnix(path))
           IN  SerializeFrom(SerializeTo(addr)) = addr
<1> DEFINE addr == General("kUnix", SocketAddressUnix(path))
           v == Bytes(2, 2)
           w == PushLength(Len(path)).bytes
           t == w \o path
           s == v \o t
<1>1. addr.version = "kUnix" /\ addr.a.path = path
  BY DEF General, SocketAddressUnix
<1>2. SerializeTo(addr) = s
  <2>1. Index(addr.version) - 1 = 2
    BY <1>1, IndexIs
  <2>2. QED
    BY <1>1, <2>1 DEF SerializeTo
<1>3. path \in Seq(0..255) /\ Len(path) \in Nat
  <2>1. 1..255 \subseteq 0..255
    OBVIOUS
  <2>2. QED
    BY <2>1, SeqMonotonic
<1>4. Len(path) < Half * Upper
  <2>1. Half * Upper \in Nat
    BY WordAssumption
  <2>2. QED
    BY <1>3, <2>1, EndpointAssumption
<1>5. v \in Seq(0..255) /\ Len(v) = 2
  <2>1. 3 - 1 = 2 /\ 3 \in 1..3
    OBVIOUS
  <2>2. QED
    BY <1>3, <2>1, VersionRead
<1>6. /\ w \in Seq(0..255)
      /\ PopLength(s, Len(v) + 1).pos = Len(v) + Len(w) + 1
      /\ PopLength(s, Len(v) + 1).v = Len(path)
  BY <1>3, <1>4, <1>5, LengthRead
<1>7. Joined(t, w, path)
  BY <1>3, <1>6, Behind, Zenon
<1>8. t \in Seq(0..255)
  BY <1>7, Zenon DEF Joined
<1>9. Joined(s, v, t)
  BY <1>5, <1>8, Behind, Zenon
<1>10. PopUint(s, 1, 2).v + 1 = 3
  <2>1. 3 - 1 = 2 /\ 3 \in 1..3
    OBVIOUS
  <2>2. QED
    BY <1>8, <2>1, VersionRead
<1> HIDE DEF s, t, v, w
<1>11. /\ PopLength(s, 3).pos = Len(w) + 3 /\ PopLength(s, 3).v = Len(path)
       /\ Len(w) \in Nat
  <2>1. Len(v) + 1 = 3 /\ Len(w) \in Nat
    BY <1>5, <1>6
  <2>2. Len(v) + Len(w) + 1 = Len(w) + 3
    BY <1>5, <2>1
  <2>3. QED
    BY <1>6, <2>1, <2>2
<1>12. ASSUME NEW i \in 1..Len(path) PROVE ByteAt(s, (Len(w) + 3) + i - 1) = path[i]
  <2>1. /\ Len(t) = Len(w) + Len(path) /\ Len(s) = 2 + Len(t)
        /\ t[Len(w) + i] = path[i]
        /\ \A j \in 1..Len(t) : s[2 + j] = t[j]
    BY <1>5, <1>7, <1>9 DEF Joined
  <2>2. /\ Len(w) + i \in 1..Len(t) /\ (Len(w) + 3) + i - 1 = 2 + (Len(w) + i)
        /\ (Len(w) + 3) + i - 1 <= Len(s)
    BY <1>3, <1>11, <2>1
  <2>3. s[(Len(w) + 3) + i - 1] = path[i]
    BY <2>1, <2>2, Zenon
  <2>4. QED
    BY <2>2, <2>3 DEF ByteAt
<1>13. PopString(s, 3).v = path
  <2>1. PopString(s, 3).v = [i \in 1..Len(path) |-> ByteAt(s, (Len(w) + 3) + i - 1)]
    BY <1>11 DEF PopString
  <2>2. PopString(s, 3).v = [i \in 1..Len(path) |-> path[i]]
    BY <1>12, <2>1
  <2>3. path = [i \in 1..Len(path) |-> path[i]]
    OBVIOUS
  <2>4. QED
    BY <2>2, <2>3
<1>14. SerializeFrom(s) = General("kUnix", SocketAddressUnix(PopString(s, 3).v))
  BY <1>10, IndexIs DEF SerializeFrom
<1>15. QED
  BY <1>2, <1>13, <1>14

\* Whatever is valid survives the packet.
LEMMA PacketKeeps ==
    ASSUME NEW addr, Valid(addr)
    PROVE  SerializeFrom(SerializeTo(addr)) = addr
<1>1. ASSUME NEW ip, NEW port, addr = General("kIp4", NewSockAddress4(ip, port)),
             Fits(ip, 4), Fits(port, 2)
      PROVE  SerializeFrom(SerializeTo(addr)) = addr
  BY <1>1, FourSerialized
<1>2. ASSUME NEW ip, NEW port, NEW scope,
             addr = General("kIp6", SocketAddress6(ip, port, scope)),
             ip \in [1..4 -> Nat], \A i \in 1..4 : Fits(ip[i], 4),
             Fits(port, 2), Fits(scope, 4)
      PROVE  SerializeFrom(SerializeTo(addr)) = addr
  <2> DEFINE a == SocketAddress6(ip, port, scope)
  <2>1. a.ip = ip /\ a.port = port /\ a.scope = scope
    BY DEF SocketAddress6
  <2>2. ValidSix(a)
    <3>1. 1 \in 1..4 /\ 2 \in 1..4 /\ 3 \in 1..4 /\ 4 \in 1..4
      OBVIOUS
    <3> HIDE DEF a
    <3>2. a = SocketAddress6(a.ip, a.port, a.scope)
      BY <2>1 DEF a
    <3>3. QED
      BY <1>2, <2>1, <3>1, <3>2, Zenon DEF ValidSix
  <2>3. QED
    BY <1>2, <2>2, SixSerialized
<1>3. ASSUME NEW path, addr = General("kUnix", SocketAddressUnix(path)),
             path \in Seq(1..255), Len(path) < PathRoom
      PROVE  SerializeFrom(SerializeTo(addr)) = addr
  BY <1>3, UnixSerialized
<1>4. QED
  BY <1>1, <1>2, <1>3 DEF Valid

\* The representation of an endpoint: it is valid, it has the endpoint's port,
\* and it equals itself.
LEMMA EndpointRepresented ==
    ASSUME NEW e \in Endpoints
    PROVE  LET addr == General(e.version, Host(e))
           IN  /\ Valid(addr) /\ GetPort(addr) = e.port /\ AddressEqual(addr, addr)
               /\ e.version = "kIp4" =>
                    ToHost(ToNetwork(Host(e))) = Host(e)
<1> DEFINE addr == General(e.version, Host(e))
<1>0. addr.version = e.version /\ addr.a = Host(e)
  BY DEF General
<1>a. \/ e.version = "kIp4" /\ Fits(e.ip, 4) /\ Fits(e.port, 2)
      \/ /\ e.version = "kIp6" /\ Fits(e.port, 2) /\ Fits(e.scope, 4)
         /\ e.ip \in [1..4 -> Nat] /\ \A i \in 1..4 : Fits(e.ip[i], 4)
      \/ /\ e.version = "kUnix" /\ e.port = 0
         /\ e.path \in Seq(1..255) /\ Len(e.path) < PathRoom
  <2>1. 256 - 1 = 255
    OBVIOUS
  <2>2. QED
    BY <2>1, EndpointAssumption DEF Byte
<1>1. CASE e.version = "kIp4"
  <2>1. Fits(e.ip, 4) /\ Fits(e.port, 2)
    BY <1>a, <1>1
  <2>2. Host(e) = NewSockAddress4(e.ip, e.port)
    BY <1>1 DEF Host
  <2>3. Valid(addr)
    BY <1>1, <2>1, <2>2 DEF Valid
  <2>4. ToHost(ToNetwork(Host(e))) = Host(e)
    BY <2>1, <2>2, HostAndNetwork
  <2>5. GetPort(addr) = e.port
    BY <1>0, <1>1, <2>2 DEF GetPort, NewSockAddress4
  <2>6. AddressEqual(addr, addr)
    BY <1>0, <1>1 DEF AddressEqual
  <2>7. QED
    BY <2>3, <2>4, <2>5, <2>6
<1>2. CASE e.version = "kIp6"
  <2> DEFINE swapped == Swap(e.port, 2)
  <2>1. /\ Fits(e.port, 2) /\ Fits(e.scope, 4)
        /\ e.ip \in [1..4 -> Nat] /\ \A i \in 1..4 : Fits(e.ip[i], 4)
    BY <1>a, <1>2
  <2>2. Host(e) = SocketAddress6(e.ip, swapped, e.scope)
    BY <1>2 DEF Host
  <2>a. Fits(swapped, 2) /\ Swap(swapped, 2) = e.port
    BY <2>1, SwapTwo
  <2> HIDE DEF swapped
  <2>3. Valid(addr)
    BY <1>2, <2>1, <2>2, <2>a, Zenon DEF Valid
  <2>5. GetPort(addr) = e.port
    BY <1>0, <1>2, <2>2, <2>a DEF GetPort, SocketAddress6
  <2>6. AddressEqual(addr, addr)
    BY <1>0, <1>2 DEF AddressEqual, Equal6
  <2>7. QED
    BY <1>2, <2>3, <2>5, <2>6
<1>3. CASE e.version = "kUnix"
  <2>1. e.port = 0 /\ e.path \in Seq(1..255) /\ Len(e.path) < PathRoom
    BY <1>a, <1>3
  <2>2. Host(e) = SocketAddressUnix(e.path)
    BY <1>3 DEF Host
  <2>3. Valid(addr)
    BY <1>3, <2>1, <2>2, Zenon DEF Valid
  <2>5. GetPort(addr) = e.port
    BY <1>0, <1>3, <2>1 DEF GetPort
  <2>6. AddressEqual(addr, addr)
    BY <1>0, <1>3 DEF AddressEqual
  <2>7. QED
    BY <1>3, <2>3, <2>5, <2>6
<1>4. QED
  BY <1>a, <1>1, <1>2, <1>3

\* The inductive invariant: the address is the representation of the endpoint
\* itself, not only one that compares equal.
AddressInv ==
    endpoint # Nothing =>
        endpoint \in Endpoints /\ address = General(endpoint.version, Host(endpoint))

\* No constructor, conversion, packet or destructor breaks it.
LEMMA AddressStep == AddressInv /\ [AddressNext]_addressVars => AddressInv'
<1> SUFFICES ASSUME AddressInv, [AddressNext]_addressVars PROVE AddressInv'
  OBVIOUS
<1>1. ASSUME NEW e \in Endpoints, Construct(e) PROVE AddressInv'
  <2> DEFINE addr == General(e.version, Host(e))
  <2>1. Valid(addr) /\ (e.version = "kIp4" => ToHost(ToNetwork(Host(e))) = Host(e))
    BY EndpointRepresented
  <2>2. FromStorage(ToStorage(addr)) = addr
    BY <2>1, StorageKeeps
  <2>3. address' = addr /\ endpoint' = e
    BY <1>1, <2>1, <2>2 DEF Construct
  <2>4. QED
    BY <2>3 DEF AddressInv
<1>2. CASE Convert
  <2>1. endpoint \in Endpoints /\ address = General(endpoint.version, Host(endpoint))
        /\ endpoint' = endpoint
    BY <1>2 DEF Convert, AddressInv
  <2>2. /\ address.version = endpoint.version /\ address.a = Host(endpoint)
        /\ address = General(address.version, address.a)
    BY <2>1 DEF General
  <2>3. /\ Valid(address)
        /\ endpoint.version = "kIp4" => ToHost(ToNetwork(Host(endpoint))) = Host(endpoint)
    BY <2>1, EndpointRepresented
  <2>4. CASE address' = Copied(address)
    BY <2>1, <2>2, <2>4 DEF Copied, AddressInv
  <2>5. CASE /\ address.version = "kIp4"
             /\ address' = General("kIp4", ToHost(ToOldAddresses(<<address.a>>)[1]))
    <3>1. ToOldAddresses(<<address.a>>)[1] = ToNetwork(address.a)
      BY DEF ToOldAddresses
    <3>2. QED
      BY <2>1, <2>2, <2>3, <2>5, <3>1 DEF AddressInv
  <2>6. CASE address' = FromStorage(ToStorage(address))
    BY <2>1, <2>3, <2>6, StorageKeeps DEF AddressInv
  <2>7. CASE address' = SerializeFrom(SerializeTo(address))
    BY <2>1, <2>3, <2>7, PacketKeeps DEF AddressInv
  <2>8. QED
    BY <1>2, <2>4, <2>5, <2>6, <2>7 DEF Convert
<1>3. CASE Discard
  BY <1>3 DEF Discard, AddressInv
<1>4. ASSUME NEW k, InsertKey(k) PROVE AddressInv'
  BY <1>4 DEF InsertKey, AddressInv
<1>5. CASE UNCHANGED addressVars
  BY <1>5 DEF addressVars, AddressInv
<1>6. QED
  BY <1>1, <1>2, <1>3, <1>4, <1>5 DEF AddressNext

\* Through every conversion between byte orders, classes, sockaddr and packets,
\* an address stands for the endpoint that it was constructed for.
THEOREM AddressesStand == AddressSpec => []EndpointKept
<1>1. NoAddress => AddressInv
  BY DEF NoAddress, AddressInv
<1>2. AddressInv => EndpointKept
  <2> SUFFICES ASSUME AddressInv, endpoint # Nothing
               PROVE  /\ AddressEqual(address, General(endpoint.version, Host(endpoint)))
                      /\ GetPort(address) = endpoint.port
    BY DEF EndpointKept
  <2>1. endpoint \in Endpoints /\ address = General(endpoint.version, Host(endpoint))
    BY DEF AddressInv
  <2>2. QED
    BY <2>1, EndpointRepresented
<1>3. QED
  BY <1>1, <1>2, AddressStep, PTL DEF AddressSpec

-----------------------------------------------------------------------------
(* Lexicographic order.                                                    *)

\* The first place that tells two sequences apart puts l in front of r: l has
\* ended there, or has a smaller number.
Ahead(l, r, i) ==
    /\ i \in 1..Len(r) /\ i <= Len(l) + 1
    /\ \A j \in 1..i - 1 : l[j] = r[j]
    /\ i <= Len(l) => l[i] < r[i]

\* Lexicographic order is to be ahead at some place.
LEMMA LexIs ==
    ASSUME NEW l \in Seq(Int), NEW r \in Seq(Int)
    PROVE  Lexicographic(l, r) <=> \E i \in 1..Len(r) : Ahead(l, r, i)
<1>0. /\ Len(l) \in Nat /\ Len(r) \in Nat /\ DOMAIN l = 1..Len(l) /\ DOMAIN r = 1..Len(r)
  OBVIOUS
<1>1. ASSUME Len(l) < Len(r), l = SubSeq(r, 1, Len(l))
      PROVE  Ahead(l, r, Len(l) + 1)
  <2>1. \A j \in 1..Len(l) : SubSeq(r, 1, Len(l))[j] = r[j]
    BY <1>0, <1>1
  <2>2. \A j \in 1..Len(l) : l[j] = r[j]
    BY <1>1, <2>1, Zenon
  <2>3. (Len(l) + 1) - 1 = Len(l) /\ Len(l) + 1 \in 1..Len(r) /\ ~(Len(l) + 1 <= Len(l)) /\ Len(l) + 1 <= Len(l) + 1
    BY <1>0, <1>1
  <2>4. QED
    BY <2>2, <2>3 DEF Ahead
<1>2. ASSUME NEW i \in DOMAIN l \cap DOMAIN r, l[i] < r[i], \A j \in 1..i - 1 : l[j] = r[j]
      PROVE  Ahead(l, r, i)
  BY <1>0, <1>2 DEF Ahead
<1>3. Lexicographic(l, r) => \E i \in 1..Len(r) : Ahead(l, r, i)
  <2>1. ASSUME Len(l) < Len(r), l = SubSeq(r, 1, Len(l))
        PROVE  \E i \in 1..Len(r) : Ahead(l, r, i)
    <3>1. Len(l) + 1 \in 1..Len(r)
      BY <1>0, <2>1
    <3>2. QED
      BY <1>1, <2>1, <3>1
  <2>2. ASSUME NEW i \in DOMAIN l \cap DOMAIN r, l[i] < r[i], \A j \in 1..i - 1 : l[j] = r[j]
        PROVE  \E k \in 1..Len(r) : Ahead(l, r, k)
    BY <1>0, <1>2, <2>2
  <2>3. QED
    BY <2>1, <2>2 DEF Lexicographic
<1>4. ASSUME NEW i \in 1..Len(r), Ahead(l, r, i) PROVE Lexicographic(l, r)
  <2>1. CASE i <= Len(l)
    <3>1. i \in DOMAIN l \cap DOMAIN r
      BY <1>0, <2>1
    <3>2. QED
      BY <1>4, <2>1, <3>1 DEF Ahead, Lexicographic
  <2>2. CASE ~(i <= Len(l))
    <3>1. i = Len(l) + 1 /\ Len(l) < Len(r)
      BY <1>0, <1>4, <2>2 DEF Ahead
    <3>2. \A j \in 1..Len(l) : l[j] = r[j]
      BY <1>0, <1>4, <3>1 DEF Ahead
    <3>3. SubSeq(r, 1, Len(l)) \in Seq(Int) /\ Len(SubSeq(r, 1, Len(l))) = Len(l)
          /\ \A j \in 1..Len(l) : SubSeq(r, 1, Len(l))[j] = r[j]
      BY <1>0, <3>1
    <3>4. l = SubSeq(r, 1, Len(l))
      BY <3>2, <3>3, SeqEqual
    <3>5. QED
      BY <3>1, <3>4 DEF Lexicographic
  <2>3. QED
    BY <2>1, <2>2
<1>5. QED
  BY <1>3, <1>4

\* No sequence is less than itself.
LEMMA LexIrreflexive ==
    ASSUME NEW s \in Seq(Int)
    PROVE  ~Lexicographic(s, s)
<1>1. ASSUME NEW i \in 1..Len(s), Ahead(s, s, i) PROVE FALSE
  BY <1>1 DEF Ahead
<1>2. QED
  BY <1>1, LexIs

\* The smaller of the two places that tell l, m and r apart decides.
LEMMA LexTransitive ==
    ASSUME NEW l \in Seq(Int), NEW m \in Seq(Int), NEW r \in Seq(Int),
           Lexicographic(l, m), Lexicographic(m, r)
    PROVE  Lexicographic(l, r)
<1>1. PICK i \in 1..Len(m) : Ahead(l, m, i)
  BY LexIs
<1>2. PICK k \in 1..Len(r) : Ahead(m, r, k)
  BY LexIs
<1>0. Len(l) \in Nat /\ Len(m) \in Nat /\ Len(r) \in Nat /\ i \in Nat /\ k \in Nat
  OBVIOUS
<1>3. /\ i <= Len(l) + 1 /\ (\A j \in 1..i - 1 : l[j] = m[j]) /\ (i <= Len(l) => l[i] < m[i])
  BY <1>1 DEF Ahead
<1>4. /\ k <= Len(m) + 1 /\ (\A j \in 1..k - 1 : m[j] = r[j]) /\ (k <= Len(m) => m[k] < r[k])
  BY <1>2 DEF Ahead
<1>t. /\ \A j \in 1..Len(l) : l[j] \in Int
      /\ \A j \in 1..Len(m) : m[j] \in Int
      /\ \A j \in 1..Len(r) : r[j] \in Int
  BY ElementOfSeq
<1>5. CASE i < k
  <2>1. i \in 1..Len(r) /\ i \in 1..k - 1
    BY <1>0, <1>5
  <2>2. \A j \in 1..i - 1 : l[j] = r[j]
    <3>1. \A j \in 1..i - 1 : j \in 1..k - 1
      BY <1>0, <1>5
    <3>2. QED
      BY <1>3, <1>4, <3>1
  <2>3. m[i] = r[i]
    BY <1>4, <2>1
  <2>4. Ahead(l, r, i)
    BY <1>3, <2>1, <2>2, <2>3 DEF Ahead
  <2>5. QED
    BY <2>1, <2>4, LexIs
<1>6. CASE k < i
  <2>1. k \in 1..i - 1 /\ k <= Len(m) /\ k <= Len(l)
    BY <1>0, <1>3, <1>6
  <2>2. \A j \in 1..k - 1 : l[j] = r[j]
    <3>1. \A j \in 1..k - 1 : j \in 1..i - 1
      BY <1>0, <1>6
    <3>2. QED
      BY <1>3, <1>4, <3>1
  <2>3. l[k] = m[k] /\ m[k] < r[k]
    BY <1>3, <1>4, <2>1
  <2>4. Ahead(l, r, k)
    BY <1>0, <2>1, <2>2, <2>3 DEF Ahead
  <2>5. QED
    BY <2>4, LexIs
<1>7. CASE i = k
  <2>1. \A j \in 1..k - 1 : l[j] = r[j]
    BY <1>3, <1>4, <1>7
  <2>2. k <= Len(l) + 1 /\ m[k] < r[k]
    BY <1>3, <1>4, <1>7
  <2>3. k <= Len(l) => l[k] < r[k]
    <3>1. SUFFICES ASSUME k <= Len(l) PROVE l[k] < r[k]
      OBVIOUS
    <3>2. l[k] \in Int /\ m[k] \in Int /\ r[k] \in Int
      BY <1>0, <1>7, <1>t, <3>1
    <3>3. l[k] < m[k]
      BY <1>3, <1>7, <3>1
    <3>4. QED
      BY <2>2, <3>2, <3>3
  <2>4. Ahead(l, r, k)
    BY <2>1, <2>2, <2>3 DEF Ahead
  <2>5. QED
    BY <2>4, LexIs
<1>8. QED
  BY <1>0, <1>5, <1>6, <1>7

\* Of some natural numbers one is the least.
LEMMA LeastElement ==
    ASSUME NEW T, T \subseteq Nat, T # {}
    PROVE  \E x \in T : \A y \in T : x <= y
<1> DEFINE R == {ss \in Nat \X Nat : ss[1] < ss[2]}
<1>1. IsWellFoundedOn(R, Nat)
  BY NatLessThanWellFounded, Zenon DEF OpToRel
<1>2. \A x, y \in Nat : y < x => <<y, x>> \in R
  OBVIOUS
<1> HIDE DEF R
<1>3. PICK x \in T : \A y \in T : ~ (<<y, x>> \in R)
  BY <1>1, WFMin, Zenon
<1>4. ASSUME NEW y \in T PROVE x <= y
  <2>1. x \in Nat /\ y \in Nat
    OBVIOUS
  <2>2. ~(y < x)
    BY <1>2, <1>3, <2>1, Zenon
  <2>3. QED
    BY <2>1, <2>2
<1>5. QED
  BY <1>4

\* Of two different sequences one is less: they have a first difference.
LEMMA LexTotal ==
    ASSUME NEW l \in Seq(Int), NEW r \in Seq(Int), l # r
    PROVE  Lexicographic(l, r) \/ Lexicographic(r, l)
<1>0. Len(l) \in Nat /\ Len(r) \in Nat
  OBVIOUS
<1>t. /\ \A j \in 1..Len(l) : l[j] \in Int
      /\ \A j \in 1..Len(r) : r[j] \in Int
  BY ElementOfSeq
<1> DEFINE T == {i \in Nat \ {0} : \/ Len(l) < i /\ i <= Len(r)
                                   \/ Len(r) < i /\ i <= Len(l)
                                   \/ i <= Len(l) /\ i <= Len(r) /\ l[i] # r[i]}
<1>1. T # {}
  <2>1. CASE Len(l) < Len(r)
    <3>1. Len(r) \in T
      BY <1>0, <2>1
    <3>2. QED
      BY <3>1
  <2>2. CASE Len(r) < Len(l)
    <3>1. Len(l) \in T
      BY <1>0, <2>2
    <3>2. QED
      BY <3>1
  <2>3. CASE Len(l) = Len(r)
    <3>1. PICK i \in 1..Len(l) : l[i] # r[i]
      BY <2>3, SeqEqual
    <3>2. i \in T
      BY <1>0, <2>3, <3>1
    <3>3. QED
      BY <3>2
  <2>4. QED
    BY <1>0, <2>1, <2>2, <2>3
<1>2. PICK x \in T : \A y \in T : x <= y
  <2>1. T \subseteq Nat
    OBVIOUS
  <2>2. QED
    BY <1>1, <2>1, LeastElement, Zenon
<1>3. x \in Nat \ {0}
  OBVIOUS
<1>4. \A j \in 1..x - 1 : j \in Nat \ {0} /\ ~(j \in T)
  <2> TAKE j \in 1..x - 1
  <2>1. j \in Nat \ {0} /\ ~(x <= j)
    BY <1>3
  <2>2. QED
    BY <1>2, <2>1
<1>5. \A j \in 1..x - 1 :
        /\ ~(Len(l) < j /\ j <= Len(r)) /\ ~(Len(r) < j /\ j <= Len(l))
        /\ ~(j <= Len(l) /\ j <= Len(r) /\ l[j] # r[j])
  BY <1>4
<1>6. \/ Len(l) < x /\ x <= Len(r)
      \/ Len(r) < x /\ x <= Len(l)
      \/ x <= Len(l) /\ x <= Len(r) /\ l[x] # r[x]
  BY <1>2
<1> HIDE DEF T
<1>7. x <= Len(l) + 1 /\ x <= Len(r) + 1 /\ \A j \in 1..x - 1 : l[j] = r[j] /\ r[j] = l[j]
  <2>1. ASSUME x > Len(l) + 1 PROVE FALSE
    <3>1. Len(l) + 1 \in 1..x - 1 /\ Len(l) < Len(l) + 1
      BY <1>0, <1>3, <2>1
    <3>2. x <= Len(r) /\ Len(l) + 1 <= Len(r)
      BY <1>0, <1>3, <1>6, <2>1
    <3>3. QED
      BY <1>5, <3>1, <3>2
  <2>2. ASSUME x > Len(r) + 1 PROVE FALSE
    <3>1. Len(r) + 1 \in 1..x - 1 /\ Len(r) < Len(r) + 1
      BY <1>0, <1>3, <2>2
    <3>2. x <= Len(l) /\ Len(r) + 1 <= Len(l)
      BY <1>0, <1>3, <1>6, <2>2
    <3>3. QED
      BY <1>5, <3>1, <3>2
  <2>3. x <= Len(l) + 1 /\ x <= Len(r) + 1
    BY <1>0, <1>3, <2>1, <2>2
  <2>4. \A j \in 1..x - 1 : j <= Len(l) /\ j <= Len(r)
    BY <1>0, <1>3, <2>3
  <2>5. QED
    BY <1>5, <2>3, <2>4, Zenon
<1>8. CASE Len(l) < x /\ x <= Len(r)
  <2>1. x \in 1..Len(r) /\ ~(x <= Len(l))
    BY <1>0, <1>3, <1>8
  <2>2. Ahead(l, r, x)
    BY <1>7, <2>1 DEF Ahead
  <2>3. QED
    BY <2>1, <2>2, LexIs
<1>9. CASE Len(r) < x /\ x <= Len(l)
  <2>1. x \in 1..Len(l) /\ ~(x <= Len(r))
    BY <1>0, <1>3, <1>9
  <2>2. Ahead(r, l, x)
    BY <1>7, <2>1 DEF Ahead
  <2>3. QED
    BY <2>1, <2>2, LexIs
<1>10. CASE x <= Len(l) /\ x <= Len(r) /\ l[x] # r[x]
  <2>1. x \in 1..Len(l) /\ x \in 1..Len(r)
    BY <1>0, <1>3, <1>10
  <2>2. l[x] \in Int /\ r[x] \in Int
    BY <1>t, <2>1
  <2>3. CASE l[x] < r[x]
    <3>1. Ahead(l, r, x)
      BY <1>7, <2>1, <2>3 DEF Ahead
    <3>2. QED
      BY <2>1, <3>1, LexIs
  <2>4. CASE r[x] < l[x]
    <3>1. Ahead(r, l, x)
      BY <1>7, <2>1, <2>4 DEF Ahead
    <3>2. QED
      BY <2>1, <3>1, LexIs
  <2>5. QED
    BY <1>10, <2>2, <2>3, <2>4
<1>11. QED
  BY <1>6, <1>8, <1>9, <1>10

-----------------------------------------------------------------------------
(* The macros of declare_struct.h.                                         *)

\* The clauses of operator<: the i-th is about the members 1 to i.
Clause(c, i) == c \in Seq(Int) /\ Len(c) = i /\ \A j \in 1..i : c[j] = j

Clause_1 == <<1>>
Clause_2 == <<1, 2>>
Clause_3 == <<1, 2, 3>>
Clause_4 == <<1, 2, 3, 4>>
Clause_5 == <<1, 2, 3, 4, 5>>
Clause_6 == <<1, 2, 3, 4, 5, 6>>
Clause_7 == <<1, 2, 3, 4, 5, 6, 7>>
Clause_8 == <<1, 2, 3, 4, 5, 6, 7, 8>>
Clause_9 == <<1, 2, 3, 4, 5, 6, 7, 8, 9>>

\* Each of the nine is the clause of its last member.
LEMMA ClausesAre ==
    /\ Clause(Clause_1, 1)
    /\ Clause(Clause_2, 2)
    /\ Clause(Clause_3, 3)
    /\ Clause(Clause_4, 4)
    /\ Clause(Clause_5, 5)
    /\ Clause(Clause_6, 6)
    /\ Clause(Clause_7, 7)
    /\ Clause(Clause_8, 8)
    /\ Clause(Clause_9, 9)
<1>1. Clause(Clause_1, 1)
  BY DEF Clause, Clause_1
<1>2. Clause(Clause_2, 2)
  BY DEF Clause, Clause_2
<1>3. Clause(Clause_3, 3)
  BY DEF Clause, Clause_3
<1>4. Clause(Clause_4, 4)
  BY DEF Clause, Clause_4
<1>5. Clause(Clause_5, 5)
  BY DEF Clause, Clause_5
<1>6. Clause(Clause_6, 6)
  BY DEF Clause, Clause_6
<1>7. Clause(Clause_7, 7)
  BY DEF Clause, Clause_7
<1>8. Clause(Clause_8, 8)
  BY DEF Clause, Clause_8
<1>9. Clause(Clause_9, 9)
  BY DEF Clause, Clause_9
<1>10. QED
  BY <1>1, <1>2, <1>3, <1>4, <1>5, <1>6, <1>7, <1>8, <1>9

\* The macros of every size have one clause per member, equality over all of
\* them, and constructors that forget none.
StructComplete(n) ==
    /\ DOMAIN Structs[n].less = 1..n
    /\ \A i \in 1..n : Clause(Structs[n].less[i], i)
    /\ ToSet(Structs[n].equal) = 1..n
    /\ SimpleStructs[n].init \cap SimpleStructs[n].copy \cap SimpleStructs[n].assign = 1..n

\* The macros of declare_struct.h leave out no member, in any size.
LEMMA StructsComplete == \A n \in 1..9 : StructComplete(n)
<1>1. StructComplete(1)
  <2>1. Structs[1] = Struct_1 /\ SimpleStructs[1] = SimpleStruct_1
    BY DEF Structs, SimpleStructs
  <2>2. Struct_1.less = <<Clause_1>>
    BY DEF Struct_1, Clause_1
  <2>3. DOMAIN Struct_1.less = 1..1
    BY <2>2
  <2>4. \A i \in 1..1 : Clause(Struct_1.less[i], i)
    BY <2>2, ClausesAre
  <2>5. Struct_1.equal = <<1>>
    BY DEF Struct_1
  <2>6. ToSet(Struct_1.equal) = 1..1
    BY <2>5 DEF ToSet
  <2>7. SimpleStruct_1.init \cap SimpleStruct_1.copy \cap SimpleStruct_1.assign = 1..1
    BY DEF SimpleStruct_1
  <2>8. QED
    BY <2>1, <2>3, <2>4, <2>6, <2>7 DEF StructComplete
<1>2. StructComplete(2)
  <2>1. Structs[2] = Struct_2 /\ SimpleStructs[2] = SimpleStruct_2
    BY DEF Structs, SimpleStructs
  <2>2. Struct_2.less = <<Clause_1, Clause_2>>
    BY DEF Struct_2, Clause_1, Clause_2
  <2>3. DOMAIN Struct_2.less = 1..2
    BY <2>2
  <2>4. \A i \in 1..2 : Clause(Struct_2.less[i], i)
    BY <2>2, ClausesAre
  <2>5. Struct_2.equal = <<1, 2>>
    BY DEF Struct_2
  <2>6. ToSet(Struct_2.equal) = 1..2
    BY <2>5 DEF ToSet
  <2>7. SimpleStruct_2.init \cap SimpleStruct_2.copy \cap SimpleStruct_2.assign = 1..2
    BY DEF SimpleStruct_2
  <2>8. QED
    BY <2>1, <2>3, <2>4, <2>6, <2>7 DEF StructComplete
<1>3. StructComplete(3)
  <2>1. Structs[3] = Struct_3 /\ SimpleStructs[3] = SimpleStruct_3
    BY DEF Structs, SimpleStructs
  <2>2. Struct_3.less = <<Clause_1, Clause_2, Clause_3>>
    BY DEF Struct_3, Clause_1, Clause_2, Clause_3
  <2>3. DOMAIN Struct_3.less = 1..3
    BY <2>2
  <2>4. \A i \in 1..3 : Clause(Struct_3.less[i], i)
    BY <2>2, ClausesAre
  <2>5. Struct_3.equal = <<1, 2, 3>>
    BY DEF Struct_3
  <2>6. ToSet(Struct_3.equal) = 1..3
    BY <2>5 DEF ToSet
  <2>7. SimpleStruct_3.init \cap SimpleStruct_3.copy \cap SimpleStruct_3.assign = 1..3
    BY DEF SimpleStruct_3
  <2>8. QED
    BY <2>1, <2>3, <2>4, <2>6, <2>7 DEF StructComplete
<1>4. StructComplete(4)
  <2>1. Structs[4] = Struct_4 /\ SimpleStructs[4] = SimpleStruct_4
    BY DEF Structs, SimpleStructs
  <2>2. Struct_4.less = <<Clause_1, Clause_2, Clause_3, Clause_4>>
    BY DEF Struct_4, Clause_1, Clause_2, Clause_3, Clause_4
  <2>3. DOMAIN Struct_4.less = 1..4
    BY <2>2
  <2>4. \A i \in 1..4 : Clause(Struct_4.less[i], i)
    BY <2>2, ClausesAre
  <2>5. Struct_4.equal = <<1, 2, 3, 4>>
    BY DEF Struct_4
  <2>6. ToSet(Struct_4.equal) = 1..4
    BY <2>5 DEF ToSet
  <2>7. SimpleStruct_4.init \cap SimpleStruct_4.copy \cap SimpleStruct_4.assign = 1..4
    BY DEF SimpleStruct_4
  <2>8. QED
    BY <2>1, <2>3, <2>4, <2>6, <2>7 DEF StructComplete
<1>5. StructComplete(5)
  <2>1. Structs[5] = Struct_5 /\ SimpleStructs[5] = SimpleStruct_5
    BY DEF Structs, SimpleStructs
  <2>2. Struct_5.less = <<Clause_1, Clause_2, Clause_3, Clause_4, Clause_5>>
    BY DEF Struct_5, Clause_1, Clause_2, Clause_3, Clause_4, Clause_5
  <2>3. DOMAIN Struct_5.less = 1..5
    BY <2>2
  <2>4. \A i \in 1..5 : Clause(Struct_5.less[i], i)
    BY <2>2, ClausesAre
  <2>5. Struct_5.equal = <<1, 2, 3, 4, 5>>
    BY DEF Struct_5
  <2>6. ToSet(Struct_5.equal) = 1..5
    BY <2>5 DEF ToSet
  <2>7. SimpleStruct_5.init \cap SimpleStruct_5.copy \cap SimpleStruct_5.assign = 1..5
    BY DEF SimpleStruct_5
  <2>8. QED
    BY <2>1, <2>3, <2>4, <2>6, <2>7 DEF StructComplete
<1>6. StructComplete(6)
  <2>1. Structs[6] = Struct_6 /\ SimpleStructs[6] = SimpleStruct_6
    BY DEF Structs, SimpleStructs
  <2>2. Struct_6.less = <<Clause_1, Clause_2, Clause_3, Clause_4, Clause_5, Clause_6>>
    BY DEF Struct_6, Clause_1, Clause_2, Clause_3, Clause_4, Clause_5, Clause_6
  <2>3. DOMAIN Struct_6.less = 1..6
    BY <2>2
  <2>4. \A i \in 1..6 : Clause(Struct_6.less[i], i)
    BY <2>2, ClausesAre
  <2>5. Struct_6.equal = <<1, 2, 3, 4, 5, 6>>
    BY DEF Struct_6
  <2>6. ToSet(Struct_6.equal) = 1..6
    BY <2>5 DEF ToSet
  <2>7. SimpleStruct_6.init \cap SimpleStruct_6.copy \cap SimpleStruct_6.assign = 1..6
    BY DEF SimpleStruct_6
  <2>8. QED
    BY <2>1, <2>3, <2>4, <2>6, <2>7 DEF StructComplete
<1>7. StructComplete(7)
  <2>1. Structs[7] = Struct_7 /\ SimpleStructs[7] = SimpleStruct_7
    BY DEF Structs, SimpleStructs
  <2>2. Struct_7.less = <<Clause_1, Clause_2, Clause_3, Clause_4, Clause_5, Clause_6, Clause_7>>
    BY DEF Struct_7, Clause_1, Clause_2, Clause_3, Clause_4, Clause_5, Clause_6, Clause_7
  <2>3. DOMAIN Struct_7.less = 1..7
    BY <2>2
  <2>4. \A i \in 1..7 : Clause(Struct_7.less[i], i)
    BY <2>2, ClausesAre
  <2>5. Struct_7.equal = <<1, 2, 3, 4, 5, 6, 7>>
    BY DEF Struct_7
  <2>6. ToSet(Struct_7.equal) = 1..7
    BY <2>5 DEF ToSet
  <2>7. SimpleStruct_7.init \cap SimpleStruct_7.copy \cap SimpleStruct_7.assign = 1..7
    BY DEF SimpleStruct_7
  <2>8. QED
    BY <2>1, <2>3, <2>4, <2>6, <2>7 DEF StructComplete
<1>8. StructComplete(8)
  <2>1. Structs[8] = Struct_8 /\ SimpleStructs[8] = SimpleStruct_8
    BY DEF Structs, SimpleStructs
  <2>2. Struct_8.less = <<Clause_1, Clause_2, Clause_3, Clause_4, Clause_5, Clause_6, Clause_7, Clause_8>>
    BY DEF Struct_8, Clause_1, Clause_2, Clause_3, Clause_4, Clause_5, Clause_6, Clause_7, Clause_8
  <2>3. DOMAIN Struct_8.less = 1..8
    BY <2>2
  <2>4. \A i \in 1..8 : Clause(Struct_8.less[i], i)
    BY <2>2, ClausesAre
  <2>5. Struct_8.equal = <<1, 2, 3, 4, 5, 6, 7, 8>>
    BY DEF Struct_8
  <2>6. ToSet(Struct_8.equal) = 1..8
    BY <2>5 DEF ToSet
  <2>7. SimpleStruct_8.init \cap SimpleStruct_8.copy \cap SimpleStruct_8.assign = 1..8
    BY DEF SimpleStruct_8
  <2>8. QED
    BY <2>1, <2>3, <2>4, <2>6, <2>7 DEF StructComplete
<1>9. StructComplete(9)
  <2>1. Structs[9] = Struct_9 /\ SimpleStructs[9] = SimpleStruct_9
    BY DEF Structs, SimpleStructs
  <2>2. Struct_9.less = <<Clause_1, Clause_2, Clause_3, Clause_4, Clause_5, Clause_6, Clause_7, Clause_8, Clause_9>>
    BY DEF Struct_9, Clause_1, Clause_2, Clause_3, Clause_4, Clause_5, Clause_6, Clause_7, Clause_8, Clause_9
  <2>3. DOMAIN Struct_9.less = 1..9
    BY <2>2
  <2>4. \A i \in 1..9 : Clause(Struct_9.less[i], i)
    BY <2>2, ClausesAre
  <2>5. Struct_9.equal = <<1, 2, 3, 4, 5, 6, 7, 8, 9>>
    BY DEF Struct_9
  <2>6. ToSet(Struct_9.equal) = 1..9
    BY <2>5 DEF ToSet
  <2>7. SimpleStruct_9.init \cap SimpleStruct_9.copy \cap SimpleStruct_9.assign = 1..9
    BY DEF SimpleStruct_9
  <2>8. QED
    BY <2>1, <2>3, <2>4, <2>6, <2>7 DEF StructComplete
<1>10. \A n \in 1..9 : n = 1 \/ n = 2 \/ n = 3 \/ n = 4 \/ n = 5 \/ n = 6 \/ n = 7 \/ n = 8 \/ n = 9
  OBVIOUS
<1>11. QED
  BY <1>1, <1>2, <1>3, <1>4, <1>5, <1>6, <1>7, <1>8, <1>9, <1>10, Zenon

-----------------------------------------------------------------------------
(* operator< of structs and addresses.                                     *)

\* operator< of a struct is the lexicographic order of its members.
LEMMA StructLessIs ==
    ASSUME NEW l \in Seq(Int), NEW r \in Seq(Int), Len(l) \in 1..9, Len(r) = Len(l)
    PROVE  /\ StructLess(l, r) <=> Lexicographic(l, r)
           /\ StructEqual(l, r) <=> l = r
           /\ Stored(l) = l
<1> DEFINE n == Len(l)
           L == Structs[n].less
<1>0. n \in Nat /\ DOMAIN l = 1..n /\ DOMAIN r = 1..n
  OBVIOUS
<1>1. /\ DOMAIN L = 1..n /\ (\A i \in 1..n : Clause(L[i], i)) /\ ToSet(Structs[n].equal) = 1..n
      /\ SimpleStructs[n].init \cap SimpleStructs[n].copy \cap SimpleStructs[n].assign = 1..n
  BY StructsComplete DEF StructComplete
<1>2. ASSUME NEW i \in 1..n
      PROVE  L[i][Len(L[i])] = i /\ ToSet(Front(L[i])) = 1..i - 1
  <2> DEFINE c == L[i]
  <2>1. c \in Seq(Int) /\ Len(c) = i /\ \A j \in 1..i : c[j] = j
    BY <1>1 DEF Clause
  <2> HIDE DEF c
  <2>2. i \in 1..i /\ i \in Nat \ {0}
    BY <1>0
  <2>3. Front(c) = SubSeq(c, 1, i - 1)
    BY <2>1 DEF Front
  <2>4. DOMAIN SubSeq(c, 1, i - 1) = 1..i - 1 /\ \A j \in 1..i - 1 : SubSeq(c, 1, i - 1)[j] = c[j]
    BY <2>1, <2>2
  <2>5. \A j \in 1..i - 1 : c[j] = j
    BY <2>1, <2>2
  <2>6. ToSet(Front(c)) = {SubSeq(c, 1, i - 1)[j] : j \in 1..i - 1}
    BY <2>3, <2>4 DEF ToSet
  <2>7. ToSet(Front(c)) = 1..i - 1
    <3>1. \A j \in 1..i - 1 : SubSeq(c, 1, i - 1)[j] = j
      BY <2>4, <2>5, Zenon
    <3>2. QED
      BY <2>6, <3>1, Zenon
  <2>8. QED
    BY <2>1, <2>2, <2>7 DEF c
<1>3. StructLess(l, r) <=> \E i \in 1..n : l[i] < r[i] /\ \A j \in 1..i - 1 : l[j] = r[j]
  <2>1. ToSet(L) = {L[i] : i \in 1..n}
    BY <1>1 DEF ToSet
  <2>2. StructLess(l, r) <=>
          \E c \in ToSet(L) : l[c[Len(c)]] < r[c[Len(c)]] /\ \A j \in ToSet(Front(c)) : l[j] = r[j]
    BY DEF StructLess
  <2>3. StructLess(l, r) <=>
          \E i \in 1..n : /\ l[L[i][Len(L[i])]] < r[L[i][Len(L[i])]]
                          /\ \A j \in ToSet(Front(L[i])) : l[j] = r[j]
    <3> HIDE DEF L
    <3>1. \A i \in 1..n : L[i] \in ToSet(L)
      BY <2>1
    <3>2. \A c \in ToSet(L) : \E i \in 1..n : c = L[i]
      BY <2>1
    <3>3. QED
      BY <2>2, <3>1, <3>2
  <2> HIDE DEF L
  <2>4. QED
    BY <1>2, <2>3, Zenon
<1>4. Lexicographic(l, r) <=> \E i \in 1..n : l[i] < r[i] /\ \A j \in 1..i - 1 : l[j] = r[j]
  <2>1. ~(Len(l) < Len(r)) /\ DOMAIN l \cap DOMAIN r = 1..n
    BY <1>0
  <2>2. QED
    BY <2>1, Zenon DEF Lexicographic
<1>5. StructEqual(l, r) <=> l = r
  <2>1. StructEqual(l, r) <=> \A i \in 1..n : l[i] = r[i]
    BY <1>1 DEF StructEqual
  <2>2. QED
    BY <2>1, SeqEqual
<1>6. Stored(l) = l
  <2>1. Stored(l) = [i \in 1..n |-> IF i \in 1..n THEN l[i] ELSE Nothing]
    BY <1>0, <1>1 DEF Stored, Members
  <2>2. l = [i \in 1..n |-> l[i]]
    BY <1>0
  <2>3. QED
    BY <2>1, <2>2
<1>7. QED
  BY <1>3, <1>4, <1>5, <1>6

\* Keys: structs of one to nine numbers, and valid addresses.
StructKey(s) == [kind |-> "struct", key |-> s]
AddressKey(a) == [kind |-> "address", key |-> a]
ValidKey(k) ==
    \/ \E s \in Seq(Int) : Len(s) \in 1..9 /\ k = StructKey(s)
    \/ \E a : Valid(a) /\ k = AddressKey(a)

\* Keys of one container.
Alike(k, m) == k.kind = m.kind /\ (k.kind = "struct" => Len(k.key) = Len(m.key))

\* What Less compares: a rank, then a sequence of numbers.
Rank(k) == IF k.kind = "struct" THEN 0 ELSE Index(k.key.version)
KeySeq(k) == IF k.kind = "struct" THEN k.key ELSE CompareKey(k.key)

\* A valid address has numbers to compare, which say all about it.
LEMMA CompareKeyIs ==
    ASSUME NEW a, Valid(a)
    PROVE  /\ CompareKey(a) \in Seq(Int)
           /\ a.version \in {"kIp4", "kIp6", "kUnix"}
           /\ a = General(a.version, a.a)
           /\ a.version = "kIp4" =>
                /\ a.a = NewSockAddress4(a.a.ip, a.a.port) /\ Fits(a.a.ip, 4) /\ Fits(a.a.port, 2)
                /\ CompareKey(a) = <<a.a.ip, a.a.port>>
           /\ a.version = "kIp6" =>
                /\ ValidSix(a.a)
                /\ CompareKey(a) = <<a.a.ip[2], a.a.ip[1], a.a.ip[4], a.a.ip[3], a.a.port, a.a.scope>>
           /\ a.version = "kUnix" =>
                /\ a.a = SocketAddressUnix(a.a.path)
                /\ CompareKey(a) = a.a.path
<1>1. ASSUME NEW ip, NEW port, a = General("kIp4", NewSockAddress4(ip, port)),
             Fits(ip, 4), Fits(port, 2)
      PROVE  /\ CompareKey(a) \in Seq(Int) /\ a.version = "kIp4" /\ a = General(a.version, a.a)
             /\ a.a = NewSockAddress4(a.a.ip, a.a.port) /\ Fits(a.a.ip, 4) /\ Fits(a.a.port, 2)
             /\ CompareKey(a) = <<a.a.ip, a.a.port>>
  <2>1. a.version = "kIp4" /\ a.a = NewSockAddress4(ip, port) /\ a.a.ip = ip /\ a.a.port = port
    BY <1>1 DEF General, NewSockAddress4
  <2>2. CompareKey(a) = <<ip, port>>
    BY <2>1 DEF CompareKey
  <2>3. ip \in Int /\ port \in Int
    BY <1>1 DEF Fits
  <2>4. CompareKey(a) \in Seq(Int)
    BY <2>2, <2>3
  <2>5. QED
    BY <1>1, <2>1, <2>2, <2>4
<1>2. ASSUME NEW ip, NEW port, NEW scope,
             a = General("kIp6", SocketAddress6(ip, port, scope)),
             ip \in [1..4 -> Nat], \A i \in 1..4 : Fits(ip[i], 4),
             Fits(port, 2), Fits(scope, 4)
      PROVE  /\ CompareKey(a) \in Seq(Int) /\ a.version = "kIp6" /\ a = General(a.version, a.a)
             /\ ValidSix(a.a)
             /\ CompareKey(a) = <<a.a.ip[2], a.a.ip[1], a.a.ip[4], a.a.ip[3], a.a.port, a.a.scope>>
  <2>1. /\ a.version = "kIp6" /\ a.a = SocketAddress6(ip, port, scope)
        /\ a.a.ip = ip /\ a.a.port = port /\ a.a.scope = scope
    BY <1>2 DEF General, SocketAddress6
  <2>2. CompareKey(a) = <<ip[2], ip[1], ip[4], ip[3], port, scope>>
    BY <2>1 DEF CompareKey
  <2>3. /\ ip[1] \in Int /\ ip[2] \in Int /\ ip[3] \in Int /\ ip[4] \in Int
        /\ port \in Int /\ scope \in Int
    BY <1>2 DEF Fits
  <2>4. CompareKey(a) \in Seq(Int)
    BY <2>2, <2>3
  <2>5. ValidSix(a.a)
    <3>1. 1 \in 1..4 /\ 2 \in 1..4 /\ 3 \in 1..4 /\ 4 \in 1..4
      OBVIOUS
    <3>2. QED
      BY <1>2, <2>1, <3>1, Zenon DEF ValidSix
  <2>6. QED
    BY <1>2, <2>1, <2>2, <2>4, <2>5
<1>3. ASSUME NEW path, a = General("kUnix", SocketAddressUnix(path)),
             path \in Seq(1..255), Len(path) < PathRoom
      PROVE  /\ CompareKey(a) \in Seq(Int) /\ a.version = "kUnix" /\ a = General(a.version, a.a)
             /\ a.a = SocketAddressUnix(a.a.path)
             /\ CompareKey(a) = a.a.path
  <2>1. a.version = "kUnix" /\ a.a = SocketAddressUnix(path) /\ a.a.path = path
    BY <1>3 DEF General, SocketAddressUnix
  <2>2. CompareKey(a) = path
    BY <2>1 DEF CompareKey
  <2>3. path \in Seq(Int)
    <3>1. 1..255 \subseteq Int
      OBVIOUS
    <3>2. QED
      BY <1>3, <3>1, SeqMonotonic
  <2>4. QED
    BY <1>3, <2>1, <2>2, <2>3
<1>4. QED
  <2>1. \/ \E ip, port : /\ a = General("kIp4", NewSockAddress4(ip, port))
                         /\ Fits(ip, 4) /\ Fits(port, 2)
        \/ \E ip, port, scope :
             /\ a = General("kIp6", SocketAddress6(ip, port, scope))
             /\ ip \in [1..4 -> Nat] /\ \A i \in 1..4 : Fits(ip[i], 4)
             /\ Fits(port, 2) /\ Fits(scope, 4)
        \/ \E path : /\ a = General("kUnix", SocketAddressUnix(path))
                     /\ path \in Seq(1..255) /\ Len(path) < PathRoom
    BY Zenon DEF Valid
  <2>2. "kIp4" # "kIp6" /\ "kIp4" # "kUnix" /\ "kIp6" # "kUnix"
    OBVIOUS
  <2>3. CASE \E ip, port : /\ a = General("kIp4", NewSockAddress4(ip, port))
                           /\ Fits(ip, 4) /\ Fits(port, 2)
    BY <1>1, <2>2, <2>3
  <2>4. CASE \E ip, port, scope :
             /\ a = General("kIp6", SocketAddress6(ip, port, scope))
             /\ ip \in [1..4 -> Nat] /\ \A i \in 1..4 : Fits(ip[i], 4)
             /\ Fits(port, 2) /\ Fits(scope, 4)
    BY <1>2, <2>2, <2>4
  <2>5. CASE \E path : /\ a = General("kUnix", SocketAddressUnix(path))
                       /\ path \in Seq(1..255) /\ Len(path) < PathRoom
    BY <1>3, <2>2, <2>5
  <2>6. QED
    BY <2>1, <2>3, <2>4, <2>5, Zenon

\* What Less compares says all about a key.
LEMMA KeyIs ==
    ASSUME NEW k, ValidKey(k)
    PROVE  /\ KeySeq(k) \in Seq(Int) /\ Rank(k) \in Int
           /\ k.kind \in {"struct", "address"}
           /\ k = [kind |-> k.kind, key |-> k.key]
           /\ k.kind = "struct" => /\ k.key \in Seq(Int) /\ Len(k.key) \in 1..9
                                   /\ KeySeq(k) = k.key /\ Rank(k) = 0
           /\ k.kind = "address" => /\ Valid(k.key) /\ KeySeq(k) = CompareKey(k.key)
                                    /\ Rank(k) = Index(k.key.version)
<1>0. "struct" # "address"
  OBVIOUS
<1>1. ASSUME NEW s \in Seq(Int), Len(s) \in 1..9, k = StructKey(s)
      PROVE  /\ k.kind = "struct" /\ k = [kind |-> k.kind, key |-> k.key]
             /\ k.key \in Seq(Int) /\ Len(k.key) \in 1..9
             /\ KeySeq(k) = k.key /\ Rank(k) = 0
  BY <1>1 DEF StructKey, KeySeq, Rank
<1>2. ASSUME NEW a, Valid(a), k = AddressKey(a)
      PROVE  /\ k.kind = "address" /\ k = [kind |-> k.kind, key |-> k.key]
             /\ Valid(k.key) /\ KeySeq(k) = CompareKey(k.key)
             /\ Rank(k) = Index(k.key.version)
             /\ KeySeq(k) \in Seq(Int) /\ Rank(k) \in Int
  <2>1. k.kind = "address" /\ k.key = a /\ k = [kind |-> k.kind, key |-> k.key]
    BY <1>2 DEF AddressKey
  <2>2. KeySeq(k) = CompareKey(k.key) /\ Rank(k) = Index(k.key.version)
    BY <1>0, <2>1 DEF KeySeq, Rank
  <2>3. CompareKey(a) \in Seq(Int) /\ a.version \in {"kIp4", "kIp6", "kUnix"}
    BY <1>2, CompareKeyIs
  <2>4. Index(a.version) \in Int
    BY <2>3, IndexIs
  <2>5. QED
    BY <1>2, <2>1, <2>2, <2>3, <2>4
<1>3. QED
  <2>1. CASE \E s \in Seq(Int) : Len(s) \in 1..9 /\ k = StructKey(s)
    BY <1>0, <1>1, <2>1
  <2>2. CASE \E a : Valid(a) /\ k = AddressKey(a)
    BY <1>0, <1>2, <2>2
  <2>3. QED
    BY <2>1, <2>2 DEF ValidKey

\* LessThan of addresses looks at all their members.
LEMMA AddressTold ==
    ASSUME NEW a, NEW b, Valid(a), Valid(b), a.version = b.version,
           CompareKey(a) = CompareKey(b)
    PROVE  a = b
<1>1. CASE a.version = "kIp4"
  <2>1. <<a.a.ip, a.a.port>> = <<b.a.ip, b.a.port>>
    BY <1>1, CompareKeyIs
  <2>2. a.a.ip = b.a.ip /\ a.a.port = b.a.port
    BY <2>1
  <2>3. a.a = b.a
    BY <1>1, <2>2, CompareKeyIs
  <2>4. QED
    BY <2>3, CompareKeyIs
<1>2. CASE a.version = "kIp6"
  <2>1. <<a.a.ip[2], a.a.ip[1], a.a.ip[4], a.a.ip[3], a.a.port, a.a.scope>>
          = <<b.a.ip[2], b.a.ip[1], b.a.ip[4], b.a.ip[3], b.a.port, b.a.scope>>
    BY <1>2, CompareKeyIs
  <2>2. /\ a.a.ip[1] = b.a.ip[1] /\ a.a.ip[2] = b.a.ip[2] /\ a.a.ip[3] = b.a.ip[3]
        /\ a.a.ip[4] = b.a.ip[4] /\ a.a.port = b.a.port /\ a.a.scope = b.a.scope
    BY <2>1
  <2>3. ValidSix(a.a) /\ ValidSix(b.a)
    BY <1>2, CompareKeyIs
  <2>4. a.a.ip = b.a.ip
    <3>1. a.a.ip \in [1..4 -> Nat] /\ b.a.ip \in [1..4 -> Nat]
      BY <2>3 DEF ValidSix
    <3>2. \A i \in 1..4 : a.a.ip[i] = b.a.ip[i]
      BY <2>2
    <3>3. QED
      BY <3>1, <3>2
  <2>5. a.a = b.a
    BY <2>2, <2>3, <2>4, Zenon DEF ValidSix
  <2>6. QED
    BY <2>5, CompareKeyIs
<1>3. CASE a.version = "kUnix"
  <2>1. a.a.path = b.a.path
    BY <1>3, CompareKeyIs
  <2>2. a.a = b.a
    BY <1>3, <2>1, CompareKeyIs
  <2>3. QED
    BY <2>2, CompareKeyIs
<1>4. QED
  BY <1>1, <1>2, <1>3, CompareKeyIs

\* Keys of one container that compare alike are the same.
LEMMA KeyTold ==
    ASSUME NEW k, NEW m, ValidKey(k), ValidKey(m), Alike(k, m),
           Rank(k) = Rank(m), KeySeq(k) = KeySeq(m)
    PROVE  k = m
<1>0. k = [kind |-> k.kind, key |-> k.key] /\ m = [kind |-> m.kind, key |-> m.key] /\ k.kind = m.kind
  BY KeyIs DEF Alike
<1>1. CASE k.kind = "struct"
  <2>1. k.key = m.key
    BY <1>0, <1>1, KeyIs
  <2>2. QED
    BY <1>0, <2>1
<1>2. CASE k.kind = "address"
  <2>1. /\ Valid(k.key) /\ Valid(m.key) /\ CompareKey(k.key) = CompareKey(m.key)
        /\ Index(k.key.version) = Index(m.key.version)
    BY <1>0, <1>2, KeyIs
  <2>2. k.key.version \in {"kIp4", "kIp6", "kUnix"} /\ m.key.version \in {"kIp4", "kIp6", "kUnix"}
    BY <2>1, CompareKeyIs
  <2>3. k.key.version = m.key.version
    BY <2>1, <2>2, IndexIs
  <2>4. k.key = m.key
    BY <2>1, <2>3, AddressTold
  <2>5. QED
    BY <1>0, <2>4
<1>3. QED
  BY <1>1, <1>2, KeyIs

\* operator< compares ranks, then sequences of numbers.
LEMMA LessIs ==
    ASSUME NEW k, NEW m, ValidKey(k), ValidKey(m), Alike(k, m)
    PROVE  Less(k, m) <=> \/ Rank(k) < Rank(m)
                          \/ Rank(k) = Rank(m) /\ Lexicographic(KeySeq(k), KeySeq(m))
<1>0. k.kind = m.kind
  BY DEF Alike
<1>1. CASE k.kind = "struct"
  <2>1. /\ k.key \in Seq(Int) /\ m.key \in Seq(Int) /\ Len(k.key) \in 1..9 /\ Len(m.key) = Len(k.key)
        /\ KeySeq(k) = k.key /\ KeySeq(m) = m.key /\ Rank(k) = 0 /\ Rank(m) = 0
    BY <1>0, <1>1, KeyIs DEF Alike
  <2>2. StructLess(k.key, m.key) <=> Lexicographic(k.key, m.key)
    BY <2>1, StructLessIs
  <2>3. QED
    BY <1>1, <2>1, <2>2 DEF Less
<1>2. CASE k.kind = "address"
  <2>1. /\ Valid(k.key) /\ Valid(m.key) /\ KeySeq(k) = CompareKey(k.key) /\ KeySeq(m) = CompareKey(m.key)
        /\ Rank(k) = Index(k.key.version) /\ Rank(m) = Index(m.key.version)
    BY <1>0, <1>2, KeyIs
  <2>2. k.key.version \in {"kIp4", "kIp6", "kUnix"} /\ m.key.version \in {"kIp4", "kIp6", "kUnix"}
    BY <2>1, CompareKeyIs
  <2>3. k.key.version = m.key.version <=> Index(k.key.version) = Index(m.key.version)
    BY <2>2, IndexIs
  <2>4. Less(k, m) <=> LessThan(k.key, m.key)
    BY <1>2 DEF Less
  <2>5. QED
    BY <2>1, <2>3, <2>4 DEF LessThan
<1>3. QED
  BY <1>1, <1>2, KeyIs

\* No key is less than itself.
LEMMA LessIrreflexive ==
    ASSUME NEW k, ValidKey(k)
    PROVE  ~Less(k, k)
<1>1. Alike(k, k)
  BY DEF Alike
<1>2. KeySeq(k) \in Seq(Int) /\ Rank(k) \in Int
  BY KeyIs
<1>3. QED
  BY <1>1, <1>2, LessIs, LexIrreflexive

\* operator< of the keys of one container is transitive.
LEMMA LessTransitive ==
    ASSUME NEW k, NEW m, NEW o, ValidKey(k), ValidKey(m), ValidKey(o),
           Alike(k, m), Alike(m, o), Alike(k, o), Less(k, m), Less(m, o)
    PROVE  Less(k, o)
<1>1. /\ KeySeq(k) \in Seq(Int) /\ KeySeq(m) \in Seq(Int) /\ KeySeq(o) \in Seq(Int)
      /\ Rank(k) \in Int /\ Rank(m) \in Int /\ Rank(o) \in Int
  BY KeyIs
<1>2. /\ (Rank(k) < Rank(m) \/ (Rank(k) = Rank(m) /\ Lexicographic(KeySeq(k), KeySeq(m))))
      /\ (Rank(m) < Rank(o) \/ (Rank(m) = Rank(o) /\ Lexicographic(KeySeq(m), KeySeq(o))))
  <2>1. (Rank(k) < Rank(m) \/ (Rank(k) = Rank(m) /\ Lexicographic(KeySeq(k), KeySeq(m))))
    BY LessIs
  <2>2. (Rank(m) < Rank(o) \/ (Rank(m) = Rank(o) /\ Lexicographic(KeySeq(m), KeySeq(o))))
    BY LessIs
  <2>3. QED
    BY <2>1, <2>2
<1>3. Lexicographic(KeySeq(k), KeySeq(m)) /\ Lexicographic(KeySeq(m), KeySeq(o))
        => Lexicographic(KeySeq(k), KeySeq(o))
  BY <1>1, LexTransitive
<1>4. (Rank(k) < Rank(o) \/ (Rank(k) = Rank(o) /\ Lexicographic(KeySeq(k), KeySeq(o))))
  BY <1>1, <1>2, <1>3
<1>5. QED
  BY <1>4, LessIs

\* Keys of one container of which neither is less are the same.
LEMMA LessTotal ==
    ASSUME NEW k, NEW m, ValidKey(k), ValidKey(m), Alike(k, m), ~Less(k, m), ~Less(m, k)
    PROVE  k = m
<1>0. Alike(m, k)
  BY DEF Alike
<1>1. KeySeq(k) \in Seq(Int) /\ KeySeq(m) \in Seq(Int) /\ Rank(k) \in Int /\ Rank(m) \in Int
  BY KeyIs
<1>2. /\ ~(Rank(k) < Rank(m)) /\ ~(Rank(k) = Rank(m) /\ Lexicographic(KeySeq(k), KeySeq(m)))
      /\ ~(Rank(m) < Rank(k)) /\ ~(Rank(m) = Rank(k) /\ Lexicographic(KeySeq(m), KeySeq(k)))
  BY <1>0, LessIs
<1>3. Rank(k) = Rank(m)
  BY <1>1, <1>2
<1>4. KeySeq(k) = KeySeq(m)
  BY <1>1, <1>2, <1>3, LexTotal
<1>5. QED
  BY <1>3, <1>4, KeyTold

-----------------------------------------------------------------------------
(* The hashes.                                                             *)

\* Sequences of the same lengths, one behind the other, are told apart.
LEMMA SplitEqual ==
    ASSUME NEW s \in Seq(0..255), NEW t \in Seq(0..255),
           NEW v \in Seq(0..255), NEW w \in Seq(0..255), NEW u,
           Joined(u, s, t), Joined(u, v, w), Len(s) = Len(v), Len(t) = Len(w)
    PROVE  s = v /\ t = w
<1>2. \A i \in 1..Len(s) : s[i] = v[i]
  <2>1. (\A i \in 1..Len(s) : u[i] = s[i]) /\ (\A i \in 1..Len(s) : u[i] = v[i])
    BY Zenon DEF Joined
  <2>2. QED
    BY <2>1, Zenon
<1>3. \A i \in 1..Len(t) : t[i] = w[i]
  <2>1. (\A i \in 1..Len(t) : u[Len(s) + i] = t[i]) /\ (\A i \in 1..Len(t) : u[Len(s) + i] = w[i])
    BY Zenon DEF Joined
  <2>2. QED
    BY <2>1, Zenon
<1>4. s = v
  BY <1>2, SeqEqual
<1>5. t = w
  BY <1>3, SeqEqual
<1>6. QED
  BY <1>4, <1>5

\* A port fits the 32 bits that NewSockAddress4Hasher gives it.
LEMMA Wider ==
    ASSUME NEW n, Fits(n, 2)
    PROVE  Fits(n, 4)
<1>1. Weight[2] = 256 /\ Weight[4] = 16777216
  BY DEF Weight
<1>2. n \in Nat /\ n \div 256 < 256
  BY <1>1 DEF Fits, Byte
<1>3. n \div 16777216 < 256
  BY <1>2
<1>4. QED
  BY <1>1, <1>2, <1>3 DEF Fits, Byte

\* GetHash of two addresses of one version is taken of different bytes.
LEMMA HashTells ==
    ASSUME NEW a, NEW b, Valid(a), Valid(b), a.version = b.version,
           HashedBytes(a) = HashedBytes(b)
    PROVE  a = b
<1>1. CASE a.version = "kIp4"
  <2> DEFINE x == Bytes(a.a.port, 2)
             y == Bytes(a.a.ip, 4)
             v == Bytes(b.a.port, 2)
             w == Bytes(b.a.ip, 4)
  <2>1. /\ Fits(a.a.port, 2) /\ Fits(a.a.ip, 4) /\ Fits(b.a.port, 2) /\ Fits(b.a.ip, 4)
        /\ CompareKey(a) = <<a.a.ip, a.a.port>> /\ CompareKey(b) = <<b.a.ip, b.a.port>>
    BY <1>1, CompareKeyIs
  <2>2. /\ x \in Seq(0..255) /\ y \in Seq(0..255) /\ v \in Seq(0..255) /\ w \in Seq(0..255)
        /\ Len(x) = 2 /\ Len(v) = 2 /\ Len(y) = 4 /\ Len(w) = 4
    BY <2>1, BytesAreSeq, Zenon
  <2>3. x \o y = v \o w
    BY <1>1 DEF HashedBytes
  <2> HIDE DEF x, y, v, w
  <2>a. Len(x) = Len(v) /\ Len(y) = Len(w)
    BY <2>2
  <2>b. Joined(x \o y, x, y) /\ Joined(v \o w, v, w)
    BY <2>2, Behind, Zenon
  <2>c. Joined(v \o w, x, y)
    BY <2>3, <2>b
  <2>4. x = v /\ y = w
    BY <2>2, <2>a, <2>b, <2>c, SplitEqual
  <2>5. a.a.port = b.a.port /\ a.a.ip = b.a.ip
    BY <2>1, <2>4, BytesTell DEF x, y, v, w
  <2>6. QED
    BY <2>1, <2>5, AddressTold
<1>2. CASE a.version = "kIp6"
  <2> DEFINE s == SixBytes(a.a)
             t == SixBytes(b.a)
  <2>1. /\ ValidSix(a.a) /\ ValidSix(b.a)
        /\ CompareKey(a) = <<a.a.ip[2], a.a.ip[1], a.a.ip[4], a.a.ip[3], a.a.port, a.a.scope>>
        /\ CompareKey(b) = <<b.a.ip[2], b.a.ip[1], b.a.ip[4], b.a.ip[3], b.a.port, b.a.scope>>
    BY <1>2, CompareKeyIs
  <2>2. s = t
    BY <1>2 DEF HashedBytes
  <2>3. Layout(s, a.a) /\ Layout(t, b.a)
    BY <2>1, SixLayout, Zenon
  <2> HIDE DEF s, t
  <2>4. Layout(s, b.a)
    BY <2>2, <2>3
  <2>5. /\ \A i \in 1..4 : Bytes(a.a.ip[1], 4)[i] = Bytes(b.a.ip[1], 4)[i]
        /\ \A i \in 1..4 : Bytes(a.a.ip[2], 4)[i] = Bytes(b.a.ip[2], 4)[i]
        /\ \A i \in 1..4 : Bytes(a.a.ip[3], 4)[i] = Bytes(b.a.ip[3], 4)[i]
        /\ \A i \in 1..4 : Bytes(a.a.ip[4], 4)[i] = Bytes(b.a.ip[4], 4)[i]
        /\ \A i \in 1..4 : Bytes(a.a.scope, 4)[i] = Bytes(b.a.scope, 4)[i]
        /\ \A i \in 1..2 : Bytes(a.a.port, 2)[i] = Bytes(b.a.port, 2)[i]
    <3>1. \A i \in 1..4 : Bytes(a.a.ip[1], 4)[i] = Bytes(b.a.ip[1], 4)[i]
      BY <2>3, <2>4, SMT DEF Layout
    <3>2. \A i \in 1..4 : Bytes(a.a.ip[2], 4)[i] = Bytes(b.a.ip[2], 4)[i]
      BY <2>3, <2>4, SMT DEF Layout
    <3>3. \A i \in 1..4 : Bytes(a.a.ip[3], 4)[i] = Bytes(b.a.ip[3], 4)[i]
      BY <2>3, <2>4, SMT DEF Layout
    <3>4. \A i \in 1..4 : Bytes(a.a.ip[4], 4)[i] = Bytes(b.a.ip[4], 4)[i]
      BY <2>3, <2>4, SMT DEF Layout
    <3>5. \A i \in 1..4 : Bytes(a.a.scope, 4)[i] = Bytes(b.a.scope, 4)[i]
      BY <2>3, <2>4, SMT DEF Layout
    <3>6. \A i \in 1..2 : Bytes(a.a.port, 2)[i] = Bytes(b.a.port, 2)[i]
      BY <2>3, <2>4, SMT DEF Layout
    <3>7. QED
      BY <3>1, <3>2, <3>3, <3>4, <3>5, <3>6, Zenon
  <2>6. ASSUME NEW n, NEW m, Fits(n, 4), Fits(m, 4), \A i \in 1..4 : Bytes(n, 4)[i] = Bytes(m, 4)[i]
        PROVE  n = m
    <3>1. /\ Bytes(n, 4) \in Seq(0..255) /\ Len(Bytes(n, 4)) = 4
          /\ Bytes(m, 4) \in Seq(0..255) /\ Len(Bytes(m, 4)) = 4
      BY <2>6, BytesAreSeq, Zenon
    <3>2. Bytes(n, 4) = Bytes(m, 4)
      BY <2>6, <3>1, SeqEqual
    <3>3. QED
      BY <2>6, <3>2, BytesTell
  <2>7. a.a.port = b.a.port
    <3>1. Fits(a.a.port, 2) /\ Fits(b.a.port, 2)
      BY <2>1, Zenon DEF ValidSix
    <3>2. /\ Bytes(a.a.port, 2) \in Seq(0..255) /\ Len(Bytes(a.a.port, 2)) = 2
          /\ Bytes(b.a.port, 2) \in Seq(0..255) /\ Len(Bytes(b.a.port, 2)) = 2
      BY <3>1, BytesAreSeq, Zenon
    <3>3. Bytes(a.a.port, 2) = Bytes(b.a.port, 2)
      BY <2>5, <3>2, SeqEqual
    <3>4. QED
      BY <3>1, <3>3, BytesTell
  <2>8. /\ a.a.ip[1] = b.a.ip[1] /\ a.a.ip[2] = b.a.ip[2] /\ a.a.ip[3] = b.a.ip[3]
        /\ a.a.ip[4] = b.a.ip[4] /\ a.a.scope = b.a.scope
    <3>1. /\ Fits(a.a.ip[1], 4) /\ Fits(a.a.ip[2], 4) /\ Fits(a.a.ip[3], 4) /\ Fits(a.a.ip[4], 4)
          /\ Fits(b.a.ip[1], 4) /\ Fits(b.a.ip[2], 4) /\ Fits(b.a.ip[3], 4) /\ Fits(b.a.ip[4], 4)
          /\ Fits(a.a.scope, 4) /\ Fits(b.a.scope, 4)
      BY <2>1, Zenon DEF ValidSix
    <3>2. a.a.ip[1] = b.a.ip[1]
      BY <2>5, <2>6, <3>1, Zenon
    <3>3. a.a.ip[2] = b.a.ip[2]
      BY <2>5, <2>6, <3>1, Zenon
    <3>4. a.a.ip[3] = b.a.ip[3]
      BY <2>5, <2>6, <3>1, Zenon
    <3>5. a.a.ip[4] = b.a.ip[4]
      BY <2>5, <2>6, <3>1, Zenon
    <3>6. a.a.scope = b.a.scope
      BY <2>5, <2>6, <3>1, Zenon
    <3>7. QED
      BY <3>2, <3>3, <3>4, <3>5, <3>6
  <2>9. CompareKey(a) = CompareKey(b)
    BY <2>1, <2>7, <2>8
  <2>10. QED
    BY <2>9, AddressTold
<1>3. CASE a.version = "kUnix"
  <2>1. HashedBytes(a) = a.a.path /\ HashedBytes(b) = b.a.path
    BY <1>3 DEF HashedBytes
  <2>2. CompareKey(a) = CompareKey(b)
    BY <1>3, <2>1, CompareKeyIs
  <2>3. QED
    BY <2>2, AddressTold
<1>4. QED
  BY <1>1, <1>2, <1>3, CompareKeyIs

\* The hashers of the two IPv4 classes tell their addresses apart too.
LEMMA HashersTell ==
    ASSUME NEW a, NEW b, Valid(a), Valid(b), a.version = "kIp4", b.version = "kIp4",
           \/ NewHashedBytes(a.a) = NewHashedBytes(b.a)
           \/ OldHashedBytes(ToNetwork(a.a)) = OldHashedBytes(ToNetwork(b.a))
    PROVE  a = b
<1>1. /\ Fits(a.a.port, 2) /\ Fits(a.a.ip, 4) /\ Fits(b.a.port, 2) /\ Fits(b.a.ip, 4)
      /\ CompareKey(a) = <<a.a.ip, a.a.port>> /\ CompareKey(b) = <<b.a.ip, b.a.port>>
      /\ a.a = NewSockAddress4(a.a.ip, a.a.port) /\ b.a = NewSockAddress4(b.a.ip, b.a.port)
  BY CompareKeyIs
<1>2. CASE NewHashedBytes(a.a) = NewHashedBytes(b.a)
  <2> DEFINE x == Bytes(a.a.ip, 4)
             y == Bytes(a.a.port, 4)
             v == Bytes(b.a.ip, 4)
             w == Bytes(b.a.port, 4)
  <2>1. Fits(a.a.port, 4) /\ Fits(b.a.port, 4)
    BY <1>1, Wider
  <2>2. /\ x \in Seq(0..255) /\ y \in Seq(0..255) /\ v \in Seq(0..255) /\ w \in Seq(0..255)
        /\ Len(x) = 4 /\ Len(v) = 4 /\ Len(y) = 4 /\ Len(w) = 4
    BY <1>1, <2>1, BytesAreSeq, Zenon
  <2>3. x \o y = v \o w
    BY <1>2 DEF NewHashedBytes
  <2> HIDE DEF x, y, v, w
  <2>a. Len(x) = Len(v) /\ Len(y) = Len(w)
    BY <2>2
  <2>b. Joined(x \o y, x, y) /\ Joined(v \o w, v, w)
    BY <2>2, Behind, Zenon
  <2>c. Joined(v \o w, x, y)
    BY <2>3, <2>b
  <2>4. x = v /\ y = w
    BY <2>2, <2>a, <2>b, <2>c, SplitEqual
  <2>5. a.a.port = b.a.port /\ a.a.ip = b.a.ip
    BY <1>1, <2>1, <2>4, BytesTell DEF x, y, v, w
  <2>6. QED
    BY <1>1, <2>5, AddressTold
<1>3. CASE OldHashedBytes(ToNetwork(a.a)) = OldHashedBytes(ToNetwork(b.a))
  <2> DEFINE n == ToNetwork(a.a)
             m == ToNetwork(b.a)
             x == Bytes(n.ip, 4)
             y == Bytes(n.port, 2)
             v == Bytes(m.ip, 4)
             w == Bytes(m.port, 2)
             z == Bytes(0, 2)
  <2>1. Fits(n.ip, 4) /\ Fits(n.port, 2) /\ Fits(m.ip, 4) /\ Fits(m.port, 2)
    BY <1>1, SwapFour, SwapTwo DEF ToNetwork, SocketAddress4
  <2>2. /\ x \in Seq(0..255) /\ y \in Seq(0..255) /\ v \in Seq(0..255) /\ w \in Seq(0..255)
        /\ Len(x) = 4 /\ Len(v) = 4 /\ Len(y) = 2 /\ Len(w) = 2
    BY <2>1, BytesAreSeq, Zenon
  <2>3. z \in Seq(0..255)
    <3>1. 1 - 1 = 0 /\ 1 \in 1..3 /\ x \in Seq(0..255)
      BY <2>2
    <3>2. QED
      BY <3>1, VersionRead
  <2>4. (x \o y) \o z = (v \o w) \o z
    BY <1>3 DEF OldHashedBytes
  <2>a. ToHost(n) = a.a /\ ToHost(m) = b.a
    BY <1>1, HostAndNetwork
  <2>b. n = SocketAddress4(n.ip, n.port) /\ m = SocketAddress4(m.ip, m.port)
    BY DEF ToNetwork, SocketAddress4
  <2> HIDE DEF x, y, v, w, z, n, m
  <2>5. Joined(x \o y, x, y) /\ Joined(v \o w, v, w)
    BY <2>2, Behind, Zenon
  <2>6. /\ x \o y \in Seq(0..255) /\ v \o w \in Seq(0..255)
        /\ Len(x \o y) = Len(x) + Len(y) /\ Len(v \o w) = Len(v) + Len(w)
    BY <2>5, Zenon DEF Joined
  <2>c. Len(x) = Len(v) /\ Len(y) = Len(w) /\ Len(x \o y) = Len(v \o w)
    BY <2>2, <2>6
  <2> DEFINE f == x \o y
             g == v \o w
  <2>d. Joined(f \o z, f, z) /\ Joined(g \o z, g, z)
    BY <2>3, <2>6, Behind, Zenon
  <2>e. f \in Seq(0..255) /\ g \in Seq(0..255) /\ Len(f) = Len(g) /\ f \o z = g \o z
        /\ Joined(f, x, y) /\ Joined(g, v, w)
    BY <2>4, <2>5, <2>6, <2>c
  <2> HIDE DEF f, g
  <2>f. Joined(g \o z, f, z)
    BY <2>d, <2>e
  <2>7. f = g
    BY <2>3, <2>d, <2>e, <2>f, SplitEqual
  <2>g. Joined(g, x, y)
    BY <2>7, <2>e
  <2>8. x = v /\ y = w
    BY <2>2, <2>c, <2>e, <2>g, SplitEqual
  <2>9. n.ip = m.ip /\ n.port = m.port
    BY <2>1, <2>8, BytesTell DEF x, y, v, w
  <2>10. a.a = b.a
    BY <2>9, <2>a, <2>b
  <2>11. QED
    BY <2>10, CompareKeyIs
<1>4. QED
  BY <1>2, <1>3

-----------------------------------------------------------------------------
(* Insertion into a std::set.                                              *)

\* u is s with e put at position p.
Spliced(u, s, p, e) ==
    /\ Len(u) = Len(s) + 1 /\ DOMAIN u = 1..Len(s) + 1
    /\ u[p] = e
    /\ \A i \in 1..p - 1 : u[i] = s[i]
    /\ \A i \in p..Len(s) : u[i + 1] = s[i]

\* Append puts its element behind all others.
LEMMA AppendSplices ==
    ASSUME NEW S, NEW s \in Seq(S), NEW e \in S
    PROVE  Append(s, e) \in Seq(S) /\ Spliced(Append(s, e), s, Len(s) + 1, e)
<1> DEFINE u == Append(s, e)
           n == Len(s)
<1>1. /\ n \in Nat /\ u \in Seq(S) /\ Len(u) = n + 1
      /\ u[n + 1] = e /\ \A i \in 1..n : u[i] = s[i]
  OBVIOUS
<1>2. DOMAIN u = 1..n + 1
  OBVIOUS
<1> HIDE DEF u, n
<1>3. (n + 1) - 1 = n /\ \A i \in (n + 1)..n : FALSE
  BY <1>1
<1>4. Spliced(u, s, n + 1, e)
  BY <1>1, <1>2, <1>3 DEF Spliced, n
<1>5. QED
  BY <1>1, <1>4 DEF u, n

\* InsertAt puts its element where it says.
LEMMA InsertSplices ==
    ASSUME NEW S, NEW s \in Seq(S), NEW e \in S, NEW p \in 1..Len(s)
    PROVE  InsertAt(s, p, e) \in Seq(S) /\ Spliced(InsertAt(s, p, e), s, p, e)
<1> DEFINE n == Len(s)
           x == SubSeq(s, 1, p - 1)
           y == <<e>>
           z == SubSeq(s, p, n)
           w == x \o y
           u == w \o z
<1>0. n \in Nat /\ p \in Nat \ {0} /\ p <= n /\ \A i \in 1..n : s[i] \in S
  BY ElementOfSeq
<1>1. /\ x \in Seq(S) /\ Len(x) = p - 1 /\ \A i \in 1..p - 1 : x[i] = s[i]
  <2>1. \A i \in 1..p - 1 : s[i] \in S
    BY <1>0
  <2>2. /\ x \in Seq(S) /\ Len(x) = (IF 1 <= p - 1 THEN (p - 1) - 1 + 1 ELSE 0)
        /\ \A i \in 1..(p - 1) - 1 + 1 : x[i] = s[1 + i - 1]
    BY <1>0, <2>1, SubSeqProperties
  <2> HIDE DEF x
  <2>3. (p - 1) - 1 + 1 = p - 1 /\ (IF 1 <= p - 1 THEN (p - 1) - 1 + 1 ELSE 0) = p - 1
        /\ \A i \in 1..p - 1 : 1 + i - 1 = i
    BY <1>0
  <2>4. QED
    BY <2>2, <2>3
<1>2. /\ z \in Seq(S) /\ Len(z) = n - p + 1 /\ \A i \in 1..n - p + 1 : z[i] = s[p + i - 1]
  <2>1. \A i \in p..n : s[i] \in S
    BY <1>0
  <2>2. /\ z \in Seq(S) /\ Len(z) = (IF p <= n THEN n - p + 1 ELSE 0)
        /\ \A i \in 1..n - p + 1 : z[i] = s[p + i - 1]
    BY <1>0, <2>1, SubSeqProperties
  <2> HIDE DEF z
  <2>3. QED
    BY <1>0, <2>2
<1>3. y \in Seq(S) /\ Len(y) = 1 /\ y[1] = e
  OBVIOUS
<1>4. /\ w \in Seq(S) /\ Len(w) = Len(x) + Len(y)
      /\ \A i \in 1..Len(x) + Len(y) : w[i] = IF i <= Len(x) THEN x[i] ELSE y[i - Len(x)]
  <2> HIDE DEF x, y
  <2>1. QED
    BY <1>1, <1>3, ConcatProperties
<1>5. /\ u \in Seq(S) /\ Len(u) = Len(w) + Len(z)
      /\ \A i \in 1..Len(w) + Len(z) : u[i] = IF i <= Len(w) THEN w[i] ELSE z[i - Len(w)]
  <2>1. w \in Seq(S) /\ z \in Seq(S)
    BY <1>2, <1>4
  <2> HIDE DEF w, z
  <2>2. QED
    BY <2>1, ConcatProperties
<1>6. InsertAt(s, p, e) = u
  BY DEF InsertAt
<1> HIDE DEF x, y, z, w, u, n
<1>7. Len(w) = p /\ w[p] = e /\ \A i \in 1..p - 1 : w[i] = s[i]
  <2>1. Len(x) + Len(y) = p
    BY <1>0, <1>1, <1>3
  <2>2. p \in 1..p /\ ~(p <= p - 1) /\ p - (p - 1) = 1
    BY <1>0
  <2>3. w[p] = e
    BY <1>1, <1>3, <1>4, <2>1, <2>2
  <2>4. \A i \in 1..p - 1 : i \in 1..p /\ i <= p - 1
    BY <1>0
  <2>5. QED
    BY <1>1, <1>4, <2>1, <2>3, <2>4
<1>8. Len(u) = n + 1 /\ DOMAIN u = 1..n + 1
  <2>1. p + (n - p + 1) = n + 1
    BY <1>0
  <2>2. Len(u) = n + 1
    BY <1>2, <1>5, <1>7, <2>1
  <2>3. QED
    BY <1>5, <2>2
<1>9. u[p] = e /\ \A i \in 1..p - 1 : u[i] = s[i]
  <2>1. \A i \in 1..p : i \in 1..Len(w) + Len(z) /\ i <= Len(w)
    BY <1>0, <1>2, <1>7
  <2>2. \A i \in 1..p : u[i] = w[i]
    BY <1>5, <2>1
  <2>3. p \in 1..p /\ \A i \in 1..p - 1 : i \in 1..p
    BY <1>0
  <2>4. QED
    BY <1>7, <2>2, <2>3
<1>10. ASSUME NEW i \in p..n PROVE u[i + 1] = s[i]
  <2>1. /\ i + 1 \in 1..Len(w) + Len(z) /\ ~(i + 1 <= Len(w)) /\ (i + 1) - Len(w) = i + 1 - p
        /\ i + 1 - p \in 1..n - p + 1 /\ p + (i + 1 - p) - 1 = i
    BY <1>0, <1>2, <1>7
  <2>2. u[i + 1] = z[i + 1 - p]
    BY <1>5, <2>1
  <2>3. z[i + 1 - p] = s[p + (i + 1 - p) - 1]
    BY <1>2, <2>1
  <2>4. QED
    BY <2>1, <2>2, <2>3
<1>11. Spliced(u, s, p, e)
  BY <1>8, <1>9, <1>10 DEF Spliced, n
<1>12. QED
  BY <1>5, <1>6, <1>11

\* What SelectInSeq finds: the first element that is not less than the key.
LEMMA FirstNotLess ==
    ASSUME NEW s, Len(s) \in Nat, NEW key
    PROVE  LET at == SelectInSeq(s, LAMBDA k : ~Less(k, key))
           IN  \/ at = 0 /\ \A i \in 1..Len(s) : Less(s[i], key)
               \/ /\ at \in 1..Len(s) /\ ~Less(s[at], key)
                  /\ \A i \in 1..at - 1 : Less(s[i], key)
<1> DEFINE I == {i \in 1..Len(s) : ~Less(s[i], key)}
           at == SelectInSeq(s, LAMBDA k : ~Less(k, key))
<1>1. at = IF I # {} THEN Min(I) ELSE 0
  BY DEF SelectInSeq
<1>2. CASE I = {}
  <2>1. \A i \in 1..Len(s) : Less(s[i], key)
    BY <1>2
  <2>2. at = 0
    BY <1>1, <1>2
  <2>3. QED
    BY <2>1, <2>2
<1>3. CASE I # {}
  <2>1. \E x \in I : \A y \in I : x <= y
    <3>1. I \subseteq Nat
      OBVIOUS
    <3>2. QED
      BY <1>3, <3>1, LeastElement, Zenon
  <2>2. Min(I) \in I /\ \A y \in I : Min(I) <= y
    BY <2>1 DEF Min
  <2>3. at = Min(I)
    BY <1>1, <1>3
  <2> DEFINE m == Min(I)
  <2> HIDE DEF m
  <2>4. m \in 1..Len(s) /\ ~Less(s[m], key)
    BY <2>2 DEF m
  <2>5. ASSUME NEW i \in 1..m - 1 PROVE Less(s[i], key)
    <3>1. i \in 1..Len(s) /\ ~(m <= i)
      BY <2>4
    <3>2. i \notin I
      BY <2>2, <3>1 DEF m
    <3>3. QED
      BY <3>1, <3>2
  <2>6. QED
    BY <2>3, <2>4, <2>5 DEF m
<1>4. QED
  BY <1>2, <1>3

\* A container of keys that are alike: it holds each of them once, in order.
KeySet(S) == /\ IsFiniteSet(S)
             /\ \A k \in S : ValidKey(k)
             /\ \A k, m \in S : Alike(k, m)
Ordered(s) == \A i, j \in 1..Len(s) : i < j => Less(s[i], s[j])
Container(s, S) ==
    /\ KeySet(S)
    /\ s \in Seq(S)
    /\ \A k \in S : \E i \in 1..Len(s) : s[i] = k
    /\ Len(s) = Cardinality(S)
    /\ Ordered(s)

\* The inductive invariant of the container.
KeysInv == Container(keys, inserted)

\* A new key between the smaller and the greater ones leaves a container.
LEMMA SplicedContainer ==
    ASSUME NEW S, NEW s, Container(s, S), NEW key, key \notin S, KeySet(S \cup {key}),
           NEW p \in 1..Len(s) + 1, NEW u \in Seq(S \cup {key}), Spliced(u, s, p, key),
           \A i \in 1..p - 1 : Less(s[i], key),
           \A i \in p..Len(s) : Less(key, s[i])
    PROVE  Container(u, S \cup {key})
<1> DEFINE n == Len(s)
<1>1. n \in Nat /\ p \in 1..n + 1 /\ n = Cardinality(S) /\ IsFiniteSet(S)
  BY DEF Container, KeySet
<1>2. Len(u) = Cardinality(S \cup {key})
  <2>1. Cardinality(S \cup {key}) = Cardinality(S) + 1
    BY <1>1, FS_AddElement
  <2>2. QED
    BY <1>1, <2>1 DEF Spliced
<1>3. /\ Len(u) = n + 1 /\ u[p] = key
      /\ (\A i \in 1..p - 1 : u[i] = s[i])
      /\ (\A i \in p..n : u[i + 1] = s[i])
  BY DEF Spliced
<1>a. (\A i \in 1..p - 1 : Less(s[i], key)) /\ (\A i \in p..n : Less(key, s[i]))
  OBVIOUS
<1>b. (\A i, j \in 1..n : i < j => Less(s[i], s[j])) /\ (\A k \in S : \E i \in 1..n : s[i] = k)
  BY DEF Container, Ordered
<1> HIDE DEF n
<1>4. ASSUME NEW k \in S \cup {key} PROVE \E i \in 1..Len(u) : u[i] = k
  <2>1. CASE k = key
    BY <1>1, <1>3, <2>1
  <2>2. CASE k \in S
    <3>1. PICK i \in 1..n : s[i] = k
      BY <1>b, <2>2
    <3>2. CASE i \in 1..p - 1
      BY <1>1, <1>3, <3>1, <3>2
    <3>3. CASE i \in p..n
      <4>1. u[i + 1] = k /\ i + 1 \in 1..Len(u)
        BY <1>1, <1>3, <3>1, <3>3
      <4>2. QED
        BY <4>1
    <3>4. QED
      BY <1>1, <3>2, <3>3
  <2>3. QED
    BY <2>1, <2>2
<1>5. ASSUME NEW i \in 1..Len(u), NEW j \in 1..Len(u), i < j PROVE Less(u[i], u[j])
  <2>0. i \in 1..n + 1 /\ j \in 1..n + 1
    BY <1>3
  <2>1. CASE j < p
    <3>1. i \in 1..p - 1 /\ j \in 1..p - 1 /\ i \in 1..n /\ j \in 1..n
      BY <1>1, <1>5, <2>0, <2>1
    <3>2. QED
      BY <1>3, <1>5, <1>b, <3>1
  <2>2. CASE j = p
    <3>1. i \in 1..p - 1
      BY <1>1, <1>5, <2>0, <2>2
    <3>2. QED
      BY <1>3, <1>a, <2>2, <3>1
  <2>3. CASE p < j
    <3> DEFINE l == j - 1
    <3>1. l \in p..n /\ l \in 1..n /\ j = l + 1
      BY <1>1, <2>0, <2>3
    <3> HIDE DEF l
    <3>2. u[j] = s[l]
      BY <1>3, <3>1
    <3>3. CASE i < p
      <4>1. i \in 1..p - 1 /\ i \in 1..n /\ i < l
        BY <1>1, <2>0, <3>1, <3>3
      <4>2. QED
        BY <1>3, <1>b, <3>1, <3>2, <4>1
    <3>4. CASE i = p
      BY <1>3, <1>a, <3>1, <3>2, <3>4
    <3>5. CASE p < i
      <4> DEFINE m == i - 1
      <4>1. m \in p..n /\ m \in 1..n /\ i = m + 1 /\ m < l
        BY <1>1, <1>5, <2>0, <3>1, <3>5
      <4> HIDE DEF m
      <4>2. u[i] = s[m]
        BY <1>3, <4>1
      <4>3. QED
        BY <1>b, <3>1, <3>2, <4>1, <4>2
    <3>6. QED
      BY <1>1, <2>0, <3>3, <3>4, <3>5
  <2>4. QED
    BY <1>1, <2>0, <2>1, <2>2, <2>3
<1>6. QED
  BY <1>2, <1>4, <1>5 DEF Container, Ordered

\* In a container, the order of the positions is the order of the keys.
LEMMA PositionsOrdered ==
    ASSUME NEW S, NEW s, Container(s, S)
    PROVE  /\ DOMAIN s = 1..Len(s) /\ Len(s) \in Nat
           /\ \A i \in 1..Len(s) : s[i] \in S /\ ValidKey(s[i])
           /\ \A i, j \in 1..Len(s) : /\ Alike(s[i], s[j])
                                      /\ i < j <=> Less(s[i], s[j])
                                      /\ i = j <=> s[i] = s[j]
<1> DEFINE n == Len(s)
<1>1. /\ s \in Seq(S) /\ (\A k \in S : ValidKey(k)) /\ (\A k, m \in S : Alike(k, m))
      /\ \A i, j \in 1..Len(s) : i < j => Less(s[i], s[j])
  BY DEF Container, KeySet, Ordered
<1>2. n \in Nat /\ DOMAIN s = 1..n /\ \A i \in 1..n : s[i] \in S
  BY <1>1, ElementOfSeq
<1>3. \A i \in 1..n : ValidKey(s[i]) /\ ~Less(s[i], s[i])
  BY <1>1, <1>2, LessIrreflexive
<1>4. ASSUME NEW i \in 1..n, NEW j \in 1..n
      PROVE  Alike(s[i], s[j]) /\ (i < j <=> Less(s[i], s[j])) /\ (i = j <=> s[i] = s[j])
  <2>1. Alike(s[i], s[j]) /\ Alike(s[j], s[i]) /\ Alike(s[i], s[i])
    BY <1>1, <1>2
  <2>2. ValidKey(s[i]) /\ ValidKey(s[j]) /\ ~Less(s[i], s[i]) /\ ~Less(s[j], s[j])
    BY <1>3
  <2>3. CASE i < j
    <3>1. Less(s[i], s[j]) /\ i # j
      BY <1>1, <1>2, <2>3
    <3>2. QED
      BY <2>1, <2>2, <2>3, <3>1
  <2>4. CASE i = j
    <3>1. ~(i < j) /\ s[i] = s[j]
      BY <1>2, <2>4
    <3>2. QED
      BY <2>1, <2>2, <2>4, <3>1
  <2>5. CASE j < i
    <3>1. Less(s[j], s[i]) /\ i # j /\ ~(i < j)
      BY <1>1, <1>2, <2>5
    <3>2. ~Less(s[i], s[j])
      BY <2>1, <2>2, <3>1, LessTransitive
    <3>3. QED
      BY <2>1, <2>2, <2>5, <3>1, <3>2
  <2>6. QED
    BY <1>2, <2>1, <2>3, <2>4, <2>5
<1>5. QED
  BY <1>2, <1>3, <1>4

\* A key that is inserted is valid, and its copy is the key.
LEMMA KeysValid ==
    /\ \A k \in StructKeys : ValidKey(StructKey(k)) /\ Stored(k) = k
    /\ \A e \in Endpoints : /\ ValidKey(AddressKey(General(e.version, Host(e))))
                            /\ Copied(General(e.version, Host(e))) = General(e.version, Host(e))
<1>1. ASSUME NEW k \in StructKeys PROVE ValidKey(StructKey(k)) /\ Stored(k) = k
  <2>1. k \in Seq(Int) /\ Len(k) \in 1..9
    BY KeyAssumption
  <2>2. QED
    BY <2>1, StructLessIs DEF ValidKey
<1>2. ASSUME NEW e \in Endpoints
      PROVE  /\ ValidKey(AddressKey(General(e.version, Host(e))))
             /\ Copied(General(e.version, Host(e))) = General(e.version, Host(e))
  <2>1. Valid(General(e.version, Host(e)))
    BY EndpointRepresented
  <2>2. ValidKey(AddressKey(General(e.version, Host(e))))
    BY <2>1 DEF ValidKey
  <2>3. Copied(General(e.version, Host(e))) = General(e.version, Host(e))
    BY DEF Copied, General
  <2>4. QED
    BY <2>2, <2>3
<1>3. QED
  BY <1>1, <1>2

\* What InsertKey does to the sequence when the copy is the key.
Insertion(s, key, at, t) ==
    t = IF at = 0 THEN Append(s, key)
        ELSE IF Less(key, s[at]) THEN InsertAt(s, at, key)
        ELSE s

\* InsertKey leaves a container of the old keys and the new one.
LEMMA InsertionContains ==
    ASSUME NEW S, NEW s, Container(s, S), NEW key, ValidKey(key),
           \A k \in S : Alike(k, key),
           NEW t, Insertion(s, key, SelectInSeq(s, LAMBDA k : ~Less(k, key)), t)
    PROVE  Container(t, S \cup {key})
<1> DEFINE n == Len(s)
           at == SelectInSeq(s, LAMBDA k : ~Less(k, key))
           Both == S \cup {key}
<1>1. /\ DOMAIN s = 1..n /\ n \in Nat /\ (\A i \in 1..n : s[i] \in S /\ ValidKey(s[i]))
      /\ (\A i, j \in 1..n : Alike(s[i], s[j]) /\ (i < j <=> Less(s[i], s[j])))
  BY PositionsOrdered
<1>2. s \in Seq(S) /\ KeySet(S) /\ \A k \in S : \E i \in 1..n : s[i] = k
  BY DEF Container
<1>3. KeySet(Both)
  <2>1. IsFiniteSet(Both)
    BY <1>2, FS_AddElement DEF KeySet
  <2>2. \A k \in Both : ValidKey(k)
    BY <1>2 DEF KeySet
  <2>3. \A k, m \in Both : Alike(k, m)
    <3>1. Alike(key, key) /\ \A k \in S : Alike(k, key) /\ Alike(key, k)
      BY DEF Alike
    <3>2. \A k, m \in S : Alike(k, m)
      BY <1>2 DEF KeySet
    <3>3. QED
      BY <3>1, <3>2
  <2>4. QED
    BY <2>1, <2>2, <2>3 DEF KeySet
<1>4. \A i \in 1..n : Alike(s[i], key) /\ Alike(key, s[i])
  BY <1>1 DEF Alike
<1>5. /\ s \in Seq(Both) /\ key \in Both
  <2>1. S \subseteq Both
    OBVIOUS
  <2>2. QED
    BY <1>2, <2>1, SeqMonotonic
<1>6. \/ at = 0 /\ \A i \in 1..n : Less(s[i], key)
      \/ /\ at \in 1..n /\ ~Less(s[at], key)
         /\ \A i \in 1..at - 1 : Less(s[i], key)
  BY <1>1, FirstNotLess
<1>7. t = IF at = 0 THEN Append(s, key)
          ELSE IF Less(key, s[at]) THEN InsertAt(s, at, key)
          ELSE s
  BY DEF Insertion
<1>8. ~Less(key, key)
  BY LessIrreflexive
<1> HIDE DEF at
<1>9. CASE at = 0 /\ \A i \in 1..n : Less(s[i], key)
  <2>1. key \notin S
    BY <1>2, <1>8, <1>9
  <2>2. t = Append(s, key)
    BY <1>7, <1>9
  <2>3. t \in Seq(Both) /\ Spliced(t, s, n + 1, key)
    BY <1>5, <2>2, AppendSplices
  <2>4. n + 1 \in 1..n + 1 /\ (n + 1) - 1 = n /\ \A i \in (n + 1)..n : FALSE
    BY <1>1
  <2>5. (\A i \in 1..(n + 1) - 1 : Less(s[i], key)) /\ (\A i \in (n + 1)..n : Less(key, s[i]))
    BY <1>9, <2>4
  <2>6. QED
    BY <1>3, <2>1, <2>3, <2>4, <2>5, SplicedContainer
<1>10. CASE /\ at \in 1..n /\ ~Less(s[at], key) /\ (\A i \in 1..at - 1 : Less(s[i], key))
            /\ Less(key, s[at])
  <2>0. at \in Nat \ {0} /\ at <= n
    BY <1>1, <1>10
  <2>1. ASSUME NEW i \in at..n PROVE Less(key, s[i])
    <3>1. CASE i = at
      BY <1>10, <3>1
    <3>2. CASE i # at
      <4>1. i \in 1..n /\ at \in 1..n /\ at < i
        BY <1>1, <2>0, <3>2
      <4>2. Less(s[at], s[i]) /\ Alike(s[at], s[i]) /\ ValidKey(s[i]) /\ ValidKey(s[at])
        BY <1>1, <4>1
      <4>3. Alike(key, s[at]) /\ Alike(key, s[i]) /\ Less(key, s[at])
        BY <1>4, <1>10, <4>1
      <4>4. QED
        BY <4>2, <4>3, LessTransitive
    <3>3. QED
      BY <3>1, <3>2
  <2>2. key \notin S
    <3>1. ASSUME NEW i \in 1..n PROVE s[i] # key
      <4>1. i \in 1..at - 1 \/ i \in at..n
        BY <1>1, <2>0
      <4>2. QED
        BY <1>8, <1>10, <2>1, <4>1
    <3>2. QED
      BY <1>2, <3>1
  <2>3. t = InsertAt(s, at, key)
    BY <1>7, <1>10, <2>0
  <2>4. t \in Seq(Both) /\ Spliced(t, s, at, key)
    BY <1>5, <1>10, <2>3, InsertSplices
  <2>5. at \in 1..n + 1
    BY <1>1, <2>0
  <2>6. QED
    BY <1>3, <1>10, <2>1, <2>2, <2>4, <2>5, SplicedContainer
<1>11. CASE /\ at \in 1..n /\ ~Less(s[at], key) /\ ~Less(key, s[at])
  <2>1. s[at] = key /\ s[at] \in S
    BY <1>1, <1>4, <1>11, LessTotal
  <2>a. at # 0 /\ ~Less(key, s[at])
    BY <1>1, <1>11
  <2>2. t = s
    BY <1>7, <2>a
  <2>3. Both = S
    BY <2>1
  <2>4. QED
    BY <2>2, <2>3
<1>12. QED
  BY <1>6, <1>9, <1>10, <1>11

\* Every step leaves a container: insertions add a key, the others none.
LEMMA KeysStep == KeysInv /\ [AddressNext]_addressVars => KeysInv'
<1> SUFFICES ASSUME KeysInv, [AddressNext]_addressVars PROVE KeysInv'
  OBVIOUS
<1>1. ASSUME NEW e \in Endpoints, Construct(e) PROVE KeysInv'
  BY <1>1 DEF Construct, KeysInv
<1>2. CASE Convert
  BY <1>2 DEF Convert, KeysInv
<1>3. CASE Discard
  <2>1. keys' = <<>> /\ inserted' = {}
    BY <1>3 DEF Discard
  <2>2. Container(<<>>, {})
    BY FS_EmptySet DEF Container, KeySet, Ordered
  <2>3. QED
    BY <2>1, <2>2 DEF KeysInv
<1>4. ASSUME NEW key, ValidKey(key), InsertKey(key),
             \/ key.kind = "struct" /\ [key EXCEPT !.key = Stored(@)] = key
             \/ key.kind = "address" /\ [key EXCEPT !.key = Copied(@)] = key
      PROVE  KeysInv'
  <2> DEFINE at == SelectInSeq(keys, LAMBDA k : ~Less(k, key))
             copy == IF key.kind = "struct" THEN [key EXCEPT !.key = Stored(@)]
                     ELSE [key EXCEPT !.key = Copied(@)]
  <2>1. copy = key
    <3>1. "struct" # "address"
      OBVIOUS
    <3>2. QED
      BY <1>4, <3>1
  <2>2. /\ inserted' = inserted \cup {key}
        /\ keys' = IF at = 0 THEN Append(keys, copy)
                   ELSE IF Less(key, keys[at]) THEN InsertAt(keys, at, copy)
                   ELSE keys
        /\ \A k \in inserted : k.kind = key.kind /\ (key.kind = "struct" => Len(k.key) = Len(key.key))
    BY <1>4, Zenon DEF InsertKey
  <2>3. \A k \in inserted : Alike(k, key)
    BY <2>2 DEF Alike
  <2> HIDE DEF copy
  <2>4. Insertion(keys, key, at, keys')
    BY <2>1, <2>2 DEF Insertion
  <2>5. Container(keys', inserted \cup {key})
    <3>1. Container(keys, inserted)
      BY DEF KeysInv
    <3>2. QED
      BY <1>4, <2>3, <2>4, <3>1, InsertionContains
  <2>6. QED
    BY <2>2, <2>5 DEF KeysInv
<1>5. ASSUME NEW k \in StructKeys, InsertKey([kind |-> "struct", key |-> k]) PROVE KeysInv'
  <2> DEFINE key == [kind |-> "struct", key |-> k]
  <2>1. ValidKey(key) /\ Stored(k) = k
    BY KeysValid DEF StructKey
  <2>2. key.kind = "struct" /\ [key EXCEPT !.key = Stored(@)] = key
    BY <2>1
  <2>3. InsertKey(key)
    BY <1>5
  <2> HIDE DEF key
  <2>4. QED
    BY <1>4, <2>1, <2>2, <2>3
<1>6. ASSUME NEW e \in Endpoints, InsertKey([kind |-> "address", key |-> General(e.version, Host(e))])
      PROVE  KeysInv'
  <2> DEFINE a == General(e.version, Host(e))
             key == [kind |-> "address", key |-> a]
  <2>1. ValidKey(key) /\ Copied(a) = a
    BY KeysValid DEF AddressKey
  <2>3. InsertKey(key)
    BY <1>6
  <2> HIDE DEF a
  <2>2. key.kind = "address" /\ [key EXCEPT !.key = Copied(@)] = key
    BY <2>1
  <2> HIDE DEF key
  <2>4. QED
    BY <1>4, <2>1, <2>2, <2>3
<1>7. CASE UNCHANGED addressVars
  BY <1>7 DEF addressVars, KeysInv
<1>8. QED
  BY <1>1, <1>2, <1>3, <1>5, <1>6, <1>7 DEF AddressNext

\* operator== of addresses is equality.
LEMMA EqualIs ==
    ASSUME NEW a, NEW b, Valid(a), Valid(b), a.version = b.version
    PROVE  a = b <=> AddressEqual(a, b)
<1>1. CASE a.version = "kIp4"
  <2>1. AddressEqual(a, b) <=> a.a.ip = b.a.ip /\ a.a.port = b.a.port
    BY <1>1 DEF AddressEqual
  <2>2. CompareKey(a) = <<a.a.ip, a.a.port>> /\ CompareKey(b) = <<b.a.ip, b.a.port>>
    BY <1>1, CompareKeyIs
  <2>3. QED
    BY <2>1, <2>2, AddressTold
<1>2. CASE a.version = "kIp6"
  <2>1. AddressEqual(a, b) <=> a.a.ip = b.a.ip /\ a.a.port = b.a.port /\ a.a.scope = b.a.scope
    BY <1>2 DEF AddressEqual, Equal6
  <2>2. /\ CompareKey(a) = <<a.a.ip[2], a.a.ip[1], a.a.ip[4], a.a.ip[3], a.a.port, a.a.scope>>
        /\ CompareKey(b) = <<b.a.ip[2], b.a.ip[1], b.a.ip[4], b.a.ip[3], b.a.port, b.a.scope>>
    BY <1>2, CompareKeyIs
  <2>3. QED
    BY <2>1, <2>2, AddressTold
<1>3. CASE a.version = "kUnix"
  <2>1. AddressEqual(a, b) <=> a.a.path = b.a.path
    BY <1>3 DEF AddressEqual
  <2>2. CompareKey(a) = a.a.path /\ CompareKey(b) = b.a.path
    BY <1>3, CompareKeyIs
  <2>3. QED
    BY <2>1, <2>2, AddressTold
<1>4. QED
  BY <1>1, <1>2, <1>3, CompareKeyIs

\* The keys a container holds are told apart by operator== and by the hashes.
LEMMA ContainerTells ==
    ASSUME NEW S, NEW s, Container(s, S), NEW i \in DOMAIN s, NEW j \in DOMAIN s
    PROVE  /\ i < j <=> Less(s[i], s[j])
           /\ s[i].kind = "struct" => (i = j <=> StructEqual(s[i].key, s[j].key))
           /\ s[i].kind = "address" /\ s[i].key.version = s[j].key.version =>
                /\ i = j <=> AddressEqual(s[i].key, s[j].key)
                /\ i = j <=> HashedBytes(s[i].key) = HashedBytes(s[j].key)
                /\ s[i].key.version = "kIp4" =>
                     LET a == s[i].key.a
                         b == s[j].key.a
                     IN  /\ i = j <=> NewHashedBytes(a) = NewHashedBytes(b)
                         /\ i = j <=> OldHashedBytes(ToNetwork(a)) = OldHashedBytes(ToNetwork(b))
<1> DEFINE k == s[i]
           m == s[j]
<1>1. /\ ValidKey(k) /\ ValidKey(m) /\ Alike(k, m) /\ (i < j <=> Less(k, m)) /\ (i = j <=> k = m)
  BY PositionsOrdered
<1> HIDE DEF k, m
<1>2. ASSUME k.kind = "struct" PROVE i = j <=> StructEqual(k.key, m.key)
  <2>1. m.kind = "struct" /\ Len(k.key) = Len(m.key)
    BY <1>1, <1>2 DEF Alike
  <2>2. /\ k.key \in Seq(Int) /\ Len(k.key) \in 1..9 /\ m.key \in Seq(Int)
        /\ k = [kind |-> k.kind, key |-> k.key] /\ m = [kind |-> m.kind, key |-> m.key]
    BY <1>1, <1>2, <2>1, KeyIs
  <2>3. StructEqual(k.key, m.key) <=> k.key = m.key
    BY <2>1, <2>2, StructLessIs
  <2>4. k = m <=> k.key = m.key
    BY <1>2, <2>1, <2>2
  <2>5. QED
    BY <1>1, <2>3, <2>4
<1>3. ASSUME k.kind = "address", k.key.version = m.key.version
      PROVE  /\ i = j <=> AddressEqual(k.key, m.key)
             /\ i = j <=> HashedBytes(k.key) = HashedBytes(m.key)
             /\ k.key.version = "kIp4" =>
                  /\ i = j <=> NewHashedBytes(k.key.a) = NewHashedBytes(m.key.a)
                  /\ i = j <=> OldHashedBytes(ToNetwork(k.key.a)) = OldHashedBytes(ToNetwork(m.key.a))
  <2> DEFINE a == k.key
             b == m.key
  <2>1. m.kind = "address"
    BY <1>1, <1>3 DEF Alike
  <2>2. /\ Valid(a) /\ Valid(b)
        /\ k = [kind |-> k.kind, key |-> a] /\ m = [kind |-> m.kind, key |-> b]
    BY <1>1, <1>3, <2>1, KeyIs
  <2>3. k = m <=> a = b
    BY <1>3, <2>1, <2>2
  <2>4. a.version = b.version
    BY <1>3
  <2> HIDE DEF a, b
  <2>5. a = b <=> AddressEqual(a, b)
    BY <2>2, <2>4, EqualIs
  <2>6. a = b <=> HashedBytes(a) = HashedBytes(b)
    BY <2>2, <2>4, HashTells
  <2>7. a.version = "kIp4" =>
          /\ a = b <=> NewHashedBytes(a.a) = NewHashedBytes(b.a)
          /\ a = b <=> OldHashedBytes(ToNetwork(a.a)) = OldHashedBytes(ToNetwork(b.a))
    BY <2>2, <2>4, HashersTell
  <2>8. QED
    BY <1>1, <2>3, <2>5, <2>6, <2>7 DEF a, b
<1>4. QED
  BY <1>1, <1>2, <1>3 DEF k, m

\* However many keys are inserted, of whatever values: a set of structs or
\* addresses holds each one once and in order, operator== and the hashes tell
\* its elements apart.
THEOREM SetsAreSorted == AddressSpec => []SetsStaySorted
<1>1. NoAddress => KeysInv
  <2>1. Container(<<>>, {})
    BY FS_EmptySet DEF Container, KeySet, Ordered
  <2>2. QED
    BY <2>1 DEF NoAddress, KeysInv
<1>2. KeysInv => SetsStaySorted
  <2> SUFFICES ASSUME KeysInv PROVE SetsStaySorted
    OBVIOUS
  <2>1. Container(keys, inserted)
    BY DEF KeysInv
  <2>2. {keys[i] : i \in DOMAIN keys} = inserted
    <3>1. /\ DOMAIN keys = 1..Len(keys) /\ (\A i \in 1..Len(keys) : keys[i] \in inserted)
      BY <2>1, PositionsOrdered
    <3>2. \A k \in inserted : \E i \in 1..Len(keys) : keys[i] = k
      BY <2>1 DEF Container
    <3>3. QED
      BY <3>1, <3>2, Zenon
  <2>3. Len(keys) = Cardinality(inserted)
    BY <2>1 DEF Container
  <2>4. \A i, j \in DOMAIN keys :
         /\ i < j <=> Less(keys[i], keys[j])
         /\ keys[i].kind = "struct" => (i = j <=> StructEqual(keys[i].key, keys[j].key))
         /\ keys[i].kind = "address" /\ keys[i].key.version = keys[j].key.version =>
              /\ i = j <=> AddressEqual(keys[i].key, keys[j].key)
              /\ i = j <=> HashedBytes(keys[i].key) = HashedBytes(keys[j].key)
              /\ keys[i].key.version = "kIp4" =>
                   LET a == keys[i].key.a
                       b == keys[j].key.a
                   IN  /\ i = j <=> NewHashedBytes(a) = NewHashedBytes(b)
                       /\ i = j <=> OldHashedBytes(ToNetwork(a)) = OldHashedBytes(ToNetwork(b))
    BY <2>1, ContainerTells, Zenon
  <2>5. QED
    BY <2>2, <2>3, <2>4, Zenon DEF SetsStaySorted
<1>3. QED
  BY <1>1, <1>2, KeysStep, PTL DEF AddressSpec
=============================================================================
