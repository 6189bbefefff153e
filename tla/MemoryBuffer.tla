---------------------------- MODULE MemoryBuffer ----------------------------
(***************************************************************************)
(* TMemoryBuffer, the transport that report items are written to and read   *)
(* from: thrift/transport/TBufferTransports.h and .cpp.                     *)
(*                                                                         *)
(* A buffer is [mem, size, rBase, rBound, wBase, owner]: the bytes written, *)
(* bufferSize_, and the pointers as offsets.  rBound is only an artifact:   *)
(* it is brought up to wBase when a read finds too little in front of it.   *)
(* wBound_ is always the end of the buffer.  The bytes of an item come in   *)
(* one write here; the size after it is the one that many writes lead to.   *)
(***************************************************************************)
EXTENDS Integers, Sequences

CONSTANT DefaultSize   \* defaultSize (1024)

ASSUME DefaultSizeAssumption == DefaultSize \in Nat

initCommon(bytes, size, owner) ==
    [mem |-> bytes, size |-> size, rBase |-> 0, rBound |-> Len(bytes), wBase |-> Len(bytes),
     owner |-> owner]

available_read(b) == b.wBase - b.rBase

\* ensureCanWrite: the size doubles until `len` more bytes fit.  Only an
\* owner may grow.
RECURSIVE Doubled(_, _)
Doubled(size, need) ==
    IF size >= need THEN size ELSE Doubled(IF size > 0 THEN size * 2 ELSE 1, need)

\* write, and writeSlow when the bytes do not fit.
Put(b, bytes) ==
    [b EXCEPT !.mem = SubSeq(@, 1, b.wBase) \o bytes, !.wBase = @ + Len(bytes)]

writeSlow(b, bytes) ==
    Put([b EXCEPT !.size = Doubled(@, b.wBase + Len(bytes))], bytes)

write(b, bytes) ==
    IF b.wBase + Len(bytes) <= b.size THEN Put(b, bytes) ELSE writeSlow(b, bytes)

\* The constructors: an empty buffer, or given bytes that the buffer only
\* looks at (OBSERVE) or makes a copy of (COPY).
NewBuffer == initCommon(<<>>, DefaultSize, TRUE)

BufferOf(bytes, policy) ==
    IF policy = "COPY" THEN write(initCommon(<<>>, Len(bytes), TRUE), bytes)
    ELSE initCommon(bytes, Len(bytes), FALSE)

\* getBuffer: what is written and not yet read.
getBuffer(b) == SubSeq(b.mem, b.rBase + 1, b.wBase)

-----------------------------------------------------------------------------
(* Reading returns [b, val], val the bytes.                                *)

\* computeRead and readSlow: as much as there is.
readSlow(b, len) ==
    LET give == IF len < available_read(b) THEN len ELSE available_read(b)
    IN  [b   |-> [b EXCEPT !.rBound = b.wBase, !.rBase = @ + give],
         val |-> SubSeq(b.mem, b.rBase + 1, b.rBase + give)]

\* The fast path of read and readAll.
InBounds(b, len) == b.rBase + len <= b.rBound

readFast(b, len) ==
    [b |-> [b EXCEPT !.rBase = @ + len], val |-> SubSeq(b.mem, b.rBase + 1, b.rBase + len)]

\* readAll: a second read of a buffer that gave too little gives nothing,
\* and what the first one gave is lost.
TransportReadAll(b, len) ==
    IF InBounds(b, len) THEN readFast(b, len)
    ELSE LET all == readSlow(b, len)
         IN  IF Len(all.val) = len THEN all ELSE [all EXCEPT !.val = <<>>]

\* borrow and borrowSlow: [b, val], val the bytes ahead, and none when there
\* are less than `len`.
borrowSlow(b, len) ==
    [b   |-> [b EXCEPT !.rBound = b.wBase],
     val |-> IF available_read(b) >= len THEN getBuffer(b) ELSE <<>>]

borrow(b, len) ==
    IF InBounds(b, len) THEN [b |-> b, val |-> SubSeq(b.mem, b.rBase + 1, b.rBound)]
    ELSE borrowSlow(b, len)

consume(b, len) == [b EXCEPT !.rBase = @ + len]
=============================================================================
