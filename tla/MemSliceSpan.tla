---------------------------- MODULE MemSliceSpan ----------------------------
(***************************************************************************)
(* Reference-counted buffers and the scattered blocks built from them:     *)
(* memory/mem_buf, memory/mem_slice and memory/mem_slice_span.             *)
(*                                                                         *)
(* Every MemSlice object is a location: the slots buffer_[i] of the spans, *)
(* a local variable of the caller, and the temporaries of a call (the by-  *)
(* value parameter and the returned span), which are empty between calls.  *)
(* MemSlice operations map the memory [mem, slot] to the memory after      *)
(* them, in the order in which the code performs them.  A byte is an       *)
(* abstract value, Junk the content of memory that nobody wrote.           *)
(***************************************************************************)
EXTENDS Integers, Sequences, FiniteSets

CONSTANTS
    Bufs,         \* bound: buffers alive at a time, a set of integers >= 0
    Spans,        \* the names of the caller's MemSliceSpan objects
    Texts,        \* contents of fresh buffers
    SliceLimit,   \* default size of the constructor of MemSlice (65536)
    TrimBlocks,   \* AdjustBeginPointer is called on spans of up to these many
    MaxText,      \* bound: bytes of a span
    MaxCalls      \* bound: calls of the caller

ASSUME SizesAreNumbers ==
    /\ Bufs \subseteq Nat /\ IsFiniteSet(Bufs)
    /\ SliceLimit \in Nat /\ MaxText \in Nat

Junk == "junk"
Bytes == STRING \cup {Junk}

ASSUME TextsAreBytes == Texts \subseteq Seq(Bytes)

\* No span is made of more bytes than the default limit of a slice admits.
ASSUME TextsFit ==
    (\A t \in Texts : Len(t) <= MaxText) /\ MaxText <= SliceLimit

ASSUME SpansAreNamed ==
    IsFiniteSet(Spans) /\ Spans \cap {"tmp", "param", "local"} = {}

kMaxBlocks == 4
NoBuf == -1

Smaller(a, b) == IF a <= b THEN a ELSE b
Larger(a, b) == IF a >= b THEN a ELSE b

Empty == [buf |-> NoBuf, begin |-> 0, end |-> 0]
Local == <<"local", 0>>
Param == <<"param", 0>>
Locations ==
    ((Spans \cup {"tmp"}) \X (0..(kMaxBlocks - 1))) \cup {Param, Local}

VARIABLES
    mem,           \* the MemBufs: live, ref_cnt_, data, and fault: a use of
                   \* a buffer that was freed
    slot,          \* every MemSlice object
    size_,         \* of each span
    block_count_,  \* of each span
    text,          \* history: the bytes that were put into each span
    calls          \* calls so far

vars == <<mem, slot, size_, block_count_, text, calls>>

-----------------------------------------------------------------------------
(* MemBuf.                                                                 *)

Capacity(m, b) == Len(m.data[b])

AddRef(m, b) ==
    [m EXCEPT !.ref[b] = @ + 1, !.fault = @ \/ b \notin m.live]

Release(m, b) ==
    CASE b \notin m.live -> [m EXCEPT !.fault = TRUE]
      [] b \in m.live /\ m.ref[b] <= 1 ->
             [m EXCEPT !.live = @ \ {b}, !.ref[b] = 0, !.data[b] = <<>>]
      [] OTHER -> [m EXCEPT !.ref[b] = @ - 1]

\* MemBuf::Create: malloc returns some memory that is free.
Fresh(m) == CHOOSE b \in Bufs : b \notin m.live
Create(m, bytes) ==
    [m EXCEPT !.live = @ \cup {Fresh(m)}, !.data[Fresh(m)] = bytes]

\* MemBuf::Clone.
CloneBuf(m, b) == Create(m, m.data[b])

-----------------------------------------------------------------------------
(* MemSlice.                                                               *)

\* ~MemSlice, and Reset() without a buffer.
ResetSlice(st, l) ==
    IF st.slot[l].buf = NoBuf THEN st
    ELSE [mem  |-> Release(st.mem, st.slot[l].buf),
          slot |-> [st.slot EXCEPT ![l] = Empty]]

\* Initialize, in a slice that holds no buffer.
Initialize(st, l, b) ==
    [mem  |-> AddRef(st.mem, b),
     slot |-> [st.slot EXCEPT ![l] =
                  [buf |-> b, begin |-> 0, end |-> Capacity(st.mem, b)]]]

\* The constructor from a buffer: at most SliceLimit bytes of it.
Construct(st, l, b) ==
    LET a == Initialize(st, l, b)
    IN [a EXCEPT !.slot[l].end = Smaller(SliceLimit, @)]

\* MemSlice(MemBuf::Create(...)).
ConstructNew(st, l, bytes) ==
    Construct([mem |-> Create(st.mem, bytes), slot |-> st.slot], l, Fresh(st.mem))

\* Mutant: the copy takes no reference.
CopySliceUncounted(st, l, r) ==
    LET m == IF st.slot[l].buf = NoBuf THEN st.mem
             ELSE Release(st.mem, st.slot[l].buf)
    IN [mem |-> m, slot |-> [st.slot EXCEPT ![l] = st.slot[r]]]

\* operator=(const MemSlice &), and the copy constructor on an empty slice.
CopySlice(st, l, r) ==
    LET m == IF st.slot[l].buf = NoBuf THEN st.mem
             ELSE Release(st.mem, st.slot[l].buf)
    IN [mem  |-> IF st.slot[r].buf = NoBuf THEN m ELSE AddRef(m, st.slot[r].buf),
        slot |-> [st.slot EXCEPT ![l] = st.slot[r]]]

\* The move constructor takes a reference and then drops the source's.
MoveConstruct(st, l, r) == ResetSlice(CopySlice(st, l, r), r)

\* operator=(MemSlice &&) swaps.
SwapSlice(st, l, r) ==
    [st EXCEPT !.slot = [@ EXCEPT ![l] = st.slot[r], ![r] = st.slot[l]]]

\* MemSlice::Clone into an empty slice: all of the buffer, the same offsets.
CloneSlice(st, l, r) ==
    LET s == st.slot[r]
        m == CloneBuf(st.mem, s.buf)
        a == Construct([st EXCEPT !.mem = m], l, Fresh(st.mem))
    IN [a EXCEPT !.slot[l] = [buf |-> @.buf, begin |-> s.begin, end |-> s.end]]

SetBeginPointer(s, position) ==
    [s EXCEPT !.begin = IF position > s.end THEN s.end ELSE position]

SetEndPointer(m, s, position) ==
    LET low == IF position < s.begin THEN s.begin ELSE position
        cap == Capacity(m, s.buf)
    IN [s EXCEPT !.end = IF low > cap THEN cap ELSE low]

UsedSize(s) == s.end - s.begin

\* AdjustBeginPointer and AdjustEndPointer convert the sum to uint32_t: a
\* negative position is one far above every capacity.
Wrapped(m, s, position) ==
    IF position < 0 THEN Capacity(m, s.buf) + 1 ELSE position

-----------------------------------------------------------------------------
(* MemSliceSpan.                                                           *)

st0 == [mem |-> mem, slot |-> slot]
Become(st) == mem' = st.mem /\ slot' = st.slot

\* The loops over blocks, as their kMaxBlocks possible rounds.  A round is
\* for block i and does something if i is within the loop's bounds.
ResetRound(st, x, i, first, last) ==
    IF first <= i /\ i <= last THEN ResetSlice(st, <<x, i>>) ELSE st

ResetSlots(st, x, first, last) ==
    LET r0 == ResetRound(st, x, 0, first, last)
        r1 == ResetRound(r0, x, 1, first, last)
        r2 == ResetRound(r1, x, 2, first, last)
    IN ResetRound(r2, x, 3, first, last)

CopyRound(st, x, y, i, n) ==
    IF i < n THEN CopySlice(st, <<x, i>>, <<y, i>>) ELSE st

CopyBlocks(st, x, y, n) ==
    LET r0 == CopyRound(st, x, y, 0, n)
        r1 == CopyRound(r0, x, y, 1, n)
        r2 == CopyRound(r1, x, y, 2, n)
    IN CopyRound(r2, x, y, 3, n)

SwapRound(st, x, y, i, n) ==
    IF i < n THEN SwapSlice(st, <<x, i>>, <<y, i>>) ELSE st

SwapBlocks(st, x, y, n) ==
    LET r0 == SwapRound(st, x, y, 0, n)
        r1 == SwapRound(r0, x, y, 1, n)
        r2 == SwapRound(r1, x, y, 2, n)
    IN SwapRound(r2, x, y, 3, n)

CloneRound(st, y, i, n) ==
    IF i < n THEN CloneSlice(st, <<"tmp", i>>, <<y, i>>) ELSE st

\* Clone has fewer than kMaxBlocks blocks.
CloneBlocks(st, y, n) ==
    CloneRound(CloneRound(CloneRound(st, y, 0, n), y, 1, n), y, 2, n)

\* The end of a call destroys its temporaries.
EndOfCall(st) ==
    ResetSlots(ResetSlice(st, Param), "tmp", 0, kMaxBlocks - 1)

\* What Clone, ToSingleBlock, CloneSpannedMem and ToRawBuffer assert of their
\* span: not every span that PushBack builds can be put together.
Spannable(count) == count < kMaxBlocks

\* What Begin() to End() of a slice reads.
SliceBytes(m, s) ==
    IF s.buf = NoBuf THEN <<>> ELSE SubSeq(m.data[s.buf], s.begin + 1, s.end)

\* The bytes of the blocks in order: the loop of CloneSpannedMem, and what
\* ToRawBuffer returns for a Spannable span.
RoundBytes(st, x, i, count) ==
    IF i < count THEN SliceBytes(st.mem, st.slot[<<x, i>>]) ELSE <<>>

BlockBytes(st, x, count) ==
    RoundBytes(st, x, 0, count) \o RoundBytes(st, x, 1, count)
        \o RoundBytes(st, x, 2, count) \o RoundBytes(st, x, 3, count)

\* CloneSpannedMem of a Spannable span: a buffer of size_ bytes, of which the
\* blocks fill a part.
SpannedMem(st, x, size, count) ==
    LET bytes == BlockBytes(st, x, count)
    IN [k \in 1..size |-> IF k <= Len(bytes) THEN bytes[k] ELSE Junk]

\* operator=(MemSliceSpan &&) from slots of y, whose count is n.
MoveSlots(st, x, y, n) ==
    ResetSlots(SwapBlocks(st, x, y, n), x, n, block_count_[x] - 1)

\* operator=(const MemSliceSpan &).
CopySlots(st, x, y, n) ==
    ResetSlots(CopyBlocks(st, x, y, n), x, n, block_count_[x] - 1)

Init ==
    /\ mem = [live |-> {}, ref |-> [b \in Bufs |-> 0],
              data |-> [b \in Bufs |-> <<>>], fault |-> FALSE]
    /\ slot = [l \in Locations |-> Empty]
    /\ size_ = [x \in Spans |-> 0]
    /\ block_count_ = [x \in Spans |-> 0]
    /\ text = [x \in Spans |-> <<>>]
    /\ calls = 0

\* The caller's slice.Reset(MemBuf::Create(...)).
NewSlice(bytes) ==
    /\ \E b \in Bufs : b \notin mem.live
    /\ LET b == Fresh(mem)
           m == Create(mem, bytes)
       IN Become(Initialize(ResetSlice([mem |-> m, slot |-> slot], Local),
                            Local, b))
    /\ UNCHANGED <<size_, block_count_, text>>

\* AdjustBeginPointer and AdjustEndPointer of the caller's slice.
AdjustSlice(offset) ==
    /\ slot[Local].buf # NoBuf
    /\ LET s == slot[Local]
       IN \/ slot' = [slot EXCEPT ![Local] =
                 SetBeginPointer(s, Wrapped(mem, s, s.begin + offset))]
          \/ slot' = [slot EXCEPT ![Local] =
                 SetEndPointer(mem, s, Wrapped(mem, s, s.end + offset))]
    /\ UNCHANGED <<mem, size_, block_count_, text>>

\* The caller's slice as a by-value argument: slice, or std::move(slice).
PassSlice(st) == {CopySlice(st, Param, Local), MoveConstruct(st, Param, Local)}

PushBack(x) ==
    /\ slot[Local].buf # NoBuf
    /\ block_count_[x] < kMaxBlocks
    /\ Len(text[x]) + UsedSize(slot[Local]) <= MaxText
    /\ \E st \in PassSlice(st0) :
           Become(EndOfCall(SwapSlice(st, <<x, block_count_[x]>>, Param)))
    /\ size_' = [size_ EXCEPT ![x] = @ + UsedSize(slot[Local])]
    /\ block_count_' = [block_count_ EXCEPT ![x] = @ + 1]
    /\ text' = [text EXCEPT ![x] = @ \o SliceBytes(mem, slot[Local])]

\* PushBack returns false; a slice that was moved in is gone.
PushBackFull(x) ==
    /\ slot[Local].buf # NoBuf
    /\ block_count_[x] >= kMaxBlocks
    /\ \E st \in PassSlice(st0) : Become(EndOfCall(st))
    /\ UNCHANGED <<size_, block_count_, text>>

\* operator=(MemSlice).
AssignSlice(x) ==
    /\ slot[Local].buf # NoBuf
    /\ \E st \in PassSlice(st0) :
           LET a == ResetSlots(st, x, 1, block_count_[x] - 1)
           IN Become(EndOfCall(SwapSlice(a, <<x, 0>>, Param)))
    /\ size_' = [size_ EXCEPT ![x] = UsedSize(slot[Local])]
    /\ block_count_' = [block_count_ EXCEPT ![x] = 1]
    /\ text' = [text EXCEPT ![x] = SliceBytes(mem, slot[Local])]

\* Reset(MemSlice), with the caller's slice or, by default, without one.
Reset(x) ==
    /\ \E st \in PassSlice(st0) \cup {st0} :
           LET a == ResetSlots(st, x, 0, block_count_[x] - 1)
               s == st.slot[Param]
           IN /\ Become(EndOfCall(SwapSlice(a, <<x, 0>>, Param)))
              /\ size_' = [size_ EXCEPT ![x] = UsedSize(s)]
              /\ block_count_' =
                     [block_count_ EXCEPT ![x] = IF UsedSize(s) = 0 THEN 0 ELSE 1]
              /\ text' = [text EXCEPT ![x] = SliceBytes(st.mem, s)]

\* ~MemSliceSpan, and a new span in its place: empty, or from a slice.
Reconstruct(x) ==
    /\ \E st \in PassSlice(st0) \cup {st0} :
           LET a == ResetSlots(st, x, 0, kMaxBlocks - 1)
               s == st.slot[Param]
               used == UsedSize(s) # 0
           IN /\ Become(EndOfCall(IF used THEN SwapSlice(a, <<x, 0>>, Param) ELSE a))
              /\ size_' = [size_ EXCEPT ![x] = UsedSize(s)]
              /\ block_count_' = [block_count_ EXCEPT ![x] = IF used THEN 1 ELSE 0]
              /\ text' = [text EXCEPT ![x] = SliceBytes(st.mem, s)]

\* A MemSlice of a new buffer, as a temporary.
PassBuffer(bytes) == ConstructNew(st0, Param, bytes)

\* operator=(const MemBuf *), by operator=(MemSlice).
AssignBuffer(x, bytes) ==
    /\ \E b \in Bufs : b \notin mem.live
    /\ LET st == PassBuffer(bytes)
           a == ResetSlots(st, x, 1, block_count_[x] - 1)
       IN /\ Become(EndOfCall(SwapSlice(a, <<x, 0>>, Param)))
          /\ size_' = [size_ EXCEPT ![x] = UsedSize(st.slot[Param])]
          /\ text' = [text EXCEPT ![x] = SliceBytes(st.mem, st.slot[Param])]
    /\ block_count_' = [block_count_ EXCEPT ![x] = 1]

\* ~MemSliceSpan, and a new span from a MemBuf or from raw memory, whose
\* size_ is all of it.
FromBuffer(x, bytes) ==
    /\ \E b \in Bufs : b \notin mem.live
    /\ LET a == ResetSlots(PassBuffer(bytes), x, 0, kMaxBlocks - 1)
       IN Become(EndOfCall(SwapSlice(a, <<x, 0>>, Param)))
    /\ size_' = [size_ EXCEPT ![x] = Len(bytes)]
    /\ block_count_' = [block_count_ EXCEPT ![x] = 1]
    /\ text' = [text EXCEPT ![x] = bytes]

\* ~MemSliceSpan, and a new span from the list {slice, slice} of two copies
\* of the caller's slice: a list's elements are const, they are copied.
FromList(x) ==
    /\ slot[Local].buf # NoBuf
    /\ 2 * UsedSize(slot[Local]) <= MaxText
    /\ LET list == CopySlice(CopySlice(st0, <<"tmp", 0>>, Local),
                             <<"tmp", 1>>, Local)
       IN Become(EndOfCall(CopyBlocks(ResetSlots(list, x, 0, kMaxBlocks - 1),
                                      x, "tmp", 2)))
    /\ size_' = [size_ EXCEPT ![x] = 2 * UsedSize(slot[Local])]
    /\ block_count_' = [block_count_ EXCEPT ![x] = 2]
    /\ text' = [text EXCEPT ![x] = SliceBytes(mem, slot[Local])
                                      \o SliceBytes(mem, slot[Local])]

\* ~MemSliceSpan, and a new span in its place: MemSliceSpan(y).
CopyConstruct(x, y) ==
    /\ Become(CopyBlocks(ResetSlots(st0, x, 0, kMaxBlocks - 1),
                         x, y, block_count_[y]))
    /\ size_' = [size_ EXCEPT ![x] = size_[y]]
    /\ block_count_' = [block_count_ EXCEPT ![x] = block_count_[y]]
    /\ text' = [text EXCEPT ![x] = text[y]]

\* MemSliceSpan(std::move(y)).
MoveConstructSpan(x, y) ==
    /\ Become(SwapBlocks(ResetSlots(st0, x, 0, kMaxBlocks - 1),
                         x, y, block_count_[y]))
    /\ size_' = [size_ EXCEPT ![x] = size_[y], ![y] = 0]
    /\ block_count_' = [block_count_ EXCEPT ![x] = block_count_[y], ![y] = 0]
    /\ text' = [text EXCEPT ![x] = text[y], ![y] = <<>>]

\* x = y.
CopyAssign(x, y) ==
    /\ Become(CopySlots(st0, x, y, block_count_[y]))
    /\ size_' = [size_ EXCEPT ![x] = size_[y]]
    /\ block_count_' = [block_count_ EXCEPT ![x] = block_count_[y]]
    /\ text' = [text EXCEPT ![x] = text[y]]

\* x = std::move(y).
MoveAssign(x, y) ==
    /\ Become(MoveSlots(st0, x, y, block_count_[y]))
    /\ size_' = [size_ EXCEPT ![x] = size_[y], ![y] = 0]
    /\ block_count_' = [block_count_ EXCEPT ![x] = block_count_[y], ![y] = 0]
    /\ text' = [text EXCEPT ![x] = text[y], ![y] = <<>>]

\* x = y.Clone(): the blocks of the returned span are swapped into x.
Clone(x, y) ==
    LET n == block_count_[y]
    IN /\ Spannable(n)
       /\ n <= Cardinality(Bufs \ mem.live)
       /\ Become(EndOfCall(MoveSlots(CloneBlocks(st0, y, n), x, "tmp", n)))
       /\ size_' = [size_ EXCEPT ![x] = size_[y]]
       /\ block_count_' = [block_count_ EXCEPT ![x] = n]
       /\ text' = [text EXCEPT ![x] = text[y]]

\* x = y.ToSingleBlock() of up to one block copies the span; of more, its
\* bytes go to a new buffer.
ToSingleBlock(x, y) ==
    LET n == block_count_[y]
        single == ConstructNew(st0, <<"tmp", 0>>, SpannedMem(st0, y, size_[y], n))
        copied == CopyBlocks(st0, "tmp", y, n)
    IN /\ Spannable(n)
       /\ \/ /\ n <= 1
             /\ Become(EndOfCall(MoveSlots(copied, x, "tmp", n)))
             /\ block_count_' = [block_count_ EXCEPT ![x] = n]
          \/ /\ n > 1
             /\ \E free \in Bufs : free \notin mem.live
             /\ Become(EndOfCall(MoveSlots(single, x, "tmp", 1)))
             /\ block_count_' = [block_count_ EXCEPT ![x] = 1]
       /\ size_' = [size_ EXCEPT ![x] = size_[y]]
       /\ text' = [text EXCEPT ![x] = text[y]]

\* The loop of AdjustBeginPointer: how many bytes it takes off block i, when
\* the blocks before it take what they can.
UsedBy(x, k, i) == IF k < i THEN UsedSize(slot[<<x, k>>]) ELSE 0
Before(x, i) == UsedBy(x, 0, i) + UsedBy(x, 1, i) + UsedBy(x, 2, i) + UsedBy(x, 3, i)
Taken(x, offset, i) ==
    Smaller(Larger(offset - Before(x, i), 0), UsedSize(slot[<<x, i>>]))

\* Where it stops: the first block that is not used up, or behind the last.
StopsAt(x, offset) ==
    LET n == block_count_[x]
        last == CHOOSE i \in 0..n :
                    /\ i = n \/ Before(x, i + 1) >= offset
                    /\ \A k \in 0..(i - 1) : Before(x, k + 1) < offset
    IN IF last < n /\ Before(x, last + 1) = offset THEN last + 1 ELSE last

\* Mutant: the blocks that are left stay where they are.
CompactNothing(st, x, pos) == st

\* The second loop moves every block that is left to slot k, and k stays 0.
CompactRound(st, x, pos, i) ==
    IF pos <= i /\ i < block_count_[x] THEN SwapSlice(st, <<x, 0>>, <<x, i>>)
    ELSE st

Compact(st, x, pos) ==
    IF pos = 0 THEN st
    ELSE CompactRound(CompactRound(CompactRound(st, x, pos, 1), x, pos, 2),
                      x, pos, 3)

AdjustBeginPointer(x, offset) ==
    LET pos == StopsAt(x, offset)
        trimmed == [l \in Locations |->
            IF l \in {<<x, i>> : i \in 0..(block_count_[x] - 1)}
            THEN SetBeginPointer(slot[l], slot[l].begin + Taken(x, offset, l[2]))
            ELSE slot[l]]
    IN /\ block_count_[x] <= TrimBlocks
       /\ offset < size_[x]
       /\ Become(Compact([mem |-> mem, slot |-> trimmed], x, pos))
       /\ size_' = [size_ EXCEPT ![x] = @ - offset]
       /\ block_count_' = [block_count_ EXCEPT ![x] = @ - pos]
       /\ text' = [text EXCEPT ![x] = SubSeq(@, offset + 1, Len(@))]

\* A build without assertions resets the span when offset >= size_.
AdjustBeyondEnd(x) ==
    /\ block_count_[x] > 0
    /\ Become(ResetSlots(st0, x, 0, block_count_[x] - 1))
    /\ size_' = [size_ EXCEPT ![x] = 0]
    /\ block_count_' = [block_count_ EXCEPT ![x] = 0]
    /\ text' = [text EXCEPT ![x] = <<>>]

Call ==
    \/ \E bytes \in Texts : NewSlice(bytes)
    \/ \E offset \in {-3, -1, 1} : AdjustSlice(offset)
    \/ \E x \in Spans :
          \/ PushBack(x) \/ PushBackFull(x) \/ AssignSlice(x) \/ Reset(x)
          \/ Reconstruct(x) \/ FromList(x) \/ AdjustBeyondEnd(x)
          \/ \E bytes \in Texts : AssignBuffer(x, bytes) \/ FromBuffer(x, bytes)
          \/ \E offset \in 0..MaxText : AdjustBeginPointer(x, offset)
          \/ \E y \in Spans \ {x} :
                \/ CopyConstruct(x, y) \/ MoveConstructSpan(x, y)
                \/ CopyAssign(x, y) \/ MoveAssign(x, y)
          \/ \E y \in Spans : Clone(x, y) \/ ToSingleBlock(x, y)

Next == calls < MaxCalls /\ calls' = calls + 1 /\ Call

Spec == Init /\ [][Next]_vars

-----------------------------------------------------------------------------
(* Properties.                                                             *)

\* "A safe and ref-counted buffer helper": after every sequence of copies,
\* moves, swaps and resets, a buffer's count is the number of slices on it
\* and a buffer without a slice is freed; none is used after that, and no
\* slice leaves its buffer, whatever positions and offsets it is given.
SlicesAreSound ==
    /\ ~mem.fault
    /\ mem.live = {slot[l].buf : l \in Locations} \ {NoBuf}
    /\ \A b \in mem.live :
           mem.ref[b] = Cardinality({l \in Locations : slot[l].buf = b})
    /\ \A l \in Locations :
           slot[l].buf # NoBuf =>
               /\ 0 <= slot[l].begin /\ slot[l].begin <= slot[l].end
               /\ slot[l].end <= Capacity(mem, slot[l].buf)

\* "Create a copy of the spanned memory": the blocks of a span hold the bytes
\* that were put into it, in order and counted by size_, after any trimming,
\* copying, moving and cloning; and where CloneSpannedMem may be called, it
\* returns them.
SpansHoldTheirBytes ==
    \A x \in Spans :
        /\ BlockBytes(st0, x, block_count_[x]) = text[x]
        /\ size_[x] = Len(text[x])
        /\ Spannable(block_count_[x])
               => SpannedMem(st0, x, size_[x], block_count_[x]) = text[x]
=============================================================================
