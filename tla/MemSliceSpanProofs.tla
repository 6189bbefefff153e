------------------------- MODULE MemSliceSpanProofs -------------------------
(***************************************************************************)
(* Reference counting is right, and spans keep their bytes, for every      *)
(* number of spans, buffers and calls: SlicesAreSound and                  *)
(* SpansHoldTheirBytes, as theorems.                                       *)
(*                                                                         *)
(* SlicesAreSound speaks of the memory between calls.  Within a call there *)
(* are buffers that no slice holds yet, so Sound carries the set F of      *)
(* those.  Every operation on slices is shown to keep Sound, a loop over   *)
(* blocks by its rounds, and an operation of the span by its loops.        *)
(*                                                                         *)
(* SpansHoldTheirBytes needs BytesInv: the blocks of a span read as its    *)
(* text, size_ is its length, and no buffer is larger than the bound.  An  *)
(* operation either makes no buffer (Shrinks), and then a slice that it    *)
(* keeps or moves reads what it read, or fills one new buffer (Filled).    *)
(***************************************************************************)
EXTENDS MemSliceSpan, FiniteSetTheorems, SequenceTheorems, TLAPS

Mems == [live : SUBSET Bufs, ref : [Bufs -> Nat], data : [Bufs -> Seq(Bytes)],
         fault : BOOLEAN]
Slices == [buf : Bufs \cup {NoBuf}, begin : Nat, end : Nat]

\* The slices on a buffer.
Users(sl, b) == {l \in Locations : sl[l].buf = b}

\* A slice stays within its buffer, and one without a buffer is empty.
Fits(m, s) ==
    IF s.buf = NoBuf THEN s = Empty
    ELSE s.begin <= s.end /\ s.end <= Capacity(m, s.buf)

\* The memory is sound, but for the buffers F, which nobody holds yet.
SoundBut(m, sl, F) ==
    /\ m \in Mems
    /\ sl \in [Locations -> Slices]
    /\ m.fault = FALSE
    /\ \A b \in Bufs : b \in m.live <=> b \in F \/ Users(sl, b) # {}
    /\ \A b \in F : b \in Bufs /\ Users(sl, b) = {}
    /\ \A b \in Bufs : m.ref[b] = Cardinality(Users(sl, b))
    /\ \A l \in Locations : Fits(m, sl[l])

States == [mem : Mems, slot : [Locations -> Slices]]

Sound(st) == st \in States /\ SoundBut(st.mem, st.slot, {})

-----------------------------------------------------------------------------
(* Counting the slices on a buffer.                                        *)

\* A span has finitely many slots, and there are finitely many spans.
LEMMA LocationsAreFinite == IsFiniteSet(Locations)
<1>1. IsFiniteSet({"tmp"}) /\ IsFiniteSet({"param"}) /\ IsFiniteSet({"local"})
  BY FS_Singleton
<1>2. IsFiniteSet(Spans \cup {"tmp"} \cup {"param"} \cup {"local"})
  BY <1>1, SpansAreNamed, FS_Union
<1> DEFINE names == Spans \cup {"tmp"} \cup {"param"} \cup {"local"}
<1>3. IsFiniteSet(names \X (0..3))
  <2>1. IsFiniteSet(0..3)
    <3>1. \A i, j \in Int : IsFiniteSet(i..j)
      BY FS_Interval
    <3>2. 0 \in Int /\ 3 \in Int
      OBVIOUS
    <3>3. QED
      BY <3>1, <3>2, Zenon
  <2>2. IsFiniteSet(names)
    BY <1>2
  <2> HIDE DEF names
  <2>3. QED
    BY <2>1, <2>2, FS_Product
<1>4. Locations \in SUBSET (names \X (0..3))
  BY DEF Locations, Param, Local, kMaxBlocks
<1>5. QED
  BY <1>3, <1>4, FS_Subset

\* The slices on a buffer can be counted.
LEMMA UsersAreFinite ==
    ASSUME NEW sl, NEW b
    PROVE  /\ IsFiniteSet(Users(sl, b))
           /\ Cardinality(Users(sl, b)) \in Nat
           /\ Cardinality(Users(sl, b)) = 0 <=> Users(sl, b) = {}
<1>1. Users(sl, b) \in SUBSET Locations
  BY DEF Users
<1>2. IsFiniteSet(Users(sl, b))
  BY <1>1, LocationsAreFinite, FS_Subset
<1>3. QED
  BY <1>2, FS_CardinalityType, FS_EmptySet

\* A slice leaves a buffer.
LEMMA OneUserLess ==
    ASSUME NEW sl \in [Locations -> Slices], NEW l \in Locations, NEW s \in Slices,
           NEW b, sl[l].buf = b, s.buf # b
    PROVE  /\ Users([sl EXCEPT ![l] = s], b) = Users(sl, b) \ {l}
           /\ Cardinality(Users([sl EXCEPT ![l] = s], b))
                = Cardinality(Users(sl, b)) - 1
           /\ Cardinality(Users(sl, b)) >= 1
<1>1. Users([sl EXCEPT ![l] = s], b) = Users(sl, b) \ {l}
  BY DEF Users
<1>2. l \in Users(sl, b)
  BY DEF Users
<1>3. Cardinality(Users(sl, b) \ {l}) = Cardinality(Users(sl, b)) - 1
  BY <1>2, UsersAreFinite, FS_RemoveElement
<1>4. Cardinality(Users(sl, b)) # 0 /\ Cardinality(Users(sl, b)) \in Nat
  BY <1>2, UsersAreFinite
<1>5. Cardinality(Users(sl, b)) >= 1
  BY <1>4
<1>6. QED
  BY <1>1, <1>3, <1>5

\* A slice is put on a buffer.
LEMMA OneUserMore ==
    ASSUME NEW sl \in [Locations -> Slices], NEW l \in Locations, NEW s \in Slices,
           NEW b, sl[l].buf # b, s.buf = b
    PROVE  Cardinality(Users([sl EXCEPT ![l] = s], b)) = Cardinality(Users(sl, b)) + 1
<1>1. Users([sl EXCEPT ![l] = s], b) = Users(sl, b) \cup {l} /\ l \notin Users(sl, b)
  BY DEF Users
<1>2. QED
  BY <1>1, UsersAreFinite, FS_AddElement

\* Other buffers are not concerned.
LEMMA SameUsers ==
    ASSUME NEW sl \in [Locations -> Slices], NEW l \in Locations, NEW s \in Slices,
           NEW b, sl[l].buf = b <=> s.buf = b
    PROVE  Users([sl EXCEPT ![l] = s], b) = Users(sl, b)
BY DEF Users

-----------------------------------------------------------------------------
(* References to a buffer.                                                 *)

\* Empty is a slice; NoBuf is no buffer.
LEMMA EmptyIsSlice == Empty \in Slices /\ Empty.buf = NoBuf /\ NoBuf \notin Bufs
BY SizesAreNumbers DEF Empty, Slices, NoBuf

\* Release by the slice in l, which is empty afterwards (~MemSlice).
LEMMA ReleaseKeeps ==
    ASSUME NEW m, NEW sl, NEW F, SoundBut(m, sl, F), NEW l \in Locations,
           sl[l].buf # NoBuf
    PROVE  /\ SoundBut(Release(m, sl[l].buf), [sl EXCEPT ![l] = Empty], F)
           /\ Release(m, sl[l].buf).live \subseteq m.live
           /\ \A b \in Release(m, sl[l].buf).live :
                 Release(m, sl[l].buf).data[b] = m.data[b]
<1> DEFINE b == sl[l].buf
           t == [sl EXCEPT ![l] = Empty]
<1>1. b \in Bufs /\ b \in m.live /\ b \notin F
  <2>1. b \in Bufs /\ Users(sl, b) # {}
    BY DEF SoundBut, Slices, Users
  <2>2. QED
    BY <2>1 DEF SoundBut
<1>2. /\ m \in Mems /\ sl \in [Locations -> Slices] /\ m.fault = FALSE
      /\ t \in [Locations -> Slices]
  BY EmptyIsSlice DEF SoundBut
<1>3. /\ Users(t, b) = Users(sl, b) \ {l}
      /\ Cardinality(Users(t, b)) = Cardinality(Users(sl, b)) - 1
      /\ m.ref[b] = Cardinality(Users(sl, b)) /\ m.ref[b] >= 1
  <2>1. Empty \in Slices /\ Empty.buf # b
    BY EmptyIsSlice
  <2>2. /\ Users(t, b) = Users(sl, b) \ {l}
        /\ Cardinality(Users(t, b)) = Cardinality(Users(sl, b)) - 1
        /\ Cardinality(Users(sl, b)) >= 1
    BY <1>2, <2>1, OneUserLess
  <2>3. m.ref[b] = Cardinality(Users(sl, b))
    BY <1>1 DEF SoundBut
  <2>4. QED
    BY <2>2, <2>3
<1>4. \A c \in Bufs : c # b => Users(t, c) = Users(sl, c)
  BY <1>1, <1>2, EmptyIsSlice, SameUsers
<1>5. CASE m.ref[b] <= 1
  <2> DEFINE n == [live |-> m.live \ {b}, ref |-> [m.ref EXCEPT ![b] = 0],
                   data |-> [m.data EXCEPT ![b] = <<>>], fault |-> m.fault]
  <2>1. Release(m, b) = n
    <3>1. Release(m, b)
            = [m EXCEPT !.live = @ \ {b}, !.ref[b] = 0, !.data[b] = <<>>]
      BY <1>1, <1>5 DEF Release
    <3>2. QED
      BY <1>2, <3>1 DEF Mems
  <2>2. /\ n \in Mems /\ n.fault = FALSE /\ n.live = m.live \ {b}
        /\ n.ref = [m.ref EXCEPT ![b] = 0]
        /\ n.data = [m.data EXCEPT ![b] = <<>>]
    BY <1>1, <1>2 DEF Mems
  <2>3. Cardinality(Users(t, b)) = 0
    BY <1>2, <1>1, <1>3, <1>5 DEF Mems
  <2>4. Users(t, b) = {}
    BY <2>3, UsersAreFinite
  <2>5. \A k \in Locations : t[k].buf # b
    BY <2>4 DEF Users
  <2> HIDE DEF n
  <2>6. \A c \in Bufs : n.ref[c] = Cardinality(Users(t, c))
    BY <1>1, <1>2, <1>4, <2>2, <2>3 DEF SoundBut, Mems
  <2>7. \A k \in Locations : Fits(n, t[k])
    <3>1. SUFFICES ASSUME NEW k \in Locations, k # l PROVE Fits(n, t[k])
      BY <1>2, EmptyIsSlice DEF Fits
    <3>2. t[k] = sl[k] /\ sl[k].buf # b /\ Fits(m, sl[k])
      BY <1>2, <2>5, <3>1 DEF SoundBut
    <3>3. sl[k].buf \in Bufs => n.data[sl[k].buf] = m.data[sl[k].buf]
      BY <1>2, <2>2, <3>2 DEF Mems
    <3>4. QED
      BY <1>2, <3>2, <3>3 DEF Fits, Capacity, Slices
  <2>8. \A c \in Bufs : c \in n.live <=> c \in F \/ Users(t, c) # {}
    BY <1>1, <1>4, <2>2, <2>4 DEF SoundBut
  <2>9. \A c \in F : c \in Bufs /\ Users(t, c) = {}
    BY <1>1, <1>4 DEF SoundBut
  <2>10. SoundBut(n, t, F)
    BY <1>2, <2>2, <2>6, <2>7, <2>8, <2>9 DEF SoundBut
  <2>11. n.live \subseteq m.live /\ \A c \in n.live : n.data[c] = m.data[c]
    BY <1>2, <2>2 DEF Mems
  <2>12. QED
    BY <2>1, <2>10, <2>11
<1>6. CASE ~(m.ref[b] <= 1)
  <2> DEFINE n == [m EXCEPT !.ref[b] = @ - 1]
  <2>1. Release(m, b) = n
    BY <1>1, <1>6 DEF Release
  <2>2. m.ref[b] \in Nat /\ m.ref[b] - 1 \in Nat
    BY <1>1, <1>2, <1>6 DEF Mems
  <2>3. /\ n \in Mems /\ n.fault = FALSE /\ n.live = m.live
        /\ n.ref = [m.ref EXCEPT ![b] = m.ref[b] - 1] /\ n.data = m.data
    BY <1>1, <1>2, <2>2 DEF Mems
  <2>4. Cardinality(Users(t, b)) # 0
    BY <1>3, <1>6, <2>2
  <2>5. Users(t, b) # {}
    BY <2>4, FS_EmptySet
  <2> HIDE DEF n
  <2>6. \A c \in Bufs : n.ref[c] = Cardinality(Users(t, c))
    BY <1>1, <1>2, <1>3, <1>4, <2>2, <2>3 DEF SoundBut, Mems
  <2>7. \A k \in Locations : Fits(n, t[k])
    BY <1>2, <2>3, EmptyIsSlice DEF SoundBut, Fits, Capacity
  <2>8. \A c \in Bufs : c \in n.live <=> c \in F \/ Users(t, c) # {}
    BY <1>1, <1>4, <2>3, <2>5 DEF SoundBut
  <2>9. \A c \in F : c \in Bufs /\ Users(t, c) = {}
    BY <1>1, <1>4 DEF SoundBut
  <2>10. SoundBut(n, t, F)
    BY <1>2, <2>3, <2>6, <2>7, <2>8, <2>9 DEF SoundBut
  <2>11. QED
    BY <2>1, <2>3, <2>10
<1>7. QED
  BY <1>5, <1>6

\* AddRef for the slice s, which is put where there was none.
LEMMA ShareKeeps ==
    ASSUME NEW m, NEW sl, NEW F, SoundBut(m, sl, F), NEW l \in Locations,
           sl[l].buf = NoBuf, NEW s \in Slices, s.buf \in m.live, Fits(m, s)
    PROVE  /\ SoundBut(AddRef(m, s.buf), [sl EXCEPT ![l] = s], F \ {s.buf})
           /\ AddRef(m, s.buf).live = m.live
           /\ AddRef(m, s.buf).data = m.data
<1> DEFINE b == s.buf
           t == [sl EXCEPT ![l] = s]
           n == [m EXCEPT !.ref[b] = @ + 1]
<1>1. /\ m \in Mems /\ sl \in [Locations -> Slices] /\ m.fault = FALSE
      /\ t \in [Locations -> Slices] /\ b \in Bufs /\ b # NoBuf
  BY EmptyIsSlice DEF SoundBut, Mems
<1>2. AddRef(m, b) = n
  BY <1>1 DEF AddRef, Mems
<1>3. m.ref[b] \in Nat /\ m.ref[b] + 1 \in Nat
  BY <1>1 DEF Mems
<1>4. /\ n \in Mems /\ n.fault = FALSE /\ n.live = m.live
      /\ n.ref = [m.ref EXCEPT ![b] = m.ref[b] + 1] /\ n.data = m.data
  BY <1>1, <1>3 DEF Mems
<1>5. Cardinality(Users(t, b)) = Cardinality(Users(sl, b)) + 1 /\ Users(t, b) # {}
  <2>1. Cardinality(Users(t, b)) = Cardinality(Users(sl, b)) + 1
    BY <1>1, OneUserMore
  <2>2. l \in Users(t, b)
    BY <1>1 DEF Users
  <2>3. QED
    BY <2>1, <2>2
<1>6. ASSUME NEW c \in Bufs, c # b PROVE Users(t, c) = Users(sl, c)
  <2>1. sl[l].buf = c <=> s.buf = c
    BY <1>6, EmptyIsSlice
  <2>2. QED
    BY <1>1, <2>1, SameUsers
<1> HIDE DEF n
<1>7. ASSUME NEW c \in Bufs PROVE n.ref[c] = Cardinality(Users(t, c))
  <2>1. m.ref[c] = Cardinality(Users(sl, c)) /\ m.ref \in [Bufs -> Nat]
    BY <1>1 DEF SoundBut, Mems
  <2>2. CASE c = b
    BY <1>1, <1>4, <1>5, <2>1, <2>2
  <2>3. CASE c # b
    BY <1>1, <1>4, <1>6, <2>1, <2>3
  <2>4. QED
    BY <2>2, <2>3
<1>8. \A k \in Locations : Fits(n, t[k])
  BY <1>1, <1>4 DEF SoundBut, Fits, Capacity
<1>9. \A c \in Bufs : c \in n.live <=> c \in F \ {b} \/ Users(t, c) # {}
  BY <1>4, <1>5, <1>6 DEF SoundBut
<1>10. \A c \in F \ {b} : c \in Bufs /\ Users(t, c) = {}
  BY <1>6 DEF SoundBut
<1>11. SoundBut(n, t, F \ {b})
  BY <1>1, <1>4, <1>7, <1>8, <1>9, <1>10 DEF SoundBut
<1>12. QED
  BY <1>2, <1>4, <1>11

\* Two slices change places (operator=(MemSlice &&)).
LEMMA SwapKeeps ==
    ASSUME NEW m, NEW sl, NEW F, SoundBut(m, sl, F),
           NEW l \in Locations, NEW r \in Locations
    PROVE  SoundBut(m, [sl EXCEPT ![l] = sl[r], ![r] = sl[l]], F)
<1> DEFINE t == [sl EXCEPT ![l] = sl[r], ![r] = sl[l]]
<1>1. sl \in [Locations -> Slices] /\ t \in [Locations -> Slices]
  BY DEF SoundBut
<1>2. \A k \in Locations : t[k] = IF k = r THEN sl[l] ELSE IF k = l THEN sl[r] ELSE sl[k]
  BY <1>1
<1> HIDE DEF t
<1>3. ASSUME NEW b
      PROVE  /\ Cardinality(Users(t, b)) = Cardinality(Users(sl, b))
             /\ Users(t, b) = {} <=> Users(sl, b) = {}
  <2>1. CASE sl[l].buf = b <=> sl[r].buf = b
    <3>1. Users(t, b) = Users(sl, b)
      BY <1>2, <2>1 DEF Users
    <3>2. QED
      BY <3>1
  <2>2. ASSUME NEW p \in Locations, NEW q \in Locations, p # q,
               sl[p].buf = b, sl[q].buf # b, t[p] = sl[q], t[q] = sl[p],
               \A k \in Locations : k # p /\ k # q => t[k] = sl[k]
        PROVE  /\ Cardinality(Users(t, b)) = Cardinality(Users(sl, b))
               /\ Users(t, b) = {} <=> Users(sl, b) = {}
    <3>1. /\ Users(t, b) = (Users(sl, b) \ {p}) \cup {q}
          /\ p \in Users(sl, b) /\ q \notin Users(sl, b) \ {p}
      BY <2>2 DEF Users
    <3>2. /\ IsFiniteSet(Users(sl, b) \ {p})
          /\ Cardinality(Users(sl, b) \ {p}) = Cardinality(Users(sl, b)) - 1
      BY <3>1, UsersAreFinite, FS_RemoveElement
    <3>3. Cardinality(Users(t, b)) = Cardinality(Users(sl, b) \ {p}) + 1
      BY <3>1, <3>2, FS_AddElement
    <3>4. Cardinality(Users(sl, b)) \in Nat
      BY UsersAreFinite
    <3>5. QED
      BY <3>1, <3>2, <3>3, <3>4
  <2>3. CASE sl[l].buf = b /\ sl[r].buf # b
    BY <1>2, <2>2, <2>3
  <2>4. CASE sl[l].buf # b /\ sl[r].buf = b
    BY <1>2, <2>2, <2>4
  <2>5. QED
    BY <2>1, <2>3, <2>4
<1>4. \A k \in Locations : Fits(m, t[k])
  BY <1>2 DEF SoundBut
<1>5. QED
  BY <1>1, <1>3, <1>4 DEF SoundBut, t

\* A new buffer, which nobody holds yet (MemBuf::Create).
LEMMA CreateKeeps ==
    ASSUME NEW m, NEW sl, SoundBut(m, sl, {}), NEW bytes \in Seq(Bytes),
           \E b \in Bufs : b \notin m.live
    PROVE  /\ Fresh(m) \in Bufs /\ Fresh(m) \notin m.live
           /\ SoundBut(Create(m, bytes), sl, {Fresh(m)})
           /\ Create(m, bytes).live = m.live \cup {Fresh(m)}
           /\ Create(m, bytes).data = [m.data EXCEPT ![Fresh(m)] = bytes]
<1> DEFINE b == Fresh(m)
           n == [live |-> m.live \cup {b}, ref |-> m.ref,
                 data |-> [m.data EXCEPT ![b] = bytes], fault |-> m.fault]
<1>1. b \in Bufs /\ b \notin m.live
  BY DEF Fresh
<1>2. m \in Mems /\ sl \in [Locations -> Slices] /\ m.fault = FALSE
  BY DEF SoundBut
<1> HIDE DEF b
<1>3. Create(m, bytes) = n
  <2>1. Create(m, bytes) = [m EXCEPT !.live = @ \cup {b}, !.data[b] = bytes]
    BY DEF Create, b
  <2>2. QED
    BY <1>2, <2>1 DEF Mems
<1>4. n \in Mems
  BY <1>1, <1>2 DEF Mems
<1>5. Users(sl, b) = {}
  BY <1>1 DEF SoundBut
<1>6. \A k \in Locations : Fits(n, sl[k])
  <2>1. SUFFICES ASSUME NEW k \in Locations, sl[k].buf # NoBuf
                 PROVE  Fits(n, sl[k])
    BY DEF SoundBut, Fits
  <2>2. sl[k].buf \in Bufs /\ sl[k].buf # b
    BY <1>2, <1>5, <2>1 DEF Slices, Users
  <2>3. n.data[sl[k].buf] = m.data[sl[k].buf]
    BY <1>2, <2>2 DEF Mems
  <2>4. QED
    BY <2>1, <2>3 DEF SoundBut, Fits, Capacity
<1>7. \A c \in Bufs : c \in n.live <=> c \in {b} \/ Users(sl, c) # {}
  BY <1>1 DEF SoundBut
<1>8. SoundBut(n, sl, {b})
  BY <1>1, <1>2, <1>4, <1>5, <1>6, <1>7 DEF SoundBut
<1>9. QED
  BY <1>1, <1>3, <1>8 DEF b

-----------------------------------------------------------------------------
(* Operations on slices.                                                   *)

\* A slice gives up its buffer, if it has one (~MemSlice).
LEMMA ResetSliceKeeps ==
    ASSUME NEW st, Sound(st), NEW l \in Locations
    PROVE  /\ Sound(ResetSlice(st, l))
           /\ ResetSlice(st, l).slot = [st.slot EXCEPT ![l] = Empty]
<1>0. st \in States /\ SoundBut(st.mem, st.slot, {})
  BY DEF Sound
<1>1. CASE st.slot[l].buf = NoBuf
  <2>1. st.slot[l] = Empty
    BY <1>0, <1>1 DEF SoundBut, Fits
  <2>2. [st.slot EXCEPT ![l] = Empty] = st.slot
    BY <1>0, <2>1 DEF States
  <2>3. QED
    BY <1>1, <2>2 DEF ResetSlice
<1>2. CASE st.slot[l].buf # NoBuf
  <2> DEFINE m == Release(st.mem, st.slot[l].buf)
             t == [st.slot EXCEPT ![l] = Empty]
  <2>1. SoundBut(m, t, {})
    BY <1>0, <1>2, ReleaseKeeps
  <2>2. m \in Mems /\ t \in [Locations -> Slices]
    BY <2>1 DEF SoundBut
  <2> HIDE DEF m, t
  <2>3. ResetSlice(st, l) = [mem |-> m, slot |-> t]
    BY <1>2 DEF ResetSlice, m, t
  <2>4. QED
    BY <2>1, <2>2, <2>3 DEF Sound, States, t
<1>3. QED
  BY <1>1, <1>2

\* A slice becomes a copy of another (operator=(const MemSlice &)).
LEMMA CopySliceKeeps ==
    ASSUME NEW st, Sound(st), NEW l \in Locations, NEW r \in Locations, l # r
    PROVE  /\ Sound(CopySlice(st, l, r))
           /\ CopySlice(st, l, r).slot = [st.slot EXCEPT ![l] = st.slot[r]]
<1> DEFINE a == ResetSlice(st, l)
           s == st.slot[r]
           t == [st.slot EXCEPT ![l] = s]
<1>1. st \in States /\ st.slot \in [Locations -> Slices] /\ s \in Slices
  BY DEF Sound, States
<1>2. Sound(a) /\ a.slot = [st.slot EXCEPT ![l] = Empty]
  BY ResetSliceKeeps
<1>3. a.mem = IF st.slot[l].buf = NoBuf THEN st.mem
              ELSE Release(st.mem, st.slot[l].buf)
  BY DEF ResetSlice
<1>4. CopySlice(st, l, r)
        = [mem  |-> IF s.buf = NoBuf THEN a.mem ELSE AddRef(a.mem, s.buf),
           slot |-> t]
  BY <1>3 DEF CopySlice
<1> HIDE DEF a
<1>5. SoundBut(a.mem, a.slot, {}) /\ a.mem \in Mems
  BY <1>2 DEF Sound, States
<1>6. /\ a.slot[r] = s /\ a.slot[l] = Empty /\ [a.slot EXCEPT ![l] = s] = t
      /\ Fits(a.mem, s)
  <2>1. a.slot[r] = s /\ a.slot[l] = Empty /\ [a.slot EXCEPT ![l] = s] = t
    BY <1>1, <1>2
  <2>2. Fits(a.mem, a.slot[r])
    BY <1>5 DEF SoundBut
  <2>3. QED
    BY <2>1, <2>2
<1>7. CASE s.buf = NoBuf
  <2>1. s = Empty
    BY <1>6, <1>7 DEF Fits
  <2>2. t = a.slot
    BY <1>2, <2>1
  <2>3. CopySlice(st, l, r) = [mem |-> a.mem, slot |-> a.slot]
    BY <1>4, <1>7, <2>2
  <2>4. QED
    BY <1>2, <1>5, <2>2, <2>3 DEF Sound, States
<1>8. CASE s.buf # NoBuf
  <2>1. s.buf \in Bufs /\ Users(a.slot, s.buf) # {}
    BY <1>1, <1>6, <1>8 DEF Slices, Users
  <2>2. s.buf \in a.mem.live
    BY <1>5, <2>1 DEF SoundBut
  <2>3. a.slot[l].buf = NoBuf
    BY <1>6, EmptyIsSlice
  <2>4. SoundBut(AddRef(a.mem, s.buf), [a.slot EXCEPT ![l] = s], {} \ {s.buf})
    BY <1>1, <1>5, <1>6, <2>2, <2>3, ShareKeeps
  <2>5. SoundBut(AddRef(a.mem, s.buf), t, {})
    <3>1. {} \ {s.buf} = {}
      OBVIOUS
    <3>2. QED
      BY <1>6, <2>4, <3>1
  <2>6. AddRef(a.mem, s.buf) \in Mems /\ t \in [Locations -> Slices]
    BY <2>5 DEF SoundBut
  <2>7. CopySlice(st, l, r) = [mem |-> AddRef(a.mem, s.buf), slot |-> t]
    BY <1>4, <1>8
  <2>8. QED
    BY <2>5, <2>6, <2>7 DEF Sound, States
<1>9. QED
  BY <1>7, <1>8

\* Two slices are swapped.
LEMMA SwapSliceKeeps ==
    ASSUME NEW st, Sound(st), NEW l \in Locations, NEW r \in Locations
    PROVE  /\ Sound(SwapSlice(st, l, r))
           /\ SwapSlice(st, l, r).slot
                = [st.slot EXCEPT ![l] = st.slot[r], ![r] = st.slot[l]]
<1> DEFINE t == [st.slot EXCEPT ![l] = st.slot[r], ![r] = st.slot[l]]
<1>1. st \in States /\ st.slot \in [Locations -> Slices]
  BY DEF Sound, States
<1>2. SwapSlice(st, l, r) = [mem |-> st.mem, slot |-> t]
  BY <1>1 DEF SwapSlice, States
<1>3. SoundBut(st.mem, t, {})
  BY SwapKeeps DEF Sound
<1>4. t \in [Locations -> Slices] /\ st.mem \in Mems
  BY <1>3 DEF SoundBut
<1> HIDE DEF t
<1>5. QED
  BY <1>2, <1>3, <1>4 DEF Sound, States, t

\* A buffer made for the slice s, which is put where there was none: the
\* constructor from a buffer, Reset(buffer) and MemSlice::Clone.
LEMMA FillKeeps ==
    ASSUME NEW m, NEW sl, NEW b \in Bufs, SoundBut(m, sl, {b}), b \in m.live,
           NEW l \in Locations, sl[l].buf = NoBuf,
           NEW s \in Slices, s.buf = b, Fits(m, s),
           NEW st, st = [mem |-> AddRef(m, b), slot |-> [sl EXCEPT ![l] = s]]
    PROVE  Sound(st)
<1>1. SoundBut(AddRef(m, s.buf), [sl EXCEPT ![l] = s], {b} \ {s.buf})
  BY ShareKeeps
<1>2. {b} \ {s.buf} = {}
  OBVIOUS
<1>3. SoundBut(AddRef(m, b), [sl EXCEPT ![l] = s], {})
  BY <1>1, <1>2
<1>4. AddRef(m, b) \in Mems /\ [sl EXCEPT ![l] = s] \in [Locations -> Slices]
  BY <1>3 DEF SoundBut
<1>5. QED
  BY <1>3, <1>4 DEF Sound, States

\* a is st with a new buffer of these bytes, and a slice of it in l.
Filled(st, a, l, bytes, begin, end) ==
    /\ Fresh(st.mem) \in Bufs /\ Fresh(st.mem) \notin st.mem.live
    /\ a.mem.live = st.mem.live \cup {Fresh(st.mem)}
    /\ a.mem.data = [st.mem.data EXCEPT ![Fresh(st.mem)] = bytes]
    /\ a.slot = [st.slot EXCEPT ![l] =
                    [buf |-> Fresh(st.mem), begin |-> begin, end |-> end]]

\* MemSlice::Clone, into an empty slice.
LEMMA CloneSliceKeeps ==
    ASSUME NEW st, Sound(st), NEW l \in Locations, NEW r \in Locations,
           st.slot[l].buf = NoBuf, st.slot[r].buf # NoBuf,
           \E b \in Bufs : b \notin st.mem.live
    PROVE  /\ Sound(CloneSlice(st, l, r))
           /\ CloneSlice(st, l, r).slot
                = [st.slot EXCEPT ![l] = CloneSlice(st, l, r).slot[l]]
           /\ CloneSlice(st, l, r).slot[l].buf # NoBuf
           /\ CloneSlice(st, l, r).mem.live = st.mem.live \cup {Fresh(st.mem)}
           /\ Filled(st, CloneSlice(st, l, r), l, st.mem.data[st.slot[r].buf],
                     st.slot[r].begin, st.slot[r].end)
           /\ Fresh(st.mem) \in Bufs /\ Fresh(st.mem) \notin st.mem.live
<1> DEFINE s == st.slot[r]
           b == Fresh(st.mem)
           bytes == st.mem.data[s.buf]
           m == Create(st.mem, bytes)
           c == [buf |-> b, begin |-> s.begin, end |-> s.end]
           a == [mem |-> AddRef(m, b), slot |-> [st.slot EXCEPT ![l] = c]]
<1>1. /\ st \in States /\ st.mem \in Mems /\ st.slot \in [Locations -> Slices]
      /\ s \in Slices /\ s.buf \in Bufs /\ bytes \in Seq(Bytes)
      /\ s.begin <= s.end /\ s.end <= Len(bytes)
  <2>1. st \in States /\ st.mem \in Mems /\ st.slot \in [Locations -> Slices]
    BY DEF Sound, States
  <2>2. s \in Slices /\ s.buf \in Bufs
    BY <2>1 DEF Slices
  <2>3. Fits(st.mem, s)
    BY DEF Sound, SoundBut
  <2>4. QED
    BY <2>1, <2>2, <2>3 DEF Mems, Fits, Capacity
<1>2. /\ b \in Bufs /\ b \notin st.mem.live
      /\ SoundBut(m, st.slot, {b})
      /\ m.live = st.mem.live \cup {b}
      /\ m.data = [st.mem.data EXCEPT ![b] = bytes]
  BY <1>1, CreateKeeps DEF Sound
<1>3. c \in Slices /\ c.buf = b /\ b # NoBuf
  BY <1>1, <1>2, EmptyIsSlice DEF Slices
<1>4. Fits(m, c) /\ m.data[b] = bytes
  BY <1>1, <1>2, <1>3 DEF Fits, Capacity, Mems
<1>5. CloneSlice(st, l, r) = a
  <2> DEFINE u == [st EXCEPT !.mem = m]
             v == Initialize(u, l, b)
             w == Construct(u, l, b)
             d == [buf |-> b, begin |-> 0, end |-> Len(bytes)]
  <2>1. u = [mem |-> m, slot |-> st.slot]
    BY <1>1 DEF States
  <2>2. v = [mem |-> AddRef(m, b), slot |-> [st.slot EXCEPT ![l] = d]]
    BY <1>4, <2>1 DEF Initialize, Capacity
  <2>3. w = [v EXCEPT !.slot[l].end = Smaller(SliceLimit, @)]
    BY DEF Construct
  <2>4. CloneSlice(st, l, r)
          = [w EXCEPT !.slot[l] = [buf |-> @.buf, begin |-> s.begin, end |-> s.end]]
    BY DEF CloneSlice, CloneBuf
  <2> HIDE DEF u, v, w, m, s, b, bytes
  <2>5. w = [mem  |-> AddRef(m, b),
             slot |-> [st.slot EXCEPT ![l] =
                          [buf |-> b, begin |-> 0,
                           end |-> Smaller(SliceLimit, Len(bytes))]]]
    BY <1>1, <2>2, <2>3
  <2>6. w.slot[l] = [buf |-> b, begin |-> 0,
                     end |-> Smaller(SliceLimit, Len(bytes))]
    BY <1>1, <2>5
  <2>7. [buf |-> w.slot[l].buf, begin |-> s.begin, end |-> s.end] = c
    BY <2>6
  <2>8. CloneSlice(st, l, r) = [w EXCEPT !.slot[l] = c]
    BY <2>4, <2>7
  <2>9. QED
    BY <1>1, <2>5, <2>8
<1>6. b \in m.live
  BY <1>2
<1>7. Sound(a)
  BY <1>2, <1>3, <1>4, <1>6, FillKeeps
<1>8. AddRef(m, b).live = m.live /\ AddRef(m, b).data = m.data
  BY <1>2, <1>3, <1>4, <1>6, ShareKeeps
<1>9. /\ a.slot = [st.slot EXCEPT ![l] = a.slot[l]] /\ a.slot[l].buf # NoBuf
      /\ a.slot[l] = c
      /\ a.mem.live = st.mem.live \cup {b}
      /\ a.mem.data = [st.mem.data EXCEPT ![b] = bytes]
  BY <1>1, <1>2, <1>3, <1>8
<1>10. Filled(st, a, l, bytes, s.begin, s.end)
  BY <1>2, <1>9 DEF Filled
<1> HIDE DEF a
<1>11. QED
  BY <1>2, <1>5, <1>7, <1>9, <1>10

\* The constructor from a new buffer, in an empty slice.
LEMMA ConstructKeeps ==
    ASSUME NEW st, Sound(st), NEW l \in Locations, st.slot[l].buf = NoBuf,
           NEW bytes \in Seq(Bytes), \E b \in Bufs : b \notin st.mem.live
    PROVE  /\ Sound(ConstructNew(st, l, bytes))
           /\ ConstructNew(st, l, bytes).slot
                = [st.slot EXCEPT ![l] = ConstructNew(st, l, bytes).slot[l]]
           /\ ConstructNew(st, l, bytes).slot[l].buf # NoBuf
           /\ Filled(st, ConstructNew(st, l, bytes), l, bytes, 0,
                     Smaller(SliceLimit, Len(bytes)))
<1> DEFINE b == Fresh(st.mem)
           m == Create(st.mem, bytes)
           end == Smaller(SliceLimit, Len(bytes))
           d == [buf |-> b, begin |-> 0, end |-> end]
           a == [mem |-> AddRef(m, b), slot |-> [st.slot EXCEPT ![l] = d]]
<1>1. st \in States /\ st.mem \in Mems /\ st.slot \in [Locations -> Slices]
  BY DEF Sound, States
<1>2. /\ b \in Bufs /\ b \notin st.mem.live
      /\ SoundBut(m, st.slot, {b})
      /\ m.live = st.mem.live \cup {b}
      /\ m.data = [st.mem.data EXCEPT ![b] = bytes]
  BY <1>1, CreateKeeps DEF Sound
<1>3. end \in Nat /\ end <= Len(bytes)
  BY SizesAreNumbers DEF Smaller
<1>4. m.data[b] = bytes
  BY <1>1, <1>2 DEF Mems
<1> HIDE DEF end
<1>5. d \in Slices /\ d.buf = b /\ b # NoBuf
  BY <1>2, <1>3, EmptyIsSlice DEF Slices
<1>6. Fits(m, d)
  BY <1>3, <1>4, <1>5 DEF Fits, Capacity
<1>7. ConstructNew(st, l, bytes) = a
  <2> DEFINE u == [mem |-> m, slot |-> st.slot]
             v == Initialize(u, l, b)
             w == ConstructNew(st, l, bytes)
  <2>1. v = [mem  |-> AddRef(m, b),
             slot |-> [st.slot EXCEPT ![l] =
                          [buf |-> b, begin |-> 0, end |-> Len(bytes)]]]
    BY <1>4 DEF Initialize, Capacity
  <2>2. w = [v EXCEPT !.slot[l].end = Smaller(SliceLimit, @)]
    BY DEF ConstructNew, Construct
  <2> HIDE DEF u, v, w, m, b
  <2>3. w = [mem  |-> AddRef(m, b),
             slot |-> [st.slot EXCEPT ![l] =
                          [buf |-> b, begin |-> 0,
                           end |-> Smaller(SliceLimit, Len(bytes))]]]
    BY <1>1, <2>1, <2>2
  <2>4. QED
    BY <2>3, Zenon DEF end, w
<1>8. Sound(a)
  BY <1>2, <1>5, <1>6, FillKeeps
<1>9. AddRef(m, b).live = m.live /\ AddRef(m, b).data = m.data
  BY <1>2, <1>5, <1>6, ShareKeeps
<1>10. /\ a.slot = [st.slot EXCEPT ![l] = a.slot[l]] /\ a.slot[l].buf # NoBuf
       /\ a.slot[l] = d
       /\ a.mem.live = st.mem.live \cup {b}
       /\ a.mem.data = [st.mem.data EXCEPT ![b] = bytes]
  BY <1>1, <1>2, <1>5, <1>9
<1>11. Filled(st, a, l, bytes, 0, end)
  BY <1>2, <1>10 DEF Filled
<1> HIDE DEF a
<1>12. QED
  BY <1>7, <1>8, <1>10, <1>11 DEF end

-----------------------------------------------------------------------------
(* Loops over the blocks of a span.                                        *)

\* The spans, and the one a function returns.
Names == Spans \cup {"tmp"}

\* The slots of spans are locations, and none is the parameter or the local.
LEMMA LocationFacts ==
    /\ \A x \in Names : \A i \in 0..3 : <<x, i>> \in Locations
    /\ Param \in Locations /\ Local \in Locations /\ Param # Local
    /\ \A x \in Names : \A i : <<x, i>> # Param /\ <<x, i>> # Local
    /\ \A l \in Locations : \/ l = Param \/ l = Local
                            \/ \E x \in Names : \E i \in 0..3 : l = <<x, i>>
BY SpansAreNamed DEF Names, Locations, Param, Local, kMaxBlocks

\* The blocks first to last of x.
Block(k, x, first, last) ==
    \E i \in 0..3 : k = <<x, i>> /\ first <= i /\ i <= last

\* One round of the loops that reset slots.
LEMMA ResetRoundKeeps ==
    ASSUME NEW st, Sound(st), NEW x \in Names, NEW i \in 0..3,
           NEW first \in Int, NEW last \in Int
    PROVE  /\ Sound(ResetRound(st, x, i, first, last))
           /\ \A k \in Locations :
                 ResetRound(st, x, i, first, last).slot[k]
                   = IF k = <<x, i>> /\ first <= i /\ i <= last THEN Empty
                     ELSE st.slot[k]
<1>1. <<x, i>> \in Locations /\ st.slot \in [Locations -> Slices]
  BY LocationFacts DEF Sound, States
<1>2. CASE first <= i /\ i <= last
  <2>1. ResetRound(st, x, i, first, last) = ResetSlice(st, <<x, i>>)
    BY <1>2 DEF ResetRound
  <2>2. /\ Sound(ResetSlice(st, <<x, i>>))
        /\ ResetSlice(st, <<x, i>>).slot = [st.slot EXCEPT ![<<x, i>>] = Empty]
    BY <1>1, ResetSliceKeeps
  <2>3. QED
    BY <1>1, <1>2, <2>1, <2>2
<1>3. CASE ~(first <= i /\ i <= last)
  <2>1. ResetRound(st, x, i, first, last) = st
    BY <1>3 DEF ResetRound
  <2>2. QED
    BY <1>3, <2>1
<1>4. QED
  BY <1>2, <1>3

\* The loops that reset slots first to last.
LEMMA ResetSlotsKeeps ==
    ASSUME NEW st, Sound(st), NEW x \in Names, NEW first \in Int, NEW last \in Int
    PROVE  /\ Sound(ResetSlots(st, x, first, last))
           /\ \A k \in Locations :
                 ResetSlots(st, x, first, last).slot[k]
                   = IF Block(k, x, first, last) THEN Empty ELSE st.slot[k]
<1> DEFINE r0 == ResetRound(st, x, 0, first, last)
           r1 == ResetRound(r0, x, 1, first, last)
           r2 == ResetRound(r1, x, 2, first, last)
           r3 == ResetRound(r2, x, 3, first, last)
<1>1. ResetSlots(st, x, first, last) = r3
  BY DEF ResetSlots
<1> HIDE DEF r0, r1, r2, r3
<1>2. Sound(r0) /\ \A k \in Locations :
         r0.slot[k] = IF k = <<x, 0>> /\ first <= 0 /\ 0 <= last THEN Empty
                      ELSE st.slot[k]
  BY ResetRoundKeeps DEF r0
<1>3. Sound(r1) /\ \A k \in Locations :
         r1.slot[k] = IF k = <<x, 1>> /\ first <= 1 /\ 1 <= last THEN Empty
                      ELSE r0.slot[k]
  BY <1>2, ResetRoundKeeps DEF r1
<1>4. Sound(r2) /\ \A k \in Locations :
         r2.slot[k] = IF k = <<x, 2>> /\ first <= 2 /\ 2 <= last THEN Empty
                      ELSE r1.slot[k]
  BY <1>3, ResetRoundKeeps DEF r2
<1>5. Sound(r3) /\ \A k \in Locations :
         r3.slot[k] = IF k = <<x, 3>> /\ first <= 3 /\ 3 <= last THEN Empty
                      ELSE r2.slot[k]
  BY <1>4, ResetRoundKeeps DEF r3
<1>6. ASSUME NEW k \in Locations
      PROVE  r3.slot[k] = IF Block(k, x, first, last) THEN Empty ELSE st.slot[k]
  <2>1. Block(k, x, first, last) <=>
           \/ k = <<x, 0>> /\ first <= 0 /\ 0 <= last
           \/ k = <<x, 1>> /\ first <= 1 /\ 1 <= last
           \/ k = <<x, 2>> /\ first <= 2 /\ 2 <= last
           \/ k = <<x, 3>> /\ first <= 3 /\ 3 <= last
    <3>1. \A i \in 0..3 : i = 0 \/ i = 1 \/ i = 2 \/ i = 3
      OBVIOUS
    <3>2. 0 \in 0..3 /\ 1 \in 0..3 /\ 2 \in 0..3 /\ 3 \in 0..3
      OBVIOUS
    <3>3. QED
      BY <3>1, <3>2, Zenon DEF Block
  <2>2. QED
    BY <1>2, <1>3, <1>4, <1>5, <2>1
<1>7. QED
  BY <1>1, <1>5, <1>6

\* One round of the loops that copy blocks.
LEMMA CopyRoundKeeps ==
    ASSUME NEW st, Sound(st), NEW x \in Names, NEW y \in Names, x # y,
           NEW i \in 0..3, NEW n \in Int
    PROVE  /\ Sound(CopyRound(st, x, y, i, n))
           /\ \A k \in Locations :
                 CopyRound(st, x, y, i, n).slot[k]
                   = IF k = <<x, i>> /\ i < n THEN st.slot[<<y, i>>]
                     ELSE st.slot[k]
<1>1. /\ <<x, i>> \in Locations /\ <<y, i>> \in Locations /\ <<x, i>> # <<y, i>>
      /\ st.slot \in [Locations -> Slices]
  BY LocationFacts DEF Sound, States
<1>2. CASE i < n
  <2>1. CopyRound(st, x, y, i, n) = CopySlice(st, <<x, i>>, <<y, i>>)
    BY <1>2 DEF CopyRound
  <2>2. /\ Sound(CopySlice(st, <<x, i>>, <<y, i>>))
        /\ CopySlice(st, <<x, i>>, <<y, i>>).slot
             = [st.slot EXCEPT ![<<x, i>>] = st.slot[<<y, i>>]]
    BY <1>1, CopySliceKeeps
  <2>3. QED
    BY <1>1, <1>2, <2>1, <2>2
<1>3. CASE ~(i < n)
  BY <1>3 DEF CopyRound
<1>4. QED
  BY <1>2, <1>3

\* The loops that copy the first n blocks of y to x.
LEMMA CopyBlocksKeeps ==
    ASSUME NEW st, Sound(st), NEW x \in Names, NEW y \in Names, x # y, NEW n \in Int
    PROVE  /\ Sound(CopyBlocks(st, x, y, n))
           /\ \A i \in 0..3 :
                 CopyBlocks(st, x, y, n).slot[<<x, i>>]
                   = IF i < n THEN st.slot[<<y, i>>] ELSE st.slot[<<x, i>>]
           /\ \A k \in Locations :
                 ~Block(k, x, 0, 3) => CopyBlocks(st, x, y, n).slot[k] = st.slot[k]
<1> DEFINE r0 == CopyRound(st, x, y, 0, n)
           r1 == CopyRound(r0, x, y, 1, n)
           r2 == CopyRound(r1, x, y, 2, n)
           r3 == CopyRound(r2, x, y, 3, n)
<1>0. 0 \in 0..3 /\ 1 \in 0..3 /\ 2 \in 0..3 /\ 3 \in 0..3
  OBVIOUS
<1>1. CopyBlocks(st, x, y, n) = r3
  BY DEF CopyBlocks
<1> HIDE DEF r0, r1, r2, r3
<1>2. Sound(r0) /\ \A k \in Locations :
         r0.slot[k] = IF k = <<x, 0>> /\ 0 < n THEN st.slot[<<y, 0>>] ELSE st.slot[k]
  BY <1>0, CopyRoundKeeps, ZenonT(30) DEF r0
<1>3. Sound(r1) /\ \A k \in Locations :
         r1.slot[k] = IF k = <<x, 1>> /\ 1 < n THEN r0.slot[<<y, 1>>] ELSE r0.slot[k]
  BY <1>0, <1>2, CopyRoundKeeps, ZenonT(30) DEF r1
<1>4. Sound(r2) /\ \A k \in Locations :
         r2.slot[k] = IF k = <<x, 2>> /\ 2 < n THEN r1.slot[<<y, 2>>] ELSE r1.slot[k]
  BY <1>0, <1>3, CopyRoundKeeps, ZenonT(30) DEF r2
<1>5. Sound(r3) /\ \A k \in Locations :
         r3.slot[k] = IF k = <<x, 3>> /\ 3 < n THEN r2.slot[<<y, 3>>] ELSE r2.slot[k]
  BY <1>0, <1>4, CopyRoundKeeps, ZenonT(30) DEF r3
<1>6. \A i \in 0..3 : <<x, i>> \in Locations /\ <<y, i>> \in Locations
  BY LocationFacts
<1>7. ASSUME NEW i \in 0..3
      PROVE  r3.slot[<<x, i>>]
               = IF i < n THEN st.slot[<<y, i>>] ELSE st.slot[<<x, i>>]
  <2>1. i = 0 \/ i = 1 \/ i = 2 \/ i = 3
    OBVIOUS
  <2>2. QED
    BY <1>2, <1>3, <1>4, <1>5, <1>6, <2>1
<1>8. ASSUME NEW k \in Locations, ~Block(k, x, 0, 3)
      PROVE  r3.slot[k] = st.slot[k]
  <2>1. k # <<x, 0>> /\ k # <<x, 1>> /\ k # <<x, 2>> /\ k # <<x, 3>>
    BY <1>8 DEF Block
  <2>2. QED
    BY <1>2, <1>3, <1>4, <1>5, <2>1
<1>9. QED
  BY <1>1, <1>5, <1>7, <1>8

\* One round of the loops that move blocks.
LEMMA SwapRoundKeeps ==
    ASSUME NEW st, Sound(st), NEW x \in Names, NEW y \in Names, x # y,
           NEW i \in 0..3, NEW n \in Int
    PROVE  /\ Sound(SwapRound(st, x, y, i, n))
           /\ \A k \in Locations :
                 SwapRound(st, x, y, i, n).slot[k]
                   = IF k = <<x, i>> /\ i < n THEN st.slot[<<y, i>>]
                     ELSE IF k = <<y, i>> /\ i < n THEN st.slot[<<x, i>>]
                     ELSE st.slot[k]
<1>1. /\ <<x, i>> \in Locations /\ <<y, i>> \in Locations /\ <<x, i>> # <<y, i>>
      /\ st.slot \in [Locations -> Slices]
  BY LocationFacts DEF Sound, States
<1>2. CASE i < n
  <2>1. SwapRound(st, x, y, i, n) = SwapSlice(st, <<x, i>>, <<y, i>>)
    BY <1>2 DEF SwapRound
  <2>2. /\ Sound(SwapSlice(st, <<x, i>>, <<y, i>>))
        /\ SwapSlice(st, <<x, i>>, <<y, i>>).slot
             = [st.slot EXCEPT ![<<x, i>>] = st.slot[<<y, i>>],
                               ![<<y, i>>] = st.slot[<<x, i>>]]
    BY <1>1, SwapSliceKeeps
  <2>3. QED
    BY <1>1, <1>2, <2>1, <2>2
<1>3. CASE ~(i < n)
  BY <1>3 DEF SwapRound
<1>4. QED
  BY <1>2, <1>3

\* The loops that move the first n blocks of y to x.
LEMMA SwapBlocksKeeps ==
    ASSUME NEW st, Sound(st), NEW x \in Names, NEW y \in Names, x # y, NEW n \in Int
    PROVE  /\ Sound(SwapBlocks(st, x, y, n))
           /\ \A i \in 0..3 :
                 SwapBlocks(st, x, y, n).slot[<<x, i>>]
                   = IF i < n THEN st.slot[<<y, i>>] ELSE st.slot[<<x, i>>]
           /\ \A k \in Locations :
                 ~Block(k, x, 0, 3) /\ ~Block(k, y, 0, 3)
                   => SwapBlocks(st, x, y, n).slot[k] = st.slot[k]
<1> DEFINE r0 == SwapRound(st, x, y, 0, n)
           r1 == SwapRound(r0, x, y, 1, n)
           r2 == SwapRound(r1, x, y, 2, n)
           r3 == SwapRound(r2, x, y, 3, n)
<1>0. 0 \in 0..3 /\ 1 \in 0..3 /\ 2 \in 0..3 /\ 3 \in 0..3
  OBVIOUS
<1>1. SwapBlocks(st, x, y, n) = r3
  BY DEF SwapBlocks
<1> HIDE DEF r0, r1, r2, r3
<1>2. Sound(r0) /\ \A k \in Locations :
         r0.slot[k] = IF k = <<x, 0>> /\ 0 < n THEN st.slot[<<y, 0>>]
                      ELSE IF k = <<y, 0>> /\ 0 < n THEN st.slot[<<x, 0>>]
                      ELSE st.slot[k]
  BY <1>0, SwapRoundKeeps, ZenonT(30) DEF r0
<1>3. Sound(r1) /\ \A k \in Locations :
         r1.slot[k] = IF k = <<x, 1>> /\ 1 < n THEN r0.slot[<<y, 1>>]
                      ELSE IF k = <<y, 1>> /\ 1 < n THEN r0.slot[<<x, 1>>]
                      ELSE r0.slot[k]
  BY <1>0, <1>2, SwapRoundKeeps, ZenonT(30) DEF r1
<1>4. Sound(r2) /\ \A k \in Locations :
         r2.slot[k] = IF k = <<x, 2>> /\ 2 < n THEN r1.slot[<<y, 2>>]
                      ELSE IF k = <<y, 2>> /\ 2 < n THEN r1.slot[<<x, 2>>]
                      ELSE r1.slot[k]
  BY <1>0, <1>3, SwapRoundKeeps, ZenonT(30) DEF r2
<1>5. Sound(r3) /\ \A k \in Locations :
         r3.slot[k] = IF k = <<x, 3>> /\ 3 < n THEN r2.slot[<<y, 3>>]
                      ELSE IF k = <<y, 3>> /\ 3 < n THEN r2.slot[<<x, 3>>]
                      ELSE r2.slot[k]
  BY <1>0, <1>4, SwapRoundKeeps, ZenonT(30) DEF r3
<1>6. \A i \in 0..3 : <<x, i>> \in Locations /\ <<y, i>> \in Locations
  BY LocationFacts
<1>7. ASSUME NEW i \in 0..3
      PROVE  r3.slot[<<x, i>>]
               = IF i < n THEN st.slot[<<y, i>>] ELSE st.slot[<<x, i>>]
  <2>1. i = 0 \/ i = 1 \/ i = 2 \/ i = 3
    OBVIOUS
  <2>2. QED
    BY <1>2, <1>3, <1>4, <1>5, <1>6, <2>1
<1>8. ASSUME NEW k \in Locations, ~Block(k, x, 0, 3), ~Block(k, y, 0, 3)
      PROVE  r3.slot[k] = st.slot[k]
  <2>1. /\ k # <<x, 0>> /\ k # <<x, 1>> /\ k # <<x, 2>> /\ k # <<x, 3>>
        /\ k # <<y, 0>> /\ k # <<y, 1>> /\ k # <<y, 2>> /\ k # <<y, 3>>
    BY <1>8 DEF Block
  <2>2. QED
    BY <1>2, <1>3, <1>4, <1>5, <2>1
<1>9. QED
  BY <1>1, <1>5, <1>7, <1>8

\* The first n blocks of x hold buffers.
Full(st, x, n) == \A i \in 0..3 : i < n => st.slot[<<x, i>>].buf # NoBuf

\* How many buffers can still be created.
Free(st) == Cardinality(Bufs \ st.mem.live)

\* One round of Clone.
LEMMA CloneRoundKeeps ==
    ASSUME NEW st, Sound(st), NEW y \in Names, NEW i \in 0..3, NEW n \in Int,
           st.slot[<<"tmp", i>>].buf = NoBuf,
           i < n => st.slot[<<y, i>>].buf # NoBuf /\ Free(st) >= 1
    PROVE  /\ Sound(CloneRound(st, y, i, n))
           /\ \A k \in Locations :
                 k # <<"tmp", i>> => CloneRound(st, y, i, n).slot[k] = st.slot[k]
           /\ i < n => /\ CloneRound(st, y, i, n).slot[<<"tmp", i>>].buf # NoBuf
                       /\ Free(CloneRound(st, y, i, n)) = Free(st) - 1
           /\ Free(st) \in Nat
<1>1. /\ <<"tmp", i>> \in Locations /\ <<y, i>> \in Locations
      /\ st.slot \in [Locations -> Slices]
  BY LocationFacts DEF Sound, States, Names
<1>2. IsFiniteSet(Bufs \ st.mem.live) /\ Free(st) \in Nat
  <2>1. Bufs \ st.mem.live \in SUBSET Bufs
    OBVIOUS
  <2>2. IsFiniteSet(Bufs \ st.mem.live)
    BY <2>1, SizesAreNumbers, FS_Subset
  <2>3. QED
    BY <2>2, FS_CardinalityType DEF Free
<1>3. CASE i < n
  <2> DEFINE a == CloneSlice(st, <<"tmp", i>>, <<y, i>>)
             b == Fresh(st.mem)
  <2>1. \E c \in Bufs : c \notin st.mem.live
    <3>1. Bufs \ st.mem.live # {}
      BY <1>2, <1>3, FS_EmptySet DEF Free
    <3>2. QED
      BY <3>1
  <2>2. /\ Sound(a) /\ a.slot = [st.slot EXCEPT ![<<"tmp", i>>] = a.slot[<<"tmp", i>>]]
        /\ a.slot[<<"tmp", i>>].buf # NoBuf
        /\ a.mem.live = st.mem.live \cup {b}
        /\ b \in Bufs /\ b \notin st.mem.live
    BY <1>1, <1>3, <2>1, CloneSliceKeeps
  <2>3. CloneRound(st, y, i, n) = a
    BY <1>3 DEF CloneRound
  <2> HIDE DEF a, b
  <2>4. Bufs \ a.mem.live = (Bufs \ st.mem.live) \ {b} /\ b \in Bufs \ st.mem.live
    BY <2>2
  <2>5. Cardinality((Bufs \ st.mem.live) \ {b}) = Cardinality(Bufs \ st.mem.live) - 1
    BY <1>2, <2>4, FS_RemoveElement
  <2>6. Free(a) = Free(st) - 1
    BY <2>4, <2>5 DEF Free
  <2>7. \A k \in Locations : k # <<"tmp", i>> => a.slot[k] = st.slot[k]
    BY <1>1, <2>2
  <2>8. QED
    BY <1>2, <2>2, <2>3, <2>6, <2>7
<1>4. CASE ~(i < n)
  BY <1>2, <1>4 DEF CloneRound
<1>5. QED
  BY <1>3, <1>4

\* The loop of Clone.
LEMMA CloneBlocksKeeps ==
    ASSUME NEW st, Sound(st), NEW y \in Spans, NEW n \in 0..3,
           \A i \in 0..3 : st.slot[<<"tmp", i>>].buf = NoBuf,
           Full(st, y, n), n <= Free(st)
    PROVE  /\ Sound(CloneBlocks(st, y, n))
           /\ Full(CloneBlocks(st, y, n), "tmp", n)
           /\ \A k \in Locations :
                 ~Block(k, "tmp", 0, 3) => CloneBlocks(st, y, n).slot[k] = st.slot[k]
<1> DEFINE r0 == CloneRound(st, y, 0, n)
           r1 == CloneRound(r0, y, 1, n)
           r2 == CloneRound(r1, y, 2, n)
<1>0. /\ 0 \in 0..3 /\ 1 \in 0..3 /\ 2 \in 0..3 /\ n \in Int /\ y \in Names
      /\ \A i, j : <<y, i>> # <<"tmp", j>>
      /\ \A i \in 0..3 : <<y, i>> \in Locations /\ <<"tmp", i>> \in Locations
  BY SpansAreNamed, LocationFacts DEF Names
<1>1. CloneBlocks(st, y, n) = r2
  BY DEF CloneBlocks
<1> HIDE DEF r0, r1, r2
<1>a. Free(st) \in Nat
  <2>1. Bufs \ st.mem.live \in SUBSET Bufs
    OBVIOUS
  <2>2. QED
    BY <2>1, SizesAreNumbers, FS_Subset, FS_CardinalityType DEF Free
<1>2. /\ Sound(r0)
      /\ \A k \in Locations : k # <<"tmp", 0>> => r0.slot[k] = st.slot[k]
      /\ 0 < n => r0.slot[<<"tmp", 0>>].buf # NoBuf /\ Free(r0) = Free(st) - 1
  <2>1. /\ st.slot[<<"tmp", 0>>].buf = NoBuf
        /\ 0 < n => st.slot[<<y, 0>>].buf # NoBuf
    BY <1>0 DEF Full
  <2>2. 0 < n => Free(st) >= 1
    BY <1>a
  <2>3. QED
    BY <1>0, <2>1, <2>2, CloneRoundKeeps, ZenonT(30) DEF r0
<1>3. /\ Sound(r1)
      /\ \A k \in Locations : k # <<"tmp", 1>> => r1.slot[k] = r0.slot[k]
      /\ 1 < n => r1.slot[<<"tmp", 1>>].buf # NoBuf /\ Free(r1) = Free(r0) - 1
  <2>1. /\ r0.slot[<<"tmp", 1>>].buf = NoBuf
        /\ 1 < n => r0.slot[<<y, 1>>].buf # NoBuf
    BY <1>0, <1>2 DEF Full
  <2>2. 1 < n => Free(r0) >= 1
    BY <1>a, <1>2
  <2>3. Sound(r0) /\ 1 \in 0..3 /\ n \in Int /\ y \in Names
    BY <1>0, <1>2
  <2>4. QED
    BY <2>1, <2>2, <2>3, CloneRoundKeeps, ZenonT(30) DEF r1
<1>4. /\ Sound(r2)
      /\ \A k \in Locations : k # <<"tmp", 2>> => r2.slot[k] = r1.slot[k]
      /\ 2 < n => r2.slot[<<"tmp", 2>>].buf # NoBuf
  <2>1. /\ r1.slot[<<"tmp", 2>>].buf = NoBuf
        /\ 2 < n => r1.slot[<<y, 2>>].buf # NoBuf
    BY <1>0, <1>2, <1>3 DEF Full
  <2>2. 2 < n => Free(r1) >= 1
    BY <1>a, <1>2, <1>3
  <2>3. Sound(r1) /\ 2 \in 0..3 /\ n \in Int /\ y \in Names
    BY <1>0, <1>3
  <2>4. QED
    BY <2>1, <2>2, <2>3, CloneRoundKeeps, ZenonT(30) DEF r2
<1>5. Full(r2, "tmp", n)
  <2>1. SUFFICES ASSUME NEW i \in 0..3, i < n
                 PROVE  r2.slot[<<"tmp", i>>].buf # NoBuf
    BY DEF Full
  <2>2. i = 0 \/ i = 1 \/ i = 2
    BY <2>1
  <2>3. QED
    BY <1>0, <1>2, <1>3, <1>4, <2>1, <2>2
<1>6. ASSUME NEW k \in Locations, ~Block(k, "tmp", 0, 3)
      PROVE  r2.slot[k] = st.slot[k]
  <2>1. k # <<"tmp", 0>> /\ k # <<"tmp", 1>> /\ k # <<"tmp", 2>>
    BY <1>6 DEF Block
  <2>2. QED
    BY <1>2, <1>3, <1>4, <2>1
<1>7. QED
  BY <1>1, <1>4, <1>5, <1>6

\* One round of the second loop of AdjustBeginPointer.
LEMMA CompactRoundKeeps ==
    ASSUME NEW st, Sound(st), NEW x \in Spans, NEW pos \in Int, NEW i \in 1..3,
           block_count_[x] \in 0..4, Full(st, x, block_count_[x])
    PROVE  /\ Sound(CompactRound(st, x, pos, i))
           /\ Full(CompactRound(st, x, pos, i), x, block_count_[x])
           /\ \A k \in Locations : ~Block(k, x, 0, 3)
                 => CompactRound(st, x, pos, i).slot[k] = st.slot[k]
<1>1. CASE pos <= i /\ i < block_count_[x]
  <2> DEFINE a == SwapSlice(st, <<x, 0>>, <<x, i>>)
  <2>1. /\ <<x, 0>> \in Locations /\ <<x, i>> \in Locations
        /\ st.slot \in [Locations -> Slices]
        /\ \A j \in 0..3 : <<x, j>> \in Locations
    BY LocationFacts DEF Sound, States, Names
  <2>2. Sound(a) /\ a.slot = [st.slot EXCEPT ![<<x, 0>>] = st.slot[<<x, i>>],
                                             ![<<x, i>>] = st.slot[<<x, 0>>]]
    BY <2>1, SwapSliceKeeps
  <2>3. CompactRound(st, x, pos, i) = a
    BY <1>1 DEF CompactRound
  <2> HIDE DEF a
  <2>4. st.slot[<<x, 0>>].buf # NoBuf /\ st.slot[<<x, i>>].buf # NoBuf
    BY <1>1 DEF Full
  <2>5. Full(a, x, block_count_[x])
    BY <2>1, <2>2, <2>4 DEF Full
  <2>6. \A k \in Locations : ~Block(k, x, 0, 3) => a.slot[k] = st.slot[k]
    <3>1. \A k \in Locations : ~Block(k, x, 0, 3) => k # <<x, 0>> /\ k # <<x, i>>
      BY DEF Block
    <3>2. QED
      BY <2>1, <2>2, <3>1
  <2>7. QED
    BY <2>2, <2>3, <2>5, <2>6
<1>2. CASE ~(pos <= i /\ i < block_count_[x])
  BY <1>2 DEF CompactRound
<1>3. QED
  BY <1>1, <1>2

\* The second loop of AdjustBeginPointer.
LEMMA CompactKeeps ==
    ASSUME NEW st, Sound(st), NEW x \in Spans, NEW pos \in Int,
           block_count_[x] \in 0..4, Full(st, x, block_count_[x])
    PROVE  /\ Sound(Compact(st, x, pos))
           /\ Full(Compact(st, x, pos), x, block_count_[x])
           /\ \A k \in Locations : ~Block(k, x, 0, 3)
                 => Compact(st, x, pos).slot[k] = st.slot[k]
<1> DEFINE r1 == CompactRound(st, x, pos, 1)
           r2 == CompactRound(r1, x, pos, 2)
           r3 == CompactRound(r2, x, pos, 3)
<1>0. 1 \in 1..3 /\ 2 \in 1..3 /\ 3 \in 1..3
  OBVIOUS
<1>1. Compact(st, x, pos) = IF pos = 0 THEN st ELSE r3
  BY DEF Compact
<1> HIDE DEF r1, r2, r3
<1>2. /\ Sound(r1) /\ Full(r1, x, block_count_[x])
      /\ \A k \in Locations : ~Block(k, x, 0, 3) => r1.slot[k] = st.slot[k]
  BY <1>0, CompactRoundKeeps, ZenonT(30) DEF r1
<1>3. /\ Sound(r2) /\ Full(r2, x, block_count_[x])
      /\ \A k \in Locations : ~Block(k, x, 0, 3) => r2.slot[k] = r1.slot[k]
  BY <1>0, <1>2, CompactRoundKeeps, ZenonT(30) DEF r2
<1>4. /\ Sound(r3) /\ Full(r3, x, block_count_[x])
      /\ \A k \in Locations : ~Block(k, x, 0, 3) => r3.slot[k] = r2.slot[k]
  BY <1>0, <1>3, CompactRoundKeeps, ZenonT(30) DEF r3
<1>5. QED
  BY <1>1, <1>2, <1>3, <1>4

-----------------------------------------------------------------------------
(* The pieces of the operations of a span.                                 *)

\* At the end of a call its temporaries are gone.
LEMMA EndOfCallKeeps ==
    ASSUME NEW st, Sound(st)
    PROVE  /\ Sound(EndOfCall(st))
           /\ \A k \in Locations :
                 EndOfCall(st).slot[k]
                   = IF k = Param \/ Block(k, "tmp", 0, 3) THEN Empty
                     ELSE st.slot[k]
<1> DEFINE a == ResetSlice(st, Param)
<1>1. "tmp" \in Names /\ 0 \in Int /\ 3 \in Int /\ Param \in Locations
  BY LocationFacts DEF Names
<1>2. EndOfCall(st) = ResetSlots(a, "tmp", 0, 3)
  BY DEF EndOfCall, kMaxBlocks
<1>3. Sound(a) /\ a.slot = [st.slot EXCEPT ![Param] = Empty]
  BY <1>1, ResetSliceKeeps
<1> HIDE DEF a
<1>4. /\ Sound(ResetSlots(a, "tmp", 0, 3))
      /\ \A k \in Locations :
            ResetSlots(a, "tmp", 0, 3).slot[k]
              = IF Block(k, "tmp", 0, 3) THEN Empty ELSE a.slot[k]
  <2>1. Sound(a) /\ "tmp" \in Names /\ 0 \in Int /\ 3 \in Int
    BY <1>1, <1>3
  <2>2. QED
    BY <2>1, ResetSlotsKeeps, ZenonT(30)
<1>5. st.slot \in [Locations -> Slices]
  BY DEF Sound, States
<1>6. \A k \in Locations : a.slot[k] = IF k = Param THEN Empty ELSE st.slot[k]
  BY <1>3, <1>5
<1>7. QED
  BY <1>2, <1>4, <1>6

\* A slice that is passed by value is in the parameter; the caller's own is
\* the same or, when it was moved, empty.
LEMMA PassSliceKeeps ==
    ASSUME NEW st, Sound(st), NEW a \in PassSlice(st)
    PROVE  /\ Sound(a)
           /\ a.slot[Param] = st.slot[Local]
           /\ \A k \in Locations :
                 k # Param /\ k # Local => a.slot[k] = st.slot[k]
<1>1. Param \in Locations /\ Local \in Locations /\ Param # Local
  BY LocationFacts
<1> DEFINE c == CopySlice(st, Param, Local)
<1>2. Sound(c) /\ c.slot = [st.slot EXCEPT ![Param] = st.slot[Local]]
  BY <1>1, CopySliceKeeps
<1>3. a = c \/ a = ResetSlice(c, Local)
  BY DEF PassSlice, MoveConstruct
<1> HIDE DEF c
<1>4. /\ Sound(ResetSlice(c, Local))
      /\ ResetSlice(c, Local).slot = [c.slot EXCEPT ![Local] = Empty]
  BY <1>1, <1>2, ResetSliceKeeps
<1>5. st.slot \in [Locations -> Slices] /\ c.slot \in [Locations -> Slices]
  BY <1>2 DEF Sound, States
<1>6. CASE a = c
  BY <1>1, <1>2, <1>5, <1>6
<1>7. CASE a = ResetSlice(c, Local)
  BY <1>1, <1>2, <1>4, <1>5, <1>7
<1>8. QED
  BY <1>3, <1>6, <1>7

\* x takes the n blocks of y and drops what it had beyond them.
LEMMA MoveSlotsKeeps ==
    ASSUME NEW st, Sound(st), NEW x \in Spans, NEW y \in Names, x # y,
           NEW n \in Nat, block_count_[x] \in Int, Full(st, y, n)
    PROVE  /\ Sound(MoveSlots(st, x, y, n))
           /\ Full(MoveSlots(st, x, y, n), x, n)
           /\ \A k \in Locations : ~Block(k, x, 0, 3) /\ ~Block(k, y, 0, 3)
                 => MoveSlots(st, x, y, n).slot[k] = st.slot[k]
<1> DEFINE a == SwapBlocks(st, x, y, n)
           last == block_count_[x] - 1
           c == ResetSlots(a, x, n, last)
<1>1. x \in Names /\ n \in Int /\ last \in Int
  BY DEF Names
<1>2. MoveSlots(st, x, y, n) = c
  BY DEF MoveSlots
<1> HIDE DEF a, c, last
<1>3. /\ Sound(a)
      /\ \A i \in 0..3 : a.slot[<<x, i>>]
            = IF i < n THEN st.slot[<<y, i>>] ELSE st.slot[<<x, i>>]
      /\ \A k \in Locations : ~Block(k, x, 0, 3) /\ ~Block(k, y, 0, 3)
            => a.slot[k] = st.slot[k]
  BY <1>1, SwapBlocksKeeps, ZenonT(30) DEF a
<1>4. /\ Sound(c)
      /\ \A k \in Locations :
            c.slot[k] = IF Block(k, x, n, last) THEN Empty ELSE a.slot[k]
  BY <1>1, <1>3, ResetSlotsKeeps, ZenonT(30) DEF c
<1>5. Full(c, x, n)
  <2>1. SUFFICES ASSUME NEW i \in 0..3, i < n
                 PROVE  c.slot[<<x, i>>].buf # NoBuf
    BY DEF Full
  <2>a. ~Block(<<x, i>>, x, n, last)
    <3>1. SUFFICES ASSUME NEW j \in 0..3, <<x, i>> = <<x, j>>, n <= j
                   PROVE  FALSE
      BY DEF Block
    <3>2. i = j
      BY <3>1
    <3>3. QED
      BY <2>1, <3>1, <3>2
  <2>2. ~Block(<<x, i>>, x, n, last) /\ <<x, i>> \in Locations
    BY <1>1, <2>a, LocationFacts
  <2>3. QED
    BY <1>3, <1>4, <2>1, <2>2 DEF Full
<1>6. ASSUME NEW k \in Locations, ~Block(k, x, 0, 3), ~Block(k, y, 0, 3)
      PROVE  c.slot[k] = st.slot[k]
  <2>1. ~Block(k, x, n, last)
    BY <1>1, <1>6 DEF Block
  <2>2. QED
    BY <1>3, <1>4, <1>6, <2>1
<1>7. QED
  BY <1>2, <1>4, <1>5, <1>6

\* x shares the n blocks of y and drops what it had beyond them.
LEMMA CopySlotsKeeps ==
    ASSUME NEW st, Sound(st), NEW x \in Spans, NEW y \in Spans, x # y,
           NEW n \in Nat, block_count_[x] \in Int, Full(st, y, n)
    PROVE  /\ Sound(CopySlots(st, x, y, n))
           /\ Full(CopySlots(st, x, y, n), x, n)
           /\ \A k \in Locations : ~Block(k, x, 0, 3)
                 => CopySlots(st, x, y, n).slot[k] = st.slot[k]
<1> DEFINE a == CopyBlocks(st, x, y, n)
           last == block_count_[x] - 1
           c == ResetSlots(a, x, n, last)
<1>1. x \in Names /\ y \in Names /\ n \in Int /\ last \in Int
  BY DEF Names
<1>2. CopySlots(st, x, y, n) = c
  BY DEF CopySlots
<1> HIDE DEF a, c, last
<1>3. /\ Sound(a)
      /\ \A i \in 0..3 : a.slot[<<x, i>>]
            = IF i < n THEN st.slot[<<y, i>>] ELSE st.slot[<<x, i>>]
      /\ \A k \in Locations : ~Block(k, x, 0, 3) => a.slot[k] = st.slot[k]
  BY <1>1, CopyBlocksKeeps, ZenonT(30) DEF a
<1>4. /\ Sound(c)
      /\ \A k \in Locations :
            c.slot[k] = IF Block(k, x, n, last) THEN Empty ELSE a.slot[k]
  BY <1>1, <1>3, ResetSlotsKeeps, ZenonT(30) DEF c
<1>5. Full(c, x, n)
  <2>1. SUFFICES ASSUME NEW i \in 0..3, i < n
                 PROVE  c.slot[<<x, i>>].buf # NoBuf
    BY DEF Full
  <2>a. ~Block(<<x, i>>, x, n, last)
    <3>1. SUFFICES ASSUME NEW j \in 0..3, <<x, i>> = <<x, j>>, n <= j
                   PROVE  FALSE
      BY DEF Block
    <3>2. i = j
      BY <3>1
    <3>3. QED
      BY <2>1, <3>1, <3>2
  <2>2. ~Block(<<x, i>>, x, n, last) /\ <<x, i>> \in Locations
    BY <1>1, <2>a, LocationFacts
  <2>3. QED
    BY <1>3, <1>4, <2>1, <2>2 DEF Full
<1>6. ASSUME NEW k \in Locations, ~Block(k, x, 0, 3)
      PROVE  c.slot[k] = st.slot[k]
  <2>1. ~Block(k, x, n, last)
    BY <1>1, <1>6 DEF Block
  <2>2. QED
    BY <1>3, <1>4, <1>6, <2>1
<1>7. QED
  BY <1>2, <1>4, <1>5, <1>6

-----------------------------------------------------------------------------
(* The invariant.                                                          *)

\* Between calls there are no temporaries.
Idle(sl) == sl[Param] = Empty /\ \A i \in 0..3 : sl[<<"tmp", i>>] = Empty

\* The memory is sound, and the blocks a span counts hold buffers.
MemInv ==
    /\ Sound(st0)
    /\ Idle(slot)
    /\ size_ \in [Spans -> Nat]
    /\ block_count_ \in [Spans -> 0..4]
    /\ \A x \in Spans : Full(st0, x, block_count_[x])

\* st has the blocks of the spans other than x.
Rest(st, x) ==
    \A z \in Spans \ {x} : \A i \in 0..3 : st.slot[<<z, i>>] = slot[<<z, i>>]

\* A call that leaves sound memory behind.
LEMMA BecomeKeeps ==
    ASSUME NEW st, Sound(st), Become(st), Idle(st.slot),
           size_' \in [Spans -> Nat], block_count_' \in [Spans -> 0..4],
           \A z \in Spans : Full(st, z, block_count_'[z])
    PROVE  MemInv'
<1>1. st = [mem |-> mem', slot |-> slot']
  BY DEF Sound, States, Become
<1>2. st0' = st
  BY <1>1 DEF st0
<1>3. slot' = st.slot
  BY DEF Become
<1>4. Sound(st0)' /\ Idle(slot)' /\ \A z \in Spans : Full(st0, z, block_count_[z])'
  BY <1>2, <1>3 DEF Sound, Idle, Full
<1>5. QED
  BY <1>4 DEF MemInv

\* A call on x leaves it with c blocks and v bytes, and the others alone.
LEMMA CallKeeps ==
    ASSUME MemInv, NEW a, Sound(a), NEW x \in Spans, NEW c \in 0..4, NEW v \in Nat,
           Full(a, x, c), Rest(a, x), Idle(a.slot), Become(a),
           size_' = [size_ EXCEPT ![x] = v],
           block_count_' = [block_count_ EXCEPT ![x] = c]
    PROVE  MemInv'
<1>1. size_' \in [Spans -> Nat] /\ block_count_' \in [Spans -> 0..4]
  BY DEF MemInv
<1>2. ASSUME NEW z \in Spans
      PROVE  Full(a, z, block_count_'[z])
  <2>1. CASE z = x
    <3>1. block_count_'[z] = c
      BY <2>1 DEF MemInv
    <3>2. QED
      BY <2>1, <3>1
  <2>2. CASE z # x
    <3>1. block_count_'[z] = block_count_[z]
      BY <2>2 DEF MemInv
    <3>2. Full(st0, z, block_count_[z]) /\ z \in Spans \ {x}
      BY <2>2 DEF MemInv
    <3>3. \A i \in 0..3 : a.slot[<<z, i>>] = st0.slot[<<z, i>>]
      BY <3>2 DEF Rest, st0
    <3>4. QED
      BY <3>1, <3>2, <3>3 DEF Full
  <2>3. QED
    BY <2>1, <2>2
<1>3. QED
  BY <1>1, <1>2, BecomeKeeps

\* The same for a call with temporaries, which are destroyed at its end.
LEMMA EndedCallKeeps ==
    ASSUME MemInv, NEW a, Sound(a), NEW x \in Spans, NEW c \in 0..4, NEW v \in Nat,
           Full(a, x, c), Rest(a, x), Become(EndOfCall(a)),
           size_' = [size_ EXCEPT ![x] = v],
           block_count_' = [block_count_ EXCEPT ![x] = c]
    PROVE  MemInv'
<1> DEFINE e == EndOfCall(a)
<1>1. /\ Sound(e)
      /\ \A k \in Locations :
            e.slot[k] = IF k = Param \/ Block(k, "tmp", 0, 3) THEN Empty ELSE a.slot[k]
  BY EndOfCallKeeps
<1>2. Become(e)
  OBVIOUS
<1> HIDE DEF e
<1>3. Idle(e.slot)
  <2>1. e.slot[Param] = Empty
    BY <1>1, LocationFacts
  <2>2. ASSUME NEW i \in 0..3
        PROVE  e.slot[<<"tmp", i>>] = Empty
    <3>1. <<"tmp", i>> \in Locations
      BY LocationFacts DEF Names
    <3>2. 0 <= i /\ i <= 3
      OBVIOUS
    <3>3. Block(<<"tmp", i>>, "tmp", 0, 3)
      BY <3>2, Zenon DEF Block
    <3>4. QED
      BY <1>1, <3>1, <3>3
  <2>3. QED
    BY <2>1, <2>2 DEF Idle
<1>4. ASSUME NEW z \in Spans, NEW i \in 0..3
      PROVE  e.slot[<<z, i>>] = a.slot[<<z, i>>]
  <2>1. <<z, i>> \in Locations /\ <<z, i>> # Param
    BY LocationFacts DEF Names
  <2>2. ~Block(<<z, i>>, "tmp", 0, 3)
    BY SpansAreNamed DEF Block
  <2>3. QED
    BY <1>1, <2>1, <2>2
<1>5. Full(e, x, c)
  BY <1>4 DEF Full
<1>6. Rest(e, x)
  BY <1>4 DEF Rest
<1>7. QED
  BY <1>1, <1>2, <1>3, <1>5, <1>6, CallKeeps, ZenonT(30)

\* The slots of other spans are not blocks of x.
LEMMA OtherBlocks ==
    ASSUME NEW x \in Names, NEW z \in Names, x # z, NEW i \in 0..3
    PROVE  /\ <<z, i>> \in Locations
           /\ \A first, last : ~Block(<<z, i>>, x, first, last)
<1>1. <<z, i>> \in Locations
  BY LocationFacts
<1>2. \A j : <<z, i>> # <<x, j>>
  OBVIOUS
<1>3. QED
  BY <1>1, <1>2 DEF Block

\* The parameter is swapped into block i of x.
LEMMA PutKeeps ==
    ASSUME NEW a, Sound(a), NEW x \in Spans, NEW i \in 0..3
    PROVE  /\ Sound(SwapSlice(a, <<x, i>>, Param))
           /\ SwapSlice(a, <<x, i>>, Param).slot[<<x, i>>] = a.slot[Param]
           /\ \A k \in Locations : k # Param /\ k # <<x, i>>
                 => SwapSlice(a, <<x, i>>, Param).slot[k] = a.slot[k]
<1>1. <<x, i>> \in Locations /\ Param \in Locations /\ <<x, i>> # Param
  BY LocationFacts DEF Names
<1>2. /\ Sound(SwapSlice(a, <<x, i>>, Param))
      /\ SwapSlice(a, <<x, i>>, Param).slot
            = [a.slot EXCEPT ![<<x, i>>] = a.slot[Param], ![Param] = a.slot[<<x, i>>]]
  BY <1>1, SwapSliceKeeps
<1>3. a.slot \in [Locations -> Slices]
  BY DEF Sound, States
<1>4. QED
  BY <1>1, <1>2, <1>3

\* Between calls the caller's slice and the spans are what the call starts
\* from.
LEMMA StartFacts ==
    ASSUME MemInv
    PROVE  /\ Sound(st0) /\ st0.slot = slot /\ st0.mem = mem
           /\ slot \in [Locations -> Slices]
           /\ \A l \in Locations : Fits(mem, slot[l])
           /\ slot[Param] = Empty
           /\ \A i \in 0..3 : slot[<<"tmp", i>>] = Empty
           /\ \A x \in Spans : size_[x] \in Nat /\ block_count_[x] \in 0..4
           /\ \A x \in Spans : Full(st0, x, block_count_[x])
<1>1. Sound(st0) /\ st0.slot = slot /\ st0.mem = mem
  BY DEF MemInv, st0
<1>2. slot \in [Locations -> Slices] /\ \A l \in Locations : Fits(mem, slot[l])
  BY <1>1 DEF Sound, States, SoundBut
<1>3. QED
  BY <1>1, <1>2 DEF MemInv, Idle

\* How many bytes a slice uses.
LEMMA UsedFacts ==
    ASSUME NEW m, NEW s \in Slices, Fits(m, s)
    PROVE  UsedSize(s) \in Nat /\ (UsedSize(s) # 0 => s.buf # NoBuf)
<1>1. CASE s.buf = NoBuf
  BY <1>1 DEF Fits, Empty, UsedSize
<1>2. CASE s.buf # NoBuf
  BY <1>2 DEF Fits, UsedSize, Slices
<1>3. QED
  BY <1>1, <1>2

-----------------------------------------------------------------------------
(* The calls.                                                              *)

LEMMA PushBackKeeps ==
    ASSUME MemInv, NEW x \in Spans, PushBack(x)
    PROVE  MemInv'
<1>1. PICK st \in PassSlice(st0) :
         Become(EndOfCall(SwapSlice(st, <<x, block_count_[x]>>, Param)))
  BY DEF PushBack
<1> DEFINE n == block_count_[x]
           a == SwapSlice(st, <<x, n>>, Param)
           v == size_[x] + UsedSize(slot[Local])
<1>2. n \in 0..3 /\ n + 1 \in 0..4 /\ slot[Local].buf # NoBuf
  BY StartFacts DEF PushBack, kMaxBlocks
<1>3. /\ Sound(st) /\ st.slot[Param] = slot[Local]
      /\ \A k \in Locations : k # Param /\ k # Local => st.slot[k] = slot[k]
  BY StartFacts, PassSliceKeeps
<1>4. /\ Sound(a) /\ a.slot[<<x, n>>] = slot[Local]
      /\ \A k \in Locations : k # Param /\ k # <<x, n>> => a.slot[k] = st.slot[k]
  BY <1>2, <1>3, PutKeeps
<1>5. Become(EndOfCall(a))
  BY <1>1
<1>6. v \in Nat
  BY StartFacts, UsedFacts, LocationFacts
<1>7. /\ size_' = [size_ EXCEPT ![x] = v]
      /\ block_count_' = [block_count_ EXCEPT ![x] = n + 1]
  BY DEF PushBack
<1> HIDE DEF a, n, v
<1>8. ASSUME NEW z \in Spans, NEW i \in 0..3, <<z, i>> # <<x, n>>
      PROVE  a.slot[<<z, i>>] = slot[<<z, i>>]
  <2>1. <<z, i>> \in Locations /\ <<z, i>> # Param /\ <<z, i>> # Local
    BY LocationFacts DEF Names
  <2>2. QED
    BY <1>3, <1>4, <1>8, <2>1
<1>9. Full(a, x, n + 1)
  <2>1. SUFFICES ASSUME NEW i \in 0..3, i < n + 1
                 PROVE  a.slot[<<x, i>>].buf # NoBuf
    BY DEF Full
  <2>2. CASE i = n
    BY <1>2, <1>4, <2>2
  <2>3. CASE i # n
    <3>1. i < n /\ <<x, i>> # <<x, n>>
      BY <1>2, <2>1, <2>3
    <3>2. slot[<<x, i>>].buf # NoBuf
      BY <3>1, StartFacts DEF Full, n
    <3>3. QED
      BY <1>8, <3>1, <3>2
  <2>4. QED
    BY <2>2, <2>3
<1>10. Rest(a, x)
  <2>1. \A z \in Spans \ {x} : \A i \in 0..3 : <<z, i>> # <<x, n>>
    OBVIOUS
  <2>2. QED
    BY <1>8, <2>1 DEF Rest
<1>11. QED
  BY <1>2, <1>4, <1>5, <1>6, <1>7, <1>9, <1>10, EndedCallKeeps, ZenonT(30)

\* The memory when a by-value parameter has its value.
Passed(st) ==
    /\ Sound(st)
    /\ \A k \in Locations : k # Param /\ k # Local => st.slot[k] = slot[k]

\* The caller's slice is passed, or none, or a new buffer.
LEMMA SlicePassed ==
    ASSUME MemInv
    PROVE  /\ Passed(st0) /\ st0.slot[Param] = Empty
           /\ \A st \in PassSlice(st0) : Passed(st) /\ st.slot[Param] = slot[Local]
<1>1. Sound(st0) /\ st0.slot = slot /\ slot[Param] = Empty
  BY StartFacts
<1>2. Passed(st0) /\ st0.slot[Param] = Empty
  BY <1>1 DEF Passed
<1>3. ASSUME NEW st \in PassSlice(st0)
      PROVE  Passed(st) /\ st.slot[Param] = slot[Local]
  BY <1>1, PassSliceKeeps DEF Passed
<1>4. QED
  BY <1>2, <1>3

LEMMA BufferPassed ==
    ASSUME MemInv, NEW bytes \in Texts, \E b \in Bufs : b \notin mem.live
    PROVE  Passed(PassBuffer(bytes)) /\ PassBuffer(bytes).slot[Param].buf # NoBuf
<1> DEFINE c == PassBuffer(bytes)
<1>1. /\ Sound(st0) /\ st0.slot = slot /\ st0.mem = mem
      /\ slot \in [Locations -> Slices] /\ slot[Param] = Empty
  BY StartFacts
<1>2. c = ConstructNew(st0, Param, bytes)
  BY DEF PassBuffer
<1>3. /\ st0.slot[Param].buf = NoBuf /\ Param \in Locations /\ bytes \in Seq(Bytes)
      /\ \E b \in Bufs : b \notin st0.mem.live
  BY <1>1, EmptyIsSlice, LocationFacts, TextsAreBytes
<1> HIDE DEF c
<1>4. /\ Sound(c) /\ c.slot[Param].buf # NoBuf
      /\ c.slot = [slot EXCEPT ![Param] = c.slot[Param]]
  <2>1. /\ Sound(c) /\ c.slot[Param].buf # NoBuf
        /\ c.slot = [st0.slot EXCEPT ![Param] = c.slot[Param]]
    BY <1>1, <1>2, <1>3, ConstructKeeps
  <2>2. QED
    BY <1>1, <2>1
<1>5. \A k \in Locations : k # Param => c.slot[k] = slot[k]
  BY <1>1, <1>4
<1>6. QED
  BY <1>4, <1>5 DEF Passed, c

\* The first block of x is what was passed, or nothing, and the others go.
LEMMA ReplaceKeeps ==
    ASSUME MemInv, NEW x \in Spans, NEW st, Passed(st),
           NEW first \in Int, NEW last \in Int
    PROVE  LET a == ResetSlots(st, x, first, last)
               e == SwapSlice(a, <<x, 0>>, Param)
           IN /\ Sound(a) /\ Rest(a, x)
              /\ Sound(e) /\ Rest(e, x)
              /\ e.slot[<<x, 0>>] = st.slot[Param]
<1> DEFINE a == ResetSlots(st, x, first, last)
           e == SwapSlice(a, <<x, 0>>, Param)
<1>0. x \in Names /\ 0 \in 0..3
  BY DEF Names
<1>1. /\ Sound(st)
      /\ \A k \in Locations : k # Param /\ k # Local => st.slot[k] = slot[k]
  BY DEF Passed
<1>2. /\ Sound(a)
      /\ \A k \in Locations :
            a.slot[k] = IF Block(k, x, first, last) THEN Empty ELSE st.slot[k]
  BY <1>0, <1>1, ResetSlotsKeeps, ZenonT(30)
<1> HIDE DEF a
<1>3. /\ Sound(e) /\ e.slot[<<x, 0>>] = a.slot[Param]
      /\ \A k \in Locations : k # Param /\ k # <<x, 0>> => e.slot[k] = a.slot[k]
  BY <1>0, <1>2, PutKeeps
<1> HIDE DEF e
<1>4. a.slot[Param] = st.slot[Param]
  <2>1. ~Block(Param, x, first, last) /\ Param \in Locations
    BY <1>0, LocationFacts DEF Block
  <2>2. QED
    BY <1>2, <2>1
<1>5. ASSUME NEW z \in Spans \ {x}, NEW i \in 0..3
      PROVE  a.slot[<<z, i>>] = slot[<<z, i>>] /\ e.slot[<<z, i>>] = slot[<<z, i>>]
  <2>1. /\ <<z, i>> \in Locations /\ <<z, i>> # Param /\ <<z, i>> # Local
        /\ <<z, i>> # <<x, 0>>
    BY LocationFacts DEF Names
  <2>2. ~Block(<<z, i>>, x, first, last)
    BY <1>0, OtherBlocks DEF Names
  <2>3. QED
    BY <1>1, <1>2, <1>3, <2>1, <2>2
<1>6. Rest(a, x) /\ Rest(e, x)
  BY <1>5 DEF Rest
<1>7. QED
  BY <1>1, <1>2, <1>3, <1>4, <1>6 DEF a, e

\* What a slice that was passed uses, and that one which uses bytes has a
\* buffer.
LEMMA PassedUses ==
    ASSUME NEW st, Passed(st)
    PROVE  /\ UsedSize(st.slot[Param]) \in Nat
           /\ UsedSize(st.slot[Param]) # 0 => st.slot[Param].buf # NoBuf
<1>1. st.slot[Param] \in Slices /\ Fits(st.mem, st.slot[Param])
  BY LocationFacts DEF Passed, Sound, SoundBut
<1>2. QED
  BY <1>1, UsedFacts

\* A call that puts what was passed into the first block of x, and keeps c
\* blocks: one, or none when the slice is empty.
LEMMA ReplacingCall ==
    ASSUME MemInv, NEW x \in Spans, NEW st, Passed(st),
           NEW first \in Int, NEW last \in Int, NEW v \in Nat, NEW c \in 0..1,
           c = 1 => st.slot[Param].buf # NoBuf,
           Become(EndOfCall(SwapSlice(ResetSlots(st, x, first, last), <<x, 0>>, Param))),
           size_' = [size_ EXCEPT ![x] = v],
           block_count_' = [block_count_ EXCEPT ![x] = c]
    PROVE  MemInv'
<1> DEFINE e == SwapSlice(ResetSlots(st, x, first, last), <<x, 0>>, Param)
<1>1. Sound(e) /\ Rest(e, x) /\ e.slot[<<x, 0>>] = st.slot[Param]
  BY ReplaceKeeps
<1>2. Become(EndOfCall(e)) /\ c \in 0..4
  OBVIOUS
<1> HIDE DEF e
<1>3. Full(e, x, c)
  <2>1. SUFFICES ASSUME NEW i \in 0..3, i < c
                 PROVE  e.slot[<<x, i>>].buf # NoBuf
    BY DEF Full
  <2>2. i = 0 /\ c = 1
    BY <2>1
  <2>3. QED
    BY <1>1, <2>2
<1>4. QED
  BY <1>1, <1>2, <1>3, EndedCallKeeps, ZenonT(30)

LEMMA PushBackFullKeeps ==
    ASSUME MemInv, NEW x \in Spans, PushBackFull(x)
    PROVE  MemInv'
<1>1. PICK st \in PassSlice(st0) : Become(EndOfCall(st))
  BY DEF PushBackFull
<1>2. Passed(st)
  BY SlicePassed
<1> DEFINE n == block_count_[x]
           v == size_[x]
<1>3. /\ size_' = [size_ EXCEPT ![x] = v] /\ v \in Nat
      /\ block_count_' = [block_count_ EXCEPT ![x] = n] /\ n \in 0..4
  BY DEF PushBackFull, MemInv
<1>4. ASSUME NEW z \in Spans, NEW i \in 0..3
      PROVE  st.slot[<<z, i>>] = slot[<<z, i>>]
  <2>1. <<z, i>> \in Locations /\ <<z, i>> # Param /\ <<z, i>> # Local
    BY LocationFacts DEF Names
  <2>2. QED
    BY <1>2, <2>1 DEF Passed
<1>5. Full(st, x, n)
  BY <1>4, StartFacts DEF Full
<1>6. Rest(st, x) /\ Sound(st)
  BY <1>2, <1>4 DEF Rest, Passed
<1> HIDE DEF n, v
<1>7. QED
  BY <1>1, <1>3, <1>5, <1>6, EndedCallKeeps, ZenonT(30)

LEMMA AssignSliceKeeps ==
    ASSUME MemInv, NEW x \in Spans, AssignSlice(x)
    PROVE  MemInv'
<1> DEFINE last == block_count_[x] - 1
           v == UsedSize(slot[Local])
<1>1. PICK st \in PassSlice(st0) :
         Become(EndOfCall(SwapSlice(ResetSlots(st, x, 1, last), <<x, 0>>, Param)))
  BY DEF AssignSlice
<1>2. Passed(st) /\ st.slot[Param] = slot[Local]
  BY SlicePassed
<1>3. last \in Int /\ 1 \in Int /\ 1 \in 0..1
  BY StartFacts
<1>4. v \in Nat
  BY <1>2, PassedUses
<1>5. /\ size_' = [size_ EXCEPT ![x] = v]
      /\ block_count_' = [block_count_ EXCEPT ![x] = 1]
      /\ st.slot[Param].buf # NoBuf
  BY <1>2 DEF AssignSlice
<1> HIDE DEF v, last
<1>6. QED
  BY <1>1, <1>2, <1>3, <1>4, <1>5, ReplacingCall, ZenonT(30)

LEMMA AssignBufferKeeps ==
    ASSUME MemInv, NEW x \in Spans, NEW bytes \in Texts, AssignBuffer(x, bytes)
    PROVE  MemInv'
<1> DEFINE st == PassBuffer(bytes)
           last == block_count_[x] - 1
           v == UsedSize(st.slot[Param])
<1>1. /\ Become(EndOfCall(SwapSlice(ResetSlots(st, x, 1, last), <<x, 0>>, Param)))
      /\ size_' = [size_ EXCEPT ![x] = v]
      /\ block_count_' = [block_count_ EXCEPT ![x] = 1]
  BY DEF AssignBuffer
<1>2. Passed(st) /\ st.slot[Param].buf # NoBuf
  BY BufferPassed DEF AssignBuffer
<1>3. last \in Int /\ 1 \in Int /\ 1 \in 0..1
  BY StartFacts
<1> HIDE DEF st, last
<1>4. v \in Nat
  BY <1>2, PassedUses
<1> HIDE DEF v
<1>5. QED
  BY <1>1, <1>2, <1>3, <1>4, ReplacingCall, ZenonT(30)

LEMMA FromBufferKeeps ==
    ASSUME MemInv, NEW x \in Spans, NEW bytes \in Texts, FromBuffer(x, bytes)
    PROVE  MemInv'
<1> DEFINE st == PassBuffer(bytes)
           v == Len(bytes)
<1>1. /\ Become(EndOfCall(SwapSlice(ResetSlots(st, x, 0, 3), <<x, 0>>, Param)))
      /\ size_' = [size_ EXCEPT ![x] = v]
      /\ block_count_' = [block_count_ EXCEPT ![x] = 1]
  BY DEF FromBuffer, kMaxBlocks
<1>2. Passed(st) /\ st.slot[Param].buf # NoBuf
  BY BufferPassed DEF FromBuffer
<1>3. 0 \in Int /\ 3 \in Int /\ 1 \in 0..1 /\ v \in Nat
  BY TextsAreBytes
<1> HIDE DEF st, v
<1>4. QED
  BY <1>1, <1>2, <1>3, ReplacingCall, ZenonT(30)

LEMMA ResetKeeps ==
    ASSUME MemInv, NEW x \in Spans, Reset(x)
    PROVE  MemInv'
<1> DEFINE last == block_count_[x] - 1
<1>1. PICK st \in PassSlice(st0) \cup {st0} :
         /\ Become(EndOfCall(SwapSlice(ResetSlots(st, x, 0, last), <<x, 0>>, Param)))
         /\ size_' = [size_ EXCEPT ![x] = UsedSize(st.slot[Param])]
         /\ block_count_' = [block_count_ EXCEPT ![x] =
                                IF UsedSize(st.slot[Param]) = 0 THEN 0 ELSE 1]
  BY DEF Reset
<1>2. Passed(st)
  BY SlicePassed
<1>3. last \in Int /\ 0 \in Int
  BY StartFacts
<1> DEFINE v == UsedSize(st.slot[Param])
           c == IF v = 0 THEN 0 ELSE 1
<1>4. v \in Nat /\ c \in 0..1 /\ (c = 1 => st.slot[Param].buf # NoBuf)
  BY <1>2, PassedUses
<1>5. size_' = [size_ EXCEPT ![x] = v] /\ block_count_' = [block_count_ EXCEPT ![x] = c]
  BY <1>1
<1> HIDE DEF v, c, last
<1>6. QED
  BY <1>1, <1>2, <1>3, <1>4, <1>5, ReplacingCall, ZenonT(30)

LEMMA ReconstructKeeps ==
    ASSUME MemInv, NEW x \in Spans, Reconstruct(x)
    PROVE  MemInv'
<1> DEFINE last == kMaxBlocks - 1
<1>1. PICK st \in PassSlice(st0) \cup {st0} :
         LET a == ResetSlots(st, x, 0, last)
             used == UsedSize(st.slot[Param]) # 0
         IN /\ Become(EndOfCall(IF used THEN SwapSlice(a, <<x, 0>>, Param) ELSE a))
            /\ size_' = [size_ EXCEPT ![x] = UsedSize(st.slot[Param])]
            /\ block_count_' = [block_count_ EXCEPT ![x] = IF used THEN 1 ELSE 0]
  BY Zenon DEF Reconstruct
<1> DEFINE a == ResetSlots(st, x, 0, last)
           v == UsedSize(st.slot[Param])
<1>2. Passed(st)
  BY SlicePassed
<1>3. v \in Nat /\ (v # 0 => st.slot[Param].buf # NoBuf) /\ size_' = [size_ EXCEPT ![x] = v]
  BY <1>1, <1>2, PassedUses
<1>4. 0 \in Int /\ last \in Int /\ 1 \in 0..1 /\ 0 \in 0..4
  BY DEF kMaxBlocks
<1> HIDE DEF last
<1>5. CASE v # 0
  <2>1. /\ Become(EndOfCall(SwapSlice(ResetSlots(st, x, 0, last), <<x, 0>>, Param)))
        /\ block_count_' = [block_count_ EXCEPT ![x] = 1]
        /\ st.slot[Param].buf # NoBuf
    BY <1>1, <1>3, <1>5
  <2> HIDE DEF v
  <2>2. QED
    BY <1>2, <1>3, <1>4, <2>1, ReplacingCall, ZenonT(30)
<1>6. CASE v = 0
  <2>1. Become(EndOfCall(a)) /\ block_count_' = [block_count_ EXCEPT ![x] = 0]
    BY <1>1, <1>6
  <2>2. Sound(a) /\ Rest(a, x)
    BY <1>2, <1>4, ReplaceKeeps
  <2>3. Full(a, x, 0)
    BY DEF Full
  <2> HIDE DEF v, a
  <2>4. QED
    BY <1>3, <1>4, <2>1, <2>2, <2>3, EndedCallKeeps, ZenonT(30)
<1>7. QED
  BY <1>5, <1>6

\* A call that only touches the blocks of x.
LEMMA Untouched ==
    ASSUME MemInv, NEW x \in Spans, NEW a,
           \A k \in Locations : ~Block(k, x, 0, 3) => a.slot[k] = slot[k]
    PROVE  Idle(a.slot) /\ Rest(a, x)
<1>1. x \in Names /\ "tmp" \in Names /\ x # "tmp" /\ Spans \subseteq Names
  BY SpansAreNamed DEF Names
<1>2. ASSUME NEW z \in Names, z # x, NEW i \in 0..3
      PROVE  a.slot[<<z, i>>] = slot[<<z, i>>]
  BY <1>1, <1>2, OtherBlocks
<1>3. a.slot[Param] = slot[Param]
  <2>1. Param \in Locations /\ ~Block(Param, x, 0, 3)
    BY <1>1, LocationFacts DEF Block
  <2>2. QED
    BY <2>1
<1>4. Idle(a.slot)
  BY <1>1, <1>2, <1>3, StartFacts DEF Idle
<1>5. QED
  BY <1>1, <1>2, <1>4 DEF Rest

LEMMA CopyConstructKeeps ==
    ASSUME MemInv, NEW x \in Spans, NEW y \in Spans \ {x}, CopyConstruct(x, y)
    PROVE  MemInv'
<1> DEFINE n == block_count_[y]
           v == size_[y]
           a == ResetSlots(st0, x, 0, 3)
           c == CopyBlocks(a, x, y, n)
<1>1. /\ Become(c) /\ size_' = [size_ EXCEPT ![x] = v]
      /\ block_count_' = [block_count_ EXCEPT ![x] = n]
  BY DEF CopyConstruct, kMaxBlocks
<1>2. /\ n \in 0..4 /\ n \in Int /\ v \in Nat /\ 0 \in Int /\ 3 \in Int
      /\ x \in Names /\ y \in Names /\ x # y
      /\ Sound(st0) /\ st0.slot = slot /\ Full(st0, y, n)
  BY StartFacts DEF Names
<1>3. /\ Sound(a)
      /\ \A k \in Locations :
            a.slot[k] = IF Block(k, x, 0, 3) THEN Empty ELSE st0.slot[k]
  BY <1>2, ResetSlotsKeeps, ZenonT(30)
<1> HIDE DEF a, n, v
<1>4. /\ Sound(c)
      /\ \A i \in 0..3 : c.slot[<<x, i>>]
            = IF i < n THEN a.slot[<<y, i>>] ELSE a.slot[<<x, i>>]
      /\ \A k \in Locations : ~Block(k, x, 0, 3) => c.slot[k] = a.slot[k]
  BY <1>2, <1>3, CopyBlocksKeeps, ZenonT(30)
<1> HIDE DEF c
<1>5. \A i \in 0..3 : <<y, i>> \in Locations /\ ~Block(<<y, i>>, x, 0, 3)
  BY <1>2, OtherBlocks
<1>6. Full(c, x, n)
  BY <1>2, <1>3, <1>4, <1>5 DEF Full
<1>7. Idle(c.slot) /\ Rest(c, x)
  <2>1. \A k \in Locations : ~Block(k, x, 0, 3) => c.slot[k] = slot[k]
    BY <1>2, <1>3, <1>4
  <2>2. QED
    BY <2>1, Untouched
<1>8. QED
  BY <1>1, <1>2, <1>4, <1>6, <1>7, CallKeeps, ZenonT(30)

LEMMA CopyAssignKeeps ==
    ASSUME MemInv, NEW x \in Spans, NEW y \in Spans \ {x}, CopyAssign(x, y)
    PROVE  MemInv'
<1> DEFINE n == block_count_[y]
           v == size_[y]
           c == CopySlots(st0, x, y, n)
<1>1. /\ Become(c) /\ size_' = [size_ EXCEPT ![x] = v]
      /\ block_count_' = [block_count_ EXCEPT ![x] = n]
  BY DEF CopyAssign
<1>2. /\ n \in 0..4 /\ n \in Nat /\ v \in Nat /\ x # y /\ block_count_[x] \in Int
      /\ Sound(st0) /\ st0.slot = slot /\ Full(st0, y, n)
  BY StartFacts
<1> HIDE DEF n, v
<1>3. /\ Sound(c) /\ Full(c, x, n)
      /\ \A k \in Locations : ~Block(k, x, 0, 3) => c.slot[k] = st0.slot[k]
  BY <1>2, CopySlotsKeeps, ZenonT(30)
<1> HIDE DEF c
<1>4. Idle(c.slot) /\ Rest(c, x)
  BY <1>2, <1>3, Untouched
<1>5. QED
  BY <1>1, <1>2, <1>3, <1>4, CallKeeps, ZenonT(30)

\* A call that moves the blocks of y to x.
LEMMA MovingCall ==
    ASSUME MemInv, NEW x \in Spans, NEW y \in Spans \ {x}, NEW c, Sound(c),
           Full(c, x, block_count_[y]),
           \A k \in Locations : ~Block(k, x, 0, 3) /\ ~Block(k, y, 0, 3)
              => c.slot[k] = slot[k],
           Become(c), size_' = [size_ EXCEPT ![x] = size_[y], ![y] = 0],
           block_count_' = [block_count_ EXCEPT ![x] = block_count_[y], ![y] = 0]
    PROVE  MemInv'
<1>1. /\ Spans \subseteq Names /\ "tmp" \in Names
      /\ x # "tmp" /\ y # "tmp" /\ x # y
  BY SpansAreNamed DEF Names
<1>2. size_' \in [Spans -> Nat] /\ block_count_' \in [Spans -> 0..4]
  BY DEF MemInv
<1>3. ASSUME NEW z \in Names, z # x, z # y, NEW i \in 0..3
      PROVE  c.slot[<<z, i>>] = slot[<<z, i>>]
  <2>1. <<z, i>> \in Locations /\ ~Block(<<z, i>>, x, 0, 3) /\ ~Block(<<z, i>>, y, 0, 3)
    BY <1>1, <1>3, OtherBlocks
  <2>2. QED
    BY <2>1
<1>4. Idle(c.slot)
  <2>1. Param \in Locations /\ ~Block(Param, x, 0, 3) /\ ~Block(Param, y, 0, 3)
    BY <1>1, LocationFacts DEF Block
  <2>2. QED
    BY <1>1, <1>3, <2>1, StartFacts DEF Idle
<1>5. ASSUME NEW z \in Spans
      PROVE  Full(c, z, block_count_'[z])
  <2>1. CASE z = x
    <3>1. block_count_'[z] = block_count_[y]
      BY <1>1, <2>1 DEF MemInv
    <3>2. QED
      BY <2>1, <3>1
  <2>2. CASE z = y
    <3>1. block_count_'[z] = 0
      BY <1>1, <2>2 DEF MemInv
    <3>2. QED
      BY <3>1 DEF Full
  <2>3. CASE z # x /\ z # y
    <3>1. block_count_'[z] = block_count_[z]
      BY <2>3 DEF MemInv
    <3>2. Full(st0, z, block_count_[z]) /\ st0.slot = slot
      BY StartFacts
    <3>3. \A i \in 0..3 : c.slot[<<z, i>>] = slot[<<z, i>>]
      BY <1>1, <1>3, <2>3
    <3>4. QED
      BY <3>1, <3>2, <3>3 DEF Full
  <2>4. QED
    BY <2>1, <2>2, <2>3
<1>6. QED
  BY <1>2, <1>4, <1>5, BecomeKeeps

LEMMA MoveConstructKeeps ==
    ASSUME MemInv, NEW x \in Spans, NEW y \in Spans \ {x}, MoveConstructSpan(x, y)
    PROVE  MemInv'
<1> DEFINE n == block_count_[y]
           a == ResetSlots(st0, x, 0, 3)
           c == SwapBlocks(a, x, y, n)
<1>1. /\ Become(c) /\ size_' = [size_ EXCEPT ![x] = size_[y], ![y] = 0]
      /\ block_count_' = [block_count_ EXCEPT ![x] = n, ![y] = 0]
  BY DEF MoveConstructSpan, kMaxBlocks
<1>2. /\ n \in 0..4 /\ n \in Int /\ 0 \in Int /\ 3 \in Int
      /\ x \in Names /\ y \in Names /\ x # y
      /\ Sound(st0) /\ st0.slot = slot /\ Full(st0, y, n)
  BY StartFacts DEF Names
<1>3. /\ Sound(a)
      /\ \A k \in Locations :
            a.slot[k] = IF Block(k, x, 0, 3) THEN Empty ELSE st0.slot[k]
  BY <1>2, ResetSlotsKeeps, ZenonT(30)
<1> HIDE DEF a, n
<1>4. /\ Sound(c)
      /\ \A i \in 0..3 : c.slot[<<x, i>>]
            = IF i < n THEN a.slot[<<y, i>>] ELSE a.slot[<<x, i>>]
      /\ \A k \in Locations : ~Block(k, x, 0, 3) /\ ~Block(k, y, 0, 3)
            => c.slot[k] = a.slot[k]
  BY <1>2, <1>3, SwapBlocksKeeps, ZenonT(30)
<1> HIDE DEF c
<1>5. \A i \in 0..3 : <<y, i>> \in Locations /\ ~Block(<<y, i>>, x, 0, 3)
  BY <1>2, OtherBlocks
<1>6. Full(c, x, n)
  BY <1>2, <1>3, <1>4, <1>5 DEF Full
<1>7. \A k \in Locations : ~Block(k, x, 0, 3) /\ ~Block(k, y, 0, 3)
         => c.slot[k] = slot[k]
  BY <1>2, <1>3, <1>4
<1>8. QED
  BY <1>1, <1>4, <1>6, <1>7, MovingCall, ZenonT(30) DEF n

LEMMA MoveAssignKeeps ==
    ASSUME MemInv, NEW x \in Spans, NEW y \in Spans \ {x}, MoveAssign(x, y)
    PROVE  MemInv'
<1> DEFINE n == block_count_[y]
           c == MoveSlots(st0, x, y, n)
<1>1. /\ Become(c) /\ size_' = [size_ EXCEPT ![x] = size_[y], ![y] = 0]
      /\ block_count_' = [block_count_ EXCEPT ![x] = n, ![y] = 0]
  BY DEF MoveAssign
<1>2. /\ n \in Nat /\ block_count_[x] \in Int /\ x # y /\ y \in Names
      /\ Sound(st0) /\ st0.slot = slot /\ Full(st0, y, n)
  BY StartFacts DEF Names
<1> HIDE DEF n
<1>3. /\ Sound(c) /\ Full(c, x, n)
      /\ \A k \in Locations : ~Block(k, x, 0, 3) /\ ~Block(k, y, 0, 3)
            => c.slot[k] = st0.slot[k]
  BY <1>2, MoveSlotsKeeps, ZenonT(30)
<1> HIDE DEF c
<1>4. \A k \in Locations : ~Block(k, x, 0, 3) /\ ~Block(k, y, 0, 3)
         => c.slot[k] = slot[k]
  BY <1>2, <1>3
<1>5. QED
  BY <1>1, <1>3, <1>4, MovingCall, ZenonT(30) DEF n

LEMMA AdjustBeyondEndKeeps ==
    ASSUME MemInv, NEW x \in Spans, AdjustBeyondEnd(x)
    PROVE  MemInv'
<1> DEFINE last == block_count_[x] - 1
           a == ResetSlots(st0, x, 0, last)
<1>1. /\ Become(a) /\ size_' = [size_ EXCEPT ![x] = 0]
      /\ block_count_' = [block_count_ EXCEPT ![x] = 0]
  BY DEF AdjustBeyondEnd
<1>2. /\ last \in Int /\ 0 \in Int /\ x \in Names /\ Sound(st0) /\ st0.slot = slot
      /\ 0 \in Nat /\ 0 \in 0..4 /\ last <= 3
  BY StartFacts DEF Names
<1> HIDE DEF last
<1>3. /\ Sound(a)
      /\ \A k \in Locations :
            a.slot[k] = IF Block(k, x, 0, last) THEN Empty ELSE st0.slot[k]
  BY <1>2, ResetSlotsKeeps, ZenonT(30)
<1> HIDE DEF a
<1>4. Idle(a.slot) /\ Rest(a, x)
  <2>1. \A k : ~Block(k, x, 0, 3) => ~Block(k, x, 0, last)
    BY DEF Block
  <2>2. QED
    BY <1>2, <1>3, <2>1, Untouched
<1>5. Full(a, x, 0)
  BY DEF Full
<1>6. QED
  BY <1>1, <1>2, <1>3, <1>4, <1>5, CallKeeps, ZenonT(30)

LEMMA FromListKeeps ==
    ASSUME MemInv, NEW x \in Spans, FromList(x)
    PROVE  MemInv'
<1> DEFINE t0 == CopySlice(st0, <<"tmp", 0>>, Local)
           t1 == CopySlice(t0, <<"tmp", 1>>, Local)
           a == ResetSlots(t1, x, 0, 3)
           c == CopyBlocks(a, x, "tmp", 2)
           v == 2 * UsedSize(slot[Local])
<1>1. /\ Become(EndOfCall(c)) /\ size_' = [size_ EXCEPT ![x] = v]
      /\ block_count_' = [block_count_ EXCEPT ![x] = 2]
      /\ slot[Local].buf # NoBuf
  BY DEF FromList, kMaxBlocks
<1>2. /\ Sound(st0) /\ st0.slot = slot /\ slot \in [Locations -> Slices]
      /\ Fits(mem, slot[Local]) /\ slot[Local] \in Slices
  BY StartFacts, LocationFacts
<1>3. v \in Nat
  BY <1>2, UsedFacts
<1>4. /\ x \in Names /\ "tmp" \in Names /\ x # "tmp" /\ Local \in Locations
      /\ <<"tmp", 0>> \in Locations /\ <<"tmp", 1>> \in Locations
      /\ <<"tmp", 0>> # Local /\ <<"tmp", 1>> # Local
      /\ <<"tmp", 0>> # <<"tmp", 1>>
  <2>1. 0 \in 0..3 /\ 1 \in 0..3 /\ 0 # 1
    OBVIOUS
  <2>2. x \in Names /\ "tmp" \in Names /\ x # "tmp" /\ Local \in Locations
    BY SpansAreNamed, LocationFacts DEF Names
  <2>3. <<"tmp", 0>> \in Locations /\ <<"tmp", 1>> \in Locations
    BY <2>1, <2>2, LocationFacts, Zenon
  <2>4. <<"tmp", 0>> # Local /\ <<"tmp", 1>> # Local
    BY <2>2, LocationFacts, Zenon
  <2>5. QED
    BY <2>2, <2>3, <2>4
<1>5. Sound(t0) /\ t0.slot = [slot EXCEPT ![<<"tmp", 0>>] = slot[Local]]
  <2>1. Sound(st0) /\ Local \in Locations /\ <<"tmp", 0>> \in Locations /\ <<"tmp", 0>> # Local
    BY <1>2, <1>4
  <2>2. Sound(t0) /\ t0.slot = [st0.slot EXCEPT ![<<"tmp", 0>>] = st0.slot[Local]]
    BY <2>1, CopySliceKeeps, ZenonT(30)
  <2> HIDE DEF t0
  <2>3. QED
    BY <1>2, <2>2
<1> HIDE DEF t0, v
<1>6. /\ Sound(t1)
      /\ t1.slot = [t0.slot EXCEPT ![<<"tmp", 1>>] = t0.slot[Local]]
  <2>1. Sound(t0) /\ Local \in Locations /\ <<"tmp", 1>> \in Locations /\ <<"tmp", 1>> # Local
    BY <1>4, <1>5
  <2>2. QED
    BY <2>1, CopySliceKeeps, ZenonT(30)
<1> HIDE DEF t1
<1>7. /\ t1.slot[<<"tmp", 0>>] = slot[Local] /\ t1.slot[<<"tmp", 1>>] = slot[Local]
      /\ \A k \in Locations : ~Block(k, "tmp", 0, 3) => t1.slot[k] = slot[k]
  <2>1. \A k \in Locations : ~Block(k, "tmp", 0, 3)
           => k # <<"tmp", 0>> /\ k # <<"tmp", 1>>
    BY DEF Block
  <2>2. QED
    BY <1>2, <1>4, <1>5, <1>6, <2>1
<1>8. /\ Sound(a)
      /\ \A k \in Locations :
            a.slot[k] = IF Block(k, x, 0, 3) THEN Empty ELSE t1.slot[k]
  <2>1. Sound(t1) /\ x \in Names /\ 0 \in Int /\ 3 \in Int
    BY <1>4, <1>6
  <2>2. QED
    BY <2>1, ResetSlotsKeeps, ZenonT(30)
<1> HIDE DEF a
<1>9. /\ Sound(c)
      /\ \A i \in 0..3 : c.slot[<<x, i>>]
            = IF i < 2 THEN a.slot[<<"tmp", i>>] ELSE a.slot[<<x, i>>]
      /\ \A k \in Locations : ~Block(k, x, 0, 3) => c.slot[k] = a.slot[k]
  <2>1. Sound(a) /\ x \in Names /\ "tmp" \in Names /\ x # "tmp" /\ 2 \in Int
    BY <1>4, <1>8
  <2>2. QED
    BY <2>1, CopyBlocksKeeps, ZenonT(30)
<1> HIDE DEF c
<1>10. \A i \in 0..3 : ~Block(<<"tmp", i>>, x, 0, 3)
  BY <1>4, OtherBlocks
<1>11. Full(c, x, 2)
  <2>1. SUFFICES ASSUME NEW i \in 0..3, i < 2
                 PROVE  c.slot[<<x, i>>].buf # NoBuf
    BY DEF Full
  <2>2. i = 0 \/ i = 1
    BY <2>1
  <2>3. c.slot[<<x, i>>] = t1.slot[<<"tmp", i>>]
    BY <1>4, <1>8, <1>9, <1>10, <2>1, <2>2
  <2>4. QED
    BY <1>1, <1>7, <2>2, <2>3
<1>12. Rest(c, x)
  <2>1. SUFFICES ASSUME NEW z \in Spans \ {x}, NEW i \in 0..3
                 PROVE  c.slot[<<z, i>>] = slot[<<z, i>>]
    BY DEF Rest
  <2>2. z \in Names /\ z # x /\ z # "tmp"
    BY SpansAreNamed DEF Names
  <2>3. /\ <<z, i>> \in Locations /\ ~Block(<<z, i>>, x, 0, 3)
        /\ ~Block(<<z, i>>, "tmp", 0, 3)
    BY <1>4, <2>2, OtherBlocks
  <2>4. QED
    BY <1>7, <1>8, <1>9, <2>3
<1>13. 2 \in 0..4
  OBVIOUS
<1>14. QED
  BY <1>1, <1>3, <1>9, <1>11, <1>12, <1>13, EndedCallKeeps, ZenonT(30)

\* A function returns a span with n blocks, which is moved into x.
LEMMA ReturningCall ==
    ASSUME MemInv, NEW x \in Spans, NEW a, Sound(a), NEW n \in 0..4, NEW v \in Nat,
           Full(a, "tmp", n),
           \A k \in Locations : ~Block(k, "tmp", 0, 3) => a.slot[k] = slot[k],
           Become(EndOfCall(MoveSlots(a, x, "tmp", n))),
           size_' = [size_ EXCEPT ![x] = v],
           block_count_' = [block_count_ EXCEPT ![x] = n]
    PROVE  MemInv'
<1> DEFINE c == MoveSlots(a, x, "tmp", n)
<1>1. /\ x \in Names /\ "tmp" \in Names /\ x # "tmp" /\ n \in Nat
      /\ block_count_[x] \in Int
  BY SpansAreNamed, StartFacts DEF Names
<1>2. /\ Sound(c) /\ Full(c, x, n)
      /\ \A k \in Locations : ~Block(k, x, 0, 3) /\ ~Block(k, "tmp", 0, 3)
            => c.slot[k] = a.slot[k]
  BY <1>1, MoveSlotsKeeps, ZenonT(30)
<1>3. Become(EndOfCall(c))
  OBVIOUS
<1> HIDE DEF c
<1>4. Rest(c, x)
  <2>1. SUFFICES ASSUME NEW z \in Spans \ {x}, NEW i \in 0..3
                 PROVE  c.slot[<<z, i>>] = slot[<<z, i>>]
    BY DEF Rest
  <2>2. z \in Names /\ z # x /\ z # "tmp"
    BY SpansAreNamed DEF Names
  <2>3. /\ <<z, i>> \in Locations /\ ~Block(<<z, i>>, x, 0, 3)
        /\ ~Block(<<z, i>>, "tmp", 0, 3)
    BY <1>1, <2>2, OtherBlocks
  <2>4. QED
    BY <1>2, <2>3
<1>5. QED
  BY <1>2, <1>3, <1>4, EndedCallKeeps, ZenonT(30)

LEMMA CloneKeeps ==
    ASSUME MemInv, NEW x \in Spans, NEW y \in Spans, Clone(x, y)
    PROVE  MemInv'
<1> DEFINE n == block_count_[y]
           v == size_[y]
           a == CloneBlocks(st0, y, n)
<1>1. /\ n < 4 /\ n <= Cardinality(Bufs \ mem.live)
      /\ Become(EndOfCall(MoveSlots(a, x, "tmp", n)))
      /\ size_' = [size_ EXCEPT ![x] = v]
      /\ block_count_' = [block_count_ EXCEPT ![x] = n]
  BY DEF Clone, Spannable, kMaxBlocks
<1>2. /\ n \in 0..4 /\ v \in Nat /\ Sound(st0) /\ st0.slot = slot /\ st0.mem = mem
      /\ Full(st0, y, n) /\ \A i \in 0..3 : slot[<<"tmp", i>>] = Empty
  BY StartFacts
<1>3. n \in 0..3 /\ n <= Free(st0)
  BY <1>1, <1>2 DEF Free
<1>4. \A i \in 0..3 : st0.slot[<<"tmp", i>>].buf = NoBuf
  BY <1>2, EmptyIsSlice
<1> HIDE DEF n, v
<1>5. /\ Sound(a) /\ Full(a, "tmp", n)
      /\ \A k \in Locations : ~Block(k, "tmp", 0, 3) => a.slot[k] = st0.slot[k]
  BY <1>2, <1>3, <1>4, CloneBlocksKeeps, ZenonT(30)
<1> HIDE DEF a
<1>6. \A k \in Locations : ~Block(k, "tmp", 0, 3) => a.slot[k] = slot[k]
  BY <1>2, <1>5
<1>7. QED
  BY <1>1, <1>2, <1>5, <1>6, ReturningCall, ZenonT(30)

\* CloneSpannedMem returns a buffer of bytes.
LEMMA SpannedMemType ==
    ASSUME MemInv, NEW y \in Spans
    PROVE  SpannedMem(st0, y, size_[y], block_count_[y]) \in Seq(Bytes)
<1> DEFINE n == block_count_[y]
           v == size_[y]
           bytes == BlockBytes(st0, y, n)
<1>1. ASSUME NEW i \in 0..3
      PROVE  RoundBytes(st0, y, i, n) \in Seq(Bytes)
  <2> DEFINE s == slot[<<y, i>>]
  <2>1. /\ st0.slot = slot /\ st0.mem = mem /\ mem \in Mems
        /\ s \in Slices /\ Fits(mem, s)
    BY StartFacts, LocationFacts DEF Names, Sound, States
  <2>2. SliceBytes(mem, s) \in Seq(Bytes)
    <3> HIDE DEF s
    <3>1. CASE s.buf = NoBuf
      BY <3>1 DEF SliceBytes
    <3>2. CASE s.buf # NoBuf
      <4>1. /\ mem.data[s.buf] \in Seq(Bytes) /\ s.begin \in Nat /\ s.end \in Nat
            /\ s.end <= Len(mem.data[s.buf])
        BY <2>1, <3>2 DEF Fits, Capacity, Mems, Slices
      <4>2. QED
        BY <3>2, <4>1 DEF SliceBytes
    <3>3. QED
      BY <3>1, <3>2
  <2>3. RoundBytes(st0, y, i, n) = IF i < n THEN SliceBytes(mem, s) ELSE <<>>
    BY <2>1 DEF RoundBytes
  <2> HIDE DEF s, n
  <2>4. CASE i < n
    BY <2>2, <2>3, <2>4
  <2>5. CASE ~(i < n)
    <3>1. RoundBytes(st0, y, i, n) = <<>>
      BY <2>3, <2>5
    <3>2. <<>> \in Seq(Bytes)
      OBVIOUS
    <3>3. QED
      BY <3>1, <3>2, Zenon
  <2>6. QED
    BY <2>4, <2>5
<1>2. bytes \in Seq(Bytes)
  <2> HIDE DEF n
  <2>1. /\ RoundBytes(st0, y, 0, n) \in Seq(Bytes) /\ RoundBytes(st0, y, 1, n) \in Seq(Bytes)
        /\ RoundBytes(st0, y, 2, n) \in Seq(Bytes) /\ RoundBytes(st0, y, 3, n) \in Seq(Bytes)
    BY <1>1
  <2>2. QED
    BY <2>1 DEF BlockBytes
<1>3. v \in Nat
  BY StartFacts
<1>4. SpannedMem(st0, y, v, n) = [k \in 1..v |-> IF k <= Len(bytes) THEN bytes[k] ELSE Junk]
  BY DEF SpannedMem
<1> HIDE DEF v, n, bytes
<1>5. \A k \in 1..v : (IF k <= Len(bytes) THEN bytes[k] ELSE Junk) \in Bytes
  <2>1. SUFFICES ASSUME NEW k \in 1..v
                 PROVE  (IF k <= Len(bytes) THEN bytes[k] ELSE Junk) \in Bytes
    OBVIOUS
  <2>2. CASE k <= Len(bytes)
    BY <1>2, <1>3, <2>2
  <2>3. CASE ~(k <= Len(bytes))
    <3>1. (IF k <= Len(bytes) THEN bytes[k] ELSE Junk) = Junk
      BY <2>3
    <3>2. Junk \in Bytes
      BY DEF Bytes
    <3>3. QED
      BY <3>1, <3>2, Zenon
  <2>4. QED
    BY <2>2, <2>3
<1>6. SpannedMem(st0, y, v, n) \in [1..v -> Bytes]
  BY <1>4, <1>5
<1>7. QED
  BY <1>3, <1>6 DEF v, n

LEMMA ToSingleBlockKeeps ==
    ASSUME MemInv, NEW x \in Spans, NEW y \in Spans, ToSingleBlock(x, y)
    PROVE  MemInv'
<1> DEFINE n == block_count_[y]
           v == size_[y]
           copied == CopyBlocks(st0, "tmp", y, n)
           bytes == SpannedMem(st0, y, v, n)
           single == ConstructNew(st0, <<"tmp", 0>>, bytes)
<1>1. /\ n \in 0..4 /\ n \in Int /\ v \in Nat
      /\ Sound(st0) /\ st0.slot = slot /\ st0.mem = mem
      /\ slot \in [Locations -> Slices]
      /\ Full(st0, y, n) /\ \A i \in 0..3 : slot[<<"tmp", i>>] = Empty
  BY StartFacts
<1>2. /\ "tmp" \in Names /\ y \in Names /\ "tmp" # y
  BY SpansAreNamed DEF Names
<1>3. size_' = [size_ EXCEPT ![x] = v]
  BY DEF ToSingleBlock
<1>4. CASE /\ n <= 1 /\ Become(EndOfCall(MoveSlots(copied, x, "tmp", n)))
           /\ block_count_' = [block_count_ EXCEPT ![x] = n]
  <2> HIDE DEF n, v
  <2>1. /\ Sound(copied)
        /\ \A i \in 0..3 : copied.slot[<<"tmp", i>>]
              = IF i < n THEN st0.slot[<<y, i>>] ELSE st0.slot[<<"tmp", i>>]
        /\ \A k \in Locations :
              ~Block(k, "tmp", 0, 3) => copied.slot[k] = st0.slot[k]
    BY <1>1, <1>2, CopyBlocksKeeps, ZenonT(30)
  <2> HIDE DEF copied
  <2>2. Full(copied, "tmp", n)
    BY <1>1, <2>1 DEF Full
  <2>3. \A k \in Locations : ~Block(k, "tmp", 0, 3) => copied.slot[k] = slot[k]
    BY <1>1, <2>1
  <2>4. QED
    BY <1>1, <1>3, <1>4, <2>1, <2>2, <2>3, ReturningCall, ZenonT(30)
<1>5. CASE /\ \E b \in Bufs : b \notin mem.live
           /\ Become(EndOfCall(MoveSlots(single, x, "tmp", 1)))
           /\ block_count_' = [block_count_ EXCEPT ![x] = 1]
  <2>1. bytes \in Seq(Bytes)
    BY SpannedMemType
  <2> HIDE DEF n, v, bytes
  <2>2. 0 \in 0..3 /\ 1 \in 0..4
    OBVIOUS
  <2>3. <<"tmp", 0>> \in Locations
    BY <1>2, <2>2, LocationFacts, Zenon
  <2>4. st0.slot[<<"tmp", 0>>].buf = NoBuf /\ \E b \in Bufs : b \notin st0.mem.live
    BY <1>1, <1>5, <2>2, EmptyIsSlice
  <2>5. /\ Sound(single) /\ single.slot[<<"tmp", 0>>].buf # NoBuf
        /\ single.slot = [st0.slot EXCEPT ![<<"tmp", 0>>] = single.slot[<<"tmp", 0>>]]
    BY <1>1, <2>1, <2>3, <2>4, ConstructKeeps, ZenonT(30)
  <2> HIDE DEF single
  <2>6. Full(single, "tmp", 1)
    <3>1. \A i \in 0..3 : i < 1 => i = 0
      OBVIOUS
    <3>2. QED
      BY <2>5, <3>1 DEF Full
  <2>7. \A k \in Locations : ~Block(k, "tmp", 0, 3) => single.slot[k] = slot[k]
    <3>1. \A k \in Locations : ~Block(k, "tmp", 0, 3) => k # <<"tmp", 0>>
      BY DEF Block
    <3>2. QED
      BY <1>1, <2>5, <3>1
  <2>8. QED
    BY <1>1, <1>3, <1>5, <2>2, <2>5, <2>6, <2>7, ReturningCall, ZenonT(30)
<1>6. QED
  BY <1>4, <1>5 DEF ToSingleBlock

\* The caller's slice is on a new buffer, and the other slices and buffers
\* stay.
LEMMA NewSliceMakes ==
    ASSUME MemInv, NEW bytes \in Texts, NewSlice(bytes)
    PROVE  \E st : /\ Sound(st) /\ Become(st)
                   /\ \A k \in Locations : k # Local => st.slot[k] = slot[k]
                   /\ \A f \in st.mem.live :
                         \/ f \in mem.live /\ st.mem.data[f] = mem.data[f]
                         \/ f \notin mem.live /\ st.mem.data[f] = bytes
<1> DEFINE b == Fresh(mem)
           m == Create(mem, bytes)
           u == ResetSlice([mem |-> m, slot |-> slot], Local)
           s == [buf |-> b, begin |-> 0, end |-> Len(bytes)]
           st == Initialize(u, Local, b)
<1>1. /\ SoundBut(mem, slot, {}) /\ slot \in [Locations -> Slices]
      /\ Local \in Locations /\ bytes \in Seq(Bytes) /\ mem \in Mems
      /\ \E f \in Bufs : f \notin mem.live
  BY StartFacts, LocationFacts, TextsAreBytes DEF Sound, NewSlice, States
<1>2. /\ b \in Bufs /\ b \notin mem.live
      /\ SoundBut(m, slot, {b}) /\ m.live = mem.live \cup {b}
      /\ m.data = [mem.data EXCEPT ![b] = bytes]
  BY <1>1, CreateKeeps
<1>3. m.data[b] = bytes /\ b \in m.live /\ b # NoBuf
  BY <1>1, <1>2, EmptyIsSlice DEF Mems
<1>4. Become(st)
  BY DEF NewSlice
<1> HIDE DEF b, m
<1>5. /\ u.slot = [slot EXCEPT ![Local] = Empty]
      /\ SoundBut(u.mem, u.slot, {b})
      /\ b \in u.mem.live /\ u.mem.data[b] = bytes
      /\ u.mem.live \subseteq m.live
      /\ \A f \in u.mem.live : u.mem.data[f] = m.data[f]
  <2>1. CASE slot[Local].buf = NoBuf
    <3>1. slot[Local] = Empty
      BY <1>1, <2>1 DEF SoundBut, Fits
    <3>2. u = [mem |-> m, slot |-> slot] /\ [slot EXCEPT ![Local] = Empty] = slot
      BY <1>1, <2>1, <3>1 DEF ResetSlice
    <3> HIDE DEF u
    <3>3. u.mem = m /\ u.slot = slot /\ slot = [slot EXCEPT ![Local] = Empty]
      BY <3>2
    <3>4. SoundBut(u.mem, u.slot, {b})
      BY <1>2, <3>3, Zenon
    <3>5. QED
      BY <1>3, <3>3, <3>4
  <2>2. CASE slot[Local].buf # NoBuf
    <3> DEFINE r == Release(m, slot[Local].buf)
    <3>1. u = [mem |-> r, slot |-> [slot EXCEPT ![Local] = Empty]]
      BY <2>2 DEF ResetSlice
    <3>2. /\ SoundBut(r, [slot EXCEPT ![Local] = Empty], {b})
          /\ \A f \in r.live : r.data[f] = m.data[f]
          /\ r.live \subseteq m.live
      <4>1. SoundBut(m, slot, {b}) /\ Local \in Locations
        BY <1>1, <1>2
      <4>2. QED
        BY <2>2, <4>1, ReleaseKeeps, ZenonT(30)
    <3> HIDE DEF r, u
    <3>3. b \in r.live
      BY <1>2, <3>2 DEF SoundBut
    <3>4. u.mem = r /\ u.slot = [slot EXCEPT ![Local] = Empty]
      BY <3>1
    <3>5. SoundBut(u.mem, u.slot, {b})
      BY <3>2, <3>4, Zenon
    <3>6. QED
      BY <1>3, <3>2, <3>3, <3>4, <3>5
  <2>3. QED
    BY <2>1, <2>2
<1> HIDE DEF u
<1>6. st = [mem |-> AddRef(u.mem, b), slot |-> [u.slot EXCEPT ![Local] = s]]
  BY <1>5 DEF Initialize, Capacity
<1>7. s \in Slices /\ s.buf = b /\ Fits(u.mem, s) /\ u.slot[Local].buf = NoBuf
  <2>1. s \in Slices /\ s.buf = b
    BY <1>1, <1>2 DEF Slices
  <2>2. Fits(u.mem, s)
    BY <1>1, <1>3, <1>5 DEF Fits, Capacity
  <2>3. QED
    BY <1>1, <1>5, <2>1, <2>2, EmptyIsSlice
<1> HIDE DEF s, st
<1>8. Sound(st)
  BY <1>1, <1>2, <1>5, <1>6, <1>7, FillKeeps, ZenonT(30)
<1>9. \A k \in Locations : k # Local => st.slot[k] = slot[k]
  BY <1>1, <1>5, <1>6
<1>10. AddRef(u.mem, b).live = u.mem.live /\ AddRef(u.mem, b).data = u.mem.data
  BY <1>5 DEF AddRef, SoundBut, Mems
<1>11. \A f \in st.mem.live :
          \/ f \in mem.live /\ st.mem.data[f] = mem.data[f]
          \/ f \notin mem.live /\ st.mem.data[f] = bytes
  <2>1. st.mem.live = u.mem.live /\ st.mem.data = u.mem.data
    BY <1>6, <1>10
  <2>2. SUFFICES ASSUME NEW f \in u.mem.live
                 PROVE  \/ f \in mem.live /\ u.mem.data[f] = mem.data[f]
                        \/ f \notin mem.live /\ u.mem.data[f] = bytes
    BY <2>1
  <2>3. CASE f = b
    BY <1>2, <1>5, <2>3
  <2>4. CASE f # b
    <3>1. f \in mem.live /\ u.mem.data[f] = m.data[f] /\ f \in Bufs
      BY <1>1, <1>2, <1>5, <2>4 DEF Mems
    <3>2. m.data[f] = mem.data[f]
      BY <1>1, <1>2, <2>4, <3>1 DEF Mems
    <3>3. QED
      BY <3>1, <3>2
  <2>5. QED
    BY <2>3, <2>4
<1>12. QED
  BY <1>4, <1>8, <1>9, <1>11

LEMMA NewSliceKeeps ==
    ASSUME MemInv, NEW bytes \in Texts, NewSlice(bytes)
    PROVE  MemInv'
<1>1. PICK st : /\ Sound(st) /\ Become(st)
                /\ \A k \in Locations : k # Local => st.slot[k] = slot[k]
  BY NewSliceMakes
<1>2. Idle(st.slot)
  <2>1. Param \in Locations /\ Param # Local
    BY LocationFacts
  <2>2. \A i \in 0..3 : <<"tmp", i>> \in Locations /\ <<"tmp", i>> # Local
    BY LocationFacts DEF Names
  <2>3. QED
    BY <1>1, <2>1, <2>2, StartFacts DEF Idle
<1>3. \A z \in Spans : \A i \in 0..3 : <<z, i>> \in Locations /\ <<z, i>> # Local
  BY LocationFacts DEF Names
<1>4. \A z \in Spans : Full(st, z, block_count_'[z])
  BY <1>1, <1>3, StartFacts DEF Full, NewSlice
<1>5. size_' \in [Spans -> Nat] /\ block_count_' \in [Spans -> 0..4]
  BY DEF MemInv, NewSlice
<1>6. QED
  BY <1>1, <1>2, <1>4, <1>5, BecomeKeeps

\* A slice that is moved within its buffer, in l.
LEMMA MovedSliceKeeps ==
    ASSUME NEW st, Sound(st), NEW t \in [Locations -> Slices],
           \A l \in Locations : t[l].buf = st.slot[l].buf /\ Fits(st.mem, t[l])
    PROVE  Sound([mem |-> st.mem, slot |-> t])
<1>1. \A b : Users(t, b) = Users(st.slot, b)
  BY DEF Users
<1>2. SoundBut(st.mem, t, {})
  BY <1>1 DEF Sound, SoundBut
<1>3. QED
  BY <1>2 DEF Sound, States

\* SetBeginPointer and SetEndPointer stay within the buffer.
LEMMA PointersFit ==
    ASSUME NEW m, m \in Mems, NEW s \in Slices, s.buf # NoBuf, Fits(m, s), NEW p \in Nat
    PROVE  /\ SetBeginPointer(s, p) \in Slices /\ SetBeginPointer(s, p).buf = s.buf
           /\ Fits(m, SetBeginPointer(s, p))
           /\ SetEndPointer(m, s, p) \in Slices /\ SetEndPointer(m, s, p).buf = s.buf
           /\ Fits(m, SetEndPointer(m, s, p))
<1>1. /\ Capacity(m, s.buf) \in Nat /\ s.begin \in Nat /\ s.end \in Nat
      /\ s.begin <= s.end /\ s.end <= Capacity(m, s.buf) /\ s.buf \in Bufs
  BY DEF Fits, Capacity, Mems, Slices
<1> DEFINE low == IF p < s.begin THEN s.begin ELSE p
           cap == Capacity(m, s.buf)
           e == IF low > cap THEN cap ELSE low
           g == IF p > s.end THEN s.end ELSE p
<1>2. /\ SetBeginPointer(s, p) = [buf |-> s.buf, begin |-> g, end |-> s.end]
      /\ SetEndPointer(m, s, p) = [buf |-> s.buf, begin |-> s.begin, end |-> e]
  BY DEF SetBeginPointer, SetEndPointer, Slices
<1>3. e \in Nat /\ g \in Nat /\ g <= s.end /\ s.begin <= e /\ e <= cap
  BY <1>1
<1> HIDE DEF e, g, cap
<1>4. QED
  BY <1>1, <1>2, <1>3 DEF Slices, Fits, cap

LEMMA AdjustSliceKeeps ==
    ASSUME MemInv, NEW offset \in Int, AdjustSlice(offset)
    PROVE  MemInv'
<1> DEFINE s == slot[Local]
           p == Wrapped(mem, s, s.begin + offset)
           q == Wrapped(mem, s, s.end + offset)
<1>1. /\ Sound(st0) /\ st0.slot = slot /\ st0.mem = mem /\ mem \in Mems
      /\ slot \in [Locations -> Slices] /\ s \in Slices
      /\ \A l \in Locations : Fits(mem, slot[l])
      /\ Local \in Locations /\ Param \in Locations /\ Param # Local
  BY StartFacts, LocationFacts DEF Sound, States
<1>2. s.buf # NoBuf /\ Fits(mem, s)
  BY <1>1 DEF AdjustSlice
<1>3. p \in Nat /\ q \in Nat
  <2>1. Capacity(mem, s.buf) \in Nat /\ s.begin \in Nat /\ s.end \in Nat
    BY <1>1, <1>2 DEF Capacity, Mems, Slices
  <2>2. QED
    BY <2>1 DEF Wrapped
<1>4. PICK t \in {SetBeginPointer(s, p), SetEndPointer(mem, s, q)} :
         slot' = [slot EXCEPT ![Local] = t]
  BY DEF AdjustSlice
<1> HIDE DEF s, p, q
<1>5. t \in Slices /\ t.buf = s.buf /\ Fits(mem, t)
  BY <1>1, <1>2, <1>3, <1>4, PointersFit
<1> DEFINE st == [mem |-> mem, slot |-> slot']
<1>6. /\ slot' \in [Locations -> Slices]
      /\ \A l \in Locations :
            slot'[l].buf = slot[l].buf /\ Fits(mem, slot'[l])
  BY <1>1, <1>4, <1>5 DEF s
<1>7. Sound(st)
  BY <1>1, <1>6, MovedSliceKeeps
<1>8. st.slot = slot' /\ Become(st)
  BY DEF Become, AdjustSlice
<1> HIDE DEF st
<1>9. Idle(st.slot)
  <2>1. \A i \in 0..3 : <<"tmp", i>> \in Locations /\ <<"tmp", i>> # Local
    BY LocationFacts DEF Names
  <2>2. QED
    BY <1>1, <1>4, <1>8, <2>1, StartFacts DEF Idle
<1>10. \A z \in Spans : Full(st, z, block_count_'[z])
  <2>1. \A z \in Spans : \A i \in 0..3 : <<z, i>> \in Locations
    BY LocationFacts DEF Names
  <2>2. SUFFICES ASSUME NEW z \in Spans, NEW i \in 0..3, i < block_count_[z]
                 PROVE  st.slot[<<z, i>>].buf # NoBuf
    BY DEF Full, AdjustSlice
  <2>3. slot[<<z, i>>].buf # NoBuf
    BY <1>1, <2>2, StartFacts DEF Full
  <2>4. QED
    BY <1>6, <1>8, <2>1, <2>3
<1>11. size_' \in [Spans -> Nat] /\ block_count_' \in [Spans -> 0..4]
  BY DEF MemInv, AdjustSlice
<1>12. QED
  BY <1>7, <1>8, <1>9, <1>10, <1>11, BecomeKeeps

\* The loop of AdjustBeginPointer stops at a block, or behind the last.
LEMMA StopsAtType ==
    ASSUME MemInv, NEW x \in Spans, NEW offset \in Nat
    PROVE  StopsAt(x, offset) \in 0..block_count_[x]
<1> DEFINE n == block_count_[x]
           P(i) == /\ i = n \/ Before(x, i + 1) >= offset
                   /\ \A k \in 0..(i - 1) : Before(x, k + 1) < offset
           last == CHOOSE i \in 0..n : P(i)
<1>1. n \in 0..4
  BY StartFacts
<1>2. \A k \in 0..4 : Before(x, k) \in Int
  <2>1. ASSUME NEW i \in 0..3
        PROVE  UsedSize(slot[<<x, i>>]) \in Nat
    <3>1. slot[<<x, i>>] \in Slices /\ Fits(mem, slot[<<x, i>>])
      BY StartFacts, LocationFacts DEF Names
    <3>2. QED
      BY <3>1, UsedFacts
  <2>2. ASSUME NEW i \in 0..3, NEW k \in 0..4
        PROVE  UsedBy(x, i, k) \in Nat
    BY <2>1 DEF UsedBy
  <2>3. QED
    BY <2>2 DEF Before
<1> HIDE DEF n
<1>3. \E i \in 0..n : P(i)
  <2>1. CASE n = 0
    <3>1. P(0) /\ 0 \in 0..n
      BY <2>1
    <3>2. QED
      BY <3>1
  <2>2. CASE n > 0
    <3> DEFINE B(k) == Before(x, k + 1) >= offset
    <3>1. \A k \in 0..3 : B(k) \/ Before(x, k + 1) < offset
      BY <1>2
    <3>2. CASE B(0)
      <4>1. P(0) /\ 0 \in 0..n
        BY <1>1, <2>2, <3>2
      <4>2. QED
        BY <4>1
    <3>3. CASE ~B(0) /\ (B(1) \/ n = 1)
      <4>1. P(1) /\ 1 \in 0..n
        BY <1>1, <2>2, <3>1, <3>3
      <4>2. QED
        BY <4>1
    <3>4. CASE ~B(0) /\ ~B(1) /\ n > 1 /\ (B(2) \/ n = 2)
      <4>1. P(2) /\ 2 \in 0..n
        BY <1>1, <2>2, <3>1, <3>4
      <4>2. QED
        BY <4>1
    <3>5. CASE ~B(0) /\ ~B(1) /\ ~B(2) /\ n > 2 /\ (B(3) \/ n = 3)
      <4>1. P(3) /\ 3 \in 0..n
        BY <1>1, <2>2, <3>1, <3>5
      <4>2. QED
        BY <4>1
    <3>6. CASE ~B(0) /\ ~B(1) /\ ~B(2) /\ ~B(3) /\ n = 4
      <4>1. P(4) /\ 4 \in 0..n
        BY <3>1, <3>6
      <4>2. QED
        BY <4>1
    <3>7. QED
      BY <1>1, <2>2, <3>2, <3>3, <3>4, <3>5, <3>6
  <2>3. QED
    BY <1>1, <2>1, <2>2
<1>4. last \in 0..n
  BY <1>3
<1>5. StopsAt(x, offset)
        = IF last < n /\ Before(x, last + 1) = offset THEN last + 1 ELSE last
  BY DEF StopsAt, n
<1> HIDE DEF last
<1>6. QED
  BY <1>1, <1>4, <1>5 DEF n

LEMMA AdjustBeginPointerKeeps ==
    ASSUME MemInv, NEW x \in Spans, NEW offset \in Nat, AdjustBeginPointer(x, offset)
    PROVE  MemInv'
<1> DEFINE n == block_count_[x]
           pos == StopsAt(x, offset)
           mine == {<<x, i>> : i \in 0..(n - 1)}
           trimmed == [l \in Locations |->
               IF l \in mine
               THEN SetBeginPointer(slot[l], slot[l].begin + Taken(x, offset, l[2]))
               ELSE slot[l]]
           a == [mem |-> mem, slot |-> trimmed]
           c == Compact(a, x, pos)
           v == size_[x] - offset
<1>1. /\ Become(c) /\ size_' = [size_ EXCEPT ![x] = v]
      /\ block_count_' = [block_count_ EXCEPT ![x] = n - pos]
      /\ offset < size_[x]
  BY DEF AdjustBeginPointer
<1>2. /\ Sound(st0) /\ st0.slot = slot /\ st0.mem = mem /\ mem \in Mems
      /\ slot \in [Locations -> Slices]
      /\ \A l \in Locations : Fits(mem, slot[l])
      /\ n \in 0..4 /\ size_[x] \in Nat /\ Full(st0, x, n)
  BY StartFacts DEF Sound, States
<1>3. pos \in 0..n /\ v \in Nat
  BY <1>1, <1>2, StopsAtType
<1> HIDE DEF n, pos, v
<1>4. ASSUME NEW i \in 0..(n - 1)
      PROVE  /\ <<x, i>> \in Locations /\ slot[<<x, i>>].buf # NoBuf
             /\ trimmed[<<x, i>>] \in Slices
             /\ trimmed[<<x, i>>].buf = slot[<<x, i>>].buf
             /\ Fits(mem, trimmed[<<x, i>>])
  <2> DEFINE s == slot[<<x, i>>]
             p == s.begin + Taken(x, offset, i)
  <2>a. i \in 0..3 /\ i < n
    <3>1. n \in 0..4
      BY <1>2
    <3>2. QED
      BY <1>4, <3>1
  <2>1. <<x, i>> \in Locations /\ i \in 0..3
    BY <2>a, LocationFacts DEF Names
  <2>2. s \in Slices /\ Fits(mem, s) /\ s.buf # NoBuf
    BY <1>2, <2>a, <2>1 DEF Full
  <2>3. p \in Nat
    <3>1. Before(x, i) \in Int
      <4>1. ASSUME NEW k \in 0..3
            PROVE  UsedBy(x, k, i) \in Nat
        <5>1. slot[<<x, k>>] \in Slices /\ Fits(mem, slot[<<x, k>>])
          BY <1>2, LocationFacts DEF Names
        <5>2. QED
          BY <5>1, UsedFacts DEF UsedBy
      <4>2. QED
        BY <4>1 DEF Before
    <3>2. UsedSize(s) \in Nat /\ s.begin \in Nat
      BY <2>2, UsedFacts DEF Slices
    <3>3. Taken(x, offset, i) \in Nat
      BY <3>1, <3>2 DEF Taken, Smaller, Larger
    <3>4. QED
      BY <3>2, <3>3
  <2>4. trimmed[<<x, i>>] = SetBeginPointer(s, p)
    BY <2>1
  <2> HIDE DEF trimmed, s, p
  <2>5. QED
    BY <1>2, <2>1, <2>2, <2>3, <2>4, PointersFit DEF s
<1>5. ASSUME NEW l \in Locations, l \notin mine
      PROVE  trimmed[l] = slot[l]
  BY <1>5
<1>6. trimmed \in [Locations -> Slices]
  <2>1. \A l \in Locations : trimmed[l] \in Slices
    BY <1>2, <1>4, <1>5
  <2>2. DOMAIN trimmed = Locations /\ trimmed = [l \in Locations |-> trimmed[l]]
    OBVIOUS
  <2> HIDE DEF trimmed
  <2>3. QED
    BY <2>1, <2>2
<1> HIDE DEF trimmed
<1>7. \A l \in Locations : trimmed[l].buf = slot[l].buf /\ Fits(mem, trimmed[l])
  BY <1>2, <1>4, <1>5
<1>8. Sound(a)
  BY <1>2, <1>6, <1>7, MovedSliceKeeps
<1>9. Full(a, x, n)
  <2>1. \A i \in 0..3 : <<x, i>> \in Locations
    BY LocationFacts DEF Names
  <2>2. QED
    BY <1>2, <1>7, <2>1 DEF Full
<1>10. \A k \in Locations : ~Block(k, x, 0, 3) => a.slot[k] = slot[k]
  <2>1. \A k \in Locations : k \in mine => Block(k, x, 0, 3)
    BY <1>2 DEF Block
  <2>2. QED
    BY <1>5, <2>1
<1> HIDE DEF a
<1>11. /\ Sound(c) /\ Full(c, x, n)
       /\ \A k \in Locations : ~Block(k, x, 0, 3) => c.slot[k] = a.slot[k]
  <2>1. pos \in Int /\ block_count_[x] \in 0..4 /\ Full(a, x, block_count_[x])
    BY <1>2, <1>3, <1>9 DEF n
  <2>2. QED
    BY <1>8, <2>1, CompactKeeps, ZenonT(30) DEF n
<1> HIDE DEF c
<1>12. Idle(c.slot) /\ Rest(c, x)
  BY <1>10, <1>11, Untouched
<1> DEFINE r == n - pos
<1>13. r \in 0..4 /\ Full(c, x, r)
  BY <1>2, <1>3, <1>11 DEF Full
<1>14. block_count_' = [block_count_ EXCEPT ![x] = r]
  BY <1>1
<1> HIDE DEF r
<1>15. QED
  BY <1>1, <1>3, <1>11, <1>12, <1>13, <1>14, CallKeeps, ZenonT(30)

-----------------------------------------------------------------------------
(* The theorems.                                                           *)

\* Every call leaves sound memory, without temporaries, and spans whose
\* blocks hold buffers.
THEOREM MemoryInvariance == Spec => []MemInv
<1>1. Init => MemInv
  <2>1. SUFFICES ASSUME Init
                 PROVE  MemInv
    OBVIOUS
  <2>2. /\ mem = [live |-> {}, ref |-> [b \in Bufs |-> 0],
                  data |-> [b \in Bufs |-> <<>>], fault |-> FALSE]
        /\ slot = [l \in Locations |-> Empty]
        /\ size_ = [x \in Spans |-> 0] /\ block_count_ = [x \in Spans |-> 0]
    BY <2>1 DEF Init
  <2>3. mem \in Mems /\ slot \in [Locations -> Slices]
    BY <2>2, EmptyIsSlice DEF Mems
  <2>4. ASSUME NEW b \in Bufs
        PROVE  Users(slot, b) = {} /\ Cardinality(Users(slot, b)) = 0
    BY <2>2, EmptyIsSlice, FS_EmptySet DEF Users
  <2>5. SoundBut(mem, slot, {})
    BY <2>2, <2>3, <2>4, EmptyIsSlice DEF SoundBut, Fits
  <2>6. Sound(st0)
    BY <2>3, <2>5 DEF Sound, States, st0
  <2>7. Idle(slot)
    BY <2>2, LocationFacts DEF Idle, Names
  <2>8. \A x \in Spans : Full(st0, x, block_count_[x])
    BY <2>2 DEF Full
  <2>9. QED
    BY <2>2, <2>6, <2>7, <2>8 DEF MemInv
<1>2. MemInv /\ [Next]_vars => MemInv'
  <2>1. SUFFICES ASSUME MemInv, [Next]_vars
                 PROVE  MemInv'
    OBVIOUS
  <2>2. CASE UNCHANGED vars
    BY <2>1, <2>2 DEF vars, MemInv, Sound, SoundBut, Idle, Full, st0, Users
  <2>3. CASE \E bytes \in Texts : NewSlice(bytes)
    BY <2>1, <2>3, NewSliceKeeps
  <2>4. CASE \E offset \in {-3, -1, 1} : AdjustSlice(offset)
    <3>1. PICK offset \in {-3, -1, 1} : AdjustSlice(offset)
      BY <2>4
    <3>2. offset \in Int
      OBVIOUS
    <3>3. QED
      BY <2>1, <3>1, <3>2, AdjustSliceKeeps
  <2>5. ASSUME NEW x \in Spans,
               \/ PushBack(x) \/ PushBackFull(x) \/ AssignSlice(x) \/ Reset(x)
               \/ Reconstruct(x) \/ FromList(x) \/ AdjustBeyondEnd(x)
        PROVE  MemInv'
    BY <2>1, <2>5, PushBackKeeps, PushBackFullKeeps, AssignSliceKeeps, ResetKeeps,
       ReconstructKeeps, FromListKeeps, AdjustBeyondEndKeeps
  <2>6. ASSUME NEW x \in Spans, NEW bytes \in Texts,
               AssignBuffer(x, bytes) \/ FromBuffer(x, bytes)
        PROVE  MemInv'
    BY <2>1, <2>6, AssignBufferKeeps, FromBufferKeeps
  <2>7. ASSUME NEW x \in Spans, NEW offset \in 0..MaxText,
               AdjustBeginPointer(x, offset)
        PROVE  MemInv'
    <3>1. offset \in Nat
      BY SizesAreNumbers
    <3>2. QED
      BY <2>1, <2>7, <3>1, AdjustBeginPointerKeeps
  <2>8. ASSUME NEW x \in Spans, NEW y \in Spans \ {x},
               \/ CopyConstruct(x, y) \/ MoveConstructSpan(x, y)
               \/ CopyAssign(x, y) \/ MoveAssign(x, y)
        PROVE  MemInv'
    BY <2>1, <2>8, CopyConstructKeeps, MoveConstructKeeps, CopyAssignKeeps, MoveAssignKeeps
  <2>9. ASSUME NEW x \in Spans, NEW y \in Spans, Clone(x, y) \/ ToSingleBlock(x, y)
        PROVE  MemInv'
    BY <2>1, <2>9, CloneKeeps, ToSingleBlockKeeps
  <2>10. Next => Call
    BY DEF Next
  <2>11. QED
    BY <2>1, <2>2, <2>3, <2>4, <2>5, <2>6, <2>7, <2>8, <2>9, <2>10 DEF Call
<1>3. QED
  BY <1>1, <1>2, PTL DEF Spec

\* Whatever a program does with slices and spans, the count of a buffer is
\* the number of slices on it, a buffer is freed when its last slice goes
\* and not used afterwards, and no slice leaves its buffer: for any number
\* of buffers, spans and calls.
THEOREM SlicesStaySound == Spec => []SlicesAreSound
<1>1. MemInv => SlicesAreSound
  <2>1. SUFFICES ASSUME MemInv
                 PROVE  SlicesAreSound
    OBVIOUS
  <2>2. /\ SoundBut(mem, slot, {}) /\ mem \in Mems /\ slot \in [Locations -> Slices]
        /\ \A l \in Locations : Fits(mem, slot[l])
    BY <2>1, StartFacts DEF Sound, SoundBut
  <2>3. mem.live = {slot[l].buf : l \in Locations} \ {NoBuf}
    <3>1. \A b \in Bufs : b \in mem.live <=> \E l \in Locations : slot[l].buf = b
      BY <2>2 DEF SoundBut, Users
    <3>2. \A l \in Locations : slot[l].buf \in Bufs \cup {NoBuf}
      BY <2>2 DEF Slices
    <3>3. mem.live \subseteq Bufs /\ NoBuf \notin Bufs
      BY <2>2, EmptyIsSlice DEF Mems
    <3>4. QED
      BY <3>1, <3>2, <3>3
  <2>4. \A b \in mem.live :
           mem.ref[b] = Cardinality({l \in Locations : slot[l].buf = b})
    BY <2>2 DEF SoundBut, Users, Mems
  <2>5. ASSUME NEW l \in Locations, slot[l].buf # NoBuf
        PROVE  /\ 0 <= slot[l].begin /\ slot[l].begin <= slot[l].end
               /\ slot[l].end <= Capacity(mem, slot[l].buf)
    BY <2>2, <2>5 DEF Fits, Slices
  <2>6. ~mem.fault
    BY <2>2 DEF SoundBut
  <2>7. QED
    BY <2>3, <2>4, <2>5, <2>6 DEF SlicesAreSound
<1>2. QED
  BY <1>1, MemoryInvariance, PTL

-----------------------------------------------------------------------------
(* What slices read.                                                       *)

\* What a slice reads, and a memory that came from st without new buffers.
Reads(st, l) == SliceBytes(st.mem, st.slot[l])

Shrinks(st, a) ==
    /\ a.mem.live \subseteq st.mem.live
    /\ \A b \in a.mem.live : a.mem.data[b] = st.mem.data[b]

\* A slice reads as many bytes as it uses.
LEMMA ReadsType ==
    ASSUME NEW st, Sound(st), NEW l \in Locations
    PROVE  /\ Reads(st, l) \in Seq(Bytes)
           /\ Len(Reads(st, l)) = UsedSize(st.slot[l])
           /\ UsedSize(st.slot[l]) \in Nat
           /\ st.slot[l].buf = NoBuf => Reads(st, l) = <<>>
<1> DEFINE s == st.slot[l]
<1>1. st.mem \in Mems /\ s \in Slices /\ Fits(st.mem, s)
  BY DEF Sound, States, SoundBut
<1>2. Reads(st, l) = IF s.buf = NoBuf THEN <<>>
                     ELSE SubSeq(st.mem.data[s.buf], s.begin + 1, s.end)
  BY DEF Reads, SliceBytes
<1> HIDE DEF s
<1>3. CASE s.buf = NoBuf
  <2>1. Reads(st, l) = <<>> /\ UsedSize(s) = 0
    BY <1>1, <1>2, <1>3 DEF Fits, Empty, UsedSize
  <2>2. <<>> \in Seq(Bytes) /\ Len(<<>>) = 0
    OBVIOUS
  <2>3. Reads(st, l) \in Seq(Bytes) /\ Len(Reads(st, l)) = 0
    BY <2>1, <2>2, Zenon
  <2>4. QED
    BY <2>1, <2>3 DEF s
<1>4. CASE s.buf # NoBuf
  <2> DEFINE d == st.mem.data[s.buf]
  <2>1. /\ d \in Seq(Bytes) /\ s.begin \in Nat /\ s.end \in Nat
        /\ s.begin <= s.end /\ s.end <= Len(d)
    BY <1>1, <1>4 DEF Fits, Capacity, Mems, Slices
  <2>2. Reads(st, l) = SubSeq(d, s.begin + 1, s.end)
    BY <1>2, <1>4
  <2> HIDE DEF d
  <2>3. SubSeq(d, s.begin + 1, s.end) \in Seq(Bytes)
        /\ Len(SubSeq(d, s.begin + 1, s.end)) = s.end - s.begin
    BY <2>1
  <2>4. UsedSize(s) = s.end - s.begin /\ s.end - s.begin \in Nat
    BY <2>1 DEF UsedSize
  <2>5. Reads(st, l) \in Seq(Bytes) /\ Len(Reads(st, l)) = UsedSize(s)
    BY <2>2, <2>3, <2>4, Zenon
  <2>6. QED
    BY <1>4, <2>4, <2>5, Zenon DEF s
<1>5. QED
  BY <1>3, <1>4

\* A slice that is kept, or moved, reads what it read.
LEMMA ReadsSame ==
    ASSUME NEW st, NEW a, Sound(a), Shrinks(st, a),
           NEW k \in Locations, NEW j, a.slot[k] = st.slot[j]
    PROVE  Reads(a, k) = Reads(st, j)
<1> DEFINE s == a.slot[k]
<1>1. s.buf # NoBuf => s.buf \in a.mem.live
  <2>1. SoundBut(a.mem, a.slot, {})
    BY DEF Sound
  <2>2. s.buf # NoBuf => s.buf \in Bufs /\ k \in Users(a.slot, s.buf)
    BY <2>1 DEF SoundBut, Slices, Users
  <2>3. QED
    BY <2>1, <2>2 DEF SoundBut
<1>2. s.buf # NoBuf => a.mem.data[s.buf] = st.mem.data[s.buf]
  BY <1>1 DEF Shrinks
<1>3. QED
  BY <1>2 DEF Reads, SliceBytes

\* One operation after another.
LEMMA ShrinksTransitive ==
    ASSUME NEW st, NEW a, NEW c, Shrinks(st, a), Shrinks(a, c)
    PROVE  Shrinks(st, c)
BY DEF Shrinks

\* Reset only releases.
LEMMA ResetShrinks ==
    ASSUME NEW st, Sound(st), NEW l \in Locations
    PROVE  Shrinks(st, ResetSlice(st, l))
<1>1. CASE st.slot[l].buf = NoBuf
  BY <1>1 DEF ResetSlice, Shrinks
<1>2. CASE st.slot[l].buf # NoBuf
  <2> DEFINE m == Release(st.mem, st.slot[l].buf)
  <2>1. m.live \subseteq st.mem.live /\ \A b \in m.live : m.data[b] = st.mem.data[b]
    <3>1. SoundBut(st.mem, st.slot, {})
      BY DEF Sound
    <3>2. QED
      BY <1>2, <3>1, ReleaseKeeps, ZenonT(30)
  <2>2. ResetSlice(st, l).mem = m
    BY <1>2 DEF ResetSlice
  <2> HIDE DEF m
  <2>3. QED
    BY <2>1, <2>2 DEF Shrinks
<1>3. QED
  BY <1>1, <1>2

\* A copy releases the old buffer and makes none.
LEMMA CopyShrinks ==
    ASSUME NEW st, Sound(st), NEW l \in Locations, NEW r \in Locations, l # r
    PROVE  Shrinks(st, CopySlice(st, l, r))
<1> DEFINE a == ResetSlice(st, l)
           s == st.slot[r]
<1>1. Sound(a) /\ Shrinks(st, a)
  BY ResetShrinks, ResetSliceKeeps
<1>2. a.mem = IF st.slot[l].buf = NoBuf THEN st.mem
              ELSE Release(st.mem, st.slot[l].buf)
  BY DEF ResetSlice
<1>3. CopySlice(st, l, r).mem = IF s.buf = NoBuf THEN a.mem ELSE AddRef(a.mem, s.buf)
  BY <1>2 DEF CopySlice
<1> HIDE DEF a
<1>4. a.mem \in Mems
  BY <1>1 DEF Sound, States
<1>5. AddRef(a.mem, s.buf).live = a.mem.live /\ AddRef(a.mem, s.buf).data = a.mem.data
  BY <1>4 DEF AddRef, Mems
<1>6. QED
  BY <1>1, <1>3, <1>5 DEF Shrinks

\* A swap leaves the buffers alone.
LEMMA SwapShrinks ==
    ASSUME NEW st, Sound(st), NEW l, NEW r
    PROVE  Shrinks(st, SwapSlice(st, l, r))
<1>1. SwapSlice(st, l, r).mem = st.mem
  BY DEF SwapSlice, Sound, States
<1>2. QED
  BY <1>1 DEF Shrinks

\* The loops that reset slots.
LEMMA ResetSlotsShrinks ==
    ASSUME NEW st, Sound(st), NEW x \in Names, NEW first \in Int, NEW last \in Int
    PROVE  Shrinks(st, ResetSlots(st, x, first, last))
<1>1. ASSUME NEW a, Sound(a), NEW i \in 0..3
      PROVE  /\ Sound(ResetRound(a, x, i, first, last))
             /\ Shrinks(a, ResetRound(a, x, i, first, last))
  <2>1. <<x, i>> \in Locations /\ Shrinks(a, a)
    BY LocationFacts DEF Shrinks
  <2>2. QED
    BY <1>1, <2>1, ResetShrinks, ResetRoundKeeps DEF ResetRound
<1> DEFINE r0 == ResetRound(st, x, 0, first, last)
           r1 == ResetRound(r0, x, 1, first, last)
           r2 == ResetRound(r1, x, 2, first, last)
           r3 == ResetRound(r2, x, 3, first, last)
<1>2. ResetSlots(st, x, first, last) = r3
  BY DEF ResetSlots
<1>0. 0 \in 0..3 /\ 1 \in 0..3 /\ 2 \in 0..3 /\ 3 \in 0..3
  OBVIOUS
<1>3. Sound(r0) /\ Shrinks(st, r0)
  BY <1>0, <1>1, Zenon
<1> HIDE DEF r0
<1>4. Sound(r1) /\ Shrinks(r0, r1)
  BY <1>0, <1>1, <1>3, Zenon
<1> HIDE DEF r1
<1>5. Sound(r2) /\ Shrinks(r1, r2)
  BY <1>0, <1>1, <1>4, Zenon
<1> HIDE DEF r2
<1>6. Sound(r3) /\ Shrinks(r2, r3)
  BY <1>0, <1>1, <1>5, Zenon
<1> HIDE DEF r3
<1>7. QED
  BY <1>2, <1>3, <1>4, <1>5, <1>6, ShrinksTransitive, Zenon

\* The loops that copy blocks.
LEMMA CopyBlocksShrinks ==
    ASSUME NEW st, Sound(st), NEW x \in Names, NEW y \in Names, x # y, NEW n \in Int
    PROVE  Shrinks(st, CopyBlocks(st, x, y, n))
<1>1. ASSUME NEW a, Sound(a), NEW i \in 0..3
      PROVE  /\ Sound(CopyRound(a, x, y, i, n))
             /\ Shrinks(a, CopyRound(a, x, y, i, n))
  <2>1. /\ <<x, i>> \in Locations /\ <<y, i>> \in Locations /\ <<x, i>> # <<y, i>>
        /\ Shrinks(a, a)
    BY LocationFacts DEF Shrinks
  <2>2. QED
    BY <1>1, <2>1, CopyShrinks, CopyRoundKeeps DEF CopyRound
<1> DEFINE r0 == CopyRound(st, x, y, 0, n)
           r1 == CopyRound(r0, x, y, 1, n)
           r2 == CopyRound(r1, x, y, 2, n)
           r3 == CopyRound(r2, x, y, 3, n)
<1>2. CopyBlocks(st, x, y, n) = r3
  BY DEF CopyBlocks
<1>0. 0 \in 0..3 /\ 1 \in 0..3 /\ 2 \in 0..3 /\ 3 \in 0..3
  OBVIOUS
<1>3. Sound(r0) /\ Shrinks(st, r0)
  BY <1>0, <1>1, Zenon
<1> HIDE DEF r0
<1>4. Sound(r1) /\ Shrinks(r0, r1)
  BY <1>0, <1>1, <1>3, Zenon
<1> HIDE DEF r1
<1>5. Sound(r2) /\ Shrinks(r1, r2)
  BY <1>0, <1>1, <1>4, Zenon
<1> HIDE DEF r2
<1>6. Sound(r3) /\ Shrinks(r2, r3)
  BY <1>0, <1>1, <1>5, Zenon
<1> HIDE DEF r3
<1>7. QED
  BY <1>2, <1>3, <1>4, <1>5, <1>6, ShrinksTransitive, Zenon

\* The loops that swap blocks.
LEMMA SwapBlocksShrinks ==
    ASSUME NEW st, Sound(st), NEW x \in Names, NEW y \in Names, x # y, NEW n \in Int
    PROVE  Shrinks(st, SwapBlocks(st, x, y, n))
<1>1. ASSUME NEW a, Sound(a), NEW i \in 0..3
      PROVE  /\ Sound(SwapRound(a, x, y, i, n))
             /\ Shrinks(a, SwapRound(a, x, y, i, n))
  <2>1. Shrinks(a, a)
    BY DEF Shrinks
  <2>2. QED
    BY <1>1, <2>1, SwapShrinks, SwapRoundKeeps DEF SwapRound
<1> DEFINE r0 == SwapRound(st, x, y, 0, n)
           r1 == SwapRound(r0, x, y, 1, n)
           r2 == SwapRound(r1, x, y, 2, n)
           r3 == SwapRound(r2, x, y, 3, n)
<1>2. SwapBlocks(st, x, y, n) = r3
  BY DEF SwapBlocks
<1>0. 0 \in 0..3 /\ 1 \in 0..3 /\ 2 \in 0..3 /\ 3 \in 0..3
  OBVIOUS
<1>3. Sound(r0) /\ Shrinks(st, r0)
  BY <1>0, <1>1, Zenon
<1> HIDE DEF r0
<1>4. Sound(r1) /\ Shrinks(r0, r1)
  BY <1>0, <1>1, <1>3, Zenon
<1> HIDE DEF r1
<1>5. Sound(r2) /\ Shrinks(r1, r2)
  BY <1>0, <1>1, <1>4, Zenon
<1> HIDE DEF r2
<1>6. Sound(r3) /\ Shrinks(r2, r3)
  BY <1>0, <1>1, <1>5, Zenon
<1> HIDE DEF r3
<1>7. QED
  BY <1>2, <1>3, <1>4, <1>5, <1>6, ShrinksTransitive, Zenon

\* The end of a call, and a slice as an argument.
LEMMA EndOfCallShrinks ==
    ASSUME NEW st, Sound(st)
    PROVE  Shrinks(st, EndOfCall(st))
<1> DEFINE a == ResetSlice(st, Param)
<1>0. "tmp" \in Names /\ 0 \in Int /\ 3 \in Int /\ Param \in Locations
  BY LocationFacts DEF Names
<1>1. Sound(a) /\ Shrinks(st, a)
  BY <1>0, ResetShrinks, ResetSliceKeeps
<1>2. EndOfCall(st) = ResetSlots(a, "tmp", 0, 3)
  BY DEF EndOfCall, kMaxBlocks
<1> HIDE DEF a
<1>3. Shrinks(a, ResetSlots(a, "tmp", 0, 3))
  BY <1>0, <1>1, ResetSlotsShrinks, Zenon
<1>4. QED
  BY <1>1, <1>2, <1>3, ShrinksTransitive

\* Nor does passing the slice by value make a buffer.
LEMMA PassSliceShrinks ==
    ASSUME NEW st, Sound(st), NEW a \in PassSlice(st)
    PROVE  Shrinks(st, a)
<1> DEFINE c == CopySlice(st, Param, Local)
<1>0. Param \in Locations /\ Local \in Locations /\ Param # Local
  BY LocationFacts
<1>1. Sound(c) /\ Shrinks(st, c)
  BY <1>0, CopyShrinks, CopySliceKeeps
<1>2. a = c \/ a = ResetSlice(c, Local)
  BY DEF PassSlice, MoveConstruct
<1> HIDE DEF c
<1>3. Shrinks(c, ResetSlice(c, Local))
  BY <1>0, <1>1, ResetShrinks
<1>4. QED
  BY <1>1, <1>2, <1>3, ShrinksTransitive

-----------------------------------------------------------------------------
(* The bytes of a span.                                                    *)

\* The buffers are no larger than the bound of a span.
Small(st) == \A b \in st.mem.live : Len(st.mem.data[b]) <= MaxText

\* Buffers stay as small as they were.
LEMMA ShrinksSmall ==
    ASSUME NEW st, NEW a, Small(st), Shrinks(st, a)
    PROVE  Small(a)
BY DEF Small, Shrinks

\* So a slice reads no more than MaxText bytes.
LEMMA ReadsSmall ==
    ASSUME NEW st, Sound(st), Small(st), NEW l \in Locations
    PROVE  Len(Reads(st, l)) <= MaxText
<1> DEFINE s == st.slot[l]
<1>1. Len(Reads(st, l)) = UsedSize(s)
  BY ReadsType
<1>2. st.mem \in Mems /\ s \in Slices /\ Fits(st.mem, s)
  BY DEF Sound, States, SoundBut
<1>3. CASE s.buf = NoBuf
  <2>1. UsedSize(s) = 0
    BY <1>2, <1>3 DEF Fits, Empty, UsedSize
  <2>2. QED
    BY <1>1, <2>1, SizesAreNumbers
<1>4. CASE s.buf # NoBuf
  <2>1. s.buf \in st.mem.live
    <3>1. SoundBut(st.mem, st.slot, {}) /\ s.buf \in Bufs /\ l \in Users(st.slot, s.buf)
      BY <1>2, <1>4 DEF Sound, Slices, Users
    <3>2. QED
      BY <3>1 DEF SoundBut
  <2>2. /\ s.begin \in Nat /\ s.end \in Nat /\ Len(st.mem.data[s.buf]) \in Nat
        /\ s.end <= Len(st.mem.data[s.buf])
    BY <1>2, <1>4 DEF Fits, Capacity, Mems, Slices
  <2>3. Len(st.mem.data[s.buf]) <= MaxText
    BY <2>1 DEF Small
  <2> HIDE DEF s
  <2>4. QED
    BY <1>1, <2>2, <2>3, SizesAreNumbers DEF UsedSize
<1>5. QED
  BY <1>3, <1>4

\* The blocks of a span read what other blocks read.
LEMMA BlocksSame ==
    ASSUME NEW st, NEW a, NEW x, NEW y, NEW n,
           \A i \in 0..3 : i < n => Reads(a, <<x, i>>) = Reads(st, <<y, i>>)
    PROVE  BlockBytes(a, x, n) = BlockBytes(st, y, n)
<1>1. ASSUME NEW i \in 0..3
      PROVE  RoundBytes(a, x, i, n) = RoundBytes(st, y, i, n)
  BY DEF RoundBytes, Reads
<1>2. QED
  BY <1>1 DEF BlockBytes

\* A span's bytes are those of its blocks, one after the other.
LEMMA BlocksGrow ==
    ASSUME NEW st, Sound(st), NEW x \in Names
    PROVE  /\ BlockBytes(st, x, 0) = <<>>
           /\ \A n \in 0..4 : BlockBytes(st, x, n) \in Seq(Bytes)
           /\ \A n \in 0..3 : BlockBytes(st, x, n + 1)
                                 = BlockBytes(st, x, n) \o Reads(st, <<x, n>>)
<1> DEFINE r0 == Reads(st, <<x, 0>>)
           r1 == Reads(st, <<x, 1>>)
           r2 == Reads(st, <<x, 2>>)
           r3 == Reads(st, <<x, 3>>)
<1>0. \A i \in 0..3 : Reads(st, <<x, i>>) \in Seq(Bytes)
  BY LocationFacts, ReadsType
<1>1. r0 \in Seq(Bytes) /\ r1 \in Seq(Bytes) /\ r2 \in Seq(Bytes) /\ r3 \in Seq(Bytes)
  BY <1>0
<1>2. /\ \A n \in 0..4 : RoundBytes(st, x, 0, n) = IF 0 < n THEN r0 ELSE <<>>
      /\ \A n \in 0..4 : RoundBytes(st, x, 1, n) = IF 1 < n THEN r1 ELSE <<>>
      /\ \A n \in 0..4 : RoundBytes(st, x, 2, n) = IF 2 < n THEN r2 ELSE <<>>
      /\ \A n \in 0..4 : RoundBytes(st, x, 3, n) = IF 3 < n THEN r3 ELSE <<>>
  BY DEF RoundBytes, Reads
<1> HIDE DEF r0, r1, r2, r3
<1>3. /\ BlockBytes(st, x, 0) = <<>> \o <<>> \o <<>> \o <<>>
      /\ BlockBytes(st, x, 1) = r0 \o <<>> \o <<>> \o <<>>
      /\ BlockBytes(st, x, 2) = r0 \o r1 \o <<>> \o <<>>
      /\ BlockBytes(st, x, 3) = r0 \o r1 \o r2 \o <<>>
      /\ BlockBytes(st, x, 4) = r0 \o r1 \o r2 \o r3
  <2>1. 0 \in 0..4 /\ 1 \in 0..4 /\ 2 \in 0..4 /\ 3 \in 0..4 /\ 4 \in 0..4
    OBVIOUS
  <2>2. /\ ~(0 < 0) /\ ~(1 < 0) /\ ~(2 < 0) /\ ~(3 < 0)
        /\ 0 < 1 /\ ~(1 < 1) /\ ~(2 < 1) /\ ~(3 < 1)
        /\ 0 < 2 /\ 1 < 2 /\ ~(2 < 2) /\ ~(3 < 2)
        /\ 0 < 3 /\ 1 < 3 /\ 2 < 3 /\ ~(3 < 3)
        /\ 0 < 4 /\ 1 < 4 /\ 2 < 4 /\ 3 < 4
    OBVIOUS
  <2>3. QED
    BY <1>2, <2>1, <2>2, ZenonT(60) DEF BlockBytes
<1>4. \A s \in Seq(Bytes) : s \o <<>> = s /\ <<>> \o s = s
  BY ConcatEmptySeq
<1>5. /\ r0 \o r1 \in Seq(Bytes) /\ r0 \o r1 \o r2 \in Seq(Bytes)
      /\ r0 \o r1 \o r2 \o r3 \in Seq(Bytes)
  BY <1>1
<1>6. <<>> \in Seq(Bytes)
  OBVIOUS
<1>7. /\ BlockBytes(st, x, 0) = <<>>
      /\ BlockBytes(st, x, 1) = r0 /\ r0 = <<>> \o r0
      /\ BlockBytes(st, x, 2) = r0 \o r1
      /\ BlockBytes(st, x, 3) = r0 \o r1 \o r2
      /\ BlockBytes(st, x, 4) = r0 \o r1 \o r2 \o r3
  <2>1. BlockBytes(st, x, 0) = <<>>
    BY <1>3, <1>4, <1>6, Zenon
  <2>2. BlockBytes(st, x, 1) = r0 /\ r0 = <<>> \o r0
    BY <1>1, <1>3, <1>4, Zenon
  <2>3. BlockBytes(st, x, 2) = r0 \o r1
    BY <1>3, <1>4, <1>5, Zenon
  <2>4. BlockBytes(st, x, 3) = r0 \o r1 \o r2
    BY <1>3, <1>4, <1>5, Zenon
  <2>5. QED
    BY <1>3, <2>1, <2>2, <2>3, <2>4
<1>8. ASSUME NEW n \in 0..4
      PROVE  BlockBytes(st, x, n) \in Seq(Bytes)
  <2>1. n = 0 \/ n = 1 \/ n = 2 \/ n = 3 \/ n = 4
    OBVIOUS
  <2>2. QED
    BY <1>1, <1>5, <1>6, <1>7, <2>1, ZenonT(30)
<1>9. ASSUME NEW n \in 0..3
      PROVE  BlockBytes(st, x, n + 1) = BlockBytes(st, x, n) \o Reads(st, <<x, n>>)
  <2>1. (n = 0 /\ n + 1 = 1) \/ (n = 1 /\ n + 1 = 2) \/ (n = 2 /\ n + 1 = 3)
           \/ (n = 3 /\ n + 1 = 4)
    OBVIOUS
  <2>2. QED
    BY <1>7, <2>1, ZenonT(30) DEF r0, r1, r2, r3
<1>10. QED
  BY <1>7, <1>8, <1>9

\* The bytes of spans of one and of two blocks.
LEMMA FewBlocks ==
    ASSUME NEW st, Sound(st), NEW x \in Names
    PROVE  /\ BlockBytes(st, x, 1) = Reads(st, <<x, 0>>)
           /\ BlockBytes(st, x, 2) = Reads(st, <<x, 0>>) \o Reads(st, <<x, 1>>)
<1>1. 0 \in 0..3 /\ 1 \in 0..3 /\ 0 + 1 = 1 /\ 1 + 1 = 2
  OBVIOUS
<1>2. /\ BlockBytes(st, x, 1) = <<>> \o Reads(st, <<x, 0>>)
      /\ BlockBytes(st, x, 2) = BlockBytes(st, x, 1) \o Reads(st, <<x, 1>>)
  BY <1>1, BlocksGrow, Zenon
<1>3. Reads(st, <<x, 0>>) \in Seq(Bytes)
  BY <1>1, LocationFacts, ReadsType, Zenon
<1>4. <<>> \o Reads(st, <<x, 0>>) = Reads(st, <<x, 0>>)
  BY <1>3, ConcatEmptySeq
<1>5. QED
  BY <1>2, <1>4, Zenon

\* Between calls the blocks of every span read as its text, size_ is its
\* length, and nothing is larger than the bound.
BytesInv ==
    /\ text \in [Spans -> Seq(Bytes)]
    /\ \A x \in Spans :
          /\ BlockBytes(st0, x, block_count_[x]) = text[x]
          /\ size_[x] = Len(text[x])
          /\ Len(text[x]) <= MaxText
    /\ Small(st0)

\* The spans other than x read in a what they read at the start of the call.
Rereads(a, x) ==
    \A z \in Spans \ {x} : \A i \in 0..3 : Reads(a, <<z, i>>) = Reads(st0, <<z, i>>)

\* A call leaves in every span the blocks of its text.
LEMMA BecomeBytes ==
    ASSUME NEW a, Sound(a), Small(a), Become(a), text' \in [Spans -> Seq(Bytes)],
           \A z \in Spans : /\ BlockBytes(a, z, block_count_'[z]) = text'[z]
                            /\ size_'[z] = Len(text'[z])
                            /\ Len(text'[z]) <= MaxText
    PROVE  BytesInv'
<1>1. st0' = a
  <2>1. a = [mem |-> mem', slot |-> slot']
    BY DEF Sound, States, Become
  <2>2. QED
    BY <2>1 DEF st0
<1>2. ASSUME NEW z \in Spans
      PROVE  BlockBytes(st0, z, block_count_[z])' = BlockBytes(a, z, block_count_'[z])
  BY <1>1 DEF BlockBytes, RoundBytes, SliceBytes
<1>3. Small(st0)'
  BY <1>1 DEF Small
<1>4. QED
  BY <1>2, <1>3 DEF BytesInv

\* A call on x leaves the bytes t in c blocks of it, and the others alone.
LEMMA CallBytes ==
    ASSUME MemInv, BytesInv, NEW a, Sound(a), Small(a), NEW x \in Spans, NEW c,
           NEW t \in Seq(Bytes), Len(t) <= MaxText, BlockBytes(a, x, c) = t,
           Rereads(a, x), Become(a),
           size_' = [size_ EXCEPT ![x] = Len(t)],
           block_count_' = [block_count_ EXCEPT ![x] = c],
           text' = [text EXCEPT ![x] = t]
    PROVE  BytesInv'
<1>1. /\ size_ \in [Spans -> Nat] /\ block_count_ \in [Spans -> 0..4]
      /\ text \in [Spans -> Seq(Bytes)]
  BY DEF MemInv, BytesInv
<1>2. text' \in [Spans -> Seq(Bytes)]
  BY <1>1
<1>3. ASSUME NEW z \in Spans
      PROVE  /\ BlockBytes(a, z, block_count_'[z]) = text'[z]
             /\ size_'[z] = Len(text'[z]) /\ Len(text'[z]) <= MaxText
  <2>1. CASE z = x
    BY <1>1, <2>1
  <2>2. CASE z # x
    <3>1. /\ block_count_'[z] = block_count_[z] /\ text'[z] = text[z]
          /\ size_'[z] = size_[z]
      BY <1>1, <2>2
    <3>2. BlockBytes(a, z, block_count_[z]) = BlockBytes(st0, z, block_count_[z])
      <4>1. \A i \in 0..3 : Reads(a, <<z, i>>) = Reads(st0, <<z, i>>)
        BY <2>2 DEF Rereads
      <4>2. QED
        BY <4>1, BlocksSame
    <3>3. QED
      BY <3>1, <3>2 DEF BytesInv
  <2>3. QED
    BY <2>1, <2>2
<1>4. QED
  BY <1>2, <1>3, BecomeBytes

\* A call that leaves every span alone.
LEMMA QuietBytes ==
    ASSUME MemInv, BytesInv, NEW a, Sound(a), Small(a), Become(a),
           UNCHANGED <<size_, block_count_, text>>,
           \A z \in Spans : \A i \in 0..3 : Reads(a, <<z, i>>) = Reads(st0, <<z, i>>)
    PROVE  BytesInv'
<1>1. text' \in [Spans -> Seq(Bytes)]
  BY DEF BytesInv
<1>2. ASSUME NEW z \in Spans
      PROVE  /\ BlockBytes(a, z, block_count_'[z]) = text'[z]
             /\ size_'[z] = Len(text'[z]) /\ Len(text'[z]) <= MaxText
  <2>1. \A i \in 0..3 : Reads(a, <<z, i>>) = Reads(st0, <<z, i>>)
    OBVIOUS
  <2>2. BlockBytes(a, z, block_count_[z]) = BlockBytes(st0, z, block_count_[z])
    BY <2>1, BlocksSame
  <2>3. QED
    BY <2>2 DEF BytesInv
<1>3. QED
  BY <1>1, <1>2, BecomeBytes

\* The destruction of the temporaries does not touch the spans.
LEMMA EndedReads ==
    ASSUME NEW a, Sound(a), NEW z \in Spans
    PROVE  \A i \in 0..3 : Reads(EndOfCall(a), <<z, i>>) = Reads(a, <<z, i>>)
<1> DEFINE e == EndOfCall(a)
<1>1. /\ Sound(e) /\ Shrinks(a, e)
      /\ \A k \in Locations :
            e.slot[k] = IF k = Param \/ Block(k, "tmp", 0, 3) THEN Empty ELSE a.slot[k]
  BY EndOfCallKeeps, EndOfCallShrinks
<1> HIDE DEF e
<1>2. SUFFICES ASSUME NEW i \in 0..3
               PROVE  Reads(e, <<z, i>>) = Reads(a, <<z, i>>)
  BY DEF e
<1>3. <<z, i>> \in Locations /\ <<z, i>> # Param
  BY LocationFacts DEF Names
<1>4. ~Block(<<z, i>>, "tmp", 0, 3)
  BY SpansAreNamed DEF Block
<1>5. e.slot[<<z, i>>] = a.slot[<<z, i>>]
  BY <1>1, <1>3, <1>4
<1>6. QED
  BY <1>1, <1>3, <1>5, ReadsSame

\* A call on x whose temporaries are destroyed at its end.
LEMMA EndedCallBytes ==
    ASSUME MemInv, BytesInv, NEW a, Sound(a), Small(a), NEW x \in Spans, NEW c,
           NEW t \in Seq(Bytes), Len(t) <= MaxText, BlockBytes(a, x, c) = t,
           Rereads(a, x), Become(EndOfCall(a)),
           size_' = [size_ EXCEPT ![x] = Len(t)],
           block_count_' = [block_count_ EXCEPT ![x] = c],
           text' = [text EXCEPT ![x] = t]
    PROVE  BytesInv'
<1> DEFINE e == EndOfCall(a)
<1>1. Sound(e) /\ Small(e)
  BY EndOfCallKeeps, EndOfCallShrinks, ShrinksSmall
<1>2. \A z \in Spans : \A i \in 0..3 : Reads(e, <<z, i>>) = Reads(a, <<z, i>>)
  BY EndedReads
<1>3. Become(e)
  OBVIOUS
<1> HIDE DEF e
<1>4. BlockBytes(e, x, c) = t
  <2>0. \A i \in 0..3 : Reads(e, <<x, i>>) = Reads(a, <<x, i>>)
    BY <1>2
  <2>1. BlockBytes(e, x, c) = BlockBytes(a, x, c)
    BY <2>0, BlocksSame
  <2>2. QED
    BY <2>1
<1>5. Rereads(e, x)
  BY <1>2 DEF Rereads
<1>6. QED
  BY <1>1, <1>3, <1>4, <1>5, CallBytes, ZenonT(30)

\* A slice was passed, or a new buffer: the spans read as before.
PassedReads(st) ==
    /\ Passed(st) /\ Small(st)
    /\ \A z \in Spans : \A i \in 0..3 : Reads(st, <<z, i>>) = Reads(st0, <<z, i>>)

\* The parameter reads what the caller's slice read, and the spans keep
\* their bytes.
LEMMA SlicePassedReads ==
    ASSUME MemInv, BytesInv
    PROVE  /\ PassedReads(st0) /\ Reads(st0, Param) = <<>>
           /\ \A st \in PassSlice(st0) :
                 PassedReads(st) /\ Reads(st, Param) = Reads(st0, Local)
<1>1. /\ Sound(st0) /\ Small(st0) /\ st0.slot = slot /\ Param \in Locations
      /\ slot[Param] = Empty
  BY StartFacts, LocationFacts DEF BytesInv
<1>2. PassedReads(st0) /\ Reads(st0, Param) = <<>>
  <2>1. Reads(st0, Param) = <<>>
    BY <1>1 DEF Reads, SliceBytes, Empty
  <2>2. QED
    BY <1>1, <2>1, SlicePassed DEF PassedReads
<1>3. ASSUME NEW st \in PassSlice(st0)
      PROVE  PassedReads(st) /\ Reads(st, Param) = Reads(st0, Local)
  <2>1. Passed(st) /\ st.slot[Param] = st0.slot[Local] /\ Shrinks(st0, st) /\ Sound(st)
    BY <1>1, SlicePassed, PassSliceShrinks DEF Passed
  <2>2. Small(st)
    BY <1>1, <2>1, ShrinksSmall
  <2>3. ASSUME NEW z \in Spans, NEW i \in 0..3
        PROVE  Reads(st, <<z, i>>) = Reads(st0, <<z, i>>)
    <3>1. <<z, i>> \in Locations /\ <<z, i>> # Param /\ <<z, i>> # Local
      BY LocationFacts DEF Names
    <3>2. st.slot[<<z, i>>] = st0.slot[<<z, i>>]
      BY <1>1, <2>1, <3>1 DEF Passed
    <3>3. QED
      BY <2>1, <3>1, <3>2, ReadsSame
  <2>4. Reads(st, Param) = Reads(st0, Local)
    BY <1>1, <2>1, ReadsSame
  <2>5. QED
    BY <2>1, <2>2, <2>3, <2>4 DEF PassedReads
<1>4. QED
  BY <1>2, <1>3

\* A call that puts what was passed into the first block of x.
LEMMA ReplacingBytes ==
    ASSUME MemInv, BytesInv, NEW x \in Spans, NEW st, PassedReads(st),
           NEW first \in Int, NEW last \in Int, NEW c \in 0..1,
           c = 0 => Reads(st, Param) = <<>>,
           Become(EndOfCall(SwapSlice(ResetSlots(st, x, first, last), <<x, 0>>, Param))),
           size_' = [size_ EXCEPT ![x] = Len(Reads(st, Param))],
           block_count_' = [block_count_ EXCEPT ![x] = c],
           text' = [text EXCEPT ![x] = Reads(st, Param)]
    PROVE  BytesInv'
<1> DEFINE a == ResetSlots(st, x, first, last)
           e == SwapSlice(a, <<x, 0>>, Param)
           t == Reads(st, Param)
<1>0. /\ x \in Names /\ Param \in Locations /\ <<x, 0>> \in Locations /\ 0 \in 0..3
      /\ Sound(st) /\ Small(st) /\ Passed(st)
  <2>1. x \in Names /\ Sound(st) /\ Small(st) /\ Passed(st) /\ 0 \in 0..3
    BY DEF Names, PassedReads, Passed
  <2>2. <<x, 0>> \in Locations /\ Param \in Locations
    BY <2>1, LocationFacts, Zenon
  <2>3. QED
    BY <2>1, <2>2
<1>1. t \in Seq(Bytes) /\ Len(t) <= MaxText
  BY <1>0, ReadsType, ReadsSmall
<1>2. Sound(a) /\ Sound(e) /\ Rest(e, x) /\ e.slot[<<x, 0>>] = st.slot[Param]
  BY <1>0, ReplaceKeeps
<1>3. Shrinks(st, a)
  BY <1>0, ResetSlotsShrinks, Zenon
<1>4. Become(EndOfCall(e)) /\ text' = [text EXCEPT ![x] = t]
      /\ size_' = [size_ EXCEPT ![x] = Len(t)]
  OBVIOUS
<1> HIDE DEF a, t
<1>5. Shrinks(st, e)
  BY <1>2, <1>3, SwapShrinks, ShrinksTransitive, Zenon
<1> HIDE DEF e
<1>6. Small(e)
  BY <1>0, <1>5, ShrinksSmall, Zenon
<1>7. Reads(e, <<x, 0>>) = t
  BY <1>0, <1>2, <1>5, ReadsSame DEF t
<1>8. Rereads(e, x)
  <2>1. SUFFICES ASSUME NEW z \in Spans \ {x}, NEW i \in 0..3
                 PROVE  Reads(e, <<z, i>>) = Reads(st0, <<z, i>>)
    BY DEF Rereads
  <2>2. <<z, i>> \in Locations /\ <<z, i>> # Param /\ <<z, i>> # Local
    BY LocationFacts DEF Names
  <2>3. e.slot[<<z, i>>] = st.slot[<<z, i>>]
    BY <1>0, <1>2, <2>2 DEF Rest, Passed
  <2>4. Reads(e, <<z, i>>) = Reads(st, <<z, i>>)
    BY <1>2, <1>5, <2>2, <2>3, ReadsSame
  <2>5. Reads(st, <<z, i>>) = Reads(st0, <<z, i>>)
    BY DEF PassedReads
  <2>6. QED
    BY <2>4, <2>5
<1>9. BlockBytes(e, x, c) = t
  <2>1. CASE c = 0
    <3>1. t = <<>>
      BY <2>1 DEF t
    <3>2. BlockBytes(e, x, 0) = <<>>
      BY <1>0, <1>2, BlocksGrow
    <3>3. QED
      BY <2>1, <3>1, <3>2
  <2>2. CASE c = 1
    BY <1>0, <1>2, <1>7, <2>2, FewBlocks, Zenon
  <2>3. QED
    BY <2>1, <2>2
<1>10. QED
  BY <1>1, <1>2, <1>4, <1>6, <1>8, <1>9, EndedCallBytes, ZenonT(30)

\* A new buffer: its slice reads it, and the other slices what they read.
LEMMA FilledReads ==
    ASSUME NEW st, Sound(st), NEW a, NEW l \in Locations, NEW bytes \in Seq(Bytes),
           NEW begin, NEW end, Filled(st, a, l, bytes, begin, end)
    PROVE  /\ Reads(a, l) = SubSeq(bytes, begin + 1, end)
           /\ \A k \in Locations : k # l => Reads(a, k) = Reads(st, k)
           /\ Small(st) /\ Len(bytes) <= MaxText => Small(a)
<1> DEFINE b == Fresh(st.mem)
<1>1. /\ st.mem \in Mems /\ st.slot \in [Locations -> Slices]
      /\ SoundBut(st.mem, st.slot, {})
  BY DEF Sound, States
<1>2. /\ b \in Bufs /\ b \notin st.mem.live /\ b # NoBuf
      /\ a.mem.live = st.mem.live \cup {b}
      /\ a.mem.data = [st.mem.data EXCEPT ![b] = bytes]
      /\ a.slot = [st.slot EXCEPT ![l] = [buf |-> b, begin |-> begin, end |-> end]]
  BY EmptyIsSlice DEF Filled
<1> HIDE DEF b
<1>3. a.mem.data[b] = bytes /\ \A c \in Bufs : c # b => a.mem.data[c] = st.mem.data[c]
  BY <1>1, <1>2 DEF Mems
<1>4. /\ a.slot[l] = [buf |-> b, begin |-> begin, end |-> end]
      /\ \A k \in Locations : k # l => a.slot[k] = st.slot[k]
  BY <1>1, <1>2
<1>5. Reads(a, l) = SubSeq(bytes, begin + 1, end)
  <2>1. a.slot[l].buf = b /\ a.slot[l].begin = begin /\ a.slot[l].end = end
    BY <1>4
  <2>2. QED
    BY <1>2, <1>3, <2>1, Zenon DEF Reads, SliceBytes
<1>6. ASSUME NEW k \in Locations, k # l
      PROVE  Reads(a, k) = Reads(st, k)
  <2> DEFINE s == st.slot[k]
  <2>1. a.slot[k] = s
    BY <1>4, <1>6
  <2>2. s.buf # NoBuf => s.buf \in Bufs /\ s.buf # b
    <3>1. s.buf # NoBuf => s.buf \in Bufs /\ k \in Users(st.slot, s.buf)
      BY <1>1 DEF Slices, Users
    <3>2. s.buf # NoBuf => s.buf \in st.mem.live
      BY <1>1, <3>1 DEF SoundBut
    <3>3. QED
      BY <1>2, <3>1, <3>2
  <2> HIDE DEF s
  <2>3. QED
    BY <1>3, <2>1, <2>2 DEF Reads, SliceBytes, s
<1>7. ASSUME Small(st), Len(bytes) <= MaxText
      PROVE  Small(a)
  <2>1. st.mem.live \subseteq Bufs
    BY <1>1 DEF Mems
  <2>2. SUFFICES ASSUME NEW c \in a.mem.live
                 PROVE  Len(a.mem.data[c]) <= MaxText
    BY DEF Small
  <2>3. CASE c = b
    BY <1>3, <1>7, <2>3
  <2>4. CASE c # b
    BY <1>2, <1>3, <1>7, <2>1, <2>4 DEF Small
  <2>5. QED
    BY <2>3, <2>4
<1>8. QED
  BY <1>5, <1>6, <1>7

\* MemSlice(MemBuf::Create(...)) reads the bytes it was made of.
LEMMA ConstructReads ==
    ASSUME NEW st, Sound(st), NEW l \in Locations, st.slot[l].buf = NoBuf,
           NEW bytes \in Seq(Bytes), \E b \in Bufs : b \notin st.mem.live,
           Len(bytes) <= MaxText
    PROVE  /\ Sound(ConstructNew(st, l, bytes))
           /\ Reads(ConstructNew(st, l, bytes), l) = bytes
           /\ \A k \in Locations : k # l => Reads(ConstructNew(st, l, bytes), k) = Reads(st, k)
           /\ Small(st) => Small(ConstructNew(st, l, bytes))
<1> DEFINE a == ConstructNew(st, l, bytes)
           end == Smaller(SliceLimit, Len(bytes))
<1>1. Sound(a) /\ Filled(st, a, l, bytes, 0, end)
  BY ConstructKeeps
<1>2. end = Len(bytes) /\ 0 + 1 = 1
  BY SizesAreNumbers, TextsFit DEF Smaller
<1> HIDE DEF a, end
<1>3. /\ Reads(a, l) = SubSeq(bytes, 0 + 1, end)
      /\ \A k \in Locations : k # l => Reads(a, k) = Reads(st, k)
      /\ Small(st) => Small(a)
  BY <1>1, FilledReads
<1>4. SubSeq(bytes, 1, Len(bytes)) = bytes
  BY SubSeqFull
<1>5. Reads(a, l) = bytes
  BY <1>2, <1>3, <1>4
<1>6. QED
  BY <1>1, <1>3, <1>5 DEF a

\* The same, as the parameter of a call.
LEMMA BufferPassedReads ==
    ASSUME MemInv, BytesInv, NEW bytes \in Texts, \E b \in Bufs : b \notin mem.live
    PROVE  PassedReads(PassBuffer(bytes)) /\ Reads(PassBuffer(bytes), Param) = bytes
<1> DEFINE c == PassBuffer(bytes)
<1>1. Passed(c)
  BY BufferPassed
<1>2. /\ Sound(st0) /\ Small(st0) /\ st0.slot[Param].buf = NoBuf /\ Param \in Locations
      /\ bytes \in Seq(Bytes) /\ Len(bytes) <= MaxText
      /\ \E b \in Bufs : b \notin st0.mem.live
  BY StartFacts, LocationFacts, TextsAreBytes, TextsFit, EmptyIsSlice DEF BytesInv
<1>3. /\ Reads(c, Param) = bytes /\ Small(c)
      /\ \A k \in Locations : k # Param => Reads(c, k) = Reads(st0, k)
  BY <1>2, ConstructReads DEF PassBuffer
<1> HIDE DEF c
<1>4. \A z \in Spans : \A i \in 0..3 : <<z, i>> \in Locations /\ <<z, i>> # Param
  BY LocationFacts DEF Names
<1>5. PassedReads(c)
  BY <1>1, <1>3, <1>4 DEF PassedReads
<1>6. QED
  BY <1>3, <1>5 DEF c

-----------------------------------------------------------------------------
(* The calls that replace a span's blocks.                                 *)

\* operator=(MemSlice).
LEMMA AssignSliceBytes ==
    ASSUME MemInv, BytesInv, NEW x \in Spans, AssignSlice(x)
    PROVE  BytesInv'
<1> DEFINE last == block_count_[x] - 1
           t == SliceBytes(mem, slot[Local])
<1>1. PICK st \in PassSlice(st0) :
         Become(EndOfCall(SwapSlice(ResetSlots(st, x, 1, last), <<x, 0>>, Param)))
  BY DEF AssignSlice
<1>2. /\ size_' = [size_ EXCEPT ![x] = UsedSize(slot[Local])]
      /\ block_count_' = [block_count_ EXCEPT ![x] = 1]
      /\ text' = [text EXCEPT ![x] = t]
  BY DEF AssignSlice
<1>3. PassedReads(st) /\ Reads(st, Param) = Reads(st0, Local)
  BY SlicePassedReads
<1>4. Reads(st0, Local) = t /\ Len(t) = UsedSize(slot[Local])
  <2>1. Reads(st0, Local) = t
    BY DEF Reads, st0
  <2>2. Len(Reads(st0, Local)) = UsedSize(slot[Local])
    BY StartFacts, LocationFacts, ReadsType
  <2>3. QED
    BY <2>1, <2>2
<1>5. last \in Int /\ 1 \in Int /\ 1 \in 0..1 /\ 1 # 0
  BY StartFacts
<1> HIDE DEF last, t
<1>6. /\ size_' = [size_ EXCEPT ![x] = Len(Reads(st, Param))]
      /\ text' = [text EXCEPT ![x] = Reads(st, Param)]
  BY <1>2, <1>3, <1>4
<1>7. QED
  BY <1>1, <1>2, <1>3, <1>5, <1>6, ReplacingBytes, ZenonT(30)

\* operator=(const MemBuf *).
LEMMA AssignBufferBytes ==
    ASSUME MemInv, BytesInv, NEW x \in Spans, NEW bytes \in Texts, AssignBuffer(x, bytes)
    PROVE  BytesInv'
<1> DEFINE last == block_count_[x] - 1
           st == PassBuffer(bytes)
<1>1. /\ \E b \in Bufs : b \notin mem.live
      /\ Become(EndOfCall(SwapSlice(ResetSlots(st, x, 1, last), <<x, 0>>, Param)))
      /\ size_' = [size_ EXCEPT ![x] = UsedSize(st.slot[Param])]
      /\ block_count_' = [block_count_ EXCEPT ![x] = 1]
      /\ text' = [text EXCEPT ![x] = SliceBytes(st.mem, st.slot[Param])]
  BY DEF AssignBuffer
<1>2. PassedReads(st)
  BY <1>1, BufferPassedReads
<1>3. last \in Int /\ 1 \in Int /\ 1 \in 0..1 /\ 1 # 0
  BY StartFacts
<1> HIDE DEF last, st
<1>4. /\ SliceBytes(st.mem, st.slot[Param]) = Reads(st, Param)
      /\ UsedSize(st.slot[Param]) = Len(Reads(st, Param))
  <2>1. Sound(st) /\ Param \in Locations
    BY <1>2, LocationFacts DEF PassedReads, Passed
  <2>2. QED
    BY <2>1, ReadsType DEF Reads
<1>5. /\ size_' = [size_ EXCEPT ![x] = Len(Reads(st, Param))]
      /\ text' = [text EXCEPT ![x] = Reads(st, Param)]
  BY <1>1, <1>4
<1>6. QED
  BY <1>1, <1>2, <1>3, <1>5, ReplacingBytes, ZenonT(30)

\* The constructors from a MemBuf and from raw memory.
LEMMA FromBufferBytes ==
    ASSUME MemInv, BytesInv, NEW x \in Spans, NEW bytes \in Texts, FromBuffer(x, bytes)
    PROVE  BytesInv'
<1> DEFINE st == PassBuffer(bytes)
<1>1. /\ \E b \in Bufs : b \notin mem.live
      /\ Become(EndOfCall(SwapSlice(ResetSlots(st, x, 0, 3), <<x, 0>>, Param)))
      /\ size_' = [size_ EXCEPT ![x] = Len(bytes)]
      /\ block_count_' = [block_count_ EXCEPT ![x] = 1]
      /\ text' = [text EXCEPT ![x] = bytes]
  BY DEF FromBuffer, kMaxBlocks
<1>2. PassedReads(st) /\ Reads(st, Param) = bytes
  BY <1>1, BufferPassedReads
<1>3. 0 \in Int /\ 3 \in Int /\ 1 \in 0..1 /\ 1 # 0
  OBVIOUS
<1> HIDE DEF st
<1>4. /\ size_' = [size_ EXCEPT ![x] = Len(Reads(st, Param))]
      /\ text' = [text EXCEPT ![x] = Reads(st, Param)]
  BY <1>1, <1>2
<1>5. QED
  BY <1>1, <1>2, <1>3, <1>4, ReplacingBytes, ZenonT(30)

\* What was passed, or nothing.
LEMMA PassedText ==
    ASSUME MemInv, BytesInv, NEW st \in PassSlice(st0) \cup {st0}
    PROVE  /\ PassedReads(st)
           /\ SliceBytes(st.mem, st.slot[Param]) = Reads(st, Param)
           /\ UsedSize(st.slot[Param]) = Len(Reads(st, Param))
           /\ Reads(st, Param) \in Seq(Bytes)
<1>1. PassedReads(st)
  BY SlicePassedReads
<1>2. Sound(st) /\ Param \in Locations
  BY <1>1, LocationFacts DEF PassedReads, Passed
<1>3. QED
  BY <1>1, <1>2, ReadsType DEF Reads

\* Reset.
LEMMA ResetBytes ==
    ASSUME MemInv, BytesInv, NEW x \in Spans, Reset(x)
    PROVE  BytesInv'
<1> DEFINE last == block_count_[x] - 1
<1>1. PICK st \in PassSlice(st0) \cup {st0} :
         /\ Become(EndOfCall(SwapSlice(ResetSlots(st, x, 0, last), <<x, 0>>, Param)))
         /\ size_' = [size_ EXCEPT ![x] = UsedSize(st.slot[Param])]
         /\ block_count_' = [block_count_ EXCEPT ![x] =
                                IF UsedSize(st.slot[Param]) = 0 THEN 0 ELSE 1]
         /\ text' = [text EXCEPT ![x] = SliceBytes(st.mem, st.slot[Param])]
  BY DEF Reset
<1> DEFINE c == IF UsedSize(st.slot[Param]) = 0 THEN 0 ELSE 1
<1>2. /\ PassedReads(st)
      /\ SliceBytes(st.mem, st.slot[Param]) = Reads(st, Param)
      /\ UsedSize(st.slot[Param]) = Len(Reads(st, Param))
      /\ Reads(st, Param) \in Seq(Bytes)
  BY PassedText
<1>3. last \in Int /\ 0 \in Int /\ c \in 0..1
  BY StartFacts
<1>4. c = 0 => Reads(st, Param) = <<>>
  BY <1>2, EmptySeq
<1>5. block_count_' = [block_count_ EXCEPT ![x] = c]
  BY <1>1
<1> HIDE DEF last, c
<1>6. /\ size_' = [size_ EXCEPT ![x] = Len(Reads(st, Param))]
      /\ text' = [text EXCEPT ![x] = Reads(st, Param)]
  BY <1>1, <1>2
<1>7. QED
  BY <1>1, <1>2, <1>3, <1>4, <1>5, <1>6, ReplacingBytes, ZenonT(30)

\* The destructor, and a new span in its place.
LEMMA ReconstructBytes ==
    ASSUME MemInv, BytesInv, NEW x \in Spans, Reconstruct(x)
    PROVE  BytesInv'
<1>1. PICK st \in PassSlice(st0) \cup {st0} :
         LET a == ResetSlots(st, x, 0, kMaxBlocks - 1)
             s == st.slot[Param]
             used == UsedSize(s) # 0
         IN /\ Become(EndOfCall(IF used THEN SwapSlice(a, <<x, 0>>, Param) ELSE a))
            /\ size_' = [size_ EXCEPT ![x] = UsedSize(s)]
            /\ block_count_' = [block_count_ EXCEPT ![x] = IF used THEN 1 ELSE 0]
            /\ text' = [text EXCEPT ![x] = SliceBytes(st.mem, s)]
  BY DEF Reconstruct
<1> DEFINE a == ResetSlots(st, x, 0, 3)
           t == Reads(st, Param)
<1>2. /\ PassedReads(st)
      /\ SliceBytes(st.mem, st.slot[Param]) = t
      /\ UsedSize(st.slot[Param]) = Len(t)
      /\ t \in Seq(Bytes)
  BY PassedText
<1>3. /\ size_' = [size_ EXCEPT ![x] = Len(t)]
      /\ text' = [text EXCEPT ![x] = t]
  BY <1>1, <1>2
<1>4. 0 \in Int /\ 3 \in Int /\ 1 \in 0..1 /\ 1 # 0
  OBVIOUS
<1>5. CASE UsedSize(st.slot[Param]) # 0
  <2>1. /\ Become(EndOfCall(SwapSlice(a, <<x, 0>>, Param)))
        /\ block_count_' = [block_count_ EXCEPT ![x] = 1]
    BY <1>1, <1>5 DEF kMaxBlocks
  <2>2. QED
    BY <1>2, <1>3, <1>4, <2>1, ReplacingBytes, ZenonT(30)
<1>6. CASE UsedSize(st.slot[Param]) = 0
  <2>1. Become(EndOfCall(a)) /\ block_count_' = [block_count_ EXCEPT ![x] = 0]
    BY <1>1, <1>6 DEF kMaxBlocks
  <2>2. t = <<>> /\ Len(t) <= MaxText
    <3>1. Len(t) = 0
      BY <1>2, <1>6, Zenon
    <3> HIDE DEF t
    <3>2. QED
      BY <1>2, <3>1, EmptySeq, SizesAreNumbers
  <2>3. x \in Names /\ Sound(st) /\ Small(st) /\ Passed(st)
    BY <1>2 DEF Names, PassedReads, Passed
  <2>4. Sound(a) /\ Rest(a, x)
    BY <1>4, <2>3, ReplaceKeeps
  <2>5. Shrinks(st, a)
    BY <1>4, <2>3, ResetSlotsShrinks, Zenon
  <2> HIDE DEF a, t
  <2>6. Small(a)
    BY <2>3, <2>5, ShrinksSmall, Zenon
  <2>7. BlockBytes(a, x, 0) = t
    BY <2>2, <2>3, <2>4, BlocksGrow
  <2>8. Rereads(a, x)
    <3>1. SUFFICES ASSUME NEW z \in Spans \ {x}, NEW i \in 0..3
                   PROVE  Reads(a, <<z, i>>) = Reads(st0, <<z, i>>)
      BY DEF Rereads
    <3>2. <<z, i>> \in Locations /\ <<z, i>> # Param /\ <<z, i>> # Local
      BY LocationFacts DEF Names
    <3>3. a.slot[<<z, i>>] = st.slot[<<z, i>>]
      BY <2>3, <2>4, <3>2 DEF Rest, Passed
    <3>4. Reads(a, <<z, i>>) = Reads(st, <<z, i>>)
      BY <2>4, <2>5, <3>2, <3>3, ReadsSame
    <3>5. Reads(st, <<z, i>>) = Reads(st0, <<z, i>>)
      BY <1>2 DEF PassedReads
    <3>6. QED
      BY <3>4, <3>5
  <2>9. QED
    BY <1>2, <1>3, <2>1, <2>2, <2>4, <2>6, <2>7, <2>8, EndedCallBytes, ZenonT(30)
<1>7. QED
  BY <1>5, <1>6

-----------------------------------------------------------------------------
(* What the loops over blocks leave to be read.                            *)

\* The loop of ~MemSliceSpan: the other slices read what they read.
LEMMA ResetSlotsReads ==
    ASSUME NEW st, Sound(st), NEW x \in Names, NEW first \in Int, NEW last \in Int
    PROVE  /\ Sound(ResetSlots(st, x, first, last))
           /\ Shrinks(st, ResetSlots(st, x, first, last))
           /\ \A k \in Locations : ~Block(k, x, first, last)
                 => Reads(ResetSlots(st, x, first, last), k) = Reads(st, k)
<1> DEFINE a == ResetSlots(st, x, first, last)
<1>1. /\ Sound(a)
      /\ \A k \in Locations :
            a.slot[k] = IF Block(k, x, first, last) THEN Empty ELSE st.slot[k]
  BY ResetSlotsKeeps, ZenonT(30)
<1>2. Shrinks(st, a)
  BY ResetSlotsShrinks, Zenon
<1> HIDE DEF a
<1>3. ASSUME NEW k \in Locations, ~Block(k, x, first, last)
      PROVE  Reads(a, k) = Reads(st, k)
  <2>1. a.slot[k] = st.slot[k]
    BY <1>1, <1>3
  <2>2. QED
    BY <1>1, <1>2, <2>1, ReadsSame
<1>4. QED
  BY <1>1, <1>2, <1>3 DEF a

\* The loop of the copy constructor: the blocks of x read as those of y.
LEMMA CopyBlocksReads ==
    ASSUME NEW st, Sound(st), NEW x \in Names, NEW y \in Names, x # y, NEW n \in Int
    PROVE  /\ Sound(CopyBlocks(st, x, y, n))
           /\ Shrinks(st, CopyBlocks(st, x, y, n))
           /\ \A i \in 0..3 : i < n
                 => Reads(CopyBlocks(st, x, y, n), <<x, i>>) = Reads(st, <<y, i>>)
           /\ \A k \in Locations : ~Block(k, x, 0, 3)
                 => Reads(CopyBlocks(st, x, y, n), k) = Reads(st, k)
<1> DEFINE a == CopyBlocks(st, x, y, n)
<1>1. /\ Sound(a)
      /\ \A i \in 0..3 : a.slot[<<x, i>>]
            = IF i < n THEN st.slot[<<y, i>>] ELSE st.slot[<<x, i>>]
      /\ \A k \in Locations : ~Block(k, x, 0, 3) => a.slot[k] = st.slot[k]
  BY CopyBlocksKeeps, ZenonT(30)
<1>2. Shrinks(st, a)
  BY CopyBlocksShrinks, Zenon
<1> HIDE DEF a
<1>3. ASSUME NEW i \in 0..3, i < n
      PROVE  Reads(a, <<x, i>>) = Reads(st, <<y, i>>)
  <2>1. <<x, i>> \in Locations /\ a.slot[<<x, i>>] = st.slot[<<y, i>>]
    BY <1>1, <1>3, LocationFacts
  <2>2. QED
    BY <1>1, <1>2, <2>1, ReadsSame
<1>4. ASSUME NEW k \in Locations, ~Block(k, x, 0, 3)
      PROVE  Reads(a, k) = Reads(st, k)
  <2>1. a.slot[k] = st.slot[k]
    BY <1>1, <1>4
  <2>2. QED
    BY <1>1, <1>2, <2>1, ReadsSame
<1>5. QED
  BY <1>1, <1>2, <1>3, <1>4 DEF a

\* The loop of the move constructor.
LEMMA SwapBlocksReads ==
    ASSUME NEW st, Sound(st), NEW x \in Names, NEW y \in Names, x # y, NEW n \in Int
    PROVE  /\ Sound(SwapBlocks(st, x, y, n))
           /\ Shrinks(st, SwapBlocks(st, x, y, n))
           /\ \A i \in 0..3 : i < n
                 => Reads(SwapBlocks(st, x, y, n), <<x, i>>) = Reads(st, <<y, i>>)
           /\ \A k \in Locations : ~Block(k, x, 0, 3) /\ ~Block(k, y, 0, 3)
                 => Reads(SwapBlocks(st, x, y, n), k) = Reads(st, k)
<1> DEFINE a == SwapBlocks(st, x, y, n)
<1>1. /\ Sound(a)
      /\ \A i \in 0..3 : a.slot[<<x, i>>]
            = IF i < n THEN st.slot[<<y, i>>] ELSE st.slot[<<x, i>>]
      /\ \A k \in Locations : ~Block(k, x, 0, 3) /\ ~Block(k, y, 0, 3)
            => a.slot[k] = st.slot[k]
  BY SwapBlocksKeeps, ZenonT(30)
<1>2. Shrinks(st, a)
  BY SwapBlocksShrinks, Zenon
<1> HIDE DEF a
<1>3. ASSUME NEW i \in 0..3, i < n
      PROVE  Reads(a, <<x, i>>) = Reads(st, <<y, i>>)
  <2>1. <<x, i>> \in Locations /\ a.slot[<<x, i>>] = st.slot[<<y, i>>]
    BY <1>1, <1>3, LocationFacts
  <2>2. QED
    BY <1>1, <1>2, <2>1, ReadsSame
<1>4. ASSUME NEW k \in Locations, ~Block(k, x, 0, 3), ~Block(k, y, 0, 3)
      PROVE  Reads(a, k) = Reads(st, k)
  <2>1. a.slot[k] = st.slot[k]
    BY <1>1, <1>4
  <2>2. QED
    BY <1>1, <1>2, <2>1, ReadsSame
<1>5. QED
  BY <1>1, <1>2, <1>3, <1>4 DEF a

\* The first n slots of x are not among those from n on.
LEMMA KeptBlocks ==
    ASSUME NEW x, NEW n \in Int, NEW last \in Int
    PROVE  /\ \A i \in 0..3 : i < n => ~Block(<<x, i>>, x, n, last)
           /\ \A k : Block(k, x, n, last) => Block(k, x, 0, 3)
<1>1. ASSUME NEW i \in 0..3, i < n, Block(<<x, i>>, x, n, last)
      PROVE  FALSE
  <2>1. PICK j \in 0..3 : <<x, i>> = <<x, j>> /\ n <= j
    BY <1>1 DEF Block
  <2>2. i = j
    BY <2>1
  <2>3. QED
    BY <1>1, <2>1, <2>2
<1>2. ASSUME NEW k, Block(k, x, n, last)
      PROVE  Block(k, x, 0, 3)
  <2>1. PICK j \in 0..3 : k = <<x, j>>
    BY <1>2 DEF Block
  <2>2. 0 <= j /\ j <= 3
    OBVIOUS
  <2>3. QED
    BY <2>1, <2>2, Zenon DEF Block
<1>3. QED
  BY <1>1, <1>2

\* operator=(MemSliceSpan &&): x reads what y read.
LEMMA MoveSlotsReads ==
    ASSUME NEW st, Sound(st), NEW x \in Names, NEW y \in Names, x # y,
           NEW n \in Int, block_count_[x] \in Int
    PROVE  /\ Sound(MoveSlots(st, x, y, n))
           /\ Shrinks(st, MoveSlots(st, x, y, n))
           /\ \A i \in 0..3 : i < n
                 => Reads(MoveSlots(st, x, y, n), <<x, i>>) = Reads(st, <<y, i>>)
           /\ \A k \in Locations : ~Block(k, x, 0, 3) /\ ~Block(k, y, 0, 3)
                 => Reads(MoveSlots(st, x, y, n), k) = Reads(st, k)
<1> DEFINE a == SwapBlocks(st, x, y, n)
           last == block_count_[x] - 1
           c == ResetSlots(a, x, n, last)
<1>1. last \in Int /\ MoveSlots(st, x, y, n) = c
  BY DEF MoveSlots
<1>2. /\ Sound(a) /\ Shrinks(st, a)
      /\ \A i \in 0..3 : i < n => Reads(a, <<x, i>>) = Reads(st, <<y, i>>)
      /\ \A k \in Locations : ~Block(k, x, 0, 3) /\ ~Block(k, y, 0, 3)
            => Reads(a, k) = Reads(st, k)
  BY SwapBlocksReads, ZenonT(30)
<1> HIDE DEF a, last
<1>3. /\ Sound(c) /\ Shrinks(a, c)
      /\ \A k \in Locations : ~Block(k, x, n, last) => Reads(c, k) = Reads(a, k)
  BY <1>1, <1>2, ResetSlotsReads, ZenonT(30)
<1> HIDE DEF c
<1>4. /\ \A i \in 0..3 : i < n => ~Block(<<x, i>>, x, n, last)
      /\ \A k : Block(k, x, n, last) => Block(k, x, 0, 3)
      /\ \A i \in 0..3 : <<x, i>> \in Locations
  BY <1>1, KeptBlocks, LocationFacts, Zenon
<1>5. Shrinks(st, c)
  BY <1>2, <1>3, ShrinksTransitive, Zenon
<1>6. ASSUME NEW i \in 0..3, i < n
      PROVE  Reads(c, <<x, i>>) = Reads(st, <<y, i>>)
  BY <1>2, <1>3, <1>4, <1>6
<1>7. ASSUME NEW k \in Locations, ~Block(k, x, 0, 3), ~Block(k, y, 0, 3)
      PROVE  Reads(c, k) = Reads(st, k)
  BY <1>2, <1>3, <1>4, <1>7
<1>8. QED
  BY <1>1, <1>3, <1>5, <1>6, <1>7

\* operator=(const MemSliceSpan &): x reads what y reads.
LEMMA CopySlotsReads ==
    ASSUME NEW st, Sound(st), NEW x \in Names, NEW y \in Names, x # y,
           NEW n \in Int, block_count_[x] \in Int
    PROVE  /\ Sound(CopySlots(st, x, y, n))
           /\ Shrinks(st, CopySlots(st, x, y, n))
           /\ \A i \in 0..3 : i < n
                 => Reads(CopySlots(st, x, y, n), <<x, i>>) = Reads(st, <<y, i>>)
           /\ \A k \in Locations : ~Block(k, x, 0, 3)
                 => Reads(CopySlots(st, x, y, n), k) = Reads(st, k)
<1> DEFINE a == CopyBlocks(st, x, y, n)
           last == block_count_[x] - 1
           c == ResetSlots(a, x, n, last)
<1>1. last \in Int /\ CopySlots(st, x, y, n) = c
  BY DEF CopySlots
<1>2. /\ Sound(a) /\ Shrinks(st, a)
      /\ \A i \in 0..3 : i < n => Reads(a, <<x, i>>) = Reads(st, <<y, i>>)
      /\ \A k \in Locations : ~Block(k, x, 0, 3) => Reads(a, k) = Reads(st, k)
  BY CopyBlocksReads, ZenonT(30)
<1> HIDE DEF a, last
<1>3. /\ Sound(c) /\ Shrinks(a, c)
      /\ \A k \in Locations : ~Block(k, x, n, last) => Reads(c, k) = Reads(a, k)
  BY <1>1, <1>2, ResetSlotsReads, ZenonT(30)
<1> HIDE DEF c
<1>4. /\ \A i \in 0..3 : i < n => ~Block(<<x, i>>, x, n, last)
      /\ \A k : Block(k, x, n, last) => Block(k, x, 0, 3)
      /\ \A i \in 0..3 : <<x, i>> \in Locations
  BY <1>1, KeptBlocks, LocationFacts, Zenon
<1>5. Shrinks(st, c)
  BY <1>2, <1>3, ShrinksTransitive, Zenon
<1>6. ASSUME NEW i \in 0..3, i < n
      PROVE  Reads(c, <<x, i>>) = Reads(st, <<y, i>>)
  BY <1>2, <1>3, <1>4, <1>6
<1>7. ASSUME NEW k \in Locations, ~Block(k, x, 0, 3)
      PROVE  Reads(c, k) = Reads(st, k)
  BY <1>2, <1>3, <1>4, <1>7
<1>8. QED
  BY <1>1, <1>3, <1>5, <1>6, <1>7

-----------------------------------------------------------------------------
(* The calls that copy and move blocks.                                    *)

\* The blocks of x become those that y had, and the other spans stay.
LEMMA CopyingBytes ==
    ASSUME MemInv, BytesInv, NEW x \in Spans, NEW y \in Spans, NEW c, Sound(c), Small(c),
           \A i \in 0..3 : i < block_count_[y] => Reads(c, <<x, i>>) = Reads(st0, <<y, i>>),
           Rereads(c, x), Become(c),
           size_' = [size_ EXCEPT ![x] = size_[y]],
           block_count_' = [block_count_ EXCEPT ![x] = block_count_[y]],
           text' = [text EXCEPT ![x] = text[y]]
    PROVE  BytesInv'
<1> DEFINE t == text[y]
           n == block_count_[y]
<1>1. /\ t \in Seq(Bytes) /\ Len(t) <= MaxText /\ size_[y] = Len(t)
      /\ BlockBytes(st0, y, n) = t
  BY DEF BytesInv
<1> HIDE DEF t, n
<1>2. BlockBytes(c, x, n) = t
  <2>1. \A i \in 0..3 : i < n => Reads(c, <<x, i>>) = Reads(st0, <<y, i>>)
    BY DEF n
  <2>2. BlockBytes(c, x, n) = BlockBytes(st0, y, n)
    <3>1. ASSUME NEW i \in 0..3
          PROVE  RoundBytes(c, x, i, n) = RoundBytes(st0, y, i, n)
      BY <2>1 DEF RoundBytes, Reads
    <3>2. QED
      BY <3>1 DEF BlockBytes
  <2>3. QED
    BY <1>1, <2>2
<1>3. /\ size_' = [size_ EXCEPT ![x] = Len(t)]
      /\ block_count_' = [block_count_ EXCEPT ![x] = n]
      /\ text' = [text EXCEPT ![x] = t]
  BY <1>1 DEF t, n
<1>4. QED
  BY <1>1, <1>2, <1>3, CallBytes, ZenonT(30)

\* The blocks of spans other than x are read as before.
LEMMA OthersReread ==
    ASSUME NEW x \in Spans, NEW c,
           \A k \in Locations : ~Block(k, x, 0, 3) => Reads(c, k) = Reads(st0, k)
    PROVE  Rereads(c, x)
<1>1. SUFFICES ASSUME NEW z \in Spans \ {x}, NEW i \in 0..3
               PROVE  Reads(c, <<z, i>>) = Reads(st0, <<z, i>>)
  BY DEF Rereads
<1>2. <<z, i>> \in Locations /\ ~Block(<<z, i>>, x, 0, 3)
  BY OtherBlocks DEF Names
<1>3. QED
  BY <1>2

\* x = y.
LEMMA CopyAssignBytes ==
    ASSUME MemInv, BytesInv, NEW x \in Spans, NEW y \in Spans \ {x}, CopyAssign(x, y)
    PROVE  BytesInv'
<1> DEFINE n == block_count_[y]
           c == CopySlots(st0, x, y, n)
<1>1. /\ x \in Names /\ y \in Names /\ x # y /\ n \in Int /\ block_count_[x] \in Int
      /\ Sound(st0) /\ Small(st0)
  BY StartFacts DEF Names, BytesInv
<1>2. /\ Become(c) /\ size_' = [size_ EXCEPT ![x] = size_[y]]
      /\ block_count_' = [block_count_ EXCEPT ![x] = n]
      /\ text' = [text EXCEPT ![x] = text[y]]
  BY DEF CopyAssign
<1> HIDE DEF n
<1>3. /\ Sound(c) /\ Shrinks(st0, c)
      /\ \A i \in 0..3 : i < n => Reads(c, <<x, i>>) = Reads(st0, <<y, i>>)
      /\ \A k \in Locations : ~Block(k, x, 0, 3) => Reads(c, k) = Reads(st0, k)
  BY <1>1, CopySlotsReads, ZenonT(30)
<1> HIDE DEF c
<1>4. Small(c) /\ Rereads(c, x)
  BY <1>1, <1>3, ShrinksSmall, OthersReread
<1>5. QED
  BY <1>2, <1>3, <1>4, CopyingBytes, ZenonT(30) DEF n

\* MemSliceSpan(y).
LEMMA CopyConstructBytes ==
    ASSUME MemInv, BytesInv, NEW x \in Spans, NEW y \in Spans \ {x}, CopyConstruct(x, y)
    PROVE  BytesInv'
<1> DEFINE n == block_count_[y]
           a == ResetSlots(st0, x, 0, 3)
           c == CopyBlocks(a, x, y, n)
<1>1. /\ x \in Names /\ y \in Names /\ x # y /\ n \in Int /\ 0 \in Int /\ 3 \in Int
      /\ Sound(st0) /\ Small(st0) /\ y \in Spans
  BY StartFacts DEF Names, BytesInv
<1>2. /\ Become(c) /\ size_' = [size_ EXCEPT ![x] = size_[y]]
      /\ block_count_' = [block_count_ EXCEPT ![x] = n]
      /\ text' = [text EXCEPT ![x] = text[y]]
  BY DEF CopyConstruct, kMaxBlocks
<1>3. /\ Sound(a) /\ Shrinks(st0, a)
      /\ \A k \in Locations : ~Block(k, x, 0, 3) => Reads(a, k) = Reads(st0, k)
  BY <1>1, ResetSlotsReads, ZenonT(30)
<1> HIDE DEF n, a
<1>4. /\ Sound(c) /\ Shrinks(a, c)
      /\ \A i \in 0..3 : i < n => Reads(c, <<x, i>>) = Reads(a, <<y, i>>)
      /\ \A k \in Locations : ~Block(k, x, 0, 3) => Reads(c, k) = Reads(a, k)
  BY <1>1, <1>3, CopyBlocksReads, ZenonT(30)
<1> HIDE DEF c
<1>5. Small(c)
  BY <1>1, <1>3, <1>4, ShrinksSmall, Zenon
<1>6. Rereads(c, x)
  BY <1>3, <1>4, OthersReread
<1>7. \A i \in 0..3 : i < n => Reads(c, <<x, i>>) = Reads(st0, <<y, i>>)
  <2>1. \A i \in 0..3 : <<y, i>> \in Locations /\ ~Block(<<y, i>>, x, 0, 3)
    BY <1>1, OtherBlocks
  <2>2. QED
    BY <1>3, <1>4, <2>1
<1>8. QED
  BY <1>1, <1>2, <1>4, <1>5, <1>6, <1>7, CopyingBytes, ZenonT(30) DEF n

\* x takes the blocks of y, and y is empty.
LEMMA MovingBytes ==
    ASSUME MemInv, BytesInv, NEW x \in Spans, NEW y \in Spans \ {x},
           NEW c, Sound(c), Small(c),
           \A i \in 0..3 : i < block_count_[y] => Reads(c, <<x, i>>) = Reads(st0, <<y, i>>),
           \A k \in Locations : ~Block(k, x, 0, 3) /\ ~Block(k, y, 0, 3)
              => Reads(c, k) = Reads(st0, k),
           Become(c),
           size_' = [size_ EXCEPT ![x] = size_[y], ![y] = 0],
           block_count_' = [block_count_ EXCEPT ![x] = block_count_[y], ![y] = 0],
           text' = [text EXCEPT ![x] = text[y], ![y] = <<>>]
    PROVE  BytesInv'
<1>1. /\ size_ \in [Spans -> Nat] /\ block_count_ \in [Spans -> 0..4]
      /\ text \in [Spans -> Seq(Bytes)]
  BY DEF MemInv, BytesInv
<1>2. <<>> \in Seq(Bytes) /\ Len(<<>>) = 0 /\ 0 <= MaxText
  BY SizesAreNumbers
<1>3. text' \in [Spans -> Seq(Bytes)]
  BY <1>1, <1>2
<1>4. ASSUME NEW z \in Spans
      PROVE  /\ BlockBytes(c, z, block_count_'[z]) = text'[z]
             /\ size_'[z] = Len(text'[z]) /\ Len(text'[z]) <= MaxText
  <2>1. CASE z = y
    <3>1. block_count_'[z] = 0 /\ text'[z] = <<>> /\ size_'[z] = 0
      BY <1>1, <2>1
    <3>2. BlockBytes(c, z, 0) = <<>>
      BY BlocksGrow DEF Names
    <3>3. QED
      BY <1>2, <3>1, <3>2, Zenon
  <2>2. CASE z = x
    <3>1. /\ block_count_'[z] = block_count_[y] /\ text'[z] = text[y]
          /\ size_'[z] = size_[y]
      BY <1>1, <2>2
    <3> DEFINE n == block_count_[y]
    <3>0. \A i \in 0..3 : i < n => Reads(c, <<x, i>>) = Reads(st0, <<y, i>>)
      OBVIOUS
    <3> HIDE DEF n
    <3>a. BlockBytes(c, x, n) = BlockBytes(st0, y, n)
      <4>1. ASSUME NEW i \in 0..3
            PROVE  RoundBytes(c, x, i, n) = RoundBytes(st0, y, i, n)
        BY <3>0 DEF RoundBytes, Reads
      <4>2. QED
        BY <4>1 DEF BlockBytes
    <3>2. BlockBytes(c, x, block_count_[y]) = BlockBytes(st0, y, block_count_[y])
      BY <3>a DEF n
    <3>3. QED
      BY <2>2, <3>1, <3>2 DEF BytesInv
  <2>3. CASE z # x /\ z # y
    <3>1. /\ block_count_'[z] = block_count_[z] /\ text'[z] = text[z]
          /\ size_'[z] = size_[z]
      BY <1>1, <2>3
    <3>2. \A i \in 0..3 : Reads(c, <<z, i>>) = Reads(st0, <<z, i>>)
      <4>1. \A i \in 0..3 : /\ <<z, i>> \in Locations /\ ~Block(<<z, i>>, x, 0, 3)
                            /\ ~Block(<<z, i>>, y, 0, 3)
        BY <2>3, OtherBlocks DEF Names
      <4>2. QED
        BY <4>1
    <3>3. BlockBytes(c, z, block_count_[z]) = BlockBytes(st0, z, block_count_[z])
      BY <3>2, BlocksSame
    <3>4. QED
      BY <3>1, <3>3 DEF BytesInv
  <2>4. QED
    BY <2>1, <2>2, <2>3
<1>5. QED
  BY <1>3, <1>4, BecomeBytes

\* x = std::move(y).
LEMMA MoveAssignBytes ==
    ASSUME MemInv, BytesInv, NEW x \in Spans, NEW y \in Spans \ {x}, MoveAssign(x, y)
    PROVE  BytesInv'
<1> DEFINE n == block_count_[y]
           c == MoveSlots(st0, x, y, n)
<1>1. /\ x \in Names /\ y \in Names /\ x # y /\ n \in Int /\ block_count_[x] \in Int
      /\ Sound(st0) /\ Small(st0)
  BY StartFacts DEF Names, BytesInv
<1>2. /\ Become(c) /\ size_' = [size_ EXCEPT ![x] = size_[y], ![y] = 0]
      /\ block_count_' = [block_count_ EXCEPT ![x] = n, ![y] = 0]
      /\ text' = [text EXCEPT ![x] = text[y], ![y] = <<>>]
  BY DEF MoveAssign
<1> HIDE DEF n
<1>3. /\ Sound(c) /\ Shrinks(st0, c)
      /\ \A i \in 0..3 : i < n => Reads(c, <<x, i>>) = Reads(st0, <<y, i>>)
      /\ \A k \in Locations : ~Block(k, x, 0, 3) /\ ~Block(k, y, 0, 3)
            => Reads(c, k) = Reads(st0, k)
  BY <1>1, MoveSlotsReads, ZenonT(30)
<1> HIDE DEF c
<1>4. Small(c)
  BY <1>1, <1>3, ShrinksSmall
<1>5. QED
  BY <1>2, <1>3, <1>4, MovingBytes, ZenonT(30) DEF n

\* MemSliceSpan(std::move(y)).
LEMMA MoveConstructBytes ==
    ASSUME MemInv, BytesInv, NEW x \in Spans, NEW y \in Spans \ {x}, MoveConstructSpan(x, y)
    PROVE  BytesInv'
<1> DEFINE n == block_count_[y]
           a == ResetSlots(st0, x, 0, 3)
           c == SwapBlocks(a, x, y, n)
<1>1. /\ x \in Names /\ y \in Names /\ x # y /\ n \in Int /\ 0 \in Int /\ 3 \in Int
      /\ Sound(st0) /\ Small(st0)
  BY StartFacts DEF Names, BytesInv
<1>2. /\ Become(c) /\ size_' = [size_ EXCEPT ![x] = size_[y], ![y] = 0]
      /\ block_count_' = [block_count_ EXCEPT ![x] = n, ![y] = 0]
      /\ text' = [text EXCEPT ![x] = text[y], ![y] = <<>>]
  BY DEF MoveConstructSpan, kMaxBlocks
<1>3. /\ Sound(a) /\ Shrinks(st0, a)
      /\ \A k \in Locations : ~Block(k, x, 0, 3) => Reads(a, k) = Reads(st0, k)
  BY <1>1, ResetSlotsReads, ZenonT(30)
<1> HIDE DEF n, a
<1>4. /\ Sound(c) /\ Shrinks(a, c)
      /\ \A i \in 0..3 : i < n => Reads(c, <<x, i>>) = Reads(a, <<y, i>>)
      /\ \A k \in Locations : ~Block(k, x, 0, 3) /\ ~Block(k, y, 0, 3)
            => Reads(c, k) = Reads(a, k)
  BY <1>1, <1>3, SwapBlocksReads, ZenonT(30)
<1> HIDE DEF c
<1>5. Small(c)
  BY <1>1, <1>3, <1>4, ShrinksSmall, Zenon
<1>6. \A k \in Locations : ~Block(k, x, 0, 3) /\ ~Block(k, y, 0, 3)
         => Reads(c, k) = Reads(st0, k)
  BY <1>3, <1>4
<1>7. \A i \in 0..3 : i < n => Reads(c, <<x, i>>) = Reads(st0, <<y, i>>)
  <2>1. \A i \in 0..3 : <<y, i>> \in Locations /\ ~Block(<<y, i>>, x, 0, 3)
    BY <1>1, OtherBlocks
  <2>2. QED
    BY <1>3, <1>4, <2>1
<1>8. QED
  BY <1>2, <1>4, <1>5, <1>6, <1>7, MovingBytes, ZenonT(30) DEF n

\* AdjustBeginPointer behind the end.
LEMMA AdjustBeyondEndBytes ==
    ASSUME MemInv, BytesInv, NEW x \in Spans, AdjustBeyondEnd(x)
    PROVE  BytesInv'
<1> DEFINE last == block_count_[x] - 1
           a == ResetSlots(st0, x, 0, last)
<1>1. x \in Names /\ 0 \in Int /\ last \in Int /\ Sound(st0) /\ Small(st0)
  BY StartFacts DEF Names, BytesInv
<1>2. /\ Become(a) /\ size_' = [size_ EXCEPT ![x] = 0]
      /\ block_count_' = [block_count_ EXCEPT ![x] = 0]
      /\ text' = [text EXCEPT ![x] = <<>>]
  BY DEF AdjustBeyondEnd
<1> HIDE DEF last
<1>3. /\ Sound(a) /\ Shrinks(st0, a)
      /\ \A k \in Locations : ~Block(k, x, 0, last) => Reads(a, k) = Reads(st0, k)
  BY <1>1, ResetSlotsReads, ZenonT(30)
<1> HIDE DEF a
<1>4. Small(a)
  BY <1>1, <1>3, ShrinksSmall, Zenon
<1>5. Rereads(a, x)
  <2>1. \A k : Block(k, x, 0, last) => Block(k, x, 0, 3)
    BY <1>1, KeptBlocks
  <2>2. QED
    BY <1>3, <2>1, OthersReread
<1>6. BlockBytes(a, x, 0) = <<>>
  BY <1>1, <1>3, BlocksGrow
<1>7. <<>> \in Seq(Bytes) /\ Len(<<>>) <= MaxText
  BY SizesAreNumbers
<1>8. size_' = [size_ EXCEPT ![x] = Len(<<>>)]
  BY <1>2
<1>9. QED
  BY <1>2, <1>3, <1>4, <1>5, <1>6, <1>7, <1>8, CallBytes, ZenonT(30)

-----------------------------------------------------------------------------
(* The calls with the caller's slice.                                      *)

\* PushBack on a full span loses the slice and no byte of a span.
LEMMA PushBackFullBytes ==
    ASSUME MemInv, BytesInv, NEW x \in Spans, PushBackFull(x)
    PROVE  BytesInv'
<1>1. PICK st \in PassSlice(st0) : Become(EndOfCall(st))
  BY DEF PushBackFull
<1> DEFINE e == EndOfCall(st)
<1>2. PassedReads(st)
  BY SlicePassedReads
<1>3. /\ Sound(st) /\ Small(st)
      /\ \A z \in Spans : \A i \in 0..3 : Reads(st, <<z, i>>) = Reads(st0, <<z, i>>)
  BY <1>2 DEF PassedReads, Passed
<1>4. Sound(e) /\ Small(e) /\ Become(e)
  BY <1>1, <1>3, EndOfCallKeeps, EndOfCallShrinks, ShrinksSmall
<1>5. \A z \in Spans : \A i \in 0..3 : Reads(e, <<z, i>>) = Reads(st, <<z, i>>)
  BY <1>3, EndedReads
<1> HIDE DEF e
<1>6. \A z \in Spans : \A i \in 0..3 : Reads(e, <<z, i>>) = Reads(st0, <<z, i>>)
  BY <1>3, <1>5
<1>7. UNCHANGED <<size_, block_count_, text>>
  BY DEF PushBackFull
<1>8. QED
  BY <1>4, <1>6, <1>7, QuietBytes

\* PushBack appends the bytes of the slice.
LEMMA PushBackBytes ==
    ASSUME MemInv, BytesInv, NEW x \in Spans, PushBack(x)
    PROVE  BytesInv'
<1>1. PICK st \in PassSlice(st0) :
         Become(EndOfCall(SwapSlice(st, <<x, block_count_[x]>>, Param)))
  BY DEF PushBack
<1> DEFINE n == block_count_[x]
           a == SwapSlice(st, <<x, n>>, Param)
           r == Reads(st0, Local)
           t == text[x] \o r
<1>2. n \in 0..3 /\ n + 1 \in 0..4 /\ n \in 0..4
  BY StartFacts DEF PushBack, kMaxBlocks
<1>3. r = SliceBytes(mem, slot[Local]) /\ r \in Seq(Bytes) /\ Len(r) = UsedSize(slot[Local])
  <2>1. r = SliceBytes(mem, slot[Local])
    BY DEF Reads, st0
  <2>2. r \in Seq(Bytes) /\ Len(r) = UsedSize(slot[Local])
    BY StartFacts, LocationFacts, ReadsType
  <2>3. QED
    BY <2>1, <2>2
<1>4. /\ PassedReads(st) /\ Reads(st, Param) = r
      /\ Sound(st) /\ Small(st) /\ Passed(st) /\ Param \in Locations
  BY SlicePassedReads, LocationFacts DEF PassedReads, Passed
<1>5. /\ size_' = [size_ EXCEPT ![x] = size_[x] + Len(r)]
      /\ block_count_' = [block_count_ EXCEPT ![x] = n + 1]
      /\ text' = [text EXCEPT ![x] = t]
      /\ Len(text[x]) + Len(r) <= MaxText
  <2>1. /\ size_' = [size_ EXCEPT ![x] = size_[x] + UsedSize(slot[Local])]
        /\ block_count_' = [block_count_ EXCEPT ![x] = n + 1]
        /\ text' = [text EXCEPT ![x] = text[x] \o SliceBytes(mem, slot[Local])]
        /\ Len(text[x]) + UsedSize(slot[Local]) <= MaxText
    BY DEF PushBack
  <2> HIDE DEF r
  <2>2. QED
    BY <1>3, <2>1
<1>6. /\ text[x] \in Seq(Bytes) /\ size_[x] = Len(text[x])
      /\ BlockBytes(st0, x, n) = text[x]
  BY DEF BytesInv
<1> HIDE DEF r
<1>7. t \in Seq(Bytes) /\ Len(t) = size_[x] + Len(r) /\ Len(t) <= MaxText
  <2> DEFINE u == text[x]
  <2>1. u \in Seq(Bytes) /\ r \in Seq(Bytes) /\ Len(u) + Len(r) <= MaxText
    BY <1>3, <1>5, <1>6
  <2> HIDE DEF u
  <2>2. u \o r \in Seq(Bytes) /\ Len(u \o r) = Len(u) + Len(r)
    BY <2>1, ConcatProperties
  <2>3. Len(u \o r) <= MaxText
    BY <2>1, <2>2
  <2>4. QED
    BY <1>6, <2>2, <2>3, Zenon DEF u
<1>8. /\ Sound(a) /\ a.slot[<<x, n>>] = st.slot[Param] /\ Become(EndOfCall(a))
      /\ \A k \in Locations : k # Param /\ k # <<x, n>> => a.slot[k] = st.slot[k]
  BY <1>1, <1>2, <1>4, PutKeeps
<1>9. Shrinks(st, a)
  BY <1>4, SwapShrinks
<1> HIDE DEF a, n, t
<1>10. Small(a)
  BY <1>4, <1>9, ShrinksSmall
<1>11. Reads(a, <<x, n>>) = r
  <2>1. <<x, n>> \in Locations
    BY <1>2, LocationFacts DEF Names
  <2>2. Reads(a, <<x, n>>) = Reads(st, Param)
    BY <1>8, <1>9, <2>1, ReadsSame
  <2>3. QED
    BY <1>4, <2>2
<1>12. ASSUME NEW z \in Spans, NEW i \in 0..3, <<z, i>> # <<x, n>>
       PROVE  Reads(a, <<z, i>>) = Reads(st0, <<z, i>>)
  <2>1. <<z, i>> \in Locations /\ <<z, i>> # Param
    BY LocationFacts DEF Names
  <2>2. a.slot[<<z, i>>] = st.slot[<<z, i>>]
    BY <1>8, <1>12, <2>1
  <2>3. Reads(a, <<z, i>>) = Reads(st, <<z, i>>)
    BY <1>8, <1>9, <2>1, <2>2, ReadsSame
  <2>4. QED
    BY <1>4, <2>3 DEF PassedReads
<1>13. Rereads(a, x)
  <2>1. \A z \in Spans \ {x} : \A i \in 0..3 : <<z, i>> # <<x, n>>
    OBVIOUS
  <2>2. QED
    BY <1>12, <2>1 DEF Rereads
<1>14. BlockBytes(a, x, n + 1) = t
  <2>1. BlockBytes(a, x, n + 1) = BlockBytes(a, x, n) \o Reads(a, <<x, n>>)
    BY <1>2, <1>8, BlocksGrow DEF Names
  <2>2. BlockBytes(a, x, n) = BlockBytes(st0, x, n)
    <3>1. \A i \in 0..3 : i < n => <<x, i>> # <<x, n>>
      BY <1>2
    <3>2. \A i \in 0..3 : i < n => Reads(a, <<x, i>>) = Reads(st0, <<x, i>>)
      BY <1>12, <3>1
    <3>3. QED
      BY <3>2, BlocksSame
  <2>3. QED
    BY <1>6, <1>11, <2>1, <2>2, Zenon DEF t
<1>15. size_' = [size_ EXCEPT ![x] = Len(t)]
  BY <1>5, <1>7
<1>16. QED
  BY <1>5, <1>7, <1>8, <1>10, <1>13, <1>14, <1>15, EndedCallBytes, ZenonT(30)

\* Slices that stay on buffers that stay read what they read.
LEMMA NewSliceBytes ==
    ASSUME MemInv, BytesInv, NEW bytes \in Texts, NewSlice(bytes)
    PROVE  BytesInv'
<1>1. PICK st : /\ Sound(st) /\ Become(st)
                /\ \A k \in Locations : k # Local => st.slot[k] = slot[k]
                /\ \A f \in st.mem.live :
                      \/ f \in mem.live /\ st.mem.data[f] = mem.data[f]
                      \/ f \notin mem.live /\ st.mem.data[f] = bytes
  BY NewSliceMakes
<1>2. Sound(st0) /\ st0.slot = slot /\ st0.mem = mem /\ Small(st0)
  BY StartFacts DEF BytesInv
<1>3. Small(st)
  BY <1>1, <1>2, TextsFit DEF Small
<1>4. ASSUME NEW z \in Spans, NEW i \in 0..3
      PROVE  Reads(st, <<z, i>>) = Reads(st0, <<z, i>>)
  <2> DEFINE k == <<z, i>>
             s == slot[k]
  <2>1. k \in Locations /\ k # Local
    BY LocationFacts DEF Names
  <2>2. st.slot[k] = s /\ st0.slot[k] = s
    BY <1>1, <1>2, <2>1
  <2> HIDE DEF k
  <2>3. s.buf # NoBuf => s.buf \in mem.live /\ s.buf \in st.mem.live
    <3>1. SoundBut(st0.mem, st0.slot, {}) /\ SoundBut(st.mem, st.slot, {})
      BY <1>1, <1>2 DEF Sound
    <3>2. s.buf # NoBuf => /\ s.buf \in Bufs /\ k \in Users(st0.slot, s.buf)
                           /\ k \in Users(st.slot, s.buf)
      BY <2>1, <2>2, <3>1 DEF SoundBut, Slices, Users
    <3>3. QED
      BY <1>2, <3>1, <3>2 DEF SoundBut
  <2> HIDE DEF s
  <2>4. s.buf # NoBuf => st.mem.data[s.buf] = mem.data[s.buf]
    BY <1>1, <2>3
  <2>5. Reads(st, k) = Reads(st0, k)
    BY <1>2, <2>2, <2>4 DEF Reads, SliceBytes
  <2>6. QED
    BY <2>5 DEF k
<1>5. UNCHANGED <<size_, block_count_, text>>
  BY DEF NewSlice
<1>6. QED
  BY <1>1, <1>3, <1>4, <1>5, QuietBytes

\* Moving the pointers of the caller's slice changes no span, even one that
\* shares its buffer.
LEMMA AdjustSliceBytes ==
    ASSUME MemInv, BytesInv, NEW offset \in Int, AdjustSlice(offset)
    PROVE  BytesInv'
<1> DEFINE st == [mem |-> mem', slot |-> slot']
<1>1. MemInv'
  BY AdjustSliceKeeps
<1>2. Sound(st)
  <2>1. Sound(st0)'
    BY <1>1 DEF MemInv
  <2>2. QED
    BY <2>1 DEF Sound, SoundBut, Users, st0
<1>3. /\ Sound(st0) /\ st0.slot = slot /\ st0.mem = mem /\ Small(st0)
      /\ slot \in [Locations -> Slices]
  BY StartFacts DEF BytesInv
<1>4. PICK t : slot' = [slot EXCEPT ![Local] = t]
  BY DEF AdjustSlice
<1>5. mem' = mem /\ UNCHANGED <<size_, block_count_, text>>
  BY DEF AdjustSlice
<1>6. st.slot = slot' /\ st.mem = mem
  BY <1>5
<1>7. Become(st)
  BY DEF Become
<1> HIDE DEF st
<1>8. Small(st)
  BY <1>3, <1>6 DEF Small
<1>9. ASSUME NEW z \in Spans, NEW i \in 0..3
      PROVE  Reads(st, <<z, i>>) = Reads(st0, <<z, i>>)
  <2>1. <<z, i>> \in Locations /\ <<z, i>> # Local
    BY LocationFacts DEF Names
  <2>2. st.slot[<<z, i>>] = st0.slot[<<z, i>>]
    BY <1>3, <1>4, <1>6, <2>1
  <2>3. QED
    BY <1>3, <1>6, <2>2 DEF Reads
<1>10. QED
  BY <1>2, <1>5, <1>7, <1>8, <1>9, QuietBytes

\* The list of two copies of the caller's slice.
LEMMA FromListBytes ==
    ASSUME MemInv, BytesInv, NEW x \in Spans, FromList(x)
    PROVE  BytesInv'
<1> DEFINE t0 == CopySlice(st0, <<"tmp", 0>>, Local)
           t1 == CopySlice(t0, <<"tmp", 1>>, Local)
           a == ResetSlots(t1, x, 0, 3)
           c == CopyBlocks(a, x, "tmp", 2)
           r == Reads(st0, Local)
           t == r \o r
<1>1. /\ Sound(st0) /\ Small(st0) /\ st0.slot = slot /\ slot \in [Locations -> Slices]
  BY StartFacts DEF BytesInv
<1>2. /\ x \in Names /\ "tmp" \in Names /\ x # "tmp" /\ Local \in Locations
      /\ <<"tmp", 0>> \in Locations /\ <<"tmp", 1>> \in Locations
      /\ <<"tmp", 0>> # Local /\ <<"tmp", 1>> # Local
      /\ <<"tmp", 0>> # <<"tmp", 1>>
      /\ 0 \in 0..3 /\ 1 \in 0..3 /\ 0 \in Int /\ 3 \in Int /\ 2 \in Int
  <2>1. 0 \in 0..3 /\ 1 \in 0..3 /\ 0 # 1 /\ 0 \in Int /\ 3 \in Int /\ 2 \in Int
    OBVIOUS
  <2>2. x \in Names /\ "tmp" \in Names /\ x # "tmp" /\ Local \in Locations
    BY SpansAreNamed, LocationFacts DEF Names
  <2>3. <<"tmp", 0>> \in Locations /\ <<"tmp", 1>> \in Locations
    BY <2>1, <2>2, LocationFacts, Zenon
  <2>4. <<"tmp", 0>> # Local /\ <<"tmp", 1>> # Local
    BY <2>2, LocationFacts, Zenon
  <2>5. QED
    BY <2>1, <2>2, <2>3, <2>4
<1>3. /\ r \in Seq(Bytes) /\ Len(r) = UsedSize(slot[Local])
      /\ r = SliceBytes(mem, slot[Local])
  <2>1. r \in Seq(Bytes) /\ Len(r) = UsedSize(slot[Local])
    BY <1>1, <1>2, ReadsType
  <2>2. r = SliceBytes(mem, slot[Local])
    BY DEF Reads, st0
  <2>3. QED
    BY <2>1, <2>2
<1>4. /\ Become(EndOfCall(c))
      /\ size_' = [size_ EXCEPT ![x] = 2 * UsedSize(slot[Local])]
      /\ block_count_' = [block_count_ EXCEPT ![x] = 2]
      /\ text' = [text EXCEPT ![x] = SliceBytes(mem, slot[Local])
                                        \o SliceBytes(mem, slot[Local])]
      /\ 2 * UsedSize(slot[Local]) <= MaxText
  BY DEF FromList, kMaxBlocks
<1> HIDE DEF r
<1>5. t \in Seq(Bytes) /\ Len(t) = 2 * UsedSize(slot[Local]) /\ Len(t) <= MaxText
  <2>1. t \in Seq(Bytes) /\ Len(t) = Len(r) + Len(r) /\ Len(r) \in Nat
    BY <1>3, ConcatProperties
  <2> DEFINE u == UsedSize(slot[Local])
  <2>2. Len(r) = u /\ 2 * u <= MaxText
    BY <1>3, <1>4
  <2> HIDE DEF t, u
  <2>3. Len(t) = 2 * u /\ Len(t) <= MaxText
    BY <2>1, <2>2
  <2>4. QED
    BY <2>1, <2>3 DEF u
<1>6. text' = [text EXCEPT ![x] = t] /\ size_' = [size_ EXCEPT ![x] = Len(t)]
  BY <1>3, <1>4, <1>5, Zenon
<1> HIDE DEF t
<1>7. /\ Sound(t0) /\ Shrinks(st0, t0)
      /\ t0.slot = [slot EXCEPT ![<<"tmp", 0>>] = slot[Local]]
  <2>1. Sound(t0) /\ t0.slot = [st0.slot EXCEPT ![<<"tmp", 0>>] = st0.slot[Local]]
    BY <1>1, <1>2, CopySliceKeeps, ZenonT(30)
  <2>2. Shrinks(st0, t0)
    BY <1>1, <1>2, CopyShrinks, ZenonT(30)
  <2> HIDE DEF t0
  <2>3. QED
    BY <1>1, <2>1, <2>2
<1> HIDE DEF t0
<1>8. /\ Sound(t1) /\ Shrinks(t0, t1)
      /\ t1.slot = [t0.slot EXCEPT ![<<"tmp", 1>>] = t0.slot[Local]]
  <2>1. Sound(t0) /\ Local \in Locations /\ <<"tmp", 1>> \in Locations /\ <<"tmp", 1>> # Local
    BY <1>2, <1>7
  <2>2. Sound(t1) /\ t1.slot = [t0.slot EXCEPT ![<<"tmp", 1>>] = t0.slot[Local]]
    BY <2>1, CopySliceKeeps, ZenonT(30)
  <2>3. Shrinks(t0, t1)
    BY <2>1, CopyShrinks, ZenonT(30)
  <2>4. QED
    BY <2>2, <2>3
<1> HIDE DEF t1
<1>9. Shrinks(st0, t1)
  BY <1>7, <1>8, ShrinksTransitive, Zenon
<1>10. /\ t1.slot[<<"tmp", 0>>] = slot[Local] /\ t1.slot[<<"tmp", 1>>] = slot[Local]
       /\ \A k \in Locations : ~Block(k, "tmp", 0, 3) => t1.slot[k] = slot[k]
  <2>1. \A k \in Locations : ~Block(k, "tmp", 0, 3)
           => k # <<"tmp", 0>> /\ k # <<"tmp", 1>>
    BY DEF Block
  <2>2. QED
    BY <1>1, <1>2, <1>7, <1>8, <2>1
<1>11. /\ Reads(t1, <<"tmp", 0>>) = r /\ Reads(t1, <<"tmp", 1>>) = r
       /\ \A k \in Locations : ~Block(k, "tmp", 0, 3) => Reads(t1, k) = Reads(st0, k)
  <2>0. /\ Sound(t1) /\ t1.slot[<<"tmp", 0>>] = st0.slot[Local]
        /\ t1.slot[<<"tmp", 1>>] = st0.slot[Local]
    BY <1>1, <1>8, <1>10
  <2>a. ASSUME NEW k \in Locations, t1.slot[k] = st0.slot[Local]
        PROVE  Reads(t1, k) = Reads(st0, Local)
    BY <1>9, <2>0, <2>a, ReadsSame
  <2>1. Reads(t1, <<"tmp", 0>>) = Reads(st0, Local)
    BY <1>2, <2>0, <2>a, Zenon
  <2>2. Reads(t1, <<"tmp", 1>>) = Reads(st0, Local)
    BY <1>2, <2>0, <2>a, Zenon
  <2>3. ASSUME NEW k \in Locations, ~Block(k, "tmp", 0, 3)
        PROVE  Reads(t1, k) = Reads(st0, k)
    <3>1. t1.slot[k] = st0.slot[k]
      BY <1>1, <1>10, <2>3
    <3>2. QED
      BY <1>9, <2>0, <3>1, ReadsSame
  <2>4. QED
    BY <2>1, <2>2, <2>3 DEF r
<1>12. /\ Sound(a) /\ Shrinks(t1, a)
       /\ \A k \in Locations : ~Block(k, x, 0, 3) => Reads(a, k) = Reads(t1, k)
  BY <1>2, <1>8, ResetSlotsReads, ZenonT(30)
<1> HIDE DEF a
<1>13. /\ Sound(c) /\ Shrinks(a, c)
       /\ \A i \in 0..3 : i < 2 => Reads(c, <<x, i>>) = Reads(a, <<"tmp", i>>)
       /\ \A k \in Locations : ~Block(k, x, 0, 3) => Reads(c, k) = Reads(a, k)
  BY <1>2, <1>12, CopyBlocksReads, ZenonT(30)
<1> HIDE DEF c
<1>14. Small(c)
  BY <1>1, <1>9, <1>12, <1>13, ShrinksSmall, Zenon
<1>15. BlockBytes(c, x, 2) = t
  <2>1. \A i \in 0..3 : ~Block(<<"tmp", i>>, x, 0, 3)
    BY <1>2, OtherBlocks
  <2>2. 0 < 2 /\ 1 < 2
    OBVIOUS
  <2>3. Reads(c, <<x, 0>>) = r
    BY <1>2, <1>11, <1>12, <1>13, <2>1, <2>2, Zenon
  <2>4. Reads(c, <<x, 1>>) = r
    BY <1>2, <1>11, <1>12, <1>13, <2>1, <2>2, Zenon
  <2>5. QED
    BY <1>2, <1>13, <2>3, <2>4, FewBlocks, Zenon DEF t
<1>16. Rereads(c, x)
  <2>1. SUFFICES ASSUME NEW z \in Spans \ {x}, NEW i \in 0..3
                 PROVE  Reads(c, <<z, i>>) = Reads(st0, <<z, i>>)
    BY DEF Rereads
  <2>2. z \in Names /\ z # x /\ z # "tmp"
    BY SpansAreNamed DEF Names
  <2>3. /\ <<z, i>> \in Locations /\ ~Block(<<z, i>>, x, 0, 3)
        /\ ~Block(<<z, i>>, "tmp", 0, 3)
    BY <1>2, <2>2, OtherBlocks
  <2>4. QED
    BY <1>11, <1>12, <1>13, <2>3
<1>17. QED
  BY <1>4, <1>5, <1>6, <1>13, <1>14, <1>15, <1>16, EndedCallBytes, ZenonT(30)

-----------------------------------------------------------------------------
(* The calls that return a span.                                           *)

\* A span that is returned in temporaries and moved to x.
LEMMA ReturningBytes ==
    ASSUME MemInv, BytesInv, NEW x \in Spans, NEW a, Sound(a), Small(a), NEW n \in 0..4,
           NEW t \in Seq(Bytes), Len(t) <= MaxText, BlockBytes(a, "tmp", n) = t,
           \A z \in Spans : \A i \in 0..3 : Reads(a, <<z, i>>) = Reads(st0, <<z, i>>),
           Become(EndOfCall(MoveSlots(a, x, "tmp", n))),
           size_' = [size_ EXCEPT ![x] = Len(t)],
           block_count_' = [block_count_ EXCEPT ![x] = n],
           text' = [text EXCEPT ![x] = t]
    PROVE  BytesInv'
<1> DEFINE c == MoveSlots(a, x, "tmp", n)
<1>1. /\ x \in Names /\ "tmp" \in Names /\ x # "tmp" /\ n \in Int
      /\ block_count_[x] \in Int
  BY SpansAreNamed, StartFacts DEF Names
<1>2. /\ Sound(c) /\ Shrinks(a, c)
      /\ \A i \in 0..3 : i < n => Reads(c, <<x, i>>) = Reads(a, <<"tmp", i>>)
      /\ \A k \in Locations : ~Block(k, x, 0, 3) /\ ~Block(k, "tmp", 0, 3)
            => Reads(c, k) = Reads(a, k)
  BY <1>1, MoveSlotsReads, ZenonT(30)
<1>3. Become(EndOfCall(c))
  OBVIOUS
<1> HIDE DEF c
<1>4. Small(c)
  BY <1>2, ShrinksSmall
<1>5. Rereads(c, x)
  <2>1. SUFFICES ASSUME NEW z \in Spans \ {x}, NEW i \in 0..3
                 PROVE  Reads(c, <<z, i>>) = Reads(st0, <<z, i>>)
    BY DEF Rereads
  <2>2. z \in Names /\ z # x /\ z # "tmp"
    BY SpansAreNamed DEF Names
  <2>3. /\ <<z, i>> \in Locations /\ ~Block(<<z, i>>, x, 0, 3)
        /\ ~Block(<<z, i>>, "tmp", 0, 3)
    BY <1>1, <2>2, OtherBlocks
  <2>4. QED
    BY <1>2, <2>3
<1>6. BlockBytes(c, x, n) = t
  <2>1. ASSUME NEW i \in 0..3
        PROVE  RoundBytes(c, x, i, n) = RoundBytes(a, "tmp", i, n)
    BY <1>2 DEF RoundBytes, Reads
  <2>2. BlockBytes(c, x, n) = BlockBytes(a, "tmp", n)
    BY <2>1 DEF BlockBytes
  <2>3. QED
    BY <2>2
<1>7. QED
  BY <1>2, <1>3, <1>4, <1>5, <1>6, EndedCallBytes, ZenonT(30)

\* One round of Clone: the new block reads what the block of y reads.
LEMMA CloneRoundReads ==
    ASSUME NEW st, Sound(st), Small(st), NEW y \in Names, NEW i \in 0..3, NEW n \in Int,
           st.slot[<<"tmp", i>>].buf = NoBuf,
           i < n => st.slot[<<y, i>>].buf # NoBuf /\ Free(st) >= 1
    PROVE  /\ Small(CloneRound(st, y, i, n))
           /\ i < n => Reads(CloneRound(st, y, i, n), <<"tmp", i>>) = Reads(st, <<y, i>>)
           /\ \A k \in Locations : k # <<"tmp", i>>
                 => Reads(CloneRound(st, y, i, n), k) = Reads(st, k)
<1>1. /\ <<"tmp", i>> \in Locations /\ <<y, i>> \in Locations
      /\ st.slot \in [Locations -> Slices] /\ st.mem \in Mems
      /\ SoundBut(st.mem, st.slot, {})
  BY LocationFacts DEF Sound, States, Names
<1>2. CASE i < n
  <2> DEFINE a == CloneSlice(st, <<"tmp", i>>, <<y, i>>)
             s == st.slot[<<y, i>>]
             bytes == st.mem.data[s.buf]
  <2>1. \E c \in Bufs : c \notin st.mem.live
    <3>1. Bufs \ st.mem.live # {}
      BY <1>2, FS_EmptySet DEF Free
    <3>2. QED
      BY <3>1
  <2>2. Filled(st, a, <<"tmp", i>>, bytes, s.begin, s.end)
    BY <1>1, <1>2, <2>1, CloneSliceKeeps
  <2>3. CloneRound(st, y, i, n) = a
    BY <1>2 DEF CloneRound
  <2>4. s.buf \in Bufs /\ s.buf # NoBuf /\ bytes \in Seq(Bytes) /\ Len(bytes) <= MaxText
    <3>1. s \in Slices /\ s.buf # NoBuf /\ s.buf \in Bufs
      BY <1>1, <1>2 DEF Slices
    <3>2. <<y, i>> \in Users(st.slot, s.buf)
      BY <1>1 DEF Users
    <3>3. s.buf \in st.mem.live
      BY <1>1, <3>1, <3>2 DEF SoundBut
    <3>4. QED
      BY <1>1, <3>1, <3>3 DEF Mems, Small
  <2>5. Reads(st, <<y, i>>) = SubSeq(bytes, s.begin + 1, s.end)
    BY <2>4, Zenon DEF Reads, SliceBytes
  <2> HIDE DEF a, s, bytes
  <2>6. /\ Reads(a, <<"tmp", i>>) = SubSeq(bytes, s.begin + 1, s.end)
        /\ \A k \in Locations : k # <<"tmp", i>> => Reads(a, k) = Reads(st, k)
        /\ Small(a)
    BY <1>1, <2>2, <2>4, FilledReads
  <2>7. QED
    BY <2>3, <2>5, <2>6, Zenon
<1>3. CASE ~(i < n)
  BY <1>3 DEF CloneRound
<1>4. QED
  BY <1>2, <1>3

\* The loop of Clone.
LEMMA CloneBlocksReads ==
    ASSUME NEW st, Sound(st), Small(st), NEW y \in Spans, NEW n \in 0..3,
           \A i \in 0..3 : st.slot[<<"tmp", i>>].buf = NoBuf,
           Full(st, y, n), n <= Free(st)
    PROVE  /\ Small(CloneBlocks(st, y, n))
           /\ \A i \in 0..3 : i < n
                 => Reads(CloneBlocks(st, y, n), <<"tmp", i>>) = Reads(st, <<y, i>>)
           /\ \A k \in Locations : ~Block(k, "tmp", 0, 3)
                 => Reads(CloneBlocks(st, y, n), k) = Reads(st, k)
<1> DEFINE r0 == CloneRound(st, y, 0, n)
           r1 == CloneRound(r0, y, 1, n)
           r2 == CloneRound(r1, y, 2, n)
<1>0. /\ 0 \in 0..3 /\ 1 \in 0..3 /\ 2 \in 0..3 /\ n \in Int /\ y \in Names
      /\ \A i, j : <<y, i>> # <<"tmp", j>>
      /\ \A i \in 0..3 : <<y, i>> \in Locations /\ <<"tmp", i>> \in Locations
  BY SpansAreNamed, LocationFacts DEF Names
<1>1. CloneBlocks(st, y, n) = r2
  BY DEF CloneBlocks
<1> HIDE DEF r0, r1, r2
<1>a. Free(st) \in Nat
  <2>1. Bufs \ st.mem.live \in SUBSET Bufs
    OBVIOUS
  <2>2. QED
    BY <2>1, SizesAreNumbers, FS_Subset, FS_CardinalityType DEF Free
<1>2. /\ Sound(r0) /\ Small(r0)
      /\ \A k \in Locations : k # <<"tmp", 0>> => r0.slot[k] = st.slot[k]
      /\ 0 < n => Free(r0) = Free(st) - 1
      /\ 0 < n => Reads(r0, <<"tmp", 0>>) = Reads(st, <<y, 0>>)
      /\ \A k \in Locations : k # <<"tmp", 0>> => Reads(r0, k) = Reads(st, k)
  <2>1. /\ st.slot[<<"tmp", 0>>].buf = NoBuf
        /\ 0 < n => st.slot[<<y, 0>>].buf # NoBuf
    BY <1>0 DEF Full
  <2>2. 0 < n => Free(st) >= 1
    BY <1>a
  <2>3. /\ Sound(r0)
        /\ \A k \in Locations : k # <<"tmp", 0>> => r0.slot[k] = st.slot[k]
        /\ 0 < n => Free(r0) = Free(st) - 1
    BY <1>0, <2>1, <2>2, CloneRoundKeeps, ZenonT(30) DEF r0
  <2>4. /\ Small(r0)
        /\ 0 < n => Reads(r0, <<"tmp", 0>>) = Reads(st, <<y, 0>>)
        /\ \A k \in Locations : k # <<"tmp", 0>> => Reads(r0, k) = Reads(st, k)
    BY <1>0, <2>1, <2>2, CloneRoundReads, ZenonT(30) DEF r0
  <2>5. QED
    BY <2>3, <2>4
<1>3. /\ Sound(r1) /\ Small(r1)
      /\ \A k \in Locations : k # <<"tmp", 1>> => r1.slot[k] = r0.slot[k]
      /\ 1 < n => Free(r1) = Free(r0) - 1
      /\ 1 < n => Reads(r1, <<"tmp", 1>>) = Reads(r0, <<y, 1>>)
      /\ \A k \in Locations : k # <<"tmp", 1>> => Reads(r1, k) = Reads(r0, k)
  <2>1. /\ r0.slot[<<"tmp", 1>>].buf = NoBuf
        /\ 1 < n => r0.slot[<<y, 1>>].buf # NoBuf
    BY <1>0, <1>2 DEF Full
  <2>2. 1 < n => Free(r0) >= 1
    BY <1>a, <1>2
  <2>3. Sound(r0) /\ Small(r0) /\ 1 \in 0..3 /\ n \in Int /\ y \in Names
    BY <1>0, <1>2
  <2>4. /\ Sound(r1)
        /\ \A k \in Locations : k # <<"tmp", 1>> => r1.slot[k] = r0.slot[k]
        /\ 1 < n => Free(r1) = Free(r0) - 1
    BY <2>1, <2>2, <2>3, CloneRoundKeeps, ZenonT(30) DEF r1
  <2>5. /\ Small(r1)
        /\ 1 < n => Reads(r1, <<"tmp", 1>>) = Reads(r0, <<y, 1>>)
        /\ \A k \in Locations : k # <<"tmp", 1>> => Reads(r1, k) = Reads(r0, k)
    BY <2>1, <2>2, <2>3, CloneRoundReads, ZenonT(30) DEF r1
  <2>6. QED
    BY <2>4, <2>5
<1>4. /\ Small(r2)
      /\ 2 < n => Reads(r2, <<"tmp", 2>>) = Reads(r1, <<y, 2>>)
      /\ \A k \in Locations : k # <<"tmp", 2>> => Reads(r2, k) = Reads(r1, k)
  <2>1. /\ r1.slot[<<"tmp", 2>>].buf = NoBuf
        /\ 2 < n => r1.slot[<<y, 2>>].buf # NoBuf
    BY <1>0, <1>2, <1>3 DEF Full
  <2>2. 2 < n => Free(r1) >= 1
    BY <1>a, <1>2, <1>3
  <2>3. Sound(r1) /\ Small(r1) /\ 2 \in 0..3 /\ n \in Int /\ y \in Names
    BY <1>0, <1>3
  <2>4. QED
    BY <2>1, <2>2, <2>3, CloneRoundReads, ZenonT(30) DEF r2
<1>5. ASSUME NEW i \in 0..3, i < n
      PROVE  Reads(r2, <<"tmp", i>>) = Reads(st, <<y, i>>)
  <2>0. /\ <<"tmp", 0>> # <<"tmp", 1>> /\ <<"tmp", 0>> # <<"tmp", 2>>
        /\ <<"tmp", 1>> # <<"tmp", 2>>
    OBVIOUS
  <2>1. i = 0 \/ i = 1 \/ i = 2
    BY <1>5
  <2>2. CASE i = 0
    BY <1>0, <1>2, <1>3, <1>4, <1>5, <2>0, <2>2, Zenon
  <2>3. CASE i = 1
    BY <1>0, <1>2, <1>3, <1>4, <1>5, <2>0, <2>3, Zenon
  <2>4. CASE i = 2
    BY <1>0, <1>2, <1>3, <1>4, <1>5, <2>0, <2>4, Zenon
  <2>5. QED
    BY <2>1, <2>2, <2>3, <2>4
<1>6. ASSUME NEW k \in Locations, ~Block(k, "tmp", 0, 3)
      PROVE  Reads(r2, k) = Reads(st, k)
  <2>1. k # <<"tmp", 0>> /\ k # <<"tmp", 1>> /\ k # <<"tmp", 2>>
    BY <1>6 DEF Block
  <2>2. QED
    BY <1>2, <1>3, <1>4, <2>1
<1>7. QED
  BY <1>1, <1>4, <1>5, <1>6

\* The blocks of y, in the span that is returned.
LEMMA ReturnedBlocks ==
    ASSUME BytesInv, NEW y \in Spans, NEW a, NEW n, n = block_count_[y],
           \A i \in 0..3 : i < n => Reads(a, <<"tmp", i>>) = Reads(st0, <<y, i>>),
           \A k \in Locations : ~Block(k, "tmp", 0, 3) => Reads(a, k) = Reads(st0, k)
    PROVE  /\ BlockBytes(a, "tmp", n) = text[y]
           /\ \A z \in Spans : \A i \in 0..3 : Reads(a, <<z, i>>) = Reads(st0, <<z, i>>)
<1>1. ASSUME NEW i \in 0..3
      PROVE  RoundBytes(a, "tmp", i, n) = RoundBytes(st0, y, i, n)
  BY DEF RoundBytes, Reads
<1>2. BlockBytes(a, "tmp", n) = BlockBytes(st0, y, n)
  BY <1>1 DEF BlockBytes
<1>3. \A z \in Spans : \A i \in 0..3 : <<z, i>> \in Locations /\ ~Block(<<z, i>>, "tmp", 0, 3)
  BY SpansAreNamed, OtherBlocks DEF Names
<1>4. QED
  BY <1>2, <1>3 DEF BytesInv

\* x = y.Clone().
LEMMA CloneBytes ==
    ASSUME MemInv, BytesInv, NEW x \in Spans, NEW y \in Spans, Clone(x, y)
    PROVE  BytesInv'
<1> DEFINE n == block_count_[y]
           t == text[y]
           a == CloneBlocks(st0, y, n)
<1>1. /\ n < 4 /\ n <= Cardinality(Bufs \ mem.live)
      /\ Become(EndOfCall(MoveSlots(a, x, "tmp", n)))
      /\ size_' = [size_ EXCEPT ![x] = size_[y]]
      /\ block_count_' = [block_count_ EXCEPT ![x] = n]
      /\ text' = [text EXCEPT ![x] = t]
  BY DEF Clone, Spannable, kMaxBlocks
<1>2. /\ n \in 0..4 /\ Sound(st0) /\ st0.slot = slot /\ st0.mem = mem /\ Small(st0)
      /\ Full(st0, y, n) /\ \A i \in 0..3 : slot[<<"tmp", i>>] = Empty
  BY StartFacts DEF BytesInv
<1>3. n \in 0..3 /\ n <= Free(st0)
  BY <1>1, <1>2 DEF Free
<1>4. \A i \in 0..3 : st0.slot[<<"tmp", i>>].buf = NoBuf
  BY <1>2, EmptyIsSlice
<1>5. t \in Seq(Bytes) /\ Len(t) <= MaxText /\ size_[y] = Len(t)
  BY DEF BytesInv
<1>6. size_' = [size_ EXCEPT ![x] = Len(t)]
  BY <1>1, <1>5
<1> HIDE DEF n, t
<1>7. Sound(a)
  BY <1>2, <1>3, <1>4, CloneBlocksKeeps, ZenonT(30)
<1>8. /\ Small(a)
      /\ \A i \in 0..3 : i < n => Reads(a, <<"tmp", i>>) = Reads(st0, <<y, i>>)
      /\ \A k \in Locations : ~Block(k, "tmp", 0, 3) => Reads(a, k) = Reads(st0, k)
  BY <1>2, <1>3, <1>4, CloneBlocksReads, ZenonT(30)
<1> HIDE DEF a
<1>9. /\ BlockBytes(a, "tmp", n) = t
      /\ \A z \in Spans : \A i \in 0..3 : Reads(a, <<z, i>>) = Reads(st0, <<z, i>>)
  <2>1. n = block_count_[y]
    BY DEF n
  <2>2. QED
    BY <1>8, <2>1, ReturnedBlocks DEF t
<1>10. /\ n \in 0..4 /\ t \in Seq(Bytes) /\ Len(t) <= MaxText /\ Small(a)
       /\ Become(EndOfCall(MoveSlots(a, x, "tmp", n)))
       /\ block_count_' = [block_count_ EXCEPT ![x] = n]
       /\ text' = [text EXCEPT ![x] = t]
  BY <1>1, <1>2, <1>5, <1>8
<1>11. QED
  BY <1>6, <1>7, <1>9, <1>10, ReturningBytes, ZenonT(30)

\* CloneSpannedMem returns the text of a span.
LEMMA SpannedMemIsText ==
    ASSUME BytesInv, NEW y \in Spans
    PROVE  SpannedMem(st0, y, size_[y], block_count_[y]) = text[y]
<1> DEFINE t == text[y]
<1>1. t \in Seq(Bytes) /\ size_[y] = Len(t) /\ BlockBytes(st0, y, block_count_[y]) = t
  BY DEF BytesInv
<1>2. SpannedMem(st0, y, size_[y], block_count_[y])
        = [k \in 1..Len(t) |-> IF k <= Len(t) THEN t[k] ELSE Junk]
  BY <1>1 DEF SpannedMem
<1> HIDE DEF t
<1>3. [k \in 1..Len(t) |-> IF k <= Len(t) THEN t[k] ELSE Junk] = [k \in 1..Len(t) |-> t[k]]
  BY <1>1
<1>4. t = [k \in 1..Len(t) |-> t[k]]
  BY <1>1
<1>5. QED
  BY <1>2, <1>3, <1>4 DEF t

\* x = y.ToSingleBlock().
LEMMA ToSingleBlockBytes ==
    ASSUME MemInv, BytesInv, NEW x \in Spans, NEW y \in Spans, ToSingleBlock(x, y)
    PROVE  BytesInv'
<1> DEFINE n == block_count_[y]
           t == text[y]
           copied == CopyBlocks(st0, "tmp", y, n)
           single == ConstructNew(st0, <<"tmp", 0>>, t)
<1>1. /\ n \in 0..4 /\ n \in Int /\ Sound(st0) /\ Small(st0)
      /\ st0.slot = slot /\ st0.mem = mem
      /\ \A i \in 0..3 : slot[<<"tmp", i>>] = Empty
  BY StartFacts DEF BytesInv
<1>2. "tmp" \in Names /\ y \in Names /\ "tmp" # y /\ 0 \in 0..3 /\ 1 \in 0..4
  BY SpansAreNamed DEF Names
<1>3. t \in Seq(Bytes) /\ Len(t) <= MaxText /\ size_[y] = Len(t)
  BY DEF BytesInv
<1>4. SpannedMem(st0, y, size_[y], n) = t
  BY SpannedMemIsText
<1>5. /\ size_' = [size_ EXCEPT ![x] = Len(t)]
      /\ text' = [text EXCEPT ![x] = t]
  BY <1>3 DEF ToSingleBlock
<1>6. CASE /\ n <= 1 /\ Become(EndOfCall(MoveSlots(copied, x, "tmp", n)))
           /\ block_count_' = [block_count_ EXCEPT ![x] = n]
  <2> HIDE DEF n, t
  <2>1. /\ Sound(copied) /\ Shrinks(st0, copied)
        /\ \A i \in 0..3 : i < n => Reads(copied, <<"tmp", i>>) = Reads(st0, <<y, i>>)
        /\ \A k \in Locations :
              ~Block(k, "tmp", 0, 3) => Reads(copied, k) = Reads(st0, k)
    BY <1>1, <1>2, CopyBlocksReads, ZenonT(30)
  <2> HIDE DEF copied
  <2>2. Small(copied)
    BY <1>1, <2>1, ShrinksSmall
  <2>3. /\ BlockBytes(copied, "tmp", n) = t
        /\ \A z \in Spans : \A i \in 0..3 : Reads(copied, <<z, i>>) = Reads(st0, <<z, i>>)
    <3>1. n = block_count_[y]
      BY DEF n
    <3>2. QED
      BY <2>1, <3>1, ReturnedBlocks DEF t
  <2>4. QED
    BY <1>1, <1>3, <1>5, <1>6, <2>1, <2>2, <2>3, ReturningBytes, ZenonT(30)
<1>7. CASE /\ \E b \in Bufs : b \notin mem.live
           /\ Become(EndOfCall(MoveSlots(single, x, "tmp", 1)))
           /\ block_count_' = [block_count_ EXCEPT ![x] = 1]
  <2> HIDE DEF n, t
  <2>1. <<"tmp", 0>> \in Locations
    BY <1>2, LocationFacts, Zenon
  <2>2. st0.slot[<<"tmp", 0>>].buf = NoBuf /\ \E b \in Bufs : b \notin st0.mem.live
    BY <1>1, <1>2, <1>7, EmptyIsSlice
  <2>3. /\ Sound(single) /\ Reads(single, <<"tmp", 0>>) = t /\ Small(single)
        /\ \A k \in Locations : k # <<"tmp", 0>> => Reads(single, k) = Reads(st0, k)
    BY <1>1, <1>3, <2>1, <2>2, ConstructReads, ZenonT(30)
  <2> HIDE DEF single
  <2>4. BlockBytes(single, "tmp", 1) = t
    BY <1>2, <2>3, FewBlocks, Zenon
  <2>5. \A z \in Spans : \A i \in 0..3 : Reads(single, <<z, i>>) = Reads(st0, <<z, i>>)
    <3>1. \A z \in Spans : \A i \in 0..3 : <<z, i>> \in Locations /\ <<z, i>> # <<"tmp", 0>>
      BY SpansAreNamed, LocationFacts DEF Names
    <3>2. QED
      BY <2>3, <3>1
  <2>6. QED
    BY <1>2, <1>3, <1>5, <1>7, <2>3, <2>4, <2>5, ReturningBytes, ZenonT(30)
<1>8. QED
  BY <1>4, <1>6, <1>7 DEF ToSingleBlock

-----------------------------------------------------------------------------
(* AdjustBeginPointer, of spans of up to two blocks.                       *)

\* The end of a sequence of two parts.
LEMMA TailOfParts ==
    ASSUME NEW p \in Seq(Bytes), NEW q \in Seq(Bytes), NEW k \in Nat
    PROVE  /\ k <= Len(p)
              => SubSeq(p, k + 1, Len(p)) \o q = SubSeq(p \o q, k + 1, Len(p \o q))
           /\ Len(p) <= k /\ k <= Len(p) + Len(q)
              => SubSeq(q, k - Len(p) + 1, Len(q)) = SubSeq(p \o q, k + 1, Len(p \o q))
<1> DEFINE t == p \o q
           w == SubSeq(t, k + 1, Len(t))
           u == SubSeq(p, k + 1, Len(p))
           v == SubSeq(q, k - Len(p) + 1, Len(q))
<1>1. /\ t \in Seq(Bytes) /\ Len(t) = Len(p) + Len(q)
      /\ \A i \in 1..(Len(p) + Len(q)) : t[i] = IF i <= Len(p) THEN p[i] ELSE q[i - Len(p)]
      /\ Len(p) \in Nat /\ Len(q) \in Nat
  BY ConcatProperties
<1> HIDE DEF t
<1>2. ASSUME k <= Len(t)
      PROVE  /\ w \in Seq(Bytes) /\ Len(w) = Len(t) - k
             /\ \A i \in 1..(Len(t) - k) : w[i] = t[k + i]
  <2>1. \A i \in (k + 1)..Len(t) : t[i] \in Bytes
    BY <1>1
  <2>2. QED
    BY <1>1, <1>2, <2>1
<1>3. ASSUME k <= Len(p)
      PROVE  u \o q = w
  <2>1. /\ u \in Seq(Bytes) /\ Len(u) = Len(p) - k
        /\ \A i \in 1..(Len(p) - k) : u[i] = p[k + i]
    BY <1>1, <1>3
  <2> HIDE DEF u
  <2>2. /\ u \o q \in Seq(Bytes) /\ Len(u \o q) = Len(p) - k + Len(q)
        /\ \A i \in 1..(Len(p) - k + Len(q)) :
              (u \o q)[i] = IF i <= Len(p) - k THEN u[i] ELSE q[i - (Len(p) - k)]
    <3>1. /\ u \o q \in Seq(Bytes) /\ Len(u \o q) = Len(u) + Len(q)
          /\ \A i \in 1..(Len(u) + Len(q)) :
                (u \o q)[i] = IF i <= Len(u) THEN u[i] ELSE q[i - Len(u)]
      BY <2>1, ConcatProperties
    <3>2. Len(u) = Len(p) - k
      BY <2>1
    <3>3. QED
      BY <3>1, <3>2, Zenon
  <2>3. /\ w \in Seq(Bytes) /\ Len(w) = Len(p) - k + Len(q)
        /\ \A i \in 1..(Len(p) - k + Len(q)) : w[i] = t[k + i]
    BY <1>1, <1>2, <1>3
  <2> HIDE DEF w
  <2> DEFINE uq == u \o q
  <2>4. ASSUME NEW i \in 1..(Len(p) - k + Len(q))
        PROVE  uq[i] = w[i]
    <3>1. w[i] = t[k + i] /\ k + i \in 1..(Len(p) + Len(q))
      BY <1>1, <1>3, <2>3, <2>4
    <3>2. CASE i <= Len(p) - k
      BY <1>1, <1>3, <2>1, <2>2, <3>1, <3>2
    <3>3. CASE i > Len(p) - k
      <4>1. i - (Len(p) - k) = k + i - Len(p) /\ ~(k + i <= Len(p))
        BY <1>1, <1>3, <3>3
      <4>2. QED
        BY <1>1, <1>3, <2>2, <3>1, <3>3, <4>1
    <3>4. i <= Len(p) - k \/ i > Len(p) - k
      BY <1>1, <2>4
    <3>5. QED
      BY <3>2, <3>3, <3>4
  <2>5. uq \in Seq(Bytes) /\ Len(uq) = Len(w)
        /\ \A i \in 1..Len(uq) : uq[i] = w[i]
    BY <2>2, <2>3, <2>4
  <2> HIDE DEF uq
  <2>6. uq = w
    BY <2>3, <2>5, SeqEqual
  <2>7. QED
    BY <2>6 DEF uq
<1>4. ASSUME Len(p) <= k, k <= Len(p) + Len(q)
      PROVE  v = w
  <2>1. /\ w \in Seq(Bytes) /\ Len(w) = Len(p) + Len(q) - k
        /\ \A i \in 1..(Len(p) + Len(q) - k) : w[i] = t[k + i]
    BY <1>1, <1>2, <1>4
  <2>2. /\ v \in Seq(Bytes) /\ Len(v) = Len(p) + Len(q) - k
        /\ \A i \in 1..(Len(p) + Len(q) - k) : v[i] = q[k + i - Len(p)]
    BY <1>1, <1>4
  <2> HIDE DEF v, w
  <2>3. ASSUME NEW i \in 1..(Len(p) + Len(q) - k)
        PROVE  v[i] = w[i]
    <3>1. k + i \in 1..(Len(p) + Len(q)) /\ ~(k + i <= Len(p))
      BY <1>1, <1>4, <2>3
    <3>2. t[k + i] = q[k + i - Len(p)]
      BY <1>1, <3>1
    <3>3. QED
      BY <2>1, <2>2, <2>3, <3>2
  <2>4. QED
    BY <2>1, <2>2, <2>3, SeqEqual
<1>5. QED
  BY <1>3, <1>4 DEF t

\* A slice without its first k bytes.
LEMMA TrimmedReads ==
    ASSUME NEW st, Sound(st), NEW l \in Locations, st.slot[l].buf # NoBuf,
           NEW k \in Nat, k <= UsedSize(st.slot[l])
    PROVE  SliceBytes(st.mem, SetBeginPointer(st.slot[l], st.slot[l].begin + k))
             = SubSeq(Reads(st, l), k + 1, Len(Reads(st, l)))
<1> DEFINE s == st.slot[l]
           d == st.mem.data[s.buf]
           r == SubSeq(d, s.begin + 1, s.end)
<1>1. s \in Slices /\ Fits(st.mem, s) /\ s.buf # NoBuf /\ st.mem \in Mems
  BY DEF Sound, States, SoundBut
<1>2. /\ d \in Seq(Bytes) /\ s.begin \in Nat /\ s.end \in Nat
      /\ s.begin <= s.end /\ s.end <= Len(d) /\ s.begin + k <= s.end
  BY <1>1 DEF Fits, Capacity, Mems, Slices, UsedSize
<1>3. SetBeginPointer(s, s.begin + k) = [buf |-> s.buf, begin |-> s.begin + k, end |-> s.end]
  BY <1>1, <1>2 DEF SetBeginPointer, Slices
<1>4. SliceBytes(st.mem, SetBeginPointer(s, s.begin + k))
        = SubSeq(d, s.begin + k + 1, s.end)
  <2> DEFINE g == s.begin + k
             c == SetBeginPointer(s, g)
  <2>1. c = [buf |-> s.buf, begin |-> g, end |-> s.end]
    BY <1>3
  <2> HIDE DEF s, g, c
  <2>2. c.buf = s.buf /\ c.begin = g /\ c.end = s.end
    BY <2>1
  <2>3. SliceBytes(st.mem, c) = SubSeq(d, g + 1, s.end)
    BY <1>1, <2>2 DEF SliceBytes
  <2>4. QED
    BY <2>3 DEF c, g
<1>5. Reads(st, l) = r
  BY <1>1, Zenon DEF Reads, SliceBytes
<1> HIDE DEF d
<1>6. ASSUME NEW d1 \in Seq(Bytes), NEW b \in Nat, NEW e \in Nat,
             b + k <= e, e <= Len(d1)
      PROVE  SubSeq(d1, b + k + 1, e)
               = SubSeq(SubSeq(d1, b + 1, e), k + 1, Len(SubSeq(d1, b + 1, e)))
  <2> DEFINE r1 == SubSeq(d1, b + 1, e)
             p == SubSeq(d1, b + k + 1, e)
             q == SubSeq(r1, k + 1, Len(r1))
  <2>1. /\ r1 \in Seq(Bytes) /\ Len(r1) = e - b
        /\ \A i \in 1..(e - b) : r1[i] = d1[b + i]
    BY <1>6
  <2>2. /\ p \in Seq(Bytes) /\ Len(p) = e - b - k
        /\ \A i \in 1..(e - b - k) : p[i] = d1[b + k + i]
    BY <1>6
  <2> HIDE DEF r1
  <2>3. /\ q \in Seq(Bytes) /\ Len(q) = e - b - k
        /\ \A i \in 1..(e - b - k) : q[i] = r1[k + i]
    BY <1>6, <2>1
  <2> HIDE DEF p, q
  <2>4. ASSUME NEW i \in 1..(e - b - k)
        PROVE  p[i] = q[i]
    <3>1. k + i \in 1..(e - b) /\ b + (k + i) = b + k + i
      BY <1>6, <2>4
    <3>2. QED
      BY <2>1, <2>2, <2>3, <2>4, <3>1
  <2>5. p = q
    BY <2>2, <2>3, <2>4, SeqEqual
  <2>6. QED
    BY <2>5 DEF p, q, r1
<1>7. SubSeq(d, s.begin + k + 1, s.end) = SubSeq(r, k + 1, Len(r))
  BY <1>2, <1>6
<1> HIDE DEF r, s
<1>8. QED
  BY <1>4, <1>5, <1>7 DEF s

\* Where AdjustBeginPointer stops in a span of one or two blocks, and what
\* it takes off them.
LEMMA TrimStops ==
    ASSUME NEW x, NEW offset \in Nat, NEW n, n = block_count_[x], n = 1 \/ n = 2,
           NEW u0 \in Nat, NEW u1 \in Nat,
           u0 = UsedSize(slot[<<x, 0>>]), u1 = UsedSize(slot[<<x, 1>>]),
           n = 1 => offset < u0, n = 2 => offset < u0 + u1
    PROVE  /\ offset < u0 => StopsAt(x, offset) = 0
           /\ u0 <= offset => StopsAt(x, offset) = 1
           /\ Taken(x, offset, 0) = IF offset < u0 THEN offset ELSE u0
           /\ Taken(x, offset, 1) = IF offset < u0 THEN 0
                                    ELSE IF n = 2 THEN offset - u0
                                    ELSE Taken(x, offset, 1)
<1> DEFINE P(i) == /\ i = n \/ Before(x, i + 1) >= offset
                   /\ \A k \in 0..(i - 1) : Before(x, k + 1) < offset
           last == CHOOSE i \in 0..n : P(i)
<1>1. Before(x, 0) = 0 /\ Before(x, 1) = u0 /\ Before(x, 2) = u0 + u1
  BY DEF Before, UsedBy
<1>2. StopsAt(x, offset)
        = IF last < n /\ Before(x, last + 1) = offset THEN last + 1 ELSE last
  BY DEF StopsAt
<1>3. CASE offset <= u0
  <2>1. 0 \in 0..n /\ P(0)
    BY <1>1, <1>3
  <2>2. \A i \in 0..n : P(i) => i = 0
    <3>1. SUFFICES ASSUME NEW i \in 0..n, i # 0, P(i)
                   PROVE  FALSE
      OBVIOUS
    <3>2. 0 \in 0..(i - 1)
      BY <3>1
    <3>3. Before(x, 0 + 1) < offset
      BY <3>1, <3>2, Zenon
    <3>4. QED
      BY <1>1, <1>3, <3>3
  <2>3. last = 0
    BY <2>1, <2>2, Zenon
  <2> HIDE DEF last
  <2>4. QED
    BY <1>1, <1>2, <1>3, <2>3 DEF Taken, Smaller, Larger
<1>4. CASE offset > u0
  <2>1. 1 \in 0..n /\ P(1)
    BY <1>1, <1>4
  <2>2. \A i \in 0..n : P(i) => i = 1
    <3>1. SUFFICES ASSUME NEW i \in 0..n, i # 1, P(i)
                   PROVE  FALSE
      OBVIOUS
    <3>2. CASE i = 0
      BY <1>1, <1>4, <3>1, <3>2
    <3>3. CASE i = 2
      <4>1. 1 \in 0..(i - 1) /\ n = 2
        BY <3>3
      <4>2. Before(x, 1 + 1) < offset
        BY <3>1, <4>1, Zenon
      <4>3. QED
        BY <1>1, <4>1, <4>2
    <3>4. QED
      BY <3>1, <3>2, <3>3
  <2>3. last = 1
    BY <2>1, <2>2, Zenon
  <2> HIDE DEF last
  <2>4. n = 2
    BY <1>4
  <2>5. QED
    BY <1>1, <1>2, <1>4, <2>3, <2>4 DEF Taken, Smaller, Larger
<1>5. QED
  BY <1>3, <1>4

\* What AdjustBeginPointer leaves of n blocks, which read r0 and r1 and are
\* the text t, when it stops at block pos.
Trims(c, x, n, pos, r0, r1, t, offset) ==
    /\ r0 \in Seq(Bytes) /\ r1 \in Seq(Bytes) /\ offset \in Nat
    /\ n = 1 \/ n = 2
    /\ n = 1 => t = r0
    /\ n = 2 => t = r0 \o r1
    /\ offset < Len(t)
    /\ offset < Len(r0) => /\ pos = 0
                           /\ Reads(c, <<x, 0>>) = SubSeq(r0, offset + 1, Len(r0))
                           /\ n = 2 => Reads(c, <<x, 1>>) = r1
    /\ Len(r0) <= offset => /\ pos = 1
                            /\ Reads(c, <<x, 0>>)
                                 = SubSeq(r1, offset - Len(r0) + 1, Len(r1))

\* The blocks that are left read as the end of the text.
LEMMA TrimmedBytes ==
    ASSUME NEW c, Sound(c), NEW x \in Names, NEW n, NEW pos, NEW r0, NEW r1,
           NEW t, NEW offset, Trims(c, x, n, pos, r0, r1, t, offset),
           NEW left, left = n - pos, NEW w, w = SubSeq(t, offset + 1, Len(t))
    PROVE  BlockBytes(c, x, left) = w
<1> SUFFICES BlockBytes(c, x, n - pos) = SubSeq(t, offset + 1, Len(t))
  OBVIOUS
<1>0. /\ n = 1 => t = r0
      /\ n = 2 => t = r0 \o r1
      /\ offset < Len(t)
  BY DEF Trims
<1>c. /\ r0 \in Seq(Bytes) /\ r1 \in Seq(Bytes) /\ offset \in Nat
      /\ n = 1 \/ n = 2
  BY DEF Trims
<1> USE <1>c
<1>a. offset < Len(r0)
        => /\ pos = 0
           /\ Reads(c, <<x, 0>>) = SubSeq(r0, offset + 1, Len(r0))
           /\ n = 2 => Reads(c, <<x, 1>>) = r1
  BY Zenon DEF Trims
<1>b. Len(r0) <= offset
        => /\ pos = 1
           /\ Reads(c, <<x, 0>>) = SubSeq(r1, offset - Len(r0) + 1, Len(r1))
  BY Zenon DEF Trims
<1>1. CASE n = 1
  <2>1. t = r0 /\ offset < Len(r0)
    BY <1>0, <1>1
  <2>2. n - pos = 1 /\ Reads(c, <<x, 0>>) = SubSeq(r0, offset + 1, Len(r0))
    <3>1. pos = 0 /\ Reads(c, <<x, 0>>) = SubSeq(r0, offset + 1, Len(r0))
      BY <1>a, <2>1, Zenon
    <3>2. n - pos = 1
      BY <1>1, <3>1
    <3>3. QED
      BY <3>1, <3>2
  <2>3. BlockBytes(c, x, 1) = Reads(c, <<x, 0>>)
    BY FewBlocks, Zenon
  <2>4. QED
    BY <2>1, <2>2, <2>3, Zenon
<1>2. CASE n = 2
  <2>0. /\ t = r0 \o r1 /\ Len(t) = Len(r0) + Len(r1)
        /\ Len(r0) \in Nat /\ Len(r1) \in Nat
    <3>1. t = r0 \o r1
      BY <1>0, <1>2
    <3>2. Len(r0 \o r1) = Len(r0) + Len(r1)
      BY ConcatProperties
    <3>3. QED
      BY <3>1, <3>2
  <2>1. CASE offset < Len(r0)
    <3>1. /\ n - pos = 2 /\ Reads(c, <<x, 0>>) = SubSeq(r0, offset + 1, Len(r0))
          /\ Reads(c, <<x, 1>>) = r1
      <4>1. /\ pos = 0 /\ Reads(c, <<x, 0>>) = SubSeq(r0, offset + 1, Len(r0))
            /\ Reads(c, <<x, 1>>) = r1
        BY <1>2, <1>a, <2>1, Zenon
      <4>2. n - pos = 2
        BY <1>2, <4>1
      <4>3. QED
        BY <4>1, <4>2
    <3>2. BlockBytes(c, x, 2) = Reads(c, <<x, 0>>) \o Reads(c, <<x, 1>>)
      BY FewBlocks, Zenon
    <3>3. SubSeq(r0, offset + 1, Len(r0)) \o r1
            = SubSeq(r0 \o r1, offset + 1, Len(r0 \o r1))
      <4>1. offset <= Len(r0)
        BY <2>0, <2>1
      <4>2. QED
        BY <4>1, TailOfParts
    <3>4. QED
      BY <2>0, <3>1, <3>2, <3>3, Zenon
  <2>2. CASE Len(r0) <= offset
    <3>1. /\ n - pos = 1
          /\ Reads(c, <<x, 0>>) = SubSeq(r1, offset - Len(r0) + 1, Len(r1))
      <4>1. pos = 1 /\ Reads(c, <<x, 0>>) = SubSeq(r1, offset - Len(r0) + 1, Len(r1))
        BY <1>b, <2>2, Zenon
      <4>2. n - pos = 1
        BY <1>2, <4>1
      <4>3. QED
        BY <4>1, <4>2
    <3>2. BlockBytes(c, x, 1) = Reads(c, <<x, 0>>)
      BY FewBlocks, Zenon
    <3>3. SubSeq(r1, offset - Len(r0) + 1, Len(r1))
            = SubSeq(r0 \o r1, offset + 1, Len(r0 \o r1))
      <4>1. offset <= Len(r0) + Len(r1)
        BY <1>0, <2>0
      <4>2. QED
        BY <2>2, <4>1, TailOfParts
    <3>4. QED
      BY <2>0, <3>1, <3>2, <3>3, Zenon
  <2>3. QED
    BY <2>0, <2>1, <2>2
<1>3. QED
  BY <1>1, <1>2

\* The second loop, on a span of up to two blocks.
LEMMA CompactedSlots ==
    ASSUME NEW m, NEW f, f = [l \in Locations |-> f[l]], NEW x \in Names, NEW pos,
           block_count_[x] = 1 \/ block_count_[x] = 2,
           pos = 0 \/ (pos = 1 /\ block_count_[x] = 2)
    PROVE  LET c == Compact([mem |-> m, slot |-> f], x, pos)
           IN /\ c.mem = m
              /\ \A k \in Locations : k # <<x, 0>> /\ k # <<x, 1>> => c.slot[k] = f[k]
              /\ pos = 0 => c.slot = f
              /\ pos = 1 => c.slot[<<x, 0>>] = f[<<x, 1>>]
<1> DEFINE st == [mem |-> m, slot |-> f]
<1>0. st.mem = m /\ st.slot = f
  OBVIOUS
<1>1. CASE pos = 0
  BY <1>1 DEF Compact
<1>2. CASE pos = 1
  <2>1. Compact(st, x, pos) = SwapSlice(st, <<x, 0>>, <<x, 1>>)
    <3> HIDE DEF st
    <3>1. \A a : /\ CompactRound(a, x, pos, 1) = SwapSlice(a, <<x, 0>>, <<x, 1>>)
                 /\ CompactRound(a, x, pos, 2) = a /\ CompactRound(a, x, pos, 3) = a
      BY <1>2 DEF CompactRound
    <3>2. Compact(st, x, pos)
            = CompactRound(CompactRound(CompactRound(st, x, pos, 1), x, pos, 2), x, pos, 3)
      BY <1>2 DEF Compact
    <3>3. QED
      BY <3>1, <3>2, Zenon
  <2>2. <<x, 0>> \in Locations /\ <<x, 1>> \in Locations /\ <<x, 0>> # <<x, 1>>
    <3>1. 0 \in 0..3 /\ 1 \in 0..3
      OBVIOUS
    <3>2. <<x, 0>> \in Locations /\ <<x, 1>> \in Locations
      BY <3>1, LocationFacts, Zenon
    <3>3. QED
      BY <3>2
  <2> DEFINE g == [f EXCEPT ![<<x, 0>>] = f[<<x, 1>>], ![<<x, 1>>] = f[<<x, 0>>]]
             q == SwapSlice(st, <<x, 0>>, <<x, 1>>)
  <2>3. q.mem = m /\ q.slot = g
    BY DEF SwapSlice
  <2>4. g[<<x, 0>>] = f[<<x, 1>>]
    BY <2>2
  <2>5. ASSUME NEW k \in Locations, k # <<x, 0>>, k # <<x, 1>>
        PROVE  g[k] = f[k]
    BY <2>5
  <2> HIDE DEF g, q
  <2>6. Compact(st, x, pos) = q
    BY <2>1 DEF q
  <2> HIDE DEF st
  <2>7. QED
    BY <1>2, <2>3, <2>4, <2>5, <2>6 DEF st
<1>3. QED
  BY <1>1, <1>2

\* AdjustBeginPointer takes the first bytes of a span, and those only.
LEMMA AdjustBeginPointerBytes ==
    ASSUME TrimBlocks \in 0..2, MemInv, BytesInv, NEW x \in Spans, NEW offset \in Nat,
           AdjustBeginPointer(x, offset)
    PROVE  BytesInv'
<1> DEFINE n == block_count_[x]
           t == text[x]
           pos == StopsAt(x, offset)
           mine == {<<x, i>> : i \in 0..(n - 1)}
           trimmed == [l \in Locations |->
               IF l \in mine
               THEN SetBeginPointer(slot[l], slot[l].begin + Taken(x, offset, l[2]))
               ELSE slot[l]]
           a == [mem |-> mem, slot |-> trimmed]
           c == Compact(a, x, pos)
           w == SubSeq(t, offset + 1, Len(t))
           r0 == Reads(st0, <<x, 0>>)
           r1 == Reads(st0, <<x, 1>>)
           u0 == UsedSize(slot[<<x, 0>>])
           u1 == UsedSize(slot[<<x, 1>>])
<1>1. /\ Become(c) /\ size_' = [size_ EXCEPT ![x] = @ - offset]
      /\ block_count_' = [block_count_ EXCEPT ![x] = n - pos]
      /\ text' = [text EXCEPT ![x] = w]
      /\ offset < size_[x] /\ n <= TrimBlocks
  BY DEF AdjustBeginPointer
<1>2. /\ Sound(st0) /\ st0.slot = slot /\ st0.mem = mem /\ Small(st0)
      /\ n \in 0..4 /\ size_[x] \in Nat /\ Full(st0, x, n) /\ x \in Names
  BY StartFacts DEF Names, BytesInv
<1>3. /\ t \in Seq(Bytes) /\ Len(t) <= MaxText /\ size_[x] = Len(t) /\ Len(t) \in Nat
      /\ BlockBytes(st0, x, n) = t
  BY DEF BytesInv
<1>4. MemInv'
  BY AdjustBeginPointerKeeps
<1>5. /\ <<x, 0>> \in Locations /\ <<x, 1>> \in Locations
      /\ 0 \in 0..3 /\ 1 \in 0..3
  <2>1. 0 \in 0..3 /\ 1 \in 0..3
    OBVIOUS
  <2>2. QED
    BY <1>2, <2>1, LocationFacts, Zenon
<1>6. /\ r0 \in Seq(Bytes) /\ Len(r0) = u0 /\ u0 \in Nat
      /\ r1 \in Seq(Bytes) /\ Len(r1) = u1 /\ u1 \in Nat
  BY <1>2, <1>5, ReadsType
<1>7. /\ BlockBytes(st0, x, 0) = <<>> /\ BlockBytes(st0, x, 1) = r0
      /\ BlockBytes(st0, x, 2) = r0 \o r1
  BY <1>2, BlocksGrow, FewBlocks, Zenon
<1>8. n = 1 \/ n = 2
  <2>1. n = 0 \/ n = 1 \/ n = 2
    BY <1>1, <1>2
  <2>2. n # 0
    <3>1. Len(<<>>) = 0 /\ Len(t) > 0
      BY <1>1, <1>3
    <3>2. t # <<>>
      BY <3>1
    <3>3. QED
      BY <1>3, <1>7, <3>2, Zenon
  <2>3. QED
    BY <2>1, <2>2
<1>9. (n = 1 => t = r0) /\ (n = 2 => t = r0 \o r1) /\ offset < Len(t)
  BY <1>1, <1>3, <1>7
<1>10. (n = 1 => offset < u0) /\ (n = 2 => offset < u0 + u1)
  <2>1. Len(r0 \o r1) = Len(r0) + Len(r1)
    BY <1>6, ConcatProperties
  <2>2. QED
    BY <1>6, <1>9, <2>1
<1>11. /\ offset < u0 => pos = 0
       /\ u0 <= offset => pos = 1
       /\ Taken(x, offset, 0) = IF offset < u0 THEN offset ELSE u0
       /\ offset < u0 => Taken(x, offset, 1) = 0
       /\ u0 <= offset /\ n = 2 => Taken(x, offset, 1) = offset - u0
  <2> HIDE DEF n, u0, u1, pos
  <2>1. n = block_count_[x] /\ u0 = UsedSize(slot[<<x, 0>>]) /\ u1 = UsedSize(slot[<<x, 1>>])
    BY DEF n, u0, u1
  <2>2. /\ offset < u0 => StopsAt(x, offset) = 0
        /\ u0 <= offset => StopsAt(x, offset) = 1
        /\ Taken(x, offset, 0) = IF offset < u0 THEN offset ELSE u0
        /\ Taken(x, offset, 1) = IF offset < u0 THEN 0
                                 ELSE IF n = 2 THEN offset - u0
                                 ELSE Taken(x, offset, 1)
    BY <1>6, <1>8, <1>10, <2>1, TrimStops
  <2>3. QED
    BY <1>6, <2>2 DEF pos
<1>12. /\ slot[<<x, 0>>].buf # NoBuf
       /\ n = 2 => slot[<<x, 1>>].buf # NoBuf
  BY <1>2, <1>5, <1>8 DEF Full
<1>a. ASSUME NEW l \in Locations, slot[l].buf # NoBuf, NEW k \in Nat,
             k <= UsedSize(slot[l])
      PROVE  SliceBytes(mem, SetBeginPointer(slot[l], slot[l].begin + k))
               = SubSeq(Reads(st0, l), k + 1, Len(Reads(st0, l)))
  BY <1>2, <1>a, TrimmedReads
<1>13. /\ trimmed[<<x, 0>>]
            = SetBeginPointer(slot[<<x, 0>>], slot[<<x, 0>>].begin + Taken(x, offset, 0))
       /\ n = 2 => trimmed[<<x, 1>>]
            = SetBeginPointer(slot[<<x, 1>>], slot[<<x, 1>>].begin + Taken(x, offset, 1))
       /\ \A z \in Spans \ {x} : \A i \in 0..3 :
             <<z, i>> \in Locations /\ trimmed[<<z, i>>] = slot[<<z, i>>]
       /\ trimmed = [l \in Locations |-> trimmed[l]]
  <2>1. /\ <<x, 0>> \in mine
        /\ n = 2 => <<x, 1>> \in mine
        /\ \A z \in Spans \ {x} : \A i \in 0..3 : <<z, i>> \notin mine
    BY <1>8
  <2>2. \A z \in Spans : \A i \in 0..3 : <<z, i>> \in Locations
    BY LocationFacts DEF Names
  <2> HIDE DEF mine, n
  <2>3. QED
    BY <1>5, <2>1, <2>2
<1> HIDE DEF trimmed
<1>14. /\ c.mem = mem
       /\ \A k \in Locations : k # <<x, 0>> /\ k # <<x, 1>> => c.slot[k] = trimmed[k]
       /\ pos = 0 => c.slot = trimmed
       /\ pos = 1 => c.slot[<<x, 0>>] = trimmed[<<x, 1>>]
  <2>1. pos = 0 \/ (pos = 1 /\ block_count_[x] = 2)
    BY <1>6, <1>8, <1>10, <1>11
  <2>2. block_count_[x] = 1 \/ block_count_[x] = 2
    BY <1>8
  <2> HIDE DEF pos
  <2>3. QED
    BY <1>2, <1>13, <2>1, <2>2, CompactedSlots
<1> HIDE DEF c, pos
<1> DEFINE st == [mem |-> mem', slot |-> slot']
<1>15. Sound(st) /\ Become(st)
  <2>1. Sound(st0)'
    BY <1>4 DEF MemInv
  <2>2. QED
    BY <2>1 DEF Sound, SoundBut, Users, st0, Become
<1>16. st.mem = mem /\ st.slot = c.slot
  BY <1>1, <1>14 DEF Become
<1> HIDE DEF st
<1>17. Small(st)
  BY <1>2, <1>16 DEF Small
<1>18. Rereads(st, x)
  <2>1. SUFFICES ASSUME NEW z \in Spans \ {x}, NEW i \in 0..3
                 PROVE  Reads(st, <<z, i>>) = Reads(st0, <<z, i>>)
    BY DEF Rereads
  <2>2. <<z, i>> # <<x, 0>> /\ <<z, i>> # <<x, 1>> /\ <<z, i>> \in Locations
    BY <1>13
  <2>3. st.slot[<<z, i>>] = st0.slot[<<z, i>>]
    BY <1>2, <1>13, <1>14, <1>16, <2>2
  <2>4. QED
    BY <1>2, <1>16, <2>3 DEF Reads
<1>19. offset < Len(r0) => /\ pos = 0
                           /\ Reads(st, <<x, 0>>) = SubSeq(r0, offset + 1, Len(r0))
                           /\ n = 2 => Reads(st, <<x, 1>>) = r1
  <2>1. SUFFICES ASSUME offset < Len(r0)
                 PROVE  /\ pos = 0
                        /\ Reads(st, <<x, 0>>) = SubSeq(r0, offset + 1, Len(r0))
                        /\ n = 2 => Reads(st, <<x, 1>>) = r1
    OBVIOUS
  <2>2. /\ pos = 0 /\ Taken(x, offset, 0) = offset /\ Taken(x, offset, 1) = 0
        /\ offset <= u0 /\ 0 \in Nat /\ 0 <= u1
    BY <1>6, <1>11, <2>1
  <2>3. Reads(st, <<x, 0>>) = SliceBytes(mem, trimmed[<<x, 0>>])
        /\ Reads(st, <<x, 1>>) = SliceBytes(mem, trimmed[<<x, 1>>])
    BY <1>14, <1>16, <2>2, Zenon DEF Reads
  <2>4. SliceBytes(mem, trimmed[<<x, 0>>]) = SubSeq(r0, offset + 1, Len(r0))
    BY <1>5, <1>12, <1>13, <1>a, <2>2
  <2>5. n = 2 => SliceBytes(mem, trimmed[<<x, 1>>]) = SubSeq(r1, 0 + 1, Len(r1))
    BY <1>5, <1>12, <1>13, <1>a, <2>2
  <2>6. SubSeq(r1, 0 + 1, Len(r1)) = r1
    <3>1. SubSeq(r1, 1, Len(r1)) = r1
      BY <1>6, SubSeqFull
    <3>2. 0 + 1 = 1
      OBVIOUS
    <3>3. QED
      BY <3>1, <3>2, Zenon
  <2>7. QED
    BY <2>2, <2>3, <2>4, <2>5, <2>6, Zenon
<1>20. Len(r0) <= offset => /\ pos = 1
                            /\ Reads(st, <<x, 0>>) = SubSeq(r1, offset - Len(r0) + 1, Len(r1))
  <2>1. SUFFICES ASSUME Len(r0) <= offset
                 PROVE  /\ pos = 1
                        /\ Reads(st, <<x, 0>>) = SubSeq(r1, offset - Len(r0) + 1, Len(r1))
    OBVIOUS
  <2>2. /\ pos = 1 /\ n = 2 /\ Taken(x, offset, 1) = offset - Len(r0)
        /\ offset - Len(r0) \in Nat /\ offset - Len(r0) <= u1
    BY <1>6, <1>8, <1>10, <1>11, <2>1
  <2>3. Reads(st, <<x, 0>>) = SliceBytes(mem, trimmed[<<x, 1>>])
    BY <1>14, <1>16, <2>2, Zenon DEF Reads
  <2>4. SliceBytes(mem, trimmed[<<x, 1>>]) = SubSeq(r1, offset - Len(r0) + 1, Len(r1))
    BY <1>5, <1>12, <1>13, <1>a, <2>2
  <2>5. QED
    BY <2>2, <2>3, <2>4, Zenon
<1> HIDE DEF n, t, r0, r1, u0, u1
<1>21. BlockBytes(st, x, n - pos) = w
  <2>1. Trims(st, x, n, pos, r0, r1, t, offset)
    BY <1>6, <1>8, <1>9, <1>19, <1>20, Zenon DEF Trims
  <2>2. Sound(st) /\ x \in Names
    BY <1>2, <1>15
  <2> DEFINE left == n - pos
  <2>3. left = n - pos /\ w = SubSeq(t, offset + 1, Len(t))
    OBVIOUS
  <2> HIDE DEF left, w
  <2>4. BlockBytes(st, x, left) = w
    BY <2>1, <2>2, <2>3, TrimmedBytes
  <2>5. QED
    BY <2>4 DEF left
<1>22. w \in Seq(Bytes) /\ Len(w) = size_[x] - offset /\ Len(w) <= MaxText
  <2>1. \A i \in (offset + 1)..Len(t) : t[i] \in Bytes
    BY <1>3
  <2>2. w \in Seq(Bytes) /\ Len(w) = Len(t) - offset
    BY <1>1, <1>3, <2>1
  <2> HIDE DEF w
  <2>3. QED
    BY <1>3, <2>2, SizesAreNumbers
<1> HIDE DEF w
<1>23. size_' = [size_ EXCEPT ![x] = Len(w)]
  BY <1>1, <1>22
<1>24. /\ block_count_' = [block_count_ EXCEPT ![x] = n - pos]
       /\ text' = [text EXCEPT ![x] = w]
  BY <1>1
<1>25. QED
  BY <1>15, <1>17, <1>18, <1>21, <1>22, <1>23, <1>24, CallBytes, ZenonT(30)

-----------------------------------------------------------------------------
(* The theorems on bytes.                                                  *)

\* The blocks of every span read as the bytes that were put into it.
THEOREM BytesInvariance == ASSUME TrimBlocks \in 0..2 PROVE Spec => []BytesInv
<1>1. Init => BytesInv
  <2>1. SUFFICES ASSUME Init
                 PROVE  BytesInv
    OBVIOUS
  <2>2. /\ mem = [live |-> {}, ref |-> [b \in Bufs |-> 0],
                  data |-> [b \in Bufs |-> <<>>], fault |-> FALSE]
        /\ size_ = [x \in Spans |-> 0] /\ block_count_ = [x \in Spans |-> 0]
        /\ text = [x \in Spans |-> <<>>]
    BY <2>1 DEF Init
  <2>3. <<>> \in Seq(Bytes) /\ Len(<<>>) = 0
    OBVIOUS
  <2>4. text \in [Spans -> Seq(Bytes)]
    BY <2>2, <2>3
  <2>5. Small(st0)
    BY <2>2 DEF Small, st0
  <2>6. ASSUME NEW x \in Spans
        PROVE  /\ BlockBytes(st0, x, block_count_[x]) = text[x]
               /\ size_[x] = Len(text[x]) /\ Len(text[x]) <= MaxText
    <3>1. block_count_[x] = 0 /\ text[x] = <<>> /\ size_[x] = 0
      BY <2>2
    <3>2. \A i \in 0..3 : RoundBytes(st0, x, i, 0) = <<>>
      BY DEF RoundBytes
    <3>3. BlockBytes(st0, x, 0) = <<>> \o <<>> \o <<>> \o <<>>
      BY <3>2 DEF BlockBytes
    <3>4. <<>> \o <<>> \o <<>> \o <<>> = <<>>
      BY <2>3, ConcatEmptySeq
    <3>5. QED
      BY <2>3, <3>1, <3>3, <3>4, SizesAreNumbers
  <2>7. QED
    BY <2>4, <2>5, <2>6 DEF BytesInv
<1>2. MemInv /\ BytesInv /\ [Next]_vars => BytesInv'
  <2>1. SUFFICES ASSUME MemInv, BytesInv, [Next]_vars
                 PROVE  BytesInv'
    OBVIOUS
  <2>2. CASE UNCHANGED vars
    <3>1. st0' = st0 /\ block_count_' = block_count_ /\ size_' = size_ /\ text' = text
      BY <2>2 DEF vars, st0
    <3>2. ASSUME NEW x \in Spans
          PROVE  BlockBytes(st0, x, block_count_[x])' = BlockBytes(st0, x, block_count_[x])
      BY <3>1 DEF BlockBytes, RoundBytes, SliceBytes
    <3>3. Small(st0)' = Small(st0)
      BY <3>1 DEF Small
    <3>4. QED
      BY <2>1, <3>1, <3>2, <3>3 DEF BytesInv
  <2>3. CASE \E bytes \in Texts : NewSlice(bytes)
    BY <2>1, <2>3, NewSliceBytes
  <2>4. CASE \E offset \in {-3, -1, 1} : AdjustSlice(offset)
    <3>1. PICK offset \in {-3, -1, 1} : AdjustSlice(offset)
      BY <2>4
    <3>2. offset \in Int
      OBVIOUS
    <3>3. QED
      BY <2>1, <3>1, <3>2, AdjustSliceBytes
  <2>5. ASSUME NEW x \in Spans,
               \/ PushBack(x) \/ PushBackFull(x) \/ AssignSlice(x) \/ Reset(x)
               \/ Reconstruct(x) \/ FromList(x) \/ AdjustBeyondEnd(x)
        PROVE  BytesInv'
    BY <2>1, <2>5, PushBackBytes, PushBackFullBytes, AssignSliceBytes, ResetBytes,
       ReconstructBytes, FromListBytes, AdjustBeyondEndBytes
  <2>6. ASSUME NEW x \in Spans, NEW bytes \in Texts,
               AssignBuffer(x, bytes) \/ FromBuffer(x, bytes)
        PROVE  BytesInv'
    BY <2>1, <2>6, AssignBufferBytes, FromBufferBytes
  <2>7. ASSUME NEW x \in Spans, NEW offset \in 0..MaxText,
               AdjustBeginPointer(x, offset)
        PROVE  BytesInv'
    <3>1. offset \in Nat
      BY SizesAreNumbers
    <3>2. QED
      BY <2>1, <2>7, <3>1, AdjustBeginPointerBytes
  <2>8. ASSUME NEW x \in Spans, NEW y \in Spans \ {x},
               \/ CopyConstruct(x, y) \/ MoveConstructSpan(x, y)
               \/ CopyAssign(x, y) \/ MoveAssign(x, y)
        PROVE  BytesInv'
    BY <2>1, <2>8, CopyConstructBytes, MoveConstructBytes, CopyAssignBytes, MoveAssignBytes
  <2>9. ASSUME NEW x \in Spans, NEW y \in Spans, Clone(x, y) \/ ToSingleBlock(x, y)
        PROVE  BytesInv'
    BY <2>1, <2>9, CloneBytes, ToSingleBlockBytes
  <2>10. Next => Call
    BY DEF Next
  <2>11. QED
    BY <2>1, <2>2, <2>3, <2>4, <2>5, <2>6, <2>7, <2>8, <2>9, <2>10 DEF Call
<1>3. QED
  BY <1>1, <1>2, MemoryInvariance, PTL DEF Spec

\* While AdjustBeginPointer is called on spans of up to two blocks, a span
\* holds the bytes that were put into it after any sequence of calls, and
\* CloneSpannedMem returns them where its assertion lets it.
THEOREM SpansKeepTheirBytes ==
    ASSUME TrimBlocks \in 0..2 PROVE Spec => []SpansHoldTheirBytes
<1>1. BytesInv => SpansHoldTheirBytes
  BY SpannedMemIsText DEF SpansHoldTheirBytes, BytesInv
<1>2. QED
  BY <1>1, BytesInvariance, PTL
=============================================================================
