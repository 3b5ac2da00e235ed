---------------------------- MODULE BufferProofs ----------------------------
(***************************************************************************)
(* What holds of Buffer for every size of its parts: its type invariant,   *)
(* the assertions of makeSpace, and that it implements ByteQueue.          *)
(***************************************************************************)
EXTENDS Buffer, SequenceTheorems, TLAPS

-----------------------------------------------------------------------------
(***************************************************************************)
(* Facts about vectors.                                                    *)
(***************************************************************************)

\* A function from 1 .. n is a sequence of length n.
LEMMA FunctionIsSeq ==
    ASSUME NEW S, NEW n \in Nat, NEW f \in [1 .. n -> S]
    PROVE  f \in Seq(S) /\ Len(f) = n
OBVIOUS

\* A vector that is enlarged keeps its bytes.
LEMMA EnlargeFacts ==
    ASSUME NEW v \in Seq(Byte), NEW n \in Nat
    PROVE  /\ Enlarge(v, n) \in Seq(Byte)
           /\ Len(Enlarge(v, n)) = n
           /\ \A k \in 1 .. n :
                  Enlarge(v, n)[k] = IF k <= Len(v) THEN v[k] ELSE 0
<1>1. \A k \in 1 .. n : (IF k <= Len(v) THEN v[k] ELSE 0) \in Byte
    <2> TAKE k \in 1 .. n
    <2>1. CASE k <= Len(v)
        <3>1. k \in 1 .. Len(v)
            BY <2>1, LenProperties
        <3>2. QED
            BY <2>1, <3>1, ElementOfSeq
    <2>2. CASE ~(k <= Len(v))
        BY <2>2, ConstantsAssumption
    <2>3. QED
        BY <2>1, <2>2
<1>2. Enlarge(v, n) \in [1 .. n -> Byte]
    BY <1>1 DEF Enlarge
<1>3. QED
    BY <1>2, FunctionIsSeq DEF Enlarge

\* What is copied to a place that is large enough is there, and the rest of the
\* vector is as it was.
LEMMA CopyFacts ==
    ASSUME NEW v \in Seq(Byte), NEW at \in Nat, NEW s \in Seq(Byte),
           at + Len(s) <= Len(v)
    PROVE  /\ CopyTo(v, at, s) \in Seq(Byte)
           /\ Len(CopyTo(v, at, s)) = Len(v)
           /\ \A k \in 1 .. Len(v) :
                  CopyTo(v, at, s)[k] =
                      IF at < k /\ k <= at + Len(s) THEN s[k - at] ELSE v[k]
<1>1. Len(v) \in Nat /\ Len(s) \in Nat
    BY LenProperties
<1>2. \A k \in 1 .. Len(v) :
          (IF at < k /\ k <= at + Len(s) THEN s[k - at] ELSE v[k]) \in Byte
    <2> TAKE k \in 1 .. Len(v)
    <2>1. CASE at < k /\ k <= at + Len(s)
        <3>1. k - at \in 1 .. Len(s)
            BY <1>1, <2>1
        <3>2. QED
            BY <2>1, <3>1, ElementOfSeq
    <2>2. CASE ~(at < k /\ k <= at + Len(s))
        BY <2>2, ElementOfSeq
    <2>3. QED
        BY <2>1, <2>2
<1>3. CopyTo(v, at, s) \in [1 .. Len(v) -> Byte]
    BY <1>2 DEF CopyTo
<1>4. QED
    BY <1>1, <1>3, FunctionIsSeq DEF CopyTo

\* The bytes between two positions.
LEMMA SliceFacts ==
    ASSUME NEW v \in Seq(Byte), NEW from \in Nat, NEW to \in Nat,
           from <= to, to <= Len(v)
    PROVE  /\ Slice(v, from, to) \in Seq(Byte)
           /\ Len(Slice(v, from, to)) = to - from
           /\ \A k \in 1 .. to - from : Slice(v, from, to)[k] = v[from + k]
<1>1. Len(v) \in Nat
    BY LenProperties
<1>2. \A i \in from + 1 .. to : v[i] \in Byte
    BY <1>1, ElementOfSeq
<1>3. /\ SubSeq(v, from + 1, to) \in Seq(Byte)
      /\ Len(SubSeq(v, from + 1, to)) =
            IF from + 1 <= to THEN to - (from + 1) + 1 ELSE 0
      /\ \A i \in 1 .. to - (from + 1) + 1 :
            SubSeq(v, from + 1, to)[i] = v[from + 1 + i - 1]
    BY <1>2, SubSeqProperties
<1>4. QED
    BY <1>3 DEF Slice

\* The n bytes after a position.
LEMMA SliceFrom ==
    ASSUME NEW v \in Seq(Byte), NEW i \in Nat, NEW n \in Nat, i + n <= Len(v)
    PROVE  /\ Slice(v, i, i + n) \in Seq(Byte)
           /\ Len(Slice(v, i, i + n)) = n
           /\ \A k \in 1 .. n : Slice(v, i, i + n)[k] = v[i + k]
<1> DEFINE to == i + n
<1>1. to \in Nat /\ i <= to /\ to <= Len(v) /\ to - i = n
    OBVIOUS
<1> HIDE DEF to
<1>2. /\ Slice(v, i, to) \in Seq(Byte)
      /\ Len(Slice(v, i, to)) = to - i
      /\ \A k \in 1 .. to - i : Slice(v, i, to)[k] = v[i + k]
    BY <1>1, SliceFacts
<1>3. /\ Slice(v, i, to) \in Seq(Byte)
      /\ Len(Slice(v, i, to)) = n
      /\ \A k \in 1 .. n : Slice(v, i, to)[k] = v[i + k]
    BY <1>1, <1>2
<1>4. QED
    BY <1>3 DEF to

\* Two vectors that agree between two positions have the same bytes there.
LEMMA SameSlice ==
    ASSUME NEW v \in Seq(Byte), NEW w \in Seq(Byte), NEW i \in Nat, NEW j \in Nat,
           i <= j, j <= Len(v), j <= Len(w), \A k \in i + 1 .. j : v[k] = w[k]
    PROVE  Slice(v, i, j) = Slice(w, i, j)
<1>1. /\ Slice(v, i, j) \in Seq(Byte)
      /\ Len(Slice(v, i, j)) = j - i
      /\ \A k \in 1 .. j - i : Slice(v, i, j)[k] = v[i + k]
    BY SliceFacts
<1>2. /\ Slice(w, i, j) \in Seq(Byte)
      /\ Len(Slice(w, i, j)) = j - i
      /\ \A k \in 1 .. j - i : Slice(w, i, j)[k] = w[i + k]
    BY SliceFacts
<1>3. \A k \in 1 .. j - i : v[i + k] = w[i + k]
    OBVIOUS
<1>4. QED
    BY <1>1, <1>2, <1>3, SeqEqual

\* Two adjacent parts of a vector are one.
LEMMA SliceConcat ==
    ASSUME NEW v \in Seq(Byte), NEW i \in Nat, NEW j \in Nat, NEW k \in Nat,
           i <= j, j <= k, k <= Len(v)
    PROVE  Slice(v, i, j) \o Slice(v, j, k) = Slice(v, i, k)
<1> DEFINE s == Slice(v, i, j)
           t == Slice(v, j, k)
           u == Slice(v, i, k)
<1>0. Len(v) \in Nat /\ i <= k /\ j <= Len(v)
    BY LenProperties
<1>1. s \in Seq(Byte) /\ Len(s) = j - i /\ \A n \in 1 .. j - i : s[n] = v[i + n]
    BY <1>0, SliceFacts
<1>2. t \in Seq(Byte) /\ Len(t) = k - j /\ \A n \in 1 .. k - j : t[n] = v[j + n]
    BY <1>0, SliceFacts
<1>3. u \in Seq(Byte) /\ Len(u) = k - i /\ \A n \in 1 .. k - i : u[n] = v[i + n]
    BY <1>0, SliceFacts
<1> HIDE DEF s, t, u
<1>4. /\ s \o t \in Seq(Byte)
      /\ Len(s \o t) = Len(s) + Len(t)
      /\ \A n \in 1 .. Len(s) + Len(t) :
            (s \o t)[n] = IF n <= Len(s) THEN s[n] ELSE t[n - Len(s)]
    BY <1>1, <1>2, ConcatProperties
<1>5. Len(s \o t) = Len(u)
    BY <1>1, <1>2, <1>3, <1>4
<1>6. ASSUME NEW n \in 1 .. Len(s \o t) PROVE (s \o t)[n] = u[n]
    <2>1. n \in 1 .. k - i
        BY <1>3, <1>5
    <2>2. CASE n <= j - i
        BY <1>1, <1>3, <1>4, <2>1, <2>2
    <2>3. CASE ~(n <= j - i)
        <3>1. n - (j - i) \in 1 .. k - j
            BY <2>1, <2>3
        <3>2. t[n - (j - i)] = v[j + (n - (j - i))]
            BY <1>2, <3>1
        <3>3. QED
            BY <1>1, <1>2, <1>3, <1>4, <2>1, <2>3, <3>2
    <2>4. QED
        BY <2>2, <2>3
<1>7. s \o t = u
    BY <1>3, <1>4, <1>5, <1>6, SeqEqual
<1>8. QED
    BY <1>7 DEF s, t, u

\* What was copied to a place is what is found there.
LEMMA SliceOfCopy ==
    ASSUME NEW v \in Seq(Byte), NEW at \in Nat, NEW s \in Seq(Byte),
           at + Len(s) <= Len(v)
    PROVE  Slice(CopyTo(v, at, s), at, at + Len(s)) = s
<1> DEFINE w == CopyTo(v, at, s)
<1>1. Len(s) \in Nat /\ Len(v) \in Nat
    BY LenProperties
<1>2. /\ w \in Seq(Byte) /\ Len(w) = Len(v)
      /\ \A k \in 1 .. Len(v) :
            w[k] = IF at < k /\ k <= at + Len(s) THEN s[k - at] ELSE v[k]
    BY CopyFacts
<1> HIDE DEF w
<1>3. /\ Slice(w, at, at + Len(s)) \in Seq(Byte)
      /\ Len(Slice(w, at, at + Len(s))) = Len(s)
      /\ \A k \in 1 .. Len(s) : Slice(w, at, at + Len(s))[k] = w[at + k]
    BY <1>1, <1>2, SliceFrom
<1>4. \A k \in 1 .. Len(s) : w[at + k] = s[k]
    <2> TAKE k \in 1 .. Len(s)
    <2>1. at + k \in 1 .. Len(v) /\ at < at + k /\ at + k <= at + Len(s)
        BY <1>1
    <2>2. at + k - at = k
        BY <1>1
    <2>3. QED
        BY <1>2, <2>1, <2>2
<1>5. Slice(w, at, at + Len(s)) = s
    BY <1>3, <1>4, SeqEqual
<1>6. QED
    BY <1>5 DEF w

-----------------------------------------------------------------------------
(***************************************************************************)
(* What the operations make of an object.                                  *)
(***************************************************************************)

\* The numbers that an object has.
LEMMA Sizes ==
    ASSUME NEW b, WellFormed(b)
    PROVE  /\ b.buffer_ \in Seq(Byte) /\ Len(b.buffer_) \in Nat
           /\ b.readerIndex_ \in Nat /\ b.writeIndex_ \in Nat
           /\ ReadableBytes(b) \in Nat /\ WriteableBytes(b) \in Nat
           /\ PrependableBytes(b) = b.readerIndex_
           /\ b.readerIndex_ + ReadableBytes(b) = b.writeIndex_
           /\ b.writeIndex_ + WriteableBytes(b) = Len(b.buffer_)
           /\ Readable(b) \in Seq(Byte) /\ Len(Readable(b)) = ReadableBytes(b)
<1>1. /\ b.buffer_ \in Seq(Byte) /\ Len(b.buffer_) \in Nat
      /\ b.readerIndex_ \in Nat /\ b.writeIndex_ \in Nat
      /\ b.readerIndex_ <= b.writeIndex_ /\ b.writeIndex_ <= Len(b.buffer_)
    BY LenProperties DEF WellFormed
<1>2. Readable(b) \in Seq(Byte) /\ Len(Readable(b)) = ReadableBytes(b)
    BY <1>1, SliceFacts DEF Readable, ReadableBytes
<1>3. QED
    BY <1>1, <1>2 DEF ReadableBytes, WriteableBytes, PrependableBytes

\* An object that is put together from its parts.
LEMMA ObjectFacts ==
    ASSUME NEW v \in Seq(Byte), NEW i \in Nat, NEW j \in Nat,
           i <= j, j <= Len(v), kCheapPrepend <= Len(v)
    PROVE  /\ WellFormed(Object(v, i, j))
           /\ Readable(Object(v, i, j)) = Slice(v, i, j)
           /\ ReadableBytes(Object(v, i, j)) = j - i
           /\ WriteableBytes(Object(v, i, j)) = Len(v) - j
BY DEF Object, WellFormed, Readable, ReadableBytes, WriteableBytes

\* A new object is empty.
LEMMA NewFacts == WellFormed(New) /\ Readable(New) = <<>>
<1> DEFINE v == Enlarge(<<>>, kCheapPrepend + kInitialSize)
<1>1. v \in Seq(Byte) /\ Len(v) = kCheapPrepend + kInitialSize
    <2>1. kCheapPrepend + kInitialSize \in Nat /\ <<>> \in Seq(Byte)
        BY ConstantsAssumption
    <2>2. QED
        BY <2>1, EnlargeFacts
<1> HIDE DEF v
<1>2. /\ WellFormed(Object(v, kCheapPrepend, kCheapPrepend))
      /\ Readable(Object(v, kCheapPrepend, kCheapPrepend)) =
            Slice(v, kCheapPrepend, kCheapPrepend)
    BY <1>1, ConstantsAssumption, ObjectFacts
<1>3. Slice(v, kCheapPrepend, kCheapPrepend) = <<>>
    BY ConstantsAssumption, SubSeqEmpty DEF Slice
<1>4. QED
    BY <1>2, <1>3 DEF New, v

\* Bytes that there is room for are added to those that are there.
LEMMA WrittenFacts ==
    ASSUME NEW b, WellFormed(b), NEW s \in Seq(Byte), Len(s) <= WriteableBytes(b)
    PROVE  /\ WellFormed(Written(b, s))
           /\ Readable(Written(b, s)) = Readable(b) \o s
<1> DEFINE v == b.buffer_
           r == b.readerIndex_
           w == b.writeIndex_
           c == CopyTo(v, w, s)
           n == ReadableBytes(b)
<1>1. /\ v \in Seq(Byte) /\ r \in Nat /\ w \in Nat /\ n \in Nat
      /\ Len(v) \in Nat /\ Len(s) \in Nat
      /\ r + n = w /\ r <= w /\ w + Len(s) \in Nat /\ w + Len(s) <= Len(v)
      /\ r <= w + Len(s) /\ w <= w + Len(s) /\ w <= Len(v)
      /\ kCheapPrepend <= Len(v)
    BY Sizes, LenProperties DEF WellFormed
<1>2. Written(b, s) = Object(c, r, w + Len(s)) /\ Readable(b) = Slice(v, r, w)
    BY DEF Written, Readable
<1> HIDE DEF v, r, w, n
<1>3. /\ c \in Seq(Byte) /\ Len(c) = Len(v)
      /\ \A k \in 1 .. Len(v) :
            c[k] = IF w < k /\ k <= w + Len(s) THEN s[k - w] ELSE v[k]
    BY <1>1, CopyFacts
<1>4. Slice(c, w, w + Len(s)) = s
    BY <1>1, SliceOfCopy
<1> HIDE DEF c
<1>5. /\ WellFormed(Object(c, r, w + Len(s)))
      /\ Readable(Object(c, r, w + Len(s))) = Slice(c, r, w + Len(s))
    BY <1>1, <1>3, ObjectFacts
<1>6. Slice(c, r, w + Len(s)) = Slice(c, r, w) \o Slice(c, w, w + Len(s))
    <2> DEFINE m == w + Len(s)
    <2>1. c \in Seq(Byte) /\ r \in Nat /\ w \in Nat
        BY <1>1, <1>3
    <2>2. m \in Nat /\ r <= w /\ w <= m /\ m <= Len(c)
        BY <1>1, <1>3
    <2> HIDE DEF m
    <2>3. Slice(c, r, w) \o Slice(c, w, m) = Slice(c, r, m)
        BY ONLY <2>1, <2>2, SliceConcat
    <2>4. QED
        BY <2>3 DEF m
<1>7. Slice(c, r, w) = Slice(v, r, w)
    <2>1. ASSUME NEW k \in r + 1 .. w PROVE c[k] = v[k]
        <3>1. k \in 1 .. Len(v) /\ ~(w < k)
            BY <1>1
        <3>2. QED
            BY <1>3, <3>1
    <2>2. /\ c \in Seq(Byte) /\ v \in Seq(Byte) /\ r \in Nat /\ w \in Nat
          /\ r <= w /\ w <= Len(c) /\ w <= Len(v)
        BY <1>1, <1>3
    <2>3. QED
        BY <2>1, <2>2, SameSlice
<1>8. QED
    BY <1>2, <1>4, <1>5, <1>6, <1>7

\* makeSpace by enlarging the vector.
LEMMA GrownFacts ==
    ASSUME NEW b, WellFormed(b), NEW len \in Nat, WriteableBytes(b) < len
    PROVE  /\ WellFormed(Grown(b, len))
           /\ Readable(Grown(b, len)) = Readable(b)
           /\ len <= WriteableBytes(Grown(b, len))
<1> DEFINE v == b.buffer_
           r == b.readerIndex_
           w == b.writeIndex_
           c == Enlarge(v, w + len)
           n == ReadableBytes(b)
<1>1. /\ v \in Seq(Byte) /\ r \in Nat /\ w \in Nat /\ n \in Nat
      /\ Len(v) \in Nat /\ w + len \in Nat /\ Len(v) <= w + len
      /\ r + n = w /\ r <= w /\ w <= Len(v) /\ w <= w + len
      /\ kCheapPrepend <= Len(v) /\ kCheapPrepend \in Nat
    BY Sizes, ConstantsAssumption DEF WellFormed
<1>2. Grown(b, len) = Object(c, r, w) /\ Readable(b) = Slice(v, r, w)
    BY DEF Grown, Readable
<1> HIDE DEF v, r, w, n
<1>3. /\ c \in Seq(Byte) /\ Len(c) = w + len
      /\ \A k \in 1 .. w + len : c[k] = IF k <= Len(v) THEN v[k] ELSE 0
    BY <1>1, EnlargeFacts
<1> HIDE DEF c
<1>4. /\ c \in Seq(Byte) /\ r \in Nat /\ w \in Nat /\ r <= w
      /\ kCheapPrepend <= Len(c) /\ w <= Len(c) /\ Len(c) - w = len
    BY <1>1, <1>3
<1>5. /\ WellFormed(Object(c, r, w))
      /\ Readable(Object(c, r, w)) = Slice(c, r, w)
      /\ WriteableBytes(Object(c, r, w)) = Len(c) - w
    BY <1>4, ObjectFacts
<1>6. Slice(c, r, w) = Slice(v, r, w)
    <2>1. \A k \in r + 1 .. w : c[k] = v[k]
        BY <1>1, <1>3
    <2>2. /\ c \in Seq(Byte) /\ v \in Seq(Byte) /\ r \in Nat /\ w \in Nat
          /\ r <= w /\ w <= Len(c) /\ w <= Len(v)
        BY <1>1, <1>3
    <2>3. QED
        BY <2>1, <2>2, SameSlice
<1>7. QED
    BY <1>2, <1>4, <1>5, <1>6

\* makeSpace by moving the bytes, which is to the front.
LEMMA MovedFacts ==
    ASSUME NEW b, WellFormed(b), NEW len \in Nat, WriteableBytes(b) < len,
           ~MustGrow(b, len)
    PROVE  /\ WellFormed(Moved(b))
           /\ Readable(Moved(b)) = Readable(b)
           /\ len <= WriteableBytes(Moved(b))
           /\ kCheapPrepend < b.readerIndex_
<1> DEFINE v == b.buffer_
           s == Readable(b)
           n == ReadableBytes(b)
           e == kCheapPrepend + n
           c == CopyTo(v, kCheapPrepend, s)
<1>1. /\ v \in Seq(Byte) /\ Len(v) \in Nat /\ kCheapPrepend \in Nat
      /\ s \in Seq(Byte) /\ Len(s) = n /\ n \in Nat /\ e \in Nat
      /\ kCheapPrepend <= e /\ kCheapPrepend <= Len(v)
    BY Sizes, ConstantsAssumption DEF WellFormed
<1>2. kCheapPrepend < b.readerIndex_ /\ e <= Len(v) /\ len <= Len(v) - e
    <2> DEFINE r == b.readerIndex_
               w == b.writeIndex_
               room == WriteableBytes(b)
               all == Len(v)
    <2>1. /\ r \in Nat /\ w \in Nat /\ room \in Nat /\ all \in Nat
          /\ PrependableBytes(b) = r /\ r + n = w /\ w + room = all
        BY Sizes
    <2>2. room < len /\ len + kCheapPrepend <= room + r
        BY <1>1, <2>1 DEF MustGrow
    <2>3. kCheapPrepend \in Nat /\ n \in Nat
        BY <1>1
    <2> HIDE DEF r, w, room, all, n
    <2>4. kCheapPrepend < r /\ e <= all /\ len <= all - e
        BY <2>1, <2>2, <2>3
    <2>5. QED
        BY <2>4 DEF r, all
<1>3. Moved(b) = Object(c, kCheapPrepend, e)
    BY DEF Moved
<1>4. /\ c \in Seq(Byte) /\ Len(c) = Len(v)
      /\ Slice(c, kCheapPrepend, e) = s
    <2>1. kCheapPrepend + Len(s) <= Len(v) /\ kCheapPrepend + Len(s) = e
        BY <1>1, <1>2
    <2>2. c \in Seq(Byte) /\ Len(c) = Len(v)
        BY <1>1, <2>1, CopyFacts
    <2>3. Slice(c, kCheapPrepend, kCheapPrepend + Len(s)) = s
        BY <1>1, <2>1, SliceOfCopy
    <2>4. QED
        BY <2>1, <2>2, <2>3
<1> HIDE DEF v, s, n, e, c
<1>5. /\ WellFormed(Object(c, kCheapPrepend, e))
      /\ Readable(Object(c, kCheapPrepend, e)) = Slice(c, kCheapPrepend, e)
      /\ WriteableBytes(Object(c, kCheapPrepend, e)) = Len(c) - e
    BY <1>1, <1>2, <1>4, ObjectFacts
<1>6. QED
    BY <1>2, <1>3, <1>4, <1>5 DEF s

\* ensureWritableBytes keeps the bytes and makes room.
LEMMA RoomyFacts ==
    ASSUME NEW b, WellFormed(b), NEW len \in Nat
    PROVE  /\ WellFormed(Roomy(b, len))
           /\ Readable(Roomy(b, len)) = Readable(b)
           /\ len <= WriteableBytes(Roomy(b, len))
<1>1. WriteableBytes(b) \in Nat
    BY Sizes
<1>2. CASE len <= WriteableBytes(b)
    BY <1>2 DEF Roomy
<1>3. CASE ~(len <= WriteableBytes(b)) /\ MustGrow(b, len)
    <2>1. WriteableBytes(b) < len
        BY <1>1, <1>3
    <2>2. Roomy(b, len) = Grown(b, len)
        BY <1>3 DEF Roomy
    <2>3. QED
        BY <2>1, <2>2, GrownFacts
<1>4. CASE ~(len <= WriteableBytes(b)) /\ ~MustGrow(b, len)
    <2>1. WriteableBytes(b) < len
        BY <1>1, <1>4
    <2>2. Roomy(b, len) = Moved(b)
        BY <1>4 DEF Roomy
    <2>3. QED
        BY <1>4, <2>1, <2>2, MovedFacts
<1>5. QED
    BY <1>2, <1>3, <1>4

\* append adds the bytes that it is given.
LEMMA AppendedFacts ==
    ASSUME NEW b, WellFormed(b), NEW s \in Seq(Byte)
    PROVE  /\ WellFormed(Appended(b, s))
           /\ Readable(Appended(b, s)) = Readable(b) \o s
<1>1. Len(s) \in Nat
    BY LenProperties
<1>2. /\ WellFormed(Roomy(b, Len(s)))
      /\ Readable(Roomy(b, Len(s))) = Readable(b)
      /\ Len(s) <= WriteableBytes(Roomy(b, Len(s)))
    BY <1>1, RoomyFacts
<1>3. QED
    BY <1>2, WrittenFacts DEF Appended

\* readFd adds the bytes that readv delivers, wherever it put them.
LEMMA ReadInFacts ==
    ASSUME NEW b, WellFormed(b), NEW s \in Seq(Byte)
    PROVE  /\ WellFormed(ReadIn(b, s))
           /\ Readable(ReadIn(b, s)) = Readable(b) \o s
<1> DEFINE n == WriteableBytes(b)
           first == Slice(s, 0, n)
           rest == Slice(s, n, Len(s))
<1>1. n \in Nat /\ Len(s) \in Nat /\ Readable(b) \in Seq(Byte)
    BY Sizes, LenProperties
<1>2. CASE Len(s) <= n
    BY <1>2, WrittenFacts DEF ReadIn
<1>3. CASE ~(Len(s) <= n)
    <2> HIDE DEF n
    <2>1. 0 <= n /\ n <= Len(s)
        BY <1>1, <1>3
    <2>2. first \in Seq(Byte) /\ Len(first) = n
        BY <1>1, <2>1, SliceFacts
    <2>3. rest \in Seq(Byte)
        BY <1>1, <2>1, SliceFacts
    <2>4. first \o rest = s
        <3>1. first \o rest = Slice(s, 0, Len(s))
            BY <1>1, <2>1, SliceConcat
        <3>2. Slice(s, 0, Len(s)) = s
            BY SubSeqFull DEF Slice
        <3>3. QED
            BY <3>1, <3>2
    <2> HIDE DEF first, rest
    <2>5. Len(first) <= WriteableBytes(b)
        BY <1>1, <2>2 DEF n
    <2>6. /\ WellFormed(Written(b, first))
          /\ Readable(Written(b, first)) = Readable(b) \o first
        BY <2>2, <2>5, WrittenFacts
    <2>7. /\ WellFormed(Appended(Written(b, first), rest))
          /\ Readable(Appended(Written(b, first), rest)) =
                (Readable(b) \o first) \o rest
        BY <2>3, <2>6, AppendedFacts
    <2>8. (Readable(b) \o first) \o rest = Readable(b) \o s
        <3>1. (Readable(b) \o first) \o rest = Readable(b) \o (first \o rest)
            BY <1>1, <2>2, <2>3, ConcatAssociative
        <3>2. QED
            BY <2>4, <3>1
    <2>9. ReadIn(b, s) = Appended(Written(b, first), rest)
        BY <1>3 DEF ReadIn, n, first, rest
    <2>10. QED
        BY <2>7, <2>8, <2>9
<1>4. QED
    BY <1>2, <1>3

-----------------------------------------------------------------------------
(***************************************************************************)
(* The operations.                                                         *)
(***************************************************************************)

\* prepend puts its bytes before those that are there.
LEMMA PrependFacts ==
    ASSUME TypeOK, NEW s \in Seq(Byte), Prepend(s)
    PROVE  WellFormed(buf') /\ Readable(buf') = s \o Readable(buf)
<1> DEFINE v == buf.buffer_
           r == buf.readerIndex_
           w == buf.writeIndex_
           p == r - Len(s)
           c == CopyTo(v, p, s)
<1>0. WellFormed(buf)
    BY DEF TypeOK
<1>1. /\ v \in Seq(Byte) /\ r \in Nat /\ w \in Nat
      /\ Len(v) \in Nat /\ Len(s) \in Nat /\ r <= w /\ w <= Len(v)
      /\ kCheapPrepend <= Len(v)
    BY <1>0, Sizes, LenProperties DEF WellFormed
<1>2. Len(s) <= r
    BY DEF Prepend, PrependableBytes
<1>3. buf' = Object(c, p, w) /\ Readable(buf) = Slice(v, r, w)
    BY DEF Prepend, Readable
<1> HIDE DEF v, r, w
<1>4. p \in Nat /\ p + Len(s) = r /\ p <= r /\ p <= w /\ p + Len(s) <= Len(v)
    BY <1>1, <1>2
<1> HIDE DEF p
<1>5. /\ c \in Seq(Byte) /\ Len(c) = Len(v)
      /\ \A k \in 1 .. Len(v) :
            c[k] = IF p < k /\ k <= p + Len(s) THEN s[k - p] ELSE v[k]
    BY <1>1, <1>4, CopyFacts
<1>6. Slice(c, p, r) = s
    BY <1>1, <1>4, SliceOfCopy
<1> HIDE DEF c
<1>7. /\ c \in Seq(Byte) /\ r \in Nat /\ w \in Nat /\ p \in Nat
      /\ p <= r /\ r <= w /\ p <= w
      /\ w <= Len(c) /\ w <= Len(v) /\ kCheapPrepend <= Len(c)
    BY <1>1, <1>4, <1>5
<1>8. WellFormed(Object(c, p, w)) /\ Readable(Object(c, p, w)) = Slice(c, p, w)
    BY <1>7, ObjectFacts
<1>9. Slice(c, p, r) \o Slice(c, r, w) = Slice(c, p, w)
    BY <1>7, SliceConcat
<1>10. Slice(c, r, w) = Slice(v, r, w)
    <2>1. ASSUME NEW k \in r + 1 .. w PROVE c[k] = v[k]
        <3>1. k \in 1 .. Len(v) /\ ~(k <= p + Len(s))
            BY <1>1, <1>4
        <3>2. QED
            BY <1>5, <3>1
    <2>2. QED
        BY <1>1, <1>7, <2>1, SameSlice
<1>11. QED
    BY <1>3, <1>6, <1>8, <1>9, <1>10

\* retrieve takes its bytes from the front.
LEMMA RetrieveFacts ==
    ASSUME TypeOK, NEW len \in 0 .. ReadableBytes(buf), Retrieve(len)
    PROVE  /\ WellFormed(buf')
           /\ call'.bytes \in Seq(Byte)
           /\ Readable(buf) = call'.bytes \o Readable(buf')
<1> DEFINE v == buf.buffer_
           r == buf.readerIndex_
           w == buf.writeIndex_
           n == ReadableBytes(buf)
<1>0. WellFormed(buf)
    BY DEF TypeOK
<1>1. /\ v \in Seq(Byte) /\ r \in Nat /\ w \in Nat /\ n \in Nat
      /\ Len(v) \in Nat /\ r <= w /\ w <= Len(v) /\ r + n = w
      /\ kCheapPrepend <= Len(v) /\ len \in 0 .. n
    BY <1>0, Sizes DEF WellFormed
<1>2. /\ buf' = Object(v, r + len, w) /\ Readable(buf) = Slice(v, r, w)
      /\ call'.bytes = Slice(v, r, r + len)
    BY <1>0 DEF Retrieve, Called, Readable, Object, WellFormed
<1> HIDE DEF v, r, w, n
<1> DEFINE q == r + len
<1>3. q \in Nat /\ r <= q /\ q <= w /\ q <= Len(v)
    BY <1>1
<1> HIDE DEF q
<1>4. WellFormed(Object(v, q, w)) /\ Readable(Object(v, q, w)) = Slice(v, q, w)
    BY <1>1, <1>3, ObjectFacts
<1>5. Slice(v, r, q) \o Slice(v, q, w) = Slice(v, r, w)
    BY <1>1, <1>3, SliceConcat
<1>6. Slice(v, r, q) \in Seq(Byte)
    BY <1>1, <1>3, SliceFacts
<1>7. QED
    BY <1>2, <1>4, <1>5, <1>6 DEF q

\* retrieveAll leaves nothing to be read.
LEMMA RetrieveAllFacts ==
    ASSUME TypeOK, RetrieveAll
    PROVE  /\ WellFormed(buf')
           /\ call'.bytes = Readable(buf) /\ Readable(buf) \in Seq(Byte)
           /\ Readable(buf') = <<>>
<1> DEFINE v == buf.buffer_
<1>0. WellFormed(buf)
    BY DEF TypeOK
<1>1. v \in Seq(Byte) /\ Len(v) \in Nat /\ kCheapPrepend <= Len(v)
      /\ kCheapPrepend \in Nat
    BY <1>0, Sizes, ConstantsAssumption DEF WellFormed
<1>2. buf' = Object(v, kCheapPrepend, kCheapPrepend)
    BY DEF RetrieveAll
<1>3. Readable(buf) \in Seq(Byte)
    BY <1>0, Sizes
<1>4. call'.bytes = Readable(buf)
    BY DEF RetrieveAll, Called
<1> HIDE DEF v
<1>5. WellFormed(buf') /\ Readable(buf') = Slice(v, kCheapPrepend, kCheapPrepend)
    BY <1>1, <1>2, ObjectFacts
<1>6. Slice(v, kCheapPrepend, kCheapPrepend) = <<>>
    BY <1>1, SubSeqEmpty DEF Slice
<1>7. QED
    BY <1>3, <1>4, <1>5, <1>6

\* shrink keeps the bytes, which start where the new vector has them.
LEMMA ShrinkFacts ==
    ASSUME TypeOK, NEW reserve \in Nat, Shrink(reserve)
    PROVE  WellFormed(buf') /\ Readable(buf') = Readable(buf)
<1> DEFINE s == Readable(buf)
           n == ReadableBytes(buf)
           e == kCheapPrepend + n
           v == Enlarge(<<>>, kCheapPrepend + n + reserve)
           c == CopyTo(v, kCheapPrepend, s)
<1>0. WellFormed(buf)
    BY DEF TypeOK
<1>1. /\ s \in Seq(Byte) /\ Len(s) = n /\ n \in Nat /\ kCheapPrepend \in Nat
      /\ buf.readerIndex_ + n = buf.writeIndex_
    BY <1>0, Sizes, ConstantsAssumption
<1>2. buf' = Object(c, kCheapPrepend, e)
    <2>1. buf.readerIndex_ = kCheapPrepend /\ buf' = [buf EXCEPT !.buffer_ = c]
        BY DEF Shrink
    <2>2. buf.writeIndex_ = e
        BY <1>1, <2>1
    <2>3. QED
        BY <1>0, <2>1, <2>2 DEF WellFormed, Object
<1> HIDE DEF s, n
<1>3. /\ kCheapPrepend + n + reserve \in Nat /\ <<>> \in Seq(Byte)
      /\ e \in Nat /\ kCheapPrepend <= e /\ kCheapPrepend + Len(s) = e
      /\ e <= kCheapPrepend + n + reserve
      /\ kCheapPrepend <= kCheapPrepend + n + reserve
    BY <1>1
<1>4. v \in Seq(Byte) /\ Len(v) = kCheapPrepend + n + reserve
    BY <1>3, EnlargeFacts
<1> HIDE DEF v
<1>5. kCheapPrepend + Len(s) <= Len(v)
    BY <1>3, <1>4
<1>6. /\ c \in Seq(Byte) /\ Len(c) = Len(v)
      /\ Slice(c, kCheapPrepend, kCheapPrepend + Len(s)) = s
    <2>1. c \in Seq(Byte) /\ Len(c) = Len(v)
        BY <1>1, <1>4, <1>5, CopyFacts
    <2>2. Slice(c, kCheapPrepend, kCheapPrepend + Len(s)) = s
        BY <1>1, <1>4, <1>5, SliceOfCopy
    <2>3. QED
        BY <2>1, <2>2
<1> HIDE DEF c, e
<1>7. e <= Len(c) /\ kCheapPrepend <= Len(c)
    BY <1>3, <1>4, <1>6
<1>8. /\ WellFormed(Object(c, kCheapPrepend, e))
      /\ Readable(Object(c, kCheapPrepend, e)) = Slice(c, kCheapPrepend, e)
    BY <1>1, <1>3, <1>6, <1>7, ObjectFacts
<1>9. QED
    BY <1>2, <1>3, <1>6, <1>8 DEF s

-----------------------------------------------------------------------------
(***************************************************************************)
(* The type invariant, and makeSpace's assertions, which follow from it.   *)
(***************************************************************************)

\* The arguments of operations.
LEMMA InputFacts ==
    ASSUME NEW s \in Input
    PROVE  s \in Seq(Byte) /\ Len(s) \in Nat
<1>1. PICK n \in 0 .. MaxBytes : s \in [1 .. n -> Byte]
    BY DEF Input
<1>2. n \in Nat
    BY <1>1, ConstantsAssumption
<1>3. QED
    BY <1>1, <1>2, FunctionIsSeq, LenProperties

\* The number of bytes that an operation may still add.
LEMMA Room ==
    ASSUME TypeOK, NEW n \in 0 .. MaxBytes - ReadableBytes(buf)
    PROVE  n \in Nat
<1>1. ReadableBytes(buf) \in Nat
    BY Sizes DEF TypeOK
<1>2. QED
    BY <1>1, ConstantsAssumption

\* What an operation does, whichever it is: the object stays well formed, and
\* the bytes to be read change as ByteQueue has it.
LEMMA Step ==
    ASSUME TypeOK, Next
    PROVE  TypeOK' /\ Queue!Effect
<1>0. WellFormed(buf) /\ Readable(buf) \in Seq(Byte)
    BY Sizes DEF TypeOK
<1>1. CASE RetrieveAll
    <2>1. /\ WellFormed(buf') /\ Readable(buf') = <<>>
          /\ call'.bytes = Readable(buf)
        BY <1>1, RetrieveAllFacts
    <2>2. call' = [op |-> "retrieve", bytes |-> Readable(buf)]
        BY <1>1 DEF RetrieveAll, Called
    <2>3. Readable(buf) = Readable(buf) \o <<>>
        BY <1>0, ConcatEmptySeq
    <2>4. TypeOK'
        BY <1>0, <2>1, <2>2 DEF TypeOK
    <2>5. QED
        BY <2>1, <2>2, <2>3, <2>4 DEF Queue!Effect
<1>2. ASSUME NEW s \in Input, Append_(s) PROVE TypeOK' /\ Queue!Effect
    <2>1. s \in Seq(Byte)
        BY InputFacts
    <2>2. buf' = Appended(buf, s) /\ call' = [op |-> "append", bytes |-> s]
        BY <1>2 DEF Append_, Called
    <2>3. WellFormed(buf') /\ Readable(buf') = Readable(buf) \o s
        BY <1>0, <2>1, <2>2, AppendedFacts
    <2>4. QED
        BY <2>1, <2>2, <2>3 DEF TypeOK, Queue!Effect
<1>3. ASSUME NEW s \in Input, ReadFd(s) PROVE TypeOK' /\ Queue!Effect
    <2>1. s \in Seq(Byte)
        BY InputFacts
    <2>2. buf' = ReadIn(buf, s) /\ call' = [op |-> "append", bytes |-> s]
        BY <1>3 DEF ReadFd, Called
    <2>3. WellFormed(buf') /\ Readable(buf') = Readable(buf) \o s
        BY <1>0, <2>1, <2>2, ReadInFacts
    <2>4. QED
        BY <2>1, <2>2, <2>3 DEF TypeOK, Queue!Effect
<1>4. ASSUME NEW s \in Input, Prepend(s) PROVE TypeOK' /\ Queue!Effect
    <2>1. s \in Seq(Byte)
        BY InputFacts
    <2>2. call' = [op |-> "prepend", bytes |-> s]
        BY <1>4 DEF Prepend, Called
    <2>3. WellFormed(buf') /\ Readable(buf') = s \o Readable(buf)
        BY <1>4, <2>1, PrependFacts
    <2>4. QED
        BY <2>1, <2>2, <2>3 DEF TypeOK, Queue!Effect
<1>5. ASSUME NEW s \in Input, Swap(s) PROVE TypeOK' /\ Queue!Effect
    <2>1. s \in Seq(Byte)
        BY InputFacts
    <2>2. buf' = Appended(New, s) /\ call' = [op |-> "swap", bytes |-> s]
        BY <1>5 DEF Swap, Called
    <2>3. WellFormed(buf') /\ Readable(buf') = <<>> \o s
        BY <2>1, <2>2, NewFacts, AppendedFacts
    <2>4. <<>> \o s = s
        BY <2>1, ConcatEmptySeq
    <2>5. QED
        BY <2>1, <2>2, <2>3, <2>4 DEF TypeOK, Queue!Effect
<1>6. ASSUME NEW len \in 0 .. ReadableBytes(buf), Retrieve(len)
      PROVE  TypeOK' /\ Queue!Effect
    <2>1. /\ WellFormed(buf') /\ call'.bytes \in Seq(Byte)
          /\ Readable(buf) = call'.bytes \o Readable(buf')
        BY <1>6, RetrieveFacts
    <2>2. /\ call' = [op |-> "retrieve", bytes |-> call'.bytes]
          /\ call'.op = "retrieve"
        BY <1>6 DEF Retrieve, Called
    <2>3. QED
        BY <2>1, <2>2 DEF TypeOK, Queue!Effect
<1>7. ASSUME NEW n \in 0 .. MaxBytes - ReadableBytes(buf), EnsureWritableBytes(n)
      PROVE  TypeOK' /\ Queue!Effect
    <2>1. n \in Nat
        BY Room
    <2>2. buf' = Roomy(buf, n) /\ call' = [op |-> "resize", bytes |-> <<>>]
        BY <1>7 DEF EnsureWritableBytes, Called
    <2>3. WellFormed(buf') /\ Readable(buf') = Readable(buf)
        BY <1>0, <2>1, <2>2, RoomyFacts
    <2>4. QED
        BY <2>2, <2>3, EmptySeq DEF TypeOK, Queue!Effect
<1>8. ASSUME NEW n \in 0 .. MaxBytes - ReadableBytes(buf), Shrink(n)
      PROVE  TypeOK' /\ Queue!Effect
    <2>1. n \in Nat
        BY Room
    <2>2. call' = [op |-> "resize", bytes |-> <<>>]
        BY <1>8 DEF Shrink, Called
    <2>3. WellFormed(buf') /\ Readable(buf') = Readable(buf)
        BY <1>8, <2>1, ShrinkFacts
    <2>4. QED
        BY <2>2, <2>3, EmptySeq DEF TypeOK, Queue!Effect
<1>9. QED
    BY <1>1, <1>2, <1>3, <1>4, <1>5, <1>6, <1>7, <1>8 DEF Next

\* A new buffer is well formed and empty.
LEMMA InitFacts == Init => TypeOK /\ Queue!Init
<1> SUFFICES ASSUME Init PROVE TypeOK /\ Queue!Init
    OBVIOUS
<1>1. WellFormed(buf) /\ Readable(buf) = <<>>
    BY NewFacts DEF Init
<1>2. QED
    BY <1>1, EmptySeq DEF Init, TypeOK, Queue!Init

\* The regions of a buffer are in order after any operations, whatever the sizes
\* and the bytes; shrink is called only where the bytes start at kCheapPrepend.
THEOREM TypeCorrect == Spec => []TypeOK
<1>1. Init => TypeOK
    BY InitFacts
<1>2. TypeOK /\ [Next]_vars => TypeOK'
    <2>1. TypeOK /\ Next => TypeOK'
        BY Step
    <2>2. TypeOK /\ UNCHANGED vars => TypeOK'
        BY DEF TypeOK, WellFormed, vars
    <2>3. QED
        BY <2>1, <2>2
<1>3. QED
    BY <1>1, <1>2, PTL DEF Spec

\* The assertions of ensureWritableBytes and makeSpace hold in every buffer that
\* its operations can make.
THEOREM RoomAlwaysMade == Spec => []RoomIsMade
<1>1. TypeOK => RoomIsMade
    <2> SUFFICES ASSUME TypeOK, NEW len \in 0 .. MaxBytes
                 PROVE  /\ len <= WriteableBytes(Roomy(buf, len))
                        /\ ReadableBytes(Roomy(buf, len)) = ReadableBytes(buf)
                        /\ len > WriteableBytes(buf) /\ ~MustGrow(buf, len)
                               => kCheapPrepend < buf.readerIndex_
        BY DEF RoomIsMade
    <2>1. len \in Nat /\ WellFormed(buf)
        BY ConstantsAssumption DEF TypeOK
    <2>2. /\ WellFormed(Roomy(buf, len))
          /\ Readable(Roomy(buf, len)) = Readable(buf)
          /\ len <= WriteableBytes(Roomy(buf, len))
        BY <2>1, RoomyFacts
    <2>3. ReadableBytes(Roomy(buf, len)) = ReadableBytes(buf)
        <3>1. ReadableBytes(buf) = Len(Readable(buf))
            BY <2>1, Sizes
        <3>2. ReadableBytes(Roomy(buf, len)) = Len(Readable(Roomy(buf, len)))
            BY <2>2, Sizes
        <3>3. QED
            BY <2>2, <3>1, <3>2
    <2>4. ASSUME len > WriteableBytes(buf), ~MustGrow(buf, len)
          PROVE  kCheapPrepend < buf.readerIndex_
        <3>1. WriteableBytes(buf) < len
            BY <2>1, <2>4, Sizes
        <3>2. QED
            BY <2>1, <2>4, <3>1, MovedFacts
    <2>5. QED
        BY <2>2, <2>3, <2>4
<1>2. QED
    BY <1>1, TypeCorrect, PTL

\* A buffer of any size implements the queue of bytes.
THEOREM Refinement == Spec => QueueSpec
<1>1. TypeOK /\ [Next]_vars => [Queue!Effect]_(Queue!vars)
    <2>1. TypeOK /\ Next => Queue!Effect
        BY Step
    <2>2. UNCHANGED vars => UNCHANGED Queue!vars
        BY DEF vars, Queue!vars, Readable
    <2>3. QED
        BY <2>1, <2>2
<1>2. QED
    BY <1>1, InitFacts, TypeCorrect, PTL DEF Spec, QueueSpec, Queue!Spec
=============================================================================
