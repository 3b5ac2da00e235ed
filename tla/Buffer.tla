------------------------------- MODULE Buffer -------------------------------
(***************************************************************************)
(* mtnet::Buffer: a vector with free space, the bytes to be read and free  *)
(* space again, told apart by readerIndex_ and writeIndex_.  The bytes of  *)
(* the vector that are not to be read are kept too: a region copied from   *)
(* the wrong place shows.  Positions count from 0, as in the code.         *)
(* The properties are about callers that shrink only where the bytes start *)
(* at kCheapPrepend: shrink() is right nowhere else.                       *)
(***************************************************************************)
EXTENDS Integers, Sequences

CONSTANTS
    Byte,
    kCheapPrepend, kInitialSize,
    ExtraSize,        \* of readFd's extrabuf
    MaxBytes          \* bounds the bytes that wait to be read

ASSUME ConstantsAssumption ==
    /\ 0 \in Byte
    /\ kCheapPrepend \in Nat /\ kInitialSize \in Nat /\ ExtraSize \in Nat
    /\ MaxBytes \in Nat

VARIABLES
    buf,              \* the object: buffer_, readerIndex_ and writeIndex_
    call              \* history: the last operation, and its bytes

vars == <<buf, call>>

-----------------------------------------------------------------------------
(***************************************************************************)
(* Vectors.  Those the code makes or enlarges are filled with zeros.       *)
(***************************************************************************)

Enlarge(v, n) == [k \in 1 .. n |-> IF k <= Len(v) THEN v[k] ELSE 0]

\* The bytes of v at positions from, ..., to - 1.
Slice(v, from, to) == SubSeq(v, from + 1, to)

\* std::copy of the bytes s to position at and after.
CopyTo(v, at, s) ==
    [k \in 1 .. Len(v) |->
        IF at < k /\ k <= at + Len(s) THEN s[k - at] ELSE v[k]]

-----------------------------------------------------------------------------
(***************************************************************************)
(* The object: its three regions, and what the operations make of it.      *)
(***************************************************************************)

Object(v, r, w) == [buffer_ |-> v, readerIndex_ |-> r, writeIndex_ |-> w]

New == Object(Enlarge(<<>>, kCheapPrepend + kInitialSize),
              kCheapPrepend, kCheapPrepend)

ReadableBytes(b) == b.writeIndex_ - b.readerIndex_
WriteableBytes(b) == Len(b.buffer_) - b.writeIndex_
PrependableBytes(b) == b.readerIndex_

\* What peek() shows.
Readable(b) == Slice(b.buffer_, b.readerIndex_, b.writeIndex_)

\* makeSpace enlarges the vector, unless the free space at both ends, but for
\* the part kept for prepend, is enough.
MustGrowMutant(b, len) == WriteableBytes(b) + PrependableBytes(b) < len
MustGrow(b, len) ==
    WriteableBytes(b) + PrependableBytes(b) < len + kCheapPrepend

Grown(b, len) ==
    Object(Enlarge(b.buffer_, b.writeIndex_ + len), b.readerIndex_, b.writeIndex_)

MovedMutant(b) ==
    Object(CopyTo(b.buffer_, kCheapPrepend, Readable(b)),
           kCheapPrepend, b.writeIndex_)
Moved(b) ==
    Object(CopyTo(b.buffer_, kCheapPrepend, Readable(b)),
           kCheapPrepend, kCheapPrepend + ReadableBytes(b))

\* ensureWritableBytes, with makeSpace.
Roomy(b, len) ==
    IF len <= WriteableBytes(b) THEN b
    ELSE IF MustGrow(b, len) THEN Grown(b, len)
    ELSE Moved(b)

\* What is copied to beginWrite(), and hasWriteten.
Written(b, s) ==
    Object(CopyTo(b.buffer_, b.writeIndex_, s), b.readerIndex_,
           b.writeIndex_ + Len(s))

Appended(b, s) == Written(Roomy(b, Len(s)), s)

\* readFd, when readv delivers the bytes s: to the vector, and what it has no
\* room for to extrabuf.
ReadInMutant(b, s) ==
    IF Len(s) <= WriteableBytes(b) THEN Written(b, s)
    ELSE Appended(Written(b, Slice(s, 0, WriteableBytes(b))),
                  Slice(s, 0, Len(s) - WriteableBytes(b)))
ReadIn(b, s) ==
    IF Len(s) <= WriteableBytes(b) THEN Written(b, s)
    ELSE Appended(Written(b, Slice(s, 0, WriteableBytes(b))),
                  Slice(s, WriteableBytes(b), Len(s)))

-----------------------------------------------------------------------------
(***************************************************************************)
(* The operations.                                                         *)
(***************************************************************************)

Init == buf = New /\ call = [op |-> "construct", bytes |-> <<>>]

Called(op, s) == call' = [op |-> op, bytes |-> s]

\* The arguments of an operation: MaxBytes bounds what it leaves to be read.
Input == {s \in UNION {[1 .. n -> Byte] : n \in 0 .. MaxBytes} :
              ReadableBytes(buf) + Len(s) <= MaxBytes}

Append_(s) ==
    /\ buf' = Appended(buf, s)
    /\ Called("append", s)

ReadFd(s) ==
    /\ Len(s) <= WriteableBytes(buf) + ExtraSize
    /\ buf' = ReadIn(buf, s)
    /\ Called("append", s)

EnsureWritableBytes(len) ==
    /\ buf' = Roomy(buf, len)
    /\ Called("resize", <<>>)

\* prepend, with its assertion as the caller's duty.
Prepend(s) ==
    /\ Len(s) <= PrependableBytes(buf)
    /\ LET r == buf.readerIndex_ - Len(s)
       IN  buf' = Object(CopyTo(buf.buffer_, r, s), r, buf.writeIndex_)
    /\ Called("prepend", s)

\* retrieve, retrieveUntil: of a part of what is to be read, or of all of it.
Retrieve(len) ==
    /\ buf' = [buf EXCEPT !.readerIndex_ = @ + len]
    /\ Called("retrieve", Slice(buf.buffer_, buf.readerIndex_,
                                buf.readerIndex_ + len))

\* retrieveAll, retrieveAsString: the indices go back to the start.
RetrieveAll ==
    /\ buf' = Object(buf.buffer_, kCheapPrepend, kCheapPrepend)
    /\ Called("retrieve", Readable(buf))

\* swap, with a new Buffer that s was appended to.
Swap(s) ==
    /\ buf' = Appended(New, s)
    /\ Called("swap", s)

\* shrink.  It leaves the indices alone, which are right for the new vector
\* only where the bytes start at kCheapPrepend: its callers have to see to it.
Shrink(reserve) ==
    /\ buf.readerIndex_ = kCheapPrepend
    /\ LET v == Enlarge(<<>>, kCheapPrepend + ReadableBytes(buf) + reserve)
       IN  buf' = [buf EXCEPT !.buffer_ = CopyTo(v, kCheapPrepend, Readable(buf))]
    /\ Called("resize", <<>>)

Next ==
    \/ RetrieveAll
    \/ \E s \in Input : Append_(s) \/ ReadFd(s) \/ Prepend(s) \/ Swap(s)
    \/ \E len \in 0 .. ReadableBytes(buf) : Retrieve(len)
    \/ \E n \in 0 .. MaxBytes - ReadableBytes(buf) :
           EnsureWritableBytes(n) \/ Shrink(n)

Spec == Init /\ [][Next]_vars

-----------------------------------------------------------------------------
(***************************************************************************)
(* Properties.                                                             *)
(***************************************************************************)

\* The regions are in order, and at least the space for prepend is there.
WellFormed(b) ==
    /\ b \in [buffer_ : Seq(Byte), readerIndex_ : Nat, writeIndex_ : Nat]
    /\ b.readerIndex_ <= b.writeIndex_
    /\ b.writeIndex_ <= Len(b.buffer_)
    /\ kCheapPrepend <= Len(b.buffer_)
TypeOK ==
    /\ WellFormed(buf)
    /\ call \in [op : {"construct", "append", "prepend", "retrieve", "swap",
                       "resize"}, bytes : Seq(Byte)]

\* The assertions of ensureWritableBytes and makeSpace, at lines 107, 164 and
\* 171: bytes are moved only to the front, and the room asked for is there.
RoomIsMade ==
    \A len \in 0 .. MaxBytes :
        LET b == Roomy(buf, len)
        IN  /\ len <= WriteableBytes(b)
            /\ ReadableBytes(b) = ReadableBytes(buf)
            /\ len > WriteableBytes(buf) /\ ~MustGrow(buf, len)
                   => kCheapPrepend < buf.readerIndex_

\* A Buffer implements a queue of bytes: whatever is appended, read from the
\* descriptor, prepended and retrieved, and however the bytes are moved and the
\* vector grows meanwhile, none is lost, changed or seen out of order.
Queue == INSTANCE ByteQueue WITH queue <- Readable(buf)
QueueSpec == Queue!Spec
=============================================================================
