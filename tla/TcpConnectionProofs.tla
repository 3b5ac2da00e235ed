------------------------ MODULE TcpConnectionProofs -------------------------
(***************************************************************************)
(* What holds of TcpConnection for any messages of any size and any number *)
(* of threads: its invariants, and what no step of it does.                *)
(***************************************************************************)
EXTENDS TcpConnection, QueueFacts, SequenceTheorems, FiniteSetTheorems, TLAPS

-----------------------------------------------------------------------------
(***************************************************************************)
(* The invariant.                                                          *)
(***************************************************************************)

\* Until its loop has run connectEstablished nobody can use the connection.
NewInv ==
    registered = "no" =>
        /\ state_ = "kConnecting" /\ events_ = {} /\ outputBuffer_ = <<>>
        /\ callbacks = <<>> /\ pendingFunctors_ = <<"connectEstablished">>
        /\ connections_ /\ removals = 0
        /\ \A t \in Thread : caller[t] = "idle"

\* Where the removal of the connection has got to: nobody has begun it; the
\* channel is disabled, and the base loop is asked to remove the connection, or
\* has asked the connection's loop to destroy it; it is destroyed.
LifeInv ==
    /\ Once(pendingFunctors_, "connectDestroyed")
    /\ registered # "no" => "connectEstablished" \notin Range(pendingFunctors_)
    /\ registered \in {"yes", "ignored"} =>
           state_ \in {"kConnected", "kDisconnecting"}
    /\ \/ /\ registered \in {"no", "yes"} /\ connections_ /\ removals = 0
          /\ "connectDestroyed" \notin Range(pendingFunctors_)
       \/ /\ registered = "ignored" /\ connections_ /\ removals = 1
          /\ "connectDestroyed" \notin Range(pendingFunctors_)
       \/ /\ registered = "ignored" /\ ~connections_ /\ removals = 0
          /\ "connectDestroyed" \in Range(pendingFunctors_)
       \/ /\ registered = "removed" /\ ~connections_ /\ removals = 0
          /\ "connectDestroyed" \notin Range(pendingFunctors_)

\* A callback that may begin the removal is called while the channel is polled,
\* and the one that may come after it does not.
CallbacksInv ==
    \A i \in DOMAIN callbacks :
        callbacks[i] \in {"close", "read"} =>
            /\ registered = "yes"
            /\ \A j \in DOMAIN callbacks : i < j => callbacks[j] = "write"

Inv == TypeOK /\ NewInv /\ LifeInv /\ CallbacksInv /\ WritingMatchesData

-----------------------------------------------------------------------------
(***************************************************************************)
(* Facts about the pieces that handlers share.                             *)
(***************************************************************************)

\* A message is Size bytes.
LEMMA BytesFacts ==
    ASSUME NEW m \in Message
    PROVE  Bytes(m) \in Seq(Byte) /\ Len(Bytes(m)) = Size
BY ConstantsAssumption DEF Bytes, Byte

\* write() never takes more than it is given.
LEMMA WrittenFacts ==
    ASSUME NEW n \in Nat
    PROVE  Written(n) \subseteq 0 .. n
BY DEF Written

\* The write-complete callback is queued after what is there.
LEMMA NotifyFacts ==
    ASSUME NEW s \in Seq(Functor), NEW all
    PROVE  /\ Notify(all, s) \in Seq(Functor)
           /\ Len(s) \in Nat
           /\ Len(Notify(all, s)) \in Nat /\ Len(s) <= Len(Notify(all, s))
           /\ Range(s) \subseteq Range(Notify(all, s))
           /\ Range(Notify(all, s)) \subseteq Range(s) \cup {"writeComplete"}
           /\ \A x : x # "writeComplete" /\ Once(s, x) => Once(Notify(all, s), x)
<1>1. "writeComplete" \in Functor /\ Len(s) \in Nat
    BY LenProperties DEF Functor
<1>2. CASE all
    <2>1. Notify(all, s) = Append(s, "writeComplete")
        BY <1>2 DEF Notify
    <2>2. QED
        BY <1>1, <2>1, AppendFacts
<1>3. CASE ~all
    BY <1>1, <1>3 DEF Notify
<1>4. QED
    BY <1>2, <1>3

\* sendInLoop: whatever write() takes, the bytes are on the wire or wait, in
\* order, the channel is asked to report when there is room for those that wait,
\* and the write-complete callback is queued only if none does.
LEMMA SendFacts ==
    ASSUME TypeOK, NEW m \in Message, NEW fs, SendInLoop(m, fs)
    PROVE  /\ wire' \in Seq(Byte) /\ outputBuffer_' \in Seq(Byte)
           /\ accepted' \in Seq(Byte)
           /\ StreamIntact => StreamIntact'
           /\ events_' \in SUBSET {"read", "write"}
           /\ (isWriting <=> outputBuffer_ # <<>>)
                  => (isWriting <=> outputBuffer_ # <<>>)'
           /\ aborted' \in {aborted, "updateChannel"}
           /\ \E all \in BOOLEAN : /\ pendingFunctors_' = Notify(all, fs)
                                   /\ all => outputBuffer_' = <<>>
<1> DEFINE b == Bytes(m)
<1>1. b \in Seq(Byte) /\ Len(b) = Size /\ Size \in Nat \ {0} /\ b # <<>>
    <2>1. b \in Seq(Byte) /\ Len(b) = Size /\ Size \in Nat \ {0}
        BY BytesFacts, ConstantsAssumption
    <2>2. b # <<>>
        BY <2>1, EmptySeq
    <2>3. QED
        BY <2>1, <2>2
<1>2. PICK n \in DirectWrite :
          /\ wire' = wire \o SubSeq(b, 1, n)
          /\ outputBuffer_' = outputBuffer_ \o SubSeq(b, n + 1, Size)
          /\ events_' = IF n < Size THEN events_ \cup {"write"} ELSE events_
          /\ aborted' = IF n < Size /\ ~isWriting /\ registered = "removed"
                        THEN "updateChannel" ELSE aborted
          /\ pendingFunctors_' = Notify(n = Size, fs)
          /\ accepted' = accepted \o b
    BY DEF SendInLoop
<1>3. n \in 0 .. Size /\ (n # 0 => outputBuffer_ = <<>> /\ ~isWriting)
    BY <1>1, WrittenFacts DEF DirectWrite
<1> DEFINE p == SubSeq(b, 1, n)
           q == SubSeq(b, n + 1, Size)
<1>4. /\ p \in Seq(Byte) /\ q \in Seq(Byte) /\ p \o q = b
      /\ q = <<>> <=> n = Size
      /\ n = 0 => p = <<>>
    <2> HIDE DEF b
    <2>1. QED
        BY <1>1, <1>3, CutFacts
<1>5. /\ wire \in Seq(Byte) /\ outputBuffer_ \in Seq(Byte)
      /\ accepted \in Seq(Byte) /\ events_ \in SUBSET {"read", "write"}
    BY DEF TypeOK
<1>6. wire' = wire \o p /\ outputBuffer_' = outputBuffer_ \o q
    BY <1>2
<1> HIDE DEF b, p, q
<1>7. /\ wire' \in Seq(Byte) /\ outputBuffer_' \in Seq(Byte)
      /\ accepted' \in Seq(Byte)
    <2>1. wire \o p \in Seq(Byte)
        BY <1>4, <1>5, ConcatProperties
    <2>2. outputBuffer_ \o q \in Seq(Byte)
        BY <1>4, <1>5, ConcatProperties
    <2>3. accepted \o b \in Seq(Byte)
        BY <1>1, <1>5, ConcatProperties
    <2>4. QED
        BY <1>2, <1>6, <2>1, <2>2, <2>3
<1>8. outputBuffer_' = <<>> <=> outputBuffer_ = <<>> /\ n = Size
    BY <1>4, <1>5, <1>6, ConcatEqualIffEmpty
<1>9. ASSUME StreamIntact PROVE StreamIntact'
    <2>1. p \o (outputBuffer_ \o q) = outputBuffer_ \o b
        <3>1. CASE n = 0
            <4>1. p = <<>> /\ q = b
                BY <1>4, <3>1, ConcatEmptySeq
            <4>2. outputBuffer_ \o q \in Seq(Byte)
                BY <1>4, <1>5, ConcatProperties
            <4>3. QED
                BY <4>1, <4>2, ConcatEmptySeq
        <3>2. CASE n # 0
            BY <1>1, <1>3, <1>4, <3>2, ConcatEmptySeq
        <3>3. QED
            BY <3>1, <3>2
    <2> DEFINE r == outputBuffer_ \o q
    <2>2. r \in Seq(Byte)
        BY <1>4, <1>5, ConcatProperties
    <2> HIDE DEF r
    <2>3. (wire \o p) \o r = wire \o (p \o r)
        <3>1. wire \in Seq(Byte) /\ p \in Seq(Byte)
            BY <1>4, <1>5
        <3>2. QED
            BY ONLY <2>2, <3>1, ConcatAssociative
    <2>4. (wire \o outputBuffer_) \o b = wire \o (outputBuffer_ \o b)
        BY <1>1, <1>5, ConcatAssociative
    <2>5. accepted' = (wire \o outputBuffer_) \o b
        BY <1>2, <1>9 DEF StreamIntact, b
    <2>6. QED
        BY <1>6, <2>1, <2>3, <2>4, <2>5 DEF StreamIntact, r
<1>10. events_' \in SUBSET {"read", "write"}
    BY <1>2, <1>5
<1>11. ASSUME isWriting <=> outputBuffer_ # <<>>
       PROVE  (isWriting <=> outputBuffer_ # <<>>)'
    <2>1. CASE n < Size
        <3>1. n # Size /\ "write" \in events_'
            BY <1>1, <1>2, <2>1
        <3>2. QED
            BY <1>8, <3>1 DEF isWriting
    <2>2. CASE ~(n < Size)
        <3>1. n = Size /\ n # 0 /\ events_' = events_
            BY <1>1, <1>2, <1>3, <2>2
        <3>2. QED
            BY <1>3, <1>8, <3>1 DEF isWriting
    <2>3. QED
        BY <2>1, <2>2
<1>12. aborted' \in {aborted, "updateChannel"}
    BY <1>2
<1>13. \E all \in BOOLEAN : /\ pendingFunctors_' = Notify(all, fs)
                            /\ all => outputBuffer_' = <<>>
    <2>1. n = Size => outputBuffer_' = <<>>
        BY <1>1, <1>3, <1>8
    <2>2. pendingFunctors_' = Notify(n = Size, fs) /\ (n = Size) \in BOOLEAN
        BY <1>2
    <2>3. QED
        BY <2>1, <2>2
<1>14. QED
    BY <1>7, <1>9, <1>10, <1>11, <1>12, <1>13

\* handleWrite: the same, and the connection is half-closed only if no byte waits.
LEMMA WriteFacts ==
    ASSUME TypeOK, NEW n, HandleWrite(n)
    PROVE  /\ wire' \in Seq(Byte) /\ outputBuffer_' \in Seq(Byte)
           /\ StreamIntact => StreamIntact'
           /\ events_' \in SUBSET {"read", "write"} /\ finSent' \in BOOLEAN
           /\ (isWriting <=> outputBuffer_ # <<>>)
                  => (isWriting <=> outputBuffer_ # <<>>)'
           /\ ~finSent /\ finSent' => outputBuffer_' = <<>>
           /\ \/ pendingFunctors_' = pendingFunctors_
              \/ /\ pendingFunctors_' = Notify(TRUE, pendingFunctors_)
                 /\ outputBuffer_' = <<>>
<1> DEFINE p == SubSeq(outputBuffer_, 1, n)
           q == SubSeq(outputBuffer_, n + 1, Len(outputBuffer_))
<1>1. /\ wire \in Seq(Byte) /\ outputBuffer_ \in Seq(Byte)
      /\ events_ \in SUBSET {"read", "write"} /\ finSent \in BOOLEAN
    BY DEF TypeOK
<1>2. /\ isWriting /\ n \in Written(Len(outputBuffer_))
      /\ wire' = wire \o p /\ outputBuffer_' = q
      /\ IF n > 0 /\ outputBuffer_' = <<>> THEN AllWritten
         ELSE UNCHANGED <<events_, finSent, pendingFunctors_>>
      /\ UNCHANGED accepted
    BY DEF HandleWrite, Callback
<1>3. Len(outputBuffer_) \in Nat /\ n \in 0 .. Len(outputBuffer_)
    BY <1>1, <1>2, LenProperties, WrittenFacts
<1>4. p \in Seq(Byte) /\ q \in Seq(Byte) /\ p \o q = outputBuffer_
    BY <1>1, <1>3, CutFacts
<1>5. n = 0 => q = outputBuffer_
    BY <1>1, SubSeqFull
<1> HIDE DEF p, q
<1>6. wire' \in Seq(Byte) /\ outputBuffer_' \in Seq(Byte)
    BY <1>1, <1>2, <1>4, ConcatProperties
<1>7. StreamIntact => StreamIntact'
    <2>1. (wire \o p) \o q = wire \o (p \o q)
        <3>1. wire \in Seq(Byte) /\ p \in Seq(Byte) /\ q \in Seq(Byte)
            BY <1>1, <1>4
        <3>2. QED
            BY ONLY <3>1, ConcatAssociative
    <2>2. QED
        BY <1>2, <1>4, <2>1 DEF StreamIntact
<1>8. CASE n > 0 /\ outputBuffer_' = <<>>
    <2>1. /\ events_' = events_ \ {"write"}
          /\ pendingFunctors_' = Notify(TRUE, pendingFunctors_)
          /\ finSent' = (finSent \/ state_ = "kDisconnecting")
        BY <1>2, <1>8 DEF AllWritten
    <2>2. events_' \in SUBSET {"read", "write"} /\ finSent' \in BOOLEAN
        BY <1>1, <2>1
    <2>3. (isWriting <=> outputBuffer_ # <<>>)'
        BY <1>8, <2>1 DEF isWriting
    <2>4. QED
        BY <1>6, <1>7, <1>8, <2>1, <2>2, <2>3
<1>9. CASE ~(n > 0 /\ outputBuffer_' = <<>>)
    <2>1. UNCHANGED <<events_, finSent, pendingFunctors_>>
        BY <1>2, <1>9
    <2>2. ASSUME isWriting <=> outputBuffer_ # <<>>
          PROVE  (isWriting <=> outputBuffer_ # <<>>)'
        <3>1. outputBuffer_' # <<>>
            BY <1>2, <1>3, <1>5, <1>9, <2>2
        <3>2. QED
            BY <1>2, <2>1, <3>1 DEF isWriting
    <2>3. QED
        BY <1>1, <1>6, <1>7, <2>1, <2>2
<1>10. QED
    BY <1>8, <1>9

\* The functor that is run is the first one.
LEMMA RunFacts ==
    ASSUME TypeOK, NEW f, RunFunctor(f)
    PROVE  /\ pendingFunctors_ # <<>> /\ Head(pendingFunctors_) = f
           /\ Tail(pendingFunctors_) \in Seq(Functor)
           /\ batch' \in 0 .. Len(Tail(pendingFunctors_))
           /\ phase' = "functors"
<1>1. /\ pendingFunctors_ \in Seq(Functor)
      /\ batch \in 0 .. Len(pendingFunctors_) /\ batch > 0
      /\ batch' = batch - 1 /\ Head(pendingFunctors_) = f /\ phase' = "functors"
    BY DEF TypeOK, RunFunctor
<1>2. pendingFunctors_ # <<>>
    BY <1>1, EmptySeq
<1>3. /\ Tail(pendingFunctors_) \in Seq(Functor)
      /\ Len(pendingFunctors_) \in Nat \ {0}
      /\ Len(Tail(pendingFunctors_)) = Len(pendingFunctors_) - 1
    BY <1>1, <1>2, TailFacts
<1>4. QED
    BY <1>1, <1>2, <1>3

\* A callback that is called is taken off the list.
LEMMA CallbackFacts ==
    ASSUME TypeOK, NEW name, Callback(name)
    PROVE  /\ callbacks # <<>> /\ Head(callbacks) = name
           /\ callbacks' = Tail(callbacks)
           /\ callbacks' \in Seq({"error", "close", "read", "write"})
BY HeadTailProperties DEF TypeOK, Callback

\* disableAll and removeConnection: the connection's part of handleClose.
LEMMA CloseFacts ==
    ASSUME TypeOK, Close
    PROVE  /\ events_' = {} /\ registered' = "ignored"
           /\ connections_' \in BOOLEAN /\ removals' \in Nat
           /\ pendingFunctors_' \in {pendingFunctors_,
                                   Append(pendingFunctors_, "connectDestroyed")}
           /\ aborted' \in {aborted, "handleClose", "removeConnectionInLoop"}
<1>1. events_' = {} /\ registered' = "ignored"
    BY DEF Close, Disable
<1>2. connections_ \in BOOLEAN /\ removals \in Nat
    BY DEF TypeOK
<1>3. CASE state_ \notin {"kConnected", "kDisconnecting"}
    BY <1>1, <1>2, <1>3 DEF Close
<1>4. CASE state_ \in {"kConnected", "kDisconnecting"} /\ sameLoop
    BY <1>1, <1>2, <1>4 DEF Close, RemoveConnectionInLoop
<1>5. CASE state_ \in {"kConnected", "kDisconnecting"} /\ ~sameLoop
    BY <1>1, <1>2, <1>5 DEF Close
<1>6. QED
    BY <1>3, <1>4, <1>5

\* One part of handelEvent's list.
LEMMA OneOrNone ==
    ASSUME NEW S, NEW x \in S, NEW s, NEW P \in BOOLEAN,
           s = IF P THEN <<x>> ELSE <<>>
    PROVE  /\ s \in Seq(S) /\ Len(s) \in {0, 1}
           /\ Len(s) = 1 => P /\ s[1] = x
<1>1. CASE P
    <2>1. s = <<x>>
        BY <1>1
    <2>2. QED
        BY <1>1, <2>1
<1>2. CASE ~P
    <2>1. s = <<>>
        BY <1>2
    <2>2. s \in Seq(S) /\ Len(s) = 0
        BY <2>1, EmptySeq
    <2>3. QED
        BY <2>2
<1>3. QED
    BY <1>1, <1>2

\* handelEvent's list.  At most one of the callbacks that may begin the removal is
\* on it, and after that one comes at most handleWrite.
LEMMA CallbacksFacts ==
    ASSUME NEW revents
    PROVE  /\ Callbacks(revents) \in Seq({"error", "close", "read", "write"})
           /\ \A i, j \in DOMAIN Callbacks(revents) :
                  i < j /\ Callbacks(revents)[i] \in {"close", "read"}
                      => Callbacks(revents)[j] = "write"
<1> DEFINE Name == {"error", "close", "read", "write"}
           e == IF "ERR" \in revents THEN <<"error">> ELSE <<>>
           c == IF "HUP" \in revents /\ "IN" \notin revents
                THEN <<"close">> ELSE <<>>
           r == IF "IN" \in revents THEN <<"read">> ELSE <<>>
           w == IF "OUT" \in revents THEN <<"write">> ELSE <<>>
<1>1. /\ e \in Seq(Name) /\ Len(e) \in {0, 1} /\ (Len(e) = 1 => e[1] = "error")
      /\ w \in Seq(Name) /\ Len(w) \in {0, 1} /\ (Len(w) = 1 => w[1] = "write")
    <2>1. "error" \in Name /\ ("ERR" \in revents) \in BOOLEAN
        OBVIOUS
    <2>2. "write" \in Name /\ ("OUT" \in revents) \in BOOLEAN
        OBVIOUS
    <2> HIDE DEF Name
    <2>3. QED
        BY <2>1, <2>2, OneOrNone
<1>2. /\ c \in Seq(Name) /\ Len(c) \in {0, 1} /\ (Len(c) = 1 => c[1] = "close")
      /\ r \in Seq(Name) /\ Len(r) \in {0, 1} /\ (Len(r) = 1 => r[1] = "read")
      /\ Len(c) = 0 \/ Len(r) = 0
    <2> DEFINE P == "HUP" \in revents /\ "IN" \notin revents
    <2>1. "close" \in Name /\ P \in BOOLEAN
        OBVIOUS
    <2>2. "read" \in Name /\ ("IN" \in revents) \in BOOLEAN
        OBVIOUS
    <2> HIDE DEF Name
    <2>3. /\ c \in Seq(Name) /\ Len(c) \in {0, 1}
          /\ (Len(c) = 1 => P /\ c[1] = "close")
        BY <2>1, OneOrNone
    <2>4. /\ r \in Seq(Name) /\ Len(r) \in {0, 1}
          /\ (Len(r) = 1 => "IN" \in revents /\ r[1] = "read")
        BY <2>2, OneOrNone
    <2>5. QED
        BY <2>3, <2>4
<1> HIDE DEF Name
<1>3. Callbacks(revents) = e \o c \o r \o w
    BY DEF Callbacks
<1> HIDE DEF e, c, r, w
<1> DEFINE ec == e \o c
           ecr == ec \o r
           all == ecr \o w
<1>4. /\ ec \in Seq(Name) /\ Len(ec) = Len(e) + Len(c)
      /\ \A i \in 1 .. Len(e) + Len(c) :
             ec[i] = IF i <= Len(e) THEN e[i] ELSE c[i - Len(e)]
    <2>1. e \in Seq(Name) /\ c \in Seq(Name)
        BY <1>1, <1>2
    <2>2. QED
        BY ONLY <2>1, ConcatProperties
<1> HIDE DEF ec
<1>5. /\ ecr \in Seq(Name) /\ Len(ecr) = Len(ec) + Len(r)
      /\ \A i \in 1 .. Len(ec) + Len(r) :
             ecr[i] = IF i <= Len(ec) THEN ec[i] ELSE r[i - Len(ec)]
    <2>1. ec \in Seq(Name) /\ r \in Seq(Name)
        BY <1>2, <1>4
    <2>2. QED
        BY ONLY <2>1, ConcatProperties
<1> HIDE DEF ecr
<1>6. /\ all \in Seq(Name) /\ Len(all) = Len(ecr) + Len(w)
      /\ \A i \in 1 .. Len(ecr) + Len(w) :
             all[i] = IF i <= Len(ecr) THEN ecr[i] ELSE w[i - Len(ecr)]
    <2>1. ecr \in Seq(Name) /\ w \in Seq(Name)
        BY <1>1, <1>5
    <2>2. QED
        BY ONLY <2>1, ConcatProperties
<1> HIDE DEF all
<1>7. DOMAIN all = 1 .. Len(all)
    BY <1>6, LenProperties
<1>8. ASSUME NEW i \in DOMAIN all, NEW j \in DOMAIN all, i < j,
             all[i] \in {"close", "read"}
      PROVE  all[j] = "write"
    <2>1. i \in 1 .. Len(ecr) + Len(w) /\ j \in 1 .. Len(ecr) + Len(w)
        BY <1>6, <1>7
    <2>2. Len(ecr) = Len(e) + Len(c) + Len(r) /\ Len(c) + Len(r) \in {0, 1}
        BY <1>1, <1>2, <1>4, <1>5
    <2>3. i <= Len(ecr)
        <3>1. SUFFICES ASSUME ~(i <= Len(ecr)) PROVE FALSE
            OBVIOUS
        <3>2. i - Len(ecr) = 1 /\ Len(w) = 1 /\ all[i] = w[i - Len(ecr)]
            BY <1>1, <1>2, <1>6, <2>1, <2>2, <3>1
        <3>3. QED
            BY <1>1, <1>8, <3>2
    <2>4. Len(e) < i
        <3>1. SUFFICES ASSUME ~(Len(e) < i) PROVE FALSE
            OBVIOUS
        <3>2. i = 1 /\ Len(e) = 1 /\ i <= Len(ec)
            BY <1>1, <1>2, <1>4, <2>1, <2>2, <3>1
        <3>3. all[i] = ecr[i]
            BY <1>6, <2>1, <2>3
        <3>4. ecr[i] = ec[i]
            BY <1>1, <1>2, <1>4, <1>5, <3>2
        <3>5. ec[i] = e[i]
            BY <1>1, <1>2, <1>4, <3>2
        <3>6. QED
            BY <1>1, <1>8, <3>2, <3>3, <3>4, <3>5
    <2>5. ~(j <= Len(ecr)) /\ j - Len(ecr) = 1 /\ Len(w) = 1
        BY <1>1, <1>2, <1>8, <2>1, <2>2, <2>3, <2>4
    <2>6. QED
        BY <1>1, <1>6, <2>1, <2>5
<1>9. QED
    BY <1>3, <1>6, <1>8 DEF all, ecr, ec, Name

-----------------------------------------------------------------------------
(***************************************************************************)
(* Type correctness.                                                       *)
(***************************************************************************)

\* The functors after one more is queued, while the batch stays as it is.
LEMMA QueueType ==
    ASSUME TypeOK, UNCHANGED <<phase, batch>>,
           \/ pendingFunctors_' = pendingFunctors_
           \/ \E f \in Functor : pendingFunctors_' = Append(pendingFunctors_, f)
    PROVE  /\ pendingFunctors_' \in Seq(Functor)
           /\ batch' \in 0 .. Len(pendingFunctors_')
           /\ batch' > 0 => phase' = "functors"
<1>1. /\ pendingFunctors_ \in Seq(Functor)
      /\ batch \in 0 .. Len(pendingFunctors_) /\ (batch > 0 => phase = "functors")
    BY DEF TypeOK
<1>2. ASSUME NEW f \in Functor, pendingFunctors_' = Append(pendingFunctors_, f)
      PROVE  /\ pendingFunctors_' \in Seq(Functor)
             /\ Len(pendingFunctors_') = Len(pendingFunctors_) + 1
             /\ Len(pendingFunctors_) \in Nat
    BY <1>1, <1>2, AppendFacts, LenProperties
<1>3. QED
    BY <1>1, <1>2

\* Every step keeps every variable in its type.
LEMMA TypeStep == TypeOK /\ [Next]_vars => TypeOK'
<1> SUFFICES ASSUME TypeOK, [Next]_vars PROVE TypeOK'
    OBVIOUS
<1> USE DEF loopVars, connVars, serverVars, netVars
<1>1. ASSUME NEW t \in Thread, SendCheck(t) \/ ShutdownCheck(t) PROVE TypeOK'
    <2>1. CASE SendCheck(t)
        BY <2>1 DEF TypeOK, SendCheck, CallerAt
    <2>2. CASE ShutdownCheck(t)
        BY <2>2 DEF TypeOK, ShutdownCheck, CallerAt
    <2>3. QED
        BY <1>1, <2>1, <2>2
<1>2. ASSUME NEW t \in Thread, NEW m \in unsent, SendQueue(t, m) PROVE TypeOK'
    <2>1. m \in Functor
        BY DEF TypeOK, Functor
    <2>2. /\ UNCHANGED <<phase, batch>>
          /\ pendingFunctors_' = Append(pendingFunctors_, m)
        BY <1>2 DEF SendQueue
    <2>3. /\ pendingFunctors_' \in Seq(Functor)
          /\ batch' \in 0 .. Len(pendingFunctors_')
          /\ batch' > 0 => phase' = "functors"
        BY <2>1, <2>2, QueueType
    <2>4. QED
        BY <1>2, <2>3 DEF TypeOK, SendQueue, CallerAt
<1>3. ASSUME NEW t \in Thread, ShutdownSetState(t) PROVE TypeOK'
    BY <1>3 DEF TypeOK, ShutdownSetState, CallerAt
<1>4. ASSUME NEW t \in Thread, ShutdownQueue(t) PROVE TypeOK'
    <2>1. "shutdownInLoop" \in Functor
        BY DEF Functor
    <2>2. /\ UNCHANGED <<phase, batch>>
          /\ pendingFunctors_' = Append(pendingFunctors_, "shutdownInLoop")
        BY <1>4 DEF ShutdownQueue
    <2>3. /\ pendingFunctors_' \in Seq(Functor)
          /\ batch' \in 0 .. Len(pendingFunctors_')
          /\ batch' > 0 => phase' = "functors"
        BY <2>1, <2>2, QueueType
    <2>4. QED
        BY <1>4, <2>3 DEF TypeOK, ShutdownQueue, CallerAt
<1>5. ASSUME NEW m \in unsent, SendFromLoop(m) PROVE TypeOK'
    <2>1. m \in Message /\ pendingFunctors_ \in Seq(Functor)
        BY DEF TypeOK
    <2>2. /\ SendInLoop(m, pendingFunctors_)
          /\ UNCHANGED <<phase, callbacks, batch, state_, registered, serverVars,
                         finSent, peer, soError, caller>>
          /\ unsent' = unsent \ {m}
        BY <1>5 DEF SendFromLoop
    <2>3. /\ wire' \in Seq(Byte) /\ outputBuffer_' \in Seq(Byte)
          /\ accepted' \in Seq(Byte) /\ events_' \in SUBSET {"read", "write"}
          /\ aborted' \in {aborted, "updateChannel"}
          /\ \E all \in BOOLEAN : pendingFunctors_' = Notify(all, pendingFunctors_)
        BY <2>1, <2>2, SendFacts
    <2>4. /\ pendingFunctors_' \in Seq(Functor) /\ Len(pendingFunctors_) \in Nat
          /\ Len(pendingFunctors_') \in Nat
          /\ Len(pendingFunctors_) <= Len(pendingFunctors_')
        BY <2>1, <2>3, NotifyFacts
    <2>5. batch' \in 0 .. Len(pendingFunctors_') /\ (batch' > 0 => phase' = "functors")
        BY <2>2, <2>4 DEF TypeOK
    <2>6. QED
        BY <2>2, <2>3, <2>4, <2>5 DEF TypeOK
<1>6. CASE ShutdownFromLoop
    BY <1>6 DEF TypeOK, ShutdownFromLoop, ShutdownInLoop
<1>7. ASSUME NEW r \in BOOLEAN, NEW w \in BOOLEAN, Poll(r, w) PROVE TypeOK'
    <2>1. Callbacks(Revents(r, w)) \in Seq({"error", "close", "read", "write"})
        BY CallbacksFacts
    <2>2. callbacks' \in Seq({"error", "close", "read", "write"})
        BY <1>7, <2>1 DEF Poll
    <2>3. batch = 0
        BY <1>7 DEF TypeOK, Poll
    <2>4. QED
        BY <1>7, <2>2, <2>3 DEF TypeOK, Poll
<1>8. CASE HandleError \/ HandleReadError
    <2>1. callbacks' \in Seq({"error", "close", "read", "write"})
        BY <1>8, CallbackFacts DEF HandleError, HandleReadError
    <2>2. CASE HandleError
        BY <2>1, <2>2 DEF TypeOK, HandleError, Callback
    <2>3. CASE HandleReadError
        <3>1. /\ soError' \in BOOLEAN
              /\ UNCHANGED <<phase, batch, state_, sameLoop, caller, unsent,
                             accepted, pendingFunctors_, events_, registered,
                             outputBuffer_, connections_, removals, wire,
                             finSent, peer, aborted>>
            BY <2>3 DEF HandleReadError, Callback
        <3>2. QED
            BY <2>1, <3>1 DEF TypeOK
    <2>4. QED
        BY <1>8, <2>2, <2>3
<1>9. CASE HandleReadData \/ HandleWriteDown
    <2>1. callbacks' \in Seq({"error", "close", "read", "write"})
        BY <1>9, CallbackFacts DEF HandleReadData, HandleWriteDown
    <2>2. CASE HandleReadData
        BY <2>1, <2>2 DEF TypeOK, HandleReadData, Callback
    <2>3. CASE HandleWriteDown
        BY <2>1, <2>3 DEF TypeOK, HandleWriteDown, Callback
    <2>4. QED
        BY <1>9, <2>2, <2>3
<1>10. CASE HandleClose \/ HandleReadEnd
    <2>1. /\ \/ Callback("close") \/ Callback("read")
          /\ Close /\ UNCHANGED <<outputBuffer_, netVars>>
        BY <1>10 DEF HandleClose, HandleReadEnd
    <2>2. callbacks' \in Seq({"error", "close", "read", "write"})
        BY <2>1, CallbackFacts
    <2>3. /\ events_' = {} /\ registered' = "ignored"
          /\ connections_' \in BOOLEAN /\ removals' \in Nat
          /\ pendingFunctors_' \in {pendingFunctors_,
                                  Append(pendingFunctors_, "connectDestroyed")}
          /\ aborted' \in {aborted, "handleClose", "removeConnectionInLoop"}
        BY <2>1, CloseFacts
    <2>4. /\ UNCHANGED <<phase, batch, state_, sameLoop, caller, unsent, accepted>>
        BY <2>1 DEF Callback
    <2>5. /\ pendingFunctors_' \in Seq(Functor)
          /\ batch' \in 0 .. Len(pendingFunctors_')
          /\ batch' > 0 => phase' = "functors"
        BY <2>3, <2>4, QueueType DEF Functor
    <2>6. QED
        BY <2>1, <2>2, <2>3, <2>4, <2>5 DEF TypeOK
<1>11. ASSUME NEW n, HandleWrite(n) PROVE TypeOK'
    <2>1. /\ Callback("write")
          /\ UNCHANGED <<registered, connections_, removals, peer, soError, aborted>>
        BY <1>11 DEF HandleWrite
    <2>2. callbacks' \in Seq({"error", "close", "read", "write"})
        BY <2>1, CallbackFacts
    <2>3. /\ wire' \in Seq(Byte) /\ outputBuffer_' \in Seq(Byte)
          /\ events_' \in SUBSET {"read", "write"} /\ finSent' \in BOOLEAN
          /\ \/ pendingFunctors_' = pendingFunctors_
             \/ pendingFunctors_' = Append(pendingFunctors_, "writeComplete")
        BY <1>11, WriteFacts DEF Notify
    <2>4. UNCHANGED <<phase, batch, state_, sameLoop, caller, unsent, accepted>>
        BY <2>1 DEF Callback
    <2>5. /\ pendingFunctors_' \in Seq(Functor)
          /\ batch' \in 0 .. Len(pendingFunctors_')
          /\ batch' > 0 => phase' = "functors"
        BY <2>3, <2>4, QueueType DEF Functor
    <2>6. QED
        BY <2>1, <2>2, <2>3, <2>4, <2>5 DEF TypeOK
<1>12. CASE BeginDrain
    <2>1. Len(pendingFunctors_) \in Nat
        BY LenProperties DEF TypeOK
    <2>2. QED
        BY <1>12, <2>1 DEF TypeOK, BeginDrain
<1>13. CASE EndDrain
    BY <1>13 DEF TypeOK, EndDrain
<1>14. CASE ConnectEstablished
    BY <1>14, RunFacts DEF TypeOK, ConnectEstablished, RunFunctor
<1>15. CASE ConnectDestroyed
    BY <1>15, RunFacts DEF TypeOK, ConnectDestroyed, RunFunctor
<1>16. CASE ShutdownFunctor
    BY <1>16, RunFacts DEF TypeOK, ShutdownFunctor, ShutdownInLoop, RunFunctor
<1>17. CASE WriteComplete
    BY <1>17, RunFacts DEF TypeOK, WriteComplete, RunFunctor
<1>18. ASSUME NEW m \in Message, SendFunctor(m) PROVE TypeOK'
    <2> DEFINE tail == Tail(pendingFunctors_)
    <2>1. /\ RunFunctor(m) /\ SendInLoop(m, tail)
          /\ UNCHANGED <<state_, registered, finSent>>
        BY <1>18 DEF SendFunctor
    <2>2. /\ tail \in Seq(Functor) /\ batch' \in 0 .. Len(tail)
          /\ phase' = "functors"
        BY <2>1, RunFacts
    <2>3. UNCHANGED <<phase, callbacks, sameLoop, removals, connections_, peer,
                      soError, caller, unsent>>
        BY <2>1 DEF RunFunctor
    <2> HIDE DEF tail
    <2>4. /\ wire' \in Seq(Byte) /\ outputBuffer_' \in Seq(Byte)
          /\ accepted' \in Seq(Byte) /\ events_' \in SUBSET {"read", "write"}
          /\ aborted' \in {aborted, "updateChannel"}
          /\ \E all \in BOOLEAN : pendingFunctors_' = Notify(all, tail)
        BY <2>1, SendFacts
    <2>5. /\ pendingFunctors_' \in Seq(Functor) /\ Len(tail) \in Nat
          /\ Len(pendingFunctors_') \in Nat
          /\ Len(tail) <= Len(pendingFunctors_')
        BY <2>2, <2>4, NotifyFacts
    <2>6. batch' \in 0 .. Len(pendingFunctors_') /\ (batch' > 0 => phase' = "functors")
        BY <2>2, <2>5
    <2>7. QED
        BY <2>1, <2>3, <2>4, <2>5, <2>6 DEF TypeOK
<1>19. CASE RemoveFunctor
    <2>1. "connectDestroyed" \in Functor
        BY DEF Functor
    <2>2. /\ UNCHANGED <<phase, batch>>
          /\ pendingFunctors_' = Append(pendingFunctors_, "connectDestroyed")
        BY <1>19 DEF RemoveFunctor, RemoveConnectionInLoop
    <2>3. /\ pendingFunctors_' \in Seq(Functor)
          /\ batch' \in 0 .. Len(pendingFunctors_')
          /\ batch' > 0 => phase' = "functors"
        BY <2>1, <2>2, QueueType
    <2>4. removals' \in Nat /\ connections_' \in BOOLEAN
        <3>1. removals > 0 /\ removals' = removals - 1 /\ connections_' = FALSE
            BY <1>19 DEF RemoveFunctor, RemoveConnectionInLoop
        <3>2. removals \in Nat
            BY DEF TypeOK
        <3>3. removals' \in Nat
            BY <3>1, <3>2
        <3>4. connections_' \in BOOLEAN
            BY <3>1
        <3>5. QED
            BY <3>3, <3>4
    <2>5. /\ aborted' \in {aborted, "removeConnectionInLoop"}
          /\ UNCHANGED <<callbacks, state_, events_, registered, outputBuffer_,
                         sameLoop, wire, finSent, peer, soError, caller, unsent,
                         accepted>>
        BY <1>19 DEF RemoveFunctor, RemoveConnectionInLoop
    <2>6. QED
        BY <2>2, <2>3, <2>4, <2>5 DEF TypeOK
<1>20. CASE PeerCloses \/ PeerResets
    <2>1. CASE PeerCloses
        BY <2>1 DEF TypeOK, PeerCloses
    <2>2. CASE PeerResets
        BY <2>2 DEF TypeOK, PeerResets
    <2>3. QED
        BY <1>20, <2>1, <2>2
<1>21. CASE UNCHANGED vars
    BY <1>21 DEF TypeOK, vars
<1>22. QED
    BY <1>1, <1>2, <1>3, <1>4, <1>5, <1>6, <1>7, <1>8, <1>9, <1>10, <1>11, <1>12,
       <1>13, <1>14, <1>15, <1>16, <1>17, <1>18, <1>19, <1>20, <1>21
       DEF Next, LoopStep, WriteStep, User, UserStep

\* No more is needed than what Init says.
LEMMA TypeInit == Init => TypeOK
<1> SUFFICES ASSUME Init PROVE TypeOK
    OBVIOUS
<1>1. <<"connectEstablished">> \in Seq(Functor) /\ <<>> \in Seq(Functor)
    BY DEF Functor
<1>2. pendingFunctors_ \in {<<>>, <<"connectEstablished">>}
    BY DEF Init
<1>3. pendingFunctors_ \in Seq(Functor) /\ Len(pendingFunctors_) \in Nat
    BY <1>1, <1>2, LenProperties
<1>4. /\ outputBuffer_ \in Seq(Byte) /\ wire \in Seq(Byte)
      /\ accepted \in Seq(Byte)
      /\ callbacks \in Seq({"error", "close", "read", "write"})
    BY EmptySeq DEF Init
<1>5. /\ state_ \in {"kConnecting", "kConnected"}
      /\ events_ \in SUBSET {"read", "write"}
      /\ registered \in {"no", "yes"} /\ phase \in {"poll", "dispatch"}
    BY DEF Init
<1>6. /\ sameLoop \in BOOLEAN /\ connections_ \in BOOLEAN
      /\ finSent \in BOOLEAN /\ soError \in BOOLEAN
    BY DEF Init
<1>7. /\ batch = 0 /\ removals = 0 /\ aborted = "no" /\ peer = "open"
      /\ unsent = Message /\ caller = [t \in Thread |-> "idle"]
    BY DEF Init
<1>8. QED
    BY <1>3, <1>4, <1>5, <1>6, <1>7 DEF TypeOK

\* TypeOK.  Every variable has its type, whatever the threads, the loops and the
\* peer do; no batch is longer than what is pending, and none is left when the
\* loop goes round.
THEOREM Typing == Spec => []TypeOK
BY TypeInit, TypeStep, PTL DEF Spec

-----------------------------------------------------------------------------
(***************************************************************************)
(* The byte stream.                                                        *)
(***************************************************************************)

\* Only sendInLoop and handleWrite touch the bytes.
LEMMA StreamSteps ==
    ASSUME TypeOK, Next
    PROVE  \/ UNCHANGED <<wire, outputBuffer_, accepted>>
           \/ \E m \in unsent : SendInLoop(m, pendingFunctors_)
           \/ \E m \in Message : SendInLoop(m, Tail(pendingFunctors_))
           \/ \E n \in 0 .. Len(outputBuffer_) : HandleWrite(n)
<1> USE DEF loopVars, connVars, serverVars, netVars
<1>1. ASSUME NEW t \in Thread, User(t)
      PROVE  UNCHANGED <<wire, outputBuffer_, accepted>>
    BY <1>1 DEF User, UserStep, SendCheck, ShutdownCheck, SendQueue,
                ShutdownSetState, ShutdownQueue
<1>2. ASSUME NEW m \in unsent, SendFromLoop(m)
      PROVE  SendInLoop(m, pendingFunctors_)
    BY <1>2 DEF SendFromLoop
<1>3. ASSUME NEW m \in Message, SendFunctor(m)
      PROVE  SendInLoop(m, Tail(pendingFunctors_))
    BY <1>3 DEF SendFunctor
<1>4. ASSUME \/ ShutdownFromLoop \/ RemoveFunctor \/ PeerCloses \/ PeerResets
             \/ \E r, w \in BOOLEAN : Poll(r, w)
             \/ BeginDrain \/ EndDrain
      PROVE  UNCHANGED <<wire, outputBuffer_, accepted>>
    BY <1>4 DEF ShutdownFromLoop, RemoveFunctor, PeerCloses, PeerResets, Poll,
                BeginDrain, EndDrain
<1>5. ASSUME \/ HandleError \/ HandleClose \/ HandleReadError
             \/ HandleReadData \/ HandleReadEnd \/ HandleWriteDown
      PROVE  UNCHANGED <<wire, outputBuffer_, accepted>>
    BY <1>5 DEF HandleError, HandleClose, HandleReadError, HandleReadData,
                HandleReadEnd, HandleWriteDown, Callback
<1>6. ASSUME \/ ConnectEstablished \/ ConnectDestroyed \/ ShutdownFunctor
             \/ WriteComplete
      PROVE  UNCHANGED <<wire, outputBuffer_, accepted>>
    BY <1>6 DEF ConnectEstablished, ConnectDestroyed, ShutdownFunctor,
                WriteComplete
<1>7. UNCHANGED vars => UNCHANGED <<wire, outputBuffer_, accepted>>
    BY DEF vars
<1>8. ASSUME NEW n, n = 0 \/ n \in 1 .. Len(outputBuffer_), HandleWrite(n)
      PROVE  \E k \in 0 .. Len(outputBuffer_) : HandleWrite(k)
    BY <1>8, LenProperties DEF TypeOK
<1>9. QED
    BY <1>1, <1>2, <1>3, <1>4, <1>5, <1>6, <1>7, <1>8
       DEF Next, LoopStep, WriteStep

\* Every step keeps the stream as it is.
LEMMA StreamStep == TypeOK /\ StreamIntact /\ [Next]_vars => StreamIntact'
<1> SUFFICES ASSUME TypeOK, StreamIntact, [Next]_vars PROVE StreamIntact'
    OBVIOUS
<1>1. CASE UNCHANGED <<wire, outputBuffer_, accepted>>
    BY <1>1 DEF StreamIntact
<1>2. ASSUME NEW m \in unsent, SendInLoop(m, pendingFunctors_)
      PROVE  StreamIntact'
    BY <1>2, SendFacts DEF TypeOK
<1>3. ASSUME NEW m \in Message, SendInLoop(m, Tail(pendingFunctors_))
      PROVE  StreamIntact'
    BY <1>3, SendFacts
<1>4. ASSUME NEW n \in 0 .. Len(outputBuffer_), HandleWrite(n)
      PROVE  StreamIntact'
    BY <1>4, WriteFacts
<1>5. CASE UNCHANGED vars
    BY <1>5 DEF StreamIntact, vars, connVars, netVars
<1>6. QED
    BY <1>1, <1>2, <1>3, <1>4, <1>5, StreamSteps

\* StreamIntact.  Whoever sends, from which thread, and however little write()
\* takes at a time: the wire and outputBuffer_ together hold what was given to
\* sendInLoop, in that order.
THEOREM StreamAlwaysIntact == Spec => []StreamIntact
<1>1. Init => StreamIntact
    BY DEF Init, StreamIntact
<1>2. QED
    BY <1>1, StreamStep, Typing, PTL DEF Spec

-----------------------------------------------------------------------------
(***************************************************************************)
(* The connection's life.                                                  *)
(***************************************************************************)

\* Before connectEstablished has run, nothing happens but that the loop gets to
\* it, and that the peer goes.
LEMMA NewSteps ==
    ASSUME TypeOK, NewInv, Next, registered = "no"
    PROVE  \/ ConnectEstablished
           \/ /\ UNCHANGED <<connVars, pendingFunctors_, connections_, removals,
                             caller, aborted>>
              /\ callbacks' = <<>>
<1> USE DEF loopVars, connVars, serverVars, netVars
<1> DEFINE Quiet == /\ UNCHANGED <<connVars, pendingFunctors_, connections_,
                                   removals, caller, aborted>>
                    /\ callbacks' = <<>>
<1>1. /\ state_ = "kConnecting" /\ events_ = {} /\ callbacks = <<>>
      /\ pendingFunctors_ = <<"connectEstablished">> /\ removals = 0
      /\ \A t \in Thread : caller[t] = "idle"
    BY DEF NewInv
<1>2. Head(pendingFunctors_) = "connectEstablished"
    BY <1>1
<1>3. ~\E t \in Thread : User(t)
    BY <1>1 DEF User, UserStep, SendCheck, ShutdownCheck, SendQueue,
                ShutdownSetState, ShutdownQueue, CallerAt
<1>4. ~ShutdownFromLoop /\ ~RemoveFunctor /\ ~\E m \in unsent : SendFromLoop(m)
    BY <1>1 DEF ShutdownFromLoop, RemoveFunctor, SendFromLoop
<1>5. ASSUME NEW name PROVE ~Callback(name)
    BY <1>1 DEF Callback
<1>6. ~\/ HandleError \/ HandleClose \/ HandleReadError \/ HandleReadData
       \/ HandleReadEnd \/ HandleWriteDown \/ \E n : HandleWrite(n)
    BY <1>5 DEF HandleError, HandleClose, HandleReadError, HandleReadData,
                HandleReadEnd, HandleWriteDown, HandleWrite
<1>7. ~\/ ConnectDestroyed \/ ShutdownFunctor \/ WriteComplete
       \/ \E m \in Message : SendFunctor(m)
    BY <1>2, ConstantsAssumption
       DEF ConnectDestroyed, ShutdownFunctor, WriteComplete, SendFunctor, RunFunctor
<1>8. ASSUME PeerCloses \/ PeerResets \/ BeginDrain \/ EndDrain
      PROVE  Quiet
    BY <1>1, <1>8 DEF PeerCloses, PeerResets, BeginDrain, EndDrain
<1>9. ASSUME NEW r \in BOOLEAN, NEW w \in BOOLEAN, Poll(r, w) PROVE Quiet
    BY <1>9 DEF Poll
<1>10. ASSUME UNCHANGED vars PROVE Quiet
    BY <1>1, <1>10 DEF vars
<1>11. QED
    BY <1>3, <1>4, <1>6, <1>7, <1>8, <1>9, <1>10 DEF Next, LoopStep, WriteStep

\* What is pending when something else than connectDestroyed or
\* connectEstablished is queued or run: of these two, the same.
LEMMA QuietLife ==
    ASSUME TypeOK, LifeInv, UNCHANGED <<registered, connections_, removals>>,
           state_' \in {state_, "kDisconnecting"},
           Once(pendingFunctors_', "connectDestroyed"),
           "connectDestroyed" \in Range(pendingFunctors_')
               <=> "connectDestroyed" \in Range(pendingFunctors_),
           "connectEstablished" \in Range(pendingFunctors_')
               => "connectEstablished" \in Range(pendingFunctors_)
    PROVE  LifeInv'
BY DEF LifeInv

\* The functors that are neither.
Other == Functor \ {"connectEstablished", "connectDestroyed"}

LEMMA OtherFunctors ==
    /\ Message \subseteq Other
    /\ "shutdownInLoop" \in Other /\ "writeComplete" \in Other
BY ConstantsAssumption DEF Other, Functor

\* Another functor is queued.
LEMMA OtherQueued ==
    ASSUME TypeOK, LifeInv, NEW f \in Other,
           pendingFunctors_' = Append(pendingFunctors_, f),
           UNCHANGED <<state_, registered, connections_, removals>>
    PROVE  LifeInv'
<1>1. /\ pendingFunctors_ \in Seq(Functor) /\ f \in Functor
      /\ f # "connectEstablished" /\ f # "connectDestroyed"
    BY DEF TypeOK, Other
<1>2. /\ Range(pendingFunctors_') = Range(pendingFunctors_) \cup {f}
      /\ Once(pendingFunctors_', "connectDestroyed")
    BY <1>1, AppendFacts DEF LifeInv
<1>3. QED
    BY <1>1, <1>2, QuietLife

\* Another functor is run, and leaves the write-complete callback or nothing.
LEMMA OtherRun ==
    ASSUME TypeOK, LifeInv, NEW f \in Other, RunFunctor(f), NEW all,
           pendingFunctors_' = Notify(all, Tail(pendingFunctors_)),
           UNCHANGED <<state_, registered>>
    PROVE  LifeInv'
<1> DEFINE tail == Tail(pendingFunctors_)
<1>1. /\ pendingFunctors_ \in Seq(Functor) /\ pendingFunctors_ # <<>>
      /\ Head(pendingFunctors_) = f /\ tail \in Seq(Functor)
    BY RunFacts DEF TypeOK
<1>2. f # "connectEstablished" /\ f # "connectDestroyed"
    BY DEF Other
<1>3. UNCHANGED <<connections_, removals>>
    BY DEF RunFunctor
<1>4. /\ Range(pendingFunctors_) = Range(tail) \cup {f}
      /\ Once(tail, "connectDestroyed")
    BY <1>1, TailFacts DEF LifeInv
<1>5. pendingFunctors_' = Notify(all, tail)
    OBVIOUS
<1> HIDE DEF tail
<1>6. /\ Range(tail) \subseteq Range(pendingFunctors_')
      /\ Range(pendingFunctors_') \subseteq Range(tail) \cup {"writeComplete"}
      /\ Once(pendingFunctors_', "connectDestroyed")
    BY <1>1, <1>4, <1>5, NotifyFacts
<1>7. QED
    BY <1>2, <1>3, <1>4, <1>6, QuietLife

\* The removal begins, in one of the two ways.
LEMMA CloseLife ==
    ASSUME TypeOK, LifeInv, registered = "yes", Close, UNCHANGED state_
    PROVE  LifeInv' /\ UNCHANGED aborted
<1>1. /\ state_ \in {"kConnected", "kDisconnecting"} /\ connections_ /\ removals = 0
      /\ "connectDestroyed" \notin Range(pendingFunctors_)
      /\ "connectEstablished" \notin Range(pendingFunctors_)
      /\ Once(pendingFunctors_, "connectDestroyed")
    BY DEF LifeInv
<1>2. registered' = "ignored"
    BY DEF Close, Disable
<1>3. CASE sameLoop
    <2>1. /\ connections_' = FALSE /\ UNCHANGED <<aborted, removals>>
          /\ pendingFunctors_' = Append(pendingFunctors_, "connectDestroyed")
        BY <1>1, <1>3 DEF Close, RemoveConnectionInLoop
    <2>2. "connectDestroyed" \in Functor /\ pendingFunctors_ \in Seq(Functor)
        BY DEF Functor, TypeOK
    <2>3. /\ Range(pendingFunctors_')
                = Range(pendingFunctors_) \cup {"connectDestroyed"}
          /\ Once(pendingFunctors_', "connectDestroyed")
        BY <1>1, <2>1, <2>2, AppendFacts
    <2>4. QED
        BY <1>1, <1>2, <2>1, <2>3 DEF LifeInv
<1>4. CASE ~sameLoop
    <2>1. removals' = 1 /\ UNCHANGED <<connections_, aborted, pendingFunctors_>>
        BY <1>1, <1>4 DEF Close
    <2>2. QED
        BY <1>1, <1>2, <2>1 DEF LifeInv
<1>5. QED
    BY <1>3, <1>4

\* The base loop removes the connection.
LEMMA RemoveLife ==
    ASSUME TypeOK, LifeInv, RemoveFunctor
    PROVE  LifeInv' /\ UNCHANGED aborted
<1>1. /\ removals > 0 /\ removals' = removals - 1 /\ connections_' = FALSE
      /\ pendingFunctors_' = Append(pendingFunctors_, "connectDestroyed")
      /\ UNCHANGED <<state_, registered>>
    BY DEF RemoveFunctor, RemoveConnectionInLoop, connVars
<1>2. /\ registered = "ignored" /\ connections_ /\ removals = 1
      /\ "connectDestroyed" \notin Range(pendingFunctors_)
      /\ "connectEstablished" \notin Range(pendingFunctors_)
      /\ state_ \in {"kConnected", "kDisconnecting"}
      /\ Once(pendingFunctors_, "connectDestroyed")
    BY <1>1 DEF LifeInv
<1>3. "connectDestroyed" \in Functor /\ pendingFunctors_ \in Seq(Functor)
    BY DEF Functor, TypeOK
<1>4. /\ Range(pendingFunctors_')
            = Range(pendingFunctors_) \cup {"connectDestroyed"}
      /\ Once(pendingFunctors_', "connectDestroyed")
    BY <1>1, <1>2, <1>3, AppendFacts
<1>5. UNCHANGED aborted
    BY <1>2 DEF RemoveFunctor, RemoveConnectionInLoop
<1>6. QED
    BY <1>1, <1>2, <1>4, <1>5 DEF LifeInv

\* The connection's loop destroys it.
LEMMA DestroyLife ==
    ASSUME TypeOK, LifeInv, ConnectDestroyed
    PROVE  LifeInv' /\ UNCHANGED aborted /\ registered = "ignored"
<1> DEFINE tail == Tail(pendingFunctors_)
<1>1. /\ RunFunctor("connectDestroyed") /\ pendingFunctors_' = tail
      /\ registered' = "removed" /\ UNCHANGED <<connections_, removals>>
    BY DEF ConnectDestroyed, RunFunctor
<1>2. /\ pendingFunctors_ \in Seq(Functor) /\ pendingFunctors_ # <<>>
      /\ Head(pendingFunctors_) = "connectDestroyed"
    BY <1>1, RunFacts DEF TypeOK
<1>3. /\ Range(pendingFunctors_) = Range(tail) \cup {"connectDestroyed"}
      /\ Once(tail, "connectDestroyed")
      /\ "connectDestroyed" \notin Range(tail)
    BY <1>2, TailFacts DEF LifeInv
<1> HIDE DEF tail
<1>4. /\ registered = "ignored" /\ ~connections_ /\ removals = 0
      /\ state_ \in {"kConnected", "kDisconnecting"}
      /\ "connectEstablished" \notin Range(pendingFunctors_)
    BY <1>3 DEF LifeInv
<1>5. UNCHANGED aborted
    BY <1>4 DEF ConnectDestroyed
<1>6. QED
    BY <1>1, <1>3, <1>4, <1>5 DEF LifeInv

\* The connection's loop establishes it.
LEMMA EstablishLife ==
    ASSUME TypeOK, NewInv, LifeInv, ConnectEstablished
    PROVE  /\ LifeInv' /\ UNCHANGED aborted /\ registered = "no"
           /\ UNCHANGED callbacks /\ callbacks = <<>>
<1>1. /\ RunFunctor("connectEstablished")
      /\ pendingFunctors_' = Tail(pendingFunctors_)
      /\ registered' = "yes" /\ state_' = "kConnected"
      /\ UNCHANGED <<connections_, removals, callbacks>>
    BY DEF ConnectEstablished, RunFunctor
<1>2. /\ pendingFunctors_ \in Seq(Functor) /\ pendingFunctors_ # <<>>
      /\ Head(pendingFunctors_) = "connectEstablished"
    BY <1>1, RunFacts DEF TypeOK
<1>3. registered = "no"
    BY <1>2, TailFacts DEF LifeInv
<1>4. /\ pendingFunctors_ = <<"connectEstablished">> /\ state_ = "kConnecting"
      /\ callbacks = <<>> /\ connections_ /\ removals = 0
    BY <1>3 DEF NewInv
<1>5. pendingFunctors_' = <<>> /\ Range(<<>>) = {}
    BY <1>1, <1>4 DEF Range
<1>6. Once(<<>>, "connectDestroyed")
    BY DEF Once
<1>7. UNCHANGED aborted
    BY <1>4 DEF ConnectEstablished
<1>8. QED
    BY <1>1, <1>3, <1>4, <1>5, <1>6, <1>7 DEF LifeInv

\* The list of callbacks gets shorter.
LEMMA CallbacksTail ==
    ASSUME TypeOK, CallbacksInv, NEW name, Callback(name)
    PROVE  /\ UNCHANGED registered => CallbacksInv'
           /\ name \in {"close", "read"} => CallbacksInv' /\ registered = "yes"
<1> DEFINE Name == {"error", "close", "read", "write"}
           tail == Tail(callbacks)
<1>1. callbacks \in Seq(Name) /\ callbacks # <<>> /\ Head(callbacks) = name
    BY DEF TypeOK, Callback
<1>2. callbacks' = tail
    BY DEF Callback
<1>3. /\ Len(callbacks) \in Nat \ {0} /\ DOMAIN callbacks = 1 .. Len(callbacks)
      /\ tail \in Seq(Name) /\ Len(tail) = Len(callbacks) - 1
      /\ \A k \in 1 .. Len(callbacks) - 1 : tail[k] = callbacks[k + 1]
      /\ callbacks[1] = name
    BY <1>1, TailFacts, LenProperties
<1>4. DOMAIN tail = 1 .. Len(callbacks) - 1
    BY <1>3, LenProperties
<1> HIDE DEF tail
<1>5. ASSUME NEW i \in DOMAIN tail, tail[i] \in {"close", "read"}
      PROVE  /\ registered = "yes"
             /\ \A j \in DOMAIN tail : i < j => tail[j] = "write"
    <2>1. i + 1 \in DOMAIN callbacks /\ callbacks[i + 1] \in {"close", "read"}
        BY <1>3, <1>4, <1>5
    <2>2. /\ registered = "yes"
          /\ \A j \in DOMAIN callbacks : i + 1 < j => callbacks[j] = "write"
        BY <2>1 DEF CallbacksInv
    <2>3. ASSUME NEW j \in DOMAIN tail, i < j PROVE tail[j] = "write"
        <3>1. j + 1 \in DOMAIN callbacks /\ i + 1 < j + 1 /\ tail[j] = callbacks[j + 1]
            BY <1>3, <1>4, <2>3
        <3>2. QED
            BY <2>2, <3>1
    <2>4. QED
        BY <2>2, <2>3
<1>6. UNCHANGED registered => CallbacksInv'
    BY <1>2, <1>5 DEF CallbacksInv
<1>7. ASSUME name \in {"close", "read"}
      PROVE  CallbacksInv' /\ registered = "yes"
    <2>1. 1 \in DOMAIN callbacks /\ callbacks[1] \in {"close", "read"}
        BY <1>3, <1>7
    <2>2. /\ registered = "yes"
          /\ \A j \in DOMAIN callbacks : 1 < j => callbacks[j] = "write"
        BY <2>1 DEF CallbacksInv
    <2>3. ASSUME NEW i \in DOMAIN tail PROVE tail[i] = "write"
        <3>1. i + 1 \in DOMAIN callbacks /\ 1 < i + 1 /\ tail[i] = callbacks[i + 1]
            BY <1>3, <1>4
        <3>2. QED
            BY <2>2, <3>1
    <2>4. QED
        BY <1>2, <2>2, <2>3 DEF CallbacksInv
<1>8. QED
    BY <1>6, <1>7

\* What a step of a connection that is established does to its life: most leave
\* the channel's registration as it is, and no assertion of the removal fails.
LEMMA LifeSteps ==
    ASSUME TypeOK, LifeInv, CallbacksInv, [Next]_vars, registered # "no"
    PROVE  /\ LifeInv' /\ CallbacksInv'
           /\ registered' # "no" /\ aborted' \in {aborted, "updateChannel"}
<1> USE DEF loopVars, connVars, serverVars, netVars
<1> DEFINE Goal == /\ LifeInv' /\ CallbacksInv'
                   /\ registered' # "no" /\ aborted' \in {aborted, "updateChannel"}
<1>1. ASSUME UNCHANGED <<registered, connections_, removals, pendingFunctors_>>,
             state_' \in {state_, "kDisconnecting"}
      PROVE  LifeInv'
    BY <1>1, QuietLife DEF LifeInv
<1>2. ASSUME UNCHANGED <<registered, callbacks>>
      PROVE  CallbacksInv'
    BY <1>2 DEF CallbacksInv
<1>3. ASSUME NEW t \in Thread, SendCheck(t) \/ ShutdownCheck(t) PROVE Goal
    BY <1>1, <1>2, <1>3 DEF SendCheck, ShutdownCheck
<1>4. ASSUME NEW t \in Thread, NEW m \in unsent, SendQueue(t, m) PROVE Goal
    <2>1. m \in Other
        BY OtherFunctors DEF TypeOK
    <2>2. LifeInv'
        BY <1>4, <2>1, OtherQueued DEF SendQueue
    <2>3. QED
        BY <1>2, <1>4, <2>2 DEF SendQueue
<1>5. ASSUME NEW t \in Thread, ShutdownSetState(t) PROVE Goal
    BY <1>1, <1>2, <1>5 DEF ShutdownSetState
<1>6. ASSUME NEW t \in Thread, ShutdownQueue(t) PROVE Goal
    <2>1. LifeInv'
        BY <1>6, OtherQueued, OtherFunctors DEF ShutdownQueue
    <2>2. QED
        BY <1>2, <1>6, <2>1 DEF ShutdownQueue
<1>7. ASSUME NEW m \in unsent, SendFromLoop(m) PROVE Goal
    <2>1. /\ SendInLoop(m, pendingFunctors_) /\ m \in Message
          /\ UNCHANGED <<callbacks, state_, registered, connections_, removals>>
        BY <1>7 DEF SendFromLoop, TypeOK
    <2>2. PICK all \in BOOLEAN : pendingFunctors_' = Notify(all, pendingFunctors_)
        BY <2>1, SendFacts
    <2>3. LifeInv'
        <3>1. CASE all
            BY <2>1, <2>2, <3>1, OtherQueued, OtherFunctors DEF Notify
        <3>2. CASE ~all
            BY <1>1, <2>1, <2>2, <3>2 DEF Notify
        <3>3. QED
            BY <3>1, <3>2
    <2>4. aborted' \in {aborted, "updateChannel"}
        BY <2>1, SendFacts
    <2>5. QED
        BY <1>2, <2>1, <2>3, <2>4
<1>8. CASE ShutdownFromLoop
    BY <1>1, <1>2, <1>8 DEF ShutdownFromLoop
<1>9. ASSUME NEW r \in BOOLEAN, NEW w \in BOOLEAN, Poll(r, w) PROVE Goal
    <2>1. UNCHANGED <<registered, connections_, removals, pendingFunctors_, state_,
                      aborted>>
        BY <1>9 DEF Poll
    <2> DEFINE list == Callbacks(Revents(r, w))
    <2>2. \A i, j \in DOMAIN list :
              i < j /\ list[i] \in {"close", "read"} => list[j] = "write"
        BY CallbacksFacts
    <2>3. callbacks' = IF registered = "yes" THEN list ELSE <<>>
        BY <1>9 DEF Poll
    <2> HIDE DEF list
    <2>4. CallbacksInv'
        <3>1. CASE registered = "yes"
            BY <2>1, <2>2, <2>3, <3>1 DEF CallbacksInv
        <3>2. CASE registered # "yes"
            <4>1. callbacks' = <<>> /\ DOMAIN <<>> = {}
                BY <2>3, <3>2
            <4>2. QED
                BY <4>1 DEF CallbacksInv
        <3>3. QED
            BY <3>1, <3>2
    <2>5. QED
        BY <1>1, <2>1, <2>4
<1>10. CASE HandleError \/ HandleReadError \/ HandleReadData \/ HandleWriteDown
    <2>1. /\ \E name : Callback(name)
          /\ UNCHANGED <<registered, connections_, removals, pendingFunctors_, state_,
                         aborted>>
        BY <1>10 DEF HandleError, HandleReadError, HandleReadData, HandleWriteDown,
                     Callback
    <2>2. QED
        BY <1>1, <2>1, CallbacksTail
<1>11. CASE HandleClose \/ HandleReadEnd
    <2>1. PICK name \in {"close", "read"} : Callback(name)
        BY <1>11 DEF HandleClose, HandleReadEnd
    <2>2. Close /\ UNCHANGED state_
        BY <1>11, <2>1 DEF HandleClose, HandleReadEnd, Callback
    <2>3. CallbacksInv' /\ registered = "yes"
        BY <2>1, CallbacksTail
    <2>4. LifeInv' /\ UNCHANGED aborted
        BY <2>2, <2>3, CloseLife
    <2>5. registered' # "no"
        BY <2>2 DEF Close, Disable
    <2>6. QED
        BY <2>3, <2>4, <2>5
<1>12. ASSUME NEW n, HandleWrite(n) PROVE Goal
    <2>1. /\ Callback("write")
          /\ UNCHANGED <<registered, connections_, removals, state_, aborted>>
        BY <1>12 DEF HandleWrite, Callback
    <2>2. CallbacksInv'
        BY <2>1, CallbacksTail
    <2>3. CASE pendingFunctors_' = pendingFunctors_
        BY <1>1, <2>1, <2>2, <2>3
    <2>4. CASE pendingFunctors_' = Append(pendingFunctors_, "writeComplete")
        BY <2>1, <2>2, <2>4, OtherQueued, OtherFunctors
    <2>5. QED
        BY <1>12, <2>3, <2>4, WriteFacts DEF Notify
<1>13. CASE BeginDrain \/ EndDrain
    BY <1>1, <1>2, <1>13 DEF BeginDrain, EndDrain
<1>14. CASE ConnectDestroyed
    <2>1. LifeInv' /\ UNCHANGED aborted /\ registered = "ignored"
        BY <1>14, DestroyLife
    <2>2. UNCHANGED callbacks /\ registered' # "no"
        BY <1>14 DEF ConnectDestroyed, RunFunctor
    <2>3. CallbacksInv'
        BY <2>1, <2>2 DEF CallbacksInv
    <2>4. QED
        BY <2>1, <2>2, <2>3
<1>15. CASE ConnectEstablished
    <2>1. "connectEstablished" \in Range(pendingFunctors_)
        BY <1>15, RunFacts, TailFacts DEF ConnectEstablished, TypeOK
    <2>2. QED
        BY <2>1 DEF LifeInv
<1>16. CASE ShutdownFunctor \/ WriteComplete
    <2>1. PICK f \in Other :
              /\ RunFunctor(f) /\ pendingFunctors_' = Notify(FALSE, Tail(pendingFunctors_))
              /\ UNCHANGED <<state_, registered, aborted>>
        BY <1>16, OtherFunctors DEF ShutdownFunctor, WriteComplete, Notify
    <2>2. LifeInv'
        BY <2>1, OtherRun
    <2>3. UNCHANGED callbacks
        BY <2>1 DEF RunFunctor
    <2>4. QED
        BY <1>2, <2>1, <2>2, <2>3
<1>17. ASSUME NEW m \in Message, SendFunctor(m) PROVE Goal
    <2>1. /\ RunFunctor(m) /\ SendInLoop(m, Tail(pendingFunctors_))
          /\ UNCHANGED <<state_, registered, callbacks>> /\ m \in Other
        BY <1>17, OtherFunctors DEF SendFunctor, RunFunctor
    <2>2. PICK all \in BOOLEAN : pendingFunctors_' = Notify(all, Tail(pendingFunctors_))
        BY <2>1, SendFacts
    <2>3. LifeInv'
        BY <2>1, <2>2, OtherRun
    <2>4. aborted' \in {aborted, "updateChannel"}
        BY <2>1, SendFacts
    <2>5. QED
        BY <1>2, <2>1, <2>3, <2>4
<1>18. CASE RemoveFunctor
    <2>1. LifeInv' /\ UNCHANGED aborted
        BY <1>18, RemoveLife
    <2>2. UNCHANGED <<registered, callbacks>>
        BY <1>18 DEF RemoveFunctor
    <2>3. QED
        BY <1>2, <2>1, <2>2
<1>19. CASE PeerCloses \/ PeerResets
    BY <1>1, <1>2, <1>19 DEF PeerCloses, PeerResets
<1>20. CASE UNCHANGED vars
    BY <1>1, <1>2, <1>20 DEF vars
<1>21. QED
    BY <1>3, <1>4, <1>5, <1>6, <1>7, <1>8, <1>9, <1>10, <1>11, <1>12,
       <1>13, <1>14, <1>15, <1>16, <1>17, <1>18, <1>19, <1>20
       DEF Next, LoopStep, WriteStep, User, UserStep

\* Before connectEstablished has run its premises last.
LEMMA NewStep ==
    ASSUME TypeOK, NewInv, LifeInv, CallbacksInv, [Next]_vars, registered = "no"
    PROVE  /\ NewInv' /\ LifeInv' /\ CallbacksInv' /\ WritingMatchesData'
           /\ UNCHANGED aborted
<1>1. CASE ConnectEstablished
    <2>1. /\ LifeInv' /\ UNCHANGED aborted /\ callbacks' = <<>>
        BY <1>1, EstablishLife
    <2>2. /\ registered' = "yes" /\ events_' = {"read"} /\ outputBuffer_' = <<>>
        BY <1>1 DEF ConnectEstablished, NewInv
    <2>3. DOMAIN <<>> = {}
        OBVIOUS
    <2>4. CallbacksInv'
        BY <2>1, <2>3 DEF CallbacksInv
    <2>5. QED
        BY <2>1, <2>2, <2>4 DEF NewInv, WritingMatchesData, isWriting
<1>2. CASE /\ UNCHANGED <<connVars, pendingFunctors_, connections_, removals, caller,
                          aborted>>
           /\ callbacks' = <<>>
    <2>1. UNCHANGED <<state_, events_, registered, outputBuffer_>>
        BY <1>2 DEF connVars
    <2>2. NewInv'
        BY <1>2, <2>1 DEF NewInv
    <2>3. LifeInv'
        BY <1>2, <2>1 DEF LifeInv
    <2>4. DOMAIN <<>> = {}
        OBVIOUS
    <2>5. CallbacksInv'
        BY <1>2, <2>4 DEF CallbacksInv
    <2>6. QED
        BY <1>2, <2>1, <2>2, <2>3, <2>5 DEF WritingMatchesData
<1>3. CASE UNCHANGED vars
    <2>1. /\ UNCHANGED <<connVars, pendingFunctors_, connections_, removals, caller,
                         aborted>>
          /\ callbacks' = <<>>
        BY <1>3 DEF vars, loopVars, serverVars, NewInv
    <2>2. QED
        BY <1>2, <2>1
<1>4. QED
    BY <1>1, <1>2, <1>3, NewSteps

\* What a step of a connection that is established does to the channel's events and
\* the bytes that wait.
LEMMA WritingSteps ==
    ASSUME TypeOK, Next
    PROVE  \/ UNCHANGED <<events_, registered, outputBuffer_>>
           \/ registered' # "yes" \/ ConnectEstablished
           \/ /\ UNCHANGED registered
              /\ \/ \E m \in unsent : SendInLoop(m, pendingFunctors_)
                 \/ \E m \in Message : SendInLoop(m, Tail(pendingFunctors_))
                 \/ \E n \in 0 .. Len(outputBuffer_) : HandleWrite(n)
<1> USE DEF loopVars, connVars, serverVars, netVars
<1>1. ASSUME NEW t \in Thread, User(t)
      PROVE  UNCHANGED <<events_, registered, outputBuffer_>>
    BY <1>1 DEF User, UserStep, SendCheck, ShutdownCheck, SendQueue,
                ShutdownSetState, ShutdownQueue
<1>2. ASSUME NEW m \in unsent, SendFromLoop(m)
      PROVE  SendInLoop(m, pendingFunctors_) /\ UNCHANGED registered
    BY <1>2 DEF SendFromLoop
<1>3. ASSUME NEW m \in Message, SendFunctor(m)
      PROVE  SendInLoop(m, Tail(pendingFunctors_)) /\ UNCHANGED registered
    BY <1>3 DEF SendFunctor
<1>4. ASSUME \/ ShutdownFromLoop \/ RemoveFunctor \/ PeerCloses \/ PeerResets
             \/ \E r, w \in BOOLEAN : Poll(r, w)
             \/ BeginDrain \/ EndDrain
      PROVE  UNCHANGED <<events_, registered, outputBuffer_>>
    BY <1>4 DEF ShutdownFromLoop, RemoveFunctor, PeerCloses, PeerResets, Poll,
                BeginDrain, EndDrain
<1>5. ASSUME HandleError \/ HandleReadError \/ HandleReadData \/ HandleWriteDown
      PROVE  UNCHANGED <<events_, registered, outputBuffer_>>
    BY <1>5 DEF HandleError, HandleReadError, HandleReadData, HandleWriteDown
<1>6. ASSUME HandleClose \/ HandleReadEnd \/ ConnectDestroyed
      PROVE  registered' # "yes"
    BY <1>6 DEF HandleClose, HandleReadEnd, Close, Disable, ConnectDestroyed
<1>7. ASSUME ShutdownFunctor \/ WriteComplete
      PROVE  UNCHANGED <<events_, registered, outputBuffer_>>
    BY <1>7 DEF ShutdownFunctor, WriteComplete
<1>8. UNCHANGED vars => UNCHANGED <<events_, registered, outputBuffer_>>
    BY DEF vars
<1>9. ASSUME NEW n, n = 0 \/ n \in 1 .. Len(outputBuffer_), HandleWrite(n)
      PROVE  /\ \E k \in 0 .. Len(outputBuffer_) : HandleWrite(k)
             /\ UNCHANGED registered
    <2>1. \E k \in 0 .. Len(outputBuffer_) : HandleWrite(k)
        BY <1>9, LenProperties DEF TypeOK
    <2>2. UNCHANGED registered
        BY <1>9 DEF HandleWrite
    <2>3. QED
        BY <2>1, <2>2
<1>10. QED
    BY <1>1, <1>2, <1>3, <1>4, <1>5, <1>6, <1>7, <1>8, <1>9
       DEF Next, LoopStep, WriteStep

\* Every step of a connection that is established keeps POLLOUT in line with the
\* bytes that wait.
LEMMA WritingStep ==
    ASSUME TypeOK, LifeInv, WritingMatchesData, [Next]_vars, registered # "no"
    PROVE  WritingMatchesData'
<1>1. CASE UNCHANGED <<events_, registered, outputBuffer_>>
    BY <1>1 DEF WritingMatchesData, isWriting
<1>2. CASE registered' # "yes"
    BY <1>2 DEF WritingMatchesData
<1>3. CASE ConnectEstablished
    <2>1. "connectEstablished" \in Range(pendingFunctors_)
        BY <1>3, RunFacts, TailFacts DEF ConnectEstablished, TypeOK
    <2>2. QED
        BY <2>1 DEF LifeInv
<1>4. ASSUME UNCHANGED registered,
             (isWriting <=> outputBuffer_ # <<>>)
                 => (isWriting <=> outputBuffer_ # <<>>)'
      PROVE  WritingMatchesData'
    BY <1>4 DEF WritingMatchesData
<1>5. ASSUME UNCHANGED registered, NEW m \in unsent, SendInLoop(m, pendingFunctors_)
      PROVE  WritingMatchesData'
    BY <1>4, <1>5, SendFacts DEF TypeOK
<1>6. ASSUME UNCHANGED registered, NEW m \in Message,
             SendInLoop(m, Tail(pendingFunctors_))
      PROVE  WritingMatchesData'
    BY <1>4, <1>6, SendFacts
<1>7. ASSUME UNCHANGED registered, NEW n \in 0 .. Len(outputBuffer_), HandleWrite(n)
      PROVE  WritingMatchesData'
    BY <1>4, <1>7, WriteFacts
<1>8. CASE UNCHANGED vars
    BY <1>1, <1>8 DEF vars, connVars
<1>9. QED
    BY <1>1, <1>2, <1>3, <1>5, <1>6, <1>7, <1>8, WritingSteps

\* Every step keeps the invariant.
LEMMA InvStep == Inv /\ [Next]_vars => Inv' /\ aborted' \in {aborted, "updateChannel"}
<1> SUFFICES ASSUME Inv, [Next]_vars
             PROVE  Inv' /\ aborted' \in {aborted, "updateChannel"}
    OBVIOUS
<1>1. TypeOK'
    BY TypeStep DEF Inv
<1>2. CASE registered = "no"
    BY <1>1, <1>2, NewStep DEF Inv
<1>3. CASE registered # "no"
    <2>1. /\ LifeInv' /\ CallbacksInv'
          /\ registered' # "no" /\ aborted' \in {aborted, "updateChannel"}
        BY <1>3, LifeSteps DEF Inv
    <2>2. WritingMatchesData'
        BY <1>3, WritingStep DEF Inv
    <2>3. QED
        BY <1>1, <2>1, <2>2 DEF Inv, NewInv
<1>4. QED
    BY <1>2, <1>3

\* The connection is new, or established, in the beginning.
LEMMA InvInit == Init => Inv
<1> SUFFICES ASSUME Init PROVE Inv
    OBVIOUS
<1>1. TypeOK
    BY TypeInit
<1>2. DOMAIN callbacks = {}
    BY DEF Init
<1>3. CASE sameLoop
    <2>1. /\ pendingFunctors_ = <<>> /\ state_ = "kConnected" /\ events_ = {"read"}
          /\ registered = "yes" /\ outputBuffer_ = <<>>
          /\ connections_ = TRUE /\ removals = 0
        BY <1>3 DEF Init
    <2>2. DOMAIN pendingFunctors_ = {} /\ Range(pendingFunctors_) = {}
        BY <2>1 DEF Range
    <2>3. LifeInv
        BY <2>1, <2>2 DEF LifeInv, Once
    <2>4. QED
        BY <1>1, <1>2, <2>1, <2>3
           DEF Inv, NewInv, CallbacksInv, WritingMatchesData, isWriting
<1>4. CASE ~sameLoop
    <2>1. /\ pendingFunctors_ = <<"connectEstablished">> /\ state_ = "kConnecting"
          /\ registered = "no" /\ outputBuffer_ = <<>> /\ events_ = {}
          /\ connections_ = TRUE /\ removals = 0 /\ callbacks = <<>>
          /\ \A t \in Thread : caller[t] = "idle"
        BY <1>4 DEF Init
    <2>2. /\ DOMAIN pendingFunctors_ = {1}
          /\ Range(pendingFunctors_) = {"connectEstablished"}
        BY <2>1 DEF Range
    <2>3. LifeInv
        BY <2>1, <2>2 DEF LifeInv, Once
    <2>4. QED
        BY <1>1, <1>2, <2>1, <2>3 DEF Inv, NewInv, CallbacksInv, WritingMatchesData
<1>5. QED
    BY <1>3, <1>4

\* The invariant holds.
THEOREM Invariance == Spec => []Inv
BY InvInit, InvStep, PTL DEF Spec

\* WritingMatchesData.  While the channel is polled it asks for POLLOUT exactly when
\* bytes wait.
THEOREM WritingAlwaysMatches == Spec => []WritingMatchesData
<1>1. Inv => WritingMatchesData
    BY DEF Inv
<1>2. QED
    BY <1>1, Invariance, PTL

\* RegisteredIsOwned.  Until its channel has left the poller, the connection is in
\* the server's map or carried by the functor that destroys it.
THEOREM RegisteredAlwaysOwned == Spec => []RegisteredIsOwned
<1>1. Inv => RegisteredIsOwned
    BY DEF Inv, LifeInv, RegisteredIsOwned
<1>2. QED
    BY <1>1, Invariance, PTL

\* RemovedOnce.  The assertions of handleClose, removeConnectionInLoop,
\* connectEstablished and connectDestroyed hold: the connection is established
\* once, closed once, removed once and destroyed once, in that order.
THEOREM AlwaysRemovedOnce == Spec => []RemovedOnce
<1>1. Init => RemovedOnce
    BY DEF Init, RemovedOnce
<1>2. Inv /\ RemovedOnce /\ [Next]_vars => RemovedOnce'
    BY InvStep DEF RemovedOnce
<1>3. QED
    BY <1>1, <1>2, Invariance, PTL DEF Spec

-----------------------------------------------------------------------------
(***************************************************************************)
(* What no step does.                                                      *)
(***************************************************************************)

\* Only shutdownInLoop and handleWrite half-close the connection.
LEMMA FinSteps ==
    ASSUME Next
    PROVE  \/ UNCHANGED finSent
           \/ ShutdownInLoop /\ UNCHANGED outputBuffer_
           \/ \E n : HandleWrite(n)
<1> USE DEF loopVars, connVars, serverVars, netVars
<1>1. ASSUME NEW t \in Thread, User(t) PROVE UNCHANGED finSent
    BY <1>1 DEF User, UserStep, SendCheck, ShutdownCheck, SendQueue,
                ShutdownSetState, ShutdownQueue
<1>2. ASSUME \/ \E m \in unsent : SendFromLoop(m)
             \/ \E m \in Message : SendFunctor(m)
      PROVE  UNCHANGED finSent
    BY <1>2 DEF SendFromLoop, SendFunctor
<1>3. ASSUME ShutdownFromLoop \/ ShutdownFunctor
      PROVE  ShutdownInLoop /\ UNCHANGED outputBuffer_
    BY <1>3 DEF ShutdownFromLoop, ShutdownFunctor
<1>4. ASSUME \/ RemoveFunctor \/ PeerCloses \/ PeerResets
             \/ \E r, w \in BOOLEAN : Poll(r, w)
             \/ BeginDrain \/ EndDrain
      PROVE  UNCHANGED finSent
    BY <1>4 DEF RemoveFunctor, PeerCloses, PeerResets, Poll, BeginDrain, EndDrain
<1>5. ASSUME \/ HandleError \/ HandleClose \/ HandleReadError
             \/ HandleReadData \/ HandleReadEnd \/ HandleWriteDown
      PROVE  UNCHANGED finSent
    BY <1>5 DEF HandleError, HandleClose, HandleReadError, HandleReadData,
                HandleReadEnd, HandleWriteDown
<1>6. ASSUME ConnectEstablished \/ ConnectDestroyed \/ WriteComplete
      PROVE  UNCHANGED finSent
    BY <1>6 DEF ConnectEstablished, ConnectDestroyed, WriteComplete
<1>7. UNCHANGED vars => UNCHANGED finSent
    BY DEF vars
<1>8. QED
    BY <1>1, <1>2, <1>3, <1>4, <1>5, <1>6, <1>7 DEF Next, LoopStep, WriteStep

\* FinAfterData.  shutdown() sends the FIN only when no byte that was given to
\* sendInLoop before it is waiting, whether it comes first or handleWrite does.
THEOREM FinComesAfterData == Spec => FinAfterData
<1>1. Inv /\ [Next]_vars
          => [~finSent /\ finSent' /\ registered = "yes" => outputBuffer_' = <<>>]_vars
    <2> SUFFICES ASSUME Inv, [Next]_vars, ~finSent, finSent', registered = "yes"
                 PROVE  outputBuffer_' = <<>> \/ UNCHANGED vars
        OBVIOUS
    <2>1. CASE UNCHANGED finSent
        BY <2>1
    <2>2. CASE ShutdownInLoop /\ UNCHANGED outputBuffer_
        <3>1. ~isWriting
            BY <2>2 DEF ShutdownInLoop
        <3>2. QED
            BY <2>2, <3>1 DEF Inv, WritingMatchesData
    <2>3. ASSUME NEW n, HandleWrite(n) PROVE outputBuffer_' = <<>>
        BY <2>3, WriteFacts DEF Inv
    <2>4. QED
        BY <2>1, <2>2, <2>3, FinSteps
<1>2. QED
    BY <1>1, Invariance, PTL DEF Spec, FinAfterData

\* The places of the write-complete callbacks among the functors.
Places(s) == {i \in DOMAIN s : s[i] = "writeComplete"}

\* There are finitely many.
LEMMA PlacesFacts ==
    ASSUME NEW S, NEW s \in Seq(S)
    PROVE  /\ IsFiniteSet(Places(s)) /\ Completions(s) \in Nat
           /\ Completions(s) = Cardinality(Places(s))
<1>1. Len(s) \in Nat /\ DOMAIN s = 1 .. Len(s)
    BY LenProperties
<1>2. IsFiniteSet(1 .. Len(s))
    BY <1>1, FS_Interval
<1>3. Places(s) \in SUBSET (1 .. Len(s))
    BY <1>1 DEF Places
<1>4. IsFiniteSet(Places(s)) /\ Cardinality(Places(s)) \in Nat
    BY <1>2, <1>3, FS_Subset, FS_CardinalityType
<1>5. QED
    BY <1>4 DEF Completions, Places

\* Another functor that is queued is no write-complete callback.
LEMMA AppendCompletions ==
    ASSUME NEW S, NEW s \in Seq(S), NEW f \in S, f # "writeComplete"
    PROVE  Completions(Append(s, f)) = Completions(s)
<1> DEFINE t == Append(s, f)
<1>1. /\ Len(s) \in Nat /\ DOMAIN s = 1 .. Len(s)
      /\ t \in Seq(S) /\ Len(t) = Len(s) + 1
      /\ t[Len(s) + 1] = f /\ \A k \in 1 .. Len(s) : t[k] = s[k]
    BY LenProperties, AppendProperties
<1>2. DOMAIN t = 1 .. Len(s) + 1
    BY <1>1, LenProperties
<1> HIDE DEF t
<1>3. Places(t) = Places(s)
    BY <1>1, <1>2 DEF Places
<1>4. QED
    BY <1>1, <1>3, PlacesFacts DEF t

\* A functor that is taken off may be one.
LEMMA TailCompletions ==
    ASSUME NEW S, NEW s \in Seq(S), s # <<>>
    PROVE  Completions(Tail(s)) <= Completions(s)
<1> DEFINE t == Tail(s)
<1>1. /\ Len(s) \in Nat \ {0} /\ DOMAIN s = 1 .. Len(s)
      /\ t \in Seq(S) /\ Len(t) = Len(s) - 1
      /\ \A k \in 1 .. Len(s) - 1 : t[k] = s[k + 1]
    BY TailFacts, LenProperties
<1>2. DOMAIN t = 1 .. Len(s) - 1
    BY <1>1, LenProperties
<1> HIDE DEF t
<1> DEFINE next == [i \in Places(t) |-> i + 1]
<1>3. \A i \in Places(t) : i \in Nat /\ i + 1 \in Places(s)
    BY <1>1, <1>2 DEF Places
<1>4. next \in [Places(t) -> Places(s)]
    BY <1>3
<1>5. \A i, j \in Places(t) : next[i] = next[j] => i = j
    BY <1>3
<1>6. next \in Injection(Places(t), Places(s))
    BY <1>4, <1>5 DEF Injection, IsInjective
<1>7. Cardinality(Places(t)) <= Cardinality(Places(s))
    BY <1>6, PlacesFacts, FS_Injection
<1>8. /\ Completions(t) = Cardinality(Places(t))
      /\ Completions(s) = Cardinality(Places(s))
    BY <1>1, PlacesFacts
<1>9. QED
    BY <1>7, <1>8 DEF t

\* What a step does to the functors: it takes the first one off or none, and
\* then queues a write-complete callback, when no byte waits, another functor,
\* or nothing.
LEMMA FunctorSteps ==
    ASSUME TypeOK, Next
    PROVE  \E q \in {pendingFunctors_, Tail(pendingFunctors_)} :
               /\ q \in Seq(Functor) /\ Completions(q) <= Completions(pendingFunctors_)
               /\ \/ pendingFunctors_' = q
                  \/ \E f \in Functor \ {"writeComplete"} :
                         pendingFunctors_' = Append(q, f)
                  \/ outputBuffer_' = <<>>
<1> USE DEF loopVars, connVars, serverVars, netVars
<1> DEFINE Kept(q) == /\ q \in Seq(Functor)
                      /\ Completions(q) <= Completions(pendingFunctors_)
           Queued(q) == \/ pendingFunctors_' = q
                        \/ \E f \in Functor \ {"writeComplete"} :
                               pendingFunctors_' = Append(q, f)
                        \/ outputBuffer_' = <<>>
           Goal == \E q \in {pendingFunctors_, Tail(pendingFunctors_)} :
                       Kept(q) /\ Queued(q)
<1>1. Kept(pendingFunctors_)
    <2>1. pendingFunctors_ \in Seq(Functor)
        BY DEF TypeOK
    <2>2. Completions(pendingFunctors_) \in Nat
        BY <2>1, PlacesFacts
    <2>3. QED
        BY <2>1, <2>2
<1>2. ASSUME NEW f, RunFunctor(f) PROVE Kept(Tail(pendingFunctors_))
    <2>1. /\ pendingFunctors_ \in Seq(Functor) /\ pendingFunctors_ # <<>>
          /\ Tail(pendingFunctors_) \in Seq(Functor)
        BY <1>2, RunFacts DEF TypeOK
    <2>2. QED
        BY <2>1, TailCompletions
<1>3. /\ \A m \in Message : m \in Functor \ {"writeComplete"}
      /\ "shutdownInLoop" \in Functor \ {"writeComplete"}
      /\ "connectDestroyed" \in Functor \ {"writeComplete"}
    BY ConstantsAssumption DEF Functor
<1> HIDE DEF Kept
<1>4. Queued(pendingFunctors_) => Goal
    BY <1>1
<1>5. ASSUME NEW f, RunFunctor(f), Queued(Tail(pendingFunctors_)) PROVE Goal
    BY <1>2, <1>5
<1> HIDE DEF Goal
<1>6. ASSUME NEW t \in Thread, User(t) PROVE Queued(pendingFunctors_)
    <2>1. CASE SendCheck(t) \/ ShutdownCheck(t) \/ ShutdownSetState(t)
        BY <2>1 DEF SendCheck, ShutdownCheck, ShutdownSetState
    <2>2. CASE ShutdownQueue(t)
        BY <1>3, <2>2 DEF ShutdownQueue
    <2>3. ASSUME NEW m \in unsent, SendQueue(t, m)
          PROVE  Queued(pendingFunctors_)
        <3>1. pendingFunctors_' = Append(pendingFunctors_, m)
            BY <2>3 DEF SendQueue
        <3>2. m \in Functor \ {"writeComplete"}
            BY <1>3 DEF TypeOK
        <3>3. QED
            BY <3>1, <3>2
    <2>4. QED
        BY <1>6, <2>1, <2>2, <2>3 DEF User, UserStep
<1>7. ASSUME NEW m \in Message, NEW fs, SendInLoop(m, fs)
      PROVE  Queued(fs)
    <2>1. PICK all \in BOOLEAN : /\ pendingFunctors_' = Notify(all, fs)
                                 /\ all => outputBuffer_' = <<>>
        BY <1>7, SendFacts
    <2>2. QED
        BY <2>1 DEF Notify
<1>8. ASSUME NEW m \in unsent, SendFromLoop(m) PROVE Queued(pendingFunctors_)
    BY <1>7, <1>8 DEF SendFromLoop, TypeOK
<1>9. ASSUME NEW m \in Message, SendFunctor(m)
      PROVE  RunFunctor(m) /\ Queued(Tail(pendingFunctors_))
    BY <1>7, <1>9 DEF SendFunctor
<1>10. ASSUME \/ ShutdownFromLoop \/ PeerCloses \/ PeerResets
              \/ \E r, w \in BOOLEAN : Poll(r, w)
              \/ BeginDrain \/ EndDrain
       PROVE  Queued(pendingFunctors_)
    BY <1>10 DEF ShutdownFromLoop, PeerCloses, PeerResets, Poll, BeginDrain, EndDrain
<1>11. ASSUME HandleError \/ HandleReadError \/ HandleReadData \/ HandleWriteDown
       PROVE  Queued(pendingFunctors_)
    BY <1>11 DEF HandleError, HandleReadError, HandleReadData, HandleWriteDown
<1>12. ASSUME HandleClose \/ HandleReadEnd PROVE Queued(pendingFunctors_)
    <2>1. Close
        BY <1>12 DEF HandleClose, HandleReadEnd
    <2>2. QED
        BY <1>3, <2>1, CloseFacts
<1>13. ASSUME RemoveFunctor PROVE Queued(pendingFunctors_)
    BY <1>3, <1>13 DEF RemoveFunctor, RemoveConnectionInLoop
<1>14. ASSUME NEW n, HandleWrite(n) PROVE Queued(pendingFunctors_)
    BY <1>14, WriteFacts
<1>15. ASSUME \/ ConnectEstablished \/ ConnectDestroyed \/ ShutdownFunctor
              \/ WriteComplete
       PROVE  /\ \E f : RunFunctor(f)
              /\ Queued(Tail(pendingFunctors_))
    BY <1>15 DEF ConnectEstablished, ConnectDestroyed, ShutdownFunctor, WriteComplete
<1>16. UNCHANGED vars => Queued(pendingFunctors_)
    BY DEF vars
<1> HIDE DEF Queued
<1>17. Goal
    BY <1>4, <1>5, <1>6, <1>8, <1>9, <1>10, <1>11, <1>12, <1>13, <1>14, <1>15, <1>16
       DEF Next, LoopStep, WriteStep
<1>18. QED
    BY <1>17 DEF Goal, Kept, Queued

\* CompleteWhenEmpty.  A write-complete callback is queued only at a moment when all
\* that was given to sendInLoop is written.
THEOREM CompleteOnlyWhenEmpty == Spec => CompleteWhenEmpty
<1>1. TypeOK /\ [Next]_vars
          => [Completions(pendingFunctors_') > Completions(pendingFunctors_)
              => outputBuffer_' = <<>>]_vars
    <2> SUFFICES ASSUME TypeOK, Next,
                        Completions(pendingFunctors_') > Completions(pendingFunctors_)
                 PROVE  outputBuffer_' = <<>>
        OBVIOUS
    <2>1. PICK q \in {pendingFunctors_, Tail(pendingFunctors_)} :
              /\ q \in Seq(Functor) /\ Completions(q) <= Completions(pendingFunctors_)
              /\ \/ pendingFunctors_' = q
                 \/ \E f \in Functor \ {"writeComplete"} :
                        pendingFunctors_' = Append(q, f)
                 \/ outputBuffer_' = <<>>
        BY FunctorSteps
    <2>2. Completions(q) \in Nat /\ Completions(pendingFunctors_) \in Nat
        BY <2>1, PlacesFacts DEF TypeOK
    <2>3. CASE pendingFunctors_' = q
        BY <2>1, <2>2, <2>3
    <2>4. ASSUME NEW f \in Functor \ {"writeComplete"},
                 pendingFunctors_' = Append(q, f)
          PROVE  FALSE
        BY <2>1, <2>2, <2>4, AppendCompletions
    <2>5. QED
        BY <2>1, <2>3, <2>4
<1>2. QED
    BY <1>1, Typing, PTL DEF Spec, CompleteWhenEmpty

-----------------------------------------------------------------------------
(***************************************************************************)
(* The one assertion that fails.                                           *)
(***************************************************************************)

\* Nobody takes a connection that is destroyed for one that is connected, though
\* shutdown may still store kDisconnecting.
NotConnectedInv == registered = "removed" => state_ # "kConnected"

\* Every step keeps it.
LEMMA NotConnectedStep ==
    ASSUME Inv, NotConnectedInv, [Next]_vars
    PROVE  NotConnectedInv'
<1> USE DEF loopVars, connVars, serverVars, netVars, NotConnectedInv
<1>1. ASSUME NEW t \in Thread, User(t) PROVE NotConnectedInv'
    BY <1>1 DEF User, UserStep, SendCheck, SendQueue, ShutdownCheck, ShutdownSetState,
                ShutdownQueue
<1>2. ASSUME NEW m \in unsent, SendFromLoop(m) PROVE NotConnectedInv'
    BY <1>2 DEF SendFromLoop
<1>3. CASE ShutdownFromLoop \/ PeerCloses \/ PeerResets \/ RemoveFunctor \/ UNCHANGED vars
    BY <1>3 DEF ShutdownFromLoop, PeerCloses, PeerResets, RemoveFunctor, vars
<1>4. ASSUME NEW r \in BOOLEAN, NEW w \in BOOLEAN, Poll(r, w) PROVE NotConnectedInv'
    BY <1>4 DEF Poll
<1>5. CASE HandleError \/ HandleReadError \/ HandleReadData \/ HandleWriteDown
    BY <1>5 DEF HandleError, HandleReadError, HandleReadData, HandleWriteDown, Callback
<1>6. CASE HandleClose \/ HandleReadEnd
    <2>1. registered' = "ignored"
        <3>1. PICK name \in {"close", "read"} : Callback(name)
            BY <1>6 DEF HandleClose, HandleReadEnd
        <3>2. QED
            BY <1>6 DEF HandleClose, HandleReadEnd, Close, Disable
    <2>2. QED
        BY <2>1
<1>7. ASSUME NEW n, HandleWrite(n) PROVE NotConnectedInv'
    BY <1>7 DEF HandleWrite, Callback
<1>8. CASE BeginDrain \/ EndDrain
    BY <1>8 DEF BeginDrain, EndDrain
<1>9. CASE ConnectEstablished \/ ConnectDestroyed
    BY <1>9 DEF ConnectEstablished, ConnectDestroyed
<1>10. CASE ShutdownFunctor \/ WriteComplete
    BY <1>10 DEF ShutdownFunctor, WriteComplete
<1>11. ASSUME NEW m \in Message, SendFunctor(m) PROVE NotConnectedInv'
    BY <1>11 DEF SendFunctor
<1>12. QED
    BY <1>1, <1>2, <1>3, <1>4, <1>5, <1>6, <1>7, <1>8, <1>9, <1>10, <1>11
       DEF Next, LoopStep, WriteStep

\* updateChannel's assertion fails only for a message that was queued as a functor
\* and is sent after connectDestroyed: a send() from the loop's own thread never runs
\* into it, and neither does anything else that a connection does.
THEOREM OnlyLateSendsFail ==
    Spec => [][aborted' # aborted =>
                   registered = "removed" /\ \E m \in Message : SendFunctor(m)]_vars
<1>1. Init => NotConnectedInv
    BY DEF Init, NotConnectedInv
<1>2. Inv /\ NotConnectedInv /\ [Next]_vars => NotConnectedInv'
    BY NotConnectedStep
<1>3. Inv /\ NotConnectedInv /\ [Next]_vars =>
          [aborted' # aborted =>
               registered = "removed" /\ \E m \in Message : SendFunctor(m)]_vars
    <2> SUFFICES ASSUME Inv, NotConnectedInv, [Next]_vars, aborted' # aborted
                 PROVE  registered = "removed" /\ \E m \in Message : SendFunctor(m)
        OBVIOUS
    <2> USE DEF loopVars, connVars, serverVars, netVars
    <2>1. aborted' = "updateChannel"
        BY InvStep
    <2>2. ASSUME NEW m, NEW fs, SendInLoop(m, fs) PROVE registered = "removed"
        BY <2>2 DEF SendInLoop
    <2>3. ASSUME NEW t \in Thread, User(t) PROVE FALSE
        BY <2>3 DEF User, UserStep, SendCheck, SendQueue, ShutdownCheck,
                    ShutdownSetState, ShutdownQueue
    <2>4. ASSUME NEW m \in unsent, SendFromLoop(m) PROVE FALSE
        BY <2>2, <2>4 DEF SendFromLoop, NotConnectedInv
    <2>5. ~ShutdownFromLoop /\ ~PeerCloses /\ ~PeerResets /\ ~UNCHANGED vars
        BY DEF ShutdownFromLoop, PeerCloses, PeerResets, vars
    <2>6. ~RemoveFunctor
        BY <2>1 DEF RemoveFunctor, RemoveConnectionInLoop
    <2>7. ASSUME NEW r \in BOOLEAN, NEW w \in BOOLEAN, Poll(r, w) PROVE FALSE
        BY <2>7 DEF Poll
    <2>8. ~HandleError /\ ~HandleReadError /\ ~HandleReadData /\ ~HandleWriteDown
        BY DEF HandleError, HandleReadError, HandleReadData, HandleWriteDown
    <2>9. ~HandleClose /\ ~HandleReadEnd
        BY <2>1 DEF HandleClose, HandleReadEnd, Close, RemoveConnectionInLoop
    <2>10. ASSUME NEW n, HandleWrite(n) PROVE FALSE
        BY <2>10 DEF HandleWrite
    <2>11. ~BeginDrain /\ ~EndDrain
        BY DEF BeginDrain, EndDrain
    <2>12. ~ConnectEstablished /\ ~ConnectDestroyed
        BY <2>1 DEF ConnectEstablished, ConnectDestroyed
    <2>13. ~ShutdownFunctor /\ ~WriteComplete
        BY DEF ShutdownFunctor, WriteComplete
    <2>14. ASSUME NEW m \in Message, SendFunctor(m) PROVE registered = "removed"
        BY <2>2, <2>14 DEF SendFunctor
    <2>15. QED
        BY <2>3, <2>4, <2>5, <2>6, <2>7, <2>8, <2>9, <2>10, <2>11, <2>12, <2>13, <2>14
           DEF Next, LoopStep, WriteStep
<1>4. QED
    BY <1>1, <1>2, <1>3, Invariance, PTL DEF Spec

-----------------------------------------------------------------------------
(***************************************************************************)
(* The life of the connection: TcpConnection implements ConnectionLife.    *)
(***************************************************************************)

\* At first the connection has been made, and established if its loop is the base
\* loop.
LEMMA InitRefines == Init => ImplementsConnectionLife!Init
<1> SUFFICES ASSUME Init PROVE ImplementsConnectionLife!Init
    OBVIOUS
<1>1. LifeStage \in {"none", "made", "open"}
    BY DEF Init, LifeStage
<1>2. (aborted # "no") = FALSE
    BY DEF Init
<1>3. QED
    BY <1>1, <1>2 DEF ImplementsConnectionLife!Init

\* A step to another stage.
LEMMA BecomeStep ==
    ASSUME NEW from, NEW to, aborted = "no", aborted' = "no",
           LifeStage = from, LifeStage' = to
    PROVE  \E c \in {"the connection"} : ImplementsConnectionLife!Become(c, from, to)
<1> DEFINE c == "the connection"
<1>1. [d \in {c} |-> LifeStage]' = [[d \in {c} |-> LifeStage] EXCEPT ![c] = to]
    OBVIOUS
<1>2. (aborted # "no")' = (aborted # "no")
    OBVIOUS
<1>3. ImplementsConnectionLife!Become(c, from, to)
    BY <1>1, <1>2 DEF ImplementsConnectionLife!Become
<1>4. QED
    BY <1>3

\* The steps that change who knows of the connection.
LEMMA LifeChanges ==
    ASSUME [Next]_vars
    PROVE  \/ UNCHANGED <<registered, connections_>>
           \/ ConnectEstablished \/ ConnectDestroyed
           \/ HandleClose \/ HandleReadEnd \/ RemoveFunctor
<1> USE DEF loopVars, connVars, serverVars, netVars
<1>1. ASSUME NEW t \in Thread, User(t)
      PROVE  UNCHANGED <<registered, connections_>>
    BY <1>1 DEF User, UserStep, SendCheck, SendQueue, ShutdownCheck, ShutdownSetState,
                ShutdownQueue
<1>2. ASSUME NEW m \in unsent, SendFromLoop(m)
      PROVE  UNCHANGED <<registered, connections_>>
    BY <1>2 DEF SendFromLoop
<1>3. CASE ShutdownFromLoop \/ PeerCloses \/ PeerResets \/ UNCHANGED vars
    BY <1>3 DEF ShutdownFromLoop, PeerCloses, PeerResets, vars
<1>4. ASSUME NEW r \in BOOLEAN, NEW w \in BOOLEAN, Poll(r, w)
      PROVE  UNCHANGED <<registered, connections_>>
    BY <1>4 DEF Poll
<1>5. CASE HandleError \/ HandleReadError \/ HandleReadData \/ HandleWriteDown
    BY <1>5 DEF HandleError, HandleReadError, HandleReadData, HandleWriteDown
<1>6. ASSUME NEW n, HandleWrite(n)
      PROVE  UNCHANGED <<registered, connections_>>
    BY <1>6 DEF HandleWrite
<1>7. CASE BeginDrain \/ EndDrain
    BY <1>7 DEF BeginDrain, EndDrain
<1>8. CASE ShutdownFunctor \/ WriteComplete
    BY <1>8 DEF ShutdownFunctor, WriteComplete, RunFunctor
<1>9. ASSUME NEW m \in Message, SendFunctor(m)
      PROVE  UNCHANGED <<registered, connections_>>
    BY <1>9 DEF SendFunctor, RunFunctor
<1>10. QED
    BY <1>1, <1>2, <1>3, <1>4, <1>5, <1>6, <1>7, <1>8, <1>9
       DEF Next, LoopStep, WriteStep

\* Each of them takes the connection to its next stage, unless an assertion fails.
LEMMA NextRefines ==
    Inv /\ [Next]_vars =>
        [ImplementsConnectionLife!Next]_<<[c \in {"the connection"} |-> LifeStage],
                                          aborted # "no">>
<1> DEFINE stages == [c \in {"the connection"} |-> LifeStage]
           broken == aborted # "no"
<1> SUFFICES ASSUME Inv, [Next]_vars
             PROVE  ImplementsConnectionLife!Next \/ UNCHANGED <<stages, broken>>
    OBVIOUS
<1>1. CASE broken'
    BY <1>1 DEF ImplementsConnectionLife!Next, ImplementsConnectionLife!Break
<1>2. CASE UNCHANGED vars
    BY <1>2 DEF vars, connVars, serverVars, LifeStage
<1>3. CASE ~UNCHANGED vars /\ ~broken'
    <2> DEFINE Goal == ImplementsConnectionLife!Next \/ UNCHANGED <<stages, broken>>
    <2>1. aborted = "no" /\ aborted' = "no" /\ TypeOK /\ NewInv /\ LifeInv /\ CallbacksInv
        BY <1>3 DEF Next, Inv
    <2>2. CASE UNCHANGED <<registered, connections_>>
        BY <2>1, <2>2 DEF LifeStage
    <2>3. CASE ConnectEstablished
        <3>1. registered = "no" /\ registered' = "yes"
            BY <2>1, <2>3, EstablishLife DEF ConnectEstablished
        <3>2. LifeStage = "made" /\ LifeStage' = "open"
            BY <3>1 DEF LifeStage
        <3>3. QED
            BY <2>1, <3>2, BecomeStep
               DEF ImplementsConnectionLife!Next, ImplementsConnectionLife!Establish
    <2>4. CASE HandleClose \/ HandleReadEnd
        <3>1. PICK name \in {"close", "read"} : Callback(name)
            BY <2>4 DEF HandleClose, HandleReadEnd
        <3>2. registered = "yes" /\ Close
            BY <2>1, <2>4, <3>1, CallbacksTail DEF HandleClose, HandleReadEnd
        <3>3. registered' = "ignored"
            BY <3>2 DEF Close, Disable
        <3>4. LifeStage = "open" /\ LifeStage' \in {"closing", "leaving"}
            BY <3>2, <3>3 DEF LifeStage
        <3>5. \E c \in {"the connection"} :
                  \/ ImplementsConnectionLife!Become(c, "open", "closing")
                  \/ ImplementsConnectionLife!Become(c, "open", "leaving")
            BY <2>1, <3>4, BecomeStep
        <3>6. QED
            BY <3>5 DEF ImplementsConnectionLife!Next, ImplementsConnectionLife!Close
    <2>5. CASE RemoveFunctor
        <3>1. /\ registered = "ignored" /\ connections_
              /\ registered' = "ignored" /\ ~connections_'
            BY <2>1, <2>5 DEF LifeInv, RemoveFunctor, RemoveConnectionInLoop, connVars,
                              TypeOK
        <3>2. LifeStage = "closing" /\ LifeStage' = "leaving"
            BY <3>1 DEF LifeStage
        <3>3. QED
            BY <2>1, <3>2, BecomeStep
               DEF ImplementsConnectionLife!Next, ImplementsConnectionLife!Remove
    <2>6. CASE ConnectDestroyed
        <3>1. registered = "ignored" /\ registered' = "removed"
            BY <2>1, <2>6, DestroyLife DEF ConnectDestroyed
        <3>2. ~connections_
            <4>1. "connectDestroyed" \in Range(pendingFunctors_)
                BY <2>1, <2>6, RunFacts, TailFacts DEF ConnectDestroyed, TypeOK
            <4>2. QED
                BY <2>1, <3>1, <4>1 DEF LifeInv
        <3>3. LifeStage = "leaving" /\ LifeStage' = "over"
            BY <3>1, <3>2 DEF LifeStage
        <3>4. QED
            BY <2>1, <3>3, BecomeStep
               DEF ImplementsConnectionLife!Next, ImplementsConnectionLife!Destroy
    <2>7. QED
        BY <2>2, <2>3, <2>4, <2>5, <2>6, LifeChanges
<1>4. QED
    BY <1>1, <1>2, <1>3

\* The connection goes from stage to stage, each once, whatever its users send or shut
\* down, whether poll() or read() notices its end, and though removeConnection only
\* queues the step that comes next, unless an assertion fails.
THEOREM Refinement == Spec => LifeSpec
<1>1. Init => ImplementsConnectionLife!Init
    BY InitRefines
<1>2. Inv /\ [Next]_vars =>
          [ImplementsConnectionLife!Next]_<<[c \in {"the connection"} |-> LifeStage],
                                            aborted # "no">>
    BY NextRefines
<1>3. QED
    BY <1>1, <1>2, Invariance, PTL
    DEF Spec, LifeSpec, ImplementsConnectionLife!Spec
=============================================================================
