----------------------------- MODULE QueueFacts -----------------------------
(***************************************************************************)
(* What the proofs need to know of queues of functors: a functor is        *)
(* appended, the first one is taken off, and some are there only once.     *)
(***************************************************************************)
EXTENDS Sequences, Functions, SequenceTheorems, TLAPS

\* x is in the queue once, if at all.
Once(s, x) == \A i, j \in DOMAIN s : s[i] = x /\ s[j] = x => i = j

\* A sequence is cut in two.
LEMMA CutFacts ==
    ASSUME NEW S, NEW s \in Seq(S), NEW n \in 0 .. Len(s)
    PROVE  /\ SubSeq(s, 1, n) \in Seq(S) /\ SubSeq(s, n + 1, Len(s)) \in Seq(S)
           /\ SubSeq(s, 1, n) \o SubSeq(s, n + 1, Len(s)) = s
           /\ SubSeq(s, n + 1, Len(s)) = <<>> <=> n = Len(s)
           /\ n = 0 => SubSeq(s, 1, n) = <<>>
<1>1. Len(s) \in Nat
    BY LenProperties
<1>2. \A i \in 1 .. Len(s) : s[i] \in S
    BY ElementOfSeq
<1>3. SubSeq(s, 1, n) \in Seq(S)
    <2>1. 1 \in Int /\ n \in Int /\ \A i \in 1 .. n : s[i] \in S
        BY <1>1, <1>2
    <2>2. QED
        BY <2>1, SubSeqProperties
<1> DEFINE m == n + 1
<1>4. /\ SubSeq(s, m, Len(s)) \in Seq(S)
      /\ Len(SubSeq(s, m, Len(s))) = IF m <= Len(s) THEN Len(s) - m + 1 ELSE 0
    <2>1. m \in Int /\ Len(s) \in Int /\ \A i \in m .. Len(s) : s[i] \in S
        BY <1>1, <1>2
    <2> HIDE DEF m
    <2>2. QED
        BY <2>1, SubSeqProperties
<1>5. SubSeq(s, m, Len(s)) = <<>> <=> n = Len(s)
    <2> DEFINE u == SubSeq(s, m, Len(s))
    <2>1. u \in Seq(S) /\ (Len(u) = 0 <=> n = Len(s))
        BY <1>1, <1>4
    <2> HIDE DEF u
    <2>2. u = <<>> <=> Len(u) = 0
        BY <2>1, EmptySeq
    <2>3. QED
        BY <2>1, <2>2 DEF u
<1>6. SubSeq(s, 1, n) \o SubSeq(s, n + 1, Len(s)) = s
    <2>1. 1 \in 1 .. Len(s) + 1 /\ n \in 1 - 1 .. Len(s) /\ Len(s) \in n .. Len(s)
        BY <1>1
    <2>2. SubSeq(s, 1, n) \o SubSeq(s, n + 1, Len(s)) = SubSeq(s, 1, Len(s))
        BY <2>1, ConcatAdjacentSubSeq
    <2>3. QED
        BY <2>2, SubSeqFull
<1>7. n = 0 => SubSeq(s, 1, n) = <<>>
    BY SubSeqEmpty
<1>8. QED
    BY <1>3, <1>4, <1>5, <1>6, <1>7

\* A functor is queued.
LEMMA AppendFacts ==
    ASSUME NEW S, NEW s \in Seq(S), NEW e \in S
    PROVE  /\ Append(s, e) \in Seq(S)
           /\ Len(Append(s, e)) = Len(s) + 1
           /\ Range(Append(s, e)) = Range(s) \cup {e}
           /\ \A x : Once(s, x) /\ (x = e => x \notin Range(s))
                         => Once(Append(s, e), x)
<1>1. Len(s) \in Nat /\ DOMAIN s = 1 .. Len(s)
    BY LenProperties
<1> DEFINE t == Append(s, e)
<1>2. /\ t \in Seq(S) /\ Len(t) = Len(s) + 1 /\ DOMAIN t = 1 .. Len(s) + 1
      /\ t[Len(s) + 1] = e /\ \A k \in 1 .. Len(s) : t[k] = s[k]
    BY <1>1, AppendProperties
<1> HIDE DEF t
<1>3. Range(t) = Range(s) \cup {e}
    BY <1>1, <1>2 DEF Range
<1>4. ASSUME NEW x, Once(s, x), x = e => x \notin Range(s)
      PROVE  Once(t, x)
    BY <1>1, <1>2, <1>4 DEF Once, Range
<1>5. QED
    BY <1>2, <1>3, <1>4 DEF t

\* The first functor is taken off.
LEMMA TailFacts ==
    ASSUME NEW S, NEW s \in Seq(S), s # <<>>
    PROVE  /\ Head(s) \in S /\ Tail(s) \in Seq(S)
           /\ Len(s) \in Nat \ {0} /\ Len(Tail(s)) = Len(s) - 1
           /\ \A k \in 1 .. Len(s) - 1 : Tail(s)[k] = s[k + 1]
           /\ Head(s) = s[1]
           /\ Range(s) = Range(Tail(s)) \cup {Head(s)}
           /\ \A x : Once(s, x) =>
                  /\ Once(Tail(s), x)
                  /\ x = Head(s) => x \notin Range(Tail(s))
<1>1. Len(s) \in Nat \ {0} /\ DOMAIN s = 1 .. Len(s)
    BY LenProperties, EmptySeq
<1> DEFINE t == Tail(s)
<1>2. /\ t \in Seq(S) /\ Len(t) = Len(s) - 1 /\ Head(s) \in S
      /\ \A k \in 1 .. Len(t) : t[k] = s[k + 1]
    BY HeadTailProperties
<1>3. Head(s) = s[1] /\ DOMAIN t = 1 .. Len(s) - 1
    BY <1>1, <1>2, LenProperties
<1> HIDE DEF t
<1>4. Range(s) = Range(t) \cup {Head(s)}
    <2>1. ASSUME NEW k \in DOMAIN s PROVE s[k] \in Range(t) \cup {Head(s)}
        <3>1. CASE k = 1
            BY <1>3, <3>1
        <3>2. CASE k # 1
            <4>1. k - 1 \in 1 .. Len(t) /\ k - 1 + 1 = k
                BY <1>1, <1>2, <3>2
            <4>2. QED
                BY <1>2, <1>3, <4>1 DEF Range
        <3>3. QED
            BY <3>1, <3>2
    <2>2. ASSUME NEW k \in DOMAIN t PROVE t[k] \in Range(s)
        BY <1>1, <1>2, <1>3 DEF Range
    <2>3. Head(s) \in Range(s)
        BY <1>1, <1>3 DEF Range
    <2>4. QED
        BY <2>1, <2>2, <2>3 DEF Range
<1>5. ASSUME NEW x, Once(s, x), x = Head(s) PROVE x \notin Range(t)
    BY <1>1, <1>2, <1>3, <1>5 DEF Range, Once
<1>6. ASSUME NEW x, Once(s, x) PROVE Once(t, x)
    <2>1. SUFFICES ASSUME NEW j \in DOMAIN t, NEW k \in DOMAIN t,
                          t[j] = x, t[k] = x
                   PROVE  j = k
        BY DEF Once
    <2>2. /\ j + 1 \in DOMAIN s /\ k + 1 \in DOMAIN s
          /\ t[j] = s[j + 1] /\ t[k] = s[k + 1]
        BY <1>1, <1>2, <1>3
    <2>3. j + 1 = k + 1
        BY <1>6, <2>1, <2>2 DEF Once
    <2>4. QED
        BY <1>1, <1>3, <2>3
<1>7. QED
    BY <1>1, <1>2, <1>3, <1>4, <1>5, <1>6 DEF t
=============================================================================
