-------------------------- MODULE TimerQueueProofs --------------------------
(***************************************************************************)
(* What holds of TimerQueue for any timers, intervals and settings of the  *)
(* clock: its inductive invariant, that each Timer has one owner, that the *)
(* timerfd is armed for the first, and that it implements TimerService.    *)
(***************************************************************************)
EXTENDS TimerQueue, SequenceTheorems, TLAPS

-----------------------------------------------------------------------------
(***************************************************************************)
(* The invariant.                                                          *)
(***************************************************************************)

\* The timers that functors carry.
Carried(s) == {s[k] : k \in DOMAIN s}
Distinct(s) == \A j, k \in DOMAIN s : s[j] = s[k] => j = k

\* OwnedOnce in terms of single timers and entries.
OwnedInv ==
    /\ Carried(pendingFunctors_) \subseteq live
    /\ Distinct(pendingFunctors_)
    /\ \A e \in timers_ \cup expired : e[2] \in live /\ e[1] = expiration_[e[2]]
    /\ \A a \in live : \/ a \in Carried(pendingFunctors_)
                       \/ <<expiration_[a], a>> \in timers_ \cup expired
    /\ \A a \in Carried(pendingFunctors_) :
           <<expiration_[a], a>> \notin timers_ \cup expired
    /\ timers_ \cap expired = {}

\* While handleRead runs, an added timer of a time that is not valid, which keeps
\* reset from arming the timerfd, has armed it already.
ArmedInv ==
    /\ now > 0
    /\ Armed
    /\ phase = "handleRead" =>
           /\ readTime > 0
           /\ \A e \in timers_ : ~Valid(e[1]) => ArmedFor(e)

Inv == TypeOK /\ OwnedInv /\ ArmedInv

-----------------------------------------------------------------------------
(***************************************************************************)
(* Facts about the parts.                                                  *)
(***************************************************************************)

\* What a functor that is queued adds.
LEMMA AppendFacts ==
    ASSUME NEW S, NEW s \in Seq(S), NEW a \in S, a \notin Carried(s), Distinct(s)
    PROVE  /\ Append(s, a) \in Seq(S) /\ Len(Append(s, a)) = Len(s) + 1
           /\ Carried(Append(s, a)) = Carried(s) \cup {a}
           /\ Distinct(Append(s, a))
<1>1. Len(s) \in Nat /\ DOMAIN s = 1 .. Len(s)
    BY LenProperties
<1> DEFINE t == Append(s, a)
<1>2. /\ t \in Seq(S) /\ Len(t) = Len(s) + 1 /\ DOMAIN t = 1 .. Len(s) + 1
      /\ t[Len(s) + 1] = a /\ \A k \in 1 .. Len(s) : t[k] = s[k]
    BY <1>1, AppendProperties
<1> HIDE DEF t
<1>3. Carried(t) = Carried(s) \cup {a}
    BY <1>1, <1>2 DEF Carried
<1>4. Distinct(t)
    BY <1>1, <1>2 DEF Carried, Distinct
<1>5. QED
    BY <1>2, <1>3, <1>4 DEF t

\* What a functor that is run takes away.
LEMMA TailFacts ==
    ASSUME NEW S, NEW s \in Seq(S), s # <<>>, Distinct(s)
    PROVE  /\ Head(s) \in S /\ Tail(s) \in Seq(S) /\ Len(Tail(s)) = Len(s) - 1
           /\ Carried(s) = Carried(Tail(s)) \cup {Head(s)}
           /\ Head(s) \notin Carried(Tail(s))
           /\ Distinct(Tail(s))
<1>1. /\ Len(s) \in Nat \ {0} /\ DOMAIN s = 1 .. Len(s)
    BY LenProperties, EmptySeq
<1> DEFINE t == Tail(s)
<1>2. /\ t \in Seq(S) /\ Len(t) = Len(s) - 1 /\ Head(s) \in S
      /\ \A k \in 1 .. Len(t) : t[k] = s[k + 1]
    BY HeadTailProperties
<1>3. Head(s) = s[1] /\ DOMAIN t = 1 .. Len(s) - 1
    BY <1>1, <1>2, LenProperties
<1> HIDE DEF t
<1>4. Carried(s) = Carried(t) \cup {Head(s)}
    <2>1. ASSUME NEW k \in DOMAIN s PROVE s[k] \in Carried(t) \cup {Head(s)}
        <3>1. CASE k = 1
            BY <1>3, <3>1
        <3>2. CASE k # 1
            <4>1. k - 1 \in 1 .. Len(t) /\ k - 1 + 1 = k
                BY <1>1, <1>2, <3>2
            <4>2. QED
                BY <1>2, <1>3, <4>1 DEF Carried
        <3>3. QED
            BY <3>1, <3>2
    <2>2. ASSUME NEW k \in DOMAIN t PROVE t[k] \in Carried(s)
        BY <1>1, <1>2, <1>3 DEF Carried
    <2>3. Head(s) \in Carried(s)
        BY <1>1, <1>3 DEF Carried
    <2>4. QED
        BY <2>1, <2>2, <2>3 DEF Carried
<1>5. Head(s) \notin Carried(t)
    BY <1>1, <1>2, <1>3 DEF Carried, Distinct
<1>6. Distinct(t)
    <2>1. SUFFICES ASSUME NEW j \in DOMAIN t, NEW k \in DOMAIN t, t[j] = t[k]
                   PROVE  j = k
        BY DEF Distinct
    <2>2. /\ j + 1 \in DOMAIN s /\ k + 1 \in DOMAIN s
          /\ t[j] = s[j + 1] /\ t[k] = s[k + 1]
        BY <1>1, <1>2, <1>3
    <2>3. j + 1 = k + 1
        BY <2>1, <2>2 DEF Distinct
    <2>4. QED
        BY <1>1, <1>3, <2>3
<1>7. QED
    BY <1>2, <1>4, <1>5, <1>6 DEF t

\* A timer is in one place.
LEMMA Apart ==
    ASSUME TypeOK, OwnedInv
    PROVE  /\ \A e \in timers_, f \in expired : e[2] # f[2]
           /\ \A e \in timers_ \cup expired : e[2] \notin Carried(pendingFunctors_)
           /\ \A e \in timers_ \cup expired : e = <<e[1], e[2]>> /\ e \in Entry
<1>1. \A e \in timers_ \cup expired : e = <<e[1], e[2]>> /\ e \in Entry
    BY DEF TypeOK, Entry
<1>2. \A e \in timers_, f \in expired : e[2] # f[2]
    BY <1>1 DEF OwnedInv
<1>3. \A e \in timers_ \cup expired : e[2] \notin Carried(pendingFunctors_)
    BY <1>1 DEF OwnedInv
<1>4. QED
    BY <1>1, <1>2, <1>3

\* The timerfd is never armed for less than the shortest delay, and no later
\* than for the times after the one it is armed for.
LEMMA ResetFacts ==
    ASSUME now \in Int, NEW when \in Int, ResetTimerfd(when)
    PROVE  /\ timeLeft' \in Nat \ {0} /\ readable' = FALSE /\ stepped' = FALSE
           /\ \A later \in Int : when <= later =>
                  timeLeft' <= Later(later - now, MinDelay)
BY ConstantsAssumption DEF ResetTimerfd, HowMuchTimeFromNow, Later

\* So it is armed for each of these.
LEMMA ResetArms ==
    ASSUME now \in Int, now' = now, NEW when \in Int, ResetTimerfd(when)
    PROVE  \A e \in Entry : when <= e[1] => ArmedFor(e)'
<1>1. SUFFICES ASSUME NEW e \in Entry, when <= e[1] PROVE ArmedFor(e)'
    OBVIOUS
<1>2. e[1] \in Int
    BY DEF Entry
<1>3. timeLeft' \in Nat \ {0} /\ timeLeft' <= Later(e[1] - now, MinDelay)
    BY <1>1, <1>2, ResetFacts
<1>4. QED
    BY <1>3 DEF ArmedFor

\* Where it is armed for one timer it is armed for a later one.
LEMMA LaterIsArmed ==
    ASSUME now \in Int, timeLeft \in Nat,
           NEW e \in Entry, NEW f \in Entry, ArmedFor(e), e[1] <= f[1] \/ e[1] <= now
    PROVE  ArmedFor(f)
<1>1. e[1] \in Int /\ f[1] \in Int
    BY DEF Entry
<1>2. Later(e[1] - now, MinDelay) <= Later(f[1] - now, MinDelay)
    BY <1>1, ConstantsAssumption DEF Later
<1>3. /\ Later(e[1] - now, MinDelay) \in Int
      /\ Later(f[1] - now, MinDelay) \in Int
    BY <1>1, ConstantsAssumption DEF Later
<1>4. QED
    BY <1>2, <1>3 DEF ArmedFor

\* addTimerInloop arms the timerfd for the timer it adds, or need not, when all
\* the others are armed for, or all those of a time that is not valid.
LEMMA AddArms ==
    ASSUME now \in Int, now > 0, now' = now, timeLeft \in Nat,
           timers_ \subseteq Entry, NEW a \in Timer, expiration_'[a] \in Int,
           AddTimerInloop(a)
    PROVE  /\ (\A e \in timers_ : ArmedFor(e))
                  => \A e \in timers_' : ArmedFor(e)'
           /\ (\A e \in timers_ : ~Valid(e[1]) => ArmedFor(e))
                  => \A e \in timers_' : ~Valid(e[1]) => ArmedFor(e)'
<1> DEFINE when == expiration_'[a]
           new == <<when, a>>
<1>1. /\ new \in Entry /\ new[1] = when /\ when \in Int
      /\ timers_' = timers_ \cup {new}
      /\ IF EarliestChanged(when) THEN ResetTimerfd(when) ELSE UNCHANGED fdVars
    BY DEF AddTimerInloop, Entry
<1>2. \A e \in timers_ : e \in Entry /\ e[1] \in Int
    BY DEF Entry
<1> HIDE DEF when, new
<1>3. CASE EarliestChanged(when)
    <2>1. \A e \in timers_' : e \in Entry /\ when <= e[1]
        BY <1>1, <1>2, <1>3 DEF EarliestChanged
    <2>2. \A e \in timers_' : ArmedFor(e)'
        BY <1>1, <1>3, <2>1, ResetArms
    <2>3. QED
        BY <2>2
<1>4. CASE ~EarliestChanged(when)
    <2>1. PICK f \in timers_ : f[1] <= when
        BY <1>1, <1>2, <1>4 DEF EarliestChanged
    <2>2. \A e : ArmedFor(e) => ArmedFor(e)'
        BY <1>1, <1>4 DEF ArmedFor, fdVars
    <2>3. ArmedFor(f) => ArmedFor(new)
        BY <1>1, <1>2, <2>1, LaterIsArmed
    <2>4. ~Valid(when) => ~Valid(f[1])
        BY <1>1, <1>2, <2>1 DEF Valid
    <2>5. QED
        BY <1>1, <2>1, <2>2, <2>3, <2>4
<1>5. QED
    BY <1>3, <1>4

-----------------------------------------------------------------------------
(***************************************************************************)
(* Each step preserves the invariant.                                      *)
(***************************************************************************)

\* Init establishes it.
LEMMA InitInv == Init => Inv
<1> SUFFICES ASSUME Init PROVE Inv
    OBVIOUS
<1>1. DOMAIN pendingFunctors_ = {} /\ pendingFunctors_ \in Seq(Timer)
      /\ Len(pendingFunctors_) = 0
    BY EmptySeq DEF Init
<1>2. now \in Int /\ now > 0
    BY ConstantsAssumption DEF Init
<1>3. TypeOK
    <2>1. /\ now \in Int /\ readTime \in Int /\ timeLeft \in Nat
          /\ batch \in 0 .. 0 /\ ~(batch > 0)
        BY <1>2 DEF Init
    <2>6. readable \in BOOLEAN /\ stepped \in BOOLEAN /\ active \in BOOLEAN
        BY ZenonT(30) DEF Init
    <2>2. expiration_ \in [Timer -> Int] /\ interval_ \in [Timer -> Nat]
        BY DEF Init
    <2>3. /\ live \subseteq Timer /\ timers_ \subseteq Entry
          /\ expired \subseteq Entry /\ due \subseteq expired
        BY DEF Init
    <2>4. /\ phase \in {"poll", "dispatch", "handleRead", "functors"}
          /\ expired = {}
        BY DEF Init
    <2>5. QED
        BY <1>1, <2>1, <2>2, <2>3, <2>4, <2>6 DEF TypeOK
<1>4. OwnedInv
    BY <1>1 DEF Init, OwnedInv, Carried, Distinct
<1>5. ArmedInv
    BY <1>2 DEF Init, ArmedInv, Armed
<1>6. QED
    BY <1>3, <1>4, <1>5 DEF Inv

\* What new Timer does to the heap.
LEMMA NewFacts ==
    ASSUME TypeOK, NEW a \in Timer,
           \E arg \in Arguments : New(a, arg[1], arg[2])
    PROVE  /\ a \notin live /\ live' = live \cup {a} /\ live' \subseteq Timer
           /\ expiration_' \in [Timer -> Int] /\ interval_' \in [Timer -> Nat]
           /\ \A b \in Timer \ {a} : /\ expiration_'[b] = expiration_[b]
                                     /\ interval_'[b] = interval_[b]
<1>1. PICK arg \in Arguments : New(a, arg[1], arg[2])
    OBVIOUS
<1>2. arg[1] \in Int /\ arg[2] \in Nat
    <2>1. CASE arg \in (0 .. MaxTime) \X {0}
        BY <2>1, ConstantsAssumption
    <2>2. CASE arg \in {<<now + i, i>> : i \in Interval}
        <3>1. PICK i \in Interval : arg = <<now + i, i>>
            BY <2>2
        <3>2. now \in Int /\ i \in Nat
            BY ConstantsAssumption DEF TypeOK
        <3>3. arg[1] = now + i /\ arg[2] = i
            BY <3>1
        <3>4. QED
            BY <3>2, <3>3
    <2>3. QED
        BY <2>1, <2>2 DEF Arguments
<1>3. QED
    BY <1>1, <1>2 DEF New, TypeOK

\* A timer that the loop's own thread adds.
LEMMA AddTimerInv ==
    ASSUME Inv, NEW a \in Timer, AddTimer(a)
    PROVE  Inv'
<1>1. /\ TypeOK /\ OwnedInv /\ ArmedInv
    BY DEF Inv
<1>2. /\ a \notin live /\ live' = live \cup {a} /\ live' \subseteq Timer
      /\ expiration_' \in [Timer -> Int] /\ interval_' \in [Timer -> Nat]
      /\ \A b \in Timer \ {a} : expiration_'[b] = expiration_[b]
    BY <1>1, NewFacts DEF AddTimer
<1>3. /\ now' = now /\ UNCHANGED <<readVars, loopVars, pendingFunctors_>>
      /\ AddTimerInloop(a) /\ timers_' = timers_ \cup {<<expiration_'[a], a>>}
    BY DEF AddTimer, AddTimerInloop
<1>4. timeLeft' \in Nat /\ readable' \in BOOLEAN /\ stepped' \in BOOLEAN
    <2>1. CASE EarliestChanged(expiration_'[a])
        BY <1>1, <1>2, <1>3, <2>1, ResetFacts DEF AddTimerInloop, TypeOK
    <2>2. CASE ~EarliestChanged(expiration_'[a])
        BY <1>1, <1>3, <2>2 DEF AddTimerInloop, TypeOK, fdVars
    <2>3. QED
        BY <2>1, <2>2
<1>5. TypeOK'
    <2>1. timers_' \subseteq Entry
        BY <1>1, <1>2, <1>3 DEF TypeOK, Entry
    <2>2. QED
        BY <1>1, <1>2, <1>3, <1>4, <2>1 DEF TypeOK, readVars, loopVars
<1>6. OwnedInv'
    <2>1. \A e \in timers_ \cup expired : e \in Entry /\ e[2] # a
        BY <1>1, <1>2, Apart DEF OwnedInv
    <2>2. a \notin Carried(pendingFunctors_)
        BY <1>1, <1>2 DEF OwnedInv
    <2>3. expired' = expired /\ pendingFunctors_' = pendingFunctors_
        BY <1>3 DEF readVars
    <2>4. \A b \in Timer : <<expiration_'[a], a>> = <<expiration_'[b], b>> => b = a
        OBVIOUS
    <2>5. Carried(pendingFunctors_)' \subseteq live' /\ Distinct(pendingFunctors_)'
        BY <1>1, <1>2, <2>3 DEF OwnedInv, Carried, Distinct
    <2>6. \A e \in timers_' \cup expired' : e[2] \in live' /\ e[1] = expiration_'[e[2]]
        BY <1>1, <1>2, <1>3, <2>1, <2>3 DEF OwnedInv, Entry
    <2>7. \A b \in live' : \/ b \in Carried(pendingFunctors_)'
                           \/ <<expiration_'[b], b>> \in timers_' \cup expired'
        BY <1>1, <1>2, <1>3, <2>3 DEF OwnedInv, TypeOK, Carried
    <2>8. \A b \in Carried(pendingFunctors_)' :
              <<expiration_'[b], b>> \notin timers_' \cup expired'
        <3>1. \A b \in Carried(pendingFunctors_) : b \in Timer /\ b # a
            BY <1>1, <2>2 DEF OwnedInv, TypeOK
        <3>2. \A b \in Carried(pendingFunctors_) :
                  <<expiration_[b], b>> \notin timers_ \cup expired
            BY <1>1 DEF OwnedInv
        <3>3. Carried(pendingFunctors_)' = Carried(pendingFunctors_)
            BY <2>3
        <3>4. QED
            BY <1>2, <1>3, <2>3, <2>4, <3>1, <3>2, <3>3
    <2>9. timers_' \cap expired' = {}
        BY <1>1, <1>3, <2>1, <2>3 DEF OwnedInv
    <2>10. QED
        BY <2>5, <2>6, <2>7, <2>8, <2>9 DEF OwnedInv
<1>7. ArmedInv'
    <2>1. now \in Int /\ now > 0 /\ timeLeft \in Nat /\ timers_ \subseteq Entry
        BY <1>1 DEF TypeOK, ArmedInv
    <2>2. expiration_'[a] \in Int
        BY <1>2
    <2>3. phase' = phase /\ readTime' = readTime
        BY <1>3 DEF loopVars, readVars
    <2>4. /\ (\A e \in timers_ : ArmedFor(e)) => \A e \in timers_' : ArmedFor(e)'
          /\ (\A e \in timers_ : ~Valid(e[1]) => ArmedFor(e))
                 => \A e \in timers_' : ~Valid(e[1]) => ArmedFor(e)'
        BY <1>3, <2>1, <2>2, AddArms
    <2>5. QED
        BY <1>1, <1>3, <2>1, <2>3, <2>4 DEF ArmedInv, Armed
<1>8. QED
    BY <1>5, <1>6, <1>7 DEF Inv

\* While the clock and the timerfd stay as they are, what it is armed for does.
LEMMA SameArmed ==
    ASSUME UNCHANGED <<now, fdVars>>
    PROVE  \A e : ArmedFor(e)' <=> ArmedFor(e)
BY DEF ArmedFor, fdVars

\* A timer that another thread adds.
LEMMA QueueTimerInv ==
    ASSUME Inv, NEW a \in Timer, QueueTimer(a)
    PROVE  Inv'
<1>1. /\ TypeOK /\ OwnedInv /\ ArmedInv
    BY DEF Inv
<1>2. /\ a \notin live /\ live' = live \cup {a} /\ live' \subseteq Timer
      /\ expiration_' \in [Timer -> Int] /\ interval_' \in [Timer -> Nat]
      /\ \A b \in Timer \ {a} : expiration_'[b] = expiration_[b]
    BY <1>1, NewFacts DEF QueueTimer
<1>3. /\ UNCHANGED <<now, fdVars, timers_, readVars, loopVars>>
      /\ pendingFunctors_' = Append(pendingFunctors_, a)
    BY DEF QueueTimer
<1>4. /\ pendingFunctors_ \in Seq(Timer) /\ Distinct(pendingFunctors_)
      /\ a \notin Carried(pendingFunctors_) /\ Len(pendingFunctors_) \in Nat
    BY <1>1, <1>2, LenProperties DEF TypeOK, OwnedInv
<1>5. /\ pendingFunctors_' \in Seq(Timer)
      /\ Len(pendingFunctors_') = Len(pendingFunctors_) + 1
      /\ Carried(pendingFunctors_') = Carried(pendingFunctors_) \cup {a}
      /\ Distinct(pendingFunctors_')
    BY <1>3, <1>4, AppendFacts
<1>6. TypeOK'
    <2>1. batch' \in 0 .. Len(pendingFunctors_')
        BY <1>1, <1>3, <1>4, <1>5 DEF TypeOK, loopVars
    <2>2. QED
        BY <1>1, <1>2, <1>3, <1>5, <2>1 DEF TypeOK, readVars, loopVars, fdVars
<1>7. OwnedInv'
    <2>1. /\ timers_' = timers_ /\ expired' = expired
          /\ \A e \in timers_ \cup expired : e \in Entry /\ e[2] # a
        BY <1>1, <1>2, <1>3, Apart DEF OwnedInv, readVars
    <2>2. Carried(pendingFunctors_') \subseteq live'
        BY <1>1, <1>2, <1>5 DEF OwnedInv
    <2>3. \A e \in timers_' \cup expired' : e[2] \in live' /\ e[1] = expiration_'[e[2]]
        BY <1>1, <1>2, <2>1 DEF OwnedInv, Entry
    <2>4. \A b \in live' : \/ b \in Carried(pendingFunctors_')
                           \/ <<expiration_'[b], b>> \in timers_' \cup expired'
        <3>1. ASSUME NEW b \in live, b \notin Carried(pendingFunctors_)
              PROVE  <<expiration_'[b], b>> \in timers_' \cup expired'
            <4>1. <<expiration_[b], b>> \in timers_ \cup expired
                BY <1>1, <3>1 DEF OwnedInv
            <4>2. expiration_'[b] = expiration_[b]
                BY <1>1, <1>2, <3>1 DEF TypeOK
            <4>3. QED
                BY <2>1, <4>1, <4>2
        <3>2. QED
            BY <1>2, <1>5, <3>1
    <2>5. \A b \in Carried(pendingFunctors_') :
              <<expiration_'[b], b>> \notin timers_' \cup expired'
        <3>1. ASSUME NEW b \in Carried(pendingFunctors_)
              PROVE  <<expiration_'[b], b>> \notin timers_' \cup expired'
            <4>1. <<expiration_[b], b>> \notin timers_ \cup expired
                BY <1>1, <3>1 DEF OwnedInv
            <4>2. expiration_'[b] = expiration_[b]
                BY <1>1, <1>2, <1>4, <3>1 DEF TypeOK, OwnedInv
            <4>3. QED
                BY <2>1, <4>1, <4>2
        <3>2. <<expiration_'[a], a>> \notin timers_' \cup expired'
            BY <2>1
        <3>3. QED
            BY <1>5, <3>1, <3>2
    <2>6. timers_' \cap expired' = {}
        BY <1>1, <2>1 DEF OwnedInv
    <2>7. QED
        BY <1>5, <2>2, <2>3, <2>4, <2>5, <2>6 DEF OwnedInv
<1>8. ArmedInv'
    BY <1>1, <1>3, SameArmed DEF ArmedInv, Armed, readVars, loopVars
<1>9. QED
    BY <1>6, <1>7, <1>8 DEF Inv

\* handleRead's batch: what is not in it has a time that is to come.
LEMMA HandleReadInv ==
    ASSUME Inv, HandleRead
    PROVE  Inv'
<1>1. /\ TypeOK /\ OwnedInv /\ ArmedInv
    BY DEF Inv
<1>2. /\ phase = "dispatch" /\ phase' = "handleRead" /\ active' = FALSE
      /\ readable' = FALSE
      /\ expired' = {e \in timers_ : e[1] <= now} /\ due' = expired'
      /\ timers_' = timers_ \ expired' /\ readTime' = now
      /\ UNCHANGED <<now, timeLeft, stepped, heapVars, pendingFunctors_, batch>>
    BY DEF HandleRead
<1>3. expired = {} /\ timers_' \cup expired' = timers_ /\ timers_' \cap expired' = {}
    BY <1>1, <1>2 DEF TypeOK
<1>4. TypeOK'
    <2>1. expired' \subseteq Entry /\ timers_' \subseteq Entry
        BY <1>1, <1>2 DEF TypeOK
    <2>2. ~(batch' > 0)
        BY <1>1, <1>2 DEF TypeOK
    <2>3. QED
        BY <1>1, <1>2, <2>1, <2>2 DEF TypeOK, heapVars
<1>5. OwnedInv'
    BY <1>1, <1>2, <1>3 DEF OwnedInv, heapVars, Carried, Distinct
<1>6. ArmedInv'
    <2>1. \A e \in timers_' : e[1] \in Int /\ e[1] > now
        BY <1>1, <1>2 DEF TypeOK, Entry
    <2>2. now \in Int /\ now > 0 /\ readTime' = now /\ now' = now
        BY <1>1, <1>2 DEF TypeOK, ArmedInv
    <2>3. \A e \in timers_' : Valid(e[1])
        BY <2>1, <2>2 DEF Valid
    <2>4. QED
        BY <1>2, <2>2, <2>3 DEF ArmedInv, Armed
<1>7. QED
    BY <1>4, <1>5, <1>6 DEF Inv

\* The steps of the loop that leave the timers, the clock and the timerfd alone.
LEMMA ControlInv ==
    ASSUME Inv, Poll \/ RunTimer \/ BeginDrain \/ EndDrain
    PROVE  Inv'
<1>1. /\ TypeOK /\ OwnedInv /\ ArmedInv
    BY DEF Inv
<1>2. /\ UNCHANGED <<now, fdVars, heapVars, timers_, expired, readTime, pendingFunctors_>>
      /\ due' \subseteq due
      /\ phase' = "handleRead" <=> phase = "handleRead"
    BY DEF Poll, RunTimer, BeginDrain, EndDrain, readVars, loopVars
<1>3. TypeOK'
    <2>1. /\ phase' \in {"poll", "dispatch", "handleRead", "functors"}
          /\ active' \in BOOLEAN
        BY <1>1 DEF Poll, RunTimer, BeginDrain, EndDrain, loopVars, TypeOK, fdVars
    <2>2. batch' \in 0 .. Len(pendingFunctors_) /\ (batch' > 0 => phase' = "functors")
        <3>1. Len(pendingFunctors_) \in Nat
            BY <1>1, LenProperties DEF TypeOK
        <3>2. CASE Poll
            BY <1>1, <3>2 DEF Poll, TypeOK
        <3>3. CASE RunTimer
            BY <1>1, <3>3 DEF RunTimer, TypeOK, loopVars
        <3>4. CASE BeginDrain
            BY <3>1, <3>4 DEF BeginDrain
        <3>5. CASE EndDrain
            BY <3>1, <3>5 DEF EndDrain
        <3>6. QED
            BY <3>2, <3>3, <3>4, <3>5
    <2>3. QED
        BY <1>1, <1>2, <2>1, <2>2 DEF TypeOK, fdVars, heapVars
<1>4. OwnedInv'
    BY <1>1, <1>2 DEF OwnedInv, heapVars, Carried, Distinct
<1>5. ArmedInv'
    BY <1>1, <1>2, SameArmed DEF ArmedInv, Armed
<1>6. QED
    BY <1>3, <1>4, <1>5 DEF Inv

\* A functor that is run hands its timer to timers_.
LEMMA RunFunctorInv ==
    ASSUME Inv, RunFunctor
    PROVE  Inv'
<1>1. /\ TypeOK /\ OwnedInv /\ ArmedInv
    BY DEF Inv
<1> DEFINE a == Head(pendingFunctors_)
           rest == Tail(pendingFunctors_)
           new == <<expiration_[a], a>>
<1>2. /\ phase = "functors" /\ batch > 0 /\ batch' = batch - 1
      /\ pendingFunctors_' = rest /\ UNCHANGED heapVars
      /\ AddTimerInloop(a) /\ timers_' = timers_ \cup {new}
      /\ UNCHANGED <<now, readVars, phase, active>>
    BY DEF RunFunctor, AddTimerInloop, heapVars
<1>3. /\ pendingFunctors_ \in Seq(Timer) /\ pendingFunctors_ # <<>>
      /\ Distinct(pendingFunctors_) /\ Len(pendingFunctors_) \in Nat
      /\ batch \in 0 .. Len(pendingFunctors_)
    BY <1>1, <1>2, LenProperties, EmptySeq DEF TypeOK, OwnedInv
<1>4. /\ a \in Timer /\ rest \in Seq(Timer)
      /\ Len(rest) = Len(pendingFunctors_) - 1
      /\ Carried(pendingFunctors_) = Carried(rest) \cup {a}
      /\ a \notin Carried(rest) /\ Distinct(rest)
    BY <1>3, TailFacts
<1> HIDE DEF a, rest
<1>5. expiration_' = expiration_ /\ expiration_'[a] \in Int /\ new \in Entry
    BY <1>1, <1>2, <1>4 DEF heapVars, TypeOK, Entry
<1>6. timeLeft' \in Nat /\ readable' \in BOOLEAN /\ stepped' \in BOOLEAN
    <2>1. CASE EarliestChanged(expiration_'[a])
        BY <1>1, <1>2, <1>5, <2>1, ResetFacts DEF AddTimerInloop, TypeOK
    <2>2. CASE ~EarliestChanged(expiration_'[a])
        BY <1>1, <1>2, <2>2 DEF AddTimerInloop, TypeOK, fdVars
    <2>3. QED
        BY <2>1, <2>2
<1>7. TypeOK'
    <2>1. batch' \in 0 .. Len(rest)
        BY <1>2, <1>3, <1>4
    <2>2. QED
        BY <1>1, <1>2, <1>4, <1>5, <1>6, <2>1 DEF TypeOK, heapVars, readVars
<1>8. OwnedInv'
    <2>1. expired' = expired /\ live' = live /\ a \in live /\ new[2] = a
          /\ new[1] = expiration_[a]
        BY <1>1, <1>2, <1>4 DEF readVars, heapVars, OwnedInv
    <2>2. \A b \in Carried(rest) : b # a /\ <<expiration_[b], b>> # new
        BY <1>4
    <2>3. new \notin timers_ \cup expired
        BY <1>1, <1>4 DEF OwnedInv
    <2> HIDE DEF new
    <2>4. Carried(rest) \subseteq live'
        BY <1>1, <1>4, <2>1 DEF OwnedInv
    <2>5. \A e \in timers_' \cup expired' : e[2] \in live' /\ e[1] = expiration_'[e[2]]
        BY <1>1, <1>2, <1>5, <2>1 DEF OwnedInv
    <2>6. \A b \in live' : \/ b \in Carried(rest)
                           \/ <<expiration_'[b], b>> \in timers_' \cup expired'
        BY <1>1, <1>2, <1>4, <1>5, <2>1 DEF OwnedInv, new
    <2>7. \A b \in Carried(rest) : <<expiration_'[b], b>> \notin timers_' \cup expired'
        BY <1>1, <1>2, <1>4, <1>5, <2>1, <2>2 DEF OwnedInv
    <2>8. timers_' \cap expired' = {}
        BY <1>1, <1>2, <2>1, <2>3 DEF OwnedInv
    <2>9. QED
        BY <1>2, <1>4, <2>4, <2>5, <2>6, <2>7, <2>8 DEF OwnedInv
<1>9. ArmedInv'
    <2>1. now \in Int /\ now > 0 /\ timeLeft \in Nat /\ timers_ \subseteq Entry
        BY <1>1 DEF TypeOK, ArmedInv
    <2>2. (\A e \in timers_ : ArmedFor(e)) => \A e \in timers_' : ArmedFor(e)'
        BY <1>2, <1>4, <1>5, <2>1, AddArms
    <2>3. QED
        BY <1>1, <1>2, <2>1, <2>2 DEF ArmedInv, Armed
<1>10. QED
    BY <1>7, <1>8, <1>9 DEF Inv

\* Time passes or the wall clock is set: the timerfd comes closer as the times
\* do, or the clock was set since it was armed.
LEMMA ClockInv ==
    ASSUME Inv, Tick \/ StepClock
    PROVE  Inv'
<1>1. /\ TypeOK /\ OwnedInv /\ ArmedInv
    BY DEF Inv
<1>2. UNCHANGED <<heapVars, timers_, readVars, loopVars, pendingFunctors_>>
    BY DEF Tick, StepClock
<1>3. /\ now' \in Int /\ now' > 0 /\ timeLeft' \in Nat
      /\ readable' \in BOOLEAN /\ stepped' \in BOOLEAN
    <2>1. CASE Tick
        <3>1. now' \in Int /\ now' > 0 /\ timeLeft' \in Nat
            BY <1>1, <2>1 DEF Tick, TypeOK, ArmedInv
        <3>2. readable' \in BOOLEAN /\ stepped' \in BOOLEAN
            BY <1>1, <2>1 DEF Tick, TypeOK
        <3>3. QED
            BY <3>1, <3>2
    <2>2. CASE StepClock
        <3>1. now' \in 1 .. MaxTime
            BY <2>2 DEF StepClock
        <3>2. now' \in Int /\ now' > 0
            BY <3>1, ConstantsAssumption
        <3>3. QED
            BY <1>1, <2>2, <3>2 DEF StepClock, TypeOK
    <2>3. QED
        BY <2>1, <2>2
<1>4. TypeOK'
    BY <1>1, <1>2, <1>3 DEF TypeOK, heapVars, readVars, loopVars
<1>5. OwnedInv'
    BY <1>1, <1>2 DEF OwnedInv, heapVars, readVars, Carried, Distinct
<1>6. \A e \in Entry : ArmedFor(e) => ArmedFor(e)'
    <2> SUFFICES ASSUME NEW e \in Entry, ArmedFor(e) PROVE ArmedFor(e)'
        OBVIOUS
    <2>1. /\ e[1] \in Int /\ now \in Int /\ now' \in Int /\ timeLeft \in Nat
          /\ MinDelay \in Nat \ {0}
        BY <1>1, <1>3, ConstantsAssumption DEF TypeOK, Entry
    <2>2. CASE Tick
        <3>1. now' = now \/ now' = now + 1
            BY <2>2 DEF Tick
        <3>2. Later(e[1] - now, MinDelay) - 1 <= Later(e[1] - now', MinDelay)
            BY <2>1, <3>1 DEF Later
        <3>3. /\ Later(e[1] - now, MinDelay) \in Int
              /\ Later(e[1] - now', MinDelay) \in Int
            BY <2>1 DEF Later
        <3>4. CASE readable
            BY <2>2, <3>4 DEF Tick, ArmedFor
        <3>5. CASE timeLeft = 1
            BY <2>2, <3>5 DEF Tick, ArmedFor
        <3>6. CASE ~readable /\ timeLeft # 1
            <4>1. timeLeft > 0 /\ timeLeft' = timeLeft - 1 /\ timeLeft' > 0
                BY <2>1, <2>2, <3>6 DEF Tick, ArmedFor
            <4>2. CASE stepped
                BY <2>2, <4>1, <4>2 DEF Tick, ArmedFor
            <4>3. CASE ~stepped
                <5>1. timeLeft <= Later(e[1] - now, MinDelay)
                    BY <3>6, <4>3 DEF ArmedFor
                <5>2. timeLeft' <= Later(e[1] - now', MinDelay)
                    BY <2>1, <3>2, <3>3, <4>1, <5>1
                <5>3. QED
                    BY <4>1, <5>2 DEF ArmedFor
            <4>4. QED
                BY <4>2, <4>3
        <3>7. QED
            BY <3>4, <3>5, <3>6
    <2>3. CASE StepClock
        BY <2>3 DEF StepClock, ArmedFor
    <2>4. QED
        BY <2>2, <2>3
<1>7. ArmedInv'
    <2>1. timers_ \subseteq Entry
        BY <1>1 DEF TypeOK
    <2>2. QED
        BY <1>1, <1>2, <1>3, <1>6, <2>1 DEF ArmedInv, Armed, readVars, loopVars
<1>8. QED
    BY <1>4, <1>5, <1>7 DEF Inv

\* Where the timers of the batch go at its end.
LEMMA RestartFacts ==
    ASSUME TypeOK, OwnedInv, Restart
    PROVE  /\ \A e \in expired : e[2] \in Repeats \cup Deleted
           /\ \A a \in Repeats \cup Deleted : <<expiration_[a], a>> \in expired
           /\ Repeats \subseteq live /\ Repeats \cap Deleted = {}
           /\ \A a \in Repeats : /\ interval_[a] \in Nat /\ interval_[a] > 0
                                 /\ expiration_'[a] = readTime + interval_[a]
                                 /\ interval_'[a] = interval_[a]
           /\ \A a \in Timer \ (Repeats \cup Deleted) :
                  expiration_'[a] = expiration_[a] /\ interval_'[a] = interval_[a]
           /\ expiration_' \in [Timer -> Int] /\ interval_' \in [Timer -> Nat]
           /\ \A a \in Carried(pendingFunctors_) : a \notin Repeats \cup Deleted
           /\ \A e \in timers_ : e[2] \notin Repeats \cup Deleted
<1>1. /\ \A e \in expired : e \in Entry /\ e = <<e[1], e[2]>> /\ e[2] \in live
                            /\ e[2] \in Timer /\ e[1] = expiration_[e[2]]
    BY Apart DEF OwnedInv, Entry
<1>2. Repeats \subseteq Timer /\ Deleted \subseteq Timer /\ readTime \in Int
    BY <1>1 DEF Repeats, Deleted, TypeOK
<1>3. \A e \in expired : e[2] \in Repeats \cup Deleted
    BY DEF Repeats, Deleted
<1>4. \A a \in Repeats \cup Deleted : <<expiration_[a], a>> \in expired
    BY <1>1 DEF Repeats, Deleted
<1>5. Repeats \subseteq live /\ Repeats \cap Deleted = {}
    BY <1>1 DEF Repeats, Deleted
<1>6. \A a \in Repeats : interval_[a] \in Nat /\ interval_[a] > 0
    BY <1>1 DEF Repeats, TypeOK
<1>7. \A a \in Timer :
          /\ expiration_'[a] = IF a \in Repeats THEN readTime + interval_[a]
                               ELSE IF a \in Deleted THEN 0 ELSE expiration_[a]
          /\ interval_'[a] = IF a \in Deleted THEN 0 ELSE interval_[a]
    BY DEF Restart
<1>8. expiration_' \in [Timer -> Int] /\ interval_' \in [Timer -> Nat]
    BY <1>2, <1>6 DEF Restart, TypeOK
<1>9. \A a \in Carried(pendingFunctors_) : a \notin Repeats \cup Deleted
    <2>1. \A a : <<expiration_[a], a>> \in expired => a \notin Carried(pendingFunctors_)
        BY DEF OwnedInv
    <2>2. QED
        BY <1>4, <2>1
<1>10. \A e \in timers_ : e[2] \notin Repeats \cup Deleted
    BY <1>4, Apart
<1>11. QED
    BY <1>2, <1>3, <1>4, <1>5, <1>6, <1>7, <1>8, <1>9, <1>10

\* handleRead's end: a timer that is not valid was added during the batch and
\* has armed the timerfd for all of them, and otherwise reset arms it.
LEMMA ResetInv ==
    ASSUME Inv, Reset
    PROVE  Inv'
<1>1. /\ TypeOK /\ OwnedInv /\ ArmedInv
    BY DEF Inv
<1>2. /\ phase = "handleRead" /\ due = {} /\ phase' = "dispatch"
      /\ expired' = {} /\ readTime' = 0
      /\ Restart /\ ArmForFirst(timers_')
      /\ UNCHANGED <<now, due, active, batch, pendingFunctors_>>
    BY DEF Reset
<1>3. /\ live' = live \ Deleted
      /\ timers_' = timers_ \cup {<<expiration_'[a], a>> : a \in Repeats}
    BY <1>2 DEF Restart
<1>4. /\ \A e \in expired : e[2] \in Repeats \cup Deleted
      /\ Repeats \subseteq live /\ Repeats \cap Deleted = {}
      /\ \A a \in Repeats : /\ interval_[a] \in Nat /\ interval_[a] > 0
                            /\ expiration_'[a] = readTime + interval_[a]
      /\ \A a \in Timer \ (Repeats \cup Deleted) : expiration_'[a] = expiration_[a]
      /\ expiration_' \in [Timer -> Int] /\ interval_' \in [Timer -> Nat]
      /\ \A a \in Carried(pendingFunctors_) : a \notin Repeats \cup Deleted
      /\ \A e \in timers_ : e[2] \notin Repeats \cup Deleted
    BY <1>1, <1>2, RestartFacts
<1>5. \A e \in timers_' : e \in timers_ \/ \E a \in Repeats : e = <<expiration_'[a], a>>
    BY <1>3
<1>6. timers_' \subseteq Entry
    <2>1. \A a \in Repeats : a \in Timer /\ expiration_'[a] \in Int
        BY <1>1, <1>4 DEF TypeOK
    <2>2. \A e \in timers_ : e \in Entry
        BY <1>1 DEF TypeOK
    <2>3. QED
        BY <1>5, <2>1, <2>2 DEF Entry
<1>7. /\ timeLeft' \in Nat /\ readable' \in BOOLEAN /\ stepped' \in BOOLEAN
      /\ \A f \in timers_' : ArmedFor(f)'
    <2>1. CASE timers_' # {} /\ \A e \in timers_' : Valid(e[1])
        <3>1. PICK e \in timers_' : IsFirst(e, timers_') /\ ResetTimerfd(e[1])
            BY <1>2, <2>1 DEF ArmForFirst
        <3>2. /\ now \in Int /\ now' = now
              /\ \A f \in timers_' : f \in Entry /\ f[1] \in Int
            BY <1>1, <1>2, <1>6 DEF Entry, TypeOK
        <3>3. e[1] \in Int /\ \A f \in timers_' : e[1] <= f[1]
            BY <3>1, <3>2 DEF IsFirst
        <3>4. timeLeft' \in Nat /\ readable' \in BOOLEAN /\ stepped' \in BOOLEAN
            BY <3>1, <3>2, <3>3, ResetFacts
        <3>5. \A f \in timers_' : ArmedFor(f)'
            BY <3>1, <3>2, <3>3, ResetArms
        <3>6. QED
            BY <3>4, <3>5
    <2>2. CASE ~(timers_' # {} /\ \A e \in timers_' : Valid(e[1]))
        <3>1. UNCHANGED <<now, fdVars>>
            BY <1>2, <2>2 DEF ArmForFirst
        <3>2. timeLeft' \in Nat /\ readable' \in BOOLEAN /\ stepped' \in BOOLEAN
            BY <1>1, <3>1 DEF TypeOK, fdVars
        <3>3. ASSUME NEW f \in timers_' PROVE ArmedFor(f)'
            <4>1. PICK e \in timers_' : ~Valid(e[1])
                BY <2>2, <3>3
            <4>2. \A a \in Repeats : Valid(expiration_'[a])
                BY <1>1, <1>2, <1>4 DEF Valid, ArmedInv, TypeOK
            <4>3. e \in timers_
                BY <1>5, <4>1, <4>2
            <4>4. ArmedFor(e)
                BY <1>1, <1>2, <4>1, <4>3 DEF ArmedInv
            <4>5. /\ now \in Int /\ timeLeft \in Nat /\ e \in Entry /\ f \in Entry
                  /\ e[1] <= now
                BY <1>1, <1>6, <3>3, <4>1 DEF TypeOK, ArmedInv, Valid, Entry
            <4>6. ArmedFor(f)
                BY <4>4, <4>5, LaterIsArmed
            <4>7. QED
                BY <3>1, <4>6, SameArmed
        <3>4. QED
            BY <3>2, <3>3
    <2>3. QED
        BY <2>1, <2>2
<1>8. TypeOK'
    BY <1>1, <1>2, <1>3, <1>4, <1>6, <1>7 DEF TypeOK
<1>9. OwnedInv'
    <2>1. \A a \in Carried(pendingFunctors_) :
              a \in live' /\ expiration_'[a] = expiration_[a]
        BY <1>1, <1>3, <1>4 DEF OwnedInv, TypeOK
    <2>2. \A e \in timers_' : e[2] \in live' /\ e[1] = expiration_'[e[2]]
        <3>1. \A e \in timers_ : e[2] \in live' /\ e[1] = expiration_'[e[2]]
            BY <1>1, <1>3, <1>4 DEF OwnedInv, TypeOK
        <3>2. \A a \in Repeats : a \in live'
            BY <1>3, <1>4
        <3>3. QED
            BY <1>5, <3>1, <3>2
    <2>3. ASSUME NEW a \in live', a \notin Carried(pendingFunctors_)
          PROVE  <<expiration_'[a], a>> \in timers_'
        <3>1. CASE a \in Repeats
            BY <1>3, <3>1
        <3>2. CASE a \notin Repeats
            <4>1. a \in live /\ a \in Timer /\ a \notin Repeats \cup Deleted
                BY <1>1, <1>3, <2>3, <3>2 DEF TypeOK
            <4>2. <<expiration_[a], a>> \in timers_ \cup expired
                BY <1>1, <2>3, <4>1 DEF OwnedInv
            <4>3. <<expiration_[a], a>> \in timers_
                BY <1>4, <4>1, <4>2
            <4>4. QED
                BY <1>3, <1>4, <4>1, <4>3
        <3>3. QED
            BY <3>1, <3>2
    <2>4. ASSUME NEW a \in Carried(pendingFunctors_)
          PROVE  <<expiration_'[a], a>> \notin timers_'
        <3>1. <<expiration_'[a], a>> \notin timers_
            BY <1>1, <2>1 DEF OwnedInv
        <3>2. a \notin Repeats
            BY <1>4
        <3>3. QED
            BY <1>5, <3>1, <3>2
    <2>5. Distinct(pendingFunctors_)
        BY <1>1 DEF OwnedInv
    <2>6. QED
        BY <1>2, <2>1, <2>2, <2>3, <2>4, <2>5 DEF OwnedInv
<1>10. ArmedInv'
    BY <1>1, <1>2, <1>7 DEF ArmedInv, Armed
<1>11. QED
    BY <1>8, <1>9, <1>10 DEF Inv

\* Every step preserves the invariant.
LEMMA NextInv == Inv /\ [Next]_vars => Inv'
<1> SUFFICES ASSUME Inv, [Next]_vars PROVE Inv'
    OBVIOUS
<1>1. CASE Poll \/ RunTimer \/ BeginDrain \/ EndDrain
    BY <1>1, ControlInv
<1>2. CASE HandleRead
    BY <1>2, HandleReadInv
<1>3. CASE Reset
    BY <1>3, ResetInv
<1>4. CASE RunFunctor
    BY <1>4, RunFunctorInv
<1>5. CASE \E a \in Timer : AddTimer(a) \/ QueueTimer(a)
    BY <1>5, AddTimerInv, QueueTimerInv
<1>6. CASE Tick \/ StepClock
    BY <1>6, ClockInv
<1>7. CASE UNCHANGED vars
    <2>1. /\ UNCHANGED <<now, fdVars, heapVars, timers_, readVars, loopVars>>
          /\ UNCHANGED pendingFunctors_
        BY <1>7 DEF vars
    <2>2. TypeOK'
        BY <2>1 DEF Inv, TypeOK, fdVars, heapVars, readVars, loopVars
    <2>3. OwnedInv'
        BY <2>1 DEF Inv, OwnedInv, heapVars, readVars, Carried, Distinct
    <2>4. ArmedInv'
        BY <2>1, SameArmed DEF Inv, ArmedInv, Armed, readVars, loopVars
    <2>5. QED
        BY <2>2, <2>3, <2>4 DEF Inv
<1>8. QED
    BY <1>1, <1>2, <1>3, <1>4, <1>5, <1>6, <1>7 DEF Next, LoopStep

\* The invariant holds in every state that a queue can reach.
THEOREM Invariance == Spec => []Inv
<1>1. Init => Inv
    BY InitInv
<1>2. Inv /\ [Next]_vars => Inv'
    BY NextInv
<1>3. QED
    BY <1>1, <1>2, PTL DEF Spec

\* The variables have the values that the code's types and the phases of an
\* iteration allow: there is a batch only within handleRead.
THEOREM TypeCorrect == Spec => []TypeOK
<1>1. Inv => TypeOK
    BY DEF Inv
<1>2. QED
    BY <1>1, Invariance, PTL

\* Every Timer is owned by a functor, timers_ or the batch of handleRead, by
\* one of them and once, from the new in addTimer to the delete in reset.
THEOREM OwnersUnique == Spec => []OwnedOnce
<1>1. Inv => OwnedOnce
    <2> SUFFICES ASSUME Inv PROVE OwnedOnce
        OBVIOUS
    <2>1. TypeOK /\ OwnedInv
        BY DEF Inv
    <2>2. InFunctors = {<<expiration_[a], a>> : a \in Carried(pendingFunctors_)}
        BY DEF InFunctors, Carried
    <2>3. \A e \in timers_ \cup expired : e = <<e[1], e[2]>>
        BY <2>1, Apart
    <2>4. Queued = InFunctors \cup timers_ \cup expired
        <3>1. Queued \subseteq InFunctors \cup timers_ \cup expired
            BY <2>1, <2>2 DEF Queued, OwnedInv
        <3>2. InFunctors \subseteq Queued
            BY <2>1, <2>2 DEF Queued, OwnedInv
        <3>3. timers_ \cup expired \subseteq Queued
            BY <2>1, <2>3 DEF Queued, OwnedInv
        <3>4. QED
            BY <3>1, <3>2, <3>3
    <2>5. InFunctors \cap (timers_ \cup expired) = {}
        BY <2>1, <2>2 DEF OwnedInv
    <2>6. QED
        BY <2>1, <2>4, <2>5 DEF OwnedOnce, OwnedInv, Distinct
<1>2. QED
    BY <1>1, Invariance, PTL

\* Outside handleRead the timerfd is armed for the earliest of the timers, or
\* has expired, whichever callbacks and threads added them and when: the branch
\* of reset that arms nothing is taken only when it is armed already.
THEOREM AlwaysArmed == Spec => []Armed
<1>1. Inv => Armed
    BY DEF Inv, ArmedInv
<1>2. QED
    BY <1>1, Invariance, PTL

-----------------------------------------------------------------------------
(***************************************************************************)
(* The queue implements the timer service.                                 *)
(***************************************************************************)

Waiting == Full(timers_ \cup InFunctors)
Resting == {c \in Full(expired \ due) : c[3] > 0}

\* Full, with the intervals of the next state.
FullNext(S) == {<<e[1], e[2], interval_'[e[2]]>> : e \in S}

\* The intervals of the timers of S stay.
LEMMA FullKept ==
    ASSUME NEW S, \A e \in S : interval_'[e[2]] = interval_[e[2]]
    PROVE  FullNext(S) = Full(S)
BY DEF Full, FullNext

\* Full tells timers apart as their entries do.
LEMMA FullApart ==
    ASSUME NEW S, S \subseteq Entry, NEW T, T \subseteq S
    PROVE  Full(S \ T) = Full(S) \ Full(T)
BY DEF Full, Entry

\* The timers of the service and of functors are objects.
LEMMA Names ==
    ASSUME Inv
    PROVE  /\ InFunctors = {<<expiration_[a], a>> : a \in Carried(pendingFunctors_)}
           /\ \A e \in timers_ \cup InFunctors \cup expired : e \in Entry /\ e[2] \in live
           /\ \A c \in Waiting \cup Full(due) \cup Resting : c[2] \in live
           /\ InFunctors \cap timers_ = {}
<1>1. TypeOK /\ OwnedInv
    BY DEF Inv
<1>2. InFunctors = {<<expiration_[a], a>> : a \in Carried(pendingFunctors_)}
    BY DEF InFunctors, Carried
<1>3. \A a \in Carried(pendingFunctors_) :
          /\ a \in Timer /\ a \in live /\ expiration_[a] \in Int
          /\ <<expiration_[a], a>> \notin timers_
    BY <1>1 DEF TypeOK, OwnedInv
<1>4. \A e \in timers_ \cup InFunctors \cup expired : e \in Entry /\ e[2] \in live
    <2>1. \A e \in InFunctors : e \in Entry /\ e[2] \in live
        BY <1>2, <1>3 DEF Entry
    <2>2. \A e \in timers_ \cup expired : e \in Entry /\ e[2] \in live
        BY <1>1 DEF TypeOK, OwnedInv
    <2>3. QED
        BY <2>1, <2>2
<1>5. due \subseteq expired
    BY <1>1 DEF TypeOK
<1>6. \A c \in Waiting \cup Full(due) \cup Resting : c[2] \in live
    BY <1>4, <1>5 DEF Waiting, Resting, Full
<1>7. QED
    BY <1>2, <1>3, <1>4, <1>6

\* What new Timer adds for the service, to timers_ or to the functors.
LEMMA ScheduleStep ==
    ASSUME Inv, NEW a \in Timer, \E arg \in Arguments : New(a, arg[1], arg[2]),
           timers_' \cup InFunctors' =
               timers_ \cup InFunctors \cup {<<expiration_'[a], a>>},
           UNCHANGED <<now, readVars>>
    PROVE  \E c \in Waiting' : Service!Schedule(c)
<1> DEFINE new == <<expiration_'[a], a>>
           c == <<expiration_'[a], a, interval_'[a]>>
<1>1. TypeOK
    BY DEF Inv
<1>2. /\ a \notin live
      /\ \A b \in Timer \ {a} : interval_'[b] = interval_[b]
    BY <1>1, NewFacts
<1>3. /\ \A e \in timers_ \cup InFunctors \cup expired : e \in Entry /\ e[2] # a
      /\ due \subseteq expired
    BY <1>1, <1>2, Names DEF TypeOK
<1>4. \A e \in timers_ \cup InFunctors \cup expired : interval_'[e[2]] = interval_[e[2]]
    BY <1>2, <1>3 DEF Entry
<1>5. Waiting' = FullNext(timers_' \cup InFunctors')
    BY DEF Waiting, Full, FullNext
<1>6. FullNext(timers_ \cup InFunctors \cup {new})
          = FullNext(timers_ \cup InFunctors) \cup {c}
    <2>1. FullNext(timers_ \cup InFunctors \cup {new})
              = FullNext(timers_ \cup InFunctors) \cup FullNext({new})
        BY DEF FullNext
    <2>2. new[1] = expiration_'[a] /\ new[2] = a
        OBVIOUS
    <2> HIDE DEF new
    <2>3. FullNext({new}) = {c}
        BY <2>2 DEF FullNext
    <2>4. QED
        BY <2>1, <2>3
<1>7. FullNext(timers_ \cup InFunctors) = Waiting
    BY <1>4, FullKept DEF Waiting
<1>8. Waiting' = Waiting \cup {c}
    BY <1>5, <1>6, <1>7
<1>9. expired' = expired /\ due' = due /\ readTime' = readTime /\ now' = now
    BY DEF readVars
<1>10. Full(due)' = Full(due)
    <2>1. Full(due)' = FullNext(due)
        BY <1>9 DEF Full, FullNext
    <2>2. QED
        BY <1>3, <1>4, <2>1, FullKept
<1>11. Resting' = Resting
    <2>1. Full(expired \ due)' = FullNext(expired \ due)
        BY <1>9 DEF Full, FullNext
    <2>2. FullNext(expired \ due) = Full(expired \ due)
        BY <1>4, FullKept
    <2>3. QED
        BY <2>1, <2>2 DEF Resting
<1>12. \A d \in Waiting \cup Full(due) \cup Resting : d[2] # c[2]
    BY <1>2, Names
<1> HIDE DEF c
<1>13. Service!Schedule(c)
    BY <1>8, <1>9, <1>10, <1>11, <1>12 DEF Service!Schedule, Waiting, Resting
<1>14. QED
    BY <1>8, <1>13

\* A new entry for the functors, or for timers_, and none for the other.
LEMMA AddStep ==
    ASSUME Inv, NEW a \in Timer, AddTimer(a) \/ QueueTimer(a)
    PROVE  \E c \in Waiting' : Service!Schedule(c)
<1>1. TypeOK /\ OwnedInv
    BY DEF Inv
<1>2. /\ a \notin live /\ \E arg \in Arguments : New(a, arg[1], arg[2])
      /\ \A b \in Timer \ {a} : expiration_'[b] = expiration_[b]
      /\ UNCHANGED <<now, readVars>>
    BY <1>1, NewFacts DEF AddTimer, QueueTimer
<1>3. InFunctors = {<<expiration_[b], b>> : b \in Carried(pendingFunctors_)}
    BY Names
<1>4. InFunctors' = {<<expiration_'[b], b>> : b \in Carried(pendingFunctors_')}
    BY DEF InFunctors, Carried
<1>5. \A b \in Carried(pendingFunctors_) : b # a /\ expiration_'[b] = expiration_[b]
    BY <1>1, <1>2 DEF OwnedInv, TypeOK
<1>6. InFunctors = {<<expiration_'[b], b>> : b \in Carried(pendingFunctors_)}
    BY <1>3, <1>5
<1>7. timers_' \cup InFunctors' =
          timers_ \cup InFunctors \cup {<<expiration_'[a], a>>}
    <2>1. CASE AddTimer(a)
        <3>1. /\ timers_' = timers_ \cup {<<expiration_'[a], a>>}
              /\ pendingFunctors_' = pendingFunctors_
            BY <2>1 DEF AddTimer, AddTimerInloop
        <3>2. InFunctors' = InFunctors
            BY <1>4, <1>6, <3>1
        <3>3. QED
            BY <3>1, <3>2
    <2>2. CASE QueueTimer(a)
        <3>1. timers_' = timers_ /\ pendingFunctors_' = Append(pendingFunctors_, a)
            BY <2>2 DEF QueueTimer
        <3>2. /\ pendingFunctors_ \in Seq(Timer) /\ Distinct(pendingFunctors_)
              /\ a \notin Carried(pendingFunctors_)
            BY <1>1, <1>5 DEF TypeOK, OwnedInv
        <3>3. Carried(pendingFunctors_') = Carried(pendingFunctors_) \cup {a}
            BY <3>1, <3>2, AppendFacts
        <3>4. InFunctors' = InFunctors \cup {<<expiration_'[a], a>>}
            BY <1>4, <1>6, <3>3
        <3>5. QED
            BY <3>1, <3>4
    <2>3. QED
        BY <2>1, <2>2
<1>8. QED
    BY <1>2, <1>7, ScheduleStep

\* getExpired notices what has come due.
LEMMA NoticeStep ==
    ASSUME Inv, HandleRead
    PROVE  \E found \in SUBSET Waiting : Service!Notice(found)
<1>1. TypeOK
    BY DEF Inv
<1>2. /\ expired = {} /\ due = {}
      /\ expired' = {e \in timers_ : e[1] <= now} /\ due' = expired'
      /\ timers_' = timers_ \ expired' /\ readTime' = now /\ now' = now
      /\ UNCHANGED <<heapVars, pendingFunctors_>>
    BY <1>1 DEF HandleRead, TypeOK
<1>3. InFunctors' = InFunctors /\ interval_' = interval_
    BY <1>2 DEF InFunctors, heapVars
<1>4. /\ \A e \in timers_ \cup InFunctors : e \in Entry
      /\ InFunctors \cap timers_ = {}
    BY Names
<1>5. timers_' \cup InFunctors' = (timers_ \cup InFunctors) \ expired'
    BY <1>2, <1>3, <1>4
<1>6. timers_ \cup InFunctors \subseteq Entry /\ expired' \subseteq timers_ \cup InFunctors
    BY <1>2, <1>4
<1> DEFINE found == Full(expired')
<1>7. Waiting' = Waiting \ found
    <2>1. Waiting' = Full((timers_ \cup InFunctors) \ expired')
        BY <1>3, <1>5 DEF Waiting, Full
    <2>2. QED
        BY <1>6, <2>1, FullApart DEF Waiting
<1>8. Full(due)' = found /\ Resting' = {} /\ Full(due) = {} /\ Resting = {}
    <2>1. Full(due)' = found
        BY <1>2, <1>3 DEF Full
    <2>2. Resting' = {}
        BY <1>2 DEF Resting, Full
    <2>3. Full(due) = {} /\ Resting = {}
        BY <1>2 DEF Resting, Full
    <2>4. QED
        BY <2>1, <2>2, <2>3
<1>9. found \subseteq Waiting /\ \A c \in found : c[1] <= now
    BY <1>2 DEF Full, Waiting
<1> HIDE DEF found
<1>10. Service!Notice(found)
    BY <1>2, <1>7, <1>8, <1>9 DEF Service!Notice, Waiting, Resting
<1>11. QED
    BY <1>9, <1>10

\* The next callback of the batch is one of the earliest time.
LEMMA RunStep ==
    ASSUME Inv, RunTimer
    PROVE  \E c \in Full(due) : Service!Run(c)
<1>1. PICK e \in due : IsFirst(e, due) /\ due' = due \ {e}
    BY DEF RunTimer
<1>2. /\ UNCHANGED <<now, heapVars, timers_, expired, readTime, pendingFunctors_>>
    BY DEF RunTimer
<1>3. InFunctors' = InFunctors /\ interval_' = interval_
    BY <1>2 DEF InFunctors, heapVars
<1>4. Waiting' = Waiting
    BY <1>2, <1>3 DEF Waiting, Full
<1>5. due \subseteq expired /\ due \subseteq Entry /\ {e} \subseteq due
    BY <1>1 DEF Inv, TypeOK
<1> DEFINE ran == <<e[1], e[2], interval_[e[2]]>>
<1>6. ran[1] = e[1] /\ Full({e}) = {ran}
    BY <1>1 DEF Full
<1>7. \A d \in Full(due) : ran[1] <= d[1]
    <2>1. \A f \in due : e[1] \in Int /\ f[1] \in Int /\ e[1] <= f[1]
        BY <1>1, <1>5 DEF IsFirst, Entry
    <2>2. QED
        BY <1>6, <2>1 DEF Full
<1>8. Full(due)' = Full(due) \ {ran}
    <2>1. Full(due)' = Full(due \ {e})
        BY <1>1, <1>3 DEF Full
    <2>2. QED
        BY <1>5, <1>6, <2>1, FullApart
<1>9. Resting' = IF ran[3] > 0 THEN Resting \cup {ran} ELSE Resting
    <2>1. expired' \ due' = (expired \ due) \cup {e}
        BY <1>1, <1>2, <1>5
    <2>2. Full(expired \ due)' = Full((expired \ due) \cup {e})
        BY <1>3, <2>1 DEF Full
    <2>3. Full((expired \ due) \cup {e}) = Full(expired \ due) \cup {ran}
        BY DEF Full
    <2>4. QED
        BY <2>2, <2>3 DEF Resting
<1>10. ran \in Full(due)
    BY <1>1 DEF Full
<1> HIDE DEF ran
<1>11. PICK c \in Full(due) : c = ran
    BY <1>10
<1>12. Service!Run(c)
    BY <1>2, <1>4, <1>7, <1>8, <1>9, <1>11 DEF Service!Run, Waiting, Resting
<1>13. QED
    BY <1>12

\* reset puts the periodic timers of the batch back, and no others.
LEMMA RenewStep ==
    ASSUME Inv, Reset
    PROVE  Service!Renew
<1>1. TypeOK /\ OwnedInv
    BY DEF Inv
<1>2. /\ due = {} /\ due' = {} /\ expired' = {} /\ readTime' = 0 /\ now' = now
      /\ Restart /\ pendingFunctors_' = pendingFunctors_
      /\ timers_' = timers_ \cup {<<expiration_'[a], a>> : a \in Repeats}
    BY DEF Reset, Restart
<1>3. /\ \A a \in Repeats : /\ expiration_'[a] = readTime + interval_[a]
                            /\ interval_'[a] = interval_[a]
      /\ \A a \in Timer \ (Repeats \cup Deleted) :
             expiration_'[a] = expiration_[a] /\ interval_'[a] = interval_[a]
      /\ \A a \in Carried(pendingFunctors_) : a \notin Repeats \cup Deleted
      /\ \A e \in timers_ : e[2] \notin Repeats \cup Deleted
    BY <1>1, <1>2, RestartFacts
<1>4. /\ InFunctors = {<<expiration_[b], b>> : b \in Carried(pendingFunctors_)}
      /\ \A e \in timers_ \cup InFunctors : e \in Entry
    BY Names
<1>5. InFunctors' = InFunctors
    <2>1. InFunctors' = {<<expiration_'[b], b>> : b \in Carried(pendingFunctors_)}
        BY <1>2 DEF InFunctors, Carried
    <2>2. \A b \in Carried(pendingFunctors_) : expiration_'[b] = expiration_[b]
        BY <1>1, <1>3 DEF OwnedInv, TypeOK
    <2>3. QED
        BY <1>4, <2>1, <2>2
<1> DEFINE back == {<<expiration_'[a], a>> : a \in Repeats}
           again == {<<readTime + c[3], c[2], c[3]>> : c \in Resting}
<1>6. \A e \in timers_ \cup InFunctors : interval_'[e[2]] = interval_[e[2]]
    <2>1. \A e \in timers_ \cup InFunctors :
              e[2] \in Timer /\ e[2] \notin Repeats \cup Deleted
        BY <1>3, <1>4 DEF Entry
    <2>2. QED
        BY <1>3, <2>1
<1>7. FullNext(back) = {<<readTime + interval_[a], a, interval_[a]>> : a \in Repeats}
    <2>1. FullNext(back) = {<<expiration_'[a], a, interval_'[a]>> : a \in Repeats}
        <3>1. ASSUME NEW a \in Repeats
              PROVE  <<expiration_'[a], a, interval_'[a]>> \in FullNext(back)
            <4>1. PICK e \in back : e = <<expiration_'[a], a>>
                OBVIOUS
            <4>2. <<e[1], e[2], interval_'[e[2]]>> \in FullNext(back)
                BY DEF FullNext
            <4>3. e[1] = expiration_'[a] /\ e[2] = a
                BY <4>1
            <4>4. QED
                BY <4>2, <4>3
        <3>2. ASSUME NEW c \in FullNext(back)
              PROVE  \E a \in Repeats : c = <<expiration_'[a], a, interval_'[a]>>
            <4>1. PICK e \in back : c = <<e[1], e[2], interval_'[e[2]]>>
                BY <3>2 DEF FullNext
            <4>2. PICK a \in Repeats : e = <<expiration_'[a], a>>
                BY <4>1
            <4>3. QED
                BY <4>1, <4>2
        <3>3. QED
            BY <3>1, <3>2
    <2>2. QED
        BY <1>3, <2>1
<1>8. again = {<<readTime + interval_[a], a, interval_[a]>> : a \in Repeats}
    <2>1. Resting = {c \in Full(expired) : c[3] > 0}
        BY <1>2 DEF Resting
    <2>2. ASSUME NEW c \in Resting
          PROVE  c[2] \in Repeats /\ c[3] = interval_[c[2]]
        BY <2>1, <2>2 DEF Full, Repeats
    <2>3. ASSUME NEW a \in Repeats
          PROVE  \E c \in Resting : c[2] = a /\ c[3] = interval_[a]
        <3>1. PICK e \in expired : e[2] = a /\ interval_[a] > 0
            BY <2>3 DEF Repeats
        <3>2. <<e[1], a, interval_[a]>> \in Resting
            BY <2>1, <3>1 DEF Full
        <3>3. QED
            BY <3>2
    <2>4. QED
        BY <2>2, <2>3
<1> HIDE DEF back, again
<1>9. Waiting' = FullNext(timers_ \cup InFunctors \cup back)
    BY <1>2, <1>5 DEF Waiting, Full, FullNext, back
<1>10. FullNext(timers_ \cup InFunctors \cup back)
           = FullNext(timers_ \cup InFunctors) \cup FullNext(back)
    BY DEF FullNext
<1>11. FullNext(timers_ \cup InFunctors) = Waiting
    BY <1>6, FullKept DEF Waiting
<1>12. Waiting' = Waiting \cup again
    BY <1>7, <1>8, <1>9, <1>10, <1>11
<1>13. /\ Full(due) = {} /\ Full(due)' = {} /\ Resting' = {} /\ readTime' \in Int
    <2>1. Full(due) = {} /\ readTime' \in Int
        BY <1>2 DEF Full
    <2>2. Full(due)' = {} /\ Resting' = {}
        BY <1>2 DEF Full, Resting
    <2>3. QED
        BY <2>1, <2>2
<1>14. QED
    BY <1>2, <1>12, <1>13 DEF Service!Renew, Waiting, Resting, again

\* A functor that is run moves its timer from the functors to timers_, and the
\* loop's own steps move none.
LEMMA LoopStutters ==
    ASSUME Inv, Poll \/ BeginDrain \/ EndDrain \/ RunFunctor
    PROVE  UNCHANGED Service!vars
<1>1. TypeOK /\ OwnedInv
    BY DEF Inv
<1>2. UNCHANGED <<now, heapVars, readVars>>
    BY DEF Poll, BeginDrain, EndDrain, RunFunctor
<1>3. timers_' \cup InFunctors' = timers_ \cup InFunctors
    <2>1. CASE Poll \/ BeginDrain \/ EndDrain
        <3>1. timers_' = timers_ /\ pendingFunctors_' = pendingFunctors_
            BY <2>1 DEF Poll, BeginDrain, EndDrain
        <3>2. InFunctors' = InFunctors
            BY <1>2, <3>1 DEF InFunctors, heapVars
        <3>3. QED
            BY <3>1, <3>2
    <2>2. CASE RunFunctor
        <3> DEFINE a == Head(pendingFunctors_)
                   rest == Tail(pendingFunctors_)
        <3>1. /\ timers_' = timers_ \cup {<<expiration_[a], a>>}
              /\ pendingFunctors_' = rest /\ expiration_' = expiration_
            BY <2>2 DEF RunFunctor, AddTimerInloop, heapVars
        <3>2. pendingFunctors_ \in Seq(Timer) /\ pendingFunctors_ # <<>>
            BY <1>1, <2>2, EmptySeq, LenProperties DEF RunFunctor, TypeOK
        <3>3. Carried(pendingFunctors_) = Carried(rest) \cup {a}
            BY <1>1, <3>2, TailFacts DEF OwnedInv
        <3> HIDE DEF a, rest
        <3>4. InFunctors = {<<expiration_[b], b>> : b \in Carried(pendingFunctors_)}
            BY Names
        <3>5. InFunctors' = {<<expiration_[b], b>> : b \in Carried(rest)}
            BY <3>1 DEF InFunctors, Carried
        <3>6. InFunctors = InFunctors' \cup {<<expiration_[a], a>>}
            BY <3>3, <3>4, <3>5
        <3>7. QED
            BY <3>1, <3>6
    <2>3. QED
        BY <2>1, <2>2
<1>4. interval_' = interval_ /\ expired' = expired /\ due' = due
      /\ readTime' = readTime /\ now' = now
    BY <1>2 DEF heapVars, readVars
<1>5. Full(timers_ \cup InFunctors)' = Full(timers_ \cup InFunctors)
    BY <1>3, <1>4 DEF Full
<1>6. Full(due)' = Full(due) /\ Resting' = Resting
    <2>1. Full(due)' = Full(due) /\ Full(expired \ due)' = Full(expired \ due)
        BY <1>4 DEF Full
    <2>2. QED
        BY <2>1 DEF Resting
<1>7. QED
    BY <1>4, <1>5, <1>6 DEF Service!vars, Resting

\* Time passes for the service.
LEMMA ClockStep ==
    ASSUME Inv, Tick \/ StepClock
    PROVE  Service!Clock
<1>1. now' \in Int
    BY ClockInv DEF Inv, TypeOK
<1>2. UNCHANGED <<heapVars, timers_, readVars, loopVars, pendingFunctors_>>
    BY DEF Tick, StepClock
<1>3. /\ interval_' = interval_ /\ expired' = expired /\ due' = due
      /\ readTime' = readTime /\ timers_' = timers_ /\ InFunctors' = InFunctors
    BY <1>2 DEF heapVars, readVars, InFunctors
<1>4. /\ Full(timers_ \cup InFunctors)' = Full(timers_ \cup InFunctors)
      /\ Full(due)' = Full(due)
      /\ Full(expired \ due)' = Full(expired \ due)
    BY <1>3 DEF Full
<1>5. QED
    BY <1>1, <1>3, <1>4 DEF Service!Clock

\* A queue implements the timer service: each callback is run once, or once for
\* each period, never before the wall clock has shown its time, and those that
\* come due together in the order of their times.
THEOREM Refinement == Spec => ServiceSpec
<1>1. Init => Service!Init
    <2> SUFFICES ASSUME Init PROVE Service!Init
        OBVIOUS
    <2>1. /\ timers_ = {} /\ InFunctors = {} /\ due = {} /\ expired = {}
          /\ readTime \in Int
        BY DEF Init, InFunctors
    <2>2. now \in Int
        BY InitInv DEF Inv, TypeOK
    <2>3. QED
        BY <2>1, <2>2 DEF Service!Init, Full
<1>2. Inv /\ [Next]_vars => [Service!Next]_(Service!vars)
    <2> SUFFICES ASSUME Inv, [Next]_vars PROVE [Service!Next]_(Service!vars)
        OBVIOUS
    <2>1. CASE Poll \/ BeginDrain \/ EndDrain \/ RunFunctor
        BY <2>1, LoopStutters
    <2>2. CASE HandleRead
        BY <2>2, NoticeStep DEF Service!Next, Waiting
    <2>3. CASE RunTimer
        BY <2>3, RunStep DEF Service!Next
    <2>4. CASE Reset
        BY <2>4, RenewStep DEF Service!Next
    <2>5. CASE \E a \in Timer : AddTimer(a) \/ QueueTimer(a)
        BY <2>5, AddStep DEF Service!Next, Waiting
    <2>6. CASE Tick \/ StepClock
        BY <2>6, ClockStep DEF Service!Next
    <2>7. CASE UNCHANGED vars
        BY <2>7 DEF vars, heapVars, readVars, Service!vars, Full, InFunctors
    <2>8. QED
        BY <2>1, <2>2, <2>3, <2>4, <2>5, <2>6, <2>7 DEF Next, LoopStep
<1>3. QED
    BY <1>1, <1>2, Invariance, PTL DEF Spec, ServiceSpec, Service!Spec
=============================================================================
