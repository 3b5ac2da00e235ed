-------------------------- MODULE EventLoopProofs ---------------------------
(***************************************************************************)
(* What holds of EventLoop for every set of threads, callbacks and         *)
(* channels: its inductive invariant, the absence of lost wake-ups, and    *)
(* that it implements Executor.                                            *)
(***************************************************************************)
EXTENDS EventLoop, SequenceTheorems, TLAPS

-----------------------------------------------------------------------------
(***************************************************************************)
(* Facts about sequences.                                                  *)
(***************************************************************************)

\* The empty queue holds nothing, and a push adds what is pushed.
LEMMA RangeFacts ==
    ASSUME NEW S, NEW s \in Seq(S), NEW e \in S
    PROVE  /\ Range(<<>>) = {}
           /\ Range(Append(s, e)) = Range(s) \cup {e}
<1>1. Range(<<>>) = {}
    BY EmptySeq DEF Range
<1>2. Range(<<e>>) = {e}
    BY DEF Range
<1>3. Append(s, e) = s \o <<e>>
    BY AppendIsConcat
<1>4. <<e>> \in Seq(S)
    OBVIOUS
<1>5. Range(s \o <<e>>) = Range(s) \cup Range(<<e>>)
    BY <1>4, RangeConcatenation
<1>6. QED
    BY <1>1, <1>2, <1>3, <1>5

\* Appending to the second of two sequences appends to their concatenation.
LEMMA AppendToConcat ==
    ASSUME NEW S, NEW s \in Seq(S), NEW t \in Seq(S), NEW e \in S
    PROVE  s \o Append(t, e) = Append(s \o t, e)
<1>1. <<e>> \in Seq(S) /\ s \o t \in Seq(S)
    BY ConcatProperties
<1>2. Append(t, e) = t \o <<e>> /\ Append(s \o t, e) = (s \o t) \o <<e>>
    BY <1>1, AppendIsConcat
<1>3. QED
    BY <1>1, <1>2, ConcatAssociative

\* Taking the head off the first of two sequences takes it off their
\* concatenation.
LEMMA TailOfConcat ==
    ASSUME NEW S, NEW s \in Seq(S), NEW t \in Seq(S), s # <<>>
    PROVE  /\ s \o t # <<>>
           /\ Tail(s \o t) = Tail(s) \o t
<1>1. /\ Tail(s) \in Seq(S)
      /\ Len(Tail(s)) = Len(s) - 1
      /\ \A i \in 1 .. Len(Tail(s)) : Tail(s)[i] = s[i + 1]
    BY HeadTailProperties
<1>2. /\ s \o t \in Seq(S)
      /\ Len(s \o t) = Len(s) + Len(t)
      /\ \A i \in 1 .. Len(s) + Len(t) :
            (s \o t)[i] = IF i <= Len(s) THEN s[i] ELSE t[i - Len(s)]
    BY ConcatProperties
<1>3. s \o t # <<>>
    BY ConcatEqualIffEmpty
<1>4. /\ Tail(s \o t) \in Seq(S)
      /\ Len(Tail(s \o t)) = Len(s \o t) - 1
      /\ \A i \in 1 .. Len(Tail(s \o t)) : Tail(s \o t)[i] = (s \o t)[i + 1]
    BY <1>2, <1>3, HeadTailProperties
<1>5. /\ Tail(s) \o t \in Seq(S)
      /\ Len(Tail(s) \o t) = Len(Tail(s)) + Len(t)
      /\ \A i \in 1 .. Len(Tail(s)) + Len(t) : (Tail(s) \o t)[i] =
            IF i <= Len(Tail(s)) THEN Tail(s)[i] ELSE t[i - Len(Tail(s))]
    BY <1>1, ConcatProperties
<1>6. Len(s) \in Nat \ {0} /\ Len(t) \in Nat
    BY EmptySeq, LenProperties
<1>7. Len(Tail(s \o t)) = Len(Tail(s) \o t)
    BY <1>1, <1>2, <1>4, <1>5, <1>6
<1>8. ASSUME NEW i \in 1 .. Len(Tail(s \o t))
      PROVE  Tail(s \o t)[i] = (Tail(s) \o t)[i]
    <2>1. Tail(s \o t)[i] =
            IF i + 1 <= Len(s) THEN s[i + 1] ELSE t[i + 1 - Len(s)]
        BY <1>2, <1>4, <1>6
    <2>2. (Tail(s) \o t)[i] =
            IF i <= Len(s) - 1 THEN s[i + 1] ELSE t[i - (Len(s) - 1)]
        BY <1>1, <1>2, <1>4, <1>5, <1>6
    <2>3. QED
        BY <2>1, <2>2, <1>6
<1>9. QED
    BY <1>3, <1>4, <1>5, <1>7, <1>8, SeqEqual

-----------------------------------------------------------------------------
(***************************************************************************)
(* The invariant.                                                          *)
(***************************************************************************)

\* A callback's name is one of Functor's, whoever queues it.
LEMMA PushType ==
    ASSUME NEW f \in Functor, TypeOK, Push(f)
    PROVE  /\ pendingFunctors_' \in Seq(Functor)
           /\ Range(pendingFunctors_') = Range(pendingFunctors_) \cup {f}
BY RangeFacts DEF Push, TypeOK

\* The write to wakeupFd_ never makes it unreadable.
LEMMA WakeupType ==
    ASSUME TypeOK, Wakeup
    PROVE  wakeups' \in 0 .. EventfdMax /\ wakeups' > 0
BY ConstantsAssumption DEF TypeOK, Wakeup

\* The invariant holds initially.
LEMMA InitInv == Init => Inv
<1> SUFFICES ASSUME Init PROVE Inv
    OBVIOUS
<1>1. Range(<<>>) = {}
    BY EmptySeq DEF Range
<1>2. TypeOK
    <2>1. pendingFunctors_ \in Seq(Functor) /\ functions \in Seq(Functor)
        BY EmptySeq DEF Init
    <2>2. wakeups \in 0 .. EventfdMax
        BY ConstantsAssumption DEF Init
    <2>3. QED
        BY <2>1, <2>2 DEF Init, TypeOK
<1>3. WakeInv
    BY <1>1, Zenon DEF Init, WakeInv
<1>4. QED
    BY <1>2, <1>3 DEF Inv

\* The invariant is preserved by every step.
LEMMA NextInv == Inv /\ [Next]_vars => Inv'
<1> SUFFICES ASSUME Inv, [Next]_vars PROVE Inv'
    OBVIOUS
<1> USE ConstantsAssumption DEF Inv, TypeOK, WakeInv
<1>1. CASE EnterLoop
    BY <1>1 DEF EnterLoop
<1>2. CASE StayInLoop
    BY <1>2 DEF StayInLoop
<1>3. CASE LeaveLoop
    BY <1>3 DEF LeaveLoop
<1>4. ASSUME NEW S \in SUBSET Channel, PollReady(S) PROVE Inv'
    BY <1>4 DEF PollReady
<1>5. CASE PollNothing
    BY <1>5 DEF PollNothing
<1>6. CASE HandleRead
    BY <1>6 DEF HandleRead
<1>7. ASSUME NEW c \in Channel, HandleEvent(c) PROVE Inv'
    BY <1>7 DEF HandleEvent
<1>8. CASE HandlerReturns
    BY <1>8 DEF HandlerReturns
<1>9. CASE BeginDrain
    BY <1>9, EmptySeq, RangeFacts DEF BeginDrain, Range
<1>10. CASE RunFunctor
    BY <1>10, HeadTailProperties DEF RunFunctor
<1>11. CASE FunctorReturns
    BY <1>11 DEF FunctorReturns
<1>12. CASE EndDrain
    BY <1>12 DEF EndDrain
<1>13. CASE QuitFromLoop
    BY <1>13 DEF QuitFromLoop
<1>14. ASSUME NEW f \in Functor, QueueFromLoop(f) PROVE Inv'
    <2>1. /\ pendingFunctors_' \in Seq(Functor)
          /\ Range(pendingFunctors_') = Range(pendingFunctors_) \cup {f}
        BY <1>14, PushType DEF QueueFromLoop
    <2>2. CASE calllingPendingFunctors_
        BY <1>14, <2>1, <2>2, WakeupType DEF QueueFromLoop
    <2>3. CASE ~calllingPendingFunctors_
        BY <1>14, <2>1, <2>3 DEF QueueFromLoop, InUserCode
    <2>4. QED
        BY <2>2, <2>3
<1>15. ASSUME NEW t \in Thread, NEW f \in Functor, Queue(t, f) PROVE Inv'
    BY <1>15, PushType DEF Queue
<1>16. ASSUME NEW t \in Thread, Quit(t) PROVE Inv'
    BY <1>16 DEF Quit
<1>17. ASSUME NEW t \in Thread, WakeUp(t) PROVE Inv'
    BY <1>17, WakeupType DEF WakeUp
<1>18. CASE UNCHANGED vars
    BY <1>18 DEF vars
<1>19. QED
    BY <1>1, <1>2, <1>3, <1>4, <1>5, <1>6, <1>7, <1>8, <1>9, <1>10, <1>11,
       <1>12, <1>13, <1>14, <1>15, <1>16, <1>17, <1>18
    DEF Next, LoopStep, UserCode, OtherThread

\* The invariant holds in every state the loop reaches.
THEOREM Invariance == Spec => []Inv
BY InitInv, NextInv, PTL DEF Spec

\* Every variable has its type, and the flags and the batch of the loop's thread
\* agree with where it is in loop() and doPendingFunctors().
THEOREM TypeCorrect == Spec => []TypeOK
<1>1. Inv => TypeOK
    BY DEF Inv
<1>2. QED
    BY <1>1, Invariance, PTL

\* queueInLoop never loses a wake-up: the loop does not block in poll() on a
\* callback that another thread, or code run by loop(), has queued.
THEOREM NoLostWakeups == Spec => []NoLostWakeup
<1>1. Inv => NoLostWakeup
    BY DEF Inv, WakeInv, NoLostWakeup
<1>2. QED
    BY <1>1, Invariance, PTL

-----------------------------------------------------------------------------
(***************************************************************************)
(* The refinement.                                                         *)
(***************************************************************************)

\* The loop starts as an executor that holds no callback.
LEMMA InitRefines == Init => ImplementsExecutor!Init
BY DEF Init, ImplementsExecutor!Init

\* A push is the executor's Submit.
LEMMA PushRefines ==
    ASSUME NEW f \in Functor, TypeOK, Push(f), UNCHANGED functions
    PROVE  ImplementsExecutor!Next
<1>1. functions \o pendingFunctors_' = Append(functions \o pendingFunctors_, f)
    BY AppendToConcat DEF TypeOK, Push
<1>2. ImplementsExecutor!Submit(f)
    BY <1>1 DEF Push, InFlight, Range, ImplementsExecutor!Submit,
                ImplementsExecutor!Range
<1>3. QED
    BY <1>2 DEF ImplementsExecutor!Next

\* Every other step but the start of a callback leaves the executor as it is.
\* The swap empties one half of its queue into the other, which was empty.
LEMMA NextRefines ==
    Inv /\ [Next]_vars => [ImplementsExecutor!Next]_(functions \o pendingFunctors_)
<1> DEFINE queue == functions \o pendingFunctors_
<1> SUFFICES ASSUME Inv, [Next]_vars
             PROVE  ImplementsExecutor!Next \/ queue' = queue
    OBVIOUS
<1> USE DEF Inv
<1>1. CASE BeginDrain
    <2>1. functions = <<>>
        BY <1>1 DEF BeginDrain, TypeOK
    <2>2. queue' = pendingFunctors_ \o <<>>
        BY <1>1 DEF BeginDrain
    <2>3. QED
        BY <2>1, <2>2, ConcatEmptySeq DEF TypeOK
<1>2. CASE RunFunctor
    <2>1. queue # <<>> /\ queue' = Tail(queue)
        BY <1>2, TailOfConcat DEF RunFunctor, TypeOK
    <2>2. QED
        BY <2>1 DEF ImplementsExecutor!Run, ImplementsExecutor!Next
<1>3. ASSUME NEW f \in Functor, QueueFromLoop(f)
      PROVE  ImplementsExecutor!Next
    BY <1>3, PushRefines DEF QueueFromLoop
<1>4. ASSUME NEW t \in Thread, NEW f \in Functor, Queue(t, f)
      PROVE  ImplementsExecutor!Next
    BY <1>4, PushRefines DEF Queue
<1>5. CASE UNCHANGED <<functions, pendingFunctors_>>
    BY <1>5
<1>6. \/ BeginDrain \/ RunFunctor
      \/ \E f \in Functor : QueueFromLoop(f)
      \/ \E t \in Thread, f \in Functor : Queue(t, f)
      \/ UNCHANGED <<functions, pendingFunctors_>>
    BY DEF Next, LoopStep, UserCode, OtherThread, vars, EnterLoop, StayInLoop,
           LeaveLoop, PollReady, PollNothing, HandleRead, HandleEvent,
           HandlerReturns, FunctorReturns, EndDrain, QuitFromLoop, Quit, WakeUp
<1>7. QED
    BY <1>1, <1>2, <1>3, <1>4, <1>5, <1>6

\* The loop implements the executor: a callback that queueInLoop accepted, from
\* whatever thread, is started at most once and in the order of acceptance.
THEOREM Refinement == Spec => ExecutorSpec
BY InitRefines, NextRefines, Invariance, PTL
DEF Spec, ExecutorSpec, ImplementsExecutor!Spec
=============================================================================
