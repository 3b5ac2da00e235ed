----------------------------- MODULE TimerQueue -----------------------------
(***************************************************************************)
(* mtnet::TimerQueue with its Timer objects, the loop it belongs to, the   *)
(* timerfd that wakes the loop, and the two clocks: the times of timers    *)
(* are wall-clock times (gettimeofday), which may be set to anything at    *)
(* any moment, and the timerfd counts down on the monotonic clock.         *)
(*                                                                         *)
(* The loop runs what Executor promises.  An iteration is a poll, the      *)
(* handlers of the ready channels, the timerfd's being one of them, and    *)
(* the batch of functors that are pending then.  Callbacks of any of them  *)
(* may add timers, and so may other threads.                               *)
(***************************************************************************)
EXTENDS Integers, Sequences

CONSTANTS
    Timer,        \* the addresses of Timer objects: timers_ orders by them
    Interval,     \* the intervals of runEvery
    MinDelay,     \* the shortest time the timerfd is armed for, 100us
    MaxTime       \* bounds the wall clock and the times given to runAt

ASSUME ConstantsAssumption ==
    /\ Timer \subseteq Nat
    /\ Interval \subseteq Nat \ {0}
    /\ MinDelay \in Nat \ {0}
    /\ MaxTime \in Nat \ {0}

VARIABLES
    now,              \* the wall clock
    \* the timerfd
    timeLeft,         \* 0 when it is not armed
    readable,         \* it has expired and not been read or armed since
    stepped,          \* the wall clock was set since the timerfd was armed
    \* the heap: Timer objects that were made and not deleted, their members
    live, expiration_, interval_,
    \* the queue
    timers_,          \* pairs of a time and a Timer
    expired,          \* handleRead's batch, the part of it that has still to
    due,              \*   be run, and handleRead's reading of the clock
    readTime,
    \* the loop
    phase,            \* "poll", "dispatch", "handleRead", "functors"
    active,           \* poll() has reported the timerfd
    pendingFunctors_, \* of addTimerInloop, named by the Timer they carry
    batch             \* how many functors of the batch are left

fdVars == <<timeLeft, readable, stepped>>
heapVars == <<live, expiration_, interval_>>
readVars == <<expired, due, readTime>>
loopVars == <<phase, active, batch>>
vars == <<now, fdVars, heapVars, timers_, readVars, loopVars, pendingFunctors_>>

Init ==
    /\ now \in 1 .. MaxTime
    /\ timeLeft = 0 /\ readable = FALSE /\ stepped = FALSE
    /\ live = {}
    /\ expiration_ = [a \in Timer |-> 0] /\ interval_ = [a \in Timer |-> 0]
    /\ timers_ = {}
    /\ expired = {} /\ due = {} /\ readTime = 0
    /\ phase = "dispatch" /\ active = FALSE
    /\ pendingFunctors_ = <<>> /\ batch = 0

-----------------------------------------------------------------------------
(***************************************************************************)
(* The timerfd and the set of timers.                                      *)
(***************************************************************************)

Later(m, n) == IF m < n THEN n ELSE m

\* howMuchTimeFromNow: never 0, which would disarm the timerfd.
HowMuchTimeFromNowMutant(when) == Later(when - now, 0)
HowMuchTimeFromNow(when) == Later(when - now, MinDelay)

\* timerfd_settime, which also forgets an expiration that was not read.
ResetTimerfd(when) ==
    /\ timeLeft' = HowMuchTimeFromNow(when)
    /\ readable' = FALSE
    /\ stepped' = FALSE

\* The order of std::set<std::pair<Timestamp, Timer*>>.
IsFirst(e, S) == \A f \in S : e[1] < f[1] \/ (e[1] = f[1] /\ e[2] <= f[2])

EarliestChanged(when) == \A e \in timers_ : when < e[1]

\* addTimerInloop: timers_ and the timerfd.
AddTimerInloopMutant(a) ==
    LET when == expiration_'[a]
    IN  /\ timers_' = timers_ \cup {<<when, a>>}
        /\ IF EarliestChanged(when) /\ phase # "handleRead"
           THEN ResetTimerfd(when) ELSE UNCHANGED fdVars
AddTimerInloop(a) ==
    LET when == expiration_'[a]
    IN  /\ timers_' = timers_ \cup {<<when, a>>}
        /\ IF EarliestChanged(when) THEN ResetTimerfd(when) ELSE UNCHANGED fdVars

-----------------------------------------------------------------------------
(***************************************************************************)
(* runAt, runAfter and runEvery, which call addTimer.                      *)
(***************************************************************************)

\* The arguments they give it: any time and no interval, or the time that is
\* one interval from now.
Arguments ==
    ((0 .. MaxTime) \X {0}) \cup {<<now + i, i>> : i \in Interval}

\* new Timer, at any address that is free.
New(a, when, interval) ==
    /\ a \notin live
    /\ live' = live \cup {a}
    /\ expiration_' = [expiration_ EXCEPT ![a] = when]
    /\ interval_' = [interval_ EXCEPT ![a] = interval]

\* The loop's thread is running a callback: a handler's, a timer's, a functor.
InUserCode ==
    \/ phase \in {"dispatch", "functors"}
    \/ phase = "handleRead" /\ due # expired

\* addTimer from the loop's own thread.
AddTimer(a) ==
    /\ InUserCode
    /\ \E arg \in Arguments : New(a, arg[1], arg[2])
    /\ AddTimerInloop(a)
    /\ UNCHANGED <<now, readVars, loopVars, pendingFunctors_>>

\* addTimer from another thread.
QueueTimer(a) ==
    /\ \E arg \in Arguments : New(a, arg[1], arg[2])
    /\ pendingFunctors_' = Append(pendingFunctors_, a)
    /\ UNCHANGED <<now, fdVars, timers_, readVars, loopVars>>

-----------------------------------------------------------------------------
(***************************************************************************)
(* The loop.                                                               *)
(***************************************************************************)

\* poll() returns: for the timerfd, for another channel, or for none.
Poll ==
    /\ phase = "poll"
    /\ phase' = "dispatch"
    /\ active' = readable
    /\ UNCHANGED <<now, fdVars, heapVars, timers_, readVars, pendingFunctors_,
                   batch>>

\* handleRead begins: the clock and the timerfd are read and getExpired takes
\* the timers of that time and before.  The timerfd may have been armed anew
\* since poll() returned, by a handler before this one; the read then fails.
HandleReadMutant ==
    /\ phase = "dispatch" /\ active
    /\ phase' = "handleRead"
    /\ active' = FALSE
    /\ readable' = FALSE
    /\ expired' = {e \in timers_ : e[1] <= now + MinDelay}
    /\ due' = expired'
    /\ timers_' = timers_ \ expired'
    /\ readTime' = now
    /\ UNCHANGED <<now, timeLeft, stepped, heapVars, pendingFunctors_, batch>>
HandleRead ==
    /\ phase = "dispatch" /\ active
    /\ phase' = "handleRead"
    /\ active' = FALSE
    /\ readable' = FALSE
    /\ expired' = {e \in timers_ : e[1] <= now}
    /\ due' = expired'
    /\ timers_' = timers_ \ expired'
    /\ readTime' = now
    /\ UNCHANGED <<now, timeLeft, stepped, heapVars, pendingFunctors_, batch>>

\* The next callback of the batch is called.
RunTimer ==
    /\ phase = "handleRead"
    /\ \E e \in due : IsFirst(e, due) /\ due' = due \ {e}
    /\ UNCHANGED <<now, fdVars, heapVars, timers_, expired, readTime, loopVars,
                   pendingFunctors_>>

\* Timestamp::vaild.
Valid(when) == when > 0

Repeats == {e[2] : e \in {f \in expired : interval_[f[2]] > 0}}

DeletedMutant == {e[2] : e \in expired}
Deleted == {e[2] : e \in expired} \ Repeats

\* reset's loop: repeating timers are restarted and inserted again, the others
\* are deleted.  What the members of a deleted Timer were is forgotten.
Restart ==
    /\ live' = live \ Deleted
    /\ expiration_' = [a \in Timer |->
           IF a \in Repeats THEN readTime + interval_[a]
           ELSE IF a \in Deleted THEN 0 ELSE expiration_[a]]
    /\ interval_' = [a \in Timer |-> IF a \in Deleted THEN 0 ELSE interval_[a]]
    /\ timers_' = timers_ \cup {<<expiration_'[a], a>> : a \in Repeats}

\* The end of reset: the timerfd is armed for the first entry of S.
ArmForFirst(S) ==
    IF S # {} /\ \A e \in S : Valid(e[1])
    THEN \E e \in S : IsFirst(e, S) /\ ResetTimerfd(e[1])
    ELSE UNCHANGED fdVars

\* handleRead ends, and forgets its local variables.
ResetMutant ==
    /\ phase = "handleRead" /\ due = {}
    /\ phase' = "dispatch"
    /\ expired' = {} /\ readTime' = 0
    /\ Restart
    /\ ArmForFirst(timers_' \ timers_)
    /\ UNCHANGED <<now, due, active, batch, pendingFunctors_>>
Reset ==
    /\ phase = "handleRead" /\ due = {}
    /\ phase' = "dispatch"
    /\ expired' = {} /\ readTime' = 0
    /\ Restart
    /\ ArmForFirst(timers_')
    /\ UNCHANGED <<now, due, active, batch, pendingFunctors_>>

BeginDrain ==
    /\ phase = "dispatch" /\ ~active
    /\ phase' = "functors"
    /\ batch' = Len(pendingFunctors_)
    /\ UNCHANGED <<now, fdVars, heapVars, timers_, readVars, active,
                   pendingFunctors_>>

\* A functor of another thread's addTimer is run.
RunFunctorMutant ==
    /\ phase = "functors" /\ batch > 0
    /\ pendingFunctors_' = Tail(pendingFunctors_)
    /\ UNCHANGED heapVars
    /\ AddTimerInloop(Head(pendingFunctors_))
    /\ UNCHANGED <<now, readVars, loopVars>>
RunFunctor ==
    /\ phase = "functors" /\ batch > 0
    /\ batch' = batch - 1
    /\ pendingFunctors_' = Tail(pendingFunctors_)
    /\ UNCHANGED heapVars
    /\ AddTimerInloop(Head(pendingFunctors_))
    /\ UNCHANGED <<now, readVars, phase, active>>

EndDrain ==
    /\ phase = "functors" /\ batch = 0
    /\ phase' = "poll"
    /\ UNCHANGED <<now, fdVars, heapVars, timers_, readVars, active, batch,
                   pendingFunctors_>>

-----------------------------------------------------------------------------
(***************************************************************************)
(* The clocks.                                                             *)
(***************************************************************************)

\* Both advance.  MaxTime stops the wall clock only.
Tick ==
    /\ now' = IF now < MaxTime THEN now + 1 ELSE now
    /\ timeLeft' = IF timeLeft > 0 THEN timeLeft - 1 ELSE 0
    /\ readable' = (readable \/ timeLeft = 1)
    /\ UNCHANGED <<stepped, heapVars, timers_, readVars, loopVars,
                   pendingFunctors_>>

\* The wall clock is set.
StepClock ==
    /\ now' \in 1 .. MaxTime
    /\ stepped' = TRUE
    /\ UNCHANGED <<timeLeft, readable, heapVars, timers_, readVars, loopVars,
                   pendingFunctors_>>

-----------------------------------------------------------------------------
\* The loop's own steps.  EventLoop shows that a pending functor wakes poll().
LoopStep ==
    \/ (readable \/ pendingFunctors_ # <<>>) /\ Poll
    \/ HandleRead \/ RunTimer \/ Reset
    \/ BeginDrain \/ RunFunctor \/ EndDrain

Next ==
    \/ LoopStep \/ Poll
    \/ \E a \in Timer : AddTimer(a) \/ QueueTimer(a)
    \/ Tick \/ StepClock

Spec == Init /\ [][Next]_vars

\* The loop runs and time passes.  No poll() needs to time out.
FairSpec == Spec /\ WF_vars(LoopStep) /\ WF_vars(Tick)

-----------------------------------------------------------------------------
(***************************************************************************)
(* Properties.                                                             *)
(***************************************************************************)

Entry == Int \X Timer

TypeOK ==
    /\ now \in Int /\ readTime \in Int
    /\ timeLeft \in Nat /\ readable \in BOOLEAN /\ stepped \in BOOLEAN
    /\ live \subseteq Timer
    /\ expiration_ \in [Timer -> Int] /\ interval_ \in [Timer -> Nat]
    /\ timers_ \subseteq Entry /\ expired \subseteq Entry /\ due \subseteq expired
    /\ phase \in {"poll", "dispatch", "handleRead", "functors"}
    /\ active \in BOOLEAN
    /\ pendingFunctors_ \in Seq(Timer)
    /\ batch \in 0 .. Len(pendingFunctors_)
    /\ expired # {} => phase = "handleRead"
    /\ batch > 0 => phase = "functors"

\* Every Timer that was made and not deleted is in one place: a functor on its
\* way to the loop, timers_, under the time it carries, or the batch that
\* handleRead runs.  So none is leaked, run or deleted twice, or used after it
\* was deleted, though addresses are used again.
Queued == {<<expiration_[a], a>> : a \in live}
InFunctors ==
    {<<expiration_[pendingFunctors_[k]], pendingFunctors_[k]>> :
        k \in DOMAIN pendingFunctors_}
OwnedOnce ==
    /\ Queued = InFunctors \cup timers_ \cup expired
    /\ timers_ \cap expired = {}
    /\ InFunctors \cap (timers_ \cup expired) = {}
    /\ \A j, k \in DOMAIN pendingFunctors_ :
           pendingFunctors_[j] = pendingFunctors_[k] => j = k

\* Whenever handleRead is not running and a timer waits in timers_, the timerfd
\* has expired or is armed; and it is armed for no later than the earliest of
\* them needs, but for the shortest delay, unless the wall clock was set since.
ArmedFor(e) ==
    \/ readable
    \/ timeLeft > 0 /\ (stepped \/ timeLeft <= Later(e[1] - now, MinDelay))
Armed == phase # "handleRead" => \A e \in timers_ : ArmedFor(e)

\* The queue implements the timer service: no callback is run before the wall
\* clock showed its time, each is run once, or again one interval after the
\* reading of the clock that found it due, and in the order of their times.
Full(S) == {<<e[1], e[2], interval_[e[2]]>> : e \in S}
Service ==
    INSTANCE TimerService WITH
        waiting <- Full(timers_ \cup InFunctors),
        due <- Full(due),
        noticed <- readTime,
        resting <- {c \in Full(expired \ due) : c[3] > 0}
ServiceSpec == Service!Spec

\* A timer whose time has come, by the wall clock, is taken to be run, without
\* waiting for poll() to time out, or else the clock has been set back: an
\* expiration of the timerfd is never lost, whoever adds timers meanwhile.
Due(a) == <<expiration_[a], a>> \in timers_ \cup InFunctors /\ expiration_[a] <= now
DueIsRun == \A a \in Timer : Due(a) ~> ~Due(a)
=============================================================================
