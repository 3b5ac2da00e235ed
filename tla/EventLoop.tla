------------------------------ MODULE EventLoop -----------------------------
(***************************************************************************)
(* mtnet::EventLoop: one loop, the thread that owns it, and the other      *)
(* threads of the process, which hand it callbacks and ask it to quit.     *)
(*                                                                         *)
(* The loop's thread is modelled by a program counter over loop() and      *)
(* doPendingFunctors(); each of the other threads by whether it stands     *)
(* between the first half of queueInLoop() or quit() (the push, the store  *)
(* to quit_) and the second (the write to wakeupFd_).  User code that the  *)
(* loop's thread runs, in a channel's handler, in a pending functor or     *)
(* outside loop(), may call queueInLoop() and quit() any number of times.  *)
(***************************************************************************)
EXTENDS Naturals, Sequences, Functions

CONSTANTS
    Thread,           \* the threads other than the loop's own
    Id,               \* names that tell one thread's callbacks apart
    Channel,          \* the channels of the poller other than wakeupChannel_
    wakeupChannel,    \* wakeupChannel_
    EventfdMax        \* the largest value of an eventfd's counter

ASSUME ConstantsAssumption ==
    /\ EventfdMax \in Nat \ {0}
    /\ wakeupChannel \notin Channel
    /\ {"inside", "outside"} \cap Thread = {}

VARIABLES
    pc,                        \* where the loop's thread is
    looping_, quit_,
    calllingPendingFunctors_,
    activeChannels_,           \* returned by poll() and not yet handled
    pendingFunctors_,
    functions,                 \* what is left of doPendingFunctors's batch
    wakeups,                   \* the counter of wakeupFd_
    waking                     \* waking[t]: t has yet to write to wakeupFd_

vars == <<pc, looping_, quit_, calllingPendingFunctors_, activeChannels_,
          pendingFunctors_, functions, wakeups, waking>>

(***************************************************************************)
(* A callback is named by who queued it: another thread, or the loop's     *)
(* own thread "inside" loop() or "outside" it.                             *)
(***************************************************************************)
Functor == [by : Thread \cup {"inside", "outside"}, id : Id]

InFlight == Range(functions \o pendingFunctors_)

Init ==
    /\ pc = "outside"
    /\ looping_ = FALSE
    /\ quit_ = FALSE
    /\ calllingPendingFunctors_ = FALSE
    /\ activeChannels_ = {}
    /\ pendingFunctors_ = <<>>
    /\ functions = <<>>
    /\ wakeups = 0
    /\ waking = [t \in Thread |-> FALSE]

-----------------------------------------------------------------------------
(***************************************************************************)
(* queueInLoop, quit and wakeup.                                           *)
(***************************************************************************)

\* A counter that is full makes the write fail with EAGAIN: wakeup() logs it.
Wakeup == wakeups' = IF wakeups < EventfdMax THEN wakeups + 1 ELSE wakeups

\* The push of queueInLoop, under mutex_.
Push(f) ==
    /\ f \notin InFlight
    /\ pendingFunctors_' = Append(pendingFunctors_, f)

\* Another thread calls queueInLoop, or runInLoop, which then does the same.
QueueMutant(t, f) ==
    /\ ~waking[t]
    /\ f.by = t
    /\ Push(f)
    /\ UNCHANGED <<pc, looping_, quit_, calllingPendingFunctors_,
                   activeChannels_, functions, wakeups, waking>>
Queue(t, f) ==
    /\ ~waking[t]
    /\ f.by = t
    /\ Push(f)
    /\ waking' = [waking EXCEPT ![t] = TRUE]
    /\ UNCHANGED <<pc, looping_, quit_, calllingPendingFunctors_,
                   activeChannels_, functions, wakeups>>

\* Another thread calls quit.
QuitMutant(t) ==
    /\ ~waking[t]
    /\ quit_' = TRUE
    /\ UNCHANGED <<pc, looping_, calllingPendingFunctors_, activeChannels_,
                   pendingFunctors_, functions, wakeups, waking>>
Quit(t) ==
    /\ ~waking[t]
    /\ quit_' = TRUE
    /\ waking' = [waking EXCEPT ![t] = TRUE]
    /\ UNCHANGED <<pc, looping_, calllingPendingFunctors_, activeChannels_,
                   pendingFunctors_, functions, wakeups>>

\* The wakeup() that ends both.
WakeUp(t) ==
    /\ waking[t]
    /\ Wakeup
    /\ waking' = [waking EXCEPT ![t] = FALSE]
    /\ UNCHANGED <<pc, looping_, quit_, calllingPendingFunctors_,
                   activeChannels_, pendingFunctors_, functions>>

\* The loop's thread is in user code.
InUserCode == pc \in {"outside", "handler", "functor"}

\* The loop's own thread calls queueInLoop: it wakes itself only while it is
\* running pending functors.  Nothing it does between the push and the write
\* can be told apart by another thread, so the two are one step.
QueueFromLoopMutant(f) ==
    /\ InUserCode
    /\ f.by = IF pc = "outside" THEN "outside" ELSE "inside"
    /\ Push(f)
    /\ UNCHANGED <<pc, looping_, quit_, calllingPendingFunctors_,
                   activeChannels_, functions, wakeups, waking>>
QueueFromLoop(f) ==
    /\ InUserCode
    /\ f.by = IF pc = "outside" THEN "outside" ELSE "inside"
    /\ Push(f)
    /\ IF calllingPendingFunctors_ THEN Wakeup ELSE UNCHANGED wakeups
    /\ UNCHANGED <<pc, looping_, quit_, calllingPendingFunctors_,
                   activeChannels_, functions, waking>>

\* The loop's own thread calls quit.
QuitFromLoop ==
    /\ InUserCode
    /\ quit_' = TRUE
    /\ UNCHANGED <<pc, looping_, calllingPendingFunctors_, activeChannels_,
                   pendingFunctors_, functions, wakeups, waking>>

-----------------------------------------------------------------------------
(***************************************************************************)
(* loop().                                                                 *)
(***************************************************************************)

\* Only the loop's thread reads looping_, so its store and the store to quit_
\* are one step; a quit() that came before is forgotten here.
EnterLoop ==
    /\ pc = "outside"
    /\ pc' = "check"
    /\ looping_' = TRUE
    /\ quit_' = FALSE
    /\ UNCHANGED <<calllingPendingFunctors_, activeChannels_,
                   pendingFunctors_, functions, wakeups, waking>>

\* while(!quit_), and the clear of activeChannels_.
StayInLoop ==
    /\ pc = "check"
    /\ ~quit_
    /\ pc' = "poll"
    /\ activeChannels_' = {}
    /\ UNCHANGED <<looping_, quit_, calllingPendingFunctors_,
                   pendingFunctors_, functions, wakeups, waking>>

LeaveLoop ==
    /\ pc = "check"
    /\ quit_
    /\ pc' = "outside"
    /\ looping_' = FALSE
    /\ UNCHANGED <<quit_, calllingPendingFunctors_, activeChannels_,
                   pendingFunctors_, functions, wakeups, waking>>

\* poll() returns the channels in S that are ready, and wakeupChannel_ when
\* its counter is not zero.
PollReady(S) ==
    /\ pc = "poll"
    /\ S # {} \/ wakeups > 0
    /\ pc' = "dispatch"
    /\ activeChannels_' = S \cup (IF wakeups > 0 THEN {wakeupChannel} ELSE {})
    /\ UNCHANGED <<looping_, quit_, calllingPendingFunctors_,
                   pendingFunctors_, functions, wakeups, waking>>

\* poll() times out after kPollTimeMs, or fails (a signal interrupts it).
PollNothing ==
    /\ pc = "poll"
    /\ pc' = "dispatch"
    /\ UNCHANGED <<looping_, quit_, calllingPendingFunctors_,
                   activeChannels_, pendingFunctors_, functions, wakeups,
                   waking>>

\* wakeupChannel_'s handler, EventLoop::handleRead: the read resets the counter.
HandleRead ==
    /\ pc = "dispatch"
    /\ wakeupChannel \in activeChannels_
    /\ activeChannels_' = activeChannels_ \ {wakeupChannel}
    /\ wakeups' = 0
    /\ UNCHANGED <<pc, looping_, quit_, calllingPendingFunctors_,
                   pendingFunctors_, functions, waking>>

\* Another channel's handler is called ...
HandleEvent(c) ==
    /\ pc = "dispatch"
    /\ c \in activeChannels_
    /\ activeChannels_' = activeChannels_ \ {c}
    /\ pc' = "handler"
    /\ UNCHANGED <<looping_, quit_, calllingPendingFunctors_,
                   pendingFunctors_, functions, wakeups, waking>>

\* ... and returns.
HandlerReturns ==
    /\ pc = "handler"
    /\ pc' = "dispatch"
    /\ UNCHANGED <<looping_, quit_, calllingPendingFunctors_, activeChannels_,
                   pendingFunctors_, functions, wakeups, waking>>

-----------------------------------------------------------------------------
(***************************************************************************)
(* doPendingFunctors().                                                    *)
(***************************************************************************)

\* The flag is the loop thread's own, so its store and the swap are one step.
BeginDrainMutant ==
    /\ pc = "dispatch"
    /\ activeChannels_ = {}
    /\ pc' = "drain"
    /\ calllingPendingFunctors_' = TRUE
    /\ functions' = pendingFunctors_
    /\ UNCHANGED <<looping_, quit_, activeChannels_, pendingFunctors_,
                   wakeups, waking>>
BeginDrain ==
    /\ pc = "dispatch"
    /\ activeChannels_ = {}
    /\ pc' = "drain"
    /\ calllingPendingFunctors_' = TRUE
    /\ functions' = pendingFunctors_
    /\ pendingFunctors_' = <<>>
    /\ UNCHANGED <<looping_, quit_, activeChannels_, wakeups, waking>>

\* functions[i]() is called ...
RunFunctor ==
    /\ pc = "drain"
    /\ functions # <<>>
    /\ functions' = Tail(functions)
    /\ pc' = "functor"
    /\ UNCHANGED <<looping_, quit_, calllingPendingFunctors_, activeChannels_,
                   pendingFunctors_, wakeups, waking>>

\* ... and returns.
FunctorReturnsMutant ==
    /\ pc = "functor"
    /\ pc' = "drain"
    /\ functions' = functions \o pendingFunctors_
    /\ pendingFunctors_' = <<>>
    /\ UNCHANGED <<looping_, quit_, calllingPendingFunctors_, activeChannels_,
                   wakeups, waking>>
FunctorReturns ==
    /\ pc = "functor"
    /\ pc' = "drain"
    /\ UNCHANGED <<looping_, quit_, calllingPendingFunctors_, activeChannels_,
                   pendingFunctors_, functions, wakeups, waking>>

EndDrainMutant ==
    /\ pc = "drain"
    /\ functions = <<>>
    /\ pc' = "check"
    /\ UNCHANGED <<looping_, quit_, calllingPendingFunctors_, activeChannels_,
                   pendingFunctors_, functions, wakeups, waking>>
EndDrain ==
    /\ pc = "drain"
    /\ functions = <<>>
    /\ pc' = "check"
    /\ calllingPendingFunctors_' = FALSE
    /\ UNCHANGED <<looping_, quit_, activeChannels_, pendingFunctors_,
                   functions, wakeups, waking>>

-----------------------------------------------------------------------------
UserCode ==
    \/ QuitFromLoop
    \/ \E f \in Functor : QueueFromLoop(f)

OtherThread(t) ==
    \/ Quit(t)
    \/ WakeUp(t)
    \/ \E f \in Functor : Queue(t, f)

\* The steps that the loop's thread takes by itself once it is in loop().
LoopStep ==
    \/ StayInLoop \/ LeaveLoop
    \/ HandleRead \/ HandlerReturns \/ \E c \in Channel : HandleEvent(c)
    \/ BeginDrain \/ RunFunctor \/ FunctorReturns \/ EndDrain

Next ==
    \/ EnterLoop \/ LoopStep \/ PollNothing
    \/ \E S \in SUBSET Channel : PollReady(S)
    \/ UserCode
    \/ \E t \in Thread : OtherThread(t)

Spec == Init /\ [][Next]_vars

(***************************************************************************)
(* The loop's thread keeps going while it is in loop(), user code returns, *)
(* a thread that is about to write to wakeupFd_ does, and poll() returns   *)
(* when that counter is not zero.  It is not assumed that poll() ever      *)
(* times out or that any other channel ever becomes ready: what the loop   *)
(* owes to the other threads must not take kPollTimeMs.                    *)
(***************************************************************************)
Fairness ==
    /\ WF_vars(LoopStep)
    /\ WF_vars(wakeups > 0 /\ \E S \in SUBSET Channel : PollReady(S))
    /\ \A t \in Thread : WF_vars(WakeUp(t))

FairSpec == Spec /\ Fairness

-----------------------------------------------------------------------------
(***************************************************************************)
(* Properties.                                                             *)
(***************************************************************************)

\* Every variable has its type, and the loop thread's own flags and batch follow
\* its place: looping_ is set exactly within loop(), calllingPendingFunctors_
\* exactly within doPendingFunctors(), and a batch exists only there.  loop()
\* asserts the first and queueInLoop() relies on the second.
TypeOK ==
    /\ pc \in {"outside", "check", "poll", "dispatch", "handler", "drain",
               "functor"}
    /\ looping_ \in BOOLEAN
    /\ looping_ <=> pc # "outside"
    /\ quit_ \in BOOLEAN
    /\ calllingPendingFunctors_ \in BOOLEAN
    /\ calllingPendingFunctors_ <=> pc \in {"drain", "functor"}
    /\ activeChannels_ \in SUBSET (Channel \cup {wakeupChannel})
    /\ pendingFunctors_ \in Seq(Functor)
    /\ functions \in Seq(Functor)
    /\ functions # <<>> => calllingPendingFunctors_
    /\ wakeups \in 0 .. EventfdMax
    /\ waking \in [Thread -> BOOLEAN]

\* The loop never sleeps on work that it was given while loop() was running or
\* by another thread: while poll() blocks and such a callback is pending,
\* wakeupFd_ is readable or a thread is about to write to it.  Callbacks that
\* the loop's own thread queued outside loop() are the exception: queueInLoop
\* does not wake the loop for those, and they wait for poll() to time out.
NoLostWakeup ==
    pc = "poll" =>
        \/ \A f \in Range(pendingFunctors_) : f.by = "outside"
        \/ wakeups > 0
        \/ \E t \in Thread : waking[t]

\* The loop implements the executor: callbacks accepted by queueInLoop from any
\* thread are started once each, in the order in which they were accepted.
ImplementsExecutor ==
    INSTANCE Executor WITH queue <- functions \o pendingFunctors_
ExecutorSpec == ImplementsExecutor!Spec

\* A callback that another thread, or code run by loop(), has queued is taken
\* out of the queue to be run, unless somebody tells the loop to quit, and
\* this does not wait for poll() to time out.
EventuallyRun ==
    \A f \in Functor \ [by : {"outside"}, id : Id] :
        looping_ /\ f \in Range(pendingFunctors_)
            ~> quit_ \/ f \notin Range(pendingFunctors_)

\* quit(), whoever calls it and whatever loop() is doing, makes loop() return
\* without waiting for poll() to time out.
QuitStops == looping_ /\ quit_ ~> ~looping_

\* A callback that queues itself, or another, again and again does not keep
\* the loop away from poll() and its channels.
ReturnsToPoll == looping_ ~> pc = "poll" \/ ~looping_

-----------------------------------------------------------------------------
(***************************************************************************)
(* The inductive invariant behind TypeOK and NoLostWakeup.                 *)
(***************************************************************************)

\* A callback queued by another thread or from inside the loop is announced by
\* wakeupFd_ or is about to be, or the loop has yet to look at the queue.
WakeInv ==
    \/ pc \in {"dispatch", "handler"}
    \/ \A f \in Range(pendingFunctors_) : f.by = "outside"
    \/ wakeups > 0
    \/ \E t \in Thread : waking[t]

Inv == TypeOK /\ WakeInv
=============================================================================
