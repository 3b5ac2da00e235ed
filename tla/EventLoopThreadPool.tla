------------------------ MODULE EventLoopThreadPool -------------------------
(***************************************************************************)
(* mtnet::EventLoopThreadPool and its EventLoopThreads: the birth and the  *)
(* death of the threads that run one EventLoop each.                       *)
(*                                                                         *)
(* The owner, the base loop's thread, starts the threads one by one and    *)
(* waits for each to publish the address of its loop, hands the loops out  *)
(* in turn, and destroys the threads one by one.  An EventLoop lives on    *)
(* its thread's stack: its address outlives it.  Of the loop only what     *)
(* quit() and loop() share is kept: EventLoop.tla has the rest.            *)
(***************************************************************************)
EXTENDS Naturals

CONSTANTS
    MaxThreads,    \* bound: the largest numThreads_
    UserQuits,     \* does user code call quit() on the pool's loops?
    MaxGiven       \* bound: how often getNextLoop is called

ASSUME PoolAssumption ==
    MaxThreads \in Nat /\ UserQuits \in BOOLEAN /\ MaxGiven \in Nat

Loop == 1 .. MaxThreads
base == 0          \* baseLoop_

VARIABLES
    numThreads_,   \* set before start(); the pool's loops are 1 .. numThreads_
    pc,            \* the owner
    cur,           \* the EventLoopThread the owner is starting or destroying
    next_,         \* next_; the loops are loops_[0], ..., numbered from 1 here
    given,         \* how often getNextLoop gave each loop
    thread,        \* where each thread is in threadFunc()
    loop_,         \* has loop_ been set?
    mutex_,        \* who holds it
    object,        \* the EventLoop on the thread's stack
    quit_,
    readable       \* is the counter of the loop's wakeupFd_ above zero?

poolVars == <<numThreads_, next_, given>>
ownerVars == <<pc, cur, poolVars>>
threadVars == <<thread, loop_, mutex_>>
loopVars == <<object, quit_, readable>>
vars == <<ownerVars, threadVars, loopVars>>

Init ==
    /\ numThreads_ \in 0 .. MaxThreads
    /\ pc = IF numThreads_ = 0 THEN "using" ELSE "start"
    /\ cur = 1
    /\ next_ = 0
    /\ given = [i \in Loop \cup {base} |-> 0]
    /\ thread = [i \in Loop |-> "none"]
    /\ loop_ = [i \in Loop |-> FALSE]
    /\ mutex_ = [i \in Loop |-> "free"]
    /\ object = [i \in Loop |-> "none"]
    /\ quit_ = [i \in Loop |-> FALSE]
    /\ readable = [i \in Loop |-> FALSE]

-----------------------------------------------------------------------------
(***************************************************************************)
(* The owner, in EventLoopThreadPool::start and EventLoopThread::startLoop.*)
(***************************************************************************)

\* Thread::start creates the thread.
Start ==
    /\ pc = "start"
    /\ pc' = "lock"
    /\ thread' = [thread EXCEPT ![cur] = "construct"]
    /\ UNCHANGED <<cur, poolVars, loop_, mutex_, loopVars>>

Lock ==
    /\ pc = "lock"
    /\ mutex_[cur] = "free"
    /\ mutex_' = [mutex_ EXCEPT ![cur] = "owner"]
    /\ pc' = "check"
    /\ UNCHANGED <<cur, poolVars, thread, loop_, loopVars>>

\* while(loop_ == NULL): cond_.wait() releases the mutex as it blocks.
Wait ==
    /\ pc = "check"
    /\ ~loop_[cur]
    /\ pc' = "waiting"
    /\ mutex_' = [mutex_ EXCEPT ![cur] = "free"]
    /\ UNCHANGED <<cur, poolVars, thread, loop_, loopVars>>

\* The condition is notified (see Publish), or wait() wakes for no reason; it
\* takes the mutex again, and loop_ is tested again.
SpuriousWakeupMutant ==
    /\ pc = "waiting"
    /\ pc' = "using"
    /\ UNCHANGED <<cur, poolVars, threadVars, loopVars>>
SpuriousWakeup ==
    /\ pc = "waiting"
    /\ pc' = "lock"
    /\ UNCHANGED <<cur, poolVars, threadVars, loopVars>>

\* loop_ is set: startLoop returns it, and start() goes on to the next thread.
StartLoopReturns ==
    /\ pc = "check"
    /\ loop_[cur]
    /\ mutex_' = [mutex_ EXCEPT ![cur] = "free"]
    /\ pc' = IF cur < numThreads_ THEN "start" ELSE "using"
    /\ cur' = IF cur < numThreads_ THEN cur + 1 ELSE 1
    /\ UNCHANGED <<poolVars, thread, loop_, loopVars>>

-----------------------------------------------------------------------------
(***************************************************************************)
(* The owner and the users of the pool.                                    *)
(***************************************************************************)

\* The loop whose turn it is: the base loop if the pool is empty.
NextLoop == IF numThreads_ = 0 THEN base ELSE next_ + 1

\* getNextLoop.
GetNextLoopMutant ==
    /\ pc = "using"
    /\ \A i \in DOMAIN given : given[i] < MaxGiven
    /\ given' = [given EXCEPT ![NextLoop] = @ + 1]
    /\ next_' = IF next_ + 2 >= numThreads_ THEN 0 ELSE next_ + 1
    /\ UNCHANGED <<numThreads_, pc, cur, threadVars, loopVars>>
GetNextLoopOverrun ==
    /\ pc = "using"
    /\ \A i \in DOMAIN given : given[i] < MaxGiven
    /\ given' = [given EXCEPT ![NextLoop] = @ + 1]
    /\ next_' = IF next_ + 1 > numThreads_ THEN 0 ELSE next_ + 1
    /\ UNCHANGED <<numThreads_, pc, cur, threadVars, loopVars>>
GetNextLoop ==
    /\ pc = "using"
    /\ \A i \in DOMAIN given : given[i] < MaxGiven
    /\ given' = [given EXCEPT ![NextLoop] = @ + 1]
    /\ next_' = IF next_ + 1 >= numThreads_ THEN 0 ELSE next_ + 1
    /\ UNCHANGED <<numThreads_, pc, cur, threadVars, loopVars>>

\* The store of loop->quit().  A loop that is gone is not there to notice: what
\* the store does to the memory that was its own is left out.
StoreQuit(i) ==
    quit_' = IF object[i] = "alive" THEN [quit_ EXCEPT ![i] = TRUE] ELSE quit_

\* User code on the owner's thread calls quit() on a loop it was given, as
\* test2.cc does.
UserQuit(i) ==
    /\ UserQuits
    /\ pc = "using"
    /\ StoreQuit(i)
    /\ cur' = i
    /\ pc' = "user wakeup"
    /\ UNCHANGED <<poolVars, threadVars, object, readable>>

\* The pool is destroyed, and its threads with it, in order: ~EventLoopThread
\* calls quit() on its loop ...
DestroyPool ==
    /\ pc = "using"
    /\ pc' = IF numThreads_ = 0 THEN "gone" ELSE "destroy"
    /\ cur' = 1
    /\ UNCHANGED <<poolVars, threadVars, loopVars>>

Destroy ==
    /\ pc = "destroy"
    /\ StoreQuit(cur)
    /\ pc' = "wakeup"
    /\ UNCHANGED <<cur, poolVars, threadVars, object, readable>>

\* ... whose second half is the write to the loop's wakeupFd_ ...
WakeupMutant ==
    /\ pc \in {"user wakeup", "wakeup"}
    /\ pc' = IF pc = "wakeup" THEN "join" ELSE "using"
    /\ UNCHANGED <<cur, poolVars, threadVars, loopVars>>
Wakeup ==
    /\ pc \in {"user wakeup", "wakeup"}
    /\ pc' = IF pc = "wakeup" THEN "join" ELSE "using"
    /\ readable' = IF object[cur] = "alive" THEN [readable EXCEPT ![cur] = TRUE]
                                            ELSE readable
    /\ UNCHANGED <<cur, poolVars, threadVars, object, quit_>>

\* ... and joins the thread.
Join ==
    /\ pc = "join"
    /\ thread[cur] = "done"
    /\ pc' = IF cur < numThreads_ THEN "destroy" ELSE "gone"
    /\ cur' = IF cur < numThreads_ THEN cur + 1 ELSE cur
    /\ UNCHANGED <<poolVars, threadVars, loopVars>>

-----------------------------------------------------------------------------
(***************************************************************************)
(* A thread, in threadFunc and loop().                                     *)
(***************************************************************************)

Construct(i) ==
    /\ thread[i] = "construct"
    /\ thread' = [thread EXCEPT ![i] = "lock"]
    /\ object' = [object EXCEPT ![i] = "alive"]
    /\ UNCHANGED <<ownerVars, loop_, mutex_, quit_, readable>>

\* Under mutex_, loop_ is set and the owner, if it waits, is notified.
PublishMutant(i) ==
    /\ thread[i] = "lock"
    /\ mutex_[i] = "free"
    /\ thread' = [thread EXCEPT ![i] = "enter"]
    /\ loop_' = [loop_ EXCEPT ![i] = TRUE]
    /\ UNCHANGED <<ownerVars, mutex_, loopVars>>
Publish(i) ==
    /\ thread[i] = "lock"
    /\ mutex_[i] = "free"
    /\ thread' = [thread EXCEPT ![i] = "enter"]
    /\ loop_' = [loop_ EXCEPT ![i] = TRUE]
    /\ pc' = IF pc = "waiting" /\ cur = i THEN "lock" ELSE pc
    /\ UNCHANGED <<cur, poolVars, mutex_, loopVars>>

\* loop() begins: whatever quit() stored before is overwritten.
EnterLoop(i) ==
    /\ thread[i] = "enter"
    /\ thread' = [thread EXCEPT ![i] = "check"]
    /\ quit_' = [quit_ EXCEPT ![i] = FALSE]
    /\ UNCHANGED <<ownerVars, loop_, mutex_, object, readable>>

CheckQuit(i) ==
    /\ thread[i] = "check"
    /\ thread' = [thread EXCEPT ![i] = IF quit_[i] THEN "destruct" ELSE "poll"]
    /\ UNCHANGED <<ownerVars, loop_, mutex_, loopVars>>

\* poll() returns: wakeupFd_ is readable and is read, ...
PollWakeup(i) ==
    /\ thread[i] = "poll"
    /\ readable[i]
    /\ thread' = [thread EXCEPT ![i] = "check"]
    /\ readable' = [readable EXCEPT ![i] = FALSE]
    /\ UNCHANGED <<ownerVars, loop_, mutex_, object, quit_>>

\* ... or it timed out, or some other channel was handled.
PollOther(i) ==
    /\ thread[i] = "poll"
    /\ thread' = [thread EXCEPT ![i] = "check"]
    /\ UNCHANGED <<ownerVars, loop_, mutex_, loopVars>>

\* loop() and threadFunc() return, which destroys the loop.
Destruct(i) ==
    /\ thread[i] = "destruct"
    /\ thread' = [thread EXCEPT ![i] = "done"]
    /\ object' = [object EXCEPT ![i] = "dead"]
    /\ UNCHANGED <<ownerVars, loop_, mutex_, quit_, readable>>

-----------------------------------------------------------------------------
StartStep == Start \/ Lock \/ Wait \/ StartLoopReturns
EndStep == Destroy \/ Wakeup \/ Join
ThreadStep(i) ==
    \/ Construct(i) \/ Publish(i) \/ EnterLoop(i) \/ CheckQuit(i)
    \/ PollWakeup(i) \/ Destruct(i)

\* The pool is gone: nothing is left to do.
Terminated == pc = "gone" /\ UNCHANGED vars

Next ==
    \/ StartStep \/ SpuriousWakeup \/ GetNextLoop \/ DestroyPool \/ EndStep
    \/ Terminated
    \/ \E i \in 1 .. numThreads_ : UserQuit(i) \/ ThreadStep(i) \/ PollOther(i)

Spec == Init /\ [][Next]_vars

\* The owner and the threads run, and a thread that wants a mutex gets it if the
\* mutex is free again and again.  It is not assumed that poll() times out, or
\* that wait() ever wakes for no reason.
FairSpec ==
    /\ Spec
    /\ WF_vars(StartStep \/ EndStep)
    /\ \A i \in Loop : WF_vars(ThreadStep(i)) /\ SF_vars(Publish(i))

-----------------------------------------------------------------------------
(***************************************************************************)
(* Properties.                                                             *)
(***************************************************************************)

TypeOK ==
    /\ numThreads_ \in 0 .. MaxThreads
    /\ pc \in {"start", "lock", "check", "waiting", "using", "user wakeup",
               "destroy", "wakeup", "join", "gone"}
    /\ cur \in Nat
    /\ next_ \in 0 .. IF numThreads_ = 0 THEN 0 ELSE numThreads_ - 1
    /\ given \in [Loop \cup {base} -> Nat]
    /\ thread \in [Loop -> {"none", "construct", "lock", "enter", "check",
                            "poll", "destruct", "done"}]
    /\ loop_ \in [Loop -> BOOLEAN]
    /\ mutex_ \in [Loop -> {"free", "owner"}]
    /\ object \in [Loop -> {"none", "alive", "dead"}]
    /\ quit_ \in [Loop -> BOOLEAN]
    /\ readable \in [Loop -> BOOLEAN]

\* startLoop returns the address of a loop that exists: once the pool has been
\* started, every loop that nobody has told to quit is there.
LoopsAreReady ==
    pc = "using" => \A i \in 1 .. numThreads_ :
        object[i] = "alive" \/ (object[i] = "dead" /\ quit_[i])

\* README.md:21: connections are assigned to the threads in a circle.  No loop
\* is ever two ahead of another.
Balanced == \A i, j \in 1 .. numThreads_ : given[i] <= given[j] + 1

\* startLoop returns for every thread, wherever the notification falls.
StartReturns == <>(pc = "using")

\* The pool's destruction ends, without waiting for poll() to time out, if all
\* the threads had entered loop() when it began.
DestructionEnds ==
    (/\ pc = "destroy" /\ cur = 1
     /\ \A i \in 1 .. numThreads_ :
           thread[i] \in {"check", "poll", "destruct", "done"})
        ~> pc = "gone"

\* test2.cc, whose main() starts a loop, quits it and then returns, expects to
\* reach its end.
AlwaysEnds == pc = "destroy" ~> pc = "gone"

\* The destructor of an EventLoopThread calls quit() on an EventLoop that is still
\* there, also where user code has quit that loop before, as test2.cc:28 does.
UsedLoopsExist == pc = "destroy" => object[cur] = "alive"
=============================================================================
