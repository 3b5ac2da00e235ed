---------------------- MODULE EventLoopThreadPoolProofs ----------------------
(***************************************************************************)
(* What holds of EventLoopThreadPool for any number of threads: the loops  *)
(* that start() has collected exist until they are told to quit, whatever  *)
(* wakes the owner, and getNextLoop gives them out evenly.                 *)
(***************************************************************************)
EXTENDS EventLoopThreadPool, TLAPS

\* A thread's place tells what there is of its loop.  A loop is left, and so
\* destroyed, only by quit(), which nothing takes back once loop() has begun.
ThreadInv(i) ==
    /\ object[i] = "none" <=> thread[i] \in {"none", "construct"}
    /\ object[i] = "dead" <=> thread[i] = "done"
    /\ loop_[i] => thread[i] \in {"enter", "check", "poll", "destruct", "done"}
    /\ thread[i] \in {"destruct", "done"} => quit_[i]

\* The owner goes on to the next thread when loop_ is set, and not before.
OwnerInv ==
    IF pc \in {"start", "lock", "check", "waiting"}
    THEN /\ cur \in 1 .. numThreads_
         /\ \A i \in 1 .. numThreads_ :
               /\ i < cur => loop_[i]
               /\ i > cur \/ (i = cur /\ pc = "start") => thread[i] = "none"
    ELSE \A i \in 1 .. numThreads_ : loop_[i]

\* The loops before next_ have had one turn more than the others.
TurnInv ==
    \A i \in 1 .. numThreads_ :
        given[i] = given[numThreads_] + (IF i <= next_ THEN 1 ELSE 0)

Inv ==
    /\ TypeOK
    /\ \A i \in 1 .. numThreads_ : ThreadInv(i)
    /\ OwnerInv
    /\ TurnInv

\* Init establishes it.
LEMMA InitInv == Init => Inv
<1> SUFFICES ASSUME Init PROVE Inv
    OBVIOUS
<1>1. /\ MaxThreads \in Nat /\ numThreads_ \in 0 .. MaxThreads
      /\ \A i \in 1 .. numThreads_ : i \in Loop
    BY PoolAssumption DEF Init, Loop
<1>2. TypeOK
    <2>1. /\ numThreads_ \in 0 .. MaxThreads /\ cur \in Nat
          /\ next_ \in 0 .. IF numThreads_ = 0 THEN 0 ELSE numThreads_ - 1
        BY <1>1 DEF Init
    <2>2. /\ pc \in {"start", "using"} /\ given \in [Loop \cup {base} -> Nat]
          /\ thread \in [Loop -> {"none"}] /\ mutex_ \in [Loop -> {"free"}]
          /\ object \in [Loop -> {"none"}]
        BY DEF Init
    <2>3. /\ loop_ \in [Loop -> BOOLEAN] /\ quit_ \in [Loop -> BOOLEAN]
          /\ readable \in [Loop -> BOOLEAN]
        BY DEF Init
    <2>4. QED
        BY <2>1, <2>2, <2>3 DEF TypeOK
<1>3. \A i \in 1 .. numThreads_ : ThreadInv(i)
    BY <1>1 DEF Init, ThreadInv
<1>4. OwnerInv
    BY <1>1 DEF Init, OwnerInv
<1>5. TurnInv
    BY <1>1 DEF Init, TurnInv
<1>6. QED
    BY <1>2, <1>3, <1>4, <1>5 DEF Inv

\* The invariant's parts; the pool's loops are among those of Loop.
LEMMA Parts ==
    ASSUME Inv
    PROVE  /\ TypeOK /\ OwnerInv /\ TurnInv /\ numThreads_ \in Nat
           /\ \A i \in 1 .. numThreads_ : i \in Loop /\ ThreadInv(i)
<1>1. /\ TypeOK /\ OwnerInv /\ TurnInv
      /\ \A i \in 1 .. numThreads_ : ThreadInv(i)
    BY DEF Inv
<1>2. MaxThreads \in Nat /\ numThreads_ \in 0 .. MaxThreads
    BY <1>1, PoolAssumption DEF TypeOK
<1>3. numThreads_ \in Nat /\ \A i \in 1 .. numThreads_ : i \in 1 .. MaxThreads
    BY <1>2
<1>4. QED
    BY <1>1, <1>3 DEF Loop

\* The steps of start() and startLoop.
LEMMA StartInv ==
    ASSUME Inv, StartStep \/ SpuriousWakeup
    PROVE  Inv'
<1>1. /\ TypeOK /\ OwnerInv /\ TurnInv /\ numThreads_ \in Nat
      /\ \A i \in 1 .. numThreads_ : i \in Loop /\ ThreadInv(i)
    BY Parts
<1>2. /\ UNCHANGED <<poolVars, loop_, loopVars>>
      /\ pc \in {"start", "lock", "check", "waiting"}
    BY DEF StartStep, Start, Lock, Wait, StartLoopReturns, SpuriousWakeup, threadVars
<1>3. cur \in 1 .. numThreads_ /\ numThreads_ \in Nat /\ cur \in Loop
    BY <1>1, <1>2 DEF OwnerInv, TypeOK
<1>4. TypeOK'
    <2>1. /\ cur' \in Nat
          /\ pc' \in {"start", "lock", "check", "waiting", "using"}
        BY <1>3 DEF StartStep, Start, Lock, Wait, StartLoopReturns, SpuriousWakeup
    <2>2. /\ thread' \in [Loop -> {"none", "construct", "lock", "enter", "check",
                                   "poll", "destruct", "done"}]
          /\ mutex_' \in [Loop -> {"free", "owner"}]
        BY <1>1, <1>3 DEF TypeOK, StartStep, Start, Lock, Wait, StartLoopReturns,
           SpuriousWakeup, threadVars
    <2>3. QED
        BY <1>1, <1>2, <2>1, <2>2 DEF TypeOK, poolVars, loopVars
<1>5. \A i \in 1 .. numThreads_ : ThreadInv(i)'
    <2>1. CASE Start
        <3>1. /\ pc = "start" /\ thread[cur] = "none"
              /\ thread' = [thread EXCEPT ![cur] = "construct"]
            BY <1>1, <1>2, <1>3, <2>1 DEF Start, OwnerInv
        <3>2. \A i \in 1 .. numThreads_ :
                  thread'[i] = IF i = cur THEN "construct" ELSE thread[i]
            BY <1>1, <3>1 DEF TypeOK
        <3>3. QED
            BY <1>1, <1>2, <3>1, <3>2 DEF ThreadInv, loopVars
    <2>2. CASE ~Start
        <3>1. thread' = thread
            BY <2>2 DEF StartStep, Lock, Wait, StartLoopReturns, SpuriousWakeup,
               threadVars
        <3>2. QED
            BY <1>1, <1>2, <3>1 DEF ThreadInv, loopVars
    <2>3. QED
        BY <2>1, <2>2
<1>6. OwnerInv'
    <2>1. CASE StartLoopReturns
        <3>1. loop_[cur] /\ thread' = thread
            BY <2>1 DEF StartLoopReturns
        <3>2. \A i \in 1 .. numThreads_ : i < cur \/ i = cur => loop_[i]
            <4>1. \A i \in 1 .. numThreads_ : i < cur => loop_[i]
                BY <1>1, <1>2 DEF OwnerInv
            <4>2. QED
                BY <3>1, <4>1
        <3>3. \A i \in 1 .. numThreads_ : i > cur => thread[i] = "none"
            BY <1>1, <1>2 DEF OwnerInv
        <3>4. CASE cur < numThreads_
            <4>1. pc' = "start" /\ cur' = cur + 1
                BY <2>1, <3>4 DEF StartLoopReturns
            <4>2. cur' \in 1 .. numThreads_
                BY <1>3, <3>4, <4>1
            <4>3. \A i \in 1 .. numThreads_ :
                      /\ i < cur' => i < cur \/ i = cur
                      /\ i > cur' \/ i = cur' => i > cur
                BY <1>3, <4>1
            <4>4. \A i \in 1 .. numThreads_ :
                      /\ i < cur' => loop_[i]
                      /\ i > cur' \/ i = cur' => thread[i] = "none"
                BY <3>2, <3>3, <4>3
            <4>5. numThreads_' = numThreads_ /\ loop_' = loop_ /\ thread' = thread
                BY <1>2, <3>1 DEF poolVars
            <4>6. QED
                BY <4>1, <4>2, <4>4, <4>5 DEF OwnerInv
        <3>5. CASE ~(cur < numThreads_)
            <4>1. pc' = "using"
                BY <2>1, <3>5 DEF StartLoopReturns
            <4>2. \A i \in 1 .. numThreads_ : i < cur \/ i = cur
                BY <1>3, <3>5
            <4>3. \A i \in 1 .. numThreads_ : loop_[i]
                BY <3>2, <4>2
            <4>4. numThreads_' = numThreads_ /\ loop_' = loop_
                BY <1>2 DEF poolVars
            <4>5. QED
                BY <4>1, <4>3, <4>4 DEF OwnerInv
        <3>6. QED
            BY <3>4, <3>5
    <2>2. CASE Start
        <3>1. /\ cur' = cur /\ pc' = "lock" /\ numThreads_' = numThreads_
              /\ loop_' = loop_ /\ thread' = [thread EXCEPT ![cur] = "construct"]
            BY <2>2 DEF Start, poolVars
        <3>2. \A i \in 1 .. numThreads_ : i > cur => thread'[i] = thread[i]
            <4>1. \A i \in 1 .. numThreads_ : i \in Loop /\ (i > cur => i # cur)
                BY <1>1, <1>3
            <4>2. DOMAIN thread = Loop
                BY <1>1 DEF TypeOK
            <4>3. QED
                BY <3>1, <4>1, <4>2
        <3>3. QED
            BY <1>1, <1>2, <3>1, <3>2 DEF OwnerInv
    <2>3. CASE Lock \/ Wait \/ SpuriousWakeup
        <3>1. /\ cur' = cur /\ pc' \in {"lock", "check", "waiting"}
              /\ numThreads_' = numThreads_ /\ loop_' = loop_ /\ thread' = thread
            BY <1>2, <2>3 DEF Lock, Wait, SpuriousWakeup, poolVars, threadVars
        <3>2. QED
            BY <1>1, <1>2, <3>1 DEF OwnerInv
    <2>4. QED
        BY <2>1, <2>2, <2>3 DEF StartStep
<1>7. TurnInv'
    BY <1>1, <1>2 DEF TurnInv, poolVars
<1>8. QED
    BY <1>2, <1>4, <1>5, <1>6, <1>7 DEF Inv, poolVars

\* getNextLoop: the turn goes round.
LEMMA GetNextLoopInv ==
    ASSUME Inv, GetNextLoop
    PROVE  Inv'
<1>1. /\ TypeOK /\ OwnerInv /\ TurnInv /\ numThreads_ \in Nat
      /\ \A i \in 1 .. numThreads_ : i \in Loop /\ ThreadInv(i)
    BY Parts
<1>2. /\ numThreads_ \in Nat /\ next_ \in Nat /\ NextLoop \in Loop \cup {base}
      /\ given \in [Loop \cup {base} -> Nat]
      /\ numThreads_ > 0 => next_ + 1 \in 1 .. numThreads_ /\ NextLoop = next_ + 1
    <2>1. /\ next_ \in 0 .. (IF numThreads_ = 0 THEN 0 ELSE numThreads_ - 1)
          /\ given \in [Loop \cup {base} -> Nat]
        BY <1>1 DEF TypeOK
    <2>2. next_ \in Nat /\ (numThreads_ > 0 => next_ + 1 \in 1 .. numThreads_)
        BY <1>1, <2>1
    <2>3. NextLoop = IF numThreads_ = 0 THEN base ELSE next_ + 1
        BY DEF NextLoop
    <2>4. QED
        BY <1>1, <2>1, <2>2, <2>3
<1>3. /\ pc = "using" /\ given' = [given EXCEPT ![NextLoop] = @ + 1]
      /\ next_' = IF next_ + 1 >= numThreads_ THEN 0 ELSE next_ + 1
      /\ UNCHANGED <<numThreads_, pc, cur, threadVars, loopVars>>
    BY DEF GetNextLoop
<1>4. /\ given' \in [Loop \cup {base} -> Nat]
      /\ next_' \in 0 .. IF numThreads_ = 0 THEN 0 ELSE numThreads_ - 1
    BY <1>2, <1>3
<1>5. TypeOK'
    BY <1>1, <1>3, <1>4 DEF TypeOK, threadVars, loopVars
<1>6. \A i \in 1 .. numThreads_ : ThreadInv(i)'
    BY <1>1, <1>3 DEF ThreadInv, threadVars, loopVars
<1>7. OwnerInv'
    BY <1>1, <1>3 DEF OwnerInv, threadVars
<1>8. TurnInv'
    <2>1. SUFFICES ASSUME NEW i \in 1 .. numThreads_
                   PROVE  given'[i] = given'[numThreads_]
                                        + (IF i <= next_' THEN 1 ELSE 0)
        BY <1>3 DEF TurnInv
    <2>2. /\ numThreads_ \in 1 .. numThreads_ /\ numThreads_ \in Loop /\ i \in Loop
          /\ i \in Nat /\ next_ < numThreads_ /\ next_ + 1 <= numThreads_
          /\ NextLoop = next_ + 1
        BY <1>1, <1>2, <2>1
    <2>3. /\ given[i] \in Nat /\ given[numThreads_] \in Nat
          /\ given[i] = given[numThreads_] + (IF i <= next_ THEN 1 ELSE 0)
        BY <1>1, <1>2, <2>2 DEF TurnInv
    <2>4. /\ given'[i] = IF i = next_ + 1 THEN given[i] + 1 ELSE given[i]
          /\ given'[numThreads_] = IF numThreads_ = next_ + 1
                                   THEN given[numThreads_] + 1 ELSE given[numThreads_]
        BY <1>2, <1>3, <2>2
    <2>5. CASE next_ + 1 = numThreads_
        <3>1. next_' = 0 /\ i <= next_ + 1
            BY <1>2, <1>3, <2>2, <2>5
        <3>2. QED
            BY <1>2, <2>2, <2>3, <2>4, <2>5, <3>1
    <2>6. CASE next_ + 1 < numThreads_
        <3>1. next_' = next_ + 1
            BY <1>2, <1>3, <2>6
        <3>2. QED
            BY <1>2, <2>2, <2>3, <2>4, <2>6, <3>1
    <2>7. QED
        BY <1>2, <2>2, <2>5, <2>6
<1>9. QED
    BY <1>3, <1>5, <1>6, <1>7, <1>8 DEF Inv

\* The pool's users and its destruction: quit() is stored where there is a loop.
LEMMA EndInv ==
    ASSUME Inv,
           DestroyPool \/ EndStep \/ (\E i \in 1 .. numThreads_ : UserQuit(i))
    PROVE  Inv'
<1>1. /\ TypeOK /\ OwnerInv /\ TurnInv /\ numThreads_ \in Nat
      /\ \A i \in 1 .. numThreads_ : i \in Loop /\ ThreadInv(i)
    BY Parts
<1>2. /\ UNCHANGED <<poolVars, threadVars, object>>
      /\ pc \notin {"start", "lock", "check", "waiting"}
      /\ pc' \in {"using", "user wakeup", "destroy", "wakeup", "join", "gone"}
    BY DEF DestroyPool, EndStep, Destroy, Wakeup, Join, UserQuit, loopVars
<1>3. cur' \in Nat
    <2>1. CASE DestroyPool \/ EndStep
        <3>1. cur' \in {1, cur, cur + 1} /\ cur \in Nat
            BY <1>1, <2>1 DEF DestroyPool, EndStep, Destroy, Wakeup, Join, TypeOK
        <3>2. QED
            BY <3>1
    <2>2. CASE \E i \in 1 .. numThreads_ : UserQuit(i)
        <3>1. PICK i \in 1 .. numThreads_ : cur' = i
            BY <2>2 DEF UserQuit
        <3>2. QED
            BY <1>1, <3>1
    <2>3. QED
        BY <2>1, <2>2
<1>4. /\ quit_' \in [Loop -> BOOLEAN] /\ \A i \in Loop : quit_[i] => quit_'[i]
      /\ readable' \in [Loop -> BOOLEAN]
    <2>1. CASE DestroyPool \/ Wakeup \/ Join
        <3>1. quit_' = quit_
            BY <2>1 DEF DestroyPool, Wakeup, Join, loopVars
        <3>2. readable' \in [Loop -> BOOLEAN]
            BY <1>1, <2>1 DEF DestroyPool, Wakeup, Join, loopVars, TypeOK
        <3>3. QED
            BY <1>1, <3>1, <3>2 DEF TypeOK
    <2>2. ASSUME NEW i, StoreQuit(i)
          PROVE  quit_' \in [Loop -> BOOLEAN] /\ \A j \in Loop : quit_[j] => quit_'[j]
        BY <1>1, <2>2 DEF StoreQuit, TypeOK
    <2>3. CASE Destroy \/ (\E i \in 1 .. numThreads_ : UserQuit(i))
        BY <1>1, <2>2, <2>3 DEF Destroy, UserQuit, TypeOK
    <2>4. QED
        BY <2>1, <2>3 DEF EndStep
<1>5. TypeOK'
    BY <1>1, <1>2, <1>3, <1>4 DEF TypeOK, poolVars, threadVars
<1>6. \A i \in 1 .. numThreads_ : ThreadInv(i)'
    BY <1>1, <1>2, <1>4 DEF ThreadInv, threadVars
<1>7. OwnerInv'
    BY <1>1, <1>2 DEF OwnerInv, poolVars, threadVars
<1>8. TurnInv'
    BY <1>1, <1>2 DEF TurnInv, poolVars
<1>9. QED
    BY <1>2, <1>5, <1>6, <1>7, <1>8 DEF Inv, poolVars

\* The threads' own steps.
LEMMA ThreadStepInv ==
    ASSUME Inv, NEW t \in 1 .. numThreads_, ThreadStep(t) \/ PollOther(t)
    PROVE  Inv'
<1>1. /\ TypeOK /\ OwnerInv /\ TurnInv /\ t \in Loop
      /\ \A i \in 1 .. numThreads_ : i \in Loop /\ ThreadInv(i)
    BY Parts
<1>2. /\ UNCHANGED <<cur, poolVars, mutex_>>
      /\ pc' = pc \/ (pc = "waiting" /\ pc' = "lock")
    BY DEF ThreadStep, Construct, Publish, EnterLoop, CheckQuit, PollWakeup,
           Destruct, PollOther, ownerVars
<1>3. TypeOK'
    <2>1. /\ thread' \in [Loop -> {"none", "construct", "lock", "enter", "check",
                                   "poll", "destruct", "done"}]
          /\ object' \in [Loop -> {"none", "alive", "dead"}]
        BY <1>1 DEF TypeOK, ThreadStep, Construct, Publish, EnterLoop, CheckQuit,
           PollWakeup, Destruct, PollOther, loopVars
    <2>2. /\ loop_' \in [Loop -> BOOLEAN] /\ quit_' \in [Loop -> BOOLEAN]
          /\ readable' \in [Loop -> BOOLEAN]
        BY <1>1 DEF TypeOK, ThreadStep, Construct, Publish, EnterLoop, CheckQuit,
           PollWakeup, Destruct, PollOther, loopVars
    <2>3. QED
        BY <1>1, <1>2, <2>1, <2>2 DEF TypeOK, poolVars
<1>4. \A i \in 1 .. numThreads_ : loop_[i] => loop_'[i]
    BY <1>1 DEF TypeOK, ThreadStep, Construct, Publish, EnterLoop, CheckQuit,
           PollWakeup, Destruct, PollOther
<1>5. \A i \in 1 .. numThreads_ : ThreadInv(i)'
    <2>1. SUFFICES ASSUME NEW i \in 1 .. numThreads_ PROVE ThreadInv(i)'
        OBVIOUS
    <2>2. /\ ThreadInv(i) /\ i \in Loop
          /\ thread \in [Loop -> {"none", "construct", "lock", "enter", "check",
                                  "poll", "destruct", "done"}]
          /\ object \in [Loop -> {"none", "alive", "dead"}]
          /\ loop_ \in [Loop -> BOOLEAN] /\ quit_ \in [Loop -> BOOLEAN]
        BY <1>1 DEF TypeOK
    <2>3. CASE Construct(t)
        BY <1>1, <2>2, <2>3 DEF ThreadInv, Construct
    <2>4. CASE Publish(t)
        BY <1>1, <2>2, <2>4 DEF ThreadInv, Publish, loopVars
    <2>5. CASE EnterLoop(t)
        BY <1>1, <2>2, <2>5 DEF ThreadInv, EnterLoop
    <2>6. CASE CheckQuit(t)
        BY <1>1, <2>2, <2>6 DEF ThreadInv, CheckQuit, loopVars
    <2>7. CASE PollWakeup(t)
        BY <1>1, <2>2, <2>7 DEF ThreadInv, PollWakeup
    <2>8. CASE Destruct(t)
        BY <1>1, <2>2, <2>8 DEF ThreadInv, Destruct
    <2>9. CASE PollOther(t)
        BY <1>1, <2>2, <2>9 DEF ThreadInv, PollOther, loopVars
    <2>10. QED
        BY <2>3, <2>4, <2>5, <2>6, <2>7, <2>8, <2>9 DEF ThreadStep
<1>6. OwnerInv'
    <2>1. \A i \in 1 .. numThreads_ : thread[i] = "none" => thread'[i] = "none"
        BY <1>1 DEF TypeOK, ThreadStep, Construct, Publish, EnterLoop, CheckQuit,
           PollWakeup, Destruct, PollOther
    <2>2. pc' = "start" => pc = "start"
        BY <1>2
    <2>3. QED
        BY <1>1, <1>2, <1>4, <2>1, <2>2 DEF OwnerInv, poolVars
<1>7. TurnInv'
    BY <1>1, <1>2 DEF TurnInv, poolVars
<1>8. QED
    BY <1>2, <1>3, <1>5, <1>6, <1>7 DEF Inv, poolVars

\* The invariant holds in every state that a pool can reach.
THEOREM Invariance == Spec => []Inv
<1>1. Inv /\ [Next]_vars => Inv'
    <2> SUFFICES ASSUME Inv, [Next]_vars PROVE Inv'
        OBVIOUS
    <2>1. CASE StartStep \/ SpuriousWakeup
        BY <2>1, StartInv
    <2>2. CASE GetNextLoop
        BY <2>2, GetNextLoopInv
    <2>3. CASE DestroyPool \/ EndStep \/ (\E i \in 1 .. numThreads_ : UserQuit(i))
        BY <2>3, EndInv
    <2>4. CASE \E i \in 1 .. numThreads_ : ThreadStep(i) \/ PollOther(i)
        BY <2>4, ThreadStepInv
    <2>5. CASE UNCHANGED vars
        BY <2>5 DEF vars, ownerVars, poolVars, threadVars, loopVars, Inv, TypeOK,
                    ThreadInv, OwnerInv, TurnInv
    <2>6. QED
        BY <2>1, <2>2, <2>3, <2>4, <2>5 DEF Next, Terminated
<1>2. QED
    BY <1>1, InitInv, PTL DEF Spec

\* The owner, the threads and the loops have values of their types; next_ is an
\* index of loops_.
THEOREM TypeCorrect == Spec => []TypeOK
<1>1. Inv => TypeOK
    BY DEF Inv
<1>2. QED
    BY <1>1, Invariance, PTL

\* Once start() has returned every loop of the pool exists, or was told to quit:
\* startLoop never returns before the thread has made its loop, however wait()
\* is woken.
THEOREM LoopsReady == Spec => []LoopsAreReady
<1>1. Inv => LoopsAreReady
    <2> SUFFICES ASSUME Inv, pc = "using", NEW i \in 1 .. numThreads_
                 PROVE  object[i] = "alive" \/ (object[i] = "dead" /\ quit_[i])
        BY DEF LoopsAreReady
    <2>1. i \in Loop /\ loop_[i] /\ ThreadInv(i)
        BY Parts DEF OwnerInv
    <2>2. object[i] \in {"none", "alive", "dead"}
        BY <2>1 DEF Inv, TypeOK
    <2>3. QED
        BY <2>1, <2>2 DEF ThreadInv
<1>2. QED
    BY <1>1, Invariance, PTL

\* However many threads there are and however often getNextLoop is called, no
\* loop of the pool is given two connections more than another.
THEOREM EvenlyGiven == Spec => []Balanced
<1>1. Inv => Balanced
    <2> SUFFICES ASSUME Inv, NEW i \in 1 .. numThreads_, NEW j \in 1 .. numThreads_
                 PROVE  given[i] <= given[j] + 1
        BY DEF Balanced
    <2>1. numThreads_ \in 1 .. numThreads_ /\ \A k \in 1 .. numThreads_ : given[k] \in Nat
        <3>1. /\ numThreads_ \in Nat /\ given \in [Loop \cup {base} -> Nat]
              /\ \A k \in 1 .. numThreads_ : k \in Loop
            BY Parts DEF TypeOK
        <3>2. 1 <= i /\ i <= numThreads_
            BY <3>1
        <3>3. QED
            BY <3>1, <3>2
    <2>2. /\ given[i] = given[numThreads_] + (IF i <= next_ THEN 1 ELSE 0)
          /\ given[j] = given[numThreads_] + (IF j <= next_ THEN 1 ELSE 0)
        BY DEF Inv, TurnInv
    <2>3. QED
        BY <2>1, <2>2
<1>2. QED
    BY <1>1, Invariance, PTL

-----------------------------------------------------------------------------
(***************************************************************************)
(* The destructor, where user code leaves the loops alone.                 *)
(***************************************************************************)

\* If user code calls no quit(), a loop is told to quit when the destructor comes to
\* its thread, and not before.
QuietInv ==
    /\ pc # "user wakeup"
    /\ pc \in {"destroy", "wakeup", "join"} => cur \in 1 .. numThreads_
    /\ \A i \in 1 .. numThreads_ :
           quit_[i] => \/ pc = "gone"
                       \/ pc \in {"destroy", "wakeup", "join"} /\ i < cur
                       \/ pc \in {"wakeup", "join"} /\ i = cur

\* A step of a pool whose loops users do not quit.
LEMMA QuietStep ==
    ASSUME Inv, QuietInv, ~UserQuits, [Next]_vars
    PROVE  QuietInv'
<1> USE DEF ownerVars, poolVars, threadVars, loopVars
<1>1. /\ TypeOK /\ numThreads_ \in Nat
      /\ \A i \in 1 .. numThreads_ : i \in Loop
    BY Parts
<1>2. CASE StartStep \/ SpuriousWakeup
    <2>1. /\ UNCHANGED <<numThreads_, quit_>>
          /\ pc \in {"start", "lock", "check", "waiting"}
          /\ pc' \in {"start", "lock", "check", "waiting", "using"}
        BY <1>2 DEF StartStep, Start, Lock, Wait, StartLoopReturns, SpuriousWakeup
    <2>2. QED
        BY <2>1 DEF QuietInv
<1>3. CASE GetNextLoop \/ Terminated \/ UNCHANGED vars
    BY <1>3 DEF GetNextLoop, Terminated, vars, QuietInv
<1>4. CASE DestroyPool
    <2>1. /\ UNCHANGED <<numThreads_, quit_>> /\ pc = "using" /\ cur' = 1
          /\ pc' = IF numThreads_ = 0 THEN "gone" ELSE "destroy"
        BY <1>4 DEF DestroyPool
    <2>2. \A i \in 1 .. numThreads_ : ~quit_[i]
        BY <2>1 DEF QuietInv
    <2>3. numThreads_ # 0 => 1 \in 1 .. numThreads_
        BY <1>1
    <2>4. QED
        BY <2>1, <2>2, <2>3 DEF QuietInv
<1>5. CASE Destroy
    <2>1. /\ UNCHANGED <<numThreads_, cur>> /\ pc = "destroy" /\ pc' = "wakeup"
          /\ quit_' \in {quit_, [quit_ EXCEPT ![cur] = TRUE]}
        BY <1>5 DEF Destroy, StoreQuit
    <2>2. \A i \in 1 .. numThreads_ : quit_'[i] => quit_[i] \/ i = cur
        BY <1>1, <2>1 DEF TypeOK
    <2>3. QED
        BY <2>1, <2>2 DEF QuietInv
<1>6. CASE Wakeup
    <2>1. /\ UNCHANGED <<numThreads_, cur, quit_>> /\ pc = "wakeup" /\ pc' = "join"
        BY <1>6 DEF Wakeup, QuietInv
    <2>2. QED
        BY <2>1 DEF QuietInv
<1>7. CASE Join
    <2>1. /\ UNCHANGED <<numThreads_, quit_>> /\ pc = "join" /\ cur \in 1 .. numThreads_
          /\ IF cur < numThreads_ THEN pc' = "destroy" /\ cur' = cur + 1
             ELSE pc' = "gone"
        BY <1>7 DEF Join, QuietInv
    <2>2. \A i \in 1 .. numThreads_ : quit_[i] => i < cur \/ i = cur
        BY <2>1 DEF QuietInv
    <2>3. \A i \in 1 .. numThreads_ : i < cur \/ i = cur => i < cur + 1
        BY <1>1, <2>1
    <2>4. cur < numThreads_ => cur + 1 \in 1 .. numThreads_
        BY <1>1, <2>1
    <2>5. QED
        BY <2>1, <2>2, <2>3, <2>4 DEF QuietInv
<1>8. ASSUME NEW i \in 1 .. numThreads_, ThreadStep(i) \/ PollOther(i)
      PROVE  QuietInv'
    <2>1. /\ UNCHANGED <<numThreads_, cur>>
          /\ pc' = pc \/ (pc = "waiting" /\ pc' = "lock")
          /\ quit_' \in {quit_, [quit_ EXCEPT ![i] = FALSE]}
        BY <1>8 DEF ThreadStep, Construct, Publish, EnterLoop, CheckQuit, PollWakeup,
                    Destruct, PollOther
    <2>2. \A j \in 1 .. numThreads_ : quit_'[j] => quit_[j]
        BY <1>1, <2>1 DEF TypeOK
    <2>3. QED
        BY <2>1, <2>2 DEF QuietInv
<1>9. ~\E i \in 1 .. numThreads_ : UserQuit(i)
    BY DEF UserQuit
<1>10. QED
    BY <1>2, <1>3, <1>4, <1>5, <1>6, <1>7, <1>8, <1>9 DEF Next, EndStep

\* If user code calls no quit() on the pool's loops, each EventLoop exists when the
\* destructor of its thread calls quit() on it (EventLoopThread.cc:21).  It need not
\* exist any more when that call comes to its wakeup().
THEOREM QuitFindsLoop == Spec => [](~UserQuits => UsedLoopsExist)
<1>1. Init => (~UserQuits => QuietInv)
    <2> SUFFICES ASSUME Init PROVE QuietInv
        OBVIOUS
    <2>1. \A i \in 1 .. numThreads_ : i \in Loop
        BY InitInv, Parts
    <2>2. QED
        BY <2>1 DEF Init, QuietInv
<1>2. Inv /\ (~UserQuits => QuietInv) /\ [Next]_vars => (~UserQuits => QuietInv)'
    BY QuietStep
<1>3. Inv /\ (~UserQuits => QuietInv) => (~UserQuits => UsedLoopsExist)
    <2> SUFFICES ASSUME Inv, QuietInv, pc = "destroy" PROVE object[cur] = "alive"
        BY DEF UsedLoopsExist
    <2>1. TypeOK /\ OwnerInv /\ cur \in 1 .. numThreads_ /\ cur \in Loop /\ ThreadInv(cur)
        BY Parts DEF QuietInv
    <2>2. loop_[cur] /\ ~quit_[cur]
        <3>1. \A i \in 1 .. numThreads_ : loop_[i]
            BY <2>1 DEF OwnerInv
        <3>2. ~(cur < cur)
            BY <2>1
        <3>3. QED
            BY <2>1, <3>1, <3>2 DEF QuietInv
    <2>3. QED
        BY <2>1, <2>2 DEF ThreadInv, TypeOK
<1>4. QED
    BY <1>1, <1>2, <1>3, Invariance, PTL DEF Spec
=============================================================================
