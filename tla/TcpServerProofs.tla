-------------------------- MODULE TcpServerProofs ---------------------------
(***************************************************************************)
(* What holds of TcpServer for any connections, loops, threads and limits  *)
(* on descriptors: its type invariant, and that as long as the server      *)
(* exists nothing but a functor of send() touches a connection that is     *)
(* gone.                                                                   *)
(***************************************************************************)
EXTENDS TcpServer, QueueFacts, SequenceTheorems, WellFoundedInduction, TLAPS

-----------------------------------------------------------------------------
(***************************************************************************)
(* The invariant.                                                          *)
(***************************************************************************)

\* A thread in send() has a reference; the batch of a loop is its pending functors
\* from BeginDrain to EndDrain.
CallInv ==
    /\ \A t \in Thread : calling[t] => holds[t] \in Conn
    /\ \A l \in Loop : ~draining[l] => functions[l] = <<>>

LifeOps == {"connectEstablished", "removeConnectionInLoop", "connectDestroyed"}

\* The functors of loop l that have not been run, and those of them that lead from
\* one stage of a connection's life to the next.
Queued(l) == Range(functions[l]) \cup Range(pendingFunctors_[l])
Waiting ==
    {w \in Loop \X LifeOps \X Conn : Bind(w[2], w[3]) \in Queued(w[1])}

\* Such a functor is queued once.
SingleInv ==
    \A l \in Loop, op \in LifeOps, c \in Conn :
        /\ Once(functions[l], Bind(op, c)) /\ Once(pendingFunctors_[l], Bind(op, c))
        /\ ~(/\ Bind(op, c) \in Range(functions[l])
             /\ Bind(op, c) \in Range(pendingFunctors_[l]))

RunningInv == server = "running" /\ stale = {}

\* Each of them is in the loop where it has to run, and in one stage alone.
Stage(c) ==
    /\ \A l \in Loop :
           /\ <<l, "connectEstablished", c>> \in Waiting =>
                  l = loop_[c] /\ registered[c] = "no" /\ c \in connections_
           /\ <<l, "removeConnectionInLoop", c>> \in Waiting =>
                  l = base /\ registered[c] = "ignored" /\ c \in connections_
           /\ <<l, "connectDestroyed", c>> \in Waiting =>
                  l = loop_[c] /\ registered[c] = "ignored" /\ c \notin connections_
    /\ registered[c] = "no" => state_[c] = "kConnecting"
    /\ registered[c] \in {"yes", "ignored"} => state_[c] = "kConnected"
    /\ registered[c] = "yes" => c \in connections_
    /\ registered[c] = "ignored" /\ c \notin connections_ =>
           <<loop_[c], "connectDestroyed", c>> \in Waiting
    /\ peer[c] \in {"away", "backlog"} => registered[c] = "no" /\ c \notin connections_
LifeInv == \A c \in Conn : Stage(c)

\* The descriptors of the connections that exist, and the Acceptor's, differ.
Living == {c \in Conn : Alive(c)}
FdInv ==
    /\ \A c \in Living : fd[c] # acceptFd
    /\ \A c, d \in Living : fd[c] = fd[d] => c = d

LiveInv == RunningInv /\ SingleInv /\ LifeInv /\ FdInv

Inv == TypeOK /\ CallInv /\ TouchesTheLiving
       /\ (destroyed \/ fault # "no" \/ LiveInv)

-----------------------------------------------------------------------------
(***************************************************************************)
(* Facts about functors and sequences of them.                             *)
(***************************************************************************)

\* A functor is what it calls and the connection that it calls it for.
LEMMA BindFacts ==
    /\ \A op, c : Bind(op, c).op = op /\ Bind(op, c).conn = c
    /\ \A op, c, p, d : Bind(op, c) = Bind(p, d) <=> op = p /\ c = d
    /\ \A c \in Conn : \A op \in RefOps \cup LifeOps \cup {"sendInLoop"} :
           Bind(op, c) \in Functor
    /\ Bind("listen", nobody) \in Functor
    /\ \A f \in Functor : f.op \in RefOps => f = Bind(f.op, f.conn) /\ f.conn \in Conn
<1>1. \A op, c : Bind(op, c).op = op /\ Bind(op, c).conn = c
    BY DEF Bind
<1>2. \A op, c, p, d : Bind(op, c) = Bind(p, d) <=> op = p /\ c = d
    BY <1>1
<1>3. \A c \in Conn : \A op \in RefOps \cup LifeOps \cup {"sendInLoop"} :
          Bind(op, c) \in Functor
    BY DEF Bind, Functor, RefOps, LifeOps
<1>4. Bind("listen", nobody) \in Functor
    BY DEF Bind, Functor
<1>5. \A f \in Functor : f.op \in RefOps => f = Bind(f.op, f.conn) /\ f.conn \in Conn
    BY DEF Bind, Functor, RefOps
<1>6. QED
    BY <1>1, <1>2, <1>3, <1>4, <1>5

\* No functor at all.
LEMMA EmptyFacts ==
    /\ <<>> \in Seq(Functor) /\ Range(<<>>) = {} /\ Carried(<<>>) = {}
    /\ \A x : Once(<<>>, x)
BY DEF Range, Carried, Once

\* One functor.
LEMMA OneFacts ==
    ASSUME NEW f \in Functor
    PROVE  /\ <<f>> \in Seq(Functor) /\ Range(<<f>>) = {f}
           /\ Carried(<<f>>) = IF f.op \in RefOps THEN {f.conn} ELSE {}
           /\ Carried(<<f>>) \subseteq Conn
<1>1. <<f>> \in Seq(Functor) /\ Range(<<f>>) = {f}
    BY DEF Range
<1>2. Carried(<<f>>) = IF f.op \in RefOps THEN {f.conn} ELSE {}
    BY <1>1 DEF Carried
<1>3. QED
    BY <1>1, <1>2, BindFacts

\* The connections that the functors of two sequences carry.
LEMMA CarriedFacts ==
    ASSUME NEW s \in Seq(Functor), NEW t \in Seq(Functor), NEW f \in Functor
    PROVE  /\ Carried(s \o t) = Carried(s) \cup Carried(t)
           /\ Carried(Append(s, f)) = Carried(s) \cup Carried(<<f>>)
           /\ s # <<>> => Carried(s) = Carried(Tail(s)) \cup Carried(<<Head(s)>>)
           /\ \A c \in Conn, op \in RefOps : Bind(op, c) \in Range(s) => c \in Carried(s)
<1>1. Range(s \o t) = Range(s) \cup Range(t)
    BY RangeConcatenation
<1>2. Range(Append(s, f)) = Range(s) \cup Range(<<f>>)
    <2>1. Range(Append(s, f)) = Range(s) \cup {f}
        BY AppendFacts
    <2>2. Range(<<f>>) = {f}
        BY OneFacts
    <2>3. QED
        BY <2>1, <2>2
<1>3. s # <<>> => Range(s) = Range(Tail(s)) \cup Range(<<Head(s)>>)
    BY TailFacts, OneFacts
<1>4. \A c \in Conn, op \in RefOps : Bind(op, c) \in Range(s) => c \in Carried(s)
    BY BindFacts DEF Carried
<1>5. QED
    BY <1>1, <1>2, <1>3, <1>4 DEF Carried

-----------------------------------------------------------------------------
(***************************************************************************)
(* The type invariant.                                                     *)
(***************************************************************************)

\* The set of free descriptors has a least element, and it is a descriptor.
LEMMA LowestFacts ==
    ASSUME TypeOK, FreeFds # {}
    PROVE  LowestFreeFd \in FreeFds /\ LowestFreeFd \in Fd
<1>1. openMax \in 2 .. MaxOpen /\ MaxOpen \in Nat
    BY ConstantsAssumption DEF TypeOK
<1>2. FreeFds \subseteq Nat /\ FreeFds \subseteq Fd
    BY <1>1 DEF FreeFds, Fd
<1>3. \E n \in FreeFds : \A m \in FreeFds : n <= m
    <2> DEFINE R == OpToRel(<, Nat)
    <2>1. \A m, n \in Nat : m < n => <<m, n>> \in R
        BY Zenon DEF OpToRel
    <2>2. IsWellFoundedOn(R, Nat)
        BY Zenon, NatLessThanWellFounded
    <2> HIDE DEF R
    <2>3. PICK n \in FreeFds : \A m \in FreeFds : <<m, n>> \notin R
        BY <1>2, <2>2, WFMin
    <2>4. ASSUME NEW m \in FreeFds PROVE n <= m
        <3>1. m \in Nat /\ n \in Nat
            BY <1>2
        <3>2. ~(m < n)
            BY <2>1, <2>3, <3>1
        <3>3. QED
            BY <3>1, <3>2
    <2>5. QED
        BY <2>4
<1>4. QED
    BY <1>2, <1>3 DEF LowestFreeFd

\* A functor is queued in a loop.
LEMMA PushFacts ==
    ASSUME TypeOK, NEW l \in Loop, NEW f \in Functor, Push(l, f)
    PROVE  /\ pendingFunctors_' \in [Loop -> Seq(Functor)]
           /\ pendingFunctors_'[l] = Append(pendingFunctors_[l], f)
           /\ \A m \in Loop : m # l => pendingFunctors_'[m] = pendingFunctors_[m]
<1>1. pendingFunctors_ \in [Loop -> Seq(Functor)]
    BY DEF TypeOK
<1>2. Append(pendingFunctors_[l], f) \in Seq(Functor)
    BY <1>1, AppendFacts
<1>3. QED
    BY <1>1, <1>2 DEF Push

\* A functor is run.
LEMMA RunFacts ==
    ASSUME TypeOK, NEW l \in Loop, NEW f, Run(l, f)
    PROVE  /\ f \in Functor /\ f = Head(functions[l]) /\ functions[l] # <<>>
           /\ draining[l]
           /\ functions' \in [Loop -> Seq(Functor)]
           /\ functions'[l] = Tail(functions[l])
           /\ \A m \in Loop : m # l => functions'[m] = functions[m]
           /\ dropped' \in [Loop -> SUBSET Conn]
           /\ dropped'[l] = dropped[l] \cup Carried(<<f>>)
           /\ \A m \in Loop : m # l => dropped'[m] = dropped[m]
<1>1. functions \in [Loop -> Seq(Functor)] /\ dropped \in [Loop -> SUBSET Conn]
    BY DEF TypeOK
<1>2. f = Head(functions[l]) /\ functions[l] # <<>> /\ draining[l]
    BY DEF Run
<1>3. Head(functions[l]) \in Functor /\ Tail(functions[l]) \in Seq(Functor)
    BY <1>1, <1>2, TailFacts
<1>4. Carried(<<f>>) \subseteq Conn
    BY <1>2, <1>3, OneFacts
<1>5. QED
    BY <1>1, <1>2, <1>3, <1>4 DEF Run

\* What the typing of a step that runs a functor of loop l needs.
RunTyped(l) ==
    /\ draining[l]
    /\ functions' \in [Loop -> Seq(Functor)]
    /\ \A m \in Loop : m # l => functions'[m] = functions[m]
    /\ dropped' \in [Loop -> SUBSET Conn]

\* The initial states have their types.
LEMMA TypeInit == Init => TypeOK /\ CallInv
<1> SUFFICES ASSUME Init PROVE TypeOK /\ CallInv
    OBVIOUS
<1>1. <<>> \in Seq(Functor) /\ 0 \in Fd /\ base \in Loop
    BY ConstantsAssumption, EmptyFacts DEF Fd, Loop
<1>2. TypeOK
    BY <1>1 DEF Init, TypeOK
<1>3. CallInv
    BY DEF Init, CallInv
<1>4. QED
    BY <1>2, <1>3

\* Every step keeps the types, and what CallInv says.
LEMMA TypeStep == TypeOK /\ CallInv /\ [Next]_vars => TypeOK' /\ CallInv'
<1> SUFFICES ASSUME TypeOK, CallInv, [Next]_vars PROVE TypeOK' /\ CallInv'
    OBVIOUS
<1> USE DEF serverVars, connVars, loopVars, userVars, historyVars
<1>1. base \in Loop
    BY DEF Loop
<1>2. \A c \in Conn, op \in RefOps \cup LifeOps \cup {"sendInLoop"} :
          Bind(op, c) \in Functor
    BY BindFacts
<1>3. CASE UNCHANGED vars
    BY <1>3 DEF TypeOK, CallInv, vars
<1>4. CASE Start
    BY <1>4 DEF TypeOK, CallInv, Start, Listen
<1>5. CASE StartElsewhere
    <2>1. Bind("listen", nobody) \in Functor
        BY BindFacts
    <2>2. pendingFunctors_' \in [Loop -> Seq(Functor)]
        BY <1>1, <1>5, <2>1, PushFacts DEF StartElsewhere
    <2>3. QED
        BY <1>5, <2>2 DEF TypeOK, CallInv, StartElsewhere
<1>6. CASE AcceptFails
    BY <1>6 DEF TypeOK, CallInv, AcceptFails, vars
<1>7. ASSUME NEW c \in Conn, Accept(c) PROVE TypeOK' /\ CallInv'
    <2> DEFINE n == LowestFreeFd
    <2>1. n \in Fd /\ Admit(c, n)
        BY <1>7, LowestFacts DEF Accept
    <2> HIDE DEF n
    <2>2. PICK l \in IF ioLoops = {} THEN {base} ELSE ioLoops :
              /\ loop_' = [loop_ EXCEPT ![c] = l]
              /\ IF l = base
                 THEN ConnectEstablished(c, n, l) /\ UNCHANGED pendingFunctors_
                 ELSE /\ Push(l, Bind("connectEstablished", c))
                      /\ UNCHANGED <<state_, registered, fault>>
        BY <2>1 DEF Admit
    <2>3. l \in Loop
        BY <2>2 DEF TypeOK, Loop
    <2>4. Bind("connectEstablished", c) \in Functor
        BY <1>2 DEF LifeOps
    <2>5. pendingFunctors_' \in [Loop -> Seq(Functor)]
        <3>1. CASE l = base
            BY <2>2, <3>1 DEF TypeOK
        <3>2. CASE l # base
            BY <2>2, <2>3, <2>4, <3>2, PushFacts
        <3>3. QED
            BY <3>1, <3>2
    <2>6. /\ state_' \in [Conn -> {"kConnecting", "kConnected", "kDisconnected"}]
          /\ registered' \in [Conn -> {"no", "yes", "ignored", "removed"}]
          /\ loop_' \in [Conn -> Loop]
        BY <2>2, <2>3 DEF TypeOK, ConnectEstablished
    <2>7. /\ peer' \in [Conn -> {"away", "backlog", "open", "closed", "gone"}]
          /\ fd' \in [Conn -> Fd \cup {-1}]
          /\ connections_' \subseteq {d \in Conn : fd'[d] \in Fd}
        BY <2>1 DEF TypeOK, Admit
    <2>8. UNCHANGED <<serverVars, functions, draining, dropped, userVars,
                      historyVars>>
        BY <2>1 DEF Admit
    <2>9. QED
        BY <2>5, <2>6, <2>7, <2>8 DEF TypeOK, CallInv
<1>8. ASSUME NEW c \in Conn, AcceptAborted(c) PROVE TypeOK' /\ CallInv'
    BY <1>8 DEF TypeOK, CallInv, AcceptAborted
<1>9. ASSUME NEW l \in Loop, BeginDrain(l) PROVE TypeOK' /\ CallInv'
    <2>1. <<>> \in Seq(Functor) /\ pendingFunctors_[l] \in Seq(Functor)
        BY EmptyFacts DEF TypeOK
    <2>2. QED
        BY <1>9, <2>1 DEF TypeOK, CallInv, BeginDrain
<1>10. ASSUME NEW l \in Loop, EndDrain(l) PROVE TypeOK' /\ CallInv'
    BY <1>10 DEF TypeOK, CallInv, EndDrain
<1>11. ASSUME NEW c \in Conn, HandleClose(c) PROVE TypeOK' /\ CallInv'
    <2>1. loop_[c] \in Loop
        BY DEF TypeOK
    <2>2. /\ Bind("connectDestroyed", c) \in Functor
          /\ Bind("removeConnectionInLoop", c) \in Functor
        BY <1>2 DEF LifeOps
    <2>3. /\ pendingFunctors_' \in [Loop -> Seq(Functor)]
          /\ connections_' \subseteq connections_
        <3>1. CASE c \notin connections_
            BY <1>11, <3>1 DEF HandleClose, TypeOK
        <3>2. CASE c \in connections_ /\ loop_[c] = base
            BY <1>11, <2>1, <2>2, <3>2, PushFacts
               DEF HandleClose, RemoveConnectionInLoop
        <3>3. CASE c \in connections_ /\ loop_[c] # base
            BY <1>1, <1>11, <2>2, <3>3, PushFacts DEF HandleClose
        <3>4. QED
            BY <3>1, <3>2, <3>3
    <2>4. registered' \in [Conn -> {"no", "yes", "ignored", "removed"}]
        BY <1>11 DEF HandleClose, TypeOK
    <2>5. UNCHANGED <<serverVars, fd, loop_, state_, functions, draining, dropped,
                      peer, userVars, historyVars>>
        BY <1>11 DEF HandleClose
    <2>6. QED
        BY <2>3, <2>4, <2>5 DEF TypeOK, CallInv
<1>12. ASSUME NEW l \in Loop, NEW c \in Conn, RunConnectEstablished(l, c)
       PROVE  TypeOK' /\ CallInv'
    <2>1. Run(l, Bind("connectEstablished", c))
        BY <1>12 DEF RunConnectEstablished
    <2>2. RunTyped(l)
        BY <2>1, RunFacts DEF RunTyped
    <2>3. /\ state_' \in [Conn -> {"kConnecting", "kConnected", "kDisconnected"}]
          /\ registered' \in [Conn -> {"no", "yes", "ignored", "removed"}]
        BY <1>12 DEF RunConnectEstablished, ConnectEstablished, TypeOK
    <2>4. /\ UNCHANGED <<serverVars, connections_, pendingFunctors_>>
          /\ UNCHANGED <<draining, fd, loop_, peer, userVars, historyVars>>
        BY <1>12, <2>1 DEF RunConnectEstablished, Run
    <2>5. QED
        BY <2>2, <2>3, <2>4 DEF TypeOK, CallInv, RunTyped
<1>13. ASSUME NEW l \in Loop, NEW c \in Conn, RunConnectDestroyed(l, c)
       PROVE  TypeOK' /\ CallInv'
    <2>1. Run(l, Bind("connectDestroyed", c))
        BY <1>13 DEF RunConnectDestroyed
    <2>2. RunTyped(l)
        BY <2>1, RunFacts DEF RunTyped
    <2>3. /\ state_' \in [Conn -> {"kConnecting", "kConnected", "kDisconnected"}]
          /\ registered' \in [Conn -> {"no", "yes", "ignored", "removed"}]
        BY <1>13 DEF RunConnectDestroyed, TypeOK
    <2>4. /\ UNCHANGED <<serverVars, connections_, pendingFunctors_>>
          /\ UNCHANGED <<draining, fd, loop_, peer, userVars, historyVars>>
        BY <1>13, <2>1 DEF RunConnectDestroyed, Run
    <2>5. QED
        BY <2>2, <2>3, <2>4 DEF TypeOK, CallInv, RunTyped
<1>14. ASSUME NEW l \in Loop, NEW c \in Conn, RunSend(l, c)
       PROVE  TypeOK' /\ CallInv'
    <2>1. Run(l, Bind("sendInLoop", c))
        BY <1>14 DEF RunSend
    <2>2. RunTyped(l)
        BY <2>1, RunFacts DEF RunTyped
    <2>3. Bind("writeCompleteCallback_", c) \in Functor
        BY <1>2 DEF RefOps
    <2>4. pendingFunctors_' \in [Loop -> Seq(Functor)]
        <3>1. CASE UNCHANGED pendingFunctors_
            BY <3>1 DEF TypeOK
        <3>2. CASE Push(l, Bind("writeCompleteCallback_", c))
            BY <2>3, <3>2, PushFacts
        <3>3. QED
            BY <1>14, <3>1, <3>2 DEF RunSend
    <2>5. /\ UNCHANGED <<serverVars, connections_, state_, registered>>
          /\ UNCHANGED <<draining, fd, loop_, peer, userVars, historyVars>>
        BY <1>14, <2>1 DEF RunSend, Run
    <2>6. QED
        BY <2>2, <2>4, <2>5 DEF TypeOK, CallInv, RunTyped
<1>15. ASSUME NEW l \in Loop, NEW c \in Conn, RunWriteComplete(l, c)
       PROVE  TypeOK' /\ CallInv'
    <2>1. Run(l, Bind("writeCompleteCallback_", c))
        BY <1>15 DEF RunWriteComplete
    <2>2. RunTyped(l)
        BY <2>1, RunFacts DEF RunTyped
    <2>3. /\ UNCHANGED <<serverVars, connections_, state_, registered,
                         pendingFunctors_>>
          /\ UNCHANGED <<draining, fd, loop_, peer, userVars, historyVars>>
        BY <1>15, <2>1 DEF RunWriteComplete, Run
    <2>4. QED
        BY <2>2, <2>3 DEF TypeOK, CallInv, RunTyped
<1>16. ASSUME NEW c \in Conn, RunRemoveConnection(c) PROVE TypeOK' /\ CallInv'
    <2>1. Run(base, Bind("removeConnectionInLoop", c))
        BY <1>16 DEF RunRemoveConnection
    <2>2. RunTyped(base)
        BY <1>1, <2>1, RunFacts DEF RunTyped
    <2>3. Bind("connectDestroyed", c) \in Functor /\ loop_[c] \in Loop
        BY <1>2 DEF LifeOps, TypeOK
    <2>4. /\ pendingFunctors_' \in [Loop -> Seq(Functor)]
          /\ connections_' \subseteq connections_
        <3>1. CASE server = "running"
            BY <1>16, <2>3, <3>1, PushFacts
               DEF RunRemoveConnection, RemoveConnectionInLoop
        <3>2. CASE server # "running"
            BY <1>16, <3>2 DEF RunRemoveConnection, TypeOK
        <3>3. QED
            BY <3>1, <3>2
    <2>5. /\ UNCHANGED <<serverVars, state_, registered>>
          /\ UNCHANGED <<draining, fd, loop_, peer, userVars, historyVars>>
        BY <1>16, <2>1 DEF RunRemoveConnection, Run
    <2>6. QED
        BY <2>2, <2>4, <2>5 DEF TypeOK, CallInv, RunTyped
<1>17. CASE RunListen
    <2>1. Run(base, Bind("listen", nobody))
        BY <1>17 DEF RunListen
    <2>2. RunTyped(base)
        BY <1>1, <2>1, RunFacts DEF RunTyped
    <2>3. listenning_' \in BOOLEAN /\ accepting' \in BOOLEAN
        <3>1. CASE server = "running"
            BY <1>17, <3>1 DEF RunListen, Listen
        <3>2. CASE server # "running"
            BY <1>17, <3>2 DEF RunListen, TypeOK
        <3>3. QED
            BY <3>1, <3>2
    <2>4. /\ UNCHANGED <<server, ioLoops, started_, acceptFd, connections_, state_,
                         registered, pendingFunctors_>>
          /\ UNCHANGED <<draining, fd, loop_, peer, userVars, historyVars>>
        BY <1>17, <2>1 DEF RunListen, Run
    <2>5. QED
        BY <2>2, <2>3, <2>4 DEF TypeOK, CallInv, RunTyped
<1>18. ASSUME NEW l \in Loop, PollDangling(l) PROVE TypeOK' /\ CallInv'
    BY <1>18 DEF TypeOK, CallInv, PollDangling
<1>19. ASSUME NEW t \in Thread, SendCheck(t) PROVE TypeOK' /\ CallInv'
    BY <1>19 DEF TypeOK, CallInv, SendCheck
<1>20. ASSUME NEW t \in Thread, SendQueue(t) PROVE TypeOK' /\ CallInv'
    <2> DEFINE c == holds[t]
    <2>1. c \in Conn /\ loop_[c] \in Loop
        BY <1>20 DEF TypeOK, CallInv, SendQueue
    <2>2. Push(loop_[c], Bind("sendInLoop", c))
        BY <1>20 DEF SendQueue
    <2>3. pendingFunctors_' \in [Loop -> Seq(Functor)]
        BY <1>2, <2>1, <2>2, PushFacts
    <2>4. /\ calling' = [calling EXCEPT ![t] = FALSE]
          /\ UNCHANGED <<serverVars, connections_, connVars, functions, draining,
                         dropped, peer, openMax, holds, historyVars>>
        BY <1>20 DEF SendQueue
    <2>5. QED
        BY <2>3, <2>4 DEF TypeOK, CallInv
<1>21. ASSUME NEW t \in Thread, DropReference(t) PROVE TypeOK' /\ CallInv'
    BY <1>21 DEF TypeOK, CallInv, DropReference
<1>22. ASSUME NEW t \in Thread, NEW c \in Conn, TakeReference(t, c)
       PROVE  TypeOK' /\ CallInv'
    BY <1>22 DEF TypeOK, CallInv, TakeReference
<1>23. ASSUME NEW c \in Conn, WriteCompletes(c) PROVE TypeOK' /\ CallInv'
    <2>1. loop_[c] \in Loop /\ Bind("writeCompleteCallback_", c) \in Functor
        BY <1>2 DEF RefOps, TypeOK
    <2>2. pendingFunctors_' \in [Loop -> Seq(Functor)]
        BY <1>23, <2>1, PushFacts DEF WriteCompletes
    <2>3. QED
        BY <1>23, <2>2 DEF TypeOK, CallInv, WriteCompletes
<1>24. ASSUME NEW c \in Conn, PeerConnects(c) PROVE TypeOK' /\ CallInv'
    BY <1>24 DEF TypeOK, CallInv, PeerConnects
<1>25. ASSUME NEW c \in Conn, PeerCloses(c) PROVE TypeOK' /\ CallInv'
    BY <1>25 DEF TypeOK, CallInv, PeerCloses
<1>26. CASE DestroyConnections
    BY <1>26 DEF TypeOK, CallInv, DestroyConnections
<1>27. CASE DestroyRest
    <2>1. pendingFunctors_' \in [Loop -> Seq(Functor)]
        BY <1>27, EmptyFacts DEF TypeOK, DestroyRest
    <2>2. registered' \in [Conn -> {"no", "yes", "ignored", "removed"}]
        BY <1>27 DEF TypeOK, DestroyRest
    <2>3. peer' \in [Conn -> {"away", "backlog", "open", "closed", "gone"}]
        BY <1>27 DEF TypeOK, DestroyRest
    <2>4. stale' \subseteq Fd
        BY <1>27 DEF TypeOK, DestroyRest
    <2>5. /\ server' = "gone" /\ accepting' = FALSE
          /\ UNCHANGED <<ioLoops, started_, listenning_, acceptFd, connections_, fd,
                         loop_, state_, functions, draining, dropped, userVars,
                         destroyed, fault>>
        BY <1>27 DEF DestroyRest
    <2>6. QED
        BY <2>1, <2>2, <2>3, <2>4, <2>5 DEF TypeOK, CallInv
<1>28. CASE NewServer
    <2>1. acceptFd' \in Fd
        BY <1>28, LowestFacts DEF NewServer
    <2>2. /\ server' = "running" /\ started_' = FALSE /\ listenning_' = FALSE
          /\ UNCHANGED <<ioLoops, accepting, connections_, connVars, loopVars, peer,
                         userVars, historyVars, fault>>
        BY <1>28 DEF NewServer
    <2>3. QED
        BY <2>1, <2>2 DEF TypeOK, CallInv
<1>29. QED
    BY <1>3, <1>4, <1>5, <1>6, <1>7, <1>8, <1>9, <1>10, <1>11, <1>12, <1>13, <1>14,
       <1>15, <1>16, <1>17, <1>18, <1>19, <1>20, <1>21, <1>22, <1>23, <1>24, <1>25,
       <1>26, <1>27, <1>28 DEF Next, LoopStep, UserStep

\* The variables of TcpServer, its Acceptor and its connections have the types that
\* TypeOK gives them, after the destruction of a server as before.
THEOREM Typing == Spec => []TypeOK
<1>1. Init => TypeOK /\ CallInv
    BY TypeInit
<1>2. TypeOK /\ CallInv /\ [Next]_vars => TypeOK' /\ CallInv'
    BY TypeStep
<1>3. QED
    BY <1>1, <1>2, PTL DEF Spec

-----------------------------------------------------------------------------
(***************************************************************************)
(* The queues, and who is alive.                                           *)
(***************************************************************************)

\* The functor f of loop l, if it is one of a connection's life.
Life(l, f) == {<<l, f.op, f.conn>>} \cap (Loop \X LifeOps \X Conn)

\* It is f alone.
LEMMA LifeFacts ==
    ASSUME NEW l \in Loop, NEW f \in Functor,
           NEW m \in Loop, NEW op \in LifeOps, NEW c \in Conn
    PROVE  /\ <<m, op, c>> \in Life(l, f) <=> m = l /\ Bind(op, c) = f
           /\ <<m, op, c>> \in Waiting <=> Bind(op, c) \in Queued(m)
<1>1. <<m, op, c>> \in Loop \X LifeOps \X Conn
    OBVIOUS
<1>2. Bind(op, c) = f <=> op = f.op /\ c = f.conn
    BY BindFacts DEF LifeOps, RefOps
<1>3. <<m, op, c>> \in Life(l, f) <=> m = l /\ op = f.op /\ c = f.conn
    BY <1>1 DEF Life
<1>4. <<m, op, c>> \in Waiting <=> Bind(op, c) \in Queued(m)
    BY <1>1 DEF Waiting
<1>5. QED
    BY <1>2, <1>3, <1>4

\* A step runs the functor of a loop, or none, and queues one that does not wait
\* already, or none.
LEMMA QueueStep ==
    ASSUME TypeOK, SingleInv, NEW out, NEW in,
           \/ out = {} /\ UNCHANGED functions
           \/ \E l \in Loop, f \in Functor : out = Life(l, f) /\ Run(l, f),
           \/ in = {} /\ UNCHANGED pendingFunctors_
           \/ \E l \in Loop, f \in Functor :
                  in = Life(l, f) /\ Push(l, f) /\ Life(l, f) \cap Waiting = {}
    PROVE  SingleInv' /\ Waiting' = (Waiting \ out) \cup in
<1>1. ASSUME NEW m \in Loop, NEW op \in LifeOps, NEW c \in Conn
      PROVE  /\ Once(functions'[m], Bind(op, c))
             /\ Bind(op, c) \in Range(functions'[m]) <=>
                    Bind(op, c) \in Range(functions[m]) /\ <<m, op, c>> \notin out
             /\ <<m, op, c>> \in out => Bind(op, c) \in Range(functions[m])
    <2> DEFINE x == Bind(op, c)
    <2>1. Once(functions[m], x)
        BY DEF SingleInv
    <2>2. CASE out = {} /\ UNCHANGED functions
        BY <2>1, <2>2
    <2>3. ASSUME NEW l \in Loop, NEW f \in Functor, out = Life(l, f), Run(l, f)
          PROVE  /\ Once(functions'[m], x)
                 /\ x \in Range(functions'[m]) <=>
                        x \in Range(functions[m]) /\ <<m, op, c>> \notin out
                 /\ <<m, op, c>> \in out => x \in Range(functions[m])
        <3>1. <<m, op, c>> \in out <=> m = l /\ x = f
            BY <2>3, LifeFacts
        <3> HIDE DEF x
        <3>2. CASE m # l
            BY <2>1, <2>3, <3>1, <3>2, RunFacts
        <3>3. CASE m = l
            <4>1. /\ functions[l] \in Seq(Functor) /\ functions[l] # <<>>
                  /\ functions'[l] = Tail(functions[l]) /\ f = Head(functions[l])
                BY <2>3, RunFacts DEF TypeOK
            <4>2. /\ Range(functions[l]) = Range(functions'[l]) \cup {f}
                  /\ Once(functions'[l], x)
                  /\ x = f => x \notin Range(functions'[l])
                BY <2>1, <3>3, <4>1, TailFacts
            <4>3. QED
                BY <3>1, <3>3, <4>2
        <3>4. QED
            BY <3>2, <3>3
    <2>4. QED
        BY <2>2, <2>3
<1>2. ASSUME NEW m \in Loop, NEW op \in LifeOps, NEW c \in Conn
      PROVE  /\ Once(pendingFunctors_'[m], Bind(op, c))
             /\ Bind(op, c) \in Range(pendingFunctors_'[m]) <=>
                    Bind(op, c) \in Range(pendingFunctors_[m]) \/ <<m, op, c>> \in in
             /\ <<m, op, c>> \in in => Bind(op, c) \notin Queued(m)
    <2> DEFINE x == Bind(op, c)
    <2>1. Once(pendingFunctors_[m], x)
        BY DEF SingleInv
    <2>2. CASE in = {} /\ UNCHANGED pendingFunctors_
        BY <2>1, <2>2
    <2>3. ASSUME NEW l \in Loop, NEW f \in Functor, in = Life(l, f), Push(l, f),
                 Life(l, f) \cap Waiting = {}
          PROVE  /\ Once(pendingFunctors_'[m], x)
                 /\ x \in Range(pendingFunctors_'[m]) <=>
                        x \in Range(pendingFunctors_[m]) \/ <<m, op, c>> \in in
                 /\ <<m, op, c>> \in in => x \notin Queued(m)
        <3>1. /\ <<m, op, c>> \in in <=> m = l /\ x = f
              /\ <<m, op, c>> \in in => x \notin Queued(m)
            BY <2>3, LifeFacts
        <3> HIDE DEF x
        <3>2. CASE m # l
            BY <2>1, <2>3, <3>1, <3>2, PushFacts
        <3>3. CASE m = l
            <4>1. /\ pendingFunctors_[l] \in Seq(Functor)
                  /\ pendingFunctors_'[l] = Append(pendingFunctors_[l], f)
                BY <2>3, PushFacts DEF TypeOK
            <4>2. x = f => x \notin Range(pendingFunctors_[l])
                BY <3>1, <3>3 DEF Queued
            <4>3. /\ Range(pendingFunctors_'[l]) = Range(pendingFunctors_[l]) \cup {f}
                  /\ Once(pendingFunctors_'[l], x)
                BY <2>1, <3>3, <4>1, <4>2, AppendFacts
            <4>4. QED
                BY <3>1, <3>3, <4>3
        <3>4. QED
            BY <3>2, <3>3
    <2>4. QED
        BY <2>2, <2>3
<1>3. SingleInv'
    BY <1>1, <1>2 DEF SingleInv, Queued
<1>4. ASSUME NEW m \in Loop, NEW op \in LifeOps, NEW c \in Conn
      PROVE  <<m, op, c>> \in Waiting' <=>
                 (<<m, op, c>> \in Waiting /\ <<m, op, c>> \notin out)
                 \/ <<m, op, c>> \in in
    <2>1. <<m, op, c>> \in Loop \X LifeOps \X Conn
        OBVIOUS
    <2>2. /\ <<m, op, c>> \in Waiting' <=>
                 \/ Bind(op, c) \in Range(functions'[m])
                 \/ Bind(op, c) \in Range(pendingFunctors_'[m])
          /\ <<m, op, c>> \in Waiting <=>
                 \/ Bind(op, c) \in Range(functions[m])
                 \/ Bind(op, c) \in Range(pendingFunctors_[m])
        BY <2>1 DEF Waiting, Queued
    <2>3. ~(/\ Bind(op, c) \in Range(functions[m])
            /\ Bind(op, c) \in Range(pendingFunctors_[m]))
        BY DEF SingleInv
    <2>4. QED
        BY <1>1, <1>2, <2>2, <2>3
<1>5. in \subseteq Loop \X LifeOps \X Conn
    BY DEF Life
<1>6. /\ \A w \in Waiting : w \in Loop \X LifeOps \X Conn
      /\ \A w \in Waiting' : w \in Loop \X LifeOps \X Conn
    BY DEF Waiting
<1>7. \A w \in Loop \X LifeOps \X Conn :
          \E m \in Loop, op \in LifeOps, c \in Conn : w = <<m, op, c>>
    OBVIOUS
<1>8. Waiting' = (Waiting \ out) \cup in
    BY <1>4, <1>5, <1>6, <1>7
<1>9. QED
    BY <1>3, <1>8

\* What is pending becomes the batch: nothing else changes place.
LEMMA DrainStep ==
    ASSUME TypeOK, CallInv, SingleInv, NEW l \in Loop, BeginDrain(l)
    PROVE  /\ SingleInv' /\ Waiting' = Waiting
           /\ \A m \in Loop : Queued(m)' = Queued(m)
<1>1. /\ functions' = [functions EXCEPT ![l] = pendingFunctors_[l]]
      /\ pendingFunctors_' = [pendingFunctors_ EXCEPT ![l] = <<>>]
      /\ functions[l] = <<>>
    BY DEF BeginDrain, Polling, CallInv
<1>2. /\ functions \in [Loop -> Seq(Functor)]
      /\ pendingFunctors_ \in [Loop -> Seq(Functor)]
    BY DEF TypeOK
<1>3. /\ functions'[l] = pendingFunctors_[l] /\ pendingFunctors_'[l] = <<>>
      /\ \A m \in Loop : m # l => /\ functions'[m] = functions[m]
                                  /\ pendingFunctors_'[m] = pendingFunctors_[m]
    BY <1>1, <1>2
<1>4. \A m \in Loop : Queued(m)' = Queued(m)
    BY <1>1, <1>3, EmptyFacts DEF Queued
<1>5. Waiting' = Waiting
    BY <1>4 DEF Waiting
<1>6. SingleInv'
    BY <1>3, EmptyFacts DEF SingleInv
<1>7. QED
    BY <1>4, <1>5, <1>6

\* The connections that a functor keeps in existence.
Kept ==
    {c \in Conn : \E l \in Loop :
        c \in Carried(pendingFunctors_[l]) \cup Carried(functions[l]) \cup dropped[l]}

\* Who lives: the connections in the map, those that functors keep, and those that
\* threads refer to.
LEMMA LivingFacts ==
    /\ TypeOK => \A c \in Conn :
           c \in Living <=> \/ c \in connections_ \/ c \in Kept
                            \/ \E t \in Thread : holds[t] = c
    /\ TypeOK' => \A c \in Conn :
           c \in Living' <=> \/ c \in connections_' \/ c \in Kept'
                             \/ \E t \in Thread : holds'[t] = c
<1>1. \A p, f \in Seq(Functor) : Carried(p \o f) = Carried(p) \cup Carried(f)
    <2>1. ASSUME NEW p \in Seq(Functor), NEW f \in Seq(Functor)
          PROVE  Carried(p \o f) = Carried(p) \cup Carried(f)
        <3>1. Bind("listen", nobody) \in Functor
            BY BindFacts
        <3>2. QED
            BY <3>1, CarriedFacts
    <2>2. QED
        BY <2>1
<1>2. ASSUME TypeOK, NEW c \in Conn
      PROVE  c \in Living <=> \/ c \in connections_ \/ c \in Kept
                              \/ \E t \in Thread : holds[t] = c
    <2>1. \A l \in Loop :
              Carried(pendingFunctors_[l] \o functions[l]) =
                  Carried(pendingFunctors_[l]) \cup Carried(functions[l])
        BY <1>1, <1>2 DEF TypeOK
    <2>2. QED
        BY <2>1 DEF Living, Alive, Kept
<1>3. ASSUME TypeOK', NEW c \in Conn
      PROVE  c \in Living' <=> \/ c \in connections_' \/ c \in Kept'
                               \/ \E t \in Thread : holds'[t] = c
    <2>1. \A l \in Loop :
              Carried(pendingFunctors_[l] \o functions[l])' =
                  Carried(pendingFunctors_[l])' \cup Carried(functions[l])'
        BY <1>1, <1>3 DEF TypeOK
    <2>2. QED
        BY <2>1 DEF Living, Alive, Kept
<1>4. QED
    BY <1>2, <1>3

\* A step lets nothing live that did not, except what the functor that it queues
\* carries, what it puts into the map, and what it gives to a thread.
LEMMA LivingStep ==
    ASSUME TypeOK, TypeOK', NEW new,
           \/ UNCHANGED <<functions, dropped>>
           \/ \E l \in Loop, f \in Functor : Run(l, f),
           \/ UNCHANGED pendingFunctors_
           \/ \E l \in Loop, f \in Functor : Push(l, f) /\ Carried(<<f>>) \subseteq new,
           connections_' \subseteq connections_ \cup new,
           \A t \in Thread : holds'[t] = holds[t] \/ holds'[t] \in new \cup {nobody}
    PROVE  Living' \subseteq Living \cup new
<1>1. ASSUME NEW m \in Loop
      PROVE  (Carried(functions[m]) \cup dropped[m])'
                 \subseteq Carried(functions[m]) \cup dropped[m]
    <2>1. CASE UNCHANGED <<functions, dropped>>
        BY <2>1
    <2>2. ASSUME NEW l \in Loop, NEW f \in Functor, Run(l, f)
          PROVE  (Carried(functions[m]) \cup dropped[m])'
                     \subseteq Carried(functions[m]) \cup dropped[m]
        <3>1. CASE m # l
            BY <2>2, <3>1, RunFacts
        <3>2. CASE m = l
            <4>1. /\ functions[l] \in Seq(Functor) /\ functions[l] # <<>>
                  /\ functions'[l] = Tail(functions[l]) /\ f = Head(functions[l])
                  /\ dropped'[l] = dropped[l] \cup Carried(<<f>>)
                BY <2>2, RunFacts DEF TypeOK
            <4>2. Carried(functions[l]) = Carried(functions'[l]) \cup Carried(<<f>>)
                BY <4>1, CarriedFacts
            <4>3. QED
                BY <3>2, <4>1, <4>2
        <3>3. QED
            BY <3>1, <3>2
    <2>3. QED
        BY <2>1, <2>2
<1>2. ASSUME NEW m \in Loop
      PROVE  Carried(pendingFunctors_'[m]) \subseteq Carried(pendingFunctors_[m]) \cup new
    <2>1. CASE UNCHANGED pendingFunctors_
        BY <2>1
    <2>2. ASSUME NEW l \in Loop, NEW f \in Functor, Push(l, f),
                 Carried(<<f>>) \subseteq new
          PROVE  Carried(pendingFunctors_'[m])
                     \subseteq Carried(pendingFunctors_[m]) \cup new
        <3>1. CASE m # l
            BY <2>2, <3>1, PushFacts
        <3>2. CASE m = l
            <4>1. /\ pendingFunctors_[l] \in Seq(Functor)
                  /\ pendingFunctors_'[l] = Append(pendingFunctors_[l], f)
                BY <2>2, PushFacts DEF TypeOK
            <4>2. Carried(Append(pendingFunctors_[l], f)) =
                      Carried(pendingFunctors_[l]) \cup Carried(<<f>>)
                <5>1. pendingFunctors_[l] \in Seq(Functor)
                    BY <4>1
                <5>2. QED
                    BY <5>1, CarriedFacts
            <4>3. Carried(pendingFunctors_'[l]) =
                      Carried(pendingFunctors_[l]) \cup Carried(<<f>>)
                BY <4>1, <4>2
            <4>4. QED
                BY <2>2, <3>2, <4>3
        <3>3. QED
            BY <3>1, <3>2
    <2>3. QED
        BY <2>1, <2>2
<1>3. Kept' \subseteq Kept \cup new
    <2>1. SUFFICES ASSUME NEW c \in Kept' PROVE c \in Kept \cup new
        OBVIOUS
    <2>2. PICK m \in Loop : c \in (Carried(pendingFunctors_[m])
                                   \cup Carried(functions[m]) \cup dropped[m])'
        BY DEF Kept
    <2>3. c \in Conn
        BY DEF Kept
    <2>4. c \in new \/ c \in Carried(pendingFunctors_[m])
                             \cup Carried(functions[m]) \cup dropped[m]
        BY <1>1, <1>2, <2>2
    <2>5. QED
        BY <2>3, <2>4 DEF Kept
<1>4. SUFFICES ASSUME NEW c \in Living' PROVE c \in Living \cup new
    OBVIOUS
<1>5. c \in Conn /\ c # nobody
    BY ConstantsAssumption DEF Living
<1>6. CASE c \in connections_'
    BY <1>5, <1>6, LivingFacts
<1>7. CASE c \in Kept'
    BY <1>3, <1>5, <1>7, LivingFacts
<1>8. CASE \E t \in Thread : holds'[t] = c
    BY <1>5, <1>8, LivingFacts
<1>9. QED
    BY <1>5, <1>6, <1>7, <1>8, LivingFacts

\* A connection that the poller knows lives.
LEMMA RegisteredLives ==
    ASSUME TypeOK, LifeInv, NEW c \in Conn, registered[c] \in {"yes", "ignored"}
    PROVE  c \in Living
<1>1. CASE c \in connections_
    BY <1>1, LivingFacts
<1>2. CASE c \notin connections_
    <2>1. <<loop_[c], "connectDestroyed", c>> \in Waiting /\ loop_[c] \in Loop
        BY <1>2 DEF LifeInv, Stage, TypeOK
    <2>2. Bind("connectDestroyed", c) \in Queued(loop_[c])
        BY <2>1 DEF Waiting
    <2>3. /\ functions[loop_[c]] \in Seq(Functor)
          /\ pendingFunctors_[loop_[c]] \in Seq(Functor)
        BY <2>1 DEF TypeOK
    <2>4. \/ c \in Carried(functions[loop_[c]])
          \/ c \in Carried(pendingFunctors_[loop_[c]])
        <3>1. "connectDestroyed" \in RefOps /\ Bind("listen", nobody) \in Functor
            BY BindFacts DEF RefOps
        <3>2. QED
            BY <2>2, <2>3, <3>1, CarriedFacts DEF Queued
    <2>5. c \in Kept
        BY <2>1, <2>4 DEF Kept
    <2>6. QED
        BY <2>5, LivingFacts
<1>3. QED
    BY <1>1, <1>2

\* As long as the server exists its poller knows the Acceptor's descriptor and those
\* of living connections, and no other.
LEMMA KnownFacts ==
    ASSUME TypeOK, LifeInv, RunningInv, NEW l \in Loop, NEW n \in Known(l)
    PROVE  \/ accepting /\ l = base /\ n = acceptFd
           \/ \E c \in Living : registered[c] \in {"yes", "ignored"} /\ n = fd[c]
<1>1. \A c \in Conn : registered[c] \in {"yes", "ignored"} => c \in Living
    BY RegisteredLives
<1>2. QED
    BY <1>1 DEF Known, RunningInv

\* Descriptors stay apart when none is given out.
LEMMA FdStep ==
    ASSUME FdInv, UNCHANGED <<fd, acceptFd>>, Living' \subseteq Living
    PROVE  FdInv'
BY DEF FdInv

\* A functor that is not of a connection's life leaves Waiting alone; one that is,
\* is one member of it, and there when it is run.
LEMMA LifeOf ==
    ASSUME TypeOK, NEW l \in Loop, NEW c \in Conn
    PROVE  /\ \A op : op \notin LifeOps => Life(l, Bind(op, c)) = {}
           /\ Life(l, Bind("listen", nobody)) = {}
           /\ \A op \in LifeOps : Life(l, Bind(op, c)) = {<<l, op, c>>}
           /\ \A op \in LifeOps : Run(l, Bind(op, c)) => <<l, op, c>> \in Waiting
<1>1. \A op : op \notin LifeOps => Life(l, Bind(op, c)) = {}
    BY BindFacts DEF Life
<1>2. Life(l, Bind("listen", nobody)) = {}
    <2>1. "listen" \notin LifeOps
        BY DEF LifeOps
    <2>2. Bind("listen", nobody).op = "listen"
        BY BindFacts
    <2>3. QED
        BY <2>1, <2>2 DEF Life
<1>3. \A op \in LifeOps : Life(l, Bind(op, c)) = {<<l, op, c>>}
    BY BindFacts DEF Life
<1>4. ASSUME NEW op \in LifeOps, Run(l, Bind(op, c)) PROVE <<l, op, c>> \in Waiting
    <2> DEFINE f == Bind(op, c)
    <2>1. /\ f = Head(functions[l]) /\ functions[l] # <<>>
          /\ functions[l] \in Seq(Functor)
        BY <1>4, RunFacts DEF TypeOK
    <2>2. f \in Range(functions[l])
        BY <2>1, TailFacts
    <2>3. QED
        BY <2>2 DEF Waiting, Queued
<1>5. QED
    BY <1>1, <1>2, <1>3, <1>4

\* LifeInv is about the functors that wait and five variables.
LEMMA LifeFrame ==
    ASSUME LifeInv, Waiting' = Waiting,
           UNCHANGED <<connections_, loop_, state_, registered, peer>>
    PROVE  LifeInv'
BY DEF LifeInv, Stage

\* A step that changes the stage of one connection.
LEMMA StageStep ==
    ASSUME TypeOK, LifeInv, NEW c \in Conn,
           \A d \in Conn \ {c} :
               /\ loop_'[d] = loop_[d] /\ state_'[d] = state_[d]
               /\ registered'[d] = registered[d] /\ peer'[d] = peer[d]
               /\ d \in connections_' <=> d \in connections_,
           \A m \in Loop, op \in LifeOps, d \in Conn \ {c} :
               <<m, op, d>> \in Waiting' <=> <<m, op, d>> \in Waiting,
           Stage(c)'
    PROVE  LifeInv'
<1>1. ASSUME NEW d \in Conn, d # c PROVE Stage(d)'
    <2>1. loop_[d] \in Loop
        BY DEF TypeOK
    <2>2. QED
        BY <1>1, <2>1 DEF LifeInv, Stage, LifeOps
<1>2. QED
    BY <1>1 DEF LifeInv

\* What a functor of a connection carries.
LEMMA CarriedOf ==
    ASSUME NEW op, NEW c
    PROVE  /\ Carried(<<Bind(op, c)>>) \subseteq {c}
           /\ op \notin RefOps => Carried(<<Bind(op, c)>>) = {}
<1>1. Range(<<Bind(op, c)>>) = {Bind(op, c)}
    BY DEF Range
<1>2. Bind(op, c).op = op /\ Bind(op, c).conn = c
    BY BindFacts
<1>3. QED
    BY <1>1, <1>2 DEF Carried

-----------------------------------------------------------------------------
(***************************************************************************)
(* A step of a process whose server exists.                                *)
(***************************************************************************)

Good == fault = "no" /\ LiveInv

\* The Acceptor's channel is added to the poller under a new descriptor.
LEMMA ListenStep ==
    ASSUME TypeOK, LifeInv, RunningInv, FdInv, fault = "no", Listen
    PROVE  fault' = "no"
<1>1. base \in Loop
    BY DEF Loop
<1>2. accepting \/ acceptFd \notin Known(base)
    BY <1>1, KnownFacts DEF FdInv
<1>3. QED
    BY <1>2 DEF Listen, Check

\* A connection is accepted.
LEMMA AcceptStep ==
    ASSUME TypeOK, TypeOK', fault = "no", LiveInv, NEW c \in Conn, Accept(c)
    PROVE  Good'
<1> DEFINE n == LowestFreeFd
<1>1. n \in FreeFds /\ Admit(c, n)
    BY LowestFacts DEF Accept
<1> HIDE DEF n
<1>2. PICK l \in IF ioLoops = {} THEN {base} ELSE ioLoops :
          /\ loop_' = [loop_ EXCEPT ![c] = l]
          /\ IF l = base
             THEN ConnectEstablished(c, n, l) /\ UNCHANGED pendingFunctors_
             ELSE /\ Push(l, Bind("connectEstablished", c))
                  /\ UNCHANGED <<state_, registered, fault>>
    BY <1>1 DEF Admit
<1>3. l \in Loop
    BY <1>2 DEF TypeOK, Loop
<1>4. /\ peer' = [peer EXCEPT ![c] = "open"] /\ fd' = [fd EXCEPT ![c] = n]
      /\ connections_' = connections_ \cup {c}
      /\ UNCHANGED <<functions, dropped, holds, stale, server, acceptFd>>
    BY <1>1 DEF Admit, serverVars, userVars, historyVars
<1>5. registered[c] = "no" /\ c \notin connections_ /\ state_[c] = "kConnecting"
    BY <1>1 DEF Admit, FirstInBacklog, LiveInv, LifeInv, Stage
<1>6. \A m \in Loop, op \in LifeOps : <<m, op, c>> \notin Waiting
    BY <1>5 DEF LiveInv, LifeInv, Stage, LifeOps
<1>7. RunningInv'
    BY <1>4 DEF LiveInv, RunningInv
<1>8. /\ \A d \in Living : fd[d] # n
      /\ acceptFd # n
    BY <1>1 DEF FreeFds, OpenFds, Living, LiveInv, RunningInv
<1>9. Bind("connectEstablished", c) \in Functor
    BY BindFacts DEF LifeOps
<1>10. Living' \subseteq Living \cup {c}
    <2>1. UNCHANGED pendingFunctors_
          \/ Push(l, Bind("connectEstablished", c))
        BY <1>2
    <2>2. Carried(<<Bind("connectEstablished", c)>>) \subseteq {c}
        BY CarriedOf
    <2>3. \A t \in Thread : holds'[t] = holds[t]
        BY <1>4
    <2>4. QED
        BY <1>3, <1>4, <1>9, <2>1, <2>2, <2>3, LivingStep
<1>11. FdInv'
    <2>1. fd'[c] = n /\ \A d \in Living : d # c => fd'[d] = fd[d]
        BY <1>4 DEF TypeOK, Living
    <2>2. QED
        BY <1>4, <1>8, <1>10, <2>1 DEF FdInv, LiveInv
<1>12. CASE l = base
    <2>1. ConnectEstablished(c, n, l) /\ UNCHANGED pendingFunctors_
        BY <1>2, <1>12
    <2>2. n \notin Known(l)
        BY <1>3, <1>8, KnownFacts DEF LiveInv
    <2>3. fault' = "no"
        BY <1>5, <2>1, <2>2 DEF ConnectEstablished, Check
    <2>4. SingleInv' /\ Waiting' = Waiting
        <3>1. SingleInv' /\ Waiting' = (Waiting \ {}) \cup {}
            BY <1>4, <2>1, QueueStep DEF LiveInv
        <3>2. QED
            BY <3>1
    <2>5. LifeInv'
        <3>1. /\ state_' = [state_ EXCEPT ![c] = "kConnected"]
              /\ registered' = [registered EXCEPT ![c] = "yes"]
            BY <2>1 DEF ConnectEstablished
        <3>2. /\ registered'[c] = "yes" /\ state_'[c] = "kConnected"
              /\ peer'[c] = "open" /\ c \in connections_'
              /\ \A d \in Conn \ {c} :
                     /\ loop_'[d] = loop_[d] /\ peer'[d] = peer[d]
                     /\ registered'[d] = registered[d] /\ state_'[d] = state_[d]
                     /\ d \in connections_' <=> d \in connections_
            BY <1>2, <1>4, <3>1 DEF TypeOK
        <3>3. Stage(c)'
            BY <1>6, <2>4, <3>2 DEF Stage, LifeOps
        <3>4. QED
            BY <2>4, <3>2, <3>3, StageStep DEF LiveInv
    <2>6. QED
        BY <1>7, <1>11, <2>3, <2>4, <2>5 DEF Good, LiveInv
<1>13. CASE l # base
    <2>1. /\ Push(l, Bind("connectEstablished", c))
          /\ UNCHANGED <<state_, registered, fault>>
        BY <1>2, <1>13
    <2>2. SingleInv' /\ Waiting' = Waiting \cup {<<l, "connectEstablished", c>>}
        <3>1. /\ Life(l, Bind("connectEstablished", c))
                     = {<<l, "connectEstablished", c>>}
              /\ <<l, "connectEstablished", c>> \notin Waiting
            BY <1>3, <1>6, LifeOf DEF LifeOps
        <3>2. SingleInv'
              /\ Waiting' = (Waiting \ {}) \cup {<<l, "connectEstablished", c>>}
            <4>1. Life(l, Bind("connectEstablished", c)) \cap Waiting = {}
                BY <3>1
            <4>2. QED
                BY <1>3, <1>4, <1>9, <2>1, <3>1, <4>1, QueueStep DEF LiveInv
        <3>3. QED
            BY <3>2
    <2>3. LifeInv'
        <3>1. /\ loop_'[c] = l /\ peer'[c] = "open" /\ c \in connections_'
              /\ \A d \in Conn \ {c} :
                     /\ loop_'[d] = loop_[d] /\ peer'[d] = peer[d]
                     /\ d \in connections_' <=> d \in connections_
            BY <1>2, <1>4 DEF TypeOK
        <3>2. Stage(c)'
            BY <1>5, <1>6, <2>1, <2>2, <3>1 DEF Stage, LifeOps
        <3>3. QED
            BY <2>1, <2>2, <3>1, <3>2, StageStep DEF LiveInv
    <2>4. QED
        BY <1>7, <1>11, <2>1, <2>2, <2>3 DEF Good, LiveInv
<1>14. QED
    BY <1>12, <1>13

\* The peer of a connection has closed: its channel is disabled and it leaves the
\* map, or is to leave it.
LEMMA CloseStep ==
    ASSUME TypeOK, TypeOK', fault = "no", LiveInv, NEW c \in Conn, HandleClose(c)
    PROVE  Good'
<1>1. /\ registered[c] = "yes" /\ c \in connections_ /\ loop_[c] \in Loop
      /\ state_[c] = "kConnected" /\ peer[c] = "closed"
    BY DEF HandleClose, LiveInv, LifeInv, Stage, TypeOK
<1>2. /\ registered' = [registered EXCEPT ![c] = "ignored"]
      /\ UNCHANGED <<server, acceptFd, fd, loop_, state_, functions, dropped, peer,
                     holds, stale>>
    BY DEF HandleClose, serverVars, userVars, historyVars
<1>3. \A m \in Loop, op \in LifeOps : <<m, op, c>> \notin Waiting
    BY <1>1 DEF LiveInv, LifeInv, Stage, LifeOps
<1>4. RunningInv'
    BY <1>2 DEF LiveInv, RunningInv
<1>5. PICK l \in Loop, op \in LifeOps :
          /\ Push(l, Bind(op, c)) /\ fault' = "no"
          /\ \/ /\ l = loop_[c] /\ op = "connectDestroyed"
                /\ connections_' = connections_ \ {c}
             \/ /\ l = base /\ op = "removeConnectionInLoop"
                /\ connections_' = connections_
    <2>1. CASE loop_[c] = base
        BY <1>1, <2>1 DEF HandleClose, RemoveConnectionInLoop, Check, LifeOps
    <2>2. CASE loop_[c] # base
        <3>1. base \in Loop
            BY DEF Loop
        <3>2. QED
            BY <1>1, <2>2, <3>1 DEF HandleClose, LifeOps
    <2>3. QED
        BY <2>1, <2>2
<1>6. Bind(op, c) \in Functor
    BY BindFacts
<1>7. SingleInv' /\ Waiting' = Waiting \cup {<<l, op, c>>}
    <2>1. Life(l, Bind(op, c)) = {<<l, op, c>>} /\ <<l, op, c>> \notin Waiting
        BY <1>3, LifeOf
    <2>2. Life(l, Bind(op, c)) \cap Waiting = {}
        BY <2>1
    <2>3. SingleInv' /\ Waiting' = (Waiting \ {}) \cup {<<l, op, c>>}
        BY <1>2, <1>5, <1>6, <2>1, <2>2, QueueStep DEF LiveInv
    <2>4. QED
        BY <2>3
<1>8. LifeInv'
    <2>1. /\ registered'[c] = "ignored"
          /\ \A d \in Conn \ {c} :
                 /\ registered'[d] = registered[d]
                 /\ d \in connections_' <=> d \in connections_
        BY <1>2, <1>5 DEF TypeOK
    <2>2. Stage(c)'
        BY <1>1, <1>2, <1>3, <1>5, <1>7, <2>1 DEF Stage, LifeOps
    <2>3. QED
        BY <1>2, <1>7, <2>1, <2>2, StageStep DEF LiveInv
<1>9. FdInv'
    <2>1. Carried(<<Bind(op, c)>>) \subseteq {c}
        BY CarriedOf
    <2>2. Living' \subseteq Living \cup {c}
        <3>1. \A t \in Thread : holds'[t] = holds[t]
            BY <1>2
        <3>2. connections_' \subseteq connections_ \cup {c}
            BY <1>5
        <3>3. QED
            BY <1>2, <1>5, <1>6, <2>1, <3>1, <3>2, LivingStep
    <2>3. c \in Living
        BY <1>1, LivingFacts
    <2>4. Living' \subseteq Living
        BY <2>2, <2>3
    <2>5. QED
        BY <1>2, <2>4, FdStep DEF LiveInv
<1>10. QED
    BY <1>4, <1>5, <1>7, <1>8, <1>9 DEF Good, LiveInv

\* A step that runs a functor of a connection's life, and changes its stage.
LEMMA RunLife ==
    ASSUME TypeOK, LiveInv, NEW l \in Loop, NEW op \in LifeOps, NEW c \in Conn,
           Run(l, Bind(op, c))
    PROVE  /\ <<l, op, c>> \in Waiting /\ Stage(c)
           /\ UNCHANGED <<fd, loop_, peer, holds, stale>>
           /\ UNCHANGED pendingFunctors_ =>
                  SingleInv' /\ Waiting' = Waiting \ {<<l, op, c>>}
<1>1. <<l, op, c>> \in Waiting /\ Life(l, Bind(op, c)) = {<<l, op, c>>}
    BY LifeOf
<1>2. Stage(c)
    BY DEF LiveInv, LifeInv
<1>3. UNCHANGED <<fd, loop_, peer, holds, stale>>
    BY DEF Run, userVars, historyVars
<1>4. ASSUME UNCHANGED pendingFunctors_
      PROVE  SingleInv' /\ Waiting' = Waiting \ {<<l, op, c>>}
    <2>1. Bind(op, c) \in Functor
        BY BindFacts
    <2>2. SingleInv' /\ Waiting' = (Waiting \ {<<l, op, c>>}) \cup {}
        BY <1>1, <1>4, <2>1, QueueStep DEF LiveInv
    <2>3. QED
        BY <2>2
<1>5. QED
    BY <1>1, <1>2, <1>3, <1>4

\* connectEstablished runs: the connection is new to the poller, and so is its
\* descriptor.
LEMMA EstablishStep ==
    ASSUME TypeOK, TypeOK', fault = "no", LiveInv,
           NEW l \in Loop, NEW c \in Conn, RunConnectEstablished(l, c)
    PROVE  Good'
<1> DEFINE op == "connectEstablished"
<1>1. /\ Run(l, Bind(op, c)) /\ ConnectEstablished(c, fd[c], l)
      /\ UNCHANGED <<serverVars, connections_, pendingFunctors_>>
    BY DEF RunConnectEstablished
<1>2. op \in LifeOps
    BY DEF LifeOps
<1>3. /\ <<l, op, c>> \in Waiting /\ Stage(c)
      /\ UNCHANGED <<fd, loop_, peer, holds, stale>>
      /\ SingleInv' /\ Waiting' = Waiting \ {<<l, op, c>>}
    BY <1>1, <1>2, RunLife
<1>4. l = loop_[c] /\ registered[c] = "no" /\ c \in connections_
      /\ state_[c] = "kConnecting"
    BY <1>3 DEF Stage
<1>5. fd[c] \notin Known(l)
    <2>1. c \in Living
        BY <1>4, LivingFacts
    <2>2. QED
        BY <1>4, <2>1, KnownFacts DEF LiveInv, FdInv
<1>6. fault' = "no"
    BY <1>1, <1>4, <1>5 DEF ConnectEstablished, Check
<1>7. LifeInv'
    <2>1. /\ registered'[c] = "yes" /\ state_'[c] = "kConnected"
          /\ \A d \in Conn \ {c} :
                 registered'[d] = registered[d] /\ state_'[d] = state_[d]
        BY <1>1 DEF ConnectEstablished, TypeOK
    <2>2. Stage(c)'
        BY <1>1, <1>3, <1>4, <2>1 DEF Stage
    <2>3. QED
        BY <1>1, <1>3, <2>1, <2>2, StageStep DEF LiveInv
<1>8. FdInv'
    <2>1. Bind(op, c) \in Functor
        BY <1>2, BindFacts
    <2>2. connections_' \subseteq connections_ \cup {}
        BY <1>1
    <2>3. \A t \in Thread : holds'[t] = holds[t]
        BY <1>3
    <2>4. Living' \subseteq Living \cup {}
        BY <1>1, <2>1, <2>2, <2>3, LivingStep
    <2>5. QED
        BY <1>1, <1>3, <2>4, FdStep DEF LiveInv, serverVars
<1>9. RunningInv'
    BY <1>1, <1>3 DEF LiveInv, RunningInv, serverVars
<1>10. QED
    BY <1>3, <1>6, <1>7, <1>8, <1>9 DEF Good, LiveInv

\* removeConnectionInLoop runs: the connection leaves the map, and connectDestroyed
\* waits for it.
LEMMA RemoveStep ==
    ASSUME TypeOK, TypeOK', fault = "no", LiveInv,
           NEW c \in Conn, RunRemoveConnection(c)
    PROVE  Good'
<1> DEFINE op == "removeConnectionInLoop"  next == "connectDestroyed"  l == loop_[c]
<1>1. base \in Loop /\ l \in Loop
    BY DEF Loop, TypeOK
<1>2. /\ Run(base, Bind(op, c)) /\ UNCHANGED <<serverVars, state_, registered>>
      /\ RemoveConnectionInLoop(c)
    BY DEF RunRemoveConnection, LiveInv, RunningInv
<1>3. op \in LifeOps /\ next \in LifeOps
    BY DEF LifeOps
<1>4. /\ <<base, op, c>> \in Waiting /\ Stage(c)
      /\ UNCHANGED <<fd, loop_, peer, holds, stale>>
    BY <1>1, <1>2, <1>3, RunLife
<1>5. registered[c] = "ignored" /\ c \in connections_ /\ state_[c] = "kConnected"
    BY <1>1, <1>4 DEF Stage
<1>6. /\ Push(l, Bind(next, c)) /\ connections_' = connections_ \ {c}
      /\ fault' = "no"
    BY <1>2, <1>5 DEF RemoveConnectionInLoop, Check
<1>7. \A m \in Loop : /\ <<m, next, c>> \notin Waiting
                      /\ <<m, "connectEstablished", c>> \notin Waiting
                      /\ <<m, op, c>> \in Waiting => m = base
    BY <1>4, <1>5 DEF Stage
<1>8. Bind(op, c) \in Functor /\ Bind(next, c) \in Functor
    BY <1>3, BindFacts
<1>9. SingleInv' /\ Waiting' = (Waiting \ {<<base, op, c>>}) \cup {<<l, next, c>>}
    <2>1. /\ Life(base, Bind(op, c)) = {<<base, op, c>>}
          /\ Life(l, Bind(next, c)) = {<<l, next, c>>}
        BY <1>1, <1>3, LifeOf
    <2>2. Life(l, Bind(next, c)) \cap Waiting = {}
        BY <1>1, <1>7, <2>1
    <2>3. QED
        BY <1>1, <1>2, <1>6, <1>8, <2>1, <2>2, QueueStep DEF LiveInv
<1>10. LifeInv'
    <2>1. \A d \in Conn \ {c} : d \in connections_' <=> d \in connections_
        BY <1>6
    <2>2. \A m \in Loop : /\ <<m, next, c>> \in Waiting' <=> m = l
                          /\ <<m, op, c>> \notin Waiting'
                          /\ <<m, "connectEstablished", c>> \notin Waiting'
        BY <1>7, <1>9
    <2>3. peer[c] \notin {"away", "backlog"}
        BY <1>4, <1>5 DEF Stage
    <2>4. /\ registered'[c] = "ignored" /\ state_'[c] = "kConnected"
          /\ c \notin connections_' /\ loop_'[c] = l /\ peer'[c] = peer[c]
        BY <1>2, <1>4, <1>5, <1>6
    <2>5. Stage(c)'
        BY <1>1, <2>2, <2>3, <2>4 DEF Stage
    <2>6. QED
        BY <1>2, <1>4, <1>9, <2>1, <2>5, StageStep DEF LiveInv
<1>11. FdInv'
    <2>1. connections_' \subseteq connections_ \cup {c}
        BY <1>6
    <2>2. \A t \in Thread : holds'[t] = holds[t]
        BY <1>4
    <2>3. Carried(<<Bind(next, c)>>) \subseteq {c}
        BY CarriedOf
    <2>4. Living' \subseteq Living \cup {c}
        BY <1>1, <1>2, <1>6, <1>8, <2>1, <2>2, <2>3, LivingStep
    <2>5. c \in Living
        BY <1>5, LivingFacts
    <2>6. Living' \subseteq Living
        BY <2>4, <2>5
    <2>7. QED
        BY <1>2, <1>4, <2>6, FdStep DEF LiveInv, serverVars
<1>12. RunningInv'
    BY <1>2, <1>4 DEF LiveInv, RunningInv, serverVars
<1>13. QED
    BY <1>6, <1>9, <1>10, <1>11, <1>12 DEF Good, LiveInv

\* connectDestroyed runs, on a connection that is connected: its channel leaves the
\* poller while its descriptor is open.
LEMMA DestroyStep ==
    ASSUME TypeOK, TypeOK', fault = "no", LiveInv,
           NEW l \in Loop, NEW c \in Conn, RunConnectDestroyed(l, c)
    PROVE  Good'
<1> DEFINE op == "connectDestroyed"
<1>1. /\ Run(l, Bind(op, c))
      /\ UNCHANGED <<serverVars, connections_, pendingFunctors_>>
      /\ state_' = [state_ EXCEPT ![c] = "kDisconnected"]
      /\ registered' = [registered EXCEPT ![c] = "removed"]
      /\ Check(state_[c] = "kConnected", "connectDestroyed")
    BY DEF RunConnectDestroyed
<1>2. op \in LifeOps
    BY DEF LifeOps
<1>3. /\ <<l, op, c>> \in Waiting /\ Stage(c)
      /\ UNCHANGED <<fd, loop_, peer, holds, stale>>
      /\ SingleInv' /\ Waiting' = Waiting \ {<<l, op, c>>}
    BY <1>1, <1>2, RunLife
<1>4. /\ l = loop_[c] /\ registered[c] = "ignored" /\ c \notin connections_
      /\ state_[c] = "kConnected" /\ peer[c] \notin {"away", "backlog"}
    BY <1>3 DEF Stage
<1>5. fault' = "no"
    BY <1>1, <1>4 DEF Check
<1>6. \A m \in Loop : /\ <<m, "connectEstablished", c>> \notin Waiting
                      /\ <<m, "removeConnectionInLoop", c>> \notin Waiting
                      /\ <<m, op, c>> \in Waiting => m = l
    BY <1>3, <1>4 DEF Stage
<1>7. LifeInv'
    <2>1. /\ registered'[c] = "removed"
          /\ \A d \in Conn \ {c} :
                 registered'[d] = registered[d] /\ state_'[d] = state_[d]
        BY <1>1 DEF TypeOK
    <2>2. \A m \in Loop : /\ <<m, "connectEstablished", c>> \notin Waiting'
                          /\ <<m, "removeConnectionInLoop", c>> \notin Waiting'
                          /\ <<m, op, c>> \notin Waiting'
        BY <1>3, <1>6
    <2>3. Stage(c)'
        BY <1>3, <1>4, <2>1, <2>2 DEF Stage
    <2>4. QED
        BY <1>1, <1>3, <2>1, <2>3, StageStep DEF LiveInv
<1>8. FdInv'
    <2>1. Bind(op, c) \in Functor
        BY <1>2, BindFacts
    <2>2. connections_' \subseteq connections_ \cup {}
        BY <1>1
    <2>3. \A t \in Thread : holds'[t] = holds[t]
        BY <1>3
    <2>4. Living' \subseteq Living \cup {}
        BY <1>1, <2>1, <2>2, <2>3, LivingStep
    <2>5. QED
        BY <1>1, <1>3, <2>4, FdStep DEF LiveInv, serverVars
<1>9. RunningInv'
    BY <1>1, <1>3 DEF LiveInv, RunningInv, serverVars
<1>10. QED
    BY <1>3, <1>5, <1>7, <1>8, <1>9 DEF Good, LiveInv

\* A step that leaves the stages of the connections alone: what it runs or queues is
\* no functor of a connection's life, and it gives nothing but a reference to a
\* connection that lives.
LEMMA QuietStep ==
    ASSUME TypeOK, TypeOK', LiveInv,
           \/ UNCHANGED <<functions, dropped>>
           \/ \E l \in Loop, f \in Functor : f.op \notin LifeOps /\ Run(l, f),
           \/ UNCHANGED pendingFunctors_
           \/ \E l \in Loop, f \in Functor :
                  f.op \notin LifeOps /\ Push(l, f) /\ Carried(<<f>>) \subseteq Living,
           \A t \in Thread : holds'[t] = holds[t] \/ holds'[t] \in Living \cup {nobody},
           \A c \in Conn : peer'[c] \in {"away", "backlog"} =>
                               peer[c] \in {"away", "backlog"},
           UNCHANGED <<server, stale, acceptFd, connections_, connVars>>
    PROVE  LiveInv'
<1>1. \A l \in Loop, f \in Functor : f.op \notin LifeOps => Life(l, f) = {}
    BY DEF Life
<1>2. SingleInv' /\ Waiting' = Waiting
    <2>1. SingleInv' /\ Waiting' = (Waiting \ {}) \cup {}
        <3>1. \/ UNCHANGED functions
              \/ \E l \in Loop, f \in Functor : {} = Life(l, f) /\ Run(l, f)
            BY <1>1
        <3>2. \/ UNCHANGED pendingFunctors_
              \/ \E l \in Loop, f \in Functor :
                     {} = Life(l, f) /\ Push(l, f) /\ Life(l, f) \cap Waiting = {}
            BY <1>1
        <3>3. QED
            BY <3>1, <3>2, QueueStep DEF LiveInv
    <2>2. QED
        BY <2>1
<1>3. LifeInv'
    BY <1>2 DEF LifeInv, Stage, LiveInv, connVars
<1>4. FdInv'
    <2>1. connections_' \subseteq connections_ \cup Living
        OBVIOUS
    <2>2. Living' \subseteq Living \cup Living
        <3>1. \/ UNCHANGED <<functions, dropped>>
              \/ \E l \in Loop, f \in Functor : Run(l, f)
            OBVIOUS
        <3>2. \/ UNCHANGED pendingFunctors_
              \/ \E l \in Loop, f \in Functor :
                     Push(l, f) /\ Carried(<<f>>) \subseteq Living
            OBVIOUS
        <3>3. QED
            BY <2>1, <3>1, <3>2, LivingStep
    <2>3. QED
        BY <2>2, FdStep DEF LiveInv, connVars
<1>5. RunningInv'
    BY DEF LiveInv, RunningInv
<1>6. QED
    BY <1>2, <1>3, <1>4, <1>5 DEF LiveInv

\* The batch of a loop begins, or ends.
LEMMA BatchStep ==
    ASSUME TypeOK, TypeOK', CallInv, fault = "no", LiveInv,
           NEW l \in Loop, BeginDrain(l) \/ EndDrain(l)
    PROVE  Good'
<1> USE DEF serverVars, connVars, userVars, historyVars
<1>1. CASE BeginDrain(l)
    <2>1. /\ SingleInv' /\ Waiting' = Waiting
          /\ \A m \in Loop : Queued(m)' = Queued(m)
        BY <1>1, DrainStep DEF LiveInv
    <2>2. UNCHANGED <<serverVars, connections_, connVars, dropped, peer, userVars,
                      historyVars, fault>>
        BY <1>1 DEF BeginDrain
    <2>3. LifeInv'
        BY <2>1, <2>2, LifeFrame DEF LiveInv
    <2>4. Kept' = Kept
        <3>1. ASSUME NEW m \in Loop
              PROVE  Carried(pendingFunctors_'[m]) \cup Carried(functions'[m]) =
                         Carried(pendingFunctors_[m]) \cup Carried(functions[m])
            BY <2>1 DEF Carried, Queued
        <3>2. QED
            BY <2>2, <3>1 DEF Kept
    <2>5. Living' \subseteq Living
        <3>1. \A c \in Living' : c \in Conn
            BY DEF Living
        <3>2. QED
            BY <2>2, <2>4, <3>1, LivingFacts
    <2>6. FdInv'
        BY <2>2, <2>5, FdStep DEF LiveInv
    <2>7. QED
        BY <2>1, <2>2, <2>3, <2>6 DEF Good, LiveInv, RunningInv
<1>2. CASE EndDrain(l)
    <2>1. /\ UNCHANGED <<serverVars, connections_, connVars, pendingFunctors_,
                         functions, peer, userVars, historyVars, fault>>
          /\ dropped' = [dropped EXCEPT ![l] = {}]
        BY <1>2 DEF EndDrain
    <2>2. SingleInv' /\ Waiting' = Waiting
        BY <2>1 DEF SingleInv, LiveInv, Waiting, Queued
    <2>3. LifeInv'
        BY <2>1, <2>2, LifeFrame DEF LiveInv
    <2>4. Kept' \subseteq Kept
        <3>1. \A m \in Loop : dropped'[m] \subseteq dropped[m]
            BY <2>1 DEF TypeOK
        <3>2. QED
            BY <2>1, <3>1 DEF Kept
    <2>5. Living' \subseteq Living
        <3>1. \A c \in Living' : c \in Conn
            BY DEF Living
        <3>2. QED
            BY <2>1, <2>4, <3>1, LivingFacts
    <2>6. FdInv'
        BY <2>1, <2>5, FdStep DEF LiveInv
    <2>7. QED
        BY <2>1, <2>2, <2>3, <2>6 DEF Good, LiveInv, RunningInv
<1>3. QED
    BY <1>1, <1>2

\* A step of a process whose server exists keeps LiveInv, unless it is the end of the
\* server or a functor of send() that runs on a connection that is gone.
LEMMA LiveStep ==
    ASSUME TypeOK, TypeOK', CallInv, ~destroyed, fault = "no", LiveInv, Next
    PROVE  destroyed' \/ fault' = "sendInLoop" \/ Good'
<1> USE DEF serverVars, loopVars, userVars, historyVars
<1>1. base \in Loop /\ server = "running" /\ stale = {}
    BY DEF Loop, LiveInv, RunningInv
<1>2. \A op : op \in RefOps \cup {"sendInLoop"} =>
          \A c \in Conn : Bind(op, c) \in Functor /\ Bind(op, c).op = op
    BY BindFacts
<1>3. /\ Bind("listen", nobody) \in Functor /\ Bind("listen", nobody).op \notin LifeOps
      /\ "listen" \notin RefOps /\ "sendInLoop" \notin RefOps
      /\ "writeCompleteCallback_" \in RefOps
      /\ "sendInLoop" \notin LifeOps /\ "writeCompleteCallback_" \notin LifeOps
    BY BindFacts DEF LifeOps, RefOps
<1>4. CASE Start
    <2>1. fault' = "no"
        BY <1>4, ListenStep DEF Start, LiveInv
    <2>2. LiveInv'
        BY <1>4, QuietStep DEF Start
    <2>3. QED
        BY <2>1, <2>2 DEF Good
<1>5. CASE StartElsewhere
    <2>1. Carried(<<Bind("listen", nobody)>>) = {}
        BY <1>3, CarriedOf
    <2>2. Push(base, Bind("listen", nobody))
        BY <1>5 DEF StartElsewhere
    <2>3. /\ UNCHANGED <<functions, dropped, holds, peer, fault>>
          /\ UNCHANGED <<server, stale, acceptFd, connections_, connVars>>
        BY <1>5 DEF StartElsewhere
    <2>4. LiveInv'
        <3>1. \E l \in Loop, f \in Functor :
                  f.op \notin LifeOps /\ Push(l, f) /\ Carried(<<f>>) \subseteq Living
            BY <1>1, <1>3, <2>1, <2>2
        <3>2. QED
            BY <2>3, <3>1, QuietStep
    <2>5. QED
        BY <2>3, <2>4 DEF Good
<1>6. CASE AcceptFails
    <2>1. UNCHANGED vars
        BY <1>6 DEF AcceptFails
    <2>2. LiveInv'
        BY <2>1, QuietStep DEF vars
    <2>3. QED
        BY <2>1, <2>2 DEF Good, vars
<1>7. ASSUME NEW c \in Conn, Accept(c) PROVE Good'
    BY <1>7, AcceptStep
<1>8. ASSUME NEW c \in Conn, AcceptAborted(c) PROVE Good'
    <2>1. /\ peer' = [peer EXCEPT ![c] = "gone"]
          /\ UNCHANGED <<serverVars, connections_, connVars, loopVars, userVars,
                         historyVars, fault>>
        BY <1>8 DEF AcceptAborted
    <2>2. \A d \in Conn : peer'[d] \in {"away", "backlog"} =>
                              peer[d] \in {"away", "backlog"}
        BY <2>1 DEF TypeOK
    <2>3. LiveInv'
        BY <2>1, <2>2, QuietStep
    <2>4. QED
        BY <2>1, <2>3 DEF Good
<1>9. ASSUME NEW l \in Loop, BeginDrain(l) \/ EndDrain(l) PROVE Good'
    BY <1>9, BatchStep
<1>10. ASSUME NEW c \in Conn, HandleClose(c) PROVE Good'
    BY <1>10, CloseStep
<1>11. ASSUME NEW l \in Loop, NEW c \in Conn, RunConnectEstablished(l, c) PROVE Good'
    BY <1>11, EstablishStep
<1>12. ASSUME NEW l \in Loop, NEW c \in Conn, RunConnectDestroyed(l, c) PROVE Good'
    BY <1>12, DestroyStep
<1>13. ASSUME NEW l \in Loop, NEW c \in Conn, RunSend(l, c)
       PROVE  fault' = "sendInLoop" \/ Good'
    <2>1. /\ Run(l, Bind("sendInLoop", c)) /\ Check(Alive(c), "sendInLoop")
          /\ \/ Alive(c) /\ Push(l, Bind("writeCompleteCallback_", c))
             \/ UNCHANGED pendingFunctors_
          /\ UNCHANGED <<serverVars, connections_, state_, registered>>
        BY <1>13 DEF RunSend
    <2>2. UNCHANGED <<fd, loop_, peer, userVars, historyVars>>
        BY <2>1 DEF Run
    <2>3. \E m \in Loop, f \in Functor : f.op \notin LifeOps /\ Run(m, f)
        BY <1>2, <1>3, <2>1
    <2>4. \/ UNCHANGED pendingFunctors_
          \/ \E m \in Loop, f \in Functor :
                 f.op \notin LifeOps /\ Push(m, f) /\ Carried(<<f>>) \subseteq Living
        <3>1. CASE UNCHANGED pendingFunctors_
            BY <3>1
        <3>2. CASE Alive(c) /\ Push(l, Bind("writeCompleteCallback_", c))
            <4>1. Carried(<<Bind("writeCompleteCallback_", c)>>) \subseteq Living
                BY <3>2, CarriedOf DEF Living
            <4>2. QED
                BY <1>2, <1>3, <3>2, <4>1
        <3>3. QED
            BY <2>1, <3>1, <3>2
    <2>5. LiveInv'
        BY <2>1, <2>2, <2>3, <2>4, QuietStep DEF connVars
    <2>6. QED
        BY <2>1, <2>5 DEF Good, Check
<1>14. ASSUME NEW l \in Loop, NEW c \in Conn, RunWriteComplete(l, c) PROVE Good'
    <2>1. /\ Run(l, Bind("writeCompleteCallback_", c))
          /\ UNCHANGED <<serverVars, connections_, state_, registered,
                         pendingFunctors_, fault>>
        BY <1>14 DEF RunWriteComplete
    <2>2. UNCHANGED <<fd, loop_, peer, userVars, historyVars>>
        BY <2>1 DEF Run
    <2>3. \E m \in Loop, f \in Functor : f.op \notin LifeOps /\ Run(m, f)
        BY <1>2, <1>3, <2>1
    <2>4. LiveInv'
        BY <2>1, <2>2, <2>3, QuietStep DEF connVars
    <2>5. QED
        BY <2>1, <2>4 DEF Good
<1>15. ASSUME NEW c \in Conn, RunRemoveConnection(c) PROVE Good'
    BY <1>15, RemoveStep
<1>16. CASE RunListen
    <2>1. /\ Run(base, Bind("listen", nobody)) /\ Listen
          /\ UNCHANGED <<server, ioLoops, started_, acceptFd, connections_, state_,
                         registered, pendingFunctors_>>
        BY <1>1, <1>16 DEF RunListen
    <2>2. UNCHANGED <<fd, loop_, peer, userVars, historyVars>>
        BY <2>1 DEF Run
    <2>3. fault' = "no"
        BY <2>1, ListenStep DEF LiveInv
    <2>4. \E m \in Loop, f \in Functor : f.op \notin LifeOps /\ Run(m, f)
        BY <1>1, <1>3, <2>1
    <2>5. LiveInv'
        BY <2>1, <2>2, <2>4, QuietStep DEF connVars
    <2>6. QED
        BY <2>3, <2>5 DEF Good
<1>17. ASSUME NEW l \in Loop, PollDangling(l) PROVE FALSE
    <2>1. PICK c \in Conn : registered[c] = "yes" /\ ~Alive(c)
        BY <1>1, <1>17 DEF PollDangling
    <2>2. QED
        BY <2>1, RegisteredLives DEF LiveInv, Living
<1>18. ASSUME NEW t \in Thread, SendCheck(t) PROVE Good'
    <2>1. LiveInv'
        BY <1>18, QuietStep DEF SendCheck
    <2>2. QED
        BY <1>18, <2>1 DEF Good, SendCheck
<1>19. ASSUME NEW t \in Thread, SendQueue(t) PROVE Good'
    <2> DEFINE c == holds[t]
    <2>1. c \in Conn /\ loop_[c] \in Loop
        BY <1>19 DEF SendQueue, CallInv, TypeOK
    <2>2. /\ Push(loop_[c], Bind("sendInLoop", c)) /\ fault' = "no"
          /\ UNCHANGED <<serverVars, connections_, connVars, functions, draining,
                         dropped, peer, openMax, holds, historyVars>>
        BY <1>1, <1>19 DEF SendQueue, Check
    <2>3. Carried(<<Bind("sendInLoop", c)>>) = {}
        BY <1>3, CarriedOf
    <2>4. \E m \in Loop, f \in Functor :
              f.op \notin LifeOps /\ Push(m, f) /\ Carried(<<f>>) \subseteq Living
        BY <1>2, <1>3, <2>1, <2>2, <2>3
    <2>5. LiveInv'
        BY <2>2, <2>4, QuietStep
    <2>6. QED
        BY <2>2, <2>5 DEF Good
<1>20. ASSUME NEW t \in Thread, DropReference(t) PROVE Good'
    <2>1. /\ holds' = [holds EXCEPT ![t] = nobody]
          /\ UNCHANGED <<serverVars, connections_, connVars, loopVars, peer, openMax,
                         calling, historyVars, fault>>
        BY <1>20 DEF DropReference
    <2>2. \A u \in Thread : holds'[u] = holds[u] \/ holds'[u] \in Living \cup {nobody}
        BY <2>1 DEF TypeOK
    <2>3. LiveInv'
        BY <2>1, <2>2, QuietStep
    <2>4. QED
        BY <2>1, <2>3 DEF Good
<1>21. ASSUME NEW t \in Thread, NEW c \in Conn, TakeReference(t, c) PROVE Good'
    <2>1. /\ holds' = [holds EXCEPT ![t] = c] /\ c \in Living
          /\ UNCHANGED <<serverVars, connections_, connVars, loopVars, peer, openMax,
                         calling, historyVars, fault>>
        BY <1>21 DEF TakeReference, Living
    <2>2. \A u \in Thread : holds'[u] = holds[u] \/ holds'[u] \in Living \cup {nobody}
        BY <2>1 DEF TypeOK
    <2>3. LiveInv'
        BY <2>1, <2>2, QuietStep
    <2>4. QED
        BY <2>1, <2>3 DEF Good
<1>22. ASSUME NEW c \in Conn, WriteCompletes(c) PROVE Good'
    <2>1. /\ Push(loop_[c], Bind("writeCompleteCallback_", c))
          /\ c \in Living /\ loop_[c] \in Loop
          /\ UNCHANGED <<serverVars, connections_, connVars, functions, draining,
                         dropped, peer, userVars, historyVars, fault>>
        BY <1>22 DEF WriteCompletes, Living, TypeOK
    <2>2. Carried(<<Bind("writeCompleteCallback_", c)>>) \subseteq Living
        BY <2>1, CarriedOf
    <2>3. \E m \in Loop, f \in Functor :
              f.op \notin LifeOps /\ Push(m, f) /\ Carried(<<f>>) \subseteq Living
        BY <1>2, <1>3, <2>1, <2>2
    <2>4. LiveInv'
        BY <2>1, <2>3, QuietStep
    <2>5. QED
        BY <2>1, <2>4 DEF Good
<1>23. ASSUME NEW c \in Conn, PeerConnects(c) \/ PeerCloses(c) PROVE Good'
    <2>1. UNCHANGED <<serverVars, connections_, connVars, loopVars, userVars,
                      historyVars, fault>>
        BY <1>23 DEF PeerConnects, PeerCloses
    <2>2. \A d \in Conn : peer'[d] \in {"away", "backlog"} =>
                              peer[d] \in {"away", "backlog"}
        BY <1>23 DEF PeerConnects, PeerCloses, TypeOK
    <2>3. LiveInv'
        BY <2>1, <2>2, QuietStep
    <2>4. QED
        BY <2>1, <2>3 DEF Good
<1>24. CASE DestroyConnections
    BY <1>24 DEF DestroyConnections
<1>25. ~DestroyRest /\ ~NewServer
    BY <1>1 DEF DestroyRest, NewServer
<1>26. QED
    BY <1>4, <1>5, <1>6, <1>7, <1>8, <1>9, <1>10, <1>11, <1>12, <1>13, <1>14, <1>15,
       <1>16, <1>17, <1>18, <1>19, <1>20, <1>21, <1>22, <1>23, <1>24, <1>25
       DEF Next, LoopStep, UserStep

\* A process has at first a server and no connection.
LEMMA InvInit == Init => Inv
<1> SUFFICES ASSUME Init PROVE Inv
    OBVIOUS
<1>1. TypeOK /\ CallInv
    BY TypeInit
<1>2. TouchesTheLiving /\ RunningInv
    BY DEF Init, TouchesTheLiving, RunningInv
<1>3. \A l \in Loop : functions[l] = <<>> /\ pendingFunctors_[l] = <<>> /\ dropped[l] = {}
    BY DEF Init
<1>4. SingleInv /\ Waiting = {} /\ Kept = {}
    BY <1>3, EmptyFacts DEF SingleInv, Waiting, Queued, Kept
<1>5. LifeInv
    BY <1>4 DEF Init, LifeInv, Stage
<1>6. Living = {}
    <2>1. \A t \in Thread : holds[t] = nobody
        BY DEF Init
    <2>2. \A c \in Conn : c \notin connections_ /\ c # nobody
        BY ConstantsAssumption DEF Init
    <2>3. \A c \in Conn : c \notin Living
        BY <1>1, <1>4, <2>1, <2>2, LivingFacts
    <2>4. QED
        BY <2>3 DEF Living
<1>7. FdInv
    BY <1>6 DEF FdInv
<1>8. QED
    BY <1>1, <1>2, <1>4, <1>5, <1>7 DEF Inv, LiveInv

\* A server that has been destroyed stays one.
LEMMA DestroyedStays == [Next]_vars /\ destroyed => destroyed'
<1> SUFFICES ASSUME [Next]_vars, destroyed PROVE destroyed'
    OBVIOUS
<1> USE DEF historyVars
<1>1. CASE UNCHANGED vars
    BY <1>1 DEF vars
<1>2. CASE Start \/ StartElsewhere
    BY <1>2 DEF Start, StartElsewhere
<1>3. CASE AcceptFails
    BY <1>3 DEF AcceptFails, vars
<1>4. ASSUME NEW c \in Conn, Accept(c) \/ AcceptAborted(c) PROVE destroyed'
    BY <1>4 DEF Accept, Admit, AcceptAborted
<1>5. ASSUME NEW l \in Loop, BeginDrain(l) \/ EndDrain(l) \/ PollDangling(l)
      PROVE  destroyed'
    BY <1>5 DEF BeginDrain, EndDrain, PollDangling
<1>6. ASSUME NEW c \in Conn, HandleClose(c) PROVE destroyed'
    BY <1>6 DEF HandleClose
<1>7. ASSUME NEW l \in Loop, NEW f, Run(l, f) PROVE destroyed'
    BY <1>7 DEF Run
<1>8. ASSUME NEW l \in Loop, NEW c \in Conn,
             \/ RunConnectEstablished(l, c) \/ RunConnectDestroyed(l, c)
             \/ RunSend(l, c) \/ RunWriteComplete(l, c)
      PROVE  destroyed'
    BY <1>7, <1>8 DEF RunConnectEstablished, RunConnectDestroyed, RunSend,
                      RunWriteComplete
<1>9. ASSUME NEW c \in Conn, RunRemoveConnection(c) PROVE destroyed'
    BY <1>7, <1>9 DEF RunRemoveConnection, Loop
<1>10. CASE RunListen
    BY <1>7, <1>10 DEF RunListen, Loop
<1>11. ASSUME NEW t \in Thread, SendCheck(t) \/ SendQueue(t) \/ DropReference(t)
       PROVE  destroyed'
    BY <1>11 DEF SendCheck, SendQueue, DropReference
<1>12. ASSUME NEW t \in Thread, NEW c \in Conn, TakeReference(t, c) PROVE destroyed'
    BY <1>12 DEF TakeReference
<1>13. ASSUME NEW c \in Conn, WriteCompletes(c) \/ PeerConnects(c) \/ PeerCloses(c)
       PROVE  destroyed'
    BY <1>13 DEF WriteCompletes, PeerConnects, PeerCloses
<1>14. CASE DestroyConnections \/ DestroyRest \/ NewServer
    BY <1>14 DEF DestroyConnections, DestroyRest, NewServer
<1>15. QED
    BY <1>1, <1>2, <1>3, <1>4, <1>5, <1>6, <1>8, <1>9, <1>10, <1>11, <1>12, <1>13,
       <1>14 DEF Next, LoopStep, UserStep

\* Every step keeps the invariant.
LEMMA InvStep == Inv /\ [Next]_vars => Inv'
<1> SUFFICES ASSUME Inv, [Next]_vars PROVE Inv'
    OBVIOUS
<1>1. TypeOK' /\ CallInv'
    BY TypeStep DEF Inv
<1>2. CASE destroyed
    <2>1. destroyed'
        BY <1>2, DestroyedStays
    <2>2. QED
        BY <1>1, <2>1 DEF Inv, TouchesTheLiving
<1>3. CASE ~destroyed /\ (fault # "no" \/ UNCHANGED vars)
    <2>1. UNCHANGED vars
        BY <1>3 DEF Next
    <2>2. CASE fault # "no"
        BY <1>1, <1>3, <2>1, <2>2 DEF Inv, TouchesTheLiving, vars, historyVars
    <2>3. CASE fault = "no"
        <3>1. LiveInv
            BY <1>3, <2>3 DEF Inv
        <3>2. LiveInv'
            BY <1>1, <2>1, <3>1, QuietStep
               DEF Inv, vars, serverVars, loopVars, userVars, historyVars
        <3>3. QED
            BY <1>1, <1>3, <2>1, <2>3, <3>2
               DEF Inv, TouchesTheLiving, vars, historyVars
    <2>4. QED
        BY <2>2, <2>3
<1>4. CASE ~destroyed /\ fault = "no" /\ Next
    <2>1. LiveInv /\ TypeOK /\ CallInv
        BY <1>4 DEF Inv
    <2>2. destroyed' \/ fault' = "sendInLoop" \/ Good'
        BY <1>1, <1>4, <2>1, LiveStep
    <2>3. QED
        BY <1>1, <2>2 DEF Inv, Good, TouchesTheLiving
<1>5. QED
    BY <1>2, <1>3, <1>4

\* The inductive invariant: beside the types and CallInv, as long as the server exists
\* and nothing has gone wrong, each connection is in one stage of its life, with the
\* one functor that leads to the next, and the open descriptors differ.
THEOREM Invariance == Spec => []Inv
<1>1. Init => Inv
    BY InvInit
<1>2. Inv /\ [Next]_vars => Inv'
    BY InvStep
<1>3. QED
    BY <1>1, <1>2, PTL DEF Spec

\* As long as the server exists the handlers and functors of its connections, and
\* their pollers, find the connection they are for, and its assertions hold: of the
\* functors only sendInLoop may run on a connection that is gone.
THEOREM AlwaysTouchesTheLiving == Spec => []TouchesTheLiving
<1>1. Inv => TouchesTheLiving
    BY DEF Inv
<1>2. QED
    BY <1>1, Invariance, PTL

\* As long as the server exists, the connections that exist have descriptors of their
\* own, none of them the Acceptor's: one that lives on in a functor or with a user has
\* not lost its socket to a later connection, as handleRead's accept() returns only what
\* ~TcpConnection has closed.
THEOREM DescriptorsDiffer ==
    Spec => [](~destroyed /\ fault = "no" =>
                   /\ \A c \in Living : fd[c] # acceptFd
                   /\ \A c, d \in Living : fd[c] = fd[d] => c = d)
<1>1. Inv => (~destroyed /\ fault = "no" =>
                  /\ \A c \in Living : fd[c] # acceptFd
                  /\ \A c, d \in Living : fd[c] = fd[d] => c = d)
    BY DEF Inv, LiveInv, FdInv
<1>2. QED
    BY <1>1, Invariance, PTL

\* As long as the server exists, a channel that a poller holds, polled or disabled,
\* belongs to a connection that exists: the map or the functor that is to destroy it
\* has a reference.
THEOREM RegisteredAreAlive ==
    Spec => [](~destroyed /\ fault = "no" =>
                   \A c \in Conn : registered[c] \in {"yes", "ignored"} => Alive(c))
<1>1. Inv => (~destroyed /\ fault = "no" =>
                  \A c \in Conn : registered[c] \in {"yes", "ignored"} => Alive(c))
    BY RegisteredLives DEF Inv, LiveInv, Living
<1>2. QED
    BY <1>1, Invariance, PTL

-----------------------------------------------------------------------------
(***************************************************************************)
(* The life of a connection: TcpServer implements ConnectionLife.          *)
(***************************************************************************)

\* At first no connection has been accepted.
LEMMA InitRefines == Init => ImplementsConnectionLife!Init
<1> SUFFICES ASSUME Init PROVE ImplementsConnectionLife!Init
    OBVIOUS
<1>1. \A c \in Conn : LifeStage(c) = "none"
    BY DEF Init, LifeStage
<1>2. (destroyed \/ fault # "no") = FALSE
    BY DEF Init
<1>3. QED
    BY <1>1, <1>2 DEF ImplementsConnectionLife!Init

\* A step that changes the stage of one connection alone.
LEMMA BecomeStep ==
    ASSUME NEW c \in Conn, NEW from, NEW to,
           ~destroyed, ~destroyed', fault = "no", fault' = "no",
           \A d \in Conn \ {c} :
               /\ registered'[d] = registered[d]
               /\ d \in connections_' <=> d \in connections_,
           LifeStage(c) = from, LifeStage(c)' = to
    PROVE  ImplementsConnectionLife!Become(c, from, to)
<1>1. \A d \in Conn \ {c} : LifeStage(d)' = LifeStage(d)
    BY DEF LifeStage
<1>2. [d \in Conn |-> LifeStage(d)]' =
          [[d \in Conn |-> LifeStage(d)] EXCEPT ![c] = to]
    BY <1>1
<1>3. (destroyed \/ fault # "no")' = (destroyed \/ fault # "no")
    OBVIOUS
<1>4. QED
    BY <1>2, <1>3 DEF ImplementsConnectionLife!Become

\* A step after which the server exists and nothing has gone wrong takes one
\* connection to its next stage, or none.
LEMMA LiveRefines ==
    ASSUME Inv, Next, ~destroyed, ~destroyed', fault = "no", fault' = "no"
    PROVE  ImplementsConnectionLife!Next \/ UNCHANGED <<registered, connections_>>
<1>1. TypeOK /\ LiveInv /\ CallInv /\ server = "running" /\ base \in Loop
    BY DEF Inv, LiveInv, RunningInv, Loop
<1>2. \A c \in Conn : Stage(c)
    BY <1>1 DEF LiveInv, LifeInv
<1>3. ASSUME NEW c \in Conn, Accept(c) PROVE ImplementsConnectionLife!Next
    <2> DEFINE n == LowestFreeFd
    <2>1. Admit(c, n)
        BY <1>3 DEF Accept
    <2> HIDE DEF n
    <2>2. /\ connections_' = connections_ \cup {c}
          /\ \/ registered' = [registered EXCEPT ![c] = "yes"]
             \/ registered' = registered
          /\ peer[c] = "backlog"
        BY <2>1 DEF Admit, ConnectEstablished, FirstInBacklog
    <2>3. registered[c] = "no" /\ c \notin connections_
        BY <1>2, <2>2 DEF Stage
    <2>4. \A d \in Conn \ {c} :
              /\ registered'[d] = registered[d]
              /\ d \in connections_' <=> d \in connections_
        BY <1>1, <2>2 DEF TypeOK
    <2>5. LifeStage(c) = "none"
        BY <2>3 DEF LifeStage
    <2>6. LifeStage(c)' \in {"made", "open"}
        BY <1>1, <2>2, <2>3 DEF LifeStage, TypeOK
    <2>7. \/ ImplementsConnectionLife!Become(c, "none", "made")
          \/ ImplementsConnectionLife!Become(c, "none", "open")
        BY <2>4, <2>5, <2>6, BecomeStep
    <2>8. QED
        BY <2>7 DEF ImplementsConnectionLife!Next, ImplementsConnectionLife!Create
<1>4. ASSUME NEW l \in Loop, NEW c \in Conn, RunConnectEstablished(l, c)
      PROVE  ImplementsConnectionLife!Next
    <2>1. /\ Run(l, Bind("connectEstablished", c))
          /\ registered' = [registered EXCEPT ![c] = "yes"]
          /\ UNCHANGED connections_
        BY <1>4 DEF RunConnectEstablished, ConnectEstablished
    <2>2. <<l, "connectEstablished", c>> \in Waiting
        BY <1>1, <2>1, RunLife DEF LiveInv, LifeOps
    <2>3. registered[c] = "no" /\ c \in connections_
        BY <1>2, <2>2 DEF Stage
    <2>4. LifeStage(c) = "made"
        BY <2>3 DEF LifeStage
    <2>5. LifeStage(c)' = "open"
        BY <1>1, <2>1 DEF LifeStage, TypeOK
    <2>6. ImplementsConnectionLife!Become(c, "made", "open")
        BY <1>1, <2>1, <2>4, <2>5, BecomeStep DEF TypeOK
    <2>7. QED
        BY <2>6 DEF ImplementsConnectionLife!Next, ImplementsConnectionLife!Establish
<1>5. ASSUME NEW c \in Conn, HandleClose(c) PROVE ImplementsConnectionLife!Next
    <2>1. registered[c] = "yes" /\ c \in connections_
        BY <1>2, <1>5 DEF HandleClose, Stage
    <2>2. /\ registered' = [registered EXCEPT ![c] = "ignored"]
          /\ connections_' = connections_ \/ connections_' = connections_ \ {c}
        BY <1>5, <2>1 DEF HandleClose, RemoveConnectionInLoop
    <2>3. \A d \in Conn \ {c} :
              /\ registered'[d] = registered[d]
              /\ d \in connections_' <=> d \in connections_
        BY <1>1, <2>2 DEF TypeOK
    <2>4. LifeStage(c) = "open"
        BY <2>1 DEF LifeStage
    <2>5. LifeStage(c)' \in {"closing", "leaving"}
        BY <1>1, <2>2 DEF LifeStage, TypeOK
    <2>6. \/ ImplementsConnectionLife!Become(c, "open", "closing")
          \/ ImplementsConnectionLife!Become(c, "open", "leaving")
        BY <2>3, <2>4, <2>5, BecomeStep
    <2>7. QED
        BY <2>6 DEF ImplementsConnectionLife!Next, ImplementsConnectionLife!Close
<1>6. ASSUME NEW c \in Conn, RunRemoveConnection(c)
      PROVE  ImplementsConnectionLife!Next
    <2>1. /\ Run(base, Bind("removeConnectionInLoop", c))
          /\ UNCHANGED registered /\ connections_' = connections_ \ {c}
        BY <1>1, <1>6 DEF RunRemoveConnection, RemoveConnectionInLoop
    <2>2. <<base, "removeConnectionInLoop", c>> \in Waiting
        BY <1>1, <2>1, RunLife DEF LiveInv, LifeOps
    <2>3. registered[c] = "ignored" /\ c \in connections_
        BY <1>1, <1>2, <2>2 DEF Stage
    <2>4. LifeStage(c) = "closing"
        BY <2>3 DEF LifeStage
    <2>5. LifeStage(c)' = "leaving"
        BY <2>1, <2>3 DEF LifeStage
    <2>6. ImplementsConnectionLife!Become(c, "closing", "leaving")
        BY <2>1, <2>4, <2>5, BecomeStep
    <2>7. QED
        BY <2>6 DEF ImplementsConnectionLife!Next, ImplementsConnectionLife!Remove
<1>7. ASSUME NEW l \in Loop, NEW c \in Conn, RunConnectDestroyed(l, c)
      PROVE  ImplementsConnectionLife!Next
    <2>1. /\ Run(l, Bind("connectDestroyed", c))
          /\ registered' = [registered EXCEPT ![c] = "removed"]
          /\ UNCHANGED connections_
        BY <1>7 DEF RunConnectDestroyed
    <2>2. <<l, "connectDestroyed", c>> \in Waiting
        BY <1>1, <2>1, RunLife DEF LiveInv, LifeOps
    <2>3. registered[c] = "ignored" /\ c \notin connections_
        BY <1>2, <2>2 DEF Stage
    <2>4. LifeStage(c) = "leaving"
        BY <2>3 DEF LifeStage
    <2>5. LifeStage(c)' = "over"
        BY <1>1, <2>1 DEF LifeStage, TypeOK
    <2>6. ImplementsConnectionLife!Become(c, "leaving", "over")
        BY <1>1, <2>1, <2>4, <2>5, BecomeStep DEF TypeOK
    <2>7. QED
        BY <2>6 DEF ImplementsConnectionLife!Next, ImplementsConnectionLife!Destroy
<1>8. \/ \E c \in Conn : Accept(c) \/ HandleClose(c) \/ RunRemoveConnection(c)
      \/ \E l \in Loop, c \in Conn :
             RunConnectEstablished(l, c) \/ RunConnectDestroyed(l, c)
      \/ UNCHANGED <<registered, connections_>>
    <2> USE DEF connVars
    <2>1. CASE Start \/ StartElsewhere \/ AcceptFails
        BY <2>1 DEF Start, StartElsewhere, AcceptFails, vars
    <2>2. ASSUME NEW c \in Conn, AcceptAborted(c) \/ WriteCompletes(c)
                                 \/ PeerConnects(c) \/ PeerCloses(c)
          PROVE  UNCHANGED <<registered, connections_>>
        BY <2>2 DEF AcceptAborted, WriteCompletes, PeerConnects, PeerCloses
    <2>3. ASSUME NEW l \in Loop, BeginDrain(l) \/ EndDrain(l) \/ PollDangling(l)
          PROVE  UNCHANGED <<registered, connections_>>
        BY <2>3 DEF BeginDrain, EndDrain, PollDangling
    <2>4. ASSUME NEW l \in Loop, NEW c \in Conn, RunSend(l, c) \/ RunWriteComplete(l, c)
          PROVE  UNCHANGED <<registered, connections_>>
        BY <2>4 DEF RunSend, RunWriteComplete
    <2>5. CASE RunListen
        BY <2>5 DEF RunListen
    <2>6. ASSUME NEW t \in Thread, NEW c \in Conn, TakeReference(t, c)
          PROVE  UNCHANGED <<registered, connections_>>
        BY <2>6 DEF TakeReference
    <2>7. ASSUME NEW t \in Thread, SendCheck(t) \/ SendQueue(t) \/ DropReference(t)
          PROVE  UNCHANGED <<registered, connections_>>
        BY <2>7 DEF SendCheck, SendQueue, DropReference
    <2>8. ~DestroyConnections /\ ~DestroyRest /\ ~NewServer
        BY <1>1 DEF DestroyConnections, DestroyRest, NewServer
    <2>9. QED
        BY <2>1, <2>2, <2>3, <2>4, <2>5, <2>6, <2>7, <2>8 DEF Next, LoopStep, UserStep
<1>9. QED
    BY <1>3, <1>4, <1>5, <1>6, <1>7, <1>8

\* Every other step breaks the promise, or comes after one that has.
LEMMA NextRefines ==
    Inv /\ [Next]_vars =>
        [ImplementsConnectionLife!Next]_<<[c \in Conn |-> LifeStage(c)],
                                          destroyed \/ fault # "no">>
<1> DEFINE stages == [c \in Conn |-> LifeStage(c)]
           broken == destroyed \/ fault # "no"
<1> SUFFICES ASSUME Inv, [Next]_vars
             PROVE  ImplementsConnectionLife!Next \/ UNCHANGED <<stages, broken>>
    OBVIOUS
<1>1. CASE broken'
    BY <1>1 DEF ImplementsConnectionLife!Next, ImplementsConnectionLife!Break
<1>2. CASE UNCHANGED vars
    BY <1>2 DEF vars, connVars, historyVars, LifeStage
<1>3. CASE Next /\ ~UNCHANGED vars /\ ~broken'
    <2>1. ~destroyed /\ ~destroyed' /\ fault = "no" /\ fault' = "no"
        BY <1>3, DestroyedStays DEF Next
    <2>2. CASE UNCHANGED <<registered, connections_>>
        BY <2>1, <2>2 DEF LifeStage
    <2>3. QED
        BY <1>3, <2>1, <2>2, LiveRefines
<1>4. QED
    BY <1>1, <1>2, <1>3

\* Each connection is accepted, established, closed, removed from the map and
\* destroyed, in this order and once each, though each of these steps may be made in
\* another loop than the one before and newConnection and removeConnection only queue
\* them; it ends with the server, or with a fault.
THEOREM Refinement == Spec => LifeSpec
<1>1. Init => ImplementsConnectionLife!Init
    BY InitRefines
<1>2. Inv /\ [Next]_vars =>
          [ImplementsConnectionLife!Next]_<<[c \in Conn |-> LifeStage(c)],
                                            destroyed \/ fault # "no">>
    BY NextRefines
<1>3. QED
    BY <1>1, <1>2, Invariance, PTL
    DEF Spec, LifeSpec, ImplementsConnectionLife!Spec
=============================================================================
