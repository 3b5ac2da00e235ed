----------------------------- MODULE TcpServer ------------------------------
(***************************************************************************)
(* mtnet::TcpServer with its Acceptor: who owns the connections, when the  *)
(* last reference to one goes, and which descriptors are open.  There are  *)
(* the server's base loop, the loops of its pool, other threads that keep  *)
(* references to connections and send on them, the peers, and a process    *)
(* that has few descriptors.  The server may be destroyed and another one  *)
(* made on the same base loop.                                             *)
(*                                                                         *)
(* A TcpConnection exists while somebody refers to it: the server's map,   *)
(* the functors that carry a TcpConnectionPtr, until the batch that they   *)
(* belong to is dropped, and the users.  Its socket is closed with it.     *)
(* TcpConnection says what goes over the wire; here that is left out.      *)
(***************************************************************************)
EXTENDS Integers, Sequences, Functions, FiniteSets

CONSTANTS
    Conn,         \* the connections, numbered in the order their peers come
    IoLoop,       \* the loops of the pool, if setThreadNum asked for any
    base,         \* loop_
    Thread,       \* user threads that are not a loop's
    nobody,       \* instead of a connection
    MaxOpen,      \* bounds the descriptors that the process may have
    MaxPending    \* bounds the functors that users leave in a loop

ASSUME ConstantsAssumption ==
    /\ base \notin IoLoop
    /\ Conn \subseteq Nat /\ nobody \notin Conn
    /\ MaxOpen \in Nat \ {0, 1}
    /\ MaxPending \in Nat

VARIABLES
    \* the server and its Acceptor
    server,       \* "running", "destroying", "gone"
    ioLoops,      \* the pool's loops
    started_, listenning_,
    acceptFd,     \* the Acceptor's descriptor; its channel, in the poller or not
    accepting,
    connections_,
    \* the connections: their descriptor, -1 before they are made, their loop,
    \* and what the poller knows of their channel
    fd, loop_, state_, registered,
    \* the loops
    pendingFunctors_, functions,
    draining,     \* the loop runs its pending functors
    dropped,      \* connections that functors of the batch that have run carry
    \* outside
    openMax,      \* how many descriptors the process may have
    peer,         \* of each connection
    holds,        \* the connection that each thread has a reference to
    calling,      \* the thread is in send(), past the test of state_
    \* history
    stale,        \* descriptors of destroyed Acceptors in the base loop's poller
    destroyed,    \* a server has been destroyed
    fault         \* a failed assertion, or the use of an object that is gone

serverVars == <<server, ioLoops, started_, listenning_, acceptFd, accepting>>
connVars == <<fd, loop_, state_, registered>>
loopVars == <<pendingFunctors_, functions, draining, dropped>>
userVars == <<openMax, holds, calling>>
historyVars == <<stale, destroyed>>
vars == <<serverVars, connections_, connVars, loopVars, peer, userVars,
          historyVars, fault>>

Loop == IoLoop \cup {base}
Fd == 0 .. MaxOpen - 1

Functor ==
    [op : {"connectEstablished", "removeConnectionInLoop", "connectDestroyed",
           "writeCompleteCallback_", "sendInLoop"}, conn : Conn]
    \cup [op : {"listen"}, conn : {nobody}]

\* The functors that are bound to a TcpConnectionPtr; sendInLoop is bound to a
\* raw this, and so is listen, to the Acceptor.
RefOpsMutant == {"connectEstablished", "removeConnectionInLoop",
                 "writeCompleteCallback_"}
RefOps == {"connectEstablished", "removeConnectionInLoop", "connectDestroyed",
           "writeCompleteCallback_"}
Bind(op, c) == [op |-> op, conn |-> c]

Carried(functors) ==
    {f.conn : f \in {g \in Range(functors) : g.op \in RefOps}}

Alive(c) ==
    \/ c \in connections_
    \/ \E l \in Loop : c \in Carried(pendingFunctors_[l] \o functions[l])
                             \cup dropped[l]
    \/ \E t \in Thread : holds[t] = c

OpenFds ==
    {fd[c] : c \in {d \in Conn : Alive(d)}}
    \cup (IF server = "gone" THEN {} ELSE {acceptFd})
FreeFds == 0 .. openMax - 1 \ OpenFds
LowestFreeFd == CHOOSE n \in FreeFds : \A m \in FreeFds : n <= m

\* What the poller of loop l has in channels_: it knows descriptors, not
\* objects, and forgets none that removeChannel was not called for.
Known(l) ==
    {fd[c] : c \in {d \in Conn : /\ loop_[d] = l
                                 /\ registered[d] \in {"yes", "ignored"}}}
    \cup (IF l # base THEN {} ELSE stale \cup (IF accepting THEN {acceptFd} ELSE {}))

Init ==
    /\ server = "running" /\ ioLoops \in {{}, IoLoop}
    /\ started_ = FALSE /\ listenning_ = FALSE
    /\ acceptFd = 0 /\ accepting = FALSE
    /\ connections_ = {}
    /\ fd = [c \in Conn |-> -1]
    /\ loop_ = [c \in Conn |-> base]
    /\ state_ = [c \in Conn |-> "kConnecting"]
    /\ registered = [c \in Conn |-> "no"]
    /\ pendingFunctors_ = [l \in Loop |-> <<>>]
    /\ functions = [l \in Loop |-> <<>>]
    /\ draining = [l \in Loop |-> FALSE]
    /\ dropped = [l \in Loop |-> {}]
    /\ openMax \in 2 .. MaxOpen
    /\ peer = [c \in Conn |-> "away"]
    /\ holds = [t \in Thread |-> nobody]
    /\ calling = [t \in Thread |-> FALSE]
    /\ stale = {} /\ destroyed = FALSE
    /\ fault = "no"

Push(l, f) == pendingFunctors_' = [pendingFunctors_ EXCEPT ![l] = Append(@, f)]

Check(condition, failure) ==
    fault' = IF condition THEN fault ELSE failure

\* Loop l is between two batches of functors: it polls and calls handlers.
Polling(l) ==
    /\ ~draining[l]
    /\ IF l = base THEN server # "destroying" ELSE server # "gone"

\* A bound: after a destruction what was under way goes on and nothing new comes.
NewTraffic == ~destroyed

-----------------------------------------------------------------------------
(***************************************************************************)
(* start, Acceptor::listen and Acceptor::handleRead.                       *)
(***************************************************************************)

\* Acceptor::listen, in the base loop.  The poller asserts that a channel that
\* is added has a descriptor that is new to it.
Listen ==
    /\ listenning_' = TRUE
    /\ accepting' = TRUE
    /\ Check(accepting \/ acceptFd \notin Known(base), "updateChannel")

\* start() in the base loop's thread.
Start ==
    /\ server = "running"
    /\ ~started_ \/ ~listenning_
    /\ started_' = TRUE
    /\ IF listenning_ THEN UNCHANGED <<listenning_, accepting, fault>> ELSE Listen
    /\ UNCHANGED <<server, ioLoops, acceptFd, connections_, connVars, loopVars,
                   peer, userVars, historyVars>>

\* start() in another thread: listen is queued, once or again.
StartElsewhere ==
    /\ server = "running"
    /\ ~listenning_
    /\ Len(pendingFunctors_[base]) < MaxPending
    /\ started_' = TRUE
    /\ Push(base, Bind("listen", nobody))
    /\ UNCHANGED <<server, ioLoops, listenning_, acceptFd, accepting,
                   connections_, connVars, functions, draining, dropped, peer,
                   userVars, historyVars, fault>>

\* connectEstablished, but for the user's callback: state_, registered, fault.
ConnectEstablished(c, n, l) ==
    /\ state_' = [state_ EXCEPT ![c] = "kConnected"]
    /\ registered' = [registered EXCEPT ![c] = "yes"]
    /\ Check(state_[c] = "kConnecting" /\ n \notin Known(l), "connectEstablished")

\* The listening socket's queue is first-in first-out.
FirstInBacklog(c) ==
    /\ peer[c] = "backlog"
    /\ \A d \in Conn : d < c => peer[d] # "backlog"

\* accept() delivers descriptor n, and newConnection puts the connection in the
\* map and hands it to a loop of the pool, if there are any.
Admit(c, n) ==
    /\ Polling(base) /\ server = "running" /\ accepting
    /\ FirstInBacklog(c)
    /\ peer' = [peer EXCEPT ![c] = "open"]
    /\ fd' = [fd EXCEPT ![c] = n]
    /\ connections_' = connections_ \cup {c}
    /\ \E l \in IF ioLoops = {} THEN {base} ELSE ioLoops :
           /\ loop_' = [loop_ EXCEPT ![c] = l]
           /\ IF l = base
              THEN ConnectEstablished(c, n, l) /\ UNCHANGED pendingFunctors_
              ELSE /\ Push(l, Bind("connectEstablished", c))
                   /\ UNCHANGED <<state_, registered, fault>>
    /\ UNCHANGED <<serverVars, functions, draining, dropped, userVars,
                   historyVars>>

\* handleRead, when there is a descriptor for the connection.
AcceptMutant(c) == Admit(c, IF FreeFds = {} THEN -1 ELSE LowestFreeFd)
Accept(c) == FreeFds # {} /\ Admit(c, LowestFreeFd)

\* accept() fails.  Either the peer has given up (ECONNABORTED) ...
AcceptAborted(c) ==
    /\ Polling(base) /\ server = "running" /\ accepting
    /\ FirstInBacklog(c)
    /\ peer' = [peer EXCEPT ![c] = "gone"]
    /\ UNCHANGED <<serverVars, connections_, connVars, loopVars, userVars,
                   historyVars, fault>>

\* ... or there is no descriptor for it (EMFILE), and it goes on waiting: -1 is
\* closed, which fails, and the listening socket stays ready.
AcceptFailsMutant ==
    /\ Polling(base) /\ server = "running" /\ accepting
    /\ FreeFds = {} /\ \E c \in Conn : peer[c] = "backlog"
    /\ accepting' = FALSE
    /\ UNCHANGED <<server, ioLoops, started_, listenning_, acceptFd,
                   connections_, connVars, loopVars, peer, userVars,
                   historyVars, fault>>
AcceptFails ==
    /\ Polling(base) /\ server = "running" /\ accepting
    /\ FreeFds = {} /\ \E c \in Conn : peer[c] = "backlog"
    /\ UNCHANGED vars

-----------------------------------------------------------------------------
(***************************************************************************)
(* The connections' handlers, and doPendingFunctors.                       *)
(***************************************************************************)

\* removeConnectionInLoop, in the base loop: connections_, pendingFunctors_ and
\* fault.
RemoveConnectionInLoopMutant(c) ==
    /\ UNCHANGED connections_
    /\ Check(c \in connections_, "removeConnectionInLoop")
    /\ Push(loop_[c], Bind("connectDestroyed", c))
RemoveConnectionInLoop(c) ==
    /\ connections_' = connections_ \ {c}
    /\ Check(c \in connections_, "removeConnectionInLoop")
    /\ Push(loop_[c], Bind("connectDestroyed", c))

\* handleClose: disableAll, and removeConnection through closeCallback_, which
\* is bound to the server the connection belongs to.
HandleClose(c) ==
    /\ Polling(loop_[c])
    /\ registered[c] = "yes" /\ Alive(c)
    /\ peer[c] = "closed"
    /\ registered' = [registered EXCEPT ![c] = "ignored"]
    /\ IF c \notin connections_
       THEN /\ fault' = "closeCallback_"
            /\ UNCHANGED <<connections_, pendingFunctors_>>
       ELSE IF loop_[c] = base THEN RemoveConnectionInLoop(c)
       ELSE /\ Push(base, Bind("removeConnectionInLoop", c))
            /\ UNCHANGED <<connections_, fault>>
    /\ UNCHANGED <<serverVars, fd, loop_, state_, functions, draining, dropped,
                   peer, userVars, historyVars>>

\* handleRead's messageCallback_: a thread is given a reference.
TakeReference(t, c) ==
    /\ Polling(loop_[c])
    /\ registered[c] = "yes" /\ Alive(c)
    /\ holds[t] = nobody /\ NewTraffic
    /\ holds' = [holds EXCEPT ![t] = c]
    /\ UNCHANGED <<serverVars, connections_, connVars, loopVars, peer, openMax, calling,
                   historyVars, fault>>

\* A message of handleRead's messageCallback_, or the rest of one in handleWrite,
\* is written as a whole: writeCompleteCallback_ is queued, with a reference.
WriteCompletes(c) ==
    /\ Polling(loop_[c])
    /\ registered[c] = "yes" /\ Alive(c)
    /\ Len(pendingFunctors_[loop_[c]]) < MaxPending /\ NewTraffic
    /\ Push(loop_[c], Bind("writeCompleteCallback_", c))
    /\ UNCHANGED <<serverVars, connections_, connVars, functions, draining,
                   dropped, peer, userVars, historyVars, fault>>

\* poll() reports the descriptor of a channel that is gone: a closed descriptor
\* is POLLNVAL, one that was opened again may be ready.
PollDangling(l) ==
    /\ Polling(l)
    /\ \/ \E c \in Conn : loop_[c] = l /\ registered[c] = "yes" /\ ~Alive(c)
       \/ l = base /\ stale # {}
    /\ fault' = "handelEvent"
    /\ UNCHANGED <<serverVars, connections_, connVars, loopVars, peer, userVars,
                   historyVars>>

BeginDrain(l) ==
    /\ Polling(l)
    /\ pendingFunctors_[l] # <<>>
    /\ draining' = [draining EXCEPT ![l] = TRUE]
    /\ functions' = [functions EXCEPT ![l] = pendingFunctors_[l]]
    /\ pendingFunctors_' = [pendingFunctors_ EXCEPT ![l] = <<>>]
    /\ UNCHANGED <<serverVars, connections_, connVars, dropped, peer, userVars,
                   historyVars, fault>>

\* The next functor of the batch is f; what it carries goes with the batch.
Run(l, f) ==
    /\ draining[l] /\ functions[l] # <<>>
    /\ f = Head(functions[l])
    /\ functions' = [functions EXCEPT ![l] = Tail(@)]
    /\ dropped' = [dropped EXCEPT ![l] = @ \cup Carried(<<f>>)]
    /\ UNCHANGED <<draining, fd, loop_, peer, userVars, historyVars>>

RunListen ==
    /\ Run(base, Bind("listen", nobody))
    /\ IF server = "running" THEN Listen
       ELSE fault' = "listen" /\ UNCHANGED <<listenning_, accepting>>
    /\ UNCHANGED <<server, ioLoops, started_, acceptFd, connections_, state_,
                   registered, pendingFunctors_>>

RunConnectEstablished(l, c) ==
    /\ Run(l, Bind("connectEstablished", c))
    /\ ConnectEstablished(c, fd[c], l)
    /\ UNCHANGED <<serverVars, connections_, pendingFunctors_>>

RunRemoveConnection(c) ==
    /\ Run(base, Bind("removeConnectionInLoop", c))
    /\ IF server = "running" THEN RemoveConnectionInLoop(c)
       ELSE /\ fault' = "removeConnectionInLoop"
            /\ UNCHANGED <<connections_, pendingFunctors_>>
    /\ UNCHANGED <<serverVars, state_, registered>>

\* connectDestroyed: the channel leaves the poller.
RunConnectDestroyed(l, c) ==
    /\ Run(l, Bind("connectDestroyed", c))
    /\ state_' = [state_ EXCEPT ![c] = "kDisconnected"]
    /\ registered' = [registered EXCEPT ![c] = "removed"]
    /\ Check(state_[c] = "kConnected", "connectDestroyed")
    /\ UNCHANGED <<serverVars, connections_, pendingFunctors_>>

\* sendInLoop, on a connection that may not exist any more; write() takes the
\* whole message or less.
RunSend(l, c) ==
    /\ Run(l, Bind("sendInLoop", c))
    /\ Check(Alive(c), "sendInLoop")
    /\ \/ Alive(c) /\ Push(l, Bind("writeCompleteCallback_", c))
       \/ UNCHANGED pendingFunctors_
    /\ UNCHANGED <<serverVars, connections_, state_, registered>>

\* A user's callback, which a copy of the reference is passed to.
RunWriteComplete(l, c) ==
    /\ Run(l, Bind("writeCompleteCallback_", c))
    /\ UNCHANGED <<serverVars, connections_, state_, registered,
                   pendingFunctors_, fault>>

\* The vector functions, and what is left of the references in it, is dropped.
EndDrain(l) ==
    /\ draining[l] /\ functions[l] = <<>>
    /\ draining' = [draining EXCEPT ![l] = FALSE]
    /\ dropped' = [dropped EXCEPT ![l] = {}]
    /\ UNCHANGED <<serverVars, connections_, connVars, pendingFunctors_,
                   functions, peer, userVars, historyVars, fault>>

-----------------------------------------------------------------------------
(***************************************************************************)
(* User threads and peers.                                                 *)
(***************************************************************************)

SendCheck(t) ==
    /\ holds[t] # nobody /\ ~calling[t]
    /\ state_[holds[t]] = "kConnected"
    /\ calling' = [calling EXCEPT ![t] = TRUE]
    /\ UNCHANGED <<serverVars, connections_, connVars, loopVars, peer, openMax, holds,
                   historyVars, fault>>

SendQueue(t) ==
    LET c == holds[t]
    IN  /\ calling[t]
        /\ Len(pendingFunctors_[loop_[c]]) < MaxPending
        /\ Push(loop_[c], Bind("sendInLoop", c))
        /\ Check(loop_[c] = base \/ server # "gone", "queueInLoop")
        /\ calling' = [calling EXCEPT ![t] = FALSE]
        /\ UNCHANGED <<serverVars, connections_, connVars, functions, draining,
                       dropped, peer, openMax, holds, historyVars>>

DropReference(t) ==
    /\ holds[t] # nobody /\ ~calling[t]
    /\ holds' = [holds EXCEPT ![t] = nobody]
    /\ UNCHANGED <<serverVars, connections_, connVars, loopVars, peer, openMax, calling,
                   historyVars, fault>>

PeerConnects(c) ==
    /\ peer[c] = "away" /\ listenning_ /\ server # "gone" /\ NewTraffic
    /\ \A d \in Conn : d < c => peer[d] # "away"
    /\ peer' = [peer EXCEPT ![c] = "backlog"]
    /\ UNCHANGED <<serverVars, connections_, connVars, loopVars, userVars,
                   historyVars, fault>>

PeerCloses(c) ==
    /\ peer[c] = "open"
    /\ peer' = [peer EXCEPT ![c] = "closed"]
    /\ UNCHANGED <<serverVars, connections_, connVars, loopVars, userVars,
                   historyVars, fault>>

-----------------------------------------------------------------------------
(***************************************************************************)
(* The end of a server, in the base loop's thread, and another one.        *)
(***************************************************************************)

\* ~TcpServer has nothing to do of its own: the members go, connections_ first.
DestroyConnections ==
    /\ server = "running" /\ ~draining[base]
    /\ server' = "destroying"
    /\ connections_' = {}
    /\ destroyed' = TRUE
    /\ UNCHANGED <<ioLoops, started_, listenning_, acceptFd, accepting, connVars,
                   loopVars, peer, userVars, stale, fault>>

\* Then threadPool_, with the loops and what they had pending, and acceptor_,
\* which closes its socket.  Peers that wait in its backlog are reset.
DestroyRest ==
    /\ server = "destroying"
    /\ \A l \in ioLoops : ~draining[l]
    /\ server' = "gone"
    /\ pendingFunctors_' = [l \in Loop |->
           IF l \in ioLoops THEN <<>> ELSE pendingFunctors_[l]]
    /\ registered' = [c \in Conn |->
           IF loop_[c] \in ioLoops THEN "removed" ELSE registered[c]]
    /\ stale' = IF accepting THEN stale \cup {acceptFd} ELSE stale
    /\ accepting' = FALSE
    /\ peer' = [c \in Conn |-> IF peer[c] = "backlog" THEN "gone" ELSE peer[c]]
    /\ UNCHANGED <<ioLoops, started_, listenning_, acceptFd, connections_, fd,
                   loop_, state_, functions, draining, dropped, userVars,
                   destroyed, fault>>

\* Another TcpServer is constructed for the base loop.  That is not done while
\* functors of the old one are waiting: they would call it.
NewServer ==
    /\ server = "gone" /\ FreeFds # {}
    /\ pendingFunctors_[base] = <<>> /\ ~draining[base]
    /\ server' = "running"
    /\ started_' = FALSE /\ listenning_' = FALSE
    /\ acceptFd' = LowestFreeFd
    /\ UNCHANGED <<ioLoops, accepting, connections_, connVars, loopVars, peer,
                   userVars, historyVars, fault>>

-----------------------------------------------------------------------------
LoopStep(l) ==
    \/ BeginDrain(l) \/ EndDrain(l)
    \/ \E c \in Conn :
           \/ loop_[c] = l /\ HandleClose(c)
           \/ RunConnectEstablished(l, c) \/ RunConnectDestroyed(l, c)
           \/ RunSend(l, c) \/ RunWriteComplete(l, c)
           \/ l = base /\ RunRemoveConnection(c)
    \/ l = base /\ RunListen

UserStep(t) ==
    \/ SendCheck(t) \/ SendQueue(t) \/ DropReference(t)
    \/ \E c \in Conn : TakeReference(t, c)

\* A fault ends the process, or might as well.
Next ==
    \/ /\ fault = "no"
       /\ \/ Start \/ StartElsewhere \/ AcceptFails
          \/ \E c \in Conn : Accept(c) \/ AcceptAborted(c)
          \/ \E l \in Loop : LoopStep(l) \/ PollDangling(l)
          \/ \E t \in Thread : UserStep(t)
          \/ \E c \in Conn : WriteCompletes(c) \/ PeerConnects(c) \/ PeerCloses(c)
          \/ DestroyConnections \/ DestroyRest \/ NewServer
    \/ fault # "no" /\ UNCHANGED vars

Spec == Init /\ [][Next]_vars

\* Every loop runs, poll() reports a socket that is ready, and a thread in
\* send() returns.  poll() reports the listening socket each time round, so an
\* accept() that is possible again and again is made.
FairSpec ==
    /\ Spec
    /\ \A l \in Loop : WF_vars(fault = "no" /\ LoopStep(l))
    /\ \A l \in Loop : SF_vars(fault = "no" /\ Polling(l)
                               /\ \E c \in Conn : loop_[c] = l /\ HandleClose(c))
    /\ SF_vars(fault = "no" /\ \E c \in Conn : Accept(c))
    /\ \A t \in Thread : WF_vars(fault = "no" /\ SendQueue(t))

-----------------------------------------------------------------------------
(***************************************************************************)
(* Properties.                                                             *)
(***************************************************************************)

TypeOK ==
    /\ server \in {"running", "destroying", "gone"}
    /\ ioLoops \subseteq IoLoop
    /\ started_ \in BOOLEAN /\ listenning_ \in BOOLEAN /\ accepting \in BOOLEAN
    /\ acceptFd \in Fd
    /\ connections_ \subseteq {c \in Conn : fd[c] \in Fd}
    /\ fd \in [Conn -> Fd \cup {-1}] /\ loop_ \in [Conn -> Loop]
    /\ state_ \in [Conn -> {"kConnecting", "kConnected", "kDisconnected"}]
    /\ registered \in [Conn -> {"no", "yes", "ignored", "removed"}]
    /\ pendingFunctors_ \in [Loop -> Seq(Functor)]
    /\ functions \in [Loop -> Seq(Functor)]
    /\ draining \in [Loop -> BOOLEAN] /\ dropped \in [Loop -> SUBSET Conn]
    /\ openMax \in 2 .. MaxOpen
    /\ peer \in [Conn -> {"away", "backlog", "open", "closed", "gone"}]
    /\ holds \in [Thread -> Conn \cup {nobody}] /\ calling \in [Thread -> BOOLEAN]
    /\ stale \subseteq Fd /\ destroyed \in BOOLEAN

\* As long as the server exists, no handler and no functor runs on a connection
\* that is gone, no poller keeps a descriptor that was closed, so none is taken
\* for the next connection to get its number, and no assertion of a
\* connection's life fails.  The functors of send() are the exception: they do
\* not keep the connection that they are to run on.
TouchesTheLiving == destroyed \/ fault \in {"no", "sendInLoop"}

\* Every connection goes through the stages of ConnectionLife, one after the other,
\* while functors that lead from one to the next travel between the loops.
LifeStage(c) ==
    CASE registered[c] = "no" -> IF c \in connections_ THEN "made" ELSE "none"
      [] registered[c] = "yes" -> "open"
      [] registered[c] = "ignored" -> IF c \in connections_ THEN "closing" ELSE "leaving"
      [] registered[c] = "removed" -> "over"
ImplementsConnectionLife == INSTANCE ConnectionLife
    WITH stage <- [c \in Conn |-> LifeStage(c)],
         broken <- destroyed \/ fault # "no"
LifeSpec == ImplementsConnectionLife!Spec

\* A connection whose peer has closed is destroyed in the end, and its
\* descriptor closed, unless a user keeps a reference.
Released ==
    \A c \in Conn :
        peer[c] = "closed" ~>
            ~Alive(c) \/ destroyed \/ fault # "no" \/ \E t \in Thread : holds[t] = c

\* A peer that waits is served in the end, if descriptors become free again and
\* again: a failed accept() loses neither the peer nor the readiness.
Served ==
    []<>(FreeFds # {}) =>
        \A c \in Conn :
            peer[c] = "backlog" ~> peer[c] # "backlog" \/ destroyed \/ fault # "no"

\* Poller.cc:45 asserts that a channel is added under a descriptor that the
\* poller does not know.
DescriptorIsNew == fault # "updateChannel"
=============================================================================
