--------------------------- MODULE TcpConnection ----------------------------
(***************************************************************************)
(* mtnet::TcpConnection: one connection of a TcpServer from newConnection  *)
(* to connectDestroyed, with its channel, its buffer of bytes to send, the *)
(* loop it belongs to, the server's base loop, which may be the same one,  *)
(* the threads that use the connection, and the peer.                      *)
(*                                                                         *)
(* The connection's loop runs what Executor promises: pending functors in  *)
(* the order in which they were queued.  An iteration of it is a poll, the *)
(* channel's callbacks, and the batch of functors that are pending then.   *)
(* The channel is what WatchList says: once disabled, it stays ignored.    *)
(*                                                                         *)
(* The users hold references to the connection for as long as they use it: *)
(* the object's lifetime is not modelled.                                  *)
(***************************************************************************)
EXTENDS Naturals, Sequences, Functions, FiniteSets

CONSTANTS
    Thread,       \* user threads other than the two loops'
    Message,      \* the messages: each is sent once
    Size          \* bytes in a message

\* A functor that carries a message is none of the others.
ASSUME ConstantsAssumption ==
    /\ Size \in Nat \ {0}
    /\ \A m \in Message : m \notin {"connectEstablished", "connectDestroyed",
                                   "shutdownInLoop", "writeComplete"}

VARIABLES
    state_,
    events_,          \* what channel_ wants: a subset of {"read", "write"}
    registered,       \* channel_ in the poller: "no", "yes", "ignored", "removed"
    outputBuffer_,
    sameLoop,         \* is the connection's loop the server's base loop?
    phase,            \* of the loop: "poll", "dispatch", "functors"
    callbacks,        \* those of channel_ that handelEvent has still to call
    pendingFunctors_, \* of the loop, and the batch it is running
    batch,            \* how many functors of the batch are left
    connections_,     \* is the connection in the server's map?
    removals,         \* removeConnectionInLoop, pending in the base loop
    caller,           \* where each thread is in send() or shutdown()
    aborted,          \* the assertion that has failed, if any
    \* the kernel and the peer
    wire,             \* the bytes written to the socket
    finSent,          \* shutdownWrite has been called
    peer,             \* "open", "closed" (FIN received), "reset"
    soError,          \* the socket has an error to report
    \* history
    unsent,           \* the messages no one has sent
    accepted          \* the bytes given to sendInLoop, in that order

loopVars == <<phase, callbacks, pendingFunctors_, batch>>
connVars == <<state_, events_, registered, outputBuffer_>>
serverVars == <<sameLoop, connections_, removals>>
netVars == <<wire, finSent, peer, soError>>
vars == <<loopVars, connVars, serverVars, netVars, caller, aborted, unsent,
          accepted>>

Bytes(m) == [k \in 1 .. Size |-> <<m, k>>]

Functor == {"connectEstablished", "connectDestroyed", "shutdownInLoop",
            "writeComplete"} \cup Message

\* newConnection, in the Acceptor's handler, has put the connection in the map
\* and handed connectEstablished to the connection's loop, which has run it at
\* once if it is the base loop.
Init ==
    /\ outputBuffer_ = <<>>
    /\ sameLoop \in BOOLEAN
    /\ IF sameLoop
       THEN /\ state_ = "kConnected" /\ events_ = {"read"} /\ registered = "yes"
            /\ phase = "dispatch" /\ pendingFunctors_ = <<>>
       ELSE /\ state_ = "kConnecting" /\ events_ = {} /\ registered = "no"
            /\ phase = "poll" /\ pendingFunctors_ = <<"connectEstablished">>
    /\ callbacks = <<>> /\ batch = 0
    /\ connections_ = TRUE /\ removals = 0
    /\ caller = [t \in Thread |-> "idle"]
    /\ aborted = "no"
    /\ wire = <<>> /\ finSent = FALSE /\ peer = "open" /\ soError = FALSE
    /\ unsent = Message /\ accepted = <<>>

-----------------------------------------------------------------------------
(***************************************************************************)
(* The pieces that several handlers share.  Each says what happens to the  *)
(* variables in its comment.                                               *)
(***************************************************************************)

isWriting == "write" \in events_

\* What a write() of n bytes can return, failures counting as 0: the peer's
\* window decides, until the connection is reset or closed for writing.
Written(n) == IF finSent \/ peer = "reset" THEN {0} ELSE 0 .. n

\* shutdownInLoop: finSent.
ShutdownInLoopMutant == finSent' = TRUE
ShutdownInLoop == finSent' = (finSent \/ ~isWriting)

\* sendInLoop tries to write at once unless older bytes wait.
DirectWriteMutant == Written(Size)
DirectWrite == IF ~isWriting /\ outputBuffer_ = <<>> THEN Written(Size) ELSE {0}

\* The functors fs, with the write-complete callback when all was written.
NotifyMutant(all, fs) == Append(fs, "writeComplete")
Notify(all, fs) == IF all THEN Append(fs, "writeComplete") ELSE fs

\* sendInLoop: events_, outputBuffer_, wire, accepted, aborted and the functors,
\* which are fs before.  It keeps what was not written and asks to be told when
\* there is room for more.  The poller asserts that a channel that is updated
\* is in its map.
SendInLoop(m, fs) ==
    \E n \in DirectWrite :
        /\ wire' = wire \o SubSeq(Bytes(m), 1, n)
        /\ outputBuffer_' = outputBuffer_ \o SubSeq(Bytes(m), n + 1, Size)
        /\ events_' = IF n < Size THEN events_ \cup {"write"} ELSE events_
        /\ aborted' = IF n < Size /\ ~isWriting /\ registered = "removed"
                      THEN "updateChannel" ELSE aborted
        /\ pendingFunctors_' = Notify(n = Size, fs)
        /\ accepted' = accepted \o Bytes(m)

\* TcpServer::removeConnectionInLoop, in the base loop: connections_, aborted
\* and the functors.
RemoveConnectionInLoopMutant ==
    /\ connections_' = FALSE
    /\ aborted' = IF connections_ THEN aborted ELSE "removeConnectionInLoop"
    /\ UNCHANGED pendingFunctors_
RemoveConnectionInLoop ==
    /\ connections_' = FALSE
    /\ aborted' = IF connections_ THEN aborted ELSE "removeConnectionInLoop"
    /\ pendingFunctors_' = Append(pendingFunctors_, "connectDestroyed")

\* Channel::disableAll on a channel that is in the poller: events_, registered.
DisableMutant == UNCHANGED <<events_, registered>>
Disable == events_' = {} /\ registered' = "ignored"

\* handleClose: disableAll and, through closeCallback_ and TcpServer's
\* removeConnection, either of the two ways to removeConnectionInLoop.
Close ==
    /\ Disable
    /\ IF state_ \notin {"kConnected", "kDisconnecting"}
       THEN /\ aborted' = "handleClose"
            /\ UNCHANGED <<connections_, removals, pendingFunctors_>>
       ELSE IF sameLoop THEN RemoveConnectionInLoop /\ UNCHANGED removals
       ELSE removals' = removals + 1
            /\ UNCHANGED <<connections_, aborted, pendingFunctors_>>

-----------------------------------------------------------------------------
(***************************************************************************)
(* User threads: send and shutdown look at state_, which is not theirs,    *)
(* and queue their second half.                                            *)
(***************************************************************************)

CallerAt(t, from, to) ==
    /\ caller[t] = from
    /\ caller' = [caller EXCEPT ![t] = to]

SendCheck(t) ==
    /\ CallerAt(t, "idle", "send")
    /\ state_ = "kConnected"
    /\ unsent # {}
    /\ UNCHANGED <<loopVars, connVars, serverVars, netVars, aborted, unsent,
                   accepted>>

SendQueue(t, m) ==
    /\ CallerAt(t, "send", "idle")
    /\ pendingFunctors_' = Append(pendingFunctors_, m)
    /\ unsent' = unsent \ {m}
    /\ UNCHANGED <<phase, callbacks, batch, connVars, serverVars, netVars,
                   aborted, accepted>>

ShutdownCheck(t) ==
    /\ CallerAt(t, "idle", "setState")
    /\ state_ = "kConnected"
    /\ UNCHANGED <<loopVars, connVars, serverVars, netVars, aborted, unsent,
                   accepted>>

ShutdownSetState(t) ==
    /\ CallerAt(t, "setState", "queue")
    /\ state_' = "kDisconnecting"
    /\ UNCHANGED <<loopVars, events_, registered, outputBuffer_, serverVars,
                   netVars, aborted, unsent, accepted>>

ShutdownQueue(t) ==
    /\ CallerAt(t, "queue", "idle")
    /\ pendingFunctors_' = Append(pendingFunctors_, "shutdownInLoop")
    /\ UNCHANGED <<phase, callbacks, batch, connVars, serverVars, netVars,
                   aborted, unsent, accepted>>

\* A call whose check passed comes to its end.
UserStep(t) ==
    \/ ShutdownSetState(t) \/ ShutdownQueue(t)
    \/ \E m \in unsent : SendQueue(t, m)

User(t) == SendCheck(t) \/ ShutdownCheck(t) \/ UserStep(t)

\* The same calls from the loop's own thread, in any callback it runs, are
\* carried out at once.
SendFromLoop(m) ==
    /\ phase \in {"dispatch", "functors"}
    /\ state_ = "kConnected"
    /\ SendInLoop(m, pendingFunctors_)
    /\ unsent' = unsent \ {m}
    /\ UNCHANGED <<phase, callbacks, batch, state_, registered, serverVars,
                   finSent, peer, soError, caller>>

ShutdownFromLoop ==
    /\ phase \in {"dispatch", "functors"}
    /\ state_ = "kConnected"
    /\ state_' = "kDisconnecting"
    /\ ShutdownInLoop
    /\ UNCHANGED <<loopVars, events_, registered, outputBuffer_, serverVars,
                   wire, peer, soError, caller, aborted, unsent, accepted>>

-----------------------------------------------------------------------------
(***************************************************************************)
(* The loop: poll, then Channel::handelEvent.                              *)
(***************************************************************************)

\* What poll() may report of the socket: r, whether there is something to read
\* (data, the peer's FIN), and w, room to write, if it was asked for.  A reset
\* is a hang-up, and may be reported with something to read or without.
Revents(r, w) ==
    {e \in {"ERR", "HUP", "IN", "OUT"} :
        \/ e = "ERR" /\ soError
        \/ e = "HUP" /\ (peer = "reset" \/ (peer = "closed" /\ finSent))
        \/ e = "IN" /\ r /\ "read" \in events_
        \/ e = "OUT" /\ w /\ isWriting}

\* handelEvent's order.
Callbacks(revents) ==
    (IF "ERR" \in revents THEN <<"error">> ELSE <<>>)
    \o (IF "HUP" \in revents /\ "IN" \notin revents THEN <<"close">> ELSE <<>>)
    \o (IF "IN" \in revents THEN <<"read">> ELSE <<>>)
    \o (IF "OUT" \in revents THEN <<"write">> ELSE <<>>)

Poll(r, w) ==
    /\ phase = "poll"
    /\ peer = "closed" => r
    /\ phase' = "dispatch"
    /\ callbacks' = IF registered = "yes" THEN Callbacks(Revents(r, w)) ELSE <<>>
    /\ UNCHANGED <<pendingFunctors_, batch, connVars, serverVars, netVars,
                   caller, aborted, unsent, accepted>>

Callback(name) ==
    /\ phase = "dispatch"
    /\ callbacks # <<>> /\ Head(callbacks) = name
    /\ callbacks' = Tail(callbacks)
    /\ UNCHANGED <<phase, batch, state_, sameLoop, caller, unsent, accepted>>

\* handleError reads, and so clears, the socket's error.
HandleError ==
    /\ Callback("error")
    /\ soError' = FALSE
    /\ UNCHANGED <<pendingFunctors_, events_, registered, outputBuffer_,
                   connections_, removals, wire, finSent, peer, aborted>>

HandleClose ==
    /\ Callback("close")
    /\ Close
    /\ UNCHANGED <<outputBuffer_, netVars>>

\* handleRead: the socket's error (handleError), data, or the end.
HandleReadError ==
    /\ Callback("read")
    /\ soError
    /\ soError' = FALSE
    /\ UNCHANGED <<pendingFunctors_, events_, registered, outputBuffer_,
                   connections_, removals, wire, finSent, peer, aborted>>
HandleReadData ==
    /\ Callback("read")
    /\ ~soError /\ peer = "open"
    /\ UNCHANGED <<pendingFunctors_, events_, registered, outputBuffer_,
                   connections_, removals, netVars, aborted>>
HandleReadEnd ==
    /\ Callback("read")
    /\ ~soError /\ peer # "open"
    /\ Close
    /\ UNCHANGED <<outputBuffer_, netVars>>

\* What handleWrite does when the last byte is written: events_, finSent and
\* the functors.
AllWrittenNoDisable ==
    /\ pendingFunctors_' = Notify(TRUE, pendingFunctors_)
    /\ finSent' = (finSent \/ state_ = "kDisconnecting")
    /\ UNCHANGED events_
AllWrittenNoShutdown ==
    /\ events_' = events_ \ {"write"}
    /\ pendingFunctors_' = Notify(TRUE, pendingFunctors_)
    /\ UNCHANGED finSent
AllWritten ==
    /\ events_' = events_ \ {"write"}
    /\ pendingFunctors_' = Notify(TRUE, pendingFunctors_)
    /\ finSent' = (finSent \/ state_ = "kDisconnecting")

\* handleWrite, when write() takes n bytes.
HandleWrite(n) ==
    /\ Callback("write")
    /\ isWriting
    /\ n \in Written(Len(outputBuffer_))
    /\ wire' = wire \o SubSeq(outputBuffer_, 1, n)
    /\ outputBuffer_' = SubSeq(outputBuffer_, n + 1, Len(outputBuffer_))
    /\ IF n > 0 /\ outputBuffer_' = <<>> THEN AllWritten
       ELSE UNCHANGED <<events_, finSent, pendingFunctors_>>
    /\ UNCHANGED <<registered, connections_, removals, peer, soError, aborted>>

\* The channel was disabled by the callback before: "no more writing".
HandleWriteDown ==
    /\ Callback("write")
    /\ ~isWriting
    /\ UNCHANGED <<pendingFunctors_, events_, registered, outputBuffer_,
                   connections_, removals, netVars, aborted>>

-----------------------------------------------------------------------------
(***************************************************************************)
(* The loop: doPendingFunctors.                                            *)
(***************************************************************************)

BeginDrain ==
    /\ phase = "dispatch"
    /\ callbacks = <<>>
    /\ phase' = "functors"
    /\ batch' = Len(pendingFunctors_)
    /\ UNCHANGED <<callbacks, pendingFunctors_, connVars, serverVars, netVars,
                   caller, aborted, unsent, accepted>>

RunFunctorMutant(f) ==
    /\ phase = "functors"
    /\ batch > 0 /\ Head(pendingFunctors_) = f
    /\ UNCHANGED <<phase, callbacks, batch, sameLoop, removals, connections_,
                   peer, soError, caller, unsent>>
RunFunctor(f) ==
    /\ phase = "functors"
    /\ batch > 0 /\ Head(pendingFunctors_) = f
    /\ batch' = batch - 1
    /\ UNCHANGED <<phase, callbacks, sameLoop, removals, connections_, peer,
                   soError, caller, unsent>>

ConnectEstablished ==
    /\ RunFunctor("connectEstablished")
    /\ pendingFunctors_' = Tail(pendingFunctors_)
    /\ aborted' = IF state_ = "kConnecting" THEN aborted ELSE "connectEstablished"
    /\ state_' = "kConnected"
    /\ events_' = {"read"}
    /\ registered' = "yes"
    /\ UNCHANGED <<outputBuffer_, wire, finSent, accepted>>

ConnectDestroyed ==
    /\ RunFunctor("connectDestroyed")
    /\ pendingFunctors_' = Tail(pendingFunctors_)
    /\ aborted' = IF state_ \in {"kConnected", "kDisconnecting"} THEN aborted
                  ELSE "connectDestroyed"
    /\ state_' = "kDisconnected"
    /\ events_' = {}
    /\ registered' = "removed"
    /\ UNCHANGED <<outputBuffer_, wire, finSent, accepted>>

SendFunctor(m) ==
    /\ RunFunctor(m)
    /\ SendInLoop(m, Tail(pendingFunctors_))
    /\ UNCHANGED <<state_, registered, finSent>>

ShutdownFunctor ==
    /\ RunFunctor("shutdownInLoop")
    /\ pendingFunctors_' = Tail(pendingFunctors_)
    /\ ShutdownInLoop
    /\ UNCHANGED <<connVars, wire, aborted, accepted>>

WriteComplete ==
    /\ RunFunctor("writeComplete")
    /\ pendingFunctors_' = Tail(pendingFunctors_)
    /\ UNCHANGED <<connVars, wire, finSent, aborted, accepted>>

\* The batch has been run: loop() goes round.
EndDrain ==
    /\ phase = "functors"
    /\ batch = 0
    /\ phase' = "poll"
    /\ UNCHANGED <<callbacks, pendingFunctors_, batch, connVars, serverVars,
                   netVars, caller, aborted, unsent, accepted>>

-----------------------------------------------------------------------------
(***************************************************************************)
(* The base loop, when it is another one, and the peer.                    *)
(***************************************************************************)

RemoveFunctor ==
    /\ removals > 0
    /\ removals' = removals - 1
    /\ RemoveConnectionInLoop
    /\ UNCHANGED <<phase, callbacks, batch, connVars, sameLoop, netVars, caller,
                   unsent, accepted>>

PeerCloses ==
    /\ peer = "open"
    /\ peer' = "closed"
    /\ UNCHANGED <<loopVars, connVars, serverVars, wire, finSent, soError,
                   caller, aborted, unsent, accepted>>

PeerResets ==
    /\ peer # "reset"
    /\ peer' = "reset"
    /\ soError' = TRUE
    /\ UNCHANGED <<loopVars, connVars, serverVars, wire, finSent, caller,
                   aborted, unsent, accepted>>

-----------------------------------------------------------------------------
\* handleWrite gets rid of some bytes, or finds that there is nothing to do.
WriteStep ==
    \/ HandleWriteDown
    \/ \E n \in 1 .. Len(outputBuffer_) : HandleWrite(n)

LoopStep ==
    \/ \E r, w \in BOOLEAN : Poll(r, w)
    \/ HandleError \/ HandleClose
    \/ HandleReadError \/ HandleReadData \/ HandleReadEnd
    \/ HandleWrite(0) \/ WriteStep
    \/ BeginDrain \/ EndDrain
    \/ ConnectEstablished \/ ConnectDestroyed \/ ShutdownFunctor \/ WriteComplete
    \/ \E m \in Message : SendFunctor(m)

\* A failed assertion ends the process.
Next ==
    \/ /\ aborted = "no"
       /\ \/ LoopStep \/ RemoveFunctor
          \/ PeerCloses \/ PeerResets
          \/ ShutdownFromLoop \/ \E m \in unsent : SendFromLoop(m)
          \/ \E t \in Thread : User(t)
    \/ aborted # "no" /\ UNCHANGED vars

Spec == Init /\ [][Next]_vars

Alive(A) == aborted = "no" /\ A

\* The two loops run, and a thread that has begun a call ends it.  poll()
\* reports again and again that the socket can be written, and write() then
\* takes something again and again, as long as they can: the peer reads.
FairSpec ==
    /\ Spec
    /\ WF_vars(Alive(LoopStep)) /\ WF_vars(Alive(RemoveFunctor))
    /\ \A t \in Thread : WF_vars(Alive(UserStep(t)))
    /\ SF_vars(Alive(\E r \in BOOLEAN : Poll(r, TRUE)))
    /\ SF_vars(Alive(WriteStep))

-----------------------------------------------------------------------------
(***************************************************************************)
(* Properties.                                                             *)
(***************************************************************************)

Byte == Message \X (1 .. Size)

TypeOK ==
    /\ state_ \in {"kConnecting", "kConnected", "kDisconnecting",
                   "kDisconnected"}
    /\ events_ \in SUBSET {"read", "write"}
    /\ registered \in {"no", "yes", "ignored", "removed"}
    /\ outputBuffer_ \in Seq(Byte)
    /\ sameLoop \in BOOLEAN /\ connections_ \in BOOLEAN
    /\ phase \in {"poll", "dispatch", "functors"}
    /\ callbacks \in Seq({"error", "close", "read", "write"})
    /\ pendingFunctors_ \in Seq(Functor)
    /\ batch \in 0 .. Len(pendingFunctors_)
    /\ batch > 0 => phase = "functors"
    /\ removals \in Nat
    /\ caller \in [Thread -> {"idle", "send", "setState", "queue"}]
    /\ aborted \in {"no", "updateChannel", "handleClose", "connectEstablished",
                    "connectDestroyed", "removeConnectionInLoop"}
    /\ wire \in Seq(Byte) /\ accepted \in Seq(Byte)
    /\ finSent \in BOOLEAN /\ soError \in BOOLEAN
    /\ peer \in {"open", "closed", "reset"}
    /\ unsent \subseteq Message

\* What the peer gets, and what waits in outputBuffer_, is what was given to
\* sendInLoop: no byte is lost, doubled or overtaken by a later message,
\* whatever write() takes of each message and whoever sends it.
StreamIntact == wire \o outputBuffer_ = accepted

\* While the channel is polled, it asks for POLLOUT when bytes wait, or they
\* would stay, and only then, or the loop would spin.
WritingMatchesData ==
    registered = "yes" => (isWriting <=> outputBuffer_ # <<>>)

\* A connection is taken out of the server and destroyed once, by whichever
\* loop and however its end was noticed: of the assertions in the connection's
\* life only updateChannel's can fail.  See ChannelIsKnown.
RemovedOnce == aborted \in {"no", "updateChannel"}

\* The connection goes through the stages of ConnectionLife, one after the other,
\* whoever sends, shuts down or goes away meanwhile.
LifeStage ==
    CASE registered = "no" -> "made"
      [] registered = "yes" -> "open"
      [] registered = "ignored" -> IF connections_ THEN "closing" ELSE "leaving"
      [] registered = "removed" -> "over"
ImplementsConnectionLife == INSTANCE ConnectionLife
    WITH Conn <- {"the connection"},
         stage <- [c \in {"the connection"} |-> LifeStage],
         broken <- aborted # "no"
LifeSpec == ImplementsConnectionLife!Spec

\* A channel that is registered belongs to a connection that is owned, by the
\* server's map or by the functor on the way to destroy it.
RegisteredIsOwned ==
    registered \in {"yes", "ignored"} =>
        \/ connections_
        \/ "connectDestroyed" \in Range(pendingFunctors_)

\* shutdown() half-closes the connection only when nothing that was given to
\* sendInLoop before is waiting, unless the connection is down.
FinAfterData ==
    [][~finSent /\ finSent' /\ registered = "yes" => outputBuffer_' = <<>>]_vars

\* TcpConnection.h:114: the write-complete callback is called after all the
\* data has been sent.  It is queued at a moment when nothing waits.
Completions(functors) ==
    Cardinality({i \in DOMAIN functors : functors[i] = "writeComplete"})
CompleteWhenEmpty ==
    [][Completions(pendingFunctors_') > Completions(pendingFunctors_)
       => outputBuffer_' = <<>>]_vars

\* When the peer closes or resets the connection, it is destroyed in the end.
PeerCloseIsHandled ==
    registered = "yes" /\ peer # "open"
        ~> registered = "removed" \/ aborted # "no"

\* shutdown() half-closes the connection in the end, if the peer reads what is
\* still to be sent and does not end the connection itself.
ShutdownIsDone ==
    state_ = "kDisconnecting" ~> finSent \/ peer # "open" \/ aborted # "no"

\* Poller.cc:57 asserts that a channel that is updated, and is not new, is in
\* the poller's map.
ChannelIsKnown == aborted # "updateChannel"
=============================================================================
