# A formal model of mtnet

mtnet is a C++ network library of the reactor kind: one event loop per thread,
a pool of threads, TCP servers and connections on top. This directory holds
TLA+ modules translated from its source, TLC configurations that check them on
small instances, and proofs, checked by TLAPS, that hold for every instance.
Line numbers refer to the files under `src/` beside this directory.

## 1. The system

| part | state it keeps | operations | talks to |
|---|---|---|---|
| `EventLoop` | `looping_`, `quit_`, `calllingPendingFunctors_`, `pendingFunctors_` (under `mutex_`), `activeChannels_`, the eventfd `wakeupFd_` | `loop`, `quit`, `runInLoop`, `queueInLoop`, `wakeup`, `doPendingFunctors`, `runAt/After/Every`, `update/removeChannel` | its `Poller` and `TimerQueue`; any thread may call `quit`, `runInLoop`, `queueInLoop`, the timer calls |
| `Poller`, `Channel` | `pollfds_` (array given to poll(2)), `channels_` (fd to channel); per channel `events_`, `revents_`, `index_` | `updateChannel`, `removeChannel`, `poll`; `enable*/disable*`, `handelEvent` | the loop's thread only; a channel calls its owner's callbacks |
| `EventLoopThread`, `EventLoopThreadPool` | `loop_` under `mutex_`/`cond_`, the thread; `loops_`, `next_` | `startLoop`, `threadFunc`, the destructor; `start`, `getNextLoop` | the loop on the thread's stack |
| `TcpConnection` | `state_`, its channel and socket, `inputBuffer_`, `outputBuffer_` | `send`, `shutdown` from any thread; `sendInLoop`, `shutdownInLoop`, `connectEstablished`, `connectDestroyed`, `handleRead/Write/Close/Error` in the loop | the server's `closeCallback_`, the user's callbacks |
| `TcpServer`, `Acceptor` | `connections_`, `nextConnId_`, `started_`; `listenning_` | `start`, `newConnection`, `removeConnection`, `removeConnectionInLoop`; `listen`, `handleRead` | the base loop, the pool, the connections' loops |
| `TimerQueue`, `Timer` | `timers_` (ordered by expiration), `timerfd_` | `addTimer`, `addTimerInloop`, `handleRead`, `getExpired`, `reset`, `insert` | the loop, the two clocks |
| `Buffer` | `buffer_`, `readerIndex_`, `writeIndex_` | `append`, `retrieve*`, `prepend`, `shrink`, `readFd`, `makeSpace` | its connection |
| `Socket`, `SocketsOps`, `InetAddress` | a descriptor, an address | system calls | the kernel |
| `base/`: `Thread`, `Mutex`, `Condition`, `Atomic`, `Timestamp`, `Logging` | – | – | – |

What is hard here, and what makes each part correct:

* **EventLoop**: functors arrive from any thread and from callbacks that the
  loop itself is running. Correct: nothing accepted while the loop runs waits
  for a poll timeout (ten seconds), functors run once and in order, `quit`
  takes effect, a functor that queues itself does not starve the channels.
* **Poller**: three structures that index each other, with a removal that moves
  another channel's entry and an encoding of ignored descriptors. Correct: they
  agree after any history, and the raw pointers in `activeChannels_` are valid.
* **EventLoopThread**: a handshake at birth, and a `quit` at death that may come
  before the loop has begun or after it has ended. Correct: `startLoop` returns
  a live loop, and destruction ends.
* **TcpConnection** and **TcpServer**: partial writes, `shutdown` while bytes
  wait, a peer that goes at any time, a removal that travels between two loops,
  users that test `state_` from their own threads. Correct: the byte stream is
  what was sent, FIN comes after it, the connection is removed once and is owned
  until it has left the poller.
* The **lifetime** of connections: a map, functors, batches of functors and
  users refer to a `TcpConnection`, and pollers know descriptors, which the
  process gives out again. Correct: nothing runs on an object that is gone, a
  closed connection's descriptor becomes free, and a full table of descriptors
  loses no peer.
* **TimerQueue**: callbacks and threads that add timers while others expire, raw
  pointers in three places in turn, a wall clock that may be set against a
  monotonic timerfd. Correct: a timer is run once, or once for each period,
  never early, in the order of times, and the timerfd is armed whenever one waits.
* **Buffer**: three regions in one vector, moved, grown and filled by `readv`.
  Correct: it is a queue of bytes.

## 2. Modules

| module | models | abstract specification it implements |
|---|---|---|
| `Executor` | what `queueInLoop` promises: first in, first out, once | – |
| `EventLoop` | `EventLoop.cc` | `Executor` (property `ExecutorSpec`) |
| `WatchList` | what `updateChannel` and `removeChannel` promise | – |
| `Poller` | `Poller.cc`, `Channel.h`, the loop's walk over `activeChannels_` | `WatchList` (property `WatchListSpec`) |
| `EventLoopThreadPool` | `EventLoopThread.cc`, `EventLoopThreadPool.cc`, `quit` and the start of `loop` | – |
| `ConnectionLife` | what `TcpServer` and `TcpConnection` promise of a connection's life: made, established, closed, removed, destroyed, in this order and once each | – |
| `TcpConnection` | `TcpConnection.cc`, `Channel::handelEvent`, `TcpServer.cc:50-84` for one connection, two loops, users and the peer | `ConnectionLife` (property `LifeSpec`); uses what `Executor` and `WatchList` say |
| `TcpServer` | `TcpServer.cc`, `Acceptor.cc`, who refers to a connection, which descriptors are open; several connections, loops and users, and the server's destruction | `ConnectionLife` (property `LifeSpec`); uses what `Executor` and `WatchList` say |
| `TimerService` | what `runAt`, `runAfter` and `runEvery` promise | – |
| `TimerQueue` | `TimerQueue.cc`, `Timer.h`, the timerfd, two clocks, the loop around them | `TimerService` (property `ServiceSpec`); uses what `Executor` says |
| `ByteQueue` | what the calls of a `Buffer` return and leave | – |
| `Buffer` | `Buffer.h`, `Buffer.cc` | `ByteQueue` (property `QueueSpec`) |
| `EventLoopProofs`, `PollerProofs`, `EventLoopThreadPoolProofs`, `TcpConnectionProofs`, `TcpServerProofs`, `TimerQueueProofs`, `BufferProofs` | theorems about the modules they are named for | |
| `QueueFacts` | lemmas about queues, for `TcpConnectionProofs` and `TcpServerProofs` | |
| `MC*` | names and values for TLC | |

Operators whose name ends in `Mutant` (or `GetNextLoopOverrun`,
`AllWrittenNoDisable`, `AllWrittenNoShutdown`) are not part of a specification:
each is the definition below it with a plausible bug, and shows that the
property it is listed with can fail.

### Correspondence with the code

* `EventLoop`: `pc` is where the loop's thread is in `loop()` and
  `doPendingFunctors()`. A call of another thread is two actions, because its
  two halves are apart in the code: the push under `mutex_`, or the store to
  `quit_`, and then the write to `wakeupFd_` (`Queue` or `Quit`, then `WakeUp`).
  The same calls from the loop's own thread are one action, since no other
  thread can tell the halves apart. `EnterLoop` forgets an earlier `quit`
  (lines 81-82). `runInLoop` is `queueInLoop` from another thread and a plain
  call from the loop's own.
* `Poller`: one action per call, all in the loop's thread; `phase` is the part
  of the iteration it is called from, which matters for `removeChannel`: its one
  caller, `connectDestroyed`, is always a pending functor. Errors and hang-ups
  are reported for every entry that is not ignored, so any such entry may be
  active.
* `EventLoopThreadPool`: `pc` is the owner's thread, `thread[i]` each pool
  thread. The mutex is held by the owner across actions; the thread's critical
  section is one action. `wait` may wake spuriously. Of the loop itself
  `quit_`, the eventfd (`readable`) and whether the object exists (`object`)
  are kept. What a call on a dead `EventLoop` does to memory is left out: that
  the destructor makes one is what `UsedLoopsExist` reports.
* `TcpConnection`: `phase` and `batch` are an iteration of the connection's
  loop, `callbacks` what `handelEvent` has still to call for the reported
  events. `registered` is the poller's view, with "ignored" permanent, as
  `WatchList` has it. A user's `send` and `shutdown` are the check of `state_`,
  the store, and the queueing, each an action. `sameLoop` chooses between one
  thread for everything and a separate base loop, whose `removeConnectionInLoop`
  functors are counted by `removals`. `aborted` names the assertion that failed,
  after which the process stops. `wire`, `peer`, `soError` and `finSent` are
  the kernel and the network; `accepted` is history, for `StreamIntact`.
* `TcpServer`: a connection has no object of its own; `Alive` looks for somebody
  who refers to it: `connections_`, functors bound to a `TcpConnectionPtr` that
  are pending (`pendingFunctors_`), swapped and not yet run (`functions`), or run
  and not yet dropped (`dropped`: the vector lives to the end of
  `doPendingFunctors`), and users (`holds`). `sendInLoop` and `listen` are bound
  to raw pointers and count for nothing. `OpenFds` follows from it, and `accept`
  gives the lowest free number, as POSIX has it. `registered` and `stale` are
  what pollers still know, `accepting` is the Acceptor's channel. A user's `send`
  is `SendCheck` and `SendQueue`. `DestroyConnections` and `DestroyRest` are the
  order in which the members of a `TcpServer` go; `NewServer` makes another one
  on the loop. `fault` names the first failed assertion or use of an object that
  is gone, and nothing happens after it.
* `ConnectionLife`: `stage` is computed, by `LifeStage` in both modules, from what
  the poller knows of the channel (`registered`) and from whether the connection is
  in the map: a channel that is disabled is "closing" while the map has it and
  "leaving" once it has not. The functors that lead from one stage to the next are
  not part of the stage; that they are there, and once each, is what makes the
  refinement hold. `TcpConnection` begins where `newConnection` ends. In
  `TcpServer` the promise ends with the server, whose destructor clears the map.
* `TimerQueue`: `phase` is the part of the iteration the loop is in: handlers
  before `handleRead` ("dispatch"), `handleRead` from `getExpired` (`HandleRead`)
  over the callbacks (`RunTimer`) to `reset` (`Reset`), and the batch of functors.
  `AddTimer` may happen wherever user code runs in the loop's thread, between
  two callbacks of `handleRead` too; `QueueTimer` is a call from another thread.
  `live`, `expiration_` and `interval_` are the heap, so an address can be used
  again. `timeLeft` and `readable` are the timerfd. `stepped` is history: the wall
  clock was set since the timerfd was armed.
* `Buffer`: one action per call; `call` is history, what was called with which
  bytes, which `ByteQueue` needs to say what may have happened. The vector is
  kept whole, free space included, so a copy from the wrong place shows.

## 3. Runs

| run | instance | shows |
|---|---|---|
| `event_loop` | 2 threads, 1 name per caller, 1 channel besides the eventfd, counter up to 2 | safety, `ExecutorSpec`, and liveness without poll timeouts |
| `poller` | 4 channels, 3 descriptors: 0, shared by two channels in turn, and two more | arrays in step, no dangling pointer, `WatchListSpec` |
| `poller_reenable` | the same | **violation**: `WantedIsWatched` |
| `pool` | pools of 0 to 3 threads, users quit loops, each loop given at most twice | handshake, round robin, destruction |
| `pool_lost_quit` | at most 1 thread | **violation**: `AlwaysEnds` |
| `pool_dead_loop` | at most 1 thread, user code quits its loop | **violation**: `UsedLoopsExist` |
| `connection` | 1 user thread besides the loops, 2 messages of 2 bytes | stream, FIN, removal, `LifeSpec`, liveness |
| `connection_late_send` | 1 message | **violation**: `ChannelIsKnown` |
| `server` | 2 connections, the base loop alone or with one more, 1 user thread, 2 or 3 descriptors | references, descriptors, `LifeSpec`, liveness |
| `server_destroyed` | the same | **violation**: `DescriptorIsNew` |
| `timer_queue` | 3 timers, 1 interval, wall clock 1 to 2 | one owner, armed, `ServiceSpec`, `DueIsRun` |
| `buffer` | 2 kinds of bytes, at most 3 to be read, vectors from 4 bytes on, `shrink` where the bytes start at `kCheapPrepend` | `RoomIsMade`, `QueueSpec` |

Bounds. `EventLoop`: callbacks in flight have distinct names, so the number of
names bounds the queue; two threads and the two kinds of callback of the loop's
own make a queue of four, with re-entrant and foreign pushes on either side of
the swap. The eventfd's counter is cut off at 2, where the kernel has 2^64-2: the
loop tells only zero from more. `Poller`: three entries are the fewest in
which a removal has a first, a middle and a last case. `EventLoopThreadPool`:
three threads give the round robin a middle; `MaxGiven` only ends the counting.
`TcpConnection`: two bytes let a write take nothing, a part or all; two messages
can be reordered; one message is sent at most once, so every behaviour is
finite but for polling.

`TcpServer`: with two descriptors the Acceptor and one connection fill the
process and the second peer meets EMFILE; with three both are connected, and
the second can get the first one's number. `MaxPending` bounds what users add to
a loop that has functors pending, never what the removal of a connection adds.
After a destruction what was under way goes on, but no new peer comes and users
begin nothing (`NewTraffic`): that part of the model serves `server_destroyed`,
and the other properties say nothing of it.

`TimerQueue`: three timers allow a batch of two with a third added meanwhile,
and one that becomes the first of those that wait. Times before the clock's, at
it and after it occur, and 0, which `vaild` rejects. `MaxTime` stops the wall clock
and not the timerfd, so whatever is armed expires. A timer that was restarted may
be due past `MaxTime`; it is run again where the clock was set back in between.

`Buffer`: with two bytes of space before and after, three bytes fill the free
space exactly, make the bytes move, make the vector grow, and spill into
`extrabuf`, which `readFd` then appends.

The proofs lift these bounds, for the safety properties, in all seven components.

### Findings

* `Poller.cc:65-69` ignores an entry and never restores it. `Poller.h:31` and
  `Channel.h:58` promise that events can be changed in either direction. Today's
  callers never enable a channel again on purpose, so the defect is dormant.
* `EventLoop.cc:82` resets `quit_` when the loop starts. `startLoop` may return
  before that, so a short-lived `EventLoopThread` can hang in its destructor;
  `test2.cc` sleeps before it quits.
* `EventLoopThread.cc:21` calls `quit` through a pointer to a local variable of
  a function that may have returned: in `pool_dead_loop` user code has quit the
  loop before, as `test2.cc:28` does, and its thread has left `loop()`. Where user
  code leaves the loop alone the call begins on a loop that exists
  (`QuitFindsLoop`). A second matter is in `quit` itself: from another thread, the
  user's or the destructor's, the loop may see the store of `EventLoop.cc:101` and
  be gone before the `wakeup()` of line 104. The model has those steps (`Wakeup`
  where `object[cur]` is "dead"); nothing in the repository says anything of
  them, and no run is about them.
* `TcpConnection.cc:84-90`: a `send` that was checked before the connection went
  down still runs `sendInLoop` after `connectDestroyed`, and the assertion at
  `Poller.cc:57` fails. No other step can fail it (`OnlyLateSendsFail`).
  The reference that the user holds keeps the object alive.
  Where it does not, `TouchesTheLiving` in `TcpServer` has to make an exception:
  the functor of `send` (`TcpConnection.cc:49`) may run on a connection that is gone.
* `TcpServer.cc:26`: the destructor leaves the Acceptor's channel in the base
  loop's poller, under a descriptor that it closes. The next server made on that
  loop gets the number for its own Acceptor, and the assertion at `Poller.cc:45`
  fails when it listens.

## 4. Fairness

* `EventLoop`: weak fairness on the loop's own steps (the thread is scheduled,
  user callbacks return), on `poll` returning when the eventfd is readable, and
  on a thread finishing `queueInLoop` or `quit`. None on the poll timeout, on
  other channels, or on users calling anything: so the liveness properties say
  that nothing has to wait for `kPollTimeMs`.
* `EventLoopThreadPool`: weak fairness on the owner and on each thread, and
  strong fairness on a thread taking its mutex, because the owner may take and
  release it again and again around spurious wake-ups; pthread mutexes that are
  free infinitely often are eventually acquired by a waiting thread under any
  scheduler this code can run on. None on timeouts or spurious wake-ups.
* `TcpConnection`: weak fairness on both loops and on a call begun by a user
  thread. Strong fairness on `poll` reporting that the socket is writable and on
  a write that takes at least one byte: the peer goes on reading. `ShutdownIsDone`
  needs it and names the alternative (the peer ends the connection).
* `TcpServer`: weak fairness on each loop's steps and on a `send` that was begun.
  Strong fairness on `HandleClose`, in each loop, because the loop may have a
  batch of functors each time one looks, and yet it polls every socket between
  two batches; and on `Accept`, because the listening socket is polled in the same
  way, while descriptors may be free only now and then. None on users dropping
  their references, nor on peers: `Released` and `Served` name both as
  alternatives or premises.
* `TimerQueue`: weak fairness on the loop's steps, with `poll` only where the
  timerfd or the eventfd is readable, and on time passing. None on `poll` timing
  out, on the wall clock staying as it is, nor on other channels: `DueIsRun` says
  that the timerfd alone is enough.

## 5. Proofs

TLAPS checks these for every value of the constants, under the named
assumptions of the modules (`ConstantsAssumption`, `FdAssumption`,
`PoolAssumption`), which TLC evaluates on every run.

* `EventLoopProofs`. `NoLostWakeup` speaks only of the moment the loop is in
  `poll`. It is not inductive: the strengthening `WakeInv` says at every other
  point either that the loop has yet to look at the queue (it is dispatching),
  or that the wake-up is there or on its way. It needs what `TypeOK` says of
  the loop thread's own state: the flag `calllingPendingFunctors_` is true exactly
  while a batch runs, which is why `queueInLoop` may rely on it. `Inv` is the
  conjunction of the two.
  `Refinement`: under the mapping `functions \o pendingFunctors_` the swap is a
  stutter and each functor's start is the executor's `Run`.
* `PollerProofs`. `Inv` joins the two directions of `IndexConsistent` (channels
  to entries, entries to channels), `NoneIsIgnored` and `ActiveAreRegistered`:
  the swap in `removeChannel` finds the moved channel through its decoded
  descriptor, so the second direction is needed to preserve the first, and
  injectivity of indices follows from it. `SilentWhenNone` and the refinement of
  `WatchList` follow from the same invariant.
* `EventLoopThreadPoolProofs`. `LoopsAreReady` follows from what a thread's
  place says of its loop (`ThreadInv`) and from `OwnerInv`: the owner leaves a
  thread only with `loop_` set, whatever woke it, and has not created the
  threads after it. `Balanced` needs `TurnInv`, which fixes every loop's count
  by its place before or after `next_`. `QuitFindsLoop` is about a pool whose loops
  users do not quit: then only the destructor stores `quit_`, thread by thread
  (`QuietInv`), and a loop that nobody has told to quit is there.
* `TimerQueueProofs`. `Armed` is not inductive, for `reset` arms nothing when some
  timer's time is not valid. `ArmedInv` says why that is right: such a time is
  before every reading of the clock, so it was added during this very batch, by
  `addTimer`, which armed the timerfd for it or found it armed for one as early.
  `OwnedInv` restates `OwnedOnce` for single timers, which makes it inductive with
  `TypeOK`. `Refinement` maps the functors and `timers_` together to what the
  service has waiting, so that the functors' part of `addTimer` is a stutter; the
  batch, less those that ran, is what the service has due.
* `BufferProofs`. The inductive invariant is `TypeOK` itself, whose `WellFormed`
  orders the indices. The operations are composed of few functions of an object
  (`Written`, `Moved`, `Grown`, `Roomy`), and one lemma for each says what it
  leaves to be read; the refinement follows without another look at the vector.
  `RoomAlwaysMade` is about the assertions of `makeSpace`, for every size. All three
  theorems are about buffers that are shrunk only where their bytes start at
  `kCheapPrepend`.
* `TcpConnectionProofs`. `StreamIntact` is inductive with `TypeOK`: `SendFacts` and
  `WriteFacts` say what `sendInLoop` and `handleWrite` do to the wire and the buffer
  for any result of `write`. `WritingMatchesData` needs to know that nobody has sent
  before `connectEstablished` has run (`NewInv`). `RemovedOnce` and
  `RegisteredIsOwned` need `LifeInv`, which follows the removal: with `registered`
  it says how many `removeConnectionInLoop` and `connectDestroyed` there are, in
  four cases of which exactly one holds; that user threads may store
  `kDisconnecting` at any time does not matter to it. It is not inductive by itself,
  as two callbacks of one pass could begin the removal twice; `CallbacksInv` says
  that after one that may begin it only `handleWrite` is called, and that the
  channel is still polled when it is. `CompleteWhenEmpty` counts callbacks in the
  queue as a cardinality (`Completions`), for which induction is not needed.
  `OnlyLateSendsFail` adds that nobody finds a destroyed connection in
  `kConnected` (`NotConnectedInv`), though `shutdown` may overwrite `kDisconnected`.
* `TcpServerProofs`. `TouchesTheLiving` says that no fault happens but those of
  `send`'s functor, so its invariant has to exclude them all. As long as the server
  exists and nothing has gone wrong, `LifeInv` puts each connection in one stage
  (`Stage`): which of the functors that lead on is waiting, in which loop, and that
  `connectDestroyed` waits whenever the map has let go of a channel that is still
  registered; `SingleInv` says that each such functor is queued once, across the
  swap of the two vectors. So a registered channel's connection is alive
  (`RegisteredAreAlive`). With `FdInv`, that living connections and the Acceptor
  have descriptors of their own, a descriptor that `accept` gives out is new to
  every poller, which is what `updateChannel` asserts. `CallInv` says that a thread in
  `send` has a reference, and that a loop that does not drain has no batch. Typing is
  proved for what follows a destruction too; the rest of the invariant ends there.
  `LowestFreeFd` exists because the naturals are well-founded.
* The two refinements of `ConnectionLife` follow from these invariants: a functor
  that is run finds the connection in the stage that the functor leads on from.
* `QueueFacts`: what `Append`, `Tail` and cutting a sequence leave of its elements
  and of their order, and `Once`, that an element occurs at most once.

The inductive invariants themselves are not checked by the runs: the runs have the
properties that rest on them.

Only model-checked: liveness, which is out of the proof system's reach (it has no
ENABLED): `EventuallyRun`, `QuitStops`, `ReturnsToPoll`, `StartReturns`,
`DestructionEnds`, `PeerCloseIsHandled`, `ShutdownIsDone`, `Released`, `Served` and
`DueIsRun`. Facts that need induction over data are out of its reach too. The five
properties that the code violates have, of course, no proofs.

## 6. Not modelled

* The contents read from the peer (`inputBuffer_`, which is a `Buffer`), the user's
  context and `setTcpNoDelay`.
* In `TcpServer`, `shutdown`, whose functor is bound to a raw `this` as that of
  `send` is (`TcpConnection.cc:99`), and what is sent: `TcpConnection` has both.
* In `TcpConnection`, more than one channel of a loop.
* A failure of `bind` or `listen`, which `Socket.h:23` says aborts and which
  `SocketsOps.cc:59-79` only logs: the server goes on without a port. No other
  step is involved, so a model would only repeat the function.
* A peer that closes its sending side alone, which `handleRead` takes for the end
  of the connection: the bytes that waited are dropped with the buffer.
* A connection that has bytes left after its FIN, or after a reset: `POLLOUT` stays
  on and each `write` fails until the peer ends the connection. The state is
  reached in `TcpConnection`; no property is about the processor time.
* What `quit` leaves in `pendingFunctors_`: `EventuallyRun` lets it end the wait,
  and the models of connections, server and timers are of loops that go on.
* What waits when a write-complete callback runs: `CompleteWhenEmpty` is about
  the moment at which it is queued.
* `Buffer::shrink` where the bytes do not start at `kCheapPrepend`: the indices are
  not set, and are wrong for the new vector. Nothing calls it; the model asks
  its caller to see to it (`Shrink`), as it does for the assertion of `prepend`.
* `Logging`, `InetAddress` and `Atomic` have no behaviour of their own to check, nor
  have the conversions of `Timestamp`; the results of system calls are choices in
  the modules that call them. `abortNotInLoopThread` only logs, so calls from the
  wrong thread are a misuse that the models exclude.

## 7. Plan

1. A property of `TcpConnection` about the repeated failing writes.
2. In `Poller`, a theorem that says when `WantedIsWatched` does hold: while no
   channel is enabled again after it wanted no event.
3. In `TcpServer`, what holds of the process after a server is destroyed.
