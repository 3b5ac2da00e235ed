------------------------------- MODULE Poller -------------------------------
(***************************************************************************)
(* mtnet::Poller and the channels registered with it.  A loop's poller and *)
(* its channels are used by the loop's thread alone, so a step here is one *)
(* call; "phase" says which part of an iteration of EventLoop::loop() the  *)
(* call is made from.                                                      *)
(*                                                                         *)
(* pollfds_ is the array handed to poll(2).  A channel is found in it by   *)
(* its index_, and an entry's channel by the entry's fd through channels_. *)
(* The entry of a channel that wants no event holds -fd-1, so that poll(2) *)
(* ignores it.                                                             *)
(***************************************************************************)
EXTENDS Integers, Sequences, Functions

CONSTANTS
    Channel,     \* the Channel objects
    fd_          \* fd_[c]: the descriptor of channel c

ASSUME FdAssumption == fd_ \in [Channel -> Nat]

VARIABLES
    phase,              \* "poll", "dispatch" (handlers) or "functors"
    pollfds_,
    channels_,          \* from descriptors to channels
    events_, index_,    \* of each channel
    activeChannels_     \* the loop's list: channels to handle, in order

vars == <<phase, pollfds_, channels_, events_, index_, activeChannels_>>

\* kReadEvent and KwriteEvent; kNoneEvent is the empty set.
Event == {"read", "write"}

Registered == Range(channels_)

\* The entry that channel c takes for its own.  The array starts at 0 in the
\* code and at 1 here.
Entry(c) == pollfds_[index_[c] + 1]

\* The descriptor behind an entry's fd, which is negative when it is ignored.
Ignored(fd) == -fd - 1
Decode(fd) == IF fd < 0 THEN -fd - 1 ELSE fd

\* Channel objects exist, and none has been registered.
Init ==
    /\ phase = "functors"
    /\ pollfds_ = <<>>
    /\ channels_ = [f \in {} |-> 0]
    /\ events_ = [c \in Channel |-> {}]
    /\ index_ = [c \in Channel |-> -1]
    /\ activeChannels_ = <<>>

-----------------------------------------------------------------------------
(***************************************************************************)
(* updateChannel, for a channel c that asks for the events ev.             *)
(***************************************************************************)

\* The kernel gives a descriptor to one channel at a time: a connection's
\* socket is closed after its channel was removed.
AddMutant(c, ev) ==
    /\ index_[c] < 0
    /\ fd_[c] \notin DOMAIN channels_
    /\ pollfds_' = Append(pollfds_, [fd |-> fd_[c], events |-> ev])
    /\ index_' = [index_ EXCEPT ![c] = Len(pollfds_)]
    /\ channels_' = [f \in DOMAIN channels_ \cup {Len(pollfds_)} |->
                        IF f = Len(pollfds_) THEN c ELSE channels_[f]]
Add(c, ev) ==
    /\ index_[c] < 0
    /\ fd_[c] \notin DOMAIN channels_
    /\ pollfds_' = Append(pollfds_, [fd |-> fd_[c], events |-> ev])
    /\ index_' = [index_ EXCEPT ![c] = Len(pollfds_)]
    /\ channels_' = [f \in DOMAIN channels_ \cup {fd_[c]} |->
                        IF f = fd_[c] THEN c ELSE channels_[f]]

\* The fd of an entry that is ignored is not restored when events are wanted
\* again.
ModifyMutant(c, ev) ==
    /\ c \in Registered
    /\ pollfds_' = [pollfds_ EXCEPT ![index_[c] + 1].events = ev]
    /\ UNCHANGED <<channels_, index_>>
Modify(c, ev) ==
    /\ c \in Registered
    /\ pollfds_' = [pollfds_ EXCEPT ![index_[c] + 1] =
                        [fd |-> IF ev = {} THEN Ignored(fd_[c]) ELSE @.fd,
                         events |-> ev]]
    /\ UNCHANGED <<channels_, index_>>

\* Handlers and functors change what a channel wants.
InUserCode == phase \in {"dispatch", "functors"}

Update(c, ev) ==
    /\ InUserCode
    /\ events_' = [events_ EXCEPT ![c] = ev]
    /\ Add(c, ev) \/ Modify(c, ev)
    /\ UNCHANGED <<phase, activeChannels_>>

\* The first call on a channel, which registers it, is enableReading.
EnableReading(c) == Update(c, events_[c] \cup {"read"})
EnableWriting(c) == c \in Registered /\ Update(c, events_[c] \cup {"write"})
DisableWriting(c) == c \in Registered /\ Update(c, events_[c] \ {"write"})
DisableAll(c) == c \in Registered /\ Update(c, {})

-----------------------------------------------------------------------------
(***************************************************************************)
(* removeChannel.  The last entry takes the place of the one removed.  The *)
(* index_ of the removed channel keeps its value.                          *)
(***************************************************************************)

\* The one caller, TcpConnection::connectDestroyed, is a pending functor and
\* has called disableAll.
MayRemoveMutant(c) == InUserCode /\ c \in Registered /\ events_[c] = {}
MayRemove(c) == phase = "functors" /\ c \in Registered /\ events_[c] = {}

RemoveChannelMutant(c) ==
    LET idx == index_[c] + 1
        end == Len(pollfds_)
    IN  /\ MayRemove(c)
        /\ channels_' = [f \in DOMAIN channels_ \ {fd_[c]} |-> channels_[f]]
        /\ pollfds_' =
             SubSeq([pollfds_ EXCEPT ![idx] = pollfds_[end]], 1, end - 1)
        /\ UNCHANGED <<phase, events_, index_, activeChannels_>>
RemoveChannel(c) ==
    LET idx == index_[c] + 1
        end == Len(pollfds_)
        channelAtEnd == channels_[Decode(pollfds_[end].fd)]
    IN  /\ MayRemove(c)
        /\ channels_' = [f \in DOMAIN channels_ \ {fd_[c]} |-> channels_[f]]
        /\ pollfds_' =
             SubSeq([pollfds_ EXCEPT ![idx] = pollfds_[end]], 1, end - 1)
        /\ index_' = IF idx = end THEN index_
                     ELSE [index_ EXCEPT ![channelAtEnd] = idx - 1]
        /\ UNCHANGED <<phase, events_, activeChannels_>>

\* A channel that was removed is destroyed and another object takes its name.
Construct(c) ==
    /\ InUserCode
    /\ c \notin Registered
    /\ index_[c] >= 0
    /\ index_' = [index_ EXCEPT ![c] = -1]
    /\ events_' = [events_ EXCEPT ![c] = {}]
    /\ UNCHANGED <<phase, pollfds_, channels_, activeChannels_>>

-----------------------------------------------------------------------------
(***************************************************************************)
(* poll, fillActiveChannels, and the loop around them.                     *)
(***************************************************************************)

\* The choices that poll(2) has among n entries: positions in their order.
Ascending(n) ==
    {s \in UNION {[1 .. k -> 1 .. n] : k \in 0 .. n} :
        \A i, j \in DOMAIN s : i < j => s[i] < s[j]}

\* poll(2) reports the entries at the positions in ready: any that is not
\* ignored, for errors and hang-ups are reported whatever the events.
Poll(ready) ==
    /\ phase = "poll"
    /\ \A i \in Range(ready) : pollfds_[i].fd >= 0
    /\ phase' = "dispatch"
    /\ activeChannels_' = [k \in DOMAIN ready |->
                              channels_[pollfds_[ready[k]].fd]]
    /\ UNCHANGED <<pollfds_, channels_, events_, index_>>

\* loop() comes to the next channel of activeChannels_: its handler is what
\* calls the operations above until the next of these steps.
HandelEvent ==
    /\ phase = "dispatch"
    /\ activeChannels_ # <<>>
    /\ activeChannels_' = Tail(activeChannels_)
    /\ UNCHANGED <<phase, pollfds_, channels_, events_, index_>>

DoPendingFunctors ==
    /\ phase = "dispatch"
    /\ activeChannels_ = <<>>
    /\ phase' = "functors"
    /\ UNCHANGED <<pollfds_, channels_, events_, index_, activeChannels_>>

NextIteration ==
    /\ phase = "functors"
    /\ phase' = "poll"
    /\ UNCHANGED <<pollfds_, channels_, events_, index_, activeChannels_>>

Next ==
    \/ \E c \in Channel :
        \/ EnableReading(c) \/ EnableWriting(c)
        \/ DisableWriting(c) \/ DisableAll(c)
        \/ RemoveChannel(c) \/ Construct(c)
    \/ \E ready \in Ascending(Len(pollfds_)) : Poll(ready)
    \/ HandelEvent \/ DoPendingFunctors \/ NextIteration

Spec == Init /\ [][Next]_vars

-----------------------------------------------------------------------------
(***************************************************************************)
(* Properties.                                                             *)
(***************************************************************************)

TypeOK ==
    /\ phase \in {"poll", "dispatch", "functors"}
    /\ pollfds_ \in Seq([fd : Int, events : SUBSET Event])
    /\ DOMAIN channels_ \subseteq Range(fd_)
    /\ channels_ \in [DOMAIN channels_ -> Channel]
    /\ events_ \in [Channel -> SUBSET Event]
    /\ index_ \in [Channel -> Int]
    /\ activeChannels_ \in Seq(Channel)

\* The assertions of updateChannel and removeChannel about the maps: a
\* descriptor leads to a channel that has this descriptor and an index in the
\* array, where the entry is the channel's own.
ChannelsHaveEntries ==
    \A f \in DOMAIN channels_ :
        LET c == channels_[f]
        IN  /\ fd_[c] = f
            /\ index_[c] \in 0 .. Len(pollfds_) - 1
            /\ Entry(c).fd \in {f, Ignored(f)}

\* The other way round, which fillActiveChannels asserts and removeChannel's
\* swap relies on: each entry leads to a channel that knows where the entry is.
EntriesHaveChannels ==
    \A i \in DOMAIN pollfds_ :
        /\ Decode(pollfds_[i].fd) \in DOMAIN channels_
        /\ index_[channels_[Decode(pollfds_[i].fd)]] = i - 1

\* The two arrays agree, after any sequence of additions and removals.
IndexConsistent == ChannelsHaveEntries /\ EntriesHaveChannels

\* removeChannel's assertion about the entry it is about to drop: the entry of
\* a channel that wants nothing is ignored by poll(2) and asks for nothing.
NoneIsIgnored ==
    \A c \in Registered :
        /\ Entry(c).events = events_[c]
        /\ events_[c] = {} => Entry(c).fd = Ignored(fd_[c])

\* activeChannels_ holds pointers.  None of them dangles when loop() follows
\* it: a channel that poll() returned is still registered when its handler is
\* called, whatever the handlers before it did.
ActiveAreRegistered == Range(activeChannels_) \subseteq Registered

\* A channel that wants nothing is not reported, not even for an error.
SilentWhenNone ==
    [][phase = "poll" =>
         \A c \in Range(activeChannels_') : events_[c] # {}]_vars

\* The arrays implement a list of what each channel asked for last.
Watched == [c \in Registered |->
              [events |-> Entry(c).events, ignored |-> Entry(c).fd < 0]]
ImplementsWatchList == INSTANCE WatchList WITH watched <- Watched
WatchListSpec == ImplementsWatchList!Spec

\* Poller.h:31, of updateChannel: it "changes the registered I/O events, adding
\* or modifying".  A channel that is registered and wants events is watched.
WantedIsWatched ==
    \A c \in Registered : events_[c] # {} => Entry(c).fd = fd_[c]

-----------------------------------------------------------------------------
\* The inductive invariant: what the properties above need of each other, and
\* that handlers are only due while they are being called.
Inv ==
    /\ TypeOK
    /\ IndexConsistent
    /\ NoneIsIgnored
    /\ ActiveAreRegistered
    /\ phase # "dispatch" => activeChannels_ = <<>>
=============================================================================
