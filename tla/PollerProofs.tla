---------------------------- MODULE PollerProofs ----------------------------
(***************************************************************************)
(* What holds of Poller for every set of channels and descriptors: its two *)
(* arrays agree, activeChannels_ never dangles, a channel that wants       *)
(* nothing is not reported, and the arrays implement WatchList.            *)
(***************************************************************************)
EXTENDS Poller, SequenceTheorems, TLAPS

PollFd == [fd : Int, events : SUBSET Event]

-----------------------------------------------------------------------------
(***************************************************************************)
(* Facts about a state in which the invariant holds.                       *)
(***************************************************************************)

\* An entry's fd, ignored or not, decodes to the descriptor it was made from.
LEMMA DecodeFacts ==
    ASSUME NEW n \in Nat
    PROVE  Decode(n) = n /\ Decode(Ignored(n)) = n /\ Ignored(n) < 0
BY DEF Decode, Ignored

\* What a registered channel's entry is.
LEMMA EntryFacts ==
    ASSUME Inv, NEW c \in Registered
    PROVE  /\ c \in Channel /\ fd_[c] \in Nat
           /\ index_[c] \in 0 .. Len(pollfds_) - 1
           /\ index_[c] + 1 \in 1 .. Len(pollfds_)
           /\ index_[c] + 1 \in DOMAIN pollfds_
           /\ Entry(c) \in PollFd
           /\ Entry(c).fd \in {fd_[c], Ignored(fd_[c])}
           /\ Decode(Entry(c).fd) = fd_[c]
           /\ fd_[c] \in DOMAIN channels_ /\ channels_[fd_[c]] = c
<1> USE DEF Inv, TypeOK, PollFd
<1>1. c \in Channel /\ \E f \in DOMAIN channels_ : c = channels_[f]
    BY DEF Registered, Range
<1>2. fd_[c] \in Nat
    BY <1>1, FdAssumption
<1>3. Len(pollfds_) \in Nat /\ DOMAIN pollfds_ = 1 .. Len(pollfds_)
    BY LenProperties
<1>4. /\ index_[c] \in 0 .. Len(pollfds_) - 1
      /\ Entry(c).fd \in {fd_[c], Ignored(fd_[c])}
      /\ fd_[c] \in DOMAIN channels_ /\ channels_[fd_[c]] = c
    BY <1>1 DEF IndexConsistent, ChannelsHaveEntries
<1>5. index_[c] + 1 \in 1 .. Len(pollfds_)
    BY <1>3, <1>4
<1>6. Entry(c) \in PollFd
    BY <1>5, ElementOfSeq DEF Entry
<1>7. QED
    BY <1>1, <1>2, <1>3, <1>4, <1>5, <1>6, DecodeFacts

\* Two registered channels have different entries.
LEMMA IndexInjective ==
    ASSUME Inv, NEW c \in Registered, NEW d \in Registered,
           index_[c] = index_[d]
    PROVE  c = d
<1>1. Entry(c) = Entry(d)
    BY DEF Entry
<1>2. fd_[c] = fd_[d]
    BY <1>1, EntryFacts
<1>3. QED
    BY <1>2, EntryFacts

\* What an entry's channel is.
LEMMA ChannelFacts ==
    ASSUME Inv, NEW i \in 1 .. Len(pollfds_)
    PROVE  LET f == Decode(pollfds_[i].fd)
           IN  /\ pollfds_[i] \in PollFd
               /\ f \in DOMAIN channels_
               /\ channels_[f] \in Registered
               /\ index_[channels_[f]] = i - 1
               /\ fd_[channels_[f]] = f
<1> DEFINE f == Decode(pollfds_[i].fd)
<1>1. i \in DOMAIN pollfds_ /\ pollfds_[i] \in PollFd
    BY LenProperties, ElementOfSeq DEF Inv, TypeOK, PollFd
<1>2. f \in DOMAIN channels_ /\ index_[channels_[f]] = i - 1
    BY <1>1 DEF Inv, IndexConsistent, EntriesHaveChannels
<1>3. channels_[f] \in Registered
    BY <1>2 DEF Registered, Range
<1>4. Entry(channels_[f]) = pollfds_[i]
    BY <1>2 DEF Entry
<1>5. fd_[channels_[f]] = f
    BY <1>3, <1>4, EntryFacts
<1>6. QED
    BY <1>1, <1>2, <1>3, <1>5

-----------------------------------------------------------------------------
(***************************************************************************)
(* updateChannel preserves the invariant.                                  *)
(***************************************************************************)

\* Adding a channel leaves every other registered channel and entry in place.
LEMMA AddInv ==
    ASSUME Inv, NEW c \in Channel, NEW ev \in SUBSET Event, ev # {},
           Add(c, ev),
           events_' = [events_ EXCEPT ![c] = ev],
           UNCHANGED <<phase, activeChannels_>>
    PROVE  /\ Inv' /\ Registered' = Registered \cup {c} /\ c \notin Registered
           /\ Entry(c)' = [fd |-> fd_[c], events |-> ev]
           /\ \A d \in Registered : Entry(d)' = Entry(d)
<1> DEFINE n == Len(pollfds_)
           pfd == [fd |-> fd_[c], events |-> ev]
<1>1. fd_[c] \in Nat /\ pfd \in PollFd /\ pollfds_ \in Seq(PollFd) /\ n \in Nat
    <2>1. fd_[c] \in Nat
        BY FdAssumption
    <2>2. pfd \in PollFd
        BY <2>1 DEF PollFd
    <2>3. pollfds_ \in Seq(PollFd)
        BY DEF Inv, TypeOK, PollFd
    <2>4. QED
        BY <2>1, <2>2, <2>3, LenProperties
<1>2. /\ pollfds_' \in Seq(PollFd)
      /\ Len(pollfds_') = n + 1
      /\ \A i \in 1 .. n : pollfds_'[i] = pollfds_[i]
      /\ pollfds_'[n + 1] = pfd
      /\ DOMAIN pollfds_' = 1 .. n + 1
    BY <1>1, AppendProperties, LenProperties DEF Add
<1>3. /\ index_' \in [Channel -> Int]
      /\ index_'[c] = n
      /\ \A d \in Channel \ {c} : index_'[d] = index_[d]
    BY <1>1 DEF Add, Inv, TypeOK
<1>4. /\ DOMAIN channels_' = DOMAIN channels_ \cup {fd_[c]}
      /\ channels_'[fd_[c]] = c
      /\ \A f \in DOMAIN channels_ : f # fd_[c] /\ channels_'[f] = channels_[f]
      /\ channels_' \in [DOMAIN channels_' -> Channel]
    BY DEF Add, Inv, TypeOK
<1>5. c \notin Registered
    BY <1>1, EntryFacts DEF Add, Inv, TypeOK
<1>6. Registered' = Registered \cup {c}
    BY <1>4 DEF Registered, Range
<1>7. TypeOK'
    <2>1. fd_[c] \in Range(fd_)
        BY FdAssumption DEF Range
    <2>2. events_' \in [Channel -> SUBSET Event]
        BY DEF Inv, TypeOK
    <2>3. QED
        BY <1>2, <1>3, <1>4, <2>1, <2>2 DEF Inv, TypeOK, PollFd
<1>8. ASSUME NEW d \in Registered
      PROVE  /\ d # c /\ index_'[d] = index_[d] /\ Entry(d)' = Entry(d)
             /\ channels_'[fd_[d]] = d /\ events_'[d] = events_[d]
    <2>1. d # c /\ d \in Channel
        BY <1>5, EntryFacts
    <2>2. index_'[d] = index_[d] /\ index_[d] + 1 \in 1 .. n
        BY <1>3, <2>1, EntryFacts
    <2>3. QED
        BY <1>2, <1>4, <2>1, <2>2, EntryFacts DEF Entry, Inv, TypeOK
<1>9. Entry(c)' = pfd /\ events_'[c] = ev
    BY <1>2, <1>3 DEF Entry, Inv, TypeOK
<1>10. ChannelsHaveEntries'
    <2> SUFFICES ASSUME NEW f \in DOMAIN channels_', NEW d, d = channels_'[f]
                 PROVE  /\ fd_[d] = f
                        /\ index_'[d] \in 0 .. n
                        /\ Entry(d)'.fd \in {f, Ignored(f)}
        BY <1>1, <1>2 DEF ChannelsHaveEntries, Entry, Ignored
    <2>1. CASE f = fd_[c]
        BY <1>1, <1>3, <1>4, <1>9, <2>1
    <2>2. CASE f \in DOMAIN channels_
        <3>1. d = channels_[f] /\ d \in Registered
            BY <1>4, <2>2 DEF Registered, Range
        <3>2. fd_[d] = f
            BY <2>2, <3>1 DEF Inv, IndexConsistent, ChannelsHaveEntries
        <3>3. QED
            BY <1>1, <1>8, <3>1, <3>2, EntryFacts
    <2>3. QED
        BY <1>4, <2>1, <2>2
<1>11. EntriesHaveChannels'
    <2> SUFFICES ASSUME NEW i \in 1 .. n + 1
                 PROVE  /\ Decode(pollfds_'[i].fd) \in DOMAIN channels_'
                        /\ index_'[channels_'[Decode(pollfds_'[i].fd)]] = i - 1
        BY <1>2 DEF EntriesHaveChannels, Decode
    <2>1. CASE i = n + 1
        BY <1>1, <1>2, <1>3, <1>4, <2>1, DecodeFacts
    <2>2. CASE i \in 1 .. n
        BY <1>2, <1>4, <1>8, <2>2, ChannelFacts
    <2>3. QED
        BY <1>1, <2>1, <2>2
<1>12. NoneIsIgnored'
    <2> SUFFICES ASSUME NEW d \in Registered'
                 PROVE  /\ Entry(d)'.events = events_'[d]
                        /\ events_'[d] = {} => Entry(d)'.fd = Ignored(fd_[d])
        BY DEF NoneIsIgnored, Ignored
    <2>1. CASE d = c
        BY <1>9, <2>1
    <2>2. CASE d \in Registered
        BY <1>8, <2>2 DEF Inv, NoneIsIgnored
    <2>3. QED
        BY <1>6, <2>1, <2>2
<1>13. ActiveAreRegistered' /\ (phase' # "dispatch" => activeChannels_' = <<>>)
    BY <1>6 DEF Inv, ActiveAreRegistered
<1>14. QED
    BY <1>5, <1>6, <1>7, <1>8, <1>9, <1>10, <1>11, <1>12, <1>13
    DEF Inv, IndexConsistent

\* Modifying an entry leaves the others, and the fd it decodes to, alone.
LEMMA ModifyInv ==
    ASSUME Inv, NEW c \in Channel, NEW ev \in SUBSET Event,
           Modify(c, ev),
           events_' = [events_ EXCEPT ![c] = ev],
           UNCHANGED <<phase, activeChannels_>>
    PROVE  /\ Inv' /\ Registered' = Registered /\ c \in Registered
           /\ Entry(c)' = [fd |-> IF ev = {} THEN Ignored(fd_[c]) ELSE Entry(c).fd,
                           events |-> ev]
           /\ \A d \in Registered \ {c} : Entry(d)' = Entry(d)
<1> DEFINE n == Len(pollfds_)
           idx == index_[c] + 1
           pfd == [fd |-> IF ev = {} THEN Ignored(fd_[c]) ELSE Entry(c).fd,
                   events |-> ev]
<1>1. c \in Registered
    BY DEF Modify
<1>2. /\ fd_[c] \in Nat /\ idx \in 1 .. n /\ Entry(c) \in PollFd
      /\ Decode(Entry(c).fd) = fd_[c] /\ Entry(c) = pollfds_[idx]
      /\ Entry(c).fd \in {fd_[c], Ignored(fd_[c])}
    BY <1>1, EntryFacts DEF Entry
<1>3. pollfds_ \in Seq(PollFd) /\ n \in Nat
    BY LenProperties DEF Inv, TypeOK, PollFd
<1>4. /\ pfd \in PollFd /\ Decode(pfd.fd) = fd_[c]
      /\ pfd.fd \in {fd_[c], Ignored(fd_[c])}
    <2>1. pfd.fd \in Int
        BY <1>2 DEF PollFd, Ignored
    <2>2. QED
        BY <1>2, <2>1, DecodeFacts DEF PollFd
<1>5. /\ pollfds_' \in Seq(PollFd)
      /\ Len(pollfds_') = n
      /\ \A i \in 1 .. n : pollfds_'[i] = IF i = idx THEN pfd ELSE pollfds_[i]
      /\ DOMAIN pollfds_' = 1 .. n
    <2>1. pollfds_' = [pollfds_ EXCEPT ![idx] = pfd]
        BY <1>2 DEF Modify
    <2>2. QED
        BY <1>2, <1>3, <1>4, <2>1, ExceptSeq, LenProperties
<1>6. channels_' = channels_ /\ index_' = index_ /\ Registered' = Registered
    BY DEF Modify, Registered
<1>7. TypeOK'
    <2>1. events_' \in [Channel -> SUBSET Event]
        BY DEF Inv, TypeOK
    <2>2. QED
        BY <1>5, <1>6, <2>1 DEF Inv, TypeOK, PollFd
<1>8. Entry(c)' = pfd /\ events_'[c] = ev
    BY <1>2, <1>5, <1>6 DEF Entry, Inv, TypeOK
<1>9. ASSUME NEW d \in Registered, d # c
      PROVE  Entry(d)' = Entry(d) /\ events_'[d] = events_[d]
    <2>1. index_[d] + 1 # idx /\ index_[d] + 1 \in 1 .. n /\ d \in Channel
        BY <1>1, <1>9, <1>2, EntryFacts, IndexInjective
    <2>2. QED
        BY <1>5, <1>6, <1>9, <2>1 DEF Entry, Inv, TypeOK
<1>10. ChannelsHaveEntries'
    <2> SUFFICES ASSUME NEW f \in DOMAIN channels_, NEW d, d = channels_[f]
                 PROVE  /\ fd_[d] = f
                        /\ index_[d] \in 0 .. n - 1
                        /\ Entry(d)'.fd \in {f, Ignored(f)}
        BY <1>5, <1>6 DEF ChannelsHaveEntries, Entry, Ignored
    <2>1. d \in Registered /\ fd_[d] = f
        BY DEF Registered, Range, Inv, IndexConsistent, ChannelsHaveEntries
    <2>2. Entry(d)'.fd \in {f, Ignored(f)}
        BY <1>4, <1>8, <1>9, <2>1, EntryFacts
    <2>3. QED
        BY <2>1, <2>2, EntryFacts
<1>11. EntriesHaveChannels'
    <2> SUFFICES ASSUME NEW i \in 1 .. n
                 PROVE  /\ Decode(pollfds_'[i].fd) \in DOMAIN channels_
                        /\ index_[channels_[Decode(pollfds_'[i].fd)]] = i - 1
        BY <1>5, <1>6 DEF EntriesHaveChannels, Decode
    <2>1. Decode(pollfds_'[i].fd) = Decode(pollfds_[i].fd)
        BY <1>2, <1>4, <1>5
    <2>2. QED
        BY <2>1, ChannelFacts
<1>12. NoneIsIgnored'
    <2> SUFFICES ASSUME NEW d \in Registered
                 PROVE  /\ Entry(d)'.events = events_'[d]
                        /\ events_'[d] = {} => Entry(d)'.fd = Ignored(fd_[d])
        BY <1>6 DEF NoneIsIgnored, Ignored
    <2>1. CASE d = c
        BY <1>8, <2>1
    <2>2. CASE d # c
        BY <1>9, <2>2 DEF Inv, NoneIsIgnored
    <2>3. QED
        BY <2>1, <2>2
<1>13. ActiveAreRegistered' /\ (phase' # "dispatch" => activeChannels_' = <<>>)
    BY <1>6 DEF Inv, ActiveAreRegistered
<1>14. QED
    BY <1>1, <1>6, <1>7, <1>8, <1>9, <1>10, <1>11, <1>12, <1>13
    DEF Inv, IndexConsistent

-----------------------------------------------------------------------------
(***************************************************************************)
(* removeChannel preserves the invariant.                                  *)
(***************************************************************************)

\* The last entry moves to the place of the one removed, and its channel's
\* index with it: every other channel keeps its entry.
LEMMA RemoveInv ==
    ASSUME Inv, NEW c \in Channel, RemoveChannel(c)
    PROVE  /\ Inv' /\ Registered' = Registered \ {c} /\ c \in Registered
           /\ Entry(c) = [fd |-> Ignored(fd_[c]), events |-> {}]
           /\ \A d \in Registered \ {c} : Entry(d)' = Entry(d)
<1> DEFINE n == Len(pollfds_)
           idx == index_[c] + 1
           e == channels_[Decode(pollfds_[n].fd)]
           moved == [pollfds_ EXCEPT ![idx] = pollfds_[n]]
<1>1. c \in Registered /\ events_[c] = {} /\ phase = "functors"
    BY DEF RemoveChannel, MayRemove
<1>2. /\ fd_[c] \in Nat /\ idx \in 1 .. n /\ Entry(c) \in PollFd
      /\ fd_[c] \in DOMAIN channels_ /\ channels_[fd_[c]] = c
    BY <1>1, EntryFacts
<1>3. pollfds_ \in Seq(PollFd) /\ n \in Nat \ {0}
    BY <1>2, LenProperties DEF Inv, TypeOK, PollFd
<1>4. e \in Registered /\ index_[e] = n - 1 /\ Entry(e) = pollfds_[n]
    BY <1>3, ChannelFacts DEF Entry
<1>5. e = c <=> idx = n
    BY <1>1, <1>2, <1>3, <1>4, IndexInjective, EntryFacts
<1>6. /\ pollfds_' \in Seq(PollFd)
      /\ Len(pollfds_') = n - 1
      /\ \A i \in 1 .. n - 1 :
            pollfds_'[i] = IF i = idx THEN pollfds_[n] ELSE pollfds_[i]
      /\ DOMAIN pollfds_' = 1 .. n - 1
    <2>1. /\ moved \in Seq(PollFd) /\ Len(moved) = n
          /\ \A i \in 1 .. n :
                moved[i] = IF i = idx THEN pollfds_[n] ELSE pollfds_[i]
        <3>1. pollfds_[n] \in PollFd
            BY <1>3, ElementOfSeq
        <3>2. QED
            BY <1>2, <1>3, <3>1, ExceptSeq
    <2>2. \A i \in 1 .. n - 1 : moved[i] \in PollFd
        BY <1>3, <2>1, ElementOfSeq
    <2>3. pollfds_' = SubSeq(moved, 1, n - 1)
        BY DEF RemoveChannel
    <2>4. /\ pollfds_' \in Seq(PollFd)
          /\ Len(pollfds_') = n - 1
          /\ \A i \in 1 .. n - 1 : pollfds_'[i] = moved[i]
        <3>1. /\ SubSeq(moved, 1, n - 1) \in Seq(PollFd)
              /\ Len(SubSeq(moved, 1, n - 1)) =
                    IF 1 <= n - 1 THEN (n - 1) - 1 + 1 ELSE 0
              /\ \A i \in 1 .. (n - 1) - 1 + 1 :
                    SubSeq(moved, 1, n - 1)[i] = moved[1 + i - 1]
            <4> HIDE DEF moved
            <4>1. n - 1 \in Int
                BY <1>3
            <4>2. QED
                BY <2>2, <4>1, SubSeqProperties
        <3>2. (n - 1) - 1 + 1 = n - 1 /\ \A i \in 1 .. n - 1 : 1 + i - 1 = i
            BY <1>3
        <3>3. QED
            BY <1>3, <2>3, <3>1, <3>2
    <2>5. QED
        BY <1>3, <2>1, <2>4, LenProperties
<1>7. /\ channels_' = [f \in DOMAIN channels_ \ {fd_[c]} |-> channels_[f]]
      /\ events_' = events_
      /\ UNCHANGED <<phase, activeChannels_>>
    BY DEF RemoveChannel
<1>8. /\ index_' \in [Channel -> Int]
      /\ e # c => index_'[e] = idx - 1
      /\ \A d \in Channel \ {e} : index_'[d] = index_[d]
    <2>1. e \in Channel /\ idx - 1 \in Int
        BY <1>4, <1>2, EntryFacts
    <2>2. CASE idx = n
        BY <1>5, <2>2 DEF RemoveChannel, Inv, TypeOK
    <2>3. CASE idx # n
        <3>1. index_' = [index_ EXCEPT ![e] = idx - 1]
            BY <2>3 DEF RemoveChannel
        <3>2. QED
            BY <2>1, <3>1 DEF Inv, TypeOK
    <2>4. QED
        BY <2>2, <2>3
<1>9. Registered' = Registered \ {c}
    <2>1. ASSUME NEW d \in Registered \ {c}
          PROVE  d \in Registered'
        <3>1. fd_[d] \in DOMAIN channels_ \ {fd_[c]} /\ channels_[fd_[d]] = d
            BY <1>2, EntryFacts
        <3>2. QED
            BY <1>7, <3>1 DEF Registered, Range
    <2>2. ASSUME NEW d \in Registered'
          PROVE  d \in Registered \ {c}
        <3>1. PICK f \in DOMAIN channels_ \ {fd_[c]} : d = channels_[f]
            BY <1>7 DEF Registered, Range
        <3>2. d \in Registered /\ \E g \in DOMAIN channels_ : d = channels_[g]
            BY <3>1 DEF Registered, Range
        <3>3. fd_[channels_[f]] = f
            BY <3>1 DEF Inv, IndexConsistent, ChannelsHaveEntries
        <3>4. QED
            BY <3>1, <3>2, <3>3
    <2>3. QED
        BY <2>1, <2>2
<1>10. ASSUME NEW d \in Registered \ {c}
       PROVE  /\ index_'[d] \in 0 .. n - 2
              /\ Entry(d)' = Entry(d)
    <2>1. /\ index_[d] + 1 # idx /\ index_[d] + 1 \in 1 .. n /\ d \in Channel
          /\ index_[d] \in Int
        BY <1>1, <1>2, EntryFacts, IndexInjective
    <2>2. CASE d = e
        <3>1. index_'[d] = idx - 1 /\ idx \in 1 .. n - 1
            BY <1>2, <1>3, <1>5, <1>8, <2>2
        <3>2. Entry(d)' = pollfds_'[idx]
            BY <1>2, <3>1 DEF Entry
        <3>3. QED
            BY <1>3, <1>4, <1>6, <2>2, <3>1, <3>2
    <2>3. CASE d # e
        <3>1. index_'[d] = index_[d] /\ index_[d] # n - 1
            BY <1>4, <1>8, <2>1, <2>3, IndexInjective
        <3>2. index_[d] + 1 \in 1 .. n - 1
            BY <1>3, <2>1, <3>1
        <3>3. QED
            BY <1>3, <1>6, <2>1, <3>1, <3>2 DEF Entry
    <2>4. QED
        BY <2>2, <2>3
<1>11. TypeOK'
    <2>1. channels_' \in [DOMAIN channels_' -> Channel]
        BY <1>7 DEF Inv, TypeOK
    <2>2. QED
        BY <1>6, <1>7, <1>8, <2>1 DEF Inv, TypeOK, PollFd
<1>12. ChannelsHaveEntries'
    <2> SUFFICES ASSUME NEW f \in DOMAIN channels_ \ {fd_[c]},
                        NEW d, d = channels_[f]
                 PROVE  /\ fd_[d] = f
                        /\ index_'[d] \in 0 .. (n - 1) - 1
                        /\ Entry(d)'.fd \in {f, Ignored(f)}
        BY <1>6, <1>7 DEF ChannelsHaveEntries, Entry, Ignored
    <2>1. d \in Registered \ {c} /\ fd_[d] = f
        BY DEF Registered, Range, Inv, IndexConsistent, ChannelsHaveEntries
    <2>2. Entry(d)'.fd \in {f, Ignored(f)}
        BY <1>10, <2>1, EntryFacts
    <2>3. QED
        BY <1>3, <1>10, <2>1, <2>2
<1>13. EntriesHaveChannels'
    <2> SUFFICES ASSUME NEW i \in 1 .. n - 1
                 PROVE  /\ Decode(pollfds_'[i].fd) \in DOMAIN channels_'
                        /\ index_'[channels_'[Decode(pollfds_'[i].fd)]] = i - 1
        BY <1>6 DEF EntriesHaveChannels, Decode
    <2> DEFINE j == IF i = idx THEN n ELSE i
               f == Decode(pollfds_[j].fd)
    <2>1. pollfds_'[i] = pollfds_[j] /\ j \in 1 .. n
        BY <1>3, <1>6
    <2>2. /\ f \in DOMAIN channels_ /\ channels_[f] \in Registered
          /\ index_[channels_[f]] = j - 1 /\ fd_[channels_[f]] = f
        BY <2>1, ChannelFacts
    <2>3. channels_[f] # c
        BY <1>2, <1>3, <2>2
    <2>4. f \in DOMAIN channels_' /\ channels_'[f] = channels_[f]
        BY <1>2, <1>7, <2>2, <2>3
    <2>5. index_'[channels_[f]] = i - 1
        <3>1. CASE i = idx
            BY <1>8, <2>3, <3>1
        <3>2. CASE i # idx
            <4>1. channels_[f] # e
                BY <1>3, <1>4, <2>2, <3>2
            <4>2. channels_[f] \in Channel
                BY <2>2, EntryFacts
            <4>3. QED
                BY <1>8, <2>2, <3>2, <4>1, <4>2
        <3>3. QED
            BY <3>1, <3>2
    <2>6. QED
        BY <2>1, <2>4, <2>5
<1>14. NoneIsIgnored'
    <2> SUFFICES ASSUME NEW d \in Registered \ {c}
                 PROVE  /\ Entry(d)'.events = events_[d]
                        /\ events_[d] = {} => Entry(d)'.fd = Ignored(fd_[d])
        BY <1>7, <1>9 DEF NoneIsIgnored, Ignored
    <2>1. QED
        BY <1>10 DEF Inv, NoneIsIgnored
<1>15. ActiveAreRegistered' /\ (phase' # "dispatch" => activeChannels_' = <<>>)
    <2>1. activeChannels_' = <<>>
        BY <1>1, <1>7 DEF Inv
    <2>2. QED
        BY <2>1, EmptySeq DEF ActiveAreRegistered, Range
<1>16. Entry(c) = [fd |-> Ignored(fd_[c]), events |-> {}]
    BY <1>1, <1>2 DEF Inv, NoneIsIgnored, PollFd
<1>17. QED
    BY <1>1, <1>9, <1>10, <1>11, <1>12, <1>13, <1>14, <1>15, <1>16
    DEF Inv, IndexConsistent

-----------------------------------------------------------------------------
(***************************************************************************)
(* The other steps preserve the invariant.                                 *)
(***************************************************************************)

\* The invariant holds initially.
LEMMA InitInv == Init => Inv
<1> SUFFICES ASSUME Init PROVE Inv
    OBVIOUS
<1>1. Registered = {} /\ Range(activeChannels_) = {} /\ DOMAIN pollfds_ = {}
    BY EmptySeq DEF Init, Registered, Range
<1>2. TypeOK
    <2>1. /\ pollfds_ \in Seq([fd : Int, events : SUBSET Event])
          /\ activeChannels_ \in Seq(Channel)
        BY EmptySeq DEF Init
    <2>2. QED
        BY <2>1 DEF Init, TypeOK
<1>3. IndexConsistent /\ NoneIsIgnored /\ ActiveAreRegistered
    BY <1>1 DEF Init, IndexConsistent, ChannelsHaveEntries,
                EntriesHaveChannels, NoneIsIgnored, ActiveAreRegistered
<1>4. QED
    BY <1>2, <1>3 DEF Init, Inv

\* A channel that is not registered may be replaced by a new one.
LEMMA ConstructInv ==
    ASSUME Inv, NEW c \in Channel, Construct(c)
    PROVE  /\ Inv' /\ Registered' = Registered
           /\ \A d \in Registered : Entry(d)' = Entry(d)
<1>1. /\ c \notin Registered
      /\ UNCHANGED <<phase, pollfds_, channels_, activeChannels_>>
    BY DEF Construct
<1>2. Registered' = Registered
    BY <1>1 DEF Registered
<1>3. /\ index_' \in [Channel -> Int]
      /\ events_' \in [Channel -> SUBSET Event]
    BY DEF Construct, Inv, TypeOK
<1>4. ASSUME NEW d \in Registered
      PROVE  index_'[d] = index_[d] /\ events_'[d] = events_[d]
    <2>1. d \in Channel /\ d # c
        BY <1>1, EntryFacts
    <2>2. QED
        BY <2>1 DEF Construct, Inv, TypeOK
<1>5. TypeOK'
    BY <1>1, <1>3 DEF Inv, TypeOK
<1>6. \A d \in Registered : Entry(d)' = Entry(d)
    BY <1>1, <1>4 DEF Entry
<1>7. ChannelsHaveEntries'
    <2> SUFFICES ASSUME NEW f \in DOMAIN channels_, NEW d, d = channels_[f]
                 PROVE  /\ fd_[d] = f
                        /\ index_'[d] \in 0 .. Len(pollfds_) - 1
                        /\ Entry(d)'.fd \in {f, Ignored(f)}
        BY <1>1 DEF ChannelsHaveEntries, Entry, Ignored
    <2>1. d \in Registered /\ fd_[d] = f
        BY DEF Registered, Range, Inv, IndexConsistent, ChannelsHaveEntries
    <2>2. QED
        BY <1>4, <1>6, <2>1, EntryFacts
<1>8. EntriesHaveChannels'
    <2> SUFFICES ASSUME NEW i \in 1 .. Len(pollfds_)
                 PROVE  /\ Decode(pollfds_[i].fd) \in DOMAIN channels_
                        /\ index_'[channels_[Decode(pollfds_[i].fd)]] = i - 1
        BY <1>1, LenProperties DEF EntriesHaveChannels, Decode, Inv, TypeOK
    <2>1. QED
        BY <1>4, ChannelFacts
<1>9. NoneIsIgnored'
    BY <1>2, <1>4, <1>6 DEF NoneIsIgnored, Ignored, Inv
<1>10. ActiveAreRegistered' /\ (phase' # "dispatch" => activeChannels_' = <<>>)
    BY <1>1, <1>2 DEF Inv, ActiveAreRegistered
<1>11. QED
    BY <1>2, <1>5, <1>6, <1>7, <1>8, <1>9, <1>10 DEF Inv, IndexConsistent

\* An entry that poll(2) may report is that of a channel that wants events.
LEMMA ReportedWants ==
    ASSUME Inv, NEW i \in 1 .. Len(pollfds_), pollfds_[i].fd >= 0
    PROVE  LET c == channels_[pollfds_[i].fd]
           IN  c \in Registered /\ events_[c] # {}
<1> DEFINE c == channels_[pollfds_[i].fd]
<1>1. Decode(pollfds_[i].fd) = pollfds_[i].fd
    BY ChannelFacts DEF Decode, PollFd
<1>2. c \in Registered /\ index_[c] = i - 1
    BY <1>1, ChannelFacts
<1>3. Entry(c) = pollfds_[i]
    BY <1>2 DEF Entry
<1>4. Ignored(fd_[c]) < 0
    BY <1>2, EntryFacts, DecodeFacts
<1>5. events_[c] # {}
    <2> SUFFICES ASSUME events_[c] = {} PROVE FALSE
        OBVIOUS
    <2>1. Entry(c).fd = Ignored(fd_[c])
        BY <1>2 DEF Inv, NoneIsIgnored
    <2>2. pollfds_[i].fd < 0 /\ pollfds_[i].fd \in Int
        BY <1>3, <1>4, <2>1, ChannelFacts DEF PollFd
    <2>3. QED
        BY <2>2
<1>6. QED
    BY <1>2, <1>5

\* poll returns registered channels that want events.
LEMMA PollActivates ==
    ASSUME Inv, NEW ready \in Ascending(Len(pollfds_)), Poll(ready)
    PROVE  /\ activeChannels_' \in Seq(Channel)
           /\ \A c \in Range(activeChannels_') :
                c \in Registered /\ events_[c] # {}
<1>1. PICK k \in 0 .. Len(pollfds_) : ready \in [1 .. k -> 1 .. Len(pollfds_)]
    BY DEF Ascending
<1>2. \A j \in 1 .. k : ready[j] \in 1 .. Len(pollfds_)
                        /\ pollfds_[ready[j]].fd >= 0
    BY <1>1 DEF Poll, Range
<1>3. activeChannels_' = [j \in 1 .. k |-> channels_[pollfds_[ready[j]].fd]]
    BY <1>1 DEF Poll
<1>4. \A j \in 1 .. k : /\ channels_[pollfds_[ready[j]].fd] \in Registered
                        /\ events_[channels_[pollfds_[ready[j]].fd]] # {}
    BY <1>2, ReportedWants
<1>5. \A j \in 1 .. k : channels_[pollfds_[ready[j]].fd] \in Channel
    BY <1>4, EntryFacts
<1>6. k \in Nat
    BY LenProperties DEF Inv, TypeOK
<1>7. activeChannels_' \in Seq(Channel)
    <2>1. activeChannels_' \in [1 .. k -> Channel]
        BY <1>3, <1>5
    <2>2. QED
        BY <1>6, <2>1
<1>8. QED
    BY <1>3, <1>4, <1>7 DEF Range

\* A step of the loop, which leaves the two arrays and the channels alone.
LEMMA LoopStepInv ==
    ASSUME Inv,
           \/ HandelEvent \/ DoPendingFunctors \/ NextIteration
           \/ \E ready \in Ascending(Len(pollfds_)) : Poll(ready)
           \/ UNCHANGED vars
    PROVE  /\ Inv' /\ Registered' = Registered
           /\ \A d \in Registered : Entry(d)' = Entry(d)
<1>1. UNCHANGED <<pollfds_, channels_, events_, index_>>
    BY DEF HandelEvent, DoPendingFunctors, NextIteration, Poll, vars
<1>2. Registered' = Registered /\ IndexConsistent' /\ NoneIsIgnored'
    BY <1>1 DEF Inv, IndexConsistent, ChannelsHaveEntries, EntriesHaveChannels,
                NoneIsIgnored, Registered, Entry, Ignored, Decode
<1>3. /\ activeChannels_' \in Seq(Channel)
      /\ Range(activeChannels_') \subseteq Registered
      /\ phase' \in {"poll", "dispatch", "functors"}
      /\ phase' # "dispatch" => activeChannels_' = <<>>
    <2>1. CASE HandelEvent
        <3>1. /\ Tail(activeChannels_) \in Seq(Channel)
              /\ Len(Tail(activeChannels_)) = Len(activeChannels_) - 1
              /\ \A i \in 1 .. Len(Tail(activeChannels_)) :
                    Tail(activeChannels_)[i] = activeChannels_[i + 1]
            BY <2>1, HeadTailProperties DEF HandelEvent, Inv, TypeOK
        <3>2. Range(Tail(activeChannels_)) \subseteq Range(activeChannels_)
            <4>1. activeChannels_ \in Seq(Channel) /\ Len(activeChannels_) \in Nat
                BY LenProperties DEF Inv, TypeOK
            <4>2. Range(activeChannels_) =
                    {activeChannels_[i] : i \in 1 .. Len(activeChannels_)}
                BY <4>1, RangeEquality
            <4>3. Range(Tail(activeChannels_)) =
                    {Tail(activeChannels_)[i] : i \in 1 .. Len(activeChannels_) - 1}
                BY <3>1, RangeEquality
            <4>4. \A i \in 1 .. Len(activeChannels_) - 1 :
                    i + 1 \in 1 .. Len(activeChannels_)
                BY <4>1
            <4>5. QED
                BY <3>1, <4>2, <4>3, <4>4
        <3>3. QED
            BY <2>1, <3>1, <3>2 DEF HandelEvent, Inv, TypeOK, ActiveAreRegistered
    <2>2. CASE DoPendingFunctors \/ NextIteration \/ UNCHANGED vars
        BY <2>2 DEF DoPendingFunctors, NextIteration, vars, Inv, TypeOK,
                    ActiveAreRegistered
    <2>3. CASE \E ready \in Ascending(Len(pollfds_)) : Poll(ready)
        BY <2>3, PollActivates DEF Poll
    <2>4. QED
        BY <2>1, <2>2, <2>3
<1>4. TypeOK'
    BY <1>1, <1>3 DEF Inv, TypeOK
<1>5. QED
    BY <1>1, <1>2, <1>3, <1>4 DEF Inv, ActiveAreRegistered, Entry

\* Every step is an addition, a modification, a removal, a construction or a
\* step of the loop; the first event a channel wants is "read".
LEMMA NextCases ==
    ASSUME Inv, [Next]_vars
    PROVE  \/ \E c \in Channel, ev \in SUBSET Event :
                /\ (ev # {} /\ Add(c, ev)) \/ Modify(c, ev)
                /\ events_' = [events_ EXCEPT ![c] = ev]
                /\ UNCHANGED <<phase, activeChannels_>>
           \/ \E c \in Channel : RemoveChannel(c) \/ Construct(c)
           \/ HandelEvent \/ DoPendingFunctors \/ NextIteration
           \/ \E ready \in Ascending(Len(pollfds_)) : Poll(ready)
           \/ UNCHANGED vars
<1> DEFINE Updates(c, ev) == /\ (ev # {} /\ Add(c, ev)) \/ Modify(c, ev)
                             /\ events_' = [events_ EXCEPT ![c] = ev]
                             /\ UNCHANGED <<phase, activeChannels_>>
<1>1. ASSUME NEW c \in Channel,
             \/ EnableReading(c) \/ EnableWriting(c)
             \/ DisableWriting(c) \/ DisableAll(c)
      PROVE  \E ev \in SUBSET Event : Updates(c, ev)
    <2>1. events_[c] \in SUBSET Event
        BY DEF Inv, TypeOK
    <2>2. CASE EnableReading(c)
        <3>1. Updates(c, events_[c] \cup {"read"})
            BY <2>2 DEF EnableReading, Update
        <3>2. QED
            BY <2>1, <3>1 DEF Event
    <2>3. ASSUME NEW ev \in SUBSET Event, c \in Registered, Update(c, ev)
          PROVE  Updates(c, ev)
        BY <2>3, EntryFacts DEF Update, Add
    <2>4. CASE EnableWriting(c)
        BY <2>1, <2>3, <2>4 DEF EnableWriting, Event
    <2>5. CASE DisableWriting(c)
        BY <2>1, <2>3, <2>5 DEF DisableWriting
    <2>6. CASE DisableAll(c)
        BY <2>3, <2>6 DEF DisableAll
    <2>7. QED
        BY <1>1, <2>2, <2>4, <2>5, <2>6
<1>2. QED
    BY <1>1 DEF Next

-----------------------------------------------------------------------------
(***************************************************************************)
(* The theorems.                                                           *)
(***************************************************************************)

\* The invariant is preserved by every step.
LEMMA NextInv == Inv /\ [Next]_vars => Inv'
BY NextCases, AddInv, ModifyInv, RemoveInv, ConstructInv, LoopStepInv

\* The invariant holds in every reachable state.
THEOREM Invariance == Spec => []Inv
BY InitInv, NextInv, PTL DEF Spec

\* Every variable has its type.
THEOREM TypeCorrect == Spec => []TypeOK
<1>1. Inv => TypeOK
    BY DEF Inv
<1>2. QED
    BY <1>1, Invariance, PTL

\* The two arrays of the poller agree, whatever was added and removed: none of
\* its assertions about the maps can fail.
THEOREM IndicesConsistent == Spec => []IndexConsistent
<1>1. Inv => IndexConsistent
    BY DEF Inv
<1>2. QED
    BY <1>1, Invariance, PTL

\* removeChannel's assertion about the entry it drops cannot fail.
THEOREM NoneAlwaysIgnored == Spec => []NoneIsIgnored
<1>1. Inv => NoneIsIgnored
    BY DEF Inv
<1>2. QED
    BY <1>1, Invariance, PTL

\* loop() never follows a pointer to a channel that was removed.
THEOREM NoDanglingActive == Spec => []ActiveAreRegistered
<1>1. Inv => ActiveAreRegistered
    BY DEF Inv
<1>2. QED
    BY <1>1, Invariance, PTL

\* A channel that wants nothing is never reported.
THEOREM Silence == Spec => SilentWhenNone
<1>1. Inv /\ [Next]_vars =>
        [phase = "poll" =>
            \A c \in Range(activeChannels_') : events_[c] # {}]_vars
    <2> SUFFICES ASSUME Inv, [Next]_vars, phase = "poll", vars' # vars
                 PROVE  \A c \in Range(activeChannels_') : events_[c] # {}
        OBVIOUS
    <2>1. PICK ready \in Ascending(Len(pollfds_)) : Poll(ready)
        BY DEF Next, vars, EnableReading, EnableWriting, DisableWriting,
               DisableAll, Update, InUserCode, RemoveChannel, MayRemove,
               Construct, HandelEvent, DoPendingFunctors, NextIteration
    <2>2. QED
        BY <2>1, PollActivates
<1>2. QED
    BY <1>1, Invariance, PTL DEF Spec, SilentWhenNone

-----------------------------------------------------------------------------
(***************************************************************************)
(* The refinement: Watched behaves as WatchList says.                      *)
(***************************************************************************)

\* Nothing is watched at first.
LEMMA InitRefines == Init => ImplementsWatchList!Init
<1> SUFFICES ASSUME Init PROVE Watched = [c \in {} |-> {}]
    BY DEF ImplementsWatchList!Init
<1>1. Registered = {}
    BY DEF Init, Registered, Range
<1>2. QED
    BY <1>1 DEF Watched

\* A step that leaves the registered channels' entries alone is a stutter.
LEMMA SameEntriesRefine ==
    ASSUME Registered' = Registered,
           \A d \in Registered : Entry(d)' = Entry(d)
    PROVE  Watched' = Watched
<1>1. Watched' = [d \in Registered' |->
                    [events |-> Entry(d)'.events, ignored |-> Entry(d)'.fd < 0]]
    BY DEF Watched
<1>2. QED
    BY <1>1 DEF Watched

\* An addition watches a channel.
LEMMA AddRefines ==
    ASSUME Inv, NEW c \in Channel, NEW ev \in SUBSET Event, ev # {},
           Add(c, ev),
           events_' = [events_ EXCEPT ![c] = ev],
           UNCHANGED <<phase, activeChannels_>>
    PROVE  ImplementsWatchList!Watch(c, ev)
<1>1. /\ Registered' = Registered \cup {c} /\ c \notin Registered
      /\ Entry(c)' = [fd |-> fd_[c], events |-> ev]
      /\ \A d \in Registered : Entry(d)' = Entry(d)
    BY AddInv
<1>2. (fd_[c] < 0) = FALSE
    BY FdAssumption
<1>3. Watched' = [d \in Registered \cup {c} |->
                    [events |-> Entry(d)'.events, ignored |-> Entry(d)'.fd < 0]]
    BY <1>1 DEF Watched
<1>4. DOMAIN Watched = Registered
    BY DEF Watched
<1>5. ASSUME NEW d \in Registered \cup {c}
      PROVE  [events |-> Entry(d)'.events, ignored |-> Entry(d)'.fd < 0]
             = IF d = c THEN [events |-> ev, ignored |-> FALSE] ELSE Watched[d]
    <2>1. CASE d = c
        <3>1. Entry(d)'.events = ev /\ Entry(d)'.fd = fd_[c]
            BY <1>1, <2>1
        <3>2. (Entry(d)'.fd < 0) = FALSE
            BY <1>2, <3>1, Zenon
        <3>3. QED
            BY <2>1, <3>1, <3>2, Zenon
    <2>2. CASE d # c
        BY <1>1, <2>2 DEF Watched
    <2>3. QED
        BY <2>1, <2>2
<1>6. QED
    BY <1>1, <1>3, <1>4, <1>5 DEF ImplementsWatchList!Watch

\* A modification changes what is watched of one channel.
LEMMA ModifyRefines ==
    ASSUME Inv, NEW c \in Channel, NEW ev \in SUBSET Event,
           Modify(c, ev),
           events_' = [events_ EXCEPT ![c] = ev],
           UNCHANGED <<phase, activeChannels_>>
    PROVE  ImplementsWatchList!Change(c, ev)
<1> DEFINE to == [events |-> ev, ignored |-> Watched[c].ignored \/ ev = {}]
<1>1. /\ Registered' = Registered /\ c \in Registered
      /\ Entry(c)' = [fd |-> IF ev = {} THEN Ignored(fd_[c]) ELSE Entry(c).fd,
                      events |-> ev]
      /\ \A d \in Registered \ {c} : Entry(d)' = Entry(d)
    BY ModifyInv
<1>2. Watched' = [d \in Registered |->
                    [events |-> Entry(d)'.events, ignored |-> Entry(d)'.fd < 0]]
    BY <1>1 DEF Watched
<1>3. DOMAIN Watched = Registered /\ Watched[c].ignored = (Entry(c).fd < 0)
    BY <1>1 DEF Watched
<1>4. (Entry(c)'.fd < 0) = (Watched[c].ignored \/ ev = {})
    <2>1. CASE ev = {}
        <3>1. Entry(c)'.fd = Ignored(fd_[c]) /\ Ignored(fd_[c]) < 0
            BY <1>1, <2>1, EntryFacts, DecodeFacts
        <3>2. QED
            BY <2>1, <3>1
    <2>2. CASE ev # {}
        <3>1. Entry(c)'.fd = Entry(c).fd
            BY <1>1, <2>2
        <3>2. (Entry(c)'.fd < 0) = Watched[c].ignored
            BY <1>3, <3>1, Zenon
        <3>3. Watched[c].ignored \in BOOLEAN
            BY <1>3, SMT
        <3>4. QED
            BY <2>2, <3>2, <3>3, Zenon
    <2>3. QED
        BY <2>1, <2>2
<1>5. ASSUME NEW d \in Registered
      PROVE  [events |-> Entry(d)'.events, ignored |-> Entry(d)'.fd < 0]
             = IF d = c THEN to ELSE Watched[d]
    <2>1. CASE d = c
        BY <1>1, <1>4, <2>1
    <2>2. CASE d # c
        BY <1>1, <2>2 DEF Watched
    <2>3. QED
        BY <2>1, <2>2
<1>6. Watched' = [d \in Registered |-> IF d = c THEN to ELSE Watched[d]]
    BY <1>2, <1>5
<1>7. [Watched EXCEPT ![c] = to]
        = [d \in Registered |-> IF d = c THEN to ELSE Watched[d]]
    BY <1>1, <1>3
<1>8. QED
    BY <1>1, <1>3, <1>6, <1>7 DEF ImplementsWatchList!Change

\* A removal forgets a channel.
LEMMA RemoveRefines ==
    ASSUME Inv, NEW c \in Channel, RemoveChannel(c)
    PROVE  ImplementsWatchList!Forget(c)
<1>1. /\ Registered' = Registered \ {c} /\ c \in Registered
      /\ Entry(c) = [fd |-> Ignored(fd_[c]), events |-> {}]
      /\ \A d \in Registered \ {c} : Entry(d)' = Entry(d)
    BY RemoveInv
<1>2. DOMAIN Watched = Registered
    BY DEF Watched
<1>3. Watched[c] = [events |-> {}, ignored |-> TRUE]
    <2>1. (Ignored(fd_[c]) < 0) = TRUE
        BY <1>1, EntryFacts, DecodeFacts
    <2>2. Entry(c).events = {} /\ Entry(c).fd = Ignored(fd_[c])
        BY <1>1
    <2>3. Watched[c] = [events |-> Entry(c).events, ignored |-> Entry(c).fd < 0]
        BY <1>1 DEF Watched
    <2>4. QED
        BY <2>1, <2>2, <2>3, Zenon
<1>4. Watched' = [d \in Registered \ {c} |->
                    [events |-> Entry(d)'.events, ignored |-> Entry(d)'.fd < 0]]
    BY <1>1 DEF Watched
<1>5. Watched' = [d \in Registered \ {c} |-> Watched[d]]
    BY <1>1, <1>4 DEF Watched
<1>6. QED
    BY <1>1, <1>2, <1>3, <1>5 DEF ImplementsWatchList!Forget

\* Every step watches, changes or forgets one channel, or is a stutter.
LEMMA NextRefines == Inv /\ [Next]_vars => [ImplementsWatchList!Next]_Watched
<1> SUFFICES ASSUME Inv, [Next]_vars
             PROVE  ImplementsWatchList!Next \/ Watched' = Watched
    OBVIOUS
<1>1. ASSUME NEW c \in Channel, NEW ev \in SUBSET Event,
             (ev # {} /\ Add(c, ev)) \/ Modify(c, ev),
             events_' = [events_ EXCEPT ![c] = ev],
             UNCHANGED <<phase, activeChannels_>>
      PROVE  ImplementsWatchList!Next
    BY <1>1, AddRefines, ModifyRefines
    DEF ImplementsWatchList!Next, Event
<1>2. ASSUME NEW c \in Channel, RemoveChannel(c)
      PROVE  ImplementsWatchList!Next
    BY <1>2, RemoveRefines DEF ImplementsWatchList!Next
<1>3. ASSUME NEW c \in Channel, Construct(c)
      PROVE  Watched' = Watched
    BY <1>3, ConstructInv, SameEntriesRefine
<1>4. CASE \/ HandelEvent \/ DoPendingFunctors \/ NextIteration
           \/ \E ready \in Ascending(Len(pollfds_)) : Poll(ready)
           \/ UNCHANGED vars
    BY <1>4, LoopStepInv, SameEntriesRefine
<1>5. QED
    BY <1>1, <1>2, <1>3, <1>4, NextCases

\* The poller's arrays implement the list of watched channels, whatever the
\* order in which channels come, change and go.
THEOREM Refinement == Spec => WatchListSpec
BY InitRefines, NextRefines, Invariance, PTL
DEF Spec, WatchListSpec, ImplementsWatchList!Spec
=============================================================================
