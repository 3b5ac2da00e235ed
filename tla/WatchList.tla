----------------------------- MODULE WatchList ------------------------------
(***************************************************************************)
(* What mtnet's Poller promises to the channels of one loop, whatever its  *)
(* arrays look like: it remembers, for each channel it was told of, the    *)
(* events that channel asked for last, and whether the channel is ignored. *)
(* A channel that asked for nothing is ignored, and stays so: see Poller.  *)
(***************************************************************************)
CONSTANTS Channel, Event

VARIABLE watched      \* a function on the channels that are watched

Init == watched = [c \in {} |-> {}]

Watch(c, events) ==
    /\ c \notin DOMAIN watched
    /\ watched' = [d \in DOMAIN watched \cup {c} |->
                     IF d = c THEN [events |-> events, ignored |-> FALSE]
                              ELSE watched[d]]

Change(c, events) ==
    /\ c \in DOMAIN watched
    /\ watched' = [watched EXCEPT ![c] =
                     [events |-> events,
                      ignored |-> watched[c].ignored \/ events = {}]]

Forget(c) ==
    /\ c \in DOMAIN watched
    /\ watched[c] = [events |-> {}, ignored |-> TRUE]
    /\ watched' = [d \in DOMAIN watched \ {c} |-> watched[d]]

Next ==
    \E c \in Channel :
        \/ Forget(c)
        \/ \E events \in SUBSET Event : Watch(c, events) \/ Change(c, events)

Spec == Init /\ [][Next]_watched
=============================================================================
