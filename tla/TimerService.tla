---------------------------- MODULE TimerService ----------------------------
(***************************************************************************)
(* What EventLoop::runAt, runAfter and runEvery promise to whoever gives   *)
(* them a callback: it is not run before the wall clock has shown its      *)
(* time, once if it is not periodic and otherwise again, its interval      *)
(* later; callbacks that come due together are run in the order of their   *)
(* times.  The wall clock may be set to any time.                          *)
(*                                                                         *)
(* A callback is a triple: its time, its timer and its interval, which is  *)
(* 0 when it is to be run once.                                            *)
(***************************************************************************)
EXTENDS Integers

CONSTANT Timer        \* names for the callbacks that are scheduled

VARIABLES
    now,              \* the wall clock
    waiting,          \* callbacks whose time has yet to be noticed
    due,              \* callbacks whose time has been noticed, at noticed
    noticed,
    resting           \* periodic callbacks that have run since then

vars == <<now, waiting, due, noticed, resting>>

Init ==
    /\ now \in Int
    /\ waiting = {} /\ due = {} /\ resting = {}
    /\ noticed \in Int

\* A callback is handed over.
Schedule(c) ==
    /\ \A d \in waiting \cup due \cup resting : d[2] # c[2]
    /\ waiting' = waiting \cup {c}
    /\ UNCHANGED <<now, due, noticed, resting>>

\* The clock is read, and some callbacks are found to have reached their time.
Notice(found) ==
    /\ due = {} /\ resting = {}
    /\ \A c \in found : c[1] <= now
    /\ due' = found
    /\ waiting' = waiting \ found
    /\ noticed' = now
    /\ UNCHANGED <<now, resting>>

\* One of those is run, none of an earlier time being left.
Run(c) ==
    /\ \A d \in due : c[1] <= d[1]
    /\ due' = due \ {c}
    /\ resting' = IF c[3] > 0 THEN resting \cup {c} ELSE resting
    /\ UNCHANGED <<now, waiting, noticed>>

\* Periodic callbacks wait for their next time.
Renew ==
    /\ due = {}
    /\ waiting' = waiting \cup {<<noticed + c[3], c[2], c[3]>> : c \in resting}
    /\ resting' = {}
    /\ noticed' \in Int
    /\ UNCHANGED <<now, due>>

\* Time passes, or the clock is set.
Clock ==
    /\ now' \in Int
    /\ UNCHANGED <<waiting, due, noticed, resting>>

Next ==
    \/ Clock \/ Renew
    \/ \E c \in waiting' : Schedule(c)
    \/ \E found \in SUBSET waiting : Notice(found)
    \/ \E c \in due : Run(c)

Spec == Init /\ [][Next]_vars
=============================================================================
