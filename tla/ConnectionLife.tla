--------------------------- MODULE ConnectionLife ---------------------------
(***************************************************************************)
(* What TcpServer and TcpConnection promise together of the life of a      *)
(* connection: newConnection, connectEstablished, handleClose,             *)
(* removeConnectionInLoop and connectDestroyed happen to it in this order  *)
(* and once each, whichever loops they run in and however its end was      *)
(* noticed.  Nothing is said of when.  The promise ends with the server,   *)
(* or with an assertion that fails.                                        *)
(***************************************************************************)
CONSTANT Conn

VARIABLES
    stage,      \* of each connection: see Stages
    broken      \* the promise has ended

Stages ==
    {"none",       \* not accepted
     "made",       \* in the server's map, not yet in its loop's poller
     "open",       \* polled
     "closing",    \* disabled in the poller, still in the map
     "leaving",    \* out of the map, its entry still in the poller
     "over"}       \* out of the poller

\* No connection has come, or newConnection has accepted it.
Init == stage \in [Conn -> {"none", "made", "open"}] /\ broken = FALSE

Become(c, from, to) ==
    /\ stage[c] = from
    /\ stage' = [stage EXCEPT ![c] = to]
    /\ UNCHANGED broken

\* The base loop gives the connection to another loop, or keeps it.
Create(c) == Become(c, "none", "made") \/ Become(c, "none", "open")

Establish(c) == Become(c, "made", "open")

\* The base loop takes its own connections out of the map at once.
Close(c) == Become(c, "open", "closing") \/ Become(c, "open", "leaving")

Remove(c) == Become(c, "closing", "leaving")

Destroy(c) == Become(c, "leaving", "over")

Break == broken'

Next ==
    \/ \E c \in Conn :
           Create(c) \/ Establish(c) \/ Close(c) \/ Remove(c) \/ Destroy(c)
    \/ Break

Spec == Init /\ [][Next]_<<stage, broken>>
=============================================================================
