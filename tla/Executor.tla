------------------------------ MODULE Executor ------------------------------
(***************************************************************************)
(* What an event loop promises to whoever hands it a callback with         *)
(* EventLoop::queueInLoop: a callback that was accepted is run once, by    *)
(* the loop, after every callback accepted before it.  Nothing is said of  *)
(* when: quit() may leave callbacks in the queue.                          *)
(***************************************************************************)
EXTENDS Sequences, Functions

CONSTANT Functor      \* the callbacks that can be in flight

VARIABLE queue        \* the accepted callbacks that have not been started

Init == queue = <<>>

\* The executor accepts callback f.  Callbacks in flight have distinct names.
Submit(f) ==
    /\ f \notin Range(queue)
    /\ queue' = Append(queue, f)

\* The executor starts the callback that has waited longest.
Run ==
    /\ queue # <<>>
    /\ queue' = Tail(queue)

Next == Run \/ \E f \in Functor : Submit(f)

Spec == Init /\ [][Next]_queue
=============================================================================
