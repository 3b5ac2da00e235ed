------------------------------ MODULE ByteQueue ------------------------------
(***************************************************************************)
(* What a Buffer is to its user: a sequence of bytes that grows and is     *)
(* consumed at the front, and grows at the back.  Every operation names    *)
(* the bytes that it was given or that it took away.                       *)
(***************************************************************************)
EXTENDS Sequences

VARIABLES
    queue,     \* the bytes
    call       \* the last operation, and its bytes

vars == <<queue, call>>

Init == queue = <<>> /\ call = [op |-> "construct", bytes |-> <<>>]

\* What an operation of a kind makes of the bytes.
Effect ==
    \/ call'.op = "append" /\ queue' = queue \o call'.bytes
    \/ call'.op = "prepend" /\ queue' = call'.bytes \o queue
    \/ call'.op = "retrieve" /\ queue = call'.bytes \o queue'
    \/ call'.op = "swap" /\ queue' = call'.bytes
    \/ call'.op = "resize" /\ queue' = queue

Spec == Init /\ [][Effect]_vars
=============================================================================
