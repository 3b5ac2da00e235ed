---------------------------- MODULE MCEventLoop -----------------------------
(***************************************************************************)
(* Small instances of EventLoop for TLC.  One name per caller bounds the   *)
(* queue: Push wants a name that is not in flight.                         *)
(***************************************************************************)
EXTENDS EventLoop
=============================================================================
