---------------------------- MODULE MCTimerQueue ----------------------------
(***************************************************************************)
(* An instance of TimerQueue for TLC.  Addresses are numbers: timers of    *)
(* one time are ordered by them.                                           *)
(***************************************************************************)
EXTENDS TimerQueue
=============================================================================
