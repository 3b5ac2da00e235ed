----------------------- MODULE MCEventLoopThreadPool ------------------------
(***************************************************************************)
(* Instances of EventLoopThreadPool for TLC; the numbers are in the cfgs.  *)
(***************************************************************************)
EXTENDS EventLoopThreadPool
=============================================================================
