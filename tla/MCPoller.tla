------------------------------ MODULE MCPoller ------------------------------
(***************************************************************************)
(* Four channels on three descriptors: the fourth reuses the descriptor of *)
(* the first, which is 0, the limit of the encoding of ignored entries.    *)
(***************************************************************************)
EXTENDS Poller, TLC

CONSTANTS c1, c2, c3, c4

MCfd == c1 :> 0 @@ c2 :> 4 @@ c3 :> 5 @@ c4 :> 0
=============================================================================
