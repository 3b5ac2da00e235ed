-------------------------- MODULE MCTcpConnection ---------------------------
(***************************************************************************)
(* Instances of TcpConnection for TLC.  Two bytes make a message: the      *)
(* fewest that let a write() take a part of it.                            *)
(***************************************************************************)
EXTENDS TcpConnection
=============================================================================
