------------------------------ MODULE MCBuffer ------------------------------
(***************************************************************************)
(* An instance of Buffer for TLC: two kinds of bytes, and vectors of a few *)
(* of them, which every operation can fill, empty and overflow.            *)
(***************************************************************************)
EXTENDS Buffer
=============================================================================
