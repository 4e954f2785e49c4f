---------------------------- MODULE MCChallenge -----------------------------
(***************************************************************************)
(* Challenge for TLC: secrets of 3 and 4 characters out of two, so that    *)
(* challenges ask for characters twice, answered with one character more.  *)
(***************************************************************************)
EXTENDS Challenge
=============================================================================
