---------------------------- MODULE MCBbsSession ----------------------------
(***************************************************************************)
(* BbsSession for TLC: two stations, which are interchangeable.            *)
(***************************************************************************)
EXTENDS BbsSession

Symmetry == Permutations(Stations)
=============================================================================
