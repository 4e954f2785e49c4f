----------------------------- MODULE MCHeardList -----------------------------
(***************************************************************************)
(* HeardList for TLC: the stations other than the BBS are interchangeable. *)
(***************************************************************************)
EXTENDS HeardList

Symmetry == Permutations(Calls \ {Own})
=============================================================================
