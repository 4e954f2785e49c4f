--------------------------- MODULE MCMessageStore ---------------------------
(***************************************************************************)
(* MessageStore for TLC.  The messages are model values that nothing       *)
(* compares with <, and the history keeps their order of posting, so that  *)
(* permuting them is a symmetry.                                           *)
(***************************************************************************)
EXTENDS MessageStore

Symmetry == Permutations(Msgs)
=============================================================================
