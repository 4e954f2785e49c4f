----------------------------- MODULE MCCompose ------------------------------
(***************************************************************************)
(* Compose for TLC: lines of up to 3 characters and bodies of up to 6      *)
(* bytes, which messages of up to MaxTyped bytes exceed, in two sessions.  *)
(***************************************************************************)
EXTENDS Compose
=============================================================================
