------------------------------ MODULE MCTxPath ------------------------------
(***************************************************************************)
(* TxPath for TLC: texts of up to 5 bytes in packets of 2, two attempts,   *)
(* and destinations that hold one chunk.                                   *)
(***************************************************************************)
EXTENDS TxPath
=============================================================================
