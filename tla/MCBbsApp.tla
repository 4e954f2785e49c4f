------------------------------ MODULE MCBbsApp ------------------------------
(***************************************************************************)
(* BbsApp for TLC.  What is explored here is the order of events and their *)
(* loss: the clock ticks at most once, and no answer is wrong (the runs of *)
(* BbsSession are about time and wrong answers).                           *)
(***************************************************************************)
EXTENDS BbsApp
=============================================================================
