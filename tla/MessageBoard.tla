---------------------------- MODULE MessageBoard ----------------------------
(***************************************************************************)
(* What the message store promises those who list, read, post and delete   *)
(* messages: a set of at most Capacity messages that, while the board is   *)
(* up, changes by posts and deletions only, one for each message.          *)
(* Messages are lost otherwise only by a crash, or while the board is down *)
(* after it.  A crash may also bring back removed messages, but only those *)
(* whose removal did not reach flash, and nothing that was not posted.     *)
(***************************************************************************)
EXTENDS Naturals, FiniteSets

CONSTANTS Msgs, Capacity

VARIABLES
  up,      \* messages can be posted and removed
  board,   \* the messages that are listed, or would be after a restart
  undead   \* removed messages that a crash may bring back

vars == <<up, board, undead>>

Init == up \in BOOLEAN /\ board = {} /\ undead = {}

Post(m) ==
  /\ up
  /\ m \notin board \cup undead
  /\ Cardinality(board) < Capacity
  /\ board' = board \cup {m}
  /\ UNCHANGED <<up, undead>>

\* A post to a full board removes one message.
Replace(v, m) ==
  /\ up
  /\ v \in board /\ m \notin board \cup undead
  /\ Cardinality(board) = Capacity
  /\ board' = (board \ {v}) \cup {m}
  /\ undead' \in {undead, undead \cup {v}}
  /\ up' = up

Kill(v) ==
  /\ up
  /\ v \in board
  /\ board' = board \ {v}
  /\ undead' \in {undead, undead \cup {v}}
  /\ up' = up

\* A removal reaches flash.
Settle ==
  /\ up
  /\ undead' \in SUBSET undead
  /\ UNCHANGED <<up, board>>

\* A reset may lose messages, and bring removed ones back.
Crash ==
  /\ up /\ up' = FALSE
  /\ board' \in SUBSET (board \cup undead)
  /\ undead' = {}

\* More of them are found to be lost before the board is up again.
Lose ==
  /\ ~up
  /\ board' \in SUBSET board
  /\ UNCHANGED <<up, undead>>

\* What is not found now may still be there after the next reset.
Restart ==
  /\ ~up /\ up' = TRUE
  /\ board' \in SUBSET board
  /\ undead' \in SUBSET (board \ board')

Next ==
  \/ \E m \in Msgs : Post(m)
  \/ \E v, m \in Msgs : Replace(v, m)
  \/ \E v \in Msgs : Kill(v)
  \/ Settle
  \/ Crash \/ Lose \/ Restart

Spec == Init /\ [][Next]_vars
=============================================================================
