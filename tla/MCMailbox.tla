----------------------------- MODULE MCMailbox ------------------------------
(***************************************************************************)
(* Mailbox for TLC: W1A-7 and K2B, who write to w1a-1 and to NEWS.         *)
(***************************************************************************)
EXTENDS Mailbox

W1A == <<Upper("W"), Digit("1"), Upper("A")>>
K2B == <<Upper("K"), Digit("2"), Upper("B")>>

TheStations == {W1A \o <<Dash, Digit("7")>>, K2B}

TheArgs == {<<Lower("W"), Digit("1"), Lower("A"), Dash, Digit("1")>>,
            <<Upper("N"), Upper("E"), Upper("W"), Upper("S")>>}
=============================================================================
