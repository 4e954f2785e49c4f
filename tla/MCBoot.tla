------------------------------- MODULE MCBoot -------------------------------
(***************************************************************************)
(* Boot for TLC: two AGWPE slots with room for one cleanup request, so     *)
(* that one can be given up, two KISS slots, three connections for each,   *)
(* and a router with one port too few and with as many as are needed.      *)
(***************************************************************************)
EXTENDS Boot

\* Bound: from one boot to the next clients of only one kind come.  They share
\* nothing but the boot, so that each kind is as free as it is with the other.
NoAgwpe == live = {} /\ (\A s \in Slots : slots[s] = Empty) /\ \A c \in Conns : pc[c] = "closed"
NoKiss == Open = {} /\ \A s \in KissSlots : kiss_pool[s] = EmptySlot
OneKind == NoKiss \/ (NoAgwpe /\ Unlocked)

OneKindSpec == BootInit /\ [][BootNext /\ OneKind']_bootvars /\ BootFairness
=============================================================================
