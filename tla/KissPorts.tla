----------------------------- MODULE KissPorts ------------------------------
(***************************************************************************)
(* The router ports of src/main, and the slots that hold those of KISS TCP *)
(* clients.  A port is registered for each client that connects, for the   *)
(* UART, for the heard list and for the BBS; the router has room for a     *)
(* configured number of them.                                              *)
(*                                                                         *)
(* The router and the TCP server are external.  The server has at most     *)
(* net.kiss.max_conns connections, counting one until its disconnect       *)
(* callback has returned, and gives each to kiss_on_connected() with no    *)
(* user data; callbacks of different connections interleave.               *)
(***************************************************************************)
EXTENDS Naturals, FiniteSets

CONSTANTS
  KissConns,
  KissMax,    \* net.kiss.max_conns
  NoConn

KissSlots == 1 .. KissMax
Uart == 0
App == KissMax + 1
Heard == KissMax + 2
OwnPorts == {Uart, Heard, App}  \* those that the firmware itself takes

ASSUME KissAssumption ==
  /\ KissMax \in Nat \ {0}
  /\ IsFiniteSet(KissConns)
  /\ NoConn \notin KissConns \cup KissSlots

VARIABLES
  router_max,      \* ax25.router.max_ports, less the ports that external services take
  registered,      \* the ports the router has: slots of clients and OwnPorts
  kiss_pool,       \* s_kiss_pool
  kiss_user_data,  \* of a connection: its slot or NoConn
  kiss_pc,         \* where each connection's callback is
  kiss_mine        \* its local variable slot

kiss == <<router_max, registered, kiss_pool, kiss_user_data, kiss_pc, kiss_mine>>

EmptySlot == [in_use |-> FALSE, conn |-> NoConn]
Room == Cardinality(registered) < router_max
Open == {c \in KissConns : kiss_pc[c] # "closed"}
Unused == {s \in KissSlots : ~kiss_pool[s].in_use}

\* ax25_router_register_port(), which fails if the table is full.
RegisterPort(port) == Room /\ registered' = registered \cup {port}
-----------------------------------------------------------------------------
(* kiss_on_connected() *)

\* alloc_kiss_port_slot(), of a connection that is new and has no user data.
KissClaim(c) ==
  /\ kiss_pc[c] = "closed"
  /\ Cardinality(Open) < KissMax
  /\ kiss_user_data' = [kiss_user_data EXCEPT ![c] = NoConn]
  /\ IF Unused = {}
     THEN /\ kiss_pc' = [kiss_pc EXCEPT ![c] = "unserved"]
          /\ UNCHANGED <<kiss_pool, kiss_mine>>
     ELSE LET s == CHOOSE s \in Unused : \A t \in Unused : s <= t
          IN  /\ kiss_pool' = [kiss_pool EXCEPT ![s].in_use = TRUE]
              /\ kiss_mine' = [kiss_mine EXCEPT ![c] = s]
              /\ kiss_pc' = [kiss_pc EXCEPT ![c] = "claimed"]
  /\ UNCHANGED <<router_max, registered>>

KissRegister(c) ==
  /\ kiss_pc[c] = "claimed"
  /\ RegisterPort(kiss_mine[c])
  /\ kiss_pool' = [kiss_pool EXCEPT ![kiss_mine[c]].conn = c]
  /\ kiss_pc' = [kiss_pc EXCEPT ![c] = "linking"]
  /\ UNCHANGED <<router_max, kiss_user_data, kiss_mine>>

\* The connection stays open, and nobody serves it.
KissRegisterFails(c) ==
  /\ kiss_pc[c] = "claimed" /\ ~Room
  /\ kiss_pool' = [kiss_pool EXCEPT ![kiss_mine[c]] = [in_use |-> FALSE, conn |-> c]]
  /\ kiss_mine' = [kiss_mine EXCEPT ![c] = NoConn]
  /\ kiss_pc' = [kiss_pc EXCEPT ![c] = "unserved"]
  /\ UNCHANGED <<router_max, registered, kiss_user_data>>

KissLink(c) ==
  /\ kiss_pc[c] = "linking"
  /\ kiss_user_data' = [kiss_user_data EXCEPT ![c] = kiss_mine[c]]
  /\ kiss_mine' = [kiss_mine EXCEPT ![c] = NoConn]
  /\ kiss_pc' = [kiss_pc EXCEPT ![c] = "up"]
  /\ UNCHANGED <<router_max, registered, kiss_pool>>
-----------------------------------------------------------------------------
(* kiss_on_disconnected() *)

KissLeaveUnserved(c) ==
  /\ kiss_pc[c] = "unserved"
  /\ kiss_user_data[c] = NoConn
  /\ kiss_pc' = [kiss_pc EXCEPT ![c] = "closed"]
  /\ UNCHANGED <<router_max, registered, kiss_pool, kiss_user_data, kiss_mine>>

\* Mutant: the slot is given back first.
KissFreeFirst(c) ==
  /\ kiss_pc[c] = "up"
  /\ kiss_pool' = [kiss_pool EXCEPT ![kiss_user_data[c]].in_use = FALSE]
  /\ kiss_pc' = [kiss_pc EXCEPT ![c] = "freeing"]
  /\ UNCHANGED <<router_max, registered, kiss_user_data, kiss_mine>>

KissRemovePort(c) ==
  /\ kiss_pc[c] = "up"
  /\ registered' = registered \ {kiss_user_data[c]}
  /\ kiss_pc' = [kiss_pc EXCEPT ![c] = "freeing"]
  /\ UNCHANGED <<router_max, kiss_pool, kiss_user_data, kiss_mine>>

\* Mutant: the slot is not given back.
KissFreeForgotten(c) ==
  /\ kiss_pc[c] = "freeing"
  /\ kiss_pc' = [kiss_pc EXCEPT ![c] = "closed"]
  /\ UNCHANGED <<router_max, registered, kiss_pool, kiss_user_data, kiss_mine>>

KissFree(c) ==
  /\ kiss_pc[c] = "freeing"
  /\ kiss_pool' = [kiss_pool EXCEPT ![kiss_user_data[c]].in_use = FALSE]
  /\ kiss_pc' = [kiss_pc EXCEPT ![c] = "closed"]
  /\ UNCHANGED <<router_max, registered, kiss_user_data, kiss_mine>>
-----------------------------------------------------------------------------
KissFresh ==
  /\ registered = {}
  /\ kiss_pool = [s \in KissSlots |-> EmptySlot]
  /\ kiss_user_data = [c \in KissConns |-> NoConn]
  /\ kiss_pc = [c \in KissConns |-> "closed"]
  /\ kiss_mine = [c \in KissConns |-> NoConn]

KissNext ==
  \E c \in KissConns :
    \/ KissClaim(c) \/ KissRegister(c) \/ KissRegisterFails(c) \/ KissLink(c)
    \/ KissLeaveUnserved(c) \/ KissRemovePort(c) \/ KissFree(c)
-----------------------------------------------------------------------------
(* Properties. *)

\* The router sends a KISS client's frames by a port that is in a slot in use
\* and of a client that is connected: no port in the pool outlives its client,
\* and no slot is taken while the router still has its port.  The ports of the
\* UART, the heard list and the BBS are for good.
PortsOwned ==
  \A s \in registered \cap KissSlots :
    /\ kiss_pool[s].in_use
    /\ kiss_pc[kiss_pool[s].conn] \in {"linking", "up"}
    /\ s \in {kiss_mine[kiss_pool[s].conn], kiss_user_data[kiss_pool[s].conn]}

\* With a place for each client and for the ports the firmware takes itself,
\* every client is served, and app_main() finds a place for the heard list's
\* port (bbs_heard.c:130) and for that of the BBS (main.c:1112), although KISS
\* clients are let in before: it neither returns nor restarts for want of one.
\* With one place fewer it does.
RoomForAll ==
  router_max >= KissMax + Cardinality(OwnPorts) =>
    /\ \A c \in KissConns : kiss_pc[c] # "unserved"
    /\ OwnPorts \subseteq registered \/ Room
=============================================================================
