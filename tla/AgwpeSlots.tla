----------------------------- MODULE AgwpeSlots -----------------------------
(***************************************************************************)
(* The slots of AGWPE clients of src/main/main.c.  The TCP server calls    *)
(* back when a connection comes and goes; a client of the AGWPE server,    *)
(* which has a task of its own, is made for each; and a cleanup task ends  *)
(* the clients whose connection is gone, told by a bounded queue.  Another *)
(* task, that of whoever sends a UI frame by the UART, walks the slots.    *)
(*                                                                         *)
(* The mutex guards only the taking, the freeing and the walking of slots; *)
(* the fields of a slot change without it.  The TCP server and the AGWPE   *)
(* server are external: a connection's callbacks come one after the other, *)
(* and a client may emit frames as long as it lives.                       *)
(***************************************************************************)
EXTENDS Naturals, Sequences, FiniteSets

CONSTANTS
  Conns,       \* connections of the TCP server
  N,           \* net.agwpe.max_clients
  CleanupLen,  \* AGWPE_CLEANUP_QUEUE_LEN
  None

Slots == 1 .. N
Clients == [slot : Slots, conn : Conns]  \* each known by where and for whom it was made

ASSUME AgwpeAssumption ==
  /\ N \in Nat \ {0} /\ CleanupLen \in Nat \ {0}
  /\ IsFiniteSet(Conns)
  /\ None \notin Conns \cup Slots \cup Clients

VARIABLES
  slots,      \* s_agwpe_clients
  live,       \* the clients the AGWPE server has
  user_data,  \* of a connection: its slot or None
  pc,         \* where each connection's callback is
  mine,       \* its local variable slot
  queue,      \* s_agwpe_cleanup_queue
  cleaner,    \* agwpe_cleanup_task: step and request
  walk,       \* uart_port_frame_cb: slot it is at, and client it is about to call
  leaked      \* history: slots whose cleanup was given up

conns == <<user_data, pc, mine>>
agwpe == <<slots, live, conns, queue, cleaner, walk, leaked>>

Empty == [in_use |-> FALSE, conn |-> None, client |-> None, pending |-> FALSE]
Resting == [step |-> "wait", slot |-> None, client |-> None]
NotWalking == [at |-> 0, client |-> None]

Unlocked == walk = NotWalking
FreeSlots == {s \in Slots : ~slots[s].in_use}
-----------------------------------------------------------------------------
(* agwpe_on_connected() *)

\* Mutant: a slot without connection is taken for free.
ClaimUnconnected(c) ==
  /\ pc[c] = "closed" /\ Unlocked
  /\ \E s \in Slots :
       /\ slots[s].conn = None /\ \A t \in Slots : slots[t].conn = None => s <= t
       /\ slots' = [slots EXCEPT ![s] = [Empty EXCEPT !.in_use = TRUE]]
       /\ mine' = [mine EXCEPT ![c] = s]
  /\ pc' = [pc EXCEPT ![c] = "adding"]
  /\ UNCHANGED <<live, user_data, queue, cleaner, walk, leaked>>

\* With alloc_agwpe_client_slot().
Claim(c) ==
  /\ pc[c] = "closed" /\ Unlocked
  /\ \E s \in FreeSlots :
       /\ \A t \in FreeSlots : s <= t
       /\ slots' = [slots EXCEPT ![s] = [Empty EXCEPT !.in_use = TRUE]]
       /\ mine' = [mine EXCEPT ![c] = s]
  /\ pc' = [pc EXCEPT ![c] = "adding"]
  /\ UNCHANGED <<live, user_data, queue, cleaner, walk, leaked>>

\* The connection stays open, and nobody serves it.
Refuse(c) ==
  /\ pc[c] = "closed" /\ Unlocked
  /\ FreeSlots = {}
  /\ pc' = [pc EXCEPT ![c] = "unserved"]
  /\ UNCHANGED <<slots, live, user_data, mine, queue, cleaner, walk, leaked>>

\* ax25_agwpe_server_add_client() starts the client before it returns.
AddClient(c) ==
  /\ pc[c] = "adding"
  /\ LET s == mine[c]
         client == [slot |-> s, conn |-> c]
     IN  /\ slots' = [slots EXCEPT ![s].conn = c, ![s].client = client]
         /\ live' = live \cup {client}
  /\ pc' = [pc EXCEPT ![c] = "linking"]
  /\ UNCHANGED <<user_data, mine, queue, cleaner, walk, leaked>>

\* Mutant: the slot stays taken.
AddClientFailsTaken(c) ==
  /\ pc[c] = "adding" /\ Unlocked
  /\ mine' = [mine EXCEPT ![c] = None]
  /\ pc' = [pc EXCEPT ![c] = "unserved"]
  /\ UNCHANGED <<slots, live, user_data, queue, cleaner, walk, leaked>>

AddClientFails(c) ==
  /\ pc[c] = "adding" /\ Unlocked
  /\ slots' = [slots EXCEPT ![mine[c]] = Empty]
  /\ mine' = [mine EXCEPT ![c] = None]
  /\ pc' = [pc EXCEPT ![c] = "unserved"]
  /\ UNCHANGED <<live, user_data, queue, cleaner, walk, leaked>>

Link(c) ==
  /\ pc[c] = "linking"
  /\ user_data' = [user_data EXCEPT ![c] = mine[c]]
  /\ mine' = [mine EXCEPT ![c] = None]
  /\ pc' = [pc EXCEPT ![c] = "up"]
  /\ UNCHANGED <<slots, live, queue, cleaner, walk, leaked>>
-----------------------------------------------------------------------------
(* agwpe_on_disconnected() *)

DisconnectUnserved(c) ==
  /\ pc[c] = "unserved"
  /\ pc' = [pc EXCEPT ![c] = "closed"]
  /\ UNCHANGED <<slots, live, user_data, mine, queue, cleaner, walk, leaked>>

\* Up to the test of slot->client.
Disconnect(c) ==
  /\ pc[c] = "up"
  /\ mine' = [mine EXCEPT ![c] = user_data[c]]
  /\ user_data' = [user_data EXCEPT ![c] = None]
  /\ slots' = [slots EXCEPT ![user_data[c]].conn = None]
  /\ pc' = [pc EXCEPT ![c] = "leaving"]
  /\ UNCHANGED <<live, queue, cleaner, walk, leaked>>

Leave(c) == mine' = [mine EXCEPT ![c] = None] /\ pc' = [pc EXCEPT ![c] = "closed"]

\* Mutant: the slot is freed here, and only the client left to the task.
RequestCleanupFreed(c) ==
  /\ pc[c] = "leaving" /\ Unlocked
  /\ slots' = [slots EXCEPT ![mine[c]] = [Empty EXCEPT !.client = slots[mine[c]].client]]
  /\ pc' = [pc EXCEPT ![c] = "asking"]
  /\ UNCHANGED <<live, user_data, mine, queue, cleaner, walk, leaked>>

\* The request holds the client as it is now; xQueueSend() may wait.  Without a
\* client the slot is freed at once, and if cleanup was asked for before, it is
\* left to it; property Served says that neither happens.
RequestCleanup(c) ==
  /\ pc[c] = "leaving"
  /\ LET slot == slots[mine[c]]
     IN  /\ slot.client = None => Unlocked
         /\ slots' = [slots EXCEPT ![mine[c]] = IF slot.client = None THEN Empty
                                                                    ELSE [@ EXCEPT !.pending = TRUE]]
         /\ IF slot.client = None \/ slot.pending
            THEN Leave(c)
            ELSE pc' = [pc EXCEPT ![c] = "asking"] /\ UNCHANGED mine
  /\ UNCHANGED <<live, user_data, queue, cleaner, walk, leaked>>

Enqueue(c) ==
  /\ pc[c] = "asking"
  /\ Len(queue) < CleanupLen
  /\ queue' = Append(queue, [slot |-> mine[c], client |-> slots[mine[c]].client])
  /\ Leave(c)
  /\ UNCHANGED <<slots, live, user_data, cleaner, walk, leaked>>

\* Mutant: only the wait of one second is given up, and the slot with it, even
\* if there is room by now.
EnqueueTimesOutAnyway(c) ==
  /\ pc[c] = "asking"
  /\ slots' = [slots EXCEPT ![mine[c]].pending = FALSE]
  /\ leaked' = leaked \cup {mine[c]}
  /\ Leave(c)
  /\ UNCHANGED <<live, user_data, queue, cleaner, walk>>

\* After 1000 ms, which may all have passed when there is no room.
EnqueueTimesOut(c) ==
  /\ pc[c] = "asking"
  /\ Len(queue) = CleanupLen
  /\ slots' = [slots EXCEPT ![mine[c]].pending = FALSE]
  /\ leaked' = leaked \cup {mine[c]}
  /\ Leave(c)
  /\ UNCHANGED <<live, user_data, queue, cleaner, walk>>
-----------------------------------------------------------------------------
(* agwpe_cleanup_task() *)

Receive ==
  /\ cleaner.step = "wait" /\ queue # <<>>
  /\ cleaner' = [step |-> "remove", slot |-> Head(queue).slot, client |-> Head(queue).client]
  /\ queue' = Tail(queue)
  /\ UNCHANGED <<slots, live, conns, walk, leaked>>

RemoveClient ==
  /\ cleaner.step = "remove"
  /\ live' = live \ {cleaner.client}
  /\ cleaner' = [cleaner EXCEPT !.step = "clear"]
  /\ UNCHANGED <<slots, conns, queue, walk, leaked>>

\* Without the mutex.
ClearSlot ==
  /\ cleaner.step = "clear"
  /\ slots' = [slots EXCEPT ![cleaner.slot] = [Empty EXCEPT !.in_use = TRUE]]
  /\ cleaner' = [cleaner EXCEPT !.step = "free"]
  /\ UNCHANGED <<live, conns, queue, walk, leaked>>

\* Mutant: without the mutex.
FreeSlotUnlocked ==
  /\ cleaner.step = "free"
  /\ slots' = [slots EXCEPT ![cleaner.slot] = Empty]
  /\ cleaner' = Resting
  /\ UNCHANGED <<live, conns, queue, walk, leaked>>

\* Mutant: a slot whose flag is cleared already is passed over.
FreeSlotPending ==
  /\ cleaner.step = "free" /\ Unlocked
  /\ slots' = [slots EXCEPT ![cleaner.slot] = IF slots[cleaner.slot].pending THEN Empty ELSE @]
  /\ cleaner' = Resting
  /\ UNCHANGED <<live, conns, queue, walk, leaked>>

FreeSlot ==
  /\ cleaner.step = "free" /\ Unlocked
  /\ slots' = [slots EXCEPT ![cleaner.slot] = Empty]
  /\ cleaner' = Resting
  /\ UNCHANGED <<live, conns, queue, walk, leaked>>

Cleanup == Receive \/ RemoveClient \/ ClearSlot \/ FreeSlot
-----------------------------------------------------------------------------
(* uart_port_frame_cb(), for a UI frame *)

WalkStarts ==
  /\ Unlocked
  /\ walk' = [at |-> 1, client |-> None]
  /\ UNCHANGED <<slots, live, conns, queue, cleaner, leaked>>

WalkLooks ==
  /\ walk.at \in Slots /\ walk.client = None
  /\ LET slot == slots[walk.at]
     IN  walk' = IF slot.in_use /\ slot.client # None
                 THEN [walk EXCEPT !.client = slot.client]
                 ELSE [walk EXCEPT !.at = @ + 1]
  /\ UNCHANGED <<slots, live, conns, queue, cleaner, leaked>>

WalkCalls ==
  /\ walk.client # None
  /\ walk' = [at |-> walk.at + 1, client |-> None]
  /\ UNCHANGED <<slots, live, conns, queue, cleaner, leaked>>

WalkEnds ==
  /\ walk.at = N + 1
  /\ walk' = NotWalking
  /\ UNCHANGED <<slots, live, conns, queue, cleaner, leaked>>

Walk == WalkLooks \/ WalkCalls \/ WalkEnds
-----------------------------------------------------------------------------
AgwpeInit ==
  /\ slots = [s \in Slots |-> Empty] /\ live = {}
  /\ user_data = [c \in Conns |-> None]
  /\ pc = [c \in Conns |-> "closed"] /\ mine = [c \in Conns |-> None]
  /\ queue = <<>> /\ cleaner = Resting /\ walk = NotWalking
  /\ leaked = {}

Comes(c) == Claim(c) \/ Refuse(c) \/ AddClient(c) \/ AddClientFails(c) \/ Link(c)

Goes(c) ==
  \/ DisconnectUnserved(c) \/ Disconnect(c)
  \/ RequestCleanup(c) \/ Enqueue(c) \/ EnqueueTimesOut(c)

AgwpeNext ==
  \/ \E c \in Conns : Comes(c) \/ Goes(c)
  \/ Cleanup
  \/ WalkStarts \/ Walk

AgwpeSpec == AgwpeInit /\ [][AgwpeNext]_agwpe
-----------------------------------------------------------------------------
(* Properties. *)

SlotRecord ==
  [in_use : BOOLEAN, conn : Conns \cup {None}, client : Clients \cup {None}, pending : BOOLEAN]

AgwpeTypeOK ==
  /\ slots \in [Slots -> SlotRecord]
  /\ live \subseteq Clients
  /\ user_data \in [Conns -> Slots \cup {None}]
  /\ pc \in [Conns -> {"closed", "adding", "linking", "up", "unserved", "leaving", "asking"}]
  /\ mine \in [Conns -> Slots \cup {None}]
  /\ queue \in Seq([slot : Slots, client : Clients]) /\ Len(queue) <= CleanupLen
  /\ cleaner \in [step : {"wait", "remove", "clear", "free"},
                  slot : Slots \cup {None}, client : Clients \cup {None}]
  /\ walk \in [at : 0 .. N + 1, client : Clients \cup {None}]
  /\ leaked \subseteq Slots

\* What a connection's callbacks rely on: the slot its user data leads to
\* is in use, is the one made for it, with a client that lives, and is not
\* being cleaned; and no other connection's leads there.  The tests for less
\* (main.c:785-794, 818) are never needed.
Served ==
  \A c \in Conns :
    user_data[c] # None =>
      /\ slots[user_data[c]] = [in_use |-> TRUE, conn |-> c, pending |-> FALSE,
                                client |-> [slot |-> user_data[c], conn |-> c]]
      /\ [slot |-> user_data[c], conn |-> c] \in live

\* What a client sends goes to the connection it was made for or nowhere
\* (on_agwpe_frame_out), although its slot may lose that connection, be freed
\* and be given to another, and slots change without the mutex.
FramesHome ==
  \A client \in live : slots[client.slot].conn \in {None, client.conn}

\* Each slot that is in use is held by exactly one of those who will free it,
\* or its cleanup was given up: none is freed twice, and none is forgotten.
Holders(s) ==
  {<<"conn", c>> : c \in {d \in Conns : s \in {mine[d], user_data[d]}}}
    \cup {<<"queue", i>> : i \in {j \in DOMAIN queue : queue[j].slot = s}}
    \cup (IF cleaner.slot = s THEN {<<"cleaner", s>>} ELSE {})
    \cup (IF s \in leaked THEN {<<"leaked", s>>} ELSE {})

OneHolder ==
  \A s \in Slots : Cardinality(Holders(s)) = IF slots[s].in_use THEN 1 ELSE 0

\* A slot can only be lost while the queue is full of others, so that with
\* CleanupLen slots or fewer none ever is, and else no more than exceed it.
LossBounded == leaked # {} => Cardinality(leaked) + CleanupLen <= N

\* The walk calls, or finds, a client that is gone only in the slot the cleanup
\* task is at, between removing the client and freeing the slot.
GoneOnlyInCleanup ==
  walk.client # None =>
    \A client \in {walk.client, slots[walk.at].client} :
      client \in live \/ (cleaner.slot = walk.at /\ cleaner.step \in {"clear", "free"})

\* A slot whose cleanup was asked for is freed.
CleanedUp ==
  \A s \in Slots : (\E i \in DOMAIN queue : queue[i].slot = s) ~> ~slots[s].in_use
=============================================================================
