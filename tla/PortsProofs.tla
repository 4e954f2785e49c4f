---------------------------- MODULE PortsProofs -----------------------------
(***************************************************************************)
(* The slots and ports of clients, for any number of slots and connections *)
(* and any length of the cleanup queue: the inductive invariants of        *)
(* AgwpeSlots and KissPorts, that they survive the boot and restarts of    *)
(* Boot, and what follows from them.                                       *)
(***************************************************************************)
EXTENDS Boot, FiniteSetTheorems, SequenceTheorems, TLAPS

Client(s, c) == [slot |-> s, conn |-> c]

\* What a slot that is in use can hold.
Bare == [in_use |-> TRUE, conn |-> None, client |-> None, pending |-> FALSE]
Serving(s, c) == [in_use |-> TRUE, conn |-> c, client |-> Client(s, c), pending |-> FALSE]
Parted(client) == [in_use |-> TRUE, conn |-> None, client |-> client, pending |-> FALSE]
Waiting(client) == [in_use |-> TRUE, conn |-> None, client |-> client, pending |-> TRUE]

Holds(c, s) == mine[c] = s \/ user_data[c] = s
Queued(s) == \E i \in DOMAIN queue : queue[i].slot = s

\* What is in the slot that a connection's callback, a request, the cleanup
\* task, a cleanup given up and a walk have in hand.
ConnOK(c) ==
  /\ pc[c] \in {"closed", "unserved"} => mine[c] = None /\ user_data[c] = None
  /\ pc[c] = "up" =>
       /\ mine[c] = None /\ user_data[c] \in Slots
       /\ slots[user_data[c]] = Serving(user_data[c], c)
       /\ Client(user_data[c], c) \in live
  /\ pc[c] \in {"adding", "linking", "leaving", "asking"} =>
       user_data[c] = None /\ mine[c] \in Slots
  /\ pc[c] = "adding" => slots[mine[c]] = Bare
  /\ pc[c] = "linking" => slots[mine[c]] = Serving(mine[c], c)
  /\ pc[c] = "leaving" => slots[mine[c]] = Parted(Client(mine[c], c))
  /\ pc[c] = "asking" => slots[mine[c]] = Waiting(Client(mine[c], c))
  /\ pc[c] \in {"linking", "leaving", "asking"} => Client(mine[c], c) \in live

RequestOK(r) == slots[r.slot] = Waiting(r.client) /\ r.client.slot = r.slot /\ r.client \in live

CleanerOK ==
  /\ cleaner.step = "wait" => cleaner = Resting
  /\ cleaner.step # "wait" => cleaner.slot \in Slots /\ cleaner.client \in Clients
  /\ cleaner.step = "remove" => RequestOK(cleaner)
  /\ cleaner.step = "clear" =>
       /\ slots[cleaner.slot] = Waiting(cleaner.client) /\ cleaner.client.slot = cleaner.slot
       /\ cleaner.client \notin live
  /\ cleaner.step = "free" => slots[cleaner.slot] = Bare

LeakedOK(s) == \E client \in live : slots[s] = Parted(client) /\ client.slot = s

WalkOK ==
  walk.client # None =>
    /\ walk.at \in Slots
    /\ \/ /\ slots[walk.at].client = walk.client
          /\ walk.client \in live \/ (cleaner.slot = walk.at /\ cleaner.step = "clear")
       \/ cleaner.slot = walk.at /\ cleaner.step = "free"

\* Nobody has a slot in hand that another has.
OneEach ==
  /\ \A c, d \in Conns, s \in Slots : Holds(c, s) /\ Holds(d, s) => c = d
  /\ \A c \in Conns, s \in Slots : Holds(c, s) => ~Queued(s) /\ cleaner.slot # s /\ s \notin leaked
  /\ \A s \in Slots : Queued(s) => cleaner.slot # s /\ s \notin leaked
  /\ cleaner.slot \notin leaked
  /\ \A i, j \in DOMAIN queue : queue[i].slot = queue[j].slot => i = j

SlotOK(s) ==
  /\ slots[s].in_use \/ slots[s] = Empty
  /\ slots[s].in_use =>
       (\E c \in Conns : Holds(c, s)) \/ Queued(s) \/ cleaner.slot = s \/ s \in leaked

LiveOK == \A client \in live : slots[client.slot].client = client

AgwpeInv ==
  /\ AgwpeTypeOK
  /\ \A c \in Conns : ConnOK(c)
  /\ \A i \in DOMAIN queue : RequestOK(queue[i])
  /\ CleanerOK
  /\ \A s \in leaked : LeakedOK(s)
  /\ OneEach
  /\ \A s \in Slots : SlotOK(s)
  /\ LiveOK
  /\ WalkOK
-----------------------------------------------------------------------------
(* What a step that changes one slot leaves as it is. *)

Only(s) ==
  /\ slots' \in [Slots -> SlotRecord] /\ live' \subseteq Clients
  /\ \A t \in Slots : t # s => slots'[t] = slots[t]
  /\ \A client \in Clients : client.slot # s => (client \in live' <=> client \in live)

\* The parts of the invariant, by name.
LEMMA Parts ==
  ASSUME AgwpeInv
  PROVE  /\ AgwpeTypeOK /\ CleanerOK /\ OneEach /\ LiveOK /\ WalkOK
         /\ \A c \in Conns : ConnOK(c)
         /\ \A i \in DOMAIN queue : RequestOK(queue[i])
         /\ \A s \in leaked : LeakedOK(s)
         /\ \A s \in Slots : SlotOK(s)
BY Zenon DEF AgwpeInv

\* Where a connection's callback can be.
Stages == {"closed", "adding", "linking", "up", "unserved", "leaving", "asking"}

\* The types of the variables, one by one.
LEMMA Types ==
  ASSUME AgwpeInv
  PROVE  /\ slots \in [Slots -> SlotRecord] /\ live \subseteq Clients
         /\ \A c \in Conns : /\ user_data[c] \in Slots \cup {None} /\ mine[c] \in Slots \cup {None}
                             /\ pc[c] \in Stages
         /\ queue \in Seq([slot : Slots, client : Clients]) /\ Len(queue) <= CleanupLen
         /\ cleaner.step \in {"wait", "remove", "clear", "free"}
         /\ cleaner.slot \in Slots \cup {None} /\ cleaner.client \in Clients \cup {None}
         /\ walk.at \in 0 .. N + 1 /\ walk.client \in Clients \cup {None}
         /\ leaked \subseteq Slots
<1>1. AgwpeTypeOK
  BY Parts
<1> QED BY <1>1 DEF AgwpeTypeOK, Stages

\* A slot that is in use, or not, in each of its contents is a slot record.
LEMMA Contents ==
  /\ Bare \in SlotRecord /\ Empty \in SlotRecord
  /\ \A client \in Clients : Parted(client) \in SlotRecord /\ Waiting(client) \in SlotRecord
  /\ \A s \in Slots, c \in Conns : Client(s, c) \in Clients /\ Serving(s, c) \in SlotRecord
BY DEF Bare, Empty, Parted, Waiting, Serving, Client, Clients, SlotRecord

\* A slot record with a field changed.
LEMMA Changed ==
  ASSUME NEW r \in SlotRecord
  PROVE  /\ \A b \in BOOLEAN : [r EXCEPT !.in_use = b] =
              [in_use |-> b, conn |-> r.conn, client |-> r.client, pending |-> r.pending]
         /\ \A c \in Conns \cup {None} : [r EXCEPT !.conn = c] =
              [in_use |-> r.in_use, conn |-> c, client |-> r.client, pending |-> r.pending]
         /\ \A x \in Clients \cup {None} : [r EXCEPT !.client = x] =
              [in_use |-> r.in_use, conn |-> r.conn, client |-> x, pending |-> r.pending]
         /\ \A b \in BOOLEAN : [r EXCEPT !.pending = b] =
              [in_use |-> r.in_use, conn |-> r.conn, client |-> r.client, pending |-> b]
<1>1. ASSUME NEW b \in BOOLEAN
      PROVE  [r EXCEPT !.in_use = b] =
               [in_use |-> b, conn |-> r.conn, client |-> r.client, pending |-> r.pending]
  BY DEF SlotRecord
<1>2. ASSUME NEW c \in Conns \cup {None}
      PROVE  [r EXCEPT !.conn = c] =
               [in_use |-> r.in_use, conn |-> c, client |-> r.client, pending |-> r.pending]
  BY DEF SlotRecord
<1>3. ASSUME NEW x \in Clients \cup {None}
      PROVE  [r EXCEPT !.client = x] =
               [in_use |-> r.in_use, conn |-> r.conn, client |-> x, pending |-> r.pending]
  BY DEF SlotRecord
<1>4. ASSUME NEW b \in BOOLEAN
      PROVE  [r EXCEPT !.pending = b] =
               [in_use |-> r.in_use, conn |-> r.conn, client |-> r.client, pending |-> b]
  BY DEF SlotRecord
<1> QED BY <1>1, <1>2, <1>3, <1>4

\* What alloc_agwpe_client_slot() makes of a free slot.
LEMMA TakenIsBare == [Empty EXCEPT !.in_use = TRUE] = Bare
<1>1. [Empty EXCEPT !.in_use = TRUE] =
        [in_use |-> TRUE, conn |-> Empty.conn, client |-> Empty.client, pending |-> Empty.pending]
  BY Contents, Changed
<1>2. Empty.conn = None /\ Empty.client = None /\ Empty.pending = FALSE
  BY DEF Empty
<1> QED BY <1>1, <1>2 DEF Bare

\* Nobody is taken for a slot, a connection or a client.
LEMMA Nobody == None \notin Slots /\ None \notin Conns /\ None \notin Clients
BY AgwpeAssumption

\* What a request in the queue is.
LEMMA Requests ==
  ASSUME AgwpeTypeOK, NEW i \in DOMAIN queue
  PROVE  queue[i] \in [slot : Slots, client : Clients]
<1> DEFINE R == [slot : Slots, client : Clients]
<1>1. queue \in Seq(R)
  BY DEF AgwpeTypeOK
<1> HIDE DEF R
<1>2. i \in 1 .. Len(queue)
  BY <1>1, LenProperties
<1>3. queue[i] \in R
  BY <1>1, <1>2, ElementOfSeq
<1> QED BY <1>3 DEF R

\* A connection whose slot is another keeps what it relies on.
LEMMA ConnKept ==
  ASSUME AgwpeInv, NEW s \in Slots, Only(s), NEW d \in Conns, ~Holds(d, s),
         mine'[d] = mine[d], user_data'[d] = user_data[d], pc'[d] = pc[d]
  PROVE  ConnOK(d)'
<1>1. ConnOK(d) /\ AgwpeTypeOK
  BY DEF AgwpeInv
<1>2. \A t \in Slots : t # s => slots'[t] = slots[t] /\ (Client(t, d) \in live => Client(t, d) \in live')
  BY Contents DEF Only, Client
<1>3. mine[d] # s /\ user_data[d] # s
  BY DEF Holds
<1>4. CASE pc[d] \in {"closed", "unserved"}
  BY <1>1, <1>4 DEF ConnOK
<1>5. CASE pc[d] = "up"
  BY <1>1, <1>2, <1>3, <1>5 DEF ConnOK
<1>6. CASE pc[d] \in {"adding", "linking", "leaving", "asking"}
  <2>1. /\ mine[d] \in Slots /\ user_data[d] = None /\ mine[d] # s
        /\ slots'[mine[d]] = slots[mine[d]]
        /\ Client(mine[d], d) \in live => Client(mine[d], d) \in live'
    BY <1>1, <1>2, <1>3, <1>6 DEF ConnOK
  <2> QED BY <1>1, <1>6, <2>1 DEF ConnOK
<1> QED BY <1>1, <1>4, <1>5, <1>6 DEF AgwpeTypeOK

\* So does a request that is in the queue,
LEMMA RequestsKept ==
  ASSUME AgwpeInv, NEW s \in Slots, Only(s), ~Queued(s), queue' = queue
  PROVE  \A i \in DOMAIN queue' : RequestOK(queue[i])'
<1> SUFFICES ASSUME NEW i \in DOMAIN queue PROVE RequestOK(queue[i])'
  OBVIOUS
<1>1. queue[i].slot \in Slots /\ queue[i].client \in Clients /\ queue[i].slot # s
  BY Requests DEF AgwpeInv, Queued
<1>2. RequestOK(queue[i])
  BY DEF AgwpeInv
<1> QED BY <1>1, <1>2 DEF RequestOK, Only

\* the cleanup task,
LEMMA CleanerKept ==
  ASSUME AgwpeInv, NEW s \in Slots, Only(s), cleaner.slot # s, cleaner' = cleaner
  PROVE  CleanerOK'
<1>1. CleanerOK
  BY DEF AgwpeInv
<1> QED BY <1>1 DEF CleanerOK, RequestOK, Only

\* a cleanup that was given up,
LEMMA LeakedKept ==
  ASSUME AgwpeInv, NEW s \in Slots, Only(s), NEW t \in leaked, t # s
  PROVE  LeakedOK(t)'
<1>1. LeakedOK(t) /\ t \in Slots /\ live \subseteq Clients
  BY DEF AgwpeInv, AgwpeTypeOK
<1> QED BY <1>1 DEF LeakedOK, Only

\* and every client in another slot.
LEMMA LiveKept ==
  ASSUME AgwpeInv, NEW s \in Slots, Only(s),
         \A client \in live' : client.slot = s => slots'[s].client = client
  PROVE  LiveOK'
<1>1. LiveOK
  BY DEF AgwpeInv
<1>2. \A client \in live' : client \in Clients /\ client.slot \in Slots
  BY DEF Only, Clients
<1> QED BY <1>1, <1>2 DEF LiveOK, Only
-----------------------------------------------------------------------------
(* agwpe_on_connected() *)

\* A free slot is in nobody's hand.
LEMMA FreeIsFree ==
  ASSUME AgwpeInv, NEW s \in Slots, ~slots[s].in_use
  PROVE  /\ slots[s] = Empty /\ ~Queued(s) /\ cleaner.slot # s /\ s \notin leaked
         /\ \A c \in Conns : ~Holds(c, s)
         /\ \A client \in live : client.slot # s
<1>1. slots[s] = Empty
  BY DEF AgwpeInv, SlotOK
<1>2. ~Queued(s)
  <2> SUFFICES ASSUME NEW i \in DOMAIN queue, queue[i].slot = s PROVE FALSE
    BY DEF Queued
  <2>1. slots[s] = Waiting(queue[i].client)
    BY Parts DEF RequestOK
  <2> QED BY <2>1 DEF Waiting
<1>3. cleaner.slot # s
  <2>1. CleanerOK /\ cleaner.step \in {"wait", "remove", "clear", "free"}
    BY Parts, Types
  <2>2. CASE cleaner.step = "wait"
    BY <2>1, <2>2, Nobody DEF CleanerOK, Resting
  <2>3. CASE cleaner.step # "wait"
    <3>1. slots[cleaner.slot].in_use
      BY <2>1, <2>3 DEF CleanerOK, RequestOK, Waiting, Bare
    <3> QED BY <3>1
  <2> QED BY <2>2, <2>3
<1>4. s \notin leaked
  <2> SUFFICES ASSUME s \in leaked PROVE FALSE
    OBVIOUS
  <2>1. PICK client \in live : slots[s] = Parted(client)
    BY Parts DEF LeakedOK
  <2> QED BY <2>1 DEF Parted
<1>5. ASSUME NEW c \in Conns PROVE ~Holds(c, s)
  <2>1. ConnOK(c) /\ pc[c] \in Stages
    BY Parts, Types
  <2>2. CASE pc[c] \in {"closed", "unserved"}
    BY <2>1, <2>2, Nobody DEF ConnOK, Holds
  <2>3. CASE pc[c] = "up"
    BY <2>1, <2>3, Nobody DEF ConnOK, Holds, Serving
  <2>4. CASE pc[c] \in {"adding", "linking", "leaving", "asking"}
    <3>1. slots[mine[c]].in_use /\ user_data[c] = None
      BY <2>1, <2>4 DEF ConnOK, Bare, Serving, Parted, Waiting
    <3> QED BY <3>1, Nobody DEF Holds
  <2> QED BY <2>1, <2>2, <2>3, <2>4 DEF Stages
<1>6. \A client \in live : client.slot # s
  <2>1. slots[s].client = None
    BY <1>1 DEF Empty
  <2>2. LiveOK /\ live \subseteq Clients
    BY DEF AgwpeInv, AgwpeTypeOK
  <2> QED BY <2>1, <2>2, Nobody DEF LiveOK
<1> QED BY <1>1, <1>2, <1>3, <1>4, <1>5, <1>6

\* alloc_agwpe_client_slot() (main.c:630).
LEMMA ClaimKeeps == ASSUME AgwpeInv, NEW c \in Conns, Claim(c) PROVE AgwpeInv'
<1>1. PICK s \in Slots :
        /\ ~slots[s].in_use
        /\ slots' = [slots EXCEPT ![s] = [Empty EXCEPT !.in_use = TRUE]]
        /\ mine' = [mine EXCEPT ![c] = s]
  BY DEF Claim, FreeSlots
<1>2. /\ pc[c] = "closed" /\ pc' = [pc EXCEPT ![c] = "adding"] /\ walk = NotWalking
      /\ UNCHANGED <<live, user_data, queue, cleaner, walk, leaked>>
  BY DEF Claim, Unlocked
<1>3. [Empty EXCEPT !.in_use = TRUE] = Bare
  BY TakenIsBare
<1>4. AgwpeTypeOK /\ slots' = [slots EXCEPT ![s] = Bare]
  BY <1>1, <1>3 DEF AgwpeInv
<1>5. /\ slots'[s] = Bare /\ mine'[c] = s /\ pc'[c] = "adding"
      /\ user_data[c] = None /\ mine[c] = None
  <2>1. ConnOK(c)
    BY DEF AgwpeInv
  <2>2. user_data[c] = None /\ mine[c] = None
    BY <1>2, <2>1 DEF ConnOK
  <2> QED BY <1>1, <1>2, <1>4, <2>2 DEF AgwpeTypeOK
<1>6. Only(s)
  BY <1>2, <1>4, Contents DEF Only, AgwpeTypeOK
<1>7. /\ ~Queued(s) /\ cleaner.slot # s /\ s \notin leaked
      /\ \A d \in Conns : ~Holds(d, s)
      /\ \A client \in live : client.slot # s
  BY <1>1, FreeIsFree
<1>8. AgwpeTypeOK'
  <2>1. /\ slots' \in [Slots -> SlotRecord]
        /\ mine' \in [Conns -> Slots \cup {None}]
        /\ pc' \in [Conns -> Stages]
    <3>1. pc \in [Conns -> Stages] /\ "adding" \in Stages
      BY <1>4 DEF AgwpeTypeOK, Stages
    <3>2. mine \in [Conns -> Slots \cup {None}] /\ slots \in [Slots -> SlotRecord]
      BY <1>4 DEF AgwpeTypeOK
    <3> QED BY <1>1, <1>2, <1>4, <3>1, <3>2, Contents
  <2> QED BY <1>2, <1>4, <2>1 DEF AgwpeTypeOK, Stages
<1>9. ASSUME NEW d \in Conns PROVE ConnOK(d)'
  <2>1. CASE d = c
    BY <1>2, <1>5, <2>1 DEF ConnOK
  <2>2. CASE d # c
    BY <1>1, <1>2, <1>6, <1>7, <2>2, ConnKept DEF AgwpeTypeOK, AgwpeInv
  <2> QED BY <2>1, <2>2
<1>10. /\ \A i \in DOMAIN queue' : RequestOK(queue[i])'
       /\ CleanerOK' /\ LiveOK' /\ \A t \in leaked' : LeakedOK(t)'
  BY <1>2, <1>6, <1>7, RequestsKept, CleanerKept, LiveKept, LeakedKept
<1>11. \A d \in Conns, t \in Slots : Holds(d, t)' <=> Holds(d, t) \/ (d = c /\ t = s)
  BY <1>1, <1>2, <1>5, <1>4, Nobody DEF Holds, AgwpeTypeOK
<1>12. \A t : Queued(t)' <=> Queued(t)
  BY <1>2 DEF Queued
<1>13. OneEach'
  BY <1>2, <1>7, <1>11, <1>12 DEF AgwpeInv, OneEach
<1>14. ASSUME NEW t \in Slots PROVE SlotOK(t)'
  <2>1. CASE t = s
    BY <1>5, <1>11, <2>1 DEF SlotOK, Bare
  <2>2. CASE t # s
    BY <1>2, <1>6, <1>11, <1>12, <2>2 DEF AgwpeInv, SlotOK, Only
  <2> QED BY <2>1, <2>2
<1>15. WalkOK'
  BY <1>2 DEF WalkOK, NotWalking
<1> QED BY <1>8, <1>9, <1>10, <1>13, <1>14, <1>15 DEF AgwpeInv

\* Where a connection's callback is after a step: pc, slot and user data.
ConnStep(c, p, m, u) ==
  /\ pc' \in [Conns -> Stages] /\ pc'[c] = p
  /\ mine' \in [Conns -> Slots \cup {None}] /\ mine'[c] = m
  /\ user_data' \in [Conns -> Slots \cup {None}] /\ user_data'[c] = u
  /\ \A d \in Conns : d # c => pc'[d] = pc[d] /\ mine'[d] = mine[d] /\ user_data'[d] = user_data[d]

\* Such a step from what the callbacks of agwpe_on_connected() and
\* agwpe_on_disconnected() assign.
LEMMA ConnStepIs ==
  ASSUME AgwpeInv, NEW c \in Conns,
         NEW p \in Stages, NEW m \in Slots \cup {None}, NEW u \in Slots \cup {None},
         pc' = [pc EXCEPT ![c] = p],
         mine' = [mine EXCEPT ![c] = m] \/ (mine' = mine /\ mine[c] = m),
         user_data' = [user_data EXCEPT ![c] = u] \/ (user_data' = user_data /\ user_data[c] = u)
  PROVE  ConnStep(c, p, m, u)
<1>1. /\ pc \in [Conns -> Stages]
      /\ mine \in [Conns -> Slots \cup {None}]
      /\ user_data \in [Conns -> Slots \cup {None}]
  BY Parts DEF AgwpeTypeOK, Stages
<1>2. /\ pc' \in [Conns -> Stages] /\ pc'[c] = p
      /\ \A d \in Conns : d # c => pc'[d] = pc[d]
  BY <1>1
<1>3. /\ mine' \in [Conns -> Slots \cup {None}] /\ mine'[c] = m
      /\ \A d \in Conns : d # c => mine'[d] = mine[d]
  BY <1>1
<1>4. /\ user_data' \in [Conns -> Slots \cup {None}] /\ user_data'[c] = u
      /\ \A d \in Conns : d # c => user_data'[d] = user_data[d]
  BY <1>1
<1> QED BY <1>2, <1>3, <1>4 DEF ConnStep

\* A step that writes one slot and adds or removes only clients of it.
LEMMA OnlyIs ==
  ASSUME AgwpeInv, NEW s \in Slots, NEW r \in SlotRecord,
         slots' = [slots EXCEPT ![s] = r],
         live' \subseteq Clients,
         \A client \in Clients : client.slot # s => (client \in live' <=> client \in live)
  PROVE  Only(s) /\ slots'[s] = r
<1>1. slots \in [Slots -> SlotRecord]
  BY Types
<1>2. slots' \in [Slots -> SlotRecord] /\ slots'[s] = r /\ \A t \in Slots : t # s => slots'[t] = slots[t]
  BY <1>1
<1> QED BY <1>2 DEF Only

\* The slot that a connection has in hand is in no other's.
LEMMA Alone ==
  ASSUME AgwpeInv, NEW c \in Conns, NEW s \in Slots, Holds(c, s) \/ ~slots[s].in_use
  PROVE  /\ ~Queued(s) /\ cleaner.slot # s /\ s \notin leaked
         /\ \A d \in Conns : d # c => ~Holds(d, s)
<1>1. CASE Holds(c, s)
  BY <1>1, Parts DEF OneEach
<1>2. CASE ~slots[s].in_use
  BY <1>2, FreeIsFree
<1> QED BY <1>1, <1>2

\* A callback's step on its own slot, or on one it takes.
LEMMA ConnStepKeeps ==
  ASSUME AgwpeInv, NEW c \in Conns, NEW s \in Slots, NEW p, NEW m, NEW u,
         ConnStep(c, p, m, u), Only(s),
         queue' = queue, cleaner' = cleaner, walk' = walk, leaked' = leaked,
         Holds(c, s) \/ ~slots[s].in_use,
         ConnOK(c)',
         \A t \in Slots : t # s => (Holds(c, t)' <=> Holds(c, t)),
         SlotOK(s)',
         \A client \in live' : client.slot = s => slots'[s].client = client,
         WalkOK'
  PROVE  AgwpeInv'
<1>1. /\ ~Queued(s) /\ cleaner.slot # s /\ s \notin leaked
      /\ \A d \in Conns : d # c => ~Holds(d, s)
  BY Alone
<1>2. AgwpeTypeOK'
  <2>1. /\ slots' \in [Slots -> SlotRecord] /\ live' \subseteq Clients
        /\ pc' \in [Conns -> Stages]
        /\ mine' \in [Conns -> Slots \cup {None}]
        /\ user_data' \in [Conns -> Slots \cup {None}]
    BY DEF ConnStep, Only
  <2>2. /\ queue' = queue /\ cleaner' = cleaner /\ walk' = walk /\ leaked' = leaked
    OBVIOUS
  <2>3. AgwpeTypeOK
    BY Parts
  <2> QED BY <2>1, <2>2, <2>3 DEF AgwpeTypeOK, Stages
<1>3. ASSUME NEW d \in Conns PROVE ConnOK(d)'
  <2>1. CASE d = c
    BY <2>1
  <2>2. CASE d # c
    BY <1>1, <2>2, ConnKept DEF ConnStep
  <2> QED BY <2>1, <2>2
<1>4. /\ \A i \in DOMAIN queue' : RequestOK(queue[i])'
      /\ CleanerOK' /\ LiveOK'
  BY <1>1, RequestsKept, CleanerKept, LiveKept
<1>5. \A t \in leaked' : LeakedOK(t)'
  BY <1>1, LeakedKept
<1>6. \A d \in Conns, t \in Slots : d # c => (Holds(d, t)' <=> Holds(d, t))
  BY DEF ConnStep, Holds
<1>7. \A t \in Slots : Queued(t)' <=> Queued(t)
  BY DEF Queued
<1>8. OneEach'
  <2>1. OneEach
    BY Parts
  <2>2. ASSUME NEW d \in Conns, NEW e \in Conns, NEW t \in Slots, Holds(d, t)', Holds(e, t)'
        PROVE  d = e
    BY <1>1, <1>6, <2>1, <2>2 DEF OneEach
  <2>3. ASSUME NEW d \in Conns, NEW t \in Slots, Holds(d, t)'
        PROVE  ~Queued(t)' /\ cleaner'.slot # t /\ t \notin leaked'
    BY <1>1, <1>6, <1>7, <2>1, <2>3 DEF OneEach
  <2>4. /\ \A t \in Slots : Queued(t)' => cleaner'.slot # t /\ t \notin leaked'
        /\ cleaner'.slot \notin leaked'
        /\ \A i, j \in DOMAIN queue' : queue'[i].slot = queue'[j].slot => i = j
    BY <1>7, <2>1 DEF OneEach
  <2> QED BY <2>2, <2>3, <2>4 DEF OneEach
<1>9. ASSUME NEW t \in Slots PROVE SlotOK(t)'
  <2>1. CASE t = s
    BY <2>1
  <2>2. CASE t # s
    <3>1. SlotOK(t) /\ slots'[t] = slots[t]
      BY <2>2, Parts DEF Only
    <3>2. (\E d \in Conns : Holds(d, t)) => \E d \in Conns : Holds(d, t)'
      BY <1>6, <2>2
    <3> QED BY <1>7, <3>1, <3>2 DEF SlotOK
  <2> QED BY <2>1, <2>2
<1> QED BY <1>2, <1>3, <1>4, <1>5, <1>8, <1>9 DEF AgwpeInv

\* A walk finds what it is about to call, although a callback changes a slot,
\* if that slot keeps its client.
LEMMA WalkKept ==
  ASSUME AgwpeInv, NEW s \in Slots, Only(s),
         slots'[s].client = slots[s].client \/ walk.client = None
           \/ (slots[s].client = None /\ cleaner.slot # s),
         \A client \in live : client \in live',
         cleaner' = cleaner, walk' = walk
  PROVE  WalkOK'
<1>1. WalkOK /\ walk.client \in Clients \cup {None}
  BY Parts, Types
<1> QED BY <1>1 DEF WalkOK, Only

\* ax25_agwpe_server_add_client() (main.c:752).
LEMMA AddClientKeeps == ASSUME AgwpeInv, NEW c \in Conns, AddClient(c) PROVE AgwpeInv'
<1>0. PICK s \in Slots : mine[c] = s
  BY Parts DEF AddClient, ConnOK
<1>1. /\ pc[c] = "adding" /\ pc' = [pc EXCEPT ![c] = "linking"]
      /\ slots' = [slots EXCEPT ![s].conn = c, ![s].client = Client(s, c)]
      /\ live' = live \cup {Client(s, c)}
      /\ UNCHANGED <<user_data, mine, queue, cleaner, walk, leaked>>
  BY <1>0 DEF AddClient, Client
<1>2. user_data[c] = None /\ slots[s] = Bare /\ ConnOK(c)
  BY <1>0, <1>1, Parts DEF ConnOK
<1>3. ConnStep(c, "linking", s, None)
  BY <1>0, <1>1, <1>2, ConnStepIs DEF Stages
<1>4. slots' = [slots EXCEPT ![s] = Serving(s, c)]
  <2> DEFINE r == [in_use |-> TRUE, conn |-> c, client |-> None, pending |-> FALSE]
  <2>1. [slots[s] EXCEPT !.conn = c] = r
    <3>1. [Bare EXCEPT !.conn = c] =
            [in_use |-> Bare.in_use, conn |-> c, client |-> Bare.client, pending |-> Bare.pending]
      BY Contents, Changed
    <3>2. Bare.in_use = TRUE /\ Bare.client = None /\ Bare.pending = FALSE
      BY DEF Bare
    <3> QED BY <1>2, <3>1, <3>2
  <2>2. r \in SlotRecord
    BY DEF SlotRecord
  <2>3. [r EXCEPT !.client = Client(s, c)] = Serving(s, c)
    BY <1>2, <2>2, Contents, Changed DEF Serving
  <2>4. slots \in [Slots -> SlotRecord]
    BY Types
  <2> HIDE DEF r
  <2>5. [slots EXCEPT ![s].conn = c] = [slots EXCEPT ![s] = r]
    BY <2>1
  <2>6. [[slots EXCEPT ![s] = r] EXCEPT ![s].client = Client(s, c)] = [slots EXCEPT ![s] = Serving(s, c)]
    BY <1>2, <2>3, <2>4
  <2> QED BY <1>1, <2>5, <2>6
<1>5. live \subseteq Clients /\ Client(s, c) \in Clients /\ Client(s, c).slot = s
  BY <1>2, Types, Contents DEF Client
<1>6. Only(s) /\ slots'[s] = Serving(s, c)
  BY <1>1, <1>2, <1>4, <1>5, Contents, OnlyIs
<1>7. Holds(c, s)
  BY <1>0 DEF Holds
<1>8. \A t \in Slots : t # s => (Holds(c, t)' <=> Holds(c, t))
  BY <1>1 DEF Holds
<1>9. ConnOK(c)' /\ SlotOK(s)'
  <2>1. pc'[c] = "linking" /\ mine'[c] = s /\ user_data'[c] = None
    BY <1>3 DEF ConnStep
  <2>2. ConnOK(c)'
    BY <1>1, <1>2, <1>6, <2>1 DEF ConnOK
  <2>3. Holds(c, s)'
    BY <2>1 DEF Holds
  <2> QED BY <1>6, <2>2, <2>3 DEF SlotOK, Serving
<1>10. \A client \in live' : client.slot = s => slots'[s].client = client
  <2>1. \A client \in live : client.slot # s
    BY <1>2, <1>5, Parts, Nobody DEF LiveOK, Bare
  <2> QED BY <1>1, <1>6, <2>1 DEF Serving
<1>11. WalkOK'
  <2>1. cleaner.slot # s /\ slots[s].client = None
    BY <1>2, <1>7, Alone DEF Bare
  <2> QED BY <1>1, <1>2, <1>6, <2>1, WalkKept
<1> QED BY <1>1, <1>2, <1>3, <1>6, <1>7, <1>8, <1>9, <1>10, <1>11, ConnStepKeeps

\* Its failure (main.c:759).
LEMMA AddClientFailsKeeps == ASSUME AgwpeInv, NEW c \in Conns, AddClientFails(c) PROVE AgwpeInv'
<1>0. PICK s \in Slots : mine[c] = s
  BY Parts DEF AddClientFails, ConnOK
<1>1. /\ pc[c] = "adding" /\ pc' = [pc EXCEPT ![c] = "unserved"]
      /\ slots' = [slots EXCEPT ![s] = Empty]
      /\ mine' = [mine EXCEPT ![c] = None]
      /\ walk = NotWalking
      /\ UNCHANGED <<live, user_data, queue, cleaner, walk, leaked>>
  BY <1>0 DEF AddClientFails, Unlocked
<1>2. user_data[c] = None /\ slots[s] = Bare /\ ConnOK(c) /\ Holds(c, s)
  BY <1>0, <1>1, Parts DEF ConnOK, Holds
<1>3. ConnStep(c, "unserved", None, None)
  BY <1>0, <1>1, <1>2, ConnStepIs DEF Stages
<1>4. live \subseteq Clients
  BY Types
<1>6. Only(s) /\ slots'[s] = Empty
  BY <1>1, <1>2, <1>4, Contents, OnlyIs
<1>7. pc'[c] = "unserved" /\ mine'[c] = None /\ user_data'[c] = None
  BY <1>3 DEF ConnStep
<1>8. \A t \in Slots : t # s => (Holds(c, t)' <=> Holds(c, t))
  BY <1>0, <1>2, <1>7, Nobody DEF Holds
<1>9. ConnOK(c)' /\ SlotOK(s)'
  BY <1>6, <1>7 DEF ConnOK, SlotOK, Empty
<1>10. \A client \in live' : client.slot = s => slots'[s].client = client
  BY <1>1, <1>2, <1>4, Parts, Nobody DEF LiveOK, Bare
<1>11. WalkOK'
  BY <1>1 DEF WalkOK, NotWalking
<1> QED BY <1>1, <1>2, <1>3, <1>6, <1>8, <1>9, <1>10, <1>11, ConnStepKeeps

\* The user data is set last (main.c:768).
LEMMA LinkKeeps == ASSUME AgwpeInv, NEW c \in Conns, Link(c) PROVE AgwpeInv'
<1>0. PICK s \in Slots : mine[c] = s
  BY Parts DEF Link, ConnOK
<1>1. /\ pc[c] = "linking" /\ pc' = [pc EXCEPT ![c] = "up"]
      /\ user_data' = [user_data EXCEPT ![c] = s]
      /\ mine' = [mine EXCEPT ![c] = None]
      /\ UNCHANGED <<slots, live, queue, cleaner, walk, leaked>>
  BY <1>0 DEF Link
<1>2. /\ user_data[c] = None /\ slots[s] = Serving(s, c) /\ ConnOK(c) /\ Holds(c, s)
      /\ Client(s, c) \in live
  BY <1>0, <1>1, Parts DEF ConnOK, Holds
<1>3. ConnStep(c, "up", None, s)
  BY <1>0, <1>1, <1>2, ConnStepIs DEF Stages
<1>4. live \subseteq Clients /\ slots \in [Slots -> SlotRecord]
  BY Types
<1>6. Only(s)
  BY <1>1, <1>4 DEF Only
<1>7. pc'[c] = "up" /\ mine'[c] = None /\ user_data'[c] = s
  BY <1>3 DEF ConnStep
<1>8. \A t \in Slots : t # s => (Holds(c, t)' <=> Holds(c, t))
  BY <1>0, <1>2, <1>7, Nobody DEF Holds
<1>9. ConnOK(c)' /\ SlotOK(s)'
  <2>1. slots'[s] = Serving(s, c) /\ Client(s, c) \in live'
    BY <1>1, <1>2
  <2>2. ConnOK(c)'
    BY <1>7, <2>1 DEF ConnOK
  <2>3. Holds(c, s)'
    BY <1>7 DEF Holds
  <2> QED BY <2>1, <2>2, <2>3 DEF SlotOK, Serving
<1>10. \A client \in live' : client.slot = s => slots'[s].client = client
  BY <1>1, Parts DEF LiveOK
<1>11. WalkOK'
  BY <1>1, <1>2, <1>6, WalkKept
<1> QED BY <1>1, <1>2, <1>3, <1>6, <1>8, <1>9, <1>10, <1>11, ConnStepKeeps

\* A connection that nobody serves comes and goes.
LEMMA UnservedKeeps ==
  ASSUME AgwpeInv, NEW c \in Conns, Refuse(c) \/ DisconnectUnserved(c)
  PROVE  AgwpeInv'
<1>1. PICK p \in {"closed", "unserved"} :
        /\ pc[c] \in {"closed", "unserved"} /\ pc' = [pc EXCEPT ![c] = p]
        /\ UNCHANGED <<slots, live, user_data, mine, queue, cleaner, walk, leaked>>
  BY DEF Refuse, DisconnectUnserved
<1>2. pc \in [Conns -> Stages] /\ p \in Stages
  BY Parts DEF AgwpeTypeOK, Stages
<1>3. pc' \in [Conns -> Stages] /\ pc'[c] = p /\ \A d \in Conns : d # c => pc'[d] = pc[d]
  BY <1>1, <1>2
<1>4. AgwpeTypeOK'
  BY <1>1, <1>3, Parts DEF AgwpeTypeOK, Stages
<1>5. ASSUME NEW d \in Conns PROVE ConnOK(d)'
  <2>1. ConnOK(d)
    BY Parts
  <2>2. CASE d = c
    BY <1>1, <1>3, <2>1, <2>2 DEF ConnOK
  <2>3. CASE d # c
    BY <1>1, <1>3, <2>1, <2>3 DEF ConnOK
  <2> QED BY <2>2, <2>3
<1>6. \A i \in DOMAIN queue' : RequestOK(queue[i])'
  BY <1>1, Parts DEF RequestOK
<1>7. CleanerOK' /\ WalkOK' /\ LiveOK'
  BY <1>1, Parts DEF CleanerOK, RequestOK, WalkOK, LiveOK
<1>8. \A s \in leaked' : LeakedOK(s)'
  BY <1>1, Parts DEF LeakedOK
<1>9. OneEach'
  BY <1>1, Parts DEF OneEach, Holds, Queued
<1>10. \A s \in Slots : SlotOK(s)'
  BY <1>1, Parts DEF SlotOK, Holds, Queued
<1> QED BY <1>4, <1>5, <1>6, <1>7, <1>8, <1>9, <1>10 DEF AgwpeInv
-----------------------------------------------------------------------------
(* agwpe_on_disconnected() *)

\* Up to the test of slot->client (main.c:777).
LEMMA DisconnectKeeps == ASSUME AgwpeInv, NEW c \in Conns, Disconnect(c) PROVE AgwpeInv'
<1>0. PICK s \in Slots : user_data[c] = s
  BY Parts DEF Disconnect, ConnOK
<1>1. /\ pc[c] = "up" /\ pc' = [pc EXCEPT ![c] = "leaving"]
      /\ mine' = [mine EXCEPT ![c] = s]
      /\ user_data' = [user_data EXCEPT ![c] = None]
      /\ slots' = [slots EXCEPT ![s].conn = None]
      /\ UNCHANGED <<live, queue, cleaner, walk, leaked>>
  BY <1>0 DEF Disconnect
<1>2. /\ mine[c] = None /\ slots[s] = Serving(s, c) /\ ConnOK(c) /\ Holds(c, s)
      /\ Client(s, c) \in live
  BY <1>0, <1>1, Parts DEF ConnOK, Holds
<1>3. ConnStep(c, "leaving", s, None)
  BY <1>0, <1>1, <1>2, ConnStepIs DEF Stages
<1>4. slots' = [slots EXCEPT ![s] = Parted(Client(s, c))]
  <2>1. Serving(s, c) \in SlotRecord
    BY Contents
  <2>2. [Serving(s, c) EXCEPT !.conn = None] =
          [in_use |-> Serving(s, c).in_use, conn |-> None,
           client |-> Serving(s, c).client, pending |-> Serving(s, c).pending]
    BY <2>1, Changed
  <2>3. /\ Serving(s, c).in_use = TRUE /\ Serving(s, c).client = Client(s, c)
        /\ Serving(s, c).pending = FALSE
    BY DEF Serving
  <2>4. [slots[s] EXCEPT !.conn = None] = Parted(Client(s, c))
    BY <1>2, <2>2, <2>3 DEF Parted
  <2> QED BY <1>1, <2>4
<1>5. live \subseteq Clients
  BY Types
<1>6. Only(s) /\ slots'[s] = Parted(Client(s, c))
  BY <1>1, <1>4, <1>5, Contents, OnlyIs
<1>7. pc'[c] = "leaving" /\ mine'[c] = s /\ user_data'[c] = None
  BY <1>3 DEF ConnStep
<1>8. \A t \in Slots : t # s => (Holds(c, t)' <=> Holds(c, t))
  BY <1>0, <1>2, <1>7, Nobody DEF Holds
<1>9. ConnOK(c)' /\ SlotOK(s)'
  <2>1. ConnOK(c)'
    BY <1>1, <1>2, <1>6, <1>7 DEF ConnOK
  <2>2. Holds(c, s)'
    BY <1>7 DEF Holds
  <2> QED BY <1>6, <2>1, <2>2 DEF SlotOK, Parted
<1>10. slots'[s].client = Client(s, c) /\ slots[s].client = Client(s, c)
  BY <1>2, <1>6 DEF Serving, Parted
<1>11. \A client \in live' : client.slot = s => slots'[s].client = client
  BY <1>1, <1>10, Parts DEF LiveOK
<1>12. WalkOK'
  BY <1>1, <1>2, <1>6, <1>10, WalkKept
<1> QED BY <1>1, <1>2, <1>3, <1>6, <1>8, <1>9, <1>11, <1>12, ConnStepKeeps

\* There is a client, and nobody asked before: cleanup_pending is set
\* (main.c:788).
LEMMA RequestCleanupKeeps == ASSUME AgwpeInv, NEW c \in Conns, RequestCleanup(c) PROVE AgwpeInv'
<1>0. PICK s \in Slots : mine[c] = s
  BY Parts DEF RequestCleanup, ConnOK
<1>1. pc[c] = "leaving" /\ UNCHANGED <<live, user_data, queue, cleaner, walk, leaked>>
  BY DEF RequestCleanup
<1>2. /\ user_data[c] = None /\ slots[s] = Parted(Client(s, c)) /\ ConnOK(c) /\ Holds(c, s)
      /\ Client(s, c) \in live
  BY <1>0, <1>1, Parts DEF ConnOK, Holds
<1>3. slots[s].client # None /\ slots[s].pending = FALSE /\ slots[s].client = Client(s, c)
  BY <1>2, Contents, Nobody DEF Parted
<1>4. /\ slots' = [slots EXCEPT ![s] = [slots[s] EXCEPT !.pending = TRUE]]
      /\ pc' = [pc EXCEPT ![c] = "asking"] /\ mine' = mine
  BY <1>0, <1>3 DEF RequestCleanup
<1>5. ConnStep(c, "asking", s, None)
  BY <1>0, <1>1, <1>2, <1>4, ConnStepIs DEF Stages
<1>6. slots' = [slots EXCEPT ![s] = Waiting(Client(s, c))]
  <2>1. Parted(Client(s, c)) \in SlotRecord
    BY Contents
  <2>2. [Parted(Client(s, c)) EXCEPT !.pending = TRUE] =
          [in_use |-> Parted(Client(s, c)).in_use, conn |-> Parted(Client(s, c)).conn,
           client |-> Parted(Client(s, c)).client, pending |-> TRUE]
    BY <2>1, Changed
  <2>3. /\ Parted(Client(s, c)).in_use = TRUE /\ Parted(Client(s, c)).conn = None
        /\ Parted(Client(s, c)).client = Client(s, c)
    BY DEF Parted
  <2>4. [slots[s] EXCEPT !.pending = TRUE] = Waiting(Client(s, c))
    BY <1>2, <2>2, <2>3 DEF Waiting
  <2> QED BY <1>4, <2>4
<1>7. live \subseteq Clients
  BY Types
<1>8. Only(s) /\ slots'[s] = Waiting(Client(s, c))
  BY <1>1, <1>6, <1>7, Contents, OnlyIs
<1>9. pc'[c] = "asking" /\ mine'[c] = s /\ user_data'[c] = None
  BY <1>5 DEF ConnStep
<1>10. \A t \in Slots : t # s => (Holds(c, t)' <=> Holds(c, t))
  BY <1>1, <1>4 DEF Holds
<1>11. ConnOK(c)' /\ SlotOK(s)'
  <2>1. ConnOK(c)'
    BY <1>1, <1>2, <1>8, <1>9 DEF ConnOK
  <2>2. Holds(c, s)'
    BY <1>9 DEF Holds
  <2> QED BY <1>8, <2>1, <2>2 DEF SlotOK, Waiting
<1>12. slots'[s].client = Client(s, c)
  BY <1>8 DEF Waiting
<1>13. \A client \in live' : client.slot = s => slots'[s].client = client
  BY <1>1, <1>3, <1>12, Parts DEF LiveOK
<1>14. WalkOK'
  BY <1>1, <1>3, <1>8, <1>12, WalkKept
<1> QED BY <1>1, <1>2, <1>5, <1>8, <1>10, <1>11, <1>13, <1>14, ConnStepKeeps

\* xQueueSend() hands the slot to the cleanup task (main.c:797).
LEMMA EnqueueKeeps == ASSUME AgwpeInv, NEW c \in Conns, Enqueue(c) PROVE AgwpeInv'
<1> DEFINE R == [slot : Slots, client : Clients]
<1>0. PICK s \in Slots : mine[c] = s
  BY Parts DEF Enqueue, ConnOK
<1>1. /\ pc[c] = "asking" /\ pc' = [pc EXCEPT ![c] = "closed"]
      /\ mine' = [mine EXCEPT ![c] = None]
      /\ Len(queue) < CleanupLen
      /\ queue' = Append(queue, [slot |-> s, client |-> slots[s].client])
      /\ slots' = slots /\ live' = live /\ user_data' = user_data /\ cleaner' = cleaner
      /\ walk' = walk /\ leaked' = leaked
  BY <1>0 DEF Enqueue, Leave
<1>2. /\ user_data[c] = None /\ slots[s] = Waiting(Client(s, c)) /\ ConnOK(c) /\ Holds(c, s)
      /\ Client(s, c) \in live /\ Client(s, c) \in Clients
  BY <1>0, <1>1, Parts, Contents DEF ConnOK, Holds
<1>3. ConnStep(c, "closed", None, None)
  BY <1>0, <1>1, <1>2, ConnStepIs DEF Stages
<1>4. PICK req \in R : req.slot = s /\ req.client = Client(s, c) /\ queue' = Append(queue, req)
  BY <1>1, <1>2 DEF Waiting
<1>5. queue \in Seq(R) /\ Len(queue) \in Nat /\ DOMAIN queue = 1 .. Len(queue)
  BY Types, LenProperties
<1> HIDE DEF R
<1>6. /\ queue' \in Seq(R) /\ Len(queue') = Len(queue) + 1
      /\ \A i \in 1 .. Len(queue) : queue'[i] = queue[i]
      /\ queue'[Len(queue) + 1] = req
  BY <1>4, <1>5, AppendProperties
<1>7. DOMAIN queue' = 1 .. Len(queue) + 1
  BY <1>6, LenProperties
<1>8. \A i \in DOMAIN queue' : i \in DOMAIN queue \/ i = Len(queue) + 1
  BY <1>5, <1>7
<1>9. \A i \in DOMAIN queue : i \in DOMAIN queue' /\ queue'[i] = queue[i] /\ i # Len(queue) + 1
  BY <1>5, <1>6, <1>7
<1>10. Len(queue) + 1 \in DOMAIN queue'
  BY <1>5, <1>7
<1>11. Only(s)
  BY <1>1, Types DEF Only
<1>12. /\ ~Queued(s) /\ cleaner.slot # s /\ s \notin leaked
       /\ \A d \in Conns : d # c => ~Holds(d, s)
  BY <1>2, Alone
<1>13. AgwpeTypeOK'
  <2>1. /\ pc' \in [Conns -> Stages] /\ mine' \in [Conns -> Slots \cup {None}]
    BY <1>3 DEF ConnStep
  <2>2. Len(queue') <= CleanupLen /\ queue' \in Seq([slot : Slots, client : Clients])
    BY <1>1, <1>5, <1>6, AgwpeAssumption DEF R
  <2> QED BY <1>1, <2>1, <2>2, Parts DEF AgwpeTypeOK, Stages
<1>14. ASSUME NEW d \in Conns PROVE ConnOK(d)'
  <2>1. CASE d = c
    BY <1>3, <2>1 DEF ConnStep, ConnOK
  <2>2. CASE d # c
    BY <1>3, <1>11, <1>12, <2>2, ConnKept DEF ConnStep
  <2> QED BY <2>1, <2>2
<1>15. ASSUME NEW i \in DOMAIN queue' PROVE RequestOK(queue[i])'
  <2>1. CASE i \in DOMAIN queue
    <3>1. RequestOK(queue[i])
      BY <2>1, Parts
    <3> QED BY <1>1, <1>9, <2>1, <3>1 DEF RequestOK
  <2>2. CASE i = Len(queue) + 1
    <3>1. queue'[i] = req
      BY <1>6, <2>2
    <3>2. req.client.slot = req.slot
      BY <1>4 DEF Client
    <3> QED BY <1>1, <1>2, <1>4, <3>1, <3>2 DEF RequestOK
  <2> QED BY <1>8, <2>1, <2>2
<1>16. CleanerOK' /\ LiveOK' /\ WalkOK' /\ \A t \in leaked' : LeakedOK(t)'
  BY <1>1, Parts DEF CleanerOK, RequestOK, LiveOK, WalkOK, LeakedOK
<1>17. /\ \A t \in Slots : Queued(t)' <=> Queued(t) \/ t = s
       /\ \A t \in Slots : ~Holds(c, t)'
       /\ \A d \in Conns, t \in Slots : d # c => (Holds(d, t)' <=> Holds(d, t))
  <2>1. \A t \in Slots : Queued(t)' => Queued(t) \/ t = s
    BY <1>4, <1>6, <1>8, <1>9 DEF Queued
  <2>2. \A t \in Slots : Queued(t) => Queued(t)'
    BY <1>9 DEF Queued
  <2>3. Queued(s)'
    BY <1>4, <1>6, <1>10 DEF Queued
  <2>4. \A t \in Slots : ~Holds(c, t)'
    BY <1>3, Nobody DEF ConnStep, Holds
  <2>5. \A d \in Conns, t \in Slots : d # c => (Holds(d, t)' <=> Holds(d, t))
    BY <1>3 DEF ConnStep, Holds
  <2> QED BY <2>1, <2>2, <2>3, <2>4, <2>5
<1>18. OneEach'
  <2>1. OneEach
    BY Parts
  <2>2. \A d, e \in Conns, t \in Slots : Holds(d, t)' /\ Holds(e, t)' => d = e
    BY <1>17, <2>1 DEF OneEach
  <2>3. ASSUME NEW d \in Conns, NEW t \in Slots, Holds(d, t)'
        PROVE  ~Queued(t)' /\ cleaner'.slot # t /\ t \notin leaked'
    BY <1>1, <1>12, <1>17, <2>1, <2>3 DEF OneEach
  <2>4. \A t \in Slots : Queued(t)' => cleaner'.slot # t /\ t \notin leaked'
    BY <1>1, <1>12, <1>17, <2>1 DEF OneEach
  <2>5. cleaner'.slot \notin leaked'
    BY <1>1, <2>1 DEF OneEach
  <2>6. \A i, j \in DOMAIN queue' : queue'[i].slot = queue'[j].slot => i = j
    <3>1. \A i \in DOMAIN queue : queue[i].slot # s
      BY <1>12 DEF Queued
    <3> QED BY <1>4, <1>6, <1>8, <1>9, <2>1, <3>1 DEF OneEach
  <2> QED BY <2>2, <2>3, <2>4, <2>5, <2>6 DEF OneEach
<1>19. ASSUME NEW t \in Slots PROVE SlotOK(t)'
  <2>1. SlotOK(t)
    BY Parts
  <2>2. CASE t = s
    BY <1>1, <1>2, <1>17, <2>1, <2>2 DEF SlotOK
  <2>3. CASE t # s
    <3>1. (\E d \in Conns : Holds(d, t)) => \E d \in Conns : Holds(d, t)'
      BY <1>0, <1>2, <1>17, <2>3, Nobody DEF Holds
    <3> QED BY <1>1, <1>17, <2>1, <3>1 DEF SlotOK
  <2> QED BY <2>2, <2>3
<1> QED BY <1>13, <1>14, <1>15, <1>16, <1>18, <1>19 DEF AgwpeInv

\* Or its second is over, and the slot is lost (main.c:806).
LEMMA EnqueueTimesOutKeeps ==
  ASSUME AgwpeInv, NEW c \in Conns, EnqueueTimesOut(c) PROVE AgwpeInv'
<1>0. PICK s \in Slots : mine[c] = s
  BY Parts DEF EnqueueTimesOut, ConnOK
<1>1. /\ pc[c] = "asking" /\ pc' = [pc EXCEPT ![c] = "closed"]
      /\ mine' = [mine EXCEPT ![c] = None]
      /\ slots' = [slots EXCEPT ![s].pending = FALSE]
      /\ leaked' = leaked \cup {s}
      /\ live' = live /\ user_data' = user_data /\ cleaner' = cleaner
      /\ walk' = walk /\ queue' = queue
  BY <1>0 DEF EnqueueTimesOut, Leave
<1>2. /\ user_data[c] = None /\ slots[s] = Waiting(Client(s, c)) /\ ConnOK(c) /\ Holds(c, s)
      /\ Client(s, c) \in live /\ Client(s, c) \in Clients
  BY <1>0, <1>1, Parts, Contents DEF ConnOK, Holds
<1>3. ConnStep(c, "closed", None, None)
  BY <1>0, <1>1, <1>2, ConnStepIs DEF Stages
<1>4. slots' = [slots EXCEPT ![s] = Parted(Client(s, c))]
  <2>1. Waiting(Client(s, c)) \in SlotRecord
    BY Contents
  <2>2. [Waiting(Client(s, c)) EXCEPT !.pending = FALSE] =
          [in_use |-> Waiting(Client(s, c)).in_use, conn |-> Waiting(Client(s, c)).conn,
           client |-> Waiting(Client(s, c)).client, pending |-> FALSE]
    BY <2>1, Changed
  <2>3. /\ Waiting(Client(s, c)).in_use = TRUE /\ Waiting(Client(s, c)).conn = None
        /\ Waiting(Client(s, c)).client = Client(s, c)
    BY DEF Waiting
  <2>4. [slots[s] EXCEPT !.pending = FALSE] = Parted(Client(s, c))
    BY <1>2, <2>2, <2>3 DEF Parted
  <2> QED BY <1>1, <2>4
<1>5. live \subseteq Clients
  BY Types
<1>6. Only(s) /\ slots'[s] = Parted(Client(s, c))
  BY <1>1, <1>2, <1>4, <1>5, Contents, OnlyIs
<1>7. /\ ~Queued(s) /\ cleaner.slot # s /\ s \notin leaked
      /\ \A d \in Conns : d # c => ~Holds(d, s)
  BY <1>2, Alone
<1>8. AgwpeTypeOK'
  <2>1. /\ pc' \in [Conns -> Stages] /\ mine' \in [Conns -> Slots \cup {None}]
    BY <1>3 DEF ConnStep
  <2>2. slots' \in [Slots -> SlotRecord]
    BY <1>6 DEF Only
  <2> QED BY <1>1, <2>1, <2>2, Parts DEF AgwpeTypeOK, Stages
<1>9. ASSUME NEW d \in Conns PROVE ConnOK(d)'
  <2>1. CASE d = c
    BY <1>3, <2>1 DEF ConnStep, ConnOK
  <2>2. CASE d # c
    BY <1>3, <1>6, <1>7, <2>2, ConnKept DEF ConnStep
  <2> QED BY <2>1, <2>2
<1>10. slots'[s].client = Client(s, c) /\ slots[s].client = Client(s, c)
  BY <1>2, <1>6 DEF Waiting, Parted
<1>11. \A client \in live' : client.slot = s => slots'[s].client = client
  BY <1>1, <1>10, Parts DEF LiveOK
<1>12. CleanerOK' /\ LiveOK' /\ WalkOK'
  BY <1>1, <1>6, <1>7, <1>10, <1>11, CleanerKept, LiveKept, WalkKept
<1>13. \A i \in DOMAIN queue' : RequestOK(queue[i])'
  BY <1>1, <1>6, <1>7, RequestsKept
<1>14. ASSUME NEW t \in leaked' PROVE LeakedOK(t)'
  <2>1. CASE t = s
    BY <1>1, <1>2, <1>6, <2>1 DEF LeakedOK, Client
  <2>2. CASE t # s
    BY <1>1, <1>6, <2>2, LeakedKept
  <2> QED BY <2>1, <2>2
<1>15. /\ \A t \in Slots : Queued(t)' <=> Queued(t)
       /\ \A t \in Slots : ~Holds(c, t)'
       /\ \A d \in Conns, t \in Slots : d # c => (Holds(d, t)' <=> Holds(d, t))
  <2>1. \A t \in Slots : Queued(t)' <=> Queued(t)
    BY <1>1 DEF Queued
  <2>2. \A t \in Slots : ~Holds(c, t)'
    BY <1>3, Nobody DEF ConnStep, Holds
  <2>3. \A d \in Conns, t \in Slots : d # c => (Holds(d, t)' <=> Holds(d, t))
    BY <1>3 DEF ConnStep, Holds
  <2> QED BY <2>1, <2>2, <2>3
<1>16. OneEach'
  <2>1. OneEach
    BY Parts
  <2>2. \A d, e \in Conns, t \in Slots : Holds(d, t)' /\ Holds(e, t)' => d = e
    BY <1>15, <2>1 DEF OneEach
  <2>3. ASSUME NEW d \in Conns, NEW t \in Slots, Holds(d, t)'
        PROVE  ~Queued(t)' /\ cleaner'.slot # t /\ t \notin leaked'
    BY <1>1, <1>7, <1>15, <2>1, <2>3 DEF OneEach
  <2>4. \A t \in Slots : Queued(t)' => cleaner'.slot # t /\ t \notin leaked'
    BY <1>1, <1>7, <1>15, <2>1 DEF OneEach
  <2>5. cleaner'.slot \notin leaked'
    BY <1>1, <1>7, <2>1 DEF OneEach
  <2>6. \A i, j \in DOMAIN queue' : queue'[i].slot = queue'[j].slot => i = j
    BY <1>1, <2>1 DEF OneEach
  <2> QED BY <2>2, <2>3, <2>4, <2>5, <2>6 DEF OneEach
<1>17. ASSUME NEW t \in Slots PROVE SlotOK(t)'
  <2>1. SlotOK(t)
    BY Parts
  <2>2. CASE t = s
    BY <1>1, <1>6, <2>2 DEF SlotOK, Parted
  <2>3. CASE t # s
    <3>1. (\E d \in Conns : Holds(d, t)) => \E d \in Conns : Holds(d, t)'
      BY <1>0, <1>2, <1>15, <2>3, Nobody DEF Holds
    <3>2. slots'[t] = slots[t]
      BY <1>6, <2>3 DEF Only
    <3> QED BY <1>1, <1>15, <2>1, <3>1, <3>2 DEF SlotOK
  <2> QED BY <2>2, <2>3
<1> QED BY <1>8, <1>9, <1>12, <1>13, <1>14, <1>16, <1>17 DEF AgwpeInv
-----------------------------------------------------------------------------
(* agwpe_cleanup_task() *)

\* A client in a slot was made for that slot, and lives unless the cleanup task
\* has removed it and is about to clear the slot.
LEMMA AtHome ==
  ASSUME AgwpeInv, NEW s \in Slots, slots[s].client # None
  PROVE  /\ slots[s].client.slot = s
         /\ slots[s].client \in live \/ (cleaner.slot = s /\ cleaner.step = "clear")
<1>1. slots[s].in_use
  BY Parts DEF SlotOK, Empty
<1>2. CASE \E c \in Conns : Holds(c, s)
  <2>1. PICK c \in Conns : Holds(c, s)
    BY <1>2
  <2>2. ConnOK(c) /\ pc[c] \in Stages
    BY Parts, Types
  <2>3. slots[s] = Bare \/ (/\ slots[s] \in {Serving(s, c), Parted(Client(s, c)), Waiting(Client(s, c))}
                            /\ Client(s, c) \in live)
    <3>1. CASE pc[c] \in {"closed", "unserved"}
      BY <2>1, <2>2, <3>1, Nobody DEF ConnOK, Holds
    <3>2. CASE pc[c] = "up"
      BY <2>1, <2>2, <3>2, Nobody DEF ConnOK, Holds
    <3>3. CASE pc[c] \in {"adding", "linking", "leaving", "asking"}
      BY <2>1, <2>2, <3>3, Nobody DEF ConnOK, Holds
    <3> QED BY <2>2, <3>1, <3>2, <3>3 DEF Stages
  <2>4. slots[s] # Bare
    BY DEF Bare
  <2>5. slots[s].client = Client(s, c)
    BY <2>3, <2>4 DEF Serving, Parted, Waiting
  <2> QED BY <2>3, <2>4, <2>5 DEF Client
<1>3. CASE Queued(s)
  <2>1. PICK i \in DOMAIN queue : queue[i].slot = s
    BY <1>3 DEF Queued
  <2>2. RequestOK(queue[i])
    BY Parts
  <2> QED BY <2>1, <2>2 DEF RequestOK, Waiting
<1>4. CASE cleaner.slot = s
  <2>1. CleanerOK /\ cleaner.step \in {"wait", "remove", "clear", "free"}
    BY Parts, Types
  <2>2. cleaner.step # "wait"
    BY <1>4, <2>1, Nobody DEF CleanerOK, Resting
  <2>3. cleaner.step # "free"
    BY <1>4, <2>1 DEF CleanerOK, Bare
  <2>4. CASE cleaner.step = "remove"
    BY <1>4, <2>1, <2>4 DEF CleanerOK, RequestOK, Waiting
  <2>5. CASE cleaner.step = "clear"
    BY <1>4, <2>1, <2>5 DEF CleanerOK, Waiting
  <2> QED BY <2>1, <2>2, <2>3, <2>4, <2>5
<1>5. CASE s \in leaked
  <2>1. PICK client \in live : slots[s] = Parted(client) /\ client.slot = s
    BY <1>5, Parts DEF LeakedOK
  <2> QED BY <2>1 DEF Parted
<1> QED BY <1>1, <1>2, <1>3, <1>4, <1>5, Parts DEF SlotOK

\* The slot that the cleanup task has in hand is in no other's.
LEMMA CleanerAlone ==
  ASSUME AgwpeInv, NEW s \in Slots, cleaner.slot = s
  PROVE  ~Queued(s) /\ s \notin leaked /\ \A c \in Conns : ~Holds(c, s)
BY Parts DEF OneEach

\* A step of the cleanup task on the slot it has in hand.
LEMMA CleanerStepKeeps ==
  ASSUME AgwpeInv, NEW s \in Slots, cleaner.slot = s, Only(s),
         pc' = pc, mine' = mine, user_data' = user_data,
         queue' = queue, walk' = walk, leaked' = leaked,
         cleaner' \in [step : {"wait", "remove", "clear", "free"},
                       slot : Slots \cup {None}, client : Clients \cup {None}],
         cleaner'.slot \in {s, None},
         CleanerOK', SlotOK(s)', WalkOK',
         \A client \in live' : client.slot = s => slots'[s].client = client
  PROVE  AgwpeInv'
<1>1. ~Queued(s) /\ s \notin leaked /\ \A c \in Conns : ~Holds(c, s)
  BY CleanerAlone
<1>2. AgwpeTypeOK'
  <2>1. slots' \in [Slots -> SlotRecord] /\ live' \subseteq Clients
    BY DEF Only
  <2> QED BY <2>1, Parts DEF AgwpeTypeOK
<1>3. \A d \in Conns : ConnOK(d)'
  BY <1>1, ConnKept
<1>4. \A i \in DOMAIN queue' : RequestOK(queue[i])'
  BY <1>1, RequestsKept
<1>5. LiveOK'
  BY LiveKept
<1>6. \A t \in leaked' : LeakedOK(t)'
  BY <1>1, LeakedKept
<1>7. \A t \in Slots : (Queued(t)' <=> Queued(t)) /\ \A d \in Conns : Holds(d, t)' <=> Holds(d, t)
  BY DEF Queued, Holds
<1>8. None \notin leaked /\ None \notin Slots
  BY Types, Nobody
<1>9. OneEach'
  <2>1. OneEach
    BY Parts
  <2>2. \A d, e \in Conns, t \in Slots : Holds(d, t)' /\ Holds(e, t)' => d = e
    BY <1>7, <2>1 DEF OneEach
  <2>3. \A d \in Conns, t \in Slots : Holds(d, t)' => ~Queued(t)' /\ cleaner'.slot # t /\ t \notin leaked'
    BY <1>1, <1>7, <1>8, <2>1 DEF OneEach
  <2>4. \A t \in Slots : Queued(t)' => cleaner'.slot # t /\ t \notin leaked'
    BY <1>1, <1>7, <1>8, <2>1 DEF OneEach
  <2>5. cleaner'.slot \notin leaked'
    BY <1>1, <1>8
  <2>6. \A i, j \in DOMAIN queue' : queue'[i].slot = queue'[j].slot => i = j
    BY <2>1 DEF OneEach
  <2> QED BY <2>2, <2>3, <2>4, <2>5, <2>6 DEF OneEach
<1>10. ASSUME NEW t \in Slots PROVE SlotOK(t)'
  <2>1. CASE t = s
    BY <2>1
  <2>2. CASE t # s
    <3>1. SlotOK(t) /\ slots'[t] = slots[t]
      BY <2>2, Parts DEF Only
    <3>2. (\E d \in Conns : Holds(d, t)) => \E d \in Conns : Holds(d, t)'
      BY <1>7
    <3> QED BY <1>7, <2>2, <3>1, <3>2 DEF SlotOK
  <2> QED BY <2>1, <2>2
<1> QED BY <1>2, <1>3, <1>4, <1>5, <1>6, <1>9, <1>10 DEF AgwpeInv

\* The record of the cleanup task with another step.
LEMMA NextStep ==
  ASSUME AgwpeInv, NEW x \in {"wait", "remove", "clear", "free"},
         cleaner' = [cleaner EXCEPT !.step = x]
  PROVE  /\ cleaner' \in [step : {"wait", "remove", "clear", "free"},
                          slot : Slots \cup {None}, client : Clients \cup {None}]
         /\ cleaner'.step = x /\ cleaner'.slot = cleaner.slot /\ cleaner'.client = cleaner.client
<1>1. cleaner \in [step : {"wait", "remove", "clear", "free"},
                   slot : Slots \cup {None}, client : Clients \cup {None}]
  BY Parts DEF AgwpeTypeOK
<1> QED BY <1>1

\* ax25_agwpe_server_remove_client() (main.c:673).
LEMMA RemoveClientKeeps == ASSUME AgwpeInv, RemoveClient PROVE AgwpeInv'
<1>1. /\ cleaner.step = "remove" /\ live' = live \ {cleaner.client}
      /\ cleaner' = [cleaner EXCEPT !.step = "clear"]
      /\ slots' = slots /\ pc' = pc /\ mine' = mine /\ user_data' = user_data
      /\ queue' = queue /\ walk' = walk /\ leaked' = leaked
  BY DEF RemoveClient, conns
<1>2. CleanerOK /\ LiveOK /\ WalkOK
  BY Parts
<1>3. PICK s \in Slots : cleaner.slot = s
  BY <1>1, <1>2 DEF CleanerOK
<1>4. slots[s] = Waiting(cleaner.client) /\ cleaner.client.slot = s
  BY <1>1, <1>2, <1>3 DEF CleanerOK, RequestOK
<1>5. Only(s)
  BY <1>1, <1>4, Types DEF Only
<1>6. /\ cleaner' \in [step : {"wait", "remove", "clear", "free"},
                       slot : Slots \cup {None}, client : Clients \cup {None}]
      /\ cleaner'.step = "clear" /\ cleaner'.slot = s /\ cleaner'.client = cleaner.client
  BY <1>1, <1>3, NextStep
<1>7. CleanerOK'
  BY <1>1, <1>2, <1>4, <1>6 DEF CleanerOK
<1>8. SlotOK(s)'
  BY <1>1, <1>4, <1>6 DEF SlotOK, Waiting
<1>9. \A client \in live' : client.slot = s => slots'[s].client = client
  BY <1>1, <1>2 DEF LiveOK
<1>10. WalkOK'
  <2> SUFFICES ASSUME walk.client # None PROVE WalkOK'
    BY <1>1 DEF WalkOK
  <2>1. walk.at \in Slots /\ slots[walk.at].client = walk.client /\ walk.client \in live
    BY <1>1, <1>2 DEF WalkOK
  <2>2. walk.client.slot = walk.at
    BY <2>1, AtHome
  <2>3. walk.client \in live' \/ s = walk.at
    BY <1>1, <1>4, <2>1, <2>2
  <2> QED BY <1>1, <1>6, <2>1, <2>3 DEF WalkOK
<1> QED BY <1>1, <1>3, <1>5, <1>6, <1>7, <1>8, <1>9, <1>10, CleanerStepKeeps

\* The slot is cleared (main.c:675).
LEMMA ClearSlotKeeps == ASSUME AgwpeInv, ClearSlot PROVE AgwpeInv'
<1>1. /\ cleaner.step = "clear" /\ live' = live
      /\ cleaner' = [cleaner EXCEPT !.step = "free"]
      /\ slots' = [slots EXCEPT ![cleaner.slot] = Bare]
      /\ pc' = pc /\ mine' = mine /\ user_data' = user_data
      /\ queue' = queue /\ walk' = walk /\ leaked' = leaked
  BY TakenIsBare DEF ClearSlot, conns
<1>2. CleanerOK /\ LiveOK /\ WalkOK
  BY Parts
<1>3. PICK s \in Slots : cleaner.slot = s
  BY <1>1, <1>2 DEF CleanerOK
<1>4. slots[s] = Waiting(cleaner.client) /\ cleaner.client \notin live /\ cleaner.client \in Clients
  BY <1>1, <1>2, <1>3 DEF CleanerOK
<1>5. Only(s) /\ slots'[s] = Bare
  BY <1>1, <1>3, Types, Contents, OnlyIs
<1>6. /\ cleaner' \in [step : {"wait", "remove", "clear", "free"},
                       slot : Slots \cup {None}, client : Clients \cup {None}]
      /\ cleaner'.step = "free" /\ cleaner'.slot = s /\ cleaner'.client = cleaner.client
  BY <1>1, <1>3, NextStep
<1>7. CleanerOK'
  BY <1>4, <1>5, <1>6 DEF CleanerOK
<1>8. SlotOK(s)'
  BY <1>5, <1>6 DEF SlotOK, Bare
<1>9. \A client \in live' : client.slot # s
  BY <1>1, <1>2, <1>4 DEF LiveOK, Waiting
<1>10. WalkOK'
  BY <1>1, <1>2, <1>3, <1>5, <1>6 DEF WalkOK, Only
<1> QED BY <1>1, <1>3, <1>5, <1>6, <1>7, <1>8, <1>9, <1>10, CleanerStepKeeps

\* free_agwpe_client_slot() (main.c:690).
LEMMA FreeSlotKeeps == ASSUME AgwpeInv, FreeSlot PROVE AgwpeInv'
<1>1. /\ cleaner.step = "free" /\ walk = NotWalking /\ live' = live
      /\ cleaner' = Resting
      /\ slots' = [slots EXCEPT ![cleaner.slot] = Empty]
      /\ pc' = pc /\ mine' = mine /\ user_data' = user_data
      /\ queue' = queue /\ walk' = walk /\ leaked' = leaked
  BY DEF FreeSlot, conns, Unlocked
<1>2. CleanerOK /\ LiveOK
  BY Parts
<1>3. PICK s \in Slots : cleaner.slot = s
  BY <1>1, <1>2 DEF CleanerOK
<1>4. slots[s] = Bare
  BY <1>1, <1>2, <1>3 DEF CleanerOK
<1>5. Only(s) /\ slots'[s] = Empty
  BY <1>1, <1>3, Types, Contents, OnlyIs
<1>6. /\ cleaner' \in [step : {"wait", "remove", "clear", "free"},
                       slot : Slots \cup {None}, client : Clients \cup {None}]
      /\ cleaner'.slot = None
  BY <1>1 DEF Resting
<1>7. CleanerOK'
  BY <1>1 DEF CleanerOK, Resting
<1>8. SlotOK(s)'
  BY <1>5 DEF SlotOK, Empty
<1>9. \A client \in live' : client.slot # s
  BY <1>1, <1>2, <1>4, Types, Nobody DEF LiveOK, Bare
<1>10. WalkOK'
  BY <1>1 DEF WalkOK, NotWalking
<1> QED BY <1>1, <1>3, <1>5, <1>6, <1>7, <1>8, <1>9, <1>10, CleanerStepKeeps

\* xQueueReceive() (main.c:664).
LEMMA ReceiveKeeps == ASSUME AgwpeInv, Receive PROVE AgwpeInv'
<1> DEFINE R == [slot : Slots, client : Clients]
<1>1. /\ cleaner.step = "wait" /\ queue # <<>>
      /\ cleaner' = [step |-> "remove", slot |-> Head(queue).slot, client |-> Head(queue).client]
      /\ queue' = Tail(queue)
      /\ slots' = slots /\ live' = live /\ pc' = pc /\ mine' = mine /\ user_data' = user_data
      /\ walk' = walk /\ leaked' = leaked
  BY DEF Receive, conns
<1>2. queue \in Seq(R) /\ Len(queue) <= CleanupLen
  BY Types
<1> HIDE DEF R
<1>3. /\ queue' \in Seq(R) /\ Len(queue') = Len(queue) - 1 /\ Len(queue) \in Nat \ {0}
      /\ Head(queue) = queue[1]
      /\ \A i \in 1 .. Len(queue') : queue'[i] = queue[i + 1]
  BY <1>1, <1>2
<1>4. DOMAIN queue = 1 .. Len(queue) /\ DOMAIN queue' = 1 .. Len(queue) - 1
  BY <1>2, <1>3, LenProperties
<1>5. 1 \in DOMAIN queue /\ \A i \in DOMAIN queue' : i + 1 \in DOMAIN queue /\ i + 1 # 1 /\ queue'[i] = queue[i + 1]
  BY <1>3, <1>4
<1>6. \A i \in DOMAIN queue : i # 1 => \E j \in DOMAIN queue' : i = j + 1
  <2> SUFFICES ASSUME NEW i \in DOMAIN queue, i # 1 PROVE \E j \in DOMAIN queue' : i = j + 1
    OBVIOUS
  <2>1. i - 1 \in DOMAIN queue' /\ i = (i - 1) + 1
    BY <1>3, <1>4
  <2> QED BY <2>1
<1>7. /\ queue[1] \in [slot : Slots, client : Clients]
      /\ RequestOK(queue[1])
  BY <1>5, Parts, Requests
<1>8. PICK s \in Slots : s = queue[1].slot
  BY <1>7
<1>9. /\ cleaner'.step = "remove" /\ cleaner'.slot = s /\ cleaner'.client = queue[1].client
      /\ cleaner' \in [step : {"wait", "remove", "clear", "free"},
                       slot : Slots \cup {None}, client : Clients \cup {None}]
  BY <1>1, <1>3, <1>7, <1>8
<1>10. Queued(s) /\ OneEach
  BY <1>5, <1>8, Parts DEF Queued
<1>11. AgwpeTypeOK'
  <2>1. Len(queue') <= CleanupLen /\ queue' \in Seq([slot : Slots, client : Clients])
    BY <1>2, <1>3, AgwpeAssumption DEF R
  <2> QED BY <1>1, <1>9, <2>1, Parts DEF AgwpeTypeOK
<1>12. \A d \in Conns : ConnOK(d)'
  BY <1>1, Parts DEF ConnOK
<1>13. ASSUME NEW i \in DOMAIN queue' PROVE RequestOK(queue[i])'
  <2>1. i + 1 \in DOMAIN queue /\ queue'[i] = queue[i + 1]
    BY <1>5
  <2>2. RequestOK(queue[i + 1])
    BY <2>1, Parts
  <2> QED BY <1>1, <2>1, <2>2 DEF RequestOK
<1>14. CleanerOK'
  BY <1>1, <1>7, <1>8, <1>9 DEF CleanerOK, RequestOK
<1>15. LiveOK' /\ \A t \in leaked' : LeakedOK(t)'
  BY <1>1, Parts DEF LiveOK, LeakedOK
<1>16. WalkOK'
  BY <1>1, Parts DEF WalkOK
<1>17. \A t \in Slots : Queued(t)' <=> Queued(t) /\ t # s
  <2>1. ASSUME NEW t \in Slots, Queued(t)' PROVE Queued(t) /\ t # s
    <3>1. PICK i \in DOMAIN queue' : queue'[i].slot = t
      BY <2>1 DEF Queued
    <3>2. i + 1 \in DOMAIN queue /\ i + 1 # 1 /\ queue[i + 1].slot = t
      BY <1>5, <3>1
    <3> QED BY <1>5, <1>8, <1>10, <3>2 DEF Queued, OneEach
  <2>2. ASSUME NEW t \in Slots, Queued(t), t # s PROVE Queued(t)'
    <3>1. PICK i \in DOMAIN queue : queue[i].slot = t
      BY <2>2 DEF Queued
    <3>2. i # 1
      BY <1>8, <2>2, <3>1
    <3>3. PICK j \in DOMAIN queue' : i = j + 1
      BY <1>6, <3>2
    <3>4. queue'[j].slot = t
      BY <1>5, <3>1, <3>3
    <3> QED BY <3>4 DEF Queued
  <2> QED BY <2>1, <2>2
<1>18. \A d \in Conns, t \in Slots : Holds(d, t)' <=> Holds(d, t)
  BY <1>1 DEF Holds
<1>19. OneEach'
  <2>1. \A d, e \in Conns, t \in Slots : Holds(d, t)' /\ Holds(e, t)' => d = e
    BY <1>10, <1>18 DEF OneEach
  <2>2. \A d \in Conns, t \in Slots : Holds(d, t)' => ~Queued(t)' /\ cleaner'.slot # t /\ t \notin leaked'
    BY <1>1, <1>9, <1>10, <1>17, <1>18 DEF OneEach
  <2>3. \A t \in Slots : Queued(t)' => cleaner'.slot # t /\ t \notin leaked'
    BY <1>1, <1>9, <1>10, <1>17 DEF OneEach
  <2>4. cleaner'.slot \notin leaked'
    BY <1>1, <1>9, <1>10 DEF OneEach
  <2>5. ASSUME NEW i \in DOMAIN queue', NEW j \in DOMAIN queue', queue'[i].slot = queue'[j].slot
        PROVE  i = j
    <3>1. /\ i + 1 \in DOMAIN queue /\ queue'[i] = queue[i + 1]
          /\ j + 1 \in DOMAIN queue /\ queue'[j] = queue[j + 1]
      BY <1>5
    <3>2. i + 1 = j + 1
      BY <1>10, <2>5, <3>1 DEF OneEach
    <3> QED BY <1>3, <1>4, <3>2
  <2> QED BY <2>1, <2>2, <2>3, <2>4, <2>5 DEF OneEach
<1>20. ASSUME NEW t \in Slots PROVE SlotOK(t)'
  <2>1. SlotOK(t)
    BY Parts
  <2>2. cleaner.slot # t
    BY <1>1, Parts, Nobody DEF CleanerOK, Resting
  <2>3. (\E d \in Conns : Holds(d, t)) => \E d \in Conns : Holds(d, t)'
    BY <1>18
  <2> QED BY <1>1, <1>9, <1>17, <2>1, <2>2, <2>3 DEF SlotOK
<1> QED BY <1>11, <1>12, <1>13, <1>14, <1>15, <1>16, <1>19, <1>20 DEF AgwpeInv
-----------------------------------------------------------------------------
(* uart_port_frame_cb(), and all steps together. *)

\* A walk changes nothing but where it is (main.c:650).
LEMMA WalkStepKeeps ==
  ASSUME AgwpeInv, WalkStarts \/ Walk
  PROVE  AgwpeInv'
<1>1. /\ slots' = slots /\ live' = live /\ pc' = pc /\ mine' = mine /\ user_data' = user_data
      /\ queue' = queue /\ cleaner' = cleaner /\ leaked' = leaked
  BY DEF WalkStarts, Walk, WalkLooks, WalkCalls, WalkEnds, conns
<1>2. N \in Nat /\ walk \in [at : 0 .. N + 1, client : Clients \cup {None}]
  BY Parts, AgwpeAssumption DEF AgwpeTypeOK
<1>3. walk' \in [at : 0 .. N + 1, client : Clients \cup {None}] /\ WalkOK'
  <2>1. CASE WalkStarts \/ WalkEnds
    BY <1>2, <2>1 DEF WalkStarts, WalkEnds, NotWalking, WalkOK
  <2>2. CASE WalkCalls
    <3>1. walk.at \in Slots /\ walk' = [at |-> walk.at + 1, client |-> None]
      BY <2>2, Parts DEF WalkCalls, WalkOK
    <3> QED BY <1>2, <3>1 DEF WalkOK, Slots
  <2>3. CASE WalkLooks
    <3>1. walk.at \in Slots /\ walk.client = None
      BY <2>3 DEF WalkLooks
    <3>2. CASE slots[walk.at].in_use /\ slots[walk.at].client # None
      <4>1. walk' = [walk EXCEPT !.client = slots[walk.at].client]
        BY <2>3, <3>2 DEF WalkLooks
      <4>2. slots[walk.at].client \in Clients
        BY <3>1, <3>2, Types DEF SlotRecord
      <4>3. walk'.at = walk.at /\ walk'.client = slots[walk.at].client
            /\ walk' \in [at : 0 .. N + 1, client : Clients \cup {None}]
        BY <1>2, <4>1, <4>2
      <4>4. slots[walk.at].client \in live \/ (cleaner.slot = walk.at /\ cleaner.step = "clear")
        BY <3>1, <3>2, AtHome
      <4> QED BY <1>1, <3>1, <4>3, <4>4 DEF WalkOK
    <3>3. CASE ~(slots[walk.at].in_use /\ slots[walk.at].client # None)
      <4>1. walk' = [walk EXCEPT !.at = walk.at + 1]
        BY <2>3, <3>3 DEF WalkLooks
      <4> QED BY <1>2, <3>1, <4>1 DEF WalkOK, Slots
    <3> QED BY <3>2, <3>3
  <2> QED BY <2>1, <2>2, <2>3 DEF Walk
<1>4. AgwpeTypeOK'
  BY <1>1, <1>3, Parts DEF AgwpeTypeOK
<1>5. \A c \in Conns : ConnOK(c)'
  BY <1>1, Parts DEF ConnOK
<1>6. (\A i \in DOMAIN queue' : RequestOK(queue[i])') /\ CleanerOK' /\ LiveOK'
  BY <1>1, Parts DEF RequestOK, CleanerOK, LiveOK
<1>7. \A s \in leaked' : LeakedOK(s)'
  BY <1>1, Parts DEF LeakedOK
<1>8. OneEach' /\ \A s \in Slots : SlotOK(s)'
  BY <1>1, Parts DEF OneEach, SlotOK, Holds, Queued
<1> QED BY <1>3, <1>4, <1>5, <1>6, <1>7, <1>8 DEF AgwpeInv

\* The invariant holds at first, and after every restart.
LEMMA AgwpeFresh == AgwpeInit => AgwpeInv
<1> SUFFICES ASSUME slots = [s \in Slots |-> Empty], live = {},
                    user_data = [c \in Conns |-> None],
                    pc = [c \in Conns |-> "closed"], mine = [c \in Conns |-> None],
                    queue = <<>>, cleaner = Resting, walk = NotWalking, leaked = {}
             PROVE  AgwpeInv
  BY DEF AgwpeInit
<1>1. Empty \in SlotRecord /\ N \in Nat /\ CleanupLen \in Nat
  BY Contents, AgwpeAssumption
<1>2. queue \in Seq([slot : Slots, client : Clients]) /\ Len(queue) = 0 /\ DOMAIN queue = {}
  <2> DEFINE R == [slot : Slots, client : Clients]
  <2> HIDE DEF R
  <2>1. queue \in Seq(R) /\ Len(queue) = 0 /\ DOMAIN queue = {}
    OBVIOUS
  <2> QED BY <2>1 DEF R
<1>3. AgwpeTypeOK
  <2>1. slots \in [Slots -> SlotRecord]
    BY <1>1
  <2>2. /\ user_data \in [Conns -> Slots \cup {None}] /\ mine \in [Conns -> Slots \cup {None}]
        /\ pc \in [Conns -> {"closed", "adding", "linking", "up", "unserved", "leaving", "asking"}]
    OBVIOUS
  <2>3. /\ cleaner \in [step : {"wait", "remove", "clear", "free"},
                        slot : Slots \cup {None}, client : Clients \cup {None}]
        /\ walk \in [at : 0 .. N + 1, client : Clients \cup {None}]
    BY <1>1 DEF Resting, NotWalking
  <2> QED BY <1>1, <1>2, <2>1, <2>2, <2>3 DEF AgwpeTypeOK
<1>4. \A c \in Conns : ConnOK(c)
  BY DEF ConnOK
<1>5. CleanerOK /\ WalkOK /\ LiveOK
  BY DEF CleanerOK, WalkOK, LiveOK, Resting, NotWalking
<1>6. OneEach
  BY <1>2, Nobody DEF OneEach, Holds, Queued, Resting
<1>7. \A s \in Slots : SlotOK(s)
  BY DEF SlotOK, Empty
<1> QED BY <1>2, <1>3, <1>4, <1>5, <1>6, <1>7 DEF AgwpeInv

\* Every step of a connection, the cleanup task or a walk.
LEMMA AgwpeStepKeeps ==
  ASSUME AgwpeInv, \/ \E c \in Conns : Comes(c) \/ Goes(c)
                   \/ Cleanup \/ WalkStarts \/ Walk
  PROVE  AgwpeInv'
<1>1. ASSUME NEW c \in Conns, Comes(c) PROVE AgwpeInv'
  BY <1>1, ClaimKeeps, UnservedKeeps, AddClientKeeps, AddClientFailsKeeps, LinkKeeps DEF Comes
<1>2. ASSUME NEW c \in Conns, Goes(c) PROVE AgwpeInv'
  BY <1>2, UnservedKeeps, DisconnectKeeps, RequestCleanupKeeps, EnqueueKeeps, EnqueueTimesOutKeeps
     DEF Goes
<1>3. CASE Cleanup
  BY <1>3, ReceiveKeeps, RemoveClientKeeps, ClearSlotKeeps, FreeSlotKeeps DEF Cleanup
<1>4. CASE WalkStarts \/ Walk
  BY <1>4, WalkStepKeeps
<1> QED BY <1>1, <1>2, <1>3, <1>4
-----------------------------------------------------------------------------
(* The ports of KISS clients. *)

KissStages == {"closed", "claimed", "linking", "up", "unserved", "freeing"}
KissSlot == [in_use : BOOLEAN, conn : KissConns \cup {NoConn}]

\* The slot a connection has in hand.
Linked(c, s) ==
  \/ kiss_pc[c] \in {"claimed", "linking"} /\ kiss_mine[c] = s
  \/ kiss_pc[c] \in {"up", "freeing"} /\ kiss_user_data[c] = s

\* Its port is registered from when it is the connection's to when that goes.
Owned(c, s) ==
  /\ kiss_pool[s].in_use
  /\ kiss_pc[c] \in {"linking", "up"} => kiss_pool[s].conn = c
  /\ s \in registered <=> kiss_pc[c] \in {"linking", "up"}

KissTypeOK ==
  /\ router_max \in Nat
  /\ registered \subseteq KissSlots \cup OwnPorts
  /\ kiss_pool \in [KissSlots -> KissSlot]
  /\ kiss_user_data \in [KissConns -> KissSlots \cup {NoConn}]
  /\ kiss_mine \in [KissConns -> KissSlots \cup {NoConn}]
  /\ kiss_pc \in [KissConns -> KissStages]

SlotInHand(c) ==
  /\ kiss_pc[c] \in {"claimed", "linking"} => kiss_mine[c] \in KissSlots
  /\ kiss_pc[c] \in {"up", "freeing"} => kiss_user_data[c] \in KissSlots

Enough == router_max >= KissMax + 3

KissInv ==
  /\ KissTypeOK
  /\ \A c \in KissConns : SlotInHand(c)
  /\ \A c \in KissConns, s \in KissSlots : Linked(c, s) => Owned(c, s)
  /\ \A c, d \in KissConns, s \in KissSlots : Linked(c, s) /\ Linked(d, s) => c = d
  /\ \A s \in KissSlots :
       kiss_pool[s].in_use \/ s \in registered => \E c \in KissConns : Linked(c, s)
  /\ Enough => \A c \in KissConns : kiss_pc[c] # "unserved"

\* The numbers of the ports.
LEMMA Ports ==
  /\ KissMax \in Nat /\ KissMax # 0
  /\ KissSlots \cap OwnPorts = {} /\ IsFiniteSet(OwnPorts) /\ Cardinality(OwnPorts) = 3
  /\ KissSlots \cup OwnPorts = 0 .. KissMax + 2
  /\ NoConn \notin KissSlots /\ NoConn \notin KissConns /\ IsFiniteSet(KissConns)
<1>1. /\ KissMax \in Nat /\ KissMax # 0
      /\ Uart = 0 /\ App = KissMax + 1 /\ Heard = KissMax + 2 /\ OwnPorts = {Uart, Heard, App}
      /\ NoConn \notin KissSlots /\ NoConn \notin KissConns /\ IsFiniteSet(KissConns)
  BY KissAssumption DEF Uart, App, Heard, OwnPorts
<1>2. KissSlots \cap OwnPorts = {} /\ KissSlots \cup OwnPorts = 0 .. KissMax + 2
  BY <1>1 DEF KissSlots
<1>3. IsFiniteSet(OwnPorts) /\ Cardinality(OwnPorts) = 3
  <2>1. IsFiniteSet({Uart}) /\ Cardinality({Uart}) = 1
    BY FS_Singleton
  <2>2. Heard \notin {Uart} /\ App \notin {Uart} \cup {Heard}
    BY <1>1
  <2>3. IsFiniteSet({Uart} \cup {Heard}) /\ Cardinality({Uart} \cup {Heard}) = 2
    BY <2>1, <2>2, FS_AddElement
  <2>4. IsFiniteSet({Uart} \cup {Heard} \cup {App}) /\ Cardinality({Uart} \cup {Heard} \cup {App}) = 3
    BY <2>2, <2>3, FS_AddElement
  <2>5. OwnPorts = {Uart} \cup {Heard} \cup {App}
    BY <1>1
  <2> QED BY <2>4, <2>5
<1> QED BY <1>1, <1>2, <1>3

\* With enough ports there is room as long as one of them is free.
LEMMA EnoughIsRoom ==
  ASSUME KissInv, Enough, NEW port \in KissSlots \cup OwnPorts, port \notin registered
  PROVE  Room
<1>1. KissMax + 2 \in Int /\ 0 \in Int /\ ~(0 > KissMax + 2)
  BY Ports
<1>2. IsFiniteSet(0 .. KissMax + 2) /\ Cardinality(0 .. KissMax + 2) = KissMax + 3
  BY <1>1, Ports, FS_Interval
<1>3. /\ IsFiniteSet((0 .. KissMax + 2) \ {port})
      /\ Cardinality((0 .. KissMax + 2) \ {port}) = Cardinality(0 .. KissMax + 2) - 1
  BY <1>2, Ports, FS_RemoveElement
<1>4. registered \subseteq (0 .. KissMax + 2) \ {port}
  BY Ports DEF KissInv, KissTypeOK
<1>5. /\ Cardinality(registered) <= Cardinality((0 .. KissMax + 2) \ {port})
      /\ IsFiniteSet(registered)
  BY <1>3, <1>4, FS_Subset
<1>6. Cardinality(registered) \in Nat
  BY <1>5, FS_CardinalityType
<1> QED BY <1>2, <1>3, <1>5, <1>6, Ports DEF Room, Enough, KissInv, KissTypeOK

\* While the TCP server lets another one in there is a slot for it.
LEMMA SlotForEach ==
  ASSUME KissInv, Cardinality(Open) < KissMax
  PROVE  Unused # {}
<1> SUFFICES ASSUME Unused = {} PROVE FALSE
  OBVIOUS
<1> DEFINE f == [s \in KissSlots |-> CHOOSE c \in KissConns : Linked(c, s)]
<1>1. ASSUME NEW s \in KissSlots PROVE f[s] \in KissConns /\ Linked(f[s], s)
  <2>1. kiss_pool[s].in_use
    BY DEF Unused
  <2>2. \E c \in KissConns : Linked(c, s)
    BY <2>1 DEF KissInv
  <2> QED BY <2>2
<1>2. f \in [KissSlots -> Open]
  BY <1>1 DEF Open, Linked
<1>3. IsFiniteSet(KissSlots) /\ Cardinality(KissSlots) = KissMax
  BY Ports, FS_Interval DEF KissSlots
<1>4. IsFiniteSet(Open)
  BY Ports, FS_Subset DEF Open
<1> HIDE DEF f
<1>5. PICK x, y \in KissSlots : x # y /\ f[x] = f[y]
  BY <1>2, <1>3, <1>4, FS_PigeonHole
<1> QED BY <1>1, <1>5 DEF Linked

\* A step of one connection on its slot, or on one it takes.
LEMMA KissStepKeeps ==
  ASSUME KissInv, KissTypeOK', router_max' = router_max,
         NEW c \in KissConns, NEW s \in KissSlots,
         Linked(c, s) \/ ~kiss_pool[s].in_use,
         \A d \in KissConns : d # c => /\ kiss_pc'[d] = kiss_pc[d] /\ kiss_mine'[d] = kiss_mine[d]
                                       /\ kiss_user_data'[d] = kiss_user_data[d],
         \A t \in KissSlots : t # s => /\ kiss_pool'[t] = kiss_pool[t]
                                       /\ (t \in registered' <=> t \in registered)
                                       /\ ~Linked(c, t) /\ ~Linked(c, t)',
         SlotInHand(c)',
         Linked(c, s)' => Owned(c, s)',
         kiss_pool'[s].in_use \/ s \in registered' => Linked(c, s)',
         Enough => kiss_pc'[c] # "unserved"
  PROVE  KissInv'
<1>1. \A d \in KissConns : d # c => ~Linked(d, s)
  BY DEF KissInv, Owned
<1>2. \A d \in KissConns, t \in KissSlots : d # c => (Linked(d, t)' <=> Linked(d, t))
  BY DEF Linked
<1>3. \A d \in KissConns : SlotInHand(d)'
  <2>1. ASSUME NEW d \in KissConns, d # c PROVE SlotInHand(d)'
    BY <2>1 DEF SlotInHand, KissInv
  <2> QED BY <2>1
<1>4. ASSUME NEW d \in KissConns, NEW t \in KissSlots, Linked(d, t)' PROVE Owned(d, t)'
  <2>1. CASE d = c /\ t = s
    BY <1>4, <2>1
  <2>2. CASE d # c
    <3>1. Linked(d, t) /\ Owned(d, t) /\ t # s
      BY <1>1, <1>2, <1>4, <2>2 DEF KissInv
    <3> QED BY <2>2, <3>1 DEF Owned
  <2> QED BY <1>4, <2>1, <2>2
<1>5. \A d, e \in KissConns, t \in KissSlots : Linked(d, t)' /\ Linked(e, t)' => d = e
  BY <1>1, <1>2 DEF KissInv
<1>6. ASSUME NEW t \in KissSlots, kiss_pool'[t].in_use \/ t \in registered'
      PROVE  \E d \in KissConns : Linked(d, t)'
  <2>1. CASE t = s
    BY <1>6, <2>1
  <2>2. CASE t # s
    <3>1. PICK d \in KissConns : Linked(d, t)
      BY <1>6, <2>2 DEF KissInv
    <3>2. Linked(d, t)'
      BY <1>2, <2>2, <3>1
    <3> QED BY <3>2
  <2> QED BY <2>1, <2>2
<1>7. Enough' => \A d \in KissConns : kiss_pc'[d] # "unserved"
  BY DEF KissInv, Enough
<1> QED BY <1>3, <1>4, <1>5, <1>6, <1>7 DEF KissInv

\* A set of natural numbers that is not empty has a least element: the search
\* from the first slot on finds one.
LEMMA Least == ASSUME NEW S \in SUBSET Nat, S # {} PROVE \E s \in S : \A t \in S : s <= t
<1>1. ASSUME \A s \in S : \E t \in S : t < s PROVE FALSE
  <2>1. PICK s \in S : \A t \in S : ~(<<t, s>> \in OpToRel(<, Nat))
    BY NatLessThanWellFounded, WFMin
  <2> QED BY <1>1, <2>1 DEF OpToRel
<1> QED BY <1>1

\* The parts of the invariant, by name.
LEMMA KissParts ==
  ASSUME KissInv
  PROVE  /\ KissTypeOK
         /\ \A c \in KissConns : SlotInHand(c) /\ kiss_pc[c] \in KissStages
         /\ \A c \in KissConns, s \in KissSlots : Linked(c, s) => Owned(c, s)
BY DEF KissInv, KissTypeOK

\* kiss_on_connected(): a slot that is not in use is taken (main.c:552).
LEMMA KissClaimKeeps == ASSUME KissInv, NEW c \in KissConns, KissClaim(c) PROVE KissInv'
<1>1. /\ kiss_pc[c] = "closed" /\ Unused # {}
      /\ kiss_user_data' = [kiss_user_data EXCEPT ![c] = NoConn]
      /\ router_max' = router_max /\ registered' = registered
  BY SlotForEach DEF KissClaim
<1> DEFINE s0 == CHOOSE s \in Unused : \A t \in Unused : s <= t
<1>2. s0 \in Unused
  <2>1. Unused # {} /\ Unused \subseteq Nat
    BY <1>1, Ports DEF Unused, KissSlots
  <2>2. \E s \in Unused : \A t \in Unused : s <= t
    BY <2>1, Least
  <2> QED BY <2>2
<1>3. PICK s \in Unused :
        /\ kiss_pool' = [kiss_pool EXCEPT ![s].in_use = TRUE]
        /\ kiss_mine' = [kiss_mine EXCEPT ![c] = s]
        /\ kiss_pc' = [kiss_pc EXCEPT ![c] = "claimed"]
  BY <1>1, <1>2 DEF KissClaim
<1>4. s \in KissSlots /\ ~kiss_pool[s].in_use /\ KissTypeOK
  BY <1>3, KissParts DEF Unused
<1>5. /\ kiss_pool' \in [KissSlots -> KissSlot] /\ kiss_pool'[s].in_use
      /\ \A t \in KissSlots : t # s => kiss_pool'[t] = kiss_pool[t]
  BY <1>3, <1>4 DEF KissTypeOK, KissSlot
<1>6. /\ kiss_mine' \in [KissConns -> KissSlots \cup {NoConn}] /\ kiss_mine'[c] = s
      /\ kiss_user_data' \in [KissConns -> KissSlots \cup {NoConn}]
      /\ \A d \in KissConns : d # c => kiss_mine'[d] = kiss_mine[d] /\ kiss_user_data'[d] = kiss_user_data[d]
  BY <1>1, <1>3, <1>4 DEF KissTypeOK
<1>7. /\ kiss_pc' \in [KissConns -> KissStages] /\ kiss_pc'[c] = "claimed"
      /\ \A d \in KissConns : d # c => kiss_pc'[d] = kiss_pc[d]
  BY <1>3, <1>4 DEF KissTypeOK, KissStages
<1>8. KissTypeOK'
  BY <1>1, <1>4, <1>5, <1>6, <1>7 DEF KissTypeOK
<1>9. s \notin registered
  BY <1>4, KissParts DEF KissInv, Owned
<1>10. \A t \in KissSlots : ~Linked(c, t) /\ (t # s => ~Linked(c, t)')
  BY <1>1, <1>6, <1>7 DEF Linked
<1>11. Linked(c, s)' /\ Owned(c, s)' /\ SlotInHand(c)'
  BY <1>1, <1>4, <1>5, <1>6, <1>7, <1>9 DEF Linked, Owned, SlotInHand
<1> QED BY <1>1, <1>4, <1>5, <1>6, <1>7, <1>8, <1>10, <1>11, KissStepKeeps

\* Its port is registered (main.c:573).
LEMMA KissRegisterKeeps == ASSUME KissInv, NEW c \in KissConns, KissRegister(c) PROVE KissInv'
<1>1. PICK s \in KissSlots : s = kiss_mine[c]
  BY KissParts DEF KissRegister, SlotInHand
<1>2. /\ kiss_pc[c] = "claimed" /\ kiss_pc' = [kiss_pc EXCEPT ![c] = "linking"]
      /\ kiss_pool' = [kiss_pool EXCEPT ![s].conn = c]
      /\ registered' = registered \cup {s}
      /\ router_max' = router_max /\ kiss_user_data' = kiss_user_data /\ kiss_mine' = kiss_mine
  BY <1>1 DEF KissRegister, RegisterPort
<1>3. Linked(c, s) /\ Owned(c, s) /\ kiss_pool[s].in_use /\ KissTypeOK
  BY <1>1, <1>2, KissParts DEF Linked, Owned
<1>4. /\ kiss_pool' \in [KissSlots -> KissSlot] /\ kiss_pool'[s].in_use /\ kiss_pool'[s].conn = c
      /\ \A t \in KissSlots : t # s => kiss_pool'[t] = kiss_pool[t]
  BY <1>2, <1>3 DEF KissTypeOK, KissSlot
<1>5. /\ kiss_pc' \in [KissConns -> KissStages] /\ kiss_pc'[c] = "linking"
      /\ \A d \in KissConns : d # c => kiss_pc'[d] = kiss_pc[d]
  BY <1>2, <1>3 DEF KissTypeOK, KissStages
<1>6. KissTypeOK'
  BY <1>2, <1>3, <1>4, <1>5 DEF KissTypeOK
<1>7. \A t \in KissSlots : t # s => ~Linked(c, t) /\ ~Linked(c, t)' /\ (t \in registered' <=> t \in registered)
  BY <1>1, <1>2, <1>5 DEF Linked
<1>8. Linked(c, s)' /\ Owned(c, s)' /\ SlotInHand(c)'
  BY <1>1, <1>2, <1>4, <1>5 DEF Linked, Owned, SlotInHand
<1> QED BY <1>2, <1>3, <1>4, <1>5, <1>6, <1>7, <1>8, KissStepKeeps

\* Or there is no room for it, and the slot is given back (main.c:577).
LEMMA KissRegisterFailsKeeps ==
  ASSUME KissInv, NEW c \in KissConns, KissRegisterFails(c) PROVE KissInv'
<1>1. PICK s \in KissSlots : s = kiss_mine[c]
  BY KissParts DEF KissRegisterFails, SlotInHand
<1>2. /\ kiss_pc[c] = "claimed" /\ ~Room /\ kiss_pc' = [kiss_pc EXCEPT ![c] = "unserved"]
      /\ kiss_pool' = [kiss_pool EXCEPT ![s] = [in_use |-> FALSE, conn |-> c]]
      /\ kiss_mine' = [kiss_mine EXCEPT ![c] = NoConn]
      /\ router_max' = router_max /\ kiss_user_data' = kiss_user_data /\ registered' = registered
  BY <1>1 DEF KissRegisterFails
<1>3. Linked(c, s) /\ s \notin registered /\ KissTypeOK
  BY <1>1, <1>2, KissParts DEF Linked, Owned
<1>4. ~Enough
  BY <1>2, <1>3, EnoughIsRoom
<1>5. [in_use |-> FALSE, conn |-> c] \in KissSlot
  BY DEF KissSlot
<1>6. /\ kiss_pool' \in [KissSlots -> KissSlot] /\ ~kiss_pool'[s].in_use
      /\ \A t \in KissSlots : t # s => kiss_pool'[t] = kiss_pool[t]
  BY <1>2, <1>3, <1>5 DEF KissTypeOK
<1>7. /\ kiss_pc' \in [KissConns -> KissStages] /\ kiss_pc'[c] = "unserved"
      /\ \A d \in KissConns : d # c => kiss_pc'[d] = kiss_pc[d]
  BY <1>2, <1>3 DEF KissTypeOK, KissStages
<1>8. /\ kiss_mine' \in [KissConns -> KissSlots \cup {NoConn}]
      /\ \A d \in KissConns : d # c => kiss_mine'[d] = kiss_mine[d]
  BY <1>2, <1>3 DEF KissTypeOK
<1>9. KissTypeOK'
  BY <1>2, <1>3, <1>6, <1>7, <1>8 DEF KissTypeOK
<1>10. /\ \A t \in KissSlots : t # s => ~Linked(c, t)
       /\ \A t \in KissSlots : ~Linked(c, t)'
       /\ SlotInHand(c)'
  BY <1>1, <1>2, <1>7 DEF Linked, SlotInHand
<1> QED BY <1>2, <1>3, <1>4, <1>6, <1>7, <1>8, <1>9, <1>10, KissStepKeeps

\* The user data is set last (main.c:582).
LEMMA KissLinkKeeps == ASSUME KissInv, NEW c \in KissConns, KissLink(c) PROVE KissInv'
<1>1. PICK s \in KissSlots : s = kiss_mine[c]
  BY KissParts DEF KissLink, SlotInHand
<1>2. /\ kiss_pc[c] = "linking" /\ kiss_pc' = [kiss_pc EXCEPT ![c] = "up"]
      /\ kiss_user_data' = [kiss_user_data EXCEPT ![c] = s]
      /\ kiss_mine' = [kiss_mine EXCEPT ![c] = NoConn]
      /\ router_max' = router_max /\ registered' = registered /\ kiss_pool' = kiss_pool
  BY <1>1 DEF KissLink
<1>3. Linked(c, s) /\ Owned(c, s) /\ KissTypeOK
  BY <1>1, <1>2, KissParts DEF Linked
<1>4. /\ kiss_pc' \in [KissConns -> KissStages] /\ kiss_pc'[c] = "up"
      /\ \A d \in KissConns : d # c => kiss_pc'[d] = kiss_pc[d]
  BY <1>2, <1>3 DEF KissTypeOK, KissStages
<1>5. /\ kiss_mine' \in [KissConns -> KissSlots \cup {NoConn}]
      /\ kiss_user_data' \in [KissConns -> KissSlots \cup {NoConn}] /\ kiss_user_data'[c] = s
      /\ \A d \in KissConns : d # c => kiss_mine'[d] = kiss_mine[d] /\ kiss_user_data'[d] = kiss_user_data[d]
  BY <1>2, <1>3 DEF KissTypeOK
<1>6. KissTypeOK'
  BY <1>2, <1>3, <1>4, <1>5 DEF KissTypeOK
<1>7. \A t \in KissSlots : t # s => ~Linked(c, t) /\ ~Linked(c, t)'
  BY <1>1, <1>2, <1>4, <1>5 DEF Linked
<1>8. Linked(c, s)' /\ Owned(c, s)' /\ SlotInHand(c)'
  BY <1>2, <1>3, <1>4, <1>5 DEF Linked, Owned, SlotInHand
<1> QED BY <1>2, <1>3, <1>4, <1>5, <1>6, <1>7, <1>8, KissStepKeeps

\* kiss_on_disconnected() of a connection without port (main.c:590).
LEMMA KissLeaveUnservedKeeps ==
  ASSUME KissInv, NEW c \in KissConns, KissLeaveUnserved(c) PROVE KissInv'
<1>1. /\ kiss_pc[c] = "unserved" /\ kiss_pc' = [kiss_pc EXCEPT ![c] = "closed"]
      /\ router_max' = router_max /\ registered' = registered /\ kiss_pool' = kiss_pool
      /\ kiss_user_data' = kiss_user_data /\ kiss_mine' = kiss_mine
  BY DEF KissLeaveUnserved
<1>2. KissTypeOK
  BY KissParts
<1>3. /\ kiss_pc' \in [KissConns -> KissStages] /\ kiss_pc'[c] = "closed"
      /\ \A d \in KissConns : d # c => kiss_pc'[d] = kiss_pc[d]
  BY <1>1, <1>2 DEF KissTypeOK, KissStages
<1>4. KissTypeOK'
  BY <1>1, <1>2, <1>3 DEF KissTypeOK
<1>5. \A d \in KissConns, t \in KissSlots : Linked(d, t)' <=> Linked(d, t)
  BY <1>1, <1>3 DEF Linked
<1>6. \A d \in KissConns : SlotInHand(d)'
  BY <1>1, <1>3, KissParts DEF SlotInHand
<1>7. ASSUME NEW d \in KissConns, NEW t \in KissSlots, Linked(d, t)' PROVE Owned(d, t)'
  <2>1. Linked(d, t) /\ Owned(d, t) /\ d # c
    BY <1>1, <1>5, <1>7, KissParts DEF Linked
  <2> QED BY <1>1, <1>3, <2>1 DEF Owned
<1> QED BY <1>1, <1>3, <1>4, <1>5, <1>6, <1>7 DEF KissInv, Enough

\* The router forgets the port first (main.c:594).
LEMMA KissRemovePortKeeps == ASSUME KissInv, NEW c \in KissConns, KissRemovePort(c) PROVE KissInv'
<1>1. PICK s \in KissSlots : s = kiss_user_data[c]
  BY KissParts DEF KissRemovePort, SlotInHand
<1>2. /\ kiss_pc[c] = "up" /\ kiss_pc' = [kiss_pc EXCEPT ![c] = "freeing"]
      /\ registered' = registered \ {s}
      /\ router_max' = router_max /\ kiss_pool' = kiss_pool
      /\ kiss_user_data' = kiss_user_data /\ kiss_mine' = kiss_mine
  BY <1>1 DEF KissRemovePort
<1>3. Linked(c, s) /\ Owned(c, s) /\ KissTypeOK
  BY <1>1, <1>2, KissParts DEF Linked
<1>4. /\ kiss_pc' \in [KissConns -> KissStages] /\ kiss_pc'[c] = "freeing"
      /\ \A d \in KissConns : d # c => kiss_pc'[d] = kiss_pc[d]
  BY <1>2, <1>3 DEF KissTypeOK, KissStages
<1>5. KissTypeOK'
  BY <1>2, <1>3, <1>4 DEF KissTypeOK
<1>6. \A t \in KissSlots : t # s => ~Linked(c, t) /\ ~Linked(c, t)' /\ (t \in registered' <=> t \in registered)
  BY <1>1, <1>2, <1>4 DEF Linked
<1>7. Linked(c, s)' /\ Owned(c, s)' /\ SlotInHand(c)'
  BY <1>1, <1>2, <1>3, <1>4 DEF Linked, Owned, SlotInHand
<1> QED BY <1>2, <1>3, <1>4, <1>5, <1>6, <1>7, KissStepKeeps

\* And then the slot is given back (main.c:598).
LEMMA KissFreeKeeps == ASSUME KissInv, NEW c \in KissConns, KissFree(c) PROVE KissInv'
<1>1. PICK s \in KissSlots : s = kiss_user_data[c]
  BY KissParts DEF KissFree, SlotInHand
<1>2. /\ kiss_pc[c] = "freeing" /\ kiss_pc' = [kiss_pc EXCEPT ![c] = "closed"]
      /\ kiss_pool' = [kiss_pool EXCEPT ![s].in_use = FALSE]
      /\ router_max' = router_max /\ registered' = registered
      /\ kiss_user_data' = kiss_user_data /\ kiss_mine' = kiss_mine
  BY <1>1 DEF KissFree
<1>3. Linked(c, s) /\ s \notin registered /\ KissTypeOK
  BY <1>1, <1>2, KissParts DEF Linked, Owned
<1>4. /\ kiss_pool' \in [KissSlots -> KissSlot] /\ ~kiss_pool'[s].in_use
      /\ \A t \in KissSlots : t # s => kiss_pool'[t] = kiss_pool[t]
  BY <1>2, <1>3 DEF KissTypeOK, KissSlot
<1>5. /\ kiss_pc' \in [KissConns -> KissStages] /\ kiss_pc'[c] = "closed"
      /\ \A d \in KissConns : d # c => kiss_pc'[d] = kiss_pc[d]
  BY <1>2, <1>3 DEF KissTypeOK, KissStages
<1>6. KissTypeOK'
  BY <1>2, <1>3, <1>4, <1>5 DEF KissTypeOK
<1>7. /\ \A t \in KissSlots : t # s => ~Linked(c, t)
      /\ \A t \in KissSlots : ~Linked(c, t)'
      /\ SlotInHand(c)'
  BY <1>1, <1>2, <1>5 DEF Linked, SlotInHand
<1> QED BY <1>2, <1>3, <1>4, <1>5, <1>6, <1>7, KissStepKeeps

\* Every step of a KISS client's connection.
LEMMA KissNextKeeps == ASSUME KissInv, KissNext PROVE KissInv'
BY KissClaimKeeps, KissRegisterKeeps, KissRegisterFailsKeeps, KissLinkKeeps,
   KissLeaveUnservedKeeps, KissRemovePortKeeps, KissFreeKeeps DEF KissNext

\* The invariant holds at first, and after every restart.
LEMMA KissFreshHolds == KissFresh /\ router_max \in Nat => KissInv
<1> SUFFICES ASSUME router_max \in Nat, registered = {},
                    kiss_pool = [s \in KissSlots |-> EmptySlot],
                    kiss_user_data = [c \in KissConns |-> NoConn],
                    kiss_pc = [c \in KissConns |-> "closed"],
                    kiss_mine = [c \in KissConns |-> NoConn]
             PROVE  KissInv
  BY DEF KissFresh
<1>1. KissTypeOK
  BY DEF KissTypeOK, KissSlot, EmptySlot, KissStages
<1>2. \A c \in KissConns : SlotInHand(c) /\ \A s \in KissSlots : ~Linked(c, s)
  BY DEF SlotInHand, Linked
<1> QED BY <1>1, <1>2 DEF KissInv, EmptySlot

\* The boot registers other ports than those of clients.
LEMMA OtherPortKeeps ==
  ASSUME KissInv, router_max' = router_max, kiss_pool' = kiss_pool, kiss_pc' = kiss_pc,
         kiss_user_data' = kiss_user_data, kiss_mine' = kiss_mine,
         registered' = registered \/ \E port \in OwnPorts : registered' = registered \cup {port}
  PROVE  KissInv'
<1>1. KissTypeOK'
  BY KissParts DEF KissTypeOK
<1>2. \A s \in KissSlots : s \in registered' <=> s \in registered
  BY Ports
<1>3. \A c \in KissConns : SlotInHand(c)'
  BY KissParts DEF SlotInHand
<1>4. \A c \in KissConns, s \in KissSlots :
        /\ Linked(c, s)' <=> Linked(c, s)
        /\ Owned(c, s)' <=> Owned(c, s)
  BY <1>2 DEF Linked, Owned
<1> QED BY <1>1, <1>2, <1>3, <1>4 DEF KissInv, Enough
-----------------------------------------------------------------------------
(* Slots that are lost. *)

\* As LossBounded has it.
LossInv == leaked # {} => Cardinality(leaked) + CleanupLen <= N

\* While the queue is full, each of its requests has a slot of its own (main.c:800).
LEMMA LossKept ==
  ASSUME AgwpeInv, NEW c \in Conns, EnqueueTimesOut(c)
  PROVE  LossInv'
<1>1. PICK s \in Slots : s = mine[c]
  BY Parts DEF EnqueueTimesOut, ConnOK
<1>2. leaked' = leaked \cup {s} /\ Len(queue) = CleanupLen /\ Holds(c, s)
  BY <1>1 DEF EnqueueTimesOut, Holds
<1>3. N \in Nat /\ CleanupLen \in Nat /\ leaked' \subseteq Slots
  BY <1>2, Types, AgwpeAssumption
<1>4. DOMAIN queue = 1 .. CleanupLen
  <2> DEFINE R == [slot : Slots, client : Clients]
  <2>1. queue \in Seq(R)
    BY Types
  <2> HIDE DEF R
  <2> QED BY <1>2, <2>1, LenProperties
<1> DEFINE Rest == Slots \ leaked'
           f == [i \in 1 .. CleanupLen |-> queue[i].slot]
<1>5. \A i \in 1 .. CleanupLen : queue[i].slot \in Slots /\ queue[i].slot \notin leaked'
  <2> SUFFICES ASSUME NEW i \in DOMAIN queue PROVE queue[i].slot \in Slots \ leaked'
    BY <1>4
  <2>1. queue[i].slot \in Slots
    BY Parts, Requests
  <2>2. Queued(queue[i].slot) /\ ~Queued(s)
    BY <1>2, Parts DEF Queued, OneEach
  <2>3. queue[i].slot \notin leaked
    BY <2>1, <2>2, Parts DEF OneEach
  <2> QED BY <1>2, <2>1, <2>2, <2>3
<1>6. f \in [1 .. CleanupLen -> Rest]
  BY <1>5
<1>7. \A i, j \in 1 .. CleanupLen : f[i] = f[j] => i = j
  BY <1>4, Parts DEF OneEach
<1> HIDE DEF f
<1>8. /\ IsFiniteSet(1 .. CleanupLen) /\ Cardinality(1 .. CleanupLen) = CleanupLen
      /\ IsFiniteSet(Slots) /\ Cardinality(Slots) = N
  BY <1>3, FS_Interval, AgwpeAssumption DEF Slots
<1>9. /\ IsFiniteSet(Rest) /\ Cardinality(Rest) = N - Cardinality(Slots \cap leaked')
      /\ IsFiniteSet(leaked') /\ Slots \cap leaked' = leaked'
  <2>1. IsFiniteSet(Rest) /\ Cardinality(Rest) = Cardinality(Slots) - Cardinality(Slots \cap leaked')
    BY <1>8, FS_Difference
  <2>2. IsFiniteSet(leaked')
    BY <1>3, <1>8, FS_Subset
  <2> QED BY <1>3, <1>8, <2>1, <2>2
<1>10. Cardinality(Rest) \in Nat /\ Cardinality(leaked') \in Nat
  BY <1>9, FS_CardinalityType
<1>11. ~(Cardinality(Rest) < Cardinality(1 .. CleanupLen))
  <2> SUFFICES ASSUME Cardinality(Rest) < Cardinality(1 .. CleanupLen) PROVE FALSE
    OBVIOUS
  <2> HIDE DEF Rest
  <2>1. \E x, y \in 1 .. CleanupLen : x # y /\ f[x] = f[y]
    BY <1>6, <1>8, <1>9, FS_PigeonHole
  <2> QED BY <1>7, <2>1
<1>12. Cardinality(leaked') + CleanupLen <= N
  <2>1. Cardinality(Rest) = N - Cardinality(leaked')
    BY <1>9
  <2> HIDE DEF Rest
  <2>2. Cardinality(Rest) \in Nat /\ Cardinality(leaked') \in Nat /\ ~(Cardinality(Rest) < CleanupLen)
    BY <1>8, <1>10, <1>11
  <2> QED BY <1>3, <2>1, <2>2
<1> QED BY <1>12 DEF LossInv
-----------------------------------------------------------------------------
(* The boot. *)

BootInv == AgwpeInv /\ KissInv /\ LossInv

\* What holds of the slots does not depend on anything else.
LEMMA AgwpeStutters == ASSUME AgwpeInv, LossInv, UNCHANGED agwpe PROVE AgwpeInv' /\ LossInv'
<1>1. /\ slots' = slots /\ live' = live /\ pc' = pc /\ mine' = mine /\ user_data' = user_data
      /\ queue' = queue /\ cleaner' = cleaner /\ leaked' = leaked /\ walk' = walk
  BY DEF agwpe, conns
<1>2. AgwpeTypeOK' /\ \A c \in Conns : ConnOK(c)'
  BY <1>1, Parts DEF AgwpeTypeOK, ConnOK
<1>3. /\ \A i \in DOMAIN queue' : RequestOK(queue[i])'
      /\ CleanerOK' /\ LiveOK' /\ WalkOK' /\ LossInv'
  BY <1>1, Parts DEF RequestOK, CleanerOK, LiveOK, WalkOK, LossInv
<1>4. \A s \in leaked' : LeakedOK(s)'
  BY <1>1, Parts DEF LeakedOK
<1>5. OneEach' /\ \A s \in Slots : SlotOK(s)'
  BY <1>1, Parts DEF OneEach, SlotOK, Holds, Queued
<1> QED BY <1>2, <1>3, <1>4, <1>5 DEF AgwpeInv

\* Only a cleanup that is given up loses a slot.
LEMMA AgwpeNextKeeps ==
  ASSUME AgwpeInv, LossInv, \/ \E c \in Conns : Comes(c) \/ Goes(c)
                            \/ Cleanup \/ WalkStarts \/ Walk
  PROVE  AgwpeInv' /\ LossInv'
<1>1. AgwpeInv'
  BY AgwpeStepKeeps
<1>2. CASE \E c \in Conns : EnqueueTimesOut(c)
  BY <1>1, <1>2, LossKept
<1>3. CASE ~\E c \in Conns : EnqueueTimesOut(c)
  <2>1. ASSUME NEW c \in Conns, Comes(c) \/ Goes(c) PROVE leaked' = leaked
    BY <1>3, <2>1 DEF Comes, Claim, Refuse, AddClient, AddClientFails, Link,
         Goes, DisconnectUnserved, Disconnect, RequestCleanup, Enqueue
  <2>2. ASSUME Cleanup \/ WalkStarts \/ Walk PROVE leaked' = leaked
    BY <2>2 DEF Cleanup, Receive, RemoveClient, ClearSlot, FreeSlot,
         WalkStarts, Walk, WalkLooks, WalkCalls, WalkEnds
  <2> QED BY <1>1, <2>1, <2>2 DEF LossInv
<1> QED BY <1>2, <1>3

\* A boot begins with no client, and with the ports free.
LEMMA FreshHolds == AgwpeInit /\ KissFresh /\ router_max \in Nat => BootInv
BY AgwpeFresh, KissFreshHolds DEF BootInv, LossInv, AgwpeInit

\* So does a restart, whatever was there before.
LEMMA RestartKeeps == BootInv /\ Restart => BootInv'
<1>1. BootInv => router_max \in Nat
  BY DEF BootInv, KissInv, KissTypeOK
<1>2. Restart => AgwpeInit' /\ KissFresh' /\ router_max' = router_max
  BY DEF Restart, AgwpeInit, KissFresh
<1>3. BootInv /\ Restart => (AgwpeInit /\ KissFresh /\ router_max \in Nat)'
  BY <1>1, <1>2
<1> QED BY <1>3, FreshHolds, PTL

\* Every step of app_main() and of what runs by then.
LEMMA BootNextKeeps == BootInv /\ [BootNext]_bootvars => BootInv'
<1> SUFFICES ASSUME BootInv, [BootNext]_bootvars PROVE BootInv'
  OBVIOUS
<1>0. AgwpeInv /\ KissInv /\ LossInv
  BY DEF BootInv
<1>1. ASSUME UNCHANGED agwpe, UNCHANGED kiss PROVE BootInv'
  BY <1>0, <1>1, AgwpeStutters, OtherPortKeeps DEF BootInv, kiss
<1>2. CASE BootStep
  <2>1. /\ UNCHANGED agwpe
        /\ router_max' = router_max /\ kiss_pool' = kiss_pool /\ kiss_pc' = kiss_pc
        /\ kiss_user_data' = kiss_user_data /\ kiss_mine' = kiss_mine
    BY <1>2 DEF BootStep
  <2>2. registered' = registered \/ \E port \in OwnPorts : registered' = registered \cup {port}
    <3> DEFINE name == Steps[stage + 1].name
    <3>1. BootPort(name)
      BY <1>2 DEF BootStep
    <3> HIDE DEF name
    <3> QED BY <3>1 DEF BootPort, UartPort, HeardPort, AppPort, RegisterPort, OwnPorts
  <2> QED BY <1>0, <2>1, <2>2, AgwpeStutters, OtherPortKeeps DEF BootInv
<1>3. CASE BootReturns
  BY <1>1, <1>3 DEF BootReturns
<1>4. CASE BootRestarts \/ ConnectIn
  BY <1>4, RestartKeeps DEF BootRestarts, ConnectIn
<1>5. CASE FrameOut
  <2>1. CASE Restart
    BY <2>1, RestartKeeps
  <2>2. CASE WalkStarts /\ UNCHANGED kiss
    BY <1>0, <2>2, AgwpeNextKeeps, OtherPortKeeps DEF BootInv, kiss
  <2> QED BY <1>5, <2>1, <2>2 DEF FrameOut
<1>6. CASE KissNext /\ UNCHANGED agwpe
  BY <1>0, <1>6, KissNextKeeps, AgwpeStutters DEF BootInv
<1>7. CASE (\E c \in Conns : Comes(c) \/ Goes(c)) /\ UNCHANGED kiss
  BY <1>0, <1>7, AgwpeNextKeeps, OtherPortKeeps DEF BootInv, kiss
<1>8. CASE (Cleanup \/ Walk) /\ UNCHANGED kiss
  BY <1>0, <1>8, AgwpeNextKeeps, OtherPortKeeps DEF BootInv, kiss
<1>9. CASE UNCHANGED bootvars
  BY <1>1, <1>9 DEF bootvars
<1> QED BY <1>2, <1>3, <1>4, <1>5, <1>6, <1>7, <1>8, <1>9 DEF BootNext

\* The invariants of slots and ports hold whatever the boot does.
LEMMA BootHolds == BootSpec => []BootInv
<1>1. BootInit => BootInv
  BY FreshHolds, BootAssumption DEF BootInit
<1> QED BY <1>1, BootNextKeeps, PTL DEF BootSpec

\* The slot a connection's user data leads to is its own, in use, with a client
\* that lives, and not being cleaned (main.c:782).
THEOREM AllServed == BootSpec => []Served
<1>1. AgwpeInv => Served
  <2> SUFFICES ASSUME AgwpeInv, NEW c \in Conns, user_data[c] # None
               PROVE  /\ slots[user_data[c]] = Serving(user_data[c], c)
                      /\ Client(user_data[c], c) \in live
    BY DEF Served, Serving, Client
  <2>1. ConnOK(c) /\ pc[c] \in Stages
    BY Parts, Types
  <2> QED BY <2>1 DEF ConnOK, Stages
<1> QED BY <1>1, BootHolds, PTL DEF BootInv

\* A client's frames go to the connection it was made for or nowhere
\* (on_agwpe_frame_out, main.c:699), whoever has its slot.
THEOREM AllFramesHome == BootSpec => []FramesHome
<1>1. AgwpeInv => FramesHome
  <2> SUFFICES ASSUME AgwpeInv, NEW client \in live
               PROVE  slots[client.slot].conn \in {None, client.conn}
    BY DEF FramesHome
  <2>1. PICK s \in Slots : s = client.slot
    BY Types DEF Clients
  <2>2. slots[s].client = client /\ client \in Clients
    BY <2>1, Types, Parts DEF LiveOK
  <2>3. slots[s].client # None /\ slots[s] # Bare
    BY <2>2, Nobody DEF Bare
  <2>4. slots[s].in_use
    BY <2>2, <2>3, Parts DEF SlotOK, Empty
  <2>5. CASE \E c \in Conns : Holds(c, s)
    <3>1. PICK c \in Conns : Holds(c, s)
      BY <2>5
    <3>2. ConnOK(c) /\ pc[c] \in Stages
      BY Parts, Types
    <3>3. slots[s] \in {Serving(s, c), Parted(Client(s, c)), Waiting(Client(s, c))}
      <4>1. CASE pc[c] \in {"closed", "unserved"}
        BY <3>1, <3>2, <4>1, Nobody DEF ConnOK, Holds
      <4>2. CASE pc[c] = "up"
        BY <3>1, <3>2, <4>2, Nobody DEF ConnOK, Holds
      <4>3. CASE pc[c] \in {"adding", "linking", "leaving", "asking"}
        BY <2>3, <3>1, <3>2, <4>3, Nobody DEF ConnOK, Holds
      <4> QED BY <3>2, <4>1, <4>2, <4>3 DEF Stages
    <3> QED BY <2>1, <2>2, <3>3 DEF Serving, Parted, Waiting, Client
  <2>6. CASE Queued(s)
    <3>1. PICK i \in DOMAIN queue : queue[i].slot = s
      BY <2>6 DEF Queued
    <3>2. RequestOK(queue[i])
      BY Parts
    <3> QED BY <2>1, <3>1, <3>2 DEF RequestOK, Waiting
  <2>7. CASE cleaner.slot = s
    <3>1. CleanerOK /\ cleaner.step \in {"wait", "remove", "clear", "free"}
      BY Parts, Types
    <3>2. slots[s] = Waiting(cleaner.client)
      BY <2>3, <2>7, <3>1, Nobody DEF CleanerOK, RequestOK, Resting
    <3> QED BY <2>1, <3>2 DEF Waiting
  <2>8. CASE s \in leaked
    <3>1. PICK other \in live : slots[s] = Parted(other)
      BY <2>8, Parts DEF LeakedOK
    <3> QED BY <2>1, <3>1 DEF Parted
  <2> QED BY <2>4, <2>5, <2>6, <2>7, <2>8, Parts DEF SlotOK
<1> QED BY <1>1, BootHolds, PTL DEF BootInv

\* A slot in use is in exactly one's hand, so that it is freed once (main.c:630).
THEOREM AlwaysOneHolder == BootSpec => []OneHolder
<1>1. AgwpeInv => OneHolder
  <2> SUFFICES ASSUME AgwpeInv, NEW s \in Slots
               PROVE  Cardinality(Holders(s)) = IF slots[s].in_use THEN 1 ELSE 0
    BY DEF OneHolder
  <2>1. /\ \A c \in Conns : <<"conn", c>> \in Holders(s) <=> Holds(c, s)
        /\ \A h \in Holders(s) :
             \/ \E c \in Conns : h = <<"conn", c>> /\ Holds(c, s)
             \/ \E i \in DOMAIN queue : h = <<"queue", i>> /\ queue[i].slot = s
             \/ h = <<"cleaner", s>> /\ cleaner.slot = s
             \/ h = <<"leaked", s>> /\ s \in leaked
    BY DEF Holders, Holds
  <2>2. /\ \A i \in DOMAIN queue : queue[i].slot = s => <<"queue", i>> \in Holders(s)
        /\ cleaner.slot = s => <<"cleaner", s>> \in Holders(s)
        /\ s \in leaked => <<"leaked", s>> \in Holders(s)
    BY DEF Holders
  <2>3. CASE ~slots[s].in_use
    <3>1. Holders(s) = {}
      BY <2>1, <2>3, FreeIsFree DEF Queued
    <3> QED BY <2>3, <3>1, FS_EmptySet
  <2>4. CASE slots[s].in_use
    <3>1. OneEach
      BY Parts
    <3>2. CASE \E c \in Conns : Holds(c, s)
      <4>1. PICK c \in Conns : Holds(c, s)
        BY <3>2
      <4>2. /\ \A d \in Conns : Holds(d, s) => d = c
            /\ ~Queued(s) /\ cleaner.slot # s /\ s \notin leaked
        BY <3>1, <4>1 DEF OneEach
      <4>3. Holders(s) = {<<"conn", c>>}
        BY <2>1, <4>1, <4>2 DEF Queued
      <4> QED BY <2>4, <4>3, FS_Singleton
    <3>3. CASE Queued(s)
      <4>1. PICK i \in DOMAIN queue : queue[i].slot = s
        BY <3>3 DEF Queued
      <4>2. /\ \A j \in DOMAIN queue : queue[j].slot = s => j = i
            /\ cleaner.slot # s /\ s \notin leaked /\ \A c \in Conns : ~Holds(c, s)
        BY <3>1, <3>3, <4>1 DEF OneEach
      <4>3. Holders(s) = {<<"queue", i>>}
        BY <2>1, <2>2, <4>1, <4>2
      <4> QED BY <2>4, <4>3, FS_Singleton
    <3>4. CASE cleaner.slot = s
      <4>1. Holders(s) = {<<"cleaner", s>>}
        BY <2>1, <2>2, <3>4, CleanerAlone DEF Queued
      <4> QED BY <2>4, <4>1, FS_Singleton
    <3>5. CASE s \in leaked
      <4>1. ~Queued(s) /\ cleaner.slot # s /\ \A c \in Conns : ~Holds(c, s)
        BY <3>1, <3>5 DEF OneEach
      <4>2. Holders(s) = {<<"leaked", s>>}
        BY <2>1, <2>2, <3>5, <4>1 DEF Queued
      <4> QED BY <2>4, <4>2, FS_Singleton
    <3> QED BY <2>4, <3>2, <3>3, <3>4, <3>5, Parts DEF SlotOK
  <2> QED BY <2>3, <2>4
<1> QED BY <1>1, BootHolds, PTL DEF BootInv

\* No more slots are lost than the queue is short of (main.c:800).
THEOREM LossesBounded == BootSpec => []LossBounded
<1>1. LossInv => LossBounded
  BY DEF LossInv, LossBounded
<1> QED BY <1>1, BootHolds, PTL DEF BootInv

\* A walk calls no client that is gone, except where the cleanup task is
\* (main.c:650, 676).
THEOREM GoneOnlyThere == BootSpec => []GoneOnlyInCleanup
<1>1. AgwpeInv => GoneOnlyInCleanup
  <2> SUFFICES ASSUME AgwpeInv PROVE GoneOnlyInCleanup
    OBVIOUS
  <2>1. WalkOK
    BY Parts
  <2> QED BY <2>1 DEF WalkOK, GoneOnlyInCleanup
<1> QED BY <1>1, BootHolds, PTL DEF BootInv

\* Every port of a KISS client is that of one connected, in a slot that is in
\* use (main.c:590).
THEOREM AlwaysPortsOwned == BootSpec => []PortsOwned
<1>1. KissInv => PortsOwned
  <2> SUFFICES ASSUME KissInv, NEW s \in KissSlots, s \in registered
               PROVE  /\ kiss_pool[s].in_use
                      /\ kiss_pc[kiss_pool[s].conn] \in {"linking", "up"}
                      /\ s \in {kiss_mine[kiss_pool[s].conn], kiss_user_data[kiss_pool[s].conn]}
    BY DEF PortsOwned
  <2>1. PICK c \in KissConns : Linked(c, s)
    BY DEF KissInv
  <2>2. Owned(c, s)
    BY <2>1, KissParts
  <2>3. kiss_pc[c] \in {"linking", "up"} /\ kiss_pool[s].conn = c /\ kiss_pool[s].in_use
    BY <2>2 DEF Owned
  <2> QED BY <2>1, <2>3 DEF Linked
<1> QED BY <1>1, BootHolds, PTL DEF BootInv

\* With as many places in the router as clients and ports of the firmware, every
\* client is served, and app_main() finds a place for the heard list and for the
\* BBS (bbs_heard.c:130, main.c:1112).
THEOREM AlwaysRoomForAll == BootSpec => []RoomForAll
<1>1. KissInv => RoomForAll
  <2> SUFFICES ASSUME KissInv, router_max >= KissMax + Cardinality(OwnPorts)
               PROVE  /\ \A c \in KissConns : kiss_pc[c] # "unserved"
                      /\ OwnPorts \subseteq registered \/ Room
    BY DEF RoomForAll
  <2>1. Enough
    BY Ports DEF Enough
  <2>2. \A c \in KissConns : kiss_pc[c] # "unserved"
    BY <2>1 DEF KissInv
  <2>3. ASSUME NEW port \in OwnPorts, port \notin registered PROVE Room
    BY <2>1, <2>3, EnoughIsRoom
  <2> QED BY <2>2, <2>3
<1> QED BY <1>1, BootHolds, PTL DEF BootInv

\* The variables have their types.
THEOREM PortsTypeCorrect == BootSpec => [](AgwpeTypeOK /\ KissTypeOK)
<1>1. BootInv => AgwpeTypeOK /\ KissTypeOK
  BY Parts, KissParts DEF BootInv
<1> QED BY <1>1, BootHolds, PTL
=============================================================================
