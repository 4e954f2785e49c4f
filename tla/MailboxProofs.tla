--------------------------- MODULE MailboxProofs ----------------------------
(***************************************************************************)
(* Proofs about module Mailbox, for any stations, any arguments and any    *)
(* size of the store: what was read stays read, what counts as read        *)
(* without having been is hidden behind a mark from before a reset,        *)
(* nothing is removed but by right or as the oldest of a full store, a     *)
(* message is for those whose call was typed, and the mailbox implements   *)
(* the board of module MessageBoard.                                       *)
(***************************************************************************)
EXTENDS Mailbox, FiniteSetTheorems, SequenceTheorems, WellFoundedInduction, TLAPS

Marks == [n : Nat, epoch : Nat]

\* Who is connected has a call, and the counters of the history are numbers.
ConnectedOK ==
  /\ connected => remote_callsign \in Calls
  /\ posted \in Nat /\ resets \in Nat
  /\ marked \in [Calls -> Marks]

\* The ids and the posts of the messages that are there, in one order.
RecordsOK ==
  /\ \A i \in DOMAIN records :
       /\ records[i].id < next_id
       /\ records[i].n <= posted /\ records[i].epoch <= resets
  /\ \A i, j \in DOMAIN records :
       records[i].id <= records[j].id <=> records[i].n <= records[j].n

\* A mark that was set since the last reset is below the ids still to come.
MarksOK ==
  \A c \in Calls : /\ marked[c].epoch <= resets
                   /\ marked[c].epoch = resets => last_read[c] < next_id

MailInv == TypeOK /\ ConnectedOK /\ RecordsOK /\ MarksOK /\ HiddenOnlyAfterReset

\* The messages that are there, by the posts they are of, and the board that
\* module MessageBoard promises, which is always up, as a command finds it, and of
\* which nothing that was deleted comes back.
Numbers == {records[i].n : i \in DOMAIN records}
Board == INSTANCE MessageBoard
           WITH Msgs <- 1 .. MaxPosts, Capacity <- MaxMessages,
                up <- TRUE, board <- Numbers, undead <- {}

\* No message is there twice.
Distinct == \A i, j \in DOMAIN records : i # j => records[i].n # records[j].n

\* Posts are counted up to their bound.
PostsOK == posted <= MaxPosts /\ \A i \in DOMAIN records : records[i].n \in 1 .. posted

\* Every message is for the base call of what was typed.
AddresseesOK == \A i \in DOMAIN records : records[i].to = BaseCall(records[i].arg)
-----------------------------------------------------------------------------
(* Numbers: among the ids of the store there is a least, and a highest. *)

LEMMA HasLeast == ASSUME NEW S \in SUBSET Nat, S # {} PROVE \E x \in S : \A y \in S : x <= y
<1>1. PICK x \in S : \A y \in S : <<y, x>> \notin OpToRel(<, Nat)
  BY NatLessThanWellFounded, WFMin
<1>2. \A y \in S : ~(y < x)
  BY <1>1 DEF OpToRel
<1> QED  BY <1>2

LEMMA HasHighest ==
  ASSUME NEW S \in SUBSET Nat, S # {}, NEW b \in Nat, \A y \in S : y <= b
  PROVE  Max(S) \in S /\ \A y \in S : Max(S) >= y
<1> DEFINE U == {u \in Nat : \A y \in S : y <= u}
<1>1. U \in SUBSET Nat /\ U # {}
  OBVIOUS
<1>2. PICK u \in U : \A v \in U : u <= v
  BY <1>1, HasLeast
<1>3. u \in S
  <2> SUFFICES ASSUME u \notin S PROVE FALSE
    OBVIOUS
  <2>1. PICK z \in S : z \in Nat /\ z < u
    <3>1. u \in Nat /\ \A y \in S : y \in Nat /\ y <= u /\ y # u
      BY <1>2
    <3>2. \A y \in S : y \in Nat /\ y < u
      <4> HIDE DEF U
      <4> QED  BY <3>1
    <3>3. PICK y \in S : TRUE
      OBVIOUS
    <3> QED  BY <3>2, <3>3
  <2>2. u - 1 \in Nat /\ \A y \in S : y <= u - 1
    BY <1>2, <2>1
  <2>3. u - 1 \in U
    BY <2>2
  <2> QED  BY <1>2, <2>1, <2>3
<1>4. \A y \in S : u >= y
  BY <1>2
<1> QED  BY <1>3, <1>4 DEF Max

\* The records have a place and a type.
LEMMA Recorded ==
  ASSUME TypeOK
  PROVE  /\ records \in Seq(Record) /\ Len(records) \in Nat
         /\ DOMAIN records = 1 .. Len(records)
         /\ \A i \in DOMAIN records : records[i] \in Record
<1>1. records \in Seq(Record)
  BY DEF TypeOK
<1> HIDE DEF Record
<1> QED  BY <1>1, LenProperties, ElementOfSeq

\* A full store has an oldest message: the one SlotFor finds.
LEMMA SlotForOldest ==
  ASSUME TypeOK, Len(records) # 0
  PROVE  /\ SlotFor \in DOMAIN records
         /\ \A j \in DOMAIN records : records[SlotFor].id <= records[j].id
<1> DEFINE S == {records[i].id : i \in DOMAIN records}
<1>1. S \in SUBSET Nat /\ S # {}
  <2>1. 1 \in DOMAIN records
    BY Recorded
  <2>2. \A i \in DOMAIN records : records[i].id \in Nat
    BY Recorded DEF Record
  <2> QED  BY <2>1, <2>2
<1>2. PICK x \in S : \A y \in S : x <= y
  BY <1>1, HasLeast
<1>3. PICK i \in DOMAIN records : records[i].id = x
  BY <1>2
<1>4. \A j \in DOMAIN records : records[i].id <= records[j].id
  BY <1>2, <1>3
<1> QED  BY <1>4 DEF SlotFor

\* A post puts its record behind the others, or into the place of the oldest.
LEMMA StoredAt ==
  ASSUME TypeOK, NEW rec \in Record, Store(rec)
  PROVE  \/ /\ Len(records) < MaxMessages
            /\ records' \in Seq(Record) /\ Len(records') = Len(records) + 1
            /\ DOMAIN records' = 1 .. Len(records) + 1
            /\ records'[Len(records) + 1] = rec
            /\ \A i \in 1 .. Len(records) : records'[i] = records[i]
         \/ /\ Len(records) = MaxMessages
            /\ records' \in Seq(Record) /\ Len(records') = Len(records)
            /\ DOMAIN records' = DOMAIN records
            /\ \E f \in DOMAIN records :
                 /\ \A k \in DOMAIN records : records[f].id <= records[k].id
                 /\ records'[f] = rec
                 /\ \A i \in DOMAIN records \ {f} : records'[i] = records[i]
<1>1. PICK n \in Nat : n = Len(records) /\ DOMAIN records = 1 .. n
  BY Recorded
<1>2. records \in Seq(Record) /\ n <= MaxMessages
  BY <1>1 DEF TypeOK
<1>3. CASE n < MaxMessages
  <2>1. records' = Append(records, rec)
    BY <1>1, <1>3 DEF Store
  <2>2. /\ records' \in Seq(Record) /\ Len(records') = n + 1
        /\ records'[n + 1] = rec /\ \A i \in 1 .. n : records'[i] = records[i]
    <3> HIDE DEF Record
    <3> QED  BY <1>1, <1>2, <2>1, AppendProperties
  <2>3. DOMAIN records' = 1 .. n + 1
    <3> HIDE DEF Record
    <3> QED  BY <2>2, LenProperties
  <2> QED  BY <1>1, <1>3, <2>2, <2>3
<1>4. CASE ~(n < MaxMessages)
  <2>1. records' = [records EXCEPT ![SlotFor] = rec]
    BY <1>1, <1>4 DEF Store
  <2>2. PICK f \in DOMAIN records :
          f = SlotFor /\ \A k \in DOMAIN records : records[f].id <= records[k].id
    BY <1>1, <1>4, MailboxAssumption, SlotForOldest
  <2>3. /\ records' \in Seq(Record) /\ Len(records') = n /\ DOMAIN records' = DOMAIN records
        /\ records'[f] = rec /\ \A i \in DOMAIN records \ {f} : records'[i] = records[i]
    <3> HIDE DEF Record
    <3>1. records' = [records EXCEPT ![f] = rec]
      BY <2>1, <2>2
    <3>2. records' \in Seq(Record) /\ Len(records') = n
      BY <1>1, <1>2, <2>2, <3>1, ExceptSeq
    <3> QED  BY <1>1, <1>2, <2>2, <3>1, <3>2
  <2>4. Len(records) = MaxMessages
    BY <1>1, <1>2, <1>4, MailboxAssumption
  <2> QED  BY <1>1, <2>2, <2>3, <2>4
<1> QED  BY <1>3, <1>4

\* So it leaves every other message there, except the oldest.
LEMMA Stored ==
  ASSUME TypeOK, NEW rec \in Record, Store(rec)
  PROVE  /\ records' \in Seq(Record) /\ Len(records') <= MaxMessages
         /\ \A j \in DOMAIN records' :
              records'[j] = rec \/ \E k \in DOMAIN records : records'[j] = records[k]
         /\ \A i \in DOMAIN records :
              \/ \E j \in DOMAIN records' : records'[j] = records[i]
              \/ \A k \in DOMAIN records : records[i].id <= records[k].id
<1>1. PICK n \in Nat : n = Len(records) /\ DOMAIN records = 1 .. n
  BY Recorded
<1>2. CASE /\ n < MaxMessages
           /\ records' \in Seq(Record) /\ Len(records') = n + 1
           /\ DOMAIN records' = 1 .. n + 1 /\ records'[n + 1] = rec
           /\ \A i \in 1 .. n : records'[i] = records[i]
  <2>1. \A j \in 1 .. n + 1 : j = n + 1 \/ j \in 1 .. n
    OBVIOUS
  <2>2. \A i \in 1 .. n : i \in 1 .. n + 1
    OBVIOUS
  <2>3. Len(records') <= MaxMessages
    BY <1>2, MailboxAssumption
  <2> QED  BY <1>1, <1>2, <2>1, <2>2, <2>3
<1>3. CASE /\ n = MaxMessages
           /\ records' \in Seq(Record) /\ Len(records') = n
           /\ DOMAIN records' = DOMAIN records
           /\ \E f \in DOMAIN records :
                /\ \A k \in DOMAIN records : records[f].id <= records[k].id
                /\ records'[f] = rec
                /\ \A i \in DOMAIN records \ {f} : records'[i] = records[i]
  BY <1>3, MailboxAssumption
<1> QED  BY <1>1, <1>2, <1>3, StoredAt

\* A deletion takes one record, and moves those behind it up.
LEMMA TakenAt ==
  ASSUME TypeOK, NEW i \in DOMAIN records
  PROVE  /\ Removed(i) \in Seq(Record) /\ Len(Removed(i)) = Len(records) - 1
         /\ DOMAIN Removed(i) = 1 .. Len(records) - 1
         /\ \A k \in 1 .. Len(records) - 1 :
              Removed(i)[k] = records[IF k <= i - 1 THEN k ELSE k + 1]
<1>1. PICK n \in Nat : n = Len(records) /\ DOMAIN records = 1 .. n
  BY Recorded
<1>2. records \in Seq(Record) /\ i \in 1 .. n
  BY <1>1, Recorded
<1>3. PICK a : a = SubSeq(records, 1, i - 1)
  OBVIOUS
<1>4. PICK b : b = SubSeq(records, i + 1, n)
  OBVIOUS
<1>5. Removed(i) = a \o b
  BY <1>1, <1>3, <1>4 DEF Removed, RemoveAt
<1>6. a \in Seq(Record) /\ Len(a) = i - 1 /\ \A k \in 1 .. i - 1 : a[k] = records[k]
  <2> HIDE DEF Record
  <2>1. \A k \in 1 .. i - 1 : k \in 1 .. n
    BY <1>2
  <2>2. \A k \in 1 .. i - 1 : records[k] \in Record
    BY <1>1, <2>1, Recorded
  <2> QED  BY <1>2, <1>3, <2>2, SubSeqProperties
<1>7. b \in Seq(Record) /\ Len(b) = n - i /\ \A k \in 1 .. n - i : b[k] = records[i + k]
  <2> HIDE DEF Record
  <2> QED  BY <1>1, <1>2, <1>4, Recorded, SubSeqProperties
<1>8. /\ Removed(i) \in Seq(Record) /\ Len(Removed(i)) = n - 1
      /\ \A k \in 1 .. n - 1 : Removed(i)[k] = IF k <= i - 1 THEN a[k] ELSE b[k - (i - 1)]
  <2> HIDE DEF Record
  <2>1. /\ a \o b \in Seq(Record) /\ Len(a \o b) = Len(a) + Len(b)
        /\ \A k \in 1 .. Len(a) + Len(b) :
             (a \o b)[k] = IF k <= Len(a) THEN a[k] ELSE b[k - Len(a)]
    BY <1>6, <1>7, ConcatProperties
  <2>2. Len(a) = i - 1 /\ Len(a) + Len(b) = n - 1
    BY <1>2, <1>6, <1>7
  <2> QED  BY <1>5, <2>1, <2>2
<1>9. DOMAIN Removed(i) = 1 .. n - 1
  <2> HIDE DEF Record
  <2> QED  BY <1>8, LenProperties
<1>10. ASSUME NEW k \in 1 .. n - 1
       PROVE  Removed(i)[k] = records[IF k <= i - 1 THEN k ELSE k + 1]
  <2>1. CASE k <= i - 1
    BY <1>6, <1>8, <2>1
  <2>2. CASE ~(k <= i - 1)
    <3>1. k - (i - 1) \in 1 .. n - i /\ i + (k - (i - 1)) = k + 1
      BY <1>2, <2>2
    <3> QED  BY <1>7, <1>8, <2>2, <3>1
  <2> QED  BY <2>1, <2>2
<1> QED  BY <1>1, <1>8, <1>9, <1>10

\* So it keeps every other.
LEMMA Taken ==
  ASSUME TypeOK, NEW i \in DOMAIN records
  PROVE  /\ Removed(i) \in Seq(Record) /\ Len(Removed(i)) <= Len(records)
         /\ \A j \in DOMAIN Removed(i) : \E k \in DOMAIN records : Removed(i)[j] = records[k]
         /\ \A k \in DOMAIN records \ {i} : \E j \in DOMAIN Removed(i) : Removed(i)[j] = records[k]
<1>1. PICK n \in Nat : n = Len(records) /\ DOMAIN records = 1 .. n /\ i \in 1 .. n
  BY Recorded
<1>2. /\ Removed(i) \in Seq(Record) /\ Len(Removed(i)) = n - 1
      /\ DOMAIN Removed(i) = 1 .. n - 1
      /\ \A k \in 1 .. n - 1 : Removed(i)[k] = records[IF k <= i - 1 THEN k ELSE k + 1]
  BY <1>1, TakenAt
<1>3. ASSUME NEW j \in DOMAIN Removed(i) PROVE \E k \in DOMAIN records : Removed(i)[j] = records[k]
  <2>1. j \in 1 .. n - 1 /\ (IF j <= i - 1 THEN j ELSE j + 1) \in 1 .. n
    BY <1>1, <1>2
  <2> QED  BY <1>1, <1>2, <2>1
<1>4. ASSUME NEW k \in DOMAIN records \ {i} PROVE \E j \in DOMAIN Removed(i) : Removed(i)[j] = records[k]
  <2>1. CASE k < i
    <3>1. k \in 1 .. n - 1 /\ k <= i - 1
      BY <1>1, <2>1
    <3> QED  BY <1>2, <3>1
  <2>2. CASE ~(k < i)
    <3>1. k - 1 \in 1 .. n - 1 /\ ~(k - 1 <= i - 1) /\ (k - 1) + 1 = k
      BY <1>1, <2>2
    <3> QED  BY <1>2, <3>1
  <2> QED  BY <1>1, <2>1, <2>2
<1> QED  BY <1>1, <1>2, <1>3, <1>4
-----------------------------------------------------------------------------
(* The steps. *)

LEMMA Modes == LedMode \in {"ON", "BLINK", "OFF"}
BY DEF LedMode

LEMMA LedKept == ASSUME TypeOK, WorkerDone PROVE bbs_mode' \in {"ON", "BLINK", "OFF"} /\ found' = found
<1>1. LedMode' \in {"ON", "BLINK", "OFF"}
  BY DEF LedMode
<1> QED  BY <1>1 DEF WorkerDone

\* Events that touch no message and no mark: they leave all but the types alone.
LEMMA SessionKeeps ==
  ASSUME MailInv, records' = records, next_id' = next_id, last_read' = last_read,
         posted' = posted, resets' = resets, marked' = marked,
         connected' \in BOOLEAN, is_sysop' \in BOOLEAN,
         remote_callsign' \in Calls \cup {NoCall},
         connected' => remote_callsign' \in Calls,
         bbs_mode' \in {"ON", "BLINK", "OFF"}, found' \in {"ON", "BLINK", "OFF", None}
  PROVE  MailInv'
<1>1. TypeOK'
  BY DEF MailInv, TypeOK
<1>2. ConnectedOK' /\ RecordsOK' /\ MarksOK' /\ HiddenOnlyAfterReset'
  BY DEF MailInv, ConnectedOK, RecordsOK, MarksOK, HiddenOnlyAfterReset
<1> QED  BY <1>1, <1>2 DEF MailInv

LEMMA ConnectKeeps == ASSUME MailInv, NEW s \in Stations, Connect(s) PROVE MailInv'
<1>1. /\ records' = records /\ next_id' = next_id /\ last_read' = last_read
      /\ posted' = posted /\ resets' = resets /\ marked' = marked
      /\ connected' = TRUE /\ is_sysop' = FALSE /\ remote_callsign' = BaseCall(s) /\ WorkerDone
  BY DEF Connect, store, history
<1>2. BaseCall(s) \in Calls
  BY DEF Calls
<1>3. bbs_mode' \in {"ON", "BLINK", "OFF"} /\ found' \in {"ON", "BLINK", "OFF", None}
  BY <1>1, LedKept DEF MailInv, TypeOK
<1> QED  BY <1>1, <1>2, <1>3, SessionKeeps

LEMMA DisconnectKeeps == ASSUME MailInv, Disconnect PROVE MailInv'
<1>1. /\ records' = records /\ next_id' = next_id /\ last_read' = last_read
      /\ posted' = posted /\ resets' = resets /\ marked' = marked
      /\ connected' = FALSE /\ is_sysop' = FALSE /\ remote_callsign' = remote_callsign /\ WorkerDone
  BY DEF Disconnect, store, history
<1>2. remote_callsign \in Calls \cup {NoCall}
  BY DEF MailInv, TypeOK
<1>3. bbs_mode' \in {"ON", "BLINK", "OFF"} /\ found' \in {"ON", "BLINK", "OFF", None}
  BY <1>1, LedKept DEF MailInv, TypeOK
<1> QED  BY <1>1, <1>2, <1>3, SessionKeeps

LEMMA RightsKeep == ASSUME MailInv, Rights PROVE MailInv'
<1>1. /\ records' = records /\ next_id' = next_id /\ last_read' = last_read
      /\ posted' = posted /\ resets' = resets /\ marked' = marked
      /\ connected' = connected /\ remote_callsign' = remote_callsign /\ WorkerDone
  BY DEF Rights, store, history
<1>2. /\ remote_callsign \in Calls \cup {NoCall} /\ connected \in BOOLEAN
      /\ connected => remote_callsign \in Calls
  BY DEF MailInv, TypeOK, ConnectedOK
<1>3. bbs_mode' \in {"ON", "BLINK", "OFF"} /\ found' \in {"ON", "BLINK", "OFF", None}
  BY <1>1, LedKept DEF MailInv, TypeOK
<1>4. is_sysop' \in BOOLEAN
  BY Zenon DEF Rights
<1> QED  BY <1>1, <1>2, <1>3, <1>4, SessionKeeps

LEMMA LedKeeps == ASSUME MailInv, Led PROVE MailInv'
<1>1. /\ records' = records /\ next_id' = next_id /\ last_read' = last_read
      /\ posted' = posted /\ resets' = resets /\ marked' = marked
      /\ connected' = connected /\ is_sysop' = is_sysop /\ remote_callsign' = remote_callsign
  BY DEF Led, LedLook, LedSet, store, session, history
<1>2. /\ remote_callsign \in Calls \cup {NoCall} /\ connected \in BOOLEAN /\ is_sysop \in BOOLEAN
      /\ connected => remote_callsign \in Calls
  BY DEF MailInv, TypeOK, ConnectedOK
<1>3. bbs_mode' \in {"ON", "BLINK", "OFF"} /\ found' \in {"ON", "BLINK", "OFF", None}
  BY Modes DEF Led, LedLook, LedSet, MailInv, TypeOK
<1> QED  BY <1>1, <1>2, <1>3, SessionKeeps

\* What a post stores is a record, with the next id.
LEMMA Posted ==
  ASSUME MailInv, NEW cmd \in {"S", "SP", "SB"}, NEW arg \in Args, Post(cmd, arg)
  PROVE  \E rec \in Record : /\ Store(rec) /\ rec.id = next_id
                             /\ rec.n = posted + 1 /\ rec.epoch = resets
                             /\ rec.to = BaseCall(rec.arg)
<1> DEFINE new == [id |-> next_id, from |-> remote_callsign, to |-> Addressee(arg),
                   bulletin |-> Flags(cmd, arg),
                   n |-> posted + 1, epoch |-> resets, arg |-> arg]
<1>1. Store(new) /\ connected
  BY DEF Post
<1>2. Flags(cmd, arg) \in BOOLEAN
  <2>1. (~IsValidCallsign(arg)) \in BOOLEAN
    BY Zenon
  <2>2. CASE cmd = "SB"
    BY <2>2 DEF Flags
  <2>3. CASE cmd = "SP"
    BY <2>3 DEF Flags
  <2>4. CASE cmd = "S"
    <3>1. cmd # "SB" /\ cmd # "SP"
      BY <2>4
    <3>2. Flags(cmd, arg) = ~IsValidCallsign(arg)
      BY <2>4, <3>1, Zenon DEF Flags
    <3> QED  BY <2>1, <3>2
  <2> QED  BY <2>2, <2>3, <2>4
<1>3. next_id \in Nat /\ posted \in Nat /\ resets \in Nat /\ remote_callsign \in Calls
  BY <1>1 DEF MailInv, TypeOK, ConnectedOK
<1>4. Addressee(arg) \in {Addressee(a) : a \in Args}
  OBVIOUS
<1>5. new \in Record
  BY <1>2, <1>3, <1>4 DEF Record
<1>6. new.id = next_id /\ new.n = posted + 1 /\ new.epoch = resets /\ new.to = BaseCall(new.arg)
  BY DEF Addressee
<1> QED  BY <1>1, <1>5, <1>6

\* A new message is the highest in both orders.
LEMMA PostKeeps ==
  ASSUME MailInv, NEW cmd \in {"S", "SP", "SB"}, NEW arg \in Args, Post(cmd, arg)
  PROVE  MailInv'
<1>1. /\ posted' = posted + 1 /\ next_id' = next_id + 1
      /\ last_read' = last_read /\ resets' = resets /\ marked' = marked
      /\ connected' = connected /\ is_sysop' = is_sysop /\ remote_callsign' = remote_callsign
      /\ WorkerDone /\ connected
  BY DEF Post, session, Store
<1>3. /\ next_id \in Nat /\ posted \in Nat /\ resets \in Nat /\ remote_callsign \in Calls
      /\ TypeOK
  BY <1>1 DEF MailInv, TypeOK, ConnectedOK
<1>6. PICK rec \in Record : /\ Store(rec) /\ rec.id = next_id /\ rec.n = posted + 1
                            /\ rec.epoch = resets
  BY Posted
<1>7. /\ records' \in Seq(Record) /\ Len(records') <= MaxMessages
      /\ \A j \in DOMAIN records' :
           records'[j] = rec \/ \E k \in DOMAIN records : records'[j] = records[k]
  BY <1>3, <1>6, Stored
<1>8. \A k \in DOMAIN records : /\ records[k].id \in Nat /\ records[k].n \in Nat
                                /\ records[k].epoch \in Nat
  BY <1>3, Recorded DEF Record
<1>9. \A k \in DOMAIN records : /\ records[k].id < next_id /\ records[k].n <= posted
                                /\ records[k].epoch <= resets
  BY DEF MailInv, RecordsOK
<1>10. TypeOK'
  <2>1. bbs_mode' \in {"ON", "BLINK", "OFF"} /\ found' = found
    BY <1>1, <1>3, LedKept
  <2>2. next_id' \in Nat
    BY <1>1, <1>3
  <2> QED  BY <1>1, <1>3, <1>7, <2>1, <2>2 DEF TypeOK
<1>11. ConnectedOK'
  BY <1>1, <1>3 DEF MailInv, ConnectedOK
<1>12. RecordsOK'
  <2>1. ASSUME NEW j \in DOMAIN records'
        PROVE  /\ records'[j].id < next_id' /\ records'[j].n <= posted'
               /\ records'[j].epoch <= resets'
    BY <1>1, <1>3, <1>6, <1>7, <1>8, <1>9
  <2>2. ASSUME NEW i \in DOMAIN records', NEW j \in DOMAIN records'
        PROVE  records'[i].id <= records'[j].id <=> records'[i].n <= records'[j].n
    <3>1. \A k, l \in DOMAIN records : records[k].id <= records[l].id <=> records[k].n <= records[l].n
      BY DEF MailInv, RecordsOK
    <3>2. \A k \in DOMAIN records :
            /\ records[k].id <= rec.id /\ ~(rec.id <= records[k].id)
            /\ records[k].n <= rec.n /\ ~(rec.n <= records[k].n)
      BY <1>3, <1>6, <1>8, <1>9
    <3>3. rec.id <= rec.id /\ rec.n <= rec.n
      BY <1>3, <1>6
    <3> QED  BY <1>7, <3>1, <3>2, <3>3
  <2> QED  BY <2>1, <2>2 DEF RecordsOK
<1>13. ASSUME NEW c \in Calls
       PROVE  /\ marked'[c].epoch <= resets'
              /\ marked'[c].epoch = resets' => last_read'[c] < next_id'
  <2>1. marked[c].epoch <= resets /\ (marked[c].epoch = resets => last_read[c] < next_id)
    BY DEF MailInv, MarksOK
  <2>2. last_read[c] \in Nat
    BY <1>3 DEF TypeOK
  <2> QED  BY <1>1, <1>3, <2>1, <2>2
<1>14. ASSUME NEW c \in Calls, NEW j \in DOMAIN records', records'[j].id <= last_read'[c]
       PROVE  records'[j].n <= marked'[c].n \/ marked'[c].epoch < records'[j].epoch
  <2>1. CASE records'[j] = rec
    <3>1. next_id <= last_read[c] /\ records'[j].epoch = resets
      BY <1>1, <1>6, <1>14, <2>1
    <3>2. marked[c].epoch <= resets /\ (marked[c].epoch = resets => last_read[c] < next_id)
      BY DEF MailInv, MarksOK
    <3>3. last_read[c] \in Nat /\ marked[c].epoch \in Nat
      BY <1>3 DEF TypeOK, MailInv, ConnectedOK, Marks
    <3> QED  BY <1>1, <1>3, <3>1, <3>2, <3>3
  <2>2. CASE \E k \in DOMAIN records : records'[j] = records[k]
    BY <1>1, <1>14, <2>2 DEF MailInv, HiddenOnlyAfterReset
  <2> QED  BY <1>7, <2>1, <2>2
<1> QED  BY <1>10, <1>11, <1>12, <1>13, <1>14 DEF MailInv, MarksOK, HiddenOnlyAfterReset

\* A message that is read takes with it all that were posted before.
LEMMA ReadKeeps == ASSUME MailInv, NEW m \in DOMAIN records, Read(records[m]) PROVE MailInv'
<1>1. /\ records' = records /\ next_id' = next_id /\ posted' = posted /\ resets' = resets
      /\ connected' = connected /\ is_sysop' = is_sysop /\ remote_callsign' = remote_callsign
      /\ WorkerDone /\ connected
  BY DEF Read, session
<1>2. /\ next_id \in Nat /\ posted \in Nat /\ resets \in Nat /\ TypeOK
      /\ last_read \in [Calls -> Nat] /\ marked \in [Calls -> Marks]
  BY DEF MailInv, TypeOK, ConnectedOK
<1>3. PICK r \in Calls : r = remote_callsign
  BY <1>1 DEF MailInv, ConnectedOK
<1>4. PICK rec \in Record : /\ rec = records[m] /\ rec.id \in Nat /\ rec.n \in Nat
                            /\ rec.epoch \in Nat
  BY <1>2, Recorded DEF Record
<1>5. last_read' = [last_read EXCEPT ![r] = IF rec.id > last_read[r] THEN rec.id ELSE last_read[r]]
  BY <1>3, <1>4 DEF Read, MarkRead
<1>6. marked' = IF last_read' = last_read THEN marked
                ELSE [marked EXCEPT ![r] = [n |-> rec.n, epoch |-> rec.epoch]]
  BY <1>3, <1>4 DEF Read
<1>7. /\ last_read' \in [Calls -> Nat] /\ marked' \in [Calls -> Marks]
      /\ \A c \in Calls \ {r} : last_read'[c] = last_read[c] /\ marked'[c] = marked[c]
  BY <1>2, <1>4, <1>5, <1>6 DEF Marks
<1>8. \/ last_read'[r] = last_read[r] /\ marked'[r] = marked[r]
      \/ /\ last_read'[r] = rec.id /\ last_read[r] < rec.id
         /\ marked'[r].n = rec.n /\ marked'[r].epoch = rec.epoch
  <2>1. CASE rec.id > last_read[r]
    <3>1. last_read'[r] = rec.id /\ last_read' # last_read /\ last_read[r] < rec.id
      BY <1>2, <1>4, <1>5, <2>1
    <3>2. marked'[r] = [n |-> rec.n, epoch |-> rec.epoch]
      BY <1>2, <1>6, <3>1
    <3> QED  BY <3>1, <3>2
  <2>2. CASE ~(rec.id > last_read[r])
    <3>1. last_read' = last_read
      BY <1>2, <1>5, <2>2
    <3> QED  BY <1>6, <3>1
  <2> QED  BY <2>1, <2>2
<1>9. TypeOK'
  <2>1. bbs_mode' \in {"ON", "BLINK", "OFF"} /\ found' = found
    BY <1>1, <1>2, LedKept
  <2> QED  BY <1>1, <1>2, <1>7, <2>1 DEF TypeOK
<1>10. ConnectedOK' /\ RecordsOK'
  BY <1>1, <1>7 DEF MailInv, ConnectedOK, RecordsOK
<1>11. rec.id < next_id /\ rec.epoch <= resets
  BY <1>4 DEF MailInv, RecordsOK
<1>12. MarksOK'
  BY <1>1, <1>7, <1>8, <1>11 DEF MailInv, MarksOK
<1>13. ASSUME NEW c \in Calls, NEW i \in DOMAIN records, records[i].id <= last_read'[c]
       PROVE  records[i].n <= marked'[c].n \/ marked'[c].epoch < records[i].epoch
  <2>1. records[i].id <= last_read[c]
          => records[i].n <= marked[c].n \/ marked[c].epoch < records[i].epoch
    BY DEF MailInv, HiddenOnlyAfterReset
  <2>2. records[i].id <= rec.id => records[i].n <= rec.n
    BY <1>4 DEF MailInv, RecordsOK
  <2>3. CASE c = r
    BY <1>8, <1>13, <2>1, <2>2, <2>3
  <2>4. CASE c # r
    BY <1>7, <1>13, <2>1, <2>4
  <2> QED  BY <2>3, <2>4
<1>14. HiddenOnlyAfterReset'
  BY <1>1, <1>13 DEF HiddenOnlyAfterReset
<1> QED  BY <1>9, <1>10, <1>12, <1>14 DEF MailInv

LEMMA KillKeeps == ASSUME MailInv, NEW d \in DOMAIN records, Kill(d) PROVE MailInv'
<1>1. /\ records' = Removed(d) /\ next_id' = next_id
      /\ posted' = posted /\ resets' = resets /\ marked' = marked /\ last_read' = last_read
      /\ connected' = connected /\ is_sysop' = is_sysop /\ remote_callsign' = remote_callsign
      /\ WorkerDone
  BY DEF Kill, NextIdAfterKill, session
<1>2. TypeOK
  BY DEF MailInv
<1>3. /\ records' \in Seq(Record) /\ Len(records') <= Len(records)
      /\ \A j \in DOMAIN records' : \E k \in DOMAIN records : records'[j] = records[k]
  BY <1>1, <1>2, Taken
<1>4. TypeOK'
  <2>1. bbs_mode' \in {"ON", "BLINK", "OFF"} /\ found' = found
    BY <1>1, <1>2, LedKept
  <2>2. Len(records') <= MaxMessages
    <3>1. Len(records') \in Nat
      <4> HIDE DEF Record
      <4> QED  BY <1>3, LenProperties
    <3> QED  BY <1>2, <1>3, <3>1, Recorded, MailboxAssumption DEF TypeOK
  <2> QED  BY <1>1, <1>2, <1>3, <2>1, <2>2 DEF TypeOK
<1>5. ConnectedOK' /\ MarksOK'
  BY <1>1 DEF MailInv, ConnectedOK, MarksOK
<1>6. RecordsOK'
  <2>1. ASSUME NEW j \in DOMAIN records'
        PROVE  /\ records'[j].id < next_id' /\ records'[j].n <= posted'
               /\ records'[j].epoch <= resets'
    BY <1>1, <1>3 DEF MailInv, RecordsOK
  <2>2. ASSUME NEW i \in DOMAIN records', NEW j \in DOMAIN records'
        PROVE  records'[i].id <= records'[j].id <=> records'[i].n <= records'[j].n
    BY <1>3 DEF MailInv, RecordsOK
  <2> QED  BY <2>1, <2>2 DEF RecordsOK
<1>7. HiddenOnlyAfterReset'
  BY <1>1, <1>3 DEF MailInv, HiddenOnlyAfterReset
<1> QED  BY <1>4, <1>5, <1>6, <1>7 DEF MailInv

\* After a reset the ids go on from the highest that is left, and no mark is
\* from after the reset.
LEMMA ResetKeeps == ASSUME MailInv, Reset PROVE MailInv'
<1>1. /\ records' = records /\ resets' = resets + 1 /\ posted' = posted
      /\ marked' = marked /\ last_read' = last_read
      /\ next_id' = Max({records[i].id : i \in DOMAIN records} \cup {0}) + 1
      /\ connected' = FALSE /\ is_sysop' = FALSE /\ remote_callsign' = NoCall
      /\ bbs_mode' = "OFF" /\ found' = None
  BY DEF Reset
<1>2. /\ TypeOK /\ next_id \in Nat /\ resets \in Nat
      /\ last_read \in [Calls -> Nat] /\ marked \in [Calls -> Marks]
  BY DEF MailInv, TypeOK, ConnectedOK
<1>3. \A i \in DOMAIN records : /\ records[i].id \in Nat /\ records[i].n \in Nat
                                /\ records[i].epoch \in Nat
  BY <1>2, Recorded DEF Record
<1>4. next_id' \in Nat /\ \A i \in DOMAIN records : records[i].id < next_id'
  <2>1. PICK S : S = {records[i].id : i \in DOMAIN records} \cup {0}
    OBVIOUS
  <2>2. S \in SUBSET Nat /\ S # {} /\ \A y \in S : y <= next_id
    BY <1>2, <1>3, <2>1 DEF MailInv, RecordsOK
  <2>3. Max(S) \in S /\ \A y \in S : Max(S) >= y
    BY <1>2, <2>2, HasHighest
  <2>4. PICK h \in Nat : h = Max(S) /\ \A y \in S : h >= y
    BY <2>2, <2>3
  <2>5. next_id' = h + 1
    BY <1>1, <2>1, <2>4
  <2>6. \A i \in DOMAIN records : records[i].id \in S
    BY <2>1
  <2> QED  BY <1>3, <2>4, <2>5, <2>6
<1>5. TypeOK'
  <2>1. records \in Seq(Record) /\ Len(records) <= MaxMessages
    BY <1>2 DEF TypeOK
  <2> HIDE DEF Record
  <2> QED  BY <1>1, <1>2, <1>4, <2>1 DEF TypeOK
<1>9. ConnectedOK'
  BY <1>1, <1>2 DEF ConnectedOK, MailInv
<1>6. RecordsOK'
  BY <1>1, <1>2, <1>3, <1>4 DEF MailInv, RecordsOK
<1>7. MarksOK'
  <2> SUFFICES ASSUME NEW c \in Calls
               PROVE  marked'[c].epoch <= resets' /\ marked'[c].epoch # resets'
    BY DEF MarksOK
  <2>1. marked[c].epoch \in Nat /\ marked[c].epoch <= resets
    BY <1>2 DEF MailInv, MarksOK, Marks
  <2> QED  BY <1>1, <1>2, <2>1
<1>8. HiddenOnlyAfterReset'
  BY <1>1 DEF MailInv, HiddenOnlyAfterReset
<1> QED  BY <1>5, <1>6, <1>7, <1>8, <1>9 DEF MailInv

LEMMA Inductive == Spec => []MailInv
<1>1. Init => MailInv
  <2> SUFFICES ASSUME Init PROVE MailInv
    OBVIOUS
  <2>1. records \in Seq(Record) /\ Len(records) = 0 /\ DOMAIN records = {}
    <3> HIDE DEF Record
    <3>1. records = <<>>
      BY DEF Init
    <3>2. records \in Seq(Record) /\ Len(records) = 0
      BY <3>1, EmptySeq
    <3> QED  BY <3>1, <3>2
  <2>2. last_read \in [Calls -> Nat] /\ marked \in [Calls -> Marks]
    BY DEF Init, Marks
  <2>3. \A c \in Calls : last_read[c] = 0 /\ marked[c].epoch = 0
    BY DEF Init
  <2>4. TypeOK
    <3>1. /\ next_id = 1 /\ connected = FALSE /\ is_sysop = FALSE
          /\ remote_callsign = NoCall /\ bbs_mode = "OFF" /\ found = None
      BY DEF Init
    <3> HIDE DEF Record
    <3>2. Len(records) <= MaxMessages
      BY <2>1, MailboxAssumption
    <3> QED  BY <2>1, <2>2, <3>1, <3>2 DEF TypeOK
  <2>5. ConnectedOK /\ RecordsOK /\ HiddenOnlyAfterReset
    BY <2>1, <2>2 DEF Init, ConnectedOK, RecordsOK, HiddenOnlyAfterReset
  <2>6. MarksOK
    BY <2>3 DEF Init, MarksOK
  <2> QED  BY <2>4, <2>5, <2>6 DEF MailInv
<1>2. MailInv /\ [Next]_vars => MailInv'
  <2> SUFFICES ASSUME MailInv, [Next]_vars PROVE MailInv'
    OBVIOUS
  <2>1. CASE UNCHANGED vars
    <3>1. /\ records' = records /\ next_id' = next_id /\ last_read' = last_read
          /\ posted' = posted /\ resets' = resets /\ marked' = marked
          /\ connected' = connected /\ is_sysop' = is_sysop /\ remote_callsign' = remote_callsign
          /\ bbs_mode' = bbs_mode /\ found' = found
      BY <2>1 DEF vars, store, session, history
    <3> QED  BY <3>1, SessionKeeps DEF MailInv, TypeOK, ConnectedOK
  <2> QED  BY <2>1, ConnectKeeps, DisconnectKeeps, RightsKeep, LedKeeps, PostKeeps, ReadKeeps,
              KillKeeps, ResetKeeps DEF Next
<1> QED  BY <1>1, <1>2, PTL DEF Spec
-----------------------------------------------------------------------------
(* Call signs: what BaseCall leaves of one, and what it cannot tell apart. *)

\* Before the first dash, and the symbols of that, as Addressed has them.
Before(call) ==
  IF Contains(call, Dash)
  THEN SubSeq(call, 1, SelectInSeq(call, LAMBDA c : c = Dash) - 1) ELSE call
Symbols(call) == [k \in DOMAIN Before(call) |-> Before(call)[k].sym]

LEMMA MinOf == ASSUME NEW S \in SUBSET Nat, S # {} PROVE Min(S) \in S /\ \A y \in S : Min(S) <= y
<1>1. PICK x \in S : \A y \in S : x <= y
  BY HasLeast
<1> QED  BY <1>1 DEF Min

\* What comes before the dash is the beginning of the call, and BaseCall makes
\* capitals of it, up to the length of its field.
LEMMA Begins ==
  ASSUME NEW call \in Seq(Characters)
  PROVE  \E n \in 0 .. Len(call) :
           /\ Before(call) \in Seq(Characters) /\ Len(Before(call)) = n
           /\ \A i \in 1 .. n : Before(call)[i] = call[i]
           /\ BaseCall(call) = [i \in 1 .. Min({n, BaseLen}) |-> Capital(call[i])]
           /\ n = Len(call) \/ call[n + 1] = Dash
           /\ \A i \in 1 .. n : call[i] # Dash
<1> HIDE DEF Characters
<1>1. PICK l \in Nat : l = Len(call) /\ \A i \in 1 .. l : call[i] \in Characters
  BY LenProperties, ElementOfSeq
<1> DEFINE D == {i \in 1 .. Len(call) : call[i] = Dash}
           E == {i \in 1 .. Len(call) : call[i] = Dash} \cup {Len(call) + 1}
<1>2. D \in SUBSET Nat /\ E \in SUBSET Nat /\ E # {} /\ E = D \cup {l + 1}
  BY <1>1
<1>3. BaseCall(call) = [i \in 1 .. Min({Min(E) - 1, BaseLen}) |-> Capital(call[i])]
  BY DEF BaseCall
<1>4. CASE D = {}
  <2>1. ~Contains(call, Dash)
    BY <1>4 DEF Contains
  <2>2. Before(call) = call
    BY <2>1 DEF Before
  <2>3. Min(E) - 1 = l
    <3>1. E = {l + 1}
      BY <1>2, <1>4
    <3>2. Min(E) \in E
      <4> HIDE DEF E
      <4> QED  BY <1>2, MinOf
    <3>3. Min(E) = l + 1
      <4> HIDE DEF E
      <4> QED  BY <3>1, <3>2
    <3> HIDE DEF E
    <3> QED  BY <3>3
  <2>4. \A i \in 1 .. l : call[i] # Dash
    BY <1>1, <1>4
  <2>5. BaseCall(call) = [i \in 1 .. Min({l, BaseLen}) |-> Capital(call[i])]
    <3> HIDE DEF E
    <3> QED  BY <1>3, <2>3
  <2>6. l \in 0 .. Len(call) /\ Before(call) \in Seq(Characters) /\ Len(Before(call)) = l
    BY <1>1, <2>2
  <2>7. \A i \in 1 .. l : Before(call)[i] = call[i]
    BY <2>2
  <2> HIDE DEF D, E
  <2> QED  BY <1>1, <2>4, <2>5, <2>6, <2>7
<1>5. CASE D # {}
  <2>1. PICK d \in D : d = Min(D) /\ \A y \in D : d <= y
    <3> HIDE DEF D
    <3> QED  BY <1>2, <1>5, MinOf
  <2>2. d \in 1 .. l /\ call[d] = Dash /\ d - 1 \in 0 .. l /\ d - 1 + 1 = d
    BY <1>1, <2>1
  <2>3. Contains(call, Dash)
    BY <1>1, <2>2 DEF Contains
  <2>4. SelectInSeq(call, LAMBDA c : c = Dash) = d
    BY <1>5, <2>1 DEF SelectInSeq
  <2>5. Before(call) = SubSeq(call, 1, d - 1)
    BY <2>3, <2>4 DEF Before
  <2>6. /\ SubSeq(call, 1, d - 1) \in Seq(Characters) /\ Len(SubSeq(call, 1, d - 1)) = d - 1
        /\ \A i \in 1 .. d - 1 : SubSeq(call, 1, d - 1)[i] = call[i]
    <3>1. \A i \in 1 .. d - 1 : call[i] \in Characters
      BY <1>1, <2>2
    <3> QED  BY <2>2, <3>1, SubSeqProperties
  <2>7. Min(E) = d
    <3>1. d \in E /\ \A y \in E : d <= y
      <4>1. d \in D /\ d <= l + 1 /\ \A y \in D : d <= y
        BY <1>1, <2>1, <2>2
      <4> HIDE DEF D, E
      <4> QED  BY <1>2, <4>1
    <3>2. Min(E) \in E /\ \A y \in E : Min(E) <= y
      <4> HIDE DEF E
      <4> QED  BY <1>2, MinOf
    <3>3. PICK e \in Nat : e = Min(E) /\ e <= d /\ d <= e
      <4> HIDE DEF E
      <4> QED  BY <1>2, <3>1, <3>2
    <3> HIDE DEF E
    <3> QED  BY <2>2, <3>3
  <2>8. BaseCall(call) = [i \in 1 .. Min({d - 1, BaseLen}) |-> Capital(call[i])]
    <3> HIDE DEF E
    <3> QED  BY <1>3, <2>7
  <2>9. \A i \in 1 .. d - 1 : call[i] # Dash
    <3> SUFFICES ASSUME NEW i \in 1 .. d - 1, call[i] = Dash PROVE FALSE
      OBVIOUS
    <3>1. i \in D
      BY <1>1, <2>2
    <3> HIDE DEF D
    <3> QED  BY <2>1, <2>2, <3>1
  <2> QED  BY <1>1, <2>2, <2>5, <2>6, <2>8, <2>9
<1> QED  BY <1>4, <1>5

\* Two calls that fit have one base call just if they have the same symbols.
LEMMA BaseCalls ==
  ASSUME NEW a \in Seq(Characters), NEW b \in Seq(Characters),
         Len(Before(a)) <= BaseLen, Len(Before(b)) <= BaseLen
  PROVE  BaseCall(a) = BaseCall(b) <=> Symbols(a) = Symbols(b)
<1> HIDE DEF Characters
<1>1. ASSUME NEW call \in Seq(Characters), Len(Before(call)) <= BaseLen
      PROVE  \E n \in 0 .. Len(call) :
               /\ BaseCall(call) = [i \in 1 .. n |-> Capital(call[i])]
               /\ Symbols(call) = [i \in 1 .. n |-> call[i].sym]
  <2>1. PICK n \in 0 .. Len(call) :
          /\ Before(call) \in Seq(Characters) /\ Len(Before(call)) = n
          /\ \A i \in 1 .. n : Before(call)[i] = call[i]
          /\ BaseCall(call) = [i \in 1 .. Min({n, BaseLen}) |-> Capital(call[i])]
    BY Begins
  <2>2. Len(call) \in Nat /\ n \in Nat /\ BaseLen \in Nat /\ n <= BaseLen
    BY <1>1, <2>1, LenProperties, CallsignAssumption
  <2>3. Min({n, BaseLen}) = n
    <3>1. PICK S : S = {n, BaseLen}
      OBVIOUS
    <3>2. S \in SUBSET Nat /\ S # {} /\ n \in S
      BY <2>2, <3>1
    <3>3. Min(S) \in S /\ \A y \in S : Min(S) <= y
      BY <3>2, MinOf
    <3>4. PICK m \in Nat : m = Min(S) /\ m <= n /\ (m = n \/ m = BaseLen)
      BY <3>1, <3>2, <3>3
    <3> QED  BY <2>2, <3>1, <3>4
  <2>4. DOMAIN Before(call) = 1 .. n
    BY <2>1, LenProperties
  <2>5. Symbols(call) = [i \in 1 .. n |-> call[i].sym]
    BY <2>1, <2>4 DEF Symbols
  <2> QED  BY <2>1, <2>3, <2>5
<1>2. PICK n \in 0 .. Len(a) : /\ BaseCall(a) = [i \in 1 .. n |-> Capital(a[i])]
                               /\ Symbols(a) = [i \in 1 .. n |-> a[i].sym]
  BY <1>1
<1>3. PICK m \in 0 .. Len(b) : /\ BaseCall(b) = [i \in 1 .. m |-> Capital(b[i])]
                               /\ Symbols(b) = [i \in 1 .. m |-> b[i].sym]
  BY <1>1
<1>4. n \in Nat /\ m \in Nat /\ (1 .. n = 1 .. m => n = m)
  BY LenProperties
<1>5. (\A i \in 1 .. n : a[i] \in Characters) /\ (\A i \in 1 .. m : b[i] \in Characters)
  <2>1. /\ \A i \in 1 .. n : i \in 1 .. Len(a)
        /\ \A i \in 1 .. m : i \in 1 .. Len(b)
    BY LenProperties
  <2> QED  BY <2>1, ElementOfSeq
<1>6. CASE n = m
  <2>1. \A i \in 1 .. n : Capital(a[i]) = Capital(b[i]) <=> a[i].sym = b[i].sym
    BY <1>5, <1>6, CallsAssumption
  <2>2. BaseCall(a) = BaseCall(b) <=> \A i \in 1 .. n : Capital(a[i]) = Capital(b[i])
    BY <1>2, <1>3, <1>6
  <2>3. Symbols(a) = Symbols(b) <=> \A i \in 1 .. n : a[i].sym = b[i].sym
    BY <1>2, <1>3, <1>6
  <2> QED  BY <2>1, <2>2, <2>3
<1>7. CASE n # m
  <2>1. DOMAIN BaseCall(a) = 1 .. n /\ DOMAIN BaseCall(b) = 1 .. m
    BY <1>2, <1>3
  <2>2. DOMAIN Symbols(a) = 1 .. n /\ DOMAIN Symbols(b) = 1 .. m
    BY <1>2, <1>3
  <2> QED  BY <1>4, <1>7, <2>1, <2>2
<1> QED  BY <1>6, <1>7

\* The base call of a station fits into its field.
LEMMA StationsFit == ASSUME NEW s \in Stations PROVE s \in Seq(Characters) /\ Len(Before(s)) <= BaseLen
<1> HIDE DEF Characters
<1>1. s \in Seq(Characters)
  BY CallsAssumption
<1>2. PICK n \in 0 .. Len(s) : /\ Len(Before(s)) = n /\ \A i \in 1 .. n : s[i] # Dash
  BY <1>1, Begins
<1>3. Len(s) \in Nat /\ BaseLen \in Nat
  BY <1>1, LenProperties, CallsignAssumption
<1>4. n <= BaseLen
  <2>1. CASE Len(s) <= BaseLen
    BY <1>3, <2>1
  <2>2. CASE \E i \in 1 .. BaseLen + 1 : s[i] = Dash
    BY <1>2, <1>3, <2>2
  <2> QED  BY <2>1, <2>2, CallsAssumption
<1> QED  BY <1>1, <1>2, <1>4

LEMMA AddresseesInductive == Spec => []AddresseesOK
<1>1. Init => AddresseesOK
  <2>1. DOMAIN <<>> = {}
    OBVIOUS
  <2> QED  BY <2>1 DEF Init, AddresseesOK
<1>2. MailInv /\ AddresseesOK /\ [Next]_vars => AddresseesOK'
  <2> SUFFICES ASSUME MailInv, AddresseesOK, [Next]_vars PROVE AddresseesOK'
    OBVIOUS
  <2>1. TypeOK
    BY DEF MailInv
  <2>2. CASE \E cmd \in {"S", "SP", "SB"}, arg \in Args : Post(cmd, arg)
    <3>1. PICK cmd \in {"S", "SP", "SB"}, arg \in Args : Post(cmd, arg)
      BY <2>2
    <3>2. PICK rec \in Record : Store(rec) /\ rec.to = BaseCall(rec.arg)
      BY <3>1, Posted
    <3>3. \A j \in DOMAIN records' :
            records'[j] = rec \/ \E k \in DOMAIN records : records'[j] = records[k]
      BY <2>1, <3>2, Stored
    <3> QED  BY <3>2, <3>3 DEF AddresseesOK
  <2>3. CASE \E d \in DOMAIN records : Kill(d)
    <3>1. PICK d \in DOMAIN records : Kill(d)
      BY <2>3
    <3>2. \A j \in DOMAIN records' : \E k \in DOMAIN records : records'[j] = records[k]
      BY <2>1, <3>1, Taken DEF Kill
    <3> QED  BY <3>2 DEF AddresseesOK
  <2>4. CASE records' = records
    BY <2>4 DEF AddresseesOK
  <2>5. \/ \E cmd \in {"S", "SP", "SB"}, arg \in Args : Post(cmd, arg)
        \/ \E d \in DOMAIN records : Kill(d)
        \/ records' = records
    BY DEF Next, Connect, Disconnect, Rights, Read, Reset, Led, LedLook, LedSet, store, vars
  <2> QED  BY <2>2, <2>3, <2>4, <2>5
<1> QED  BY <1>1, <1>2, Inductive, PTL DEF Spec
-----------------------------------------------------------------------------
(* The theorems. *)

\* Every variable keeps its type, and the index never outgrows its array.
THEOREM TypeCorrect == Spec => []TypeOK
<1>1. MailInv => TypeOK
  BY DEF MailInv
<1> QED  BY <1>1, Inductive, PTL

\* What counts as read without having been, nor anything posted after it, is
\* hidden behind a mark from before a reset.
THEOREM HiddenByOldMarks == Spec => []HiddenOnlyAfterReset
<1>1. MailInv => HiddenOnlyAfterReset
  BY DEF MailInv
<1> QED  BY <1>1, Inductive, PTL

\* What is not new for a station never becomes new again.
THEOREM NeverNewAgain == Spec => StaysRead
<1> DEFINE Stays == \A c \in Calls, i \in DOMAIN records, j \in DOMAIN records' :
                      records[i].n = records'[j].n /\ records[i].id <= last_read[c]
                        => records'[j].id <= last_read'[c]
<1>1. MailInv /\ [Next]_vars => [Stays]_vars
  <2> SUFFICES ASSUME MailInv, Next PROVE Stays
    BY DEF vars
  <2>1. TypeOK /\ last_read \in [Calls -> Nat] /\ posted \in Nat
    BY DEF MailInv, TypeOK, ConnectedOK
  <2>2. \A c \in Calls : last_read'[c] \in Nat /\ last_read[c] <= last_read'[c]
    <3>1. CASE \E m \in DOMAIN records : Read(records[m])
      <4>1. PICK m \in DOMAIN records : Read(records[m])
        BY <3>1
      <4>2. PICK r \in Calls : r = remote_callsign
        BY <4>1 DEF Read, MailInv, ConnectedOK
      <4>3. PICK h \in Nat : h = records[m].id
        BY <2>1, Recorded DEF Record
      <4>4. last_read' = [last_read EXCEPT ![r] = IF h > last_read[r] THEN h ELSE last_read[r]]
        BY <4>1, <4>2, <4>3 DEF Read, MarkRead
      <4> QED  BY <2>1, <4>4
    <3>2. CASE ~ \E m \in DOMAIN records : Read(records[m])
      <4>1. last_read' = last_read
        BY <3>2 DEF Next, Connect, Disconnect, Rights, Post, Kill, Reset, Led, LedLook, LedSet, store
      <4> QED  BY <2>1, <4>1
    <3> QED  BY <3>1, <3>2
  <2>3. \A j \in DOMAIN records' :
          \/ \E k \in DOMAIN records : records'[j] = records[k]
          \/ records'[j].n = posted + 1
    <3>1. CASE \E cmd \in {"S", "SP", "SB"}, arg \in Args : Post(cmd, arg)
      <4>1. PICK cmd \in {"S", "SP", "SB"}, arg \in Args : Post(cmd, arg)
        BY <3>1
      <4>2. PICK rec \in Record : rec.n = posted + 1 /\ Store(rec)
        BY <4>1, Posted
      <4>3. \A j \in DOMAIN records' :
              records'[j] = rec \/ \E k \in DOMAIN records : records'[j] = records[k]
        BY <2>1, <4>2, Stored
      <4> QED  BY <4>2, <4>3
    <3>2. CASE \E d \in DOMAIN records : Kill(d)
      BY <2>1, <3>2, Taken DEF Kill
    <3>3. CASE ~ \E cmd \in {"S", "SP", "SB"}, arg \in Args : Post(cmd, arg)
      <4>1. CASE ~ \E d \in DOMAIN records : Kill(d)
        <5>1. records' = records
          BY <3>3, <4>1 DEF Next, Connect, Disconnect, Rights, Read, Reset, Led, LedLook, LedSet, store
        <5> QED  BY <5>1
      <4> QED  BY <3>2, <4>1
    <3> QED  BY <3>1, <3>3
  <2>4. SUFFICES ASSUME NEW c \in Calls, NEW i \in DOMAIN records, NEW j \in DOMAIN records',
                        records[i].n = records'[j].n, records[i].id <= last_read[c]
                 PROVE  records'[j].id <= last_read'[c]
    BY DEF Stays
  <2>5. /\ \A k \in DOMAIN records : records[k].id \in Nat /\ records[k].n \in Nat
        /\ records[i].n <= posted
    BY <2>1, Recorded DEF Record, MailInv, RecordsOK
  <2>6. PICK k \in DOMAIN records : records'[j] = records[k]
    BY <2>1, <2>3, <2>4, <2>5
  <2>7. records[k].n <= records[i].n
    BY <2>4, <2>5, <2>6
  <2>8. records[k].id <= records[i].id
    BY <2>7 DEF MailInv, RecordsOK
  <2>9. records'[j].id <= last_read[c]
    BY <2>1, <2>4, <2>5, <2>6, <2>8
  <2> QED  BY <2>1, <2>2, <2>5, <2>6, <2>9
<1> QED  BY <1>1, Inductive, PTL DEF Spec, StaysRead

\* A post to a store with room leaves every message there, and one to a full store
\* takes the earliest post and leaves the others.
LEMMA PostTakesEarliest ==
  ASSUME MailInv, NEW rec \in Record, Store(rec), NEW i \in DOMAIN records,
         records[i] \notin ToSet(records')
  PROVE  /\ Len(records) = MaxMessages
         /\ \A j \in DOMAIN records : records[i].n <= records[j].n
         /\ \A j \in DOMAIN records \ {i} : records[j] \in ToSet(records')
<1>1. PICK n \in Nat : n = Len(records) /\ DOMAIN records = 1 .. n
  BY Recorded DEF MailInv
<1>2. \A j \in DOMAIN records' : records'[j] # records[i]
  BY DEF ToSet
<1>3. CASE /\ DOMAIN records' = 1 .. n + 1
           /\ \A k \in 1 .. n : records'[k] = records[k]
  <2>1. i \in DOMAIN records' /\ records'[i] = records[i]
    BY <1>1, <1>3
  <2> QED  BY <1>2, <2>1
<1>4. CASE /\ n = MaxMessages /\ DOMAIN records' = DOMAIN records
           /\ \E f \in DOMAIN records :
                /\ \A k \in DOMAIN records : records[f].id <= records[k].id
                /\ \A k \in DOMAIN records \ {f} : records'[k] = records[k]
  <2>1. PICK f \in DOMAIN records :
               /\ \A k \in DOMAIN records : records[f].id <= records[k].id
               /\ \A k \in DOMAIN records \ {f} : records'[k] = records[k]
    BY <1>4
  <2>2. i = f
    BY <1>2, <1>4, <2>1
  <2>3. \A j \in DOMAIN records : records[i].n <= records[j].n
    BY <2>1, <2>2 DEF MailInv, RecordsOK
  <2>4. \A j \in DOMAIN records \ {i} : records[j] \in ToSet(records')
    BY <1>4, <2>1, <2>2 DEF ToSet
  <2> QED  BY <1>1, <1>4, <2>3, <2>4
<1>5. TypeOK
  BY DEF MailInv
<1> QED  BY <1>1, <1>3, <1>4, <1>5, StoredAt

\* A message goes only by itself: by a step of a session of its sender, of its
\* addressee or of the SYSOP that posts and reads nothing, or by a post that finds
\* all the records taken, as the earliest of them.
THEOREM OnlyByRight == Spec => RemovedByRight
<1> DEFINE ByRight == \A i \in DOMAIN records : records[i] \notin ToSet(records') =>
       /\ \A j \in DOMAIN records \ {i} : records[j] \in ToSet(records')
       /\ UNCHANGED <<session, last_read, resets>>
       /\ \/ /\ connected /\ (is_sysop \/ IsRelated(records[i]))
             /\ posted' = posted /\ Len(records') = Len(records) - 1
          \/ /\ posted' = posted + 1 /\ Len(records) = MaxMessages
             /\ \A j \in DOMAIN records : records[i].n <= records[j].n
<1>1. MailInv /\ [Next]_vars => [ByRight]_vars
  <2> SUFFICES ASSUME MailInv, Next, NEW i \in DOMAIN records,
                      records[i] \notin ToSet(records')
               PROVE  /\ \A j \in DOMAIN records \ {i} : records[j] \in ToSet(records')
                      /\ UNCHANGED <<session, last_read, resets>>
                      /\ \/ /\ connected /\ (is_sysop \/ IsRelated(records[i]))
                            /\ posted' = posted /\ Len(records') = Len(records) - 1
                         \/ /\ posted' = posted + 1 /\ Len(records) = MaxMessages
                            /\ \A j \in DOMAIN records : records[i].n <= records[j].n
    OBVIOUS
  <2>1. \A j \in DOMAIN records' : records'[j] # records[i]
    BY DEF ToSet
  <2>2. CASE \E cmd \in {"S", "SP", "SB"}, arg \in Args : Post(cmd, arg)
    <3>1. PICK cmd \in {"S", "SP", "SB"}, arg \in Args : Post(cmd, arg)
      BY <2>2
    <3>2. PICK rec \in Record : Store(rec)
      BY <3>1, Posted
    <3>3. UNCHANGED <<session, last_read, resets>> /\ posted' = posted + 1
      BY <3>1 DEF Post
    <3> QED  BY <3>2, <3>3, PostTakesEarliest
  <2>3. CASE \E d \in DOMAIN records : Kill(d)
    <3>1. PICK d \in DOMAIN records : Kill(d)
      BY <2>3
    <3>2. TypeOK
      BY DEF MailInv
    <3>3. records' = Removed(d)
      BY <3>1 DEF Kill
    <3>4. \A k \in DOMAIN records \ {d} : \E j \in DOMAIN records' : records'[j] = records[k]
      BY <3>2, <3>3, Taken
    <3>5. i = d
      BY <2>1, <3>4
    <3>6. Len(records') = Len(records) - 1
      BY <3>2, <3>3, TakenAt
    <3>7. \A j \in DOMAIN records \ {i} : records[j] \in ToSet(records')
      BY <3>4, <3>5 DEF ToSet
    <3>8. /\ UNCHANGED <<session, last_read, resets>> /\ posted' = posted
          /\ connected /\ (is_sysop \/ IsRelated(records[i]))
      BY <3>1, <3>5 DEF Kill
    <3> QED  BY <3>6, <3>7, <3>8
  <2>4. CASE records' = records
    BY <2>1, <2>4
  <2>5. \/ \E cmd \in {"S", "SP", "SB"}, arg \in Args : Post(cmd, arg)
        \/ \E d \in DOMAIN records : Kill(d)
        \/ records' = records
    BY DEF Next, Connect, Disconnect, Rights, Read, Reset, Led, LedLook, LedSet, store
  <2> QED  BY <2>2, <2>3, <2>4, <2>5
<1> QED  BY <1>1, Inductive, PTL DEF Spec, RemovedByRight

\* A private message is for just those stations whose call was typed, whatever
\* the cases and SSIDs (bbs.c:343).
THEOREM ForWhoWasNamed == Spec => []Addressed
<1>1. MailInv /\ AddresseesOK => Addressed
  <2> SUFFICES ASSUME MailInv, AddresseesOK, NEW i \in DOMAIN records, NEW s \in Stations,
                      Len(Before(records[i].arg)) <= BaseLen
               PROVE  records[i].to = BaseCall(s) <=> Symbols(records[i].arg) = Symbols(s)
    BY Zenon DEF Addressed, Before, Symbols
  <2>1. PICK arg \in Args : arg = records[i].arg
    BY Recorded DEF MailInv, Record
  <2>2. arg \in Seq(Characters)
    BY CallsAssumption
  <2>3. records[i].to = BaseCall(arg)
    BY <2>1 DEF AddresseesOK
  <2>4. s \in Seq(Characters) /\ Len(Before(s)) <= BaseLen
    BY StationsFit
  <2>5. BaseCall(arg) = BaseCall(s) <=> Symbols(arg) = Symbols(s)
    BY <2>1, <2>2, <2>4, BaseCalls
  <2> QED  BY <2>1, <2>3, <2>5
<1> QED  BY <1>1, Inductive, AddresseesInductive, PTL
-----------------------------------------------------------------------------
(* The mailbox is a board. *)

\* There are as many messages as places that are taken.
LEMMA NumbersCount ==
  ASSUME TypeOK, Distinct
  PROVE  IsFiniteSet(Numbers) /\ Cardinality(Numbers) = Len(records)
<1>1. PICK n \in Nat : n = Len(records) /\ DOMAIN records = 1 .. n
  BY Recorded
<1>2. PICK f : f = [i \in 1 .. n |-> records[i].n]
  OBVIOUS
<1>3. f \in Surjection(1 .. n, Numbers)
  BY <1>1, <1>2 DEF Surjection, Numbers
<1>4. f \in Injection(1 .. n, Numbers)
  BY <1>1, <1>2, <1>3 DEF Surjection, Injection, IsInjective, Distinct
<1>5. IsFiniteSet(1 .. n) /\ Cardinality(1 .. n) = n
  BY FS_Interval
<1>6. /\ IsFiniteSet(Numbers)
      /\ Cardinality(Numbers) = Cardinality(1 .. n) <=> f \in Injection(1 .. n, Numbers)
  BY <1>3, <1>5, FS_Surjection
<1> QED  BY <1>1, <1>4, <1>5, <1>6

\* The board counts as we do.
LEMMA BoardCounts == \A S : Board!Cardinality(S) = Cardinality(S)
BY DEF Cardinality, Board!Cardinality

\* A post is one of the board's, and replaces one message when it is full.
LEMMA PostsBoard ==
  ASSUME MailInv, Distinct, PostsOK,
         NEW cmd \in {"S", "SP", "SB"}, NEW arg \in Args, Post(cmd, arg)
  PROVE  Distinct' /\ PostsOK' /\ Board!Next
<1>1. /\ posted' = posted + 1 /\ posted \in Nat /\ MaxPosts \in Nat
      /\ posted < MaxPosts /\ TypeOK
  BY MailboxAssumption DEF Post, MailInv, ConnectedOK
<1>2. PICK m \in 1 .. MaxPosts : m = posted + 1
  BY <1>1
<1>3. PICK rec \in Record : Store(rec) /\ rec.n = m
  BY <1>2, Posted
<1>4. PICK n \in Nat : n = Len(records) /\ DOMAIN records = 1 .. n
  BY <1>1, Recorded
<1>5. \A k \in 1 .. n : records[k].n \in 1 .. posted /\ records[k].n # m
  BY <1>1, <1>2, <1>4 DEF PostsOK
<1>6. m \notin Numbers
  BY <1>4, <1>5 DEF Numbers
<1>7. CASE /\ n < MaxMessages
           /\ DOMAIN records' = 1 .. n + 1 /\ records'[n + 1] = rec
           /\ \A i \in 1 .. n : records'[i] = records[i]
  <2>1. ASSUME NEW i \in 1 .. n + 1 PROVE i = n + 1 \/ i \in 1 .. n
    OBVIOUS
  <2>2. Distinct'
    BY <1>3, <1>4, <1>5, <1>7, <2>1 DEF Distinct
  <2>3. PostsOK'
    BY <1>1, <1>2, <1>3, <1>5, <1>7, <2>1 DEF PostsOK
  <2>4. Numbers' = Numbers \cup {m}
    <3>1. \A i \in 1 .. n : i \in 1 .. n + 1
      OBVIOUS
    <3>2. \A x \in Numbers' : x \in Numbers \cup {m}
      BY <1>3, <1>4, <1>7, <2>1 DEF Numbers
    <3>3. \A x \in Numbers : x \in Numbers'
      BY <1>4, <1>7, <3>1 DEF Numbers
    <3>4. m \in Numbers'
      BY <1>3, <1>7 DEF Numbers
    <3> QED  BY <3>2, <3>3, <3>4
  <2>5. Board!Post(m)
    BY <1>1, <1>4, <1>6, <1>7, <2>4, NumbersCount, BoardCounts DEF Board!Post
  <2> QED  BY <2>2, <2>3, <2>5 DEF Board!Next
<1>8. CASE /\ n = MaxMessages
           /\ DOMAIN records' = DOMAIN records
           /\ \E f \in DOMAIN records :
                /\ \A k \in DOMAIN records : records[f].id <= records[k].id
                /\ records'[f] = rec
                /\ \A i \in DOMAIN records \ {f} : records'[i] = records[i]
  <2>1. PICK f \in 1 .. n : /\ records'[f] = rec
                            /\ \A i \in (1 .. n) \ {f} : records'[i] = records[i]
    BY <1>4, <1>8
  <2>2. Distinct'
    BY <1>3, <1>4, <1>5, <1>8, <2>1 DEF Distinct
  <2>3. PostsOK'
    BY <1>1, <1>2, <1>3, <1>4, <1>5, <1>8, <2>1 DEF PostsOK
  <2>4. PICK v \in 1 .. MaxPosts : v = records[f].n
    BY <1>1, <1>4, <1>5
  <2>5. Numbers' = (Numbers \ {v}) \cup {m}
    <3>1. \A i \in (1 .. n) \ {f} : records[i].n # v
      BY <1>4, <2>4 DEF Distinct
    <3>2. ASSUME NEW x \in Numbers' PROVE x \in (Numbers \ {v}) \cup {m}
      <4>1. PICK i \in 1 .. n : x = records'[i].n
        BY <1>4, <1>8 DEF Numbers
      <4> QED  BY <1>3, <1>4, <2>1, <3>1, <4>1 DEF Numbers
    <3>3. ASSUME NEW x \in Numbers, x # v PROVE x \in Numbers'
      <4>1. PICK i \in 1 .. n : x = records[i].n
        BY <1>4 DEF Numbers
      <4> QED  BY <1>4, <1>8, <2>1, <2>4, <3>3, <4>1 DEF Numbers
    <3>4. m \in Numbers'
      BY <1>3, <1>4, <1>8, <2>1 DEF Numbers
    <3> QED  BY <3>2, <3>3, <3>4
  <2>6. v \in Numbers
    BY <1>4, <2>4 DEF Numbers
  <2>7. Board!Replace(v, m)
    BY <1>1, <1>4, <1>6, <1>8, <2>5, <2>6, NumbersCount, BoardCounts DEF Board!Replace
  <2> QED  BY <2>2, <2>3, <2>7 DEF Board!Next
<1> QED  BY <1>1, <1>3, <1>4, <1>7, <1>8, StoredAt

\* A deletion takes one message from the board.
LEMMA KillsBoard ==
  ASSUME MailInv, Distinct, PostsOK, NEW d \in DOMAIN records, Kill(d)
  PROVE  Distinct' /\ PostsOK' /\ Board!Next
<1>1. records' = Removed(d) /\ posted' = posted /\ TypeOK /\ posted \in Nat /\ MaxPosts \in Nat
  BY MailboxAssumption DEF Kill, MailInv, ConnectedOK
<1>2. PICK n \in Nat : n = Len(records) /\ DOMAIN records = 1 .. n /\ d \in 1 .. n
  BY <1>1, Recorded
<1>3. /\ DOMAIN records' = 1 .. n - 1
      /\ \A k \in 1 .. n - 1 : records'[k] = records[IF k <= d - 1 THEN k ELSE k + 1]
  BY <1>1, <1>2, TakenAt
<1> DEFINE from(k) == IF k <= d - 1 THEN k ELSE k + 1
<1>4. \A k \in 1 .. n - 1 : from(k) \in 1 .. n /\ from(k) # d /\ records'[k] = records[from(k)]
  BY <1>2, <1>3
<1>5. \A k, l \in 1 .. n - 1 : k # l => from(k) # from(l)
  BY <1>2
<1>6. \A i \in (1 .. n) \ {d} : \E k \in 1 .. n - 1 : from(k) = i
  <2> SUFFICES ASSUME NEW i \in (1 .. n) \ {d} PROVE \E k \in 1 .. n - 1 : from(k) = i
    OBVIOUS
  <2>1. CASE i < d
    <3>1. i \in 1 .. n - 1 /\ from(i) = i
      BY <1>2, <2>1
    <3> QED  BY <3>1
  <2>2. CASE ~(i < d)
    <3>1. i - 1 \in 1 .. n - 1 /\ from(i - 1) = i
      BY <1>2, <2>2
    <3> QED  BY <3>1
  <2> QED  BY <2>1, <2>2
<1> HIDE DEF from
<1>7. PICK v \in 1 .. MaxPosts : v = records[d].n
  <2>1. records[d].n \in 1 .. posted /\ posted <= MaxPosts
    BY DEF PostsOK
  <2> QED  BY <1>1, <2>1
<1>8. Distinct'
  <2>1. ASSUME NEW k \in 1 .. n - 1, NEW l \in 1 .. n - 1, k # l
        PROVE  records'[k].n # records'[l].n
    <3>1. PICK a \in DOMAIN records, b \in DOMAIN records :
            /\ a # b
            /\ records'[k] = records[a] /\ records'[l] = records[b]
      BY <1>2, <1>4, <1>5, <2>1
    <3>2. records[a].n # records[b].n
      BY <3>1 DEF Distinct
    <3> QED  BY <3>1, <3>2
  <2> QED  BY <1>3, <2>1 DEF Distinct
<1>9. PostsOK'
  BY <1>1, <1>2, <1>3, <1>4 DEF PostsOK
<1>10. Numbers' = Numbers \ {v}
  <2>1. ASSUME NEW x \in Numbers' PROVE x \in Numbers \ {v}
    <3>1. PICK k \in 1 .. n - 1 : x = records'[k].n
      BY <1>3 DEF Numbers
    <3>2. from(k) \in 1 .. n /\ from(k) # d /\ x = records[from(k)].n
      BY <1>4, <3>1
    <3> QED  BY <1>2, <1>7, <3>2 DEF Numbers, Distinct
  <2>2. ASSUME NEW x \in Numbers, x # v PROVE x \in Numbers'
    <3>1. PICK i \in 1 .. n : x = records[i].n
      BY <1>2 DEF Numbers
    <3>2. PICK k \in 1 .. n - 1 : from(k) = i
      BY <1>6, <1>7, <2>2, <3>1
    <3>3. records'[k].n = x
      BY <1>4, <3>1, <3>2
    <3> QED  BY <1>3, <3>3 DEF Numbers
  <2> QED  BY <2>1, <2>2
<1>11. v \in Numbers
  BY <1>7 DEF Numbers
<1>12. Board!Kill(v)
  BY <1>10, <1>11 DEF Board!Kill
<1> QED  BY <1>8, <1>9, <1>12 DEF Board!Next

\* What leaves the records alone leaves the board alone.
LEMMA BoardStays ==
  ASSUME Distinct, PostsOK, records' = records, posted' = posted
  PROVE  Distinct' /\ PostsOK' /\ UNCHANGED Board!vars
BY DEF Distinct, PostsOK, Numbers, Board!vars

\* As its stations see it, the mailbox is the board that module MessageBoard
\* promises and that module MessageStore keeps on flash: at most Capacity
\* messages, each there by one post, one going for another when it is full;
\* reading, reconnecting, rights and resets change nothing of it.
THEOREM MailboxIsBoard == Spec => Board!Spec
<1>1. Init => Distinct /\ PostsOK /\ Board!Init
  <2> SUFFICES ASSUME Init PROVE Distinct /\ PostsOK /\ Board!Init
    OBVIOUS
  <2>1. records = <<>> /\ DOMAIN records = {} /\ posted = 0
    BY DEF Init
  <2> QED  BY <2>1, MailboxAssumption DEF Distinct, PostsOK, Numbers, Board!Init
<1>2. MailInv /\ Distinct /\ PostsOK /\ [Next]_vars
        => Distinct' /\ PostsOK' /\ [Board!Next]_(Board!vars)
  <2> SUFFICES ASSUME MailInv, Distinct, PostsOK, [Next]_vars
               PROVE  Distinct' /\ PostsOK' /\ [Board!Next]_(Board!vars)
    OBVIOUS
  <2>1. CASE \/ \E s \in Stations : Connect(s)
             \/ Disconnect \/ Rights \/ Reset \/ Led
             \/ \E i \in DOMAIN records : Read(records[i])
             \/ UNCHANGED vars
    <3>1. records' = records /\ posted' = posted
      BY <2>1 DEF Connect, Disconnect, Rights, Reset, Led, LedLook, LedSet, Read, vars, store, history
    <3> QED  BY <3>1, BoardStays
  <2>2. ASSUME NEW cmd \in {"S", "SP", "SB"}, NEW arg \in Args, Post(cmd, arg)
        PROVE  Distinct' /\ PostsOK' /\ Board!Next
    BY <2>2, PostsBoard
  <2>3. ASSUME NEW i \in DOMAIN records, Kill(i) PROVE Distinct' /\ PostsOK' /\ Board!Next
    BY <2>3, KillsBoard
  <2> QED  BY <2>1, <2>2, <2>3 DEF Next
<1> QED  BY <1>1, <1>2, Inductive, PTL DEF Spec, Board!Spec
=============================================================================
