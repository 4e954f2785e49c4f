------------------------------ MODULE Mailbox -------------------------------
(***************************************************************************)
(* The mailbox of src/main/bbs.c: posting, listing, reading and deleting   *)
(* messages, the marks in NVS up to which each station has read, and the   *)
(* LED of src/main/main.c that blinks when something is unread.            *)
(*                                                                         *)
(* A command is one step of the worker task; the store's own steps and     *)
(* faults are those of module MessageStore, and the making of a message    *)
(* that of Compose.  The LED is also refreshed once a second by the main   *)
(* task, which walks the same records without a lock.                      *)
(***************************************************************************)
EXTENDS Callsign

CONSTANTS
  Stations,     \* full call signs of those who connect
  Args,         \* what they type after S, SP and SB
  MaxMessages,  \* CONFIG_BBS_MAX_MESSAGES
  MaxPosts,     \* bound: posts
  MaxResets     \* bound: resets

ASSUME MailboxAssumption == MaxMessages \in Nat \ {0} /\ MaxPosts \in Nat /\ MaxResets \in Nat

\* What is typed and who connects are strings; a symbol is one character, in two
\* cases if it is a letter; and an AX.25 address has a base call that fits.
Characters == UNION {ToSet(call) : call \in Stations \cup Args}

ASSUME CallsAssumption ==
  /\ Stations \cup Args \subseteq Seq(Characters)
  /\ \A c, d \in Characters : Capital(c) = Capital(d) <=> c.sym = d.sym
  /\ \A s \in Stations : Len(s) <= BaseLen \/ \E i \in 1 .. BaseLen + 1 : s[i] = Dash

VARIABLES
  records, next_id,            \* the store's index
  last_read,                   \* in NVS: the highest id each station has read
  connected, remote_callsign, is_sysop,
  bbs_mode,                    \* of the LED: "ON", "BLINK", "OFF"
  found                        \* the mode the main task is about to set, or None

\* History, which no action reads: of a record, which post it was (n), since
\* which reset (epoch), and what was typed as its destination (arg); of a mark,
\* the message that was read when it was set.
VARIABLES posted, resets, marked

history == <<posted, resets, marked>>
store == <<records, next_id, last_read>>
session == <<connected, remote_callsign, is_sysop>>
vars == <<store, session, bbs_mode, found, history>>

NoCall == <<>>
Calls == {BaseCall(s) : s \in Stations}
None == "none"
-----------------------------------------------------------------------------
(* Who may see what. *)

IsRelated(rec) == remote_callsign \in {rec.from, rec.to}
IsReadable(rec) == rec.bulletin \/ is_sysop \/ IsRelated(rec)

\* list_messages(): L is Listing(0, FALSE), LL n is Listing(n, FALSE) and LM
\* is Listing(0, TRUE).
Listing(limit, mine_only) ==
  LET start == IF limit \in 1 .. Len(records) - 1 THEN Len(records) - limit ELSE 0
      Shown(rec) == IF mine_only THEN IsRelated(rec) ELSE IsReadable(rec)
  IN  SelectSeq(SubSeq(records, start + 1, Len(records)), Shown)

\* bbs_has_unread_messages() and led_refresh_bbs_mode(), all at once.
HasUnread ==
  /\ remote_callsign # NoCall
  /\ \E i \in DOMAIN records :
       IsReadable(records[i]) /\ records[i].id > last_read[remote_callsign]

LedMode == IF connected THEN "ON" ELSE IF HasUnread THEN "BLINK" ELSE "OFF"

\* bbs_worker_task() refreshes the LED after every event.
WorkerDone == bbs_mode' = LedMode' /\ UNCHANGED found
-----------------------------------------------------------------------------
(* The events and commands of a station. *)

\* bbs_on_connect() with the banner, which counts what is readable and new.
Connect(s) ==
  /\ connected' = TRUE /\ is_sysop' = FALSE
  /\ remote_callsign' = BaseCall(s)
  /\ UNCHANGED <<store, history>>
  /\ WorkerDone

Disconnect ==
  /\ connected' = FALSE /\ is_sysop' = FALSE
  /\ UNCHANGED <<store, remote_callsign, history>>
  /\ WorkerDone

\* SYSOP rights come, and go when idle: module BbsSession.
Rights ==
  /\ connected
  /\ is_sysop' = ~is_sysop
  /\ UNCHANGED <<store, connected, remote_callsign, history>>
  /\ WorkerDone

\* The slot of the oldest message, which the newest takes when all are taken.
SlotFor ==
  CHOOSE i \in DOMAIN records : \A j \in DOMAIN records : records[i].id <= records[j].id

\* Mutant: the oldest makes room for the next post before all are taken.
StoreEarly(rec) ==
  /\ next_id' = next_id + 1
  /\ records' = IF Len(records) < MaxMessages - 1 THEN Append(records, rec)
                                                  ELSE [records EXCEPT ![SlotFor] = rec]

\* bbs_storage_store_message(), as far as the index goes.
Store(rec) ==
  /\ next_id' = next_id + 1
  /\ records' = IF Len(records) < MaxMessages THEN Append(records, rec)
                                              ELSE [records EXCEPT ![SlotFor] = rec]

Flags(cmd, arg) ==
  CASE cmd = "SB" -> TRUE
    [] cmd = "SP" -> FALSE
    [] cmd = "S"  -> ~IsValidCallsign(arg)

\* Mutant: the SSID stays.
AddresseeWhole(arg) == [i \in 1 .. Min({Len(arg), BaseLen}) |-> Capital(arg[i])]

Addressee(arg) == BaseCall(arg)

\* S, SP and SB up to finish_post().
Post(cmd, arg) ==
  /\ connected
  /\ posted < MaxPosts
  /\ Addressee(arg) # <<>>
  /\ cmd = "SP" => IsValidCallsign(arg)
  /\ Store([id |-> next_id, from |-> remote_callsign, to |-> Addressee(arg),
            bulletin |-> Flags(cmd, arg),
            n |-> posted + 1, epoch |-> resets, arg |-> arg])
  /\ posted' = posted + 1
  /\ UNCHANGED <<last_read, session, resets, marked>>
  /\ WorkerDone

\* Mutant: the mark follows what was read last.
MarkReadLast(id) == last_read' = [last_read EXCEPT ![remote_callsign] = id]

MarkRead(id) ==
  last_read' = [last_read EXCEPT ![remote_callsign] = IF id > @ THEN id ELSE @]

\* cmd_read(), of a message whose file can be read.
Read(rec) ==
  /\ connected
  /\ IsReadable(rec)
  /\ MarkRead(rec.id)
  /\ marked' = IF last_read' = last_read THEN marked
               ELSE [marked EXCEPT ![remote_callsign] = [n |-> rec.n, epoch |-> rec.epoch]]
  /\ UNCHANGED <<records, next_id, session, posted, resets>>
  /\ WorkerDone

\* bbs_storage_delete_message(): the records behind it move up.
Removed(i) == RemoveAt(records, i)

\* Mutant: the id of a deleted message is given again.
NextIdAfterKillReused(i) == IF records[i].id = next_id - 1 THEN next_id - 1 ELSE next_id

NextIdAfterKill(i) == next_id

\* cmd_kill()
Kill(i) ==
  /\ connected
  /\ is_sysop \/ IsRelated(records[i])
  /\ records' = Removed(i)
  /\ next_id' = NextIdAfterKill(i)
  /\ UNCHANGED <<last_read, session, posted, resets, marked>>
  /\ WorkerDone
-----------------------------------------------------------------------------
(* The main task. *)

\* A reset of the ESP32: the index is read back, the marks are in NVS.
Reset ==
  /\ resets < MaxResets
  /\ resets' = resets + 1
  /\ next_id' = Max({records[i].id : i \in DOMAIN records} \cup {0}) + 1
  /\ connected' = FALSE /\ is_sysop' = FALSE /\ remote_callsign' = NoCall
  /\ bbs_mode' = "OFF" /\ found' = None
  /\ UNCHANGED <<records, last_read, posted, marked>>

\* Mutant: while a client is connected the main task leaves the LED alone.
LedLookIdle ==
  /\ found = None /\ ~connected
  /\ found' = LedMode
  /\ UNCHANGED <<store, session, bbs_mode, history>>

\* led_tick(): what the main task finds, and later sets.  The records may
\* change under its walk, which then finds what it would have found before or
\* after.
LedLook ==
  /\ found = None
  /\ found' = LedMode
  /\ UNCHANGED <<store, session, bbs_mode, history>>

LedSet ==
  /\ found # None
  /\ bbs_mode' = found
  /\ found' = None
  /\ UNCHANGED <<store, session, history>>

Led == LedLook \/ LedSet
-----------------------------------------------------------------------------
Init ==
  /\ records = <<>> /\ next_id = 1
  /\ last_read = [c \in Calls |-> 0]
  /\ connected = FALSE /\ remote_callsign = NoCall /\ is_sysop = FALSE
  /\ bbs_mode = "OFF" /\ found = None
  /\ posted = 0 /\ resets = 0
  /\ marked = [c \in Calls |-> [n |-> 0, epoch |-> 0]]

Next ==
  \/ \E s \in Stations : Connect(s)
  \/ Disconnect
  \/ Rights
  \/ \E cmd \in {"S", "SP", "SB"}, arg \in Args : Post(cmd, arg)
  \/ \E i \in DOMAIN records : Read(records[i])
  \/ \E i \in DOMAIN records : Kill(i)
  \/ Reset
  \/ Led

\* The main task runs once a second, whatever the worker does.
Spec == Init /\ [][Next]_vars /\ WF_vars(Led)
-----------------------------------------------------------------------------
(* Properties. *)

Record ==
  [id : Nat, from : Calls, to : {Addressee(a) : a \in Args}, bulletin : BOOLEAN,
   n : Nat, epoch : Nat, arg : Args]

TypeOK ==
  /\ records \in Seq(Record) /\ Len(records) <= MaxMessages
  /\ next_id \in Nat
  /\ last_read \in [Calls -> Nat]
  /\ connected \in BOOLEAN /\ is_sysop \in BOOLEAN
  /\ remote_callsign \in Calls \cup {NoCall}
  /\ bbs_mode \in {"ON", "BLINK", "OFF"}
  /\ found \in {"ON", "BLINK", "OFF", None}

\* A message that is not new for a station (bbs_send_banner) never becomes new
\* again, whatever the station reads next, and through deletions, evictions
\* and resets.
StaysRead ==
  [][\A c \in Calls, i \in DOMAIN records, j \in DOMAIN records' :
       records[i].n = records'[j].n /\ records[i].id <= last_read[c]
         => records'[j].id <= last_read'[c]]_vars

\* The other way around, a message that a station did not read counts as read
\* only if the station read one posted later, or if ids have been given again:
\* then it is hidden behind the mark of a message from before a reset.
HiddenOnlyAfterReset ==
  \A c \in Calls, i \in DOMAIN records :
    records[i].id <= last_read[c] =>
      records[i].n <= marked[c].n \/ marked[c].epoch < records[i].epoch

\* A private message is for those stations, and only those, whose call was
\* typed, in whichever case and with whichever SSID on either side
\* (bbs_base_callsign), as long as it fits.
Addressed ==
  LET Typed(call) == IF Contains(call, Dash) THEN SubSeq(call, 1, SelectInSeq(call, LAMBDA c : c = Dash) - 1) ELSE call
      Letters(call) == [k \in DOMAIN Typed(call) |-> Typed(call)[k].sym]
  IN  \A i \in DOMAIN records, s \in Stations :
        ~records[i].bulletin /\ Len(Typed(records[i].arg)) <= BaseLen =>
          (records[i].to = BaseCall(s) <=> Letters(records[i].arg) = Letters(s))

\* A message goes only by itself, and only in two ways: by a step of a session
\* that goes on, in which its sender, its addressee or the SYSOP is connected, and
\* that posts and reads nothing; or by a post that finds all the records taken,
\* if no message there was posted earlier.  In particular neither a reset nor
\* somebody's coming and going loses any, and a post to a store with room none.
RemovedByRight ==
  [][\A i \in DOMAIN records : records[i] \notin ToSet(records') =>
       /\ \A j \in DOMAIN records \ {i} : records[j] \in ToSet(records')
       /\ UNCHANGED <<session, last_read, resets>>
       /\ \/ /\ connected /\ (is_sysop \/ IsRelated(records[i]))
             /\ posted' = posted /\ Len(records') = Len(records) - 1
          \/ /\ posted' = posted + 1 /\ Len(records) = MaxMessages
             /\ \A j \in DOMAIN records : records[i].n <= records[j].n]_vars

\* Somebody has not read a message that is for them.
UnreadFor(c) ==
  \E i \in DOMAIN records :
    /\ records[i].bulletin \/ c \in {records[i].from, records[i].to}
    /\ records[i].id > last_read[c]

\* The LED, which two tasks set, one of them from records that change under it,
\* settles on what the last caller left (main.c:338): on while a client is
\* connected, else blinking if something is unread that it may read, and off if
\* nothing is unread for anybody.  When something is unread for others only, or
\* after a reset, it is off as well, where README.md:145 and CONFIG_PARAMETERS.md:60
\* would have it blink: the property does not ask for either.
LedSettles ==
  /\ <>[]connected => <>[](bbs_mode = "ON")
  /\ <>[](~connected /\ HasUnread) => <>[](bbs_mode = "BLINK")
  /\ <>[](~connected /\ \A c \in Calls : ~UnreadFor(c)) => <>[](bbs_mode = "OFF")

\* bbs.c:771, of LL: "List newest n readable messages".
NewestListed ==
  connected => \A n \in 1 .. MaxMessages :
    LET readable == {i \in DOMAIN records : IsReadable(records[i])}
        shown    == ToSet(Listing(n, FALSE))
    IN  /\ Cardinality(shown) = Min({n, Cardinality(readable)})
        /\ \A i \in readable :
             records[i] \notin shown => \A rec \in shown : records[i].n < rec.n
=============================================================================
