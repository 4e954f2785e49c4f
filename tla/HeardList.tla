------------------------------ MODULE HeardList ------------------------------
(***************************************************************************)
(* The list of the stations heard on the air, src/main/bbs_heard.c.  The   *)
(* task of the router, which takes frames from a queue one at a time, puts *)
(* the sender of each at the front of a list of at most MaxHeard entries;  *)
(* the main task loads the list at boot and, in its housekeeping loop,     *)
(* writes it to heard.dat by way of a temporary file.  Both hold a mutex   *)
(* while they use the entries, but not for all that goes with them:        *)
(* `frame` is what the router's task has read before it takes the mutex,   *)
(* `pc` the next step of the main task.                                    *)
(*                                                                         *)
(* Time is counted in rounds of the housekeeping loop (30 s) since boot.   *)
(* LittleFS is external: rename() is atomic, and Faults says which calls   *)
(* may fail.  An entry's bucket_timestamp is always the bucket of its      *)
(* last_heard_unix, and is left out.                                       *)
(***************************************************************************)
EXTENDS Integers, SequencesExt

CONSTANTS
  Calls,      \* full call signs of the senders
  Own,        \* the BBS's own
  MaxHeard,   \* BBS_HEARD_MAX
  Bucket,     \* BBS_HEARD_BUCKET_SECONDS
  RateLimit,  \* the 1800 s of bbs_heard_persist()
  MaxTime,    \* bound: the last round of the loop before a reset
  NoFile,     \* heard.dat does not exist
  NoFrame,    \* no frame is being dealt with
  Faults      \* the calls that may fail

ASSUME HeardAssumption ==
  /\ {MaxHeard, Bucket, RateLimit} \subseteq Nat \ {0}
  /\ MaxTime \in Nat
  /\ NoFile \notin Seq(Calls) /\ NoFrame \notin [call: Calls, at: Nat]
  /\ Faults \subseteq {"open", "read", "write", "close", "rename"}

VARIABLES
  entries,            \* bbs_heard_t.entries[0..count-1]
  dirty,
  last_persist_time,
  filter,             \* bbs_callsign is set
  data,               \* the calls in heard.dat, or NoFile
  temp,               \* the calls in heard.tmp, <<>> when it is not going to be read
  time,
  frame,              \* the entry for a frame whose task waits for the mutex
  pc                  \* the next step of the main task

\* History, which no action reads.
VARIABLES
  since,    \* for each station heard: which others were, since it last was
  unsaved,  \* rounds of the loop since heard.dat last was what the list is
  failed    \* a write failed since boot

flash == <<data, temp>>
history == <<since, unsaved, failed>>
vars == <<entries, dirty, last_persist_time, filter, flash, time, frame, pc, history>>

\* The sentinel UINT32_MAX: heard before the present boot.
PreBoot == MaxTime + 1

Entry == [call: Calls, at: 0 .. PreBoot]

CallsOf(es) == [i \in 1 .. Len(es) |-> es[i].call]

Listed == {entries[i].call : i \in DOMAIN entries}

\* Mutually distinct for distinct buckets, and for the sentinel.
BucketOf(t) == IF t = PreBoot THEN PreBoot ELSE t \div Bucket
-----------------------------------------------------------------------------
(* heard_on_frame(), in the task of the router. *)

\* Mutant: a station that is heard again keeps its place.
PromoteInPlace(es, n, e) ==
  IF n <= Len(es) /\ es[n].call = e.call THEN [es EXCEPT ![n] = e]
  ELSE [j \in 1 .. Len(es) + 1 |-> IF j = 1 THEN e ELSE es[j - 1]]

\* memmove() of the first n - 1 entries by one place, and e at the front.
Promote(es, n, e) ==
  [j \in 1 .. (IF n > Len(es) THEN n ELSE Len(es)) |->
     IF j = 1 THEN e ELSE IF j <= n THEN es[j - 1] ELSE es[j]]

\* Mutant: the search leaves out the last entry.
PlaceMissed(es, c) ==
  IF \E i \in 1 .. Len(es) - 1 : es[i].call = c
  THEN CHOOSE i \in 1 .. Len(es) - 1 : es[i].call = c
  ELSE IF Len(es) < MaxHeard THEN Len(es) + 1 ELSE MaxHeard

\* The place that is overwritten when c is heard: its own, a new one, or, in
\* a full list, the last.
Place(es, c) ==
  IF \E i \in DOMAIN es : es[i].call = c
  THEN CHOOSE i \in DOMAIN es : es[i].call = c
  ELSE IF Len(es) < MaxHeard THEN Len(es) + 1 ELSE MaxHeard

\* The list before is unlike the list after, times apart by less than a
\* bucket aside.
Changed(e) ==
  \/ Place(entries, e.call) # 1
  \/ entries = <<>> \/ entries[1].call # e.call
  \/ BucketOf(entries[1].at) # BucketOf(e.at)

\* What is read before the mutex is taken: whether the list is initialized,
\* the filter and the time.
Frame(c) ==
  /\ pc # "off" /\ frame = NoFrame
  /\ ~(filter /\ c = Own)
  /\ frame' = [call |-> c, at |-> time]
  /\ UNCHANGED <<entries, dirty, last_persist_time, filter, flash, time, pc, history>>

\* The mutex is free.
Heard ==
  /\ frame # NoFrame /\ pc # "written"
  /\ entries' = Promote(entries, Place(entries, frame.call), frame)
  /\ dirty' = (dirty \/ Changed(frame))
  /\ since' = [d \in DOMAIN since \cup {frame.call} |->
                 IF d = frame.call THEN {} ELSE since[d] \cup {frame.call}]
  /\ frame' = NoFrame
  /\ UNCHANGED <<last_persist_time, filter, flash, time, pc, unsaved, failed>>
-----------------------------------------------------------------------------
(* The start of the main task: bbs_heard_init(), bbs_heard_load() and       *)
(* bbs_heard_set_filter_callsign().  Frames come in from the registration  *)
(* of the port on.                                                         *)

InitRegister ==
  /\ pc = "off"
  /\ pc' = "init"
  /\ UNCHANGED <<frame, entries, dirty, last_persist_time, filter, flash, time, history>>

InitDone ==
  /\ pc = "init"
  /\ dirty' = FALSE /\ last_persist_time' = 0
  /\ pc' = "load"
  /\ UNCHANGED <<frame, entries, filter, flash, time, history>>

LoadMissing ==
  /\ pc = "load" /\ (data = NoFile \/ "open" \in Faults)
  /\ pc' = "filter"
  /\ UNCHANGED <<frame, entries, dirty, last_persist_time, filter, flash, time, history>>

\* What was heard before is forgotten.  A failing fread() ends the list.
Load ==
  /\ pc = "load" /\ data # NoFile
  /\ \E n \in 0 .. Len(data) :
       /\ n = Len(data) \/ "read" \in Faults
       /\ entries' = [i \in 1 .. n |-> [call |-> data[i], at |-> PreBoot]]
  /\ since' = [d \in {entries'[i].call : i \in DOMAIN entries'} |->
                 {c \in Calls : \E i, j \in DOMAIN entries' :
                    i < j /\ entries'[i].call = c /\ entries'[j].call = d}]
  /\ pc' = "loaded"
  /\ UNCHANGED <<frame, dirty, last_persist_time, filter, flash, time, unsaved, failed>>

\* The mutex was given back.
LoadDone ==
  /\ pc = "loaded"
  /\ dirty' = FALSE /\ last_persist_time' = time
  /\ pc' = "filter"
  /\ UNCHANGED <<frame, entries, filter, flash, time, history>>

SetFilter ==
  /\ pc = "filter"
  /\ filter' = TRUE
  /\ pc' = "run"
  /\ UNCHANGED <<frame, entries, dirty, last_persist_time, flash, time, history>>
-----------------------------------------------------------------------------
(* The housekeeping loop: bbs_heard_persist(), once in each round. *)

\* heard.dat has the stations of the list in their order.
Saved == data = CallsOf(entries) \/ (data = NoFile /\ entries = <<>>)

Round ==
  /\ pc = "run" /\ time < MaxTime
  /\ time' = time + 1
  /\ pc' = "persist"
  /\ unsaved' = IF Saved THEN 0 ELSE unsaved + 1
  /\ UNCHANGED <<frame, entries, dirty, last_persist_time, filter, flash, since, failed>>

\* Mutant: what is not dirty is never written.
DueIfDirty == dirty

Due == dirty \/ time - last_persist_time >= RateLimit

PersistSkip ==
  /\ pc = "persist" /\ ~Due
  /\ pc' = "run"
  /\ UNCHANGED <<frame, entries, dirty, last_persist_time, filter, flash, time, history>>

\* The mutex is taken, and heard.tmp written.  fclose() may lose the end of
\* it, which nobody notices.
PersistWrite ==
  /\ pc = "persist" /\ Due
  /\ \E n \in 0 .. Len(entries) :
       /\ n = Len(entries) \/ "close" \in Faults
       /\ temp' = SubSeq(CallsOf(entries), 1, n)
  /\ failed' = (failed \/ temp' # CallsOf(entries))
  /\ pc' = "written"
  /\ UNCHANGED <<frame, entries, dirty, last_persist_time, filter, data, time, since, unsaved>>

\* Mutant: a short fwrite() is not looked at.
PersistFailUnseen ==
  /\ pc = "persist" /\ Due /\ "write" \in Faults
  /\ \E n \in 0 .. Len(entries) - 1 : temp' = SubSeq(CallsOf(entries), 1, n)
  /\ failed' = TRUE
  /\ pc' = "written"
  /\ UNCHANGED <<frame, entries, dirty, last_persist_time, filter, data, time, since, unsaved>>

\* fopen() fails, or fwrite() comes back short and heard.tmp is unlinked.
PersistFail ==
  /\ pc = "persist" /\ Due /\ Faults \cap {"open", "write"} # {}
  /\ temp' = <<>> /\ failed' = TRUE
  /\ pc' = "run"
  /\ UNCHANGED <<frame, entries, dirty, last_persist_time, filter, data, time, since, unsaved>>

PersistRename ==
  /\ pc = "written"
  /\ data' = temp /\ temp' = <<>>
  /\ dirty' = FALSE /\ last_persist_time' = time
  /\ pc' = "run"
  /\ unsaved' = 0
  /\ UNCHANGED <<frame, entries, filter, time, since, failed>>

PersistRenameFail ==
  /\ pc = "written" /\ "rename" \in Faults
  /\ temp' = <<>> /\ failed' = TRUE
  /\ pc' = "run"
  /\ UNCHANGED <<frame, entries, dirty, last_persist_time, filter, data, time, since, unsaved>>
-----------------------------------------------------------------------------
\* A reset or a power failure, at any step.
Crash ==
  /\ pc # "off"
  /\ pc' = "off"
  /\ entries' = <<>> /\ dirty' = FALSE /\ last_persist_time' = 0 /\ filter' = FALSE
  /\ time' = 0 /\ frame' = NoFrame
  /\ since' = [d \in {} |-> {}] /\ unsaved' = 0 /\ failed' = FALSE
  /\ temp' = <<>>
  /\ UNCHANGED data

Init ==
  /\ entries = <<>> /\ dirty = FALSE /\ last_persist_time = 0 /\ filter = FALSE
  /\ data = NoFile /\ temp = <<>>
  /\ time = 0 /\ pc = "off" /\ frame = NoFrame
  /\ since = [d \in {} |-> {}] /\ unsaved = 0 /\ failed = FALSE

Main ==
  \/ InitRegister \/ InitDone
  \/ LoadMissing \/ Load \/ LoadDone \/ SetFilter
  \/ Round \/ PersistSkip
  \/ PersistWrite \/ PersistFail \/ PersistRename \/ PersistRenameFail

Next == (\E c \in Calls : Frame(c)) \/ Heard \/ Main \/ Crash

Spec == Init /\ [][Next]_vars
-----------------------------------------------------------------------------
(* Properties. *)

\* The type of every variable.  The list never outgrows its array.
TypeOK ==
  /\ entries \in Seq(Entry) /\ Len(entries) <= MaxHeard
  /\ dirty \in BOOLEAN /\ filter \in BOOLEAN /\ failed \in BOOLEAN
  /\ time \in 0 .. MaxTime /\ last_persist_time \in 0 .. time
  /\ data \in Seq(Calls) \cup {NoFile} /\ temp \in Seq(Calls)
  /\ data # NoFile => Len(data) <= MaxHeard
  /\ Len(temp) <= MaxHeard
  /\ frame \in [call: Calls, at: 0 .. time] \cup {NoFrame}
  /\ pc \in {"off", "init", "load", "loaded", "filter", "run", "persist", "written"}
  /\ DOMAIN since \subseteq Calls /\ \A c \in DOMAIN since : since[c] \subseteq Calls
  /\ unsaved \in Nat

\* The list is that of the stations heard last, each once and the latest
\* first: before a station stand exactly those heard since, and a station is
\* missing only if the list is full of stations heard since.
Recency ==
  /\ \A i \in DOMAIN entries :
       /\ entries[i].call \in DOMAIN since
       /\ since[entries[i].call] = {entries[j].call : j \in 1 .. i - 1}
       /\ \A j \in DOMAIN entries : entries[i].call = entries[j].call => i = j
  /\ \A c \in DOMAIN since \ Listed :
       Len(entries) = MaxHeard /\ Listed \subseteq since[c]

\* The times shown do not go back: those heard before the boot come last,
\* the others in the order in which they were heard.
AgesAscend ==
  \A i, j \in DOMAIN entries :
    i < j => entries[j].at = PreBoot
             \/ (entries[i].at # PreBoot /\ entries[j].at <= entries[i].at)

\* heard.dat only ever becomes the whole list of that moment: neither a reset
\* nor a failing call leaves a part of it there.
\* bbs_heard.h:85: "Persist heard list to flash atomically using temp-file
\* rename".
WholeOnFlash == [][data' # data => data' = CallsOf(entries)]_vars

\* Unless a write failed, heard.dat is behind the list for RateLimit at most,
\* also when the dirty flag was lost.
SavedInTime == ~failed => unsaved <= RateLimit
=============================================================================
