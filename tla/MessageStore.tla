---------------------------- MODULE MessageStore ----------------------------
(***************************************************************************)
(* The message store of the BBS, src/main/bbs_storage.c: an index in RAM   *)
(* (bbs_storage_t.records), its copy on flash (index.dat) and one body     *)
(* file per message (msg_<id>.txt), all written by one task, the BBS       *)
(* worker.  A call of the store is several file operations, and the power  *)
(* can go between any two of them, so each file operation is a step; `pc`  *)
(* is the next one of the call in progress, `op` the call.                 *)
(*                                                                         *)
(* LittleFS is external.  What the code relies on is modelled: opening a   *)
(* file "wb" empties it on flash at once, its new content reaches flash    *)
(* when it is closed, unlink is atomic.  Faults says which calls may fail: *)
(* mounting the partition, fopen(), fwrite(), fread(), or fclose(), whose  *)
(* result the code never looks at.                                         *)
(*                                                                         *)
(* A message (an element of Msgs) stands for a header and a body; each is  *)
(* posted at most once, so that a body can be told from every other.       *)
(***************************************************************************)
EXTENDS Naturals, SequencesExt

CONSTANTS
  Msgs,         \* what the stations post
  MaxMessages,  \* CONFIG_BBS_MAX_MESSAGES
  Torn,         \* the content of a body file that is not the whole body
  Faults        \* the calls that may fail

ASSUME StoreAssumption ==
  /\ MaxMessages \in Nat \ {0}
  /\ Torn \notin Msgs
  /\ Faults \subseteq {"mount", "open", "write", "read", "close"}

VARIABLES
  records,   \* bbs_storage_t.records[0..count-1]: the index in RAM
  next_id,   \* bbs_storage_t.next_id
  index,     \* index.dat on flash
  hasIndex,  \* index.dat exists
  files,     \* the body files on flash: their content, by message id
  pc,        \* the next step of the call in progress
  op         \* the call in progress: its kind and the record it stores

\* History, which no action reads.
VARIABLES
  posted,    \* the messages handed to store_message, oldest first
  promised,  \* acknowledged messages nobody deleted, evicted or lost loudly
  truncated, \* index.dat was emptied and has not been written whole since
  disturbed  \* an operation failed, or a reset cut a call short

flash == <<index, hasIndex, files>>
ram == <<records, next_id>>
history == <<posted, promised, truncated, disturbed>>
vars == <<ram, flash, pc, op, history>>

Ids == Nat \ {0}
Record == [id: Ids, msg: Msgs]
NoOp == [kind |-> "none"]
Operation == [kind: {"none", "load", "delete"}] \cup [kind: {"store"}, rec: Record]

\* The store is mounted and its index loaded.
Running ==
  pc \in {"idle", "body", "update", "save_open", "save_write"} /\ op.kind # "load"
-----------------------------------------------------------------------------
(* The file system. *)

PutFile(fs, id, content) ==
  [i \in DOMAIN fs \cup {id} |-> IF i = id THEN content ELSE fs[i]]

Unlink(fs, id) == [i \in DOMAIN fs \ {id} |-> fs[i]]

\* The messages of a sequence of records, and the ids they have.
MsgsOf(recs) == {recs[i].msg : i \in DOMAIN recs}
IdsOf(recs) == {recs[i].id : i \in DOMAIN recs}

\* bbs_storage_read_message() returns the message the record announces.
ReadsBack(rec) == rec.id \in DOMAIN files /\ files[rec.id] = rec.msg

\* The call in progress returns.  A load that fails unmounts the store.
Reply(ok) ==
  /\ pc' = IF ok \/ op.kind # "load" THEN "idle" ELSE "failed"
  /\ promised' = IF ok /\ op.kind = "store"
                 THEN promised \cup {op.rec.msg} ELSE promised
  /\ op' = NoOp
-----------------------------------------------------------------------------
(* bbs_storage_init(): mount, then index_load(). *)

\* The partition cannot be mounted and is formatted: an empty file system.
MountFormat ==
  /\ "mount" \in Faults /\ pc = "off"
  /\ files' = [i \in {} |-> Torn]
  /\ index' = <<>> /\ hasIndex' = FALSE
  /\ promised' = {} /\ truncated' = FALSE
  /\ UNCHANGED <<ram, pc, op, posted, disturbed>>

\* The mount or the creation of the directory fails.
MountFail ==
  /\ "mount" \in Faults /\ pc = "off"
  /\ pc' = "failed"
  /\ UNCHANGED <<ram, flash, op, history>>

ResetIndex == records' = <<>> /\ next_id' = 1

LoadOpen ==
  /\ pc = "off" /\ hasIndex
  /\ ResetIndex
  /\ pc' = "load"
  /\ op' = [kind |-> "load"]
  /\ UNCHANGED <<flash, history>>

\* index.dat cannot be opened, because there is none or for any other
\* reason: an empty index is saved over it.
LoadMissing ==
  /\ pc = "off" /\ (hasIndex => "open" \in Faults)
  /\ ResetIndex
  /\ pc' = "save_open"
  /\ op' = [kind |-> "load"]
  /\ promised' = IF hasIndex THEN {} ELSE promised
  /\ disturbed' = (disturbed \/ hasIndex)
  /\ UNCHANGED <<flash, posted, truncated>>

\* Mutant: the ids start again at 1 after a reset.
IdAfterForgotten(next, rec) == next

\* The id after rec's, unless a higher one is taken already.
IdAfter(next, rec) == IF rec.id >= next THEN rec.id + 1 ELSE next

LoadRecord ==
  /\ pc = "load" /\ Len(records) < MaxMessages /\ Len(records) < Len(index)
  /\ LET rec == index[Len(records) + 1]
     IN  /\ records' = Append(records, rec)
         /\ next_id' = IdAfter(next_id, rec)
  /\ UNCHANGED <<flash, pc, op, history>>

LoadDone ==
  /\ pc = "load" /\ (Len(records) = MaxMessages \/ Len(records) = Len(index))
  /\ Reply(TRUE)
  /\ UNCHANGED <<ram, flash, posted, truncated, disturbed>>

\* fread() fails: the load ends early, and returns ESP_OK all the same.
LoadCut ==
  /\ "read" \in Faults /\ pc = "load" /\ Len(records) < Len(index)
  /\ Reply(TRUE)
  /\ disturbed' = TRUE
  /\ UNCHANGED <<ram, flash, posted, truncated>>
-----------------------------------------------------------------------------
(* bbs_storage_store_message(). *)

\* The file of a new message is created, empty.  The id is used up even
\* when that fails.
StoreOpen(m) ==
  /\ pc = "idle" /\ m \notin ToSet(posted)
  /\ posted' = Append(posted, m)
  /\ next_id' = next_id + 1
  /\ \/ /\ files' = PutFile(files, next_id, Torn)
        /\ pc' = "body"
        /\ op' = [kind |-> "store", rec |-> [id |-> next_id, msg |-> m]]
        /\ UNCHANGED disturbed
     \/ /\ "open" \in Faults
        /\ disturbed' = TRUE
        /\ UNCHANGED <<files, pc, op>>
  /\ UNCHANGED <<records, index, hasIndex, promised, truncated>>

BodyWrite ==
  /\ pc = "body"
  /\ files' = PutFile(files, op.rec.id, op.rec.msg)
  /\ pc' = "update"
  /\ UNCHANGED <<ram, index, hasIndex, op, history>>

\* fwrite() comes back short: the call fails, and the file stays.
BodyShort ==
  /\ "write" \in Faults /\ pc = "body"
  /\ Reply(FALSE)
  /\ disturbed' = TRUE
  /\ UNCHANGED <<ram, flash, posted, truncated>>

\* fwrite() filled a buffer that fclose() could not write out.
BodyLost ==
  /\ "close" \in Faults /\ pc = "body"
  /\ pc' = "update"
  /\ disturbed' = TRUE
  /\ UNCHANGED <<ram, flash, op, posted, promised, truncated>>

\* Mutant: the comparison is the wrong way round.
OldestSwapped(recs, i) == \A j \in DOMAIN recs : recs[i].id >= recs[j].id

Oldest(recs, i) == \A j \in DOMAIN recs : recs[i].id <= recs[j].id

Add ==
  /\ pc = "update" /\ Len(records) < MaxMessages
  /\ records' = Append(records, op.rec)
  /\ pc' = "save_open"
  /\ UNCHANGED <<next_id, flash, op, history>>

\* Mutant: the body of the oldest message is deleted, its record stays.
EvictGrows ==
  /\ pc = "update" /\ Len(records) >= MaxMessages
  /\ \E i \in DOMAIN records :
       /\ Oldest(records, i)
       /\ files' = Unlink(files, records[i].id)
       /\ records' = Append(records, op.rec)
       /\ promised' = promised \ {records[i].msg}
  /\ pc' = "save_open"
  /\ UNCHANGED <<next_id, index, hasIndex, op, posted, truncated, disturbed>>

\* Mutant: the body of the oldest message is left behind.
EvictKeepsBody ==
  /\ pc = "update" /\ Len(records) >= MaxMessages
  /\ \E i \in DOMAIN records :
       /\ Oldest(records, i)
       /\ records' = [records EXCEPT ![i] = op.rec]
       /\ promised' = promised \ {records[i].msg}
  /\ pc' = "save_open"
  /\ UNCHANGED <<next_id, flash, op, posted, truncated, disturbed>>

\* The store is full: the new message takes the slot of the oldest one.
Evict ==
  /\ pc = "update" /\ Len(records) >= MaxMessages
  /\ \E i \in DOMAIN records :
       /\ Oldest(records, i)
       /\ files' = Unlink(files, records[i].id)
       /\ records' = [records EXCEPT ![i] = op.rec]
       /\ promised' = promised \ {records[i].msg}
  /\ pc' = "save_open"
  /\ UNCHANGED <<next_id, index, hasIndex, op, posted, truncated, disturbed>>
-----------------------------------------------------------------------------
(* bbs_storage_delete_message(), of a message that is found. *)

\* Mutant: off by one, the record after the i-th goes.
WithoutNext(recs, i) ==
  [j \in 1 .. Len(recs) - 1 |-> IF j <= i THEN recs[j] ELSE recs[j + 1]]

\* The records after the i-th move down by one.
Without(recs, i) ==
  [j \in 1 .. Len(recs) - 1 |-> IF j < i THEN recs[j] ELSE recs[j + 1]]

Delete(i) ==
  /\ pc = "idle"
  /\ files' = Unlink(files, records[i].id)
  /\ records' = Without(records, i)
  /\ promised' = promised \ {records[i].msg}
  /\ pc' = "save_open"
  /\ op' = [kind |-> "delete"]
  /\ UNCHANGED <<next_id, index, hasIndex, posted, truncated, disturbed>>
-----------------------------------------------------------------------------
(* index_save(), the last part of a load without index, a store, a delete. *)

SaveOpen ==
  /\ pc = "save_open"
  /\ index' = <<>> /\ hasIndex' = TRUE
  /\ truncated' = TRUE
  /\ pc' = "save_write"
  /\ UNCHANGED <<ram, files, op, posted, promised, disturbed>>

SaveOpenFail ==
  /\ "open" \in Faults /\ pc = "save_open"
  /\ Reply(FALSE)
  /\ disturbed' = TRUE
  /\ UNCHANGED <<ram, flash, posted, truncated>>

SaveWrite ==
  /\ pc = "save_write"
  /\ index' = records
  /\ truncated' = FALSE
  /\ Reply(TRUE)
  /\ UNCHANGED <<ram, hasIndex, files, posted, disturbed>>

\* Only a prefix of the records reaches flash.  fwrite() reports it, or
\* fclose() does and the call returns ESP_OK all the same.
SaveShort ==
  /\ pc = "save_write"
  /\ \E n \in 0 .. Len(records) : /\ n < Len(records)
                                  /\ index' = SubSeq(records, 1, n)
  /\ disturbed' = TRUE
  /\ \/ "write" \in Faults /\ Reply(FALSE)
     \/ "close" \in Faults /\ Reply(TRUE)
  /\ UNCHANGED <<ram, hasIndex, files, posted, truncated>>
-----------------------------------------------------------------------------
\* A reset or a power failure, between any two steps.  The RAM is lost; what
\* was promised and is not in an emptied index is lost too.
Crash ==
  /\ pc # "off"
  /\ pc' = "off" /\ op' = NoOp
  /\ records' = <<>> /\ next_id' = 1
  /\ promised' = IF truncated THEN promised \cap MsgsOf(index) ELSE promised
  /\ truncated' = FALSE
  /\ disturbed' = (disturbed \/ pc \notin {"idle", "load"})
  /\ UNCHANGED <<flash, posted>>

Init ==
  /\ records = <<>> /\ next_id = 1
  /\ index = <<>> /\ hasIndex = FALSE
  /\ files = [i \in {} |-> Torn]
  /\ pc = "off" /\ op = NoOp
  /\ posted = <<>> /\ promised = {}
  /\ truncated = FALSE /\ disturbed = FALSE

Next ==
  \/ MountFormat \/ MountFail
  \/ LoadOpen \/ LoadMissing \/ LoadRecord \/ LoadDone \/ LoadCut
  \/ \E m \in Msgs : StoreOpen(m)
  \/ BodyWrite \/ BodyShort \/ BodyLost
  \/ Add \/ Evict
  \/ \E i \in DOMAIN records : Delete(i)
  \/ SaveOpen \/ SaveOpenFail \/ SaveWrite \/ SaveShort
  \/ Crash

Spec == Init /\ [][Next]_vars
-----------------------------------------------------------------------------
(* Properties. *)

IndexOK(recs) == recs \in Seq(Record) /\ Len(recs) <= MaxMessages

FilesOK(fs) ==
  /\ DOMAIN fs \subseteq Ids
  /\ fs = [i \in DOMAIN fs |-> fs[i]]
  /\ \A i \in DOMAIN fs : fs[i] \in Msgs \cup {Torn}

\* The type of every variable.  The index never outgrows the array that
\* holds it, in RAM and on flash.
TypeOK ==
  /\ IndexOK(records) /\ next_id \in Ids
  /\ IndexOK(index) /\ hasIndex \in BOOLEAN /\ FilesOK(files)
  /\ pc \in {"off", "failed", "load", "idle", "body", "update", "save_open", "save_write"}
  /\ op \in Operation
  /\ pc \in {"body", "update"} => op.kind = "store"
  /\ posted \in Seq(Msgs)
  /\ promised \subseteq Msgs
  /\ truncated \in BOOLEAN /\ disturbed \in BOOLEAN

\* rec is not shown with the body of another message.
OwnBody(rec, fs) == rec.id \in DOMAIN fs => fs[rec.id] \in {rec.msg, Torn}

AllOwn(recs, fs) == \A i \in DOMAIN recs : OwnBody(recs[i], fs)

\* No header is ever shown with the body of another message, in RAM or
\* after a reset that reloads the index: an id that is given again after a
\* reset is not one that a record on flash still has.
NoForeignBody == AllOwn(records, files) /\ AllOwn(index, files)

\* A message the store acknowledged is there, header and body, whenever the
\* store is idle: neither other posts, deletes and evictions nor resets lose
\* it, except a reset that index_save() left an emptied index.dat for, or a
\* restart that cannot open index.dat and saves an empty one over it.
PromiseKept ==
  pc = "idle" => \A m \in promised :
    \E i \in DOMAIN records : records[i].msg = m /\ ReadsBack(records[i])

\* As long as nothing failed and no reset cut a call short, there is one body
\* file for every record and no other: space on flash is never leaked.
NoOrphans ==
  pc = "idle" /\ ~disturbed => DOMAIN files = IdsOf(records)

\* What a full store gives up is older than all it keeps, in the order of
\* posting, not of ids: the ids given after a reset go on increasing.
PostedBefore(a, b) ==
  \E i, j \in DOMAIN posted : i < j /\ posted[i] = a /\ posted[j] = b

EvictsOldest ==
  [][pc = "update" =>
       \A a \in MsgsOf(records) \ MsgsOf(records'), b \in MsgsOf(records') :
         PostedBefore(a, b)]_vars

\* The store implements the board of module MessageBoard, which is up while the
\* store is mounted: what can be listed is the index in RAM, or, after a reset,
\* what the index on flash still has; what a reset can bring back is what is in
\* the latter only.  So between two resets no call of the store, whichever of its
\* file operations fail, loses or changes a message but the one it is about.
Board == INSTANCE MessageBoard WITH
  Capacity <- MaxMessages,
  up <- Running,
  board <- IF Running THEN MsgsOf(records) ELSE MsgsOf(index),
  undead <- IF Running THEN MsgsOf(index) \ MsgsOf(records) ELSE {}

ImplementsBoard == Board!Spec

=============================================================================
