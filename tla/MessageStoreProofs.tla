------------------------- MODULE MessageStoreProofs -------------------------
(***************************************************************************)
(* Proofs about the message store, for every set of messages, every        *)
(* capacity and every set of faults: it is type-correct (TypeCorrect),     *)
(* what a full store gives up was posted before all it keeps (OldestGoes), *)
(* it leaks no file (NoneLeftBehind), and it implements the board of       *)
(* MessageBoard (StoreIsBoard).  Unless fread() fails while the index is   *)
(* loaded, no header is ever shown with the body of another message        *)
(* (BodiesOwn); unless fread() or fclose() fails, what was acknowledged is *)
(* there when the store is idle (PromisesKept).                            *)
(***************************************************************************)
EXTENDS MessageStore, FiniteSetTheorems, FunctionTheorems, SequenceTheorems, TLAPS
-----------------------------------------------------------------------------
(* The sequences of records. *)

\* The index of an empty file.
LEMMA NoRecords == IndexOK(<<>>) /\ DOMAIN <<>> = {} /\ Len(<<>>) = 0
BY StoreAssumption DEF IndexOK

\* Appending a record to an index that is not full: every record is an old
\* one or the new one.
LEMMA Appended ==
  ASSUME NEW recs, IndexOK(recs), Len(recs) < MaxMessages, NEW rec \in Record
  PROVE  /\ IndexOK(Append(recs, rec))
         /\ Len(Append(recs, rec)) = Len(recs) + 1
         /\ \A i \in DOMAIN Append(recs, rec) :
              \/ i \in DOMAIN recs /\ Append(recs, rec)[i] = recs[i]
              \/ i = Len(recs) + 1 /\ Append(recs, rec)[i] = rec
BY StoreAssumption DEF IndexOK

\* Overwriting a slot.
LEMMA Replaced ==
  ASSUME NEW recs, IndexOK(recs), NEW k \in DOMAIN recs, NEW rec \in Record
  PROVE  /\ IndexOK([recs EXCEPT ![k] = rec])
         /\ \A i \in DOMAIN [recs EXCEPT ![k] = rec] :
              \/ i \in DOMAIN recs /\ [recs EXCEPT ![k] = rec][i] = recs[i]
              \/ [recs EXCEPT ![k] = rec][i] = rec
BY DEF IndexOK

\* The records that fread() or fwrite() gets through: a prefix.
LEMMA Prefix ==
  ASSUME NEW recs, IndexOK(recs), NEW n \in 0 .. Len(recs)
  PROVE  /\ IndexOK(SubSeq(recs, 1, n))
         /\ \A i \in DOMAIN SubSeq(recs, 1, n) :
              i \in DOMAIN recs /\ SubSeq(recs, 1, n)[i] = recs[i]
<1>1. \A i \in 1 .. n : recs[i] \in Record
  BY DEF IndexOK
<1>2. /\ SubSeq(recs, 1, n) \in Seq(Record)
      /\ Len(SubSeq(recs, 1, n)) = IF 1 <= n THEN n - 1 + 1 ELSE 0
      /\ \A i \in 1 .. n - 1 + 1 : SubSeq(recs, 1, n)[i] = recs[1 + i - 1]
  BY <1>1, SubSeqProperties
<1> QED  BY <1>2, StoreAssumption DEF IndexOK

\* Deleting a record moves the others down; it makes no new one.
LEMMA Shifted ==
  ASSUME NEW recs, IndexOK(recs), NEW k \in DOMAIN recs
  PROVE  /\ IndexOK(Without(recs, k))
         /\ \A i \in DOMAIN Without(recs, k) :
              \E j \in DOMAIN recs : Without(recs, k)[i] = recs[j]
<1>1. recs \in Seq(Record) /\ Len(recs) \in Nat /\ DOMAIN recs = 1 .. Len(recs)
  BY DEF IndexOK
<1>2. /\ Without(recs, k) \in Seq(Record)
      /\ Len(Without(recs, k)) = Len(recs) - 1
  BY <1>1 DEF Without
<1>3. \A i \in DOMAIN Without(recs, k) :
        \E j \in DOMAIN recs : Without(recs, k)[i] = recs[j]
  BY <1>1 DEF Without
<1> QED  BY <1>1, <1>2, <1>3, StoreAssumption DEF IndexOK
-----------------------------------------------------------------------------
(* The file system. *)

\* The file system after a format.
LEMMA NoFiles == FilesOK([i \in {} |-> Torn])
BY DEF FilesOK

\* Writing a file keeps the type of the file system.
LEMMA Put ==
  ASSUME NEW fs, FilesOK(fs), NEW id \in Ids, NEW content \in Msgs \cup {Torn}
  PROVE  FilesOK(PutFile(fs, id, content))
BY DEF FilesOK, PutFile

\* Removing a file keeps the type of the file system.
LEMMA Unlinked ==
  ASSUME NEW fs, FilesOK(fs), NEW id
  PROVE  FilesOK(Unlink(fs, id))
BY DEF FilesOK, Unlink
-----------------------------------------------------------------------------
(* Type correctness. *)

\* What the return of a call leaves behind.
LEMMA Returned ==
  ASSUME TypeOK, NEW ok \in BOOLEAN, Reply(ok)
  PROVE  /\ pc' \in {"idle", "failed"} /\ op' \in Operation
         /\ promised' \subseteq Msgs
<1>1. op.kind = "store" => op.rec.msg \in Msgs
  BY DEF TypeOK, Operation, Record
<1>2. NoOp \in Operation
  BY DEF NoOp, Operation
<1> QED  BY <1>1, <1>2 DEF TypeOK, Reply

\* The types of every variable hold in every reachable state, and neither
\* copy of the index ever outgrows CONFIG_BBS_MAX_MESSAGES.
THEOREM TypeCorrect == Spec => []TypeOK
<1>1. Init => TypeOK
  <2> SUFFICES ASSUME Init PROVE TypeOK
    OBVIOUS
  <2>1. op \in Operation /\ posted \in Seq(Msgs) /\ next_id \in Ids
    BY DEF Init, NoOp, Operation, Ids
  <2>2. IndexOK(records) /\ IndexOK(index) /\ FilesOK(files)
    BY NoRecords, NoFiles DEF Init
  <2> QED  BY <2>1, <2>2 DEF Init, TypeOK
<1>2. TypeOK /\ [Next]_vars => TypeOK'
  <2> SUFFICES ASSUME TypeOK, [Next]_vars
               PROVE  TypeOK'
    OBVIOUS
  <2> USE DEF TypeOK
  <2>1. CASE MountFormat
    BY <2>1, NoRecords, NoFiles DEF MountFormat, ram
  <2>2. CASE MountFail
    BY <2>2 DEF MountFail, ram, flash, history
  <2>3. CASE LoadOpen
    BY <2>3, NoRecords DEF LoadOpen, ResetIndex, flash, history, Operation, Ids
  <2>4. CASE LoadMissing
    <3>1. disturbed' \in BOOLEAN
      BY <2>4, Zenon DEF LoadMissing
    <3> QED  BY <2>4, <3>1, NoRecords DEF LoadMissing, ResetIndex, flash, Operation, Ids
  <2>5. CASE LoadRecord
    <3>1. /\ index \in Seq(Record) /\ Len(records) + 1 \in 1 .. Len(index)
          /\ index[Len(records) + 1] \in Record
      BY <2>5 DEF LoadRecord, IndexOK
    <3>2. IndexOK(records')
      BY <2>5, <3>1, Appended DEF LoadRecord
    <3>3. next_id' \in Ids
      BY <2>5, <3>1 DEF LoadRecord, IdAfter, Record, Ids
    <3> QED  BY <2>5, <3>2, <3>3 DEF LoadRecord, flash, history
  <2>6. CASE LoadDone
    BY <2>6, Returned DEF LoadDone, ram, flash
  <2>7. CASE LoadCut
    BY <2>7, Returned DEF LoadCut, ram, flash
  <2>8. ASSUME NEW m \in Msgs, StoreOpen(m)
        PROVE  TypeOK'
    <3>1. [kind |-> "store", rec |-> [id |-> next_id, msg |-> m]] \in Operation
      BY DEF Operation, Record
    <3>2. FilesOK(files') /\ next_id' \in Ids /\ posted' \in Seq(Msgs)
      BY <2>8, Put DEF StoreOpen, Ids
    <3>3. op' \in Operation /\ (pc' \in {"body", "update"} => op'.kind = "store")
      BY <2>8, <3>1 DEF StoreOpen
    <3>4. disturbed' \in BOOLEAN /\ pc' \in {"body", "idle"}
      BY <2>8 DEF StoreOpen
    <3> QED  BY <2>8, <3>2, <3>3, <3>4 DEF StoreOpen
  <2>9. CASE BodyWrite
    <3>1. op.rec.id \in Ids /\ op.rec.msg \in Msgs
      BY <2>9 DEF BodyWrite, Operation, Record
    <3>2. FilesOK(files')
      BY <2>9, <3>1, Put DEF BodyWrite
    <3> QED  BY <2>9, <3>2 DEF BodyWrite, ram, history
  <2>10. CASE BodyShort
    BY <2>10, Returned DEF BodyShort, ram, flash
  <2>11. CASE BodyLost
    BY <2>11 DEF BodyLost, ram, flash
  <2>12. CASE Add
    <3>1. op.rec \in Record
      BY <2>12 DEF Add, Operation
    <3>2. IndexOK(records')
      BY <2>12, <3>1, Appended DEF Add
    <3> QED  BY <2>12, <3>2 DEF Add, flash, history
  <2>13. CASE Evict
    <3>1. op.rec \in Record
      BY <2>13 DEF Evict, Operation
    <3>2. PICK i \in DOMAIN records :
            /\ files' = Unlink(files, records[i].id)
            /\ records' = [records EXCEPT ![i] = op.rec]
            /\ promised' = promised \ {records[i].msg}
      BY <2>13 DEF Evict
    <3>3. /\ IndexOK([records EXCEPT ![i] = op.rec])
          /\ FilesOK(Unlink(files, records[i].id))
      BY <3>1, Replaced, Unlinked
    <3>4. promised' \subseteq Msgs
      BY <3>2
    <3>5. /\ pc' = "save_open"
          /\ UNCHANGED <<next_id, index, hasIndex, op, posted, truncated, disturbed>>
      BY <2>13 DEF Evict
    <3> QED  BY <3>2, <3>3, <3>4, <3>5
  <2>14. ASSUME NEW i \in DOMAIN records, Delete(i)
         PROVE  TypeOK'
    <3>1. IndexOK(records') /\ FilesOK(files')
      BY <2>14, Shifted, Unlinked DEF Delete
    <3> QED  BY <2>14, <3>1 DEF Delete, Operation
  <2>15. CASE SaveOpen
    BY <2>15, NoRecords DEF SaveOpen, ram
  <2>16. CASE SaveOpenFail
    BY <2>16, Returned DEF SaveOpenFail, ram, flash
  <2>17. CASE SaveWrite
    BY <2>17, Returned DEF SaveWrite, ram
  <2>18. CASE SaveShort
    <3>1. IndexOK(index')
      BY <2>18, Prefix DEF SaveShort
    <3> QED  BY <2>18, <3>1, Returned DEF SaveShort, ram
  <2>19. CASE Crash
    <3>1. disturbed' \in BOOLEAN
      BY <2>19, Zenon DEF Crash
    <3>2. op' \in Operation /\ promised' \subseteq Msgs
      BY <2>19 DEF Crash, NoOp, Operation
    <3>3. IndexOK(records') /\ next_id' \in Ids
      BY <2>19, NoRecords DEF Crash, Ids
    <3>4. pc' = "off" /\ truncated' \in BOOLEAN /\ UNCHANGED <<flash, posted>>
      BY <2>19 DEF Crash
    <3> QED  BY <3>1, <3>2, <3>3, <3>4 DEF flash
  <2>20. CASE UNCHANGED vars
    BY <2>20 DEF vars, ram, flash, history
  <2> QED
    BY <2>1, <2>2, <2>3, <2>4, <2>5, <2>6, <2>7, <2>8, <2>9, <2>10, <2>11,
       <2>12, <2>13, <2>14, <2>15, <2>16, <2>17, <2>18, <2>19, <2>20 DEF Next
<1> QED  BY <1>1, <1>2, PTL DEF Spec
-----------------------------------------------------------------------------
(* Bodies stay with their headers.  The reason is the order of ids: every  *)
(* record, in RAM and on flash, has an id below next_id, and the record    *)
(* being stored has one that no other has.                                 *)

Below(recs) == \A i \in DOMAIN recs : recs[i].id < next_id

NotIn(id, recs) == \A i \in DOMAIN recs : recs[i].id # id

\* The index on flash is behind the ids that have been given, except before
\* it is loaded and while an empty one is about to be saved over it.
IdsFresh ==
  /\ Below(records)
  /\ Running \/ pc = "save_write" => Below(index)
  /\ pc = "load" => /\ Len(records) <= Len(index)
                    /\ \A i \in DOMAIN records : records[i] = index[i]

\* The record being stored has an id, and a file, of its own.
StoringOwn ==
  pc \in {"body", "update"} =>
    /\ op.rec.id < next_id
    /\ NotIn(op.rec.id, records) /\ NotIn(op.rec.id, index)
    /\ OwnBody(op.rec, files)

\* Which call is in progress at which step.
CallOK ==
  /\ pc = "load" => op.kind = "load"
  /\ pc = "idle" => op.kind = "none"

BodyInv == NoForeignBody /\ IdsFresh /\ StoringOwn /\ CallOK

\* Writing the file of an id that recs does not use leaves its bodies alone.
LEMMA OwnAfterPut ==
  ASSUME NEW recs, NEW fs, NEW id, NEW content, AllOwn(recs, fs), NotIn(id, recs)
  PROVE  AllOwn(recs, PutFile(fs, id, content))
BY DEF AllOwn, OwnBody, NotIn, PutFile

\* A record whose file gets its own body, or part of one, has its own body.
LEMMA OwnPut ==
  ASSUME NEW rec, NEW fs, NEW content \in {rec.msg, Torn}
  PROVE  OwnBody(rec, PutFile(fs, rec.id, content))
BY DEF OwnBody, PutFile

\* Removing a file gives no record a body.
LEMMA OwnAfterUnlink ==
  ASSUME NEW recs, NEW fs, NEW id
  PROVE  /\ AllOwn(recs, fs) => AllOwn(recs, Unlink(fs, id))
         /\ \A rec : OwnBody(rec, fs) => OwnBody(rec, Unlink(fs, id))
BY DEF AllOwn, OwnBody, Unlink

\* An index without records has none with a foreign body.
LEMMA OwnNone == \A fs : AllOwn(<<>>, fs) /\ Below(<<>>)
BY DEF AllOwn, Below

\* Ids are numbers.
LEMMA IdOf ==
  ASSUME NEW recs, IndexOK(recs), NEW i \in DOMAIN recs
  PROVE  recs[i].id \in Nat
<1>1. recs[i] \in Record
  BY ElementOfSeq DEF IndexOK
<1> QED  BY <1>1 DEF Record, Ids

\* Giving an id keeps every id below the next.
LEMMA BelowNext ==
  ASSUME NEW recs, IndexOK(recs), next_id \in Ids, Below(recs)
  PROVE  /\ NotIn(next_id, recs)
         /\ \A i \in DOMAIN recs : recs[i].id < next_id + 1
<1>1. \A i \in DOMAIN recs : recs[i].id < next_id
  BY DEF Below
<1>2. \A i \in DOMAIN recs : recs[i].id \in Nat
  BY IdOf
<1> QED  BY <1>1, <1>2 DEF NotIn, Ids

\* The return of a call that is not a load leaves the store idle.
LEMMA ReturnedCall ==
  ASSUME NEW ok \in BOOLEAN, Reply(ok)
  PROVE  /\ pc' = "idle" => op'.kind = "none"
         /\ pc' \in {"idle", "failed"}
         /\ op.kind = "load" /\ ~ok => pc' = "failed"
BY DEF Reply, NoOp

\* Nothing is stored at first.
LEMMA BodyInvInit == Init => BodyInv
<1> SUFFICES ASSUME Init PROVE BodyInv
  OBVIOUS
<1>1. records = <<>> /\ index = <<>> /\ pc = "off"
  BY DEF Init
<1>2. AllOwn(records, files) /\ AllOwn(index, files) /\ Below(records) /\ Below(index)
  BY <1>1, OwnNone DEF AllOwn, Below
<1> QED
  BY <1>1, <1>2 DEF BodyInv, NoForeignBody, IdsFresh, StoringOwn, CallOK

\* Every step keeps the bodies with their headers, and the ids fresh.
LEMMA BodyInvNext ==
  ASSUME TypeOK, BodyInv, "read" \notin Faults, [Next]_vars
  PROVE  BodyInv'
<1> USE DEF BodyInv, NoForeignBody
<1>1. CASE MountFormat
  <2>1. records' = records /\ index' = <<>> /\ pc' = "off" /\ pc = "off" /\ op' = op
        /\ next_id' = next_id /\ DOMAIN files' = {}
    BY <1>1 DEF MountFormat, ram
  <2> QED  BY <2>1 DEF AllOwn, OwnBody, Below, IdsFresh, StoringOwn, CallOK, Running
<1>2. CASE MountFail
  BY <1>2 DEF MountFail, ram, flash, history, AllOwn, Below, IdsFresh, StoringOwn, CallOK, Running
<1>3. CASE LoadOpen
  <2>1. records' = <<>> /\ pc' = "load" /\ op'.kind = "load" /\ UNCHANGED flash
    BY <1>3 DEF LoadOpen, ResetIndex
  <2>2. Len(index) \in Nat /\ Len(records') = 0 /\ DOMAIN records' = {}
    BY <2>1, NoRecords DEF TypeOK, IndexOK
  <2> QED
    BY <2>1, <2>2 DEF flash, AllOwn, Below, IdsFresh, StoringOwn, CallOK, Running
<1>4. CASE LoadMissing
  <2>1. records' = <<>> /\ pc' = "save_open" /\ op'.kind = "load" /\ UNCHANGED flash
    BY <1>4 DEF LoadMissing, ResetIndex
  <2>2. DOMAIN records' = {}
    BY <2>1, NoRecords
  <2> QED
    BY <2>1, <2>2 DEF flash, AllOwn, Below, IdsFresh, StoringOwn, CallOK, Running
<1>5. CASE LoadRecord
  <2> DEFINE k == Len(records) + 1
  <2>1. /\ index \in Seq(Record) /\ k \in DOMAIN index /\ index[k] \in Record
        /\ Len(records) < MaxMessages /\ k <= Len(index) /\ pc' = "load" /\ pc = "load"
        /\ records' = Append(records, index[k])
        /\ next_id' = IdAfter(next_id, index[k])
        /\ UNCHANGED <<flash, op>>
    BY <1>5 DEF LoadRecord, TypeOK, IndexOK
  <2>2. next_id <= next_id' /\ index[k].id < next_id' /\ next_id' \in Nat
    BY <2>1 DEF TypeOK, IdAfter, Record, Ids
  <2>3. /\ Len(records') = k
        /\ \A i \in DOMAIN records' : records'[i] = index[i] /\
             ((i \in DOMAIN records /\ records'[i] = records[i]) \/ records'[i] = index[k])
    BY <2>1, Appended DEF TypeOK, IdsFresh
  <2>4. \A i \in DOMAIN records : records[i].id \in Nat
    BY IdOf DEF TypeOK
  <2>5. AllOwn(records', files') /\ Below(records)'
    <3>1. files' = files /\ OwnBody(index[k], files)
      BY <2>1 DEF flash, AllOwn
    <3>2. \A i \in DOMAIN records' : OwnBody(records'[i], files')
      BY <2>3, <3>1 DEF AllOwn
    <3>3. ASSUME NEW i \in DOMAIN records'
          PROVE  records'[i].id < next_id'
      BY <2>2, <2>3, <2>4 DEF IdsFresh, Below, TypeOK, Ids
    <3> QED  BY <3>2, <3>3 DEF AllOwn, Below
  <2> QED
    BY <2>1, <2>3, <2>5 DEF flash, IdsFresh, StoringOwn, CallOK, Running
<1>6. CASE LoadDone
  <2>1. /\ pc = "load" /\ Reply(TRUE) /\ UNCHANGED <<ram, flash>>
        /\ Len(records) = MaxMessages \/ Len(records) = Len(index)
    BY <1>6 DEF LoadDone
  <2>2. DOMAIN index = DOMAIN records
    BY <2>1, StoreAssumption DEF TypeOK, IndexOK, IdsFresh
  <2>3. Below(index)
    BY <2>1, <2>2 DEF IdsFresh, Below
  <2>4. pc' = "idle" /\ op'.kind = "none"
    BY <2>1, ReturnedCall DEF Reply
  <2> QED
    BY <2>1, <2>3, <2>4 DEF ram, flash, AllOwn, Below, IdsFresh, StoringOwn, CallOK
<1>7. CASE LoadCut
  BY <1>7 DEF LoadCut
<1>8. ASSUME NEW m \in Msgs, StoreOpen(m)
      PROVE  BodyInv'
  <2>1. pc = "idle" /\ op.kind = "none" /\ next_id' = next_id + 1
        /\ UNCHANGED <<records, index>>
    BY <1>8 DEF StoreOpen, CallOK
  <2>2. Running
    BY <2>1 DEF Running
  <2>3. /\ NotIn(next_id, records) /\ NotIn(next_id, index)
        /\ Below(records)' /\ Below(index)'
    BY <2>1, <2>2, BelowNext DEF TypeOK, IdsFresh, Below
  <2> DEFINE rec == [id |-> next_id, msg |-> m]
  <2>4. CASE files' = PutFile(files, next_id, Torn) /\ pc' = "body"
             /\ op' = [kind |-> "store", rec |-> rec]
    <3>1. AllOwn(records, files') /\ AllOwn(index, files')
      BY <2>3, <2>4, OwnAfterPut
    <3>2. OwnBody(rec, files')
      <4>1. OwnBody(rec, PutFile(files, rec.id, Torn))
        BY OwnPut
      <4> QED  BY <2>4, <4>1
    <3>3. op'.rec = rec /\ op'.kind = "store" /\ rec.id < next_id' /\ rec.id = next_id
      BY <2>1, <2>4 DEF TypeOK, Ids
    <3> QED
      BY <2>1, <2>3, <2>4, <3>1, <3>2, <3>3 DEF IdsFresh, StoringOwn, CallOK, NotIn, AllOwn
  <2>5. CASE UNCHANGED <<files, pc, op>>
    BY <2>1, <2>3, <2>5 DEF IdsFresh, StoringOwn, CallOK, AllOwn
  <2> QED  BY <1>8, <2>4, <2>5 DEF StoreOpen
<1>9. CASE BodyWrite
  <2>1. /\ pc = "body" /\ op.rec.id < next_id /\ OwnBody(op.rec, files)
        /\ NotIn(op.rec.id, records) /\ NotIn(op.rec.id, index) /\ op.kind = "store"
    BY <1>9 DEF BodyWrite, StoringOwn, TypeOK
  <2>2. /\ files' = PutFile(files, op.rec.id, op.rec.msg) /\ pc' = "update"
        /\ UNCHANGED <<records, index, next_id, op>>
    BY <1>9 DEF BodyWrite, ram
  <2>3. AllOwn(records, files') /\ AllOwn(index, files')
    BY <2>1, <2>2, OwnAfterPut
  <2>4. OwnBody(op.rec, files')
    BY <2>2, OwnPut
  <2> QED
    BY <2>1, <2>2, <2>3, <2>4
    DEF IdsFresh, StoringOwn, CallOK, Running, Below, AllOwn, NotIn, OwnBody
<1>10. CASE BodyShort
  <2>1. pc = "body" /\ op.kind = "store" /\ Reply(FALSE) /\ UNCHANGED <<ram, flash>>
    BY <1>10 DEF BodyShort, TypeOK
  <2>2. pc' = "idle" /\ op'.kind = "none"
    BY <2>1 DEF Reply, NoOp
  <2> QED
    BY <2>1, <2>2 DEF ram, flash, AllOwn, Below, IdsFresh, StoringOwn, CallOK, Running
<1>11. CASE BodyLost
  <2>1. pc = "body" /\ pc' = "update" /\ op.kind = "store" /\ UNCHANGED <<ram, flash, op>>
    BY <1>11 DEF BodyLost, TypeOK
  <2> QED
    BY <2>1
    DEF ram, flash, AllOwn, Below, IdsFresh, StoringOwn, CallOK, Running, NotIn, OwnBody
<1>12. CASE Add
  <2>1. /\ pc = "update" /\ op.kind = "store" /\ pc' = "save_open"
        /\ records' = Append(records, op.rec) /\ Len(records) < MaxMessages
        /\ UNCHANGED <<next_id, flash, op>> /\ op.rec \in Record
    BY <1>12 DEF Add, TypeOK, Operation
  <2>2. AllOwn(records', files) /\ Below(records')
    <3>1. \A i \in DOMAIN records' :
            (i \in DOMAIN records /\ records'[i] = records[i]) \/ records'[i] = op.rec
      BY <2>1, Appended DEF TypeOK
    <3>2. AllOwn(records', files) /\ \A i \in DOMAIN records' : records'[i].id < next_id
      BY <2>1, <3>1 DEF StoringOwn, IdsFresh, AllOwn, Below
    <3> QED  BY <2>1, <3>2 DEF Below
  <2> QED
    BY <2>1, <2>2 DEF flash, AllOwn, Below, IdsFresh, StoringOwn, CallOK, Running
<1>13. CASE Evict
  <2>1. PICK k \in DOMAIN records :
          /\ files' = Unlink(files, records[k].id)
          /\ records' = [records EXCEPT ![k] = op.rec]
    BY <1>13 DEF Evict
  <2>2. /\ pc = "update" /\ op.kind = "store" /\ pc' = "save_open"
        /\ UNCHANGED <<next_id, index, op>> /\ op.rec \in Record
    BY <1>13 DEF Evict, TypeOK, Operation
  <2>3. \A i \in DOMAIN records' :
          (i \in DOMAIN records /\ records'[i] = records[i]) \/ records'[i] = op.rec
    BY <2>1, <2>2, Replaced DEF TypeOK
  <2>4. AllOwn(records', files) /\ \A i \in DOMAIN records' : records'[i].id < next_id
    BY <2>2, <2>3 DEF StoringOwn, IdsFresh, AllOwn, Below
  <2>5. AllOwn(records', files') /\ AllOwn(index, files')
    BY <2>1, <2>4, OwnAfterUnlink
  <2> QED
    BY <2>2, <2>4, <2>5 DEF AllOwn, Below, IdsFresh, StoringOwn, CallOK, Running
<1>14. ASSUME NEW k \in DOMAIN records, Delete(k)
       PROVE  BodyInv'
  <2>1. /\ pc = "idle" /\ op.kind = "none" /\ pc' = "save_open" /\ op'.kind = "delete"
        /\ files' = Unlink(files, records[k].id) /\ records' = Without(records, k)
        /\ UNCHANGED <<next_id, index>>
    BY <1>14 DEF Delete, CallOK
  <2>2. \A i \in DOMAIN records' : \E j \in DOMAIN records : records'[i] = records[j]
    BY <2>1, Shifted DEF TypeOK
  <2>3. AllOwn(records', files) /\ \A i \in DOMAIN records' : records'[i].id < next_id
    BY <2>2 DEF IdsFresh, AllOwn, Below
  <2>4. AllOwn(records', files') /\ AllOwn(index, files')
    BY <2>1, <2>3, OwnAfterUnlink
  <2> QED
    BY <2>1, <2>3, <2>4 DEF AllOwn, Below, IdsFresh, StoringOwn, CallOK, Running
<1>15. CASE SaveOpen
  <2>1. /\ pc = "save_open" /\ pc' = "save_write" /\ index' = <<>>
        /\ UNCHANGED <<ram, files, op>> /\ DOMAIN index' = {}
    BY <1>15, NoRecords DEF SaveOpen
  <2> QED
    BY <2>1 DEF ram, AllOwn, Below, IdsFresh, StoringOwn, CallOK
<1>16. CASE SaveOpenFail
  <2>1. pc = "save_open" /\ Reply(FALSE) /\ UNCHANGED <<ram, flash>>
    BY <1>16 DEF SaveOpenFail
  <2>2. pc' \in {"idle", "failed"} /\ (pc' = "idle" => op'.kind = "none" /\ Running)
    BY <2>1 DEF Reply, NoOp, Running
  <2> QED
    BY <2>1, <2>2 DEF ram, flash, AllOwn, Below, IdsFresh, StoringOwn, CallOK, Running
<1>17. CASE SaveWrite
  <2>1. /\ index' = records /\ pc' = "idle" /\ op'.kind = "none"
        /\ UNCHANGED <<ram, files>>
    BY <1>17 DEF SaveWrite, Reply, NoOp
  <2> QED
    BY <2>1 DEF ram, AllOwn, Below, IdsFresh, StoringOwn, CallOK
<1>18. CASE SaveShort
  <2>1. PICK n \in 0 .. Len(records) : index' = SubSeq(records, 1, n)
    BY <1>18 DEF SaveShort
  <2>2. /\ pc' \in {"idle", "failed"} /\ (pc' = "idle" => op'.kind = "none")
        /\ UNCHANGED <<ram, files>>
    BY <1>18 DEF SaveShort, Reply, NoOp
  <2>3. \A i \in DOMAIN index' : i \in DOMAIN records /\ index'[i] = records[i]
    BY <2>1, Prefix DEF TypeOK
  <2>4. AllOwn(index', files) /\ \A i \in DOMAIN index' : index'[i].id < next_id
    BY <2>3 DEF IdsFresh, AllOwn, Below
  <2> QED
    BY <2>2, <2>4 DEF ram, AllOwn, Below, IdsFresh, StoringOwn, CallOK
<1>19. CASE Crash
  <2>1. /\ pc' = "off" /\ records' = <<>> /\ UNCHANGED flash /\ DOMAIN records' = {}
    BY <1>19, NoRecords DEF Crash
  <2> QED
    BY <2>1 DEF flash, AllOwn, Below, IdsFresh, StoringOwn, CallOK, Running
<1>20. CASE UNCHANGED vars
  BY <1>20
  DEF vars, ram, flash, history, AllOwn, Below, IdsFresh, StoringOwn, CallOK, Running,
      NotIn, OwnBody
<1> QED
  BY <1>1, <1>2, <1>3, <1>4, <1>5, <1>6, <1>7, <1>8, <1>9, <1>10, <1>11,
     <1>12, <1>13, <1>14, <1>15, <1>16, <1>17, <1>18, <1>19, <1>20 DEF Next

\* Unless fread() fails, no header is ever shown with the body of another
\* message, whatever else fails and whenever the power goes.
THEOREM BodiesOwn ==
  ASSUME "read" \notin Faults
  PROVE  Spec => []NoForeignBody
<1>1. TypeOK /\ BodyInv /\ [Next]_vars => BodyInv'
  BY BodyInvNext
<1>2. BodyInv => NoForeignBody
  BY DEF BodyInv
<1> QED  BY TypeCorrect, BodyInvInit, <1>1, <1>2, PTL DEF Spec
-----------------------------------------------------------------------------
(* The order of messages.  In both indexes the messages differ, and their  *)
(* ids are in the order of posting, under every fault: the ids of a list   *)
(* never go on below those that it has.                                    *)

Before(p, a, b) == \E i, j \in DOMAIN p : i < j /\ p[i] = a /\ p[j] = b

Ordered(recs, p) ==
  \A i, j \in DOMAIN recs : i # j =>
    /\ recs[i].msg # recs[j].msg /\ recs[i].id # recs[j].id
    /\ recs[i].id < recs[j].id => Before(p, recs[i].msg, recs[j].msg)

AllPosted(recs, p) == \A i \in DOMAIN recs : recs[i].msg \in ToSet(p)

\* A record whose id is above those of recs, and whose message is posted later.
Newer(rec, recs, p) ==
  \A i \in DOMAIN recs : /\ recs[i].id < rec.id /\ recs[i].msg # rec.msg
                         /\ Before(p, recs[i].msg, rec.msg)

OrderInv ==
  /\ Ordered(records, posted) /\ Ordered(index, posted)
  /\ AllPosted(records, posted) /\ AllPosted(index, posted)
  /\ Below(records)
  /\ pc \in {"body", "update"} =>
       /\ op.rec.id < next_id /\ Newer(op.rec, records, posted)
       /\ \A i \in DOMAIN index : index[i].msg # op.rec.msg
       /\ op.rec.msg \in ToSet(posted)
  /\ pc = "load" => /\ Len(records) <= Len(index)
                    /\ \A i \in DOMAIN records : records[i] = index[i]
  /\ op.kind = "load" /\ pc \in {"save_open", "save_write"} => records = <<>>
  /\ CallOK

\* The records have a place and a type.
LEMMA Listed ==
  ASSUME NEW recs, IndexOK(recs)
  PROVE  /\ recs \in Seq(Record) /\ Len(recs) \in Nat /\ Len(recs) <= MaxMessages
         /\ DOMAIN recs = 1 .. Len(recs)
         /\ \A i \in DOMAIN recs : /\ recs[i] \in Record
                                   /\ recs[i].id \in Nat /\ recs[i].msg \in Msgs
<1>1. recs \in Seq(Record) /\ Len(recs) <= MaxMessages
  BY DEF IndexOK
<1>2. Len(recs) \in Nat /\ DOMAIN recs = 1 .. Len(recs)
  <2> HIDE DEF Record
  <2> QED  BY <1>1, LenProperties
<1>3. \A i \in DOMAIN recs : recs[i] \in Record
  <2> HIDE DEF Record
  <2> QED  BY <1>1, <1>2, ElementOfSeq
<1> QED  BY <1>1, <1>2, <1>3 DEF Record, Ids

\* Who is posted now was posted after all before.
LEMMA PostedLater ==
  ASSUME NEW p \in Seq(Msgs), NEW m \in Msgs, NEW q, q = Append(p, m)
  PROVE  /\ ToSet(q) = ToSet(p) \cup {m}
         /\ \A a, b : Before(p, a, b) => Before(q, a, b)
         /\ \A a \in ToSet(p) : Before(q, a, m)
<1>1. PICK n \in Nat : n = Len(p) /\ DOMAIN p = 1 .. n
  BY LenProperties
<1>2. /\ q \in Seq(Msgs) /\ Len(q) = n + 1 /\ q[n + 1] = m
      /\ \A i \in 1 .. n : q[i] = p[i]
  BY <1>1, AppendProperties
<1>3. DOMAIN q = 1 .. n + 1
  BY <1>2, LenProperties
<1>4. \A i \in 1 .. n : i \in 1 .. n + 1 /\ i < n + 1
  OBVIOUS
<1>5. n + 1 \in 1 .. n + 1 /\ \A i \in 1 .. n + 1 : i = n + 1 \/ i \in 1 .. n
  OBVIOUS
<1>6. ToSet(q) = ToSet(p) \cup {m}
  BY <1>1, <1>2, <1>3, <1>4, <1>5 DEF ToSet
<1>7. \A a, b : Before(p, a, b) => Before(q, a, b)
  BY <1>1, <1>2, <1>3, <1>4 DEF Before
<1>8. \A a \in ToSet(p) : Before(q, a, m)
  BY <1>1, <1>2, <1>3, <1>4, <1>5 DEF Before, ToSet
<1> QED  BY <1>6, <1>7, <1>8

LEMMA OrderedLater ==
  ASSUME NEW p \in Seq(Msgs), NEW m \in Msgs, NEW q, q = Append(p, m), NEW recs,
         Ordered(recs, p), AllPosted(recs, p)
  PROVE  Ordered(recs, q) /\ AllPosted(recs, q)
<1>1. \A a, b : Before(p, a, b) => Before(q, a, b)
  BY PostedLater
<1>2. ToSet(q) = ToSet(p) \cup {m}
  BY PostedLater
<1>3. Ordered(recs, q)
  BY <1>1 DEF Ordered
<1> QED  BY <1>2, <1>3 DEF AllPosted

LEMMA OrderedNone == \A p : Ordered(<<>>, p) /\ AllPosted(<<>>, p)
BY DEF Ordered, AllPosted

LEMMA OrderedAppended ==
  ASSUME NEW recs, IndexOK(recs), Len(recs) < MaxMessages, NEW rec \in Record, NEW p,
         Ordered(recs, p), Newer(rec, recs, p)
  PROVE  Ordered(Append(recs, rec), p)
<1>1. PICK new : new = Append(recs, rec)
  OBVIOUS
<1>2. /\ IndexOK(new)
      /\ \A i \in DOMAIN new : \/ i \in DOMAIN recs /\ new[i] = recs[i]
                               \/ i = Len(recs) + 1 /\ new[i] = rec
  BY <1>1, Appended
<1>3. \A i \in DOMAIN recs : recs[i].id \in Nat
  BY Listed
<1>4. rec.id \in Nat
  BY DEF Record, Ids
<1>5. ASSUME NEW i \in DOMAIN new, NEW j \in DOMAIN new, i # j
      PROVE  /\ new[i].msg # new[j].msg /\ new[i].id # new[j].id
             /\ new[i].id < new[j].id => Before(p, new[i].msg, new[j].msg)
  BY <1>2, <1>3, <1>4, <1>5 DEF Ordered, Newer
<1> QED  BY <1>1, <1>5 DEF Ordered

LEMMA OrderedReplaced ==
  ASSUME NEW recs, IndexOK(recs), NEW k \in DOMAIN recs, NEW rec \in Record, NEW p,
         Ordered(recs, p), Newer(rec, recs, p)
  PROVE  Ordered([recs EXCEPT ![k] = rec], p)
<1>1. PICK new : new = [recs EXCEPT ![k] = rec]
  OBVIOUS
<1>2. DOMAIN new = DOMAIN recs /\ new[k] = rec /\ \A i \in DOMAIN recs \ {k} : new[i] = recs[i]
  BY <1>1, Listed
<1>3. \A i \in DOMAIN recs : recs[i].id \in Nat
  BY Listed
<1>4. rec.id \in Nat
  BY DEF Record, Ids
<1>5. ASSUME NEW i \in DOMAIN new, NEW j \in DOMAIN new, i # j
      PROVE  /\ new[i].msg # new[j].msg /\ new[i].id # new[j].id
             /\ new[i].id < new[j].id => Before(p, new[i].msg, new[j].msg)
  BY <1>2, <1>3, <1>4, <1>5 DEF Ordered, Newer
<1> QED  BY <1>1, <1>5 DEF Ordered

\* What Without does to places.
LEMMA Places ==
  ASSUME NEW recs, IndexOK(recs), NEW k \in DOMAIN recs
  PROVE  /\ \A i \in DOMAIN Without(recs, k) :
              /\ (IF i < k THEN i ELSE i + 1) \in DOMAIN recs \ {k}
              /\ Without(recs, k)[i] = recs[IF i < k THEN i ELSE i + 1]
         /\ \A j \in DOMAIN recs \ {k} :
              /\ (IF j < k THEN j ELSE j - 1) \in DOMAIN Without(recs, k)
              /\ Without(recs, k)[IF j < k THEN j ELSE j - 1] = recs[j]
<1>1. PICK n \in Nat : n = Len(recs) /\ DOMAIN recs = 1 .. n
  BY Listed
<1>2. Without(recs, k) = [j \in 1 .. n - 1 |-> IF j < k THEN recs[j] ELSE recs[j + 1]]
  BY <1>1 DEF Without
<1>3. DOMAIN Without(recs, k) = 1 .. n - 1
  BY <1>2
<1>4. ASSUME NEW i \in 1 .. n - 1
      PROVE  /\ (IF i < k THEN i ELSE i + 1) \in 1 .. n /\ (IF i < k THEN i ELSE i + 1) # k
             /\ Without(recs, k)[i] = recs[IF i < k THEN i ELSE i + 1]
  BY <1>1, <1>2
<1>5. ASSUME NEW j \in 1 .. n, j # k
      PROVE  /\ (IF j < k THEN j ELSE j - 1) \in 1 .. n - 1
             /\ Without(recs, k)[IF j < k THEN j ELSE j - 1] = recs[j]
  <2>1. CASE j < k
    BY <1>1, <1>2, <2>1
  <2>2. CASE ~(j < k)
    <3>1. j - 1 \in 1 .. n - 1 /\ ~(j - 1 < k) /\ (j - 1) + 1 = j
      BY <1>1, <1>5, <2>2
    <3> QED  BY <1>2, <2>2, <3>1
  <2> QED  BY <2>1, <2>2
<1> QED  BY <1>1, <1>3, <1>4, <1>5

LEMMA OrderedShifted ==
  ASSUME NEW recs, IndexOK(recs), NEW k \in DOMAIN recs, NEW p, Ordered(recs, p)
  PROVE  Ordered(Without(recs, k), p)
<1>1. PICK new : new = Without(recs, k)
  OBVIOUS
<1>2. ASSUME NEW i \in DOMAIN new, NEW j \in DOMAIN new, i # j
      PROVE  /\ new[i].msg # new[j].msg /\ new[i].id # new[j].id
             /\ new[i].id < new[j].id => Before(p, new[i].msg, new[j].msg)
  <2>1. PICK a \in DOMAIN recs, b \in DOMAIN recs :
          /\ a = (IF i < k THEN i ELSE i + 1) /\ new[i] = recs[a]
          /\ b = (IF j < k THEN j ELSE j + 1) /\ new[j] = recs[b]
    BY <1>1, Places
  <2>2. i \in Int /\ j \in Int /\ k \in Int
    <3>1. new = [l \in 1 .. Len(recs) - 1 |-> IF l < k THEN recs[l] ELSE recs[l + 1]]
      BY <1>1 DEF Without
    <3>2. DOMAIN new = 1 .. Len(recs) - 1 /\ Len(recs) \in Nat
      BY <3>1, Listed
    <3> QED  BY <3>2, Listed
  <2>3. a # b
    BY <1>2, <2>1, <2>2
  <2> QED  BY <2>1, <2>3 DEF Ordered
<1> QED  BY <1>1, <1>2 DEF Ordered

LEMMA OrderedPrefix ==
  ASSUME NEW recs, NEW new, NEW p, Ordered(recs, p), AllPosted(recs, p),
         \A i \in DOMAIN new : i \in DOMAIN recs /\ new[i] = recs[i]
  PROVE  Ordered(new, p) /\ AllPosted(new, p)
BY DEF Ordered, AllPosted

\* A slot each: as many messages as records.
LEMMA Counted ==
  ASSUME NEW recs, IndexOK(recs), NEW p, Ordered(recs, p)
  PROVE  Cardinality(MsgsOf(recs)) = Len(recs)
<1>1. PICK n \in Nat : n = Len(recs) /\ DOMAIN recs = 1 .. n
  BY Listed
<1> DEFINE F == [i \in 1 .. n |-> recs[i].msg]
<1>2. F \in [1 .. n -> MsgsOf(recs)] /\ \A a, b \in 1 .. n : F[a] = F[b] => a = b
  BY <1>1 DEF Ordered, MsgsOf
<1>3. \A t \in MsgsOf(recs) : \E s \in 1 .. n : F[s] = t
  BY <1>1 DEF MsgsOf
<1> HIDE DEF F
<1>4. F \in Bijection(1 .. n, MsgsOf(recs))
  BY <1>2, <1>3, Fun_IsBij
<1>5. ExistsBijection(1 .. n, MsgsOf(recs))
  BY <1>4, Fun_ExistsBij
<1> QED  BY <1>1, <1>5, FS_CountingElements

\* The messages and the ids of the records after each change.
LEMMA MsgsAppended ==
  ASSUME NEW recs, IndexOK(recs), Len(recs) < MaxMessages, NEW rec \in Record
  PROVE  /\ MsgsOf(Append(recs, rec)) = MsgsOf(recs) \cup {rec.msg}
         /\ IdsOf(Append(recs, rec)) = IdsOf(recs) \cup {rec.id}
<1>1. PICK n \in Nat : n = Len(recs) /\ DOMAIN recs = 1 .. n /\ recs \in Seq(Record)
  BY Listed
<1>2. PICK new \in Seq(Record) : /\ new = Append(recs, rec) /\ Len(new) = n + 1
                                 /\ new[n + 1] = rec /\ \A i \in 1 .. n : new[i] = recs[i]
  <2> HIDE DEF Record
  <2>1. /\ Append(recs, rec) \in Seq(Record) /\ Len(Append(recs, rec)) = Len(recs) + 1
        /\ \A i \in 1 .. Len(recs) : Append(recs, rec)[i] = recs[i]
        /\ Append(recs, rec)[Len(recs) + 1] = rec
    BY <1>1, AppendProperties
  <2> QED  BY <1>1, <2>1
<1>3. DOMAIN new = 1 .. n + 1
  <2> HIDE DEF Record
  <2> QED  BY <1>2, LenProperties
<1>4. \A i \in 1 .. n + 1 : i = n + 1 \/ i \in 1 .. n
  OBVIOUS
<1>5. n + 1 \in 1 .. n + 1 /\ \A i \in 1 .. n : i \in 1 .. n + 1
  OBVIOUS
<1>6. MsgsOf(new) = MsgsOf(recs) \cup {rec.msg}
  BY <1>1, <1>2, <1>3, <1>4, <1>5 DEF MsgsOf
<1>7. IdsOf(new) = IdsOf(recs) \cup {rec.id}
  BY <1>1, <1>2, <1>3, <1>4, <1>5 DEF IdsOf
<1> QED  BY <1>2, <1>6, <1>7

LEMMA MsgsReplaced ==
  ASSUME NEW recs, IndexOK(recs), NEW k \in DOMAIN recs, NEW rec, NEW p, Ordered(recs, p)
  PROVE  /\ MsgsOf([recs EXCEPT ![k] = rec]) = (MsgsOf(recs) \ {recs[k].msg}) \cup {rec.msg}
         /\ IdsOf([recs EXCEPT ![k] = rec]) = (IdsOf(recs) \ {recs[k].id}) \cup {rec.id}
<1>1. PICK new : new = [recs EXCEPT ![k] = rec]
  OBVIOUS
<1>2. DOMAIN new = DOMAIN recs /\ new[k] = rec /\ \A i \in DOMAIN recs \ {k} : new[i] = recs[i]
  BY <1>1, Listed
<1>3. \A i \in DOMAIN recs \ {k} : recs[i].msg # recs[k].msg /\ recs[i].id # recs[k].id
  BY DEF Ordered
<1>4. MsgsOf(new) = (MsgsOf(recs) \ {recs[k].msg}) \cup {rec.msg}
  BY <1>2, <1>3 DEF MsgsOf
<1>5. IdsOf(new) = (IdsOf(recs) \ {recs[k].id}) \cup {rec.id}
  BY <1>2, <1>3 DEF IdsOf
<1> QED  BY <1>1, <1>4, <1>5

LEMMA MsgsShifted ==
  ASSUME NEW recs, IndexOK(recs), NEW k \in DOMAIN recs, NEW p, Ordered(recs, p)
  PROVE  /\ MsgsOf(Without(recs, k)) = MsgsOf(recs) \ {recs[k].msg}
         /\ IdsOf(Without(recs, k)) = IdsOf(recs) \ {recs[k].id}
<1>1. PICK new : new = Without(recs, k)
  OBVIOUS
<1>2. \A i \in DOMAIN new : \E j \in DOMAIN recs \ {k} : new[i] = recs[j]
  BY <1>1, Places
<1>3. \A j \in DOMAIN recs \ {k} : \E i \in DOMAIN new : new[i] = recs[j]
  BY <1>1, Places
<1>4. \A i \in DOMAIN recs \ {k} : recs[i].msg # recs[k].msg /\ recs[i].id # recs[k].id
  BY DEF Ordered
<1>5. MsgsOf(new) = MsgsOf(recs) \ {recs[k].msg}
  BY <1>2, <1>3, <1>4 DEF MsgsOf
<1>6. IdsOf(new) = IdsOf(recs) \ {recs[k].id}
  BY <1>2, <1>3, <1>4 DEF IdsOf
<1> QED  BY <1>1, <1>5, <1>6
-----------------------------------------------------------------------------
\* What the return of a call changes, of what the order depends on.
LEMMA ReturnOrdered ==
  ASSUME TypeOK, OrderInv, NEW ok \in BOOLEAN, Reply(ok), records' = records,
         next_id' = next_id, posted' = posted, pc # "idle",
         Ordered(index', posted), AllPosted(index', posted)
  PROVE  OrderInv'
<1>1. pc' \in {"idle", "failed"} /\ op'.kind = "none"
  BY DEF Reply, NoOp
<1> QED  BY <1>1 DEF OrderInv, Below, CallOK

LEMMA OrderInvInit == Init => OrderInv
<1> SUFFICES ASSUME Init PROVE OrderInv
  OBVIOUS
<1>1. records = <<>> /\ index = <<>> /\ pc = "off" /\ op = NoOp
  BY DEF Init
<1>2. Below(<<>>)
  BY DEF Below
<1> QED  BY <1>1, <1>2, OrderedNone DEF OrderInv, CallOK

LEMMA OrderInvNext == ASSUME TypeOK, OrderInv, [Next]_vars PROVE OrderInv'
<1>t. IndexOK(records) /\ IndexOK(index) /\ posted \in Seq(Msgs) /\ next_id \in Ids
  BY DEF TypeOK
<1>o. Ordered(records, posted) /\ Ordered(index, posted)
      /\ AllPosted(records, posted) /\ AllPosted(index, posted) /\ Below(records)
  BY DEF OrderInv
<1>1. CASE MountFormat
  <2>1. records' = records /\ index' = <<>> /\ pc' = "off" /\ op' = op /\ posted' = posted
        /\ next_id' = next_id
    BY <1>1 DEF MountFormat, ram
  <2> QED  BY <1>o, <2>1, OrderedNone DEF OrderInv, Below, CallOK
<1>2. CASE MountFail
  BY <1>2 DEF MountFail, ram, flash, history, OrderInv, Below, CallOK
<1>3. CASE LoadOpen
  <2>1. records' = <<>> /\ pc' = "load" /\ op'.kind = "load" /\ index' = index /\ posted' = posted
    BY <1>3 DEF LoadOpen, ResetIndex, flash, history
  <2>2. Len(index) \in Nat /\ Len(<<>>) = 0 /\ DOMAIN <<>> = {}
    BY <1>t, Listed, NoRecords
  <2> QED  BY <1>o, <2>1, <2>2, OrderedNone DEF OrderInv, Below, CallOK
<1>4. CASE LoadMissing
  <2>1. records' = <<>> /\ pc' = "save_open" /\ op'.kind = "load" /\ index' = index
        /\ posted' = posted
    BY <1>4 DEF LoadMissing, ResetIndex, flash
  <2> QED  BY <1>o, <2>1, OrderedNone DEF OrderInv, Below, CallOK
<1>5. CASE LoadRecord
  <2>1. /\ pc = "load" /\ pc' = "load" /\ op' = op /\ index' = index /\ posted' = posted
        /\ Len(records) < MaxMessages /\ Len(records) < Len(index)
    BY <1>5 DEF LoadRecord, flash, history
  <2>2. PICK n \in Nat : n = Len(records) /\ DOMAIN records = 1 .. n
    BY <1>t, Listed
  <2>3. PICK rec \in Record : rec = index[n + 1] /\ n + 1 \in DOMAIN index /\ n + 1 <= Len(index)
    BY <1>t, <2>1, <2>2, Listed
  <2>4. records' = Append(records, rec) /\ next_id' = IdAfter(next_id, rec)
    BY <1>5, <2>2, <2>3 DEF LoadRecord
  <2>5. /\ Len(records') = n + 1
        /\ \A i \in DOMAIN records' : \/ i \in DOMAIN records /\ records'[i] = records[i]
                                      \/ i = n + 1 /\ records'[i] = rec
    BY <1>t, <2>1, <2>2, <2>4, Appended
  <2>6. \A i \in DOMAIN records' : i \in DOMAIN index /\ records'[i] = index[i]
    <3>1. \A i \in 1 .. n : i \in DOMAIN index /\ records[i] = index[i]
      <4>1. PICK l \in Nat : l = Len(index) /\ DOMAIN index = 1 .. l
        BY <1>t, Listed
      <4>2. \A i \in 1 .. n : i \in 1 .. l
        BY <2>1, <2>2, <4>1
      <4> QED  BY <2>1, <2>2, <4>1, <4>2 DEF OrderInv
    <3> QED  BY <2>2, <2>3, <2>5, <3>1
  <2>7. Ordered(records', posted) /\ AllPosted(records', posted)
    BY <1>o, <2>6, OrderedPrefix
  <2>8. \A i \in DOMAIN records' : records'[i].id < next_id'
    <3>1. next_id <= next_id' /\ rec.id < next_id' /\ next_id \in Nat /\ next_id' \in Nat
      BY <1>t, <2>4 DEF IdAfter, Record, Ids
    <3>2. \A i \in DOMAIN records : records[i].id < next_id /\ records[i].id \in Nat
      BY <1>t, <1>o, Listed DEF Below
    <3> QED  BY <2>5, <3>1, <3>2
  <2>9. Len(records') <= Len(index)
    BY <2>3, <2>5
  <2> QED  BY <1>o, <2>1, <2>6, <2>7, <2>8, <2>9 DEF OrderInv, Below, CallOK
<1>6. CASE LoadDone \/ LoadCut
  <2>1. /\ pc = "load" /\ Reply(TRUE) /\ records' = records /\ next_id' = next_id
        /\ index' = index /\ posted' = posted
    BY <1>6 DEF LoadDone, LoadCut, ram, flash
  <2> QED  BY <1>o, <2>1, ReturnOrdered
<1>7. ASSUME NEW m \in Msgs, StoreOpen(m) PROVE OrderInv'
  <2>1. /\ pc = "idle" /\ m \notin ToSet(posted) /\ posted' = Append(posted, m)
        /\ next_id' = next_id + 1 /\ records' = records /\ index' = index
    BY <1>7 DEF StoreOpen
  <2>2. Ordered(records, posted') /\ AllPosted(records, posted')
    BY <1>t, <1>o, <2>1, OrderedLater
  <2>3. Ordered(index, posted') /\ AllPosted(index, posted')
    BY <1>t, <1>o, <2>1, OrderedLater
  <2>4. \A i \in DOMAIN records : records[i].id < next_id /\ records[i].id < next_id + 1
    BY <1>t, <1>o, Listed DEF Below, Ids
  <2>5. m \in ToSet(posted') /\ \A a \in ToSet(posted) : Before(posted', a, m)
    <3>1. PICK q : q = posted' /\ q = Append(posted, m)
      BY <2>1
    <3>2. ToSet(q) = ToSet(posted) \cup {m}
      BY <1>t, <3>1, PostedLater
    <3>3. \A a \in ToSet(posted) : Before(q, a, m)
      BY <1>t, <3>1, PostedLater
    <3> QED  BY <3>1, <3>2, <3>3
  <2>6. CASE pc' = "body" /\ op' = [kind |-> "store", rec |-> [id |-> next_id, msg |-> m]]
    <3>1. op'.rec.id = next_id /\ op'.rec.msg = m /\ op'.kind = "store" /\ next_id < next_id'
      BY <1>t, <2>1, <2>6 DEF Ids
    <3>2. Newer(op'.rec, records, posted')
      BY <1>o, <2>1, <2>4, <2>5, <3>1 DEF Newer, AllPosted
    <3>3. \A i \in DOMAIN index : index[i].msg # m
      BY <1>o, <2>1 DEF AllPosted
    <3> QED  BY <2>1, <2>2, <2>3, <2>4, <2>5, <2>6, <3>1, <3>2, <3>3 DEF OrderInv, Below, CallOK
  <2>7. CASE pc' = pc /\ op' = op
    BY <2>1, <2>2, <2>3, <2>4, <2>7 DEF OrderInv, Below, CallOK
  <2> QED  BY <1>7, <2>6, <2>7 DEF StoreOpen
<1>8. CASE BodyWrite \/ BodyLost
  <2>1. /\ pc = "body" /\ pc' = "update" /\ op' = op /\ records' = records /\ index' = index
        /\ next_id' = next_id /\ posted' = posted /\ op.kind = "store"
    BY <1>8 DEF BodyWrite, BodyLost, ram, flash, history, TypeOK
  <2> QED  BY <2>1 DEF OrderInv, Below, CallOK
<1>9. CASE BodyShort
  <2>1. /\ pc = "body" /\ Reply(FALSE) /\ records' = records /\ next_id' = next_id
        /\ index' = index /\ posted' = posted
    BY <1>9 DEF BodyShort, ram, flash
  <2> QED  BY <1>o, <2>1, ReturnOrdered
<1>10. CASE Add
  <2>1. /\ pc = "update" /\ op.kind = "store" /\ pc' = "save_open" /\ op' = op
        /\ records' = Append(records, op.rec) /\ Len(records) < MaxMessages
        /\ index' = index /\ next_id' = next_id /\ posted' = posted /\ op.rec \in Record
    BY <1>10 DEF Add, flash, history, TypeOK, Operation
  <2>2. Newer(op.rec, records, posted) /\ op.rec.id < next_id /\ op.rec.msg \in ToSet(posted)
    BY <2>1 DEF OrderInv
  <2>3. Ordered(records', posted)
    BY <1>t, <1>o, <2>1, <2>2, OrderedAppended
  <2>4. \A i \in DOMAIN records' :
          (i \in DOMAIN records /\ records'[i] = records[i]) \/ records'[i] = op.rec
    BY <1>t, <2>1, Appended
  <2>5. Below(records)' /\ AllPosted(records', posted)
    BY <1>o, <2>1, <2>2, <2>4 DEF Below, AllPosted
  <2> QED  BY <1>o, <2>1, <2>3, <2>5 DEF OrderInv, CallOK
<1>11. CASE Evict
  <2>1. PICK k \in DOMAIN records : records' = [records EXCEPT ![k] = op.rec]
    BY <1>11 DEF Evict
  <2>2. /\ pc = "update" /\ op.kind = "store" /\ pc' = "save_open" /\ op' = op
        /\ index' = index /\ next_id' = next_id /\ posted' = posted /\ op.rec \in Record
    BY <1>11 DEF Evict, TypeOK, Operation
  <2>3. Newer(op.rec, records, posted) /\ op.rec.id < next_id /\ op.rec.msg \in ToSet(posted)
    BY <2>2 DEF OrderInv
  <2>4. Ordered(records', posted)
    BY <1>t, <1>o, <2>1, <2>2, <2>3, OrderedReplaced
  <2>5. \A i \in DOMAIN records' :
          (i \in DOMAIN records /\ records'[i] = records[i]) \/ records'[i] = op.rec
    BY <1>t, <2>1, <2>2, Replaced
  <2>6. Below(records)' /\ AllPosted(records', posted)
    BY <1>o, <2>2, <2>3, <2>5 DEF Below, AllPosted
  <2> QED  BY <1>o, <2>2, <2>4, <2>6 DEF OrderInv, CallOK
<1>12. ASSUME NEW k \in DOMAIN records, Delete(k) PROVE OrderInv'
  <2>1. /\ pc = "idle" /\ pc' = "save_open" /\ op'.kind = "delete" /\ index' = index
        /\ records' = Without(records, k) /\ next_id' = next_id /\ posted' = posted
    BY <1>12 DEF Delete
  <2>2. Ordered(records', posted)
    BY <1>t, <1>o, <2>1, OrderedShifted
  <2>3. \A i \in DOMAIN records' : \E j \in DOMAIN records : records'[i] = records[j]
    BY <1>t, <2>1, Shifted
  <2>4. Below(records)' /\ AllPosted(records', posted)
    BY <1>o, <2>1, <2>3 DEF Below, AllPosted
  <2> QED  BY <1>o, <2>1, <2>2, <2>4 DEF OrderInv, CallOK
<1>13. CASE SaveOpen
  <2>1. /\ pc = "save_open" /\ pc' = "save_write" /\ index' = <<>> /\ op' = op
        /\ records' = records /\ next_id' = next_id /\ posted' = posted
    BY <1>13 DEF SaveOpen, ram
  <2> QED  BY <1>o, <2>1, OrderedNone DEF OrderInv, Below, CallOK
<1>14. CASE SaveOpenFail
  <2>1. /\ pc = "save_open" /\ Reply(FALSE) /\ records' = records /\ next_id' = next_id
        /\ index' = index /\ posted' = posted
    BY <1>14 DEF SaveOpenFail, ram, flash
  <2> QED  BY <1>o, <2>1, ReturnOrdered
<1>15. CASE SaveWrite
  <2>1. /\ pc = "save_write" /\ Reply(TRUE) /\ records' = records /\ next_id' = next_id
        /\ index' = records /\ posted' = posted
    BY <1>15 DEF SaveWrite, ram
  <2> QED  BY <1>o, <2>1, ReturnOrdered
<1>16. CASE SaveShort
  <2>1. PICK n \in 0 .. Len(records) : index' = SubSeq(records, 1, n)
    BY <1>16 DEF SaveShort
  <2>2. /\ pc = "save_write" /\ (Reply(TRUE) \/ Reply(FALSE))
        /\ records' = records /\ next_id' = next_id /\ posted' = posted
    BY <1>16 DEF SaveShort, ram
  <2>3. Ordered(index', posted) /\ AllPosted(index', posted)
    <3>1. \A i \in DOMAIN index' : i \in DOMAIN records /\ index'[i] = records[i]
      BY <1>t, <2>1, Prefix
    <3> QED  BY <1>o, <3>1, OrderedPrefix
  <2> QED  BY <2>2, <2>3, ReturnOrdered
<1>17. CASE Crash
  <2>1. pc' = "off" /\ records' = <<>> /\ index' = index /\ posted' = posted /\ op' = NoOp
    BY <1>17 DEF Crash, flash
  <2> QED  BY <1>o, <2>1, OrderedNone DEF OrderInv, Below, CallOK
<1>18. CASE UNCHANGED vars
  <2>1. /\ records' = records /\ index' = index /\ posted' = posted /\ next_id' = next_id
        /\ pc' = pc /\ op' = op
    BY <1>18 DEF vars, ram, flash, history
  <2> QED  BY <2>1 DEF OrderInv, Below, CallOK
<1> QED
  BY <1>1, <1>2, <1>3, <1>4, <1>5, <1>6, <1>7, <1>8, <1>9, <1>10, <1>11, <1>12,
     <1>13, <1>14, <1>15, <1>16, <1>17, <1>18 DEF Next

LEMMA AlwaysOrdered == Spec => [](TypeOK /\ OrderInv)
<1>1. TypeOK /\ OrderInv /\ [Next]_vars => OrderInv'
  BY OrderInvNext
<1> QED  BY TypeCorrect, OrderInvInit, <1>1, PTL DEF Spec

\* What a full store gives up was posted before everything it keeps, whatever
\* has failed and however often ids have been given again.
THEOREM OldestGoes == Spec => EvictsOldest
<1> DEFINE Goes == pc = "update" =>
                     \A a \in MsgsOf(records) \ MsgsOf(records'), b \in MsgsOf(records') :
                       PostedBefore(a, b)
<1>1. TypeOK /\ OrderInv /\ [Next]_vars => [Goes]_vars
  <2> SUFFICES ASSUME TypeOK, OrderInv, Next, pc = "update",
                      NEW a \in MsgsOf(records) \ MsgsOf(records'), NEW b \in MsgsOf(records')
               PROVE  PostedBefore(a, b)
    OBVIOUS
  <2>1. IndexOK(records) /\ Ordered(records, posted) /\ Newer(op.rec, records, posted)
        /\ op.rec \in Record
    BY DEF TypeOK, OrderInv, Operation
  <2>2. CASE Evict
    <3>1. PICK k \in DOMAIN records :
            Oldest(records, k) /\ records' = [records EXCEPT ![k] = op.rec]
      BY <2>2 DEF Evict
    <3>2. MsgsOf(records') = (MsgsOf(records) \ {records[k].msg}) \cup {op.rec.msg}
      <4>1. PICK rec \in Record : rec = op.rec
        BY <2>1
      <4>2. MsgsOf([records EXCEPT ![k] = rec]) = (MsgsOf(records) \ {records[k].msg}) \cup {rec.msg}
        BY <2>1, MsgsReplaced
      <4> QED  BY <3>1, <4>1, <4>2
    <3>3. a = records[k].msg
      BY <3>2
    <3>4. CASE b = op.rec.msg
      BY <2>1, <3>3, <3>4 DEF Newer, Before, PostedBefore
    <3>5. CASE b # op.rec.msg
      <4>1. PICK j \in DOMAIN records : b = records[j].msg /\ j # k
        BY <3>2, <3>5 DEF MsgsOf
      <4>2. records[k].id < records[j].id
        <5>1. records[k].id <= records[j].id /\ records[k].id # records[j].id
          BY <2>1, <3>1, <4>1 DEF Oldest, Ordered
        <5>2. records[k].id \in Nat /\ records[j].id \in Nat
          BY <2>1, Listed
        <5> QED  BY <5>1, <5>2
      <4>3. Before(posted, a, b)
        BY <2>1, <3>3, <4>1, <4>2 DEF Ordered
      <4> QED  BY <4>3 DEF Before, PostedBefore
    <3> QED  BY <3>4, <3>5
  <2>3. CASE Add
    <3>1. MsgsOf(records') = MsgsOf(records) \cup {op.rec.msg}
      BY <2>1, <2>3, MsgsAppended DEF Add
    <3> QED  BY <3>1
  <2>4. CASE Crash
    <3>1. records' = <<>> /\ MsgsOf(<<>>) = {}
      BY <2>4, NoRecords DEF Crash, MsgsOf
    <3> QED  BY <3>1
  <2> QED
    BY <2>2, <2>3, <2>4
    DEF Next, MountFormat, MountFail, LoadOpen, LoadMissing, LoadRecord, LoadDone, LoadCut,
        StoreOpen, BodyWrite, BodyShort, BodyLost, Delete, SaveOpen, SaveOpenFail, SaveWrite,
        SaveShort
<1> QED  BY <1>1, AlwaysOrdered, PTL DEF Spec, EvictsOldest
-----------------------------------------------------------------------------
(* The refinement. *)

\* What the board is, and the steps it can take.
Shown == IF Running THEN MsgsOf(records) ELSE MsgsOf(index)
Undead == IF Running THEN MsgsOf(index) \ MsgsOf(records) ELSE {}

\* The board counts as the store does.
LEMMA BoardCounts == \A S : Board!Cardinality(S) = Cardinality(S)
BY DEF Cardinality, Board!Cardinality

LEMMA BoardPosts ==
  ASSUME Running, Running',
         NEW m \in Msgs, m \notin Shown \cup Undead, Cardinality(Shown) < MaxMessages,
         Shown' = Shown \cup {m}, Undead' = Undead
  PROVE  Board!Next
<1>1. Board!Post(m)
  BY BoardCounts DEF Shown, Undead, Board!Post
<1> QED  BY <1>1 DEF Board!Next

LEMMA BoardReplaces ==
  ASSUME Running, Running',
         NEW v \in Msgs, NEW m \in Msgs, v \in Shown, m \notin Shown \cup Undead,
         Cardinality(Shown) = MaxMessages, Shown' = (Shown \ {v}) \cup {m},
         Undead' \in {Undead, Undead \cup {v}}
  PROVE  Board!Next
<1>1. Board!Replace(v, m)
  BY BoardCounts DEF Shown, Undead, Board!Replace
<1> QED  BY <1>1 DEF Board!Next

LEMMA BoardKills ==
  ASSUME Running, Running',
         NEW v \in Msgs, v \in Shown, Shown' = Shown \ {v},
         Undead' \in {Undead, Undead \cup {v}}
  PROVE  Board!Next
<1>1. Board!Kill(v)
  BY DEF Shown, Undead, Board!Kill
<1> QED  BY <1>1 DEF Board!Next

LEMMA BoardSettles ==
  ASSUME Running, Running', Shown' = Shown, Undead' \subseteq Undead PROVE Board!Next
<1>1. Board!Settle
  BY DEF Shown, Undead, Board!Settle
<1> QED  BY <1>1 DEF Board!Next

LEMMA BoardCrashes ==
  ASSUME Running, ~Running', Shown' \subseteq Shown \cup Undead, Undead' = {}
  PROVE  Board!Next
<1>1. Board!Crash
  BY DEF Shown, Undead, Board!Crash
<1> QED  BY <1>1 DEF Board!Next

LEMMA BoardLoses ==
  ASSUME ~Running, ~Running', Shown' \subseteq Shown, Undead' = Undead PROVE Board!Next
<1>r. Running' = Running
  BY DEF Running
<1>1. Board!Lose
  BY <1>r DEF Shown, Undead, Board!Lose
<1> QED  BY <1>1 DEF Board!Next

LEMMA BoardRestarts ==
  ASSUME ~Running, Running', Shown' \subseteq Shown, Undead' \subseteq Shown \ Shown'
  PROVE  Board!Next
<1>1. Board!Restart
  BY DEF Shown, Undead, Board!Restart
<1> QED  BY <1>1 DEF Board!Next

LEMMA BoardStays ==
  ASSUME Running' <=> Running, Shown' = Shown, Undead' = Undead PROVE UNCHANGED Board!vars
<1>1. Running' = Running
  BY DEF Running
<1> QED  BY <1>1 DEF Shown, Undead, Board!vars

\* A step that changes neither index, nor whether the store runs.
LEMMA IndexesStay ==
  ASSUME records' = records, index' = index, Running' = Running PROVE UNCHANGED Board!vars
<1>1. Shown' = Shown /\ Undead' = Undead
  BY DEF Shown, Undead, MsgsOf
<1> QED  BY <1>1, BoardStays

\* The board before and after a step, of a store that runs or does not.
LEMMA BoardOf ==
  /\ Running => Shown = MsgsOf(records) /\ Undead = MsgsOf(index) \ MsgsOf(records)
  /\ ~Running => Shown = MsgsOf(index) /\ Undead = {}
  /\ Running' => Shown' = MsgsOf(records') /\ Undead' = MsgsOf(index') \ MsgsOf(records')
  /\ ~Running' => Shown' = MsgsOf(index') /\ Undead' = {}
BY DEF Shown, Undead, MsgsOf

\* The return of a call, from a store that runs to one that does, or from a
\* load to a store that runs or has failed.
LEMMA ReturnRuns ==
  ASSUME NEW ok \in BOOLEAN, Reply(ok), TypeOK
  PROVE  Running' <=> ok \/ op.kind # "load"
BY DEF Reply, Running, NoOp, TypeOK

\* Whatever the store does is a step of the board, or none.
LEMMA BoardNext ==
  ASSUME TypeOK, OrderInv, [Next]_vars PROVE [Board!Next]_(Board!vars)
<1>t. /\ IndexOK(records) /\ IndexOK(index) /\ posted \in Seq(Msgs)
      /\ pc \in {"body", "update"} => op.kind = "store"
  BY DEF TypeOK
<1>o. Ordered(records, posted) /\ CallOK
  BY DEF OrderInv
<1>n. MsgsOf(<<>>) = {}
  BY NoRecords DEF MsgsOf
<1>1. CASE MountFormat
  <2>1. ~Running /\ ~Running' /\ index' = <<>>
    BY <1>1 DEF MountFormat, Running
  <2> QED  BY <1>n, <2>1, BoardOf, BoardLoses
<1>2. CASE MountFail \/ LoadOpen \/ LoadMissing
  <2>1. ~Running /\ ~Running' /\ index' = index
    BY <1>2 DEF MountFail, LoadOpen, LoadMissing, flash, Running
  <2> QED  BY <2>1, BoardOf, BoardStays
<1>3. CASE LoadRecord
  <2>1. ~Running /\ ~Running' /\ index' = index
    BY <1>3 DEF LoadRecord, flash, Running
  <2> QED  BY <2>1, BoardOf, BoardStays
<1>4. CASE LoadDone \/ LoadCut
  <2>1. pc = "load" /\ Reply(TRUE) /\ records' = records /\ index' = index
    BY <1>4 DEF LoadDone, LoadCut, ram, flash
  <2>2. ~Running /\ Running'
    BY <2>1, ReturnRuns DEF Running
  <2>3. MsgsOf(records) \subseteq MsgsOf(index)
    <3>1. Len(records) <= Len(index) /\ \A i \in DOMAIN records : records[i] = index[i]
      BY <2>1 DEF OrderInv
    <3>2. DOMAIN records = 1 .. Len(records) /\ DOMAIN index = 1 .. Len(index)
          /\ Len(records) \in Nat /\ Len(index) \in Nat
      BY <1>t, Listed
    <3>3. \A i \in DOMAIN records : i \in DOMAIN index
      BY <3>1, <3>2
    <3> QED  BY <3>1, <3>3 DEF MsgsOf
  <2> QED  BY <2>1, <2>2, <2>3, BoardOf, BoardRestarts
<1>5. ASSUME NEW m \in Msgs, StoreOpen(m) PROVE UNCHANGED Board!vars
  <2>1. records' = records /\ index' = index /\ pc = "idle" /\ op.kind = "none"
        /\ \/ pc' = "body" /\ op'.kind = "store"
           \/ pc' = pc /\ op' = op
    BY <1>5, <1>o DEF StoreOpen, CallOK
  <2>2. Running /\ Running'
    BY <2>1 DEF Running
  <2> QED  BY <2>1, <2>2, IndexesStay
<1>6. CASE BodyWrite \/ BodyLost
  <2>1. /\ pc = "body" /\ pc' = "update" /\ op' = op /\ records' = records /\ index' = index
        /\ op.kind = "store"
    BY <1>t, <1>6 DEF BodyWrite, BodyLost, ram, flash, history
  <2>2. Running /\ Running'
    BY <2>1 DEF Running
  <2> QED  BY <2>1, <2>2, IndexesStay
<1>7. CASE BodyShort
  <2>1. pc = "body" /\ Reply(FALSE) /\ records' = records /\ index' = index /\ op.kind = "store"
    BY <1>t, <1>7 DEF BodyShort, ram, flash
  <2>2. Running /\ Running'
    BY <2>1, ReturnRuns DEF Running
  <2> QED  BY <2>1, <2>2, IndexesStay
<1>8. CASE Add
  <2>1. /\ pc = "update" /\ op.kind = "store" /\ pc' = "save_open" /\ op' = op
        /\ records' = Append(records, op.rec) /\ Len(records) < MaxMessages /\ index' = index
        /\ op.rec \in Record
    BY <1>8 DEF Add, flash, TypeOK, Operation
  <2>2. Running /\ Running'
    BY <2>1 DEF Running
  <2>3. PICK m \in Msgs : m = op.rec.msg
    BY <2>1 DEF Record
  <2>4. m \notin MsgsOf(records) /\ m \notin MsgsOf(index)
    BY <2>1, <2>3 DEF OrderInv, Newer, MsgsOf
  <2>5. MsgsOf(records') = MsgsOf(records) \cup {m}
    BY <1>t, <2>1, <2>3, MsgsAppended
  <2>6. Cardinality(MsgsOf(records)) < MaxMessages
    BY <1>t, <1>o, <2>1, Counted
  <2> QED  BY <2>1, <2>2, <2>4, <2>5, <2>6, BoardOf, BoardPosts
<1>9. CASE Evict
  <2>1. /\ pc = "update" /\ op.kind = "store" /\ pc' = "save_open" /\ op' = op
        /\ index' = index /\ Len(records) >= MaxMessages
    BY <1>t, <1>9 DEF Evict
  <2>o. op.rec \in Record
    BY <2>1 DEF TypeOK, Operation
  <2>2. Running /\ Running'
    BY <2>1 DEF Running
  <2>3. PICK k \in DOMAIN records : records' = [records EXCEPT ![k] = op.rec]
    BY <1>9 DEF Evict
  <2>4. PICK m \in Msgs : m = op.rec.msg
    BY <2>o DEF Record
  <2>5. PICK v \in Msgs : v = records[k].msg
    BY <1>t, Listed
  <2>6. m \notin MsgsOf(records) /\ m \notin MsgsOf(index) /\ v \in MsgsOf(records)
    BY <2>1, <2>4, <2>5 DEF OrderInv, Newer, MsgsOf
  <2>7. MsgsOf(records') = (MsgsOf(records) \ {v}) \cup {m}
    <3>1. PICK rec \in Record : rec = op.rec
      BY <2>o
    <3>2. MsgsOf([records EXCEPT ![k] = rec]) = (MsgsOf(records) \ {records[k].msg}) \cup {rec.msg}
      BY <1>t, <1>o, MsgsReplaced
    <3> QED  BY <2>3, <2>4, <2>5, <3>1, <3>2
  <2>8. Cardinality(MsgsOf(records)) = MaxMessages
    <3>1. Len(records) = MaxMessages
      BY <1>t, <2>1, Listed, StoreAssumption
    <3> QED  BY <1>t, <1>o, <3>1, Counted
  <2>9. (MsgsOf(index') \ MsgsOf(records')) \in
          {MsgsOf(index) \ MsgsOf(records), (MsgsOf(index) \ MsgsOf(records)) \cup {v}}
    <3>1. CASE v \in MsgsOf(index)
      BY <2>1, <2>6, <2>7, <3>1
    <3>2. CASE v \notin MsgsOf(index)
      BY <2>1, <2>6, <2>7, <3>2
    <3> QED  BY <3>1, <3>2
  <2> QED  BY <2>2, <2>6, <2>7, <2>8, <2>9, BoardOf, BoardReplaces
<1>10. ASSUME NEW k \in DOMAIN records, Delete(k) PROVE Board!Next
  <2>1. /\ pc = "idle" /\ pc' = "save_open" /\ op'.kind = "delete" /\ index' = index
        /\ records' = Without(records, k) /\ op.kind = "none"
    BY <1>10, <1>o DEF Delete, CallOK
  <2>2. Running /\ Running'
    BY <2>1 DEF Running
  <2>3. PICK v \in Msgs : v = records[k].msg
    BY <1>t, Listed
  <2>4. MsgsOf(records') = MsgsOf(records) \ {v}
    BY <1>t, <1>o, <2>1, <2>3, MsgsShifted
  <2>5. v \in MsgsOf(records)
    BY <2>3 DEF MsgsOf
  <2>6. (MsgsOf(index') \ MsgsOf(records')) \in
          {MsgsOf(index) \ MsgsOf(records), (MsgsOf(index) \ MsgsOf(records)) \cup {v}}
    <3>1. CASE v \in MsgsOf(index)
      BY <2>1, <2>4, <2>5, <3>1
    <3>2. CASE v \notin MsgsOf(index)
      BY <2>1, <2>4, <2>5, <3>2
    <3> QED  BY <3>1, <3>2
  <2> QED  BY <2>2, <2>4, <2>5, <2>6, BoardOf, BoardKills
<1>11. CASE SaveOpen
  <2>1. pc = "save_open" /\ pc' = "save_write" /\ op' = op /\ index' = <<>> /\ records' = records
    BY <1>11 DEF SaveOpen, ram
  <2>2. CASE op.kind = "load"
    <3>1. ~Running /\ ~Running'
      BY <2>1, <2>2 DEF Running
    <3> QED  BY <1>n, <2>1, <3>1, BoardOf, BoardLoses
  <2>3. CASE op.kind # "load"
    <3>1. Running /\ Running'
      BY <2>1, <2>3 DEF Running
    <3> QED  BY <1>n, <2>1, <3>1, BoardOf, BoardSettles
  <2> QED  BY <2>2, <2>3
<1>12. CASE SaveOpenFail
  <2>1. pc = "save_open" /\ Reply(FALSE) /\ index' = index /\ records' = records
    BY <1>12 DEF SaveOpenFail, ram, flash
  <2>2. Running' <=> Running
    BY <2>1, ReturnRuns DEF Running
  <2> QED  BY <2>1, <2>2, BoardOf, BoardStays
<1>13. CASE SaveWrite
  <2>1. pc = "save_write" /\ Reply(TRUE) /\ index' = records /\ records' = records
    BY <1>13 DEF SaveWrite, ram
  <2>2. Running'
    BY <2>1, ReturnRuns
  <2>3. CASE op.kind = "load"
    <3>1. ~Running /\ records = <<>>
      BY <2>1, <2>3 DEF Running, OrderInv
    <3> QED  BY <1>n, <2>1, <2>2, <3>1, BoardOf, BoardRestarts
  <2>4. CASE op.kind # "load"
    <3>1. Running
      BY <2>1, <2>4 DEF Running
    <3> QED  BY <2>1, <2>2, <3>1, BoardOf, BoardSettles
  <2> QED  BY <2>3, <2>4
<1>14. CASE SaveShort
  <2>1. PICK n \in 0 .. Len(records) : n < Len(records) /\ index' = SubSeq(records, 1, n)
    BY <1>14 DEF SaveShort
  <2>2. pc = "save_write" /\ (Reply(TRUE) \/ Reply(FALSE)) /\ records' = records
    BY <1>14 DEF SaveShort, ram
  <2>3. op.kind # "load"
    <3>1. Len(<<>>) = 0 /\ Len(records) \in Nat
      BY <1>t, NoRecords, Listed
    <3>2. records # <<>>
      BY <2>1, <3>1
    <3> QED  BY <2>2, <3>2 DEF OrderInv
  <2>4. Running
    BY <2>2, <2>3 DEF Running
  <2>5. Running'
    BY <2>2, <2>3, ReturnRuns
  <2>6. MsgsOf(index') \subseteq MsgsOf(records)
    BY <1>t, <2>1, Prefix DEF MsgsOf
  <2> QED  BY <2>2, <2>4, <2>5, <2>6, BoardOf, BoardSettles
<1>15. CASE Crash
  <2>1. ~Running' /\ index' = index
    BY <1>15 DEF Crash, flash, Running
  <2>2. CASE Running
    BY <2>1, <2>2, BoardOf, BoardCrashes
  <2>3. CASE ~Running
    BY <2>1, <2>3, BoardOf, BoardStays
  <2> QED  BY <2>2, <2>3
<1>16. CASE UNCHANGED vars
  <2>1. records' = records /\ index' = index /\ pc' = pc /\ op' = op
    BY <1>16 DEF vars, ram, flash
  <2>2. Running' <=> Running
    BY <2>1 DEF Running
  <2> QED  BY <2>1, <2>2, IndexesStay
<1> QED
  BY <1>1, <1>2, <1>3, <1>4, <1>5, <1>6, <1>7, <1>8, <1>9, <1>10, <1>11, <1>12,
     <1>13, <1>14, <1>15, <1>16 DEF Next

\* The store is the board: nothing is listed that was not posted, nothing
\* leaves but by a delete, an eviction or a reset, and a reset brings back only
\* what had not yet left the index on flash.
THEOREM StoreIsBoard == Spec => ImplementsBoard
<1>1. Init => Board!Init
  BY NoRecords DEF Init, Board!Init, Running, MsgsOf
<1>2. TypeOK /\ OrderInv /\ [Next]_vars => [Board!Next]_(Board!vars)
  BY BoardNext
<1> QED  BY <1>1, <1>2, AlwaysOrdered, PTL DEF Spec, ImplementsBoard, Board!Spec
-----------------------------------------------------------------------------
(* The body files and the records, as long as nothing is disturbed.  Which *)
(* records a call in progress accounts for depends on the step.            *)

FilesInv ==
  /\ pc = "save_write" => hasIndex
  /\ ~hasIndex => index = <<>>
  /\ ~disturbed =>
       /\ pc \in {"off", "load"} => DOMAIN files = IdsOf(index)
       /\ pc = "idle" => index = records /\ DOMAIN files = IdsOf(records)
       /\ pc \in {"body", "update"} => DOMAIN files = IdsOf(records) \cup {op.rec.id}
       /\ pc \in {"save_open", "save_write"} => DOMAIN files = IdsOf(records)

\* A list that repeats the whole of another is that other.
LEMMA Reloaded ==
  ASSUME NEW recs, NEW list, IndexOK(recs), IndexOK(list), Len(recs) = Len(list),
         \A i \in DOMAIN recs : recs[i] = list[i]
  PROVE  recs = list
<1>1. recs \in Seq(Record) /\ list \in Seq(Record) /\ DOMAIN recs = 1 .. Len(recs)
  BY Listed
<1>2. \A i \in 1 .. Len(recs) : recs[i] = list[i]
  BY <1>1
<1> HIDE DEF Record
<1> QED  BY <1>1, <1>2, SeqEqual

\* A load that ends with nothing failing has the whole index.
LEMMA AllLoaded ==
  ASSUME TypeOK, OrderInv, LoadDone
  PROVE  records = index
<1>1. /\ pc = "load" /\ IndexOK(records) /\ IndexOK(index)
      /\ (Len(records) = MaxMessages \/ Len(records) = Len(index))
  BY DEF LoadDone, TypeOK
<1>2. Len(records) <= Len(index) /\ \A i \in DOMAIN records : records[i] = index[i]
  BY <1>1 DEF OrderInv
<1>3. Len(records) = Len(index)
  BY <1>1, <1>2, Listed, StoreAssumption
<1> QED  BY <1>1, <1>2, <1>3, Reloaded

LEMMA FilesInvInit == Init => FilesInv
<1>1. ASSUME Init PROVE DOMAIN files = {} /\ index = <<>> /\ pc = "off"
  BY <1>1 DEF Init
<1>2. IdsOf(<<>>) = {}
  BY NoRecords DEF IdsOf
<1> QED  BY <1>1, <1>2 DEF FilesInv

LEMMA FilesInvNext == ASSUME TypeOK, OrderInv, FilesInv, [Next]_vars PROVE FilesInv'
<1>t. /\ IndexOK(records) /\ IndexOK(index) /\ posted \in Seq(Msgs)
      /\ pc \in {"body", "update"} => op.kind = "store"
      /\ op \in Operation /\ disturbed \in BOOLEAN /\ hasIndex \in BOOLEAN
  BY DEF TypeOK
<1>o. Ordered(records, posted) /\ CallOK
  BY DEF OrderInv
<1>n. IdsOf(<<>>) = {}
  BY NoRecords DEF IdsOf
<1>1. CASE MountFormat
  <2>1. pc = "off" /\ pc' = "off" /\ index' = <<>> /\ DOMAIN files' = {}
    BY <1>1 DEF MountFormat
  <2> QED  BY <1>n, <2>1 DEF FilesInv
<1>2. CASE MountFail
  BY <1>2 DEF MountFail, flash, history, FilesInv
<1>3. CASE LoadOpen
  <2>1. /\ pc = "off" /\ pc' = "load" /\ index' = index /\ files' = files
        /\ hasIndex' = hasIndex /\ disturbed' = disturbed
    BY <1>3 DEF LoadOpen, flash, history
  <2> QED  BY <2>1 DEF FilesInv
<1>4. CASE LoadMissing
  <2>1. /\ pc = "off" /\ pc' = "save_open" /\ records' = <<>> /\ index' = index /\ files' = files
        /\ hasIndex' = hasIndex /\ disturbed' = (disturbed \/ hasIndex)
    BY <1>4 DEF LoadMissing, ResetIndex, flash
  <2> QED  BY <1>n, <2>1 DEF FilesInv
<1>5. CASE LoadRecord
  <2>1. /\ pc = "load" /\ pc' = "load" /\ index' = index /\ files' = files
        /\ hasIndex' = hasIndex /\ disturbed' = disturbed
    BY <1>5 DEF LoadRecord, flash, history
  <2> QED  BY <2>1 DEF FilesInv
<1>6. CASE LoadDone
  <2>1. /\ pc = "load" /\ pc' = "idle" /\ index' = index /\ files' = files /\ records' = records
        /\ hasIndex' = hasIndex /\ disturbed' = disturbed
    BY <1>6 DEF LoadDone, Reply, ram, flash
  <2>2. records = index
    BY <1>6, AllLoaded
  <2> QED  BY <2>1, <2>2 DEF FilesInv
<1>7. CASE LoadCut \/ BodyShort \/ SaveOpenFail
  <2>1. /\ disturbed' = TRUE /\ pc' \in {"idle", "failed"} /\ index' = index
        /\ hasIndex' = hasIndex
    BY <1>7 DEF LoadCut, BodyShort, SaveOpenFail, Reply, flash
  <2> QED  BY <2>1 DEF FilesInv
<1>8. ASSUME NEW m \in Msgs, StoreOpen(m) PROVE FilesInv'
  <2>1. /\ pc = "idle" /\ records' = records /\ index' = index /\ hasIndex' = hasIndex
    BY <1>8 DEF StoreOpen
  <2>2. CASE disturbed' = TRUE /\ pc' = pc
    BY <2>1, <2>2 DEF FilesInv
  <2>3. CASE /\ disturbed' = disturbed /\ pc' = "body" /\ op'.rec.id = next_id
             /\ DOMAIN files' = DOMAIN files \cup {next_id}
    BY <2>1, <2>3 DEF FilesInv
  <2>4. \/ files' = PutFile(files, next_id, Torn) /\ pc' = "body" /\ disturbed' = disturbed
           /\ op' = [kind |-> "store", rec |-> [id |-> next_id, msg |-> m]]
        \/ disturbed' = TRUE /\ pc' = pc
    BY <1>8 DEF StoreOpen
  <2>5. DOMAIN PutFile(files, next_id, Torn) = DOMAIN files \cup {next_id}
    BY DEF PutFile
  <2>6. CASE /\ files' = PutFile(files, next_id, Torn) /\ pc' = "body" /\ disturbed' = disturbed
             /\ op' = [kind |-> "store", rec |-> [id |-> next_id, msg |-> m]]
    <3>1. op'.rec.id = next_id
      BY <2>6
    <3>2. DOMAIN files' = DOMAIN files \cup {next_id}
      BY <2>5, <2>6
    <3> QED  BY <2>3, <2>6, <3>1, <3>2
  <2> QED  BY <2>2, <2>4, <2>6
<1>9. CASE BodyWrite
  <2>1. /\ pc = "body" /\ pc' = "update" /\ records' = records /\ index' = index
        /\ hasIndex' = hasIndex /\ op' = op /\ disturbed' = disturbed
        /\ DOMAIN files' = DOMAIN files \cup {op.rec.id}
    BY <1>9 DEF BodyWrite, PutFile, ram, history
  <2> QED  BY <2>1 DEF FilesInv
<1>10. CASE BodyLost
  BY <1>10 DEF BodyLost, FilesInv, flash
<1>11. CASE Add
  <2>1. /\ pc = "update" /\ pc' = "save_open" /\ records' = Append(records, op.rec)
        /\ Len(records) < MaxMessages /\ index' = index /\ files' = files
        /\ hasIndex' = hasIndex /\ disturbed' = disturbed
    BY <1>11 DEF Add, flash, history
  <2>2. op.rec \in Record
    BY <1>t, <2>1 DEF Operation
  <2>3. IdsOf(records') = IdsOf(records) \cup {op.rec.id}
    BY <1>t, <2>1, <2>2, MsgsAppended
  <2> QED  BY <2>1, <2>3 DEF FilesInv
<1>12. CASE Evict
  <2>1. /\ pc = "update" /\ pc' = "save_open" /\ index' = index
        /\ hasIndex' = hasIndex /\ disturbed' = disturbed
    BY <1>12 DEF Evict
  <2>2. op.rec \in Record
    BY <1>t, <2>1 DEF Operation
  <2>3. PICK k \in DOMAIN records : /\ records' = [records EXCEPT ![k] = op.rec]
                                    /\ DOMAIN files' = DOMAIN files \ {records[k].id}
    BY <1>12 DEF Evict, Unlink
  <2>4. IdsOf(records') = (IdsOf(records) \ {records[k].id}) \cup {op.rec.id}
    <3>1. PICK rec \in Record : rec = op.rec
      BY <2>2
    <3>2. IdsOf([records EXCEPT ![k] = rec]) = (IdsOf(records) \ {records[k].id}) \cup {rec.id}
      BY <1>t, <1>o, MsgsReplaced
    <3> QED  BY <2>3, <3>1, <3>2
  <2>5. records[k].id # op.rec.id
    <3>1. records[k].id < op.rec.id
      BY <2>1 DEF OrderInv, Newer
    <3>2. records[k].id \in Nat /\ op.rec.id \in Nat
      BY <1>t, <2>2, Listed DEF Record, Ids
    <3> QED  BY <3>1, <3>2
  <2> QED  BY <2>1, <2>3, <2>4, <2>5 DEF FilesInv
<1>13. ASSUME NEW k \in DOMAIN records, Delete(k) PROVE FilesInv'
  <2>1. /\ pc = "idle" /\ pc' = "save_open" /\ index' = index /\ hasIndex' = hasIndex
        /\ disturbed' = disturbed /\ records' = Without(records, k)
        /\ DOMAIN files' = DOMAIN files \ {records[k].id}
    BY <1>13 DEF Delete, Unlink
  <2>2. IdsOf(records') = IdsOf(records) \ {records[k].id}
    BY <1>t, <1>o, <2>1, MsgsShifted
  <2> QED  BY <2>1, <2>2 DEF FilesInv
<1>14. CASE SaveOpen
  <2>1. /\ pc = "save_open" /\ pc' = "save_write" /\ index' = <<>> /\ hasIndex' = TRUE
        /\ records' = records /\ files' = files /\ disturbed' = disturbed
    BY <1>14 DEF SaveOpen, ram
  <2> QED  BY <2>1 DEF FilesInv
<1>15. CASE SaveWrite
  <2>1. /\ pc = "save_write" /\ pc' = "idle" /\ index' = records /\ hasIndex' = hasIndex
        /\ records' = records /\ files' = files /\ disturbed' = disturbed
    BY <1>15 DEF SaveWrite, Reply, ram
  <2> QED  BY <2>1 DEF FilesInv
<1>16. CASE SaveShort
  <2>1. /\ pc = "save_write" /\ pc' \in {"idle", "failed"} /\ hasIndex' = hasIndex
        /\ disturbed' = TRUE
    BY <1>16 DEF SaveShort, Reply
  <2> QED  BY <2>1 DEF FilesInv
<1>17. CASE Crash
  <2>1. /\ pc' = "off" /\ index' = index /\ hasIndex' = hasIndex /\ files' = files
        /\ disturbed' = (disturbed \/ pc \notin {"idle", "load"})
    BY <1>17 DEF Crash, flash
  <2> QED  BY <2>1 DEF FilesInv
<1>18. CASE UNCHANGED vars
  <2>1. /\ records' = records /\ index' = index /\ pc' = pc /\ op' = op /\ files' = files
        /\ hasIndex' = hasIndex /\ disturbed' = disturbed
    BY <1>18 DEF vars, ram, flash, history
  <2> QED  BY <2>1 DEF FilesInv
<1> QED
  BY <1>1, <1>2, <1>3, <1>4, <1>5, <1>6, <1>7, <1>8, <1>9, <1>10, <1>11, <1>12,
     <1>13, <1>14, <1>15, <1>16, <1>17, <1>18 DEF Next

\* As long as nothing failed and no reset cut a call short, a store that is
\* idle has a body file for every record and no other.
THEOREM NoneLeftBehind == Spec => []NoOrphans
<1>1. TypeOK /\ OrderInv /\ FilesInv /\ [Next]_vars => FilesInv'
  BY FilesInvNext
<1>2. FilesInv => NoOrphans
  BY DEF FilesInv, NoOrphans
<1> QED  BY AlwaysOrdered, FilesInvInit, <1>1, <1>2, PTL DEF Spec
-----------------------------------------------------------------------------
(* What is promised.  A promised message that a list has is one that reads *)
(* back, in RAM and on flash; while the store runs the list in RAM has all *)
(* of them, and unless the index on flash was emptied, that one has too.   *)
(* The two lists agree on the message of an id, so that a body deleted     *)
(* from one is not that of another message in the other.                   *)

Has(fs, rec) == rec.id \in DOMAIN fs /\ fs[rec.id] = rec.msg

Keeps(recs, fs, ms) == \A i \in DOMAIN recs : recs[i].msg \in ms => Has(fs, recs[i])

Agree(recs, list) ==
  \A i \in DOMAIN recs, j \in DOMAIN list :
    recs[i].id = list[j].id => recs[i].msg = list[j].msg

Saving == pc \in {"save_open", "save_write"}

PromiseInv ==
  /\ ~hasIndex => promised = {}
  /\ Running => /\ promised \subseteq MsgsOf(records)
                /\ Keeps(records, files, promised)
                /\ Agree(records, index)
  /\ Keeps(index, files, promised)
  /\ truncated \/ promised \subseteq MsgsOf(index)
  /\ pc \in {"off", "load"} => ~truncated
  /\ pc = "save_write" => truncated
  /\ Saving /\ op.kind = "load" => promised = {}
  /\ pc = "update" => Has(files, op.rec)
  /\ Saving /\ op.kind = "store" =>
       Has(files, op.rec) /\ \E i \in DOMAIN records : records[i] = op.rec

LEMMA KeepsPut ==
  ASSUME NEW recs, NEW fs, NEW ms, Keeps(recs, fs, ms), NEW id, NotIn(id, recs), NEW content
  PROVE  Keeps(recs, PutFile(fs, id, content), ms)
BY DEF Keeps, Has, NotIn, PutFile

LEMMA KeepsNone == \A fs, ms, list : Keeps(<<>>, fs, ms) /\ Agree(list, <<>>) /\ Agree(<<>>, list)
BY NoRecords DEF Keeps, Agree

\* The body of a message that is promised no more goes.
LEMMA KeepsUnlinked ==
  ASSUME NEW recs, NEW fs, NEW ms, Keeps(recs, fs, ms), NEW gone,
         \A i \in DOMAIN recs : recs[i].id = gone.id => recs[i].msg = gone.msg
  PROVE  Keeps(recs, Unlink(fs, gone.id), ms \ {gone.msg})
BY DEF Keeps, Has, Unlink

LEMMA KeepsSome ==
  ASSUME NEW recs, NEW new, NEW fs, NEW ms, Keeps(recs, fs, ms), NEW list, Agree(recs, list),
         \A i \in DOMAIN new : \E j \in DOMAIN recs : new[i] = recs[j]
  PROVE  Keeps(new, fs, ms) /\ Agree(new, list)
BY DEF Keeps, Agree

LEMMA KeepsOneMore ==
  ASSUME NEW recs, NEW new, NEW fs, NEW ms, Keeps(recs, fs, ms), NEW list, Agree(recs, list),
         NEW rec, Has(fs, rec), NotIn(rec.id, list),
         \A i \in DOMAIN new : (i \in DOMAIN recs /\ new[i] = recs[i]) \/ new[i] = rec
  PROVE  Keeps(new, fs, ms) /\ Agree(new, list)
BY DEF Keeps, Agree, NotIn

LEMMA PromiseInvInit == Init => PromiseInv
<1>1. ASSUME Init PROVE /\ promised = {} /\ index = <<>> /\ pc = "off" /\ truncated = FALSE
  BY <1>1 DEF Init
<1> QED  BY <1>1, KeepsNone DEF PromiseInv, Running, Saving

LEMMA PromiseInvNext ==
  ASSUME "read" \notin Faults, "close" \notin Faults,
         TypeOK, OrderInv, FilesInv, BodyInv, PromiseInv, [Next]_vars
  PROVE  PromiseInv'
<1>t. /\ IndexOK(records) /\ IndexOK(index) /\ posted \in Seq(Msgs)
      /\ pc \in {"body", "update"} => op.kind = "store"
      /\ op \in Operation /\ truncated \in BOOLEAN /\ next_id \in Nat
  BY DEF TypeOK, Ids
<1>o. Ordered(records, posted) /\ Ordered(index, posted) /\ CallOK
  BY DEF OrderInv
<1>1. CASE MountFormat
  <2>1. /\ pc = "off" /\ pc' = "off" /\ index' = <<>> /\ promised' = {} /\ truncated' = FALSE
    BY <1>1 DEF MountFormat
  <2> QED  BY <2>1, KeepsNone DEF PromiseInv, Running, Saving
<1>2. CASE MountFail \/ LoadOpen
  <2>1. /\ pc = "off" /\ pc' \in {"failed", "load"} /\ index' = index /\ promised' = promised
        /\ truncated' = truncated /\ files' = files /\ hasIndex' = hasIndex
    BY <1>2 DEF MountFail, LoadOpen, flash, history
  <2> QED  BY <2>1 DEF PromiseInv, Running, Saving
<1>3. CASE LoadMissing
  <2>1. /\ pc = "off" /\ pc' = "save_open" /\ op'.kind = "load" /\ index' = index
        /\ promised' = (IF hasIndex THEN {} ELSE promised)
        /\ truncated' = truncated /\ files' = files /\ hasIndex' = hasIndex
    BY <1>3 DEF LoadMissing, flash
  <2>2. promised' = {}
    BY <2>1 DEF PromiseInv
  <2> QED  BY <2>1, <2>2 DEF PromiseInv, Running, Saving, Keeps
<1>4. CASE LoadRecord
  <2>1. /\ pc = "load" /\ pc' = "load" /\ index' = index /\ promised' = promised
        /\ truncated' = truncated /\ files' = files /\ hasIndex' = hasIndex
    BY <1>4 DEF LoadRecord, flash, history
  <2> QED  BY <2>1 DEF PromiseInv, Running, Saving
<1>5. CASE LoadDone
  <2>1. /\ pc = "load" /\ pc' = "idle" /\ index' = index /\ records' = records
        /\ truncated' = truncated /\ files' = files /\ hasIndex' = hasIndex
    BY <1>5 DEF LoadDone, Reply, ram, flash
  <2>2. promised' = promised
    BY <1>5, <1>o, <2>1 DEF LoadDone, Reply, CallOK
  <2>3. records = index
    BY <1>5, AllLoaded
  <2>4. Agree(index, index)
    BY <1>o DEF Ordered, Agree
  <2> QED  BY <2>1, <2>2, <2>3, <2>4 DEF PromiseInv, Running, Saving
<1>6. CASE LoadCut \/ BodyLost
  BY <1>6 DEF LoadCut, BodyLost
<1>7. CASE BodyShort \/ SaveOpenFail
  <2>1. /\ pc \in {"body", "save_open"} /\ pc' \in {"idle", "failed"} /\ index' = index
        /\ records' = records /\ truncated' = truncated /\ files' = files
        /\ hasIndex' = hasIndex /\ promised' = promised
        /\ pc' = "idle" => op.kind # "load"
    BY <1>7 DEF BodyShort, SaveOpenFail, Reply, ram, flash
  <2>2. pc' = "idle" => Running
    BY <1>t, <2>1 DEF Running
  <2> QED  BY <2>1, <2>2 DEF PromiseInv, Running, Saving
<1>8. ASSUME NEW m \in Msgs, StoreOpen(m) PROVE PromiseInv'
  <2>1. /\ pc = "idle" /\ records' = records /\ index' = index /\ hasIndex' = hasIndex
        /\ promised' = promised /\ truncated' = truncated
    BY <1>8 DEF StoreOpen
  <2>2. Running
    BY <1>o, <2>1 DEF Running, CallOK
  <2>3. \/ pc' = "body" /\ files' = PutFile(files, next_id, Torn)
        \/ pc' = "idle" /\ files' = files
    BY <1>8 DEF StoreOpen
  <2>4. NotIn(next_id, records) /\ NotIn(next_id, index)
    <3>1. \A i \in DOMAIN records : records[i].id < next_id /\ records[i].id \in Nat
      BY <1>t, Listed DEF BodyInv, IdsFresh, Below
    <3>2. \A i \in DOMAIN index : index[i].id < next_id /\ index[i].id \in Nat
      BY <1>t, <2>2, Listed DEF BodyInv, IdsFresh, Below
    <3> QED  BY <1>t, <3>1, <3>2 DEF NotIn
  <2>5. Keeps(records, files', promised) /\ Keeps(index, files', promised)
    BY <2>2, <2>3, <2>4, KeepsPut DEF PromiseInv
  <2> QED  BY <2>1, <2>2, <2>3, <2>5 DEF PromiseInv, Saving
<1>9. CASE BodyWrite
  <2>1. /\ pc = "body" /\ pc' = "update" /\ records' = records /\ index' = index
        /\ hasIndex' = hasIndex /\ op' = op /\ promised' = promised /\ truncated' = truncated
        /\ files' = PutFile(files, op.rec.id, op.rec.msg)
    BY <1>9 DEF BodyWrite, ram, history
  <2>2. Running
    BY <1>t, <2>1 DEF Running
  <2>3. NotIn(op.rec.id, records) /\ NotIn(op.rec.id, index)
    BY <2>1 DEF BodyInv, StoringOwn
  <2>4. Keeps(records, files', promised) /\ Keeps(index, files', promised)
    BY <2>1, <2>2, <2>3, KeepsPut DEF PromiseInv
  <2>5. Has(files', op.rec)
    BY <2>1 DEF Has, PutFile
  <2> QED  BY <2>1, <2>2, <2>4, <2>5 DEF PromiseInv, Saving
<1>10. CASE Add
  <2>1. /\ pc = "update" /\ pc' = "save_open" /\ records' = Append(records, op.rec)
        /\ Len(records) < MaxMessages /\ index' = index /\ files' = files /\ op' = op
        /\ hasIndex' = hasIndex /\ promised' = promised /\ truncated' = truncated
    BY <1>10 DEF Add, flash, history
  <2>2. op.rec \in Record /\ op.kind = "store"
    BY <1>t, <2>1 DEF Operation
  <2>3. Running /\ NotIn(op.rec.id, index) /\ Has(files, op.rec)
    BY <2>1, <2>2 DEF Running, BodyInv, StoringOwn, PromiseInv
  <2>4. /\ Len(records') = Len(records) + 1
        /\ \A i \in DOMAIN records' :
             (i \in DOMAIN records /\ records'[i] = records[i]) \/ records'[i] = op.rec
    BY <1>t, <2>1, <2>2, Appended
  <2>5. Keeps(records', files, promised) /\ Agree(records', index)
    BY <2>3, <2>4, KeepsOneMore DEF PromiseInv
  <2>6. MsgsOf(records') = MsgsOf(records) \cup {op.rec.msg}
    BY <1>t, <2>1, <2>2, MsgsAppended
  <2>7. \E i \in DOMAIN records' : records'[i] = op.rec
    <3> HIDE DEF Record
    <3>1. records \in Seq(Record)
      BY <1>t DEF IndexOK
    <3>2. records' \in Seq(Record) /\ records'[Len(records) + 1] = op.rec /\ Len(records) \in Nat
      BY <2>1, <2>2, <3>1, AppendProperties, LenProperties
    <3>3. DOMAIN records' = 1 .. Len(records) + 1
      BY <2>4, <3>2, LenProperties
    <3>4. Len(records) + 1 \in 1 .. Len(records) + 1
      BY <3>2
    <3> QED  BY <3>2, <3>3, <3>4
  <2> QED  BY <2>1, <2>2, <2>3, <2>5, <2>6, <2>7 DEF PromiseInv, Saving
<1>11. CASE Evict
  <2>1. /\ pc = "update" /\ pc' = "save_open" /\ index' = index /\ op' = op
        /\ hasIndex' = hasIndex /\ truncated' = truncated
    BY <1>11 DEF Evict
  <2>2. PICK rec \in Record : rec = op.rec /\ op.kind = "store"
    BY <1>t, <2>1 DEF Operation
  <2>3. PICK k \in DOMAIN records : /\ records' = [records EXCEPT ![k] = rec]
                                    /\ files' = Unlink(files, records[k].id)
                                    /\ promised' = promised \ {records[k].msg}
    BY <1>11, <2>2 DEF Evict
  <2>4. /\ Running /\ NotIn(rec.id, index) /\ NotIn(rec.id, records) /\ Has(files, rec)
        /\ Agree(records, index) /\ Keeps(records, files, promised)
        /\ Keeps(index, files, promised) /\ promised \subseteq MsgsOf(records)
    BY <2>1, <2>2 DEF Running, BodyInv, StoringOwn, PromiseInv
  <2>5. Has(files', rec)
    BY <2>3, <2>4 DEF Has, Unlink, NotIn
  <2>6. Keeps(records, files', promised') /\ Keeps(index, files', promised')
    <3>1. \A i \in DOMAIN records : records[i].id = records[k].id => records[i].msg = records[k].msg
      BY <1>o DEF Ordered
    <3>2. \A j \in DOMAIN index : index[j].id = records[k].id => index[j].msg = records[k].msg
      BY <2>4 DEF Agree
    <3> QED  BY <2>3, <2>4, <3>1, <3>2, KeepsUnlinked
  <2>7. \A i \in DOMAIN records' :
          (i \in DOMAIN records /\ records'[i] = records[i]) \/ records'[i] = rec
    BY <1>t, <2>3, Replaced
  <2>8. Keeps(records', files', promised') /\ Agree(records', index)
    BY <2>4, <2>5, <2>6, <2>7, KeepsOneMore
  <2>9. promised' \subseteq MsgsOf(records')
    <3>1. MsgsOf([records EXCEPT ![k] = rec]) = (MsgsOf(records) \ {records[k].msg}) \cup {rec.msg}
      BY <1>t, <1>o, MsgsReplaced
    <3> QED  BY <2>3, <2>4, <3>1
  <2>10. k \in DOMAIN records' /\ records'[k] = rec
    BY <1>t, <2>3, Listed
  <2> QED  BY <2>1, <2>2, <2>3, <2>5, <2>6, <2>8, <2>9, <2>10 DEF PromiseInv, Saving
<1>12. ASSUME NEW k \in DOMAIN records, Delete(k) PROVE PromiseInv'
  <2>1. /\ pc = "idle" /\ pc' = "save_open" /\ index' = index /\ hasIndex' = hasIndex
        /\ truncated' = truncated /\ records' = Without(records, k) /\ op'.kind = "delete"
        /\ files' = Unlink(files, records[k].id)
        /\ promised' = promised \ {records[k].msg}
    BY <1>12 DEF Delete
  <2>2. Running
    BY <1>o, <2>1 DEF Running, CallOK
  <2>3. Keeps(records, files', promised') /\ Keeps(index, files', promised')
    <3>1. \A i \in DOMAIN records : records[i].id = records[k].id => records[i].msg = records[k].msg
      BY <1>o DEF Ordered
    <3>2. \A j \in DOMAIN index : index[j].id = records[k].id => index[j].msg = records[k].msg
      BY <2>2 DEF Agree, PromiseInv
    <3> QED  BY <2>1, <2>2, <3>1, <3>2, KeepsUnlinked DEF PromiseInv
  <2>4. \A i \in DOMAIN records' : \E j \in DOMAIN records : records'[i] = records[j]
    BY <1>t, <2>1, Shifted
  <2>5. Keeps(records', files', promised') /\ Agree(records', index)
    BY <2>2, <2>3, <2>4, KeepsSome DEF PromiseInv
  <2>6. promised' \subseteq MsgsOf(records')
    BY <1>t, <1>o, <2>1, <2>2, MsgsShifted DEF PromiseInv
  <2> QED  BY <2>1, <2>2, <2>3, <2>5, <2>6 DEF PromiseInv, Saving
<1>13. CASE SaveOpen
  <2>1. /\ pc = "save_open" /\ pc' = "save_write" /\ index' = <<>> /\ hasIndex' = TRUE /\ op' = op
        /\ records' = records /\ files' = files /\ promised' = promised /\ truncated' = TRUE
    BY <1>13 DEF SaveOpen, ram
  <2>2. Running' => Running
    BY <2>1 DEF Running
  <2> QED  BY <2>1, <2>2, KeepsNone DEF PromiseInv, Saving
<1>14. CASE SaveWrite
  <2>1. /\ pc = "save_write" /\ pc' = "idle" /\ index' = records /\ hasIndex' = hasIndex
        /\ records' = records /\ files' = files /\ truncated' = FALSE
        /\ promised' = IF op.kind = "store" THEN promised \cup {op.rec.msg} ELSE promised
    BY <1>14 DEF SaveWrite, Reply, ram
  <2>2. hasIndex
    BY <2>1 DEF FilesInv
  <2>3. Agree(records, records)
    BY <1>o DEF Ordered, Agree
  <2>4. promised' \subseteq MsgsOf(records) /\ Keeps(records, files, promised')
    <3>1. CASE op.kind = "load"
      BY <2>1, <3>1 DEF PromiseInv, Saving, Keeps
    <3>2. CASE op.kind \notin {"load", "store"}
      BY <2>1, <3>2 DEF PromiseInv, Running
    <3>3. CASE op.kind = "store"
      <4>1. /\ promised \subseteq MsgsOf(records) /\ Keeps(records, files, promised)
            /\ Has(files, op.rec)
        BY <2>1, <3>3 DEF PromiseInv, Running, Saving
      <4>2. PICK n \in DOMAIN records : records[n] = op.rec
        BY <2>1, <3>3 DEF PromiseInv, Saving
      <4>3. \A i \in DOMAIN records : records[i].msg = op.rec.msg => records[i] = op.rec
        BY <1>o, <4>2 DEF Ordered
      <4>4. op.rec.msg \in MsgsOf(records)
        BY <4>2 DEF MsgsOf
      <4> QED  BY <2>1, <3>3, <4>1, <4>3, <4>4 DEF Keeps
    <3> QED  BY <3>1, <3>2, <3>3
  <2> QED  BY <2>1, <2>2, <2>3, <2>4 DEF PromiseInv, Saving
<1>15. CASE SaveShort
  <2>1. PICK n \in 0 .. Len(records) : n < Len(records) /\ index' = SubSeq(records, 1, n)
    BY <1>15 DEF SaveShort
  <2>2. /\ pc = "save_write" /\ Reply(FALSE) /\ records' = records /\ hasIndex' = hasIndex
        /\ files' = files /\ truncated' = truncated
    BY <1>15 DEF SaveShort, ram
  <2>3. op.kind # "load"
    <3>1. Len(<<>>) = 0 /\ Len(records) \in Nat
      BY <1>t, NoRecords, Listed
    <3>2. records # <<>>
      BY <2>1, <3>1
    <3> QED  BY <2>2, <3>2 DEF OrderInv
  <2>4. Running /\ truncated
    BY <2>2, <2>3 DEF Running, PromiseInv
  <2>5. pc' = "idle" /\ promised' = promised
    BY <2>2, <2>3 DEF Reply
  <2>6. \A i \in DOMAIN index' : i \in DOMAIN records /\ index'[i] = records[i]
    BY <1>t, <2>1, Prefix
  <2>7. Keeps(index', files, promised)
    BY <2>4, <2>6 DEF PromiseInv, Keeps
  <2>8. Agree(records, index')
    BY <1>o, <2>6 DEF Ordered, Agree
  <2> QED  BY <2>2, <2>4, <2>5, <2>7, <2>8 DEF PromiseInv, Saving
<1>16. CASE Crash
  <2>1. /\ pc' = "off" /\ index' = index /\ hasIndex' = hasIndex /\ files' = files
        /\ promised' = (IF truncated THEN promised \cap MsgsOf(index) ELSE promised)
        /\ truncated' = FALSE
    BY <1>16 DEF Crash, flash
  <2>2. promised' \subseteq promised /\ promised' \subseteq MsgsOf(index)
    BY <2>1 DEF PromiseInv
  <2>3. Keeps(index, files, promised')
    BY <2>2 DEF PromiseInv, Keeps
  <2> QED  BY <2>1, <2>2, <2>3 DEF PromiseInv, Running, Saving
<1>17. CASE UNCHANGED vars
  <2>1. /\ records' = records /\ index' = index /\ pc' = pc /\ op' = op /\ files' = files
        /\ hasIndex' = hasIndex /\ promised' = promised /\ truncated' = truncated
    BY <1>17 DEF vars, ram, flash, history
  <2>2. Running' <=> Running
    BY <2>1 DEF Running
  <2> QED  BY <2>1, <2>2 DEF PromiseInv, Saving
<1> QED
  BY <1>1, <1>2, <1>3, <1>4, <1>5, <1>6, <1>7, <1>8, <1>9, <1>10, <1>11, <1>12,
     <1>13, <1>14, <1>15, <1>16, <1>17 DEF Next

\* Unless fread() or fclose() fails, a message that was acknowledged is there
\* whenever the store is idle, header and body, until it is deleted, evicted or
\* lost with an index that was emptied.
THEOREM PromisesKept ==
  ASSUME "read" \notin Faults, "close" \notin Faults
  PROVE  Spec => []PromiseKept
<1>1. TypeOK /\ BodyInv /\ [Next]_vars => BodyInv'
  BY BodyInvNext
<1>2. TypeOK /\ OrderInv /\ FilesInv /\ [Next]_vars => FilesInv'
  BY FilesInvNext
<1>3. TypeOK /\ OrderInv /\ FilesInv /\ BodyInv /\ PromiseInv /\ [Next]_vars => PromiseInv'
  BY PromiseInvNext
<1>4. OrderInv /\ PromiseInv => PromiseKept
  <2> SUFFICES ASSUME OrderInv, PromiseInv, pc = "idle", NEW m \in promised
               PROVE  \E i \in DOMAIN records : records[i].msg = m /\ ReadsBack(records[i])
    BY DEF PromiseKept
  <2>1. Running
    BY DEF OrderInv, CallOK, Running
  <2>2. PICK i \in DOMAIN records : records[i].msg = m
    BY <2>1 DEF PromiseInv, MsgsOf
  <2> QED  BY <2>1, <2>2 DEF PromiseInv, Keeps, Has, ReadsBack
<1> QED  BY AlwaysOrdered, BodyInvInit, FilesInvInit, PromiseInvInit, <1>1, <1>2, <1>3, <1>4,
            PTL DEF Spec
=============================================================================
