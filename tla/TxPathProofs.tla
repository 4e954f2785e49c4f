---------------------------- MODULE TxPathProofs ----------------------------
(***************************************************************************)
(* Proofs about module TxPath, for any length of a packet, any retries,    *)
(* any window and any text, however it is cut into parts and whatever the  *)
(* link does: the buffer is never overrun, packets go out full, and what   *)
(* arrives is the text, or a part of it is missing after sending was given *)
(* up.                                                                     *)
(***************************************************************************)
EXTENDS TxPath, SequenceTheorems, WellFoundedInduction, TLAPS

Byte == 1 .. TextMax
Text == Seq(Byte)

\* There is more of the reply behind what is being sent.
Buffered == text # <<>> \/ part # <<>> \/ tx # <<>>
Left(s) == data[s] # <<>> \/ (s = "worker" /\ Buffered)

EndsAt(seq, n) == Len(seq) # 0 => seq[Len(seq)] = n

\* The last of what is left of a text is its last byte, wherever that is now.
BufferEnds ==
  /\ EndsAt(text, length["worker"])
  /\ text = <<>> => EndsAt(part, length["worker"])
  /\ text = <<>> /\ part = <<>> => EndsAt(tx, length["worker"])
DataEnds(s) == ~(s = "worker" /\ Buffered) => EndsAt(data[s], length[s])

\* As long as there is more in the buffer, what is sent is a full packet.
FullData == Buffered => data["worker"] = <<>> \/ Len(data["worker"]) = InfoLen

\* As long as there is more of a text, all its chunks were full.
ChunksOK(s) ==
  \A i \in 1 .. Len(taken[s]) :
    /\ Len(taken[s][i]) <= InfoLen
    /\ i < Len(taken[s]) \/ Left(s) => Len(taken[s][i]) = InfoLen
    /\ Len(taken[s][i]) # InfoLen => \E k \in 1 .. Len(taken[s][i]) : taken[s][i][k] = length[s]

TxInv ==
  /\ TypeOK /\ FullData /\ BufferEnds
  /\ \A s \in Senders : DataEnds(s) /\ ChunksOK(s)
-----------------------------------------------------------------------------
(* Texts. *)

\* A text has a length, of which only the empty one's is zero.
LEMMA Texts ==
  ASSUME NEW t \in Text
  PROVE  Len(t) \in Nat /\ DOMAIN t = 1 .. Len(t) /\ (t = <<>> <=> Len(t) = 0)
         /\ \A i \in 1 .. Len(t) : t[i] \in Byte
<1> HIDE DEF Byte
<1> QED  BY LenProperties, EmptySeq, ElementOfSeq DEF Text

LEMMA Nothing == <<>> \in Text /\ Len(<<>>) = 0
BY EmptySeq DEF Text

\* The text of a reply is its bytes, in order.
LEMMA Numbered ==
  ASSUME NEW n \in 1 .. TextMax
  PROVE  Bytes(1, n) \in Text /\ Len(Bytes(1, n)) = n /\ Bytes(1, n)[n] = n
<1>1. n \in Nat /\ n - 1 + 1 = n /\ \A i \in 1 .. n : i \in 1 .. TextMax /\ 1 + i - 1 = i
  BY TxAssumption
<1>2. Bytes(1, n) = [i \in 1 .. n |-> 1 + i - 1]
  BY <1>1 DEF Bytes
<1>3. Bytes(1, n) \in Text /\ Len(Bytes(1, n)) = n
  <2>1. Bytes(1, n) \in [1 .. n -> Byte]
    BY <1>1, <1>2 DEF Byte
  <2>2. Bytes(1, n) \in Seq(Byte)
    <3> HIDE DEF Byte
    <3> QED  BY <1>1, <2>1
  <2>3. Len(Bytes(1, n)) \in Nat /\ DOMAIN Bytes(1, n) = 1 .. Len(Bytes(1, n))
    <3> HIDE DEF Byte
    <3> QED  BY <2>2, LenProperties
  <2>4. 1 .. Len(Bytes(1, n)) = 1 .. n
    BY <2>1, <2>3
  <2>5. Len(Bytes(1, n)) = n
    BY <1>1, <2>3, <2>4
  <2> QED  BY <2>2, <2>5 DEF Text
<1> QED  BY <1>1, <1>2, <1>3

\* What First takes of a text, Rest leaves the rest of.
LEMMA FirstOf ==
  ASSUME NEW t \in Text, NEW n \in Nat
  PROVE  /\ First(t, n) \in Text
         /\ Len(First(t, n)) = IF n < Len(t) THEN n ELSE Len(t)
         /\ \A i \in 1 .. Len(First(t, n)) : First(t, n)[i] = t[i]
<1>1. PICK l \in Nat : l = Len(t) /\ \A i \in 1 .. l : t[i] \in Byte
  BY Texts
<1>2. PICK m \in Nat : m = (IF n < l THEN n ELSE l) /\ m <= l
  OBVIOUS
<1>3. First(t, n) = SubSeq(t, 1, m)
  BY <1>1, <1>2 DEF First
<1>4. \A i \in 1 .. m : t[i] \in Byte
  BY <1>1, <1>2
<1>5. /\ SubSeq(t, 1, m) \in Seq(Byte)
      /\ Len(SubSeq(t, 1, m)) = IF 1 <= m THEN m - 1 + 1 ELSE 0
      /\ \A i \in 1 .. m - 1 + 1 : SubSeq(t, 1, m)[i] = t[1 + i - 1]
  <2> HIDE DEF Byte
  <2> QED  BY <1>4, SubSeqProperties
<1>6. m - 1 + 1 = m /\ (IF 1 <= m THEN m - 1 + 1 ELSE 0) = m /\ \A i \in 1 .. m : 1 + i - 1 = i
  BY <1>2
<1>7. Len(First(t, n)) = m /\ \A i \in 1 .. m : First(t, n)[i] = t[i]
  BY <1>3, <1>5, <1>6
<1> QED  BY <1>1, <1>2, <1>3, <1>5, <1>7 DEF Text

LEMMA RestOf ==
  ASSUME NEW t \in Text, NEW n \in Nat
  PROVE  /\ Rest(t, n) \in Text
         /\ Len(Rest(t, n)) = IF n < Len(t) THEN Len(t) - n ELSE 0
         /\ \A i \in 1 .. Len(Rest(t, n)) : Rest(t, n)[i] = t[n + i]
<1>1. PICK l \in Nat : l = Len(t) /\ \A i \in 1 .. l : t[i] \in Byte
  BY Texts
<1>2. Rest(t, n) = SubSeq(t, n + 1, l)
  BY <1>1 DEF Rest
<1>3. \A i \in n + 1 .. l : t[i] \in Byte
  BY <1>1
<1>4. /\ SubSeq(t, n + 1, l) \in Seq(Byte)
      /\ Len(SubSeq(t, n + 1, l)) = IF n + 1 <= l THEN l - (n + 1) + 1 ELSE 0
      /\ \A i \in 1 .. l - (n + 1) + 1 : SubSeq(t, n + 1, l)[i] = t[n + 1 + i - 1]
  <2> HIDE DEF Byte
  <2> QED  BY <1>3, SubSeqProperties
<1>5. PICK m \in Nat : m = (IF n < l THEN l - n ELSE 0)
  <2>1. (IF n < l THEN l - n ELSE 0) \in Nat
    OBVIOUS
  <2> QED  BY <2>1
<1>6. Len(Rest(t, n)) = m
  BY <1>2, <1>4, <1>5
<1>7. \A i \in 1 .. m : i \in 1 .. l - (n + 1) + 1 /\ n + 1 + i - 1 = n + i
  BY <1>5
<1>8. \A i \in 1 .. m : Rest(t, n)[i] = t[n + i]
  BY <1>2, <1>4, <1>7
<1> QED  BY <1>1, <1>2, <1>4, <1>5, <1>6, <1>8 DEF Text

LEMMA Joined ==
  ASSUME NEW t \in Text, NEW u \in Text
  PROVE  /\ t \o u \in Text /\ Len(t \o u) = Len(t) + Len(u)
         /\ \A i \in 1 .. Len(u) : (t \o u)[Len(t) + i] = u[i]
<1>1. Len(t) \in Nat /\ Len(u) \in Nat
  BY Texts
<1>2. /\ t \o u \in Seq(Byte) /\ Len(t \o u) = Len(t) + Len(u)
      /\ \A i \in 1 .. Len(t) + Len(u) :
           (t \o u)[i] = IF i <= Len(t) THEN t[i] ELSE u[i - Len(t)]
  <2> HIDE DEF Byte
  <2> QED  BY ConcatProperties DEF Text
<1>3. \A i \in 1 .. Len(u) : /\ Len(t) + i \in 1 .. Len(t) + Len(u)
                             /\ ~(Len(t) + i <= Len(t)) /\ (Len(t) + i) - Len(t) = i
  BY <1>1
<1> QED  BY <1>2, <1>3 DEF Text

\* The rest of a text ends as the text does; all of it that is taken, too.
LEMMA RestEnds ==
  ASSUME NEW t \in Text, NEW n \in Nat, NEW l, EndsAt(t, l)
  PROVE  EndsAt(Rest(t, n), l) /\ (Rest(t, n) = <<>> => First(t, n) = t /\ EndsAt(First(t, n), l))
<1>1. PICK k \in Nat : k = Len(t)
  BY Texts
<1>2. PICK m \in Nat : m = Len(Rest(t, n)) /\ m = IF n < k THEN k - n ELSE 0
  BY <1>1, RestOf
<1>3. EndsAt(Rest(t, n), l)
  <2> SUFFICES ASSUME m # 0 PROVE Rest(t, n)[m] = l
    BY <1>2 DEF EndsAt
  <2>1. m \in 1 .. m /\ n + m = k /\ k # 0
    BY <1>2
  <2>2. Rest(t, n)[m] = t[k]
    BY <1>2, <2>1, RestOf
  <2> QED  BY <1>1, <2>1, <2>2 DEF EndsAt
<1>4. ASSUME Rest(t, n) = <<>> PROVE First(t, n) = t
  <2>1. ~(n < k)
    <3>1. m = 0
      BY <1>2, <1>4, Nothing
    <3> QED  BY <1>2, <3>1
  <2>2. First(t, n) \in Text /\ Len(First(t, n)) = k /\ \A i \in 1 .. k : First(t, n)[i] = t[i]
    BY <1>1, <2>1, FirstOf
  <2> HIDE DEF Byte
  <2> QED  BY <1>1, <2>2, SeqEqual DEF Text
<1> QED  BY <1>3, <1>4
-----------------------------------------------------------------------------
(* What each step leaves alone. *)

LEMMA Typed ==
  ASSUME TypeOK
  PROVE  /\ text \in Text /\ part \in Text /\ tx \in Text /\ Len(tx) < InfoLen
         /\ data \in [Senders -> Text] /\ length \in [Senders -> 0 .. TextMax]
         /\ attempts \in [Senders -> 0 .. RetryMax - 1]
         /\ taken \in [Senders -> Seq(Text)] /\ lost \in [Senders -> BOOLEAN]
         /\ up \in BOOLEAN /\ held \in [Destinations -> 0 .. Window]
BY DEF TypeOK, Text, Byte

LEMMA TypedNext ==
  ASSUME text' \in Text, part' \in Text, tx' \in Text, Len(tx') < InfoLen,
         data' \in [Senders -> Text], length' \in [Senders -> 0 .. TextMax],
         attempts' \in [Senders -> 0 .. RetryMax - 1],
         taken' \in [Senders -> Seq(Text)], lost' \in [Senders -> BOOLEAN],
         up' \in BOOLEAN, held' \in [Destinations -> 0 .. Window]
  PROVE  TypeOK'
BY DEF TypeOK, Text, Byte

LEMMA ChunksKept ==
  ASSUME NEW s \in Senders, ChunksOK(s), taken'[s] = taken[s], length'[s] = length[s],
         Left(s)' => Left(s)
  PROVE  ChunksOK(s)'
BY DEF ChunksOK

\* A new text has no chunks yet.
LEMMA ChunksNew == ASSUME NEW s \in Senders, taken'[s] = <<>> PROVE ChunksOK(s)'
<1>1. Len(taken'[s]) = 0
  BY Nothing
<1> QED  BY <1>1 DEF ChunksOK

LEMMA OthersLeft ==
  ASSUME NEW s \in Senders \ {"worker"}, TxInv, data'[s] = data[s], length'[s] = length[s],
         taken'[s] = taken[s]
  PROVE  DataEnds(s)' /\ ChunksOK(s)'
<1>1. Left(s)' => Left(s)
  BY DEF Left
<1>2. ChunksOK(s)'
  BY <1>1, ChunksKept DEF TxInv
<1>3. DataEnds(s)'
  BY DEF TxInv, DataEnds, EndsAt
<1> QED  BY <1>2, <1>3

\* Steps that touch no text: the destinations, and a failed attempt.
LEMMA NoText ==
  ASSUME TxInv, TypeOK', text' = text, part' = part, tx' = tx, length' = length, taken' = taken,
         \A s \in Senders : data'[s] = data[s] \/ data'[s] = <<>>
  PROVE  TxInv'
<1>1. \A s \in Senders : Left(s)' => Left(s)
  BY DEF Left, Buffered
<1>2. \A s \in Senders : ChunksOK(s)'
  BY <1>1, ChunksKept DEF TxInv
<1>3. \A s \in Senders : DataEnds(s)'
  BY Nothing DEF TxInv, DataEnds, EndsAt, Buffered
<1>4. FullData' /\ BufferEnds'
  BY DEF TxInv, FullData, BufferEnds, Buffered, EndsAt, Senders
<1> QED  BY <1>2, <1>3, <1>4 DEF TxInv
-----------------------------------------------------------------------------
(* The worker's reply. *)

LEMMA ReplyKeeps == ASSUME TxInv, NEW n \in 1 .. TextMax, Reply(n) PROVE TxInv'
<1>1. /\ text' = Bytes(1, n) /\ part' = part /\ tx' = tx /\ data' = data
      /\ attempts' = attempts /\ up' = up /\ held' = held
      /\ length' = [length EXCEPT !["worker"] = n]
      /\ taken' = [taken EXCEPT !["worker"] = <<>>]
      /\ lost' = [lost EXCEPT !["worker"] = FALSE]
      /\ part = <<>> /\ tx = <<>> /\ data["worker"] = <<>>
  BY DEF Reply, Begin, Replying, Sending
<1>2. TypeOK
  BY DEF TxInv
<1>3. n \in 0 .. TextMax /\ n # 0
  BY TxAssumption
<1>4. length'["worker"] = n /\ taken'["worker"] = <<>>
      /\ \A s \in Senders \ {"worker"} : length'[s] = length[s] /\ taken'[s] = taken[s]
  BY <1>1, <1>2, Typed DEF Senders
<1>5. <<>> \in Seq(Text)
  BY EmptySeq
<1>6. TypeOK'
  BY <1>1, <1>2, <1>3, <1>5, Typed, TypedNext, Numbered
<1>7. FullData'
  BY <1>1 DEF FullData
<1>8. BufferEnds'
  <2>1. EndsAt(Bytes(1, n), n) /\ Bytes(1, n) # <<>>
    BY <1>3, Numbered, Nothing DEF EndsAt
  <2> QED  BY <1>1, <1>4, <2>1 DEF BufferEnds
<1>9. ASSUME NEW s \in Senders PROVE DataEnds(s)' /\ ChunksOK(s)'
  <2>1. CASE s = "worker"
    BY <1>1, <1>4, <2>1, ChunksNew, Nothing DEF DataEnds, EndsAt
  <2>2. CASE s # "worker"
    BY <1>1, <1>4, <2>2, OthersLeft
  <2> QED  BY <2>1, <2>2
<1> QED  BY <1>6, <1>7, <1>8, <1>9 DEF TxInv

\* A step of the worker on the reply, which sends nothing or a full packet, or
\* all there is.
LEMMA WorkerKeeps ==
  ASSUME TxInv, TypeOK', length' = length, taken' = taken, Buffered,
         \A s \in Senders \ {"worker"} : data'[s] = data[s],
         FullData', BufferEnds', DataEnds("worker")'
  PROVE  TxInv'
<1>1. "worker" \in Senders /\ Left("worker")
  BY DEF Senders, Left
<1>2. ChunksOK("worker")'
  BY <1>1, ChunksKept DEF TxInv
<1>3. \A s \in Senders \ {"worker"} : DataEnds(s)' /\ ChunksOK(s)'
  BY OthersLeft
<1> QED  BY <1>2, <1>3 DEF TxInv

LEMMA AppendPartKeeps == ASSUME TxInv, NEW n \in 1 .. TextMax, AppendPart(n) PROVE TxInv'
<1>1. /\ part' = First(text, n) /\ text' = Rest(text, n) /\ tx' = tx /\ data' = data
      /\ attempts' = attempts /\ up' = up /\ held' = held
      /\ length' = length /\ taken' = taken /\ lost' = lost
      /\ part = <<>> /\ data["worker"] = <<>> /\ n \in 1 .. Len(text)
  BY DEF AppendPart, Sending, history
<1>2. TypeOK /\ n \in Nat /\ text \in Text
  BY TxAssumption, Typed DEF TxInv
<1>3. text # <<>>
  BY <1>1, <1>2, Nothing
<1>4. TypeOK'
  BY <1>1, <1>2, Typed, TypedNext, FirstOf, RestOf
<1>5. FullData' /\ DataEnds("worker")'
  BY <1>1, Nothing DEF FullData, DataEnds, EndsAt
<1>6. BufferEnds'
  <2>1. EndsAt(text, length["worker"])
    BY DEF TxInv, BufferEnds
  <2>2. /\ EndsAt(Rest(text, n), length["worker"])
        /\ Rest(text, n) = <<>> => EndsAt(First(text, n), length["worker"])
    BY <1>2, <2>1, RestEnds
  <2>3. First(text, n) # <<>>
    <3>1. Len(First(text, n)) # 0
      BY <1>1, <1>2, FirstOf, Texts
    <3> QED  BY <3>1, Nothing
  <2> QED  BY <1>1, <2>2, <2>3 DEF BufferEnds
<1> QED  BY <1>1, <1>3, <1>4, <1>5, <1>6, WorkerKeeps DEF Buffered

LEMMA CopyKeeps == ASSUME TxInv, Copy PROVE TxInv'
<1>1. /\ TypeOK /\ text \in Text /\ part \in Text /\ tx \in Text
      /\ Len(tx) \in Nat /\ Len(part) \in Nat /\ Len(tx) < InfoLen /\ InfoLen \in Nat \ {0}
  BY Typed, Texts, TxAssumption DEF TxInv
<1>2. PICK room \in Nat : room = InfoLen - Len(tx) /\ room # 0
  BY <1>1
<1>3. PICK full \in Text :
        /\ full = tx \o First(part, room)
        /\ Len(full) = Len(tx) + Len(First(part, room))
        /\ \A i \in 1 .. Len(First(part, room)) : full[Len(tx) + i] = First(part, room)[i]
  <2>1. PICK u \in Text : u = First(part, room)
    BY <1>1, <1>2, FirstOf
  <2>2. /\ tx \o u \in Text /\ Len(tx \o u) = Len(tx) + Len(u)
        /\ \A i \in 1 .. Len(u) : (tx \o u)[Len(tx) + i] = u[i]
    BY <1>1, Joined
  <2> QED  BY <2>1, <2>2
<1>4. /\ part' = Rest(part, room) /\ text' = text
      /\ up' = up /\ held' = held /\ length' = length /\ taken' = taken /\ lost' = lost
      /\ part # <<>> /\ data["worker"] = <<>>
      /\ IF Len(full) >= InfoLen
         THEN SendBytes("worker", full) /\ tx' = <<>>
         ELSE tx' = full /\ data' = data /\ attempts' = attempts
  BY <1>2, <1>3 DEF Copy, Sending, history
<1>5. PICK f \in Nat : f = Len(First(part, room)) /\ f <= room /\ f <= Len(part)
                       /\ f = IF room < Len(part) THEN room ELSE Len(part)
  BY <1>1, <1>2, FirstOf
<1>6. Len(full) = Len(tx) + f /\ Len(full) <= InfoLen
  BY <1>1, <1>2, <1>3, <1>5
<1>7. part' \in Text /\ (f < room => part' = <<>>)
  BY <1>1, <1>2, <1>4, <1>5, RestOf, Texts
<1>8. "worker" \in Senders /\ data \in [Senders -> Text] /\ attempts \in [Senders -> 0 .. RetryMax - 1]
  BY <1>1, Typed DEF Senders
<1>9. /\ data' \in [Senders -> Text] /\ attempts' \in [Senders -> 0 .. RetryMax - 1]
      /\ \A s \in Senders \ {"worker"} : data'[s] = data[s]
      /\ tx' \in Text /\ Len(tx') < InfoLen
      /\ \/ data'["worker"] = full /\ Len(full) = InfoLen /\ tx' = <<>>
         \/ data'["worker"] = <<>> /\ tx' = full /\ Len(full) < InfoLen
  <2>1. CASE Len(full) >= InfoLen
    <3>1. data' = [data EXCEPT !["worker"] = full] /\ attempts' = [attempts EXCEPT !["worker"] = 0]
          /\ tx' = <<>>
      BY <1>4, <2>1 DEF SendBytes
    <3>2. 0 \in 0 .. RetryMax - 1 /\ Len(full) = InfoLen
      BY <1>1, <1>6, <2>1, TxAssumption
    <3> QED  BY <1>1, <1>8, <3>1, <3>2, Nothing
  <2>2. CASE ~(Len(full) >= InfoLen)
    BY <1>1, <1>4, <1>6, <1>8, <2>2
  <2> QED  BY <2>1, <2>2
<1>10. TypeOK'
  BY <1>1, <1>4, <1>7, <1>9, Typed, TypedNext
<1>11. text = <<>> /\ part' = <<>> => EndsAt(full, length["worker"])
  <2> SUFFICES ASSUME text = <<>>, part' = <<>> PROVE EndsAt(full, length["worker"])
    OBVIOUS
  <2>1. EndsAt(part, length["worker"])
    BY DEF TxInv, BufferEnds
  <2>2. First(part, room) = part /\ Len(part) # 0
    BY <1>1, <1>2, <1>4, <2>1, RestEnds, Texts
  <2>3. full[Len(tx) + Len(part)] = part[Len(part)] /\ Len(full) = Len(tx) + Len(part)
    BY <1>1, <1>3, <2>2
  <2> QED  BY <2>1, <2>2, <2>3 DEF EndsAt
<1>12. BufferEnds'
  <2>1. EndsAt(text, length["worker"]) /\ (text = <<>> => EndsAt(part, length["worker"]))
    BY DEF TxInv, BufferEnds
  <2>2. text = <<>> => EndsAt(part', length["worker"])
    BY <1>1, <1>2, <1>4, <2>1, RestEnds
  <2>3. text = <<>> /\ part' = <<>> => EndsAt(tx', length["worker"])
    BY <1>9, <1>11, Nothing DEF EndsAt
  <2> QED  BY <1>4, <2>1, <2>2, <2>3 DEF BufferEnds
<1>13. FullData'
  BY <1>9 DEF FullData
<1>14. DataEnds("worker")'
  BY <1>4, <1>9, <1>11, Nothing DEF DataEnds, Buffered, EndsAt
<1> QED  BY <1>4, <1>9, <1>10, <1>12, <1>13, <1>14, WorkerKeeps DEF Buffered

LEMMA FlushKeeps == ASSUME TxInv, Flush PROVE TxInv'
<1>1. /\ data' = [data EXCEPT !["worker"] = tx] /\ attempts' = [attempts EXCEPT !["worker"] = 0]
      /\ tx' = <<>> /\ text' = text /\ part' = part /\ up' = up /\ held' = held
      /\ length' = length /\ taken' = taken /\ lost' = lost
      /\ part = <<>> /\ text = <<>> /\ tx # <<>>
  BY DEF Flush, SendBytes, history
<1>2. TypeOK /\ "worker" \in Senders /\ 0 \in 0 .. RetryMax - 1 /\ InfoLen \in Nat \ {0}
  BY TxAssumption DEF TxInv, Senders
<1>3. data' \in [Senders -> Text] /\ attempts' \in [Senders -> 0 .. RetryMax - 1]
      /\ data'["worker"] = tx /\ \A s \in Senders \ {"worker"} : data'[s] = data[s]
  BY <1>1, <1>2, Typed
<1>4. TypeOK'
  BY <1>1, <1>2, <1>3, Typed, TypedNext, Nothing
<1>5. ~Buffered' /\ FullData'
  BY <1>1 DEF Buffered, FullData
<1>6. BufferEnds' /\ DataEnds("worker")'
  <2>1. EndsAt(tx, length["worker"])
    BY <1>1 DEF TxInv, BufferEnds
  <2> QED  BY <1>1, <1>3, <2>1, Nothing DEF BufferEnds, DataEnds, EndsAt
<1> QED  BY <1>1, <1>3, <1>4, <1>5, <1>6, WorkerKeeps DEF Buffered

LEMMA AnswerKeeps == ASSUME TxInv, NEW n \in 1 .. TextMax, Answer(n) PROVE TxInv'
<1>1. /\ data' = [data EXCEPT !["worker"] = Bytes(1, n)]
      /\ attempts' = [attempts EXCEPT !["worker"] = 0]
      /\ text' = text /\ part' = part /\ tx' = tx /\ up' = up /\ held' = held
      /\ length' = [length EXCEPT !["worker"] = n]
      /\ taken' = [taken EXCEPT !["worker"] = <<>>]
      /\ lost' = [lost EXCEPT !["worker"] = FALSE]
      /\ text = <<>> /\ part = <<>> /\ tx = <<>>
  BY DEF Answer, SendBytes, Begin, Replying, buffer
<1>2. /\ TypeOK /\ "worker" \in Senders /\ 0 \in 0 .. RetryMax - 1 /\ n \in 0 .. TextMax /\ n # 0
      /\ <<>> \in Seq(Text)
  BY TxAssumption, EmptySeq DEF TxInv, Senders
<1>3. /\ length'["worker"] = n /\ taken'["worker"] = <<>> /\ data'["worker"] = Bytes(1, n)
      /\ \A s \in Senders \ {"worker"} :
           length'[s] = length[s] /\ taken'[s] = taken[s] /\ data'[s] = data[s]
  BY <1>1, <1>2, Typed
<1>4. TypeOK'
  BY <1>1, <1>2, Typed, TypedNext, Numbered
<1>5. FullData' /\ BufferEnds'
  BY <1>1, Nothing DEF FullData, BufferEnds, Buffered, EndsAt
<1>6. ASSUME NEW s \in Senders PROVE DataEnds(s)' /\ ChunksOK(s)'
  <2>1. CASE s = "worker"
    <3>1. EndsAt(Bytes(1, n), n)
      BY Numbered DEF EndsAt
    <3> QED  BY <1>2, <1>3, <2>1, <3>1, ChunksNew DEF DataEnds
  <2>2. CASE s # "worker"
    BY <1>3, <2>2, OthersLeft
  <2> QED  BY <2>1, <2>2
<1> QED  BY <1>4, <1>5, <1>6 DEF TxInv

\* What one of the others sends leaves the worker's reply alone.
LEMMA OtherKeeps == ASSUME TxInv, NEW s \in Senders, NEW n \in 1 .. TextMax, Other(s, n) PROVE TxInv'
<1>1. /\ data' = [data EXCEPT ![s] = Bytes(1, n)]
      /\ attempts' = [attempts EXCEPT ![s] = 0]
      /\ text' = text /\ part' = part /\ tx' = tx /\ up' = up /\ held' = held
      /\ length' = [length EXCEPT ![s] = n]
      /\ taken' = [taken EXCEPT ![s] = <<>>]
      /\ lost' = [lost EXCEPT ![s] = FALSE]
      /\ s # "worker"
  BY DEF Other, SendBytes, Begin, buffer
<1>2. TypeOK /\ 0 \in 0 .. RetryMax - 1 /\ n \in 0 .. TextMax /\ n # 0 /\ <<>> \in Seq(Text)
  BY TxAssumption, EmptySeq DEF TxInv
<1>3. /\ length'[s] = n /\ taken'[s] = <<>> /\ data'[s] = Bytes(1, n)
      /\ \A r \in Senders \ {s} :
           length'[r] = length[r] /\ taken'[r] = taken[r] /\ data'[r] = data[r]
  BY <1>1, <1>2, Typed
<1>4. TypeOK'
  BY <1>1, <1>2, Typed, TypedNext, Numbered
<1>5. "worker" \in Senders \ {s}
  BY <1>1 DEF Senders
<1>6. FullData' /\ BufferEnds'
  BY <1>1, <1>3, <1>5 DEF TxInv, FullData, BufferEnds, Buffered, EndsAt
<1>7. ASSUME NEW r \in Senders PROVE DataEnds(r)' /\ ChunksOK(r)'
  <2>1. CASE r = s
    <3>1. EndsAt(Bytes(1, n), n)
      BY Numbered DEF EndsAt
    <3> QED  BY <1>3, <2>1, <3>1, ChunksNew DEF DataEnds
  <2>2. CASE r # s
    <3>1. length'[r] = length[r] /\ taken'[r] = taken[r] /\ data'[r] = data[r]
      BY <1>3, <2>2
    <3>2. (Left(r)' => Left(r)) /\ (Buffered' => Buffered) /\ (Buffered => Buffered')
      BY <1>1, <3>1 DEF Left, Buffered
    <3>3. ChunksOK(r)'
      BY <3>1, <3>2, ChunksKept DEF TxInv
    <3>4. DataEnds(r)'
      BY <3>1, <3>2 DEF TxInv, DataEnds, EndsAt
    <3> QED  BY <3>3, <3>4
  <2> QED  BY <2>1, <2>2
<1> QED  BY <1>4, <1>6, <1>7 DEF TxInv
-----------------------------------------------------------------------------
(* bbs_send_bytes(). *)

\* A chunk that is not full is the last, and has the end of the text.
LEMMA SendOkKeeps == ASSUME TxInv, NEW s \in Senders, SendOk(s) PROVE TxInv'
<1>1. /\ TypeOK /\ data \in [Senders -> Text] /\ taken \in [Senders -> Seq(Text)]
      /\ InfoLen \in Nat \ {0} /\ 0 \in 0 .. RetryMax - 1 /\ held \in [Destinations -> 0 .. Window]
  BY Typed, TxAssumption DEF TxInv
<1>2. PICK d \in Text : d = data[s] /\ d # <<>>
  BY <1>1 DEF SendOk, Sending
<1>3. PICK chunk \in Text, rest \in Text : chunk = First(d, InfoLen) /\ rest = Rest(d, InfoLen)
  BY <1>1, FirstOf, RestOf
<1>4. PICK log \in Seq(Text) : log = taken[s]
  BY <1>1
<1>5. /\ taken' = [taken EXCEPT ![s] = Append(log, chunk)]
      /\ data' = [data EXCEPT ![s] = rest] /\ attempts' = [attempts EXCEPT ![s] = 0]
      /\ held' = [held EXCEPT ![Destination[s]] = held[Destination[s]] + 1]
      /\ held[Destination[s]] # Window
      /\ text' = text /\ part' = part /\ tx' = tx /\ up' = up /\ length' = length /\ lost' = lost
  BY <1>2, <1>3, <1>4 DEF SendOk, Advance, Full, buffer
<1>6. Destination[s] \in Destinations
  BY DEF Destination, Destinations, Senders
<1>7. held' \in [Destinations -> 0 .. Window]
  <2>1. PICK h \in 0 .. Window : h = held[Destination[s]] /\ h + 1 \in 0 .. Window
    BY <1>1, <1>5, <1>6, TxAssumption
  <2> QED  BY <1>1, <1>5, <1>6, <2>1
<1>8. PICK n \in Nat : n = Len(log)
  BY LenProperties
<1>9. PICK new \in Seq(Text) :
        /\ new = Append(log, chunk) /\ Len(new) = n + 1
        /\ new[n + 1] = chunk /\ \A i \in 1 .. n : new[i] = log[i]
  <2> HIDE DEF Text
  <2>1. /\ Append(log, chunk) \in Seq(Text) /\ Len(Append(log, chunk)) = Len(log) + 1
        /\ \A i \in 1 .. Len(log) : Append(log, chunk)[i] = log[i]
        /\ Append(log, chunk)[Len(log) + 1] = chunk
    BY AppendProperties
  <2> QED  BY <1>8, <2>1
<1>10. /\ taken'[s] = new /\ data'[s] = rest
       /\ \A r \in Senders \ {s} : taken'[r] = taken[r] /\ data'[r] = data[r]
  BY <1>1, <1>5, <1>9
<1>11. TypeOK'
  <2>1. taken' \in [Senders -> Seq(Text)] /\ data' \in [Senders -> Text]
    BY <1>1, <1>3, <1>5, <1>9
  <2>2. attempts' \in [Senders -> 0 .. RetryMax - 1]
    BY <1>1, <1>5, Typed
  <2> QED  BY <1>1, <1>5, <1>7, <2>1, <2>2, Typed, TypedNext
<1>12. PICK k \in Nat : k = Len(d) /\ k # 0
  BY <1>2, Texts
<1>13. /\ Len(chunk) = IF InfoLen < k THEN InfoLen ELSE k
       /\ Len(rest) = IF InfoLen < k THEN k - InfoLen ELSE 0
       /\ \A i \in 1 .. Len(chunk) : chunk[i] = d[i]
  BY <1>1, <1>3, <1>12, FirstOf, RestOf
<1>14. rest # <<>> => Len(chunk) = InfoLen
  <2>1. Len(rest) # 0 => InfoLen < k
    BY <1>1, <1>12, <1>13
  <2> QED  BY <1>13, <2>1, Texts
<1>15. s = "worker" /\ Buffered => rest = <<>> /\ Len(chunk) = InfoLen
  <2> SUFFICES ASSUME s = "worker", Buffered PROVE rest = <<>> /\ Len(chunk) = InfoLen
    OBVIOUS
  <2>1. k = InfoLen
    BY <1>2, <1>12 DEF TxInv, FullData
  <2>2. Len(rest) = 0 /\ Len(chunk) = InfoLen
    BY <1>1, <1>13, <2>1
  <2> QED  BY <2>2, Texts
<1>16. Len(chunk) # InfoLen => \E i \in 1 .. Len(chunk) : chunk[i] = length[s]
  <2> SUFFICES ASSUME Len(chunk) # InfoLen PROVE \E i \in 1 .. Len(chunk) : chunk[i] = length[s]
    OBVIOUS
  <2>1. Len(chunk) = k /\ k \in 1 .. k
    BY <1>12, <1>13
  <2>2. d[k] = length[s]
    <3>1. ~(s = "worker" /\ Buffered)
      BY <1>15
    <3> QED  BY <1>2, <1>12, <3>1 DEF TxInv, DataEnds, EndsAt
  <2> QED  BY <1>13, <2>1, <2>2
<1>17. /\ \A i \in 1 .. n : Len(log[i]) = InfoLen
       /\ Len(chunk) <= InfoLen
  <2>1. Left(s) /\ ChunksOK(s)
    BY <1>2 DEF Left, TxInv
  <2>2. \A i \in 1 .. n : Len(log[i]) = InfoLen
    BY <1>4, <1>8, <2>1 DEF ChunksOK
  <2> QED  BY <1>1, <1>12, <1>13, <2>2
<1>18. Left(s)' => Len(chunk) = InfoLen
  BY <1>5, <1>10, <1>14, <1>15 DEF Left, Buffered
<1>19. ChunksOK(s)'
  <2> SUFFICES ASSUME NEW i \in 1 .. n + 1
               PROVE  /\ Len(new[i]) <= InfoLen
                      /\ i < n + 1 \/ Left(s)' => Len(new[i]) = InfoLen
                      /\ Len(new[i]) # InfoLen => \E j \in 1 .. Len(new[i]) : new[i][j] = length[s]
    <3>1. taken'[s] = new /\ Len(new) = n + 1 /\ length'[s] = length[s]
      BY <1>5, <1>9, <1>10
    <3> QED  BY <3>1 DEF ChunksOK
  <2>1. CASE i = n + 1
    BY <1>9, <1>16, <1>17, <1>18, <2>1
  <2>2. CASE i # n + 1
    <3>1. i \in 1 .. n
      BY <2>2
    <3>2. Len(new[i]) = InfoLen
      BY <1>9, <1>17, <3>1
    <3> QED  BY <1>1, <3>2
  <2> QED  BY <2>1, <2>2
<1>20. DataEnds(s)'
  <2> SUFFICES ASSUME ~(s = "worker" /\ Buffered) PROVE EndsAt(rest, length[s])
    BY <1>5, <1>10 DEF DataEnds, Buffered
  <2>1. EndsAt(d, length[s])
    BY <1>2 DEF TxInv, DataEnds
  <2> QED  BY <1>1, <1>3, <2>1, RestEnds
<1>21. ASSUME NEW r \in Senders \ {s} PROVE DataEnds(r)' /\ ChunksOK(r)'
  <2>1. (Left(r)' => Left(r)) /\ (Buffered' => Buffered) /\ (Buffered => Buffered')
    BY <1>5, <1>10 DEF Left, Buffered
  <2>2. ChunksOK(r)'
    BY <1>5, <1>10, <2>1, ChunksKept DEF TxInv
  <2>3. DataEnds(r)'
    BY <1>5, <1>10, <2>1 DEF TxInv, DataEnds, EndsAt
  <2> QED  BY <2>2, <2>3
<1>22. FullData' /\ BufferEnds'
  <2>1. "worker" \in Senders
    BY DEF Senders
  <2>2. Buffered' => data'["worker"] = <<>> \/ data'["worker"] = data["worker"]
    BY <1>5, <1>10, <1>15, <2>1 DEF Buffered
  <2>3. FullData'
    BY <1>5, <2>2 DEF TxInv, FullData, Buffered
  <2>4. BufferEnds'
    BY <1>5 DEF TxInv, BufferEnds, EndsAt
  <2> QED  BY <2>3, <2>4
<1> QED  BY <1>11, <1>19, <1>20, <1>21, <1>22 DEF TxInv

\* A failed attempt leaves the text as it is, or gives up the rest of it.
LEMMA SendNoMemKeeps == ASSUME TxInv, NEW s \in Senders, SendNoMem(s) PROVE TxInv'
<1>1. TypeOK /\ data \in [Senders -> Text] /\ RetryMax \in Nat \ {0}
      /\ attempts \in [Senders -> 0 .. RetryMax - 1]
  BY Typed, TxAssumption DEF TxInv
<1>2. /\ text' = text /\ part' = part /\ tx' = tx /\ up' = up /\ held' = held
      /\ length' = length /\ taken' = taken
      /\ attempts' = [attempts EXCEPT ![s] = IF attempts[s] + 1 = RetryMax THEN 0 ELSE attempts[s] + 1]
      /\ data' = data \/ data' = [data EXCEPT ![s] = <<>>]
  BY DEF SendNoMem, Attempt, buffer
<1>3. lost' \in [Senders -> BOOLEAN]
  <2>1. (lost[s] \/ attempts[s] + 1 = RetryMax) \in BOOLEAN
    BY Zenon
  <2>2. lost' = [lost EXCEPT ![s] = lost[s] \/ attempts[s] + 1 = RetryMax]
    BY DEF SendNoMem, Attempt
  <2>3. lost \in [Senders -> BOOLEAN]
    BY <1>1, Typed
  <2> QED  BY <2>1, <2>2, <2>3, Zenon
<1>4. attempts' \in [Senders -> 0 .. RetryMax - 1]
  <2>1. PICK a \in 0 .. RetryMax - 1 : a = attempts[s]
    BY <1>1
  <2>2. (IF a + 1 = RetryMax THEN 0 ELSE a + 1) \in 0 .. RetryMax - 1
    BY <1>1
  <2> QED  BY <1>1, <1>2, <2>1, <2>2
<1>5. data' \in [Senders -> Text] /\ \A r \in Senders : data'[r] = data[r] \/ data'[r] = <<>>
  BY <1>1, <1>2, Nothing
<1>6. TypeOK'
  BY <1>1, <1>2, <1>3, <1>4, <1>5, Typed, TypedNext
<1> QED  BY <1>2, <1>5, <1>6, NoText

LEMMA SendFailsKeeps == ASSUME TxInv, NEW s \in Senders, SendFails(s) PROVE TxInv'
<1>1. TypeOK /\ data \in [Senders -> Text] /\ 0 \in 0 .. RetryMax - 1
  BY Typed, TxAssumption DEF TxInv
<1>2. /\ text' = text /\ part' = part /\ tx' = tx /\ up' = up /\ held' = held
      /\ length' = length /\ taken' = taken
      /\ attempts' = [attempts EXCEPT ![s] = 0] /\ lost' = [lost EXCEPT ![s] = TRUE]
      /\ data' = [data EXCEPT ![s] = <<>>]
  BY DEF SendFails, buffer
<1>3. data' \in [Senders -> Text] /\ \A r \in Senders : data'[r] = data[r] \/ data'[r] = <<>>
  BY <1>1, <1>2, Nothing
<1>4. TypeOK'
  BY <1>1, <1>2, <1>3, Typed, TypedNext
<1> QED  BY <1>2, <1>3, <1>4, NoText

LEMMA DestinationsKeep ==
  ASSUME TxInv, (\E d \in Destinations : Pass(d)) \/ LinkChanges
  PROVE  TxInv'
<1>1. /\ text' = text /\ part' = part /\ tx' = tx /\ data' = data /\ attempts' = attempts
      /\ length' = length /\ taken' = taken /\ lost' = lost
  BY DEF Pass, LinkChanges, buffer, history
<1>2. TypeOK
  BY DEF TxInv
<1>3. up' \in BOOLEAN /\ held' \in [Destinations -> 0 .. Window]
  <2>1. CASE \E d \in Destinations : Pass(d)
    <3>1. PICK d \in Destinations : held[d] > 0 /\ held' = [held EXCEPT ![d] = held[d] - 1] /\ up' = up
      BY <2>1 DEF Pass
    <3>2. PICK h \in 0 .. Window : h = held[d] /\ h - 1 \in 0 .. Window
      BY <1>2, <3>1, Typed, TxAssumption
    <3> QED  BY <1>2, <3>1, <3>2, Typed
  <2>2. CASE LinkChanges
    <3>1. up' \in BOOLEAN
      BY <2>2, Zenon DEF LinkChanges
    <3>2. held' = [held EXCEPT !["link"] = 0] /\ 0 \in 0 .. Window
      BY <2>2, TxAssumption DEF LinkChanges
    <3> QED  BY <1>2, <3>1, <3>2, Typed
  <2> QED  BY <2>1, <2>2
<1>4. TypeOK'
  BY <1>1, <1>2, <1>3, Typed, TypedNext
<1> QED  BY <1>1, <1>4, NoText

LEMMA Inductive == Spec => []TxInv
<1>1. Init => TxInv
  <2> SUFFICES ASSUME Init PROVE TxInv
    OBVIOUS
  <2>1. /\ text = <<>> /\ part = <<>> /\ tx = <<>> /\ up = FALSE
        /\ data = [s \in Senders |-> <<>>] /\ attempts = [s \in Senders |-> 0]
        /\ length = [s \in Senders |-> 0] /\ taken = [s \in Senders |-> <<>>]
        /\ lost = [s \in Senders |-> FALSE] /\ held = [d \in Destinations |-> 0]
    BY DEF Init
  <2>2. /\ 0 \in 0 .. TextMax /\ 0 \in 0 .. RetryMax - 1 /\ 0 \in 0 .. Window
        /\ 0 < InfoLen /\ <<>> \in Seq(Text) /\ <<>> \in Text /\ Len(<<>>) = 0
    BY TxAssumption, EmptySeq, Nothing
  <2>3. TypeOK
    BY <2>1, <2>2 DEF TypeOK, Text, Byte
  <2>4. FullData /\ BufferEnds
    BY <2>1, <2>2 DEF FullData, BufferEnds, Buffered, EndsAt
  <2>5. ASSUME NEW s \in Senders PROVE DataEnds(s) /\ ChunksOK(s)
    <3>1. data[s] = <<>> /\ Len(taken[s]) = 0
      BY <2>1, <2>2
    <3> QED  BY <2>2, <3>1 DEF DataEnds, EndsAt, ChunksOK
  <2> QED  BY <2>3, <2>4, <2>5 DEF TxInv
<1>2. TxInv /\ [Next]_vars => TxInv'
  <2> SUFFICES ASSUME TxInv, [Next]_vars PROVE TxInv'
    OBVIOUS
  <2>1. CASE UNCHANGED vars
    <3>1. /\ text' = text /\ part' = part /\ tx' = tx /\ data' = data /\ attempts' = attempts
          /\ length' = length /\ taken' = taken /\ lost' = lost /\ up' = up /\ held' = held
      BY <2>1 DEF vars, buffer, history
    <3>2. TypeOK'
      BY <3>1, Typed, TypedNext DEF TxInv
    <3> QED  BY <3>1, <3>2, NoText
  <2>2. CASE Worker
    <3>1. "worker" \in Senders
      BY DEF Senders
    <3> QED  BY <2>2, <3>1, AppendPartKeeps, CopyKeeps, FlushKeeps, SendOkKeeps, SendNoMemKeeps,
                SendFailsKeeps DEF Worker, SendAttempt, SendRefused
  <2>3. CASE \E n \in 1 .. TextMax : Reply(n) \/ Answer(n)
    BY <2>3, ReplyKeeps, AnswerKeeps
  <2>4. CASE \E s \in Senders, n \in 1 .. TextMax : Other(s, n)
    BY <2>4, OtherKeeps
  <2>5. CASE \E s \in Senders : SendAttempt(s) \/ SendFails(s)
    BY <2>5, SendOkKeeps, SendNoMemKeeps, SendFailsKeeps DEF SendAttempt, SendRefused
  <2>6. CASE (\E d \in Destinations : Pass(d)) \/ LinkChanges
    BY <2>6, DestinationsKeep
  <2> QED  BY <2>1, <2>2, <2>3, <2>4, <2>5, <2>6 DEF Next
<1> QED  BY <1>1, <1>2, PTL DEF Spec
-----------------------------------------------------------------------------
(* FlattenSeq, by induction on how many of the chunks are flattened. *)

LEMMA Induction ==
  ASSUME NEW S \in SUBSET Nat, 0 \in S, \A n \in S : n + 1 \in S
  PROVE  S = Nat
<1> SUFFICES ASSUME Nat \ S # {} PROVE FALSE
  OBVIOUS
<1>1. PICK x \in Nat \ S : \A y \in Nat \ S : <<y, x>> \notin OpToRel(<, Nat)
  BY NatLessThanWellFounded, WFMin
<1>2. x # 0 /\ x - 1 \in Nat /\ x - 1 < x /\ x - 1 + 1 = x
  OBVIOUS
<1>3. x - 1 \notin Nat \ S
  BY <1>1, <1>2 DEF OpToRel
<1> QED  BY <1>2, <1>3

\* The recursive function of FlattenSeq.
Flattens(f, parts, n) ==
  f = [i \in 1 .. n |-> IF i = 1 THEN parts[i] ELSE f[i - 1] \o parts[i]]

\* Its value at one place.
LEMMA FlattenAt ==
  ASSUME NEW f, NEW parts, NEW n, Flattens(f, parts, n), NEW i \in 1 .. n
  PROVE  f[i] = IF i = 1 THEN parts[i] ELSE f[i - 1] \o parts[i]
<1> DEFINE F == [j \in 1 .. n |-> IF j = 1 THEN parts[j] ELSE f[j - 1] \o parts[j]]
<1>1. F[i] = IF i = 1 THEN parts[i] ELSE f[i - 1] \o parts[i]
  OBVIOUS
<1>2. f = F
  BY DEF Flattens
<1> HIDE DEF F
<1>3. f[i] = F[i]
  BY <1>2
<1> QED  BY <1>1, <1>3

\* A function that flattens some of the chunks is extended to one more.
LEMMA FlattenStep ==
  ASSUME NEW parts \in Seq(Text), NEW n \in Nat, n + 1 <= Len(parts),
         NEW f \in [1 .. n -> Text], Flattens(f, parts, n)
  PROVE  \E g \in [1 .. n + 1 -> Text] : Flattens(g, parts, n + 1)
<1>1. parts[n + 1] \in Text /\ \A i \in 1 .. n : parts[i] \in Text
  <2> HIDE DEF Text
  <2> QED  BY LenProperties, ElementOfSeq
<1>2. PICK t \in Text : t = IF n = 0 THEN parts[n + 1] ELSE f[n] \o parts[n + 1]
  <2>1. CASE n = 0
    BY <1>1, <2>1
  <2>2. CASE n # 0
    <3>1. PICK u \in Text : u = f[n]
      BY <2>2
    <3>2. u \o parts[n + 1] \in Text
      BY <1>1, ConcatProperties DEF Text
    <3> QED  BY <2>2, <3>1, <3>2
  <2> QED  BY <2>1, <2>2
<1>3. PICK g \in [1 .. n + 1 -> Text] : g = [i \in 1 .. n + 1 |-> IF i = n + 1 THEN t ELSE f[i]]
  <2> HIDE DEF Text
  <2>1. \A i \in 1 .. n + 1 : i # n + 1 => i \in 1 .. n
    OBVIOUS
  <2> QED  BY <2>1
<1>4. ASSUME NEW i \in 1 .. n + 1 PROVE g[i] = IF i = 1 THEN parts[i] ELSE g[i - 1] \o parts[i]
  <2> HIDE DEF Text
  <2>1. CASE i = n + 1
    <3>1. g[i] = t /\ (n # 0 => g[n] = f[n] /\ i - 1 = n) /\ (n = 0 <=> i = 1)
      BY <1>3, <2>1
    <3> QED  BY <1>2, <2>1, <3>1
  <2>2. CASE i # n + 1
    <3>1. i \in 1 .. n /\ g[i] = f[i] /\ (i # 1 => i - 1 \in 1 .. n + 1 /\ i - 1 # n + 1 /\ g[i - 1] = f[i - 1])
      BY <1>3, <2>2
    <3>2. f[i] = IF i = 1 THEN parts[i] ELSE f[i - 1] \o parts[i]
      BY <3>1 DEF Flattens
    <3> QED  BY <3>1, <3>2
  <2> QED  BY <2>1, <2>2
<1>5. Flattens(g, parts, n + 1)
  <2> HIDE DEF Text
  <2>1. g = [i \in 1 .. n + 1 |-> g[i]]
    BY <1>3
  <2> QED  BY <1>4, <2>1 DEF Flattens
<1> QED  BY <1>5

\* Any number of the chunks has such a function.
LEMMA FlattenExists ==
  ASSUME NEW parts \in Seq(Text)
  PROVE  \A n \in 0 .. Len(parts) : \E f \in [1 .. n -> Text] : Flattens(f, parts, n)
<1> HIDE DEF Text
<1> DEFINE S == {n \in Nat : n <= Len(parts) => \E f \in [1 .. n -> Text] : Flattens(f, parts, n)}
<1>1. Len(parts) \in Nat
  BY LenProperties
<1>2. 0 \in S
  <2>1. 1 .. 0 = {}
    OBVIOUS
  <2>2. PICK f \in [1 .. 0 -> Text] : f = [i \in 1 .. 0 |-> <<>>]
    BY <2>1
  <2>3. Flattens(f, parts, 0)
    BY <2>1, <2>2 DEF Flattens
  <2> QED  BY <2>3
<1>3. \A n \in S : n + 1 \in S
  <2> SUFFICES ASSUME NEW n \in Nat, n \in S, n + 1 <= Len(parts)
               PROVE  \E g \in [1 .. n + 1 -> Text] : Flattens(g, parts, n + 1)
    OBVIOUS
  <2>1. n <= Len(parts)
    BY <1>1
  <2>2. PICK f \in [1 .. n -> Text] : Flattens(f, parts, n)
    BY <2>1
  <2> QED  BY <2>2, FlattenStep
<1>4. S = Nat
  <2> HIDE DEF S
  <2>1. S \in SUBSET Nat
    BY DEF S
  <2> QED  BY <1>2, <1>3, <2>1, Induction
<1> QED  BY <1>1, <1>4

\* And it is determined by the parts.
LEMMA FlattenUnique ==
  ASSUME NEW parts \in Seq(Text), NEW more \in Seq(Text), NEW n \in Nat, NEW m \in Nat, n <= m,
         \A i \in 1 .. n : parts[i] = more[i],
         NEW f, Flattens(f, parts, n), NEW g, Flattens(g, more, m)
  PROVE  n # 0 => f[n] = g[n]
<1> DEFINE S == {k \in Nat : k \in 1 .. n => f[k] = g[k]}
<1>1. 0 \in S
  OBVIOUS
<1>2. \A k \in S : k + 1 \in S
  <2> SUFFICES ASSUME NEW k \in Nat, k \in S, k + 1 \in 1 .. n PROVE f[k + 1] = g[k + 1]
    OBVIOUS
  <2>1. /\ k + 1 \in 1 .. m /\ k + 1 - 1 = k /\ (k + 1 = 1 <=> k = 0) /\ (k # 0 => k \in 1 .. n)
    OBVIOUS
  <2>2. f[k + 1] = IF k + 1 = 1 THEN parts[k + 1] ELSE f[k + 1 - 1] \o parts[k + 1]
    BY FlattenAt
  <2>3. g[k + 1] = IF k + 1 = 1 THEN more[k + 1] ELSE g[k + 1 - 1] \o more[k + 1]
    BY <2>1, FlattenAt
  <2>4. parts[k + 1] = more[k + 1]
    OBVIOUS
  <2> QED  BY <2>1, <2>2, <2>3, <2>4
<1>3. S = Nat
  <2> HIDE DEF S
  <2>1. S \in SUBSET Nat
    BY DEF S
  <2> QED  BY <1>1, <1>2, <2>1, Induction
<1> QED  BY <1>3

\* What FlattenSeq yields is the last of any function that flattens.
LEMMA Flattened ==
  ASSUME NEW parts \in Seq(Text), Len(parts) # 0,
         NEW f, Flattens(f, parts, Len(parts))
  PROVE  FlattenSeq(parts) = f[Len(parts)]
<1> HIDE DEF Text
<1>1. PICK n \in Nat : n = Len(parts) /\ n # 0
  BY LenProperties
<1> DEFINE c == CHOOSE h : h = [i \in 1 .. Len(parts) |-> IF i = 1 THEN parts[i] ELSE h[i - 1] \o parts[i]]
<1>2. FlattenSeq(parts) = c[Len(parts)]
  BY DEF FlattenSeq
<1>3. Flattens(c, parts, Len(parts))
  BY DEF Flattens
<1>4. c[n] = f[n]
  <2> HIDE DEF c
  <2>1. Flattens(c, parts, n) /\ Flattens(f, parts, n) /\ n \in 1 .. n /\ n <= n
    BY <1>1, <1>3
  <2>2. n # 0 => c[n] = f[n]
    BY <2>1, FlattenUnique
  <2> QED  BY <1>1, <2>2
<1> QED  BY <1>1, <1>2, <1>4

LEMMA FlattenNothing == FlattenSeq(<<>>) = <<>>
<1>1. Len(<<>>) = 0
  BY EmptySeq
<1> QED  BY <1>1 DEF FlattenSeq

\* Texts are joined to a text, and one more is put at the end.
LEMMA FlattenText == ASSUME NEW parts \in Seq(Text) PROVE FlattenSeq(parts) \in Text
<1> HIDE DEF Text
<1>1. PICK n \in Nat : n = Len(parts)
  BY LenProperties
<1>2. CASE n = 0
  <2>1. parts = <<>>
    BY <1>1, <1>2, EmptySeq
  <2>2. <<>> \in Text
    BY EmptySeq DEF Text
  <2> QED  BY <2>1, <2>2, FlattenNothing
<1>3. CASE n # 0
  <2>1. PICK f \in [1 .. n -> Text] : Flattens(f, parts, n)
    BY <1>1, FlattenExists
  <2>2. FlattenSeq(parts) = f[n]
    BY <1>1, <1>3, <2>1, Flattened
  <2> QED  BY <1>3, <2>1, <2>2
<1> QED  BY <1>2, <1>3

LEMMA FlattenAppend ==
  ASSUME NEW parts \in Seq(Text), NEW t \in Text
  PROVE  FlattenSeq(Append(parts, t)) = FlattenSeq(parts) \o t
<1> HIDE DEF Text
<1>1. PICK n \in Nat : n = Len(parts)
  BY LenProperties
<1>2. PICK more \in Seq(Text) :
        /\ more = Append(parts, t) /\ Len(more) = n + 1
        /\ more[n + 1] = t /\ \A i \in 1 .. n : more[i] = parts[i]
  <2>1. /\ Append(parts, t) \in Seq(Text) /\ Len(Append(parts, t)) = Len(parts) + 1
        /\ \A i \in 1 .. Len(parts) : Append(parts, t)[i] = parts[i]
        /\ Append(parts, t)[Len(parts) + 1] = t
    BY AppendProperties
  <2> QED  BY <1>1, <2>1
<1>3. PICK g \in [1 .. n + 1 -> Text] : Flattens(g, more, n + 1)
  <2>1. n + 1 \in 0 .. Len(more)
    BY <1>1, <1>2
  <2> QED  BY <2>1, FlattenExists
<1>4. FlattenSeq(more) = g[n + 1]
  <2>1. n + 1 # 0
    BY <1>1
  <2> QED  BY <1>2, <1>3, <2>1, Flattened
<1>5. g[n + 1] = IF n = 0 THEN t ELSE g[n] \o t
  <2>1. n + 1 \in 1 .. n + 1 /\ n + 1 - 1 = n /\ (n + 1 = 1 <=> n = 0)
    BY <1>1
  <2>2. g[n + 1] = IF n + 1 = 1 THEN more[n + 1] ELSE g[n + 1 - 1] \o more[n + 1]
    BY <1>3, <2>1, FlattenAt
  <2> QED  BY <1>2, <2>1, <2>2
<1>6. CASE n = 0
  <2>1. parts = <<>> /\ FlattenSeq(parts) = <<>>
    BY <1>1, <1>6, EmptySeq, FlattenNothing
  <2>2. <<>> \o t = t
    BY ConcatEmptySeq DEF Text
  <2> QED  BY <1>2, <1>4, <1>5, <1>6, <2>1, <2>2
<1>7. CASE n # 0
  <2>1. PICK f \in [1 .. n -> Text] : Flattens(f, parts, n)
    BY <1>1, FlattenExists
  <2>2. FlattenSeq(parts) = f[n]
    BY <1>1, <1>7, <2>1, Flattened
  <2>3. n # 0 => f[n] = g[n]
    <3>1. PICK m \in Nat : m = n + 1 /\ n <= m
      BY <1>1
    <3>2. Flattens(f, parts, n) /\ Flattens(g, more, m) /\ \A i \in 1 .. n : parts[i] = more[i]
      BY <1>2, <1>3, <2>1, <3>1
    <3> QED  BY <3>1, <3>2, FlattenUnique
  <2>4. f[n] = g[n]
    BY <1>7, <2>3
  <2> QED  BY <1>2, <1>4, <1>5, <1>7, <2>2, <2>4
<1> QED  BY <1>6, <1>7
-----------------------------------------------------------------------------
(* No byte is lost, doubled or moved. *)

\* In order, without a doubled one.
Ascending(bytes) == \A i, j \in 1 .. Len(bytes) : i < j => bytes[i] < bytes[j]

\* Of a sender's text of n bytes, what went out by chunks, what is being sent and
\* what is behind that.
Intact(log, d, rest, n, gone) ==
  /\ Ascending(FlattenSeq(log) \o d \o rest)
  /\ gone \/ FlattenSeq(log) \o d \o rest = Bytes(1, n)

Behind(s) == IF s = "worker" THEN tx \o part \o text ELSE <<>>

\* The stronger form of Whole: the order is of any two bytes, not of neighbours,
\* for it has to outlive the loss of what lies between.
WholeInv == \A s \in Senders : Intact(taken[s], data[s], Behind(s), length[s], lost[s])

LEMMA Assoc == ASSUME NEW t \in Text, NEW u \in Text, NEW v \in Text PROVE (t \o u) \o v = t \o (u \o v)
<1> HIDE DEF Byte
<1> QED  BY ConcatAssociative DEF Text

LEMMA Units == ASSUME NEW t \in Text PROVE t \o <<>> = t /\ <<>> \o t = t
<1> HIDE DEF Byte
<1> QED  BY ConcatEmptySeq DEF Text

\* Where the bytes of two texts are once they are joined.
LEMMA Places ==
  ASSUME NEW t \in Text, NEW u \in Text
  PROVE  /\ t \o u \in Text /\ Len(t \o u) = Len(t) + Len(u)
         /\ \A i \in 1 .. Len(t) + Len(u) : (t \o u)[i] = IF i <= Len(t) THEN t[i] ELSE u[i - Len(t)]
<1> HIDE DEF Byte
<1> QED  BY ConcatProperties DEF Text

\* The same as a relation of three texts, for the provers to take as it is.
PlacedIn(h, t, u) ==
  /\ h \in Text /\ Len(h) = Len(t) + Len(u)
  /\ \A i \in 1 .. Len(t) : h[i] = t[i]
  /\ \A i \in 1 .. Len(u) : h[Len(t) + i] = u[i]

LEMMA Placed ==
  ASSUME NEW t \in Text, NEW u \in Text
  PROVE  PlacedIn(t \o u, t, u)
<1>1. Len(t) \in Nat /\ Len(u) \in Nat
  BY Texts
<1>2. PICK a \in Nat, b \in Nat : a = Len(t) /\ b = Len(u)
  BY <1>1
<1>3. PICK h : h = t \o u
  OBVIOUS
<1>4. h \in Text /\ Len(h) = Len(t) + Len(u)
  BY <1>3, Places
<1>5. \A i \in 1 .. a + b : h[i] = IF i <= a THEN t[i] ELSE u[i - a]
  <2>1. \A i \in 1 .. a + b : (t \o u)[i] = IF i <= a THEN t[i] ELSE u[i - a]
    BY <1>2, Places
  <2> QED  BY <1>3, <2>1
<1>6. ASSUME NEW i \in 1 .. a PROVE h[i] = t[i]
  <2>1. i \in 1 .. a + b /\ i <= a
    OBVIOUS
  <2> QED  BY <1>5, <2>1
<1>7. ASSUME NEW i \in 1 .. b PROVE h[a + i] = u[i]
  <2>1. PICK k \in 1 .. a + b : k = a + i /\ ~(k <= a) /\ k - a = i
    OBVIOUS
  <2> QED  BY <1>5, <2>1
<1>8. PlacedIn(h, t, u)
  BY <1>2, <1>4, <1>6, <1>7 DEF PlacedIn
<1> QED  BY <1>3, <1>8

LEMMA Divided ==
  ASSUME NEW t \in Text, NEW n \in Nat
  PROVE  First(t, n) \o Rest(t, n) = t
<1>1. PICK l \in Nat : l = Len(t)
  BY Texts
<1>2. PICK a \in Text, b \in Text : a = First(t, n) /\ b = Rest(t, n)
  BY FirstOf, RestOf
<1>3. PICK k \in Nat : k = IF n < l THEN n ELSE l
  OBVIOUS
<1>4. /\ Len(a) = k /\ \A i \in 1 .. k : a[i] = t[i]
      /\ Len(b) = l - k /\ \A i \in 1 .. l - k : b[i] = t[k + i]
  <2>1. Len(a) = k /\ \A i \in 1 .. k : a[i] = t[i]
    BY <1>1, <1>2, <1>3, FirstOf
  <2>2. Len(b) = (IF n < l THEN l - n ELSE 0) /\ \A i \in 1 .. Len(b) : b[i] = t[n + i]
    BY <1>1, <1>2, RestOf
  <2> QED  BY <1>3, <2>1, <2>2
<1>5. PICK h : h = a \o b
  OBVIOUS
<1>6. PlacedIn(h, a, b)
  BY <1>5, Placed
<1>7. /\ h \in Text /\ Len(h) = k + (l - k)
      /\ \A i \in 1 .. k : h[i] = a[i]
      /\ \A i \in 1 .. l - k : h[k + i] = b[i]
  BY <1>4, <1>6 DEF PlacedIn
<1>8. ASSUME NEW i \in 1 .. l PROVE h[i] = t[i]
  <2>1. CASE i <= k
    BY <1>3, <1>4, <1>7, <2>1
  <2>2. CASE ~(i <= k)
    <3>1. PICK j \in 1 .. l - k : k + j = i
      <4>1. i - k \in 1 .. l - k /\ k + (i - k) = i
        BY <1>3, <2>2
      <4> QED  BY <4>1
    <3> QED  BY <1>4, <1>7, <3>1
  <2> QED  BY <2>1, <2>2
<1>9. Len(h) = l
  BY <1>3, <1>7
<1>10. h = t
  <2> HIDE DEF Byte
  <2> QED  BY <1>1, <1>7, <1>8, <1>9, SeqEqual DEF Text
<1> QED  BY <1>2, <1>5, <1>10

\* What is in order stays so when the middle of it goes.
LEMMA Skipping ==
  ASSUME NEW t \in Text, NEW u \in Text, NEW v \in Text, NEW h, NEW w, NEW y,
         PlacedIn(h, t, u), PlacedIn(w, h, v), PlacedIn(y, t, v), Ascending(w)
  PROVE  Ascending(y)
<1>1. PICK a \in Nat, b \in Nat, c \in Nat : a = Len(t) /\ b = Len(u) /\ c = Len(v)
  BY Texts
<1>2. Len(h) = a + b /\ \A i \in 1 .. a : h[i] = t[i]
  BY <1>1 DEF PlacedIn
<1>3. /\ Len(w) = a + b + c
      /\ \A i \in 1 .. a + b : w[i] = h[i]
      /\ \A i \in 1 .. c : w[a + b + i] = v[i]
  BY <1>1, <1>2 DEF PlacedIn
<1>4. \A i \in 1 .. a : w[i] = t[i]
  BY <1>2, <1>3
<1>5. /\ Len(y) = a + c
      /\ \A i \in 1 .. a : y[i] = t[i]
      /\ \A i \in 1 .. c : y[a + i] = v[i]
  BY <1>1 DEF PlacedIn
<1>6. ASSUME NEW i \in 1 .. a + c
      PROVE  \E p \in 1 .. a + b + c : p = (IF i <= a THEN i ELSE i + b) /\ w[p] = y[i]
  <2>1. CASE i <= a
    BY <1>4, <1>5, <2>1
  <2>2. CASE ~(i <= a)
    <3>1. PICK k \in 1 .. c : i = a + k
      <4>1. i - a \in 1 .. c /\ i = a + (i - a)
        BY <2>2
      <4> QED  BY <4>1
    <3>2. PICK p \in 1 .. a + b + c : p = a + b + k
      OBVIOUS
    <3>3. p = i + b
      BY <3>1, <3>2
    <3>4. w[p] = y[i]
      BY <1>3, <1>5, <3>1, <3>2
    <3> QED  BY <2>2, <3>3, <3>4
  <2> QED  BY <2>1, <2>2
<1>7. ASSUME NEW i \in 1 .. a + c, NEW j \in 1 .. a + c, i < j
      PROVE  y[i] < y[j]
  <2>1. PICK p \in 1 .. a + b + c : p = (IF i <= a THEN i ELSE i + b) /\ w[p] = y[i]
    BY <1>6
  <2>2. PICK q \in 1 .. a + b + c : q = (IF j <= a THEN j ELSE j + b) /\ w[q] = y[j]
    BY <1>6
  <2>3. p < q
    BY <1>7, <2>1, <2>2
  <2>4. w[p] < w[q]
    BY <1>3, <2>3 DEF Ascending
  <2> QED  BY <2>1, <2>2, <2>4
<1> QED  BY <1>5, <1>7 DEF Ascending

LEMMA WithoutMiddle ==
  ASSUME NEW t \in Text, NEW u \in Text, NEW v \in Text, Ascending(t \o u \o v)
  PROVE  Ascending(t \o <<>> \o v)
<1>1. /\ PlacedIn(t \o u, t, u) /\ PlacedIn(t \o u \o v, t \o u, v) /\ PlacedIn(t \o v, t, v)
  BY Placed, Places
<1>2. Ascending(t \o v)
  BY <1>1, Skipping
<1> QED  BY <1>2, Units

\* A new text is whole.
LEMMA IntactNew ==
  ASSUME NEW n \in 1 .. TextMax, NEW d \in Text, NEW rest \in Text, d \o rest = Bytes(1, n)
  PROVE  Intact(<<>>, d, rest, n, FALSE)
<1>1. FlattenSeq(<<>>) \o d \o rest = Bytes(1, n)
  BY FlattenNothing, Units
<1>2. Len(Bytes(1, n)) = n /\ n \in Nat /\ n - 1 + 1 = n
  BY Numbered, TxAssumption
<1>3. \A i \in 1 .. n : Bytes(1, n)[i] = i
  <2>1. Bytes(1, n) = [i \in 1 .. n |-> 1 + i - 1]
    BY <1>2 DEF Bytes
  <2>2. \A i \in 1 .. n : 1 + i - 1 = i
    BY <1>2
  <2> QED  BY <2>1, <2>2
<1>4. Ascending(Bytes(1, n))
  BY <1>2, <1>3 DEF Ascending
<1> QED  BY <1>1, <1>4 DEF Intact

\* It stays so when bytes go from behind to what is being sent.
LEMMA IntactMoved ==
  ASSUME NEW log \in Seq(Text), NEW d \in Text, NEW rest \in Text, NEW n, NEW gone,
         Intact(log, d, rest, n, gone),
         NEW e \in Text, NEW more \in Text, e \o more = d \o rest
  PROVE  Intact(log, e, more, n, gone)
<1>1. PICK f \in Text : f = FlattenSeq(log)
  BY FlattenText
<1>2. (f \o d) \o rest = f \o (d \o rest) /\ (f \o e) \o more = f \o (e \o more)
  BY Assoc
<1> QED  BY <1>1, <1>2 DEF Intact

\* When a chunk of it is taken.
LEMMA IntactSent ==
  ASSUME NEW log \in Seq(Text), NEW d \in Text, NEW rest \in Text, NEW n, NEW gone,
         Intact(log, d, rest, n, gone), NEW k \in Nat
  PROVE  Intact(Append(log, First(d, k)), Rest(d, k), rest, n, gone)
<1>1. PICK f \in Text : f = FlattenSeq(log)
  BY FlattenText
<1>2. PICK a \in Text, b \in Text : a = First(d, k) /\ b = Rest(d, k) /\ a \o b = d
  BY FirstOf, RestOf, Divided
<1>3. FlattenSeq(Append(log, a)) = f \o a
  BY <1>1, FlattenAppend
<1>4. (f \o a) \o b = f \o d
  <2>1. (f \o a) \o b = f \o (a \o b)
    BY Assoc
  <2> QED  BY <1>2, <2>1
<1> QED  BY <1>1, <1>2, <1>3, <1>4 DEF Intact

\* And when what is being sent is given up, but for what is missing now.
LEMMA IntactLost ==
  ASSUME NEW log \in Seq(Text), NEW d \in Text, NEW rest \in Text, NEW n, NEW gone,
         Intact(log, d, rest, n, gone)
  PROVE  Intact(log, <<>>, rest, n, TRUE)
<1>1. PICK f \in Text : f = FlattenSeq(log)
  BY FlattenText
<1>2. Ascending(f \o <<>> \o rest)
  BY <1>1, WithoutMiddle DEF Intact
<1> QED  BY <1>1, <1>2 DEF Intact

\* What has not changed is as whole as it was.
LEMMA SameText ==
  ASSUME NEW s \in Senders, WholeInv, taken'[s] = taken[s], data'[s] = data[s],
         length'[s] = length[s], lost'[s] = lost[s],
         s = "worker" => text' = text /\ part' = part /\ tx' = tx
  PROVE  Intact(taken[s], data[s], Behind(s), length[s], lost[s])'
<1>1. Behind(s)' = Behind(s)
  BY DEF Behind
<1>2. Intact(taken[s], data[s], Behind(s), length[s], lost[s])
  BY DEF WholeInv
<1> QED  BY <1>1, <1>2

LEMMA BehindText == ASSUME TypeOK, NEW s \in Senders PROVE Behind(s) \in Text
<1>1. text \in Text /\ part \in Text /\ tx \in Text /\ <<>> \in Text
  BY Typed, Nothing
<1>2. PICK u \in Text : u = tx \o part
  BY <1>1, Joined
<1>3. u \o text \in Text
  BY <1>1, Joined
<1> QED  BY <1>1, <1>2, <1>3 DEF Behind
-----------------------------------------------------------------------------
(* The steps. *)

\* The worker's: the same bytes, elsewhere.
LEMMA WorkerWhole ==
  ASSUME TxInv, TypeOK', WholeInv, length' = length, taken' = taken, lost' = lost,
         \A s \in Senders \ {"worker"} : data'[s] = data[s],
         data'["worker"] \o (tx' \o part' \o text') = data["worker"] \o (tx \o part \o text)
  PROVE  WholeInv'
<1>1. ASSUME NEW s \in Senders PROVE Intact(taken[s], data[s], Behind(s), length[s], lost[s])'
  <2>1. CASE s = "worker"
    <3>1. Behind(s) \in Text /\ Behind(s)' \in Text
      <4>1. TypeOK
        BY DEF TxInv
      <4>2. Behind(s) \in Text
        BY <4>1, BehindText
      <4>3. Behind(s)' \in Text
        <5>1. text' \in Text /\ part' \in Text /\ tx' \in Text
          BY DEF TypeOK, Text, Byte
        <5>2. PICK u \in Text : u = tx' \o part'
          BY <5>1, Joined
        <5>3. u \o text' \in Text
          BY <5>1, Joined
        <5> QED  BY <2>1, <5>2, <5>3 DEF Behind
      <4> QED  BY <4>2, <4>3
    <3>2. data[s] \in Text /\ data'[s] \in Text /\ taken[s] \in Seq(Text)
      <4>1. data'[s] \in Text
        BY DEF TypeOK, Text, Byte
      <4> QED  BY <4>1, Typed DEF TxInv
    <3>3. data'[s] \o Behind(s)' = data[s] \o Behind(s)
      BY <2>1 DEF Behind
    <3>4. Intact(taken[s], data[s], Behind(s), length[s], lost[s])
      BY DEF WholeInv
    <3>5. PICK log \in Seq(Text), d \in Text, rest \in Text, e \in Text, more \in Text :
             /\ log = taken[s] /\ d = data[s] /\ rest = Behind(s)
             /\ e = data'[s] /\ more = Behind(s)' /\ e \o more = d \o rest
      BY <3>1, <3>2, <3>3
    <3>6. PICK n, gone : n = length[s] /\ gone = lost[s]
      OBVIOUS
    <3>7. Intact(log, e, more, n, gone)
      BY <3>4, <3>5, <3>6, IntactMoved
    <3> QED  BY <3>5, <3>6, <3>7
  <2>2. CASE s # "worker"
    BY <2>2, SameText
  <2> QED  BY <2>1, <2>2
<1> QED  BY <1>1 DEF WholeInv

\* A new text in place of one that has gone.
LEMMA NewWhole ==
  ASSUME WholeInv, NEW s \in Senders, NEW n \in 1 .. TextMax,
         taken'[s] = <<>>, length'[s] = n, lost'[s] = FALSE,
         data'[s] \in Text, Behind(s)' \in Text, data'[s] \o Behind(s)' = Bytes(1, n),
         \A r \in Senders \ {s} :
           /\ taken'[r] = taken[r] /\ data'[r] = data[r] /\ length'[r] = length[r]
           /\ lost'[r] = lost[r]
           /\ r = "worker" => text' = text /\ part' = part /\ tx' = tx
  PROVE  WholeInv'
<1>1. Intact(taken[s], data[s], Behind(s), length[s], lost[s])'
  <2>1. PICK d \in Text, rest \in Text : d = data'[s] /\ rest = Behind(s)' /\ d \o rest = Bytes(1, n)
    OBVIOUS
  <2>2. Intact(<<>>, d, rest, n, FALSE)
    BY <2>1, IntactNew
  <2> QED  BY <2>1, <2>2
<1>2. \A r \in Senders \ {s} : Intact(taken[r], data[r], Behind(r), length[r], lost[r])'
  BY SameText
<1> QED  BY <1>1, <1>2 DEF WholeInv

LEMMA ReplyWhole ==
  ASSUME TxInv, WholeInv, NEW n \in 1 .. TextMax, Reply(n) PROVE WholeInv'
<1>1. /\ text' = Bytes(1, n) /\ part' = part /\ tx' = tx /\ data' = data
      /\ length' = [length EXCEPT !["worker"] = n]
      /\ taken' = [taken EXCEPT !["worker"] = <<>>]
      /\ lost' = [lost EXCEPT !["worker"] = FALSE]
      /\ part = <<>> /\ tx = <<>> /\ data["worker"] = <<>>
  BY DEF Reply, Begin, Replying, Sending
<1>2. /\ length \in [Senders -> 0 .. TextMax] /\ taken \in [Senders -> Seq(Text)]
      /\ lost \in [Senders -> BOOLEAN] /\ "worker" \in Senders
  BY Typed DEF TxInv, Senders
<1>3. /\ taken'["worker"] = <<>> /\ length'["worker"] = n /\ lost'["worker"] = FALSE
      /\ \A r \in Senders \ {"worker"} :
           taken'[r] = taken[r] /\ length'[r] = length[r] /\ lost'[r] = lost[r]
  BY <1>1, <1>2
<1>4. PICK b \in Text : b = Bytes(1, n)
  BY Numbered
<1>5. <<>> \o b = b /\ <<>> \o <<>> \o b = b
  BY Units, Nothing
<1>6. Behind("worker")' = b
  BY <1>1, <1>4, <1>5 DEF Behind
<1> QED  BY <1>1, <1>2, <1>3, <1>4, <1>5, <1>6, NewWhole, Nothing

LEMMA AnswerWhole ==
  ASSUME TxInv, WholeInv, NEW n \in 1 .. TextMax, Answer(n) PROVE WholeInv'
<1>1. /\ data' = [data EXCEPT !["worker"] = Bytes(1, n)]
      /\ text' = <<>> /\ part' = <<>> /\ tx' = <<>>
      /\ length' = [length EXCEPT !["worker"] = n]
      /\ taken' = [taken EXCEPT !["worker"] = <<>>]
      /\ lost' = [lost EXCEPT !["worker"] = FALSE]
  BY DEF Answer, SendBytes, Begin, Replying, buffer
<1>2. /\ length \in [Senders -> 0 .. TextMax] /\ taken \in [Senders -> Seq(Text)]
      /\ lost \in [Senders -> BOOLEAN] /\ data \in [Senders -> Text] /\ "worker" \in Senders
  BY Typed DEF TxInv, Senders
<1>3. PICK b \in Text : b = Bytes(1, n)
  BY Numbered
<1>4. /\ taken'["worker"] = <<>> /\ length'["worker"] = n /\ lost'["worker"] = FALSE
      /\ data'["worker"] = b
      /\ \A r \in Senders \ {"worker"} :
           taken'[r] = taken[r] /\ length'[r] = length[r] /\ lost'[r] = lost[r] /\ data'[r] = data[r]
  BY <1>1, <1>2, <1>3
<1>5. <<>> \o <<>> = <<>> /\ <<>> \o <<>> \o <<>> = <<>> /\ b \o <<>> = b
  BY Units, Nothing
<1>6. Behind("worker")' = <<>>
  BY <1>1, <1>5 DEF Behind
<1> QED  BY <1>2, <1>3, <1>4, <1>5, <1>6, NewWhole, Nothing

LEMMA OtherWhole ==
  ASSUME TxInv, WholeInv, NEW s \in Senders, NEW n \in 1 .. TextMax, Other(s, n) PROVE WholeInv'
<1>1. /\ data' = [data EXCEPT ![s] = Bytes(1, n)]
      /\ text' = text /\ part' = part /\ tx' = tx
      /\ length' = [length EXCEPT ![s] = n]
      /\ taken' = [taken EXCEPT ![s] = <<>>]
      /\ lost' = [lost EXCEPT ![s] = FALSE]
      /\ s # "worker"
  BY DEF Other, SendBytes, Begin, buffer
<1>2. /\ length \in [Senders -> 0 .. TextMax] /\ taken \in [Senders -> Seq(Text)]
      /\ lost \in [Senders -> BOOLEAN] /\ data \in [Senders -> Text]
  BY Typed DEF TxInv
<1>3. PICK b \in Text : b = Bytes(1, n)
  BY Numbered
<1>4. /\ taken'[s] = <<>> /\ length'[s] = n /\ lost'[s] = FALSE /\ data'[s] = b
      /\ \A r \in Senders \ {s} :
           taken'[r] = taken[r] /\ length'[r] = length[r] /\ lost'[r] = lost[r] /\ data'[r] = data[r]
  BY <1>1, <1>2, <1>3
<1>5. b \o <<>> = b
  BY Units
<1>6. Behind(s)' = <<>>
  BY <1>1 DEF Behind
<1> QED  BY <1>1, <1>3, <1>4, <1>5, <1>6, NewWhole, Nothing

LEMMA AppendPartWhole ==
  ASSUME TxInv, TypeOK', WholeInv, NEW n \in 1 .. TextMax, AppendPart(n) PROVE WholeInv'
<1>1. /\ part' = First(text, n) /\ text' = Rest(text, n) /\ tx' = tx /\ data' = data
      /\ length' = length /\ taken' = taken /\ lost' = lost /\ part = <<>>
  BY DEF AppendPart, history
<1>2. n \in Nat /\ text \in Text /\ tx \in Text
  BY TxAssumption, Typed DEF TxInv
<1>3. PICK a \in Text, b \in Text : a = First(text, n) /\ b = Rest(text, n) /\ a \o b = text
  BY <1>2, FirstOf, RestOf, Divided
<1>4. (tx \o a) \o b = tx \o (a \o b) /\ tx \o <<>> = tx
  BY <1>2, Assoc, Units
<1>5. tx' \o part' \o text' = tx \o part \o text
  BY <1>1, <1>3, <1>4
<1> QED  BY <1>1, <1>5, WorkerWhole

LEMMA CopyWholeKept == ASSUME TxInv, TypeOK', WholeInv, Copy PROVE WholeInv'
<1>1. /\ text \in Text /\ part \in Text /\ tx \in Text /\ data \in [Senders -> Text]
      /\ Len(tx) \in Nat /\ Len(tx) < InfoLen /\ InfoLen \in Nat /\ "worker" \in Senders
  BY Typed, Texts, TxAssumption DEF TxInv, Senders
<1>2. PICK room \in Nat : room = InfoLen - Len(tx)
  BY <1>1
<1>3. PICK a \in Text, b \in Text : a = First(part, room) /\ b = Rest(part, room) /\ a \o b = part
  BY <1>1, FirstOf, RestOf, Divided
<1>4. PICK full \in Text : full = tx \o a
  BY <1>1, Joined
<1>5. /\ part' = b /\ text' = text
      /\ length' = length /\ taken' = taken /\ lost' = lost /\ data["worker"] = <<>>
      /\ \/ data' = [data EXCEPT !["worker"] = full] /\ tx' = <<>>
         \/ data' = data /\ tx' = full
  BY <1>2, <1>3, <1>4 DEF Copy, Sending, SendBytes, history
<1>6. tx \o part \o text = full \o (b \o text) /\ full \o b \o text = full \o (b \o text)
  <2>1. PICK t \in Text, u \in Text : t = tx /\ u = text
    BY <1>1
  <2>2. (t \o a) \o b = t \o (a \o b) /\ (full \o b) \o u = full \o (b \o u)
    BY Assoc
  <2> QED  BY <1>3, <1>4, <2>1, <2>2
<1>7. PICK t \in Text : t = tx \o part \o text
  BY <1>1, <1>6, Joined
<1>8. <<>> \o t = t /\ <<>> \o b = b
  BY Units
<1>9. data'["worker"] \o (tx' \o part' \o text') = data["worker"] \o (tx \o part \o text)
  <2>1. CASE data' = [data EXCEPT !["worker"] = full] /\ tx' = <<>>
    <3>1. data'["worker"] = full /\ tx' \o part' \o text' = b \o text
      BY <1>1, <1>5, <1>8, <2>1
    <3> QED  BY <1>5, <1>6, <1>7, <1>8, <3>1
  <2>2. CASE data' = data /\ tx' = full
    BY <1>5, <1>6, <2>2
  <2> QED  BY <1>5, <2>1, <2>2
<1>10. \A s \in Senders \ {"worker"} : data'[s] = data[s]
  BY <1>1, <1>5
<1> QED  BY <1>5, <1>9, <1>10, WorkerWhole

LEMMA FlushWhole == ASSUME TxInv, TypeOK', WholeInv, Flush PROVE WholeInv'
<1>1. /\ tx \in Text /\ data \in [Senders -> Text] /\ "worker" \in Senders
  BY Typed DEF TxInv, Senders
<1>2. /\ text' = <<>> /\ part' = <<>> /\ tx' = <<>> /\ text = <<>> /\ part = <<>>
      /\ data' = [data EXCEPT !["worker"] = tx] /\ data["worker"] = <<>>
      /\ length' = length /\ taken' = taken /\ lost' = lost
  BY DEF Flush, Sending, SendBytes, history
<1>3. /\ <<>> \o <<>> = <<>> /\ tx \o <<>> = tx /\ <<>> \o tx = tx
  BY <1>1, Units, Nothing
<1>4. data'["worker"] = tx /\ \A s \in Senders \ {"worker"} : data'[s] = data[s]
  BY <1>1, <1>2
<1>5. data'["worker"] \o (tx' \o part' \o text') = data["worker"] \o (tx \o part \o text)
  BY <1>2, <1>3, <1>4
<1> QED  BY <1>2, <1>4, <1>5, WorkerWhole

LEMMA SendOkWhole ==
  ASSUME TxInv, WholeInv, NEW s \in Senders, SendOk(s) PROVE WholeInv'
<1>1. /\ TypeOK /\ data \in [Senders -> Text] /\ taken \in [Senders -> Seq(Text)] /\ InfoLen \in Nat
  BY Typed, TxAssumption DEF TxInv
<1>2. PICK d \in Text, log \in Seq(Text), rest \in Text : d = data[s] /\ log = taken[s] /\ rest = Behind(s)
  BY <1>1, BehindText
<1>3. PICK chunk, left : chunk = First(d, InfoLen) /\ left = Rest(d, InfoLen)
  OBVIOUS
<1>4. /\ taken' = [taken EXCEPT ![s] = Append(log, chunk)]
      /\ data' = [data EXCEPT ![s] = left]
      /\ text' = text /\ part' = part /\ tx' = tx /\ length' = length /\ lost' = lost
  BY <1>2, <1>3 DEF SendOk, Advance, buffer
<1>5. /\ taken'[s] = Append(log, chunk) /\ data'[s] = left
      /\ \A r \in Senders \ {s} : taken'[r] = taken[r] /\ data'[r] = data[r]
  BY <1>1, <1>4
<1>6. PICK n, gone : n = length[s] /\ gone = lost[s]
  OBVIOUS
<1>7. Intact(log, d, rest, n, gone)
  BY <1>2, <1>6 DEF WholeInv
<1>8. Intact(Append(log, chunk), left, rest, n, gone)
  BY <1>1, <1>3, <1>7, IntactSent
<1>9. Behind(s)' = rest
  BY <1>2, <1>4 DEF Behind
<1>10. Intact(taken[s], data[s], Behind(s), length[s], lost[s])'
  BY <1>4, <1>5, <1>6, <1>8, <1>9
<1>11. \A r \in Senders \ {s} : Intact(taken[r], data[r], Behind(r), length[r], lost[r])'
  BY <1>4, <1>5, SameText
<1> QED  BY <1>10, <1>11 DEF WholeInv

\* What is given up is marked as lost.
LEMMA LostWhole ==
  ASSUME TxInv, WholeInv, NEW s \in Senders, lost'[s] = TRUE, data'[s] = <<>>,
         \A r \in Senders \ {s} : data'[r] = data[r] /\ lost'[r] = lost[r],
         taken' = taken, length' = length, text' = text, part' = part, tx' = tx
  PROVE  WholeInv'
<1>1. PICK d \in Text, log \in Seq(Text), rest \in Text : d = data[s] /\ log = taken[s] /\ rest = Behind(s)
  BY BehindText, Typed DEF TxInv
<1>2. PICK n, gone : n = length[s] /\ gone = lost[s]
  OBVIOUS
<1>3. Intact(log, d, rest, n, gone)
  BY <1>1, <1>2 DEF WholeInv
<1>4. Intact(log, <<>>, rest, n, TRUE)
  BY <1>3, IntactLost
<1>5. Behind(s)' = rest
  BY <1>1 DEF Behind
<1>6. Intact(taken[s], data[s], Behind(s), length[s], lost[s])'
  BY <1>1, <1>2, <1>4, <1>5
<1>7. \A r \in Senders \ {s} : Intact(taken[r], data[r], Behind(r), length[r], lost[r])'
  BY SameText
<1> QED  BY <1>6, <1>7 DEF WholeInv

LEMMA StillWhole ==
  ASSUME WholeInv, data' = data, lost' = lost, taken' = taken, length' = length,
         text' = text, part' = part, tx' = tx
  PROVE  WholeInv'
BY SameText DEF WholeInv

LEMMA SendNoMemWhole ==
  ASSUME TxInv, WholeInv, NEW s \in Senders, SendNoMem(s) PROVE WholeInv'
<1>1. data \in [Senders -> Text] /\ lost \in [Senders -> BOOLEAN]
  BY Typed DEF TxInv
<1>2. /\ text' = text /\ part' = part /\ tx' = tx /\ length' = length /\ taken' = taken
      /\ data' = IF attempts[s] + 1 = RetryMax THEN [data EXCEPT ![s] = <<>>] ELSE data
      /\ lost' = [lost EXCEPT ![s] = lost[s] \/ attempts[s] + 1 = RetryMax]
  BY DEF SendNoMem, Attempt, buffer
<1>3. CASE attempts[s] + 1 = RetryMax
  <2>1. (lost[s] \/ attempts[s] + 1 = RetryMax) = TRUE
    BY <1>3
  <2>2. data' = [data EXCEPT ![s] = <<>>] /\ lost' = [lost EXCEPT ![s] = TRUE]
    BY <1>2, <1>3, <2>1
  <2> QED  BY <1>1, <1>2, <2>2, LostWhole
<1>4. CASE attempts[s] + 1 # RetryMax
  <2>1. (lost[s] \/ attempts[s] + 1 = RetryMax) = lost[s]
    BY <1>1, <1>4
  <2>2. lost' = [lost EXCEPT ![s] = lost[s]]
    BY <1>2, <2>1
  <2>3. lost' = lost
    BY <1>1, <2>2
  <2> QED  BY <1>2, <1>4, <2>3, StillWhole
<1> QED  BY <1>3, <1>4

LEMMA SendFailsWhole ==
  ASSUME TxInv, WholeInv, NEW s \in Senders, SendFails(s) PROVE WholeInv'
<1>1. data \in [Senders -> Text] /\ lost \in [Senders -> BOOLEAN]
  BY Typed DEF TxInv
<1>2. /\ text' = text /\ part' = part /\ tx' = tx /\ length' = length /\ taken' = taken
      /\ data' = [data EXCEPT ![s] = <<>>] /\ lost' = [lost EXCEPT ![s] = TRUE]
  BY DEF SendFails, buffer
<1> QED  BY <1>1, <1>2, LostWhole

\* The invariant of both parts: what the length of packets needs, and Whole.
LEMMA WholeInductive == Spec => [](TxInv /\ WholeInv)
<1>1. Init => WholeInv
  <2> SUFFICES ASSUME Init, NEW s \in Senders
               PROVE  Intact(taken[s], data[s], Behind(s), length[s], lost[s])
    BY DEF WholeInv
  <2>1. taken[s] = <<>> /\ data[s] = <<>> /\ length[s] = 0
        /\ text = <<>> /\ part = <<>> /\ tx = <<>>
    BY DEF Init
  <2>2. <<>> \o <<>> = <<>> /\ FlattenSeq(<<>>) = <<>> /\ Len(<<>>) = 0
    BY Nothing, Units, FlattenNothing
  <2>3. Behind(s) = <<>>
    BY <2>1, <2>2 DEF Behind
  <2>4. Ascending(<<>>)
    BY <2>2 DEF Ascending
  <2>5. Bytes(1, 0) = <<>>
    <3>1. 1 .. 0 - 1 + 1 = {} /\ Bytes(1, 0) = [i \in 1 .. 0 - 1 + 1 |-> 1 + i - 1]
      BY DEF Bytes
    <3> QED  BY <3>1
  <2> QED  BY <2>1, <2>2, <2>3, <2>4, <2>5 DEF Intact
<1>2. TxInv /\ TxInv' /\ WholeInv /\ [Next]_vars => WholeInv'
  <2> SUFFICES ASSUME TxInv, TypeOK', WholeInv, [Next]_vars PROVE WholeInv'
    BY DEF TxInv
  <2>1. CASE UNCHANGED vars
    BY <2>1, StillWhole DEF vars, buffer, history
  <2>2. CASE Worker
    <3>1. "worker" \in Senders
      BY DEF Senders
    <3> QED  BY <2>2, <3>1, AppendPartWhole, CopyWholeKept, FlushWhole, SendOkWhole, SendNoMemWhole,
                SendFailsWhole DEF Worker, SendAttempt, SendRefused
  <2>3. CASE \E n \in 1 .. TextMax : Reply(n) \/ Answer(n)
    BY <2>3, ReplyWhole, AnswerWhole
  <2>4. CASE \E s \in Senders, n \in 1 .. TextMax : Other(s, n)
    BY <2>4, OtherWhole
  <2>5. CASE \E s \in Senders : SendAttempt(s) \/ SendFails(s)
    BY <2>5, SendOkWhole, SendNoMemWhole, SendFailsWhole DEF SendAttempt, SendRefused
  <2>6. CASE (\E d \in Destinations : Pass(d)) \/ LinkChanges
    BY <2>6, StillWhole DEF Pass, LinkChanges, buffer, history
  <2> QED  BY <2>1, <2>2, <2>3, <2>4, <2>5, <2>6 DEF Next
<1>3. Spec => []TxInv
  BY Inductive
<1> QED  BY <1>1, <1>2, <1>3, PTL DEF Spec
-----------------------------------------------------------------------------
(* The theorems. *)

\* Every variable keeps its type; bbs_txbuf_t always has room for one byte more
\* than it holds, and no sender makes more than RetryMax attempts at one chunk.
THEOREM TypeCorrect == Spec => []TypeOK
<1>1. TxInv => TypeOK
  BY DEF TxInv
<1> QED  BY <1>1, Inductive, PTL

\* No chunk is longer than a packet, and each but the last of a text is full.
THEOREM PacketsAreFew == Spec => []FewPackets
<1>1. TxInv => FewPackets
  <2> SUFFICES ASSUME TxInv, NEW s \in Senders, NEW i \in DOMAIN taken[s]
               PROVE  /\ Len(taken[s][i]) <= InfoLen
                      /\ i < Len(taken[s]) \/ length[s] \notin ToSet(taken[s][i])
                           => Len(taken[s][i]) = InfoLen
    BY DEF FewPackets
  <2>1. taken[s] \in Seq(Text)
    BY Typed DEF TxInv
  <2>2. i \in 1 .. Len(taken[s])
    BY <2>1, LenProperties
  <2>3. taken[s][i] \in Text
    BY <2>1, <2>2, ElementOfSeq
  <2>4. \A k \in 1 .. Len(taken[s][i]) : taken[s][i][k] \in ToSet(taken[s][i])
    BY <2>3, Texts DEF ToSet
  <2> QED  BY <2>2, <2>4 DEF TxInv, ChunksOK
<1> QED  BY <1>1, Inductive, PTL

\* Whatever parts a text is written in, and whoever else sends, what goes out is
\* the text, byte for byte and in order; once sending is given up a part of it is
\* missing, and nothing else.
THEOREM TextsAreWhole == Spec => []Whole
<1>1. TxInv /\ WholeInv => Whole
  <2> SUFFICES ASSUME TxInv, WholeInv, NEW s \in Senders
               PROVE  LET bytes == FlattenSeq(taken[s]) \o data[s]
                                     \o (IF s = "worker" THEN tx \o part \o text ELSE <<>>)
                      IN  /\ \A i \in 1 .. Len(bytes) - 1 : bytes[i] < bytes[i + 1]
                          /\ ~lost[s] => bytes = Bytes(1, length[s])
    BY DEF Whole
  <2>1. /\ TypeOK /\ taken[s] \in Seq(Text) /\ data[s] \in Text
    BY Typed DEF TxInv
  <2>2. PICK f \in Text, d \in Text, rest \in Text :
          f = FlattenSeq(taken[s]) /\ d = data[s] /\ rest = Behind(s)
    BY <2>1, FlattenText, BehindText
  <2>3. PICK b \in Text : b = f \o d \o rest
    <3>1. PICK e \in Text : e = f \o d
      BY Joined
    <3>2. e \o rest \in Text
      BY Joined
    <3> QED  BY <3>1, <3>2
  <2>4. Ascending(b) /\ (lost[s] \/ b = Bytes(1, length[s]))
    BY <2>2, <2>3 DEF WholeInv, Intact
  <2>5. \A i \in 1 .. Len(b) - 1 : b[i] < b[i + 1]
    <3>1. Len(b) \in Nat
      BY Texts
    <3>2. \A i \in 1 .. Len(b) - 1 : i \in 1 .. Len(b) /\ i + 1 \in 1 .. Len(b) /\ i < i + 1
      BY <3>1
    <3> QED  BY <2>4, <3>2 DEF Ascending
  <2> QED  BY <2>2, <2>3, <2>4, <2>5 DEF Behind
<1> QED  BY <1>1, WholeInductive, PTL
=============================================================================
