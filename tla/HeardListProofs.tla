--------------------------- MODULE HeardListProofs ---------------------------
(***************************************************************************)
(* Proofs about the list of stations heard, for any stations, sizes and    *)
(* limits: its order is that of hearing, its file is whole and never far   *)
(* behind.                                                                 *)
(***************************************************************************)
EXTENDS HeardList, SequenceTheorems, TLAPS
-----------------------------------------------------------------------------
(* The list. *)

Distinct(s) == \A i, j \in DOMAIN s : s[i] = s[j] => i = j

\* What memmove() and the assignment to the front leave in each place.
LEMMA Promoted ==
  ASSUME NEW es \in Seq(Entry), NEW e \in Entry, NEW n \in 1 .. Len(es) + 1
  PROVE  /\ Promote(es, n, e) \in Seq(Entry)
         /\ Len(Promote(es, n, e)) = IF n > Len(es) THEN n ELSE Len(es)
         /\ DOMAIN Promote(es, n, e) = 1 .. Len(Promote(es, n, e))
         /\ Promote(es, n, e)[1] = e
         /\ \A j \in 2 .. Len(Promote(es, n, e)) :
              /\ j <= n => j - 1 \in DOMAIN es /\ Promote(es, n, e)[j] = es[j - 1]
              /\ j > n => j \in DOMAIN es /\ Promote(es, n, e)[j] = es[j]
<1> DEFINE m == IF n > Len(es) THEN n ELSE Len(es)
<1>1. Len(es) \in Nat /\ DOMAIN es = 1 .. Len(es) /\ m \in Nat /\ 1 \in 1 .. m
  OBVIOUS
<1>2. Promote(es, n, e) = [j \in 1 .. m |-> IF j = 1 THEN e ELSE IF j <= n THEN es[j - 1] ELSE es[j]]
  BY DEF Promote
<1>3. \A j \in 2 .. m : /\ j <= n => j - 1 \in 1 .. Len(es)
                        /\ j > n => j \in 1 .. Len(es)
  BY <1>1
<1>4. \A i \in 1 .. Len(es) : es[i] \in Entry
  BY <1>1, ElementOfSeq
<1>5. \A j \in 1 .. m : j = 1 \/ j \in 2 .. m
  BY <1>1
<1>6. \A j \in 1 .. m : (IF j = 1 THEN e ELSE IF j <= n THEN es[j - 1] ELSE es[j]) \in Entry
  BY <1>1, <1>3, <1>4, <1>5
<1>7. Promote(es, n, e) \in [1 .. m -> Entry]
  BY <1>2, <1>6
<1>8. Promote(es, n, e) \in Seq(Entry) /\ Len(Promote(es, n, e)) = m
  BY <1>1, <1>7, SeqDef, LenProperties
<1> QED  BY <1>1, <1>2, <1>3, <1>8

\* The place of one who is not listed, in a list of n entries.
LEMMA NewPlace ==
  ASSUME NEW n \in Nat, n <= MaxHeard
  PROVE  LET p == IF n < MaxHeard THEN n + 1 ELSE MaxHeard
         IN  p \in 1 .. n + 1 /\ p <= MaxHeard /\ (p = n + 1 \/ (p = n /\ n = MaxHeard))
<1>1. MaxHeard \in Nat /\ MaxHeard # 0
  BY HeardAssumption
<1>2. CASE n < MaxHeard
  BY <1>1, <1>2
<1>3. CASE n = MaxHeard
  BY <1>1, <1>3
<1>4. n < MaxHeard \/ n = MaxHeard
  BY <1>1
<1> QED  BY <1>2, <1>3, <1>4

\* Whose place a sender takes.
LEMMA Placed ==
  ASSUME NEW es \in Seq(Entry), Len(es) <= MaxHeard, NEW c
  PROVE  /\ Place(es, c) \in 1 .. Len(es) + 1 /\ Place(es, c) <= MaxHeard
         /\ \/ Place(es, c) \in DOMAIN es /\ es[Place(es, c)].call = c
            \/ /\ \A i \in DOMAIN es : es[i].call # c
               /\ \/ Place(es, c) = Len(es) + 1
                  \/ Place(es, c) = Len(es) /\ Len(es) = MaxHeard
<1>1. Len(es) \in Nat /\ DOMAIN es = 1 .. Len(es) /\ MaxHeard \in Nat \ {0}
  BY HeardAssumption
<1>2. CASE \E i \in DOMAIN es : es[i].call = c
  <2>1. Place(es, c) \in DOMAIN es /\ es[Place(es, c)].call = c
    BY <1>2 DEF Place
  <2>2. \A p \in DOMAIN es : p \in 1 .. Len(es) + 1 /\ p <= MaxHeard
    BY <1>1
  <2> QED  BY <2>1, <2>2
<1>3. CASE \A i \in DOMAIN es : es[i].call # c
  <2>1. Place(es, c) = IF Len(es) < MaxHeard THEN Len(es) + 1 ELSE MaxHeard
    BY <1>3 DEF Place
  <2> QED  BY <1>1, <1>3, <2>1, NewPlace
<1> QED  BY <1>2, <1>3

\* The calls of a list.
LEMMA CallsOfList ==
  ASSUME NEW es \in Seq(Entry)
  PROVE  /\ CallsOf(es) \in Seq(Calls) /\ Len(CallsOf(es)) = Len(es)
         /\ \A n \in 0 .. Len(es) :
              /\ SubSeq(CallsOf(es), 1, n) \in Seq(Calls)
              /\ Len(SubSeq(CallsOf(es), 1, n)) = n
              /\ \A i \in 1 .. n : SubSeq(CallsOf(es), 1, n)[i] = es[i].call
         /\ SubSeq(CallsOf(es), 1, Len(es)) = CallsOf(es)
<1>1. \A i \in 1 .. Len(es) : es[i].call \in Calls
  <2>1. \A i \in 1 .. Len(es) : es[i] \in Entry
    BY ElementOfSeq
  <2> QED  BY <2>1 DEF Entry
<1>2. CallsOf(es) \in Seq(Calls) /\ Len(CallsOf(es)) = Len(es)
  BY <1>1 DEF CallsOf
<1>3. \A n \in 0 .. Len(es) :
        /\ SubSeq(CallsOf(es), 1, n) \in Seq(Calls)
        /\ Len(SubSeq(CallsOf(es), 1, n)) = n
        /\ \A i \in 1 .. n : SubSeq(CallsOf(es), 1, n)[i] = es[i].call
  <2> SUFFICES ASSUME NEW n \in 0 .. Len(es)
               PROVE  /\ SubSeq(CallsOf(es), 1, n) \in Seq(Calls)
                      /\ Len(SubSeq(CallsOf(es), 1, n)) = n
                      /\ \A i \in 1 .. n : SubSeq(CallsOf(es), 1, n)[i] = es[i].call
    OBVIOUS
  <2>1. \A i \in 1 .. n : CallsOf(es)[i] = es[i].call /\ CallsOf(es)[i] \in Calls
    BY <1>1 DEF CallsOf
  <2> QED  BY <1>2, <2>1, SubSeqProperties
<1>4. SubSeq(CallsOf(es), 1, Len(es)) = CallsOf(es)
  BY <1>2, <1>3, SeqEqual DEF CallsOf
<1> QED  BY <1>2, <1>3, <1>4
-----------------------------------------------------------------------------
(* Types. *)

\* What the main task reads from heard.dat.
LEMMA Loaded ==
  ASSUME TypeOK, Load
  PROVE  /\ entries' \in Seq(Entry) /\ Len(entries') <= MaxHeard
         /\ DOMAIN entries' = 1 .. Len(entries') /\ Len(entries') <= Len(data)
         /\ data \in Seq(Calls)
         /\ \A i \in DOMAIN entries' : entries'[i] = [call |-> data[i], at |-> PreBoot]
<1>1. PICK n \in 0 .. Len(data) :
        entries' = [i \in 1 .. n |-> [call |-> data[i], at |-> PreBoot]]
  BY DEF Load
<1>2. data \in Seq(Calls) /\ Len(data) \in Nat /\ Len(data) <= MaxHeard /\ MaxHeard \in Nat
  BY HeardAssumption DEF Load, TypeOK
<1>3. PreBoot \in 0 .. PreBoot
  BY HeardAssumption DEF PreBoot
<1>4. \A i \in 1 .. n : [call |-> data[i], at |-> PreBoot] \in Entry
  BY <1>2, <1>3, ElementOfSeq DEF Entry
<1> QED  BY <1>1, <1>2, <1>4

\* The entry of the sender of a frame.
LEMMA NewEntry ==
  ASSUME TypeOK, frame # NoFrame
  PROVE  /\ frame \in Entry /\ frame.call \in Calls
         /\ frame.at # PreBoot /\ frame.at \in Nat /\ frame.at <= time /\ time \in Nat
<1>1. MaxTime \in Nat /\ time \in 0 .. MaxTime
  BY HeardAssumption DEF TypeOK
<1>2. frame \in [call: Calls, at: 0 .. time]
  BY DEF TypeOK
<1>3. frame.call \in Calls /\ frame.at \in 0 .. time /\ frame.at \in 0 .. PreBoot
  BY <1>1, <1>2 DEF PreBoot
<1>4. frame = [call |-> frame.call, at |-> frame.at]
  BY <1>2
<1>5. frame \in Entry
  BY <1>3, <1>4 DEF Entry
<1> QED  BY <1>1, <1>3, <1>5 DEF PreBoot

\* Every step keeps the types.
LEMMA TypeNext == TypeOK /\ [Next]_vars => TypeOK'
<1> SUFFICES ASSUME TypeOK, [Next]_vars PROVE TypeOK'
  OBVIOUS
<1> USE DEF TypeOK
<1>0. MaxTime \in Nat /\ MaxHeard \in Nat /\ Len(<<>>) = 0 /\ <<>> \in Seq(Calls) /\ <<>> \in Seq(Entry)
  BY HeardAssumption
<1>1. CASE Heard
  <2>1. frame \in Entry /\ frame.call \in Calls
    BY <1>1, NewEntry DEF Heard
  <2>2. Place(entries, frame.call) \in 1 .. Len(entries) + 1
        /\ Place(entries, frame.call) <= MaxHeard
    BY Placed
  <2>3. entries' \in Seq(Entry) /\ Len(entries') <= MaxHeard
    BY <1>0, <1>1, <2>1, <2>2, Promoted DEF Heard
  <2>4. DOMAIN since' \subseteq Calls /\ \A d \in DOMAIN since' : since'[d] \subseteq Calls
    BY <1>1, <2>1 DEF Heard
  <2>5. dirty' \in BOOLEAN
    BY <1>1, Zenon DEF Heard
  <2> QED  BY <1>1, <2>3, <2>4, <2>5 DEF Heard, flash
<1>2. CASE InitRegister
  BY <1>2 DEF InitRegister, flash, history
<1>3. CASE InitDone
  <2>1. dirty' \in BOOLEAN
    BY <1>3, Zenon DEF InitDone
  <2>2. last_persist_time' \in 0 .. time'
    BY <1>0, <1>3 DEF InitDone
  <2> QED  BY <1>3, <2>1, <2>2 DEF InitDone, flash, history
<1>4. CASE LoadMissing
  BY <1>4 DEF LoadMissing, flash, history
<1>5. CASE Load
  <2>1. DOMAIN since' \subseteq Calls /\ \A d \in DOMAIN since' : since'[d] \subseteq Calls
    BY <1>5, Loaded DEF Load, Entry
  <2> QED  BY <1>5, <2>1, Loaded DEF Load, flash
<1>6. CASE LoadDone
  <2>1. dirty' \in BOOLEAN
    BY <1>6, Zenon DEF LoadDone
  <2>2. last_persist_time' \in 0 .. time'
    BY <1>0, <1>6 DEF LoadDone
  <2> QED  BY <1>6, <2>1, <2>2 DEF LoadDone, flash, history
<1>7. CASE SetFilter
  BY <1>7 DEF SetFilter, flash, history
<1>8. CASE Round
  <2>1. unsaved' \in Nat
    BY <1>8 DEF Round
  <2> QED  BY <1>0, <1>8, <2>1 DEF Round, flash
<1>9. CASE PersistSkip
  BY <1>9 DEF PersistSkip, flash, history
<1>10. CASE PersistWrite
  <2>1. temp' \in Seq(Calls) /\ Len(temp') <= MaxHeard
    BY <1>0, <1>10, CallsOfList DEF PersistWrite
  <2>2. failed' \in BOOLEAN
    BY <1>10, Zenon DEF PersistWrite
  <2> QED  BY <1>10, <2>1, <2>2 DEF PersistWrite
<1>11. CASE PersistFail
  BY <1>0, <1>11 DEF PersistFail
<1>12. CASE PersistRename
  <2>1. dirty' \in BOOLEAN
    BY <1>12, Zenon DEF PersistRename
  <2>2. last_persist_time' \in 0 .. time'
    BY <1>0, <1>12 DEF PersistRename
  <2>3. unsaved' \in Nat
    BY <1>12 DEF PersistRename
  <2> QED  BY <1>0, <1>12, <2>1, <2>2, <2>3 DEF PersistRename
<1>13. CASE PersistRenameFail
  BY <1>0, <1>13 DEF PersistRenameFail
<1>14. CASE Crash
  <2>1. dirty' \in BOOLEAN /\ filter' \in BOOLEAN /\ failed' \in BOOLEAN
    BY <1>14, Zenon DEF Crash
  <2>2. time' \in 0 .. MaxTime /\ last_persist_time' \in 0 .. time' /\ unsaved' \in Nat
    BY <1>0, <1>14 DEF Crash
  <2>3. DOMAIN since' = {}
    BY <1>14 DEF Crash
  <2> QED  BY <1>0, <1>14, <2>1, <2>2, <2>3 DEF Crash
<1>15. CASE UNCHANGED vars
  BY <1>15 DEF vars, flash, history
<1>16. ASSUME NEW c \in Calls, Frame(c) PROVE TypeOK'
  BY <1>0, <1>16 DEF Frame, flash, history
<1> QED
  BY <1>1, <1>2, <1>3, <1>4, <1>5, <1>6, <1>7, <1>8, <1>9, <1>10, <1>11, <1>12,
     <1>13, <1>14, <1>15, <1>16 DEF Next, Main

\* Nothing is listed or saved at first.
LEMMA TypeInit == Init => TypeOK
<1> SUFFICES ASSUME Init PROVE TypeOK
  OBVIOUS
<1>1. dirty \in BOOLEAN /\ filter \in BOOLEAN /\ failed \in BOOLEAN
  BY Zenon DEF Init
<1>2. /\ MaxTime \in Nat /\ MaxHeard \in Nat /\ Len(<<>>) = 0
      /\ <<>> \in Seq(Calls) /\ <<>> \in Seq(Entry)
  BY HeardAssumption
<1>3. time \in 0 .. MaxTime /\ last_persist_time \in 0 .. time /\ unsaved \in Nat
  BY <1>2 DEF Init
<1>4. DOMAIN since = {}
  BY DEF Init
<1> QED  BY <1>1, <1>2, <1>3, <1>4 DEF Init, TypeOK

\* Every variable keeps its type: in RAM and on flash, the list never outgrows
\* its array.
THEOREM TypeCorrect == Spec => []TypeOK
BY TypeInit, TypeNext, PTL DEF Spec
-----------------------------------------------------------------------------
(* The order of the list. *)

\* The lists on flash name no station twice, which is what Recency needs of
\* a list that is loaded.
FlashDistinct ==
  /\ data # NoFile => Distinct(data)
  /\ Distinct(temp)

\* Where the station in place j was before place n went to the front, and
\* where the one in place k is after it.
Was(n, j) == IF j <= n THEN j - 1 ELSE j
Becomes(n, k) == IF k < n THEN k + 1 ELSE k

\* The stations behind the front keep their order, and come from every place
\* but n.
LEMMA WasOrder ==
  ASSUME NEW n \in Nat \ {0}
  PROVE  /\ \A j \in Nat \ {0, 1} : Was(n, j) \in Nat \ {0} /\ Was(n, j) # n
         /\ \A i, j \in Nat \ {0, 1} : i < j => Was(n, i) < Was(n, j)
         /\ \A k \in Nat \ {0} : k # n => Becomes(n, k) \in Nat \ {0, 1}
                                          /\ Was(n, Becomes(n, k)) = k
<1>1. \A j \in Nat \ {0, 1} : Was(n, j) \in Nat \ {0} /\ Was(n, j) # n
  BY DEF Was
<1>2. \A i, j \in Nat \ {0, 1} : i < j => Was(n, i) < Was(n, j)
  BY DEF Was
<1>3. \A k \in Nat \ {0} : k # n => Becomes(n, k) \in Nat \ {0, 1}
                                    /\ Was(n, Becomes(n, k)) = k
  BY DEF Was, Becomes
<1> QED  BY <1>1, <1>2, <1>3

\* The list before and after a frame, if place n went to the front: the sizes,
\* the stations behind the front, and who left place n.
Sizes(n) ==
  /\ DOMAIN entries = 1 .. Len(entries) /\ DOMAIN entries' = 1 .. Len(entries')
  /\ Len(entries) \in Nat /\ Len(entries') \in Nat
  /\ n <= Len(entries') /\ Len(entries) <= Len(entries')

Behind(n, c) ==
  \A j \in 2 .. Len(entries') :
    /\ Was(n, j) \in DOMAIN entries /\ entries'[j] = entries[Was(n, j)]
    /\ entries[Was(n, j)].call # c

Kept(n) ==
  \A k \in DOMAIN entries : k # n => Becomes(n, k) \in 2 .. Len(entries')

Left(n, c) ==
  \/ n \in DOMAIN entries /\ entries[n].call = c
  \/ n \in DOMAIN entries /\ n = Len(entries') /\ n = MaxHeard
  \/ n = Len(entries) + 1

\* Such is the step of heard_on_frame().
LEMMA Moved ==
  ASSUME TypeOK, Recency, Heard, NEW c, c = frame.call,
         NEW n \in Nat \ {0}, n = Place(entries, c)
  PROVE  /\ Sizes(n) /\ Behind(n, c) /\ Kept(n) /\ Left(n, c)
         /\ entries'[1] = frame
<1>1. entries \in Seq(Entry) /\ Len(entries) \in Nat /\ DOMAIN entries = 1 .. Len(entries)
      /\ Len(entries) <= MaxHeard
  BY DEF TypeOK
<1>2. n \in 1 .. Len(entries) + 1
  BY <1>1, Placed
<1>3. \/ n \in DOMAIN entries /\ entries[n].call = c
      \/ /\ \A i \in DOMAIN entries : entries[i].call # c
         /\ \/ n = Len(entries) + 1
            \/ n = Len(entries) /\ Len(entries) = MaxHeard
  BY <1>1, Placed
<1>4. entries' = Promote(entries, n, frame) /\ frame \in Entry
  BY NewEntry DEF Heard
<1>5. /\ Len(entries') = IF n > Len(entries) THEN n ELSE Len(entries)
      /\ DOMAIN entries' = 1 .. Len(entries')
      /\ entries'[1] = frame
      /\ \A j \in 2 .. Len(entries') :
           /\ j <= n => j - 1 \in DOMAIN entries /\ entries'[j] = entries[j - 1]
           /\ j > n => j \in DOMAIN entries /\ entries'[j] = entries[j]
  BY <1>1, <1>2, <1>4, Promoted
<1>6. Len(entries') \in Nat /\ n <= Len(entries') /\ Len(entries) <= Len(entries')
  BY <1>1, <1>2, <1>5
<1>7. \A j \in 2 .. Len(entries') :
        Was(n, j) \in DOMAIN entries /\ entries'[j] = entries[Was(n, j)] /\ Was(n, j) # n
  BY <1>2, <1>5, <1>6 DEF Was
<1>8. \A j \in 2 .. Len(entries') : entries[Was(n, j)].call # c
  BY <1>3, <1>7 DEF Recency
<1>9. \A k \in DOMAIN entries : k # n => Becomes(n, k) \in 2 .. Len(entries')
  BY <1>1, <1>2, <1>5, <1>6 DEF Becomes
<1>10. \/ n \in DOMAIN entries /\ entries[n].call = c
       \/ n \in DOMAIN entries /\ n = Len(entries') /\ n = MaxHeard
       \/ n = Len(entries) + 1
  BY <1>1, <1>2, <1>3, <1>5
<1>11. Sizes(n)
  BY <1>1, <1>5, <1>6 DEF Sizes
<1>12. Behind(n, c)
  BY <1>7, <1>8 DEF Behind
<1>13. Kept(n)
  BY <1>9 DEF Kept
<1>14. Left(n, c)
  BY <1>10 DEF Left
<1> QED  BY <1>5, <1>11, <1>12, <1>13, <1>14

\* A frame moves its sender to the front, and counts it as heard since for all
\* the others.
LEMMA RecencyHeard ==
  ASSUME TypeOK, Recency, Heard
  PROVE  Recency'
<1> DEFINE c == frame.call
<1> HIDE DEF c
<1>0. PICK n \in Nat \ {0} : n = Place(entries, c)
  BY Placed DEF TypeOK
<1>1. /\ DOMAIN entries = 1 .. Len(entries) /\ DOMAIN entries' = 1 .. Len(entries')
      /\ Len(entries) \in Nat /\ Len(entries') \in Nat
      /\ n <= Len(entries') /\ Len(entries) <= Len(entries')
  <2>1. Sizes(n)
    BY <1>0, Moved, Zenon DEF c
  <2> QED  BY <2>1 DEF Sizes
<1>2. entries'[1].call = c
  <2>1. entries'[1] = frame
    BY <1>0, Moved, Zenon DEF c
  <2> QED  BY <2>1 DEF c
<1>3. \A j \in 2 .. Len(entries') :
        /\ Was(n, j) \in DOMAIN entries /\ entries'[j] = entries[Was(n, j)]
        /\ entries[Was(n, j)].call # c
  <2>1. Behind(n, c)
    BY <1>0, Moved, Zenon DEF c
  <2> QED  BY <2>1 DEF Behind
<1>4. \A k \in DOMAIN entries : k # n => Becomes(n, k) \in 2 .. Len(entries')
  <2>1. Kept(n)
    BY <1>0, Moved, Zenon DEF c
  <2> QED  BY <2>1 DEF Kept
<1>5. \/ n \in DOMAIN entries /\ entries[n].call = c
      \/ n \in DOMAIN entries /\ n = Len(entries') /\ n = MaxHeard
      \/ n = Len(entries) + 1
  <2>1. Left(n, c)
    BY <1>0, Moved, Zenon DEF c
  <2> QED  BY <2>1 DEF Left
<1>6. \A i, j \in 2 .. Len(entries') : i < j => Was(n, i) < Was(n, j)
  BY <1>1, WasOrder
<1>7. \A k \in DOMAIN entries : k # n => Was(n, Becomes(n, k)) = k
  BY <1>1, WasOrder
<1>8. /\ DOMAIN since' = DOMAIN since \cup {c}
      /\ since'[c] = {}
      /\ \A d \in DOMAIN since : d # c => since'[d] = since[d] \cup {c}
  BY DEF Heard, c
<1>9. \A j \in DOMAIN entries' : j = 1 \/ j \in 2 .. Len(entries')
  BY <1>1
<1>10. \A i, j \in DOMAIN entries' : entries'[i].call = entries'[j].call => i = j
  <2>1. SUFFICES ASSUME NEW i \in DOMAIN entries', NEW j \in DOMAIN entries', i < j,
                        entries'[i].call = entries'[j].call
                 PROVE  FALSE
    BY <1>1
  <2>2. j \in 2 .. Len(entries')
    BY <1>1, <2>1
  <2>3. i \in 2 .. Len(entries')
    BY <1>2, <1>3, <1>9, <2>1, <2>2
  <2>4. Was(n, i) = Was(n, j)
    BY <1>3, <2>1, <2>2, <2>3 DEF Recency
  <2>5. Was(n, i) < Was(n, j) /\ Was(n, i) \in Int
    BY <1>1, <1>3, <1>6, <2>1, <2>2, <2>3
  <2> QED  BY <2>4, <2>5
<1>11. ASSUME NEW j \in 2 .. Len(entries'), NEW d, d = entries'[j].call
       PROVE  /\ d \in DOMAIN since'
              /\ since'[d] = {entries'[k].call : k \in 1 .. j - 1}
  <2>1. PICK w \in DOMAIN entries : w = Was(n, j) /\ w \in Nat
    BY <1>1, <1>3
  <2>2. d = entries[w].call /\ d # c
    BY <1>3, <1>11, <2>1
  <2>3. d \in DOMAIN since /\ since[d] = {entries[k].call : k \in 1 .. w - 1}
    BY <2>1, <2>2 DEF Recency
  <2>4. since'[d] = {entries[k].call : k \in 1 .. w - 1} \cup {c}
    BY <1>8, <2>2, <2>3
  <2>5. ASSUME NEW k \in 1 .. j - 1 PROVE entries'[k].call \in since'[d]
    <3>1. CASE k = 1
      BY <1>2, <2>4, <3>1
    <3>2. CASE k # 1
      <4>1. k \in 2 .. Len(entries') /\ k < j
        BY <1>1, <3>2
      <4>2. Was(n, k) \in 1 .. w - 1
        BY <1>1, <1>3, <1>6, <2>1, <4>1
      <4> QED  BY <1>3, <2>4, <4>1, <4>2
    <3> QED  BY <3>1, <3>2
  <2>6. ASSUME NEW k \in 1 .. w - 1
        PROVE  entries[k].call \in {entries'[i].call : i \in 1 .. j - 1}
    <3>1. k \in DOMAIN entries /\ k \in Nat \ {0} /\ w \in Nat /\ w <= Len(entries)
      BY <1>1, <2>1
    <3>2. CASE k = n
      <4>1. entries[k].call = c
        <5>1. ~(n = Len(entries') /\ n = MaxHeard) \/ entries[n].call = c
          <6>1. Len(entries) <= MaxHeard /\ MaxHeard \in Nat
            BY HeardAssumption DEF TypeOK
          <6>2. k < w
            BY <2>1
          <6> QED  BY <3>1, <3>2, <6>1, <6>2
        <5>2. n # Len(entries) + 1
          BY <1>1, <3>1, <3>2
        <5> QED  BY <1>5, <3>2, <5>1, <5>2
      <4>2. 1 \in 1 .. j - 1
        BY <1>1
      <4> QED  BY <1>2, <4>1, <4>2
    <3>3. CASE k # n
      <4>1. PICK m \in 2 .. Len(entries') : m = Becomes(n, k) /\ Was(n, m) = k
        BY <1>4, <1>7, <3>1, <3>3
      <4>2. entries'[m].call = entries[k].call
        BY <1>3, <4>1
      <4>3. m < j
        <5>1. SUFFICES ASSUME ~(m < j) PROVE FALSE
          OBVIOUS
        <5>2. m = j \/ j < m
          BY <1>1, <5>1
        <5>3. w <= k
          BY <1>6, <2>1, <3>1, <4>1, <5>2
        <5> QED  BY <2>1, <3>1, <5>3
      <4>4. m \in 1 .. j - 1
        BY <1>1, <4>3
      <4> QED  BY <4>2, <4>4
    <3> QED  BY <3>2, <3>3
  <2>7. c \in {entries'[i].call : i \in 1 .. j - 1}
    <3>1. 1 \in 1 .. j - 1
      BY <1>1
    <3> QED  BY <1>2, <3>1
  <2>8. since'[d] \subseteq {entries'[k].call : k \in 1 .. j - 1}
    BY <2>4, <2>6, <2>7
  <2>9. {entries'[k].call : k \in 1 .. j - 1} \subseteq since'[d]
    BY <2>5
  <2> QED  BY <1>8, <2>3, <2>8, <2>9
<1>12. \A j \in DOMAIN entries' :
         /\ entries'[j].call \in DOMAIN since'
         /\ since'[entries'[j].call] = {entries'[k].call : k \in 1 .. j - 1}
  <2>1. SUFFICES ASSUME NEW j \in DOMAIN entries'
                 PROVE  /\ entries'[j].call \in DOMAIN since'
                        /\ since'[entries'[j].call] = {entries'[k].call : k \in 1 .. j - 1}
    OBVIOUS
  <2>2. CASE j = 1
    <3>1. {entries'[k].call : k \in 1 .. j - 1} = {}
      BY <2>2
    <3> QED  BY <1>2, <1>8, <2>2, <3>1
  <2>3. CASE j \in 2 .. Len(entries')
    BY <1>11, <2>3
  <2> QED  BY <1>9, <2>2, <2>3
<1>13. ASSUME NEW d \in DOMAIN since' \ Listed'
       PROVE  Len(entries') = MaxHeard /\ Listed' \subseteq since'[d]
  <2>1. Listed' = {entries'[i].call : i \in DOMAIN entries'}
    BY DEF Listed
  <2>2. d # c /\ d \in DOMAIN since /\ since'[d] = since[d] \cup {c}
    <3>1. 1 \in DOMAIN entries'
      BY <1>1
    <3>2. c \in Listed'
      BY <1>2, <2>1, <3>1
    <3> QED  BY <1>8, <3>2
  <2>3. \A i \in DOMAIN entries' :
          \/ entries'[i].call = c
          \/ /\ i \in 2 .. Len(entries')
             /\ entries'[i].call = entries[Was(n, i)].call
    BY <1>2, <1>3, <1>9
  <2>4. Len(entries') <= MaxHeard /\ MaxHeard \in Nat /\ Len(entries) <= MaxHeard
    <3>1. TypeOK'
      BY TypeNext DEF Next
    <3> QED  BY <3>1, HeardAssumption DEF TypeOK
  <2>5. CASE d \notin Listed
    <3>1. Len(entries) = MaxHeard /\ Listed \subseteq since[d]
      BY <2>2, <2>5 DEF Recency
    <3>3. Len(entries') = MaxHeard
      <4>1. Len(entries) <= Len(entries')
        BY <1>1
      <4>2. Len(entries') \in Nat /\ Len(entries) \in Nat
        BY <1>1
      <4> QED  BY <2>4, <3>1, <4>1, <4>2
    <3>4. \A i \in 2 .. Len(entries') : entries[Was(n, i)].call \in Listed
      BY <1>3 DEF Listed
    <3> QED  BY <2>1, <2>2, <2>3, <3>1, <3>3, <3>4
  <2>6. CASE d \in Listed
    <3>1. PICK k \in DOMAIN entries : d = entries[k].call
      BY <2>6 DEF Listed
    <3>2. k = n
      <4>1. SUFFICES ASSUME k # n PROVE FALSE
        OBVIOUS
      <4>2. PICK m \in 2 .. Len(entries') : Was(n, m) = k
        BY <1>4, <1>7, <4>1
      <4>3. entries'[m].call = d /\ m \in DOMAIN entries'
        BY <1>1, <1>3, <3>1, <4>2
      <4> QED  BY <2>1, <4>3
    <3>3. n = Len(entries') /\ n = MaxHeard /\ n = Len(entries)
      <4>1. entries[n].call # c
        BY <2>2, <3>1, <3>2
      <4>2. n <= Len(entries) /\ Len(entries) \in Nat
        BY <1>1, <3>2
      <4>3. n # Len(entries) + 1
        BY <4>2
      <4>4. n = Len(entries') /\ n = MaxHeard
        BY <1>5, <4>1, <4>3
      <4> QED  BY <2>4, <4>2, <4>4
    <3>4. since[d] = {entries[j].call : j \in 1 .. n - 1}
      BY <3>1, <3>2 DEF Recency
    <3>5. \A i \in 2 .. Len(entries') : Was(n, i) \in 1 .. n - 1
      BY <1>1, <1>3, <3>3, WasOrder
    <3>6. \A i \in 2 .. Len(entries') : entries[Was(n, i)].call \in since[d]
      BY <3>4, <3>5
    <3> QED  BY <2>1, <2>2, <2>3, <3>3, <3>6
  <2> QED  BY <2>5, <2>6
<1> QED  BY <1>10, <1>12, <1>13 DEF Recency

\* A list that is loaded is taken to have been heard in its order.
LEMMA RecencyLoad ==
  ASSUME TypeOK, FlashDistinct, Load
  PROVE  Recency'
<1>1. /\ DOMAIN entries' = 1 .. Len(entries') /\ Len(entries') \in Nat
      /\ Len(entries') <= Len(data) /\ data \in Seq(Calls)
      /\ \A i \in DOMAIN entries' : entries'[i] = [call |-> data[i], at |-> PreBoot]
  BY Loaded
<1>2. Distinct(data)
  BY DEF FlashDistinct, Load
<1>3. \A i \in DOMAIN entries' : i \in DOMAIN data /\ entries'[i].call = data[i]
                                 /\ entries'[i].call \in Calls
  BY <1>1, ElementOfSeq
<1>4. \A i, j \in DOMAIN entries' : entries'[i].call = entries'[j].call => i = j
  BY <1>2, <1>3 DEF Distinct
<1>5. since' = [d \in {entries'[i].call : i \in DOMAIN entries'} |->
                 {c \in Calls : \E i, j \in DOMAIN entries' :
                    i < j /\ entries'[i].call = c /\ entries'[j].call = d}]
  BY DEF Load
<1>6. ASSUME NEW i \in DOMAIN entries'
      PROVE  /\ entries'[i].call \in DOMAIN since'
             /\ since'[entries'[i].call] = {entries'[j].call : j \in 1 .. i - 1}
  <2>1. since'[entries'[i].call] =
          {c \in Calls : \E k, j \in DOMAIN entries' :
             k < j /\ entries'[k].call = c /\ entries'[j].call = entries'[i].call}
    BY <1>5
  <2>2. \A k \in 1 .. i - 1 : k \in DOMAIN entries' /\ k < i
    BY <1>1
  <2>3. {entries'[j].call : j \in 1 .. i - 1} \subseteq since'[entries'[i].call]
    BY <1>3, <2>1, <2>2
  <2>4. ASSUME NEW c \in since'[entries'[i].call]
        PROVE  c \in {entries'[j].call : j \in 1 .. i - 1}
    <3>1. PICK k \in DOMAIN entries' : k < i /\ entries'[k].call = c
      BY <1>4, <2>1, <2>4
    <3>2. k \in 1 .. i - 1
      BY <1>1, <3>1
    <3> QED  BY <3>1, <3>2
  <2> QED  BY <1>5, <2>3, <2>4
<1>7. DOMAIN since' \ Listed' = {}
  BY <1>5 DEF Listed
<1> QED  BY <1>4, <1>6, <1>7 DEF Recency

\* Recency is about the list alone.
LEMMA RecencyUnchanged ==
  ASSUME Recency, UNCHANGED <<entries, since>>
  PROVE  Recency'
BY DEF Recency, Listed

\* Every step keeps the order, in RAM and on flash.
LEMMA OrderNext ==
  TypeOK /\ Recency /\ FlashDistinct /\ [Next]_vars => Recency' /\ FlashDistinct'
<1> SUFFICES ASSUME TypeOK, Recency, FlashDistinct, [Next]_vars
             PROVE  Recency' /\ FlashDistinct'
  OBVIOUS
<1>0. Distinct(<<>>)
  BY DEF Distinct
<1>1. CASE Heard
  BY <1>1, RecencyHeard DEF Heard, flash, FlashDistinct
<1>2. CASE InitRegister \/ InitDone \/ LoadMissing \/ LoadDone \/ SetFilter \/ PersistSkip
           \/ \E c \in Calls : Frame(c)
  <2>1. UNCHANGED <<entries, since, data, temp>>
    BY <1>2 DEF Frame, InitRegister, InitDone, LoadMissing, LoadDone, SetFilter, PersistSkip,
                flash, history
  <2> QED  BY <2>1, RecencyUnchanged DEF FlashDistinct
<1>3. CASE Load
  BY <1>3, RecencyLoad DEF Load, flash, FlashDistinct
<1>4. CASE Round
  BY <1>4, RecencyUnchanged DEF Round, flash, FlashDistinct
<1>5. CASE PersistWrite
  <2>1. PICK n \in 0 .. Len(entries) : temp' = SubSeq(CallsOf(entries), 1, n)
    BY <1>5 DEF PersistWrite
  <2>2. /\ Len(entries) \in Nat /\ DOMAIN entries = 1 .. Len(entries)
        /\ temp' \in Seq(Calls) /\ Len(temp') = n
        /\ \A i \in 1 .. n : temp'[i] = entries[i].call
    BY <2>1, CallsOfList DEF TypeOK
  <2>3. DOMAIN temp' = 1 .. n /\ \A i \in 1 .. n : i \in DOMAIN entries
    BY <2>2
  <2>4. Distinct(temp')
    BY <2>2, <2>3 DEF Distinct, Recency
  <2> QED  BY <1>5, <2>4, RecencyUnchanged DEF PersistWrite, FlashDistinct
<1>6. CASE PersistFail \/ PersistRenameFail
  BY <1>0, <1>6, RecencyUnchanged DEF PersistFail, PersistRenameFail, FlashDistinct
<1>7. CASE PersistRename
  BY <1>0, <1>7, RecencyUnchanged DEF PersistRename, FlashDistinct
<1>8. CASE Crash
  <2>1. DOMAIN entries' = {} /\ DOMAIN since' = {}
    BY <1>8 DEF Crash
  <2>2. Recency'
    BY <2>1 DEF Recency
  <2> QED  BY <1>0, <1>8, <2>2 DEF Crash, FlashDistinct
<1>9. CASE UNCHANGED vars
  BY <1>9, RecencyUnchanged DEF vars, flash, history, FlashDistinct
<1> QED
  BY <1>1, <1>2, <1>3, <1>4, <1>5, <1>6, <1>7, <1>8, <1>9 DEF Next, Main

\* No station is listed at first.
LEMMA OrderInit == Init => Recency /\ FlashDistinct
<1> SUFFICES ASSUME Init PROVE Recency /\ FlashDistinct
  OBVIOUS
<1>1. DOMAIN entries = {} /\ DOMAIN since = {}
  BY DEF Init
<1>2. Recency
  BY <1>1 DEF Recency
<1>3. FlashDistinct
  BY DEF Init, FlashDistinct, Distinct
<1> QED  BY <1>2, <1>3

\* The list is that of the stations heard last, the latest first, and none is
\* missing before it is full: for every order of frames, loads, failing writes
\* and resets.
THEOREM LatestFirst == Spec => []Recency
<1>1. Init => TypeOK /\ Recency /\ FlashDistinct
  BY TypeInit, OrderInit
<1>2. (TypeOK /\ Recency /\ FlashDistinct) /\ [Next]_vars
        => (TypeOK /\ Recency /\ FlashDistinct)'
  BY TypeNext, OrderNext
<1> QED  BY <1>1, <1>2, PTL DEF Spec

\* No station was heard later than now, or than the frame that waits.
PastTimes ==
  \A i \in DOMAIN entries :
    \/ entries[i].at = PreBoot
    \/ /\ entries[i].at <= time
       /\ frame # NoFrame => entries[i].at <= frame.at

\* A frame is heard when its time was read, and the others keep their order.
LEMMA AgesHeard ==
  ASSUME TypeOK, Recency, AgesAscend, PastTimes, Heard
  PROVE  AgesAscend' /\ PastTimes'
<1> DEFINE c == frame.call
<1> HIDE DEF c
<1>0. PICK n \in Nat \ {0} : n = Place(entries, c)
  BY Placed DEF TypeOK
<1>1. DOMAIN entries' = 1 .. Len(entries') /\ Len(entries') \in Nat
  <2>1. Sizes(n)
    BY <1>0, Moved, Zenon DEF c
  <2> QED  BY <2>1 DEF Sizes
<1>2. /\ entries'[1].at = frame.at /\ time' = time /\ frame' = NoFrame
      /\ frame.at # PreBoot /\ frame.at <= time /\ frame # NoFrame
  <2>1. entries'[1] = frame
    BY <1>0, Moved, Zenon DEF c
  <2> QED  BY <2>1, NewEntry DEF Heard
<1>3. \A j \in 2 .. Len(entries') :
        Was(n, j) \in DOMAIN entries /\ entries'[j] = entries[Was(n, j)]
  <2>1. Behind(n, c)
    BY <1>0, Moved, Zenon DEF c
  <2> QED  BY <2>1 DEF Behind
<1>4. \A i, j \in 2 .. Len(entries') : i < j => Was(n, i) < Was(n, j)
  BY <1>1, WasOrder
<1>5. \A j \in DOMAIN entries' : j = 1 \/ j \in 2 .. Len(entries')
  BY <1>1
<1>6. \A j \in 2 .. Len(entries') :
        entries'[j].at = PreBoot \/ (entries'[j].at <= time /\ entries'[j].at <= frame.at)
  BY <1>2, <1>3 DEF PastTimes
<1>7. PastTimes'
  <2>1. \A j \in DOMAIN entries' : entries'[j].at = PreBoot \/ entries'[j].at <= time'
    BY <1>2, <1>5, <1>6
  <2>2. PreBoot' = PreBoot
    BY DEF PreBoot
  <2> QED  BY <1>2, <2>1, <2>2 DEF PastTimes
<1>8. ASSUME NEW i \in DOMAIN entries', NEW j \in DOMAIN entries', i < j
      PROVE  \/ entries'[j].at = PreBoot
             \/ entries'[i].at # PreBoot /\ entries'[j].at <= entries'[i].at
  <2>1. j \in 2 .. Len(entries')
    BY <1>1, <1>8
  <2>2. CASE i = 1
    BY <1>2, <1>6, <2>1, <2>2
  <2>3. CASE i \in 2 .. Len(entries')
    <3>1. Was(n, i) < Was(n, j)
      BY <1>4, <1>8, <2>1, <2>3
    <3> QED  BY <1>3, <2>1, <2>3, <3>1 DEF AgesAscend
  <2> QED  BY <1>5, <2>2, <2>3
<1>9. AgesAscend'
  BY <1>8 DEF AgesAscend, PreBoot
<1> QED  BY <1>7, <1>9

\* Every step keeps the times in order: a load forgets them, a round only adds
\* to the present.
LEMMA AgesNext ==
  TypeOK /\ Recency /\ AgesAscend /\ PastTimes /\ [Next]_vars
    => AgesAscend' /\ PastTimes'
<1> SUFFICES ASSUME TypeOK, Recency, AgesAscend, PastTimes, [Next]_vars
             PROVE  AgesAscend' /\ PastTimes'
  OBVIOUS
<1>1. CASE Heard
  BY <1>1, AgesHeard
<1>2. CASE Load
  <2>1. \A i \in DOMAIN entries' : entries'[i].at = PreBoot
    BY <1>2, Loaded
  <2> QED  BY <2>1 DEF AgesAscend, PastTimes, PreBoot
<1>3. CASE Round
  <2>1. entries' = entries /\ frame' = frame /\ time' = time + 1 /\ time \in Nat
    BY <1>3 DEF Round, TypeOK
  <2>2. \A i \in DOMAIN entries : entries[i].at \in Int
    <3>1. entries \in Seq(Entry)
      BY DEF TypeOK
    <3>2. \A i \in DOMAIN entries : entries[i] \in Entry
      BY <3>1, ElementOfSeq
    <3> QED  BY <3>2, HeardAssumption DEF Entry, PreBoot
  <2>3. \A i \in DOMAIN entries : entries[i].at = PreBoot \/ entries[i].at <= time + 1
    BY <2>1, <2>2 DEF PastTimes
  <2> QED  BY <2>1, <2>3 DEF AgesAscend, PastTimes, PreBoot
<1>4. CASE Crash
  <2>1. DOMAIN entries' = {}
    BY <1>4 DEF Crash
  <2> QED  BY <2>1 DEF AgesAscend, PastTimes
<1>5. CASE InitRegister \/ InitDone \/ LoadMissing \/ LoadDone \/ SetFilter \/ PersistSkip
           \/ PersistWrite \/ PersistFail \/ PersistRename \/ PersistRenameFail
           \/ UNCHANGED vars
  <2>1. UNCHANGED <<entries, time, frame>>
    BY <1>5 DEF InitRegister, InitDone, LoadMissing, LoadDone, SetFilter, PersistSkip,
                PersistWrite, PersistFail, PersistRename, PersistRenameFail, vars
  <2> QED  BY <2>1 DEF AgesAscend, PastTimes, PreBoot
<1>6. ASSUME NEW c \in Calls, Frame(c) PROVE AgesAscend' /\ PastTimes'
  <2>1. UNCHANGED <<entries, time>> /\ frame'.at = time
    BY <1>6 DEF Frame
  <2> QED  BY <2>1 DEF AgesAscend, PastTimes, PreBoot
<1> QED  BY <1>1, <1>2, <1>3, <1>4, <1>5, <1>6 DEF Next, Main

\* The times shown never go back along the list, whatever was loaded, heard and
\* lost.
THEOREM LatestTimesFirst == Spec => []AgesAscend
<1>1. Init => AgesAscend /\ PastTimes
  <2>1. Init => DOMAIN entries = {}
    BY DEF Init
  <2> QED  BY <2>1 DEF AgesAscend, PastTimes
<1>2. (TypeOK /\ Recency) /\ (AgesAscend /\ PastTimes) /\ [Next]_vars
        => (AgesAscend /\ PastTimes)'
  BY AgesNext
<1> QED  BY <1>1, <1>2, TypeCorrect, LatestFirst, PTL DEF Spec
-----------------------------------------------------------------------------
(* The file. *)

\* Between the write and the rename, heard.tmp has the list as it is.
WrittenWhole == pc = "written" => temp = CallsOf(entries)

\* The mutex keeps the list from changing between the two.
LEMMA WrittenNext ==
  ASSUME "close" \notin Faults
  PROVE  TypeOK /\ WrittenWhole /\ [Next]_vars
           => WrittenWhole' /\ (data' # data => data' = CallsOf(entries))
<1> SUFFICES ASSUME TypeOK, WrittenWhole, [Next]_vars
             PROVE  WrittenWhole' /\ (data' # data => data' = CallsOf(entries))
  OBVIOUS
<1> USE DEF WrittenWhole
<1>1. CASE Heard \/ \E c \in Calls : Frame(c)
  <2>1. data' = data
    BY <1>1 DEF Heard, Frame, flash
  <2>2. CASE Heard
    BY <2>1, <2>2 DEF Heard
  <2>3. CASE \E c \in Calls : Frame(c)
    <3>1. UNCHANGED <<entries, temp, pc>>
      BY <2>3 DEF Frame, flash
    <3>2. CallsOf(entries)' = CallsOf(entries)
      BY <3>1 DEF CallsOf
    <3> QED  BY <2>1, <3>1, <3>2
  <2> QED  BY <1>1, <2>2, <2>3
<1>2. CASE InitRegister \/ InitDone \/ LoadMissing \/ Load \/ LoadDone \/ SetFilter
           \/ Round \/ PersistSkip
  BY <1>2 DEF InitRegister, InitDone, LoadMissing, Load, LoadDone, SetFilter, Round,
              PersistSkip, flash
<1>3. CASE PersistWrite
  <2>1. temp' = SubSeq(CallsOf(entries), 1, Len(entries))
    BY <1>3 DEF PersistWrite
  <2>2. temp' = CallsOf(entries)
    BY <2>1, CallsOfList DEF TypeOK
  <2>3. CallsOf(entries)' = CallsOf(entries)
    BY <1>3 DEF PersistWrite, CallsOf
  <2> QED  BY <1>3, <2>2, <2>3 DEF PersistWrite
<1>4. CASE PersistFail \/ PersistRenameFail
  BY <1>4 DEF PersistFail, PersistRenameFail
<1>5. CASE PersistRename
  BY <1>5 DEF PersistRename
<1>6. CASE Crash
  BY <1>6 DEF Crash
<1>7. CASE UNCHANGED vars
  <2>1. CallsOf(entries)' = CallsOf(entries)
    BY <1>7 DEF vars, CallsOf
  <2> QED  BY <1>7, <2>1 DEF vars, flash
<1> QED  BY <1>1, <1>2, <1>3, <1>4, <1>5, <1>6, <1>7 DEF Next, Main

\* If fclose() keeps what fwrite() took, heard.dat only ever becomes the whole
\* list: whatever else fails, and whenever the power does.
THEOREM FileWhole ==
  ASSUME "close" \notin Faults
  PROVE  Spec => WholeOnFlash
<1>1. Init => WrittenWhole
  BY DEF Init, WrittenWhole
<1>2. TypeOK /\ WrittenWhole /\ [Next]_vars => WrittenWhole'
  BY WrittenNext
<1>3. TypeOK /\ WrittenWhole /\ [Next]_vars => [data' # data => data' = CallsOf(entries)]_vars
  BY WrittenNext
<1> QED  BY <1>1, <1>2, <1>3, TypeCorrect, PTL DEF Spec, WholeOnFlash
-----------------------------------------------------------------------------
(* How far the file is behind the list. *)

\* The file is behind for no more rounds than the last write is old; the limit
\* is looked at in every round, and nothing is counted before the first.
LagInv ==
  /\ unsaved <= time - last_persist_time
  /\ pc \in {"off", "init", "load", "loaded", "filter"} => time = 0
  /\ pc = "run" => failed \/ time - last_persist_time < RateLimit
  /\ pc \in {"persist", "written"} => failed \/ time - last_persist_time <= RateLimit

\* Every step keeps it.
LEMMA LagNext == TypeOK /\ LagInv /\ [Next]_vars => LagInv'
<1> SUFFICES ASSUME TypeOK, LagInv, [Next]_vars PROVE LagInv'
  OBVIOUS
<1>0. /\ RateLimit \in Nat \ {0} /\ time \in Nat /\ last_persist_time \in Nat
      /\ unsaved \in Nat /\ last_persist_time <= time
  BY HeardAssumption DEF TypeOK
<1> USE DEF LagInv
<1>1. CASE Heard \/ \E c \in Calls : Frame(c)
  BY <1>1 DEF Heard, Frame, history
<1>2. CASE InitRegister \/ LoadMissing
  BY <1>2 DEF InitRegister, LoadMissing, history
<1>3. CASE InitDone
  BY <1>0, <1>3 DEF InitDone, history
<1>4. CASE Load
  BY <1>4 DEF Load
<1>5. CASE LoadDone
  BY <1>0, <1>5 DEF LoadDone, history
<1>6. CASE SetFilter
  BY <1>0, <1>6 DEF SetFilter, history
<1>7. CASE Round
  <2>1. unsaved' <= unsaved + 1
    BY <1>0, <1>7 DEF Round
  <2>2. unsaved' \in Nat
    BY <1>0, <1>7 DEF Round
  <2>3. unsaved' <= time' - last_persist_time'
    BY <1>0, <1>7, <2>1, <2>2 DEF Round
  <2>4. failed' \/ time' - last_persist_time' <= RateLimit
    BY <1>0, <1>7 DEF Round
  <2> QED  BY <1>7, <2>3, <2>4 DEF Round
<1>8. CASE PersistSkip
  BY <1>0, <1>8 DEF PersistSkip, Due, history
<1>9. CASE PersistWrite
  BY <1>9 DEF PersistWrite
<1>10. CASE PersistFail \/ PersistRenameFail
  BY <1>10 DEF PersistFail, PersistRenameFail
<1>11. CASE PersistRename
  BY <1>0, <1>11 DEF PersistRename
<1>12. CASE Crash
  BY <1>12 DEF Crash
<1>13. CASE UNCHANGED vars
  BY <1>13 DEF vars, history
<1> QED
  BY <1>1, <1>2, <1>3, <1>4, <1>5, <1>6, <1>7, <1>8, <1>9, <1>10, <1>11, <1>12, <1>13
     DEF Next, Main

\* It says what SavedInTime says.
LEMMA LagBounded == TypeOK /\ LagInv => SavedInTime
<1> SUFFICES ASSUME TypeOK, LagInv, ~failed PROVE unsaved <= RateLimit
  BY DEF SavedInTime
<1>0. /\ RateLimit \in Nat \ {0} /\ time \in Nat /\ last_persist_time \in Nat
      /\ unsaved \in Nat /\ last_persist_time <= time
  BY HeardAssumption DEF TypeOK
<1>1. \/ pc \in {"off", "init", "load", "loaded", "filter"}
      \/ pc = "run" \/ pc \in {"persist", "written"}
  BY DEF TypeOK
<1>2. time - last_persist_time <= RateLimit
  BY <1>0, <1>1 DEF LagInv
<1> QED  BY <1>0, <1>2 DEF LagInv

\* Unless a write failed, heard.dat is never behind the list for longer than
\* the limit, even when the dirty flag of a frame was lost.
THEOREM NeverFarBehind == Spec => []SavedInTime
<1>1. Init => LagInv
  BY DEF Init, LagInv
<1>2. (TypeOK /\ LagInv) /\ [Next]_vars => LagInv'
  BY LagNext
<1> QED  BY <1>1, <1>2, LagBounded, TypeCorrect, PTL DEF Spec
=============================================================================
