--------------------------- MODULE ComposeProofs ----------------------------
(***************************************************************************)
(* What is composed is what one station typed, for any lengths of lines    *)
(* and bodies, any number of sessions and any cutting into packets: the    *)
(* buffers are never overrun, no line or message is of two sessions, and   *)
(* what is in the body is what was typed.                                  *)
(***************************************************************************)
EXTENDS Compose, SequenceTheorems, WellFoundedInduction, TLAPS

\* A line that a Ctrl-Z left behind is only there in command mode, and a
\* message has no body before its subject is typed.
Order ==
  /\ leftover => input_mode = "COMMAND"
  /\ input_mode = "SUBJECT" => pending_body = <<>>

IInv == TypeOK /\ LinesOfOneMode /\ OneAuthor /\ Order

\* What AppendLine makes of a body: the start of the line and a CR behind it,
\* within the limit, and nothing else (bbs.c:1051).
Appended == 
  LET room == BodyMax - Len(pending_body) - 2
      line == SubSeq(line_buf, 1, IF Len(line_buf) > room THEN room ELSE Len(line_buf))
  IN  Append(pending_body \o line, EndOfLine)

\* Each element of x is one of p or of q, or is e.
MadeOf(x, p, q, e) ==
  \A i \in DOMAIN x :
    (\E j \in DOMAIN p : x[i] = p[j]) \/ (\E j \in DOMAIN q : x[i] = q[j]) \/ x[i] = e

\* Of a sequence with the start of another and one more element behind it.
LEMMA Joined ==
  ASSUME NEW S, NEW p \in Seq(S), NEW q \in Seq(S), NEW n \in 0 .. Len(q), NEW e \in S
  PROVE  /\ Append(p \o SubSeq(q, 1, n), e) \in Seq(S)
         /\ Len(Append(p \o SubSeq(q, 1, n), e)) = Len(p) + n + 1
         /\ MadeOf(Append(p \o SubSeq(q, 1, n), e), p, q, e)
<1> DEFINE l == SubSeq(q, 1, n)
           pl == p \o l
           ple == Append(pl, e)
<1>1. /\ Len(p) \in Nat /\ DOMAIN p = 1 .. Len(p)
      /\ Len(q) \in Nat /\ DOMAIN q = 1 .. Len(q)
  BY LenProperties
<1>2. l \in Seq(S) /\ Len(l) = n /\ \A i \in 1 .. n : l[i] = q[i]
  <2>1. 1 \in Int /\ n \in Int /\ \A i \in 1 .. n : q[i] \in S
    BY <1>1, ElementOfSeq
  <2>2. /\ l \in Seq(S) /\ Len(l) = IF 1 <= n THEN n - 1 + 1 ELSE 0
        /\ \A i \in 1 .. n - 1 + 1 : l[i] = q[1 + i - 1]
    BY <2>1, SubSeqProperties
  <2> HIDE DEF l
  <2> QED BY <2>2
<1> HIDE DEF l
<1>3. /\ pl \in Seq(S) /\ Len(pl) = Len(p) + n
      /\ \A i \in 1 .. Len(p) : pl[i] = p[i]
      /\ \A i \in Len(p) + 1 .. Len(p) + n : pl[i] = q[i - Len(p)]
  <2>1. /\ pl \in Seq(S) /\ Len(pl) = Len(p) + Len(l)
        /\ \A i \in 1 .. Len(p) + Len(l) : pl[i] = IF i <= Len(p) THEN p[i] ELSE l[i - Len(p)]
    BY <1>2, ConcatProperties
  <2> HIDE DEF pl
  <2>2. ASSUME NEW i \in Len(p) + 1 .. Len(p) + n PROVE pl[i] = q[i - Len(p)]
    <3>1. i \in 1 .. Len(p) + n /\ ~(i <= Len(p)) /\ i - Len(p) \in 1 .. n
      BY <1>1
    <3> QED BY <1>2, <2>1, <3>1
  <2>3. ASSUME NEW i \in 1 .. Len(p) PROVE pl[i] = p[i]
    <3>1. i \in 1 .. Len(p) + n /\ i <= Len(p)
      BY <1>1
    <3> QED BY <1>2, <2>1, <3>1
  <2> QED BY <1>2, <2>1, <2>2, <2>3
<1> HIDE DEF pl
<1>4. /\ ple \in Seq(S) /\ Len(ple) = Len(p) + n + 1
      /\ \A i \in 1 .. Len(p) + n : ple[i] = pl[i]
      /\ ple[Len(p) + n + 1] = e
  BY <1>1, <1>3, AppendProperties
<1>5. DOMAIN ple = 1 .. Len(p) + n + 1
  BY <1>4, LenProperties
<1> HIDE DEF ple
<1>6. ASSUME NEW i \in DOMAIN ple
      PROVE  \/ \E j \in DOMAIN p : ple[i] = p[j]
             \/ \E j \in DOMAIN q : ple[i] = q[j]
             \/ ple[i] = e
  <2>1. CASE i \in 1 .. Len(p)
    BY <1>1, <1>3, <1>4, <2>1
  <2>2. CASE i \in Len(p) + 1 .. Len(p) + n
    <3>1. i \in 1 .. Len(p) + n /\ i - Len(p) \in 1 .. Len(q)
      BY <1>1, <2>2
    <3>2. ple[i] = pl[i] /\ pl[i] = q[i - Len(p)]
      BY <1>3, <1>4, <2>2, <3>1
    <3> QED BY <1>1, <3>1, <3>2
  <2>3. CASE i = Len(p) + n + 1
    BY <1>4, <2>3
  <2>4. \/ i \in 1 .. Len(p) \/ i \in Len(p) + 1 .. Len(p) + n \/ i = Len(p) + n + 1
    BY <1>1, <1>5
  <2> QED BY <2>1, <2>2, <2>3, <2>4
<1>7. MadeOf(ple, p, q, e)
  BY <1>6 DEF MadeOf
<1> QED BY <1>4, <1>7 DEF ple, pl, l

\* The body with the line behind it keeps its type and its limit, and has
\* nothing that was neither in the body nor in the line nor the CR (bbs.c:1051).
LEMMA AppendedWithin ==
  ASSUME TypeOK, BodyMax - Len(pending_body) > 2
  PROVE  /\ Appended \in Seq(Byte) /\ Len(Appended) < BodyMax
         /\ MadeOf(Appended, pending_body, line_buf, EndOfLine)
<1> DEFINE room == BodyMax - Len(pending_body) - 2
           copy == IF Len(line_buf) > room THEN room ELSE Len(line_buf)
<1>1. /\ pending_body \in Seq(Byte) /\ line_buf \in Seq(Byte) /\ EndOfLine \in Byte
  BY ComposeAssumption DEF TypeOK, EndOfLine, Typed, Byte
<1>2. BodyMax \in Nat /\ Len(pending_body) \in Nat /\ Len(line_buf) \in Nat
  BY <1>1, LenProperties, ComposeAssumption
<1>3. copy \in 0 .. Len(line_buf) /\ Len(pending_body) + copy + 1 < BodyMax
  BY <1>2
<1>4. Appended = Append(pending_body \o SubSeq(line_buf, 1, copy), EndOfLine)
  BY DEF Appended
<1> HIDE DEF copy
<1>5. /\ Append(pending_body \o SubSeq(line_buf, 1, copy), EndOfLine) \in Seq(Byte)
      /\ Len(Append(pending_body \o SubSeq(line_buf, 1, copy), EndOfLine))
           = Len(pending_body) + copy + 1
      /\ MadeOf(Append(pending_body \o SubSeq(line_buf, 1, copy), EndOfLine),
                pending_body, line_buf, EndOfLine)
  BY <1>1, <1>3, Joined
<1>6. /\ Appended \in Seq(Byte) /\ Len(Appended) = Len(pending_body) + copy + 1
      /\ MadeOf(Appended, pending_body, line_buf, EndOfLine)
  BY <1>4, <1>5, Zenon
<1> QED BY <1>3, <1>6

\* The types of the constants and of what is put in a line.
LEMMA Bytes ==
  ASSUME TypeOK
  PROVE  /\ LineMax \in Nat /\ BodyMax \in Nat /\ BodyMax > 0
         /\ EndOfLine \in Byte /\ \A ch \in Chars : Typed(ch) \in Byte
BY ComposeAssumption DEF TypeOK, EndOfLine, Typed, Byte
-----------------------------------------------------------------------------
\* bbs_on_connect() leaves nothing of the session before in the editor
\* (bbs.c:1280).
LEMMA OnConnectKeeps == ASSUME IInv, OnConnect PROVE IInv'
<1>1. /\ line_buf' = <<>> /\ raw' = <<>> /\ flaws' = {}
      /\ pending_body' = pending_body /\ pending_subject' = pending_subject
      /\ session' = session + 1 /\ input_mode' = "COMMAND"
      /\ connected' = TRUE /\ suppress_lf_after_cr' = FALSE /\ leftover' = FALSE
  BY DEF OnConnect, FreshEditor, pending
<1>2. TypeOK'
  <2>1. TypeOK /\ LineMax \in Nat
    BY Bytes DEF IInv
  <2>2. line_buf' \in Seq(Byte) /\ Len(line_buf') <= LineMax
    BY <1>1, <2>1
  <2>3. raw' \in Seq(Chars \cup {CR, LF}) /\ flaws' \subseteq Flaws
    BY <1>1
  <2>4. pending_body' \in Seq(Byte) /\ Len(pending_body') < BodyMax /\ pending_subject' \in Nat
    BY <1>1, <2>1 DEF TypeOK
  <2>5. session' \in Nat /\ input_mode' \in {"COMMAND", "SUBJECT", "BODY"}
    BY <1>1, <2>1 DEF TypeOK
  <2>6. connected' \in BOOLEAN /\ suppress_lf_after_cr' \in BOOLEAN /\ leftover' \in BOOLEAN
    BY <1>1, Zenon
  <2> QED BY <2>2, <2>3, <2>4, <2>5, <2>6 DEF TypeOK
<1>3. LinesOfOneMode'
  BY <1>1 DEF LinesOfOneMode
<1>4. OneAuthor' /\ Order'
  BY <1>1 DEF OneAuthor, Order
<1> QED BY <1>2, <1>3, <1>4 DEF IInv

\* bbs_on_disconnect()
LEMMA OnDisconnectKeeps == ASSUME IInv, OnDisconnect PROVE IInv'
<1>1. /\ line_buf' = <<>> /\ input_mode' = "COMMAND"
      /\ pending_body' = pending_body /\ pending_subject' = pending_subject
      /\ session' = session /\ raw' = raw /\ flaws' = flaws /\ leftover' = leftover
      /\ connected' = FALSE /\ suppress_lf_after_cr' = FALSE
  BY DEF OnDisconnect, FreshEditor, pending, history
<1>2. TypeOK'
  <2>1. TypeOK /\ LineMax \in Nat
    BY Bytes DEF IInv
  <2>2. line_buf' \in Seq(Byte) /\ Len(line_buf') <= LineMax
    BY <1>1, <2>1
  <2>3. connected' \in BOOLEAN /\ suppress_lf_after_cr' \in BOOLEAN /\ leftover' \in BOOLEAN
    BY <1>1, <2>1, Zenon DEF TypeOK
  <2> QED BY <1>1, <2>1, <2>2, <2>3 DEF TypeOK
<1>3. LinesOfOneMode'
  BY <1>1 DEF LinesOfOneMode
<1>4. OneAuthor' /\ Order'
  BY <1>1 DEF OneAuthor, Order
<1> QED BY <1>2, <1>3, <1>4 DEF IInv

\* bbs_process_input_line(), whichever byte ended the line (bbs.c:1025).
LEMMA InputLineKeeps ==
  ASSUME IInv, NEW end \in {CR, LF}, InputLine(end), suppress_lf_after_cr' \in BOOLEAN
  PROVE  IInv'
<1>1. /\ TypeOK /\ LineMax \in Nat /\ BodyMax \in Nat /\ BodyMax > 0
      /\ LinesOfOneMode /\ OneAuthor /\ Order
  BY Bytes DEF IInv
<1>2. /\ line_buf' = <<>> /\ leftover' = FALSE
      /\ connected' = connected /\ session' = session
  BY DEF InputLine
<1>3. /\ line_buf' \in Seq(Byte) /\ Len(line_buf') <= LineMax
      /\ session' \in Nat
  BY <1>1, <1>2 DEF TypeOK
<1>4. connected' \in BOOLEAN /\ leftover' \in BOOLEAN
  BY <1>1, <1>2, Zenon DEF TypeOK
<1>5. LinesOfOneMode'
  BY <1>2 DEF LinesOfOneMode
<1>6. CASE Command
  <2>1. /\ input_mode' \in {"COMMAND", "SUBJECT"}
        /\ \/ pending_subject' = 0 /\ pending_body' = <<>>
           \/ /\ pending_subject' = pending_subject /\ pending_body' = pending_body
              /\ input_mode' = "COMMAND"
        /\ raw' = raw /\ flaws' = flaws
    BY <1>6 DEF Command, StartMessage, pending
  <2>2. pending_body' \in Seq(Byte) /\ Len(pending_body') < BodyMax /\ pending_subject' \in Nat
    <3>1. /\ <<>> \in Seq(Byte) /\ Len(<<>>) < BodyMax /\ 0 \in Nat
          /\ pending_body \in Seq(Byte) /\ Len(pending_body) < BodyMax /\ pending_subject \in Nat
      BY <1>1 DEF TypeOK
    <3> QED BY <2>1, <3>1, Zenon
  <2>3. TypeOK'
    BY <1>1, <1>3, <1>4, <2>1, <2>2 DEF TypeOK
  <2>4. OneAuthor' /\ Order'
    BY <1>2, <2>1 DEF OneAuthor, Order
  <2> QED BY <1>5, <2>3, <2>4 DEF IInv
<1>7. CASE Subject(end)
  <2>1. /\ input_mode = "SUBJECT" /\ input_mode' = "BODY" /\ pending_subject' = session
        /\ raw' = <<end>> /\ flaws' = {} /\ pending_body' = pending_body
    BY <1>7 DEF Subject
  <2>2. pending_body = <<>>
    BY <1>1, <2>1 DEF Order
  <2>3. raw' \in Seq(Chars \cup {CR, LF}) /\ flaws' \subseteq Flaws
    BY <2>1
  <2>4. TypeOK'
    BY <1>1, <1>3, <1>4, <2>1, <2>3 DEF TypeOK
  <2>5. OneAuthor' /\ Order'
    BY <1>2, <2>1, <2>2 DEF OneAuthor, Order
  <2> QED BY <1>5, <2>4, <2>5 DEF IInv
<1>8. CASE Body(end)
  <2>1. CASE FinishPost
    <3>1. /\ input_mode' = "COMMAND" /\ pending_body' = <<>> /\ raw' = <<>> /\ flaws' = {}
          /\ pending_subject' = pending_subject
      BY <2>1 DEF FinishPost
    <3>2. /\ pending_body' \in Seq(Byte) /\ Len(pending_body') < BodyMax
          /\ raw' \in Seq(Chars \cup {CR, LF}) /\ flaws' \subseteq Flaws
      BY <1>1, <3>1
    <3>3. TypeOK'
      BY <1>1, <1>3, <1>4, <3>1, <3>2 DEF TypeOK
    <3>4. OneAuthor' /\ Order'
      BY <3>1 DEF OneAuthor, Order
    <3> QED BY <1>5, <3>3, <3>4 DEF IInv
  <2>2. CASE AppendLine /\ Count(end) /\ UNCHANGED <<input_mode, pending_subject>>
    <3>1. /\ input_mode = "BODY" /\ input_mode' = "BODY" /\ pending_subject' = pending_subject
          /\ raw' = Append(raw, end)
      BY <1>8, <2>2 DEF Body, Count
    <3>2. raw' \in Seq(Chars \cup {CR, LF}) /\ flaws' \subseteq Flaws
      <4>1. flaws' \subseteq flaws \cup Flaws
        BY <2>2 DEF AppendLine, Flaws
      <4> QED BY <1>1, <3>1, <4>1 DEF TypeOK
    <3>3. Order'
      BY <1>2, <3>1 DEF Order
    <3>4. CASE pending_body' = pending_body
      <4>1. TypeOK'
        BY <1>1, <1>3, <1>4, <3>1, <3>2, <3>4 DEF TypeOK
      <4>2. OneAuthor'
        BY <1>1, <1>2, <3>1, <3>4 DEF OneAuthor
      <4> QED BY <1>5, <3>3, <4>1, <4>2 DEF IInv
    <3>5. CASE BodyMax - Len(pending_body) > 2 /\ pending_body' = Appended
      <4>1. /\ pending_body' \in Seq(Byte) /\ Len(pending_body') < BodyMax
            /\ MadeOf(pending_body', pending_body, line_buf, EndOfLine)
        BY <1>1, <3>5, AppendedWithin
      <4>2. TypeOK'
        BY <1>1, <1>3, <1>4, <3>1, <3>2, <4>1 DEF TypeOK
      <4>3. EndOfLine.session = session /\ EndOfLine.mode = "BODY" /\ ~leftover
        BY <1>1, <3>1 DEF EndOfLine, Typed, Order
      <4>4. \A i \in DOMAIN pending_body' :
              pending_body'[i].session = session /\ pending_body'[i].mode = "BODY"
        BY <1>1, <3>1, <4>1, <4>3 DEF MadeOf, LinesOfOneMode, OneAuthor
      <4>5. pending_subject' = session'
        BY <1>1, <1>2, <3>1 DEF OneAuthor
      <4>6. OneAuthor'
        BY <1>2, <4>4, <4>5 DEF OneAuthor
      <4> QED BY <1>5, <3>3, <4>2, <4>6 DEF IInv
    <3>6. \/ pending_body' = pending_body
          \/ BodyMax - Len(pending_body) > 2 /\ pending_body' = Appended
      <4>1. Len(pending_body) \in Nat /\ Len(line_buf) \in Nat
        BY <1>1 DEF TypeOK
      <4> QED BY <1>1, <2>2, <4>1 DEF AppendLine, Appended
    <3> QED BY <3>4, <3>5, <3>6
  <2> QED BY <1>8, <2>1, <2>2 DEF Body
<1> QED BY <1>6, <1>7, <1>8 DEF InputLine

\* Ctrl-Z, which leaves the line there (bbs.c:1312).
LEMMA ControlZKeeps == ASSUME IInv, ControlZ PROVE IInv'
<1>1. /\ TypeOK /\ BodyMax \in Nat /\ BodyMax > 0 /\ LinesOfOneMode
  BY Bytes DEF IInv
<1>2. /\ input_mode' = "COMMAND" /\ pending_body' = <<>> /\ raw' = <<>> /\ flaws' = {}
      /\ pending_subject' = pending_subject /\ connected' = connected /\ session' = session
      /\ line_buf' = line_buf /\ suppress_lf_after_cr' = suppress_lf_after_cr
      /\ leftover' = (line_buf # <<>>)
  BY DEF ControlZ, FinishPost, editor
<1>3. /\ pending_body' \in Seq(Byte) /\ Len(pending_body') < BodyMax
      /\ raw' \in Seq(Chars \cup {CR, LF}) /\ flaws' \subseteq Flaws
  BY <1>1, <1>2
<1>4. leftover' \in BOOLEAN
  BY <1>2, Zenon
<1>5. TypeOK'
  BY <1>1, <1>2, <1>3, <1>4 DEF TypeOK
<1>6. line_buf' = <<>> \/ leftover'
  BY <1>2, Zenon
<1>7. LinesOfOneMode'
  BY <1>1, <1>2, <1>6 DEF LinesOfOneMode
<1>8. OneAuthor' /\ Order'
  BY <1>2 DEF OneAuthor, Order
<1> QED BY <1>5, <1>7, <1>8 DEF IInv

\* An LF after a CR, which is skipped (bbs.c:1324).
LEMMA SecondLineFeedKeeps == ASSUME IInv, SecondLineFeed PROVE IInv'
<1>1. /\ raw' \in {raw, Append(raw, LF)} /\ suppress_lf_after_cr' = FALSE
      /\ connected' = connected /\ input_mode' = input_mode /\ line_buf' = line_buf
      /\ pending_subject' = pending_subject /\ pending_body' = pending_body
      /\ session' = session /\ flaws' = flaws /\ leftover' = leftover
  BY DEF SecondLineFeed, Count, pending
<1>2. raw' \in Seq(Chars \cup {CR, LF})
  BY <1>1 DEF IInv, TypeOK
<1>3. suppress_lf_after_cr' \in BOOLEAN
  BY <1>1, Zenon
<1>4. TypeOK'
  BY <1>1, <1>2, <1>3 DEF IInv, TypeOK
<1>5. LinesOfOneMode' /\ OneAuthor' /\ Order'
  BY <1>1 DEF IInv, LinesOfOneMode, OneAuthor, Order
<1> QED BY <1>4, <1>5 DEF IInv

\* Any other byte, which the line has room for or not (bbs.c:1334).
LEMMA CharacterKeeps == ASSUME IInv, NEW ch \in Chars, Character(ch) PROVE IInv'
<1>1. /\ TypeOK /\ LineMax \in Nat /\ Typed(ch) \in Byte /\ LinesOfOneMode
  BY Bytes DEF IInv
<1>2. /\ raw' \in {raw, Append(raw, ch)} /\ suppress_lf_after_cr' = FALSE
      /\ \/ /\ Len(line_buf) < LineMax /\ line_buf' = Append(line_buf, Typed(ch))
            /\ flaws' = flaws
         \/ line_buf' = line_buf /\ flaws' \subseteq flaws \cup Flaws
      /\ connected' = connected /\ input_mode' = input_mode
      /\ pending_subject' = pending_subject /\ pending_body' = pending_body
      /\ session' = session /\ leftover' = leftover
  BY DEF Character, Keep, Count, pending, Flaws
<1>3. /\ raw' \in Seq(Chars \cup {CR, LF})
      /\ line_buf' \in Seq(Byte) /\ Len(line_buf') <= LineMax
      /\ flaws' \subseteq Flaws
  <2>1. /\ raw \in Seq(Chars \cup {CR, LF}) /\ ch \in Chars \cup {CR, LF}
        /\ line_buf \in Seq(Byte) /\ Len(line_buf) <= LineMax /\ flaws \subseteq Flaws
    BY <1>1 DEF TypeOK
  <2>2. /\ Append(line_buf, Typed(ch)) \in Seq(Byte)
        /\ Len(Append(line_buf, Typed(ch))) = Len(line_buf) + 1 /\ Len(line_buf) \in Nat
    BY <1>1, <2>1
  <2>3. raw' \in Seq(Chars \cup {CR, LF})
    BY <1>2, <2>1
  <2>4. line_buf' \in Seq(Byte) /\ Len(line_buf') <= LineMax
    BY <1>1, <1>2, <2>1, <2>2
  <2>5. flaws' \subseteq Flaws
    BY <1>2, <2>1
  <2> QED BY <2>3, <2>4, <2>5
<1>4. suppress_lf_after_cr' \in BOOLEAN
  BY <1>2, Zenon
<1>5. TypeOK'
  BY <1>1, <1>2, <1>3, <1>4 DEF TypeOK
<1>6. LinesOfOneMode'
  <2>1. Typed(ch).session = session /\ Typed(ch).mode = input_mode
    BY DEF Typed
  <2>2. CASE line_buf' = Append(line_buf, Typed(ch))
    <3>1. \A i \in DOMAIN line_buf' :
            \/ line_buf'[i] = Typed(ch)
            \/ i \in DOMAIN line_buf /\ line_buf'[i] = line_buf[i]
      <4>1. line_buf \in Seq(Byte) /\ Typed(ch) \in Byte
        BY <1>1 DEF TypeOK
      <4> QED BY <2>2, <4>1
    <3> QED BY <1>1, <1>2, <2>1, <3>1 DEF LinesOfOneMode
  <2>3. CASE line_buf' = line_buf
    BY <1>1, <1>2, <2>3 DEF LinesOfOneMode
  <2> QED BY <1>2, <2>2, <2>3
<1>7. OneAuthor' /\ Order'
  BY <1>2 DEF IInv, OneAuthor, Order
<1> QED BY <1>5, <1>6, <1>7 DEF IInv

\* Of the whole program, the invariant.
LEMMA Inductive == Spec => []IInv
<1>1. Init => IInv
  <2> SUFFICES ASSUME Init PROVE IInv
    OBVIOUS
  <2>1. /\ line_buf = <<>> /\ pending_body = <<>> /\ raw = <<>> /\ flaws = {}
        /\ pending_subject = 0 /\ session = 0 /\ input_mode = "COMMAND"
        /\ connected = FALSE /\ suppress_lf_after_cr = FALSE /\ leftover = FALSE
    BY DEF Init
  <2>2. connected \in BOOLEAN /\ suppress_lf_after_cr \in BOOLEAN /\ leftover \in BOOLEAN
    BY <2>1, Zenon
  <2>3. /\ line_buf \in Seq(Byte) /\ Len(line_buf) <= LineMax
        /\ pending_body \in Seq(Byte) /\ Len(pending_body) < BodyMax
        /\ raw \in Seq(Chars \cup {CR, LF}) /\ flaws \subseteq Flaws
    BY <2>1, ComposeAssumption
  <2>4. TypeOK
    BY <2>1, <2>2, <2>3 DEF TypeOK
  <2> QED BY <2>1, <2>4 DEF IInv, LinesOfOneMode, OneAuthor, Order
<1>2. IInv /\ [Next]_vars => IInv'
  <2> SUFFICES ASSUME IInv, [Next]_vars PROVE IInv'
    OBVIOUS
  <2>1. CASE OnConnect BY <2>1, OnConnectKeeps
  <2>2. CASE OnDisconnect BY <2>2, OnDisconnectKeeps
  <2>3. CASE CarriageReturn BY <2>3, InputLineKeeps DEF CarriageReturn
  <2>4. CASE SecondLineFeed BY <2>4, SecondLineFeedKeeps
  <2>5. CASE LineFeed BY <2>5, InputLineKeeps DEF LineFeed, IInv, TypeOK
  <2>6. CASE ControlZ BY <2>6, ControlZKeeps
  <2>7. ASSUME NEW ch \in Chars, Character(ch) PROVE IInv'
    BY <2>7, CharacterKeeps
  <2>8. CASE UNCHANGED vars
    BY <2>8 DEF vars, editor, pending, history, IInv, TypeOK, LinesOfOneMode, OneAuthor, Order
  <2> QED BY <2>1, <2>2, <2>3, <2>4, <2>5, <2>6, <2>7, <2>8 DEF Next
<1> QED BY <1>1, <1>2, PTL DEF Spec
-----------------------------------------------------------------------------
(* What the bytes say, by induction on how many of them there are. *)

LEMMA Induction ==
  ASSUME NEW S \in SUBSET Nat, 0 \in S, \A n \in S : n + 1 \in S
  PROVE  S = Nat
<1> SUFFICES ASSUME Nat \ S # {} PROVE FALSE
  OBVIOUS
<1>1. PICK x \in Nat \ S : \A y \in Nat \ S : <<y, x>> \notin OpToRel(<, Nat)
  BY NatLessThanWellFounded, WFMin
<1>2. x # 0 /\ x - 1 \in Nat /\ x - 1 < x /\ x - 1 + 1 = x
  OBVIOUS
<1>3. x - 1 \notin Nat \ S
  BY <1>1, <1>2 DEF OpToRel
<1> QED  BY <1>2, <1>3

\* What one more byte makes of what those before it say.
Says(bytes, i, before) ==
  IF i <= 1 THEN <<>>
  ELSE IF ~(bytes[i] = LF /\ bytes[i - 1] = CR)
       THEN Append(before, IF bytes[i] = LF THEN CR ELSE bytes[i])
       ELSE before

\* The recursive function of Text, up to n and on all of Nat.
Converts(f, bytes, S) == f = [i \in S |-> Says(bytes, i, f[i - 1])]

LEMMA ConvertsAt ==
  ASSUME NEW f, NEW bytes, NEW S, Converts(f, bytes, S), NEW i \in S
  PROVE  f[i] = Says(bytes, i, f[i - 1])
<1> DEFINE F == [j \in S |-> Says(bytes, j, f[j - 1])]
<1>1. F[i] = Says(bytes, i, f[i - 1])
  OBVIOUS
<1>2. f = F
  BY DEF Converts
<1> HIDE DEF F
<1>3. f[i] = F[i]
  BY <1>2
<1> QED  BY <1>1, <1>3

Agree(bytes, more, n) == \A i \in 1 .. n : bytes[i] = more[i]

\* What they say depends on no byte that comes later.
LEMMA ConvertsUnique ==
  ASSUME NEW bytes, NEW more, NEW n \in Nat, Agree(bytes, more, n),
         NEW S, NEW T, 0 .. n \subseteq S, 0 .. n \subseteq T,
         NEW f, Converts(f, bytes, S), NEW g, Converts(g, more, T)
  PROVE  f[n] = g[n]
<1> DEFINE U == {k \in Nat : k <= n => f[k] = g[k]}
<1>1. 0 \in U
  <2>1. 0 \in S /\ 0 \in T /\ 0 <= 1
    OBVIOUS
  <2>2. f[0] = Says(bytes, 0, f[0 - 1]) /\ g[0] = Says(more, 0, g[0 - 1])
    BY <2>1, ConvertsAt
  <2>3. f[0] = g[0]
    BY <2>1, <2>2 DEF Says
  <2> QED  BY <2>3
<1>2. \A k \in U : k + 1 \in U
  <2> SUFFICES ASSUME NEW k \in Nat, k \in U, k + 1 <= n PROVE f[k + 1] = g[k + 1]
    OBVIOUS
  <2>1. k + 1 \in S /\ k + 1 \in T /\ k + 1 - 1 = k /\ f[k] = g[k]
    OBVIOUS
  <2>2. f[k + 1] = Says(bytes, k + 1, f[k + 1 - 1]) /\ g[k + 1] = Says(more, k + 1, g[k + 1 - 1])
    BY <2>1, ConvertsAt
  <2>3. CASE k + 1 <= 1
    BY <2>2, <2>3 DEF Says
  <2>4. CASE ~(k + 1 <= 1)
    <3>1. bytes[k + 1] = more[k + 1] /\ bytes[k] = more[k]
      BY <2>4 DEF Agree
    <3> QED  BY <2>1, <2>2, <3>1 DEF Says
  <2> QED  BY <2>3, <2>4
<1>3. U = Nat
  <2> HIDE DEF U
  <2>1. U \in SUBSET Nat
    BY DEF U
  <2> QED  BY <1>1, <1>2, <2>1, Induction
<1> QED  BY <1>3

LEMMA ConvertsUpTo ==
  ASSUME NEW bytes, NEW n \in Nat
  PROVE  \E f : Converts(f, bytes, 0 .. n)
<1> DEFINE U == {k \in Nat : \E f : Converts(f, bytes, 0 .. k)}
<1>1. 0 \in U
  <2>1. PICK f : f = [i \in 0 .. 0 |-> <<>>]
    OBVIOUS
  <2>2. \A i \in 0 .. 0 : Says(bytes, i, f[i - 1]) = <<>>
    BY DEF Says
  <2>3. Converts(f, bytes, 0 .. 0)
    BY <2>1, <2>2 DEF Converts
  <2> QED  BY <2>3
<1>2. \A k \in U : k + 1 \in U
  <2> SUFFICES ASSUME NEW k \in Nat, NEW f, Converts(f, bytes, 0 .. k)
               PROVE  \E g : Converts(g, bytes, 0 .. k + 1)
    OBVIOUS
  <2>1. PICK e : e = Says(bytes, k + 1, f[k])
    OBVIOUS
  <2>2. PICK g : g = [i \in 0 .. k + 1 |-> IF i = k + 1 THEN e ELSE f[i]]
    OBVIOUS
  <2>3. ASSUME NEW i \in 0 .. k + 1 PROVE g[i] = Says(bytes, i, g[i - 1])
    <3>1. CASE i = k + 1
      <4>1. k \in 0 .. k + 1 /\ k # k + 1 /\ k + 1 - 1 = k
        OBVIOUS
      <4> QED  BY <2>1, <2>2, <3>1, <4>1
    <3>2. CASE i # k + 1
      <4>1. i \in 0 .. k /\ g[i] = f[i]
        BY <2>2, <3>2
      <4>2. f[i] = Says(bytes, i, f[i - 1])
        BY <4>1, ConvertsAt
      <4>3. CASE i <= 1
        BY <4>1, <4>2, <4>3 DEF Says
      <4>4. CASE ~(i <= 1)
        <5>1. i - 1 \in 0 .. k + 1 /\ i - 1 # k + 1
          BY <4>1, <4>4
        <5>2. g[i - 1] = f[i - 1]
          BY <2>2, <5>1
        <5> QED  BY <4>1, <4>2, <5>2
      <4> QED  BY <4>3, <4>4
    <3> QED  BY <3>1, <3>2
  <2>4. g = [i \in 0 .. k + 1 |-> Says(bytes, i, g[i - 1])]
    <3>1. g = [i \in 0 .. k + 1 |-> g[i]]
      BY <2>2
    <3> QED  BY <2>3, <3>1
  <2> QED  BY <2>4 DEF Converts
<1>3. U = Nat
  <2> HIDE DEF U
  <2>1. U \in SUBSET Nat
    BY DEF U
  <2> QED  BY <1>1, <1>2, <2>1, Induction
<1> QED  BY <1>3

LEMMA ConvertsExists == ASSUME NEW bytes PROVE \E f : Converts(f, bytes, Nat)
<1> DEFINE upto(n) == CHOOSE f : Converts(f, bytes, 0 .. n)
<1>1. \A n \in Nat : Converts(upto(n), bytes, 0 .. n)
  BY ConvertsUpTo
<1> HIDE DEF upto
<1>2. PICK g : g = [n \in Nat |-> upto(n)[n]]
  OBVIOUS
<1>3. ASSUME NEW n \in Nat PROVE g[n] = Says(bytes, n, g[n - 1])
  <2>1. n \in 0 .. n /\ g[n] = upto(n)[n]
    BY <1>2
  <2>2. upto(n)[n] = Says(bytes, n, upto(n)[n - 1])
    BY <1>1, <2>1, ConvertsAt
  <2>3. CASE n <= 1
    BY <2>1, <2>2, <2>3 DEF Says
  <2>4. CASE ~(n <= 1)
    <3>1. PICK m \in Nat : m = n - 1
      BY <2>4
    <3>2. PICK a, b : a = upto(m) /\ b = upto(n)
      OBVIOUS
    <3>3. Converts(a, bytes, 0 .. m) /\ Converts(b, bytes, 0 .. n)
      BY <1>1, <3>2
    <3>4. 0 .. m \subseteq 0 .. m /\ 0 .. m \subseteq 0 .. n /\ Agree(bytes, bytes, m)
      BY <3>1 DEF Agree
    <3>5. a[m] = b[m]
      BY <3>3, <3>4, ConvertsUnique
    <3>6. g[m] = upto(m)[m]
      BY <1>2
    <3> QED  BY <2>1, <2>2, <3>1, <3>2, <3>5, <3>6
  <2> QED  BY <2>3, <2>4
<1>4. g = [n \in Nat |-> Says(bytes, n, g[n - 1])]
  <2>1. g = [n \in Nat |-> g[n]]
    BY <1>2
  <2> QED  BY <1>3, <2>1
<1> QED  BY <1>4 DEF Converts

\* Text is the value of that function at the last byte.
LEMMA TextOf ==
  ASSUME NEW bytes
  PROVE  \E f : Converts(f, bytes, Nat) /\ Text(bytes) = f[Len(bytes)]
<1> DEFINE c == CHOOSE f : f = [i \in Nat |->
                   IF i <= 1 THEN <<>>
                   ELSE IF ~(bytes[i] = LF /\ bytes[i - 1] = CR)
                        THEN Append(f[i - 1], IF bytes[i] = LF THEN CR ELSE bytes[i])
                        ELSE f[i - 1]]
<1>1. Text(bytes) = c[Len(bytes)]
  BY DEF Text
<1>2. Converts(c, bytes, Nat)
  <2>1. PICK f : Converts(f, bytes, Nat)
    BY ConvertsExists
  <2> QED  BY <2>1 DEF Converts, Says
<1> HIDE DEF c
<1> QED  BY <1>1, <1>2

\* The end of the line before is no part of it.
LEMMA TextFirst == ASSUME NEW b PROVE Text(<<b>>) = <<>>
<1>1. PICK f : Converts(f, <<b>>, Nat) /\ Text(<<b>>) = f[Len(<<b>>)]
  BY TextOf
<1>2. Len(<<b>>) = 1 /\ 1 \in Nat
  OBVIOUS
<1>3. f[1] = Says(<<b>>, 1, f[1 - 1])
  BY <1>1, <1>2, ConvertsAt
<1> QED  BY <1>1, <1>2, <1>3 DEF Says

\* Each byte else is put at the end of it, CR for either end of a line, but for
\* an LF behind a CR.
LEMMA TextNext ==
  ASSUME NEW B, NEW bytes \in Seq(B), bytes # <<>>, NEW b \in B
  PROVE  Text(Append(bytes, b)) =
           IF ~(b = LF /\ bytes[Len(bytes)] = CR)
           THEN Append(Text(bytes), IF b = LF THEN CR ELSE b)
           ELSE Text(bytes)
<1>1. PICK n \in Nat : n = Len(bytes) /\ n # 0
  BY EmptySeq, LenProperties
<1>2. PICK more \in Seq(B) :
        /\ more = Append(bytes, b) /\ Len(more) = n + 1
        /\ more[n + 1] = b /\ \A i \in 1 .. n : bytes[i] = more[i]
  <2>1. /\ Append(bytes, b) \in Seq(B) /\ Len(Append(bytes, b)) = Len(bytes) + 1
        /\ \A i \in 1 .. Len(bytes) : Append(bytes, b)[i] = bytes[i]
        /\ Append(bytes, b)[Len(bytes) + 1] = b
    BY AppendProperties
  <2> QED  BY <1>1, <2>1
<1>3. PICK f : Converts(f, bytes, Nat) /\ Text(bytes) = f[n]
  BY <1>1, TextOf
<1>4. PICK g : Converts(g, more, Nat) /\ Text(more) = g[n + 1]
  BY <1>2, TextOf
<1>5. f[n] = g[n]
  <2>1. 0 .. n \subseteq Nat /\ Agree(bytes, more, n)
    BY <1>2 DEF Agree
  <2>2. Converts(f, bytes, Nat) /\ Converts(g, more, Nat)
    BY <1>3, <1>4
  <2> QED  BY <2>1, <2>2, ConvertsUnique
<1>6. n + 1 \in Nat /\ ~(n + 1 <= 1) /\ n + 1 - 1 = n /\ more[n] = bytes[n]
  BY <1>1, <1>2
<1>7. g[n + 1] = Says(more, n + 1, g[n + 1 - 1])
  <2>1. PICK m \in Nat : m = n + 1
    OBVIOUS
  <2>2. Converts(g, more, Nat)
    BY <1>4
  <2>3. g[m] = Says(more, m, g[m - 1])
    BY <2>2, ConvertsAt
  <2> QED  BY <2>1, <2>3
<1>8. g[n + 1] = Says(more, n + 1, f[n])
  BY <1>5, <1>6, <1>7
<1> QED  BY <1>1, <1>2, <1>3, <1>4, <1>6, <1>8 DEF Says
-----------------------------------------------------------------------------
(* The message is what was typed. *)

\* The characters of a line or a body.
Said(seq) == [i \in DOMAIN seq |-> seq[i].ch]

\* What StoredAsTyped needs besides: an LF is skipped just when the byte before
\* it, of those of the message, was a CR.
EndsKnown ==
  input_mode = "BODY" => raw # <<>> /\ (suppress_lf_after_cr <=> raw[Len(raw)] = CR)

\* The body is whole lines, and with the line that is being typed it is the text.
Stored ==
  input_mode = "BODY" /\ flaws = {} =>
    /\ Said(pending_body \o line_buf) = Text(raw)
    /\ pending_body # <<>> => pending_body[Len(pending_body)].ch = CR

StoredInv == EndsKnown /\ Stored

\* What is said by a sequence with one more element.
LEMMA SaidNext ==
  ASSUME NEW seq \in Seq(Byte), NEW e \in Byte
  PROVE  Said(Append(seq, e)) = Append(Said(seq), e.ch)
<1> HIDE DEF Byte
<1>1. PICK n \in Nat : n = Len(seq) /\ DOMAIN seq = 1 .. n
  BY LenProperties
<1>2. PICK more \in Seq(Byte) :
        /\ more = Append(seq, e) /\ Len(more) = n + 1
        /\ more[n + 1] = e /\ \A i \in 1 .. n : more[i] = seq[i]
  <2>1. /\ Append(seq, e) \in Seq(Byte) /\ Len(Append(seq, e)) = Len(seq) + 1
        /\ \A i \in 1 .. Len(seq) : Append(seq, e)[i] = seq[i]
        /\ Append(seq, e)[Len(seq) + 1] = e
    BY AppendProperties
  <2> QED  BY <1>1, <2>1
<1>3. DOMAIN more = 1 .. n + 1
  BY <1>2, LenProperties
<1> DEFINE V == {seq[i].ch : i \in 1 .. n} \cup {e.ch}
<1>4. Said(seq) \in Seq(V) /\ Len(Said(seq)) = n /\ \A i \in 1 .. n : Said(seq)[i] = seq[i].ch
  <2>1. Said(seq) = [i \in 1 .. n |-> seq[i].ch]
    BY <1>1 DEF Said
  <2>2. Said(seq) \in [1 .. n -> V]
    BY <2>1
  <2> HIDE DEF V
  <2>3. Said(seq) \in Seq(V)
    BY <2>2
  <2>4. Len(Said(seq)) \in Nat /\ DOMAIN Said(seq) = 1 .. Len(Said(seq))
    BY <2>3, LenProperties
  <2>5. Len(Said(seq)) = n
    BY <2>2, <2>4
  <2> QED  BY <2>1, <2>3, <2>5
<1>5. Said(more) \in Seq(V) /\ Len(Said(more)) = n + 1
      /\ \A i \in 1 .. n + 1 : Said(more)[i] = more[i].ch
  <2>1. Said(more) = [i \in 1 .. n + 1 |-> more[i].ch]
    BY <1>3 DEF Said
  <2>2. Said(more) \in [1 .. n + 1 -> V]
    <3>1. \A i \in 1 .. n + 1 : more[i].ch \in V
      BY <1>2
    <3> QED  BY <2>1, <3>1
  <2> HIDE DEF V
  <2>3. Said(more) \in Seq(V)
    BY <2>2
  <2>4. Len(Said(more)) \in Nat /\ DOMAIN Said(more) = 1 .. Len(Said(more))
    BY <2>3, LenProperties
  <2>5. Len(Said(more)) = n + 1
    BY <2>2, <2>4
  <2> QED  BY <2>1, <2>3, <2>5
<1>6. e.ch \in V
  OBVIOUS
<1> HIDE DEF V
<1>7. PICK a \in Seq(V) : a = Append(Said(seq), e.ch) /\ Len(a) = n + 1
        /\ a[n + 1] = e.ch /\ \A i \in 1 .. n : a[i] = Said(seq)[i]
  <2>1. /\ Append(Said(seq), e.ch) \in Seq(V) /\ Len(Append(Said(seq), e.ch)) = Len(Said(seq)) + 1
        /\ \A i \in 1 .. Len(Said(seq)) : Append(Said(seq), e.ch)[i] = Said(seq)[i]
        /\ Append(Said(seq), e.ch)[Len(Said(seq)) + 1] = e.ch
    BY <1>4, <1>6, AppendProperties
  <2> QED  BY <1>4, <2>1
<1>8. \A i \in 1 .. n + 1 : Said(more)[i] = a[i]
  <2> SUFFICES ASSUME NEW i \in 1 .. n + 1 PROVE Said(more)[i] = a[i]
    OBVIOUS
  <2>1. CASE i = n + 1
    BY <1>2, <1>5, <1>7, <2>1
  <2>2. CASE i # n + 1
    <3>1. i \in 1 .. n
      BY <2>2
    <3> QED  BY <1>2, <1>4, <1>5, <1>7, <3>1
  <2> QED  BY <2>1, <2>2
<1>9. Said(more) = a
  BY <1>5, <1>7, <1>8, SeqEqual
<1> QED  BY <1>2, <1>7, <1>9

\* The type of what is in the buffers, and of what was typed.
LEMMA Buffers ==
  ASSUME TypeOK
  PROVE  /\ line_buf \in Seq(Byte) /\ pending_body \in Seq(Byte)
         /\ pending_body \o line_buf \in Seq(Byte)
         /\ raw \in Seq(Chars \cup {CR, LF}) /\ EndOfLine \in Byte
<1>1. line_buf \in Seq(Byte) /\ pending_body \in Seq(Byte) /\ raw \in Seq(Chars \cup {CR, LF})
      /\ EndOfLine \in Byte
  BY Bytes DEF TypeOK
<1>2. pending_body \o line_buf \in Seq(Byte)
  <2> HIDE DEF Byte
  <2> QED  BY <1>1, ConcatProperties
<1> QED  BY <1>1, <1>2

\* Steps after which no message is being written.
LEMMA NoBody == ASSUME input_mode' # "BODY" PROVE StoredInv'
BY DEF StoredInv, EndsKnown, Stored

\* What more the bytes say when one is typed that is not skipped.
LEMMA Typing ==
  ASSUME IInv, StoredInv, input_mode = "BODY", NEW b \in Chars \cup {CR, LF},
         b = LF => ~suppress_lf_after_cr, raw' = Append(raw, b)
  PROVE  /\ Text(raw') = Append(Text(raw), IF b = LF THEN CR ELSE b)
         /\ raw' # <<>> /\ raw'[Len(raw')] = b
<1>1. PICK r \in Seq(Chars \cup {CR, LF}) : r = raw /\ r # <<>> /\ (b = LF => r[Len(r)] # CR)
  BY Buffers DEF IInv, StoredInv, EndsKnown
<1>2. Text(Append(r, b)) = Append(Text(r), IF b = LF THEN CR ELSE b)
  BY <1>1, TextNext
<1>3. Append(r, b) # <<>> /\ Append(r, b)[Len(Append(r, b))] = b
  <2> DEFINE B == Chars \cup {CR, LF}
  <2>1. r \in Seq(B) /\ b \in B
    OBVIOUS
  <2> HIDE DEF B
  <2>2. Len(Append(r, b)) = Len(r) + 1 /\ Append(r, b)[Len(r) + 1] = b /\ Len(r) \in Nat
        /\ Append(r, b) # <<>>
    BY <2>1, AppendProperties, LenProperties
  <2> QED  BY <2>2
<1> QED  BY <1>1, <1>2, <1>3

\* The end of a line: of the subject, the text begins behind it; in the body the
\* line becomes part of that, if nothing of it is lost.
LEMMA InputLineStores ==
  ASSUME IInv, StoredInv, NEW end \in {CR, LF}, InputLine(end),
         end = LF => ~suppress_lf_after_cr,
         suppress_lf_after_cr' <=> end = CR
  PROVE  StoredInv'
<1>1. line_buf' = <<>> /\ TypeOK
  BY DEF InputLine, IInv
<1>2. CASE Command
  BY <1>2, NoBody DEF Command
<1>3. CASE Subject(end)
  <2>1. raw' = <<end>> /\ flaws' = {} /\ pending_body' = <<>>
    BY <1>3 DEF Subject, IInv, Order
  <2>2. Len(<<end>>) = 1 /\ <<end>>[1] = end /\ <<end>> # <<>>
    OBVIOUS
  <2>3. EndsKnown'
    BY <2>1, <2>2 DEF EndsKnown
  <2>4. Said(<<>> \o <<>>) = <<>>
    BY DEF Said
  <2>5. Text(<<end>>) = <<>>
    BY TextFirst
  <2>6. Stored'
    BY <1>1, <2>1, <2>4, <2>5 DEF Stored
  <2> QED  BY <2>3, <2>6 DEF StoredInv
<1>4. CASE Body(end)
  <2>1. CASE FinishPost
    BY <2>1, NoBody DEF FinishPost
  <2>2. CASE AppendLine /\ Count(end)
    <3>1. input_mode = "BODY" /\ raw' = Append(raw, end) /\ end \in Chars \cup {CR, LF}
      BY <1>4, <2>2 DEF Body, Count
    <3>2. /\ Text(raw') = Append(Text(raw), CR)
          /\ raw' # <<>> /\ raw'[Len(raw')] = end
      BY <3>1, Typing
    <3>3. EndsKnown'
      BY <3>2 DEF EndsKnown
    <3>4. ASSUME flaws' = {}
          PROVE  /\ Said(pending_body' \o line_buf') = Text(raw')
                 /\ pending_body'[Len(pending_body')].ch = CR
      <4>1. line_buf \in Seq(Byte) /\ pending_body \in Seq(Byte)
            /\ Len(line_buf) \in Nat /\ Len(pending_body) \in Nat /\ BodyMax \in Nat
        BY <1>1, Buffers, LenProperties, ComposeAssumption
      <4>2. flaws = {} /\ pending_body' = Append(pending_body \o SubSeq(line_buf, 1, Len(line_buf)), EndOfLine)
        BY <2>2, <3>4, <4>1 DEF AppendLine
      <4>3. SubSeq(line_buf, 1, Len(line_buf)) = line_buf
        <5> HIDE DEF Byte
        <5> QED  BY <4>1, SubSeqFull
      <4>4. PICK both \in Seq(Byte) : both = pending_body \o line_buf
        BY <1>1, Buffers
      <4>5. PICK e \in Byte : e = EndOfLine /\ e.ch = CR
        BY <1>1, Buffers DEF EndOfLine, Typed
      <4>6. pending_body' = Append(both, e)
        BY <4>2, <4>3, <4>4, <4>5
      <4>7. Said(both) = Text(raw)
        BY <3>1, <4>2, <4>4 DEF StoredInv, Stored
      <4>8. Said(Append(both, e)) = Append(Text(raw), CR)
        BY <4>5, <4>7, SaidNext
      <4>9. /\ Append(both, e) \o <<>> = Append(both, e)
            /\ Append(both, e)[Len(Append(both, e))] = e
        <5> HIDE DEF Byte
        <5>1. /\ Append(both, e) \in Seq(Byte) /\ Len(Append(both, e)) = Len(both) + 1
              /\ Append(both, e)[Len(both) + 1] = e
          BY AppendProperties
        <5>2. Append(both, e) \o <<>> = Append(both, e)
          BY <5>1, ConcatEmptySeq
        <5> QED  BY <5>1, <5>2
      <4> QED  BY <1>1, <3>2, <4>5, <4>6, <4>8, <4>9
    <3>5. Stored'
      BY <3>4 DEF Stored
    <3> QED  BY <3>3, <3>5 DEF StoredInv
  <2> QED  BY <1>4, <2>1, <2>2 DEF Body
<1> QED  BY <1>2, <1>3, <1>4 DEF InputLine

\* The LF that is skipped says nothing.
LEMMA SecondLineFeedStores == ASSUME IInv, StoredInv, SecondLineFeed PROVE StoredInv'
<1>1. /\ suppress_lf_after_cr /\ suppress_lf_after_cr' = FALSE
      /\ input_mode' = input_mode /\ line_buf' = line_buf /\ pending_body' = pending_body
      /\ flaws' = flaws
  BY DEF SecondLineFeed, pending
<1> SUFFICES ASSUME input_mode = "BODY" PROVE StoredInv'
  BY <1>1, NoBody
<1>2. PICK r \in Seq(Chars \cup {CR, LF}) : r = raw /\ r # <<>> /\ r[Len(r)] = CR
  BY <1>1, Buffers DEF IInv, StoredInv, EndsKnown
<1>3. raw' = Append(r, LF)
  BY <1>2 DEF SecondLineFeed, Count
<1> DEFINE B == Chars \cup {CR, LF}
<1>4. r \in Seq(B) /\ LF \in B
  OBVIOUS
<1> HIDE DEF B
<1>5. Text(Append(r, LF)) = Text(r)
  BY <1>2, <1>4, TextNext
<1>6. Len(Append(r, LF)) = Len(r) + 1 /\ Append(r, LF)[Len(r) + 1] = LF /\ Append(r, LF) # <<>>
  BY <1>4, AppendProperties
<1>7. EndsKnown'
  BY <1>1, <1>3, <1>6, ComposeAssumption DEF EndsKnown
<1>8. Stored'
  BY <1>1, <1>2, <1>3, <1>5 DEF StoredInv, Stored
<1> QED  BY <1>7, <1>8 DEF StoredInv

LEMMA CharacterStores == ASSUME IInv, StoredInv, NEW ch \in Chars, Character(ch) PROVE StoredInv'
<1>1. /\ suppress_lf_after_cr' = FALSE /\ input_mode' = input_mode /\ pending_body' = pending_body
      /\ ch # LF /\ ch # CR /\ ch \in Chars \cup {CR, LF}
  BY ComposeAssumption DEF Character, pending
<1> SUFFICES ASSUME input_mode = "BODY" PROVE StoredInv'
  BY <1>1, NoBody
<1>2. raw' = Append(raw, ch)
  BY DEF Character, Count
<1>3. Text(raw') = Append(Text(raw), ch) /\ raw' # <<>> /\ raw'[Len(raw')] = ch
  BY <1>1, <1>2, Typing
<1>4. EndsKnown'
  BY <1>1, <1>3 DEF EndsKnown
<1>5. ASSUME flaws' = {}
      PROVE  /\ Said(pending_body' \o line_buf') = Text(raw')
             /\ pending_body' # <<>> => pending_body'[Len(pending_body')].ch = CR
  <2>1. flaws = {} /\ line_buf' = Append(line_buf, Typed(ch))
    BY <1>5 DEF Character, Keep
  <2>2. PICK e \in Byte : e = Typed(ch) /\ e.ch = ch
    BY Bytes DEF IInv, Typed
  <2>3. PICK p \in Seq(Byte), l \in Seq(Byte) : p = pending_body /\ l = line_buf /\ p \o l \in Seq(Byte)
    BY Buffers DEF IInv
  <2>4. p \o Append(l, e) = Append(p \o l, e)
    <3> HIDE DEF Byte
    <3> QED  BY <2>3, AppendIsConcat, ConcatAssociative
  <2>5. Said(p \o l) = Text(raw)
    BY <2>1, <2>3 DEF StoredInv, Stored
  <2>6. Said(Append(p \o l, e)) = Append(Text(raw), ch)
    BY <2>2, <2>3, <2>5, SaidNext
  <2>7. p # <<>> => p[Len(p)].ch = CR
    BY <2>1, <2>3 DEF StoredInv, Stored
  <2> QED  BY <1>1, <1>3, <2>1, <2>2, <2>3, <2>4, <2>6, <2>7
<1>6. Stored'
  BY <1>5 DEF Stored
<1> QED  BY <1>4, <1>6 DEF StoredInv

LEMMA StoredInductive == Spec => []StoredInv
<1>1. Init => StoredInv
  BY DEF Init, StoredInv, EndsKnown, Stored
<1>2. IInv /\ StoredInv /\ [Next]_vars => StoredInv'
  <2> SUFFICES ASSUME IInv, StoredInv, [Next]_vars PROVE StoredInv'
    OBVIOUS
  <2>1. CASE OnConnect BY <2>1, NoBody DEF OnConnect
  <2>2. CASE OnDisconnect BY <2>2, NoBody DEF OnDisconnect
  <2>3. CASE CarriageReturn
    BY <2>3, InputLineStores, ComposeAssumption DEF CarriageReturn
  <2>4. CASE SecondLineFeed BY <2>4, SecondLineFeedStores
  <2>5. CASE LineFeed
    BY <2>5, InputLineStores, ComposeAssumption DEF LineFeed
  <2>6. CASE ControlZ BY <2>6, NoBody DEF ControlZ, FinishPost
  <2>7. ASSUME NEW ch \in Chars, Character(ch) PROVE StoredInv'
    BY <2>7, CharacterStores
  <2>8. CASE UNCHANGED vars
    BY <2>8 DEF vars, editor, pending, history, StoredInv, EndsKnown, Stored
  <2> QED BY <2>1, <2>2, <2>3, <2>4, <2>5, <2>6, <2>7, <2>8 DEF Next
<1> QED BY <1>1, <1>2, Inductive, PTL DEF Spec
-----------------------------------------------------------------------------
\* Every variable keeps its type, and neither line_buf nor pending_body is
\* ever overrun, whatever is typed (bbs.c:1036, 1058).
THEOREM BuffersKept == Spec => []TypeOK
BY Inductive, PTL DEF IInv

\* No line is of two sessions or two modes, but for what Ctrl-Z leaves
\* (bbs.c:1284, 1312).
THEOREM LinesWhole == Spec => []LinesOfOneMode
BY Inductive, PTL DEF IInv

\* A message was typed, all of it, in the session that sends it (bbs.c:1270).
THEOREM MessagesWhole == Spec => []OneAuthor
BY Inductive, PTL DEF IInv

\* As long as the station got no notice and typed no overlong line, the body with
\* the line that is being typed is what it typed, with a CR for every end of a
\* line, CR, LF or both (bbs.c:1301).
THEOREM MessagesAsTyped == Spec => []StoredAsTyped
<1>1. StoredInv => StoredAsTyped
  BY DEF StoredInv, Stored, StoredAsTyped, Said
<1> QED  BY <1>1, StoredInductive, PTL
=============================================================================
