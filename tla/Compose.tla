------------------------------ MODULE Compose -------------------------------
(***************************************************************************)
(* The line editor of src/main/bbs.c and the message made with it: bytes   *)
(* come one by one, in packets cut anywhere, with CR, LF or both at the    *)
(* end of a line; a command asks for a subject, the subject for a body,    *)
(* and the body ends with a line /EX or with Ctrl-Z.                       *)
(*                                                                         *)
(* A line is a sequence of characters, each with the mode and session it   *)
(* was typed in.  Of the characters only these are told apart: one that    *)
(* makes, alone, the command to send, one that makes, alone, the line /EX, *)
(* and all others.  The modes that are not about a message are module      *)
(* BbsSession's, and there is no NUL among the bytes.                      *)
(***************************************************************************)
EXTENDS Naturals, Sequences

CONSTANTS
  LineMax,   \* sizeof(line_buf) - 1
  BodyMax,   \* sizeof(pending_body) - 1, CONFIG_BBS_MAX_BODY_LEN
  Sends, Ends, Other,  \* characters
  CR, LF, CtrlZ,
  MaxSessions,  \* bound: connections
  MaxTyped      \* bound: bytes typed for a message

Chars == {Sends, Ends, Other}

ASSUME ComposeAssumption ==
  /\ LineMax \in Nat \ {0} /\ BodyMax \in Nat \ {0}
  /\ MaxSessions \in Nat /\ MaxTyped \in Nat
  /\ {CR, LF, CtrlZ} \cap Chars = {}
  /\ CR # LF /\ CR # CtrlZ /\ LF # CtrlZ
  /\ Sends # Ends /\ Sends # Other /\ Ends # Other

VARIABLES
  connected, input_mode,
  line_buf, suppress_lf_after_cr,
  pending_subject,  \* the session it is from; of its text nothing depends
  pending_body

\* History: which session this is; the bytes typed since the end of the line
\* with the subject, that end included; what happened to the message that is
\* being written (flaws), and whether a Ctrl-Z left part of a line behind.
VARIABLES session, raw, flaws, leftover

history == <<session, raw, flaws, leftover>>
editor == <<line_buf, suppress_lf_after_cr>>
pending == <<pending_subject, pending_body>>
vars == <<connected, input_mode, editor, pending, history>>

Typed(ch) == [ch |-> ch, mode |-> input_mode, session |-> session]
EndOfLine == Typed(CR)

Count(byte) ==
  /\ input_mode = "BODY" => Len(raw) < MaxTyped
  /\ raw' = IF input_mode = "BODY" THEN Append(raw, byte) ELSE raw

IsLine(ch) == Len(line_buf) = 1 /\ line_buf[1].ch = ch
-----------------------------------------------------------------------------
(* The connection. *)

\* Mutant: the next session goes on with the line of the last.
FreshEditorModeOnly == suppress_lf_after_cr' = FALSE /\ UNCHANGED line_buf

FreshEditor == line_buf' = <<>> /\ suppress_lf_after_cr' = FALSE

\* bbs_on_connect(), which may come without bbs_on_disconnect() before.
OnConnect ==
  /\ session < MaxSessions
  /\ connected' = TRUE /\ input_mode' = "COMMAND"
  /\ FreshEditor
  /\ session' = session + 1
  /\ raw' = <<>> /\ flaws' = {} /\ leftover' = FALSE
  /\ UNCHANGED pending

OnDisconnect ==
  /\ connected /\ connected' = FALSE
  /\ input_mode' = "COMMAND"
  /\ FreshEditor
  /\ UNCHANGED <<pending, history>>
-----------------------------------------------------------------------------
(* bbs_process_input_line(): the modes of a message. *)

\* Mutant: the body of the message before is kept.
StartMessageKept == UNCHANGED pending

\* S, SP, SB with an addressee.
StartMessage == pending_subject' = 0 /\ pending_body' = <<>>

Command ==
  /\ input_mode = "COMMAND"
  /\ IF IsLine(Sends) THEN input_mode' = "SUBJECT" /\ StartMessage
                      ELSE UNCHANGED <<input_mode, pending>>
  /\ UNCHANGED <<raw, flaws>>

\* The bytes of the message are counted from the end of this line.
Subject(end) ==
  /\ input_mode = "SUBJECT"
  /\ pending_subject' = session
  /\ input_mode' = "BODY"
  /\ raw' = <<end>> /\ flaws' = {}
  /\ UNCHANGED pending_body

\* finish_post(), which hands pending_body to the store.
FinishPost ==
  /\ input_mode' = "COMMAND"
  /\ pending_body' = <<>>
  /\ raw' = <<>> /\ flaws' = {}
  /\ UNCHANGED pending_subject

\* Mutant: without the CR in what remains.
AppendLineTight ==
  LET remain == BodyMax - Len(pending_body)
      copy   == IF Len(line_buf) > remain THEN remain ELSE Len(line_buf)
  IN  IF remain = 0
      THEN /\ flaws' = flaws \cup {"full"}
           /\ UNCHANGED pending_body
      ELSE /\ pending_body' = Append(pending_body \o SubSeq(line_buf, 1, copy), EndOfLine)
           /\ flaws' = IF copy < Len(line_buf) THEN flaws \cup {"limit"} ELSE flaws

\* A line of the body: "full" and "limit" are notices to the station.
AppendLine ==
  LET remain == BodyMax - Len(pending_body)
      copy   == IF Len(line_buf) > remain - 2 THEN remain - 2 ELSE Len(line_buf)
  IN  IF remain <= 2
      THEN /\ flaws' = flaws \cup {"full"}
           /\ UNCHANGED pending_body
      ELSE /\ pending_body' = Append(pending_body \o SubSeq(line_buf, 1, copy), EndOfLine)
           /\ flaws' = IF copy < Len(line_buf) THEN flaws \cup {"limit"} ELSE flaws

Body(end) ==
  /\ input_mode = "BODY"
  /\ IF IsLine(Ends)
     THEN FinishPost
     ELSE /\ AppendLine
          /\ Count(end)
          /\ UNCHANGED <<input_mode, pending_subject>>

InputLine(end) ==
  /\ Command \/ Subject(end) \/ Body(end)
  /\ line_buf' = <<>>
  /\ leftover' = FALSE
  /\ UNCHANGED <<connected, session>>
-----------------------------------------------------------------------------
(* bbs_on_data(): one byte. *)

CarriageReturn ==
  /\ connected
  /\ InputLine(CR)
  /\ suppress_lf_after_cr' = TRUE

\* Mutant: CR LF is the end of two lines.
SecondLineFeedCounts ==
  /\ connected /\ suppress_lf_after_cr
  /\ InputLine(LF)
  /\ suppress_lf_after_cr' = FALSE

SecondLineFeed ==
  /\ connected /\ suppress_lf_after_cr
  /\ suppress_lf_after_cr' = FALSE
  /\ Count(LF)
  /\ UNCHANGED <<connected, input_mode, line_buf, pending, session, flaws, leftover>>

LineFeed ==
  /\ connected /\ ~suppress_lf_after_cr
  /\ InputLine(LF)
  /\ UNCHANGED suppress_lf_after_cr

\* The line so far is not part of the message, and stays.
ControlZ ==
  /\ connected /\ input_mode = "BODY"
  /\ FinishPost
  /\ leftover' = (line_buf # <<>>)
  /\ UNCHANGED <<connected, editor, session>>

\* What does not fit into the line is dropped, without notice.
Keep(ch) ==
  IF Len(line_buf) < LineMax
  THEN line_buf' = Append(line_buf, Typed(ch)) /\ UNCHANGED flaws
  ELSE /\ UNCHANGED line_buf
       /\ flaws' = IF input_mode = "BODY" THEN flaws \cup {"overlong"} ELSE flaws

Character(ch) ==
  /\ connected
  /\ Keep(ch)
  /\ suppress_lf_after_cr' = FALSE
  /\ Count(ch)
  /\ UNCHANGED <<connected, input_mode, pending, session, leftover>>
-----------------------------------------------------------------------------
Init ==
  /\ connected = FALSE /\ input_mode = "COMMAND"
  /\ line_buf = <<>> /\ suppress_lf_after_cr = FALSE
  /\ pending_subject = 0 /\ pending_body = <<>>
  /\ session = 0 /\ raw = <<>> /\ flaws = {} /\ leftover = FALSE

Next ==
  \/ OnConnect \/ OnDisconnect
  \/ CarriageReturn \/ SecondLineFeed \/ LineFeed \/ ControlZ
  \/ \E ch \in Chars : Character(ch)

Spec == Init /\ [][Next]_vars
-----------------------------------------------------------------------------
(* Properties. *)

Byte == [ch : Chars \cup {CR}, mode : {"COMMAND", "SUBJECT", "BODY"}, session : Nat]
Flaws == {"full", "limit", "overlong"}

\* The type of every variable.  Neither buffer is overrun: line_buf keeps room
\* for the NUL (bbs.c:1036), and pending_body for the CR and the NUL that are put
\* behind what was copied (bbs.c:1063).
TypeOK ==
  /\ connected \in BOOLEAN
  /\ input_mode \in {"COMMAND", "SUBJECT", "BODY"}
  /\ line_buf \in Seq(Byte) /\ Len(line_buf) <= LineMax
  /\ suppress_lf_after_cr \in BOOLEAN
  /\ pending_subject \in Nat
  /\ pending_body \in Seq(Byte) /\ Len(pending_body) < BodyMax
  /\ session \in Nat /\ leftover \in BOOLEAN
  /\ raw \in Seq(Chars \cup {CR, LF}) /\ flaws \subseteq Flaws

\* What is typed as one line is of one session and mode: nothing that was
\* typed for a message, or by somebody else, becomes part of a command or the
\* other way around.  Ctrl-Z in the middle of a line is the exception: the
\* start of that line becomes the start of the next command.
LinesOfOneMode ==
  \A i \in DOMAIN line_buf :
    /\ line_buf[i].session = session
    /\ line_buf[i].mode = input_mode \/ leftover

\* A message has one author: its subject and all of its body were typed, as
\* such, in the session that sends it, whatever the sessions before it left.
OneAuthor ==
  input_mode = "BODY" =>
    /\ pending_subject = session
    /\ \A i \in DOMAIN pending_body :
         pending_body[i].session = session /\ pending_body[i].mode = "BODY"

\* What bytes[1] and those after it say: each CR, LF or CR LF ends a line.
Text(bytes) ==
  LET Counts(i) == ~(bytes[i] = LF /\ bytes[i - 1] = CR)
      Converted[i \in Nat] ==
        IF i <= 1 THEN <<>>
        ELSE IF Counts(i)
             THEN Append(Converted[i - 1], IF bytes[i] = LF THEN CR ELSE bytes[i])
             ELSE Converted[i - 1]
  IN  Converted[Len(bytes)]

\* The message is, line by line, what was typed (README.md:57), however that
\* was cut into packets and whichever ends of lines it had; what is not in the
\* body is the line that is being typed, the /EX or what is lost by a Ctrl-Z.
\* If the body gets longer than the limit the station gets a notice
\* (README.md:28: full, limit), else a line was longer than the line buffer.
StoredAsTyped ==
  input_mode = "BODY" /\ flaws = {} =>
    /\ [i \in DOMAIN (pending_body \o line_buf) |-> (pending_body \o line_buf)[i].ch] = Text(raw)
    /\ pending_body # <<>> => pending_body[Len(pending_body)].ch = CR
=============================================================================
