----------------------------- MODULE BbsSession -----------------------------
(***************************************************************************)
(* The session of the BBS, src/main/bbs.c: what the worker task does with  *)
(* the events of the link (on_connect, on_disconnect, on_data), and what   *)
(* each line of the connected station does in each input mode.  The        *)
(* events come in any order: the queue that brings them (module BbsApp)    *)
(* drops events when it is full.                                           *)
(*                                                                         *)
(* Messages, listings and everything else that is only sent are left out.  *)
(* Time is a number of ticks, bounded by MaxTime; the code sees it modulo  *)
(* Wrap.                                                                   *)
(***************************************************************************)
EXTENDS SysopAuth, SequencesExt

CONSTANTS
  Stations,  \* base call signs of those who connect
  None,      \* no station
  MaxTime,   \* bound: the last tick
  MaxWrong   \* bound: the wrong answers on record

ASSUME SessionAssumption == None \notin Stations /\ MaxTime \in Nat /\ MaxWrong \in Nat

VARIABLES
  secret,      \* the SYSOP secret: "empty", "short" (no challenge fits), "good"
  term_uart,   \* uart_is_terminal_mode, with a UART
  connected, remote, is_sysop, input_mode,   \* fields of bbs_t
  author,      \* who started the message in pending_to, pending_subject, ...
  tap,         \* is the UART's rx tap set?
  auth,        \* sysop_auth
  time

\* History, which no action reads.
VARIABLES
  asked,   \* the command the last challenge of this connection was issued for
  issued,  \* when that challenge was sent, and whether there was one
  proved,  \* this connection answered a challenge in time, or needed not to
  active,  \* when it last sent a command, or a line with SYSOP rights
  late,    \* the mode of the last line run with the rights of an idle session
  wrong,   \* when wrong answers came, since the last right one
  earlier  \* how many of these came before the present connection

config == <<secret, term_uart>>
session == <<connected, remote, is_sysop, input_mode, author, tap, auth>>
history == <<asked, issued, proved, active, late, wrong, earlier>>
vars == <<config, session, time, history>>

now == time % Wrap

InputMode == {"COMMAND", "SUBJECT", "BODY", "SYSOP_RESPONSE", "CONFIG", "TERMINAL"}
-----------------------------------------------------------------------------
(* The link comes and goes. *)

\* Mutant: the engine keeps the state of the last session.
NewSessionKeepsAuth ==
  /\ is_sysop' = FALSE
  /\ auth' = auth
  /\ input_mode' = "COMMAND"
  /\ asked' = "none" /\ issued' = [any |-> FALSE, at |-> 0]
  /\ proved' = FALSE /\ late' = "none"
  /\ earlier' = Len(wrong)

\* Mutant: the mode of the last session is not left.
NewSessionKeepsMode ==
  /\ is_sysop' = FALSE
  /\ auth' = ResetSession
  /\ input_mode' = input_mode
  /\ asked' = "none" /\ issued' = [any |-> FALSE, at |-> 0]
  /\ proved' = FALSE /\ late' = "none"
  /\ earlier' = Len(wrong)

NewSession ==
  /\ is_sysop' = FALSE
  /\ auth' = ResetSession
  /\ input_mode' = "COMMAND"
  /\ asked' = "none" /\ issued' = [any |-> FALSE, at |-> 0]
  /\ proved' = FALSE /\ late' = "none"
  /\ earlier' = Len(wrong)

\* bbs_on_connect(): also while the BBS takes another to be connected.
OnConnect(s) ==
  /\ remote' = s
  /\ connected' = TRUE
  /\ NewSession
  /\ UNCHANGED <<config, author, tap, time, active, wrong>>

OnDisconnect ==
  /\ connected' = FALSE
  /\ tap' = (tap /\ input_mode # "TERMINAL")
  /\ NewSession
  /\ UNCHANGED <<config, remote, author, time, active, wrong>>
-----------------------------------------------------------------------------
(* A line in COMMAND mode: process_command(). *)

LineIn(mode) == connected /\ input_mode = mode

\* A line is handled with the rights is_sysop', which are proved here or were.
Active(proof) ==
  /\ proved' = (proof \/ (proved /\ is_sysop'))
  /\ active' = time
  /\ late' = IF ~proof /\ is_sysop /\ is_sysop'
                /\ time - active > SessionTimeout
             THEN input_mode ELSE "none"

\* Every command begins by ending an idle session.
NotIdle == NoteActivity(ExpireIfIdle(auth, now), now)

\* Mutant: the session does not hear that the engine ended an idle session.
StillSysopUntold == is_sysop

StillSysop == is_sysop /\ ~IsIdle(auth, now)

\* H, L, LL, LM, R, K, J, I, B, an unknown command, or one that is refused.
OtherCommand ==
  /\ LineIn("COMMAND")
  /\ auth' = NotIdle /\ is_sysop' = StillSysop
  /\ Active(FALSE)
  /\ UNCHANGED <<config, connected, remote, input_mode, author, tap, time,
                 asked, issued, wrong, earlier>>

\* S, SP, SB
SendCommand ==
  /\ LineIn("COMMAND")
  /\ auth' = NotIdle /\ is_sysop' = StillSysop
  /\ input_mode' = "SUBJECT" /\ author' = remote
  /\ Active(FALSE)
  /\ UNCHANGED <<config, connected, remote, tap, time, asked, issued, wrong, earlier>>

\* sysop_issue_challenge(), which a secret of less than four characters has
\* no challenge for.
SendChallenge(a, command) ==
  IF secret = "short"
  THEN auth' = a /\ UNCHANGED <<input_mode, asked, issued>>
  ELSE /\ auth' = IssueChallenge(a, now)
       /\ input_mode' = "SYSOP_RESPONSE"
       /\ asked' = command
       /\ issued' = [any |-> TRUE, at |-> time]

\* CONFIG and TERM, which differ in the mode they lead to and in the flag that
\* remembers it until the challenge is answered.
Defer(a, mode, pending) ==
  IF mode = "CONFIG" THEN [a EXCEPT !.config = pending]
                     ELSE [a EXCEPT !.console = pending]

\* Mutant: the tap is set for the wrong mode.
EnterTapped(mode) ==
  /\ input_mode' = mode
  /\ tap' = (tap \/ mode = "CONFIG")

Enter(mode) ==
  /\ input_mode' = mode
  /\ tap' = (tap \/ mode = "TERMINAL")

MayEnter == secret = "empty" \/ StillSysop

EnterCommand(mode) ==
  /\ LineIn("COMMAND") /\ MayEnter
  /\ Enter(mode)
  /\ IF secret = "empty"
     THEN auth' = BypassAuthenticate(Defer(NotIdle, mode, FALSE), now)
     ELSE auth' = Defer(NotIdle, mode, FALSE)
  /\ is_sysop' = TRUE
  /\ Active(secret = "empty")
  /\ UNCHANGED <<config, connected, remote, author, time, asked, issued, wrong, earlier>>

EnterLocked ==
  /\ LineIn("COMMAND") /\ ~MayEnter /\ IsLockedOut(NotIdle, now)
  /\ auth' = CheckLockout(NotIdle, now) /\ is_sysop' = StillSysop
  /\ Active(FALSE)
  /\ UNCHANGED <<config, connected, remote, input_mode, author, tap, time,
                 asked, issued, wrong, earlier>>

EnterAsks(mode) ==
  /\ LineIn("COMMAND") /\ ~MayEnter /\ ~IsLockedOut(NotIdle, now)
  /\ SendChallenge(Defer(CheckLockout(NotIdle, now), mode, TRUE), mode)
  /\ is_sysop' = StillSysop
  /\ Active(FALSE)
  /\ UNCHANGED <<config, connected, remote, author, tap, time, wrong, earlier>>

\* SYSOP.  It clears the flag of CONFIG, not the one of TERM.  That a
\* challenge may be active already (bbs.c:1009-1021) cannot be in this mode.
SysopBypass ==
  /\ LineIn("COMMAND") /\ secret = "empty"
  /\ auth' = BypassAuthenticate(Defer(NotIdle, "CONFIG", FALSE), now)
  /\ is_sysop' = TRUE
  /\ Active(TRUE)
  /\ UNCHANGED <<config, connected, remote, input_mode, author, tap, time,
                 asked, issued, wrong, earlier>>

SysopCommand ==
  /\ LineIn("COMMAND") /\ secret # "empty"
  /\ LET a == CheckLockout(Defer(NotIdle, "CONFIG", FALSE), now)
     IN  IF a.mode \in {"LOCKED_OUT", "AUTHENTICATED", "AWAITING_RESPONSE"} \/ StillSysop
         THEN (auth' = a /\ UNCHANGED <<input_mode, asked, issued>>)
         ELSE SendChallenge(a, "COMMAND")
  /\ is_sysop' = StillSysop
  /\ Active(FALSE)
  /\ UNCHANGED <<config, connected, remote, author, tap, time, wrong, earlier>>
-----------------------------------------------------------------------------
(* A line in the other modes: bbs_process_input_line(). *)

SubjectLine ==
  /\ LineIn("SUBJECT")
  /\ input_mode' = "BODY"
  /\ UNCHANGED <<config, connected, remote, is_sysop, author, tap, auth, time, history>>

\* /EX or Ctrl-Z: finish_post() stores the message as one of `remote`.
FinishPost ==
  /\ LineIn("BODY")
  /\ input_mode' = "COMMAND" /\ author' = None
  /\ UNCHANGED <<config, connected, remote, is_sysop, tap, auth, time, history>>

\* SYSOP NEW in answer to a challenge.
ResponseNew ==
  /\ LineIn("SYSOP_RESPONSE") /\ auth.mode = "AWAITING_RESPONSE"
  /\ SendChallenge(auth, asked)
  /\ UNCHANGED <<config, connected, remote, is_sysop, author, tap, time,
                 proved, active, late, wrong, earlier>>

\* Mutant: only one of the flags is taken.
UntakenConsole == [auth EXCEPT !.config = FALSE]

\* An answer.  Both flags are taken, whatever it is worth.
Untaken == [auth EXCEPT !.config = FALSE, !.console = FALSE]

Accept ==
  IF auth.config THEN Enter("CONFIG")
  ELSE IF auth.console /\ term_uart THEN Enter("TERMINAL")
  ELSE input_mode' = "COMMAND" /\ UNCHANGED tap

Answer(right) ==
  LET verdict == Verdict(auth, right, now)
  IN  /\ LineIn("SYSOP_RESPONSE")
      /\ right \/ Len(wrong) < MaxWrong
      /\ auth' = Submitted(Untaken, verdict, now)
      /\ CASE verdict = "SUCCESS" -> Accept /\ is_sysop' = TRUE
           [] verdict = "FAILED"  -> input_mode' = "COMMAND" /\ UNCHANGED <<tap, is_sysop>>
           [] OTHER -> input_mode' = "COMMAND" /\ is_sysop' = FALSE /\ UNCHANGED tap
      /\ proved' = (proved \/ (right /\ issued.any /\ time - issued.at <= ChallengeTimeout))
      /\ active' = time /\ late' = "none"
      /\ wrong' = CASE verdict = "SUCCESS" -> <<>>
                    [] verdict \in {"FAILED", "LOCKED_OUT"} -> Append(wrong, time)
                    [] OTHER -> wrong
      /\ earlier' = IF verdict = "SUCCESS" THEN 0 ELSE earlier
      /\ UNCHANGED <<config, connected, remote, author, time, asked, issued>>

\* A line that the configuration shell or the TNC on the UART gets.
ModeLine ==
  /\ connected /\ input_mode \in {"CONFIG", "TERMINAL"}
  /\ UNCHANGED session
  /\ Active(FALSE)
  /\ UNCHANGED <<config, time, asked, issued, wrong, earlier>>

\* "exit" in CONFIG mode, "/exit" in TERMINAL mode.
ExitMode ==
  /\ connected /\ input_mode \in {"CONFIG", "TERMINAL"}
  /\ input_mode' = "COMMAND"
  /\ tap' = (tap /\ input_mode # "TERMINAL")
  /\ UNCHANGED <<is_sysop, auth>>
  /\ Active(FALSE)
  /\ UNCHANGED <<config, connected, remote, author, time, asked, issued, wrong, earlier>>
-----------------------------------------------------------------------------
\* Wrong answers older than the lockout are dropped from the record.
Tick ==
  /\ time < MaxTime
  /\ time' = time + 1
  /\ LET old == Cardinality({i \in DOMAIN wrong : wrong[i] + LockoutTime <= time'})
     IN  /\ wrong' = SubSeq(wrong, old + 1, Len(wrong))
         /\ earlier' = IF earlier > old THEN earlier - old ELSE 0
  /\ UNCHANGED <<config, session, asked, issued, proved, active, late>>

Init ==
  /\ secret \in {"empty", "short", "good"} /\ term_uart \in BOOLEAN
  /\ connected = FALSE /\ remote = None /\ is_sysop = FALSE
  /\ input_mode = "COMMAND" /\ author = None /\ tap = FALSE
  /\ auth = ResetSession
  /\ time = 0
  /\ asked = "none" /\ issued = [any |-> FALSE, at |-> 0] /\ proved = FALSE
  /\ active = 0 /\ late = "none" /\ wrong = <<>> /\ earlier = 0

Command ==
  \/ OtherCommand \/ SendCommand
  \/ EnterCommand("CONFIG") \/ EnterAsks("CONFIG")
  \/ term_uart /\ EnterCommand("TERMINAL")
  \/ term_uart /\ EnterAsks("TERMINAL")
  \/ EnterLocked \/ SysopBypass \/ SysopCommand

Line ==
  \/ Command
  \/ SubjectLine \/ FinishPost
  \/ ResponseNew \/ \E right \in BOOLEAN : Answer(right)
  \/ ModeLine \/ ExitMode

Next ==
  \/ \E s \in Stations : OnConnect(s)
  \/ OnDisconnect
  \/ Line
  \/ Tick

Spec == Init /\ [][Next]_vars
-----------------------------------------------------------------------------
(* Properties. *)

\* The type of every variable.
TypeOK ==
  /\ secret \in {"empty", "short", "good"} /\ term_uart \in BOOLEAN
  /\ connected \in BOOLEAN /\ remote \in Stations \cup {None}
  /\ is_sysop \in BOOLEAN /\ input_mode \in InputMode
  /\ author \in Stations \cup {None} /\ tap \in BOOLEAN
  /\ auth \in AuthState
  /\ time \in Nat /\ active \in Nat
  /\ asked \in {"none", "COMMAND", "CONFIG", "TERMINAL"}
  /\ issued \in [any: BOOLEAN, at: Nat]
  /\ proved \in BOOLEAN /\ late \in InputMode \cup {"none"}
  /\ wrong \in Seq(Nat) /\ earlier \in Nat

\* The session's view and the engine's are kept in two places, and agree: a
\* response is awaited exactly in response mode, and is_sysop is the engine's
\* AUTHENTICATED.
ViewsAgree ==
  /\ input_mode = "SYSOP_RESPONSE" <=> auth.mode = "AWAITING_RESPONSE"
  /\ is_sysop <=> auth.mode = "AUTHENTICATED"
  /\ ~connected => input_mode = "COMMAND" /\ ~is_sysop

\* SYSOP rights, and the modes that need them, are only ever those of a
\* connection that answered a challenge within ChallengeTimeout of it, or that
\* needed no answer.
RightsProved ==
  (is_sysop \/ input_mode \in {"CONFIG", "TERMINAL"}) => connected /\ is_sysop /\ proved

\* The message being composed is its author's: a link that changed hands in
\* the middle does not post under another call.
AuthorPosts == input_mode \in {"SUBJECT", "BODY"} => connected /\ author = remote

\* The UART's bytes reach the station whenever it is in terminal mode.
TerminalTapped == input_mode = "TERMINAL" => tap /\ term_uart

\* A right answer leads where the command that the challenge was issued for
\* would have led: the deferred flags neither go stale nor get mixed up, over
\* SYSOP NEW, wrong answers and reconnections.
LeadsWhereAsked ==
  [][input_mode = "SYSOP_RESPONSE" /\ is_sysop' /\ ~is_sysop => input_mode' = asked]_vars

\* No command is run with the rights of a session that was idle for longer
\* than the session timeout.
IdleCommandsDenied == late # "COMMAND"

\* Within any period of LockoutTime, one connection gets no more than
\* MaxAttempts answers wrong.
AttemptsBounded == Len(wrong) - earlier <= MaxAttempts

\* README.md:187: "Challenge responses must arrive before the challenge
\* timeout expires", and one that does, and is right, is accepted.
TimelyAccepted ==
  [][Answer(TRUE) /\ time - issued.at < ChallengeTimeout => is_sysop']_vars
=============================================================================
