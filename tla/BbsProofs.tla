----------------------------- MODULE BbsProofs ------------------------------
(***************************************************************************)
(* Proofs about the BBS, for all stations, timeouts, limits and lengths of *)
(* the queue: the session and its authentication engine first, then that   *)
(* lines are handled as their sender's through the queue, whatever events  *)
(* are dropped, and that the session behind the queue does nothing that    *)
(* module BbsSession does not allow.                                       *)
(***************************************************************************)
EXTENDS BbsApp, FiniteSetTheorems, SequenceTheorems, TLAPS

\* The engine's state is well-formed, and the attempts that are used up are
\* the reason of a lockout that has not ended; a response is awaited to an
\* active challenge.
AuthOK(a) ==
  /\ a \in AuthState
  /\ a.mode # "LOCKED_OUT" => a.failed < MaxAttempts
  /\ a.mode = "AWAITING_RESPONSE" => a.challenge
-----------------------------------------------------------------------------
(* The operations of the engine. *)

\* The clock the engine sees is in its range, and so is every deadline.
LEMMA ClockRange ==
  /\ Wrap \in Nat \ {0, 1}
  /\ \A t \in Nat : t % Wrap \in Clock
  /\ \A n \in Clock, ms \in Nat : Later(n, ms) \in Clock
<1>1. Wrap \in Nat \ {0, 1} /\ 0 \in Clock
  BY AuthAssumption DEF Clock
<1>2. \A t \in Nat : t % Wrap \in Clock
  BY <1>1 DEF Clock
<1>3. \A n \in Clock, ms \in Nat : n + ms \in Nat
  BY <1>1 DEF Clock
<1> QED  BY <1>1, <1>2, <1>3 DEF Later

\* The attempts are within their limit, and no attempt is below it.
LEMMA Attempts == MaxAttempts \in Nat \ {0} /\ 0 \in 0 .. MaxAttempts /\ 0 < MaxAttempts
BY AuthAssumption

\* A new session's engine is idle and has no flag set.
LEMMA Reset == AuthOK(ResetSession)
BY AuthAssumption, ClockRange DEF AuthOK, AuthState, ResetSession, Clock

\* What the beginning of a command does: an idle session's mode is dropped.
LEMMA Idled ==
  ASSUME NEW a, AuthOK(a), NEW n \in Clock
  PROVE  /\ AuthOK(NoteActivity(ExpireIfIdle(a, n), n))
         /\ NoteActivity(ExpireIfIdle(a, n), n).mode = IF IsIdle(a, n) THEN "IDLE" ELSE a.mode
         /\ NoteActivity(ExpireIfIdle(a, n), n).config = a.config
         /\ NoteActivity(ExpireIfIdle(a, n), n).console = a.console
<1>1. IsIdle(a, n) => a.mode = "AUTHENTICATED"
  BY DEF IsIdle
<1>2. 0 \in Clock
  BY ClockRange DEF Clock
<1>3. CASE IsIdle(a, n)
  BY <1>1, <1>2, <1>3 DEF AuthOK, AuthState, NoteActivity, ExpireIfIdle
<1>4. CASE ~IsIdle(a, n)
  BY <1>4 DEF AuthOK, AuthState, NoteActivity, ExpireIfIdle
<1> QED  BY <1>3, <1>4

\* Setting or clearing one of the deferred flags changes nothing else.
LEMMA Deferred ==
  ASSUME NEW a, AuthOK(a), NEW mode, NEW b \in BOOLEAN
  PROVE  /\ AuthOK(Defer(a, mode, b))
         /\ Defer(a, mode, b).mode = a.mode
         /\ Defer(a, mode, b).config = IF mode = "CONFIG" THEN b ELSE a.config
         /\ Defer(a, mode, b).console = IF mode = "CONFIG" THEN a.console ELSE b
BY DEF AuthOK, AuthState, Defer

\* Asking for a lockout may end it, which is all it does.
LEMMA Checked ==
  ASSUME NEW a, AuthOK(a), NEW n \in Clock
  PROVE  /\ AuthOK(CheckLockout(a, n))
         /\ CheckLockout(a, n).mode \in {a.mode, "IDLE"}
         /\ CheckLockout(a, n).mode # a.mode => a.mode = "LOCKED_OUT"
         /\ CheckLockout(a, n).config = a.config
         /\ CheckLockout(a, n).console = a.console
<1>1. 0 \in Clock
  BY ClockRange DEF Clock
<1>2. CASE a.mode = "LOCKED_OUT" /\ n >= a.until
  <2>1. CheckLockout(a, n) = [a EXCEPT !.mode = "IDLE", !.failed = 0, !.until = 0]
    BY <1>2 DEF CheckLockout
  <2> QED  BY <1>1, <1>2, <2>1, Attempts DEF AuthOK, AuthState
<1>3. CASE ~(a.mode = "LOCKED_OUT" /\ n >= a.until)
  BY <1>3 DEF CheckLockout
<1> QED  BY <1>2, <1>3

\* Authentication clears the attempts.
LEMMA Bypassed ==
  ASSUME NEW a, AuthOK(a), NEW n \in Clock
  PROVE  /\ AuthOK(BypassAuthenticate(a, n))
         /\ BypassAuthenticate(a, n).mode = "AUTHENTICATED"
         /\ BypassAuthenticate(a, n).config = a.config
         /\ BypassAuthenticate(a, n).console = a.console
BY Attempts DEF AuthOK, AuthState, BypassAuthenticate

\* A challenge is not issued to who is locked out.
LEMMA Issued ==
  ASSUME NEW a, AuthOK(a), NEW n \in Clock, a.mode # "LOCKED_OUT"
  PROVE  /\ AuthOK(IssueChallenge(a, n))
         /\ IssueChallenge(a, n).mode = "AWAITING_RESPONSE"
         /\ IssueChallenge(a, n).expires = Later(n, ChallengeTimeout)
         /\ IssueChallenge(a, n).config = a.config
         /\ IssueChallenge(a, n).console = a.console
<1>1. Later(n, ChallengeTimeout) \in Clock
  BY AuthAssumption, ClockRange
<1> QED  BY <1>1 DEF AuthOK, AuthState, IssueChallenge

\* The four ends of an answer, and the mode each leaves the engine in.
LEMMA Answered ==
  ASSUME NEW a, AuthOK(a), NEW n \in Clock, NEW right \in BOOLEAN
  PROVE  LET v == Verdict(a, right, n)
             b == Submitted(a, v, n)
         IN  /\ v \in {"NO_ACTIVE", "EXPIRED", "SUCCESS", "FAILED", "LOCKED_OUT"}
             /\ AuthOK(b)
             /\ b.config = a.config /\ b.console = a.console
             /\ v = "NO_ACTIVE" => b = a /\ a.mode # "AWAITING_RESPONSE"
             /\ v \in {"EXPIRED", "FAILED"} => b.mode = "IDLE"
             /\ v = "SUCCESS" => b.mode = "AUTHENTICATED"
             /\ v = "LOCKED_OUT" => b.mode = "LOCKED_OUT"
             /\ v = "SUCCESS" => right /\ ~(n > a.expires)
<1> DEFINE v == Verdict(a, right, n)
<1>0. Later(n, LockoutTime) \in Clock /\ MaxAttempts \in Nat \ {0} /\ 0 \in Clock
  <2>1. LockoutTime \in Nat /\ MaxAttempts \in Nat \ {0}
    BY AuthAssumption
  <2>2. 0 \in Clock
    BY ClockRange DEF Clock
  <2> QED  BY <2>1, <2>2, ClockRange
<1>1. CASE v = "NO_ACTIVE"
  <2>1. a.mode # "AWAITING_RESPONSE"
    BY <1>1 DEF Verdict, AuthOK
  <2> QED  BY <1>1, <2>1 DEF Submitted
<1>2. CASE v # "NO_ACTIVE"
  <2>1. a.mode = "AWAITING_RESPONSE" /\ a.failed < MaxAttempts /\ a.failed \in Nat
    BY <1>2 DEF Verdict, AuthOK, AuthState
  <2>2. /\ ClearChallenge(a) \in AuthState
        /\ ClearChallenge(a).mode = "IDLE" /\ ClearChallenge(a).failed = a.failed
        /\ ClearChallenge(a).config = a.config /\ ClearChallenge(a).console = a.console
    BY <1>0, <2>1 DEF AuthOK, AuthState, ClearChallenge
  <2>3. v \in {"EXPIRED", "SUCCESS", "FAILED", "LOCKED_OUT"}
    BY <1>2 DEF Verdict
  <2>4. v = "FAILED" => a.failed + 1 < MaxAttempts
    BY <1>0, <2>1 DEF Verdict
  <2>5. CASE v = "EXPIRED"
    BY <2>1, <2>2, <2>5 DEF Submitted, AuthOK
  <2>6. CASE v = "SUCCESS"
    <3>1. right /\ ~(n > a.expires)
      BY <2>6 DEF Verdict
    <3>2. AuthOK(ClearChallenge(a))
      BY <2>1, <2>2 DEF AuthOK
    <3> QED  BY <2>2, <2>6, <3>1, <3>2, Bypassed DEF Submitted
  <2>7. CASE v = "FAILED"
    BY <2>1, <2>2, <2>4, <2>7, <1>0 DEF Submitted, AuthOK, AuthState
  <2>8. CASE v = "LOCKED_OUT"
    <3> DEFINE c == ClearChallenge(a)
               b == [c EXCEPT !.failed = @ + 1, !.mode = "LOCKED_OUT",
                              !.until = Later(n, LockoutTime)]
    <3>1. Submitted(a, v, n) = b
      BY <2>8 DEF Submitted
    <3>2. c.failed + 1 \in 0 .. MaxAttempts
      BY <2>1, <2>2, <1>0
    <3>3. /\ b \in AuthState /\ b.mode = "LOCKED_OUT"
          /\ b.config = a.config /\ b.console = a.console
    BY <2>2, <3>2, <1>0 DEF AuthState
    <3> QED  BY <2>8, <3>1, <3>3 DEF AuthOK
  <2> QED  BY <2>3, <2>5, <2>6, <2>7, <2>8
<1> QED  BY <1>1, <1>2
-----------------------------------------------------------------------------
(* Types. *)

TypeInv == TypeOK /\ AuthOK(auth)

\* Every command starts from a well-formed engine.
LEMMA CommandStart ==
  ASSUME TypeInv
  PROVE  /\ now \in Clock
         /\ AuthOK(NotIdle) /\ StillSysop \in BOOLEAN
         /\ NotIdle.mode = IF IsIdle(auth, now) THEN "IDLE" ELSE auth.mode
         /\ NotIdle.config = auth.config /\ NotIdle.console = auth.console
<1>1. now \in Clock
  BY ClockRange DEF TypeInv, TypeOK, now
<1> QED  BY <1>1, Idled DEF TypeInv, TypeOK, NotIdle, StillSysop

\* The history that goes with the rights of a line keeps its type.
LEMMA ActiveType ==
  ASSUME TypeInv, NEW p \in BOOLEAN, Active(p), is_sysop' \in BOOLEAN
  PROVE  proved' \in BOOLEAN /\ active' \in Nat /\ late' \in InputMode \cup {"none"}
BY DEF Active, TypeInv, TypeOK

\* A challenge, or none because the secret is too short for one.
LEMMA ChallengeType ==
  ASSUME TypeInv, NEW a, AuthOK(a), a.mode # "LOCKED_OUT",
         NEW command \in {"none", "COMMAND", "CONFIG", "TERMINAL"}, SendChallenge(a, command)
  PROVE  /\ AuthOK(auth') /\ input_mode' \in InputMode
         /\ asked' \in {"none", "COMMAND", "CONFIG", "TERMINAL"}
         /\ issued' \in [any: BOOLEAN, at: Nat]
<1>1. CASE secret = "short"
  BY <1>1 DEF SendChallenge, TypeInv, TypeOK
<1>2. CASE secret # "short"
  <2>1. AuthOK(IssueChallenge(a, now))
    BY Issued, CommandStart
  <2>2. time \in Nat
    BY DEF TypeInv, TypeOK
  <2>3. /\ auth' = IssueChallenge(a, now) /\ input_mode' = "SYSOP_RESPONSE"
        /\ asked' = command /\ issued' = [any |-> TRUE, at |-> time]
    BY <1>2 DEF SendChallenge
  <2>4. AuthOK(auth')
    BY <2>1, <2>3
  <2>5. issued' \in [any: BOOLEAN, at: Nat]
    BY <2>2, <2>3
  <2> QED  BY <2>3, <2>4, <2>5 DEF InputMode
<1> QED  BY <1>1, <1>2

\* Taking the flags does not change what an answer is worth.
LEMMA UntakenVerdict ==
  ASSUME TypeInv, NEW right
  PROVE  Verdict(auth, right, now) = Verdict(Untaken, right, now)
BY DEF TypeInv, TypeOK, AuthState, Verdict, Untaken

\* The wrong answers that are dropped from the record are some of it.
LEMMA Forgotten ==
  ASSUME TypeInv, Tick
  PROVE  wrong' \in Seq(Nat) /\ earlier' \in Nat
<1> DEFINE gone == {i \in DOMAIN wrong : wrong[i] + LockoutTime <= time'}
           old == Cardinality(gone)
<1>1. wrong \in Seq(Nat) /\ Len(wrong) \in Nat /\ DOMAIN wrong = 1 .. Len(wrong)
  BY DEF TypeInv, TypeOK
<1>2. IsFiniteSet(gone)
  <2>1. IsFiniteSet(1 .. Len(wrong)) /\ gone \subseteq 1 .. Len(wrong)
    BY <1>1, FS_Interval
  <2> QED  BY <2>1, FS_Subset
<1>3. old \in Nat
  BY <1>2, FS_CardinalityType
<1>4. \A i \in old + 1 .. Len(wrong) : wrong[i] \in Nat
  BY <1>1, <1>3
<1>5. SubSeq(wrong, old + 1, Len(wrong)) \in Seq(Nat)
  BY <1>1, <1>3, <1>4, SubSeqProperties
<1>6. earlier \in Nat
  BY DEF TypeInv, TypeOK
<1>7. /\ wrong' = SubSeq(wrong, old + 1, Len(wrong))
      /\ earlier' = IF earlier > old THEN earlier - old ELSE 0
  BY DEF Tick
<1> QED  BY <1>3, <1>5, <1>6, <1>7

\* The initial state has the types.
LEMMA TypeInit == Init => TypeInv
<1> SUFFICES ASSUME Init PROVE TypeInv
  OBVIOUS
<1>1. AuthOK(auth) /\ auth \in AuthState
  BY Reset DEF Init, AuthOK
<1>2. wrong \in Seq(Nat)
  BY EmptySeq DEF Init
<1> QED  BY <1>1, <1>2 DEF Init, TypeInv, TypeOK, InputMode

\* Every step keeps the types.
LEMMA TypeNext == TypeInv /\ [Next]_vars => TypeInv'
<1> SUFFICES ASSUME TypeInv, [Next]_vars PROVE TypeInv'
  OBVIOUS
<1>0. /\ now \in Clock /\ AuthOK(NotIdle) /\ StillSysop \in BOOLEAN
      /\ AuthOK(auth) /\ TypeOK
  BY CommandStart DEF TypeInv
<1>1. ASSUME NEW s \in Stations, OnConnect(s) PROVE TypeInv'
  BY <1>0, <1>1, Reset, LenProperties DEF TypeInv, TypeOK, AuthOK, OnConnect, NewSession, InputMode, config
<1>2. CASE OnDisconnect
  BY <1>0, <1>2, Reset, LenProperties DEF TypeInv, TypeOK, AuthOK, OnDisconnect, NewSession, InputMode, config
<1>3. CASE OtherCommand
  <2>1. proved' \in BOOLEAN /\ active' \in Nat /\ late' \in InputMode \cup {"none"}
    BY <1>0, <1>3, ActiveType DEF OtherCommand
  <2> QED  BY <1>0, <1>3, <2>1 DEF OtherCommand, TypeInv, TypeOK, AuthOK, config
<1>4. CASE SendCommand
  <2>1. proved' \in BOOLEAN /\ active' \in Nat /\ late' \in InputMode \cup {"none"}
    BY <1>0, <1>4, ActiveType DEF SendCommand
  <2> QED  BY <1>0, <1>4, <2>1 DEF SendCommand, TypeInv, TypeOK, AuthOK, InputMode, config
<1>5. ASSUME NEW mode \in {"CONFIG", "TERMINAL"}, EnterCommand(mode) PROVE TypeInv'
  <2>1. proved' \in BOOLEAN /\ active' \in Nat /\ late' \in InputMode \cup {"none"}
    BY <1>0, <1>5, ActiveType DEF EnterCommand
  <2>2. AuthOK(auth')
    <3>1. AuthOK(Defer(NotIdle, mode, FALSE))
      BY <1>0, Deferred
    <3>2. AuthOK(BypassAuthenticate(Defer(NotIdle, mode, FALSE), now))
      BY <1>0, <3>1, Bypassed
    <3> QED  BY <1>5, <3>1, <3>2 DEF EnterCommand
  <2> QED  BY <1>0, <1>5, <2>1, <2>2 DEF EnterCommand, Enter, TypeInv, TypeOK, AuthOK, InputMode, config
<1>6. CASE EnterLocked
  <2>1. proved' \in BOOLEAN /\ active' \in Nat /\ late' \in InputMode \cup {"none"}
    BY <1>0, <1>6, ActiveType DEF EnterLocked
  <2>2. AuthOK(auth')
    BY <1>0, <1>6, Checked DEF EnterLocked
  <2> QED  BY <1>0, <1>6, <2>1, <2>2 DEF EnterLocked, TypeInv, TypeOK, AuthOK, config
<1>7. ASSUME NEW mode \in {"CONFIG", "TERMINAL"}, EnterAsks(mode) PROVE TypeInv'
  <2>1. proved' \in BOOLEAN /\ active' \in Nat /\ late' \in InputMode \cup {"none"}
    BY <1>0, <1>7, ActiveType DEF EnterAsks
  <2>2. /\ AuthOK(Defer(CheckLockout(NotIdle, now), mode, TRUE))
        /\ Defer(CheckLockout(NotIdle, now), mode, TRUE).mode # "LOCKED_OUT"
    <3>1. AuthOK(CheckLockout(NotIdle, now)) /\ CheckLockout(NotIdle, now).mode # "LOCKED_OUT"
      BY <1>0, <1>7, Checked DEF EnterAsks, IsLockedOut
    <3>2. /\ AuthOK(Defer(CheckLockout(NotIdle, now), mode, TRUE))
          /\ Defer(CheckLockout(NotIdle, now), mode, TRUE).mode = CheckLockout(NotIdle, now).mode
      BY <3>1, Deferred
    <3> QED  BY <3>1, <3>2
  <2>3. /\ AuthOK(auth') /\ input_mode' \in InputMode
        /\ asked' \in {"none", "COMMAND", "CONFIG", "TERMINAL"}
        /\ issued' \in [any: BOOLEAN, at: Nat]
    BY <1>7, <2>2, ChallengeType DEF EnterAsks
  <2> QED  BY <1>0, <1>7, <2>1, <2>3 DEF EnterAsks, TypeInv, TypeOK, AuthOK, config
<1>8. CASE SysopBypass
  <2>1. proved' \in BOOLEAN /\ active' \in Nat /\ late' \in InputMode \cup {"none"}
    BY <1>0, <1>8, ActiveType DEF SysopBypass
  <2>2. AuthOK(auth')
    BY <1>0, <1>8, Deferred, Bypassed DEF SysopBypass
  <2> QED  BY <1>0, <1>8, <2>1, <2>2 DEF SysopBypass, TypeInv, TypeOK, AuthOK, config
<1>9. CASE SysopCommand
  <2> DEFINE a == CheckLockout(Defer(NotIdle, "CONFIG", FALSE), now)
  <2>1. proved' \in BOOLEAN /\ active' \in Nat /\ late' \in InputMode \cup {"none"}
    BY <1>0, <1>9, ActiveType DEF SysopCommand
  <2>2. AuthOK(a)
    BY <1>0, Checked, Deferred
  <2>3. /\ AuthOK(auth') /\ input_mode' \in InputMode
        /\ asked' \in {"none", "COMMAND", "CONFIG", "TERMINAL"}
        /\ issued' \in [any: BOOLEAN, at: Nat]
    <3>1. CASE a.mode \in {"LOCKED_OUT", "AUTHENTICATED", "AWAITING_RESPONSE"} \/ StillSysop
      BY <1>0, <1>9, <2>2, <3>1 DEF SysopCommand, TypeOK
    <3>2. CASE ~(a.mode \in {"LOCKED_OUT", "AUTHENTICATED", "AWAITING_RESPONSE"} \/ StillSysop)
      <4>1. SendChallenge(a, "COMMAND") /\ a.mode # "LOCKED_OUT"
        BY <1>9, <3>2 DEF SysopCommand
      <4> HIDE DEF a
      <4> QED  BY <2>2, <4>1, ChallengeType
    <3> QED  BY <3>1, <3>2
  <2> QED  BY <1>0, <1>9, <2>1, <2>3 DEF SysopCommand, TypeInv, TypeOK, AuthOK, config
<1>10. CASE SubjectLine
  BY <1>0, <1>10 DEF SubjectLine, TypeInv, TypeOK, AuthOK, InputMode, config, history
<1>11. CASE FinishPost
  BY <1>0, <1>11 DEF FinishPost, TypeInv, TypeOK, AuthOK, InputMode, config, history
<1>12. CASE ResponseNew
  <2>1. /\ AuthOK(auth') /\ input_mode' \in InputMode
        /\ asked' \in {"none", "COMMAND", "CONFIG", "TERMINAL"}
        /\ issued' \in [any: BOOLEAN, at: Nat]
    BY <1>0, <1>12, ChallengeType DEF ResponseNew, TypeOK
  <2> QED  BY <1>0, <1>12, <2>1 DEF ResponseNew, TypeInv, TypeOK, AuthOK, config
<1>13. ASSUME NEW right \in BOOLEAN, Answer(right) PROVE TypeInv'
  <2>1. AuthOK(Untaken)
    BY <1>0 DEF Untaken, AuthOK, AuthState
  <2>2. AuthOK(auth')
    BY <1>0, <1>13, <2>1, Answered, UntakenVerdict DEF Answer
  <2>3. input_mode' \in InputMode /\ tap' \in BOOLEAN /\ is_sysop' \in BOOLEAN
    BY <1>0, <1>13 DEF Answer, Accept, Enter, InputMode, TypeOK
  <2>4. wrong' \in Seq(Nat) /\ earlier' \in Nat
    BY <1>0, <1>13, AppendProperties DEF Answer, TypeOK
  <2>5. proved' \in BOOLEAN
    BY <1>0, <1>13 DEF Answer, TypeOK
  <2> QED  BY <1>0, <1>13, <2>2, <2>3, <2>4, <2>5 DEF Answer, TypeInv, TypeOK, AuthOK, config
<1>14. CASE ModeLine
  <2>1. proved' \in BOOLEAN /\ active' \in Nat /\ late' \in InputMode \cup {"none"}
    BY <1>0, <1>14, ActiveType DEF ModeLine, session, TypeOK
  <2> QED  BY <1>0, <1>14, <2>1 DEF ModeLine, TypeInv, TypeOK, AuthOK, config, session
<1>15. CASE ExitMode
  <2>1. proved' \in BOOLEAN /\ active' \in Nat /\ late' \in InputMode \cup {"none"}
    BY <1>0, <1>15, ActiveType DEF ExitMode, TypeOK
  <2> QED  BY <1>0, <1>15, <2>1 DEF ExitMode, TypeInv, TypeOK, AuthOK, InputMode, config
<1>16. CASE Tick
  <2>1. wrong' \in Seq(Nat) /\ earlier' \in Nat
    BY <1>0, <1>16, Forgotten DEF Tick, TypeOK
  <2> QED  BY <1>0, <1>16, <2>1 DEF Tick, TypeInv, TypeOK, AuthOK, config, session
<1>17. CASE UNCHANGED vars
  BY <1>0, <1>17 DEF TypeInv, TypeOK, AuthOK, vars, config, session, history
<1> QED
  BY <1>1, <1>2, <1>3, <1>4, <1>5, <1>6, <1>7, <1>8, <1>9, <1>10, <1>11, <1>12,
     <1>13, <1>14, <1>15, <1>16, <1>17 DEF Next, Line, Command

\* Every variable keeps its type; in particular the count of failed attempts
\* never exceeds MaxAttempts.
THEOREM TypeCorrect == Spec => []TypeOK
<1>1. Init => TypeInv
  BY TypeInit
<1>2. TypeInv /\ [Next]_vars => TypeInv'
  BY TypeNext
<1>3. TypeInv => TypeOK
  BY DEF TypeInv
<1> QED  BY <1>1, <1>2, <1>3, PTL DEF Spec
-----------------------------------------------------------------------------
(* The two views of the session. *)

\* At the beginning of a command the engine and the session agree on the
\* rights, also when both have just dropped those of an idle session.
LEMMA CommandAgrees ==
  ASSUME TypeInv, ViewsAgree, input_mode = "COMMAND"
  PROVE  /\ NotIdle.mode # "AWAITING_RESPONSE"
         /\ NotIdle.mode = "AUTHENTICATED" <=> StillSysop
<1>1. IsIdle(auth, now) => auth.mode = "AUTHENTICATED"
  BY DEF IsIdle
<1> QED  BY <1>1, CommandStart DEF ViewsAgree, StillSysop

\* A challenge moves both views, or neither.
LEMMA ChallengeAgrees ==
  ASSUME TypeInv, NEW a, AuthOK(a), a.mode \notin {"LOCKED_OUT", "AUTHENTICATED", "AWAITING_RESPONSE"},
         NEW command, SendChallenge(a, command), connected' = TRUE, is_sysop' = FALSE,
         input_mode = "COMMAND" \/ secret # "short"
  PROVE  ViewsAgree'
<1>1. CASE secret = "short"
  BY <1>1 DEF SendChallenge, ViewsAgree
<1>2. CASE secret # "short"
  BY <1>2, Issued, CommandStart DEF SendChallenge, ViewsAgree
<1> QED  BY <1>1, <1>2

\* Every step keeps the two views in agreement.
LEMMA ViewsNext == TypeInv /\ ViewsAgree /\ [Next]_vars => ViewsAgree'
<1> SUFFICES ASSUME TypeInv, ViewsAgree, [Next]_vars PROVE ViewsAgree'
  OBVIOUS
<1>0. /\ now \in Clock /\ AuthOK(NotIdle) /\ StillSysop \in BOOLEAN
      /\ AuthOK(auth) /\ is_sysop \in BOOLEAN /\ connected \in BOOLEAN
  BY CommandStart DEF TypeInv, TypeOK
<1>1. ASSUME NEW s \in Stations, OnConnect(s) PROVE ViewsAgree'
  BY <1>1 DEF OnConnect, NewSession, ResetSession, ViewsAgree
<1>2. CASE OnDisconnect
  BY <1>2 DEF OnDisconnect, NewSession, ResetSession, ViewsAgree
<1>3. CASE OtherCommand
  BY <1>0, <1>3, CommandAgrees DEF OtherCommand, LineIn, ViewsAgree
<1>4. CASE SendCommand
  BY <1>0, <1>4, CommandAgrees DEF SendCommand, LineIn, ViewsAgree
<1>5. ASSUME NEW mode \in {"CONFIG", "TERMINAL"}, EnterCommand(mode) PROVE ViewsAgree'
  <2>1. /\ connected' = TRUE /\ input_mode' = mode /\ is_sysop' = TRUE
        /\ input_mode = "COMMAND" /\ (secret = "empty" \/ StillSysop)
    BY <1>0, <1>5 DEF EnterCommand, Enter, LineIn, MayEnter
  <2>2. AuthOK(Defer(NotIdle, mode, FALSE)) /\ Defer(NotIdle, mode, FALSE).mode = NotIdle.mode
    BY <1>0, Deferred
  <2>3. BypassAuthenticate(Defer(NotIdle, mode, FALSE), now).mode = "AUTHENTICATED"
    BY <1>0, <2>2, Bypassed
  <2>4. auth'.mode = "AUTHENTICATED"
    BY <1>5, <2>1, <2>2, <2>3, CommandAgrees DEF EnterCommand
  <2> QED  BY <2>1, <2>4 DEF ViewsAgree
<1>6. CASE EnterLocked
  <2>1. /\ input_mode = "COMMAND" /\ input_mode' = input_mode /\ connected' = connected
        /\ is_sysop' = FALSE /\ auth'.mode = "LOCKED_OUT"
    BY <1>0, <1>6 DEF EnterLocked, LineIn, MayEnter, IsLockedOut
  <2> QED  BY <2>1 DEF ViewsAgree
<1>7. ASSUME NEW mode \in {"CONFIG", "TERMINAL"}, EnterAsks(mode) PROVE ViewsAgree'
  <2> DEFINE c == CheckLockout(NotIdle, now)
             a == Defer(c, mode, TRUE)
  <2>1. AuthOK(c) /\ c.mode \in {NotIdle.mode, "IDLE"} /\ c.mode # "LOCKED_OUT"
    BY <1>0, <1>7, Checked DEF EnterAsks, IsLockedOut
  <2>2. AuthOK(a) /\ a.mode = c.mode
    BY <2>1, Deferred
  <2>3. input_mode = "COMMAND" /\ connected' = TRUE /\ is_sysop' = FALSE /\ ~StillSysop
    BY <1>0, <1>7 DEF EnterAsks, LineIn, MayEnter
  <2>4. a.mode \notin {"LOCKED_OUT", "AUTHENTICATED", "AWAITING_RESPONSE"}
    BY <2>1, <2>2, <2>3, CommandAgrees
  <2>5. SendChallenge(a, mode)
    BY <1>7 DEF EnterAsks
  <2> HIDE DEF a
  <2> QED  BY <2>2, <2>3, <2>4, <2>5, ChallengeAgrees
<1>8. CASE SysopBypass
  <2>1. AuthOK(Defer(NotIdle, "CONFIG", FALSE))
    BY <1>0, Deferred
  <2>2. auth'.mode = "AUTHENTICATED"
    BY <1>0, <1>8, <2>1, Bypassed DEF SysopBypass
  <2> QED  BY <1>0, <1>8, <2>2 DEF SysopBypass, LineIn, ViewsAgree
<1>9. CASE SysopCommand
  <2> DEFINE b == Defer(NotIdle, "CONFIG", FALSE)
             a == CheckLockout(b, now)
  <2>1. AuthOK(b) /\ b.mode = NotIdle.mode
    BY <1>0, Deferred
  <2>2. AuthOK(a) /\ a.mode \in {b.mode, "IDLE"} /\ (a.mode # b.mode => b.mode = "LOCKED_OUT")
    BY <1>0, <2>1, Checked
  <2>3. /\ input_mode = "COMMAND" /\ connected = TRUE /\ connected' = TRUE
        /\ is_sysop' = StillSysop
    BY <1>0, <1>9 DEF SysopCommand, LineIn
  <2>4. a.mode # "AWAITING_RESPONSE" /\ (a.mode = "AUTHENTICATED" <=> StillSysop)
    BY <2>1, <2>2, <2>3, CommandAgrees
  <2>5. CASE a.mode \in {"LOCKED_OUT", "AUTHENTICATED", "AWAITING_RESPONSE"} \/ StillSysop
    <3>1. auth' = a /\ input_mode' = input_mode
      BY <1>9, <2>5 DEF SysopCommand
    <3> QED  BY <2>3, <2>4, <3>1 DEF ViewsAgree
  <2>6. CASE ~(a.mode \in {"LOCKED_OUT", "AUTHENTICATED", "AWAITING_RESPONSE"} \/ StillSysop)
    <3>1. SendChallenge(a, "COMMAND") /\ is_sysop' = FALSE
      BY <1>0, <1>9, <2>3, <2>6 DEF SysopCommand
    <3> HIDE DEF a
    <3> QED  BY <2>2, <2>3, <2>6, <3>1, ChallengeAgrees
  <2> QED  BY <2>5, <2>6
<1>10. CASE SubjectLine
  BY <1>10 DEF SubjectLine, LineIn, ViewsAgree, history
<1>11. CASE FinishPost
  BY <1>11 DEF FinishPost, LineIn, ViewsAgree, history
<1>12. CASE ResponseNew
  <2>1. auth.mode # "LOCKED_OUT" /\ connected' = TRUE /\ is_sysop' = FALSE
    BY <1>0, <1>12 DEF ResponseNew, LineIn, ViewsAgree
  <2>2. IssueChallenge(auth, now).mode = "AWAITING_RESPONSE"
    BY <1>0, <2>1, Issued
  <2>3. input_mode' = "SYSOP_RESPONSE" /\ auth'.mode = "AWAITING_RESPONSE"
    BY <1>12, <2>2 DEF ResponseNew, SendChallenge, LineIn
  <2> QED  BY <2>1, <2>3 DEF ViewsAgree
<1>13. ASSUME NEW right \in BOOLEAN, Answer(right) PROVE ViewsAgree'
  <2> DEFINE v == Verdict(auth, right, now)
  <2>1. AuthOK(Untaken) /\ Untaken.mode = auth.mode
    BY <1>0 DEF Untaken, AuthOK, AuthState
  <2>2. auth.mode = "AWAITING_RESPONSE" /\ connected' = TRUE /\ ~is_sysop
    BY <1>13 DEF Answer, LineIn, ViewsAgree
  <2>3. /\ v \in {"EXPIRED", "SUCCESS", "FAILED", "LOCKED_OUT"}
        /\ v \in {"EXPIRED", "FAILED"} => auth'.mode = "IDLE"
        /\ v = "SUCCESS" => auth'.mode = "AUTHENTICATED"
        /\ v = "LOCKED_OUT" => auth'.mode = "LOCKED_OUT"
    BY <1>0, <1>13, <2>1, <2>2, Answered, UntakenVerdict DEF Answer
  <2>4. CASE v = "SUCCESS"
    BY <1>13, <2>2, <2>3, <2>4 DEF Answer, Accept, Enter, ViewsAgree
  <2>5. CASE v # "SUCCESS"
    BY <1>0, <1>13, <2>2, <2>3, <2>5 DEF Answer, ViewsAgree
  <2> QED  BY <2>4, <2>5
<1>14. CASE ModeLine
  BY <1>14 DEF ModeLine, session, ViewsAgree
<1>15. CASE ExitMode
  BY <1>15 DEF ExitMode, ViewsAgree
<1>16. CASE Tick
  BY <1>16 DEF Tick, session, ViewsAgree
<1>17. CASE UNCHANGED vars
  BY <1>17 DEF vars, session, ViewsAgree
<1> QED
  BY <1>1, <1>2, <1>3, <1>4, <1>5, <1>6, <1>7, <1>8, <1>9, <1>10, <1>11, <1>12,
     <1>13, <1>14, <1>15, <1>16, <1>17 DEF Next, Line, Command

\* The session's input mode and rights, and the engine's mode, always agree.
THEOREM Agreement == Spec => []ViewsAgree
<1>1. Init => TypeInv /\ ViewsAgree
  BY TypeInit DEF Init, ViewsAgree, ResetSession
<1>2. TypeInv /\ ViewsAgree /\ [Next]_vars => TypeInv' /\ ViewsAgree'
  BY TypeNext, ViewsNext
<1> QED  BY <1>1, <1>2, PTL DEF Spec
-----------------------------------------------------------------------------
(* Who posts, and who is tapped. *)

LinkInv == AuthorPosts /\ TerminalTapped

\* Whatever becomes of a challenge, it leads to no mode but its own.
LEMMA ChallengeMode ==
  ASSUME NEW a, NEW command, SendChallenge(a, command)
  PROVE  input_mode' \in {input_mode, "SYSOP_RESPONSE"}
BY DEF SendChallenge

\* Every step keeps the author the one who posts, and the terminal tapped.
LEMMA LinkNext == TypeInv /\ ViewsAgree /\ LinkInv /\ [Next]_vars => LinkInv'
<1> SUFFICES ASSUME TypeInv, ViewsAgree, LinkInv, [Next]_vars PROVE LinkInv'
  OBVIOUS
<1> USE DEF LinkInv, AuthorPosts, TerminalTapped
<1>1. ASSUME NEW s \in Stations, OnConnect(s) PROVE LinkInv'
  BY <1>1 DEF OnConnect, NewSession
<1>2. CASE OnDisconnect
  BY <1>2 DEF OnDisconnect, NewSession
<1>3. CASE OtherCommand \/ EnterLocked \/ SysopBypass
  BY <1>3 DEF OtherCommand, EnterLocked, SysopBypass, LineIn
<1>4. CASE SendCommand
  BY <1>4 DEF SendCommand, LineIn
<1>5. ASSUME NEW mode \in {"CONFIG", "TERMINAL"}, mode = "TERMINAL" => term_uart,
             EnterCommand(mode)
      PROVE  LinkInv'
  BY <1>5 DEF EnterCommand, Enter, config
<1>6. ASSUME NEW mode \in {"CONFIG", "TERMINAL"}, EnterAsks(mode) PROVE LinkInv'
  <2>1. input_mode' \in {"COMMAND", "SYSOP_RESPONSE"}
    BY <1>6, ChallengeMode DEF EnterAsks, LineIn
  <2> QED  BY <2>1
<1>7. CASE SysopCommand
  <2>1. input_mode' \in {"COMMAND", "SYSOP_RESPONSE"}
    BY <1>7, ChallengeMode DEF SysopCommand, LineIn
  <2> QED  BY <2>1
<1>8. CASE SubjectLine \/ FinishPost \/ ModeLine
  BY <1>8 DEF SubjectLine, FinishPost, ModeLine, LineIn, config, session
<1>9. CASE ResponseNew
  <2>1. input_mode' = "SYSOP_RESPONSE"
    BY <1>9, ChallengeMode DEF ResponseNew, LineIn
  <2> QED  BY <2>1
<1>10. ASSUME NEW right \in BOOLEAN, Answer(right) PROVE LinkInv'
  BY <1>10 DEF Answer, Accept, Enter, config
<1>11. CASE ExitMode
  BY <1>11 DEF ExitMode
<1>12. CASE Tick
  BY <1>12 DEF Tick, config, session
<1>13. CASE UNCHANGED vars
  BY <1>13 DEF vars, config, session
<1> QED
  BY <1>1, <1>2, <1>3, <1>4, <1>5, <1>6, <1>7, <1>8, <1>9, <1>10, <1>11, <1>12,
     <1>13 DEF Next, Line, Command

\* A message is posted by who began it, also when the link changed hands.
THEOREM AuthorsPost == Spec => []AuthorPosts
<1>1. Init => TypeInv /\ ViewsAgree /\ LinkInv
  BY TypeInit DEF Init, ViewsAgree, ResetSession, LinkInv, AuthorPosts, TerminalTapped
<1>2. TypeInv /\ ViewsAgree /\ LinkInv /\ [Next]_vars => TypeInv' /\ ViewsAgree' /\ LinkInv'
  BY TypeNext, ViewsNext, LinkNext
<1>3. LinkInv => AuthorPosts
  BY DEF LinkInv
<1> QED  BY <1>1, <1>2, <1>3, PTL DEF Spec

\* The UART's bytes reach the station in terminal mode, over every way in.
THEOREM TerminalsTapped == Spec => []TerminalTapped
<1>1. Init => TypeInv /\ ViewsAgree /\ LinkInv
  BY TypeInit DEF Init, ViewsAgree, ResetSession, LinkInv, AuthorPosts, TerminalTapped
<1>2. TypeInv /\ ViewsAgree /\ LinkInv /\ [Next]_vars => TypeInv' /\ ViewsAgree' /\ LinkInv'
  BY TypeNext, ViewsNext, LinkNext
<1>3. LinkInv => TerminalTapped
  BY DEF LinkInv
<1> QED  BY <1>1, <1>2, <1>3, PTL DEF Spec
-----------------------------------------------------------------------------
(* Where a right answer leads. *)

\* The deferred flags are those of the command that the challenge is for, and
\* with a secret that challenges are made from there are none without one.
FlagsAsked ==
  /\ input_mode = "SYSOP_RESPONSE" =>
       /\ secret = "good"
       /\ asked \in {"COMMAND", "CONFIG", "TERMINAL"}
       /\ auth.config <=> asked = "CONFIG"
       /\ auth.console <=> asked = "TERMINAL"
       /\ asked = "TERMINAL" => term_uart
  /\ input_mode # "SYSOP_RESPONSE" /\ secret = "good" => ~auth.config /\ ~auth.console

\* A challenge that is sent with the flags of its command keeps FlagsAsked.
LEMMA ChallengeFlags ==
  ASSUME TypeInv, NEW a, AuthOK(a), a.mode # "LOCKED_OUT", UNCHANGED config,
         NEW command \in {"COMMAND", "CONFIG", "TERMINAL"}, SendChallenge(a, command),
         input_mode = "COMMAND", secret # "empty", command = "TERMINAL" => term_uart,
         secret = "good" => (a.config <=> command = "CONFIG") /\ (a.console <=> command = "TERMINAL")
  PROVE  FlagsAsked'
<1>1. secret' = secret /\ term_uart' = term_uart /\ secret \in {"short", "good"}
  BY DEF TypeInv, TypeOK, config
<1>2. CASE secret = "short"
  BY <1>1, <1>2 DEF SendChallenge, FlagsAsked
<1>3. CASE secret = "good"
  <2>1. /\ IssueChallenge(a, now).config = a.config
        /\ IssueChallenge(a, now).console = a.console
    BY Issued, CommandStart
  <2>2. auth' = IssueChallenge(a, now) /\ input_mode' = "SYSOP_RESPONSE" /\ asked' = command
    BY <1>3 DEF SendChallenge
  <2> QED  BY <1>1, <1>3, <2>1, <2>2 DEF FlagsAsked
<1> QED  BY <1>1, <1>2, <1>3

\* Every step keeps the flags those of the challenge.
LEMMA FlagsNext == TypeInv /\ ViewsAgree /\ FlagsAsked /\ [Next]_vars => FlagsAsked'
<1> SUFFICES ASSUME TypeInv, ViewsAgree, FlagsAsked, [Next]_vars PROVE FlagsAsked'
  OBVIOUS
<1>0. /\ now \in Clock /\ AuthOK(auth) /\ AuthOK(NotIdle)
      /\ NotIdle.config = auth.config /\ NotIdle.console = auth.console
      /\ StillSysop \in BOOLEAN
  BY CommandStart DEF TypeInv
<1>1. ASSUME NEW s \in Stations, OnConnect(s) PROVE FlagsAsked'
  BY <1>1 DEF OnConnect, NewSession, ResetSession, FlagsAsked
<1>2. CASE OnDisconnect
  BY <1>2 DEF OnDisconnect, NewSession, ResetSession, FlagsAsked
<1>3. CASE OtherCommand
  BY <1>0, <1>3 DEF OtherCommand, LineIn, FlagsAsked, config
<1>4. CASE SendCommand
  BY <1>0, <1>4 DEF SendCommand, LineIn, FlagsAsked, config
<1>5. ASSUME NEW mode \in {"CONFIG", "TERMINAL"}, EnterCommand(mode) PROVE FlagsAsked'
  <2> DEFINE d == Defer(NotIdle, mode, FALSE)
  <2>1. /\ mode = "CONFIG" => ~d.config /\ d.console = auth.console
        /\ mode # "CONFIG" => ~d.console /\ d.config = auth.config
    BY <1>0 DEF Defer, AuthOK, AuthState
  <2> HIDE DEF d
  <2>2. input_mode' # "SYSOP_RESPONSE" /\ secret' = secret /\ input_mode # "SYSOP_RESPONSE"
    BY <1>5 DEF EnterCommand, Enter, LineIn, config
  <2>3. secret = "good" => auth' = d
    BY <1>5 DEF EnterCommand, d
  <2> QED  BY <2>1, <2>2, <2>3 DEF FlagsAsked
<1>6. CASE EnterLocked
  <2>1. AuthOK(CheckLockout(NotIdle, now)) /\ auth' = CheckLockout(NotIdle, now)
        /\ auth'.config = auth.config /\ auth'.console = auth.console
    BY <1>0, <1>6, Checked DEF EnterLocked
  <2>2. input_mode' = "COMMAND" /\ input_mode = "COMMAND" /\ secret' = secret
    BY <1>6 DEF EnterLocked, LineIn, config
  <2> QED  BY <2>1, <2>2 DEF FlagsAsked
<1>7. ASSUME NEW mode \in {"CONFIG", "TERMINAL"}, mode = "TERMINAL" => term_uart,
             EnterAsks(mode)
      PROVE  FlagsAsked'
  <2> DEFINE c == CheckLockout(NotIdle, now)
             a == Defer(c, mode, TRUE)
  <2>1. /\ AuthOK(c) /\ c.mode # "LOCKED_OUT"
        /\ c.config = auth.config /\ c.console = auth.console
    BY <1>0, <1>7, Checked DEF EnterAsks, IsLockedOut
  <2>2. /\ AuthOK(a) /\ a.mode = c.mode
        /\ a.config = IF mode = "CONFIG" THEN TRUE ELSE auth.config
        /\ a.console = IF mode = "CONFIG" THEN auth.console ELSE TRUE
    BY <2>1, Deferred
  <2>3. /\ input_mode = "COMMAND" /\ secret # "empty" /\ UNCHANGED config
        /\ SendChallenge(a, mode)
    BY <1>7 DEF EnterAsks, LineIn, MayEnter
  <2>4. secret = "good" => (a.config <=> mode = "CONFIG") /\ (a.console <=> mode = "TERMINAL")
    BY <1>0, <2>2, <2>3 DEF FlagsAsked
  <2> HIDE DEF a
  <2> QED  BY <1>7, <2>1, <2>2, <2>3, <2>4, ChallengeFlags
<1>8. CASE SysopBypass
  BY <1>8 DEF SysopBypass, LineIn, FlagsAsked, config
<1>9. CASE SysopCommand
  <2> DEFINE b == Defer(NotIdle, "CONFIG", FALSE)
             a == CheckLockout(b, now)
  <2>1. AuthOK(b) /\ ~b.config /\ b.console = auth.console
    <3>1. AuthOK(b)
      BY <1>0, Deferred
    <3>2. ~b.config /\ b.console = auth.console
      BY <1>0 DEF Defer, AuthOK, AuthState
    <3> QED  BY <3>1, <3>2
  <2>2. AuthOK(a) /\ ~a.config /\ a.console = auth.console
    <3> HIDE DEF b
    <3> QED  BY <1>0, <2>1, Checked
  <2>3. input_mode = "COMMAND" /\ secret # "empty" /\ UNCHANGED config
    BY <1>9 DEF SysopCommand, LineIn
  <2>4. secret = "good" => ~a.config /\ ~a.console
    BY <2>2, <2>3 DEF FlagsAsked
  <2>5. CASE a.mode \in {"LOCKED_OUT", "AUTHENTICATED", "AWAITING_RESPONSE"} \/ StillSysop
    <3>1. auth' = a /\ input_mode' = "COMMAND" /\ secret' = secret
      BY <1>9, <2>3, <2>5 DEF SysopCommand, config
    <3> QED  BY <2>4, <3>1 DEF FlagsAsked
  <2>6. CASE ~(a.mode \in {"LOCKED_OUT", "AUTHENTICATED", "AWAITING_RESPONSE"} \/ StillSysop)
    <3>1. SendChallenge(a, "COMMAND") /\ a.mode # "LOCKED_OUT"
      BY <1>9, <2>6 DEF SysopCommand
    <3> HIDE DEF a
    <3> QED  BY <2>2, <2>3, <2>4, <3>1, ChallengeFlags
  <2> QED  BY <2>5, <2>6
<1>10. CASE SubjectLine \/ FinishPost
  BY <1>10 DEF SubjectLine, FinishPost, LineIn, FlagsAsked, config
<1>11. CASE ResponseNew
  <2>1. /\ secret = "good" /\ auth' = IssueChallenge(auth, now)
        /\ input_mode' = "SYSOP_RESPONSE" /\ asked' = asked /\ UNCHANGED config
    BY <1>11 DEF ResponseNew, SendChallenge, LineIn, FlagsAsked
  <2>2. auth'.config = auth.config /\ auth'.console = auth.console
    BY <1>0, <1>11, <2>1, Issued DEF ResponseNew
  <2> QED  BY <1>11, <2>1, <2>2 DEF ResponseNew, LineIn, FlagsAsked, config
<1>12. ASSUME NEW right \in BOOLEAN, Answer(right) PROVE FlagsAsked'
  <2>1. AuthOK(Untaken) /\ Untaken.config = FALSE /\ Untaken.console = FALSE
    BY <1>0 DEF Untaken, AuthOK, AuthState
  <2>2. auth'.config = FALSE /\ auth'.console = FALSE
    BY <1>0, <1>12, <2>1, Answered, UntakenVerdict DEF Answer
  <2>3. input_mode' # "SYSOP_RESPONSE"
    BY <1>12 DEF Answer, Accept, Enter
  <2> QED  BY <2>2, <2>3 DEF FlagsAsked
<1>13. CASE ModeLine
  BY <1>13 DEF ModeLine, session, config, FlagsAsked
<1>14. CASE ExitMode
  BY <1>14 DEF ExitMode, config, FlagsAsked
<1>15. CASE Tick
  BY <1>15 DEF Tick, session, config, FlagsAsked
<1>16. CASE UNCHANGED vars
  BY <1>16 DEF vars, session, config, history, FlagsAsked
<1> QED
  BY <1>1, <1>2, <1>3, <1>4, <1>5, <1>6, <1>7, <1>8, <1>9, <1>10, <1>11, <1>12,
     <1>13, <1>14, <1>15, <1>16 DEF Next, Line, Command

\* The only step out of response mode that gives rights is a right answer.
LEMMA AnswerLeads ==
  ASSUME TypeInv, ViewsAgree, FlagsAsked, [Next]_vars,
         input_mode = "SYSOP_RESPONSE", is_sysop', ~is_sysop
  PROVE  input_mode' = asked
<1>1. PICK right \in BOOLEAN : Answer(right)
  BY DEF Next, Line, Command, OnConnect, OnDisconnect, NewSession, OtherCommand, SendCommand,
         EnterCommand, EnterLocked, EnterAsks, SysopBypass, SysopCommand, LineIn, SubjectLine,
         FinishPost, ResponseNew, ModeLine, ExitMode, Tick, vars, session
<1>2. Verdict(auth, right, now) = "SUCCESS"
  BY <1>1 DEF Answer
<1>3. Accept
  BY <1>1, <1>2 DEF Answer
<1> QED  BY <1>3 DEF Accept, Enter, FlagsAsked

\* A right answer leads where the command would have led that the challenge
\* was issued for, over SYSOP NEW, wrong answers and reconnections.
THEOREM AnswersLead == Spec => LeadsWhereAsked
<1>1. Init => TypeInv /\ ViewsAgree /\ FlagsAsked
  BY TypeInit DEF Init, ViewsAgree, ResetSession, FlagsAsked
<1>2. TypeInv /\ ViewsAgree /\ FlagsAsked /\ [Next]_vars => TypeInv' /\ ViewsAgree' /\ FlagsAsked'
  BY TypeNext, ViewsNext, FlagsNext
<1>3. TypeInv /\ ViewsAgree /\ FlagsAsked /\ [Next]_vars
      => [input_mode = "SYSOP_RESPONSE" /\ is_sysop' /\ ~is_sysop => input_mode' = asked]_vars
  BY AnswerLeads
<1> QED  BY <1>1, <1>2, <1>3, PTL DEF Spec, LeadsWhereAsked
-----------------------------------------------------------------------------
(* Rights, as long as the clock of the code does not wrap: the deadline of a *)
(* challenge that is answered 2^32 ms after it was sent lies ahead again.    *)

\* A deadline on the wrapping clock.
LEMMA Deadline ==
  ASSUME NEW s \in Nat, NEW ms \in Nat, s < Wrap, ms < Wrap
  PROVE  /\ s % Wrap = s
         /\ s + ms < Wrap => Later(s % Wrap, ms) = s + ms
         /\ s + ms >= Wrap => Later(s % Wrap, ms) = s + ms - Wrap
<1>1. Wrap \in Nat \ {0}
  BY ClockRange
<1>2. \A x \in Nat : x < Wrap => x % Wrap = x
  BY <1>1
<1>3. \A x \in Nat : x < Wrap => (x + Wrap) % Wrap = x
  BY <1>1
<1>4. s + ms < Wrap => (s + ms) % Wrap = s + ms
  BY <1>2
<1>5. s + ms >= Wrap => s + ms - Wrap \in Nat /\ s + ms - Wrap < Wrap
  BY <1>1
<1>6. s + ms >= Wrap => (s + ms) % Wrap = s + ms - Wrap
  <2> SUFFICES ASSUME s + ms >= Wrap PROVE (s + ms) % Wrap = s + ms - Wrap
    OBVIOUS
  <2>1. s + ms = (s + ms - Wrap) + Wrap
    BY <1>1
  <2> QED  BY <1>3, <1>5, <2>1
<1> QED  BY <1>2, <1>4, <1>6 DEF Later

\* What the session owes its rights to, and when the challenge that may give
\* them runs out.
RightsInv ==
  /\ is_sysop => proved
  /\ input_mode \in {"CONFIG", "TERMINAL"} => is_sysop
  /\ input_mode = "SYSOP_RESPONSE" =>
       /\ issued.any /\ issued.at <= time
       /\ auth.expires = Later(issued.at % Wrap, ChallengeTimeout)
  /\ time <= MaxTime

\* A challenge that is sent runs out ChallengeTimeout later.
LEMMA ChallengeRights ==
  ASSUME TypeInv, RightsInv, UNCHANGED time, ~is_sysop', is_sysop => input_mode = "COMMAND",
         NEW a, AuthOK(a), a.mode # "LOCKED_OUT", NEW command, SendChallenge(a, command),
         input_mode = "COMMAND" \/ secret # "short"
  PROVE  RightsInv'
<1>1. time \in Nat
  BY DEF TypeInv, TypeOK
<1>2. CASE secret = "short"
  BY <1>2 DEF SendChallenge, RightsInv
<1>3. CASE secret # "short"
  <2>1. IssueChallenge(a, now).expires = Later(now, ChallengeTimeout)
    BY Issued, CommandStart
  <2>2. /\ auth' = IssueChallenge(a, now) /\ input_mode' = "SYSOP_RESPONSE"
        /\ issued'.any /\ issued'.at = time
    BY <1>3 DEF SendChallenge
  <2> QED  BY <1>1, <2>1, <2>2 DEF RightsInv, now
<1> QED  BY <1>2, <1>3

\* Before the clock wraps, an answer that is accepted comes in time.
LEMMA InTime ==
  ASSUME MaxTime < Wrap, TypeInv, RightsInv, input_mode = "SYSOP_RESPONSE", ~(now > auth.expires)
  PROVE  time - issued.at <= ChallengeTimeout
<1>1. /\ time \in Nat /\ issued.at \in Nat /\ issued.at <= time /\ time < Wrap
      /\ ChallengeTimeout \in Nat /\ ChallengeTimeout < Wrap /\ Wrap \in Nat
      /\ auth.expires = Later(issued.at % Wrap, ChallengeTimeout)
  BY AuthAssumption, SessionAssumption DEF TypeInv, TypeOK, RightsInv
<1>2. now = time /\ issued.at < Wrap
  <2>1. time % Wrap = time
    BY <1>1, Deadline
  <2> QED  BY <1>1, <2>1 DEF now
<1>3. CASE issued.at + ChallengeTimeout < Wrap
  <2>1. auth.expires = issued.at + ChallengeTimeout
    BY <1>1, <1>2, <1>3, Deadline
  <2> QED  BY <1>1, <1>2, <2>1
<1>4. CASE issued.at + ChallengeTimeout >= Wrap
  <2>1. auth.expires = issued.at + ChallengeTimeout - Wrap
    BY <1>1, <1>2, <1>4, Deadline
  <2> QED  BY <1>1, <1>2, <2>1
<1> QED  BY <1>1, <1>3, <1>4

\* Every step keeps the rights owed to an answer, or to an empty secret.
LEMMA RightsNext ==
  ASSUME MaxTime < Wrap
  PROVE  TypeInv /\ ViewsAgree /\ FlagsAsked /\ RightsInv /\ [Next]_vars => RightsInv'
<1> SUFFICES ASSUME TypeInv, ViewsAgree, FlagsAsked, RightsInv, [Next]_vars PROVE RightsInv'
  OBVIOUS
<1>0. /\ now \in Clock /\ AuthOK(auth) /\ AuthOK(NotIdle) /\ time \in Nat /\ MaxTime \in Nat
      /\ is_sysop \in BOOLEAN /\ proved \in BOOLEAN
      /\ StillSysop \in BOOLEAN /\ (StillSysop => is_sysop)
  BY CommandStart, SessionAssumption DEF TypeInv, TypeOK, StillSysop
<1>1. ASSUME NEW s \in Stations, OnConnect(s) PROVE RightsInv'
  BY <1>1 DEF OnConnect, NewSession, RightsInv
<1>2. CASE OnDisconnect
  BY <1>2 DEF OnDisconnect, NewSession, RightsInv
<1>3. CASE OtherCommand
  BY <1>0, <1>3 DEF OtherCommand, LineIn, Active, RightsInv
<1>4. CASE SendCommand
  BY <1>0, <1>4 DEF SendCommand, LineIn, Active, RightsInv
<1>5. ASSUME NEW mode \in {"CONFIG", "TERMINAL"}, EnterCommand(mode) PROVE RightsInv'
  BY <1>0, <1>5 DEF EnterCommand, Enter, MayEnter, Active, RightsInv
<1>6. CASE EnterLocked
  BY <1>0, <1>6 DEF EnterLocked, LineIn, Active, RightsInv
<1>7. ASSUME NEW mode \in {"CONFIG", "TERMINAL"}, EnterAsks(mode) PROVE RightsInv'
  <2> DEFINE c == CheckLockout(NotIdle, now)
             a == Defer(c, mode, TRUE)
  <2>1. AuthOK(c) /\ c.mode # "LOCKED_OUT"
    BY <1>0, <1>7, Checked DEF EnterAsks, IsLockedOut
  <2>2. AuthOK(a) /\ a.mode = c.mode
    BY <2>1, Deferred
  <2>3. input_mode = "COMMAND" /\ ~is_sysop' /\ SendChallenge(a, mode) /\ UNCHANGED time
    BY <1>0, <1>7 DEF EnterAsks, LineIn, MayEnter
  <2> HIDE DEF a
  <2> QED  BY <2>1, <2>2, <2>3, ChallengeRights
<1>8. CASE SysopBypass
  BY <1>0, <1>8 DEF SysopBypass, LineIn, Active, RightsInv
<1>9. CASE SysopCommand
  <2> DEFINE b == Defer(NotIdle, "CONFIG", FALSE)
             a == CheckLockout(b, now)
  <2>1. AuthOK(a)
    BY <1>0, Deferred, Checked
  <2>2. input_mode = "COMMAND" /\ is_sysop' = StillSysop /\ UNCHANGED time /\ Active(FALSE)
    BY <1>9 DEF SysopCommand, LineIn
  <2>3. CASE a.mode \in {"LOCKED_OUT", "AUTHENTICATED", "AWAITING_RESPONSE"} \/ StillSysop
    <3>1. input_mode' = "COMMAND"
      BY <1>9, <2>2, <2>3 DEF SysopCommand
    <3> QED  BY <1>0, <2>2, <3>1 DEF Active, RightsInv
  <2>4. CASE ~(a.mode \in {"LOCKED_OUT", "AUTHENTICATED", "AWAITING_RESPONSE"} \/ StillSysop)
    <3>1. SendChallenge(a, "COMMAND") /\ a.mode # "LOCKED_OUT"
      BY <1>9, <2>4 DEF SysopCommand
    <3>2. ~is_sysop'
      BY <1>0, <2>2, <2>4
    <3> HIDE DEF a
    <3> QED  BY <2>1, <2>2, <3>1, <3>2, ChallengeRights
  <2> QED  BY <2>3, <2>4
<1>10. CASE SubjectLine \/ FinishPost
  BY <1>10 DEF SubjectLine, FinishPost, LineIn, RightsInv, history
<1>11. CASE ResponseNew
  <2>1. /\ SendChallenge(auth, asked) /\ auth.mode # "LOCKED_OUT" /\ UNCHANGED time
        /\ ~is_sysop' /\ ~is_sysop /\ secret # "short"
    BY <1>0, <1>11 DEF ResponseNew, LineIn, ViewsAgree, FlagsAsked
  <2> QED  BY <1>0, <2>1, ChallengeRights
<1>12. ASSUME NEW right \in BOOLEAN, Answer(right) PROVE RightsInv'
  <2> DEFINE v == Verdict(auth, right, now)
  <2>1. input_mode = "SYSOP_RESPONSE" /\ ~is_sysop /\ UNCHANGED time
    BY <1>12 DEF Answer, LineIn, ViewsAgree
  <2>2. CASE v = "SUCCESS"
    <3>1. right /\ ~(now > auth.expires)
      BY <1>0, <2>2, Answered
    <3>2. proved'
      BY <1>12, <2>1, <3>1, InTime DEF Answer, RightsInv
    <3>3. is_sysop' /\ input_mode' # "SYSOP_RESPONSE"
      BY <1>12, <2>2 DEF Answer, Accept, Enter
    <3> QED  BY <2>1, <3>2, <3>3 DEF RightsInv
  <2>3. CASE v # "SUCCESS"
    <3>1. ~is_sysop' /\ input_mode' = "COMMAND"
      BY <1>12, <2>1, <2>3 DEF Answer
    <3> QED  BY <2>1, <3>1 DEF RightsInv
  <2> QED  BY <2>2, <2>3
<1>13. CASE ModeLine
  BY <1>0, <1>13 DEF ModeLine, session, Active, RightsInv
<1>14. CASE ExitMode
  BY <1>0, <1>14 DEF ExitMode, Active, RightsInv
<1>15. CASE Tick
  BY <1>0, <1>15 DEF Tick, session, RightsInv, TypeInv, TypeOK
<1>16. CASE UNCHANGED vars
  BY <1>16 DEF vars, session, history, RightsInv
<1> QED
  BY <1>1, <1>2, <1>3, <1>4, <1>5, <1>6, <1>7, <1>8, <1>9, <1>10, <1>11, <1>12,
     <1>13, <1>14, <1>15, <1>16 DEF Next, Line, Command

FullInv == TypeInv /\ ViewsAgree /\ FlagsAsked /\ RightsInv

\* The invariant of the session, before the clock wraps.
LEMMA FullInvariant ==
  ASSUME MaxTime < Wrap
  PROVE  Spec => []FullInv
<1>1. Init => FullInv
  BY TypeInit, SessionAssumption
  DEF Init, ViewsAgree, ResetSession, FlagsAsked, RightsInv, FullInv
<1>2. FullInv /\ [Next]_vars => FullInv'
  BY TypeNext, ViewsNext, FlagsNext, RightsNext DEF FullInv
<1> QED  BY <1>1, <1>2, PTL DEF Spec

\* SYSOP rights, and the modes that need them, are always those of a
\* connection that answered in time, or that needed no answer.
THEOREM RightsAreProved ==
  ASSUME MaxTime < Wrap
  PROVE  Spec => []RightsProved
<1>1. FullInv => RightsProved
  BY DEF FullInv, ViewsAgree, RightsInv, RightsProved
<1> QED  BY <1>1, FullInvariant, PTL

\* A right answer that comes before the deadline is accepted, provided that
\* no deadline wraps either.
THEOREM TimelyAnswersAccepted ==
  ASSUME MaxTime + ChallengeTimeout < Wrap
  PROVE  Spec => TimelyAccepted
<1>1. /\ MaxTime \in Nat /\ ChallengeTimeout \in Nat /\ Wrap \in Nat
      /\ MaxTime < Wrap /\ ChallengeTimeout < Wrap
  BY AuthAssumption, SessionAssumption
<1>2. FullInv /\ Answer(TRUE) /\ time - issued.at < ChallengeTimeout => is_sysop'
  <2> SUFFICES ASSUME FullInv, Answer(TRUE), time - issued.at < ChallengeTimeout
               PROVE  is_sysop'
    OBVIOUS
  <2>1. /\ time \in Nat /\ issued.at \in Nat /\ issued.at <= time /\ time <= MaxTime
        /\ auth.expires = Later(issued.at % Wrap, ChallengeTimeout)
        /\ auth.challenge /\ auth.mode = "AWAITING_RESPONSE"
    BY DEF FullInv, TypeInv, TypeOK, AuthOK, RightsInv, ViewsAgree, Answer, LineIn
  <2>2. now = time /\ auth.expires = issued.at + ChallengeTimeout
    BY <1>1, <2>1, Deadline DEF now
  <2>3. Verdict(auth, TRUE, now) = "SUCCESS"
    BY <1>1, <2>1, <2>2 DEF Verdict
  <2> QED  BY <2>3 DEF Answer
<1>3. FullInv /\ [Next]_vars
      => [Answer(TRUE) /\ time - issued.at < ChallengeTimeout => is_sysop']_vars
  BY <1>2
<1>4. Spec => []FullInv
  BY <1>1, FullInvariant
<1> QED  BY <1>3, <1>4, PTL DEF Spec, TimelyAccepted
-----------------------------------------------------------------------------
(* Idle sessions, before the clock wraps. *)

\* The engine's last activity is never later than that of the session.
IdleInv ==
  /\ active <= time
  /\ auth.mode = "AUTHENTICATED" => auth.last <= active
  /\ late # "COMMAND"

\* The activity was noted in this line.
Noted(a) == a.mode = "AUTHENTICATED" => a.last = now

\* Every command notes the activity first, and what it does next keeps that.
LEMMA NotedFirst == ASSUME TypeInv PROVE Noted(NotIdle)
<1>1. now \in Clock /\ AuthOK(auth) /\ 0 \in Clock
  BY CommandStart, ClockRange DEF TypeInv, Clock
<1>2. CASE IsIdle(auth, now)
  BY <1>1, <1>2 DEF Noted, NotIdle, NoteActivity, ExpireIfIdle, AuthOK, AuthState
<1>3. CASE ~IsIdle(auth, now)
  BY <1>1, <1>3 DEF Noted, NotIdle, NoteActivity, ExpireIfIdle, AuthOK, AuthState
<1> QED  BY <1>2, <1>3

\* The operations of the engine that a command may add.
LEMMA NotedAfter ==
  ASSUME TypeInv, NEW a, AuthOK(a), NEW mode, NEW b \in BOOLEAN
  PROVE  /\ Noted(a) => Noted(Defer(a, mode, b)) /\ Noted(CheckLockout(a, now))
         /\ Noted(BypassAuthenticate(a, now)) /\ Noted(IssueChallenge(a, now))
<1>1. now \in Clock
  BY CommandStart
<1>2. Noted(a) => Noted(Defer(a, mode, b))
  BY DEF Noted, Defer, AuthOK, AuthState
<1>3. Noted(a) => Noted(CheckLockout(a, now))
  BY DEF Noted, CheckLockout, AuthOK, AuthState
<1>4. Noted(BypassAuthenticate(a, now)) /\ Noted(IssueChallenge(a, now))
  BY <1>1 DEF Noted, BypassAuthenticate, IssueChallenge, AuthOK, AuthState
<1> QED  BY <1>2, <1>3, <1>4

\* A session that still has its rights was active within the timeout.
LEMMA ActiveOfLate ==
  ASSUME MaxTime < Wrap, FullInv, IdleInv, StillSysop
  PROVE  time - active <= SessionTimeout
<1>1. /\ time \in Nat /\ active \in Nat /\ time < Wrap /\ Wrap \in Nat /\ SessionTimeout \in Nat
      /\ auth.mode = "AUTHENTICATED" /\ auth.last \in Nat /\ auth.last <= active /\ active <= time
      /\ ~IsIdle(auth, now)
  <2>1. /\ time \in Nat /\ active \in Nat /\ time < Wrap /\ Wrap \in Nat /\ SessionTimeout \in Nat
    BY AuthAssumption, SessionAssumption DEF FullInv, TypeInv, TypeOK, RightsInv
  <2>2. auth.mode = "AUTHENTICATED" /\ ~IsIdle(auth, now)
    BY DEF FullInv, ViewsAgree, StillSysop
  <2>3. auth.last \in Clock
    BY DEF FullInv, TypeInv, AuthOK, AuthState
  <2> QED  BY <2>1, <2>2, <2>3 DEF IdleInv, Clock
<1>2. now = time
  <2>1. 0 < Wrap /\ 0 \in Nat
    BY <1>1
  <2> QED  BY <1>1, <2>1, Deadline DEF now
<1>3. \A x \in Nat : x < Wrap => x % Wrap = x
  BY <1>1
<1>4. time - auth.last \in Nat /\ time - auth.last < Wrap
  BY <1>1
<1>5. (now - auth.last) % Wrap = time - auth.last
  BY <1>2, <1>3, <1>4
<1> QED  BY <1>1, <1>5 DEF IsIdle

\* A command that has the rights of the session only if it was not idle.
LEMMA CommandIdle ==
  ASSUME MaxTime < Wrap, FullInv, IdleInv, NEW p \in BOOLEAN, Active(p), time' = time,
         Noted(auth'), p \/ (is_sysop' => StillSysop)
  PROVE  IdleInv'
<1>1. time \in Nat /\ now = time /\ active' = time
  <2>1. time \in Nat /\ time < Wrap /\ Wrap \in Nat
    BY AuthAssumption, SessionAssumption DEF FullInv, TypeInv, TypeOK, RightsInv
  <2>2. 0 < Wrap /\ 0 \in Nat
    BY <2>1
  <2>3. time % Wrap = time
    BY <2>1, <2>2, Deadline
  <2> QED  BY <2>1, <2>3 DEF now, Active
<1>2. late' # "COMMAND"
  <2>1. CASE p
    BY <2>1 DEF Active
  <2>2. CASE ~p
    <3>1. is_sysop' => ~(time - active > SessionTimeout)
      <4>1. time \in Nat /\ active \in Nat /\ SessionTimeout \in Nat
        BY AuthAssumption DEF FullInv, TypeInv, TypeOK
      <4> QED  BY <2>2, <4>1, ActiveOfLate
    <3> QED  BY <2>2, <3>1 DEF Active
  <2> QED  BY <2>1, <2>2
<1>3. auth'.mode = "AUTHENTICATED" => auth'.last <= active'
  BY <1>1 DEF Noted
<1> QED  BY <1>1, <1>2, <1>3 DEF IdleInv

\* Every step keeps it.
LEMMA IdleNext == ASSUME MaxTime < Wrap PROVE FullInv /\ IdleInv /\ [Next]_vars => IdleInv'
<1> SUFFICES ASSUME FullInv, IdleInv, [Next]_vars PROVE IdleInv'
  OBVIOUS
<1>0. /\ TypeInv /\ ViewsAgree /\ AuthOK(auth) /\ AuthOK(NotIdle) /\ now \in Clock
      /\ time \in Nat /\ active \in Nat /\ StillSysop \in BOOLEAN /\ Noted(NotIdle)
  BY CommandStart, NotedFirst DEF FullInv, TypeInv, TypeOK
<1>1. ASSUME (\E s \in Stations : OnConnect(s)) \/ OnDisconnect PROVE IdleInv'
  BY <1>1 DEF OnConnect, OnDisconnect, NewSession, ResetSession, IdleInv
<1>2. CASE OtherCommand \/ SendCommand
  BY <1>0, <1>2, CommandIdle DEF OtherCommand, SendCommand
<1>3. ASSUME NEW mode \in {"CONFIG", "TERMINAL"}, EnterCommand(mode) PROVE IdleInv'
  <2>1. AuthOK(Defer(NotIdle, mode, FALSE)) /\ Noted(Defer(NotIdle, mode, FALSE))
    BY <1>0, Deferred, NotedAfter
  <2>2. Noted(auth')
    BY <1>0, <1>3, <2>1, NotedAfter DEF EnterCommand
  <2>3. /\ Active(secret = "empty") /\ time' = time
        /\ (secret = "empty") \in BOOLEAN /\ (secret = "empty" \/ StillSysop)
    BY <1>3 DEF EnterCommand, MayEnter
  <2> QED  BY <2>2, <2>3, CommandIdle
<1>4. CASE EnterLocked
  BY <1>0, <1>4, NotedAfter, CommandIdle DEF EnterLocked
<1>5. ASSUME NEW mode \in {"CONFIG", "TERMINAL"}, EnterAsks(mode) PROVE IdleInv'
  <2> DEFINE a == Defer(CheckLockout(NotIdle, now), mode, TRUE)
  <2>1. AuthOK(a) /\ Noted(a)
    <3>1. AuthOK(CheckLockout(NotIdle, now)) /\ Noted(CheckLockout(NotIdle, now))
      BY <1>0, Checked, NotedAfter
    <3> QED  BY <1>0, <3>1, Deferred, NotedAfter
  <2>2. SendChallenge(a, mode) /\ Active(FALSE) /\ time' = time /\ is_sysop' = StillSysop
    BY <1>5 DEF EnterAsks
  <2> HIDE DEF a
  <2>3. Noted(auth')
    BY <1>0, <2>1, <2>2, NotedAfter DEF SendChallenge
  <2> QED  BY <2>2, <2>3, CommandIdle
<1>6. CASE SysopBypass
  <2>1. AuthOK(Defer(NotIdle, "CONFIG", FALSE))
    BY <1>0, Deferred
  <2>2. Noted(auth') /\ Active(TRUE) /\ time' = time
    BY <1>0, <1>6, <2>1, NotedAfter DEF SysopBypass
  <2> QED  BY <2>2, CommandIdle
<1>7. CASE SysopCommand
  <2> DEFINE a == CheckLockout(Defer(NotIdle, "CONFIG", FALSE), now)
  <2>1. AuthOK(a) /\ Noted(a)
    <3>1. AuthOK(Defer(NotIdle, "CONFIG", FALSE)) /\ Noted(Defer(NotIdle, "CONFIG", FALSE))
      BY <1>0, Deferred, NotedAfter
    <3> QED  BY <1>0, <3>1, Checked, NotedAfter
  <2>2. /\ auth' = a \/ SendChallenge(a, "COMMAND")
        /\ Active(FALSE) /\ time' = time /\ is_sysop' = StillSysop
    BY <1>7 DEF SysopCommand
  <2> HIDE DEF a
  <2>3. Noted(auth')
    BY <1>0, <2>1, <2>2, NotedAfter DEF SendChallenge
  <2> QED  BY <2>2, <2>3, CommandIdle
<1>8. CASE SubjectLine \/ FinishPost
  BY <1>8 DEF SubjectLine, FinishPost, history, IdleInv
<1>9. CASE ResponseNew
  <2>1. auth' = auth \/ auth' = IssueChallenge(auth, now)
    BY <1>9 DEF ResponseNew, SendChallenge
  <2>2. auth'.mode # "AUTHENTICATED"
    BY <1>0, <1>9, <2>1 DEF ResponseNew, IssueChallenge, AuthOK, AuthState
  <2> QED  BY <1>9, <2>2 DEF ResponseNew, IdleInv
<1>10. ASSUME NEW right \in BOOLEAN, Answer(right) PROVE IdleInv'
  <2> DEFINE v == Verdict(auth, right, now)
  <2>1. AuthOK(Untaken) /\ Untaken.mode = "AWAITING_RESPONSE"
    BY <1>0, <1>10 DEF Answer, LineIn, ViewsAgree, Untaken, AuthOK, AuthState
  <2>2. /\ auth' = Submitted(Untaken, v, now) /\ v = Verdict(Untaken, right, now)
        /\ active' = time /\ time' = time /\ late' = "none"
    BY <1>0, <1>10, UntakenVerdict DEF Answer
  <2> HIDE DEF v
  <2>3. CASE v = "SUCCESS"
    <3>1. auth' = BypassAuthenticate(ClearChallenge(Untaken), now)
      BY <2>2, <2>3 DEF Submitted
    <3>2. ClearChallenge(Untaken) \in AuthState
      <4>1. 0 \in Clock
        BY ClockRange DEF Clock
      <4> QED  BY <2>1, <4>1 DEF ClearChallenge, AuthOK, AuthState
    <3>3. auth'.last = now
      BY <1>0, <3>1, <3>2 DEF BypassAuthenticate, AuthState
    <3>4. now = time
      <4>1. time < Wrap /\ Wrap \in Nat /\ 0 \in Nat /\ 0 < Wrap
        BY AuthAssumption, SessionAssumption, <1>0 DEF FullInv, RightsInv
      <4> QED  BY <1>0, <4>1, Deadline DEF now
    <3> QED  BY <1>0, <2>2, <3>3, <3>4 DEF IdleInv
  <2>4. CASE v # "SUCCESS"
    <3>1. auth'.mode # "AUTHENTICATED"
      BY <1>0, <2>1, <2>2, <2>4, Answered
    <3> QED  BY <1>0, <2>2, <3>1 DEF IdleInv
  <2> QED  BY <2>3, <2>4
<1>11. CASE ModeLine \/ ExitMode
  <2>1. active' = time /\ time' = time /\ auth' = auth /\ late' # "COMMAND"
    BY <1>11 DEF ModeLine, ExitMode, Active, session
  <2>2. auth.mode = "AUTHENTICATED" => auth.last \in Nat
    BY <1>0, ClockRange DEF AuthOK, AuthState, Clock
  <2> QED  BY <1>0, <2>1, <2>2 DEF IdleInv
<1>12. CASE Tick
  BY <1>0, <1>12 DEF Tick, session, IdleInv
<1>13. CASE UNCHANGED vars
  BY <1>13 DEF vars, session, history, IdleInv
<1> QED
  BY <1>1, <1>2, <1>3, <1>4, <1>5, <1>6, <1>7, <1>8, <1>9, <1>10, <1>11, <1>12, <1>13
  DEF Next, Line, Command

\* Before the clock wraps, no command is run with the rights of a session that
\* was idle for longer than the timeout: every command ends one first.
THEOREM IdleDenied ==
  ASSUME MaxTime < Wrap
  PROVE  Spec => []IdleCommandsDenied
<1>1. Init => IdleInv
  BY DEF Init, IdleInv, ResetSession
<1>2. FullInv /\ IdleInv /\ [Next]_vars => IdleInv'
  BY IdleNext
<1>3. IdleInv => IdleCommandsDenied
  BY DEF IdleInv, IdleCommandsDenied
<1>4. Spec => []FullInv
  BY FullInvariant
<1> QED  BY <1>1, <1>2, <1>3, <1>4, PTL DEF Spec
-----------------------------------------------------------------------------
(* Wrong answers, as long as no lockout's end wraps. *)

\* The engine counts at least the wrong answers of this connection that are on
\* record, and when a lockout ends none of them is.
Counted(a) ==
  /\ Len(wrong) - earlier <= a.failed
  /\ a.mode = "LOCKED_OUT" =>
       /\ \A i \in DOMAIN wrong : wrong[i] + LockoutTime <= a.until
       /\ now >= a.until => wrong = <<>>

CountInv ==
  /\ Counted(auth)
  /\ \A i \in DOMAIN wrong : wrong[i] <= time
  /\ secret = "empty" => wrong = <<>> /\ auth.mode # "AWAITING_RESPONSE"

\* With nothing on record nothing is counted.
LEMMA NoneCounted ==
  ASSUME TypeInv, wrong = <<>>, NEW a, AuthOK(a)
  PROVE  Counted(a)
<1>1. Len(wrong) = 0 /\ DOMAIN wrong = {} /\ earlier \in Nat /\ a.failed \in Nat
  BY DEF TypeInv, TypeOK, AuthOK, AuthState
<1> QED  BY <1>1 DEF Counted

\* What the engine does in a command loses no count.
LEMMA CountedAfter ==
  ASSUME TypeInv, NEW a, AuthOK(a), Counted(a), NEW mode, NEW b \in BOOLEAN
  PROVE  /\ Counted(Defer(a, mode, b)) /\ Counted(CheckLockout(a, now))
         /\ Counted(NoteActivity(ExpireIfIdle(a, now), now))
         /\ a.mode # "LOCKED_OUT" => Counted(IssueChallenge(a, now))
<1>1. now \in Clock
  BY CommandStart
<1>2. a \in AuthState
  BY DEF AuthOK
<1>3. ASSUME NEW c, c.failed = a.failed, c.mode = "LOCKED_OUT" => a.mode = "LOCKED_OUT" /\ c.until = a.until
      PROVE  Counted(c)
  BY <1>3 DEF Counted
<1>4. Counted(Defer(a, mode, b))
  <2>1. /\ Defer(a, mode, b).failed = a.failed /\ Defer(a, mode, b).mode = a.mode
        /\ Defer(a, mode, b).until = a.until
    BY <1>2 DEF Defer, AuthState
  <2> QED  BY <1>3, <2>1
<1>5. Counted(CheckLockout(a, now))
  <2>1. CASE a.mode = "LOCKED_OUT" /\ now >= a.until
    <3>1. wrong = <<>>
      BY <2>1 DEF Counted
    <3>2. AuthOK(CheckLockout(a, now))
      BY <1>1, Checked
    <3> QED  BY <3>1, <3>2, NoneCounted
  <2>2. CASE ~(a.mode = "LOCKED_OUT" /\ now >= a.until)
    BY <2>2 DEF CheckLockout
  <2> QED  BY <2>1, <2>2
<1>6. Counted(NoteActivity(ExpireIfIdle(a, now), now))
  <2> DEFINE c == NoteActivity(ExpireIfIdle(a, now), now)
  <2>1. c.failed = a.failed /\ c.until = a.until
    BY <1>2 DEF NoteActivity, ExpireIfIdle, AuthState
  <2>2. c.mode \in {a.mode, "IDLE"}
    BY <1>1, Idled
  <2> HIDE DEF c
  <2>3. Counted(c)
    BY <1>3, <2>1, <2>2
  <2> QED  BY <2>3 DEF c
<1>7. ASSUME a.mode # "LOCKED_OUT" PROVE Counted(IssueChallenge(a, now))
  <2>1. IssueChallenge(a, now).failed = a.failed /\ IssueChallenge(a, now).mode = "AWAITING_RESPONSE"
    BY <1>2 DEF IssueChallenge, AuthState
  <2> QED  BY <1>3, <2>1
<1> QED  BY <1>4, <1>5, <1>6, <1>7

\* A line that leaves clock, secret and record as they are keeps the count if
\* the engine it leaves has it.
LEMMA CountKept ==
  ASSUME CountInv, time' = time, secret' = secret, wrong' = wrong, earlier' = earlier,
         Counted(auth'), secret = "empty" => auth'.mode # "AWAITING_RESPONSE"
  PROVE  CountInv'
BY DEF CountInv, Counted, now

\* The clock, before it wraps.
LEMMA Unwrapped ==
  ASSUME MaxTime < Wrap, FullInv
  PROVE  /\ time \in Nat /\ time <= MaxTime /\ MaxTime \in Nat /\ Wrap \in Nat
         /\ now = time /\ LockoutTime \in Nat \ {0}
<1>1. /\ time \in Nat /\ time <= MaxTime /\ MaxTime \in Nat /\ Wrap \in Nat
      /\ LockoutTime \in Nat \ {0}
  BY AuthAssumption, SessionAssumption DEF FullInv, TypeInv, TypeOK, RightsInv
<1>2. time < Wrap /\ 0 < Wrap /\ 0 \in Nat
  BY <1>1
<1> QED  BY <1>1, <1>2, Deadline DEF now

\* A wrong answer is counted by both, and a lockout ends LockoutTime after it.
LEMMA WrongCounted ==
  ASSUME MaxTime + LockoutTime < Wrap, FullInv, CountInv, NEW right \in BOOLEAN, Answer(right)
  PROVE  CountInv'
<1> DEFINE v == Verdict(auth, right, now)
           c == ClearChallenge(Untaken)
<1>0. MaxTime < Wrap
  BY AuthAssumption, SessionAssumption
<1>1. /\ time \in Nat /\ time <= MaxTime /\ MaxTime \in Nat /\ Wrap \in Nat
      /\ now = time /\ LockoutTime \in Nat \ {0}
  BY <1>0, Unwrapped
<1>2. /\ TypeInv /\ AuthOK(auth) /\ auth.mode = "AWAITING_RESPONSE" /\ secret # "empty"
  BY DEF FullInv, TypeInv, ViewsAgree, Answer, LineIn, CountInv
<1>3. /\ wrong \in Seq(Nat) /\ Len(wrong) \in Nat /\ earlier \in Nat /\ DOMAIN wrong = 1 .. Len(wrong)
      /\ Len(wrong) - earlier <= auth.failed /\ auth.failed \in Nat
      /\ \A i \in DOMAIN wrong : wrong[i] \in Nat /\ wrong[i] <= time
  <2>1. wrong \in Seq(Nat) /\ earlier \in Nat /\ auth.failed \in Nat
    BY <1>2, AuthAssumption DEF TypeInv, TypeOK, AuthOK, AuthState
  <2> QED  BY <2>1 DEF CountInv, Counted
<1>4. /\ Untaken.failed = auth.failed /\ Untaken.mode = "AWAITING_RESPONSE" /\ Untaken \in AuthState
      /\ v = Verdict(Untaken, right, now)
  BY <1>2, UntakenVerdict DEF Untaken, AuthOK, AuthState
<1>5. c \in AuthState /\ c.failed = auth.failed /\ c.mode = "IDLE"
  <2>1. 0 \in Clock
    BY ClockRange DEF Clock
  <2> QED  BY <1>4, <2>1 DEF ClearChallenge, AuthState
<1>6. /\ auth' = Submitted(Untaken, v, now) /\ time' = time /\ secret' = secret
      /\ earlier' = IF v = "SUCCESS" THEN 0 ELSE earlier
      /\ wrong' = CASE v = "SUCCESS" -> <<>>
                    [] v \in {"FAILED", "LOCKED_OUT"} -> Append(wrong, time)
                    [] OTHER -> wrong
  BY DEF Answer, config
<1>7. v \in {"EXPIRED", "SUCCESS", "FAILED", "LOCKED_OUT"}
  BY <1>2 DEF Verdict, AuthOK
<1> HIDE DEF v, c
<1>8. CASE v = "EXPIRED"
  <2>1. auth' = c /\ wrong' = wrong /\ earlier' = earlier
    BY <1>6, <1>8 DEF Submitted, c
  <2>2. Counted(auth')
    BY <1>3, <1>5, <2>1 DEF Counted
  <2> QED  BY <1>2, <1>6, <2>1, <2>2, CountKept
<1>9. CASE v = "SUCCESS"
  <2>1. auth' = BypassAuthenticate(c, now) /\ wrong' = <<>> /\ earlier' = 0
    BY <1>6, <1>9 DEF Submitted, c
  <2>2. auth'.failed = 0 /\ auth'.mode = "AUTHENTICATED"
    BY <1>5, <2>1 DEF BypassAuthenticate, AuthState
  <2>3. Len(wrong') = 0 /\ DOMAIN wrong' = {}
    BY <2>1
  <2> QED  BY <1>2, <1>6, <2>1, <2>2, <2>3 DEF CountInv, Counted
<1>10. CASE v \in {"FAILED", "LOCKED_OUT"}
  <2>1. wrong' = Append(wrong, time) /\ earlier' = earlier
    BY <1>6, <1>10
  <2>2. /\ Len(wrong') = Len(wrong) + 1 /\ DOMAIN wrong' = 1 .. Len(wrong) + 1
        /\ \A i \in DOMAIN wrong' : wrong'[i] \in Nat /\ wrong'[i] <= time
    BY <1>1, <1>3, <2>1, AppendProperties
  <2>3. auth'.failed = auth.failed + 1
    <3>1. CASE v = "FAILED"
      BY <1>5, <1>6, <3>1 DEF Submitted, c, AuthState
    <3>2. CASE v = "LOCKED_OUT"
      BY <1>5, <1>6, <3>2 DEF Submitted, c, AuthState
    <3> QED  BY <1>10, <3>1, <3>2
  <2>4. Len(wrong') - earlier' <= auth'.failed
    BY <1>3, <2>1, <2>2, <2>3
  <2>5. /\ auth'.mode # "AWAITING_RESPONSE"
        /\ auth'.mode = "LOCKED_OUT" => auth'.until = time + LockoutTime
    <3>1. CASE v = "FAILED"
      BY <1>5, <1>6, <3>1 DEF Submitted, c, AuthState
    <3>2. CASE v = "LOCKED_OUT"
      <4>1. Later(time % Wrap, LockoutTime) = time + LockoutTime
        <5>1. time < Wrap /\ LockoutTime < Wrap /\ time + LockoutTime < Wrap
          BY <1>0, <1>1, AuthAssumption
        <5> QED  BY <1>1, <5>1, Deadline
      <4>2. Later(now, LockoutTime) = time + LockoutTime
        BY <4>1 DEF now
      <4>3. auth'.until = Later(now, LockoutTime) /\ auth'.mode = "LOCKED_OUT"
        BY <1>5, <1>6, <3>2 DEF Submitted, c, AuthState
      <4> QED  BY <4>2, <4>3
    <3> QED  BY <1>10, <3>1, <3>2
  <2>6. now' = time
    BY <1>1, <1>6 DEF now
  <2>7. auth'.mode = "LOCKED_OUT" => /\ \A i \in DOMAIN wrong' : wrong'[i] + LockoutTime <= auth'.until
                                     /\ ~(now' >= auth'.until)
    BY <1>1, <2>2, <2>5, <2>6
  <2> QED  BY <1>2, <1>6, <2>2, <2>4, <2>5, <2>7 DEF CountInv, Counted
<1> QED  BY <1>7, <1>8, <1>9, <1>10

\* What is left of a sequence when its first elements are dropped.
LEMMA DroppedFront ==
  ASSUME NEW s \in Seq(Nat), NEW k \in Nat, k <= Len(s)
  PROVE  /\ SubSeq(s, k + 1, Len(s)) \in Seq(Nat) /\ Len(SubSeq(s, k + 1, Len(s))) = Len(s) - k
         /\ \A i \in DOMAIN SubSeq(s, k + 1, Len(s)) :
              k + i \in DOMAIN s /\ SubSeq(s, k + 1, Len(s))[i] = s[k + i]
<1>1. PICK n \in Nat : n = Len(s)
  BY LenProperties
<1>2. DOMAIN s = 1 .. n /\ \A i \in k + 1 .. n : s[i] \in Nat
  BY <1>1, LenProperties, ElementOfSeq
<1>3. PICK m \in Nat : m = k + 1
  OBVIOUS
<1>4. PICK r : r = SubSeq(s, m, n)
  OBVIOUS
<1>5. /\ r \in Seq(Nat) /\ Len(r) = IF m <= n THEN n - m + 1 ELSE 0
      /\ \A i \in 1 .. n - m + 1 : r[i] = s[m + i - 1]
  BY <1>2, <1>3, <1>4, SubSeqProperties
<1>6. Len(r) = n - k /\ DOMAIN r = 1 .. n - k
  BY <1>1, <1>3, <1>5, LenProperties
<1>7. \A i \in 1 .. n - k : r[i] = s[k + i] /\ k + i \in 1 .. n
  <2> SUFFICES ASSUME NEW i \in 1 .. n - k PROVE r[i] = s[k + i] /\ k + i \in 1 .. n
    OBVIOUS
  <2>1. i \in 1 .. n - m + 1 /\ m + i - 1 = k + i /\ k + i \in 1 .. n
    BY <1>3
  <2> QED  BY <1>5, <2>1
<1> QED  BY <1>1, <1>2, <1>3, <1>4, <1>5, <1>6, <1>7

\* Time takes wrong answers from the record, all of them when a lockout ends.
LEMMA TickCounted ==
  ASSUME MaxTime + LockoutTime < Wrap, FullInv, CountInv, Tick
  PROVE  CountInv'
<1> DEFINE gone == {i \in DOMAIN wrong : wrong[i] + LockoutTime <= time'}
           old == Cardinality(gone)
<1>0. MaxTime < Wrap
  BY AuthAssumption, SessionAssumption
<1>1. /\ time \in Nat /\ time' = time + 1 /\ time' <= MaxTime /\ MaxTime \in Nat /\ Wrap \in Nat
      /\ LockoutTime \in Nat
  BY <1>0, Unwrapped DEF Tick
<1>2. now' = time'
  <2>1. time' \in Nat /\ time' < Wrap /\ 0 \in Nat /\ 0 < Wrap
    BY <1>0, <1>1
  <2>2. time' % Wrap = time'
    BY <2>1, Deadline
  <2> QED  BY <2>2 DEF now
<1>3. /\ wrong \in Seq(Nat) /\ Len(wrong) \in Nat /\ earlier \in Nat /\ DOMAIN wrong = 1 .. Len(wrong)
      /\ Len(wrong) - earlier <= auth.failed /\ auth.failed \in Nat
      /\ \A i \in DOMAIN wrong : wrong[i] \in Nat /\ wrong[i] <= time
  <2>1. wrong \in Seq(Nat) /\ earlier \in Nat /\ auth.failed \in Nat
    BY AuthAssumption DEF FullInv, TypeInv, TypeOK, AuthOK, AuthState
  <2> QED  BY <2>1 DEF CountInv, Counted
<1>4. old \in Nat /\ old <= Len(wrong) /\ (gone = 1 .. Len(wrong) => old = Len(wrong))
  <2>1. IsFiniteSet(1 .. Len(wrong)) /\ Cardinality(1 .. Len(wrong)) = Len(wrong)
    <3>1. PICK n \in Nat : n = Len(wrong)
      BY <1>3
    <3>2. IsFiniteSet(1 .. n) /\ Cardinality(1 .. n) = n
      BY FS_Interval
    <3> QED  BY <3>1, <3>2
  <2>2. gone \in SUBSET (1 .. Len(wrong))
    BY <1>3
  <2> HIDE DEF gone
  <2>3. IsFiniteSet(gone) /\ Cardinality(gone) <= Cardinality(1 .. Len(wrong))
    BY <2>1, <2>2, FS_Subset
  <2> QED  BY <2>1, <2>3, FS_CardinalityType
<1>5. /\ wrong' = SubSeq(wrong, old + 1, Len(wrong))
      /\ earlier' = IF earlier > old THEN earlier - old ELSE 0
      /\ auth' = auth /\ secret' = secret
  BY DEF Tick, config, session
<1> HIDE DEF old
<1>6. /\ wrong' \in Seq(Nat) /\ Len(wrong') = Len(wrong) - old
      /\ \A i \in DOMAIN wrong' : old + i \in DOMAIN wrong /\ wrong'[i] = wrong[old + i]
  BY <1>3, <1>4, <1>5, DroppedFront
<1>7. \A i \in DOMAIN wrong' : \E j \in DOMAIN wrong : wrong'[i] = wrong[j]
  BY <1>6
<1>8. Len(wrong') - earlier' <= auth'.failed
  <2>1. PICK n \in Nat : n = Len(wrong)
    BY <1>3
  <2>2. n - earlier <= auth.failed /\ Len(wrong') = n - old /\ old <= n
    BY <1>3, <1>4, <1>6, <2>1
  <2>3. auth' = auth /\ earlier' = IF earlier > old THEN earlier - old ELSE 0
    BY <1>5
  <2>4. PICK l \in Int : l = Len(wrong') /\ l = n - old
    BY <1>4, <2>1, <2>2
  <2>5. l - earlier' <= auth'.failed
    <3>1. earlier \in Nat /\ old \in Nat /\ auth.failed \in Nat
      BY <1>3, <1>4
    <3>2. CASE earlier > old
      BY <2>2, <2>3, <2>4, <3>1, <3>2
    <3>3. CASE ~(earlier > old)
      BY <2>2, <2>3, <2>4, <3>1, <3>3
    <3> QED  BY <3>2, <3>3
  <2> QED  BY <2>4, <2>5
<1>9. \A i \in DOMAIN wrong' : wrong'[i] <= time'
  <2>1. \A j \in DOMAIN wrong : wrong[j] <= time'
    BY <1>1, <1>3
  <2> QED  BY <1>7, <2>1
<1>10. ASSUME auth.mode = "LOCKED_OUT"
       PROVE  /\ \A i \in DOMAIN wrong' : wrong'[i] + LockoutTime <= auth'.until
              /\ now' >= auth'.until => wrong' = <<>>
  <2>1. \A j \in DOMAIN wrong : wrong[j] + LockoutTime <= auth.until
    BY <1>10 DEF CountInv, Counted
  <2>2. \A i \in DOMAIN wrong' : wrong'[i] + LockoutTime <= auth'.until
    BY <1>5, <1>7, <2>1
  <2>3. ASSUME now' >= auth'.until PROVE wrong' = <<>>
    <3>1. auth.until \in Nat
      <4>1. auth.until \in Clock
        BY DEF FullInv, TypeInv, AuthOK, AuthState
      <4> QED  BY <1>1, <4>1 DEF Clock
    <3>2. \A j \in DOMAIN wrong : wrong[j] + LockoutTime <= time'
      BY <1>1, <1>2, <1>3, <1>5, <2>1, <2>3, <3>1
    <3>3. gone = 1 .. Len(wrong)
      BY <1>3, <3>2
    <3>4. old = Len(wrong)
      BY <1>4, <3>3
    <3> QED  BY <1>3, <1>5, <3>4, EmptySeq
  <2> QED  BY <2>2, <2>3
<1>11. secret' = "empty" => wrong' = <<>> /\ auth'.mode # "AWAITING_RESPONSE"
  <2> SUFFICES ASSUME secret = "empty" PROVE wrong' = <<>>
    BY <1>5 DEF CountInv
  <2>1. wrong = <<>>
    BY DEF CountInv
  <2>2. Len(wrong) = 0 /\ old = 0
    BY <1>4, <2>1
  <2> QED  BY <1>3, <1>5, <2>2, EmptySeq
<1> QED  BY <1>5, <1>8, <1>9, <1>10, <1>11 DEF CountInv, Counted

\* Every step keeps the count.
LEMMA CountNext ==
  ASSUME MaxTime + LockoutTime < Wrap
  PROVE  FullInv /\ CountInv /\ [Next]_vars => CountInv'
<1> SUFFICES ASSUME FullInv, CountInv, [Next]_vars PROVE CountInv'
  OBVIOUS
<1>0. /\ TypeInv /\ ViewsAgree /\ AuthOK(auth) /\ AuthOK(NotIdle) /\ now \in Clock /\ Counted(NotIdle)
      /\ NotIdle.mode \in {"IDLE", auth.mode}
      /\ secret = "empty" => wrong = <<>> /\ auth.mode # "AWAITING_RESPONSE"
  <2>1. TypeInv /\ ViewsAgree /\ AuthOK(auth) /\ Counted(auth)
    BY DEF FullInv, TypeInv, CountInv
  <2>2. Counted(NoteActivity(ExpireIfIdle(auth, now), now))
    BY <2>1, CountedAfter
  <2> QED  BY <2>1, <2>2, CommandStart DEF NotIdle, CountInv
<1>1. ASSUME (\E s \in Stations : OnConnect(s)) \/ OnDisconnect PROVE CountInv'
  <2>1. /\ auth' = ResetSession /\ time' = time /\ wrong' = wrong /\ earlier' = Len(wrong)
        /\ secret' = secret
    BY <1>1 DEF OnConnect, OnDisconnect, NewSession, config
  <2>2. PICK n \in Nat : n = Len(wrong)
    BY <1>0, LenProperties DEF TypeInv, TypeOK
  <2>3. auth'.failed = 0 /\ auth'.mode = "IDLE" /\ Len(wrong') - earlier' <= 0
    BY <2>1, <2>2 DEF ResetSession
  <2> QED  BY <2>1, <2>3 DEF CountInv, Counted
<1>2. CASE OtherCommand \/ SendCommand
  <2>1. /\ auth' = NotIdle /\ time' = time /\ wrong' = wrong /\ earlier' = earlier /\ secret' = secret
    BY <1>2 DEF OtherCommand, SendCommand, config
  <2> QED  BY <1>0, <2>1, CountKept
<1>3. ASSUME NEW mode \in {"CONFIG", "TERMINAL"}, EnterCommand(mode) PROVE CountInv'
  <2> DEFINE d == Defer(NotIdle, mode, FALSE)
  <2>1. AuthOK(d) /\ d.mode = NotIdle.mode /\ Counted(d) /\ AuthOK(BypassAuthenticate(d, now))
    <3>1. AuthOK(d) /\ d.mode = NotIdle.mode /\ Counted(d)
      BY <1>0, Deferred, CountedAfter
    <3> QED  BY <1>0, <3>1, Bypassed
  <2>2. /\ auth' = IF secret = "empty" THEN BypassAuthenticate(d, now) ELSE d
        /\ time' = time /\ wrong' = wrong /\ earlier' = earlier /\ secret' = secret
    BY <1>3 DEF EnterCommand, config
  <2>3. secret = "empty" => auth'.mode = "AUTHENTICATED"
    BY <1>0, <2>1, <2>2, Bypassed
  <2> HIDE DEF d
  <2>4. Counted(auth')
    BY <1>0, <2>1, <2>2, NoneCounted
  <2> QED  BY <2>2, <2>3, <2>4, CountKept
<1>4. CASE EnterLocked
  <2>1. /\ auth' = CheckLockout(NotIdle, now)
        /\ time' = time /\ wrong' = wrong /\ earlier' = earlier /\ secret' = secret
    BY <1>4 DEF EnterLocked, config
  <2>2. Counted(auth') /\ (secret = "empty" => auth'.mode # "AWAITING_RESPONSE")
    BY <1>0, <2>1, CountedAfter, Checked
  <2> QED  BY <2>1, <2>2, CountKept
<1>5. ASSUME NEW mode \in {"CONFIG", "TERMINAL"}, EnterAsks(mode) PROVE CountInv'
  <2> DEFINE c == CheckLockout(NotIdle, now)
             a == Defer(c, mode, TRUE)
  <2>1. AuthOK(c) /\ Counted(c) /\ c.mode # "LOCKED_OUT"
    BY <1>0, <1>5, Checked, CountedAfter DEF EnterAsks, IsLockedOut
  <2> HIDE DEF c
  <2>2. AuthOK(a) /\ Counted(a) /\ a.mode # "LOCKED_OUT"
    <3>1. AuthOK(a) /\ a.mode = c.mode
      BY <2>1, Deferred
    <3>2. Counted(a)
      BY <1>0, <2>1, CountedAfter
    <3> QED  BY <2>1, <3>1, <3>2
  <2>3. /\ SendChallenge(a, mode) /\ secret # "empty"
        /\ time' = time /\ wrong' = wrong /\ earlier' = earlier /\ secret' = secret
    BY <1>5 DEF EnterAsks, MayEnter, config, a, c
  <2> HIDE DEF a
  <2>4. Counted(auth')
    BY <1>0, <2>2, <2>3, CountedAfter DEF SendChallenge
  <2> QED  BY <2>3, <2>4, CountKept
<1>6. CASE SysopBypass
  <2> DEFINE d == Defer(NotIdle, "CONFIG", FALSE)
  <2>1. AuthOK(BypassAuthenticate(d, now)) /\ BypassAuthenticate(d, now).mode = "AUTHENTICATED"
    <3>1. AuthOK(d)
      BY <1>0, Deferred
    <3> QED  BY <1>0, <3>1, Bypassed
  <2>2. /\ auth' = BypassAuthenticate(d, now) /\ secret = "empty"
        /\ time' = time /\ wrong' = wrong /\ earlier' = earlier /\ secret' = secret
    BY <1>6 DEF SysopBypass, config
  <2> HIDE DEF d
  <2>3. Counted(auth') /\ auth'.mode # "AWAITING_RESPONSE"
    BY <1>0, <2>1, <2>2, NoneCounted
  <2> QED  BY <2>2, <2>3, CountKept
<1>7. CASE SysopCommand
  <2> DEFINE d == Defer(NotIdle, "CONFIG", FALSE)
             a == CheckLockout(d, now)
  <2>1. AuthOK(d) /\ Counted(d)
    BY <1>0, Deferred, CountedAfter
  <2>2. AuthOK(a) /\ Counted(a)
    BY <1>0, <2>1, Checked, CountedAfter
  <2>3. /\ secret # "empty" /\ (auth' = a \/ (a.mode # "LOCKED_OUT" /\ SendChallenge(a, "COMMAND")))
        /\ time' = time /\ wrong' = wrong /\ earlier' = earlier /\ secret' = secret
    BY <1>7 DEF SysopCommand, config
  <2> HIDE DEF a
  <2>4. Counted(auth')
    BY <1>0, <2>2, <2>3, CountedAfter DEF SendChallenge
  <2> QED  BY <2>3, <2>4, CountKept
<1>8. CASE SubjectLine \/ FinishPost \/ ModeLine \/ ExitMode
  <2>1. auth' = auth /\ time' = time /\ wrong' = wrong /\ earlier' = earlier /\ secret' = secret
    BY <1>8 DEF SubjectLine, FinishPost, ModeLine, ExitMode, history, session, config
  <2> QED  BY <2>1, CountKept DEF CountInv
<1>9. CASE ResponseNew
  <2>1. /\ SendChallenge(auth, asked) /\ auth.mode = "AWAITING_RESPONSE"
        /\ time' = time /\ wrong' = wrong /\ earlier' = earlier /\ secret' = secret
    BY <1>9 DEF ResponseNew, config
  <2>2. Counted(auth') /\ secret # "empty"
    BY <1>0, <2>1, CountedAfter DEF SendChallenge, CountInv
  <2> QED  BY <2>1, <2>2, CountKept
<1>10. ASSUME NEW right \in BOOLEAN, Answer(right) PROVE CountInv'
  BY <1>10, WrongCounted
<1>11. CASE Tick
  BY <1>11, TickCounted
<1>12. CASE UNCHANGED vars
  BY <1>12, CountKept DEF vars, session, config, history, CountInv
<1> QED
  BY <1>1, <1>2, <1>3, <1>4, <1>5, <1>6, <1>7, <1>8, <1>9, <1>10, <1>11, <1>12
  DEF Next, Line, Command

\* Before a lockout's end wraps, one connection never gets more than MaxAttempts
\* answers wrong within the time of a lockout, over any challenges it asks for.
THEOREM AttemptsLimited ==
  ASSUME MaxTime + LockoutTime < Wrap
  PROVE  Spec => []AttemptsBounded
<1>0. MaxTime < Wrap
  BY AuthAssumption, SessionAssumption
<1>1. Init => CountInv
  BY DEF Init, CountInv, Counted, ResetSession
<1>2. FullInv /\ CountInv /\ [Next]_vars => CountInv'
  BY CountNext
<1>3. FullInv /\ CountInv => AttemptsBounded
  <2> SUFFICES ASSUME FullInv, CountInv PROVE Len(wrong) - earlier <= MaxAttempts
    BY DEF AttemptsBounded
  <2>1. PICK n \in Nat : n = Len(wrong)
    BY LenProperties DEF FullInv, TypeInv, TypeOK
  <2>2. n - earlier <= auth.failed /\ auth.failed \in Nat /\ auth.failed <= MaxAttempts
        /\ earlier \in Nat /\ MaxAttempts \in Nat
    BY <2>1, AuthAssumption DEF FullInv, TypeInv, TypeOK, AuthOK, AuthState, CountInv, Counted
  <2> QED  BY <2>1, <2>2
<1>4. Spec => []FullInv
  BY <1>0, FullInvariant
<1> QED  BY <1>1, <1>2, <1>3, <1>4, PTL DEF Spec
-----------------------------------------------------------------------------
(* The queue. *)

Connect(s) == [type |-> "CONNECT", from |-> s]
Disconnected == [type |-> "DISCONNECT"]
Data(s, a) == [type |-> "DATA", from |-> s, announced |-> a]

Event == {Connect(s) : s \in Stations} \cup {Disconnected}
           \cup {Data(s, a) : s \in Stations, a \in BOOLEAN}

\* When the worker comes to place i of the queue, the session is that of s: the
\* last event before it that is not a line is the CONNECT of s, or there is none
\* and the session is that of s already.
SessionOf(s, i) ==
  \/ \E j \in 1 .. i - 1 : /\ evt_queue[j] = Connect(s)
                           /\ \A k \in j + 1 .. i - 1 : evt_queue[k].type = "DATA"
  \/ /\ \A k \in 1 .. i - 1 : evt_queue[k].type = "DATA"
     /\ connected /\ remote = s

\* The session is that of the link when all that is queued is handled.
Announced ==
  \A s \in Stations : \A i \in Nat :
    announced /\ link = s /\ i = Len(evt_queue) + 1 => SessionOf(s, i)

Lines ==
  \A i \in Nat \ {0} : \A s \in Stations :
    i <= Len(evt_queue) /\ evt_queue[i] = Data(s, TRUE) => SessionOf(s, i)

Kind ==
  /\ evt_queue \in Seq(Event)
  /\ link \in Stations \cup {None} /\ announced \in BOOLEAN
  /\ announced => link # None

AppInv == Kind /\ Announced /\ Lines /\ HandledAsSender
-----------------------------------------------------------------------------
\* No line of a station, and no tick, changes whose session it is.
LEMMA SessionStays == ASSUME Line \/ Tick \/ UNCHANGED vars PROVE connected' = connected /\ remote' = remote
<1>1. CASE Command
  BY <1>1 DEF Command, OtherCommand, SendCommand, EnterCommand, EnterAsks, EnterLocked,
     SysopBypass, SysopCommand
<1>2. CASE SubjectLine \/ FinishPost \/ ResponseNew
  BY <1>2 DEF SubjectLine, FinishPost, ResponseNew
<1>3. CASE \E right \in BOOLEAN : Answer(right)
  BY <1>3 DEF Answer
<1>4. CASE ModeLine \/ ExitMode
  BY <1>4 DEF ModeLine, ExitMode, session
<1>5. CASE Tick \/ UNCHANGED vars
  BY <1>5 DEF Tick, vars, session
<1> QED  BY <1>1, <1>2, <1>3, <1>4, <1>5 DEF Line

\* The kinds of events are told apart by their type.
LEMMA Kinds ==
  /\ \A s : Connect(s).type = "CONNECT" /\ Connect(s).from = s
  /\ Disconnected.type = "DISCONNECT"
  /\ \A s, a : Data(s, a).type = "DATA" /\ Data(s, a).from = s /\ Data(s, a).announced = a
BY DEF Connect, Disconnected, Data

\* An event is put at the end, or dropped.
LEMMA Sent ==
  ASSUME AppInv, NEW evt \in Event, Send(evt)
  PROVE  /\ evt_queue' \in Seq(Event)
         /\ \/ evt_queue' = evt_queue /\ ~(Len(evt_queue) < QueueLen)
            \/ /\ Len(evt_queue') = Len(evt_queue) + 1 /\ Len(evt_queue) < QueueLen
               /\ evt_queue'[Len(evt_queue) + 1] = evt
               /\ \A i \in 1 .. Len(evt_queue) : evt_queue'[i] = evt_queue[i]
<1>1. evt_queue \in Seq(Event)
  BY DEF AppInv, Kind
<1> HIDE DEF Event
<1> QED  BY <1>1, AppendProperties DEF Send

\* What is handled before place i is as it was, if the first i - 1 events are.
LEMMA SessionKept ==
  ASSUME NEW s, NEW i \in Nat, SessionOf(s, i), connected' = connected, remote' = remote,
         \A k \in 1 .. i - 1 : evt_queue'[k] = evt_queue[k]
  PROVE  SessionOf(s, i)'
<1>1. CASE \E j \in 1 .. i - 1 : /\ evt_queue[j] = Connect(s)
                                 /\ \A k \in j + 1 .. i - 1 : evt_queue[k].type = "DATA"
  <2>1. PICK j \in 1 .. i - 1 : /\ evt_queue[j] = Connect(s)
                                /\ \A k \in j + 1 .. i - 1 : evt_queue[k].type = "DATA"
    BY <1>1
  <2>2. \A k \in j + 1 .. i - 1 : k \in 1 .. i - 1
    OBVIOUS
  <2>3. evt_queue'[j] = Connect(s) /\ \A k \in j + 1 .. i - 1 : evt_queue'[k].type = "DATA"
    BY <2>1, <2>2
  <2> QED  BY <2>3 DEF SessionOf
<1>2. CASE /\ \A k \in 1 .. i - 1 : evt_queue[k].type = "DATA"
           /\ connected /\ remote = s
  BY <1>2 DEF SessionOf
<1> QED  BY <1>1, <1>2 DEF SessionOf

\* A line at place i changes nothing for what comes after.
LEMMA SessionAfterLine ==
  ASSUME NEW s, NEW i \in Nat \ {0}, SessionOf(s, i)', evt_queue'[i].type = "DATA"
  PROVE  SessionOf(s, i + 1)'
<1>1. CASE \E j \in 1 .. i - 1 : /\ evt_queue'[j] = Connect(s)
                                 /\ \A k \in j + 1 .. i - 1 : evt_queue'[k].type = "DATA"
  <2>1. PICK j \in 1 .. i - 1 : /\ evt_queue'[j] = Connect(s)
                                /\ \A k \in j + 1 .. i - 1 : evt_queue'[k].type = "DATA"
    BY <1>1
  <2>2. \A k \in j + 1 .. (i + 1) - 1 : k \in j + 1 .. i - 1 \/ k = i
    OBVIOUS
  <2>3. j \in 1 .. (i + 1) - 1 /\ \A k \in j + 1 .. (i + 1) - 1 : evt_queue'[k].type = "DATA"
    BY <2>1, <2>2
  <2> QED  BY <2>1, <2>3 DEF SessionOf
<1>2. CASE /\ \A k \in 1 .. i - 1 : evt_queue'[k].type = "DATA"
           /\ connected' /\ remote' = s
  <2>1. \A k \in 1 .. (i + 1) - 1 : k \in 1 .. i - 1 \/ k = i
    OBVIOUS
  <2> QED  BY <1>2, <2>1 DEF SessionOf
<1> QED  BY <1>1, <1>2 DEF SessionOf

\* When the worker has taken an event, every other is one place nearer.
LEMMA SessionNearer ==
  ASSUME AppInv, evt_queue # <<>>, evt_queue' = Tail(evt_queue),
         NEW s, NEW i \in Nat \ {0}, i <= Len(evt_queue), SessionOf(s, i + 1),
         evt_queue[1] = Connect(s) => connected' /\ remote' = s,
         evt_queue[1].type = "DATA" => connected' = connected /\ remote' = remote
  PROVE  SessionOf(s, i)'
<1>1. \A k \in 1 .. i - 1 : evt_queue'[k] = evt_queue[k + 1]
  <2>1. evt_queue \in Seq(Event)
    BY DEF AppInv, Kind
  <2> HIDE DEF Event
  <2>2. PICK n \in Nat : n = Len(evt_queue)
    BY <2>1, LenProperties
  <2>3. Len(evt_queue') = n - 1 /\ \A k \in 1 .. Len(evt_queue') : evt_queue'[k] = evt_queue[k + 1]
    BY <2>1, <2>2, HeadTailProperties
  <2> QED  BY <2>2, <2>3
<1>2. CASE \E j \in 1 .. (i + 1) - 1 : /\ evt_queue[j] = Connect(s)
                                       /\ \A k \in j + 1 .. (i + 1) - 1 : evt_queue[k].type = "DATA"
  <2>1. PICK j \in 1 .. (i + 1) - 1 : /\ evt_queue[j] = Connect(s)
                                      /\ \A k \in j + 1 .. (i + 1) - 1 : evt_queue[k].type = "DATA"
    BY <1>2
  <2>2. \A k \in j .. i - 1 : k + 1 \in j + 1 .. (i + 1) - 1 /\ k \in 1 .. i - 1
    OBVIOUS
  <2>3. \A k \in j .. i - 1 : evt_queue'[k].type = "DATA"
    BY <1>1, <2>1, <2>2
  <2>4. CASE j = 1
    BY <2>1, <2>3, <2>4 DEF SessionOf
  <2>5. CASE j # 1
    <3>1. j - 1 \in 1 .. i - 1 /\ (j - 1) + 1 = j
      BY <2>5
    <3>2. evt_queue'[j - 1] = Connect(s) /\ \A k \in (j - 1) + 1 .. i - 1 : evt_queue'[k].type = "DATA"
      BY <1>1, <2>1, <2>3, <3>1
    <3> QED  BY <3>1, <3>2 DEF SessionOf
  <2> QED  BY <2>4, <2>5
<1>3. CASE /\ \A k \in 1 .. (i + 1) - 1 : evt_queue[k].type = "DATA"
           /\ connected /\ remote = s
  <2>1. 1 \in 1 .. (i + 1) - 1 /\ \A k \in 1 .. i - 1 : k + 1 \in 1 .. (i + 1) - 1
    OBVIOUS
  <2>2. connected' /\ remote' = s /\ \A k \in 1 .. i - 1 : evt_queue'[k].type = "DATA"
    BY <1>1, <1>3, <2>1
  <2> QED  BY <2>2 DEF SessionOf
<1> QED  BY <1>2, <1>3 DEF SessionOf
-----------------------------------------------------------------------------
\* The queue is a sequence of events, and has a length.
LEMMA Queued ==
  ASSUME AppInv
  PROVE  /\ evt_queue \in Seq(Event) /\ Len(evt_queue) \in Nat
         /\ DOMAIN evt_queue = 1 .. Len(evt_queue)
         /\ Announced /\ Lines /\ HandledAsSender
BY LenProperties DEF AppInv, Kind

\* What a callback of the link adds to the queue leaves what is before it.
LEMMA CallbackKeeps ==
  ASSUME AppInv, NEW evt \in Event, Send(evt),
         connected' = connected, remote' = remote, handled' = handled,
         NEW n \in Nat, n = Len(evt_queue),
         \A s \in Stations : evt = Data(s, TRUE) => SessionOf(s, n + 1)
  PROVE  /\ evt_queue' \in Seq(Event) /\ HandledAsSender' /\ Lines'
         /\ \A s \in Stations : SessionOf(s, n + 1) => SessionOf(s, n + 1)'
<1>1. evt_queue' \in Seq(Event)
  BY Sent
<1>2. \/ Len(evt_queue') = n
      \/ Len(evt_queue') = n + 1 /\ evt_queue'[n + 1] = evt
  BY Sent
<1>3. \A i \in 1 .. n : evt_queue'[i] = evt_queue[i]
  BY Sent
<1>4. HandledAsSender'
  BY Queued DEF HandledAsSender
<1>5. ASSUME NEW s \in Stations, NEW i \in 1 .. n + 1, SessionOf(s, i) PROVE SessionOf(s, i)'
  <2>1. \A k \in 1 .. i - 1 : k \in 1 .. n
    OBVIOUS
  <2>2. \A k \in 1 .. i - 1 : evt_queue'[k] = evt_queue[k]
    BY <1>3, <2>1
  <2> QED  BY <1>5, <2>2, SessionKept
<1>6. ASSUME NEW i \in Nat \ {0}, NEW s \in Stations,
             i <= Len(evt_queue'), evt_queue'[i] = Data(s, TRUE)
      PROVE  SessionOf(s, i)'
  <2>1. i \in 1 .. n + 1 /\ (i \in 1 .. n \/ (i = n + 1 /\ evt_queue'[n + 1] = evt))
    BY <1>2, <1>6
  <2>2. CASE i \in 1 .. n
    <3>1. evt_queue'[i] = evt_queue[i] /\ i <= n
      BY <1>3, <2>2
    <3>2. i <= Len(evt_queue) /\ evt_queue[i] = Data(s, TRUE)
      BY <1>6, <3>1
    <3>3. SessionOf(s, i)
      BY <3>2, Queued DEF Lines
    <3> QED  BY <1>5, <2>1, <3>3
  <2>3. CASE i = n + 1 /\ evt_queue'[n + 1] = evt
    <3>1. SessionOf(s, i)
      BY <1>6, <2>3
    <3> QED  BY <1>5, <2>1, <3>1
  <2> QED  BY <2>1, <2>2, <2>3
<1>7. Lines'
  BY <1>6 DEF Lines
<1>8. \A s \in Stations : SessionOf(s, n + 1) => SessionOf(s, n + 1)'
  <2>1. n + 1 \in 1 .. n + 1
    OBVIOUS
  <2> QED  BY <1>5, <2>1
<1> QED  BY <1>1, <1>4, <1>7, <1>8

\* conn_on_connect(): what is queued now is this station's (main.c:845).
LEMMA ConnectKeeps == ASSUME AppInv, NEW s \in Stations, ConnOnConnect(s) PROVE AppInv'
<1>1. /\ link' = s /\ Send(Connect(s)) /\ handled' = handled
      /\ connected' = connected /\ remote' = remote
  BY SessionStays DEF ConnOnConnect, Connect
<1>2. PICK n \in Nat : n = Len(evt_queue)
  BY Queued
<1>3. announced' \in BOOLEAN /\ (announced' => n < QueueLen)
  <2>1. announced' = (Len(evt_queue) < QueueLen)
    BY DEF ConnOnConnect
  <2>2. announced' \in BOOLEAN
    BY <2>1 DEF ConnOnConnect
  <2>3. announced' => Len(evt_queue) < QueueLen
    BY <2>1, Zenon
  <2> QED  BY <1>2, <2>2, <2>3
<1>4. Connect(s) \in Event
  BY DEF Event
<1>5. \A t \in Stations : Connect(s) = Data(t, TRUE) => FALSE
  <2>1. \A t \in Stations : Connect(s).type = "CONNECT" /\ Data(t, TRUE).type = "DATA"
    BY Kinds
  <2> QED  BY <2>1
<1>6. evt_queue' \in Seq(Event) /\ HandledAsSender' /\ Lines'
  BY <1>1, <1>2, <1>4, <1>5, CallbackKeeps
<1>7. ASSUME announced' PROVE SessionOf(s, n + 2)' /\ Len(evt_queue') = n + 1
  <2>1. Len(evt_queue') = n + 1 /\ evt_queue'[n + 1] = Connect(s)
    BY <1>1, <1>2, <1>3, <1>4, <1>7, Sent
  <2>2. n + 1 \in 1 .. (n + 2) - 1 /\ \A k \in (n + 1) + 1 .. (n + 2) - 1 : FALSE
    OBVIOUS
  <2> QED  BY <2>1, <2>2 DEF SessionOf
<1>8. Announced'
  <2> SUFFICES ASSUME NEW t \in Stations, NEW i \in Nat,
                      announced', link' = t, i = Len(evt_queue') + 1
               PROVE  SessionOf(t, i)'
    BY DEF Announced
  <2>1. t = s /\ i = n + 2
    BY <1>1, <1>7
  <2> QED  BY <1>7, <2>1
<1>9. Kind'
  BY <1>1, <1>3, <1>6, SessionAssumption DEF Kind
<1> QED  BY <1>6, <1>8, <1>9 DEF AppInv

\* conn_on_disconnect(): the next one is not announced yet (main.c:863).
LEMMA DisconnectKeeps == ASSUME AppInv, ConnOnDisconnect PROVE AppInv'
<1>1. /\ link' = None /\ Send(Disconnected) /\ handled' = handled /\ ~announced'
      /\ connected' = connected /\ remote' = remote
  BY SessionStays DEF ConnOnDisconnect, Disconnected
<1>2. announced' \in BOOLEAN
  BY Zenon DEF ConnOnDisconnect
<1>3. Disconnected \in Event
  BY DEF Event
<1>4. \A t \in Stations : Disconnected = Data(t, TRUE) => FALSE
  <2>1. \A t \in Stations : Disconnected.type = "DISCONNECT" /\ Data(t, TRUE).type = "DATA"
    BY Kinds
  <2> QED  BY <2>1
<1>5. PICK n \in Nat : n = Len(evt_queue)
  BY Queued
<1>6. evt_queue' \in Seq(Event) /\ HandledAsSender' /\ Lines'
  BY <1>1, <1>3, <1>4, <1>5, CallbackKeeps
<1> QED  BY <1>1, <1>2, <1>6 DEF AppInv, Kind, Announced

\* conn_on_data() (main.c:876).
LEMMA DataKeeps == ASSUME AppInv, ConnOnData PROVE AppInv'
<1>1. /\ link' = link /\ announced' = announced /\ handled' = handled
      /\ connected' = connected /\ remote' = remote
  BY SessionStays DEF ConnOnData
<1>2. Kind
  BY DEF AppInv
<1>3. PICK s \in Stations, a \in BOOLEAN : s = link /\ a = announced
  BY <1>2 DEF ConnOnData, Kind
<1>4. Send(Data(s, a)) /\ Data(s, a) \in Event
  BY <1>3 DEF ConnOnData, Data, Event
<1>5. PICK n \in Nat : n = Len(evt_queue)
  BY Queued
<1>6. a => SessionOf(s, n + 1)
  BY <1>3, <1>5, Queued DEF Announced
<1>7. \A t \in Stations : Data(s, a) = Data(t, TRUE) => SessionOf(t, n + 1)
  <2> SUFFICES ASSUME NEW t \in Stations, Data(s, a) = Data(t, TRUE)
               PROVE  SessionOf(t, n + 1)
    OBVIOUS
  <2>1. /\ Data(s, a).from = s /\ Data(t, TRUE).from = t
        /\ Data(s, a).announced = a /\ Data(t, TRUE).announced = TRUE
    BY Kinds
  <2>2. s = t /\ a = TRUE
    BY <2>1
  <2> QED  BY <1>6, <2>2
<1>8. /\ evt_queue' \in Seq(Event) /\ HandledAsSender' /\ Lines'
      /\ \A t \in Stations : SessionOf(t, n + 1) => SessionOf(t, n + 1)'
  BY <1>1, <1>4, <1>5, <1>7, CallbackKeeps
<1>9. Announced'
  <2> SUFFICES ASSUME NEW t \in Stations, NEW i \in Nat,
                      announced', link' = t, i = Len(evt_queue') + 1
               PROVE  SessionOf(t, i)'
    BY DEF Announced
  <2>1. t = s /\ a
    BY <1>1, <1>3
  <2>2. SessionOf(s, n + 1)'
    BY <1>6, <1>8, <2>1
  <2>3. \/ Len(evt_queue') = n
        \/ Len(evt_queue') = n + 1 /\ evt_queue'[n + 1] = Data(s, a)
    BY <1>4, <1>5, Sent
  <2>4. CASE Len(evt_queue') = n
    BY <2>1, <2>2, <2>4
  <2>5. CASE Len(evt_queue') = n + 1 /\ evt_queue'[n + 1] = Data(s, a)
    <3>1. evt_queue'[n + 1].type = "DATA" /\ n + 1 \in Nat \ {0}
      BY <2>5, Kinds
    <3>2. SessionOf(s, (n + 1) + 1)'
      BY <2>2, <3>1, SessionAfterLine
    <3> QED  BY <2>1, <2>5, <3>2
  <2> QED  BY <2>3, <2>4, <2>5
<1>10. Kind'
  BY <1>1, <1>2, <1>8 DEF Kind
<1> QED  BY <1>8, <1>9, <1>10 DEF AppInv

\* bbs_worker_task() (main.c:467): the event is handled in the session of its
\* sender, and the others come nearer.
LEMMA WorkerKeeps == ASSUME AppInv, Worker PROVE AppInv'
<1>1. PICK evt \in Event : evt = Head(evt_queue) /\ evt = evt_queue[1]
  <2>1. evt_queue \in Seq(Event) /\ evt_queue # <<>>
    BY Queued DEF Worker
  <2> HIDE DEF Event
  <2>2. Head(evt_queue) \in Event
    BY <2>1, HeadTailProperties
  <2>3. Head(evt_queue) = evt_queue[1]
    BY <2>1
  <2> QED  BY <2>2, <2>3
<1>2. /\ HandleConnect(evt) \/ HandleDisconnect(evt) \/ HandleData(evt)
      /\ evt_queue' = Tail(evt_queue) /\ evt_queue # <<>>
      /\ link' = link /\ announced' = announced
  BY <1>1 DEF Worker
<1>3. PICK n \in Nat : n = Len(evt_queue) /\ n # 0
  BY <1>2, Queued, EmptySeq
<1>4. /\ evt_queue' \in Seq(Event) /\ Len(evt_queue') = n - 1
      /\ \A k \in 1 .. n - 1 : evt_queue'[k] = evt_queue[k + 1]
  <2>1. evt_queue \in Seq(Event)
    BY Queued
  <2> HIDE DEF Event
  <2> QED  BY <1>2, <1>3, <2>1, HeadTailProperties
<1>5. /\ \A s \in Stations : evt = Connect(s) => connected' /\ remote' = s
      /\ evt.type = "DATA" => connected' = connected /\ remote' = remote
  <2>1. CASE HandleConnect(evt)
    BY <2>1, Kinds DEF HandleConnect, OnConnect
  <2>2. CASE HandleDisconnect(evt)
    BY <2>2, Kinds DEF HandleDisconnect
  <2>3. CASE HandleData(evt)
    <3>1. evt.type = "DATA" /\ (Line \/ UNCHANGED vars)
      BY <2>3 DEF HandleData
    <3> QED  BY <3>1, SessionStays, Kinds
  <2> QED  BY <1>2, <2>1, <2>2, <2>3
<1>6. ASSUME NEW s \in Stations, NEW i \in 1 .. n, SessionOf(s, i + 1) PROVE SessionOf(s, i)'
  <2>1. i \in Nat \ {0} /\ i <= Len(evt_queue)
    BY <1>3
  <2> QED  BY <1>1, <1>2, <1>5, <1>6, <2>1, SessionNearer
<1>7. Lines'
  <2> SUFFICES ASSUME NEW i \in Nat \ {0}, NEW s \in Stations,
                      i <= Len(evt_queue'), evt_queue'[i] = Data(s, TRUE)
               PROVE  SessionOf(s, i)'
    BY DEF Lines
  <2>1. i \in 1 .. n - 1
    BY <1>4
  <2>2. evt_queue[i + 1] = Data(s, TRUE)
    BY <1>4, <2>1
  <2>3. i + 1 \in Nat \ {0} /\ i + 1 <= Len(evt_queue)
    BY <1>3, <2>1
  <2>4. SessionOf(s, i + 1)
    BY <2>2, <2>3, Queued DEF Lines
  <2> QED  BY <1>6, <2>1, <2>4
<1>8. Announced'
  <2> SUFFICES ASSUME NEW s \in Stations, NEW i \in Nat,
                      announced', link' = s, i = Len(evt_queue') + 1
               PROVE  SessionOf(s, i)'
    BY DEF Announced
  <2>1. announced /\ link = s /\ i = n /\ n + 1 = Len(evt_queue) + 1
    BY <1>2, <1>3, <1>4
  <2>2. SessionOf(s, n + 1)
    BY <2>1, Queued DEF Announced
  <2>3. n \in 1 .. n
    BY <1>3
  <2> QED  BY <1>6, <2>1, <2>2, <2>3
<1>9. HandledAsSender'
  <2>1. CASE HandleData(evt)
    <3>1. /\ handled' = [from |-> evt.from, announced |-> evt.announced] /\ evt.type = "DATA"
          /\ connected' = connected /\ remote' = remote
      BY <1>5, <2>1 DEF HandleData
    <3>2. PICK s \in Stations, a \in BOOLEAN : evt = Data(s, a)
      BY <3>1, Kinds DEF Event
    <3>3. handled'.from = s /\ handled'.announced = a
      BY <3>1, <3>2, Kinds
    <3>4. CASE a = TRUE
      <4>1. 1 <= Len(evt_queue) /\ evt_queue[1] = Data(s, TRUE) /\ 1 \in Nat \ {0}
        BY <1>1, <1>3, <3>2, <3>4
      <4>2. SessionOf(s, 1)
        BY <4>1, Queued DEF Lines
      <4>3. connected /\ remote = s
        BY <4>2 DEF SessionOf
      <4> QED  BY <3>1, <3>3, <4>3 DEF HandledAsSender
    <3>5. CASE a = FALSE
      BY <3>3, <3>5 DEF HandledAsSender
    <3> QED  BY <3>4, <3>5
  <2>2. CASE HandleConnect(evt) \/ HandleDisconnect(evt)
    BY <2>2 DEF HandleConnect, HandleDisconnect, HandledAsSender, Nothing
  <2> QED  BY <1>2, <2>1, <2>2
<1>10. Kind'
  <2>1. Kind
    BY DEF AppInv
  <2> QED  BY <1>2, <1>4, <2>1 DEF Kind
<1> QED  BY <1>7, <1>8, <1>9, <1>10 DEF AppInv

\* Nothing of this depends on the rest of the session.
LEMMA OthersKeep ==
  ASSUME AppInv, connected' = connected, remote' = remote, link' = link,
         evt_queue' = evt_queue, announced' = announced, handled' = handled
  PROVE  AppInv'
<1>1. Kind' /\ HandledAsSender'
  BY DEF AppInv, Kind, HandledAsSender
<1>2. ASSUME NEW s, NEW i \in Nat, SessionOf(s, i) PROVE SessionOf(s, i)'
  BY <1>2, SessionKept
<1>3. Announced'
  BY <1>2, Queued DEF Announced
<1>4. Lines'
  BY <1>2, Queued DEF Lines
<1> QED  BY <1>1, <1>3, <1>4 DEF AppInv

\* The invariant holds at first.
LEMMA AppInvFirst == AppInit => AppInv
<1> SUFFICES ASSUME AppInit PROVE AppInv
  OBVIOUS
<1>1. evt_queue = <<>> /\ link = None /\ announced = FALSE /\ handled = Nothing
  BY DEF AppInit
<1>2. evt_queue \in Seq(Event) /\ Len(evt_queue) = 0
  <2> HIDE DEF Event
  <2> QED  BY <1>1, EmptySeq
<1>3. Kind
  BY <1>1, <1>2 DEF Kind
<1>4. Announced /\ HandledAsSender
  BY <1>1 DEF Announced, HandledAsSender, Nothing
<1>5. Lines
  BY <1>2 DEF Lines
<1> QED  BY <1>3, <1>4, <1>5 DEF AppInv

\* No step of the link or of the worker breaks it.
LEMMA AppInvNext == AppInv /\ [AppNext]_appvars => AppInv'
<1> SUFFICES ASSUME AppInv, [AppNext]_appvars PROVE AppInv'
  OBVIOUS
<1>1. CASE AppTick \/ UNCHANGED appvars
  <2>1. /\ connected' = connected /\ remote' = remote /\ link' = link
        /\ evt_queue' = evt_queue /\ announced' = announced /\ handled' = handled
    BY <1>1, SessionStays DEF AppTick, appvars
  <2> QED  BY <2>1, OthersKeep
<1> QED  BY <1>1, ConnectKeeps, DisconnectKeeps, DataKeeps, WorkerKeeps DEF AppNext

\* Events name stations, and are handled as the session's steps are.
LEMMA WorkerSteps == ASSUME AppInv, Worker PROVE [Next]_vars
<1> DEFINE evt == Head(evt_queue)
<1>1. /\ HandleConnect(evt) \/ HandleDisconnect(evt) \/ HandleData(evt)
      /\ evt \in Event
  <2>1. evt_queue \in Seq(Event) /\ evt_queue # <<>>
    BY DEF AppInv, Kind, Worker
  <2>2. evt \in Event
    <3> HIDE DEF Event
    <3> QED  BY <2>1, HeadTailProperties
  <2> QED  BY <2>2 DEF Worker
<1>2. CASE HandleConnect(evt)
  <2>1. evt.type = "CONNECT" /\ OnConnect(evt.from)
    BY <1>2 DEF HandleConnect
  <2>2. PICK s \in Stations : evt = Connect(s)
    BY <1>1, <2>1, Kinds DEF Event
  <2>3. evt.from = s
    BY <2>2, Kinds
  <2>4. OnConnect(s)
    BY <2>1, <2>3
  <2> QED  BY <2>4 DEF Next
<1>3. CASE HandleDisconnect(evt)
  BY <1>3 DEF HandleDisconnect, Next
<1>4. CASE HandleData(evt)
  BY <1>4 DEF HandleData, Next
<1> QED  BY <1>1, <1>2, <1>3, <1>4

\* A line of a station whose CONNECT was queued is handled in its session,
\* for every length of the queue and whatever events were dropped before it.
THEOREM LinesOfTheirSender == AppSpec => []HandledAsSender
<1>1. AppInit => AppInv
  BY AppInvFirst
<1>2. AppInv /\ [AppNext]_appvars => AppInv'
  BY AppInvNext
<1>3. AppInv => HandledAsSender
  BY DEF AppInv
<1> QED  BY <1>1, <1>2, <1>3, PTL DEF AppSpec

\* Behind the queue the session does what module BbsSession lets it do, and
\* nothing else: what is proved of a session whose stations connect, write and
\* go in any order is so of that which the worker task runs.
THEOREM SessionBehindQueue == AppSpec => Spec
<1>1. AppInit => Init /\ AppInv
  BY AppInvFirst DEF AppInit
<1>2. AppInv /\ [AppNext]_appvars => AppInv'
  BY AppInvNext
<1>3. AppInv /\ [AppNext]_appvars => [Next]_vars
  <2> SUFFICES ASSUME AppInv, [AppNext]_appvars PROVE [Next]_vars
    OBVIOUS
  <2>1. CASE Worker
    BY <2>1, WorkerSteps
  <2>2. CASE AppTick
    BY <2>2 DEF AppTick, Next
  <2>3. CASE \/ \E s \in Stations : ConnOnConnect(s)
             \/ ConnOnDisconnect \/ ConnOnData
    BY <2>3 DEF ConnOnConnect, ConnOnDisconnect, ConnOnData, vars
  <2>4. CASE UNCHANGED appvars
    BY <2>4 DEF appvars
  <2> QED  BY <2>1, <2>2, <2>3, <2>4 DEF AppNext
<1> QED  BY <1>1, <1>2, <1>3, PTL DEF AppSpec, Spec
=============================================================================
