------------------------------ MODULE SysopAuth ------------------------------
(***************************************************************************)
(* The challenge/response engine, src/main/sysop_auth.c, as operators on   *)
(* its state, a record.  The caller passes the clock: `now` is a 32-bit    *)
(* count of milliseconds, so the arithmetic on it is modulo Wrap.  Which   *)
(* characters a challenge asks for is left out: an answer is right or      *)
(* wrong.  So is the challenge id, of which only "there is one" matters.   *)
(***************************************************************************)
EXTENDS Integers

CONSTANTS
  ChallengeTimeout,  \* challenge_timeout_ms
  SessionTimeout,    \* session_timeout_ms
  LockoutTime,       \* lockout_ms
  MaxAttempts,       \* max_attempts
  Wrap               \* 2^32

ASSUME AuthAssumption ==
  /\ {ChallengeTimeout, SessionTimeout, LockoutTime} \subseteq 1 .. Wrap - 1
  /\ MaxAttempts \in Nat \ {0}
  /\ Wrap \in Nat

Clock == 0 .. Wrap - 1

AuthState ==
  [mode: {"IDLE", "AWAITING_RESPONSE", "AUTHENTICATED", "LOCKED_OUT"},
   challenge: BOOLEAN,        \* active_challenge_id # 0
   expires: Clock,            \* challenge_expires_ms
   failed: 0 .. MaxAttempts,  \* failed_attempts
   until: Clock,              \* lockout_until_ms
   last: Clock,               \* last_activity_ms
   config: BOOLEAN,           \* deferred_config_entry
   console: BOOLEAN]          \* deferred_console_entry

\* The engine after sysop_auth_configure() or sysop_auth_reset_session().
ResetSession ==
  [mode |-> "IDLE", challenge |-> FALSE, expires |-> 0, failed |-> 0,
   until |-> 0, last |-> 0, config |-> FALSE, console |-> FALSE]

Later(now, ms) == (now + ms) % Wrap

ClearChallenge(a) ==
  [a EXCEPT !.challenge = FALSE, !.expires = 0,
            !.mode = IF @ = "AWAITING_RESPONSE" THEN "IDLE" ELSE @]

\* sysop_auth_is_locked_out() ends a lockout that has run out.
CheckLockout(a, now) ==
  IF a.mode = "LOCKED_OUT" /\ now >= a.until
  THEN [a EXCEPT !.mode = "IDLE", !.failed = 0, !.until = 0]
  ELSE a

IsLockedOut(a, now) == CheckLockout(a, now).mode = "LOCKED_OUT"

BypassAuthenticate(a, now) ==
  [a EXCEPT !.failed = 0, !.mode = "AUTHENTICATED", !.last = now]

NoteActivity(a, now) ==
  IF a.mode = "AUTHENTICATED" THEN [a EXCEPT !.last = now] ELSE a

IsIdle(a, now) ==
  a.mode = "AUTHENTICATED" /\ (now - a.last) % Wrap > SessionTimeout

ExpireIfIdle(a, now) ==
  IF IsIdle(a, now) THEN [a EXCEPT !.mode = "IDLE", !.last = 0] ELSE a

\* Mutant: every challenge starts a new count of attempts.
IssueChallengeForgives(a, now) ==
  [a EXCEPT !.challenge = TRUE, !.expires = Later(now, ChallengeTimeout),
            !.mode = "AWAITING_RESPONSE", !.failed = 0]

\* Mutant: a new challenge gets what is left of the time of the last one.
IssueChallengeLate(a, now) ==
  [a EXCEPT !.challenge = TRUE, !.mode = "AWAITING_RESPONSE",
            !.expires = IF a.challenge THEN @ ELSE Later(now, ChallengeTimeout)]

IssueChallenge(a, now) ==
  [a EXCEPT !.challenge = TRUE, !.expires = Later(now, ChallengeTimeout),
            !.mode = "AWAITING_RESPONSE"]

\* Mutant: the time of the challenge is not checked.
VerdictWhenever(a, right, now) ==
  IF ~a.challenge \/ a.mode # "AWAITING_RESPONSE" THEN "NO_ACTIVE"
  ELSE IF right THEN "SUCCESS"
  ELSE IF a.failed + 1 >= MaxAttempts THEN "LOCKED_OUT" ELSE "FAILED"

\* What sysop_auth_submit_response() says of an answer, and what it does.
Verdict(a, right, now) ==
  IF ~a.challenge \/ a.mode # "AWAITING_RESPONSE" THEN "NO_ACTIVE"
  ELSE IF now > a.expires THEN "EXPIRED"
  ELSE IF right THEN "SUCCESS"
  ELSE IF a.failed + 1 >= MaxAttempts THEN "LOCKED_OUT" ELSE "FAILED"

Submitted(a, verdict, now) ==
  LET c == ClearChallenge(a)
  IN  CASE verdict = "NO_ACTIVE" -> a
        [] verdict = "EXPIRED" -> c
        [] verdict = "SUCCESS" -> BypassAuthenticate(c, now)
        [] verdict = "FAILED" -> [c EXCEPT !.failed = @ + 1]
        [] verdict = "LOCKED_OUT" ->
             [c EXCEPT !.failed = @ + 1, !.mode = "LOCKED_OUT",
                       !.until = Later(now, LockoutTime)]
=============================================================================
