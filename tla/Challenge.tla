----------------------------- MODULE Challenge ------------------------------
(***************************************************************************)
(* What a SYSOP challenge asks for and which answers are right: the part   *)
(* of src/main/sysop_auth.c that depends on the secret, with the script    *)
(* src/tools/sysop_challenge_response.py that makes answers.  A            *)
(* challenge is a sequence of positions in the secret; an answer has more  *)
(* characters than that, and has to contain those at the positions.  What  *)
(* answers lead to is module BbsSession's, where they are right or wrong.  *)
(***************************************************************************)
EXTENDS SequencesExt, Naturals, FiniteSets

CONSTANTS
  IndexCount,   \* BBS_SYSOP_CHALLENGE_INDEX_COUNT
  ResponseLen,  \* BBS_SYSOP_RESPONSE_LEN
  SecretMin, SecretMax,  \* secret_min_len, secret_max_len
  Letters,      \* characters of secrets
  OtherChar     \* and one that is not in them

ASSUME ChallengeAssumption ==
  /\ IndexCount \in Nat \ {0} /\ ResponseLen \in Nat /\ IndexCount <= ResponseLen
  /\ SecretMin \in Nat /\ SecretMax \in Nat
  /\ OtherChar \notin Letters

\* sysop_secret_is_valid(), and bbs_sysop_secret_is_valid() in main.c: no
\* secret, or one of a length between the limits.
ValidSecret(secret) ==
  /\ secret = <<>> \/ Len(secret) \in SecretMin .. SecretMax
  /\ ToSet(secret) \subseteq Letters

\* app_main(): an invalid secret counts as none.
EffectiveSecret(configured) == IF ValidSecret(configured) THEN configured ELSE <<>>

\* sysop_generate_challenge_indices(): positions drawn until they differ from
\* those before; there is no challenge to a secret that is too short.
Challenges(len) ==
  IF len < IndexCount THEN {}
  ELSE {c \in [1 .. IndexCount -> 1 .. len] : IsInjective(c)}

Required(secret, challenge) == [i \in 1 .. IndexCount |-> secret[challenge[i]]]

\* Mutant: a character of the answer may serve more than once.
VerifyShared(secret, challenge, response) ==
  LET required == Required(secret, challenge)
  IN  /\ Len(response) = ResponseLen
      /\ \A i \in 1 .. IndexCount : required[i] \in ToSet(response)

\* sysop_verify_response(): each character takes the first place in the answer
\* that is not used; Used[i] is what the first i have taken, or {0} if one of
\* them found none.
Verify(secret, challenge, response) ==
  LET required == Required(secret, challenge)
      Left(i, used) == {j \in 1 .. ResponseLen : j \notin used /\ response[j] = required[i]}
      Used[i \in 0 .. IndexCount] ==
        IF i = 0 THEN {}
        ELSE LET used == Used[i - 1]
             IN  IF 0 \in used \/ Left(i, used) = {} THEN {0}
                 ELSE used \cup {CHOOSE j \in Left(i, used) : \A k \in Left(i, used) : j <= k}
  IN  Len(response) = ResponseLen /\ 0 \notin Used[IndexCount]

\* Mutant: filled up with the first characters of the secret.
BuildResponseOther(secret, challenge) ==
  [i \in 1 .. ResponseLen |->
     IF i < IndexCount THEN Required(secret, challenge)[i] ELSE secret[(i % Len(secret)) + 1]]

\* _build_response() of the script: the characters, and again from the first.
BuildResponse(secret, challenge) ==
  [i \in 1 .. ResponseLen |-> Required(secret, challenge)[((i - 1) % IndexCount) + 1]]
-----------------------------------------------------------------------------
(* The device with its secret, a challenge, and one answer to it. *)

VARIABLES
  secret,
  challenge,  \* <<>>: none
  response,   \* the last answer
  accepted,   \* the verdict about it
  scripted    \* history: it was the script's

vars == <<secret, challenge, response, accepted, scripted>>

\* sysop_issue_challenge()
Issue ==
  /\ challenge' \in Challenges(Len(secret))
  /\ response' = <<>> /\ accepted' = FALSE /\ scripted' = FALSE
  /\ UNCHANGED secret

\* sysop_auth_submit_response(): a challenge is used up by its first answer.  Of
\* attempts and deadlines see module SysopAuth.
Answer(r) ==
  /\ challenge # <<>> /\ response = <<>>
  /\ response' = r
  /\ accepted' = Verify(secret, challenge, r)
  /\ UNCHANGED <<secret, challenge>>

Answers == UNION {[1 .. n -> Letters \cup {OtherChar}] : n \in {ResponseLen - 1, ResponseLen}}

Init ==
  /\ \E len \in 0 .. SecretMax : \E configured \in [1 .. len -> Letters] :
       secret = EffectiveSecret(configured)
  /\ challenge = <<>> /\ response = <<>> /\ accepted = FALSE /\ scripted = FALSE

Next ==
  \/ Issue
  \/ \E r \in Answers : Answer(r) /\ scripted' = FALSE
  \/ Answer(BuildResponse(secret, challenge)) /\ scripted' = TRUE

Spec == Init /\ [][Next]_vars
-----------------------------------------------------------------------------
(* Properties. *)

Count(ch, seq) == Cardinality({i \in DOMAIN seq : seq[i] = ch})

\* An answer is right if and only if it is of the right length and has every
\* character asked for as often as it is asked for, in any order and among
\* any others (README.md:186); so that the script's is, for every challenge
\* that can be drawn from any secret that the device starts with.
RightAnswers ==
  response # <<>> =>
    /\ accepted <=> /\ Len(response) = ResponseLen
                    /\ \A ch \in Letters :
                         Count(ch, response) >= Count(ch, Required(secret, challenge))
    /\ scripted => accepted
=============================================================================
