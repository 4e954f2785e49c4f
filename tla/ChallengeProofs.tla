-------------------------- MODULE ChallengeProofs ---------------------------
(***************************************************************************)
(* Proof that taking characters of an answer one by one decides whether it *)
(* has all that are asked for, for any number and any repetition of them,  *)
(* and that the script's answers therefore are right.                      *)
(***************************************************************************)
EXTENDS Challenge, FiniteSetTheorems, SequenceTheorems, WellFoundedInduction, TLAPS

\* The places of a set that hold a character.
Places(seq, ch, S) == {j \in S : seq[j] = ch}

\* What one character takes of an answer, besides what is taken.
Left(answer, required, i, used) ==
  {j \in 1 .. ResponseLen : j \notin used /\ answer[j] = required[i]}

Takes(answer, required, i, used) ==
  IF 0 \in used \/ Left(answer, required, i, used) = {} THEN {0}
  ELSE used \cup {CHOOSE j \in Left(answer, required, i, used) :
                    \A k \in Left(answer, required, i, used) : j <= k}

\* The recursive function of Verify.
Matches(f, answer, required, n) ==
  f = [i \in 0 .. n |-> IF i = 0 THEN {} ELSE Takes(answer, required, i, f[i - 1])]

\* What the first i characters have taken: as many places of each kind as were
\* asked for; or some kind has fewer in the whole answer than are asked for.
Counted(used, answer, required, i) ==
  \/ /\ 0 \in used
     /\ \E ch \in Letters : Cardinality(Places(answer, ch, 1 .. ResponseLen))
                              < Cardinality(Places(required, ch, 1 .. IndexCount))
  \/ /\ used \subseteq 1 .. ResponseLen
     /\ \A ch \in Letters : Cardinality(Places(answer, ch, used))
                              = Cardinality(Places(required, ch, 1 .. i))

\* Of a challenge, an answer to it and the verdict, in one state.
Settled ==
  /\ secret \in Seq(Letters)
  /\ challenge # <<>> => challenge \in Challenges(Len(secret))
  /\ response # <<>> =>
       /\ challenge # <<>>
       /\ \E n \in Nat : response \in [1 .. n -> Letters \cup {OtherChar}]
       /\ accepted = Verify(secret, challenge, response)
       /\ scripted => response = BuildResponse(secret, challenge)
-----------------------------------------------------------------------------
\* What holds of 0, and of n + 1 if of n, holds of all natural numbers: there is
\* no least counterexample.
LEMMA Induction ==
  ASSUME NEW S \in SUBSET Nat, 0 \in S, \A n \in S : n + 1 \in S
  PROVE  S = Nat
<1> SUFFICES ASSUME NEW n \in Nat \ S PROVE FALSE
  OBVIOUS
<1>1. PICK x \in Nat \ S : \A y \in Nat \ S : <<y, x>> \notin OpToRel(<, Nat)
  BY NatLessThanWellFounded, WFMin
<1>2. x # 0 /\ x - 1 \in Nat /\ x - 1 < x /\ x - 1 + 1 = x
  OBVIOUS
<1>3. x - 1 \notin Nat \ S
  BY <1>1, <1>2 DEF OpToRel
<1> QED  BY <1>2, <1>3

\* Each value of the recursive function by the one before.
LEMMA MatchesAt ==
  ASSUME NEW f, NEW answer, NEW required, NEW n, Matches(f, answer, required, n),
         NEW i \in 0 .. n
  PROVE  f[i] = IF i = 0 THEN {} ELSE Takes(answer, required, i, f[i - 1])
<1> DEFINE F == [k \in 0 .. n |-> IF k = 0 THEN {} ELSE Takes(answer, required, k, f[k - 1])]
<1>1. F[i] = IF i = 0 THEN {} ELSE Takes(answer, required, i, f[i - 1])
  OBVIOUS
<1>2. f = F
  BY DEF Matches
<1> HIDE DEF F
<1>3. f[i] = F[i]
  BY <1>2
<1> QED  BY <1>1, <1>3

\* There is such a function: one for n extends by one place.
LEMMA MatchesExists ==
  ASSUME NEW answer, NEW required, NEW n \in Nat
  PROVE  \E f : Matches(f, answer, required, n)
<1> DEFINE U == {k \in Nat : \E f : Matches(f, answer, required, k)}
<1>1. 0 \in U
  <2>1. PICK f : f = [i \in 0 .. 0 |-> {}]
    OBVIOUS
  <2>2. f = [i \in 0 .. 0 |-> IF i = 0 THEN {} ELSE Takes(answer, required, i, f[i - 1])]
    BY <2>1
  <2>3. Matches(f, answer, required, 0)
    BY <2>2 DEF Matches
  <2> QED  BY <2>3
<1>2. \A k \in U : k + 1 \in U
  <2> SUFFICES ASSUME NEW k \in Nat, NEW f, Matches(f, answer, required, k)
               PROVE  \E g : Matches(g, answer, required, k + 1)
    OBVIOUS
  <2>1. PICK e : e = Takes(answer, required, k + 1, f[k])
    OBVIOUS
  <2>2. PICK g : g = [i \in 0 .. k + 1 |-> IF i = k + 1 THEN e ELSE f[i]]
    OBVIOUS
  <2>3. ASSUME NEW i \in 0 .. k + 1
        PROVE  g[i] = IF i = 0 THEN {} ELSE Takes(answer, required, i, g[i - 1])
    <3>1. CASE i = k + 1
      <4>1. k \in 0 .. k + 1 /\ k # k + 1 /\ k + 1 - 1 = k /\ i # 0
        BY <3>1
      <4> QED  BY <2>1, <2>2, <3>1, <4>1
    <3>2. CASE i # k + 1
      <4>1. i \in 0 .. k /\ g[i] = f[i]
        BY <2>2, <3>2
      <4>2. f[i] = IF i = 0 THEN {} ELSE Takes(answer, required, i, f[i - 1])
        BY <4>1, MatchesAt
      <4>3. CASE i = 0
        BY <4>1, <4>2, <4>3
      <4>4. CASE i # 0
        <5>1. i - 1 \in 0 .. k + 1 /\ i - 1 # k + 1
          BY <4>1, <4>4
        <5>2. g[i - 1] = f[i - 1]
          BY <2>2, <5>1
        <5> QED  BY <4>1, <4>2, <5>2
      <4> QED  BY <4>3, <4>4
    <3> QED  BY <3>1, <3>2
  <2>4. g = [i \in 0 .. k + 1 |-> IF i = 0 THEN {} ELSE Takes(answer, required, i, g[i - 1])]
    <3>1. g = [i \in 0 .. k + 1 |-> g[i]]
      BY <2>2
    <3> QED  BY <2>3, <3>1
  <2> QED  BY <2>4 DEF Matches
<1>3. U = Nat
  <2> HIDE DEF U
  <2>1. U \in SUBSET Nat
    BY DEF U
  <2> QED  BY <1>1, <1>2, <2>1, Induction
<1> QED  BY <1>3
-----------------------------------------------------------------------------
\* Places of a finite set are finitely many, and of fewer places there are no
\* more, and if not all then fewer.
LEMMA PlacesWithin ==
  ASSUME NEW seq, NEW ch, NEW S, NEW T, IsFiniteSet(T), S \subseteq T
  PROVE  /\ IsFiniteSet(Places(seq, ch, S)) /\ IsFiniteSet(Places(seq, ch, T))
         /\ Cardinality(Places(seq, ch, S)) \in Nat
         /\ Cardinality(Places(seq, ch, T)) \in Nat
         /\ Cardinality(Places(seq, ch, S)) <= Cardinality(Places(seq, ch, T))
<1>1. /\ Places(seq, ch, S) \in SUBSET Places(seq, ch, T)
      /\ Places(seq, ch, T) \in SUBSET T
  BY DEF Places
<1>2. IsFiniteSet(Places(seq, ch, T))
  BY <1>1, FS_Subset
<1>3. /\ IsFiniteSet(Places(seq, ch, S))
      /\ Cardinality(Places(seq, ch, S)) <= Cardinality(Places(seq, ch, T))
  BY <1>1, <1>2, FS_Subset
<1>4. Cardinality(Places(seq, ch, S)) \in Nat /\ Cardinality(Places(seq, ch, T)) \in Nat
  BY <1>2, <1>3, FS_CardinalityType
<1> QED  BY <1>2, <1>3, <1>4

\* One place more counts for the character in it.
LEMMA OnePlaceMore ==
  ASSUME NEW seq, NEW ch, NEW S, IsFiniteSet(S), NEW x, x \notin S
  PROVE  Cardinality(Places(seq, ch, S \cup {x}))
           = Cardinality(Places(seq, ch, S)) + IF seq[x] = ch THEN 1 ELSE 0
<1>1. IsFiniteSet(Places(seq, ch, S)) /\ Cardinality(Places(seq, ch, S)) \in Nat
  BY PlacesWithin
<1>2. x \notin Places(seq, ch, S)
  BY DEF Places
<1>3. CASE seq[x] = ch
  <2>1. Places(seq, ch, S \cup {x}) = Places(seq, ch, S) \cup {x}
    BY <1>3 DEF Places
  <2> QED  BY <1>1, <1>2, <1>3, <2>1, FS_AddElement
<1>4. CASE seq[x] # ch
  <2>1. Places(seq, ch, S \cup {x}) = Places(seq, ch, S)
    BY <1>4 DEF Places
  <2> QED  BY <1>1, <1>4, <2>1
<1> QED  BY <1>3, <1>4

\* So it does among the first characters asked for.
LEMMA OneAskedMore ==
  ASSUME NEW required, NEW ch, NEW i \in Nat
  PROVE  Cardinality(Places(required, ch, 1 .. i + 1))
           = Cardinality(Places(required, ch, 1 .. i)) + IF required[i + 1] = ch THEN 1 ELSE 0
<1>1. PICK S, x : S = 1 .. i /\ x = i + 1
  OBVIOUS
<1>2. IsFiniteSet(S) /\ x \notin S /\ 1 .. i + 1 = S \cup {x}
  <2>1. 1 \in Int /\ i \in Int /\ i + 1 \notin 1 .. i /\ 1 .. i + 1 = (1 .. i) \cup {i + 1}
    OBVIOUS
  <2>2. IsFiniteSet(1 .. i)
    BY <2>1, FS_Interval
  <2> QED  BY <1>1, <2>1, <2>2
<1>3. Cardinality(Places(required, ch, S \cup {x}))
        = Cardinality(Places(required, ch, S)) + IF required[x] = ch THEN 1 ELSE 0
  BY <1>2, OnePlaceMore
<1> QED  BY <1>1, <1>2, <1>3

\* A set of numbers that is not empty has a least one.
LEMMA Least ==
  ASSUME NEW S \in SUBSET Nat, S # {}
  PROVE  \E j \in S : \A k \in S : j <= k
<1>1. PICK x \in S : \A y \in S : <<y, x>> \notin OpToRel(<, Nat)
  BY NatLessThanWellFounded, WFMin
<1>2. \A y \in S : ~(y < x)
  BY <1>1 DEF OpToRel
<1>3. \A y \in S : x <= y
  BY <1>2
<1> QED  BY <1>3

\* What one more character takes.
LEMMA CountedNext ==
  ASSUME NEW used, NEW answer, NEW required \in [1 .. IndexCount -> Letters],
         NEW i \in Nat, i < IndexCount, Counted(used, answer, required, i)
  PROVE  Counted(Takes(answer, required, i + 1, used), answer, required, i + 1)
<1> DEFINE left == Left(answer, required, i + 1, used)
           ch == required[i + 1]
<1>0. /\ IndexCount \in Nat /\ ResponseLen \in Nat /\ i + 1 \in 1 .. IndexCount /\ ch \in Letters
      /\ IsFiniteSet(1 .. ResponseLen) /\ IsFiniteSet(1 .. IndexCount)
      /\ 1 .. i \subseteq 1 .. IndexCount /\ 1 .. i + 1 \subseteq 1 .. IndexCount
  <2>1. IndexCount \in Nat /\ ResponseLen \in Nat
    BY ChallengeAssumption
  <2>2. i + 1 \in 1 .. IndexCount
    BY <2>1
  <2>3. IsFiniteSet(1 .. ResponseLen) /\ IsFiniteSet(1 .. IndexCount)
    BY <2>1, FS_Interval
  <2>4. 1 .. i \subseteq 1 .. IndexCount /\ 1 .. i + 1 \subseteq 1 .. IndexCount
    BY <2>1
  <2> QED  BY <2>1, <2>2, <2>3, <2>4
<1>1. CASE 0 \in used
  <2>1. Takes(answer, required, i + 1, used) = {0}
    BY <1>1 DEF Takes
  <2>2. ~(used \subseteq 1 .. ResponseLen)
    BY <1>1
  <2> QED  BY <2>1, <2>2 DEF Counted
<1>2. CASE 0 \notin used
  <2>1. /\ used \subseteq 1 .. ResponseLen /\ IsFiniteSet(used)
        /\ \A c \in Letters : Cardinality(Places(answer, c, used))
                                = Cardinality(Places(required, c, 1 .. i))
    BY <1>0, <1>2, FS_Subset DEF Counted
  <2>2. CASE left = {}
    <3>1. Takes(answer, required, i + 1, used) = {0}
      BY <2>2 DEF Takes
    <3>2. Places(answer, ch, 1 .. ResponseLen) = Places(answer, ch, used)
      BY <2>1, <2>2 DEF Left, Places
    <3>3. Cardinality(Places(answer, ch, 1 .. ResponseLen))
            = Cardinality(Places(required, ch, 1 .. i))
      BY <1>0, <2>1, <3>2
    <3>4. Cardinality(Places(required, ch, 1 .. i + 1))
            = Cardinality(Places(required, ch, 1 .. i)) + 1
      BY <1>0, OneAskedMore
    <3>5. Cardinality(Places(required, ch, 1 .. i + 1))
            <= Cardinality(Places(required, ch, 1 .. IndexCount))
      BY <1>0, PlacesWithin
    <3>6. /\ Cardinality(Places(required, ch, 1 .. i)) \in Nat
          /\ Cardinality(Places(required, ch, 1 .. IndexCount)) \in Nat
      BY <1>0, PlacesWithin
    <3>7. Cardinality(Places(answer, ch, 1 .. ResponseLen))
            < Cardinality(Places(required, ch, 1 .. IndexCount))
      <4> HIDE DEF ch
      <4> QED  BY <3>3, <3>4, <3>5, <3>6
    <3> QED  BY <1>0, <3>1, <3>7 DEF Counted
  <2>3. CASE left # {}
    <3>1. left \in SUBSET Nat
      BY <1>0 DEF Left
    <3>2. PICK j : j = CHOOSE k \in left : \A l \in left : k <= l
      OBVIOUS
    <3>3. j \in left
      <4> HIDE DEF left
      <4>1. \E k \in left : \A l \in left : k <= l
        BY <2>3, <3>1, Least
      <4> QED  BY <3>2, <4>1
    <3>4. Takes(answer, required, i + 1, used) = used \cup {j}
      BY <1>2, <2>3, <3>2 DEF Takes
    <3>5. j \in 1 .. ResponseLen /\ j \notin used /\ answer[j] = ch
      BY <3>3 DEF Left
    <3>6. ASSUME NEW c \in Letters
          PROVE  Cardinality(Places(answer, c, used \cup {j}))
                   = Cardinality(Places(required, c, 1 .. i + 1))
      <4> HIDE DEF ch
      <4>1. Cardinality(Places(required, c, 1 .. i + 1))
              = Cardinality(Places(required, c, 1 .. i)) + IF ch = c THEN 1 ELSE 0
        BY OneAskedMore DEF ch
      <4>2. Cardinality(Places(answer, c, used \cup {j}))
              = Cardinality(Places(answer, c, used)) + IF answer[j] = c THEN 1 ELSE 0
        BY <2>1, <3>5, OnePlaceMore
      <4>3. Cardinality(Places(answer, c, used)) = Cardinality(Places(required, c, 1 .. i))
        BY <2>1
      <4> QED  BY <3>5, <4>1, <4>2, <4>3
    <3>7. used \cup {j} \subseteq 1 .. ResponseLen
      BY <2>1, <3>5
    <3> QED  BY <3>4, <3>6, <3>7 DEF Counted
  <2> QED  BY <2>2, <2>3
<1> QED  BY <1>1, <1>2

\* What all of them take, by induction on how many there are.
LEMMA CountedAll ==
  ASSUME NEW answer, NEW required \in [1 .. IndexCount -> Letters], NEW f,
         Matches(f, answer, required, IndexCount)
  PROVE  Counted(f[IndexCount], answer, required, IndexCount)
<1> DEFINE U == {k \in Nat : k <= IndexCount => Counted(f[k], answer, required, k)}
<1>0. IndexCount \in Nat
  BY ChallengeAssumption
<1>1. 0 \in U
  <2>1. f[0] = {}
    BY <1>0, MatchesAt
  <2>2. ASSUME NEW ch \in Letters
        PROVE  Cardinality(Places(answer, ch, {})) = Cardinality(Places(required, ch, 1 .. 0))
    <3>1. Places(answer, ch, {}) = {} /\ Places(required, ch, 1 .. 0) = {}
      BY DEF Places
    <3> QED  BY <3>1
  <2>3. Counted(f[0], answer, required, 0)
    BY <2>1, <2>2 DEF Counted
  <2> QED  BY <2>3
<1>2. \A k \in U : k + 1 \in U
  <2> SUFFICES ASSUME NEW k \in Nat, k \in U, k + 1 <= IndexCount
               PROVE  Counted(f[k + 1], answer, required, k + 1)
    OBVIOUS
  <2>1. Counted(f[k], answer, required, k) /\ k < IndexCount
    BY <1>0
  <2>2. Counted(Takes(answer, required, k + 1, f[k]), answer, required, k + 1)
    BY <2>1, CountedNext
  <2>3. f[k + 1] = Takes(answer, required, k + 1, f[k])
    <3>1. PICK m \in 0 .. IndexCount : m = k + 1
      BY <1>0
    <3>2. f[m] = IF m = 0 THEN {} ELSE Takes(answer, required, m, f[m - 1])
      BY MatchesAt
    <3>3. m # 0 /\ m - 1 = k
      BY <3>1
    <3> QED  BY <3>1, <3>2, <3>3
  <2> QED  BY <2>2, <2>3
<1>3. U = Nat
  <2> HIDE DEF U
  <2>1. U \in SUBSET Nat
    BY DEF U
  <2> QED  BY <1>1, <1>2, <2>1, Induction
<1> QED  BY <1>0, <1>3

\* What a challenge asks for are characters of the secret.
LEMMA Asked ==
  ASSUME NEW key \in Seq(Letters), NEW c \in Challenges(Len(key))
  PROVE  Required(key, c) \in [1 .. IndexCount -> Letters]
<1>1. c \in [1 .. IndexCount -> 1 .. Len(key)]
  BY DEF Challenges
<1>2. \A k \in 1 .. Len(key) : key[k] \in Letters
  BY ElementOfSeq
<1> QED  BY <1>1, <1>2 DEF Required

\* Taking places one by one finds all characters if and only if there are
\* enough of each.
LEMMA VerifyCounts ==
  ASSUME NEW key \in Seq(Letters), NEW c \in Challenges(Len(key)),
         NEW n \in Nat, NEW Chars, NEW answer \in [1 .. n -> Chars]
  PROVE  Verify(key, c, answer) <=>
           /\ Len(answer) = ResponseLen
           /\ \A ch \in Letters : Count(ch, answer) >= Count(ch, Required(key, c))
<1> DEFINE required == Required(key, c)
           used == CHOOSE Used : Used = [i \in 0 .. IndexCount |->
             IF i = 0 THEN {} ELSE Takes(answer, required, i, Used[i - 1])]
<1>1. Matches(used, answer, required, IndexCount)
  <2>1. \E f : Matches(f, answer, required, IndexCount)
    BY ChallengeAssumption, MatchesExists
  <2> QED  BY <2>1 DEF Matches
<1>2. Verify(key, c, answer) <=> Len(answer) = ResponseLen /\ 0 \notin used[IndexCount]
  BY DEF Verify, Takes, Left
<1>3. Counted(used[IndexCount], answer, required, IndexCount)
  <2> HIDE DEF used
  <2> QED  BY <1>1, Asked, CountedAll
<1> HIDE DEF used
<1>4. required \in [1 .. IndexCount -> Letters]
  BY Asked
<1>5. Len(answer) = n /\ DOMAIN answer = 1 .. n
  OBVIOUS
<1>6. ASSUME n = ResponseLen, NEW ch
      PROVE  /\ Count(ch, answer) = Cardinality(Places(answer, ch, 1 .. ResponseLen))
             /\ Count(ch, required) = Cardinality(Places(required, ch, 1 .. IndexCount))
  BY <1>4, <1>5, <1>6 DEF Count, Places
<1> HIDE DEF required
<1>7. /\ IsFiniteSet(1 .. ResponseLen) /\ IsFiniteSet(1 .. IndexCount)
      /\ ~(0 \in 1 .. ResponseLen)
  BY FS_Interval, ChallengeAssumption
<1>8. CASE n = ResponseLen
  <2>1. CASE 0 \in used[IndexCount]
    <3>1. PICK ch \in Letters : Cardinality(Places(answer, ch, 1 .. ResponseLen))
                                  < Cardinality(Places(required, ch, 1 .. IndexCount))
      BY <1>3, <1>7, <2>1 DEF Counted
    <3>2. /\ Cardinality(Places(answer, ch, 1 .. ResponseLen)) \in Nat
          /\ Cardinality(Places(required, ch, 1 .. IndexCount)) \in Nat
      BY <1>7, PlacesWithin
    <3>3. ~(Count(ch, answer) >= Count(ch, required))
      BY <1>6, <1>8, <3>1, <3>2
    <3> QED  BY <1>2, <2>1, <3>3 DEF required
  <2>2. CASE 0 \notin used[IndexCount]
    <3>1. /\ used[IndexCount] \subseteq 1 .. ResponseLen
          /\ \A ch \in Letters : Cardinality(Places(answer, ch, used[IndexCount]))
                                   = Cardinality(Places(required, ch, 1 .. IndexCount))
      BY <1>3, <2>2 DEF Counted
    <3>2. ASSUME NEW ch \in Letters PROVE Count(ch, answer) >= Count(ch, required)
      <4>1. PICK u : u = used[IndexCount]
        OBVIOUS
      <4>2. /\ Cardinality(Places(answer, ch, u)) \in Nat
            /\ Cardinality(Places(answer, ch, 1 .. ResponseLen)) \in Nat
            /\ Cardinality(Places(answer, ch, u))
                 <= Cardinality(Places(answer, ch, 1 .. ResponseLen))
        BY <1>7, <3>1, <4>1, PlacesWithin
      <4> QED  BY <1>6, <1>8, <3>1, <4>1, <4>2
    <3> QED  BY <1>2, <1>5, <1>8, <2>2, <3>2 DEF required
  <2> QED  BY <2>1, <2>2
<1>9. CASE n # ResponseLen
  BY <1>2, <1>5, <1>9
<1> QED  BY <1>8, <1>9

\* The script writes the characters asked for, so an answer of it has each of
\* them where the challenge has it, and no fewer in all.
LEMMA ScriptCounts ==
  ASSUME NEW key \in Seq(Letters), NEW c \in Challenges(Len(key))
  PROVE  /\ BuildResponse(key, c) \in [1 .. ResponseLen -> Letters]
         /\ Verify(key, c, BuildResponse(key, c))
<1> DEFINE required == Required(key, c)
           answer == BuildResponse(key, c)
<1>0. IndexCount \in Nat \ {0} /\ ResponseLen \in Nat /\ IndexCount <= ResponseLen
  BY ChallengeAssumption
<1>1. required \in [1 .. IndexCount -> Letters]
  BY Asked
<1>2. answer = [i \in 1 .. ResponseLen |-> required[((i - 1) % IndexCount) + 1]]
  BY DEF BuildResponse
<1>3. ASSUME NEW i \in 1 .. ResponseLen
      PROVE  /\ ((i - 1) % IndexCount) + 1 \in 1 .. IndexCount
             /\ i <= IndexCount => ((i - 1) % IndexCount) + 1 = i
  <2>1. PICK m \in Nat : m = i - 1
    BY <1>0
  <2>2. m % IndexCount \in 0 .. IndexCount - 1
    BY <1>0
  <2>3. m < IndexCount => m % IndexCount = m
    BY <1>0
  <2> QED  BY <1>0, <2>1, <2>2, <2>3
<1> HIDE DEF required, answer
<1>4. answer \in [1 .. ResponseLen -> Letters]
  <2>1. \A i \in 1 .. ResponseLen : required[((i - 1) % IndexCount) + 1] \in Letters
    BY <1>1, <1>3
  <2> QED  BY <1>2, <2>1
<1>5. \A i \in 1 .. IndexCount : i \in 1 .. ResponseLen /\ answer[i] = required[i]
  BY <1>0, <1>2, <1>3
<1>6. Len(answer) = ResponseLen /\ DOMAIN answer = 1 .. ResponseLen
  BY <1>0, <1>4
<1>7. ASSUME NEW ch \in Letters PROVE Count(ch, answer) >= Count(ch, required)
  <2>1. Count(ch, required) = Cardinality(Places(answer, ch, 1 .. IndexCount))
    <3>1. {i \in DOMAIN required : required[i] = ch} = Places(answer, ch, 1 .. IndexCount)
      BY <1>1, <1>5 DEF Places
    <3> QED  BY <3>1 DEF Count
  <2>2. Count(ch, answer) = Cardinality(Places(answer, ch, 1 .. ResponseLen))
    BY <1>6 DEF Count, Places
  <2>3. IsFiniteSet(1 .. ResponseLen) /\ 1 .. IndexCount \subseteq 1 .. ResponseLen
    BY <1>0, FS_Interval
  <2> QED  BY <2>1, <2>2, <2>3, PlacesWithin
<1>8. Verify(key, c, answer)
  <2>1. \A ch \in Letters : Count(ch, answer) >= Count(ch, Required(key, c))
    BY <1>7 DEF required
  <2> QED  BY <1>0, <1>4, <1>6, <2>1, VerifyCounts
<1> QED  BY <1>4, <1>8 DEF answer
-----------------------------------------------------------------------------
\* A secret that is in effect is a sequence of letters, and nothing is asked yet.
LEMMA SettledFirst == Init => Settled
<1> SUFFICES ASSUME Init PROVE Settled
  OBVIOUS
<1>0. PICK len \in 0 .. SecretMax :
        \E configured \in [1 .. len -> Letters] : secret = EffectiveSecret(configured)
  BY DEF Init
<1>1. PICK configured \in [1 .. len -> Letters] : secret = EffectiveSecret(configured)
  BY <1>0
<1>2. configured \in Seq(Letters) /\ <<>> \in Seq(Letters)
  <2>1. len \in Nat
    BY ChallengeAssumption
  <2> QED  BY <2>1, EmptySeq, SeqDef
<1>3. secret \in Seq(Letters)
  BY <1>1, <1>2 DEF EffectiveSecret
<1> QED  BY <1>3 DEF Init, Settled

\* A verdict is about the answer and the challenge that are there, by Verify.
LEMMA SettledNext == Settled /\ [Next]_vars => Settled'
<1> SUFFICES ASSUME Settled, [Next]_vars PROVE Settled'
  OBVIOUS
<1>1. secret' = secret /\ secret \in Seq(Letters)
  BY DEF Settled, Next, Issue, Answer, vars
<1>2. CASE Issue
  BY <1>1, <1>2 DEF Settled, Issue
<1>3. ASSUME NEW r \in Answers, Answer(r), scripted' = FALSE PROVE Settled'
  <2>1. PICK n \in Nat : r \in [1 .. n -> Letters \cup {OtherChar}]
    <3>1. PICK n \in {ResponseLen - 1, ResponseLen} : r \in [1 .. n -> Letters \cup {OtherChar}]
      BY DEF Answers
    <3>2. n \in Nat
      BY ChallengeAssumption
    <3> QED  BY <3>1, <3>2
  <2>2. /\ challenge # <<>> /\ response' = r /\ challenge' = challenge
        /\ accepted' = Verify(secret, challenge, r)
    BY <1>3 DEF Answer
  <2> QED  BY <1>1, <1>3, <2>1, <2>2 DEF Settled
<1>4. ASSUME Answer(BuildResponse(secret, challenge)), scripted' = TRUE PROVE Settled'
  <2>1. /\ challenge # <<>> /\ response' = BuildResponse(secret, challenge)
        /\ challenge' = challenge
        /\ accepted' = Verify(secret, challenge, BuildResponse(secret, challenge))
    BY <1>4 DEF Answer
  <2>2. challenge \in Challenges(Len(secret))
    BY <2>1 DEF Settled
  <2>3. BuildResponse(secret, challenge) \in [1 .. ResponseLen -> Letters]
    BY <1>1, <2>2, ScriptCounts
  <2>4. PICK n \in Nat : n = ResponseLen
    BY ChallengeAssumption
  <2>5. BuildResponse(secret, challenge) \in [1 .. n -> Letters \cup {OtherChar}]
    BY <2>3, <2>4
  <2> QED  BY <1>1, <1>4, <2>1, <2>2, <2>5 DEF Settled
<1>5. CASE UNCHANGED vars
  BY <1>5 DEF vars, Settled
<1> QED  BY <1>2, <1>3, <1>4, <1>5 DEF Next

\* A verdict is right about every answer to every challenge, and the script's
\* answers are accepted, for secrets of any alphabet and length and for any
\* number of characters asked for.
THEOREM VerdictsAreRight == Spec => []RightAnswers
<1>1. Settled => RightAnswers
  <2> SUFFICES ASSUME Settled, response # <<>> PROVE RightAnswers
    BY DEF RightAnswers
  <2>1. /\ secret \in Seq(Letters) /\ challenge \in Challenges(Len(secret))
        /\ \E n \in Nat : response \in [1 .. n -> Letters \cup {OtherChar}]
        /\ accepted = Verify(secret, challenge, response)
        /\ scripted => response = BuildResponse(secret, challenge)
    BY DEF Settled
  <2>2. accepted <=> /\ Len(response) = ResponseLen
                     /\ \A ch \in Letters :
                          Count(ch, response) >= Count(ch, Required(secret, challenge))
    <3>1. PICK n \in Nat : response \in [1 .. n -> Letters \cup {OtherChar}]
      BY <2>1
    <3>2. Verify(secret, challenge, response) <=>
            /\ Len(response) = ResponseLen
            /\ \A ch \in Letters :
                 Count(ch, response) >= Count(ch, Required(secret, challenge))
      <4> DEFINE Chars == Letters \cup {OtherChar}
      <4> HIDE DEF Chars
      <4>1. response \in [1 .. n -> Chars]
        BY <3>1 DEF Chars
      <4> QED  BY <2>1, <4>1, VerifyCounts
    <3> QED  BY <2>1, <3>2, Zenon
  <2>3. scripted => accepted
    <3>1. Verify(secret, challenge, BuildResponse(secret, challenge))
      BY <2>1, ScriptCounts
    <3> QED  BY <2>1, <3>1
  <2> QED  BY <2>2, <2>3 DEF RightAnswers
<1> QED  BY <1>1, SettledFirst, SettledNext, PTL DEF Spec
=============================================================================
