-------------------------- MODULE Reputation_proofs --------------------------
(***************************************************************************)
(* Theorems about Reputation, for every set of wallets, responses and      *)
(* moderation requests, all points and any number of failures.             *)
(***************************************************************************)
EXTENDS Reputation, FiniteSetTheorems, TLAPS

-----------------------------------------------------------------------------
(***************************************************************************)
(* The score of a submission                                               *)
(***************************************************************************)

(* Every metric is worth 0, 0.5 or 1.                                      *)
LEMMA MetricsInRange ==
  ASSUME NEW s
  PROVE  /\ CompletionRate(s) \in 0..2 /\ ResponseDepth(s) \in 0..2
         /\ Consistency(s) \in 0..2 /\ WalletHistory(s) \in 0..2
<1>1. CompletionRate(s) \in 0..2
  BY DEF CompletionRate
<1>2. ResponseDepth(s) \in 0..2
  BY DEF ResponseDepth
<1>3. Consistency(s) \in 0..2
  BY DEF Consistency
<1>4. WalletHistory(s) \in 0..2
  BY DEF WalletHistory
<1>5. QED
  BY <1>1, <1>2, <1>3, <1>4

(* calculateSubmissionScore returns between 1 and 5 points, whatever it is *)
(* given: applyScore never applies a delta of 0, which it would log, nor   *)
(* one that fits no u16.                                                   *)
THEOREM ScoreInRange ==
  ASSUME NEW s
  PROVE  PointsOf(s) \in 10..50
<1>. DEFINE c == CompletionRate(s)  d == ResponseDepth(s)  k == Consistency(s)
            h == WalletHistory(s)
<1>1. c \in 0..2 /\ d \in 0..2 /\ k \in 0..2 /\ h \in 0..2
  BY MetricsInRange
<1>2. PointsOf(s) = 5 * (c + d + k + h + 2)
  BY DEF PointsOf, CreatorRating
<1>. HIDE DEF c, d, k, h
<1>3. QED
  BY <1>1, <1>2

(* Every response has points.                                              *)
LEMMA PointsInRange == Points \in [Responses -> 10..50]
  BY ScoreInRange DEF Points

(* What the proofs need of the parameters besides the submissions, whose   *)
(* scores are PointsInRange.                                               *)
LEMMA Parameters ==
  /\ Respondent \in [Responses -> Wallets]
  /\ Weighted \subseteq Responses /\ Established \subseteq Wallets
  /\ StartScore \in 0..MaxScore
  /\ ModerateEarly \in BOOLEAN
  /\ MaxModerations \in Nat /\ MaxFailures \in Nat
BY ConstantsAssumption, Zenon

(* Answering a question that was left empty, writing more words, an older  *)
(* wallet or a richer one, and taking more time up to a week, never cost   *)
(* points: the thresholds of the five metrics are in the right order.      *)
THEOREM BetterScoresNoLess ==
  ASSUME NEW s, NEW t, IsSubmission(s), IsSubmission(t),
         t.questions = s.questions,
         \A q \in DOMAIN s.questions :
            /\ s.answers[q].nonEmpty => t.answers[q].nonEmpty
            /\ s.answers[q].words <= t.answers[q].words,
         s.elapsed <= t.elapsed, t.elapsed <= 604800000,
         s.age <= t.age, s.balance <= t.balance
  PROVE  PointsOf(s) <= PointsOf(t)
<1>. DEFINE Ids == DOMAIN s.questions
<1>1. CompletionRate(s) <= CompletionRate(t)
  <2>. DEFINE required == {q \in Ids : s.questions[q].required}
              before   == {q \in required : s.answers[q].nonEmpty}
              after    == {q \in required : t.answers[q].nonEmpty}
  <2>1. before \subseteq after /\ after \subseteq required /\ required \subseteq Ids
    OBVIOUS
  <2>2. IsFiniteSet(Ids)
    BY DEF IsSubmission
  <2>3. IsFiniteSet(required) /\ IsFiniteSet(after) /\ IsFiniteSet(before)
    BY <2>1, <2>2, FS_Subset
  <2>4. /\ Cardinality(before) \in Nat /\ Cardinality(after) \in Nat /\ Cardinality(required) \in Nat
        /\ Cardinality(before) <= Cardinality(after)
    BY <2>1, <2>3, FS_Subset, FS_CardinalityType
  <2>5. /\ CompletionRate(s) = IF before = required THEN 2
                               ELSE IF 10 * Cardinality(before) >= 7 * Cardinality(required) THEN 1 ELSE 0
        /\ CompletionRate(t) = IF after = required THEN 2
                               ELSE IF 10 * Cardinality(after) >= 7 * Cardinality(required) THEN 1 ELSE 0
    BY DEF CompletionRate
  <2>6. before = required => after = required
    BY <2>1
  <2>. HIDE DEF required, before, after
  <2>7. QED
    BY <2>4, <2>5, <2>6
<1>2. ResponseDepth(s) <= ResponseDepth(t)
  <2>. DEFINE deep == {q \in Ids : s.questions[q].longText /\ s.questions[q].minWords > 0}
              before(num, den) == \A q \in deep : den * s.answers[q].words >= num * s.questions[q].minWords
              after(num, den)  == \A q \in deep : den * t.answers[q].words >= num * s.questions[q].minWords
  <2>1. \A q \in deep : /\ s.answers[q].words \in Nat /\ t.answers[q].words \in Nat
                        /\ s.questions[q].minWords \in Nat
                        /\ s.answers[q].words <= t.answers[q].words
    BY DEF IsSubmission, Question, Answer
  <2>2. before(1, 1) => after(1, 1)
    BY <2>1
  <2>3. /\ ResponseDepth(s) = IF before(1, 1) THEN 2 ELSE IF before(4, 5) THEN 1 ELSE 0
        /\ ResponseDepth(t) = IF after(1, 1) THEN 2 ELSE IF after(4, 5) THEN 1 ELSE 0
    BY DEF ResponseDepth
  <2>4. before(4, 5) => after(4, 5)
    BY <2>1
  <2>. HIDE DEF deep, before, after
  <2>5. QED
    BY <2>2, <2>3, <2>4
<1>3. Consistency(s) <= Consistency(t)
  <2>1. Cardinality(Ids) \in Nat
    BY FS_CardinalityType DEF IsSubmission
  <2>2. s.elapsed \in Int /\ t.elapsed \in Int
    BY DEF IsSubmission
  <2>3. QED
    BY <2>1, <2>2 DEF Consistency
<1>4. WalletHistory(s) <= WalletHistory(t)
  BY DEF WalletHistory, IsSubmission, Sol
<1>5. QED
  <2>. DEFINE c(x) == CompletionRate(x)  d(x) == ResponseDepth(x)  k(x) == Consistency(x)
              h(x) == WalletHistory(x)
  <2>1. /\ c(s) \in Int /\ d(s) \in Int /\ k(s) \in Int /\ h(s) \in Int
        /\ c(t) \in Int /\ d(t) \in Int /\ k(t) \in Int /\ h(t) \in Int
    BY MetricsInRange
  <2>2. c(s) <= c(t) /\ d(s) <= d(t) /\ k(s) <= k(t) /\ h(s) <= h(t)
    BY <1>1, <1>2, <1>3, <1>4
  <2>3. /\ PointsOf(s) = 5 * (c(s) + d(s) + k(s) + h(s) + 2)
        /\ PointsOf(t) = 5 * (c(t) + d(t) + k(t) + h(t) + 2)
    BY DEF PointsOf, CreatorRating
  <2>. HIDE DEF c, d, k, h
  <2>4. QED
    BY <2>1, <2>2, <2>3

Requests == [at : {"save", "penalise", "restore"}, response : Responses,
             verdict : Verdicts, previous : Verdicts, points : Nat]

(* An idle desk holds no request.                                          *)
LEMMA IdleIsNoRequest == Idle \notin Requests
  BY DEF Idle, Requests

(* Saturation keeps a score within its type, whatever moves it; points     *)
(* never lower it.                                                         *)
LEMMA MovedInRange ==
  ASSUME NEW old \in 0..MaxScore, NEW points \in Int
  PROVE  /\ Moved(old, points) \in 0..MaxScore
         /\ points >= 0 => Moved(old, points) >= old
         /\ points <= 0 => Moved(old, points) <= old
<1>. DEFINE h == Higher(0, old + points)
<1>1. /\ h \in Nat /\ (points >= 0 => h >= old) /\ (points <= 0 => h <= old)
  BY DEF Higher, MaxScore
<1>. HIDE DEF h
<1>2. MaxScore \in Nat /\ old \in Nat /\ old <= MaxScore
  BY DEF MaxScore
<1>3. /\ Lower(MaxScore, h) \in 0..MaxScore
      /\ points >= 0 => Lower(MaxScore, h) >= old
      /\ points <= 0 => Lower(MaxScore, h) <= old
  BY <1>1, <1>2 DEF Lower
<1>4. QED
  BY <1>3 DEF Moved, h

(* An update keeps the accounts well typed and moves one ledger entry.     *)
LEMMA UpdateTypes ==
  ASSUME TypeOK, NEW r \in Responses, NEW points \in Int, UpdateScore(r, points)
  PROVE  /\ exists' = exists
         /\ score' \in [Wallets -> 0..MaxScore] /\ completed' \in [Wallets -> Nat]
         /\ gained' = [gained EXCEPT ![r] = gained[r] + points]
         /\ gained' \in [Responses -> Int]
<1>1. Respondent[r] \in Wallets
  BY Parameters
<1>2. Moved(score[Respondent[r]], points) \in 0..MaxScore
  BY <1>1, MovedInRange DEF TypeOK
<1>3. completed[Respondent[r]] + 1 \in Nat
  BY <1>1 DEF TypeOK
<1>4. gained[r] + points \in Int
  BY DEF TypeOK
<1>5. QED
  BY <1>1, <1>2, <1>3, <1>4 DEF TypeOK, UpdateScore

-----------------------------------------------------------------------------
(***************************************************************************)
(* Type correctness                                                        *)
(***************************************************************************)

(* A new system is well typed.                                             *)
LEMMA InitInductive == Init => Inductive
<1>. SUFFICES ASSUME Init PROVE Inductive
  OBVIOUS
<1>1. score \in [Wallets -> 0..MaxScore]
  <2>1. score = [w \in Wallets |-> IF w \in Established THEN StartScore ELSE 0]
    BY DEF Init
  <2>2. StartScore \in 0..MaxScore
    BY Parameters
  <2>3. 0 \in 0..MaxScore
    BY DEF MaxScore
  <2>4. QED
    BY <2>1, <2>2, <2>3
<1>2. exists \in [Wallets -> BOOLEAN]
  <2>1. exists = [w \in Wallets |-> w \in Established]
    BY DEF Init
  <2>2. \A w \in Wallets : (w \in Established) \in BOOLEAN
    OBVIOUS
  <2>3. QED
    BY <2>1, <2>2
<1>3. /\ completed \in [Wallets -> Nat] /\ delta \in [Responses -> Nat]
      /\ earned \in [Responses -> 0..1] /\ gained \in [Responses -> Int]
      /\ moderations \in 0..MaxModerations /\ failures \in 0..MaxFailures
  BY Parameters DEF Init
<1>4. /\ moderation \in [Responses -> Verdicts] /\ scoring \in [Responses -> Stages]
      /\ desk \in [Desks -> {Idle} \cup Requests]
  BY DEF Init, Verdicts, Stages
<1>5. NotYetEarned /\ \A r \in Responses : scoring[r] = "update" => exists[Respondent[r]]
  BY DEF Init, NotYetEarned
<1>6. QED
  BY <1>1, <1>2, <1>3, <1>4, <1>5 DEF Inductive, TypeOK, Requests

(* Scoring a response keeps the types.                                     *)
LEMMA ScoringInductive ==
  ASSUME Inductive, NEW r \in Responses, Submit(r) \/ Scoring(r)
  PROVE  Inductive'
<1>1. Respondent[r] \in Wallets /\ Points[r] \in Nat
  BY Parameters, PointsInRange
<1>2. failures' \in 0..MaxFailures
  BY Parameters
     DEF Inductive, TypeOK, Submit, Scoring, CheckAccount, InitAccount, SponsorAccount, SponsorThrows,
         Earn, Persist, Fails
<1>3. CASE Submit(r) \/ CheckAccount(r)
  BY <1>1, <1>2, <1>3
     DEF Inductive, TypeOK, NotYetEarned, Submit, CheckAccount, Goto, Stages, accounts, docs, ghosts
<1>4. CASE InitAccount(r)
  <2>1. InitializeScoreAccount(Respondent[r]) \/ UNCHANGED accounts
    BY <1>4 DEF InitAccount, SponsorAccount, SponsorThrows
  <2>2. score' \in [Wallets -> 0..MaxScore] /\ completed' \in [Wallets -> Nat]
    <3>1. \/ /\ score' = [score EXCEPT ![Respondent[r]] = 0]
             /\ completed' = [completed EXCEPT ![Respondent[r]] = 0]
          \/ score' = score /\ completed' = completed
      BY <2>1 DEF InitializeScoreAccount, accounts
    <3>2. 0 \in 0..MaxScore /\ 0 \in Nat
      BY DEF MaxScore
    <3>3. score \in [Wallets -> 0..MaxScore] /\ completed \in [Wallets -> Nat]
      BY DEF Inductive, TypeOK
    <3>4. QED
      BY <1>1, <3>1, <3>2, <3>3
  <2>3. exists' \in [Wallets -> BOOLEAN] /\ \A w \in Wallets : exists[w] => exists'[w]
    BY <1>1, <2>1, Zenon DEF Inductive, TypeOK, InitializeScoreAccount, accounts
  <2>4. scoring'[r] = "update" => exists'[Respondent[r]]
    BY <1>1, <1>4 DEF Inductive, TypeOK, InitAccount, SponsorAccount, SponsorThrows, InitializeScoreAccount, Goto
  <2>5. /\ exists' \in [Wallets -> BOOLEAN] /\ score' \in [Wallets -> 0..MaxScore]
        /\ completed' \in [Wallets -> Nat]
        /\ \A w \in Wallets : exists[w] => exists'[w]
        /\ scoring'[r] = "update" => exists'[Respondent[r]]
    BY <2>2, <2>3, <2>4
  <2>6. scoring' \in [Responses -> Stages] /\ scoring[r] = "init"
        /\ \A q \in Responses : q # r => scoring'[q] = scoring[q]
    BY <1>4 DEF Inductive, TypeOK, InitAccount, SponsorAccount, SponsorThrows, Goto, Stages
  <2>7. UNCHANGED <<docs, desk, ghosts, moderations>>
    BY <1>4 DEF InitAccount, SponsorAccount, SponsorThrows
  <2>8. QED
    BY <1>2, <2>5, <2>6, <2>7, Parameters
       DEF Inductive, TypeOK, NotYetEarned, docs, ghosts
<1>5. CASE Earn(r)
  <2>1. scoring[r] = "update" /\ scoring' = [scoring EXCEPT ![r] = "persist"]
        /\ UNCHANGED <<docs, desk, moderations>>
    BY <1>5 DEF Earn, Goto
  <2>2. earned[r] = 0
    BY <2>1 DEF Inductive, NotYetEarned
  <2>3. \/ UpdateScore(r, Points[r]) /\ earned' = [earned EXCEPT ![r] = earned[r] + 1]
        \/ UNCHANGED <<accounts, ghosts>>
    BY <1>5 DEF Earn
  <2>4. /\ exists' = exists
        /\ score' \in [Wallets -> 0..MaxScore] /\ completed' \in [Wallets -> Nat]
        /\ gained' \in [Responses -> Int]
    BY <1>1, <2>3, UpdateTypes DEF Inductive, TypeOK, accounts, ghosts
  <2>5. earned' \in [Responses -> 0..1]
        /\ \A q \in Responses : q # r => earned'[q] = earned[q]
    BY <2>2, <2>3 DEF Inductive, TypeOK, ghosts
  <2>6. QED
    BY <1>2, <2>1, <2>4, <2>5 DEF Inductive, TypeOK, NotYetEarned, docs, Stages
<1>6. CASE Persist(r)
  BY <1>1, <1>2, <1>6
     DEF Inductive, TypeOK, NotYetEarned, Persist, Goto, Stages, accounts, ghosts
<1>7. QED
  BY <1>3, <1>4, <1>5, <1>6 DEF Scoring

(* What a moderation request does next is a label of its own.              *)
LEMMA ConsequenceIsLabel ==
  ASSUME NEW v, NEW p
  PROVE  Consequence(v, p) \in {"penalise", "restore", "idle"}
  BY DEF Consequence

(* A step of a moderation request keeps the types.                         *)
LEMMA JudgingInductive ==
  ASSUME Inductive, NEW d \in Desks,
         (\E r \in Responses, v \in Verdicts : ReadResponse(d, r, v)) \/ Judging(d)
  PROVE  Inductive'
<1>1. desk \in [Desks -> {Idle} \cup Requests]
  BY DEF Inductive, TypeOK, Requests
<1>2. ASSUME NEW r \in Responses, NEW v \in Verdicts, ReadResponse(d, r, v) PROVE Inductive'
  <2>1. Request("save", r, v, moderation[r], delta[r]) \in Requests
    BY DEF Inductive, TypeOK, Requests, Request
  <2>2. desk' \in [Desks -> {Idle} \cup Requests]
    BY <1>1, <1>2, <2>1 DEF ReadResponse
  <2>3. moderations' \in 0..MaxModerations
    BY <1>2, Parameters DEF ReadResponse, Inductive, TypeOK
  <2>4. UNCHANGED <<accounts, docs, scoring, ghosts, failures>>
    BY <1>2 DEF ReadResponse
  <2>5. QED
    BY <2>2, <2>3, <2>4 DEF Inductive, TypeOK, NotYetEarned, Requests, accounts, docs, ghosts
<1>3. CASE SaveVerdict(d)
  <2>1. desk[d] \in Requests
    BY <1>1, <1>3 DEF SaveVerdict, Idle
  <2>. DEFINE req  == desk[d]
              next == Consequence(req.verdict, req.previous)
              onward == Request(next, req.response, req.verdict, req.previous, req.points)
  <2>2. next \in {"penalise", "restore", "idle"}
    BY ConsequenceIsLabel
  <2>3. desk' = [desk EXCEPT ![d] = IF next = "idle" THEN Idle ELSE onward]
        /\ moderation' = [moderation EXCEPT ![req.response] = req.verdict]
    BY <1>3 DEF SaveVerdict
  <2>4. next # "idle" => onward \in Requests
    <3>. HIDE DEF next
    <3>1. QED
      BY <2>1, <2>2 DEF Requests, Request
  <2>. HIDE DEF next, onward
  <2>5. desk' \in [Desks -> {Idle} \cup Requests]
    BY <1>1, <2>3, <2>4
  <2>6. moderation' \in [Responses -> Verdicts]
    BY <2>1, <2>3 DEF Inductive, TypeOK, Requests
  <2>7. UNCHANGED <<accounts, delta, scoring, ghosts, moderations, failures>>
    BY <1>3 DEF SaveVerdict
  <2>8. QED
    BY <2>5, <2>6, <2>7 DEF Inductive, TypeOK, NotYetEarned, Requests, accounts, ghosts
<1>4. CASE ApplyPenalty(d) \/ RemovePenalty(d)
  <2>1. desk[d] \in Requests
    BY <1>1, <1>4 DEF ApplyPenalty, RemovePenalty, Idle
  <2>2. PICK points \in Int : MoveScore(d, points)
    BY <1>4, <2>1 DEF ApplyPenalty, RemovePenalty, Requests, Fine
  <2>3. desk[d].response \in Responses
    BY <2>1 DEF Requests
  <2>4. /\ exists' = exists
        /\ score' \in [Wallets -> 0..MaxScore] /\ completed' \in [Wallets -> Nat]
        /\ gained' \in [Responses -> Int]
    BY <2>2, <2>3, UpdateTypes DEF MoveScore, Inductive, TypeOK, accounts
  <2>5. desk' \in [Desks -> {Idle} \cup Requests]
    BY <1>1, <2>2 DEF MoveScore
  <2>6. failures' \in 0..MaxFailures
    BY <2>2, Parameters DEF MoveScore, Fails, Inductive, TypeOK
  <2>7. UNCHANGED <<docs, scoring, earned, moderations>>
    BY <2>2 DEF MoveScore
  <2>8. QED
    BY <2>4, <2>5, <2>6, <2>7 DEF Inductive, TypeOK, NotYetEarned, Requests, docs
<1>5. QED
  BY <1>2, <1>3, <1>4 DEF Judging

(* A handler that dies leaves everything well typed.                       *)
LEMMA DieInductive == ASSUME Inductive, Die PROVE Inductive'
<1>1. failures' \in 0..MaxFailures
  BY Parameters DEF Die, Fails, Inductive, TypeOK
<1>2. UNCHANGED <<accounts, docs, ghosts, moderations>>
  BY DEF Die
<1>3. CASE \E r \in Responses : /\ scoring[r] \notin {"waiting", "done"}
                                /\ Goto(r, "done") /\ UNCHANGED desk
  BY <1>1, <1>2, <1>3
     DEF Goto, Inductive, TypeOK, NotYetEarned, Stages, accounts, docs, ghosts
<1>4. CASE \E d \in Desks : desk[d] # Idle /\ desk' = [desk EXCEPT ![d] = Idle]
                            /\ UNCHANGED scoring
  BY <1>1, <1>2, <1>4 DEF Inductive, TypeOK, NotYetEarned, accounts, docs, ghosts
<1>5. QED
  BY <1>3, <1>4 DEF Die

(* Every step, and stuttering, keeps the types.                            *)
LEMMA StepInductive == Inductive /\ [Next]_vars => Inductive'
<1>. SUFFICES ASSUME Inductive, [Next]_vars PROVE Inductive'
  OBVIOUS
<1>1. CASE UNCHANGED vars
  BY <1>1 DEF vars, accounts, docs, ghosts, Inductive, TypeOK, NotYetEarned
<1>2. CASE Next
  BY <1>2, ScoringInductive, JudgingInductive, DieInductive DEF Next
<1>3. QED
  BY <1>1, <1>2

(* Scores, ledgers and requests keep their types: scores stay within their *)
(* u16, no response earns twice.                                           *)
THEOREM TypeCorrect == Spec => []TypeOK
<1>1. Inductive => TypeOK
  BY DEF Inductive
<1>2. QED
  BY <1>1, InitInductive, StepInductive, PTL DEF Spec

-----------------------------------------------------------------------------
(***************************************************************************)
(* How a score moves                                                       *)
(***************************************************************************)

(* An update that only a penalty makes negative.                           *)
Justified(r, points) ==
    /\ UpdateScore(r, points)
    /\ points < 0 => \E d \in Desks : desk[d].at = "penalise" /\ desk[d].response = r

(* A step leaves the scores alone, creates an account or updates one.      *)
ScoreStep ==
    \/ UNCHANGED <<exists, score>>
    \/ \E w \in Wallets : InitializeScoreAccount(w)
    \/ \E r \in Responses, points \in Int : Justified(r, points)

(* The moves of a score come from scoring, from a penalty or from its      *)
(* reversal, and only the penalty is negative.                             *)
LEMMA StepMovesScore == Inductive /\ [Next]_vars => ScoreStep
<1>. SUFFICES ASSUME Inductive, [Next]_vars PROVE ScoreStep
  OBVIOUS
<1>1. CASE UNCHANGED vars \/ Die
  BY <1>1 DEF vars, accounts, Die, ScoreStep
<1>2. ASSUME NEW r \in Responses, Submit(r) \/ Scoring(r) PROVE ScoreStep
  <2>1. Respondent[r] \in Wallets /\ Points[r] \in Nat
    BY Parameters, PointsInRange
  <2>2. CASE Submit(r) \/ CheckAccount(r) \/ Persist(r)
    BY <2>2 DEF Submit, CheckAccount, Persist, accounts, ScoreStep
  <2>3. CASE InitAccount(r)
    BY <2>1, <2>3 DEF InitAccount, SponsorAccount, SponsorThrows, accounts, ScoreStep
  <2>4. CASE Earn(r)
    <3>1. CASE UpdateScore(r, Points[r])
      <4>1. Points[r] \in Int /\ ~(Points[r] < 0)
        BY <2>1
      <4>2. QED
        BY <3>1, <4>1 DEF ScoreStep, Justified
    <3>2. CASE UNCHANGED accounts
      BY <3>2 DEF accounts, ScoreStep
    <3>3. QED
      BY <2>4, <3>1, <3>2 DEF Earn
  <2>5. QED
    BY <1>2, <2>2, <2>3, <2>4 DEF Scoring
<1>3. ASSUME NEW d \in Desks,
             (\E r \in Responses, v \in Verdicts : ReadResponse(d, r, v)) \/ Judging(d)
      PROVE  ScoreStep
  <2>1. CASE (\E r \in Responses, v \in Verdicts : ReadResponse(d, r, v)) \/ SaveVerdict(d)
    BY <2>1 DEF ReadResponse, SaveVerdict, accounts, ScoreStep
  <2>2. CASE ApplyPenalty(d) \/ RemovePenalty(d)
    <3>1. desk[d] \in Requests
      BY <2>2 DEF Inductive, TypeOK, Requests, ApplyPenalty, RemovePenalty, Idle
    <3>2. PICK points \in Int : MoveScore(d, points) /\ (points < 0 => desk[d].at = "penalise")
      BY <2>2, <3>1 DEF ApplyPenalty, RemovePenalty, Requests, Fine
    <3>3. desk[d].response \in Responses
      BY <3>1 DEF Requests
    <3>4. CASE UpdateScore(desk[d].response, points)
      BY <3>2, <3>3, <3>4 DEF Justified, ScoreStep
    <3>5. CASE UNCHANGED accounts
      BY <3>5 DEF accounts, ScoreStep
    <3>6. QED
      BY <3>2, <3>4, <3>5 DEF MoveScore
  <2>3. QED
    BY <1>3, <2>1, <2>2 DEF Judging
<1>4. QED
  BY <1>1, <1>2, <1>3 DEF Next

(* A wallet without an account has no score to lose.                       *)
LEMMA NoScoreYetStep == Inductive /\ NoScoreYet /\ ScoreStep => NoScoreYet'
<1>. SUFFICES ASSUME Inductive, NoScoreYet, ScoreStep, NEW w \in Wallets, ~exists'[w]
              PROVE  score'[w] = 0
  BY DEF NoScoreYet
<1>1. CASE UNCHANGED <<exists, score>>
  BY <1>1 DEF NoScoreYet
<1>2. ASSUME NEW v \in Wallets, InitializeScoreAccount(v) PROVE score'[w] = 0
  BY <1>2 DEF InitializeScoreAccount, NoScoreYet, Inductive, TypeOK
<1>3. ASSUME NEW r \in Responses, NEW points \in Int, Justified(r, points) PROVE score'[w] = 0
  <2>1. exists' = exists /\ exists[Respondent[r]]
        /\ score' = [score EXCEPT ![Respondent[r]] = Moved(score[Respondent[r]], points)]
    BY <1>3 DEF Justified, UpdateScore
  <2>2. QED
    BY <2>1 DEF NoScoreYet, Inductive, TypeOK
<1>4. QED
  BY <1>1, <1>2, <1>3 DEF ScoreStep

(* The step of ScoreMovesWithVerdicts.                                     *)
ScoreMoves ==
    \A w \in Wallets :
       /\ score'[w] < score[w] =>
             \E d \in Desks : desk[d].at = "penalise" /\ Respondent[desk[d].response] = w
       /\ score'[w] > score[w] => \E r \in Of(w) : gained'[r] > gained[r]

LEMMA ScoreStepMoves == Inductive /\ NoScoreYet /\ ScoreStep => ScoreMoves
<1>. SUFFICES ASSUME Inductive, NoScoreYet, ScoreStep, NEW w \in Wallets
              PROVE  /\ score'[w] < score[w] =>
                            \E d \in Desks : desk[d].at = "penalise"
                                            /\ Respondent[desk[d].response] = w
                     /\ score'[w] > score[w] => \E r \in Of(w) : gained'[r] > gained[r]
  BY DEF ScoreMoves
<1>1. score[w] \in 0..MaxScore
  BY DEF Inductive, TypeOK
<1>2. ~(score[w] < score[w]) /\ ~(score[w] > score[w])
  BY <1>1
<1>3. CASE score'[w] = score[w]
  BY <1>2, <1>3
<1>4. ASSUME NEW v \in Wallets, InitializeScoreAccount(v) PROVE score'[w] = score[w]
  BY <1>4 DEF InitializeScoreAccount, NoScoreYet, Inductive, TypeOK
<1>5. ASSUME NEW r \in Responses, NEW points \in Int, Justified(r, points),
             score'[w] # score[w]
      PROVE  /\ score'[w] < score[w] =>
                    \E d \in Desks : desk[d].at = "penalise"
                                    /\ Respondent[desk[d].response] = w
             /\ score'[w] > score[w] => \E q \in Of(w) : gained'[q] > gained[q]
  <2>1. Respondent[r] = w /\ score'[w] = Moved(score[w], points)
    BY <1>5 DEF Justified, UpdateScore, Inductive, TypeOK
  <2>2. /\ points >= 0 => score'[w] >= score[w]
        /\ points <= 0 => score'[w] <= score[w]
        /\ score'[w] \in 0..MaxScore
    BY <1>1, <2>1, MovedInRange
  <2>3. score[w] \in Int /\ score'[w] \in Int
    BY <1>1, <2>2
  <2>4. score'[w] < score[w] => points < 0
    BY <2>2, <2>3
  <2>5. score'[w] > score[w] => points > 0
    BY <2>2, <2>3
  <2>6. gained' = [gained EXCEPT ![r] = gained[r] + points] /\ gained[r] \in Int
    BY <1>5 DEF Justified, UpdateScore, Inductive, TypeOK
  <2>7. points > 0 => gained'[r] > gained[r]
    BY <2>6 DEF Inductive, TypeOK
  <2>8. r \in Of(w)
    BY <2>1 DEF Of
  <2>9. QED
    BY <1>5, <2>1, <2>4, <2>5, <2>7, <2>8 DEF Justified
<1>6. QED
  BY <1>3, <1>4, <1>5 DEF ScoreStep

(* A wallet's score falls only by a penalty and rises only by what one of  *)
(* its responses gains, whatever is in flight and whatever fails.          *)
THEOREM ScoresMoveForAReason == Spec => ScoreMovesWithVerdicts
<1>1. Init => NoScoreYet
  BY DEF Init, NoScoreYet
<1>2. Inductive /\ NoScoreYet /\ [Next]_vars => NoScoreYet'
  BY StepMovesScore, NoScoreYetStep
<1>3. Inductive /\ NoScoreYet /\ [Next]_vars => [ScoreMoves]_vars
  BY StepMovesScore, ScoreStepMoves
<1>4. QED
  BY <1>1, <1>2, <1>3, InitInductive, StepInductive, PTL
     DEF Spec, ScoreMovesWithVerdicts, ScoreMoves

-----------------------------------------------------------------------------
(***************************************************************************)
(* One request at a time                                                   *)
(*                                                                         *)
(* The remaining facts are about a creator who judges one response at a    *)
(* time, each after it has been scored, and a run in which nothing has     *)
(* failed.                                                                 *)
(***************************************************************************)

Ledger ==
    /\ \A r \in Weighted : ScoredThenJudged(r) /\ WorthFollowsPenalty(r)
    /\ \A d \in Desks : Informed(d)

(* Failures are only ever added.                                           *)
LEMMA FailuresStay ==
  ASSUME Inductive, [Next]_vars, failures' = 0
  PROVE  failures = 0 /\ ~Fails
<1>1. failures \in Nat
  BY Parameters DEF Inductive, TypeOK
<1>2. ~Fails
  BY <1>1 DEF Fails
<1>3. UNCHANGED failures \/ Fails
  <2>1. CASE UNCHANGED vars
    BY <2>1 DEF vars
  <2>2. CASE Die
    BY <2>2 DEF Die
  <2>3. ASSUME NEW r \in Responses, Submit(r) \/ Scoring(r) PROVE UNCHANGED failures \/ Fails
    BY <2>3 DEF Submit, Scoring, CheckAccount, InitAccount, SponsorAccount, SponsorThrows,
                Earn, Persist
  <2>4. ASSUME NEW d \in Desks,
               (\E r \in Responses, v \in Verdicts : ReadResponse(d, r, v)) \/ Judging(d)
        PROVE  UNCHANGED failures \/ Fails
    BY <2>4 DEF ReadResponse, Judging, SaveVerdict, ApplyPenalty, RemovePenalty, MoveScore
  <2>5. QED
    BY <2>1, <2>2, <2>3, <2>4 DEF Next
<1>4. QED
  BY <1>2, <1>3

(* Neither a verdict nor a request: who is in force does not change.       *)
LEMMA SameForce ==
  ASSUME UNCHANGED <<moderation, desk>>
  PROVE  /\ \A r \in Responses : InForce(r)' <=> InForce(r)
         /\ \A d \in Desks : Informed(d)' <=> Informed(d)
  BY DEF InForce, On, Informed

(* Scoring a response that nobody has judged.                              *)
LEMMA ScoringLedger ==
  ASSUME Inductive, Ledger, ~Fails, NEW q \in Responses, Submit(q) \/ Scoring(q)
  PROVE  Ledger'
<1>1. UNCHANGED <<moderation, desk>>
  BY DEF Submit, Scoring, CheckAccount, InitAccount, SponsorAccount, SponsorThrows,
         Earn, Persist, docs
<1>2. \A d \in Desks : Informed(d)'
  BY <1>1, SameForce DEF Ledger
<1>3. Respondent \in [Responses -> Wallets] /\ Points \in [Responses -> Nat]
      /\ Weighted \subseteq Responses
  BY Parameters, PointsInRange
<1>4. \A w \in Wallets : exists[w] => exists'[w]
  BY <1>3 DEF Inductive, TypeOK, Submit, Scoring, CheckAccount, InitAccount, SponsorAccount, SponsorThrows,
              Earn, Persist,
              InitializeScoreAccount, UpdateScore, accounts
<1>5. ASSUME NEW r \in Weighted, r # q PROVE ScoredThenJudged(r)' /\ WorthFollowsPenalty(r)'
  <2>1. r \in Responses /\ Respondent[r] \in Wallets
    BY <1>3
  <2>2. scoring'[r] = scoring[r] /\ delta'[r] = delta[r] /\ gained'[r] = gained[r]
    <3>1. scoring'[r] = scoring[r]
      BY <1>5, <2>1 DEF Inductive, TypeOK, Goto, Submit, Scoring, CheckAccount, InitAccount, SponsorAccount, SponsorThrows,
                        Earn, Persist
    <3>2. delta'[r] = delta[r]
      BY <1>5, <2>1 DEF Inductive, TypeOK, Submit, Scoring, CheckAccount, InitAccount, SponsorAccount, SponsorThrows,
                        Earn, Persist, docs
    <3>3. gained'[r] = gained[r]
      BY <1>5, <2>1 DEF Inductive, TypeOK, Submit, Scoring, CheckAccount, InitAccount, SponsorAccount, SponsorThrows,
                        Earn, Persist,
                        UpdateScore, ghosts
    <3>4. QED
      BY <3>1, <3>2, <3>3
  <2>3. ScoredThenJudged(r) /\ WorthFollowsPenalty(r)
    BY DEF Ledger
  <2>4. ScoredThenJudged(r)'
    BY <1>1, <1>4, <2>1, <2>2, <2>3 DEF ScoredThenJudged, On
  <2>5. WorthFollowsPenalty(r)'
    BY <1>1, <2>1, <2>2, <2>3, SameForce DEF WorthFollowsPenalty
  <2>6. QED
    BY <2>4, <2>5
<1>6. ASSUME q \in Weighted PROVE ScoredThenJudged(q)' /\ WorthFollowsPenalty(q)'
  <2>1. Respondent[q] \in Wallets /\ Points[q] \in Nat /\ gained[q] \in Int
    BY <1>3 DEF Inductive, TypeOK
  <2>2. ScoredThenJudged(q)
    BY <1>6 DEF Ledger
  <2>3. scoring[q] \in {"waiting", "check", "init", "update", "persist"}
    BY DEF Submit, Scoring, CheckAccount, InitAccount, SponsorAccount, SponsorThrows, Earn, Persist
  <2>4. moderation[q] = "clean" /\ \A d \in Desks : ~On(d, q)
    BY <2>2, <2>3 DEF ScoredThenJudged
  <2>5. ~InForce(q)'
    BY <1>1, <2>4 DEF InForce, On
  <2>6. moderation'[q] = "clean" /\ \A d \in Desks : ~On(d, q)'
    BY <1>1, <2>4 DEF On
  <2>7. CASE Submit(q) \/ CheckAccount(q) \/ InitAccount(q)
    <3>1. gained[q] = 0 /\ gained' = gained
      BY <2>2, <2>7 DEF ScoredThenJudged, Submit, CheckAccount, InitAccount, SponsorAccount, SponsorThrows, ghosts
    <3>2. scoring'[q] \in {"check", "init", "update", "persist"}
      BY <1>6, <2>7 DEF Submit, CheckAccount, InitAccount, SponsorAccount, SponsorThrows, Goto, Inductive, TypeOK
    <3>3. scoring'[q] \in {"update", "persist"} => exists'[Respondent[q]]
      BY <2>1, <2>2, <2>7
         DEF ScoredThenJudged, Submit, CheckAccount, InitAccount, SponsorAccount, SponsorThrows, InitializeScoreAccount,
             Goto, Inductive, TypeOK, accounts
    <3>4. QED
      BY <2>1, <2>5, <2>6, <3>1, <3>2, <3>3 DEF ScoredThenJudged, WorthFollowsPenalty
  <2>8. CASE Earn(q)
    <3>1. UpdateScore(q, Points[q]) /\ scoring'[q] = "persist" /\ scoring[q] = "update"
      BY <2>8 DEF Earn, Goto, Inductive, TypeOK
    <3>2. gained[q] = 0 /\ gained'[q] = gained[q] + Points[q] /\ exists'[Respondent[q]]
      BY <2>1, <2>2, <3>1 DEF ScoredThenJudged, UpdateScore, Inductive, TypeOK
    <3>3. QED
      BY <2>1, <2>5, <2>6, <3>1, <3>2 DEF ScoredThenJudged, WorthFollowsPenalty
  <2>9. CASE Persist(q)
    <3>1. /\ delta'[q] = Points[q] /\ scoring[q] = "persist" /\ scoring'[q] = "done"
          /\ gained' = gained /\ exists' = exists
      BY <2>9 DEF Persist, Goto, Inductive, TypeOK, accounts, ghosts
    <3>2. WorthFollowsPenalty(q)'
      <4>1. WorthFollowsPenalty(q) /\ ~InForce(q)
        BY <1>6, <2>4 DEF Ledger, InForce, On
      <4>2. QED
        BY <2>5, <3>1, <4>1 DEF WorthFollowsPenalty
    <3>3. ScoredThenJudged(q)'
      BY <2>2, <2>6, <3>1 DEF ScoredThenJudged
    <3>4. QED
      BY <3>2, <3>3
  <2>10. QED
    BY <2>7, <2>8, <2>9 DEF Scoring
<1>7. QED
  BY <1>2, <1>5, <1>6 DEF Ledger

(* Whether a penalty is in force, by a verdict and by the one request.     *)
InForceBy(m, q, r) ==
    \/ q # Idle /\ q.response = r /\ q.at = "restore"
    \/ m = "rejected" /\ ~(q # Idle /\ q.response = r /\ q.at = "penalise")

LEMMA OneRequest ==
  ASSUME Serial, NEW d \in Desks, NEW r \in Responses
  PROVE  /\ InForce(r) <=> InForceBy(moderation[r], desk[d], r)
         /\ InForce(r)' <=> InForceBy(moderation'[r], desk'[d], r)
  BY DEF InForce, InForceBy, On, Serial

(* Judging a response that has been scored.                                *)
LEMMA JudgingLedger ==
  ASSUME Serial, Inductive, Ledger, ~Fails, NEW d \in Desks,
         (\E r \in Responses, v \in Verdicts : ReadResponse(d, r, v)) \/ Judging(d)
  PROVE  Ledger'
<1>1. UNCHANGED <<exists, delta, scoring>>
  BY DEF ReadResponse, Judging, SaveVerdict, ApplyPenalty, RemovePenalty, MoveScore,
         UpdateScore, accounts, docs
<1>2. Points \in [Responses -> Nat] /\ Weighted \subseteq Responses
  BY Parameters, PointsInRange
<1>3. \A r \in Weighted : ScoredThenJudged(r) /\ WorthFollowsPenalty(r) /\ gained[r] \in Int
  BY <1>2 DEF Ledger, Inductive, TypeOK
<1>4. Informed(d) /\ desk[d] \in {Idle} \cup Requests
  BY DEF Ledger, Inductive, TypeOK, Requests
<1>5. \A e \in Desks : e = d
  BY DEF Serial
<1>. DEFINE Kept(r) ==
       /\ scoring[r] # "done" => gained'[r] = gained[r] /\ moderation'[r] = moderation[r]
       /\ scoring[r] # "done" => desk'[d] = Idle \/ desk'[d].response # r
       /\ gained'[r] <= IF InForceBy(moderation'[r], desk'[d], r) THEN -Fine ELSE Points[r]
<1>6. SUFFICES /\ \A r \in Weighted : Kept(r)
               /\ Informed(d)'
  <2>1. ASSUME NEW r \in Weighted, Kept(r) PROVE ScoredThenJudged(r)' /\ WorthFollowsPenalty(r)'
    <3>1. ScoredThenJudged(r)'
      BY <1>1, <1>3, <1>5, <2>1 DEF ScoredThenJudged, On
    <3>2. WorthFollowsPenalty(r)'
      BY <1>2, <2>1, OneRequest DEF WorthFollowsPenalty
    <3>3. QED
      BY <3>1, <3>2
  <2>2. QED
    BY <1>5, <2>1 DEF Ledger
<1>7. ASSUME NEW r \in Weighted
      PROVE  /\ r \in Responses /\ Points[r] \in Nat /\ gained[r] \in Int
             /\ gained[r] <= IF InForceBy(moderation[r], desk[d], r) THEN -Fine ELSE Points[r]
             /\ scoring[r] # "done" => desk[d] = Idle \/ desk[d].response # r
  BY <1>2, <1>3, OneRequest DEF WorthFollowsPenalty, ScoredThenJudged, On
<1>8. ASSUME NEW q \in Responses, NEW v \in Verdicts, ReadResponse(d, q, v)
      PROVE  (\A r \in Weighted : Kept(r)) /\ Informed(d)'
  <2>1. /\ desk[d] = Idle /\ scoring[q] = "done" /\ gained' = gained /\ moderation' = moderation
        /\ desk'[d] = Request("save", q, v, moderation[q], delta[q])
    BY <1>8 DEF ReadResponse, Serial, Inductive, TypeOK, docs, ghosts
  <2>2. desk'[d].at = "save" /\ desk'[d].response = q
        /\ desk'[d].previous = moderation[q] /\ desk'[d].points = delta[q]
    BY <2>1 DEF Request
  <2>3. \A r \in Weighted : Kept(r)
    BY <1>7, <2>1, <2>2 DEF InForceBy
  <2>4. q \in Weighted => delta[q] = Points[q]
    BY <1>3, <2>1 DEF ScoredThenJudged
  <2>5. Informed(d)'
    BY <2>1, <2>2, <2>4 DEF Informed
  <2>6. QED
    BY <2>3, <2>5
<1>9. CASE SaveVerdict(d)
  <2>1. desk[d] \in Requests /\ desk[d] # Idle /\ desk[d].at = "save"
    BY <1>4, <1>9 DEF SaveVerdict, Idle
  <2>. DEFINE q == desk[d].response
              v == desk[d].verdict
              p == desk[d].previous
              next == Consequence(v, p)
  <2>2. q \in Responses /\ v \in Verdicts /\ p \in Verdicts
    BY <2>1 DEF Requests
  <2>3. moderation'[q] = v /\ gained' = gained
        /\ \A r \in Responses : r # q => moderation'[r] = moderation[r]
    BY <1>9, <2>2 DEF SaveVerdict, Inductive, TypeOK, ghosts
  <2>4. desk'[d] = IF next = "idle" THEN Idle ELSE Request(next, q, v, p, desk[d].points)
    BY <1>9 DEF SaveVerdict, Inductive, TypeOK
  <2>5. q \in Weighted => p = moderation[q] /\ desk[d].points = Points[q]
    BY <1>4, <2>1 DEF Informed
  <2>6. next # "idle" => desk'[d].at = next /\ desk'[d].response = q
                         /\ desk'[d].points = desk[d].points
    BY <2>4 DEF Request
  <2>7. ASSUME NEW r \in Weighted PROVE Kept(r)
    <3>1. CASE r # q
      BY <1>7, <2>3, <2>4, <2>6, <3>1 DEF InForceBy
    <3>2. CASE r = q
      <4>1. scoring[r] = "done"
        BY <1>7, <2>1, <3>2
      <4>2. InForceBy(moderation'[r], desk'[d], r) => p = "rejected"
        <5>1. next = "restore" => p = "rejected"
          BY DEF Consequence
        <5>2. v = "rejected" /\ p # "rejected" => next = "penalise"
          BY DEF Consequence
        <5>3. next = "idle" \/ (desk'[d].at = next /\ desk'[d].response = r)
          BY <2>6, <3>2
        <5>4. next = "idle" => desk'[d] = Idle
          BY <2>4
        <5>. HIDE DEF next
        <5>5. next = "penalise" => desk'[d] # Idle
          BY <5>3 DEF Idle
        <5>6. QED
          BY <2>3, <3>2, <5>1, <5>2, <5>3, <5>4, <5>5 DEF InForceBy
      <4>3. p = "rejected" => InForceBy(moderation[r], desk[d], r)
        BY <2>1, <2>5, <3>2 DEF InForceBy
      <4>4. gained[r] <= Points[r]
        BY <1>7 DEF Fine
      <4>5. QED
        BY <1>7, <2>3, <4>1, <4>2, <4>3, <4>4
    <3>3. QED
      BY <3>1, <3>2
  <2>8. Informed(d)'
    <3>1. next = "penalise" => v = "rejected"
      BY DEF Consequence
    <3>2. next = "restore" => v = "clean"
      BY DEF Consequence
    <3>3. next \in {"penalise", "restore", "idle"}
      BY ConsequenceIsLabel
    <3>. HIDE DEF next
    <3>4. QED
      BY <2>3, <2>4, <2>5, <2>6, <3>1, <3>2, <3>3 DEF Informed
  <2>9. QED
    BY <2>7, <2>8
<1>10. CASE ApplyPenalty(d) \/ RemovePenalty(d)
  <2>1. desk[d] \in Requests /\ desk[d] # Idle
    BY <1>4, <1>10 DEF ApplyPenalty, RemovePenalty, Idle
  <2>. DEFINE q == desk[d].response
  <2>2. q \in Responses /\ desk[d].points \in Nat
    BY <2>1 DEF Requests
  <2>3. moderation' = moderation /\ desk'[d] = Idle
    BY <1>10 DEF ApplyPenalty, RemovePenalty, MoveScore, Inductive, TypeOK, docs
  <2>4. Informed(d)'
    BY <2>3 DEF Informed
  <2>5. \A r \in Weighted : r # q => gained'[r] = gained[r]
    BY <1>2, <1>10
       DEF ApplyPenalty, RemovePenalty, MoveScore, UpdateScore, Inductive, TypeOK
  <2>6. ASSUME NEW r \in Weighted PROVE Kept(r)
    <3>1. CASE r # q
      BY <1>7, <2>3, <2>5, <3>1 DEF InForceBy
    <3>2. CASE r = q
      <4>1. scoring[r] = "done"
        BY <1>7, <2>1, <3>2
      <4>2. exists[Respondent[r]]
        BY <1>3, <4>1 DEF ScoredThenJudged
      <4>3. desk[d].points = Points[r]
        BY <1>4, <2>1, <3>2 DEF Informed
      <4>4. CASE ApplyPenalty(d)
        <5>1. gained' = [gained EXCEPT ![r] = gained[r] + (-(Points[r] + Fine))]
          BY <3>2, <4>2, <4>3, <4>4 DEF ApplyPenalty, MoveScore, UpdateScore
        <5>2. gained'[r] = gained[r] + (-(Points[r] + Fine))
          BY <1>7, <5>1 DEF Inductive, TypeOK
        <5>3. ~InForceBy(moderation[r], desk[d], r)
          BY <2>1, <3>2, <4>4 DEF ApplyPenalty, InForceBy
        <5>4. gained'[r] <= -Fine /\ -Fine <= Points[r] /\ gained'[r] <= Points[r]
          BY <1>7, <5>2, <5>3 DEF Fine
        <5>5. QED
          BY <4>1, <5>4
      <4>5. CASE RemovePenalty(d)
        <5>1. gained' = [gained EXCEPT ![r] = gained[r] + (Points[r] + Fine)]
          BY <3>2, <4>2, <4>3, <4>5 DEF RemovePenalty, MoveScore, UpdateScore
        <5>2. gained'[r] = gained[r] + (Points[r] + Fine)
          BY <1>7, <5>1 DEF Inductive, TypeOK
        <5>3. InForceBy(moderation[r], desk[d], r)
          BY <2>1, <3>2, <4>5 DEF RemovePenalty, InForceBy
        <5>4. moderation[r] = "clean"
          BY <1>4, <2>1, <3>2, <4>5 DEF RemovePenalty, Informed
        <5>5. ~InForceBy(moderation'[r], desk'[d], r)
          BY <2>3, <5>4 DEF InForceBy
        <5>6. gained'[r] <= Points[r]
          BY <1>7, <5>2, <5>3 DEF Fine
        <5>7. QED
          BY <4>1, <5>5, <5>6
      <4>6. QED
        BY <1>10, <4>4, <4>5
    <3>3. QED
      BY <3>1, <3>2
  <2>7. QED
    BY <2>4, <2>6
<1>11. QED
  BY <1>8, <1>9, <1>10 DEF Judging

(* Without failures, the worth of every response follows its penalty.      *)
LEMMA SerialStep ==
  ASSUME Serial PROVE SerialInductive /\ [Next]_vars => SerialInductive'
<1>. SUFFICES ASSUME SerialInductive, [Next]_vars PROVE SerialInductive'
  OBVIOUS
<1>1. Inductive /\ Inductive'
  BY StepInductive DEF SerialInductive
<1>2. SUFFICES ASSUME failures' = 0 PROVE Ledger'
  BY <1>1 DEF SerialInductive, Ledger
<1>3. failures = 0 /\ ~Fails
  BY <1>1, <1>2, FailuresStay
<1>4. Ledger
  BY <1>3 DEF SerialInductive, Ledger
<1>5. CASE UNCHANGED vars
  BY <1>4, <1>5
     DEF Ledger, ScoredThenJudged, WorthFollowsPenalty, InForce, Informed, On,
         vars, accounts, docs, ghosts
<1>6. ASSUME NEW q \in Responses, Submit(q) \/ Scoring(q) PROVE Ledger'
  BY <1>1, <1>3, <1>4, <1>6, ScoringLedger
<1>7. ASSUME NEW d \in Desks,
             (\E r \in Responses, v \in Verdicts : ReadResponse(d, r, v)) \/ Judging(d)
      PROVE  Ledger'
  BY <1>1, <1>3, <1>4, <1>7, JudgingLedger
<1>8. QED
  BY <1>3, <1>5, <1>6, <1>7 DEF Next, Die

LEMMA SerialInit == Init => SerialInductive
<1>. SUFFICES ASSUME Init PROVE SerialInductive
  OBVIOUS
<1>1. Points \in [Responses -> Nat] /\ Weighted \subseteq Responses
  BY Parameters, PointsInRange
<1>2. \A r \in Weighted : scoring[r] = "waiting" /\ gained[r] = 0 /\ moderation[r] = "clean"
  BY <1>1 DEF Init
<1>3. \A d \in Desks : desk[d] = Idle
  BY DEF Init
<1>4. \A r \in Weighted : ScoredThenJudged(r) /\ WorthFollowsPenalty(r)
  BY <1>1, <1>2, <1>3 DEF ScoredThenJudged, WorthFollowsPenalty, InForce, On
<1>5. \A d \in Desks : Informed(d)
  BY <1>3 DEF Informed
<1>6. QED
  BY <1>4, <1>5, InitInductive DEF SerialInductive

(* What the invariant says of a rejected response that nobody is judging.  *)
LEMMA WorthBounds ==
  SerialInductive => RejectedNeverGains /\ NeverWorthMoreThanItsPoints
<1>. SUFFICES ASSUME SerialInductive, failures = 0, NEW r \in Weighted
              PROVE  /\ AtRest(r) /\ moderation[r] = "rejected" => gained[r] <= -Fine
                     /\ gained[r] <= Points[r]
  BY DEF RejectedNeverGains, NeverWorthMoreThanItsPoints
<1>1. WorthFollowsPenalty(r)
  BY DEF SerialInductive
<1>2. Points[r] \in Nat /\ gained[r] \in Int
  BY Parameters, PointsInRange DEF SerialInductive, Inductive, TypeOK
<1>3. gained[r] <= Points[r]
  BY <1>1, <1>2 DEF WorthFollowsPenalty, Fine
<1>4. AtRest(r) /\ moderation[r] = "rejected" => InForce(r)
  BY DEF AtRest, InForce, On
<1>5. QED
  BY <1>1, <1>3, <1>4 DEF WorthFollowsPenalty

(* A creator who judges one scored response at a time leaves a rejected    *)
(* response worth at least the fine less than nothing.                     *)
THEOREM RejectionCosts ==
  ASSUME Serial PROVE Spec => []RejectedNeverGains
<1>1. SerialInductive /\ [Next]_vars => SerialInductive'
  BY SerialStep
<1>2. QED
  BY <1>1, SerialInit, WorthBounds, PTL DEF Spec

(* And no verdicts of such a creator make a response worth more than its   *)
(* points.                                                                 *)
THEOREM NoProfitFromVerdicts ==
  ASSUME Serial PROVE Spec => []NeverWorthMoreThanItsPoints
<1>1. SerialInductive /\ [Next]_vars => SerialInductive'
  BY SerialStep
<1>2. QED
  BY <1>1, SerialInit, WorthBounds, PTL DEF Spec

-----------------------------------------------------------------------------
(***************************************************************************)
(* The race to create an account                                           *)
(*                                                                         *)
(* For any verdicts and any number of requests: what a wallet has earned   *)
(* depends on the scoring of its responses alone.                          *)
(***************************************************************************)

(* Racing, where nothing has failed.                                       *)
Race ==
    /\ \A r \in Responses : ScoredWithAccount(r) /\ EstablishedEarns(r)
    /\ \A w \in Wallets : CreatedToEarn(w)

(* What a scoring step leaves alone: no account is lost, another response  *)
(* is where it was.                                                        *)
LEMMA OthersStay ==
  ASSUME Inductive, NEW q \in Responses, Submit(q) \/ Scoring(q)
  PROVE  /\ \A w \in Wallets : exists[w] => exists'[w]
         /\ \A r \in Responses : r # q => scoring'[r] = scoring[r] /\ earned'[r] = earned[r]
<1>1. Respondent \in [Responses -> Wallets]
  BY Parameters
<1>2. \A w \in Wallets : exists[w] => exists'[w]
  BY <1>1 DEF Inductive, TypeOK, Submit, Scoring, CheckAccount, InitAccount, SponsorAccount, SponsorThrows,
              Earn, Persist,
              InitializeScoreAccount, UpdateScore, accounts
<1>3. \A r \in Responses : r # q => scoring'[r] = scoring[r]
  BY DEF Inductive, TypeOK, Goto, Submit, Scoring, CheckAccount, InitAccount, SponsorAccount, SponsorThrows,
         Earn, Persist
<1>4. \A r \in Responses : r # q => earned'[r] = earned[r]
  BY DEF Inductive, TypeOK, Submit, Scoring, CheckAccount, InitAccount, SponsorAccount, SponsorThrows,
         Earn, Persist, ghosts
<1>5. QED
  BY <1>2, <1>3, <1>4

(* The response itself goes on with an account, and earns if the wallet    *)
(* was established.                                                        *)
LEMMA ScoredResponseEarns ==
  ASSUME Inductive, Race, ~Fails, NEW q \in Responses, Submit(q) \/ Scoring(q)
  PROVE  ScoredWithAccount(q)' /\ EstablishedEarns(q)'
<1>1. Respondent[q] \in Wallets
  BY Parameters
<1>2. ScoredWithAccount(q) /\ EstablishedEarns(q) /\ CreatedToEarn(Respondent[q])
  BY <1>1 DEF Race
<1>3. scoring \in [Responses -> Stages] /\ exists \in [Wallets -> BOOLEAN]
      /\ earned \in [Responses -> 0..1]
  BY DEF Inductive, TypeOK
<1>4. CASE Submit(q)
  BY <1>2, <1>3, <1>4 DEF Submit, Goto, ScoredWithAccount, EstablishedEarns, accounts, ghosts
<1>5. CASE CheckAccount(q)
  <2>1. /\ scoring[q] = "check" /\ scoring'[q] = IF exists[Respondent[q]] THEN "update" ELSE "init"
        /\ exists' = exists
    BY <1>3, <1>5 DEF CheckAccount, Goto, accounts
  <2>2. Respondent[q] \in Established => scoring'[q] = "update"
    BY <1>2, <2>1 DEF CreatedToEarn
  <2>3. QED
    BY <1>2, <2>1, <2>2 DEF ScoredWithAccount, EstablishedEarns
<1>6. CASE InitAccount(q)
  <2>1. scoring[q] = "init" /\ exists'[Respondent[q]] /\ scoring'[q] \in {"update", "persist"}
    BY <1>1, <1>3, <1>6 DEF InitAccount, SponsorAccount, SponsorThrows, InitializeScoreAccount, Goto, accounts
  <2>2. q \in Weighted /\ Respondent[q] \notin Established
    BY <1>2, <2>1 DEF ScoredWithAccount, EstablishedEarns
  <2>3. QED
    BY <2>1, <2>2 DEF ScoredWithAccount, EstablishedEarns
<1>7. CASE Earn(q)
  <2>1. scoring[q] = "update" /\ scoring'[q] = "persist" /\ UpdateScore(q, Points[q])
        /\ earned' = [earned EXCEPT ![q] = earned[q] + 1]
    BY <1>3, <1>7 DEF Earn, Goto
  <2>2. earned'[q] = 1
    BY <1>3, <2>1 DEF Inductive, NotYetEarned
  <2>3. exists'[Respondent[q]] /\ q \in Weighted
    BY <1>2, <2>1 DEF UpdateScore, ScoredWithAccount
  <2>4. QED
    BY <2>1, <2>2, <2>3 DEF ScoredWithAccount, EstablishedEarns
<1>8. CASE Persist(q)
  <2>1. /\ scoring[q] = "persist" /\ scoring'[q] = "done"
        /\ exists' = exists /\ earned' = earned
    BY <1>3, <1>8 DEF Persist, Goto, accounts, ghosts
  <2>2. QED
    BY <1>2, <2>1 DEF ScoredWithAccount, EstablishedEarns
<1>9. QED
  BY <1>4, <1>5, <1>6, <1>7, <1>8 DEF Scoring

(* A response that is about to earn earns, and an account is created only  *)
(* by a response that is about to.                                         *)
LEMMA CreationEarns ==
  ASSUME Inductive, Race, ~Fails, NEW q \in Responses, Submit(q) \/ Scoring(q),
         NEW w \in Wallets
  PROVE  CreatedToEarn(w)'
<1>1. CreatedToEarn(w)
  BY DEF Race
<1>2. scoring \in [Responses -> Stages] /\ exists \in [Wallets -> BOOLEAN]
      /\ earned \in [Responses -> 0..1] /\ Respondent[q] \in Wallets
  BY Parameters DEF Inductive, TypeOK
<1>3. w \in Established => exists'[w]
  BY <1>1, OthersStay DEF CreatedToEarn
<1>4. SUFFICES ASSUME exists'[w], w \notin Established
               PROVE  \E r \in Of(w) : scoring'[r] = "update" \/ earned'[r] = 1
  BY <1>3 DEF CreatedToEarn, Of
<1>5. CASE exists[w]
  <2>1. PICK r \in Of(w) : scoring[r] = "update" \/ earned[r] = 1
    BY <1>1, <1>4, <1>5 DEF CreatedToEarn
  <2>2. r \in Responses
    BY <2>1 DEF Of
  <2>3. CASE r # q
    BY <2>1, <2>2, <2>3, OthersStay
  <2>4. CASE r = q
    <3>1. CASE Earn(q)
      <4>1. earned' = [earned EXCEPT ![q] = earned[q] + 1] /\ scoring[q] = "update"
        BY <3>1 DEF Earn
      <4>2. earned'[q] = 1
        BY <1>2, <4>1 DEF Inductive, NotYetEarned
      <4>3. QED
        BY <2>1, <2>4, <4>2
    <3>2. CASE Submit(q) \/ CheckAccount(q) \/ InitAccount(q) \/ Persist(q)
      <4>1. earned' = earned /\ scoring[q] # "update"
        BY <3>2 DEF Submit, CheckAccount, InitAccount, SponsorAccount, SponsorThrows, Persist, ghosts
      <4>2. QED
        BY <2>1, <2>4, <4>1
    <3>3. QED
      BY <3>1, <3>2 DEF Scoring
  <2>5. QED
    BY <2>3, <2>4
<1>6. CASE ~exists[w]
  <2>1. InitAccount(q) /\ InitializeScoreAccount(Respondent[q]) /\ scoring'[q] = "update"
    BY <1>2, <1>4, <1>6
       DEF Submit, Scoring, CheckAccount, InitAccount, SponsorAccount, SponsorThrows,
           Earn, Persist, UpdateScore, Goto, accounts
  <2>2. Respondent[q] = w
    BY <1>2, <1>4, <1>6, <2>1 DEF InitializeScoreAccount
  <2>3. q \in Of(w)
    BY <2>2 DEF Of
  <2>4. QED
    BY <2>1, <2>3
<1>7. QED
  BY <1>5, <1>6

(* No step that does not fail takes a score from every first submission.   *)
LEMMA RacingStep == Racing /\ [Next]_vars => Racing'
<1>. SUFFICES ASSUME Racing, [Next]_vars PROVE Racing'
  OBVIOUS
<1>1. Inductive /\ Inductive'
  BY StepInductive DEF Racing
<1>2. SUFFICES ASSUME failures' = 0 PROVE Race'
  BY <1>1 DEF Racing, Race
<1>3. failures = 0 /\ ~Fails
  BY <1>1, <1>2, FailuresStay
<1>4. Race
  BY <1>3 DEF Racing, Race
<1>5. CASE UNCHANGED <<exists, scoring, earned>>
  BY <1>4, <1>5 DEF Race, ScoredWithAccount, EstablishedEarns, CreatedToEarn
<1>6. ASSUME NEW q \in Responses, Submit(q) \/ Scoring(q) PROVE Race'
  <2>1. \A w \in Wallets : CreatedToEarn(w)'
    BY <1>1, <1>3, <1>4, <1>6, CreationEarns
  <2>2. ScoredWithAccount(q)' /\ EstablishedEarns(q)'
    BY <1>1, <1>3, <1>4, <1>6, ScoredResponseEarns
  <2>3. ASSUME NEW r \in Responses, r # q
        PROVE  ScoredWithAccount(r)' /\ EstablishedEarns(r)'
    <3>1. scoring'[r] = scoring[r] /\ earned'[r] = earned[r]
      BY <1>1, <1>6, <2>3, OthersStay
    <3>2. \A w \in Wallets : exists[w] => exists'[w]
      BY <1>1, <1>6, OthersStay
    <3>3. Respondent[r] \in Wallets
      BY Parameters
    <3>4. QED
      BY <1>4, <3>1, <3>2, <3>3 DEF Race, ScoredWithAccount, EstablishedEarns
  <2>4. QED
    BY <2>1, <2>2, <2>3 DEF Race
<1>7. ASSUME NEW d \in Desks,
             (\E r \in Responses, v \in Verdicts : ReadResponse(d, r, v)) \/ Judging(d)
      PROVE  UNCHANGED <<exists, scoring, earned>>
  BY <1>7 DEF ReadResponse, Judging, SaveVerdict, ApplyPenalty, RemovePenalty, MoveScore,
              UpdateScore, accounts, ghosts
<1>8. CASE UNCHANGED vars
  BY <1>5, <1>8 DEF vars, accounts, ghosts
<1>9. QED
  BY <1>3, <1>5, <1>6, <1>7, <1>8 DEF Next, Die

(* Nobody has raced yet.                                                   *)
LEMMA RacingInit == Init => Racing
<1>. SUFFICES ASSUME Init PROVE Racing
  OBVIOUS
<1>1. \A r \in Responses : scoring[r] = "waiting"
  BY DEF Init
<1>2. \A w \in Wallets : exists[w] <=> w \in Established
  BY DEF Init
<1>3. QED
  BY <1>1, <1>2, InitInductive
     DEF Racing, ScoredWithAccount, EstablishedEarns, CreatedToEarn

(* Once every weighted response of a wallet has been scored, one earned.   *)
LEMMA RaceHasWinner == Racing => RaceStillScores
<1>. SUFFICES ASSUME Racing, NEW w \in Wallets, failures = 0, NEW q \in Of(w) \cap Weighted,
                     \A r \in Of(w) \cap Weighted : scoring[r] = "done"
              PROVE  \E r \in Of(w) : earned[r] = 1
  BY DEF RaceStillScores
<1>1. q \in Responses /\ Respondent[q] = w /\ q \in Weighted /\ scoring[q] = "done"
  BY DEF Of
<1>2. CASE w \in Established
  BY <1>1, <1>2 DEF Racing, EstablishedEarns
<1>3. CASE w \notin Established
  <2>1. exists[w]
    BY <1>1 DEF Racing, ScoredWithAccount
  <2>2. PICK r \in Of(w) : scoring[r] = "update" \/ earned[r] = 1
    BY <1>3, <2>1 DEF Racing, CreatedToEarn
  <2>3. scoring[r] # "update"
    <3>1. SUFFICES ASSUME scoring[r] = "update" PROVE FALSE
      OBVIOUS
    <3>2. r \in Weighted
      BY <3>1 DEF Racing, ScoredWithAccount, Of
    <3>3. QED
      BY <3>1, <3>2
  <2>4. QED
    BY <2>2, <2>3
<1>4. QED
  BY <1>2, <1>3

(* However many first submissions of a wallet race to create its account,  *)
(* and whatever creators judge meanwhile: unless a call fails, they do not *)
(* all lose their score.                                                   *)
THEOREM NotAllLoseTheRace == Spec => []RaceStillScores
<1>1. QED
  BY RacingInit, RacingStep, RaceHasWinner, PTL DEF Spec
=============================================================================
