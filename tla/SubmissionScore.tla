-------------------------- MODULE SubmissionScore ---------------------------
(***************************************************************************)
(* ScoreService.calculateSubmissionScore: five metrics that are worth 0,   *)
(* 0.5 or 1 each.  They are counted in halves here, and the total in the   *)
(* tenths that applyScore rounds it to.                                    *)
(***************************************************************************)
EXTENDS Integers, FiniteSets

Question == [required : BOOLEAN, longText : BOOLEAN, minWords : Nat]

(* words is 0 for an answer that is not a text; a question that has not    *)
(* been answered counts as an empty answer.                                *)
Answer == [nonEmpty : BOOLEAN, words : Nat]

Sol == 1000000000    \* lamports

(* What the metrics read: the time from the opening of the form to the     *)
(* submission in milliseconds (the browser sent the first, so that it may  *)
(* be negative), the wallet's age in days and its balance in lamports.     *)
IsSubmission(s) ==
    /\ IsFiniteSet(DOMAIN s.questions)
    /\ s.questions \in [DOMAIN s.questions -> Question]
    /\ s.answers \in [DOMAIN s.questions -> Answer]
    /\ s.elapsed \in Int /\ s.age \in Int /\ s.balance \in Int

(* All the required questions, or at least 70 % of them.                   *)
CompletionRate(s) ==
    LET required == {q \in DOMAIN s.questions : s.questions[q].required}
        answered == {q \in required : s.answers[q].nonEmpty}
    IN  IF answered = required THEN 2
        ELSE IF 10 * Cardinality(answered) >= 7 * Cardinality(required) THEN 1 ELSE 0

(* Every long text has its words, or at least 80 % of them.                *)
ResponseDepth(s) ==
    LET deep == {q \in DOMAIN s.questions :
                    s.questions[q].longText /\ s.questions[q].minWords > 0}
        Reached(num, den) ==
            \A q \in deep : den * s.answers[q].words >= num * s.questions[q].minWords
    IN  IF Reached(1, 1) THEN 2 ELSE IF Reached(4, 5) THEN 1 ELSE 0

(* 15 seconds per question at least, a week at most.                       *)
Consistency(s) ==
    IF s.elapsed < 15000 * Cardinality(DOMAIN s.questions) THEN 0
    ELSE IF s.elapsed > 604800000 THEN 1 ELSE 2

WalletHistory(s) ==
    LET age     == IF s.age >= 90 THEN 2 ELSE IF s.age >= 30 THEN 1 ELSE 0
        balance == IF s.balance >= Sol THEN 2
                   ELSE IF s.balance >= 100000000 THEN 1 ELSE 0
    IN  IF age + balance >= 3 THEN 2 ELSE IF age + balance >= 1 THEN 1 ELSE 0

CreatorRating == 2

(* Math.round(total * 10)                                                  *)
PointsOf(s) ==
    5 * (CompletionRate(s) + ResponseDepth(s) + Consistency(s) + WalletHistory(s) + CreatorRating)
=============================================================================
