----------------------------- MODULE Reputation -----------------------------
(***************************************************************************)
(* The reputation of a wallet: one score account per wallet on chain,      *)
(* written only by the backend, once after each response of a weighted     *)
(* survey (applyScore) and again whenever a creator rejects a response or  *)
(* takes the rejection back (moderateResponse).                            *)
(*                                                                         *)
(* An action is what happens between two awaits of a handler.  The read    *)
(* of the new score that follows an update only fills a display field and  *)
(* is left out.                                                            *)
(***************************************************************************)
EXTENDS SubmissionScore

CONSTANTS
    Wallets, Responses,
    Respondent,      \* whose response it is
    Weighted,        \* responses to surveys whose rewardType is "weighted"
    Submission,      \* what each response is scored by
    Established,     \* wallets that have a score account from the start
    StartScore,      \* and their score
    Desks,           \* moderation requests that may be in flight at once
    ModerateEarly,   \* may a creator judge a response that is being scored?
    MaxModerations, MaxFailures   \* bounds

MaxScore == 65535    \* global_score is a u16
Fine     == 10       \* the points a rejection costs on top

ASSUME ConstantsAssumption ==
    /\ Respondent \in [Responses -> Wallets]
    /\ Weighted \subseteq Responses /\ Established \subseteq Wallets
    /\ \A r \in Responses : IsSubmission(Submission[r])
    /\ StartScore \in 0..MaxScore
    /\ ModerateEarly \in BOOLEAN
    /\ MaxModerations \in Nat /\ MaxFailures \in Nat

(* The delta of a response in tenths of a point.                           *)
Points == [r \in Responses |-> PointsOf(Submission[r])]

VARIABLES
    (* the chain: the RespondentScoreAccount of each wallet *)
    exists, score, completed,
    (* MongoDB: the responses *)
    moderation,      \* moderationStatus
    delta,           \* scoreDeltaInt
    (* the handlers *)
    scoring,         \* where createSubmission is with each response
    desk,            \* the moderateResponse requests
    (* what the program has applied for each response, unsaturated *)
    earned,          \* by applyScore
    gained,          \* by all updates
    moderations, failures

accounts == <<exists, score, completed>>
docs     == <<moderation, delta>>
ghosts   == <<earned, gained>>
vars     == <<accounts, docs, scoring, desk, ghosts, moderations, failures>>

Verdicts == {"clean", "flagged", "rejected"}
Stages   == {"waiting", "check", "init", "update", "persist", "done"}

Idle == [at |-> "idle"]

(* A request past its read: what it found, and what it does next.          *)
Request(at, r, verdict, previous, points) ==
    [at |-> at, response |-> r, verdict |-> verdict, previous |-> previous, points |-> points]

Init ==
    /\ exists = [w \in Wallets |-> w \in Established]
    /\ score = [w \in Wallets |-> IF w \in Established THEN StartScore ELSE 0]
    /\ completed = [w \in Wallets |-> 0]
    /\ moderation = [r \in Responses |-> "clean"]
    /\ delta = [r \in Responses |-> 0]
    /\ scoring = [r \in Responses |-> "waiting"]
    /\ desk = [d \in Desks |-> Idle]
    /\ earned = [r \in Responses |-> 0]
    /\ gained = [r \in Responses |-> 0]
    /\ moderations = 0 /\ failures = 0

-----------------------------------------------------------------------------
(***************************************************************************)
(* The program                                                             *)
(***************************************************************************)

Lower(a, b)  == IF a < b THEN a ELSE b
Higher(a, b) == IF a > b THEN a ELSE b

(* Mutant: wrapping arithmetic.                                            *)
MovedWrapping(old, points) == (old + points) % (MaxScore + 1)

(* saturating_add and saturating_sub of an amount that fits a u16.         *)
Moved(old, points) == Lower(MaxScore, Higher(0, old + points))

(* update_score: authority-gated, on an account that exists.  Every call   *)
(* counts as a completed survey, a penalty too.                            *)
UpdateScore(r, points) ==
    LET w == Respondent[r]
    IN  /\ exists[w]
        /\ score' = [score EXCEPT ![w] = Moved(@, points)]
        /\ completed' = [completed EXCEPT ![w] = @ + 1]
        /\ gained' = [gained EXCEPT ![r] = @ + points]
        /\ UNCHANGED exists

(* initialize_score_account: fails when the account exists.                *)
InitializeScoreAccount(w) ==
    /\ ~exists[w]
    /\ exists' = [exists EXCEPT ![w] = TRUE]
    /\ score' = [score EXCEPT ![w] = 0]
    /\ completed' = [completed EXCEPT ![w] = 0]

(* An RPC or MongoDB call that goes wrong, or a process that stops.        *)
Fails == failures < MaxFailures /\ failures' = failures + 1

-----------------------------------------------------------------------------
(***************************************************************************)
(* Scoring a response that has just been stored                            *)
(***************************************************************************)

Goto(r, stage) == scoring' = [scoring EXCEPT ![r] = stage]

(* The end of createSubmission: only weighted surveys are scored.          *)
Submit(r) ==
    /\ scoring[r] = "waiting"
    /\ Goto(r, IF r \in Weighted THEN "check" ELSE "done")
    /\ UNCHANGED <<accounts, docs, desk, ghosts, moderations, failures>>

(* Mutant: the account is taken to exist.                                  *)
CheckAccountTrusting(r) ==
    /\ scoring[r] = "check"
    /\ Goto(r, "update")
    /\ UNCHANGED <<accounts, docs, desk, ghosts, moderations, failures>>

(* scoreAccountExists takes an error for an absent account.                *)
CheckAccount(r) ==
    /\ scoring[r] = "check"
    /\ \/ /\ Goto(r, IF exists[Respondent[r]] THEN "update" ELSE "init")
          /\ UNCHANGED failures
       \/ Fails /\ Goto(r, "init")
    /\ UNCHANGED <<accounts, docs, desk, ghosts, moderations>>

(* Mutants: hasScoreAccount is not set; the error is not caught.           *)
InitAccountForgotten(r) ==
    /\ scoring[r] = "init"
    /\ \/ InitializeScoreAccount(Respondent[r])
       \/ exists[Respondent[r]] /\ UNCHANGED accounts
    /\ Goto(r, "persist")
    /\ UNCHANGED <<docs, desk, ghosts, moderations, failures>>

InitAccountUncaught(r) ==
    /\ scoring[r] = "init"
    /\ InitializeScoreAccount(Respondent[r])
    /\ Goto(r, "update")
    /\ UNCHANGED <<docs, desk, ghosts, moderations, failures>>

(* SolanaService.initializeScoreAccount, paid by the authority.  It throws *)
(* when a concurrent submission was faster, and also when the transaction  *)
(* has landed but its confirmation timed out.                              *)
SponsorAccount(w) == InitializeScoreAccount(w) /\ UNCHANGED failures

SponsorThrows(w) ==
    \/ exists[w] /\ UNCHANGED <<accounts, failures>>
    \/ Fails /\ (InitializeScoreAccount(w) \/ UNCHANGED accounts)

(* applyScore swallows that error, and the score is skipped.               *)
InitAccount(r) ==
    /\ scoring[r] = "init"
    /\ \/ SponsorAccount(Respondent[r]) /\ Goto(r, "update")
       \/ SponsorThrows(Respondent[r]) /\ Goto(r, "persist")
    /\ UNCHANGED <<docs, desk, ghosts, moderations>>

(* updateScore; a transaction whose confirmation timed out may have landed.*)
Earn(r) ==
    /\ scoring[r] = "update"
    /\ \/ /\ UpdateScore(r, Points[r])
          /\ earned' = [earned EXCEPT ![r] = @ + 1]
          /\ Fails \/ UNCHANGED failures
       \/ Fails /\ UNCHANGED <<accounts, ghosts>>
    /\ Goto(r, "persist")
    /\ UNCHANGED <<docs, desk, moderations>>

(* The delta is saved whether or not it has been applied on chain; an      *)
(* error of the save is swallowed.                                         *)
Persist(r) ==
    /\ scoring[r] = "persist"
    /\ \/ delta' = [delta EXCEPT ![r] = Points[r]] /\ UNCHANGED failures
       \/ Fails /\ UNCHANGED delta
    /\ Goto(r, "done")
    /\ UNCHANGED <<accounts, moderation, desk, ghosts, moderations>>

-----------------------------------------------------------------------------
(***************************************************************************)
(* Moderation                                                              *)
(***************************************************************************)

(* moderateResponse reads the response ...                                 *)
ReadResponse(d, r, verdict) ==
    /\ desk[d] = Idle
    /\ moderations < MaxModerations
    /\ scoring[r] = "done" \/ (ModerateEarly /\ scoring[r] # "waiting")
    /\ desk' = [desk EXCEPT ![d] = Request("save", r, verdict, moderation[r], delta[r])]
    /\ moderations' = moderations + 1
    /\ UNCHANGED <<accounts, docs, scoring, ghosts, failures>>

(* Mutant: only a clean response is penalised.                             *)
ConsequenceOfClean(verdict, previous) ==
    IF verdict = "rejected" /\ previous = "clean" THEN "penalise"
    ELSE IF verdict = "clean" /\ previous = "rejected" THEN "restore" ELSE "idle"

(* ... decides by the status it has read ...                               *)
Consequence(verdict, previous) ==
    IF verdict = "rejected" /\ previous # "rejected" THEN "penalise"
    ELSE IF verdict = "clean" /\ previous = "rejected" THEN "restore" ELSE "idle"

(* ... after it has saved the new one ...                                  *)
SaveVerdict(d) ==
    /\ desk[d].at = "save"
    /\ LET req  == desk[d]
           next == Consequence(req.verdict, req.previous)
       IN  /\ moderation' = [moderation EXCEPT ![req.response] = req.verdict]
           /\ desk' = [desk EXCEPT ![d] =
                IF next = "idle" THEN Idle
                ELSE Request(next, req.response, req.verdict, req.previous, req.points)]
    /\ UNCHANGED <<accounts, delta, scoring, ghosts, moderations, failures>>

(* ... and moves the score, by what the response said before.  An update   *)
(* that fails, for want of an account for instance, is logged and dropped. *)
MoveScore(d, points) ==
    /\ \/ UpdateScore(desk[d].response, points) /\ UNCHANGED failures
       \/ /\ ~exists[Respondent[desk[d].response]]
          /\ UNCHANGED <<accounts, gained, failures>>
       \/ Fails /\ UNCHANGED <<accounts, gained>>
    /\ desk' = [desk EXCEPT ![d] = Idle]
    /\ UNCHANGED <<docs, scoring, earned, moderations>>

ApplyPenalty(d)  == desk[d].at = "penalise" /\ MoveScore(d, -(desk[d].points + Fine))
RemovePenalty(d) == desk[d].at = "restore" /\ MoveScore(d, desk[d].points + Fine)

(* A handler dies between two awaits.                                      *)
Die ==
    /\ Fails
    /\ \/ \E r \in Responses : /\ scoring[r] \notin {"waiting", "done"}
                               /\ Goto(r, "done")
                               /\ UNCHANGED desk
       \/ \E d \in Desks : /\ desk[d] # Idle
                           /\ desk' = [desk EXCEPT ![d] = Idle]
                           /\ UNCHANGED scoring
    /\ UNCHANGED <<accounts, docs, ghosts, moderations>>

-----------------------------------------------------------------------------

Scoring(r) == CheckAccount(r) \/ InitAccount(r) \/ Earn(r) \/ Persist(r)

Judging(d) == SaveVerdict(d) \/ ApplyPenalty(d) \/ RemovePenalty(d)

Next ==
    \/ \E r \in Responses : Submit(r) \/ Scoring(r)
    \/ \E d \in Desks : \/ \E r \in Responses, v \in Verdicts : ReadResponse(d, r, v)
                        \/ Judging(d)
    \/ Die

(* The event loop resumes a handler whose await has settled.               *)
Spec == /\ Init /\ [][Next]_vars
        /\ \A r \in Responses : WF_vars(Scoring(r))
        /\ \A d \in Desks : WF_vars(Judging(d))

-----------------------------------------------------------------------------
(***************************************************************************)
(* Properties                                                              *)
(***************************************************************************)

Of(w) == {r \in Responses : Respondent[r] = w}

AtRest(r) == scoring[r] = "done" /\ \A d \in Desks : desk[d] # Idle => desk[d].response # r

(* The types; a score is a u16 however it was moved, no response earns its *)
(* points twice and no handler updates an account that does not exist.     *)
TypeOK ==
    /\ exists \in [Wallets -> BOOLEAN]
    /\ score \in [Wallets -> 0..MaxScore]
    /\ completed \in [Wallets -> Nat]
    /\ moderation \in [Responses -> Verdicts]
    /\ delta \in [Responses -> Nat]
    /\ scoring \in [Responses -> Stages]
    /\ \A r \in Responses : scoring[r] = "update" => exists[Respondent[r]]
    /\ desk \in [Desks -> {Idle} \cup
                 [at : {"save", "penalise", "restore"}, response : Responses,
                  verdict : Verdicts, previous : Verdicts, points : Nat]]
    /\ earned \in [Responses -> 0..1]
    /\ gained \in [Responses -> Int]
    /\ moderations \in 0..MaxModerations /\ failures \in 0..MaxFailures

(* A rejected response costs its respondent points, whichever way it came  *)
(* to be rejected, and also when its own score was skipped.                *)
RejectedNeverGains ==
    failures = 0 =>
       \A r \in Weighted : AtRest(r) /\ moderation[r] = "rejected" => gained[r] <= -Fine

(* No chain of verdicts makes a response worth more than its points: what  *)
(* is given back has been taken before.                                    *)
NeverWorthMoreThanItsPoints ==
    failures = 0 => \A r \in Weighted : gained[r] <= Points[r]

(* When several first submissions of a new wallet race to create its       *)
(* account, all but one may lose their score, never all of them.           *)
RaceStillScores ==
    \A w \in Wallets :
       (/\ failures = 0
        /\ Of(w) \cap Weighted # {}
        /\ \A r \in Of(w) \cap Weighted : scoring[r] = "done")
       => \E r \in Of(w) : earned[r] = 1

(* A score only falls by a penalty and only rises by what a response       *)
(* gains, at the limits of its type too.                                   *)
ScoreMovesWithVerdicts ==
    [][\A w \in Wallets :
          /\ score'[w] < score[w] =>
                \E d \in Desks : desk[d].at = "penalise" /\ Respondent[desk[d].response] = w
          /\ score'[w] > score[w] => \E r \in Of(w) : gained'[r] > gained[r]]_vars

(* Whatever goes wrong on chain, the scoring of a submission ends ("must   *)
(* never fail the submission itself").                                     *)
ScoringEnds == \A r \in Responses : scoring[r] = "check" ~> scoring[r] = "done"

-----------------------------------------------------------------------------
(***************************************************************************)
(* The inductive invariant                                                 *)
(***************************************************************************)

(* Nothing is earned before the update.                                    *)
NotYetEarned ==
    \A r \in Responses : scoring[r] \notin {"persist", "done"} => earned[r] = 0

Inductive == TypeOK /\ NotYetEarned

(* Creating an account takes no score away.                                *)
NoScoreYet == \A w \in Wallets : ~exists[w] => score[w] = 0

(* One creator who judges one response at a time, after it was scored.     *)
Serial == ~ModerateEarly /\ \A d, e \in Desks : d = e

On(d, r) == desk[d] # Idle /\ desk[d].response = r

(* The penalty for r has been applied and not been taken back.             *)
InForce(r) ==
    \/ \E d \in Desks : On(d, r) /\ desk[d].at = "restore"
    \/ moderation[r] = "rejected" /\ \A d \in Desks : ~(On(d, r) /\ desk[d].at = "penalise")

(* A response is judged only after its delta has been saved.               *)
ScoredThenJudged(r) ==
    /\ scoring[r] \notin {"persist", "done"} => gained[r] = 0
    /\ scoring[r] \in {"update", "persist", "done"} => exists[Respondent[r]]
    /\ scoring[r] = "done" => delta[r] = Points[r]
    /\ scoring[r] # "done" => moderation[r] = "clean" /\ \A d \in Desks : ~On(d, r)

(* A request knows what it needs to know of its response.                  *)
Informed(d) ==
    desk[d] # Idle /\ desk[d].response \in Weighted =>
       /\ desk[d].points = Points[desk[d].response]
       /\ desk[d].at = "save" => desk[d].previous = moderation[desk[d].response]
       /\ desk[d].at = "penalise" => moderation[desk[d].response] = "rejected"
       /\ desk[d].at = "restore" => moderation[desk[d].response] = "clean"

(* What a response is worth follows from whether its penalty is in force.  *)
WorthFollowsPenalty(r) ==
    gained[r] <= IF InForce(r) THEN -Fine ELSE Points[r]

SerialInductive ==
    /\ Inductive
    /\ failures = 0 =>
          /\ \A r \in Weighted : ScoredThenJudged(r) /\ WorthFollowsPenalty(r)
          /\ \A d \in Desks : Informed(d)

(* Only weighted responses are scored; an update needs an account, and so  *)
(* does everything that follows it.                                        *)
ScoredWithAccount(r) ==
    /\ scoring[r] \notin {"waiting", "done"} => r \in Weighted
    /\ r \in Weighted /\ scoring[r] \in {"update", "persist", "done"} => exists[Respondent[r]]

(* A wallet that has had its account from the start loses no score.        *)
EstablishedEarns(r) ==
    r \in Weighted /\ Respondent[r] \in Established =>
       /\ scoring[r] # "init"
       /\ scoring[r] \in {"persist", "done"} => earned[r] = 1

(* A new account has been created for the response that earns with it.     *)
CreatedToEarn(w) ==
    /\ w \in Established => exists[w]
    /\ exists[w] /\ w \notin Established =>
         \E r \in Of(w) : scoring[r] = "update" \/ earned[r] = 1

Racing ==
    /\ Inductive
    /\ failures = 0 =>
          /\ \A r \in Responses : ScoredWithAccount(r) /\ EstablishedEarns(r)
          /\ \A w \in Wallets : CreatedToEarn(w)
=============================================================================
