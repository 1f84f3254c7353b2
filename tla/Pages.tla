-------------------------------- MODULE Pages --------------------------------
(***************************************************************************)
(* What one browser shows of one survey: the creator's dashboard with its  *)
(* settings tab, and the page on which the survey is filled in, with the   *)
(* handlers of the backend they call.                                      *)
(*                                                                         *)
(* The browser has one tab, in which the pages take turns and the wallet   *)
(* may change at any time.  A page learns about the survey only from the   *)
(* answers of its calls.  A call goes on when its page is left, and what it *)
(* does then is done as from another browser (`Elsewhere`).  The handlers  *)
(* are atomic here: how they interleave is the matter of Submissions and   *)
(* Payout.                                                                 *)
(***************************************************************************)
EXTENDS FiniteSets, Integers

CONSTANTS
    Creator, Respondents, None,
    Eligible,        \* those that meet the survey's wallet requirements
    MaxResponses,
    Answers, Blank,  \* what the fields of the survey may hold; nothing
    Valid,           \* the answers without validation errors
    MaxTasks,        \* bound: calls of the settings tab under way at a time
    MaxListings      \* bound: calls of getForms under way at a time

ASSUME AccountsAssumption == Creator \notin Respondents /\ None \notin Respondents \cup {Creator}
ASSUME EligibleAssumption == Eligible \subseteq Respondents
ASSUME AnswersAssumption  == Blank \in Answers /\ Valid \subseteq Answers
ASSUME BoundAssumption    == MaxResponses \in Nat \ {0} /\ {MaxTasks, MaxListings} \subseteq Nat

Accounts == Respondents \cup {Creator}

VARIABLES
    (* the backend *)
    status,       \* of the form document: "active", "closed" or "deleted"
    paid,         \* rewardDistributed
    expired,      \* closesAt has passed
    stored,       \* the wallets whose responses are stored
    (* the browser *)
    wallet, page,
    (* Dashboard *)
    row,          \* the survey in the list, or NoRow
    listings,     \* calls of getForms under way: Asked, or what they will show
    tasks,        \* the other calls, by what they are for
    (* SurveyFill *)
    form, failed, \* the survey is loaded; its last load failed
    loading, lookups, checks,  \* loads, look-ups and checks whose answers will count
    already,      \* alreadySubmitted
    verdict,      \* sybilCheck, and whom it is about
    answers, draft,            \* the fields; their copy in sessionStorage
    submissions,  \* calls of submitResponse under way
    submitted

backendVars == <<status, paid, expired, stored>>
dashVars == <<row, listings, tasks>>
loadVars == <<form, failed, loading, lookups, checks, already, verdict>>
fillVars == <<loadVars, answers, draft, submissions, submitted>>
vars == <<backendVars, wallet, page, dashVars, fillVars>>

-----------------------------------------------------------------------------
(***************************************************************************)
(* The backend                                                             *)
(***************************************************************************)

Rows  == [status : {"active", "closed"}, paid : BOOLEAN]
NoRow == [status |-> "none", paid |-> FALSE]
Asked == [status |-> "asked", paid |-> FALSE]

Full == Cardinality(stored) >= MaxResponses

(* deriveStatus: what a list shows of a survey that is not deleted.        *)
DerivedStatus == IF Full \/ status = "closed" \/ expired THEN "closed" ELSE "active"

(* getFormsByCreator, of the creator.                                      *)
Listed ==
    IF status = "deleted" THEN NoRow ELSE [status |-> DerivedStatus, paid |-> paid]

(* createSubmission: neither the derived status nor closesAt matters.      *)
Accepts(w) == status = "active" /\ w \in Eligible /\ w \notin stored /\ ~Full

(* buildCloseTx and confirmClose; distributeRewards, which also ends       *)
(* without the mark, when a response has come in meanwhile (Payout);       *)
(* deleteSurveyData, which goes by the stored status.                      *)
Closing == status = "active" /\ status' = "closed" /\ UNCHANGED <<paid, stored>>

Distributing ==
    /\ status # "deleted" /\ ~paid /\ stored # {}
    /\ paid' \in BOOLEAN /\ UNCHANGED <<status, stored>>

Deleting == status = "closed" /\ status' = "deleted" /\ stored' = {} /\ UNCHANGED paid

(* updateSurveySettings.                                                   *)
Saving == status # "deleted" /\ UNCHANGED <<status, paid, stored>>

Accepting(w) == Accepts(w) /\ stored' = stored \cup {w} /\ UNCHANGED <<status, paid>>

(* Another browser, or a call whose page was left.                         *)
Elsewhere ==
    /\ Closing \/ Distributing \/ Deleting \/ \E w \in Respondents : Accepting(w)
    /\ UNCHANGED <<expired, wallet, page, dashVars, fillVars>>

Expire ==
    /\ ~expired /\ expired' = TRUE
    /\ UNCHANGED <<status, paid, stored, wallet, page, dashVars, fillVars>>

-----------------------------------------------------------------------------
(***************************************************************************)
(* The tab                                                                 *)
(***************************************************************************)

Kinds == {"close", "distribute", "end", "save", "delete"}
Idle  == [stage |-> "idle", row |-> NoRow]
Unchecked == [of |-> None, passed |-> FALSE]

Unmounted ==
    /\ form' = FALSE /\ failed' = FALSE /\ loading' = FALSE /\ lookups' = {} /\ checks' = {}
    /\ already' = FALSE /\ verdict' = Unchecked /\ submitted' = FALSE

Init ==
    /\ status = "active" /\ paid = FALSE /\ expired = FALSE /\ stored = {}
    /\ wallet = None /\ page = "away"
    /\ row = NoRow /\ listings = {} /\ tasks = [k \in Kinds |-> Idle]
    /\ form = FALSE /\ failed = FALSE /\ loading = FALSE /\ lookups = {} /\ checks = {}
    /\ already = FALSE /\ verdict = Unchecked
    /\ answers = Blank /\ draft = Blank /\ submissions = {} /\ submitted = FALSE

(* getForms asks for the surveys of the wallet; without a session it fails.*)
Request(w) == IF w = Creator THEN Asked ELSE NoRow

OpenDashboard ==
    /\ page = "away" /\ page' = "dashboard"
    /\ listings' = {Request(wallet)}
    /\ UNCHANGED <<backendVars, wallet, row, tasks, fillVars>>

LeaveDashboard ==
    /\ page = "dashboard" /\ page' = "away"
    /\ row' = NoRow /\ listings' = {}
    /\ tasks' = [k \in Kinds |-> Idle]
    /\ UNCHANGED <<backendVars, wallet, fillVars>>

(* Mounting: the fields come from the draft; the survey is loaded, and it  *)
(* is looked up whether the wallet has responded.                          *)
OpenSurvey ==
    /\ page = "away" /\ page' = "fill"
    /\ answers' = draft
    /\ form' = FALSE /\ failed' = FALSE /\ loading' = TRUE
    /\ lookups' = {wallet} \ {None} /\ checks' = {}
    /\ already' = FALSE /\ verdict' = Unchecked /\ submitted' = FALSE
    /\ UNCHANGED <<backendVars, wallet, dashVars, draft, submissions>>

LeaveSurvey ==
    /\ page = "fill" /\ page' = "away"
    /\ Unmounted /\ answers' = Blank
    /\ submissions' = {[s EXCEPT !.heard = FALSE] : s \in submissions}
    /\ UNCHANGED <<backendVars, wallet, dashVars, draft>>

(* Mutant: the effects of the wallet before are not cancelled.             *)
SwitchWalletUncancelled(w) ==
    /\ w # wallet /\ wallet' = w /\ Cardinality(listings) < MaxListings
    /\ listings' = IF page = "dashboard"
                   THEN listings \cup {Request(w)} ELSE listings
    /\ IF page = "fill"
       THEN /\ loading' = TRUE /\ failed' = FALSE
            /\ lookups' = lookups \cup ({w} \ {None})
            /\ checks' = checks \cup (IF form THEN {w} \ {None} ELSE {})
       ELSE UNCHANGED <<loading, failed, lookups, checks>>
    /\ UNCHANGED <<backendVars, page, row, tasks, form, already, verdict, answers, draft,
                   submissions, submitted>>

(* Another wallet: the dashboard lists its surveys, and nothing cancels    *)
(* the call for the wallet before; the effects of the other page are       *)
(* cancelled, what they told so far is kept.                               *)
SwitchWallet(w) ==
    /\ w # wallet /\ wallet' = w /\ Cardinality(listings) < MaxListings
    /\ listings' = IF page = "dashboard"
                   THEN listings \cup {Request(w)} ELSE listings
    /\ IF page = "fill"
       THEN /\ loading' = TRUE /\ failed' = FALSE
            /\ lookups' = {w} \ {None}
            /\ checks' = IF form THEN {w} \ {None} ELSE {}
       ELSE UNCHANGED <<loading, failed, lookups, checks>>
    /\ UNCHANGED <<backendVars, page, row, tasks, form, already, verdict, answers, draft,
                   submissions, submitted>>

-----------------------------------------------------------------------------
(***************************************************************************)
(* Dashboard                                                               *)
(***************************************************************************)

AnswerListing(l) ==
    /\ l = Asked
    /\ listings' = (listings \ {l}) \cup {Listed}
    /\ UNCHANGED <<backendVars, wallet, page, row, tasks, fillVars>>

(* An answer replaces the list; an error empties it.                       *)
ShowListing(l) ==
    /\ listings' = listings \ {l}
    /\ row' = IF l = Asked THEN NoRow ELSE l
    /\ UNCHANGED <<backendVars, wallet, page, tasks, fillVars>>

Running(k) == tasks[k].stage # "idle"

(* The buttons of the table and of the settings tab.                       *)
Offered(k) ==
    CASE k = "close"      -> row.status = "active" /\ ~row.paid
      [] k = "distribute" -> ~row.paid
      [] k = "end"        -> row.status = "active" /\ ~Running("delete")
      [] k = "delete"     -> row.status = "closed" /\ ~Running("end")
      [] k = "save"       -> TRUE

(* A click; the modal of a close covers the other buttons.  The backend    *)
(* refuses the calls of any other wallet.                                  *)
Begin(k) ==
    /\ page = "dashboard" /\ row # NoRow /\ wallet = Creator
    /\ ~Running(k) /\ Offered(k) /\ ~Running("close")
    /\ Cardinality({j \in Kinds : Running(j)}) < MaxTasks
    /\ tasks' = [tasks EXCEPT ![k] =
                    [stage |-> "asked", row |-> IF k = "save" THEN row ELSE NoRow]]
    /\ UNCHANGED <<backendVars, wallet, page, row, listings, fillVars>>

Reach(k, stage) == tasks' = [tasks EXCEPT ![k].stage = stage]

tabVars == <<wallet, page, row, listings, fillVars>>

Ends(k) == tasks' = [tasks EXCEPT ![k] = Idle]

Do(k, stage, step, next) ==
    /\ tasks[k].stage = stage
    /\ step /\ Reach(k, next)
    /\ UNCHANGED <<expired, tabVars>>

(* The settings tab saves the title and the description; closing a survey  *)
(* there also distributes its rewards.                                     *)
Serve(k) ==
    CASE k = "close"      -> Do(k, "asked", Closing, "done")
      [] k = "distribute" -> Do(k, "asked", Distributing, "done")
      [] k = "end"        -> \/ Do(k, "asked", Closing, "closed")
                             \/ Do(k, "closed", Distributing, "done")
      [] k = "delete"     -> Do(k, "asked", Deleting, "done")
      [] k = "save"       -> Do(k, "asked", Saving, "done")

(* The backend refuses, the user does not sign, a call or its answer is    *)
(* lost: an error is shown, and the row stays.                             *)
Break(k) ==
    /\ Running(k) /\ Ends(k)
    /\ UNCHANGED <<backendVars, tabVars>>

(* The row after a call that succeeded: `save` puts back the survey as it  *)
(* was shown when it was started.                                          *)
Shown(k) ==
    CASE k = "close"      -> [row EXCEPT !.status = "closed"]
      [] k = "distribute" -> [row EXCEPT !.paid = TRUE]
      [] k = "end"        -> [status |-> "closed", paid |-> TRUE]
      [] k = "save"       -> tasks[k].row
      [] k = "delete"     -> NoRow

(* Mutant: the row is updated whether the call succeeded or not.           *)
TellAnyway(k) ==
    /\ Running(k) /\ Ends(k)
    /\ row' = IF row = NoRow THEN NoRow ELSE Shown(k)
    /\ UNCHANGED <<backendVars, wallet, page, listings, fillVars>>

(* Mutant: a row that is gone is updated.                                  *)
TellUnseen(k) ==
    /\ tasks[k].stage = "done" /\ Ends(k)
    /\ row' = Shown(k)
    /\ UNCHANGED <<backendVars, wallet, page, listings, fillVars>>

(* The answer updates the row, if it is still there.                       *)
Tell(k) ==
    /\ tasks[k].stage = "done" /\ Ends(k)
    /\ row' = IF row = NoRow THEN NoRow ELSE Shown(k)
    /\ UNCHANGED <<backendVars, wallet, page, listings, fillVars>>

-----------------------------------------------------------------------------
(***************************************************************************)
(* SurveyFill                                                              *)
(***************************************************************************)

askVars == <<backendVars, wallet, page, dashVars, answers, draft, submissions, submitted>>

(* getFormById answers: a new form starts a new check of the wallet.       *)
Loaded ==
    /\ loading /\ status # "deleted"
    /\ form' = TRUE /\ loading' = FALSE
    /\ checks' = {wallet} \ {None}
    /\ UNCHANGED <<failed, lookups, already, verdict, askVars>>

(* Mutant: the error is shown next to a page that goes on loading.         *)
NotLoadedYet ==
    /\ loading /\ ~failed
    /\ failed' = TRUE
    /\ UNCHANGED <<form, loading, lookups, checks, already, verdict, askVars>>

NotLoaded ==
    /\ loading
    /\ failed' = TRUE /\ loading' = FALSE
    /\ UNCHANGED <<form, lookups, checks, already, verdict, askVars>>

(* getSubmissions answers, or fails and changes nothing.                   *)
LookedUp(w) ==
    /\ lookups' = lookups \ {w}
    /\ already' \in {(w \in stored), already}
    /\ UNCHANGED <<form, failed, loading, checks, verdict, askVars>>

(* checkSybilEligibility answers; when it fails the wallet may try.        *)
Checked(w) ==
    /\ checks' = checks \ {w}
    /\ \E passed \in {(w \in Eligible), TRUE} : verdict' = [of |-> w, passed |-> passed]
    /\ UNCHANGED <<form, failed, loading, lookups, already, askVars>>

(* The questions are shown and can be answered.                            *)
Open ==
    /\ page = "fill" /\ ~loading /\ ~failed /\ form
    /\ wallet \notin {None, Creator} /\ ~already /\ ~submitted /\ verdict.passed

Answer(a) ==
    /\ Open /\ a # answers
    /\ answers' = a /\ draft' = a
    /\ UNCHANGED <<backendVars, wallet, page, dashVars, loadVars, submissions, submitted>>

Submitting == \E s \in submissions : s.heard

(* Mutant: the draft is removed as soon as the answers are sent.           *)
SubmitAndForget ==
    /\ Open /\ answers \in Valid /\ ~Submitting
    /\ submissions' = submissions \cup {[by |-> wallet, stage |-> "sent", heard |-> TRUE]}
    /\ draft' = Blank
    /\ UNCHANGED <<backendVars, wallet, page, dashVars, loadVars, answers, submitted>>

(* handleSubmit.                                                           *)
Submit ==
    /\ Open /\ answers \in Valid /\ ~Submitting
    /\ submissions' = submissions \cup {[by |-> wallet, stage |-> "sent", heard |-> TRUE]}
    /\ UNCHANGED <<backendVars, wallet, page, dashVars, loadVars, answers, draft, submitted>>

Becomes(s, stage) == submissions' = (submissions \ {s}) \cup {[s EXCEPT !.stage = stage]}

(* createSubmission stores the response, ...                               *)
Accept(s) ==
    /\ s.stage = "sent" /\ Accepts(s.by)
    /\ stored' = stored \cup {s.by}
    /\ Becomes(s, "accepted")
    /\ UNCHANGED <<status, paid, expired, wallet, page, dashVars, loadVars, answers, draft,
                   submitted>>

(* ... or refuses it; the call or the answer may be lost as well.          *)
Refuse(s) ==
    /\ s.stage \in {"sent", "accepted"}
    /\ Becomes(s, "failed")
    /\ UNCHANGED <<backendVars, wallet, page, dashVars, loadVars, answers, draft, submitted>>

(* The draft is removed also by a call whose page was left.                *)
Told(s) ==
    /\ s.stage \in {"accepted", "failed"}
    /\ submissions' = submissions \ {s}
    /\ draft' = IF s.stage = "accepted" THEN Blank ELSE draft
    /\ submitted' = (submitted \/ (s.stage = "accepted" /\ s.heard))
    /\ UNCHANGED <<backendVars, wallet, page, dashVars, loadVars, answers>>

SubmissionStep(s) == Accept(s) \/ Refuse(s) \/ Told(s)

Next ==
    \/ Elsewhere \/ Expire \/ OpenDashboard \/ LeaveDashboard \/ OpenSurvey \/ LeaveSurvey
    \/ \E w \in Accounts \cup {None} : SwitchWallet(w)
    \/ \E l \in listings : AnswerListing(l) \/ ShowListing(l)
    \/ \E k \in Kinds : Begin(k) \/ Serve(k) \/ Break(k) \/ Tell(k)
    \/ Loaded \/ NotLoaded
    \/ \E w \in lookups : LookedUp(w)
    \/ \E w \in checks : Checked(w)
    \/ \E a \in Answers : Answer(a)
    \/ Submit
    \/ \E s \in submissions : SubmissionStep(s)

(* Every call returns or fails, sooner than the user changes the wallet    *)
(* for ever.                                                               *)
Fairness ==
    /\ WF_vars(Loaded \/ NotLoaded)
    /\ WF_vars(\E s \in submissions : s.heard /\ SubmissionStep(s))

Spec == Init /\ [][Next]_vars /\ Fairness

-----------------------------------------------------------------------------
TypeOK ==
    /\ status \in {"active", "closed", "deleted"} /\ paid \in BOOLEAN /\ expired \in BOOLEAN
    /\ stored \subseteq Eligible /\ Cardinality(stored) <= MaxResponses
    /\ wallet \in Accounts \cup {None} /\ page \in {"away", "dashboard", "fill"}
    /\ row \in Rows \cup {NoRow}
    /\ listings \subseteq Rows \cup {NoRow, Asked}
    /\ tasks \in [Kinds -> [stage : {"idle", "asked", "closed", "done"}, row : Rows \cup {NoRow}]]
    /\ form \in BOOLEAN /\ failed \in BOOLEAN /\ loading \in BOOLEAN
    /\ lookups \subseteq Accounts /\ checks \subseteq Accounts /\ already \in BOOLEAN
    /\ verdict \in [of : Accounts \cup {None}, passed : BOOLEAN]
    /\ answers \in Answers /\ draft \in Answers
    /\ submissions \subseteq [by : Respondents, stage : {"sent", "accepted", "failed"},
                              heard : BOOLEAN]
    /\ submitted \in BOOLEAN

(* Nobody can respond any more.                                            *)
Over == \A w \in Respondents : ~Accepts(w)

(* A survey shown as closed before its closing date is over: the backend   *)
(* accepts no response any more.  The rows come from lists that were asked *)
(* for earlier, or by another wallet, from calls that succeeded, failed or *)
(* overlapped, and from a settings tab that puts an old row back.  Nothing *)
(* is said of a survey whose date has passed: see ClosesOnTime.            *)
ClosedMeansOver ==
    row.status = "closed" /\ ~expired => Over

(* What the builder says next to the closing date (FormBuilder.tsx, "Survey *)
(* closes automatically when this time is reached"): afterwards no response *)
(* is stored.  The code does not keep it: createSubmission never looks at  *)
(* closesAt.                                                               *)
ClosesOnTime == [][expired => stored' \subseteq stored]_vars

(* Once the checks under way are answered, the verdict a respondent sees   *)
(* is about the wallet that is connected, and no eligible wallet is turned *)
(* away, however often the wallet was changed and the survey reloaded.     *)
VerdictIsOwn ==
    page = "fill" /\ form /\ ~loading /\ checks = {} /\ wallet # None =>
       verdict.of = wallet /\ (wallet \in Eligible => verdict.passed)

(* The answers on the page survive a reload as long as the backend has not *)
(* taken a response from anybody: a failed, refused or repeated submission *)
(* loses nothing that was typed.                                           *)
AnswersKept == page = "fill" /\ answers # draft => stored # {} \/ status = "deleted"

(* The page does not load for ever, and the button that submits is enabled *)
(* again.                                                                  *)
PageSettles ==
    /\ loading ~> ~loading
    /\ Submitting ~> ~Submitting

-----------------------------------------------------------------------------
(* The inductive invariant: what is still on its way to the list is as     *)
(* true as the list, ...                                                   *)
LateRowsAreTrue ==
    ~expired =>
       /\ \A l \in listings : l.status = "closed" => Over
       /\ \A k \in Kinds : tasks[k].row.status = "closed" => Over
       /\ \A k \in {"close", "end"} : tasks[k].stage \in {"closed", "done"} => Over

(* ... nobody but the wallet that is connected is being checked, and it is *)
(* if the verdict is not its own, ...                                      *)
ChecksAreOwn ==
    /\ checks \subseteq {wallet} \ {None}
    /\ page # "fill" => checks = {} /\ ~loading
    /\ page = "fill" /\ form /\ wallet \notin checks \cup {None} =>
          verdict.of = wallet /\ (wallet \in Eligible => verdict.passed)

(* ... and a submission that will be told it was accepted was.             *)
AcceptedIsStored ==
    \A s \in submissions : s.stage = "accepted" => stored # {} \/ status = "deleted"

Inductive ==
    /\ TypeOK /\ IsFiniteSet(stored)
    /\ ClosedMeansOver /\ LateRowsAreTrue
    /\ ChecksAreOwn
    /\ AnswersKept /\ AcceptedIsStored
=============================================================================
