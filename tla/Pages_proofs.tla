----------------------------- MODULE Pages_proofs -----------------------------
(***************************************************************************)
(* Theorems about Pages, for every number of respondents, any capacity,    *)
(* any answers and any number of overlapping calls.                        *)
(***************************************************************************)
EXTENDS Pages, FiniteSetTheorems, TLAPS

(* Initially no page is open.                                              *)
LEMMA InitInductive == Init => Inductive
<1>. SUFFICES ASSUME Init PROVE Inductive
  OBVIOUS
<1>. USE DEF Init
<1>1. IsFiniteSet(stored) /\ Cardinality(stored) <= MaxResponses
  BY FS_EmptySet, BoundAssumption
<1>2. TypeOK
  <2>1. tasks \in [Kinds -> [stage : {"idle", "asked", "closed", "done"}, row : Rows \cup {NoRow}]]
    BY DEF Idle
  <2>2. row \in Rows \cup {NoRow}
    OBVIOUS
  <2>3. verdict \in [of : Accounts \cup {None}, passed : BOOLEAN]
    BY DEF Unchecked
  <2>4. QED
    BY <1>1, <2>1, <2>2, <2>3, AnswersAssumption DEF TypeOK
<1>3. ClosedMeansOver /\ LateRowsAreTrue
  BY DEF ClosedMeansOver, LateRowsAreTrue, NoRow, Idle, Kinds
<1>4. ChecksAreOwn /\ AnswersKept /\ AcceptedIsStored
  BY DEF ChecksAreOwn, AnswersKept, AcceptedIsStored
<1>5. QED
  BY <1>1, <1>2, <1>3, <1>4 DEF Inductive

-----------------------------------------------------------------------------
(***************************************************************************)
(* The backend                                                             *)
(***************************************************************************)

(* Somebody has responded, or the survey is gone.                          *)
Taken == stored # {} \/ status = "deleted"

BackendOK ==
    /\ status \in {"active", "closed", "deleted"} /\ paid \in BOOLEAN /\ expired \in BOOLEAN
    /\ stored \subseteq Eligible /\ IsFiniteSet(stored)
    /\ Cardinality(stored) <= MaxResponses

(* Nobody can respond, or the date has passed, which is as final.          *)
Ended == expired \/ Over

(* What a step may do to the backend: a survey that has ended stays so.    *)
Advances ==
    /\ BackendOK'
    /\ Ended => Ended'
    /\ Taken => Taken'

(* A step that stores a response, or none.                                 *)
LEMMA StoreAdvances ==
  ASSUME BackendOK, NEW w, Accepts(w), stored' = stored \cup {w},
         UNCHANGED <<status, paid, expired>>
  PROVE  Advances
<1>1. /\ IsFiniteSet(stored') /\ Cardinality(stored') = Cardinality(stored) + 1
      /\ Cardinality(stored) \in Nat
  BY FS_AddElement, FS_CardinalityType DEF BackendOK, Accepts
<1>2. Cardinality(stored') <= MaxResponses
  BY <1>1, BoundAssumption DEF Accepts, Full
<1>3. BackendOK'
  BY <1>1, <1>2 DEF BackendOK, Accepts
<1>4. ASSUME Over PROVE Over'
  <2>1. ASSUME NEW v \in Respondents, ~Accepts(v) PROVE ~Accepts(v)'
    BY <1>1, <2>1, BoundAssumption DEF Accepts, Full
  <2>2. QED
    BY <1>4, <2>1 DEF Over
<1>5. QED
  BY <1>3, <1>4 DEF Advances, Ended, Taken

(* The handlers of the creator close, pay, delete or save.                 *)
LEMMA HandlerAdvances ==
  ASSUME BackendOK, UNCHANGED expired, Closing \/ Distributing \/ Deleting \/ Saving
  PROVE  Advances
<1>1. CASE Closing
  BY <1>1 DEF Closing, Advances, BackendOK, Ended, Over, Accepts, Taken
<1>2. CASE Distributing
  BY <1>2 DEF Distributing, Advances, BackendOK, Ended, Over, Accepts, Full, Taken
<1>3. CASE Deleting
  <2>1. IsFiniteSet(stored') /\ Cardinality(stored') <= MaxResponses
    BY <1>3, FS_EmptySet, BoundAssumption DEF Deleting
  <2>2. QED
    BY <1>3, <2>1 DEF Deleting, Advances, BackendOK, Ended, Over, Accepts, Taken
<1>4. CASE Saving
  BY <1>4 DEF Saving, Advances, BackendOK, Ended, Over, Accepts, Full, Taken
<1>5. QED
  BY <1>1, <1>2, <1>3, <1>4

(* A step of the tab alone.                                                *)
LEMMA TabAdvances ==
  ASSUME BackendOK, UNCHANGED backendVars
  PROVE  Advances
BY DEF backendVars, Advances, BackendOK, Ended, Over, Accepts, Full, Taken

(* What `Serve` does for each kind of call.                                *)
Served(k, stage) ==
    /\ Closing \/ Distributing \/ Deleting \/ Saving
    /\ Reach(k, stage)
    /\ k \in {"close", "end"} /\ tasks[k].stage = "asked" => Closing
    /\ tasks[k].stage \in {"asked", "closed"}
    /\ UNCHANGED <<expired, tabVars>>

(* Whichever kind of call is served does that.                             *)
LEMMA ServeServes ==
  ASSUME NEW k \in Kinds, Serve(k)
  PROVE  \E stage \in {"closed", "done"} : Served(k, stage)
<1>1. CASE k = "close"
  <2>1. Do(k, "asked", Closing, "done")
    BY <1>1, Zenon DEF Serve
  <2>2. QED
    BY <2>1 DEF Do, Served
<1>2. CASE k = "distribute"
  <2>1. Do(k, "asked", Distributing, "done")
    BY <1>2, Zenon DEF Serve
  <2>2. QED
    BY <1>2, <2>1 DEF Do, Served
<1>3. CASE k = "end"
  <2>1. \/ Do(k, "asked", Closing, "closed")
        \/ Do(k, "closed", Distributing, "done")
    BY <1>3, Zenon DEF Serve
  <2>2. QED
    BY <2>1 DEF Do, Served
<1>4. CASE k = "delete"
  <2>1. Do(k, "asked", Deleting, "done")
    BY <1>4, Zenon DEF Serve
  <2>2. QED
    BY <1>4, <2>1 DEF Do, Served
<1>5. CASE k = "save"
  <2>1. Do(k, "asked", Saving, "done")
    BY <1>5, Zenon DEF Serve
  <2>2. QED
    BY <1>5, <2>1 DEF Do, Served
<1>6. QED
  BY <1>1, <1>2, <1>3, <1>4, <1>5 DEF Kinds

-----------------------------------------------------------------------------
(***************************************************************************)
(* The invariant in parts, and what each part depends on                   *)
(***************************************************************************)

TabTypes  == wallet \in Accounts \cup {None} /\ page \in {"away", "dashboard", "fill"}
DashTypes ==
    /\ row \in Rows \cup {NoRow}
    /\ listings \subseteq Rows \cup {NoRow, Asked}
    /\ tasks \in [Kinds -> [stage : {"idle", "asked", "closed", "done"}, row : Rows \cup {NoRow}]]
LoadTypes ==
    /\ form \in BOOLEAN /\ failed \in BOOLEAN /\ loading \in BOOLEAN
    /\ lookups \subseteq Accounts /\ checks \subseteq Accounts /\ already \in BOOLEAN
    /\ verdict \in [of : Accounts \cup {None}, passed : BOOLEAN]
AnswerTypes ==
    /\ answers \in Answers /\ draft \in Answers
    /\ submissions \subseteq [by : Respondents, stage : {"sent", "accepted", "failed"},
                              heard : BOOLEAN]
    /\ submitted \in BOOLEAN

RowsAreTrue ==
    /\ row.status = "closed" => Ended
    /\ \A l \in listings : l.status = "closed" => Ended
    /\ \A k \in Kinds : tasks[k].row.status = "closed" => Ended
    /\ \A k \in {"close", "end"} : tasks[k].stage \in {"closed", "done"} => Ended

RowsOK    == DashTypes /\ RowsAreTrue
ChecksOK  == TabTypes /\ LoadTypes /\ ChecksAreOwn
AnswersOK == AnswerTypes /\ AnswersKept /\ AcceptedIsStored

(* The invariant is the conjunction of its parts.                          *)
LEMMA Parts == Inductive <=> BackendOK /\ RowsOK /\ ChecksOK /\ AnswersOK
<1>1. ClosedMeansOver /\ LateRowsAreTrue <=> RowsAreTrue
  BY DEF ClosedMeansOver, LateRowsAreTrue, RowsAreTrue, Ended
<1>2. QED
  BY <1>1 DEF RowsOK, Inductive, TypeOK, BackendOK, RowsOK, DashTypes, ChecksOK, TabTypes, LoadTypes,
         AnswersOK, AnswerTypes

(* The dashboard only depends on the backend being over.                   *)
LEMMA RowsFrame ==
  ASSUME RowsOK, Advances, UNCHANGED dashVars
  PROVE  RowsOK'
  BY DEF RowsOK, DashTypes, RowsAreTrue, Advances, dashVars

(* The checks depend on the page and the wallet, ...                       *)
LEMMA ChecksFrame ==
  ASSUME ChecksOK, UNCHANGED <<wallet, page, loadVars>>
  PROVE  ChecksOK'
  BY DEF ChecksOK, TabTypes, LoadTypes, ChecksAreOwn, loadVars

(* ... and the answers on a response being stored.                         *)
LEMMA AnswersFrame ==
  ASSUME AnswersOK, Advances, UNCHANGED <<page, answers, draft, submissions, submitted>>
  PROVE  AnswersOK'
  BY DEF AnswersOK, AnswerTypes, AnswersKept, AcceptedIsStored, Advances, Taken

-----------------------------------------------------------------------------
(***************************************************************************)
(* The steps                                                               *)
(***************************************************************************)

(* The list is asked for, answered and shown.                              *)
LEMMA ListingSteps ==
  ASSUME RowsOK, BackendOK, Advances,
         \/ OpenDashboard \/ LeaveDashboard
         \/ \E w \in Accounts \cup {None} : SwitchWallet(w)
         \/ \E l \in listings : AnswerListing(l) \/ ShowListing(l)
  PROVE  RowsOK'
<1>. USE DEF RowsOK, RowsAreTrue, Advances
<1>1. \A w : Request(w) \in {NoRow, Asked} /\ Request(w).status # "closed"
  BY DEF Request, NoRow, Asked
<1>2. CASE OpenDashboard
  BY <1>1, <1>2 DEF OpenDashboard, DashTypes
<1>3. CASE LeaveDashboard
  <2>1. tasks' \in [Kinds -> [stage : {"idle", "asked", "closed", "done"}, row : Rows \cup {NoRow}]]
    BY <1>3 DEF LeaveDashboard, Idle
  <2>2. QED
    BY <1>3, <2>1 DEF LeaveDashboard, DashTypes, Idle, NoRow, Kinds
<1>4. ASSUME NEW w \in Accounts \cup {None}, SwitchWallet(w) PROVE RowsOK'
  <2>1. listings' = listings \cup {Request(w)} \/ listings' = listings
    BY <1>4 DEF SwitchWallet
  <2>2. row' = row /\ tasks' = tasks
    BY <1>4 DEF SwitchWallet
  <2>3. QED
    BY <1>1, <2>1, <2>2 DEF DashTypes
<1>5. ASSUME NEW l \in listings, AnswerListing(l) PROVE RowsOK'
  <2>1. Listed \in Rows \cup {NoRow} /\ (Listed.status = "closed" => Ended)
    BY DEF Listed, Rows, NoRow, DerivedStatus, Ended, Over, Accepts, BackendOK
  <2>2. listings' = (listings \ {l}) \cup {Listed} /\ row' = row /\ tasks' = tasks
    BY <1>5 DEF AnswerListing
  <2>3. QED
    BY <2>1, <2>2 DEF DashTypes
<1>6. ASSUME NEW l \in listings, ShowListing(l) PROVE RowsOK'
  <2>1. /\ listings' = listings \ {l} /\ tasks' = tasks
        /\ row' = NoRow \/ (row' = l /\ l # Asked)
    BY <1>6 DEF ShowListing
  <2>2. QED
    BY <2>1 DEF DashTypes, NoRow
<1>7. QED
  BY <1>2, <1>3, <1>4, <1>5, <1>6

(* A call of the creator begins, goes on, fails and is told.               *)
LEMMA TaskSteps ==
  ASSUME RowsOK, Advances, NEW k \in Kinds,
         Begin(k) \/ Serve(k) \/ Break(k) \/ Tell(k)
  PROVE  RowsOK'
<1>. USE DEF RowsOK, RowsAreTrue, Advances
<1>1. CASE Begin(k)
  <2>1. PICK r \in {row, NoRow} :
          tasks' = [tasks EXCEPT ![k] = [stage |-> "asked", row |-> r]]
    BY <1>1 DEF Begin
  <2>2. row' = row /\ listings' = listings
    BY <1>1 DEF Begin
  <2>3. QED
    BY <2>1, <2>2 DEF DashTypes, NoRow, Kinds
<1>2. CASE Serve(k)
  <2>1. PICK stage \in {"closed", "done"} : Served(k, stage)
    BY <1>2, ServeServes
  <2>2. /\ tasks' = [tasks EXCEPT ![k].stage = stage]
        /\ row' = row /\ listings' = listings
    BY <2>1 DEF Served, Reach, tabVars
  <2>3. tasks' = [tasks EXCEPT ![k] = [stage |-> stage, row |-> tasks[k].row]]
    <3>1. tasks' = [tasks EXCEPT ![k] = [tasks[k] EXCEPT !.stage = stage]]
      BY <2>2, Zenon
    <3>2. tasks[k] \in [stage : {"idle", "asked", "closed", "done"}, row : Rows \cup {NoRow}]
      BY DEF DashTypes
    <3>. HIDE DEF RowsOK, RowsAreTrue, Advances
    <3>3. [tasks[k] EXCEPT !.stage = stage] = [stage |-> stage, row |-> tasks[k].row]
      BY <3>2
    <3>4. QED
      BY <3>1, <3>3
  <2>4. k \in {"close", "end"} => Ended'
    BY <2>1 DEF Served, Closing, Ended, Over, Accepts
  <2>5. DashTypes'
    BY <2>2, <2>3 DEF DashTypes
  <2>6. \A j \in Kinds : /\ tasks'[j].row = tasks[j].row
                         /\ j # k => tasks'[j] = tasks[j]
    BY <2>3 DEF DashTypes
  <2>7. QED
    BY <2>2, <2>4, <2>5, <2>6 DEF Kinds
<1>3. CASE Break(k)
  <2>1. tasks' = [tasks EXCEPT ![k] = Idle] /\ row' = row /\ listings' = listings
    BY <1>3 DEF Break, Ends, tabVars
  <2>2. QED
    BY <2>1 DEF DashTypes, Idle, NoRow, Kinds
<1>4. CASE Tell(k)
  <2>1. /\ tasks' = [tasks EXCEPT ![k] = Idle] /\ listings' = listings
        /\ row' = NoRow \/ (row # NoRow /\ row' = Shown(k))
        /\ tasks[k].stage = "done"
    BY <1>4 DEF Tell, Ends
  <2>2. ASSUME row # NoRow
        PROVE  /\ Shown(k) \in Rows \cup {NoRow}
               /\ Shown(k).status = "closed" => Ended
    <3>1. row \in Rows /\ tasks[k].row \in Rows \cup {NoRow}
      BY <2>2 DEF DashTypes
    <3>2. CASE k = "close"
      <4>1. Shown(k) = [row EXCEPT !.status = "closed"]
        BY <3>2, Zenon DEF Shown
      <4>2. QED
        BY <2>1, <3>1, <3>2, <4>1 DEF Rows
    <3>3. CASE k = "distribute"
      <4>1. Shown(k) = [row EXCEPT !.paid = TRUE]
        BY <3>3, Zenon DEF Shown
      <4>2. QED
        BY <3>1, <4>1 DEF Rows
    <3>4. CASE k = "end"
      <4>1. Shown(k) = [status |-> "closed", paid |-> TRUE]
        BY <3>4, Zenon DEF Shown
      <4>2. Ended
        BY <2>1, <3>4
      <4>3. QED
        BY <4>1, <4>2 DEF Rows
    <3>5. CASE k = "save"
      <4>1. Shown(k) = tasks[k].row
        BY <3>5, Zenon DEF Shown
      <4>2. QED
        BY <3>1, <4>1
    <3>6. CASE k = "delete"
      <4>1. Shown(k) = NoRow
        BY <3>6, Zenon DEF Shown
      <4>2. QED
        BY <4>1 DEF NoRow
    <3>7. QED
      BY <3>2, <3>3, <3>4, <3>5, <3>6 DEF Kinds
  <2>3. row' \in Rows \cup {NoRow} /\ (row'.status = "closed" => Ended)
    BY <2>1, <2>2 DEF NoRow
  <2>4. QED
    BY <2>1, <2>3 DEF DashTypes, Idle, NoRow, Kinds
<1>5. QED
  BY <1>1, <1>2, <1>3, <1>4

(* Effects start and cancel the checks, and their answers are shown.       *)
LEMMA CheckSteps ==
  ASSUME ChecksOK,
         \/ OpenDashboard \/ LeaveDashboard \/ OpenSurvey \/ LeaveSurvey
         \/ \E w \in Accounts \cup {None} : SwitchWallet(w)
         \/ Loaded \/ NotLoaded
         \/ \E w \in lookups : LookedUp(w)
         \/ \E w \in checks : Checked(w)
  PROVE  ChecksOK'
<1>. USE DEF ChecksOK, ChecksAreOwn, TabTypes, LoadTypes
<1>1. CASE OpenDashboard
  BY <1>1 DEF OpenDashboard, fillVars, loadVars
<1>2. CASE LeaveDashboard
  BY <1>2 DEF LeaveDashboard, fillVars, loadVars
<1>3. CASE OpenSurvey
  BY <1>3 DEF OpenSurvey, Unchecked
<1>4. CASE LeaveSurvey
  BY <1>4 DEF LeaveSurvey, Unmounted, Unchecked
<1>5. ASSUME NEW w \in Accounts \cup {None}, SwitchWallet(w) PROVE ChecksOK'
  <2>1. CASE page = "fill"
    BY <1>5, <2>1 DEF SwitchWallet
  <2>2. CASE page # "fill"
    BY <1>5, <2>2 DEF SwitchWallet
  <2>3. QED
    BY <2>1, <2>2
<1>6. CASE Loaded
  <2>1. /\ form' = TRUE /\ loading' = FALSE /\ checks' = {wallet} \ {None}
        /\ UNCHANGED <<failed, lookups, already, verdict, wallet, page>>
    BY <1>6 DEF Loaded, askVars
  <2>2. LoadTypes' /\ TabTypes'
    BY <2>1 DEF Accounts
  <2>3. page = "fill"
    BY <1>6 DEF Loaded
  <2>4. ChecksAreOwn'
    BY <2>1, <2>3
  <2>5. QED
    BY <2>2, <2>4
<1>7. CASE NotLoaded
  BY <1>7 DEF NotLoaded, askVars
<1>8. ASSUME NEW w \in lookups, LookedUp(w) PROVE ChecksOK'
  <2>1. already' \in BOOLEAN
    <3>1. already' = (w \in stored) \/ already' = already
      BY <1>8 DEF LookedUp
    <3>2. already \in BOOLEAN
      OBVIOUS
    <3>3. (w \in stored) \in BOOLEAN
      OBVIOUS
    <3>4. QED
      BY <3>1, <3>2, <3>3, Zenon
  <2>2. /\ lookups' = lookups \ {w}
        /\ UNCHANGED <<form, failed, loading, checks, verdict, wallet, page>>
    BY <1>8 DEF LookedUp, askVars
  <2>3. QED
    BY <2>1, <2>2
<1>9. ASSUME NEW w \in checks, Checked(w) PROVE ChecksOK'
  <2>1. PICK passed \in {(w \in Eligible), TRUE} : verdict' = [of |-> w, passed |-> passed]
    BY <1>9 DEF Checked
  <2>2. passed \in BOOLEAN /\ (w \in Eligible => passed)
    <3>1. passed = (w \in Eligible) \/ passed = TRUE
      BY <2>1
    <3>2. (w \in Eligible) \in BOOLEAN /\ TRUE \in BOOLEAN
      OBVIOUS
    <3>3. QED
      BY <3>1, <3>2, Zenon
  <2>3. verdict' \in [of : Accounts \cup {None}, passed : BOOLEAN]
    BY <2>1, <2>2
  <2>4. verdict'.of = w /\ (w \in Eligible => verdict'.passed)
    BY <2>1, <2>2
  <2>5. /\ checks' = checks \ {w} /\ w = wallet
        /\ UNCHANGED <<form, failed, loading, lookups, already, wallet, page>>
    BY <1>9 DEF Checked, askVars
  <2>6. ChecksAreOwn'
    BY <2>4, <2>5
  <2>7. QED
    BY <2>3, <2>5, <2>6
<1>10. QED
  BY <1>1, <1>2, <1>3, <1>4, <1>5, <1>6, <1>7, <1>8, <1>9

(* The fields are mounted, filled in and sent, and the answer is told.     *)
LEMMA AnswerSteps ==
  ASSUME AnswersOK, Advances, TabTypes,
         \/ OpenDashboard \/ LeaveDashboard \/ OpenSurvey \/ LeaveSurvey
         \/ \E a \in Answers : Answer(a)
         \/ Submit
         \/ \E s \in submissions : SubmissionStep(s)
  PROVE  AnswersOK'
<1>. USE DEF AnswersOK, AnswerTypes, AnswersKept, AcceptedIsStored, Advances, Taken
<1>1. CASE OpenDashboard
  BY <1>1 DEF OpenDashboard, fillVars
<1>2. CASE LeaveDashboard
  BY <1>2 DEF LeaveDashboard, fillVars
<1>3. CASE OpenSurvey
  BY <1>3 DEF OpenSurvey
<1>4. CASE LeaveSurvey
  BY <1>4, AnswersAssumption DEF LeaveSurvey, Unmounted
<1>5. ASSUME NEW a \in Answers, Answer(a) PROVE AnswersOK'
  BY <1>5 DEF Answer
<1>6. CASE Submit
  <2>1. wallet \in Respondents
    BY <1>6 DEF Submit, Open, TabTypes, Accounts
  <2>2. /\ submissions' = submissions \cup {[by |-> wallet, stage |-> "sent", heard |-> TRUE]}
        /\ UNCHANGED <<page, answers, draft, submitted>>
    BY <1>6 DEF Submit
  <2>3. AnswerTypes'
    <3>1. [by |-> wallet, stage |-> "sent", heard |-> TRUE]
            \in [by : Respondents, stage : {"sent", "accepted", "failed"}, heard : BOOLEAN]
      BY <2>1
    <3>2. QED
      BY <2>2, <3>1
  <2>4. AcceptedIsStored'
    BY <2>2
  <2>5. QED
    BY <2>2, <2>3, <2>4
<1>7. ASSUME NEW s \in submissions, SubmissionStep(s) PROVE AnswersOK'
  <2>1. s \in [by : Respondents, stage : {"sent", "accepted", "failed"}, heard : BOOLEAN]
    OBVIOUS
  <2>2. \A stage : [s EXCEPT !.stage = stage] = [by |-> s.by, stage |-> stage, heard |-> s.heard]
    BY <2>1
  <2>3. CASE Accept(s)
    BY <2>1, <2>2, <2>3 DEF Accept, Becomes
  <2>4. CASE Refuse(s)
    BY <2>1, <2>2, <2>4 DEF Refuse, Becomes
  <2>5. CASE Told(s)
    <3>1. submitted' \in BOOLEAN
      BY <2>1, <2>5 DEF Told
    <3>2. QED
      BY <3>1, <2>5, AnswersAssumption DEF Told
  <2>6. QED
    BY <1>7, <2>3, <2>4, <2>5 DEF SubmissionStep
<1>8. QED
  BY <1>1, <1>2, <1>3, <1>4, <1>5, <1>6, <1>7

(* The steps that change the backend.                                      *)
LEMMA NextAdvances ==
  ASSUME Inductive, [Next]_vars
  PROVE  Advances
<1>. BackendOK
  BY Parts
<1>1. CASE Elsewhere
  <2>1. UNCHANGED expired
    BY <1>1 DEF Elsewhere
  <2>2. ASSUME NEW w \in Respondents, Accepting(w) PROVE Advances
    BY <2>1, <2>2, StoreAdvances DEF Accepting
  <2>3. CASE Closing \/ Distributing \/ Deleting
    BY <2>1, <2>3, HandlerAdvances
  <2>4. QED
    BY <1>1, <2>2, <2>3 DEF Elsewhere
<1>2. CASE Expire
  BY <1>2 DEF Expire, Advances, BackendOK, Ended, Over, Accepts, Full, Taken
<1>3. ASSUME NEW k \in Kinds, Serve(k) PROVE Advances
  <2>1. PICK stage \in {"closed", "done"} : Served(k, stage)
    BY <1>3, ServeServes
  <2>2. QED
    BY <2>1, HandlerAdvances DEF Served
<1>4. ASSUME NEW s \in submissions, Accept(s) PROVE Advances
  BY <1>4, StoreAdvances DEF Accept
<1>5. ASSUME UNCHANGED backendVars PROVE Advances
  BY <1>5, TabAdvances
<1>6. ASSUME NEW k \in Kinds, Begin(k) \/ Break(k) \/ Tell(k) PROVE UNCHANGED backendVars
  BY <1>6 DEF Begin, Break, Tell
<1>7. ASSUME NEW s \in submissions, Refuse(s) \/ Told(s) PROVE UNCHANGED backendVars
  BY <1>7 DEF Refuse, Told
<1>8. ASSUME \/ OpenDashboard \/ LeaveDashboard \/ OpenSurvey \/ LeaveSurvey
             \/ \E w \in Accounts \cup {None} : SwitchWallet(w)
             \/ \E l \in listings : AnswerListing(l) \/ ShowListing(l)
      PROVE  UNCHANGED backendVars
  BY <1>8 DEF OpenDashboard, LeaveDashboard, OpenSurvey, LeaveSurvey, SwitchWallet,
              AnswerListing, ShowListing
<1>9. ASSUME \/ Loaded \/ NotLoaded
             \/ \E w \in lookups : LookedUp(w)
             \/ \E w \in checks : Checked(w)
             \/ \E a \in Answers : Answer(a)
             \/ Submit
      PROVE  UNCHANGED backendVars
  BY <1>9 DEF Loaded, NotLoaded, LookedUp, Checked, Answer, Submit, askVars
<1>10. CASE UNCHANGED vars
  BY <1>5, <1>10 DEF vars
<1>11. QED
  BY <1>1, <1>2, <1>3, <1>4, <1>5, <1>6, <1>7, <1>8, <1>9, <1>10 DEF Next, SubmissionStep

(* The inductive step: what a step leaves alone is framed, the rest is in  *)
(* the lemmas above.                                                       *)
LEMMA NextInductive == Inductive /\ [Next]_vars => Inductive'
<1>. SUFFICES ASSUME Inductive, [Next]_vars PROVE Inductive'
  OBVIOUS
<1>1. Advances
  BY NextAdvances
<1>2. BackendOK /\ RowsOK /\ ChecksOK /\ AnswersOK
  BY Parts
<1>3. BackendOK'
  BY <1>1 DEF Advances
<1>4. RowsOK'
  <2>1. ASSUME UNCHANGED dashVars PROVE RowsOK'
    BY <1>1, <1>2, <2>1, RowsFrame
  <2>2. CASE \/ OpenDashboard \/ LeaveDashboard
             \/ \E w \in Accounts \cup {None} : SwitchWallet(w)
             \/ \E l \in listings : AnswerListing(l) \/ ShowListing(l)
    BY <1>1, <1>2, <2>2, ListingSteps
  <2>3. ASSUME NEW k \in Kinds, Begin(k) \/ Serve(k) \/ Break(k) \/ Tell(k) PROVE RowsOK'
    BY <1>1, <1>2, <2>3, TaskSteps
  <2>4. ASSUME \/ Elsewhere \/ Expire \/ OpenSurvey \/ LeaveSurvey \/ Loaded \/ NotLoaded
               \/ \E w \in lookups : LookedUp(w)
               \/ \E w \in checks : Checked(w)
               \/ \E a \in Answers : Answer(a)
               \/ Submit
               \/ \E s \in submissions : SubmissionStep(s)
               \/ UNCHANGED vars
        PROVE  UNCHANGED dashVars
    BY <2>4 DEF Elsewhere, Expire, OpenSurvey, LeaveSurvey, Loaded, NotLoaded, LookedUp,
                Checked, Answer, Submit, SubmissionStep, Accept, Refuse, Told, askVars, vars
  <2>5. QED
    BY <2>1, <2>2, <2>3, <2>4 DEF Next
<1>5. ASSUME NEW k \in Kinds, Begin(k) \/ Serve(k) \/ Break(k) \/ Tell(k)
      PROVE  UNCHANGED <<wallet, page, fillVars>>
  <2>1. ASSUME Serve(k) PROVE UNCHANGED tabVars
    BY <2>1, ServeServes DEF Served
  <2>2. QED
    BY <1>5, <2>1 DEF Begin, Break, Tell, tabVars
<1>6. ChecksOK'
  <2>1. ASSUME UNCHANGED <<wallet, page, loadVars>> PROVE ChecksOK'
    BY <1>2, <2>1, ChecksFrame
  <2>2. CASE \/ OpenDashboard \/ LeaveDashboard \/ OpenSurvey \/ LeaveSurvey
             \/ \E w \in Accounts \cup {None} : SwitchWallet(w)
             \/ Loaded \/ NotLoaded
             \/ \E w \in lookups : LookedUp(w)
             \/ \E w \in checks : Checked(w)
    BY <1>2, <2>2, CheckSteps
  <2>3. ASSUME \/ Elsewhere \/ Expire
               \/ \E l \in listings : AnswerListing(l) \/ ShowListing(l)
               \/ \E k \in Kinds : Begin(k) \/ Serve(k) \/ Break(k) \/ Tell(k)
               \/ \E a \in Answers : Answer(a)
               \/ Submit
               \/ \E s \in submissions : SubmissionStep(s)
               \/ UNCHANGED vars
        PROVE  UNCHANGED <<wallet, page, loadVars>>
    BY <1>5, <2>3 DEF Elsewhere, Expire, AnswerListing, ShowListing, Answer, Submit,
                      SubmissionStep, Accept, Refuse, Told, fillVars, vars
  <2>4. QED
    BY <2>1, <2>2, <2>3 DEF Next
<1>7. AnswersOK'
  <2>1. ASSUME UNCHANGED <<page, answers, draft, submissions, submitted>> PROVE AnswersOK'
    BY <1>1, <1>2, <2>1, AnswersFrame
  <2>2. CASE \/ OpenDashboard \/ LeaveDashboard \/ OpenSurvey \/ LeaveSurvey
             \/ \E a \in Answers : Answer(a)
             \/ Submit
             \/ \E s \in submissions : SubmissionStep(s)
    BY <1>1, <1>2, <2>2, AnswerSteps DEF ChecksOK
  <2>3. ASSUME \/ Elsewhere \/ Expire
               \/ \E w \in Accounts \cup {None} : SwitchWallet(w)
               \/ \E l \in listings : AnswerListing(l) \/ ShowListing(l)
               \/ \E k \in Kinds : Begin(k) \/ Serve(k) \/ Break(k) \/ Tell(k)
               \/ Loaded \/ NotLoaded
               \/ \E w \in lookups : LookedUp(w)
               \/ \E w \in checks : Checked(w)
               \/ UNCHANGED vars
        PROVE  UNCHANGED <<page, answers, draft, submissions, submitted>>
    BY <1>5, <2>3 DEF Elsewhere, Expire, SwitchWallet, AnswerListing, ShowListing, Loaded,
                      NotLoaded, LookedUp, Checked, askVars, fillVars, vars
  <2>4. QED
    BY <2>1, <2>2, <2>3 DEF Next
<1>8. RowsOK' => (ClosedMeansOver /\ LateRowsAreTrue)'
  BY DEF RowsOK, ClosedMeansOver, LateRowsAreTrue, RowsAreTrue, Ended
<1>9. QED
  BY <1>3, <1>4, <1>6, <1>7, <1>8
     DEF Inductive, TypeOK, BackendOK, RowsOK, DashTypes, ChecksOK, TabTypes, LoadTypes,
         AnswersOK, AnswerTypes

-----------------------------------------------------------------------------
(* The two pages, whatever they are told, and by however late an answer:   *)
(* the list is true, the checks are of the wallet that is connected, and   *)
(* the answers are kept.                                                   *)
THEOREM InductiveHolds == Spec => []Inductive
<1>1. QED
  BY InitInductive, NextInductive, PTL DEF Spec

(* Type correctness: no answer, however late and from whatever call, puts  *)
(* the pages into a state of another kind; in particular no more responses *)
(* are stored than the survey takes.                                       *)
THEOREM TypeCorrect == Spec => []TypeOK
<1>1. Inductive => TypeOK
  BY DEF Inductive
<1>2. QED
  BY <1>1, InductiveHolds, PTL

(* Closing, and the settings tab that puts an old row back: no respondent  *)
(* is accepted by a survey the dashboard shows as closed before its date.  *)
THEOREM ClosedIsOver == Spec => []ClosedMeansOver
<1>1. Inductive => ClosedMeansOver
  BY DEF Inductive
<1>2. QED
  BY <1>1, InductiveHolds, PTL

(* The effects of SurveyFill: the verdict that is shown, when no check is  *)
(* under way, is about the wallet that is connected, and turns no eligible *)
(* wallet away.                                                            *)
THEOREM VerdictOwn == Spec => []VerdictIsOwn
<1>1. Inductive => VerdictIsOwn
  BY DEF Inductive, ChecksAreOwn, VerdictIsOwn
<1>2. QED
  BY <1>1, InductiveHolds, PTL

(* The copy in sessionStorage: what was typed survives a reload until a    *)
(* response is stored.                                                     *)
THEOREM AnswersSurvive == Spec => []AnswersKept
<1>1. Inductive => AnswersKept
  BY DEF Inductive
<1>2. QED
  BY <1>1, InductiveHolds, PTL
====
