-------------------------- MODULE Submissions_proofs --------------------------
(***************************************************************************)
(* Theorems about Submissions, for every number of concurrent requests,    *)
(* every set of wallets and every max_responses.                           *)
(***************************************************************************)
EXTENDS Submissions, FiniteSetTheorems, TLAPS

(* What Inductive says of one request.                                     *)
LocalOK(r) ==
    /\ answer[r] = "none" <=> pc[r] # "done"
    /\ r \in responses => pc[r] = "score" \/ answer[r] \in {"accepted", "unseen"}
    /\ pc[r] \notin {"idle", "done"} \/ r \in responses => from[r] # Creator
    /\ pc[r] = "score" => r \in responses \/ form # "active"
    /\ pc[r] = "reread" => responseCount = MaxResponses \/ form # "active"

(* There are finitely many slots: Cardinality is meaningful on them.       *)
LEMMA SlotsAreFinite == IsFiniteSet(Slots)
  BY RequestsAssumption, FS_Subset DEF Slots

(* Reserving adds one slot.                                                *)
LEMMA ReserveTakesASlot ==
  ASSUME TypeOK, NEW r \in Requests, pc[r] = "reserve", answer[r] = "none",
         pc' = [pc EXCEPT ![r] = "create"], answer' = answer
  PROVE  Cardinality(Slots') = Cardinality(Slots) + 1
<1>1. r \notin Slots
  BY DEF Slots
<1>2. Slots' = Slots \cup {r}
  BY DEF Slots, TypeOK
<1>3. QED
  BY <1>1, <1>2, SlotsAreFinite, FS_AddElement

(* Outcome o would be a true answer to request r in the current state.     *)
TrueFor(r, o) ==
    /\ o = "accepted" => r \in responses \/ form # "active"
    /\ o \in Refusals => r \notin responses
    /\ o = "closed" => form # "active"
    /\ o = "not_found" => form = "deleted"
    /\ o = "own_survey" => from[r] = Creator
    /\ o = "full" => Cardinality(Slots) = MaxResponses
    /\ o \in {"duplicate", "conflict"} => HasResponse(from[r]) \/ form # "active"

(* A request moves on, or ends with a true answer, and touches no shared   *)
(* state: what every step but reserving and storing does.                  *)
LEMMA QuietStep ==
  ASSUME Inductive, NEW r \in Requests, pc[r] \notin {"idle", "done"},
         NEW s \in {"sybil", "reserve", "reread", "done"}, NEW o \in Outcomes,
         pc' = [pc EXCEPT ![r] = s], answer' = [answer EXCEPT ![r] = o],
         UNCHANGED <<form, responseCount, responses, from, purged>>,
         o = "none" <=> s # "done",
         pc[r] \in {"create", "score"} <=> o \in {"accepted", "conflict", "wasted", "unseen"},
         r \in responses => o \in {"accepted", "unseen"},
         s = "reread" => responseCount = MaxResponses \/ form # "active",
         TrueFor(r, o)
  PROVE  Inductive'
<1>1. TypeOK'
  BY DEF Inductive, TypeOK, Stages
<1>2. Slots' = Slots
  <2>1. answer[r] = "none"
    BY DEF Inductive
  <2>2. ASSUME NEW q \in Requests
        PROVE  (\/ pc'[q] \in {"create", "score"}
                \/ answer'[q] \in {"accepted", "conflict", "wasted", "unseen"})
               <=>
               (\/ pc[q] \in {"create", "score"}
                \/ answer[q] \in {"accepted", "conflict", "wasted", "unseen"})
    <3>1. CASE q = r
      BY <2>1, <3>1 DEF Inductive, TypeOK
    <3>2. CASE q # r
      BY <3>2 DEF Inductive, TypeOK
    <3>3. QED
      BY <3>1, <3>2
  <2>3. QED
    BY <2>2 DEF Slots
<1>3. ASSUME NEW q \in Requests PROVE LocalOK(q)'
  <2>1. LocalOK(q)
    BY DEF Inductive, LocalOK
  <2>2. CASE q = r
    BY <2>1, <2>2 DEF Inductive, TypeOK, LocalOK
  <2>3. CASE q # r
    BY <2>1, <2>3 DEF Inductive, TypeOK, LocalOK
  <2>4. QED
    BY <2>2, <2>3
<1>4. AnswersAreTrue'
  <2>1. ASSUME NEW q \in Requests PROVE TrueFor(q, answer'[q])
    <3>1. CASE q = r
      BY <3>1 DEF Inductive, TypeOK
    <3>2. CASE q # r
      BY <3>2 DEF Inductive, TypeOK, AnswersAreTrue, TrueFor
    <3>3. QED
      BY <3>1, <3>2
  <2>2. QED
    BY <1>2, <2>1 DEF TrueFor, AnswersAreTrue, HasResponse
<1>5. OneResponsePerWallet'
  BY DEF Inductive, OneResponsePerWallet
<1>6. QED
  BY <1>1, <1>2, <1>3, <1>4, <1>5 DEF Inductive, LocalOK

(* A freshly published survey satisfies the invariant.                     *)
LEMMA InitInductive == Init => Inductive
<1>. SUFFICES ASSUME Init PROVE Inductive
  OBVIOUS
<1>1. TypeOK
  BY DEF Init, TypeOK, Stages, Outcomes, Callers
<1>2. Slots = {}
  BY DEF Init, Slots
<1>3. Cardinality({}) = 0 /\ 0 <= MaxResponses
  BY FS_EmptySet, BoundsAssumption
<1>4. AnswersAreTrue /\ OneResponsePerWallet
  BY DEF Init, AnswersAreTrue, OneResponsePerWallet, Refusals
<1>5. QED
  BY <1>1, <1>2, <1>3, <1>4 DEF Init, Inductive

(* The arrival of a request (guards 1 to 3) preserves the invariant.       *)
LEMMA LoadFormStep ==
  ASSUME Inductive, NEW r \in Requests, NEW wallet \in Callers, LoadForm(r, wallet)
  PROVE  Inductive'
<1>1. PICK s \in {"existing", "done"}, o \in {"none", "not_found", "own_survey", "closed"} :
        /\ pc' = [pc EXCEPT ![r] = s] /\ answer' = [answer EXCEPT ![r] = o]
        /\ o = "none" <=> s # "done"
        /\ s = "existing" => wallet # Creator
        /\ o = "closed" => form # "active"
        /\ o = "not_found" => form = "deleted"
        /\ o = "own_survey" => wallet = Creator
  <2>1. answer[r] = "none" /\ answer = [answer EXCEPT ![r] = "none"]
    BY DEF Inductive, TypeOK, LoadForm
  <2>2. form \in {"active", "closed", "deleted"}
    BY DEF Inductive, TypeOK
  <2>3. CASE form = "deleted"
    BY <2>3 DEF LoadForm, Answer
  <2>4. CASE form # "deleted" /\ wallet = Creator
    BY <2>4 DEF LoadForm, Answer
  <2>5. CASE form = "closed" /\ wallet # Creator
    BY <2>5 DEF LoadForm, Answer
  <2>6. CASE form = "active" /\ wallet # Creator
    <3>1. pc' = [pc EXCEPT ![r] = "existing"] /\ answer' = [answer EXCEPT ![r] = "none"]
      BY <2>1, <2>6 DEF LoadForm, Goto
    <3>2. QED
      BY <2>6, <3>1
  <2>7. QED
    BY <2>2, <2>3, <2>4, <2>5, <2>6
<1>2. /\ pc[r] = "idle" /\ answer[r] = "none" /\ r \notin responses
      /\ from' = [from EXCEPT ![r] = wallet]
      /\ UNCHANGED <<form, responseCount, responses, purged>>
  BY DEF Inductive, LoadForm
<1>3. TypeOK'
  <2>1. pc' \in [Requests -> Stages] /\ answer' \in [Requests -> Outcomes]
    BY <1>1 DEF Inductive, TypeOK, Stages, Outcomes, Refusals
  <2>2. from' \in [Requests -> Callers]
    BY <1>2 DEF Inductive, TypeOK
  <2>3. QED
    BY <1>2, <2>1, <2>2 DEF Inductive, TypeOK
<1>4. Slots' = Slots
  BY <1>1, <1>2 DEF Inductive, TypeOK, Slots
<1>5. ASSUME NEW q \in Requests PROVE LocalOK(q)'
  <2>1. LocalOK(q)
    BY DEF Inductive, LocalOK
  <2>2. CASE q = r
    BY <1>1, <1>2, <2>1, <2>2 DEF Inductive, TypeOK, LocalOK
  <2>3. CASE q # r
    BY <1>1, <1>2, <2>1, <2>3 DEF Inductive, TypeOK, LocalOK
  <2>4. QED
    BY <2>2, <2>3
<1>6. ASSUME NEW q \in responses PROVE q \in Requests /\ from'[q] = from[q]
  BY <1>2 DEF Inductive, TypeOK
<1>7. OneResponsePerWallet'
  BY <1>2, <1>6 DEF Inductive, OneResponsePerWallet
<1>8. AnswersAreTrue'
  <2>1. SUFFICES ASSUME NEW q \in Requests
                 PROVE  TrueFor(q, answer[q])'
    BY DEF AnswersAreTrue, TrueFor
  <2>2. CASE q = r
    BY <1>1, <1>2, <1>4, <2>2 DEF Inductive, TypeOK, TrueFor
  <2>3. CASE q # r
    <3>1. answer'[q] = answer[q] /\ from'[q] = from[q] /\ TrueFor(q, answer[q])
      BY <1>1, <1>2, <2>3 DEF Inductive, TypeOK, AnswersAreTrue, TrueFor
    <3>2. HasResponse(from[q]) => HasResponse(from[q])'
      BY <1>2, <1>6, <3>1 DEF HasResponse
    <3>3. QED
      BY <1>2, <1>4, <3>1, <3>2 DEF TrueFor
  <2>4. QED
    BY <2>2, <2>3
<1>9. QED
  BY <1>2, <1>3, <1>4, <1>5, <1>7, <1>8 DEF Inductive, LocalOK

(* Guard 6 preserves the invariant, whether it finds a slot or not.        *)
LEMMA ReserveStep ==
  ASSUME Inductive, NEW r \in Requests, Reserve(r)
  PROVE  Inductive'
<1>1. /\ pc[r] = "reserve" /\ answer[r] = "none" /\ answer' = answer
      /\ UNCHANGED <<form, responses, from, purged>>
  BY DEF Inductive, Reserve, Goto
<1>2. CASE form = "active" /\ responseCount < MaxResponses
  <2>1. pc' = [pc EXCEPT ![r] = "create"] /\ responseCount' = responseCount + 1
    BY <1>2 DEF Reserve, Goto
  <2>2. TypeOK'
    <3>1. pc' \in [Requests -> Stages]
      BY <2>1 DEF Inductive, TypeOK, Stages
    <3>2. QED
      BY <1>1, <2>1, <3>1 DEF Inductive, TypeOK
  <2>3. Cardinality(Slots') = Cardinality(Slots) + 1
    BY <1>1, <2>1, ReserveTakesASlot DEF Inductive
  <2>4. responseCount' <= MaxResponses
    BY <1>2, <2>1, BoundsAssumption DEF Inductive, TypeOK
  <2>5. ASSUME NEW q \in Requests PROVE LocalOK(q)'
    BY <1>1, <1>2, <2>1 DEF Inductive, TypeOK, LocalOK
  <2>6. OneResponsePerWallet' /\ AnswersAreTrue'
    <3>1. \A q \in Requests : answer[q] # "full"
      BY <1>2, BoundsAssumption DEF Inductive, TypeOK, AnswersAreTrue
    <3>2. QED
      BY <1>1, <3>1 DEF Inductive, OneResponsePerWallet, AnswersAreTrue, HasResponse
  <2>7. QED
    BY <1>1, <2>1, <2>2, <2>3, <2>4, <2>5, <2>6 DEF Inductive, LocalOK
<1>3. CASE ~(form = "active" /\ responseCount < MaxResponses)
  <2>1. pc' = [pc EXCEPT ![r] = "reread"] /\ responseCount' = responseCount
    BY <1>3 DEF Reserve, Goto
  <2>2. answer' = [answer EXCEPT ![r] = "none"] /\ "none" \in Outcomes
    BY <1>1 DEF Inductive, TypeOK, Outcomes
  <2>3. r \notin responses /\ TrueFor(r, "none")
    BY <1>1 DEF Inductive, TrueFor, Refusals
  <2>4. responseCount = MaxResponses \/ form # "active"
    BY <1>3, BoundsAssumption DEF Inductive, TypeOK
  <2>5. QED
    BY <1>1, <2>1, <2>2, <2>3, <2>4, QuietStep
<1>4. QED
  BY <1>2, <1>3

(* Storing a response, or failing on the unique index, preserves the       *)
(* invariant.                                                              *)
LEMMA CreateResponseStep ==
  ASSUME Inductive, NEW r \in Requests, CreateResponse(r)
  PROVE  Inductive'
<1>1. /\ pc[r] = "create" /\ answer[r] = "none" /\ r \notin responses /\ from[r] # Creator
      /\ UNCHANGED <<form, responseCount, from, purged>>
  BY DEF Inductive, CreateResponse
<1>2. CASE HasResponse(from[r])
  <2>1. pc' = [pc EXCEPT ![r] = "done"] /\ answer' = [answer EXCEPT ![r] = "conflict"]
        /\ responses' = responses
    BY <1>2 DEF CreateResponse, Answer
  <2>2. "conflict" \in Outcomes /\ TrueFor(r, "conflict")
    BY <1>1, <1>2 DEF TrueFor, Outcomes, Refusals
  <2>3. QED
    BY <1>1, <2>1, <2>2, QuietStep
<1>3. CASE ~HasResponse(from[r])
  <2>1. pc' = [pc EXCEPT ![r] = "score"] /\ answer' = answer /\ responses' = responses \cup {r}
    BY <1>3 DEF CreateResponse, Goto
  <2>2. TypeOK'
    <3>1. pc' \in [Requests -> Stages] /\ responses' \subseteq Requests
      BY <2>1 DEF Inductive, TypeOK, Stages
    <3>2. QED
      BY <1>1, <2>1, <3>1 DEF Inductive, TypeOK
  <2>3. Slots' = Slots
    BY <1>1, <2>1 DEF Inductive, TypeOK, Slots
  <2>4. ASSUME NEW q \in Requests PROVE LocalOK(q)'
    BY <1>1, <2>1 DEF Inductive, TypeOK, LocalOK
  <2>5. OneResponsePerWallet'
    BY <1>1, <1>3, <2>1 DEF Inductive, OneResponsePerWallet, HasResponse
  <2>6. AnswersAreTrue'
    BY <1>1, <2>1, <2>3 DEF Inductive, AnswersAreTrue, HasResponse, Refusals
  <2>7. QED
    BY <1>1, <2>2, <2>3, <2>4, <2>5, <2>6 DEF Inductive, LocalOK
<1>4. QED
  BY <1>2, <1>3

(* The remaining steps of a request are quiet.                             *)
LEMMA OtherRequestSteps ==
  ASSUME Inductive, NEW r \in Requests,
         FindExisting(r) \/ CheckEligibility(r) \/ Reread(r) \/ Score(r) \/ Die(r)
  PROVE  Inductive'
<1>1. /\ pc[r] \notin {"idle", "done"} /\ answer[r] = "none"
      /\ UNCHANGED <<form, responseCount, responses, from, purged>>
  BY DEF Inductive, FindExisting, CheckEligibility, Reread, Score, Die
<1>2. answer = [answer EXCEPT ![r] = "none"]
  BY <1>1 DEF Inductive, TypeOK
<1>3. r \in responses => pc[r] = "score"
  BY <1>1 DEF Inductive
<1>4. TrueFor(r, "none")
  BY DEF TrueFor, Refusals
<1>5. CASE FindExisting(r)
  <2>1. TrueFor(r, "duplicate") \/ ~HasResponse(from[r])
    BY <1>3, <1>5 DEF TrueFor, Refusals, FindExisting
  <2>2. "duplicate" \in Outcomes /\ "none" \in Outcomes
    BY DEF Outcomes, Refusals
  <2>3. pc[r] = "existing"
    BY <1>5 DEF FindExisting
  <2>4. CASE HasResponse(from[r])
    BY <1>1, <1>3, <1>5, <2>1, <2>2, <2>3, <2>4, QuietStep DEF FindExisting, Answer
  <2>5. CASE ~HasResponse(from[r])
    BY <1>1, <1>2, <1>3, <1>4, <1>5, <2>2, <2>3, <2>5, QuietStep DEF FindExisting, Goto
  <2>6. QED
    BY <2>4, <2>5
<1>6. CASE CheckEligibility(r)
  <2>1. TrueFor(r, "ineligible") /\ pc[r] = "sybil"
    BY <1>3, <1>6 DEF TrueFor, Refusals, CheckEligibility
  <2>2. "ineligible" \in Outcomes /\ "none" \in Outcomes
    BY DEF Outcomes, Refusals
  <2>3. CASE Answer(r, "ineligible")
    BY <1>1, <1>3, <2>1, <2>2, <2>3, QuietStep DEF Answer
  <2>4. CASE Goto(r, "reserve")
    BY <1>1, <1>2, <1>3, <1>4, <2>1, <2>2, <2>4, QuietStep DEF Goto
  <2>5. QED
    BY <1>6, <2>3, <2>4 DEF CheckEligibility
<1>7. CASE Reread(r)
  <2>. DEFINE o == IF form # "active" THEN "closed" ELSE "full"
  <2>1. TrueFor(r, o) /\ pc[r] = "reread" /\ o \in Outcomes
    <3>1. form = "active" => Cardinality(Slots) = MaxResponses
      BY <1>7 DEF Reread, Inductive
    <3>2. QED
      BY <1>3, <1>7, <3>1 DEF TrueFor, Refusals, Reread, Outcomes
  <2>2. Answer(r, o) /\ o \in {"closed", "full"}
    BY <1>7 DEF Reread
  <2>. HIDE DEF o
  <2>3. QED
    BY <1>1, <1>3, <2>1, <2>2, QuietStep DEF Answer
<1>8. CASE Score(r)
  <2>1. TrueFor(r, "accepted") /\ pc[r] = "score" /\ "accepted" \in Outcomes
    BY <1>8 DEF TrueFor, Refusals, Score, Outcomes, Inductive
  <2>2. QED
    BY <1>1, <1>8, <2>1, QuietStep DEF Score, Answer
<1>9. CASE Die(r)
  <2>1. PICK o \in Deaths :
          /\ Answer(r, o)
          /\ o = "wasted" <=> pc[r] = "create"
          /\ o = "unseen" <=> pc[r] = "score"
    BY <1>9 DEF Die, Deaths
  <2>2. TrueFor(r, o) /\ o \in Outcomes
    BY DEF TrueFor, Refusals, Outcomes, Deaths
  <2>3. o # "none" /\ o \notin {"accepted", "conflict"}
    BY <2>1 DEF Deaths
  <2>4. QED
    BY <1>1, <1>3, <2>1, <2>2, <2>3, QuietStep DEF Answer
<1>10. QED
  BY <1>5, <1>6, <1>7, <1>8, <1>9

(* Closing the survey and deleting its data preserve the invariant.        *)
LEMMA CreatorStep ==
  ASSUME Inductive, Close \/ DeleteResponses \/ DeleteForm
  PROVE  Inductive'
<1>1. /\ form' # "active" /\ form' \in {"closed", "deleted"} /\ form # "deleted"
      /\ responses' \subseteq responses /\ purged' \in BOOLEAN
      /\ UNCHANGED <<responseCount, pc, from, answer>>
  BY DEF Inductive, TypeOK, Close, DeleteResponses, DeleteForm
<1>2. TypeOK'
  BY <1>1 DEF Inductive, TypeOK
<1>3. Slots' = Slots
  BY <1>1 DEF Slots
<1>4. OneResponsePerWallet'
  BY <1>1 DEF Inductive, OneResponsePerWallet
<1>5. AnswersAreTrue'
  BY <1>1, <1>3 DEF Inductive, AnswersAreTrue, Refusals
<1>6. ASSUME NEW q \in Requests PROVE LocalOK(q)'
  BY <1>1 DEF Inductive, LocalOK
<1>7. QED
  BY <1>1, <1>2, <1>3, <1>4, <1>5, <1>6 DEF Inductive, LocalOK

(* Every step of the backend, and stuttering, preserves the invariant.     *)
LEMMA StepInductive == Inductive /\ [Next]_vars => Inductive'
<1>. SUFFICES ASSUME Inductive, [Next]_vars PROVE Inductive'
  OBVIOUS
<1>1. CASE UNCHANGED vars
  BY <1>1 DEF vars, Inductive, TypeOK, Slots, OneResponsePerWallet, AnswersAreTrue, HasResponse
<1>2. CASE Next
  BY <1>2, LoadFormStep, ReserveStep, CreateResponseStep, OtherRequestSteps, CreatorStep
     DEF Next, Serve
<1>3. QED
  BY <1>1, <1>2

(* The invariant holds however the requests are interleaved, for any       *)
(* number of them.                                                         *)
THEOREM InductiveInvariant == Spec => []Inductive
  BY InitInductive, StepInductive, PTL DEF Spec

-----------------------------------------------------------------------------
(***************************************************************************)
(* What follows for every survey.                                          *)
(***************************************************************************)

(* The documents and the state of every request keep their types.          *)
THEOREM TypeCorrect == Spec => []TypeOK
<1>1. Inductive => TypeOK
  BY DEF Inductive
<1>2. QED
  BY <1>1, InductiveInvariant, PTL

(* However many requests race, a survey never holds more responses than    *)
(* max_responses: the stored and the about-to-be-stored hold distinct      *)
(* slots, and slots are taken one at a time.                               *)
THEOREM CapacityHolds == Spec => []CapacityRespected
<1>1. ASSUME Inductive PROVE CapacityRespected
  <2>1. responses \cup Storing \subseteq Slots
    BY <1>1 DEF Inductive, TypeOK, Storing, Slots
  <2>2. Cardinality(responses \cup Storing) <= Cardinality(Slots)
    BY <2>1, SlotsAreFinite, FS_Subset
  <2>3. QED
    BY <1>1, <2>2 DEF Inductive, CapacityRespected
<1>2. QED
  BY <1>1, InductiveInvariant, PTL

(* The counter never runs ahead of the slots that were taken.              *)
THEOREM LeakHolds == Spec => []LeakBounded
<1>1. ASSUME Inductive PROVE LeakBounded
  BY <1>1 DEF Inductive, TypeOK, LeakBounded
<1>2. QED
  BY <1>1, InductiveInvariant, PTL

(* A wallet has at most one response and the creator none.                 *)
THEOREM OneResponseHolds == Spec => []OneResponsePerWallet
<1>1. Inductive => OneResponsePerWallet
  BY DEF Inductive
<1>2. QED
  BY <1>1, InductiveInvariant, PTL

(* No respondent is told something untrue; FORM_FULL counts the places     *)
(* that failed requests have lost as taken.                                *)
THEOREM AnswersHold == Spec => []AnswersAreTrue
<1>1. Inductive => AnswersAreTrue
  BY DEF Inductive
<1>2. QED
  BY <1>1, InductiveInvariant, PTL

(* Closing a survey freezes its counter for good.                          *)
THEOREM FrozenHolds == Spec => FrozenOnceClosed
<1>. DEFINE A == form # "active" => responseCount' = responseCount /\ form' # "active"
<1>1. ASSUME [Next]_vars PROVE [A]_vars
  <2>1. SUFFICES ASSUME form # "active", Next
                 PROVE  responseCount' = responseCount /\ form' # "active"
    BY <1>1
  <2>2. QED
    BY <2>1 DEF Next, Serve, LoadForm, FindExisting, CheckEligibility, Reserve, Reread,
                CreateResponse, Score, Die, Close, DeleteResponses, DeleteForm
<1>2. QED
  BY <1>1, PTL DEF Spec, FrozenOnceClosed
=============================================================================
