----------------------------- MODULE Submissions -----------------------------
(***************************************************************************)
(* Answering one survey: SubmissionsService.createSubmission of the        *)
(* backend, any number of requests in flight, against the form document,   *)
(* the response collection with its unique index, the creator closing the  *)
(* survey and deleting its data.  A request is suspended at every `await`, *)
(* so each database call or sybil check is one action.                     *)
(***************************************************************************)
EXTENDS Integers, FiniteSets

CONSTANTS
    Requests,      \* POST requests that may ever be made for this survey
    Wallets,       \* wallets of respondents
    Creator,       \* form.creator
    MaxResponses,  \* form.maxResponses
    MaxFailures    \* bound: requests that die half-way

Callers == Wallets \cup {Creator}

ASSUME RequestsAssumption == IsFiniteSet(Requests)
ASSUME CreatorAssumption  == Creator \notin Wallets
ASSUME BoundsAssumption   == MaxResponses \in Nat /\ MaxFailures \in Nat

VARIABLES
    form,          \* form.status; "deleted" once the document is gone
    responseCount, \* form.responseCount
    responses,     \* requests whose response document is stored
    pc,            \* the await a request is suspended at
    from,          \* the respondentWallet of a request
    answer,        \* how a request ended
    purged         \* deleteSurveyData has removed the responses, not yet the form

vars == <<form, responseCount, responses, pc, from, answer, purged>>

Stages   == {"idle", "existing", "sybil", "reserve", "reread", "create", "score", "done"}
Refusals == {"not_found", "own_survey", "closed", "duplicate", "ineligible", "full", "conflict"}

(* A request that dies (backend crash, database or RPC error) is "lost"    *)
(* before it has a slot, "wasted" while it holds one, and "unseen" when    *)
(* its response is already stored.                                         *)
Deaths   == {"lost", "wasted", "unseen"}
Outcomes == {"none", "accepted"} \cup Refusals \cup Deaths

Goto(r, stage) ==
    /\ pc' = [pc EXCEPT ![r] = stage]
    /\ UNCHANGED answer

Answer(r, outcome) ==
    /\ pc' = [pc EXCEPT ![r] = "done"]
    /\ answer' = [answer EXCEPT ![r] = outcome]

(* What findOne({formId, respondentWallet}) and the unique index look for. *)
HasResponse(wallet) == \E r \in responses : from[r] = wallet

-----------------------------------------------------------------------------
Init ==
    /\ form = "active" /\ responseCount = 0 /\ responses = {} /\ purged = FALSE
    /\ pc = [r \in Requests |-> "idle"]
    /\ from = [r \in Requests |-> Creator]
    /\ answer = [r \in Requests |-> "none"]

(* Guards 1 to 3, on one read of the form.                                 *)
LoadForm(r, wallet) ==
    /\ pc[r] = "idle"
    /\ from' = [from EXCEPT ![r] = wallet]
    /\ \/ form = "deleted" /\ Answer(r, "not_found")
       \/ form # "deleted" /\ wallet = Creator /\ Answer(r, "own_survey")
       \/ form = "closed" /\ wallet # Creator /\ Answer(r, "closed")
       \/ form = "active" /\ wallet # Creator /\ Goto(r, "existing")
    /\ UNCHANGED <<form, responseCount, responses, purged>>

(* Mutant: guard 4 swallows a duplicate without answering it.              *)
FindExistingSilently(r) ==
    /\ pc[r] = "existing"
    /\ ~HasResponse(from[r])
    /\ Goto(r, "sybil")
    /\ UNCHANGED <<form, responseCount, responses, from, purged>>

(* Guard 4.                                                                *)
FindExisting(r) ==
    /\ pc[r] = "existing"
    /\ IF HasResponse(from[r]) THEN Answer(r, "duplicate") ELSE Goto(r, "sybil")
    /\ UNCHANGED <<form, responseCount, responses, from, purged>>

(* Guard 5: wallet age and balance, from the chain.                        *)
CheckEligibility(r) ==
    /\ pc[r] = "sybil"
    /\ Answer(r, "ineligible") \/ Goto(r, "reserve")
    /\ UNCHANGED <<form, responseCount, responses, from, purged>>

(* Mutants: a form filled by one too many, a counter incremented before    *)
(* the filter is evaluated, a filter without the status.                   *)
ReserveOneMore(r) ==
    /\ pc[r] = "reserve"
    /\ IF form = "active" /\ responseCount <= MaxResponses
       THEN Goto(r, "create") /\ responseCount' = responseCount + 1
       ELSE Goto(r, "reread") /\ UNCHANGED responseCount
    /\ UNCHANGED <<form, responses, from, purged>>

ReserveThenTest(r) ==
    /\ pc[r] = "reserve"
    /\ responseCount' = responseCount + 1
    /\ Goto(r, IF form = "active" /\ responseCount < MaxResponses THEN "create" ELSE "reread")
    /\ UNCHANGED <<form, responses, from, purged>>

ReserveWhenClosed(r) ==
    /\ pc[r] = "reserve"
    /\ IF responseCount < MaxResponses
       THEN Goto(r, "create") /\ responseCount' = responseCount + 1
       ELSE Goto(r, "reread") /\ UNCHANGED responseCount
    /\ UNCHANGED <<form, responses, from, purged>>

(* Guard 6: findOneAndUpdate filters on status and capacity and increments *)
(* in one database operation; when nothing matches the form is read again. *)
Reserve(r) ==
    /\ pc[r] = "reserve"
    /\ IF form = "active" /\ responseCount < MaxResponses
       THEN Goto(r, "create") /\ responseCount' = responseCount + 1
       ELSE Goto(r, "reread") /\ UNCHANGED responseCount
    /\ UNCHANGED <<form, responses, from, purged>>

(* Mutant: every request that found no slot is told the survey is full.    *)
RereadAlwaysFull(r) ==
    /\ pc[r] = "reread"
    /\ Answer(r, "full")
    /\ UNCHANGED <<form, responseCount, responses, from, purged>>

(* The form is read again for the reason: it may have been closed, but not *)
(* have lost a slot, since guard 6 failed.                                 *)
Reread(r) ==
    /\ pc[r] = "reread"
    /\ Answer(r, IF form # "active" THEN "closed" ELSE "full")
    /\ UNCHANGED <<form, responseCount, responses, from, purged>>

(* Mutant: no unique index.                                                *)
CreateResponseUnindexed(r) ==
    /\ pc[r] = "create"
    /\ Goto(r, "score") /\ responses' = responses \cup {r}
    /\ UNCHANGED <<form, responseCount, from, purged>>

(* responseModel.create: the unique index on (formId, respondentWallet)    *)
(* rejects a second response; the slot is not given back.                  *)
CreateResponse(r) ==
    /\ pc[r] = "create"
    /\ IF HasResponse(from[r])
       THEN Answer(r, "conflict") /\ UNCHANGED responses
       ELSE Goto(r, "score") /\ responses' = responses \cup {r}
    /\ UNCHANGED <<form, responseCount, from, purged>>

(* applyScore swallows its errors and checkAndCloseIfFull only logs: the   *)
(* submission is accepted whatever they do.                                *)
Score(r) ==
    /\ pc[r] = "score"
    /\ Answer(r, "accepted")
    /\ UNCHANGED <<form, responseCount, responses, from, purged>>

(* Mutant: a request that dies gives a slot back, whether it had one or    *)
(* not.                                                                    *)
DieRefunding(r) ==
    /\ pc[r] \notin {"idle", "done"}
    /\ Cardinality({q \in Requests : answer[q] \in Deaths}) < MaxFailures
    /\ Answer(r, "lost")
    /\ responseCount' = responseCount - 1
    /\ UNCHANGED <<form, responses, from, purged>>

Die(r) ==
    /\ pc[r] \notin {"idle", "done"}
    /\ Cardinality({q \in Requests : answer[q] \in Deaths}) < MaxFailures
    /\ \/ pc[r] = "create" /\ Answer(r, "wasted")
       \/ pc[r] = "score" /\ Answer(r, "unseen")
       \/ pc[r] \notin {"create", "score"} /\ Answer(r, "lost")
    /\ UNCHANGED <<form, responseCount, responses, from, purged>>

(* confirmClose.                                                           *)
Close ==
    /\ form = "active"
    /\ form' = "closed"
    /\ UNCHANGED <<responseCount, responses, pc, from, answer, purged>>

(* deleteSurveyData: the responses first, then the form, no transaction.   *)
(* Called again after a crash in between, it starts over.                  *)
DeleteResponses ==
    /\ form = "closed"
    /\ responses' = {}
    /\ purged' = TRUE
    /\ UNCHANGED <<form, responseCount, pc, from, answer>>

DeleteForm ==
    /\ form = "closed" /\ purged
    /\ form' = "deleted"
    /\ purged' = FALSE
    /\ UNCHANGED <<responseCount, responses, pc, from, answer>>

Serve(r) ==
    \/ FindExisting(r) \/ CheckEligibility(r) \/ Reserve(r) \/ Reread(r)
    \/ CreateResponse(r) \/ Score(r)

Next ==
    \/ \E r \in Requests : \/ \E wallet \in Callers : LoadForm(r, wallet)
                           \/ Serve(r)
                           \/ Die(r)
    \/ Close \/ DeleteResponses \/ DeleteForm

(* The event loop resumes a request whose await has settled; nothing makes *)
(* a respondent submit or the creator close or delete.                     *)
Spec == Init /\ [][Next]_vars /\ \A r \in Requests : WF_vars(Serve(r))

-----------------------------------------------------------------------------
(***************************************************************************)
(* Properties                                                              *)
(***************************************************************************)

(* The types of the documents and of the requests' local state.            *)
TypeOK ==
    /\ form \in {"active", "closed", "deleted"}
    /\ responseCount \in Nat
    /\ responses \subseteq Requests
    /\ pc \in [Requests -> Stages]
    /\ from \in [Requests -> Callers]
    /\ answer \in [Requests -> Outcomes]
    /\ purged \in BOOLEAN

Storing == {r \in Requests : pc[r] = "create"}

(* However many requests race past the early checks, the responses stored  *)
(* and those about to be never exceed the counter, nor the counter         *)
(* max_responses (guard 6 of createSubmission).                            *)
CapacityRespected ==
    /\ Cardinality(responses \cup Storing) <= responseCount
    /\ responseCount <= MaxResponses

(* The requests that ever took a slot: being stored, stored, or lost.      *)
Slots == {r \in Requests : \/ pc[r] \in {"create", "score"}
                           \/ answer[r] \in {"accepted", "conflict", "wasted", "unseen"}}

(* A slot is lost only to a duplicate that raced past guard 4 or to a      *)
(* request that died between reserving and storing: a refused request      *)
(* costs nothing.                                                          *)
LeakBounded == responseCount <= Cardinality(Slots)

(* One wallet, one response, and none of the creator's, also when the same *)
(* wallet submits twice at once: guard 4 alone would not give this.        *)
OneResponsePerWallet ==
    /\ \A r, q \in responses : from[r] = from[q] => r = q
    /\ \A r \in responses : from[r] # Creator

(* The answer a respondent gets is still true when it arrives: accepted    *)
(* means stored (unless the creator deleted the data), a refused request   *)
(* left nothing behind, and the reason given holds.  Full is true of the   *)
(* places, not of the responses: each place is taken by a response, stored *)
(* or being stored, or lost to a request counted in Slots.  The verdict of *)
(* the sybil check is that service's own and has no clause.                *)
AnswersAreTrue ==
    \A r \in Requests :
       /\ answer[r] = "accepted" => r \in responses \/ form # "active"
       /\ answer[r] \in Refusals => r \notin responses
       /\ answer[r] = "closed" => form # "active"
       /\ answer[r] = "not_found" => form = "deleted"
       /\ answer[r] = "own_survey" => from[r] = Creator
       /\ answer[r] = "full" => Cardinality(Slots) = MaxResponses
       /\ answer[r] \in {"duplicate", "conflict"} => HasResponse(from[r]) \/ form # "active"

(* The number of slots taken is final once the survey is closed, even for  *)
(* requests that saw it open.                                              *)
FrozenOnceClosed == [][form # "active" => responseCount' = responseCount /\ form' # "active"]_vars

(* Every submission is answered.                                           *)
EverySubmissionAnswered == \A r \in Requests : pc[r] # "idle" ~> pc[r] = "done"

(* The inductive invariant: the counter is the number of slots taken, a    *)
(* stored response is of a request past its creation, only a wallet that   *)
(* may answer gets past the guards, a request has an answer when it is     *)
(* done and not before, and one that found no slot had a reason.           *)
Inductive ==
    /\ TypeOK
    /\ responseCount = Cardinality(Slots)
    /\ responseCount <= MaxResponses
    /\ purged => form # "active"
    /\ \A r \in Requests :
          /\ answer[r] = "none" <=> pc[r] # "done"
          /\ r \in responses => pc[r] = "score" \/ answer[r] \in {"accepted", "unseen"}
          /\ pc[r] \notin {"idle", "done"} \/ r \in responses => from[r] # Creator
          /\ pc[r] = "score" => r \in responses \/ form # "active"
          /\ pc[r] = "reread" => responseCount = MaxResponses \/ form # "active"
    /\ OneResponsePerWallet
    /\ AnswersAreTrue
=============================================================================
