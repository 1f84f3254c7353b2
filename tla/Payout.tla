------------------------------- MODULE Payout -------------------------------
(***************************************************************************)
(* Closing a survey and paying its rewards.  Three parties act on two      *)
(* stores that no transaction spans:                                       *)
(*   - the creator's browser tabs (frontend/src/hooks/useSurveyLifecycle), *)
(*     each running close and distribute as a chain of awaits;             *)
(*   - the backend (forms/survey-lifecycle.service), whose handlers are    *)
(*     chains of awaited MongoDB and RPC calls;                            *)
(*   - the Anchor program (module EscrowProgram), whose instructions are   *)
(*     atomic but land some time after they were simulated.                *)
(* An action is what happens between two awaits.  One tab runs one chain   *)
(* at a time, so the program counter of the backend handler it waits for   *)
(* is its own; a second tab is also how a request outlives a closed tab.   *)
(*                                                                         *)
(* The survey is published (InitializeSurvey(Spl) has run, the protocol    *)
(* fee has been taken) and some wallets have answered.                     *)
(***************************************************************************)
EXTENDS Integers, Sequences, FiniteSets, Functions, WeightedShares

CONSTANTS
    Wallets,             \* respondents
    Late,                \* those of them who may still be submitting
    Creator, Authority,
    Tabs,                \* the creator's browser tabs
    Currencies,          \* form.rewardCurrency: "SOL", or "SPL" for USDC
    RewardType,          \* form.rewardType: "weighted" or "lucky_draw"
    WantedWinners,       \* form.numWinners
    Tier,                \* the badge tier of each wallet
    Pool,                \* declaredRewardPoolUnits: the pool net of the fee
    RentExempt,
    BatchSize,           \* MAX_DISTRIBUTE_RECIPIENTS(_SPL)_PER_TX
    DistributeWhileOpen, \* may the creator press Distribute before Close?
    MaxModerations, MaxCrashes   \* bounds

ASSUME ConstantsAssumption ==
    /\ IsFiniteSet(Wallets) /\ Late \subseteq Wallets /\ Creator \notin Wallets
    /\ Currencies \subseteq {"SOL", "SPL"}
    /\ RewardType \in {"weighted", "lucky_draw"}
    /\ WantedWinners \in Nat \ {0} /\ Pool \in Nat \ {0}
    /\ RentExempt \in Nat \ {0} /\ BatchSize \in Nat \ {0}
    /\ DistributeWhileOpen \in BOOLEAN
    /\ MaxModerations \in Nat /\ MaxCrashes \in Nat

VARIABLES
    (* the chain: the variables of EscrowProgram *)
    status, currency, maxResponses, responseCount, participants,
    vault, tokenVaultOpen, deposited, distributed, paid, fees, swept,
    (* MongoDB: the form *)
    form,              \* form.status: "active" or "closed"
    rewardDistributed, \* form.rewardDistributed
    escrowClosed,      \* form.escrowClosed
    (* MongoDB: the responses *)
    reserved,          \* wallets whose slot is reserved, response not created
    responses,         \* respondents in insertion order
    moderation,        \* moderationStatus
    marked,            \* respondents with distributed: true
    credited,          \* distributedAmount
    (* the tabs, and the two bounded counters *)
    session, moderations, crashes

Program == INSTANCE EscrowProgram
             WITH MinPool <- [c \in {"SOL", "SPL"} |-> Pool],
                  MaxPool <- [c \in {"SOL", "SPL"} |-> Pool],
                  Pools <- {}, Capacities <- {}, Fees <- {}, Batches <- {}

chain     == <<status, currency, maxResponses, responseCount, participants, vault,
               tokenVaultOpen, deposited, distributed, paid, fees, swept>>
formVars  == <<form, rewardDistributed, escrowClosed>>
ledger    == <<marked, credited>>
answers   == <<reserved, responses, moderation>>
db        == <<formVars, ledger, answers>>
bounded   == <<moderations, crashes>>
vars      == <<chain, db, session, bounded>>

Labels == {"idle", "confirmClose", "responses", "balance", "recoverMark", "recoverLosers",
           "recoverFlag", "send", "sent", "loadForm", "validate", "mark", "count", "losers",
           "recount", "flag", "buildSweep", "sweep", "confirmSweep"}

Answered  == Range(responses)
Unmarked  == Answered \ marked

-----------------------------------------------------------------------------
(***************************************************************************)
(* Plans: who gets what, in which transaction                              *)
(***************************************************************************)

Entry(wallet, amount) == [to |-> wallet, amount |-> amount, canonical |-> TRUE]

(* The elements of s that are in S, in the order of s.                     *)
Kept(s, S) ==
    LET kept[i \in 0..Len(s)] ==
          IF i = 0 THEN <<>>
          ELSE IF s[i] \in S THEN Append(kept[i-1], s[i]) ELSE kept[i-1]
    IN  kept[Len(s)]

(* Mutant: responses already distributed are planned again.                *)
EligibleAgain == Kept(responses, {w \in Answered : moderation[w] = "clean"})

(* The find of buildDistributeTx: not distributed, neither flagged nor     *)
(* rejected.                                                               *)
Eligible == Kept(responses, {w \in Unmarked : moderation[w] = "clean"})

WeightedPlan(wallets, pool) ==
    LET shares == Shares([i \in 1..Len(wallets) |-> Weight(Tier[wallets[i]])], pool)
    IN  [i \in 1..Len(wallets) |-> Entry(wallets[i], shares[i])]

(* The sequences of n distinct members of S.                               *)
Orders(S, n) == {o \in [1..n -> S] : \A i, j \in 1..n : o[i] = o[j] => i = j}

(* Any draw of distinct winners; what does not divide goes to the creator, *)
(* as one more recipient.                                                  *)
LuckyPlans(wallets, pool) ==
    LET winners  == NumWinners(WantedWinners, Len(wallets))
        leftover == Leftover(pool, winners)
    IN  {[i \in 1..winners |-> Entry(draw[i], PerWinner(pool, winners))]
            \o (IF leftover > 0 THEN <<Entry(Creator, leftover)>> ELSE <<>>) :
            draw \in Orders(Range(wallets), winners)}

Plans(wallets, pool) ==
    IF RewardType = "weighted" THEN {WeightedPlan(wallets, pool)} ELSE LuckyPlans(wallets, pool)

Least(a, b) == IF a < b THEN a ELSE b

(* Mutant: a slice one recipient too long.                                 *)
BatchOverlapping(plan, k) ==
    SubSeq(plan, (k - 1) * BatchSize + 1, Least(k * BatchSize + 1, Len(plan)))

(* chunkArray: the k-th slice of at most BatchSize recipients.             *)
Batch(plan, k) == SubSeq(plan, (k - 1) * BatchSize + 1, Least(k * BatchSize, Len(plan)))

CurrentBatch(t) == Batch(session[t].plan, session[t].batch)
LastBatch(t)    == session[t].batch * BatchSize >= Len(session[t].plan)
Recipients(s)   == {s[i].to : i \in 1..Len(s)}

(* The bulkWrite of updateMany operations: it filters on the wallet, not   *)
(* on `distributed`, and ignores recipients without a response.            *)
Mark(entries) ==
    LET hit == Recipients(entries) \cap Answered
    IN  /\ marked' = marked \cup hit
        /\ credited' = [w \in Wallets |->
              IF w \in hit
              THEN (CHOOSE e \in Range(entries) : e.to = w).amount
              ELSE credited[w]]

(* The updateMany that marks every other response as distributed, with 0.  *)
MarkLosers ==
    /\ marked' = Answered
    /\ credited' = [w \in Wallets |-> IF w \in Unmarked THEN 0 ELSE credited[w]]

-----------------------------------------------------------------------------
(***************************************************************************)
(* Respondents and moderation                                              *)
(***************************************************************************)

(* A submission takes its slot while the form is active, and creates the   *)
(* response some awaits later (module Submissions).                        *)
ReserveSlot(w) ==
    /\ form = "active"
    /\ w \in Late \ (reserved \cup Answered)
    /\ reserved' = reserved \cup {w}
    /\ UNCHANGED <<chain, formVars, ledger, responses, moderation, session, bounded>>

CreateResponse(w) ==
    /\ w \in reserved
    /\ reserved' = reserved \ {w}
    /\ responses' = Append(responses, w)
    /\ UNCHANGED <<chain, formVars, ledger, moderation, session, bounded>>

(* moderateResponse looks neither at the form's status nor at whether the  *)
(* response has been paid.                                                 *)
ModerateResponse(w, verdict) ==
    /\ moderations < MaxModerations
    /\ w \in Answered
    /\ moderation' = [moderation EXCEPT ![w] = verdict]
    /\ moderations' = moderations + 1
    /\ UNCHANGED <<chain, formVars, ledger, reserved, responses, session, crashes>>

-----------------------------------------------------------------------------
(***************************************************************************)
(* The transactions that SolanaService builds for the creator to sign, as  *)
(* they land: one instruction each, and for tokens the account of every    *)
(* recipient that has none yet.                                            *)
(***************************************************************************)

CloseSurveyTx    == Program!CloseSurvey(Creator)
DistributeTx(b)  == currency = "SOL" /\ Program!DistributeRewards(Creator, b)
DistributeSplTx(b) == currency = "SPL" /\ Program!DistributeRewardsSpl(Creator, b)
CloseEscrowTx    == currency = "SOL" /\ Program!CloseEscrow(Creator)
CloseEscrowSplTx == currency = "SPL" /\ Program!CloseEscrowSpl(Creator)

-----------------------------------------------------------------------------
(***************************************************************************)
(* Closing                                                                 *)
(***************************************************************************)

Goto(t, label) == session' = [session EXCEPT ![t].at = label]

(* buildCloseTx, then sendRawTransaction, whose simulation must accept the *)
(* instruction.  The hook does not wait for the transaction: it may never  *)
(* land.                                                                   *)
SendClose(t) ==
    /\ session[t].at = "idle"
    /\ form = "active" /\ status = "active"
    /\ CloseSurveyTx \/ UNCHANGED chain
    /\ Goto(t, "confirmClose")
    /\ UNCHANGED <<db, bounded>>

(* confirmClose; closeAndDistribute then goes on to the distribution, the  *)
(* dashboard's Close button does not.                                      *)
ConfirmClose(t) ==
    /\ session[t].at = "confirmClose"
    /\ \/ /\ form = "active"
          /\ form' = "closed"
          /\ Goto(t, "idle") \/ Goto(t, "responses")
       \/ /\ form # "active"
          /\ Goto(t, "idle")
          /\ UNCHANGED form
    /\ UNCHANGED <<chain, rewardDistributed, escrowClosed, ledger, answers, bounded>>

-----------------------------------------------------------------------------
(***************************************************************************)
(* Building the distribution                                               *)
(***************************************************************************)

(* The Distribute button is there until this tab has seen the rewards as   *)
(* distributed.                                                            *)
PressDistribute(t) ==
    /\ session[t].at = "idle" /\ ~session[t].sees
    /\ form = "closed" \/ DistributeWhileOpen
    /\ Goto(t, "responses")
    /\ UNCHANGED <<chain, db, bounded>>

ReadResponses(t) ==
    /\ session[t].at = "responses"
    /\ IF Eligible = <<>>
       THEN Goto(t, "idle")
       ELSE session' = [session EXCEPT ![t].at = "balance", ![t].eligible = Eligible]
    /\ UNCHANGED <<chain, db, bounded>>

EscrowBalance == vault

(* resolveDistributableUnits and the division.  An empty escrow is taken   *)
(* for an earlier distribution of exactly these responses that was not     *)
(* recorded; a closed token account is an RPC error.                       *)
ReadBalance(t) ==
    /\ session[t].at = "balance"
    /\ \/ /\ currency = "SPL" /\ ~tokenVaultOpen
          /\ Goto(t, "idle")
       \/ /\ currency = "SOL" \/ tokenVaultOpen
          /\ \E plan \in Plans(session[t].eligible,
                               IF EscrowBalance = 0 THEN Pool ELSE Least(EscrowBalance, Pool)) :
                session' = [session EXCEPT
                   ![t].at = IF EscrowBalance = 0 THEN "recoverMark" ELSE "send",
                   ![t].eligible = <<>>,
                   ![t].plan = plan, ![t].batch = 1, ![t].recovered = EscrowBalance = 0]
    /\ UNCHANGED <<chain, db, bounded>>

RecoverMark(t) ==
    /\ session[t].at = "recoverMark"
    /\ Mark(session[t].plan)
    /\ Goto(t, "recoverLosers")
    /\ UNCHANGED <<chain, formVars, answers, bounded>>

RecoverLosers(t) ==
    /\ session[t].at = "recoverLosers"
    /\ MarkLosers
    /\ Goto(t, "recoverFlag")
    /\ UNCHANGED <<chain, formVars, answers, bounded>>

RecoverFlag(t) ==
    /\ session[t].at = "recoverFlag"
    /\ rewardDistributed' = TRUE
    /\ Goto(t, "buildSweep")
    /\ UNCHANGED <<chain, form, escrowClosed, ledger, answers, bounded>>

-----------------------------------------------------------------------------
(***************************************************************************)
(* One batch: sign and send, wait for it to land, confirm server-side      *)
(***************************************************************************)

Accepted(batch) ==
    IF currency = "SOL" THEN Program!CanDistribute(Creator, batch)
                              ELSE Program!CanDistributeSpl(Creator, batch)

(* sendRawTransaction simulates the transaction and throws if it fails.    *)
SendBatch(t) ==
    /\ session[t].at = "send"
    /\ Goto(t, IF Accepted(CurrentBatch(t)) THEN "sent" ELSE "idle")
    /\ UNCHANGED <<chain, db, bounded>>

(* confirmTransaction returns when the transaction has landed, also when   *)
(* it failed on chain: its result is ignored.                              *)
LandBatch(t) ==
    /\ session[t].at = "sent"
    /\ \/ DistributeTx(CurrentBatch(t))
       \/ DistributeSplTx(CurrentBatch(t))
       \/ ~Accepted(CurrentBatch(t)) /\ UNCHANGED chain
    /\ Goto(t, "loadForm")
    /\ UNCHANGED <<db, bounded>>

LoadForm(t) ==
    /\ session[t].at = "loadForm"
    /\ Goto(t, IF rewardDistributed THEN "idle" ELSE "validate")
    /\ UNCHANGED <<chain, db, bounded>>

(* Every wallet must be an undistributed respondent; the amounts are not   *)
(* compared with anything.                                                 *)
Valid(batch) == Recipients(batch) \subseteq Unmarked

ValidateWallets(t) ==
    /\ session[t].at = "validate"
    /\ Goto(t, IF Valid(CurrentBatch(t)) THEN "mark" ELSE "idle")
    /\ UNCHANGED <<chain, db, bounded>>

MarkBatch(t) ==
    /\ session[t].at = "mark"
    /\ Mark(CurrentBatch(t))
    /\ Goto(t, "count")
    /\ UNCHANGED <<chain, formVars, answers, bounded>>

(* Mutants: the losers are marked whatever the batch, or never.            *)
CountRemainingNever(t) ==
    /\ session[t].at = "count"
    /\ Goto(t, "recount")
    /\ UNCHANGED <<chain, db, bounded>>

CountRemainingAnyBatch(t) ==
    /\ session[t].at = "count"
    /\ Goto(t, IF Unmarked # {} THEN "losers" ELSE "recount")
    /\ UNCHANGED <<chain, db, bounded>>

CountRemaining(t) ==
    /\ session[t].at = "count"
    /\ Goto(t, IF LastBatch(t) /\ Unmarked # {} THEN "losers" ELSE "recount")
    /\ UNCHANGED <<chain, db, bounded>>

MarkRemaining(t) ==
    /\ session[t].at = "losers"
    /\ MarkLosers
    /\ Goto(t, "recount")
    /\ UNCHANGED <<chain, formVars, answers, bounded>>

(* Mutant: the loop goes one batch too far.                                *)
NextBatchWithoutEnd(t) ==
    session' = [session EXCEPT
        ![t].at    = IF LastBatch(t) THEN "buildSweep" ELSE "send",
        ![t].batch = @ + 1]

(* The hook's next iteration, or the end of its loop.                      *)
NextBatch(t) ==
    session' = [session EXCEPT
        ![t].at    = IF LastBatch(t) THEN "buildSweep" ELSE "send",
        ![t].batch = IF LastBatch(t) THEN @ ELSE @ + 1]

Recount(t) ==
    /\ session[t].at = "recount"
    /\ IF Unmarked = {} THEN Goto(t, "flag") ELSE NextBatch(t)
    /\ UNCHANGED <<chain, db, bounded>>

FlagDistributed(t) ==
    /\ session[t].at = "flag"
    /\ rewardDistributed' = TRUE
    /\ NextBatch(t)
    /\ UNCHANGED <<chain, form, escrowClosed, ledger, answers, bounded>>

-----------------------------------------------------------------------------
(***************************************************************************)
(* Sweeping the escrow: best effort, an error is logged and the            *)
(* distribution counts as a success                                        *)
(***************************************************************************)

Finish(t) == session' = [session EXCEPT ![t].at = "idle", ![t].sees = TRUE]

(* Mutant: the sweep does not wait for the record.                         *)
BuildSweepAnyTime(t) ==
    /\ session[t].at = "buildSweep"
    /\ IF ~escrowClosed THEN Goto(t, "sweep") ELSE Finish(t)
    /\ UNCHANGED <<chain, db, bounded>>

BuildSweep(t) ==
    /\ session[t].at = "buildSweep"
    /\ IF rewardDistributed /\ ~escrowClosed THEN Goto(t, "sweep") ELSE Finish(t)
    /\ UNCHANGED <<chain, db, bounded>>

(* The program refuses a survey that is still active and an escrow that is *)
(* empty or gone.                                                          *)
SweepRefused ==
    \/ status # "inactive"
    \/ IF currency = "SOL" THEN vault = 0 ELSE ~tokenVaultOpen

(* Simulation and landing in one step: a sweep that would fail on chain    *)
(* fails verifyCloseEscrowTx, with the same outcome for the caller.        *)
SweepEscrow(t) ==
    /\ session[t].at = "sweep"
    /\ \/ (CloseEscrowTx \/ CloseEscrowSplTx) /\ Goto(t, "confirmSweep")
       \/ SweepRefused /\ Finish(t) /\ UNCHANGED chain
    /\ UNCHANGED <<db, bounded>>

(* escrowClosed is set, or was already set by another tab (an error).      *)
ConfirmSweep(t) ==
    /\ session[t].at = "confirmSweep"
    /\ escrowClosed' = TRUE
    /\ Finish(t)
    /\ UNCHANGED <<chain, form, rewardDistributed, ledger, answers, bounded>>

-----------------------------------------------------------------------------
(***************************************************************************)
(* Failures.  Only the chain's and MongoDB's state is left; the creator    *)
(* may start over.                                                         *)
(***************************************************************************)

(* The wallet refuses to sign what the chain would take, or what was sent  *)
(* expires and never lands: the distribution throws, a sweep's error is    *)
(* logged.  Nothing bounds how often.                                      *)
Refuse(t) ==
    /\ \/ /\ session[t].at = "send" /\ Accepted(CurrentBatch(t))
          /\ Goto(t, "idle")
       \/ session[t].at = "sent" /\ Goto(t, "idle")
       \/ session[t].at = "sweep" /\ Finish(t)
    /\ UNCHANGED <<chain, db, bounded>>

(* A closed tab, an HTTP or RPC error, a backend that stops between two    *)
(* awaits.                                                                 *)
Abandon(t) ==
    /\ crashes < MaxCrashes
    /\ session[t].at # "idle"
    /\ session' = [session EXCEPT ![t].at = "idle", ![t].plan = <<>>,
                                  ![t].batch = 1, ![t].eligible = <<>>]
    /\ crashes' = crashes + 1
    /\ UNCHANGED <<chain, db, moderations>>

Reload(t) ==
    /\ session[t].at = "idle" /\ session[t].sees # rewardDistributed
    /\ session' = [session EXCEPT ![t].sees = rewardDistributed]
    /\ UNCHANGED <<chain, db, bounded>>

-----------------------------------------------------------------------------

(* A published survey: its escrow holds the net pool, and for SOL the      *)
(* rent buffer.  The wallets not in Late have answered, in some order.     *)
Init ==
    /\ status = "active" /\ currency \in Currencies
    /\ maxResponses = Cardinality(Wallets) /\ responseCount = 0 /\ participants = {}
    /\ vault = Pool + (IF currency = "SOL" THEN RentExempt ELSE 0)
    /\ tokenVaultOpen = (currency = "SPL")
    /\ deposited = vault /\ distributed = 0 /\ fees = 0 /\ swept = 0
    /\ paid = [p \in Wallets \cup {Creator} |-> 0]
    /\ form = "active" /\ rewardDistributed = FALSE /\ escrowClosed = FALSE
    /\ reserved = {}
    /\ responses \in Orders(Wallets \ Late, Cardinality(Wallets \ Late))
    /\ moderation = [w \in Wallets |-> "clean"]
    /\ marked = {} /\ credited = [w \in Wallets |-> 0]
    /\ session = [t \in Tabs |-> [at |-> "idle", sees |-> FALSE, eligible |-> <<>>,
                                  plan |-> <<>>, batch |-> 1, recovered |-> FALSE]]
    /\ moderations = 0 /\ crashes = 0

(* What the code does by itself, in the browser and the backend.           *)
CodeStep(t) ==
    \/ ConfirmClose(t) \/ ReadResponses(t) \/ ReadBalance(t)
    \/ RecoverMark(t) \/ RecoverLosers(t) \/ RecoverFlag(t)
    \/ LoadForm(t) \/ ValidateWallets(t) \/ MarkBatch(t) \/ CountRemaining(t)
    \/ MarkRemaining(t) \/ Recount(t) \/ FlagDistributed(t)
    \/ BuildSweep(t) \/ ConfirmSweep(t)

(* What takes the creator's signature, and the chain to include it.        *)
SignedStep(t) == SendBatch(t) \/ LandBatch(t) \/ SweepEscrow(t)

TabStep(t) == CodeStep(t) \/ SignedStep(t)

Next ==
    \/ \E w \in Wallets :
          \/ ReserveSlot(w)
          \/ CreateResponse(w)
          \/ \E verdict \in {"clean", "flagged", "rejected"} : ModerateResponse(w, verdict)
    \/ \E t \in Tabs :
          SendClose(t) \/ PressDistribute(t) \/ TabStep(t)
          \/ Refuse(t) \/ Abandon(t) \/ Reload(t)

Spec == Init /\ [][Next]_vars

(* Once started, a chain of awaits goes on as long as nothing fails.  The  *)
(* creator need not press, nor sign, and what was sent need not land.      *)
FairSpec == Spec /\ \A t \in Tabs : WF_vars(CodeStep(t))

-----------------------------------------------------------------------------
(***************************************************************************)
(* Properties                                                              *)
(***************************************************************************)

(* The types of the documents and sessions; a session's batch is one of    *)
(* its plan, also after retries and aborted plans.                         *)
TypeOK ==
    /\ Program!TypeOK
    /\ form \in {"active", "closed"}
    /\ rewardDistributed \in BOOLEAN /\ escrowClosed \in BOOLEAN
    /\ Answered \subseteq Wallets /\ Len(responses) = Cardinality(Answered)
    /\ reserved \subseteq Wallets \ Answered
    /\ moderation \in [Wallets -> {"clean", "flagged", "rejected"}]
    /\ marked \subseteq Answered
    /\ credited \in [Wallets -> Nat]
    /\ \A t \in Tabs :
          /\ session[t].at \in Labels
          /\ session[t].sees \in BOOLEAN /\ session[t].recovered \in BOOLEAN
          /\ Range(session[t].eligible) \subseteq Answered
          /\ Recipients(session[t].plan) \subseteq Answered \cup {Creator}
          /\ session[t].batch = 1 \/ (session[t].batch - 1) * BatchSize < Len(session[t].plan)
    /\ moderations \in 0..MaxModerations /\ crashes \in 0..MaxCrashes

(* When a tab reports success, the recipients of the plan it carried out   *)
(* have been paid exactly the amounts of the plan, and MongoDB says the    *)
(* same: the program's silent skips, the moderation and the late responses *)
(* of the meantime have not driven the two ledgers apart.                  *)
PlanPaidAndRecorded ==
    \A t \in Tabs :
       session[t].at = "idle" /\ session[t].sees /\ ~session[t].recovered =>
          \A e \in Range(session[t].plan) :
             paid[e.to] = e.amount /\ credited[e.to] = e.amount

(* A response that MongoDB says is distributed is not paid (again).        *)
MarkedNeverPaidAgain == [][\A w \in marked : paid'[w] = paid[w]]_vars

(* The checks of confirmDistribute accept the batch that has been paid:    *)
(* what buildDistributeTx planned is what confirmDistribute expects, from  *)
(* the first batch to the last.                                            *)
OwnPlanConfirmed ==
    \A t \in Tabs :
       session[t].at \in {"loadForm", "validate"} =>
          ~rewardDistributed /\ Valid(CurrentBatch(t))

(* The creator presses Distribute as long as it is offered, and after some *)
(* refusals and expiries signs what is asked, and it lands.                *)
Perseveres(t) ==
    /\ WF_vars(PressDistribute(t)) /\ WF_vars(SignedStep(t))
    /\ <>[][~Refuse(t)]_vars

Completed == rewardDistributed /\ vault <= (IF currency = "SOL" THEN RentExempt ELSE 0)

(* The build throws: all that are left have been moderated away.  Or the   *)
(* chain refuses every plan over a SOL escrow that a stopped distribution  *)
(* has begun to pay, since it would leave less than the rent.              *)
Blocked(t) == ~session[t].sees /\ (Eligible = <<>> \/ ~Accepted(CurrentBatch(t)))

(* A payout that begins to send is completed by a creator who perseveres,  *)
(* however often signatures were refused and transactions expired before:  *)
(* the survey is recorded as distributed and no more than the rent is left *)
(* in the escrow.  Unless a response slipped in while it ran and is still  *)
(* to be distributed, or it is Blocked.                                    *)
PayoutCompletes ==
    (\A t \in Tabs : Perseveres(t)) =>
       \A t \in Tabs :
          session[t].at = "send" ~>
             /\ session[t].at = "idle"
             /\ Completed \/ Unmarked \cap Late # {} \/ Blocked(t)

Lifecycle == INSTANCE RewardLifecycle
               WITH out   <- distributed,
                    phase <- IF escrowClosed THEN "recorded"
                             ELSE IF (currency = "SPL" /\ ~tokenVaultOpen) \/ swept > 0
                                  THEN "swept"
                             ELSE IF rewardDistributed THEN "distributed"
                             ELSE IF distributed > 0 THEN "paying" ELSE "escrowed"

(* Whatever the tabs, retries and failures: rewards are recorded as        *)
(* distributed only after the chain has paid something, the escrow is      *)
(* swept only after that record, nobody is paid after the sweep, and the   *)
(* sweep is recorded only when it happened.                                *)
ImplementsLifecycle == Lifecycle!Spec

(* README.MD: "rewards distributed proportionally by badge tier": what has *)
(* been paid in total is divided as one distribution of it would be.       *)
PaidProportionally ==
    rewardDistributed =>
       \A i \in 1..Len(responses) :
          paid[responses[i]] =
             Shares([j \in 1..Len(responses) |-> Weight(Tier[responses[j]])], distributed)[i]

-----------------------------------------------------------------------------
(***************************************************************************)
(* The inductive invariants                                                *)
(***************************************************************************)

Distinct(s) == \A i, j \in 1..Len(s) : s[i] = s[j] => i = j

Session == [at : Labels, sees : BOOLEAN, eligible : Seq(Wallets),
            plan : Seq(Program!Entry), batch : Nat \ {0}, recovered : BOOLEAN]

Landed     == {"loadForm", "validate", "mark", "count", "losers", "recount", "flag"}
Recovering == {"recoverMark", "recoverLosers", "recoverFlag"}
Sweeping   == {"buildSweep", "sweep", "confirmSweep"}
Planned    == {"send", "sent"} \cup Landed \cup Recovering

(* The program's ledger balances, and nobody but Payout's actors uses it.  *)
ChainConsistent ==
    /\ Program!TypeOK /\ Program!Solvency /\ Program!PayoutDeactivates
    /\ status # "absent" /\ fees = 0 /\ deposited >= Pool

(* Every wallet answers once, and what is recorded is about an answer.     *)
DbConsistent ==
    /\ form \in {"active", "closed"}
    /\ rewardDistributed \in BOOLEAN /\ escrowClosed \in BOOLEAN
    /\ responses \in Seq(Wallets) /\ Distinct(responses)
    /\ reserved \subseteq Wallets \ Answered
    /\ moderation \in [Wallets -> {"clean", "flagged", "rejected"}]
    /\ marked \subseteq Answered
    /\ credited \in [Wallets -> Nat]
    /\ moderations \in 0..MaxModerations /\ crashes \in 0..MaxCrashes

(* What a session carries has been made from these answers.                *)
Fits(s, answered) ==
    /\ Range(s.eligible) \subseteq answered /\ Distinct(s.eligible)
    /\ Recipients(s.plan) \subseteq answered \cup {Creator}
    /\ Distinct([i \in 1..Len(s.plan) |-> s.plan[i].to])
    /\ s.batch = 1 \/ (s.batch - 1) * BatchSize < Len(s.plan)
    /\ s.at = "balance" => s.eligible # <<>>
    /\ s.at \in Planned => s.plan # <<>>

Consistent ==
    /\ ChainConsistent
    /\ DbConsistent
    /\ session \in [Tabs -> Session]
    /\ \A t \in Tabs : Fits(session[t], Answered)

(* The pool gives every recipient at least one unit: the weights are       *)
(* between 50 and 150.  MIN_REWARD_POOL(_SPL) is a million units and more. *)
PoolCoversEveryShare ==
    IF RewardType = "weighted" THEN 3 * Cardinality(Wallets) <= Pool ELSE WantedWinners <= Pool

EscrowSwept == (currency = "SPL" /\ ~tokenVaultOpen) \/ swept > 0

(* Every record follows the movement of money it is about.                 *)
InOrder ==
    /\ Consistent
    /\ rewardDistributed => distributed > 0
    /\ EscrowSwept => vault = 0 /\ rewardDistributed
    /\ escrowClosed => EscrowSwept
    /\ \A t \in Tabs :
          /\ session[t].at \in Landed \cup Recovering => distributed > 0
          /\ session[t].at = "sweep" => rewardDistributed
          /\ session[t].at = "confirmSweep" => EscrowSwept
          /\ session[t].at = "sent" => Accepted(CurrentBatch(t)) \/ distributed > 0
          /\ distributed = 0 => \A i \in 1..Len(session[t].plan) : session[t].plan[i].amount \in 1..Pool

OneTab == \A s, t \in Tabs : s = t

(* One tab, nothing fails, and the creator is no recipient of a plan.      *)
Undisturbed == OneTab /\ MaxCrashes = 0 /\ RewardType = "weighted"

(* The recipients of a plan from its (n+1)-th entry on.                    *)
Owed(plan, n) == {plan[i].to : i \in n+1..Len(plan)}

(* What a single tab has still to pay has not been recorded yet.           *)
Fresh ==
    /\ Consistent
    /\ \A t \in Tabs :
          /\ session[t].at = "balance" => Range(session[t].eligible) \cap marked = {}
          /\ session[t].at \in {"send", "sent", "loadForm", "validate", "mark"} =>
                Owed(session[t].plan, (session[t].batch - 1) * BatchSize) \cap marked = {}
          /\ session[t].at \in {"count", "recount", "flag"} =>
                Owed(session[t].plan, session[t].batch * BatchSize) \cap marked = {}
          /\ session[t].at = "losers" => LastBatch(t)

(* A single tab that never fails records the distribution at its end.      *)
InSequence ==
    /\ Fresh
    /\ rewardDistributed => status = "inactive"
    /\ \A t \in Tabs :
          /\ Recipients(session[t].plan) \subseteq Answered
          /\ rewardDistributed => session[t].at \in Sweeping \/ (session[t].at = "idle" /\ session[t].sees)
          /\ session[t].sees => session[t].at = "idle" /\ status = "inactive"
          /\ session[t].at = "sent" => Accepted(CurrentBatch(t))
          /\ session[t].at \in Landed \cup Recovering \cup Sweeping => status = "inactive"
          /\ session[t].at = "flag" => LastBatch(t)

Amounts(plan) == [i \in 1..Len(plan) |-> plan[i].amount]

(* The vault covers a plan from its (n+1)-th entry on.                     *)
Covered(plan, n) ==
    Total(Amounts(plan)) - SumOf(Amounts(plan))[Least(n, Len(plan))] <= vault

PaidUpTo(plan, n) ==
    \A i \in 1..Least(n, Len(plan)) : paid[plan[i].to] = plan[i].amount

RecordedUpTo(plan, n) ==
    \A i \in 1..Least(n, Len(plan)) :
       plan[i].to \in marked /\ credited[plan[i].to] = plan[i].amount

(* Nobody but the recipients of the transaction that has just landed has   *)
(* been paid without a record.                                             *)
UnpaidUnlessLanded(t) ==
    \A w \in Wallets \ marked :
       paid[w] # 0 => /\ session[t].at \in {"loadForm", "validate", "mark"}
                      /\ w \in Recipients(CurrentBatch(t))

(* The two ledgers follow the plan, batch by batch.                        *)
InStep ==
    /\ InSequence
    /\ \A t \in Tabs :
          LET plan  == session[t].plan
              begun == (session[t].batch - 1) * BatchSize
              done  == session[t].batch * BatchSize
          IN  /\ UnpaidUnlessLanded(t)
              /\ session[t].at \in {"send", "sent"} =>
                    PaidUpTo(plan, begun) /\ RecordedUpTo(plan, begun) /\ Covered(plan, begun)
              /\ session[t].at \in {"loadForm", "validate", "mark"} =>
                    PaidUpTo(plan, done) /\ RecordedUpTo(plan, begun) /\ Covered(plan, done)
              /\ session[t].at \in {"count", "losers", "recount", "flag"} =>
                    PaidUpTo(plan, done) /\ RecordedUpTo(plan, done) /\ Covered(plan, done)
              /\ session[t].at \in Recovering => session[t].recovered
              /\ session[t].at \in Sweeping \/ (session[t].at = "idle" /\ session[t].sees) =>
                    \/ session[t].recovered
                    \/ PaidUpTo(plan, Len(plan)) /\ RecordedUpTo(plan, Len(plan))
=============================================================================
