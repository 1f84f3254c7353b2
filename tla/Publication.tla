----------------------------- MODULE Publication -----------------------------
(***************************************************************************)
(* Publishing surveys: the builder page with its draft in localStorage,    *)
(* the attempts started by "[ Initialize Campaign ]" (handleInitialize),   *)
(* the transactions they send, FormsService.createForm with its fee        *)
(* collection, and the escrow of every survey on chain.                    *)
(*                                                                         *)
(* handleInitialize mints a new surveyId on every click, so an attempt and *)
(* the survey it may create have one name.  It is a closure: it runs on    *)
(* when the page is left, and it is suspended at every `await`; so is the  *)
(* request handler in the backend.                                         *)
(***************************************************************************)
EXTENDS Integers

CONSTANTS
    MaxAttempts,      \* bound: clicks on "[ Initialize Campaign ]"
    Drafts, Blank,    \* what the builder may hold; its initial contents
    FeeBps,           \* PROTOCOL_FEE_BPS
    Balances,         \* what the creator owns, by currency
    MinPool, MaxPool, \* limits of the program, by currency
    RentExempt        \* rent of an empty account

Attempts == 1..MaxAttempts
Currency == {"SOL", "SPL"}

(* ready: the title, the questions and their labels and options pass the   *)
(* checks of handleInitialize (FormEditor!Complete).                       *)
Draft == [ready : BOOLEAN, pool : Nat \ {0}, coin : Currency]

ASSUME AttemptsAssumption == MaxAttempts \in Nat
ASSUME DraftsAssumption   == Drafts \subseteq Draft /\ Blank \in Drafts
ASSUME FeeAssumption      == FeeBps \in 0..10000
ASSUME RentAssumption     == RentExempt \in Nat \ {0}
ASSUME BalancesAssumption == Balances \in [Currency -> Nat]
ASSUME LimitsAssumption   == MinPool \in [Currency -> Nat \ {0}] /\ MaxPool \in [Currency -> Nat]

VARIABLES
    page,       \* "builder" or "elsewhere"
    form,       \* what the builder shows
    saved,      \* okaform_current_draft; Blank also when it was removed
    shown,      \* walletBalance of the builder, polled every ten seconds; -1: null
    current,    \* the attempt that disabled the button of this page (initializing); 0: none
    pc,         \* where handleInitialize is suspended
    pick,       \* the draft an attempt captured
    tx,         \* the initialize transaction of an attempt
    request,    \* where createForm is suspended
    feeTx,      \* its collect_fee transaction
    registered, \* attempts whose form document exists
    recorded,   \* those with feeCollected: true
    funds,      \* the creator's wallet
    status, currency, vault, deposited, fees  \* the accounts of a survey on chain

pageVars   == <<page, form, saved, shown, current>>
clientVars == <<pc, pick>>
serverVars == <<request, registered, recorded>>
chainVars  == <<funds, status, currency, vault, deposited, fees>>
vars == <<pageVars, clientVars, tx, feeTx, serverVars, chainVars>>

Stages  == {"idle", "building", "signing", "confirming", "registering", "done", "failed", "lost"}
InFlight == {"building", "signing", "confirming", "registering"}
TxStates == {"none", "sent", "landed", "failed", "dropped"}
Handler == {"none", "verifying", "creating", "charging", "collecting", "recording", "success", "error"}

(* computeFee.                                                             *)
FeeOf(gross) == (gross * FeeBps) \div 10000
NetOf(gross) == gross - FeeOf(gross)
FeesCharged == {FeeOf(d.pool) : d \in Drafts}

(* Mutant: the escrow account is created without its rent.                 *)
NoRent(coin) == 0

(* A lamport escrow also holds the rent of its account.                    *)
Rent(coin) == IF coin = "SOL" THEN RentExempt ELSE 0

(* isn't-enough check of the page, on the balance it polled last.          *)
InsufficientBalance == shown # -1 /\ form.pool > shown

-----------------------------------------------------------------------------
Init ==
    /\ page = "elsewhere" /\ form = Blank /\ saved = Blank /\ shown = -1 /\ current = 0
    /\ pc = [i \in Attempts |-> "idle"] /\ pick = [i \in Attempts |-> Blank]
    /\ tx = [i \in Attempts |-> "none"] /\ feeTx = [i \in Attempts |-> "none"]
    /\ request = [i \in Attempts |-> "none"] /\ registered = {} /\ recorded = {}
    /\ funds = Balances
    /\ status = [i \in Attempts |-> "absent"] /\ currency = [i \in Attempts |-> "SOL"]
    /\ vault = [i \in Attempts |-> 0]
    /\ deposited = [i \in Attempts |-> 0] /\ fees = [i \in Attempts |-> 0]

(***************************************************************************)
(* The builder page                                                        *)
(***************************************************************************)

(* Mounting restores the draft of localStorage.                            *)
OpenBuilder ==
    /\ page = "elsewhere"
    /\ page' = "builder" /\ form' = saved /\ shown' = -1 /\ current' = 0
    /\ UNCHANGED <<saved, clientVars, tx, feeTx, serverVars, chainVars>>

(* Every change is saved by an effect.                                     *)
Store(d) == saved' = d

(* The pool and its currency are set in the panel of the rewards; whether  *)
(* the rest is ready changes anywhere in the builder.                      *)
Edit(d) ==
    /\ page = "builder" /\ d # form
    /\ form' = d /\ Store(d)
    /\ UNCHANGED <<page, shown, current, clientVars, tx, feeTx, serverVars, chainVars>>

(* fetchBalance; null when the RPC call fails.                             *)
PollBalance ==
    /\ page = "builder"
    /\ shown' \in {-1, funds[form.coin]}
    /\ UNCHANGED <<page, form, saved, current, clientVars, tx, feeTx, serverVars, chainVars>>

LeaveBuilder ==
    /\ page = "builder"
    /\ page' = "elsewhere" /\ form' = Blank /\ shown' = -1 /\ current' = 0
    /\ UNCHANGED <<saved, clientVars, tx, feeTx, serverVars, chainVars>>

(* The browser dies: its closures are gone, what they sent is not.         *)
CloseBrowser ==
    /\ \E i \in Attempts : pc[i] \in InFlight
    /\ page' = "elsewhere" /\ form' = Blank /\ shown' = -1 /\ current' = 0
    /\ pc' = [i \in Attempts |-> IF pc[i] \in InFlight THEN "lost" ELSE pc[i]]
    /\ UNCHANGED <<saved, pick, tx, feeTx, serverVars, chainVars>>

-----------------------------------------------------------------------------
(***************************************************************************)
(* handleInitialize                                                        *)
(***************************************************************************)

Advance(i, stage) ==
    /\ pc' = [pc EXCEPT ![i] = stage]
    /\ UNCHANGED pick

(* The `finally` of the closure: the button of its page is enabled again.  *)
End(i, stage) ==
    /\ Advance(i, stage)
    /\ current' = IF current = i THEN 0 ELSE current

Fail(i) ==
    /\ End(i, "failed")
    /\ UNCHANGED <<page, form, saved, shown>>

(* The checks before the first await; attempts are numbered in order.      *)
Click(i) ==
    /\ page = "builder" /\ current = 0
    /\ form.ready /\ ~InsufficientBalance
    /\ pc[i] = "idle" /\ \A j \in Attempts : j < i => pc[j] # "idle"
    /\ pc' = [pc EXCEPT ![i] = "building"]
    /\ pick' = [pick EXCEPT ![i] = form]
    /\ current' = i
    /\ UNCHANGED <<page, form, saved, shown, tx, feeTx, serverVars, chainVars>>

(* getLatestBlockhash and POST /forms/build-init-tx, which refuses a       *)
(* closing date less than 24 hours or more than 30 days away.              *)
Build(i) ==
    /\ pc[i] = "building"
    /\ \/ Advance(i, "signing") /\ UNCHANGED pageVars
       \/ Fail(i)
    /\ UNCHANGED <<tx, feeTx, serverVars, chainVars>>

(* Can the initialize transaction of i execute now?                        *)
Affordable(i) ==
    /\ MinPool[pick[i].coin] <= pick[i].pool /\ pick[i].pool <= MaxPool[pick[i].coin]
    /\ funds[pick[i].coin] >= pick[i].pool + Rent(pick[i].coin)

(* The wallet signs, sendRawTransaction simulates the transaction and      *)
(* broadcasts it.  The call may fail although the node has it.             *)
SignAndSend(i) ==
    /\ pc[i] = "signing" /\ Affordable(i)
    /\ tx' = [tx EXCEPT ![i] = "sent"]
    /\ \/ Advance(i, "confirming") /\ UNCHANGED pageVars
       \/ Fail(i)
    /\ UNCHANGED <<feeTx, serverVars, chainVars>>

(* The user rejects the signature, or the simulation or the call fails.    *)
NotSent(i) ==
    /\ pc[i] = "signing"
    /\ Fail(i)
    /\ UNCHANGED <<tx, feeTx, serverVars, chainVars>>

(* Mutant: waits for the block whatever happens.                           *)
ConfirmForever(i) ==
    /\ pc[i] = "confirming" /\ tx[i] \in {"landed", "failed"}
    /\ Advance(i, "registering")
    /\ request' = [request EXCEPT ![i] = "verifying"]
    /\ UNCHANGED <<pageVars, tx, feeTx, registered, recorded, chainVars>>

(* confirmTransaction returns once the transaction is in a block, and does *)
(* not throw when it failed there.  It throws when the blockhash expires   *)
(* or the connection breaks.                                               *)
Confirm(i) ==
    /\ pc[i] = "confirming"
    /\ \/ /\ tx[i] \in {"landed", "failed"}
          /\ Advance(i, "registering")
          /\ request' = [request EXCEPT ![i] = "verifying"]
          /\ UNCHANGED pageVars
       \/ Fail(i) /\ UNCHANGED request
    /\ UNCHANGED <<tx, feeTx, registered, recorded, chainVars>>

(* The answer of createForm reaches the browser: the draft is removed and  *)
(* the user taken to the dashboard.                                        *)
Published(i) ==
    /\ pc[i] = "registering" /\ request[i] = "success"
    /\ pc' = [pc EXCEPT ![i] = "done"]
    /\ request' = [request EXCEPT ![i] = "none"]
    /\ page' = "elsewhere" /\ form' = Blank /\ saved' = Blank /\ shown' = -1 /\ current' = 0
    /\ UNCHANGED <<pick, tx, feeTx, registered, recorded, chainVars>>

(* createForm threw, or its answer is lost while the handler runs on.      *)
Refused(i) ==
    /\ pc[i] = "registering"
    /\ request' = IF request[i] = "error" THEN [request EXCEPT ![i] = "none"] ELSE request
    /\ Fail(i)
    /\ UNCHANGED <<tx, feeTx, registered, recorded, chainVars>>

-----------------------------------------------------------------------------
(***************************************************************************)
(* FormsService.createForm                                                 *)
(***************************************************************************)

Reach(i, stage) == request' = [request EXCEPT ![i] = stage]

(* Mutant: the transaction is not looked at.                               *)
VerifyNothing(i) ==
    /\ request[i] = "verifying"
    /\ \/ Reach(i, "creating")
       \/ Reach(i, "error")
    /\ UNCHANGED <<pageVars, clientVars, tx, feeTx, registered, recorded, chainVars>>

(* verifyInitializeSurveyTx: the transaction is found and has no error.    *)
(* The backend's node may not have it yet, and the closing date, which is  *)
(* validated again, may have come too near since.                          *)
Verify(i) ==
    /\ request[i] = "verifying"
    /\ \/ tx[i] = "landed" /\ Reach(i, "creating")
       \/ Reach(i, "error")
    /\ UNCHANGED <<pageVars, clientVars, tx, feeTx, registered, recorded, chainVars>>

(* Mutant: charges although the document could not be created.             *)
ChargeFirst(i) ==
    /\ request[i] = "creating"
    /\ Reach(i, IF FeeOf(pick[i].pool) > 0 THEN "charging" ELSE "success")
    /\ registered' \in {registered, registered \cup {i}}
    /\ UNCHANGED <<pageVars, clientVars, tx, feeTx, recorded, chainVars>>

(* formModel.create, and a save of the same document: either may fail      *)
(* although the document is stored, and then nothing is charged for it.    *)
Create(i) ==
    /\ request[i] = "creating"
    /\ \/ /\ registered' = registered \cup {i}
          /\ Reach(i, IF FeeOf(pick[i].pool) > 0 THEN "charging" ELSE "success")
       \/ Reach(i, "error") /\ registered' \in {registered, registered \cup {i}}
    /\ UNCHANGED <<pageVars, clientVars, tx, feeTx, recorded, chainVars>>

(* collectProtocolFee(Spl): `rpc()` broadcasts, unless it fails first.     *)
Charge(i) ==
    /\ request[i] = "charging"
    /\ \/ feeTx' = [feeTx EXCEPT ![i] = "sent"] /\ Reach(i, "collecting")
       \/ Reach(i, "success") /\ UNCHANGED feeTx
    /\ UNCHANGED <<pageVars, clientVars, tx, registered, recorded, chainVars>>

(* `rpc()` returns when the transaction is confirmed; it throws when that  *)
(* takes too long, whatever becomes of the transaction.                    *)
Collect(i) ==
    /\ request[i] = "collecting"
    /\ \/ feeTx[i] = "landed" /\ Reach(i, "recording")
       \/ Reach(i, "success")
    /\ UNCHANGED <<pageVars, clientVars, tx, feeTx, registered, recorded, chainVars>>

(* form.save() with feeCollected: true; its failure is swallowed.          *)
Record(i) ==
    /\ request[i] = "recording"
    /\ \/ recorded' = recorded \cup {i}
       \/ UNCHANGED recorded
    /\ Reach(i, "success")
    /\ UNCHANGED <<pageVars, clientVars, tx, feeTx, registered, chainVars>>

(* Nobody listens any more.                                                *)
AnswerNobody(i) ==
    /\ request[i] \in {"success", "error"} /\ pc[i] # "registering"
    /\ Reach(i, "none")
    /\ UNCHANGED <<pageVars, clientVars, tx, feeTx, registered, recorded, chainVars>>

(* The process dies: its handlers are gone, the connections are reset.     *)
BackendCrash ==
    /\ \E i \in Attempts : request[i] # "none"
    /\ request' = [i \in Attempts |-> "none"]
    /\ pc' = [i \in Attempts |-> IF pc[i] = "registering" THEN "failed" ELSE pc[i]]
    /\ current' = IF current # 0 /\ pc'[current] = "failed" THEN 0 ELSE current
    /\ UNCHANGED <<page, form, saved, shown, pick, tx, feeTx, registered, recorded, chainVars>>

-----------------------------------------------------------------------------
(***************************************************************************)
(* The chain (EscrowProgram, seen from the transactions sent here)         *)
(***************************************************************************)

(* Mutant: what the simulation saw is taken for granted.                   *)
LandUnchecked(i) ==
    LET coin == pick[i].coin
        moved == pick[i].pool + Rent(coin)
    IN  /\ tx[i] = "sent"
        /\ tx' = [tx EXCEPT ![i] = "landed"]
        /\ status' = [status EXCEPT ![i] = "active"]
        /\ currency' = [currency EXCEPT ![i] = coin]
        /\ vault' = [vault EXCEPT ![i] = @ + moved]
        /\ deposited' = [deposited EXCEPT ![i] = @ + moved]
        /\ funds' = [funds EXCEPT ![coin] = @ - moved]
        /\ UNCHANGED <<fees, pageVars, clientVars, feeTx, serverVars>>

(* The survey and its escrow are created, and the creator pays.            *)
Opens(i, coin) ==
    LET moved == pick[i].pool + Rent(coin)
    IN  /\ status' = [status EXCEPT ![i] = "active"]
        /\ currency' = [currency EXCEPT ![i] = coin]
        /\ vault' = [vault EXCEPT ![i] = @ + moved]
        /\ deposited' = [deposited EXCEPT ![i] = @ + moved]
        /\ funds' = [funds EXCEPT ![coin] = @ - moved]
        /\ UNCHANGED fees

InitializeSurveyTx(i)    == pick[i].coin = "SOL" /\ Opens(i, "SOL")
InitializeSurveySplTx(i) == pick[i].coin = "SPL" /\ Opens(i, "SPL")

(* What buildInitializeTx has built and the creator has signed.            *)
LandInitialize(i) ==
    /\ tx[i] = "sent"
    /\ IF Affordable(i)
       THEN /\ tx' = [tx EXCEPT ![i] = "landed"]
            /\ InitializeSurveyTx(i) \/ InitializeSurveySplTx(i)
       ELSE tx' = [tx EXCEPT ![i] = "failed"] /\ UNCHANGED chainVars
    /\ UNCHANGED <<pageVars, clientVars, feeTx, serverVars>>

(* collect_fee(_spl), signed by the authority.                             *)
LandFee(i) ==
    /\ feeTx[i] = "sent"
    /\ LET fee == FeeOf(pick[i].pool)
       IN  IF /\ status[i] # "absent" /\ fee > 0 /\ vault[i] >= fee
              /\ currency[i] = "SOL" => vault[i] - fee = 0 \/ vault[i] - fee >= RentExempt
           THEN /\ feeTx' = [feeTx EXCEPT ![i] = "landed"]
                /\ vault' = [vault EXCEPT ![i] = @ - fee]
                /\ fees' = [fees EXCEPT ![i] = @ + fee]
                /\ UNCHANGED <<funds, status, currency, deposited>>
           ELSE feeTx' = [feeTx EXCEPT ![i] = "failed"] /\ UNCHANGED chainVars
    /\ UNCHANGED <<pageVars, clientVars, tx, serverVars>>

(* A transaction whose blockhash expired never lands.                      *)
Drop(i) ==
    /\ \/ tx[i] = "sent" /\ tx' = [tx EXCEPT ![i] = "dropped"] /\ UNCHANGED feeTx
       \/ feeTx[i] = "sent" /\ feeTx' = [feeTx EXCEPT ![i] = "dropped"] /\ UNCHANGED tx
    /\ UNCHANGED <<pageVars, clientVars, serverVars, chainVars>>

Handle(i) ==
    Verify(i) \/ Create(i) \/ Charge(i) \/ Collect(i) \/ Record(i)

Next ==
    \/ OpenBuilder \/ PollBalance \/ LeaveBuilder \/ CloseBrowser \/ BackendCrash
    \/ \E d \in Drafts : Edit(d)
    \/ \E i \in Attempts :
          \/ Click(i) \/ Build(i) \/ SignAndSend(i) \/ NotSent(i) \/ Confirm(i)
          \/ Published(i) \/ Refused(i)
          \/ Handle(i) \/ AnswerNobody(i)
          \/ LandInitialize(i) \/ LandFee(i) \/ Drop(i)

(* Calls and handlers end, with one result or another.  Nothing makes the  *)
(* user answer the wallet's prompt or a transaction land.                  *)
Fairness ==
    \A i \in Attempts :
       /\ WF_vars(Build(i))
       /\ WF_vars(Confirm(i))
       /\ WF_vars(Handle(i))
       /\ WF_vars(Published(i) \/ Refused(i))

Spec == Init /\ [][Next]_vars /\ Fairness

-----------------------------------------------------------------------------
(***************************************************************************)
(* Properties                                                              *)
(***************************************************************************)

TypeOK ==
    /\ page \in {"builder", "elsewhere"}
    /\ form \in Drafts /\ saved \in Drafts
    /\ shown \in Int /\ current \in 0..MaxAttempts
    /\ pc \in [Attempts -> Stages] /\ pick \in [Attempts -> Drafts]
    /\ tx \in [Attempts -> TxStates] /\ feeTx \in [Attempts -> TxStates]
    /\ request \in [Attempts -> Handler]
    /\ registered \subseteq Attempts /\ recorded \subseteq Attempts
    /\ funds \in [Currency -> Nat]
    /\ status \in [Attempts -> {"absent", "active"}]
    /\ currency \in [Attempts -> Currency]
    /\ vault \in [Attempts -> Nat] /\ deposited \in [Attempts -> Nat]
    /\ fees \in [Attempts -> Nat]

(* Every form that respondents can see has its survey on chain, and the    *)
(* escrow still covers the net reward pool of the document, whatever       *)
(* calls failed, timed out, were repeated by the creator or survived the   *)
(* crash of the browser or of the backend: collect_fee is not idempotent,  *)
(* and a second charge would come out of the rewards.                      *)
FormsAreBacked ==
    \A i \in registered :
       LET d == pick[i] IN
       /\ status[i] = "active" /\ currency[i] = d.coin
       /\ deposited[i] = d.pool + Rent(d.coin)
       /\ vault[i] >= NetOf(d.pool) + Rent(d.coin)

(* feeCollected is never set unless the fee has left the escrow, and no    *)
(* fee is taken from a survey whose form does not exist (createForm        *)
(* persists the survey before it charges).                                 *)
FeeLedgerSound ==
    \A i \in Attempts :
       /\ i \in recorded => fees[i] = FeeOf(pick[i].pool)
       /\ fees[i] > 0 => i \in registered

(* The creator is told that a survey is published only when it is; a       *)
(* reverted or lost initialize transaction, which confirmTransaction does  *)
(* not report, always surfaces as a failed attempt.                        *)
PublishedMeansLive == \A i \in Attempts : pc[i] = "done" => i \in registered

(* An attempt the user has signed, and one waiting for the backend, comes  *)
(* to an end: the button is not disabled for ever.                         *)
AttemptsEnd ==
    \A i \in Attempts :
       /\ pc[i] = "building" ~> pc[i] \notin {"building"}
       /\ pc[i] \in {"confirming", "registering"} ~> pc[i] \in {"done", "failed", "lost"}

-----------------------------------------------------------------------------
(***************************************************************************)
(* The inductive invariant, attempt by attempt                             *)
(***************************************************************************)

(* The accounts of the survey, as the two transactions left them.          *)
EscrowState(i) ==
    /\ status[i] = (IF tx[i] = "landed" THEN "active" ELSE "absent")
    /\ currency[i] = (IF tx[i] = "landed" THEN pick[i].coin ELSE "SOL")
    /\ deposited[i] = (IF tx[i] = "landed" THEN pick[i].pool + Rent(pick[i].coin) ELSE 0)
    /\ fees[i] = (IF feeTx[i] = "landed" THEN FeeOf(pick[i].pool) ELSE 0)
    /\ vault[i] = deposited[i] - fees[i]

(* How far the page is tells what exists already.                          *)
ClientState(i) ==
    /\ pc[i] \in {"idle", "building", "signing"} => tx[i] = "none"
    /\ pc[i] \in {"idle", "building", "signing", "confirming"} =>
          request[i] = "none" /\ i \notin registered
    /\ pc[i] = "done" => i \in registered

(* So does how far the handler is.                                         *)
HandlerState(i) ==
    /\ request[i] \in {"creating", "charging", "collecting", "recording"} => tx[i] = "landed"
    /\ request[i] \in {"verifying", "creating"} => i \notin registered
    /\ request[i] \in {"charging", "collecting", "recording", "success"} => i \in registered
    /\ request[i] = "charging" => feeTx[i] = "none"
    /\ request[i] = "recording" => feeTx[i] = "landed"

(* A form follows its escrow, the fee follows the form, the mark the fee.  *)
OrderOfEvents(i) ==
    /\ i \in registered => tx[i] = "landed"
    /\ feeTx[i] # "none" => i \in registered
    /\ i \in recorded => feeTx[i] = "landed"

Consistent(i) == EscrowState(i) /\ ClientState(i) /\ HandlerState(i) /\ OrderOfEvents(i)

Inductive == TypeOK /\ \A i \in Attempts : Consistent(i)

-----------------------------------------------------------------------------
(***************************************************************************)
(* What the pages and the backend do to an escrow are steps of the on-chain*)
(* program: EscrowProgram of one survey, with the backend's key as         *)
(* authority.                                                              *)
(***************************************************************************)
Program(i) == INSTANCE EscrowProgram WITH
    Wallets <- {}, Creator <- "creator", Authority <- "authority",
    Pools <- {d.pool : d \in Drafts}, Capacities <- {1}, Batches <- {},
    Fees <- FeesCharged,
    status <- status[i], currency <- currency[i],
    maxResponses <- IF status[i] = "absent" THEN 0 ELSE 1,
    responseCount <- 0, participants <- {},
    vault <- vault[i],
    tokenVaultOpen <- status[i] # "absent" /\ currency[i] = "SPL",
    deposited <- deposited[i], distributed <- 0,
    paid <- [p \in {"creator"} |-> 0],
    fees <- fees[i], swept <- 0

(* Every survey starts and evolves as the on-chain program allows.         *)
FollowsProgram ==
    /\ \A i \in Attempts : Program(i)!Init
    /\ [][\A i \in Attempts : [Program(i)!Next]_(Program(i)!vars)]_vars
=============================================================================
