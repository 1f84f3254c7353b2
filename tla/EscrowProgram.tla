---------------------------- MODULE EscrowProgram ----------------------------
(***************************************************************************)
(* The okaform Anchor program, seen from one survey: the survey account,   *)
(* its escrow vault, its participant entries, and the money that has left  *)
(* the vault.  Every action is one instruction of                          *)
(* okaform-program/programs/okaform/src/instructions.  A Solana            *)
(* transaction is atomic: an instruction whose `require!` fails rolls back *)
(* everything, so a failing instruction is the absence of a step and the   *)
(* checks are guards.                                                      *)
(*                                                                         *)
(* A survey pays out in lamports ("SOL") or in the base units of one SPL   *)
(* token ("SPL").  vault is the balance of the escrow in that unit; for a  *)
(* SOL survey it includes the rent-exemption buffer the creator deposits   *)
(* when the PDA is created.                                                *)
(***************************************************************************)
EXTENDS Integers, Sequences, FiniteSets

CONSTANTS
    Wallets,          \* respondent wallets
    Creator,          \* survey.creator
    Authority,        \* authority::ID of constants.rs
    MinPool, MaxPool, \* MIN_ / MAX_REWARD_POOL(_SPL), by currency
    RentExempt,       \* the runtime's rent-exemption minimum of an empty account
    Pools,            \* reward_pool arguments tried
    Capacities,       \* max_responses arguments tried
    Fees,             \* fee_lamports / fee_amount arguments tried
    Batches           \* (recipients, amounts) arguments tried

Currency == {"SOL", "SPL"}
Payees   == Wallets \cup {Creator}
Signers  == Payees \cup {Authority}

(* One recipient of a distribution: the wallet, its amount, and (read by   *)
(* the SPL variant only) whether the account passed for it is its          *)
(* initialised canonical associated token account.                         *)
Entry == [to : Payees, amount : Nat, canonical : BOOLEAN]

ASSUME WalletsAssumption == IsFiniteSet(Wallets) /\ Creator \notin Wallets
ASSUME BoundsAssumption ==
    /\ MinPool \in [Currency -> Nat \ {0}]
    /\ MaxPool \in [Currency -> Nat]
    /\ RentExempt \in Nat \ {0}
ASSUME InputsAssumption ==
    /\ Pools \subseteq Nat
    /\ Capacities \subseteq Nat
    /\ Fees \subseteq Nat
    /\ Batches \subseteq Seq(Entry)

VARIABLES
    status,         \* "absent" (no survey account), "active", "inactive"
    currency,       \* survey.token_mint: native marker or an SPL mint
    maxResponses,   \* survey.max_responses
    responseCount,  \* survey.response_count
    participants,   \* wallets that have a ParticipantEntry PDA
    vault,          \* balance of the escrow
    tokenVaultOpen, \* the SPL escrow token account exists
    deposited,      \* everything ever put into the vault
    distributed,    \* everything ever paid out by distribute_rewards(_spl)
    paid,           \* the same, by payee
    fees,           \* everything ever taken by collect_fee(_spl)
    swept           \* everything ever returned by close_escrow(_spl)

surveyVars == <<status, currency, maxResponses, responseCount, participants>>
moneyVars  == <<vault, tokenVaultOpen, deposited, distributed, paid, fees, swept>>
vars       == <<surveyVars, moneyVars>>

-----------------------------------------------------------------------------
(***************************************************************************)
(* The payout loop                                                         *)
(***************************************************************************)

(* Mutant: the running total is forgotten in the balance check.            *)
SkipsIgnoringMoved(balance, moved, amount) == amount = 0 \/ balance < amount

(* An entry is skipped, not rejected, when it is zero or does not fit in   *)
(* the balance read before the loop, given what the loop already moved.    *)
Skips(balance, moved, amount) == amount = 0 \/ balance < moved + amount

(* Moved(balance, batch)[i] is `distributed` after the first i entries.    *)
Moved(balance, batch) ==
    LET moved[i \in 0..Len(batch)] ==
          IF i = 0 THEN 0
          ELSE IF Skips(balance, moved[i-1], batch[i].amount) THEN moved[i-1]
          ELSE moved[i-1] + batch[i].amount
    IN  moved

TotalMoved(balance, batch) == Moved(balance, batch)[Len(batch)]

Transferred(balance, batch) ==
    {i \in 1..Len(batch) : ~Skips(balance, Moved(balance, batch)[i-1], batch[i].amount)}

(* Mutant: a skipped entry is credited all the same.                       *)
ReceivedSkippedToo(balance, batch, payee) ==
    LET received[i \in 0..Len(batch)] ==
          IF i = 0 THEN 0
          ELSE received[i-1] + (IF batch[i].to = payee THEN batch[i].amount ELSE 0)
    IN  received

(* Received(...)[i]: what payee has been sent by the first i entries.      *)
Received(balance, batch, payee) ==
    LET moved == Moved(balance, batch)
        received[i \in 0..Len(batch)] ==
          IF i = 0 THEN 0
          ELSE received[i-1] + (IF batch[i].to = payee THEN moved[i] - moved[i-1] ELSE 0)
    IN  received

Credit(balance, batch, payee) == Received(balance, batch, payee)[Len(batch)]

(* PartialSum(f)[S]: the sum of f over a subset S of its finite domain.     *)
PartialSum(f) ==
    LET sum[S \in SUBSET DOMAIN f] ==
          IF S = {} THEN 0 ELSE LET p == CHOOSE p \in S : TRUE IN f[p] + sum[S \ {p}]
    IN  sum

SumOver(f) == PartialSum(f)[DOMAIN f]

(* The runtime refuses a transaction that leaves an account with a balance *)
(* strictly between zero and the rent-exemption minimum.                   *)
RentOK(lamports) == lamports = 0 \/ lamports >= RentExempt

(* The lamport escrow of a survey paid in SPL tokens was never created.    *)
LamportVault == IF currency = "SOL" THEN vault ELSE 0

-----------------------------------------------------------------------------
(***************************************************************************)
(* Instructions                                                            *)
(***************************************************************************)

Init ==
    /\ status = "absent" /\ currency = "SOL"
    /\ maxResponses = 0 /\ responseCount = 0 /\ participants = {}
    /\ vault = 0 /\ tokenVaultOpen = FALSE
    /\ deposited = 0 /\ distributed = 0 /\ fees = 0 /\ swept = 0
    /\ paid = [p \in Payees |-> 0]

(* The `init` constraints on the survey and vault PDAs let a survey be     *)
(* initialised once: no instruction closes the survey account.             *)
OpenSurvey(c, pool, capacity) ==
    /\ status = "absent"
    /\ MinPool[c] <= pool /\ pool <= MaxPool[c]
    /\ status' = "active"
    /\ currency' = c
    /\ maxResponses' = capacity
    /\ responseCount' = 0
    /\ UNCHANGED <<participants, distributed, paid, fees, swept>>

InitializeSurvey(pool, capacity) ==
    /\ OpenSurvey("SOL", pool, capacity)
    /\ vault' = vault + RentExempt + pool
    /\ deposited' = deposited + RentExempt + pool
    /\ UNCHANGED tokenVaultOpen

InitializeSurveySpl(pool, capacity) ==
    /\ OpenSurvey("SPL", pool, capacity)
    /\ vault' = vault + pool
    /\ deposited' = deposited + pool
    /\ tokenVaultOpen' = TRUE

(* Mutant: `<=` in the max_responses check.                                *)
RegisterParticipantOneMore(w) ==
    /\ w # Creator
    /\ status = "active"
    /\ responseCount <= maxResponses
    /\ w \notin participants
    /\ participants' = participants \cup {w}
    /\ responseCount' = responseCount + 1
    /\ UNCHANGED <<status, currency, maxResponses, moneyVars>>

(* The participant PDA is `init`: one entry per wallet.                    *)
RegisterParticipant(w) ==
    /\ w # Creator
    /\ status = "active"
    /\ responseCount < maxResponses
    /\ w \notin participants
    /\ participants' = participants \cup {w}
    /\ responseCount' = responseCount + 1
    /\ UNCHANGED <<status, currency, maxResponses, moneyVars>>

CloseSurvey(signer) ==
    /\ signer \in {Creator, Authority}
    /\ status = "active"
    /\ status' = "inactive"
    /\ UNCHANGED <<currency, maxResponses, responseCount, participants, moneyVars>>

(* Mutant: a distribution forgets to deactivate the survey.                *)
PayBatchStayingActive(balance, batch) ==
    /\ vault' = vault - TotalMoved(balance, batch)
    /\ distributed' = distributed + TotalMoved(balance, batch)
    /\ paid' = [p \in Payees |-> paid[p] + Credit(balance, batch, p)]
    /\ UNCHANGED <<surveyVars, tokenVaultOpen, deposited, fees, swept>>

(* What both distribution instructions do once their checks have passed.   *)
(* Neither looks at is_active or at the participant entries.               *)
PayBatch(balance, batch) ==
    /\ vault' = vault - TotalMoved(balance, batch)
    /\ distributed' = distributed + TotalMoved(balance, batch)
    /\ paid' = [p \in Payees |-> paid[p] + Credit(balance, batch, p)]
    /\ status' = "inactive"
    /\ UNCHANGED <<currency, maxResponses, responseCount, participants,
                   tokenVaultOpen, deposited, fees, swept>>

CanDistribute(signer, batch) ==
    /\ status # "absent" /\ signer = Creator
    /\ Len(batch) > 0
    /\ RentOK(LamportVault - TotalMoved(LamportVault, batch))

DistributeRewards(signer, batch) ==
    /\ CanDistribute(signer, batch)
    /\ PayBatch(LamportVault, batch)

(* The recipient checks run only for entries that are not skipped; one     *)
(* failing check aborts the whole batch.                                   *)
CanDistributeSpl(signer, batch) ==
    /\ status # "absent" /\ currency = "SPL" /\ tokenVaultOpen
    /\ signer = Creator
    /\ Len(batch) > 0
    /\ \A i \in Transferred(vault, batch) : batch[i].to # Creator /\ batch[i].canonical

DistributeRewardsSpl(signer, batch) ==
    /\ CanDistributeSpl(signer, batch)
    /\ PayBatch(vault, batch)

TakeFee(fee) ==
    /\ vault' = vault - fee
    /\ fees' = fees + fee
    /\ UNCHANGED <<surveyVars, tokenVaultOpen, deposited, distributed, paid, swept>>

CollectFee(signer, fee) ==
    /\ status # "absent" /\ signer = Authority
    /\ fee > 0 /\ LamportVault >= fee
    /\ RentOK(LamportVault - fee)
    /\ TakeFee(fee)

CollectFeeSpl(signer, fee) ==
    /\ status # "absent" /\ currency = "SPL" /\ tokenVaultOpen
    /\ signer = Authority
    /\ fee > 0 /\ vault >= fee
    /\ TakeFee(fee)

(* Mutants: the sweep returns all but the rent, or leaves the rent behind. *)
SweepShortOfRent ==
    /\ vault' = 0
    /\ swept' = swept + vault - RentExempt
    /\ UNCHANGED <<surveyVars, deposited, distributed, paid, fees>>

SweepLeavingRent ==
    /\ vault' = IF vault > RentExempt THEN RentExempt ELSE 0
    /\ swept' = swept + vault - vault'
    /\ UNCHANGED <<surveyVars, deposited, distributed, paid, fees>>

Sweep ==
    /\ vault' = 0
    /\ swept' = swept + vault
    /\ UNCHANGED <<surveyVars, deposited, distributed, paid, fees>>

CloseEscrow(signer) ==
    /\ signer \in {Creator, Authority}
    /\ status = "inactive"
    /\ LamportVault > 0
    /\ Sweep
    /\ UNCHANGED tokenVaultOpen

CloseEscrowSpl(signer) ==
    /\ currency = "SPL" /\ tokenVaultOpen
    /\ signer \in {Creator, Authority}
    /\ status = "inactive"
    /\ Sweep
    /\ tokenVaultOpen' = FALSE

Next ==
    \/ \E pool \in Pools, capacity \in Capacities :
          \/ InitializeSurvey(pool, capacity)
          \/ InitializeSurveySpl(pool, capacity)
    \/ \E w \in Payees : RegisterParticipant(w)
    \/ \E signer \in Signers :
          \/ CloseSurvey(signer)
          \/ CloseEscrow(signer)
          \/ CloseEscrowSpl(signer)
          \/ \E batch \in Batches :
                DistributeRewards(signer, batch) \/ DistributeRewardsSpl(signer, batch)
          \/ \E fee \in Fees : CollectFee(signer, fee) \/ CollectFeeSpl(signer, fee)

Spec == Init /\ [][Next]_vars

-----------------------------------------------------------------------------
(***************************************************************************)
(* Properties                                                              *)
(***************************************************************************)

(* The types of the accounts and of the money ledger.                      *)
TypeOK ==
    /\ status \in {"absent", "active", "inactive"}
    /\ currency \in Currency
    /\ maxResponses \in Nat /\ responseCount \in Nat
    /\ participants \subseteq Payees
    /\ vault \in Int /\ tokenVaultOpen \in BOOLEAN
    /\ deposited \in Nat /\ distributed \in Nat /\ fees \in Nat /\ swept \in Nat
    /\ paid \in [Payees -> Nat]

(* However the payout loop, the fee and the sweep are interleaved, retried *)
(* or called with amounts that do not fit, the vault is never overdrawn    *)
(* and every unit that entered it is in the vault or left it exactly once  *)
(* (the loop reads the balance once and debits the vault entry by entry).  *)
Solvency ==
    /\ vault >= 0
    /\ deposited = vault + distributed + fees + swept

(* What the loop accounts as distributed is what the payees received, also *)
(* when it skips entries or a wallet appears twice in a batch.             *)
PaidAddsUp == distributed = SumOver(paid)

(* response_count is the number of participant entries, never exceeds      *)
(* max_responses, and never counts the creator                             *)
(* (register_participant, whose PDA `init` is what rejects duplicates).    *)
CapacityRespected ==
    /\ responseCount = Cardinality(participants)
    /\ responseCount <= maxResponses
    /\ Creator \notin participants

(* Once any reward has been paid or swept, nobody can join the survey any  *)
(* more: a distribution deactivates it although it checks nothing, and no  *)
(* instruction reactivates it.                                             *)
FrozenAfterPayout ==
    [][distributed + swept > 0 => /\ participants' = participants
                                  /\ status' = status /\ status = "inactive"]_vars

(* A swept escrow stays empty: no later instruction puts money into it,    *)
(* pays a respondent from it or takes a fee.                               *)
SweptStaysEmpty ==
    [][swept > 0 => vault = 0 /\ UNCHANGED <<vault, paid, fees, swept>>]_vars

(* The SPL distribution refuses to pay the creator whatever the batch; a   *)
(* SOL distribution does not.                                              *)
SplNeverPaysCreator == currency = "SPL" => paid[Creator] = 0

-----------------------------------------------------------------------------
(***************************************************************************)
(* The inductive invariant                                                 *)
(***************************************************************************)

(* Nothing has happened to a survey that was never initialised.            *)
AbsentUntouched ==
    status = "absent" => /\ participants = {} /\ deposited = 0
                         /\ paid = [p \in Payees |-> 0]

(* Money that left by a distribution or a sweep left an inactive survey.   *)
PayoutDeactivates == distributed + swept > 0 => status = "inactive"

(* After a sweep nothing is left to pay from.                              *)
SweptEmpty == swept > 0 => vault = 0 /\ (currency = "SPL" => ~tokenVaultOpen)

Inductive ==
    /\ TypeOK
    /\ Solvency
    /\ CapacityRespected
    /\ AbsentUntouched
    /\ PayoutDeactivates
    /\ SweptEmpty
    /\ SplNeverPaysCreator
=============================================================================
