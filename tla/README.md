# okaform in TLA+

okaform is a survey platform. A creator escrows a reward pool in an Anchor
program on Solana, respondents answer through a NestJS backend that stores forms
and responses in MongoDB, and the creator's browser signs the transactions that
publish the survey, close it, pay the rewards and sweep the escrow. This directory
holds the specifications of that system: TLA+ modules translated from the code, TLC
configurations that check them on small instances, and TLAPS proofs of what
holds for every instance.

## The system

| Component | State it keeps | Operations | Talks to |
| --- | --- | --- | --- |
| Escrow program, surveys (`okaform-program/.../instructions`) | `SurveyAccount`, `ParticipantEntry`, SOL vault or token vault | initialize, register_participant, close_survey, distribute_rewards, collect_fee, close_escrow, and the token variants | called by signed transactions of the creator or the protocol authority |
| Escrow program, scores | `RespondentScoreAccount` | initialize_score_account, update_score | called by the backend's authority key |
| Submissions (`backend/src/submissions`) | response documents, `form.responseCount` | createSubmission, moderateResponse | sybil service, score service, score accounts |
| Survey lifecycle (`backend/src/forms/survey-lifecycle.service.ts`) | `form.status`, `rewardDistributed`, `escrowClosed`, `response.distributed` / `distributedAmount` | build and confirm of close, distribute, close-escrow | Solana RPC, MongoDB |
| Creator's browser (`frontend/src/hooks/useSurveyLifecycle.ts`, `pages/Dashboard.tsx`) | one chain of awaits per tab | closeSurvey, distributeRewards, closeAndDistribute | backend handlers, RPC |
| Distribution arithmetic (`backend/src/distribution`) | none | calculateWeightedAmounts | called by the lifecycle service |
| Forms (`backend/src/forms/forms.service.ts`, `fee.service.ts`) | form documents | buildInitializeTx, createForm (with the fee), listings, settings, deleteSurveyData | program, MongoDB |
| Authentication (`backend/src/auth`) | nonce, token version and family, refresh tokens | nonce, verify, refresh, logout, logoutAll | MongoDB |
| Session of the browser (`components/AuthProvider.tsx`, `lib/api.ts`) | connected wallet, access token, cookie, user | restore, login, logout, calls that refresh on a 401 | authentication |
| Form builder and drafts (`pages/FormBuilder.tsx`, `lib/drafts.ts`, `components/Dashboard/DraftsView.tsx`) | questions, selection; `localStorage` | edit, publish, save, load, delete | forms, program |
| Dashboard and survey page (`pages/Dashboard.tsx`, `components/Dashboard/SurveySettingsTab.tsx`, `pages/SurveyFill.tsx`) | the list, calls under way; the form, verdicts, answers, `sessionStorage` | list, close, distribute, save, delete; load, check, answer, submit | all handlers |
| Users, other pages, configuration | profile | reads, username, UI | |

What is hard about it:

* **Two stores, no transaction.** Money moves on chain and is recorded in MongoDB
  by a second call, made by a browser that may be closed in between.
* **Handlers are chains of awaits.** Any two requests interleave at each `await`;
  what a handler read before one may be stale after it.
* **Retries.** Every step of the payout may be started again, by the same tab or
  by another one, after any prefix of the first try.
* **Silent skips.** The program skips recipients the balance no longer covers and
  reports success; the browser ignores the result of `confirmTransaction`.
* **Effects and closures.** A page keeps what its last answers said; calls overlap,
  and their answers return to a page that was left, or to another wallet.
* **Rounding.** Shares are truncating divisions; leftovers are assigned by rules
  that differ between the weighted and the lucky draw.

What makes each part correct: the program never loses, creates or overdraws a
unit, and a survey that paid out is frozen; a survey never holds more responses
than its maximum nor two of one wallet, and every answer to a respondent is true;
the two ledgers of a payout agree, nobody recorded as paid is paid again, and
escrow, payment, record and sweep happen in that order; shares add up and follow
the badges; every form has a funded escrow behind it; a session is not lost by
accident; what a page shows and keeps is still true when another answer arrives.

## Modules

| Module | Models | How it corresponds to the code |
| --- | --- | --- |
| `EscrowProgram` | the Anchor program's survey instructions | one action per instruction, atomic as a transaction is; guards are the account constraints and `require!`s, in `DistributeRewards` the loop is a recursive function over the batch that skips what the balance does not cover |
| `Submissions` | createSubmission and its rivals | one record of local state per request, one action per await (`LoadForm` ... `Score`); `Close` is confirmClose, `DeleteResponses` / `DeleteForm` the two writes of deleteSurveyData; `Die` is a process that stops between two awaits |
| `WeightedShares` | calculateWeightedAmounts and the lucky draw division | pure operators; `SharesAreFair` of `MCPayout` compares them with what the docs promise |
| `Payout` | close, distribute, confirm and sweep, of browser and backend, over the program | a session per tab whose `at` names the await it is in; the chain's variables change only by `EscrowProgram`'s actions (`Program == INSTANCE EscrowProgram`), one named transaction for each of the backend's builders (`CloseSurveyTx` ... `CloseEscrowSplTx`) |
| `Reputation` | applyScore, moderateResponse and the two score instructions | `scoring[r]` names the await createSubmission is in for response r, a desk is a moderateResponse request with what it has read; `earned` and `gained` record what the program applied for each response, without saturation |
| `SubmissionScore` | calculateSubmissionScore | pure operators, one per metric, counted in halves; a submission is what they read: the questions, the answers, the time it took, the wallet's age and balance |
| `Publication` | handleInitialize of the form builder, buildInitializeTx and createForm with its fee, over the program | an attempt per click with the await it is in (`pc`), the handler of its createForm, two transactions that may land late or never; `FollowsProgram` compares each escrow with `EscrowProgram` |
| `Sessions` | AuthProvider and api() of one browser, the handlers of the authentication service | a record per call of what it sent and where it is suspended; refresh is `Find`, `FindUser`, `Purge` or `Rotate`, and `Issue`, one action per await of auth.service.ts; `Lose` is a failure at any of them; `Expire` is a token's expiresAt; another device signs the user out everywhere |
| `Pages` | the dashboard with its settings tab, and the page that is filled in | one tab in which the pages take turns; a call under way is a member of `listings`, `lookups`, `checks`, `submissions`, or the stage of its task; `SwitchWallet` reruns the effects |
| `FormEditor` | the form builder's questions and drafts | one action per callback of the builder; `current`, `index` and `content` are the keys of `localStorage`; a deletion remembers the index it will write |
| `RewardLifecycle` | what a payout promises, seen from outside | the abstract specification `Payout` implements: escrowed, paying, distributed, swept, recorded |
| `MC*` | the instances TLC checks | constants and symmetries; `MCPayout` also has `SharesAreFair`, for which the instances are a set of badges and pools of its own |
| `EscrowProgram_proofs`, `Submissions_proofs`, `Reputation_proofs`, `Publication_proofs`, `Sessions_proofs`, `Pages_proofs`, `FormEditor_proofs`, `Payout_proofs` | the proofs; `Payout_proofs` has those about `Payout`, `RewardLifecycle` and `WeightedShares` | |

Composition: `Payout` EXTENDS `WeightedShares` and instantiates `EscrowProgram`
(the transactions it sends) and `RewardLifecycle` (the abstraction it
implements). `Submissions` refines the two-step submission that `Payout` keeps
as `ReserveSlot` / `CreateResponse`. `Reputation` starts where `Submissions` ends
(`Score`) and EXTENDS `SubmissionScore` for what is applied; its moderation is the other half of what `Payout` keeps as
`ModerateResponse`: there the status decides who is paid, here what it does to the
score. `Publication` ends where `Payout` begins, with a funded escrow and a form;
what the creator may publish is decided in `FormEditor` (`Complete`, of which
`Publication` keeps `ready`, the outcome). `Pages` stands over all of them: its handlers are
atomic, as the other modules take them apart.

Definitions whose comment begins with "Mutant" are deliberate faults: variants of
the definition that follows them, the way a plausible bug would have it. No
specification uses them. Each property has one that breaks it, which shows that
the property depends on the code and the bounds are large enough to see it.

### Abstractions

* An action of the backend is the code between two awaits; MongoDB operations and
  program instructions are atomic. Wallets and requests are model values; a
  response's answers, the eligibility rules and the sybil check are one verdict.
* In `Payout` a transaction that has been sent lands, or fails, while its tab waits for
  it. A transaction whose tab gave up before it landed and that lands later is not
  modelled, except for the close transaction, which nobody awaits and which may
  never land.
* `sendRawTransaction` simulates: a transaction that would fail at the moment of
  sending is an error in the tab. It may still fail when it lands, and the hook
  then goes on as if it had not.
* u64 overflow aborts the transaction (`overflow-checks = true`), as any failed
  guard does; the model's numbers are unbounded. A SOL recipient whose account
  would stay below the rent minimum makes the transaction fail; recipients here
  are above it. For the vault the rent rule is modelled (`RentOK`).
* The submission behind a response is a constant of `Reputation` (`Submission`), and its
  points what the metrics make of it (`Points`): the time, age and balance they read are
  looked up once, before the response is saved. Question types and answers are reduced to
  what the metrics ask of them: required, long text, words wanted; empty or not, words. The
  badge is a function of the score and the read that follows an update only fills a
  display field; both are left out of `Reputation`.
* `Publication` has the transactions that land after everybody gave up on them, and
  those that never do. It keeps one creator; the draft, the balance and the fee rate
  are members of small sets. `ready` is the outcome of the checks on the form.
* In `Sessions` a signature is valid exactly for the wallets that can sign; access
  tokens carry the wallet and the version; the expiry of an access token is a 401 that
  may come at any time. A refresh token that expires is refused as one that is not found.
  What ends a session is counted in `ends`: a log-out, here or on another device, the
  expiry of a refresh token, and a rotation cut off after it revoked the old one, whether
  the backend or the network failed.
* In `Pages` a call whose page was left goes on as a call of another browser
  (`Elsewhere`), since nobody waits for its answer; only `submissions` still act on the
  tab, by removing the draft. The settings tab saves the title and the description,
  which are not in the model: `save` only puts the row back.
* In `FormEditor` the options of a question are none, only blank ones, or some with a
  name: publishing counts them, and the page that is filled in makes their labels the
  answer. The limits on the words of a text are left out: they are not asked of an answer
  of blanks, which counts as an answer (survey-validation.ts:20 and :28), so that a text
  can be answered whatever they are. The order of the entries and the reward settings are left out. A draft
  is saved when no deletion is pending: to open the builder and name it takes longer than
  the 200 ms of the timeout. Without that, a deletion that restores an old index may bring
  back a second entry of a name, and its old item.
* README.MD says that each submission calls `register_participant`; no code of the
  backend does. The instruction is in `EscrowProgram`, where only the creator may call
  it (register_participant.rs:44-52), and `Payout` does not use it.
* The comments at survey-lifecycle.service.ts:349-351 and :414 say that
  confirmDistribute validates the amounts; it compares wallets only, and so does
  `Valid`.

## Runs

| Run | Question | Bounds, and why they are enough |
| --- | --- | --- |
| `escrow_program` | do the instructions keep the money and the survey's state, in any order? | two wallets, pools beside the limits, every batch of two entries with amounts from zero to more than the vault, so that a batch is paid, skipped in part, repeats a wallet or names a wrong token account |
| `submissions` | do races lose or duplicate responses, or answer untruthfully? | three requests of two wallets and the creator for two places: a double click beside another respondent, a request that waits while others fill the survey, and one that finds it full; one failure |
| `payout_single` | without crashes, do chain and MongoDB agree, and does a creator who perseveres get a payout done? Is the division exact, proportional and monotone? | three respondents in batches of one, so that there are first, middle and last batches; one may be late; two moderations; both currencies; signatures refused and transactions expired any number of times. For the division up to four participants of every tier (one unknown) and pools of 0 to 15 units, so that dust, zero shares and ties occur |
| `payout_tabs` | is the order of the lifecycle kept by two tabs, a crash, a late response and distribution before close? | a lucky draw of two respondents, two tabs, one crash, both currencies |
| `payout_crash` (violation) | are payments proportional after a retry? | two respondents, batch size 1, one crash |
| `reputation` | what can verdicts, races and failures do to a score? | a new wallet with two weighted responses, a careful one of 50 points and a hasty one of 10, that race to create its account, an established one whose 15 points a penalty saturates; three verdicts, so that a rejection is undone and repeated; one failure anywhere |
| `publication` | is every form funded and every fee accounted for, and does every attempt end? | two attempts (`MaxAttempts`), so that one is retried while the other still lands; drafts of both currencies beside the limits of the pool, balances that cover the pool, the pool and the rent, and neither |
| `sessions` | who loses a session? | two calls of one browser, two wallets of which one can sign, three refresh tokens (`MaxTokens`), so that a token is rotated while its successor is; one event that ends a session (`MaxEnds`: a log-out, an expiry, a rotation cut off), as the property is about the time before it; any other call, await or answer fails any number of times |
| `pages` | do late answers make a page lie, lose answers or hang? | creator, one respondent and room for one response; two calls of the settings tab (`MaxTasks`) and two of the list (`MaxListings`) overlap, the least at which one answer is older than another |
| `pages_on_time` (violation) | does a survey close when its date passes? | the same |
| `form_editor` | do edits, drafts and deletions stay consistent? | two questions, choices or texts, drafts with two names of at most one question (`MaxSaved`), a text (`SavedTypes`), deletions that overlap (more identifiers of drafts reach no more states); identifiers and names are interchangeable (symmetry; no liveness is checked) |
| `editor_blocks` (violation) | can what is published be answered? | the same with a heading (`h1`) for the choice |

The violation runs state what the repository says of itself and find that the
code does otherwise:

* `PaidProportionally`: a tab that stops after a batch landed and before its
  confirmation leaves the recipients unmarked; the retry plans them again over what
  is left. With no crash the property holds.
* `PublishedIsAnswerable`: every new question is required. For a heading, an embed or
  any other block the builder offers no toggle ("only for inputs") and the page that is
  filled in no field, but its validation demands an answer. The same happens to the
  inputs without a field (`file_upload`, `matrix`, `payment`, `signature`, `ranking`)
  unless the creator finds the toggle, and to a required single choice of which all
  options have been edited to nothing: publishing counts the options, the answer is the
  label, and the empty answer is refused.
* `ClosesOnTime`: the builder says of the date that the survey "closes automatically when
  this time is reached". Nothing closes it: createSubmission looks at the stored status
  only, and the date makes the lists display the survey as closed. That is why
  `ClosedMeansOver` is about surveys whose date has not passed.

Known behaviour that the properties are careful not to deny, each a state the models
reach:

* A slot that was reserved for a response the unique index refuses, or that a crash
  interrupts, is not given back (`LeakBounded` says how many), and a survey that says it
  is full holds fewer responses.
* A response accepted while a weighted distribution runs is marked with an amount of 0,
  as a lucky draw's losers are.
* A lucky draw with a leftover has the creator among its recipients, of whom no response
  can be confirmed: the batch is paid and its confirmation refused. In tokens the program
  refuses it outright. `OwnPlanConfirmed` is checked with pools that the winners divide,
  and with weighted shares.
* The reversal of a penalty is tied to the status right before: rejected, flagged, clean
  keeps it. It is not exact for rejected and clean alone either once a score saturates:
  from 5 points, a response of 10 brings 15, its rejection 0 and the reversal 20.
* The second of two racing initialisations of a score account fails, and its response is
  not scored although the account exists by then. `RaceStillScores` says what is left.
* An escrow that was funded by an attempt whose createForm failed stays behind; the next
  attempt funds another. A creator who never learns that createForm succeeded publishes
  the survey twice. So it is when the document was stored and createForm failed after it.
* A fee transaction that lands after its confirmation timed out is not recorded.
* A close that landed and whose confirmClose was lost can be neither repeated nor
  confirmed: the document stays active.
* A refresh revokes the token it was sent and then creates the one that replaces it: a
  failure, a restart of the backend or a lost answer in between signs the browser out.
* logoutAll that meets a refresh leaves a token of the former family, whose next use is
  taken for a theft and purges the new family, too. `logout` saves one more than the
  version it has read, over what logoutAll did meanwhile.
* A distribution of SOL that stopped half-way may be refused for good: the retry plans
  over a vault that also holds the rent, and the chain refuses a plan that would leave less. So
  does the backend when all that are left have been rejected (`Blocked`).
* Nothing cancels the restoring of a session or the list of the dashboard when the wallet
  changes: a late answer shows the profile, or the surveys, of the wallet before. Its
  buttons then end in errors.
* `alreadySubmitted` keeps what it said of the wallet before when the next look-up fails.
* Saving the title puts the row back as it was when the call began. It may fall back from
  closed to active, never the other way (`ClosedMeansOver`).
* The first rendering of the builder stores an empty draft before it shows the restored
  one; a crash in between loses it, and so does the late success of an earlier attempt.
* A deletion writes the index it saw 200 ms before: of two that overlap, the entry of the
  first comes back without its item.

`reputation` keeps to one moderation request at a time, on responses that have been
scored (`Desks`, `ModerateEarly`). With a second desk, or with a verdict on a response
whose score is still on its way, `RejectedNeverGains` fails, since the request acts on a
status and a delta it has read before. The code does nothing to exclude either. That
property and `RaceStillScores` are about runs without failures: a delta that could not
be saved is a penalty that is too small.

### Fairness

Weak fairness is assumed for what the runtime schedules by itself and for nothing
else: the event loop resumes a handler whose await has settled (`Serve(r)` in
`Submissions`, `Scoring(r)` and `Judging(d)` in `Reputation`, `Handle(i)` in
`Publication`), a tab continues a chain of awaits as far as neither a signature nor the
chain is needed (`CodeStep(t)` in `Payout`, the steps of an attempt that has been signed in
`Publication`), and a call of a page returns or fails (`Pages`). Nobody has to submit, sign,
close, press Distribute or reload a tab, and no transaction has to land: the wallet may
refuse and the transaction may expire each time (`Refuse`).
`EverySubmissionAnswered`, `ScoringEnds`, `AttemptsEnd` and `PageSettles` are checked under
exactly that. `PayoutCompletes` is an implication: if the creator perseveres
(`Perseveres(t)`: presses Distribute as long as it is offered, signs, the transactions land,
and refusals come to an end), a payout that begins to send is completed, unless the code
itself blocks it. It is checked in the run without crashes, since a tab that is closed does
not come back.

CHECK_DEADLOCK is FALSE where the system may stop: when every request is answered, the
survey is swept and recorded, or the verdicts, attempts or tokens are used up. It is
checked in `pages` and `form_editor`.

## Proofs

`EscrowProgram_proofs` proves, for every set of wallets, every pool, fee, batch and
rent, type correctness, `Solvency`, `PaidAddsUp`, `CapacityRespected`,
`SplNeverPaysCreator`, `FrozenAfterPayout` and `SweptStaysEmpty`. The inductive invariant is
`EscrowProgram!Inductive`. The invariants alone are not inductive: that the vault
stays non-negative needs `TypeOK` and a bound on what the loop moves; that a payout
freezes the survey needs `PayoutDeactivates` (money that left, left an inactive
survey), and that a swept vault stays empty needs `SweptEmpty`. The bound is
`MovedBounded`: by induction over the batch, the sum the loop keeps never exceeds
the balance it compares with. `PaidAddsUp` follows the loop a second time, payee by
payee: what the loop has moved is the sum of what the payees received (`SumOver`, which
takes the payees in an order of its own; `SumAdds` says that sums add up payee by payee).
Because theorems that take an operator cannot be applied by the installed provers, the
inductions are `NatSetInduction` and `SubsetInduction`, which are about sets, of
naturals and of subsets of a finite set.

`Submissions_proofs` proves, for every number of requests and wallets, type
correctness, `CapacityRespected`, `LeakBounded`, `OneResponsePerWallet`,
`AnswersAreTrue` and `FrozenOnceClosed`. Its inductive invariant adds that the
counter equals the number of slots ever taken (`responseCount = Cardinality(Slots)`),
that a stored response belongs to a request past its creation and that only a
wallet other than the creator's passes the guards.

`Reputation_proofs` proves, for every number of wallets, responses and requests and any
number of failures, type correctness and `ScoreMovesWithVerdicts`. The latter needs
`NoScoreYet` (a wallet without an account has no score that its creation could take
away), and every step is first reduced to one of three (`ScoreStep`). Under `Serial`,
one request at a time and none on a response that is being scored, it proves
`RejectedNeverGains` and `NeverWorthMoreThanItsPoints`. Neither is inductive: a verdict
that has been saved is ahead of the score until its update lands. `SerialInductive`
says when a penalty is in force (`InForce`: a rejected response whose penalty is not
still to come, or one whose reversal is), what a response is worth in either case
(`WorthFollowsPenalty`), that a request knows the status and the points of its
response (`Informed`), and that a response is judged only when its delta has been
saved (`ScoredThenJudged`). `RaceStillScores` is proved without `Serial`, for any verdicts at
any time. Its invariant `Racing` says where the score went: an account that was not there
from the start has been created by a response that is at its update or has earned
(`CreatedToEarn`), one that was there is never initialised (`EstablishedEarns`), and what is
past its initialisation has an account (`ScoredWithAccount`). When every weighted
response of the wallet is done, none is at its update any more, so one has earned.

Of the score itself it proves that any submission whatever is worth 10 to 50 points
(`ScoreInRange`), which the other proofs use, and that a better one is worth no less
(`BetterScoresNoLess`): answers added, more words, an older or richer wallet, more time up
to a week. Beyond the week the code takes half a point off again, so the bound is needed.

`Publication_proofs` proves, for any number of attempts and any drafts, balances and fee
rates, type correctness, `FormsAreBacked`, `FeeLedgerSound`, that an attempt its creator
was told is published is (`PublishedMeansLive`), and `FollowsProgram`: every step changes
each escrow as an instruction of `EscrowProgram` does, or not at all, which is the
refinement. The invariant says what the chain holds for every stage of attempt and
handler (`EscrowState`, `ClientState`, `HandlerState`): a fee is on chain only after the
handler has saved the form, and a handler that charges has not charged before.

`Sessions_proofs` proves, for any number of wallets, calls and tokens, type correctness
and `SessionSurvives`. As long as nothing has ended the session (`ends = 0`: no log-out, no
expired token, no rotation cut off between its revocation and its answer) no
family is purged (`Calm`), a token that is issued and not yet in the cookie is live until
its answer arrives (`FreshInFlight`), and every token, and every call that has found its
user, is a wallet's (`Owned`).

`Pages_proofs` proves, for any number of respondents, calls and answers, type correctness,
`ClosedMeansOver`, `VerdictIsOwn` and `AnswersKept`. Every step is first shown to leave a
survey that is over as it is (`Advances`). Then the rows on their way to the list, in the
answers of calls and in the copies of the settings tab, are as true as the list
(`LateRowsAreTrue`), nobody but the connected wallet is being checked, and it is unless the
verdict is its own (`ChecksAreOwn`), and a submission that will be told it was accepted
has been stored (`AcceptedIsStored`).

`FormEditor_proofs` proves, for forms of any length and any number of drafts and
deletions, `SelectionExists` and `LoadsWhatWasSaved`. Lemmas say what insertion, removal
and replacement do to the identifiers of a form. The invariant (`ListsAreConsistent`) is
that the entries of all lists of drafts together, in the storage, on the page and in pending
deletions (`Known`), have an item and a name of their own and load what was saved last, and
that every list has all that was saved (`Keeps`), but for what its deletion is about.

`Payout_proofs` proves three layers.

* *The division.* `DivisionIsFair`: for any number of participants of any tiers and any
  pool, the shares are exactly the pool, proportional to the weights up to rounding, and no
  badge gets less than a lower one. Together the truncations lose less
  than a unit per participant (`FloorsWithinPool`), which bounds what the favoured one gets
  on top, and nobody weighs more than the favoured one.
* *The payout, for any wallets, tabs, batch size and crashes.* `PayoutTypes` is type
  correctness. Its invariant `Consistent` is what the program's proofs provide of the chain
  (`ChainConsistent`; the loop's lemmas are taken from `EscrowProgram_proofs` for the
  instance that `Payout` uses), that a wallet answers once (`DbConsistent`), and that what a
  session carries was made of these answers (`Fits`: the recipients of a plan differ, the batch
  is one of the plan). `PayoutFollowsLifecycle` is the refinement of `RewardLifecycle`, from
  `InOrder`: a tab that is past its landing knows that the chain has paid, one that is about to
  sweep that this has been recorded, and the first batch of a plan that is sent to an escrow
  nobody has drawn from pays somebody. `SingleTabNeverPaysTwice` is
  `MarkedNeverPaidAgain`, with `Fresh`: what a session has still to pay is not
  recorded. With two tabs it fails, as `Fresh` does.
* *The undisturbed payout.* `UndisturbedPlanConfirmed` and `UndisturbedPlanPaidAndRecorded`
  are `OwnPlanConfirmed` and `PlanPaidAndRecorded`. `InSequence` says that a plan is confirmed
  from its first batch to its last and the distribution recorded only then; `InStep` compares
  the two ledgers with the plan, up to the batch that is under way: what has landed is paid
  (`PaidUpTo`), what is confirmed is recorded with its amount (`RecordedUpTo`), nobody else has
  been paid (`UnpaidUnlessLanded`), and the vault covers what is to come (`Covered`). That the vault
  covers a new plan is `DivisionIsFair`.

The hypotheses of these theorems are conditions on constants, each met by the run that
checks the same property:

| Hypothesis | Of | Why, and what happens without it |
| --- | --- | --- |
| `PoolCoversEveryShare` | `PayoutFollowsLifecycle` | the pool has a unit for every winner, or three for every wallet that may answer a weighted survey (weights are 50 to 150). Otherwise a distribution may consist of zeros, which is recorded without a payment: TLC shows it for two winners of a pool of 1. The program wants a million units and more (constants.rs:8 and :11) |
| `OneTab` | `SingleTabNeverPaysTwice` | of two tabs one may still send the plan the other has just recorded |
| `Undisturbed` | the last two | one tab, no crash, weighted shares. A crash makes the retry plan the paid again (`PaidProportionally`), and a lucky draw with a leftover pays the creator, whom no confirmation accepts |

All other assumptions are the named ones of the modules (`ConstantsAssumption`), which TLC
evaluates in the runs. The inductive invariants `InOrder`, `Fresh`, `InStep` and `Racing` were
found true by TLC on the instances of the runs first; the proofs do not use that.

Only model-checked: all liveness (`PayoutCompletes`, `EverySubmissionAnswered`,
`ScoringEnds`, `AttemptsEnd`, `PageSettles`), which is out of the prover's reach, and
`MarkedNeverPaidAgain` beyond `OneTab`, where it does not hold. The three findings are
counterexamples and have nothing to prove.

## Not modelled

* Building and serializing transactions, RPC errors beyond their effect on the caller,
  Helius look-ups, DTO validation, filters and pipes, rendering, the migration script:
  they keep no state that a property could be about.
* Analytics, the list of open surveys with its filters, the tabs of responses and of the
  distribution, profiles: reads of state that other modules have, with nothing but their
  figures to be wrong.
* The username, which is looked up and then saved: the unique index of the schema decides.
* Throttling (five calls a minute): to the caller a refused call is a failed one.
* Time. That `closesAt` passes is one event of `Pages`; the zone in which the server
  parses it, and the age of wallets, decide only when, and whom the check lets pass.
* A USDC draft with a name loads as one in SOL, since it is saved without its currency:
  the reward settings are not in `FormEditor`.
