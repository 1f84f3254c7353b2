------------------------- MODULE Publication_proofs -------------------------
(***************************************************************************)
(* Theorems about Publication, for every number of attempts, all drafts,   *)
(* fees, limits and balances.                                              *)
(***************************************************************************)
EXTENDS Publication, TLAPS

(* A fee is a natural number, and no more than the pool it is taken from.  *)
LEMMA FeeInPool ==
  ASSUME NEW gross \in Nat
  PROVE  FeeOf(gross) \in Nat /\ FeeOf(gross) <= gross
<1>1. gross * FeeBps \in Nat /\ gross * FeeBps <= gross * 10000
  <2>1. PICK k \in Nat : FeeBps + k = 10000
    <3>1. 10000 - FeeBps \in Nat /\ FeeBps + (10000 - FeeBps) = 10000
      BY FeeAssumption
    <3>2. QED
      BY <3>1
  <2>2. FeeBps \in Nat /\ gross * FeeBps \in Nat /\ gross * k \in Nat
    BY FeeAssumption, <2>1
  <2>3. gross * FeeBps + gross * k = gross * (FeeBps + k)
    BY <2>2
  <2>4. QED
    BY <2>1, <2>2, <2>3
<1>. DEFINE x == gross * FeeBps
<1>. HIDE DEF x
<1>2. x \in Nat /\ x <= gross * 10000
  BY <1>1 DEF x
<1>3. x \div 10000 \in Nat /\ x \div 10000 <= gross
  BY <1>2
<1>4. QED
  BY <1>3 DEF FeeOf, x

(* Drafts have positive pools; the rent of an escrow is a natural number.  *)
LEMMA DraftTypes ==
  ASSUME NEW d \in Drafts
  PROVE  /\ d.coin \in Currency /\ d.pool \in Nat /\ d.pool > 0
         /\ Rent(d.coin) \in Nat
  BY DraftsAssumption, RentAssumption DEF Draft, Rent

-----------------------------------------------------------------------------
(* Nothing has happened yet.                                               *)
LEMMA InitInductive == Init => Inductive
<1>. SUFFICES ASSUME Init PROVE Inductive
  OBVIOUS
<1>. USE DEF Init
<1>1. TypeOK
  <2>1. /\ pc \in [Attempts -> Stages] /\ tx \in [Attempts -> TxStates]
        /\ feeTx \in [Attempts -> TxStates] /\ request \in [Attempts -> Handler]
        /\ status \in [Attempts -> {"absent", "active"}]
        /\ currency \in [Attempts -> Currency]
    BY DEF Stages, TxStates, Handler, Currency
  <2>2. /\ vault \in [Attempts -> Nat] /\ deposited \in [Attempts -> Nat]
        /\ fees \in [Attempts -> Nat] /\ funds \in [Currency -> Nat]
    BY BalancesAssumption
  <2>3. /\ form \in Drafts /\ saved \in Drafts /\ pick \in [Attempts -> Drafts]
        /\ shown \in Int /\ current \in 0..MaxAttempts
    BY DraftsAssumption, AttemptsAssumption
  <2>4. QED
    BY <2>1, <2>2, <2>3 DEF TypeOK
<1>2. ASSUME NEW i \in Attempts PROVE Consistent(i)
  BY DEF Consistent, EscrowState, ClientState, HandlerState, OrderOfEvents
<1>3. QED
  BY <1>1, <1>2 DEF Inductive

(* What Consistent(j) depends on.                                          *)
Untouched(j) ==
    /\ pc'[j] = pc[j] /\ pick'[j] = pick[j] /\ tx'[j] = tx[j] /\ feeTx'[j] = feeTx[j]
    /\ request'[j] = request[j]
    /\ (j \in registered') = (j \in registered) /\ (j \in recorded') = (j \in recorded)
    /\ status'[j] = status[j] /\ currency'[j] = currency[j] /\ vault'[j] = vault[j]
    /\ deposited'[j] = deposited[j] /\ fees'[j] = fees[j]

(* The frame: an attempt that a step leaves alone stays consistent.        *)
LEMMA Frame ==
  ASSUME NEW j \in Attempts, Consistent(j), Untouched(j)
  PROVE  Consistent(j)'
  BY DEF Untouched, Consistent, EscrowState, ClientState, HandlerState, OrderOfEvents

USE DEF pageVars, clientVars, serverVars, chainVars

(***************************************************************************)
(* Type correctness, action by action                                      *)
(***************************************************************************)

(* The page and the browser.                                               *)
LEMMA PageTypes ==
  ASSUME TypeOK, 
         OpenBuilder \/ PollBalance \/ LeaveBuilder \/ CloseBrowser
            \/ \E d \in Drafts : Edit(d)
  PROVE  TypeOK'
<1>1. Blank \in Drafts /\ 0 \in 0..MaxAttempts /\ -1 \in Int
  BY DraftsAssumption, AttemptsAssumption
<1>2. CASE OpenBuilder
  BY <1>1, <1>2 DEF OpenBuilder, TypeOK
<1>3. CASE PollBalance
  <2>1. form.coin \in Currency
    BY DraftTypes DEF TypeOK
  <2>2. shown' \in Int
    BY <1>3, <2>1 DEF PollBalance, TypeOK
  <2>3. QED
    BY <1>3, <2>2 DEF PollBalance, TypeOK
<1>4. CASE LeaveBuilder
  BY <1>1, <1>4 DEF LeaveBuilder, TypeOK
<1>5. CASE CloseBrowser
  <2>1. pc' \in [Attempts -> Stages]
    BY <1>5 DEF CloseBrowser, TypeOK, Stages
  <2>2. QED
    BY <1>1, <1>5, <2>1 DEF CloseBrowser, TypeOK
<1>6. CASE \E d \in Drafts : Edit(d)
  BY <1>6 DEF Edit, Store, TypeOK
<1>7. QED
  BY <1>2, <1>3, <1>4, <1>5, <1>6

(* handleInitialize.                                                       *)
LEMMA ClientTypes ==
  ASSUME TypeOK, NEW i \in Attempts,
         Click(i) \/ Build(i) \/ SignAndSend(i) \/ NotSent(i) \/ Confirm(i)
            \/ Published(i) \/ Refused(i)
  PROVE  TypeOK'
<1>1. Blank \in Drafts /\ 0 \in 0..MaxAttempts /\ -1 \in Int /\ i \in 0..MaxAttempts
  BY DraftsAssumption, AttemptsAssumption DEF Attempts
<1>2. ASSUME NEW stage \in Stages
      PROVE  /\ [pc EXCEPT ![i] = stage] \in [Attempts -> Stages]
             /\ Advance(i, stage) => pc' \in [Attempts -> Stages] /\ pick' = pick
             /\ End(i, stage) => /\ pc' \in [Attempts -> Stages] /\ pick' = pick
                                 /\ current' \in 0..MaxAttempts
  BY <1>1 DEF Advance, End, TypeOK
<1>3. Fail(i) => /\ pc' \in [Attempts -> Stages] /\ pick' = pick
                 /\ current' \in 0..MaxAttempts
                 /\ UNCHANGED <<page, form, saved, shown>>
  BY <1>2 DEF Fail, Stages
<1>4. ASSUME NEW s \in Handler
      PROVE  [request EXCEPT ![i] = s] \in [Attempts -> Handler]
  BY DEF TypeOK
<1>5. CASE Click(i)
  <2>1. pc' \in [Attempts -> Stages]
    BY <1>2, <1>5 DEF Click, Stages
  <2>2. pick' \in [Attempts -> Drafts]
    BY <1>5 DEF Click, TypeOK
  <2>3. QED
    BY <1>1, <1>5, <2>1, <2>2 DEF Click, TypeOK
<1>6. CASE Build(i)
  <2>1. "signing" \in Stages
    BY DEF Stages
  <2>2. QED
    BY <1>2, <1>3, <1>6, <2>1 DEF Build, TypeOK
<1>7. CASE SignAndSend(i)
  <2>1. "confirming" \in Stages /\ tx' \in [Attempts -> TxStates]
    BY <1>7 DEF SignAndSend, Stages, TypeOK, TxStates
  <2>2. QED
    BY <1>2, <1>3, <1>7, <2>1 DEF SignAndSend, TypeOK
<1>8. CASE NotSent(i)
  BY <1>3, <1>8 DEF NotSent, TypeOK
<1>9. CASE Confirm(i)
  <2>1. "registering" \in Stages /\ request' \in [Attempts -> Handler]
    BY <1>4, <1>9 DEF Confirm, Stages, TypeOK, Handler
  <2>2. QED
    BY <1>2, <1>3, <1>9, <2>1 DEF Confirm, TypeOK
<1>10. CASE Published(i)
  <2>1. pc' \in [Attempts -> Stages] /\ request' \in [Attempts -> Handler]
    BY <1>2, <1>4, <1>10 DEF Published, Stages, Handler
  <2>2. QED
    BY <1>1, <1>10, <2>1 DEF Published, TypeOK
<1>11. CASE Refused(i)
  <2>1. request' \in [Attempts -> Handler]
    BY <1>4, <1>11 DEF Refused, TypeOK, Handler
  <2>2. QED
    BY <1>3, <1>11, <2>1 DEF Refused, TypeOK
<1>12. QED
  BY <1>5, <1>6, <1>7, <1>8, <1>9, <1>10, <1>11

(* createForm.                                                             *)
LEMMA HandlerTypes ==
  ASSUME TypeOK, NEW i \in Attempts, Handle(i) \/ AnswerNobody(i)
  PROVE  TypeOK'
<1>1. ASSUME NEW s \in Handler, Reach(i, s)
      PROVE  request' \in [Attempts -> Handler]
  BY <1>1 DEF Reach, TypeOK
<1>2. request' \in [Attempts -> Handler]
  BY <1>1 DEF Handle, Verify, Create, Charge, Collect, Record, AnswerNobody, Handler
<1>3. feeTx' \in [Attempts -> TxStates]
  BY DEF Handle, Verify, Create, Charge, Collect, Record, AnswerNobody, TypeOK, TxStates
<1>4. registered' \subseteq Attempts /\ recorded' \subseteq Attempts
  BY DEF Handle, Verify, Create, Charge, Collect, Record, AnswerNobody, TypeOK
<1>5. UNCHANGED <<pageVars, clientVars, tx, chainVars>>
  BY DEF Handle, Verify, Create, Charge, Collect, Record, AnswerNobody
<1>6. QED
  BY <1>2, <1>3, <1>4, <1>5 DEF TypeOK

(* The crash of the backend.                                               *)
LEMMA CrashTypes ==
  ASSUME TypeOK, BackendCrash
  PROVE  TypeOK'
<1>1. pc' \in [Attempts -> Stages] /\ request' \in [Attempts -> Handler]
  BY DEF BackendCrash, TypeOK, Stages, Handler
<1>2. current' \in 0..MaxAttempts
  BY AttemptsAssumption DEF BackendCrash, TypeOK
<1>3. QED
  BY <1>1, <1>2 DEF BackendCrash, TypeOK

(* A transaction that can execute when it lands opens its survey.          *)
LEMMA LandingOpens ==
  ASSUME NEW i \in Attempts, LandInitialize(i), Affordable(i)
  PROVE  /\ tx' = [tx EXCEPT ![i] = "landed"]
         /\ Opens(i, pick[i].coin)
         /\ UNCHANGED <<pageVars, clientVars, feeTx, serverVars>>
  BY DEF LandInitialize, InitializeSurveyTx, InitializeSurveySplTx

(* The chain.  TypeOK needs the guards: a wallet pays what it has, a fee   *)
(* is taken from a vault that holds it.                                    *)
LEMMA ChainTypes ==
  ASSUME TypeOK, NEW i \in Attempts, LandInitialize(i) \/ LandFee(i) \/ Drop(i)
  PROVE  TypeOK'
<1>1. ASSUME NEW s \in TxStates
      PROVE  /\ [tx EXCEPT ![i] = s] \in [Attempts -> TxStates]
             /\ [feeTx EXCEPT ![i] = s] \in [Attempts -> TxStates]
  BY DEF TypeOK
<1>2. pick[i] \in Drafts
  BY DEF TypeOK
<1>3. CASE LandInitialize(i)
  <2>1. CASE Affordable(i)
    <3>. DEFINE coin  == pick[i].coin
                moved == pick[i].pool + Rent(coin)
    <3>1. coin \in Currency /\ moved \in Nat /\ funds[coin] >= moved
      BY <1>2, <2>1, DraftTypes DEF Affordable
    <3>2. /\ tx' = [tx EXCEPT ![i] = "landed"]
          /\ status' = [status EXCEPT ![i] = "active"]
          /\ currency' = [currency EXCEPT ![i] = coin]
          /\ vault' = [vault EXCEPT ![i] = @ + moved]
          /\ deposited' = [deposited EXCEPT ![i] = @ + moved]
          /\ funds' = [funds EXCEPT ![coin] = @ - moved]
          /\ UNCHANGED fees
          /\ UNCHANGED <<pageVars, clientVars, feeTx, serverVars>>
      BY <1>3, <2>1, LandingOpens DEF Opens
    <3>. HIDE DEF coin, moved
    <3>3. tx' \in [Attempts -> TxStates]
      BY <1>1, <3>2 DEF TxStates
    <3>4. status' \in [Attempts -> {"absent", "active"}] /\ currency' \in [Attempts -> Currency]
      BY <3>1, <3>2 DEF TypeOK
    <3>5. vault' \in [Attempts -> Nat] /\ deposited' \in [Attempts -> Nat]
      BY <3>1, <3>2 DEF TypeOK
    <3>6. funds' \in [Currency -> Nat]
      <4>1. funds[coin] \in Nat
        BY <3>1 DEF TypeOK
      <4>2. funds[coin] - moved \in Nat
        BY <3>1, <4>1
      <4>3. QED
        BY <3>2, <4>2 DEF TypeOK
    <3>7. QED
      BY <3>2, <3>3, <3>4, <3>5, <3>6 DEF TypeOK
  <2>2. CASE ~Affordable(i)
    BY <1>1, <1>3, <2>2 DEF LandInitialize, TypeOK, TxStates
  <2>3. QED
    BY <2>1, <2>2
<1>4. CASE LandFee(i)
  <2>. DEFINE fee == FeeOf(pick[i].pool)
  <2>1. fee \in Nat
    BY <1>2, DraftTypes, FeeInPool
  <2>2. feeTx' \in [Attempts -> TxStates]
    BY <1>1, <1>4 DEF LandFee, TxStates
  <2>3. /\ UNCHANGED <<funds, status, currency, deposited>>
        /\ \/ /\ vault[i] >= fee
              /\ vault' = [vault EXCEPT ![i] = @ - fee]
              /\ fees' = [fees EXCEPT ![i] = @ + fee]
           \/ UNCHANGED <<vault, fees>>
        /\ UNCHANGED <<pageVars, clientVars, tx, serverVars>>
    BY <1>4 DEF LandFee
  <2>. HIDE DEF fee
  <2>4. vault' \in [Attempts -> Nat] /\ fees' \in [Attempts -> Nat]
    BY <2>1, <2>3 DEF TypeOK
  <2>5. QED
    BY <2>2, <2>3, <2>4 DEF TypeOK
<1>5. CASE Drop(i)
  BY <1>1, <1>5 DEF Drop, TypeOK, TxStates
<1>6. QED
  BY <1>3, <1>4, <1>5

(* Every step keeps the types.                                             *)
LEMMA TypesPreserved == TypeOK /\ [Next]_vars => TypeOK'
<1>1. CASE UNCHANGED vars
  BY <1>1 DEF vars, TypeOK
<1>2. QED
  BY <1>1, PageTypes, ClientTypes, HandlerTypes, CrashTypes, ChainTypes DEF Next

-----------------------------------------------------------------------------
(***************************************************************************)
(* Consistency, action by action: the step's own attempt, then the others  *)
(***************************************************************************)

(* A step of attempt i that changes the given components of i only.        *)
LEMMA ClientConsistent ==
  ASSUME Inductive, NEW i \in Attempts, NEW j \in Attempts,
         Click(i) \/ Build(i) \/ SignAndSend(i) \/ NotSent(i) \/ Confirm(i)
            \/ Published(i) \/ Refused(i)
  PROVE  Consistent(j)'
<1>. USE DEF Inductive, TypeOK
<1>1. Consistent(i) /\ Consistent(j)
  OBVIOUS
<1>2. CASE i # j
  <2>1. Untouched(j)
    BY <1>2 DEF Untouched, Click, Build, SignAndSend, NotSent, Confirm, Published,
                Refused, Fail, End, Advance
  <2>2. QED
    BY <1>1, <2>1, Frame
<1>3. CASE i = j
  <2>1. CASE Click(i)
    BY <1>1, <1>3, <2>1 DEF Click, Consistent, EscrowState, ClientState, HandlerState,
                            OrderOfEvents
  <2>2. CASE Build(i)
    BY <1>1, <1>3, <2>2 DEF Build, Fail, End, Advance, Consistent, EscrowState, ClientState,
                            HandlerState, OrderOfEvents
  <2>3. CASE SignAndSend(i)
    BY <1>1, <1>3, <2>3 DEF SignAndSend, Fail, End, Advance, Consistent, EscrowState,
                            ClientState, HandlerState, OrderOfEvents
  <2>4. CASE NotSent(i)
    BY <1>1, <1>3, <2>4 DEF NotSent, Fail, End, Advance, Consistent, EscrowState,
                            ClientState, HandlerState, OrderOfEvents
  <2>5. CASE Confirm(i)
    BY <1>1, <1>3, <2>5 DEF Confirm, Fail, End, Advance, Consistent, EscrowState,
                            ClientState, HandlerState, OrderOfEvents
  <2>6. CASE Published(i)
    BY <1>1, <1>3, <2>6 DEF Published, Consistent, EscrowState, ClientState,
                            HandlerState, OrderOfEvents
  <2>7. CASE Refused(i)
    BY <1>1, <1>3, <2>7 DEF Refused, Fail, End, Advance, Consistent, EscrowState,
                            ClientState, HandlerState, OrderOfEvents
  <2>8. QED
    BY <2>1, <2>2, <2>3, <2>4, <2>5, <2>6, <2>7
<1>4. QED
  BY <1>2, <1>3

(* createForm charges once, after it has persisted the form.               *)
LEMMA HandlerConsistent ==
  ASSUME Inductive, NEW i \in Attempts, NEW j \in Attempts,
         Handle(i) \/ AnswerNobody(i)
  PROVE  Consistent(j)'
<1>. USE DEF Inductive, TypeOK, Reach
<1>1. Consistent(i) /\ Consistent(j)
  OBVIOUS
<1>2. CASE i # j
  <2>1. Untouched(j)
    BY <1>2 DEF Untouched, Handle, Verify, Create, Charge, Collect, Record, AnswerNobody
  <2>2. QED
    BY <1>1, <2>1, Frame
<1>3. CASE i = j
  <2>1. CASE Verify(i)
    BY <1>1, <1>3, <2>1 DEF Verify, Consistent, EscrowState, ClientState, HandlerState,
                            OrderOfEvents
  <2>2. CASE Create(i)
    BY <1>1, <1>3, <2>2 DEF Create, Consistent, EscrowState, ClientState, HandlerState,
                            OrderOfEvents
  <2>3. CASE Charge(i)
    BY <1>1, <1>3, <2>3 DEF Charge, Consistent, EscrowState, ClientState, HandlerState,
                            OrderOfEvents
  <2>4. CASE Collect(i)
    BY <1>1, <1>3, <2>4 DEF Collect, Consistent, EscrowState, ClientState, HandlerState,
                            OrderOfEvents
  <2>5. CASE Record(i)
    BY <1>1, <1>3, <2>5 DEF Record, Consistent, EscrowState, ClientState, HandlerState,
                            OrderOfEvents
  <2>6. CASE AnswerNobody(i)
    BY <1>1, <1>3, <2>6 DEF AnswerNobody, Consistent, EscrowState, ClientState,
                            HandlerState, OrderOfEvents
  <2>7. QED
    BY <2>1, <2>2, <2>3, <2>4, <2>5, <2>6 DEF Handle
<1>4. QED
  BY <1>2, <1>3

(* The page and the two crashes; only pc and request change, to values     *)
(* that claim nothing.                                                     *)
LEMMA CrashConsistent ==
  ASSUME Inductive, NEW j \in Attempts,
         OpenBuilder \/ PollBalance \/ LeaveBuilder \/ CloseBrowser \/ BackendCrash
            \/ \E d \in Drafts : Edit(d)
  PROVE  Consistent(j)'
<1>. USE DEF Inductive, TypeOK
<1>1. Consistent(j)
  OBVIOUS
<1>2. CASE CloseBrowser
  BY <1>1, <1>2 DEF CloseBrowser, InFlight, Consistent, EscrowState, ClientState,
                    HandlerState, OrderOfEvents
<1>3. CASE BackendCrash
  BY <1>1, <1>3 DEF BackendCrash, Consistent, EscrowState, ClientState, HandlerState,
                    OrderOfEvents
<1>4. CASE OpenBuilder \/ PollBalance \/ LeaveBuilder \/ \E d \in Drafts : Edit(d)
  <2>1. Untouched(j)
    BY <1>4 DEF Untouched, OpenBuilder, PollBalance, LeaveBuilder, Edit
  <2>2. QED
    BY <1>1, <2>1, Frame
<1>5. QED
  BY <1>2, <1>3, <1>4

(* The chain: an escrow is funded once, a fee is taken once.               *)
LEMMA ChainConsistent ==
  ASSUME Inductive, NEW i \in Attempts, NEW j \in Attempts,
         LandInitialize(i) \/ LandFee(i) \/ Drop(i)
  PROVE  Consistent(j)'
<1>. USE DEF Inductive, TypeOK
<1>1. Consistent(i) /\ Consistent(j)
  OBVIOUS
<1>2. CASE i # j
  <2>1. Untouched(j)
    BY <1>2 DEF Untouched, LandInitialize, InitializeSurveyTx, InitializeSurveySplTx, Opens, LandFee, Drop
  <2>2. QED
    BY <1>1, <2>1, Frame
<1>3. CASE i = j
  <2>1. pick[i] \in Drafts
    OBVIOUS
  <2>2. /\ pick[i].pool \in Nat /\ Rent(pick[i].coin) \in Nat
        /\ FeeOf(pick[i].pool) \in Nat
    BY <2>1, DraftTypes, FeeInPool
  <2>3. CASE LandInitialize(i)
    <3>1. /\ tx[i] = "sent" /\ i \notin registered /\ i \notin recorded
          /\ feeTx[i] = "none"
          /\ vault[i] = 0 /\ deposited[i] = 0 /\ fees[i] = 0
      BY <1>1, <2>3 DEF LandInitialize, Consistent, EscrowState, OrderOfEvents
    <3>2. CASE Affordable(i)
      <4>. DEFINE moved == pick[i].pool + Rent(pick[i].coin)
      <4>1. /\ tx'[i] = "landed" /\ status'[i] = "active" /\ currency'[i] = pick[i].coin
            /\ vault'[i] = moved /\ deposited'[i] = moved /\ fees' = fees
            /\ UNCHANGED <<clientVars, feeTx, serverVars>>
        BY <2>2, <2>3, <3>1, <3>2, LandingOpens DEF Opens
      <4>2. EscrowState(i)'
        BY <2>2, <3>1, <4>1 DEF EscrowState
      <4>3. ClientState(i)' /\ HandlerState(i)' /\ OrderOfEvents(i)'
        BY <1>1, <3>1, <4>1 DEF Consistent, ClientState, HandlerState, OrderOfEvents
      <4>4. QED
        BY <1>3, <4>2, <4>3 DEF Consistent
    <3>3. CASE ~Affordable(i)
      BY <1>1, <1>3, <2>3, <3>1, <3>3 DEF LandInitialize, Consistent, EscrowState,
                                          ClientState, HandlerState, OrderOfEvents
    <3>4. QED
      BY <3>2, <3>3
  <2>4. CASE LandFee(i)
    BY <1>1, <1>3, <2>2, <2>4 DEF LandFee, Consistent, EscrowState, ClientState,
                                  HandlerState, OrderOfEvents
  <2>5. CASE Drop(i)
    BY <1>1, <1>3, <2>5 DEF Drop, Consistent, EscrowState, ClientState, HandlerState,
                            OrderOfEvents
  <2>6. QED
    BY <2>3, <2>4, <2>5
<1>4. QED
  BY <1>2, <1>3

(* Every step keeps the inductive invariant.                               *)
LEMMA StepInductive == Inductive /\ [Next]_vars => Inductive'
<1>. SUFFICES ASSUME Inductive, [Next]_vars PROVE Inductive'
  OBVIOUS
<1>1. TypeOK'
  BY TypesPreserved DEF Inductive
<1>2. ASSUME NEW j \in Attempts PROVE Consistent(j)'
  <2>1. CASE UNCHANGED vars
    <3>1. Untouched(j)
      BY <2>1 DEF vars, Untouched
    <3>2. QED
      BY <3>1, Frame DEF Inductive
  <2>2. QED
    BY <2>1, ClientConsistent, HandlerConsistent, CrashConsistent, ChainConsistent DEF Next
<1>3. QED
  BY <1>1, <1>2 DEF Inductive
-----------------------------------------------------------------------------
(***************************************************************************)
(* The theorems                                                            *)
(***************************************************************************)

(* The inductive invariant holds in every reachable state.                 *)
THEOREM InductiveInvariant == Spec => []Inductive
<1>1. QED
  BY InitInductive, StepInductive, PTL DEF Spec

(* Every reachable state is well typed; in particular no wallet and no     *)
(* escrow is ever overdrawn.                                               *)
THEOREM TypesHold == Spec => []TypeOK
<1>1. Inductive => TypeOK
  BY DEF Inductive
<1>2. QED
  BY <1>1, InductiveInvariant, PTL

(* Every form has its escrow, which covers the net pool.                   *)
THEOREM FormsStayBacked == Spec => []FormsAreBacked
<1>1. Inductive => FormsAreBacked
  <2>. SUFFICES ASSUME Inductive, NEW i \in registered PROVE
         /\ status[i] = "active" /\ currency[i] = pick[i].coin
         /\ deposited[i] = pick[i].pool + Rent(pick[i].coin)
         /\ vault[i] >= NetOf(pick[i].pool) + Rent(pick[i].coin)
    BY DEF FormsAreBacked
  <2>1. i \in Attempts /\ Consistent(i) /\ pick[i] \in Drafts
    BY DEF Inductive, TypeOK
  <2>2. /\ pick[i].pool \in Nat /\ Rent(pick[i].coin) \in Nat
        /\ FeeOf(pick[i].pool) \in Nat
    BY <2>1, DraftTypes, FeeInPool
  <2>3. QED
    BY <2>1, <2>2 DEF Consistent, EscrowState, OrderOfEvents, NetOf
<1>2. QED
  BY <1>1, InductiveInvariant, PTL

(* What the documents say of the fee is what the chain did.                *)
THEOREM FeeLedgerIsSound == Spec => []FeeLedgerSound
<1>1. Inductive => FeeLedgerSound
  BY DEF Inductive, FeeLedgerSound, Consistent, EscrowState, OrderOfEvents
<1>2. QED
  BY <1>1, InductiveInvariant, PTL

(* The creator is not sent to the dashboard without a form.                *)
THEOREM PublishedIsLive == Spec => []PublishedMeansLive
<1>1. Inductive => PublishedMeansLive
  BY DEF Inductive, PublishedMeansLive, Consistent, ClientState
<1>2. QED
  BY <1>1, InductiveInvariant, PTL

(* What happens to the escrow of survey i is a step of the program.        *)
LEMMA EscrowFollowsProgram ==
  ASSUME Inductive, [Next]_vars, NEW i \in Attempts
  PROVE  [Program(i)!Next]_(Program(i)!vars)
<1>1. ASSUME status'[i] = status[i], currency'[i] = currency[i], vault'[i] = vault[i],
             deposited'[i] = deposited[i], fees'[i] = fees[i]
      PROVE  UNCHANGED Program(i)!vars
  BY <1>1 DEF Program!vars, Program!surveyVars, Program!moneyVars
<1>2. CASE UNCHANGED chainVars
  BY <1>1, <1>2
<1>3. ASSUME NEW j \in Attempts, LandInitialize(j) PROVE [Program(i)!Next]_(Program(i)!vars)
  <2>1. CASE j # i \/ ~Affordable(j)
    BY <1>1, <1>3, <2>1 DEF LandInitialize, InitializeSurveyTx, InitializeSurveySplTx, Opens, Inductive, TypeOK
  <2>2. CASE j = i /\ Affordable(i)
    <3>. DEFINE pool == pick[i].pool
                coin == pick[i].coin
    <3>1. pick[i] \in Drafts /\ pool \in {d.pool : d \in Drafts} /\ coin \in Currency
      BY DraftTypes DEF Inductive, TypeOK
    <3>2. status[i] = "absent" /\ currency[i] = "SOL" /\ vault[i] = 0 /\ deposited[i] = 0
      BY <1>3, <2>2 DEF LandInitialize, Inductive, Consistent, EscrowState, OrderOfEvents
    <3>3. /\ status'[i] = "active" /\ currency'[i] = coin
          /\ vault'[i] = vault[i] + (pool + Rent(coin))
          /\ deposited'[i] = deposited[i] + (pool + Rent(coin)) /\ fees' = fees
      BY <1>3, <2>2, LandingOpens DEF Opens, Inductive, TypeOK
    <3>4. MinPool[coin] <= pool /\ pool <= MaxPool[coin]
      BY <2>2 DEF Affordable
    <3>5. pool \in Nat /\ Rent(coin) \in Nat /\ vault[i] \in Nat /\ deposited[i] \in Nat
      BY <3>1, <3>2, DraftTypes
    <3>6. 1 \in {1}
      OBVIOUS
    <3>. HIDE DEF pool, coin
    <3>7. CASE coin = "SOL"
      <4>1. Rent(coin) = RentExempt
        BY <3>7 DEF Rent
      <4>2. Program(i)!InitializeSurvey(pool, 1)
        BY <3>2, <3>3, <3>4, <3>5, <3>7, <4>1, RentAssumption
           DEF Program!InitializeSurvey, Program!OpenSurvey
      <4>3. QED
        BY <3>1, <3>6, <4>2 DEF Program!Next
    <3>8. CASE coin = "SPL"
      <4>1. Rent(coin) = 0
        BY <3>8 DEF Rent
      <4>2. Program(i)!InitializeSurveySpl(pool, 1)
        BY <3>2, <3>3, <3>4, <3>5, <3>8, <4>1
           DEF Program!InitializeSurveySpl, Program!OpenSurvey
      <4>3. QED
        BY <3>1, <3>6, <4>2 DEF Program!Next
    <3>9. QED
      BY <3>1, <3>7, <3>8 DEF Currency
  <2>3. QED
    BY <2>1, <2>2
<1>4. ASSUME NEW j \in Attempts, LandFee(j) PROVE [Program(i)!Next]_(Program(i)!vars)
  <2>. DEFINE charge == FeeOf(pick[i].pool)
              taken == /\ status[i] # "absent" /\ charge > 0 /\ vault[i] >= charge
                       /\ currency[i] = "SOL" =>
                             vault[i] - charge = 0 \/ vault[i] - charge >= RentExempt
  <2>1. CASE j # i \/ ~taken
    BY <1>1, <1>4, <2>1 DEF LandFee, Inductive, TypeOK
  <2>2. CASE j = i /\ taken
    <3>1. PICK f \in FeesCharged : f = charge
      BY DEF Inductive, TypeOK, FeesCharged
    <3>0. "authority" \in Program(i)!Signers
      BY DEF Program!Signers
    <3>2. /\ status[i] # "absent" /\ f > 0 /\ vault[i] >= f
          /\ status'[i] = status[i] /\ currency'[i] = currency[i]
          /\ deposited'[i] = deposited[i]
          /\ vault'[i] = vault[i] - f /\ fees'[i] = fees[i] + f
      BY <1>4, <2>2, <3>1 DEF LandFee, Inductive, TypeOK
    <3>3. currency[i] \in Currency
      BY DEF Inductive, TypeOK
    <3>. HIDE DEF charge
    <3>4. CASE currency[i] = "SOL"
      <4>1. vault[i] - f = 0 \/ vault[i] - f >= RentExempt
        BY <2>2, <3>1, <3>4
      <4>2. Program(i)!CollectFee("authority", f)
        BY <3>2, <3>4, <4>1
           DEF Program!CollectFee, Program!LamportVault, Program!RentOK, Program!TakeFee,
               Program!surveyVars
      <4>3. QED
        BY <4>2, <3>0 DEF Program!Next
    <3>5. CASE currency[i] = "SPL"
      <4>1. Program(i)!CollectFeeSpl("authority", f)
        BY <3>2, <3>5 DEF Program!CollectFeeSpl, Program!TakeFee, Program!surveyVars
      <4>2. QED
        BY <3>0, <4>1 DEF Program!Next
    <3>6. QED
      BY <3>3, <3>4, <3>5 DEF Currency
  <2>3. QED
    BY <2>1, <2>2
<1>5. \/ UNCHANGED chainVars
      \/ \E j \in Attempts : LandInitialize(j) \/ LandFee(j)
  <2>1. CASE UNCHANGED vars
    BY <2>1 DEF vars
  <2>2. CASE OpenBuilder \/ PollBalance \/ LeaveBuilder \/ CloseBrowser \/ BackendCrash
                \/ \E d \in Drafts : Edit(d)
    BY <2>2 DEF OpenBuilder, PollBalance, LeaveBuilder, CloseBrowser, BackendCrash, Edit
  <2>3. CASE \E j \in Attempts : Click(j) \/ Build(j) \/ SignAndSend(j) \/ NotSent(j)
                                    \/ Confirm(j) \/ Published(j) \/ Refused(j)
    BY <2>3 DEF Click, Build, SignAndSend, NotSent, Confirm, Published, Refused
  <2>4. CASE \E j \in Attempts : Handle(j) \/ AnswerNobody(j) \/ Drop(j)
    BY <2>4 DEF Handle, Verify, Create, Charge, Collect, Record, AnswerNobody, Drop
  <2>5. QED
    BY <2>1, <2>2, <2>3, <2>4 DEF Next
<1>6. QED
  BY <1>2, <1>3, <1>4, <1>5

(* Every survey's escrow evolves as the on-chain program allows.           *)
THEOREM EscrowsFollowProgram == Spec => FollowsProgram
<1>1. Init => \A i \in Attempts : Program(i)!Init
  BY DEF Init, Program!Init, Program!Payees
<1>2. Inductive /\ [Next]_vars =>
         [\A i \in Attempts : [Program(i)!Next]_(Program(i)!vars)]_vars
  BY EscrowFollowsProgram
<1>3. QED
  BY <1>1, <1>2, InductiveInvariant, PTL DEF Spec, FollowsProgram
=============================================================================
